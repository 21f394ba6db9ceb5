------------------------- MODULE StudentFileProofs --------------------------
(***************************************************************************)
(* What the operators of StudentFile do to the students of a file, for     *)
(* every file and every range of ids.  The facts about Pack, the copy loop *)
(* of compress_db, rest on ranking: the ranks of the n elements of a       *)
(* finite set of slots are exactly 0..n-1.                                 *)
(***************************************************************************)
EXTENDS StudentFile, FiniteSetTheorems, FunctionTheorems, TLAPS

\* A used slot counts fewer used slots below it than there are.
LEMMA RankRange ==
    ASSUME NEW S \in SUBSET Nat, IsFiniteSet(S), NEW i \in S
    PROVE  Rank(S, i) \in 0..(Cardinality(S) - 1)
<1> DEFINE B == {j \in S : j < i}
<1>1. i \notin B /\ B \in SUBSET S
    OBVIOUS
<1>2. Cardinality(B) <= Cardinality(S) /\ IsFiniteSet(B) /\ B # S
      /\ (Cardinality(S) = Cardinality(B) => S = B)
    BY <1>1, FS_Subset
<1>3. Cardinality(B) \in Nat /\ Cardinality(S) \in Nat
    BY <1>2, FS_CardinalityType
<1> QED
    BY <1>2, <1>3 DEF Rank

\* Of two used slots the later one has the larger rank: compress_db keeps the
\* order of the records.
LEMMA RankIncreases ==
    ASSUME NEW S \in SUBSET Nat, IsFiniteSet(S), NEW i \in S, NEW j \in S, i < j
    PROVE  Rank(S, i) < Rank(S, j)
<1> DEFINE Bi == {l \in S : l < i}
           Bj == {l \in S : l < j}
<1>1. Bi \in SUBSET Bj
    <2>1. i \in Nat /\ j \in Nat /\ \A l \in S : l \in Nat
        OBVIOUS
    <2>2. \A l \in S : l < i => l < j
        BY <2>1
    <2> QED
        BY <2>2
<1>2. i \in Bj /\ i \notin Bi /\ Bj \in SUBSET S
    OBVIOUS
<1>3. IsFiniteSet(Bj)
    BY <1>2, FS_Subset
<1>4. Cardinality(Bi) <= Cardinality(Bj) /\ IsFiniteSet(Bi)
      /\ (Cardinality(Bj) = Cardinality(Bi) => Bj = Bi)
    BY <1>1, <1>3, FS_Subset
<1>5. Cardinality(Bi) \in Nat /\ Cardinality(Bj) \in Nat
    BY <1>3, <1>4, FS_CardinalityType
<1>6. Bi # Bj
    BY <1>2
<1> QED
    BY <1>4, <1>5, <1>6 DEF Rank

\* No two used slots have the same rank.
LEMMA RankInjective ==
    ASSUME NEW S \in SUBSET Nat, IsFiniteSet(S), NEW i \in S, NEW j \in S,
           Rank(S, i) = Rank(S, j)
    PROVE  i = j
<1>1. Rank(S, i) \in Int /\ Rank(S, j) \in Int
    <2>1. Rank(S, i) \in 0..(Cardinality(S) - 1) /\ Rank(S, j) \in 0..(Cardinality(S) - 1)
        BY RankRange
    <2> QED
        BY <2>1
<1>2. ~(i < j)
    BY <1>1, RankIncreases
<1>3. ~(j < i)
    BY <1>1, RankIncreases
<1> QED
    BY <1>2, <1>3

\* Every slot of the compressed file is the rank of a used slot.
LEMMA RankOnto ==
    ASSUME NEW S \in SUBSET Nat, IsFiniteSet(S), NEW k \in 0..(Cardinality(S) - 1)
    PROVE  \E i \in S : Rank(S, i) = k
<1> DEFINE T == 0..(Cardinality(S) - 1)
           F == [i \in S |-> Rank(S, i)]
<1>1. Cardinality(S) \in Nat
    BY FS_CardinalityType
<1>2. F \in [S -> T]
    BY RankRange
<1>3. \A a, b \in S : F[a] = F[b] => a = b
    BY RankInjective
<1>4. F \in Injection(S, T)
    BY <1>2, <1>3, Fun_IsInj
<1>5. IsFiniteSet(T) /\ Cardinality(T) = Cardinality(S)
    <2>1. 0 \in Int /\ Cardinality(S) - 1 \in Int
        BY <1>1
    <2>2. IsFiniteSet(T)
          /\ Cardinality(T) = IF 0 > Cardinality(S) - 1 THEN 0
                              ELSE (Cardinality(S) - 1) - 0 + 1
        BY <2>1, FS_Interval
    <2> QED
        BY <1>1, <2>2
<1>6. F \in Surjection(S, T)
    <2> HIDE DEF F, T
    <2> QED
        BY <1>4, <1>5, FS_Injection
<1>7. \A t \in T : \E i \in S : F[i] = t
    <2> HIDE DEF F, T
    <2> QED
        BY <1>6, Fun_SurjectionProperties
<1> QED
    BY <1>7

\* A slot has at most as many slots below it as its number says: compression
\* moves records towards the start of the file.
LEMMA RankBound ==
    ASSUME NEW S \in SUBSET Nat, NEW i \in S
    PROVE  Rank(S, i) <= i
<1> DEFINE B == {j \in S : j < i}
<1>1. IsFiniteSet(0..(i - 1)) /\ Cardinality(0..(i - 1)) = i
    <2>1. 0 \in Int /\ i - 1 \in Int /\ i \in Nat
        OBVIOUS
    <2> QED
        BY <2>1, FS_Interval
<1>2. B \in SUBSET (0..(i - 1))
    <2>1. i \in Nat /\ \A j \in B : j \in Nat /\ j < i
        OBVIOUS
    <2> HIDE DEF B
    <2> QED
        BY <2>1
<1> QED
    BY <1>1, <1>2, FS_Subset DEF Rank

----------------------------------------------------------------------------
\* The numbers of the used slots of a file are finitely many naturals.
LEMMA UsedSlots ==
    ASSUME NEW f, IsFile(f)
    PROVE  /\ Used(f) \in SUBSET Nat
           /\ Used(f) \in SUBSET (0..MaxId)
           /\ IsFiniteSet(Used(f))
           /\ Cardinality(Used(f)) \in 0..(MaxId + 1)
           /\ DOMAIN f \in SUBSET (0..MaxId)
           /\ \A i \in DOMAIN f : f[i] \in Slot
<1>1. PICK n \in 0..(MaxId + 1) : f \in [0..(n - 1) -> Slot]
    BY DEF IsFile
<1>2. DOMAIN f \in SUBSET (0..MaxId) /\ \A i \in DOMAIN f : f[i] \in Slot
    BY <1>1, RangeAssumption
<1>3. Used(f) \in SUBSET (0..MaxId) /\ Used(f) \in SUBSET Nat
    BY <1>2 DEF Used
<1>4. IsFiniteSet(0..MaxId) /\ Cardinality(0..MaxId) = MaxId + 1
    <2>1. 0 \in Int /\ MaxId \in Nat
        BY RangeAssumption
    <2> QED
        BY <2>1, FS_Interval
<1>5. IsFiniteSet(Used(f)) /\ Cardinality(Used(f)) <= MaxId + 1
    BY <1>3, <1>4, FS_Subset
<1>6. Cardinality(Used(f)) \in Nat
    BY <1>5, FS_CardinalityType
<1> QED
    BY <1>2, <1>3, <1>5, <1>6, RangeAssumption

\* Slot k of the compressed file holds the record of the used slot of rank k.
LEMMA PackSlot ==
    ASSUME NEW f, IsFile(f), NEW k \in DOMAIN Pack(f)
    PROVE  \E i \in Used(f) : Rank(Used(f), i) = k /\ Pack(f)[k] = f[i]
<1>1. k \in 0..(Cardinality(Used(f)) - 1)
    BY DEF Pack
<1>2. \E i \in Used(f) : Rank(Used(f), i) = k
    BY <1>1, UsedSlots, RankOnto
<1>3. Pack(f)[k] = f[CHOOSE i \in Used(f) : Rank(Used(f), i) = k]
    BY <1>1 DEF Pack
<1> QED
    BY <1>2, <1>3

\* The record of a used slot is found in the compressed file at its rank.
LEMMA PackKeeps ==
    ASSUME NEW f, IsFile(f), NEW i \in Used(f)
    PROVE  /\ Rank(Used(f), i) \in DOMAIN Pack(f)
           /\ Pack(f)[Rank(Used(f), i)] = f[i]
<1>1. Rank(Used(f), i) \in 0..(Cardinality(Used(f)) - 1)
    BY UsedSlots, RankRange
<1>2. Rank(Used(f), i) \in DOMAIN Pack(f)
    BY <1>1 DEF Pack
<1>3. PICK j \in Used(f) : /\ Rank(Used(f), j) = Rank(Used(f), i)
                           /\ Pack(f)[Rank(Used(f), i)] = f[j]
    BY <1>2, PackSlot
<1>4. i = j
    BY <1>3, UsedSlots, RankInjective
<1> QED
    BY <1>2, <1>3, <1>4

\* Compression yields a file all of whose slots are used.
LEMMA PackIsFile ==
    ASSUME NEW f, IsFile(f)
    PROVE  IsFile(Pack(f)) /\ Used(Pack(f)) = DOMAIN Pack(f)
<1>1. \A k \in DOMAIN Pack(f) : Pack(f)[k] \in Slot /\ Pack(f)[k] # EMPTY
    <2> TAKE k \in DOMAIN Pack(f)
    <2>1. PICK i \in Used(f) : Pack(f)[k] = f[i]
        BY PackSlot
    <2> QED
        BY <2>1, UsedSlots DEF Used
<1>2. Pack(f) \in [0..(Cardinality(Used(f)) - 1) -> Slot]
    BY <1>1 DEF Pack
<1>3. Cardinality(Used(f)) \in 0..(MaxId + 1)
    BY UsedSlots
<1> QED
    BY <1>1, <1>2, <1>3 DEF IsFile, Used

\* Compression neither loses nor invents a student.
THEOREM PackKeepsStudents ==
    ASSUME NEW f, IsFile(f)
    PROVE  StudentsIn(Pack(f)) = StudentsIn(f)
<1>1. ASSUME NEW s \in StudentsIn(f) PROVE s \in StudentsIn(Pack(f))
    <2>1. PICK i \in Used(f) : s = f[i]
        BY DEF StudentsIn
    <2>2. Rank(Used(f), i) \in Used(Pack(f)) /\ s = Pack(f)[Rank(Used(f), i)]
        BY <2>1, PackKeeps, PackIsFile
    <2> QED
        BY <2>2 DEF StudentsIn
<1>2. ASSUME NEW s \in StudentsIn(Pack(f)) PROVE s \in StudentsIn(f)
    <2>1. PICK k \in DOMAIN Pack(f) : s = Pack(f)[k]
        BY PackIsFile DEF StudentsIn
    <2>2. PICK i \in Used(f) : Pack(f)[k] = f[i]
        BY <2>1, PackSlot
    <2> QED
        BY <2>1, <2>2 DEF StudentsIn
<1> QED
    BY <1>1, <1>2

----------------------------------------------------------------------------
\* Writing a record at the slot of an id, beyond the end of the file or not,
\* yields a file.
LEMMA WriteIsFile ==
    ASSUME NEW f, IsFile(f), NEW i \in 0..MaxId, NEW r \in Slot
    PROVE  IsFile(WriteAt(f, i, r))
<1>1. PICK n \in 0..(MaxId + 1) : f \in [0..(n - 1) -> Slot]
    BY DEF IsFile
<1> DEFINE m == IF i < n THEN n ELSE i + 1
<1>2. m \in 0..(MaxId + 1) /\ 0..(m - 1) = 0..(n - 1) \cup 0..i
    BY RangeAssumption
<1>3. WriteAt(f, i, r) \in [0..(m - 1) -> Slot]
    BY <1>1, <1>2 DEF WriteAt, Slot
<1> QED
    BY <1>2, <1>3 DEF IsFile

\* Only the slot written changes, and the holes the write leaves are unused.
LEMMA WriteUsed ==
    ASSUME NEW f, IsFile(f), NEW i \in 0..MaxId, NEW r \in Slot
    PROVE  /\ i \in DOMAIN WriteAt(f, i, r)
           /\ WriteAt(f, i, r)[i] = r
           /\ Used(WriteAt(f, i, r)) \ {i} = Used(f) \ {i}
           /\ \A j \in Used(f) \ {i} : WriteAt(f, i, r)[j] = f[j]
           /\ i \in Used(WriteAt(f, i, r)) <=> r # EMPTY
    BY DEF WriteAt, Used

\* Pack(f) is the only array in which each used record of f sits at its rank.
LEMMA PackUnique ==
    ASSUME NEW f, IsFile(f), NEW g,
           g = [k \in DOMAIN g |-> g[k]],
           DOMAIN g = 0..(Cardinality(Used(f)) - 1),
           \A i \in Used(f) : g[Rank(Used(f), i)] = f[i]
    PROVE  g = Pack(f)
<1>1. DOMAIN Pack(f) = DOMAIN g
    BY DEF Pack
<1>2. ASSUME NEW k \in DOMAIN g
      PROVE  g[k] = Pack(f)[k]
    <2>1. PICK i \in Used(f) : Rank(Used(f), i) = k /\ Pack(f)[k] = f[i]
        BY <1>1, PackSlot
    <2> QED
        BY <2>1
<1>3. Pack(f) = [k \in DOMAIN Pack(f) |-> Pack(f)[k]]
    BY DEF Pack
<1> QED
    BY <1>1, <1>2, <1>3

\* What Pack makes of a file depends on its used slots only.
LEMMA PackSame ==
    ASSUME NEW f, IsFile(f), NEW g, IsFile(g),
           Used(f) = Used(g), \A i \in Used(f) : f[i] = g[i]
    PROVE  Pack(f) = Pack(g)
<1>1. \A i \in Used(g) : Pack(f)[Rank(Used(g), i)] = g[i]
    BY PackKeeps
<1>2. /\ DOMAIN Pack(f) = 0..(Cardinality(Used(g)) - 1)
      /\ Pack(f) = [k \in DOMAIN Pack(f) |-> Pack(f)[k]]
    BY DEF Pack
<1> QED
    BY <1>1, <1>2, PackUnique

\* The first k slots of a file.
Prefix(f, k) == [j \in {j \in DOMAIN f : j < k} |-> f[j]]

LEMMA PrefixIsFile ==
    ASSUME NEW f, IsFile(f), NEW k \in 0..(MaxId + 1)
    PROVE  /\ IsFile(Prefix(f, k))
           /\ Used(Prefix(f, k)) = {i \in Used(f) : i < k}
           /\ \A i \in Used(Prefix(f, k)) : Prefix(f, k)[i] = f[i]
           /\ k \notin DOMAIN f => Prefix(f, k) = f
<1>1. PICK n \in 0..(MaxId + 1) : f \in [0..(n - 1) -> Slot]
    BY DEF IsFile
<1> DEFINE m == IF k < n THEN k ELSE n
<1>2. {j \in DOMAIN f : j < k} = 0..(m - 1)
    BY <1>1, RangeAssumption
<1>3. m \in 0..(MaxId + 1)
    BY <1>1
<1>4. Prefix(f, k) \in [0..(m - 1) -> Slot]
    BY <1>1, <1>2 DEF Prefix
<1>5. IsFile(Prefix(f, k))
    BY <1>3, <1>4 DEF IsFile
<1>6. /\ Used(Prefix(f, k)) = {i \in Used(f) : i < k}
      /\ \A i \in Used(Prefix(f, k)) : Prefix(f, k)[i] = f[i]
    BY DEF Prefix, Used
<1>7. ASSUME k \notin DOMAIN f
      PROVE  Prefix(f, k) = f
    <2>1. {j \in DOMAIN f : j < k} = DOMAIN f
        BY <1>1, <1>7, RangeAssumption
    <2>2. f = [j \in DOMAIN f |-> f[j]]
        BY <1>1
    <2> QED
        BY <2>1, <2>2 DEF Prefix
<1> QED
    BY <1>5, <1>6, <1>7

\* Copying a file record by record, its empty slots left out, makes Pack of it:
\* one turn of the copy loop at slot k.
LEMMA PackNext ==
    ASSUME NEW f, IsFile(f), NEW k \in DOMAIN f
    PROVE  LET h == Prefix(f, k) c == Cardinality(Used(h)) g == Prefix(f, k + 1) IN
           /\ f[k] = EMPTY => Pack(g) = Pack(h) /\ Cardinality(Used(g)) = c
           /\ f[k] # EMPTY => Pack(g) = WriteAt(Pack(h), c, f[k]) /\ Cardinality(Used(g)) = c + 1
<1> DEFINE h == Prefix(f, k)
           c == Cardinality(Used(h))
           g == Prefix(f, k + 1)
<1>1. k \in 0..MaxId /\ k \in 0..(MaxId + 1) /\ k + 1 \in 0..(MaxId + 1)
    BY UsedSlots, RangeAssumption
<1>2. /\ IsFile(h) /\ Used(h) = {i \in Used(f) : i < k}
      /\ \A i \in Used(h) : h[i] = f[i]
    BY <1>1, PrefixIsFile
<1>3. /\ IsFile(g) /\ Used(g) = {i \in Used(f) : i < k + 1}
      /\ \A i \in Used(g) : g[i] = f[i]
    BY <1>1, PrefixIsFile
<1>4. Used(f) \in SUBSET Nat
    BY UsedSlots
<1>5. k \in Used(f) <=> f[k] # EMPTY
    BY DEF Used
<1> HIDE DEF h, g
<1>6. CASE f[k] = EMPTY
    <2>1. Used(g) = Used(h)
        BY <1>1, <1>2, <1>3, <1>4, <1>5, <1>6
    <2>2. Pack(g) = Pack(h)
        BY <1>2, <1>3, <2>1, PackSame
    <2> QED
        BY <1>6, <2>1, <2>2 DEF h, g
<1>7. CASE f[k] # EMPTY
    <2>1. Used(g) = Used(h) \cup {k} /\ k \notin Used(h)
        BY <1>1, <1>2, <1>3, <1>4, <1>5, <1>7
    <2>2. IsFiniteSet(Used(h)) /\ c \in 0..(MaxId + 1)
        BY <1>2, UsedSlots
    <2>3. Cardinality(Used(g)) = c + 1
        BY <2>1, <2>2, FS_AddElement
    <2>4. \A i \in Used(h) : Rank(Used(g), i) = Rank(Used(h), i) /\ Rank(Used(h), i) \in 0..(c - 1)
        <3>1. ASSUME NEW i \in Used(h)
              PROVE  {j \in Used(g) : j < i} = {j \in Used(h) : j < i}
            BY <1>1, <1>2, <1>4, <2>1
        <3>2. Used(h) \in SUBSET Nat
            BY <1>2, UsedSlots
        <3> QED
            BY <2>2, <3>1, <3>2, RankRange DEF Rank
    <2>5. Rank(Used(g), k) = c
        <3>1. {j \in Used(g) : j < k} = Used(h)
            BY <1>1, <1>2, <1>4, <2>1
        <3> QED
            BY <3>1 DEF Rank
    <2> DEFINE w == WriteAt(Pack(h), c, f[k])
    <2>6. DOMAIN Pack(h) = 0..(c - 1)
        BY DEF Pack
    <2>7. /\ DOMAIN w = 0..c /\ w[c] = f[k]
          /\ \A n \in 0..(c - 1) : w[n] = Pack(h)[n]
          /\ w = [n \in DOMAIN w |-> w[n]]
        <3> HIDE DEF c
        <3> QED
            BY <2>2, <2>6 DEF WriteAt
    <2>8. ASSUME NEW i \in Used(g)
          PROVE  w[Rank(Used(g), i)] = g[i]
        <3> HIDE DEF w, c
        <3>1. CASE i = k
            BY <1>3, <2>5, <2>7, <3>1
        <3>2. CASE i # k
            <4>1. i \in Used(h) /\ h[i] = g[i]
                BY <1>2, <1>3, <2>1, <3>2
            <4>2. Pack(h)[Rank(Used(h), i)] = h[i]
                BY <1>2, <4>1, PackKeeps
            <4> QED
                BY <2>4, <2>7, <4>1, <4>2
        <3> QED
            BY <3>1, <3>2
    <2>9. w = Pack(g)
        <3>1. DOMAIN w = 0..(Cardinality(Used(g)) - 1)
            <4> HIDE DEF w, c
            <4> QED
                BY <2>2, <2>3, <2>7
        <3>2. /\ w = [n \in DOMAIN w |-> w[n]]
              /\ \A i \in Used(g) : w[Rank(Used(g), i)] = g[i]
            BY <2>7, <2>8
        <3> HIDE DEF w
        <3> QED
            BY <1>3, <3>1, <3>2, PackUnique, Zenon
    <2> QED
        BY <1>7, <2>3, <2>9 DEF h, g
<1> QED
    BY <1>6, <1>7

\* A packed file has no empty slot and is packed.
LEMMA PackTwice ==
    ASSUME NEW f, IsFile(f)
    PROVE  /\ Pack(Pack(f)) = Pack(f)
           /\ Cardinality(Used(Pack(f))) = Cardinality(Used(f))
<1> DEFINE g == Pack(f)
           c == Cardinality(Used(f))
<1>1. IsFile(g) /\ Used(g) = DOMAIN g
    BY PackIsFile
<1>2. DOMAIN g = 0..(c - 1) /\ g = [n \in DOMAIN g |-> g[n]]
    BY DEF Pack
<1>3. c \in 0..(MaxId + 1)
    BY UsedSlots
<1> HIDE DEF g, c
<1>4. Cardinality(0..(c - 1)) = c
    BY <1>3, FS_Interval, RangeAssumption
<1>5. ASSUME NEW i \in Used(g)
      PROVE  Rank(Used(g), i) = i
    <2>1. i \in 0..(c - 1) /\ {j \in Used(g) : j < i} = 0..(i - 1)
        BY <1>1, <1>2, <1>3, <1>5
    <2>2. Cardinality(0..(i - 1)) = i
        BY <1>3, <2>1, FS_Interval
    <2> QED
        BY <2>1, <2>2 DEF Rank
<1>6. g = Pack(g)
    BY <1>1, <1>2, <1>4, <1>5, PackUnique
<1> QED
    BY <1>1, <1>2, <1>4, <1>6 DEF g, c

\* Two files with the same used records in the same order answer get_student
\* alike: what it finds first in one is what it finds first in the other.
LEMMA PackFindsSame ==
    ASSUME NEW f, IsFile(f), NEW g, IsFile(g), Pack(f) = Pack(g),
           NEW i \in DOMAIN f, f[i].id # 0,
           \A j \in DOMAIN f : j < i => f[j].id # f[i].id
    PROVE  Exists(g, f[i].id) /\ GetStudent(g, f[i].id) = f[i]
<1> DEFINE id == f[i].id
           F == Used(f)
           G == Used(g)
<1>1. /\ F \in SUBSET Nat /\ IsFiniteSet(F)
      /\ G \in SUBSET Nat /\ IsFiniteSet(G)
      /\ \A j \in DOMAIN f : f[j].id # 0 => j \in F
      /\ \A j \in DOMAIN g : g[j].id # 0 => j \in G
      /\ F \subseteq DOMAIN f /\ G \subseteq DOMAIN g
    BY UsedSlots DEF Used, EMPTY
<1>2. i \in F
    BY <1>1
<1>3. PICK k \in G : Rank(G, k) = Rank(F, i) /\ g[k] = f[i]
    <2>1. Rank(F, i) \in DOMAIN Pack(g) /\ Pack(g)[Rank(F, i)] = f[i]
        BY <1>2, PackKeeps
    <2> QED
        BY <2>1, PackSlot
<1>4. ASSUME NEW j \in DOMAIN g, g[j].id = id
      PROVE  k <= j
    <2>1. j \in G
        BY <1>1, <1>4
    <2>2. PICK l \in F : Rank(F, l) = Rank(G, j) /\ f[l] = g[j]
        <3>1. Rank(G, j) \in DOMAIN Pack(f) /\ Pack(f)[Rank(G, j)] = g[j]
            BY <2>1, PackKeeps
        <3> QED
            BY <3>1, PackSlot
    <2>3. i <= l
        BY <1>1, <1>2, <1>4, <2>2
    <2>4. Rank(F, i) <= Rank(F, l)
        <3>1. CASE i = l
            <4>1. Rank(F, i) \in Int
                BY <1>1, <1>2, RankRange, FS_CardinalityType
            <4> QED
                BY <3>1, <4>1
        <3>2. CASE i < l
            <4>1. Rank(F, i) < Rank(F, l)
                BY <1>1, <1>2, <3>2, RankIncreases
            <4>2. Rank(F, i) \in Int /\ Rank(F, l) \in Int
                BY <1>1, <1>2, RankRange, FS_CardinalityType
            <4> QED
                BY <4>1, <4>2
        <3> QED
            BY <1>1, <1>2, <2>3, <3>1, <3>2
    <2>5. ~(j < k)
        <3> SUFFICES ASSUME j < k
                     PROVE  FALSE
            OBVIOUS
        <3>1. Rank(G, j) < Rank(G, k)
            BY <1>1, <2>1, RankIncreases
        <3>2. Rank(G, j) \in Int /\ Rank(G, k) \in Int
            BY <1>1, <2>1, RankRange, FS_CardinalityType
        <3> QED
            BY <1>3, <2>2, <2>4, <3>1, <3>2
    <2> QED
        BY <1>1, <2>1, <2>5
<1>5. k \in DOMAIN g /\ g[k].id = id
    BY <1>1, <1>3
<1>6. FirstSlot(g, id) = k
    <2>1. /\ FirstSlot(g, id) \in DOMAIN g
          /\ g[FirstSlot(g, id)].id = id
          /\ \A j \in DOMAIN g : g[j].id = id => FirstSlot(g, id) <= j
        BY <1>4, <1>5 DEF FirstSlot
    <2>2. FirstSlot(g, id) \in Nat
        BY <1>1, <2>1
    <2> QED
        BY <1>1, <1>4, <1>5, <2>1, <2>2
<1> QED
    BY <1>3, <1>5, <1>6 DEF Exists, GetStudent

=============================================================================
