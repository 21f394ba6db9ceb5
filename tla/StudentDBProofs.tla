-------------------------- MODULE StudentDBProofs --------------------------
(***************************************************************************)
(* The safety of StudentDB for every range of ids and every argument a     *)
(* user may type.  With -x among the commands the inductive invariant is   *)
(* FileInv; without it, HomeInv, under which sdbsc implements the          *)
(* registry.                                                               *)
(***************************************************************************)
EXTENDS StudentDB, StudentFileProofs

\* That file is well-formed and the two facts about it support each other:
\* compression keeps ids distinct, and only because every record is at or below
\* the slot of its id does compression keep it there.
FileInv == IsFile(file) /\ NoDuplicateIds /\ NeverAboveHome

\* In place: every student in the slot of its id.
HomeInv == IsFile(file) /\ AtHome

LEMMA IdsInRange ==
    ASSUME IsFile(file)
    PROVE  /\ \A i \in DOMAIN file : file[i].id \in 0..MaxId
           /\ \A i \in Used(file) : file[i] \in Student /\ file[i].id \in StudentIds
           /\ \A id : Exists(file, id) => id \in 0..MaxId
<1>1. \A i \in DOMAIN file : file[i] \in Student \cup {EMPTY}
    BY UsedSlots DEF Slot
<1>2. \A i \in DOMAIN file : file[i].id \in 0..MaxId
    BY <1>1, RangeAssumption DEF Student, StudentIds, EMPTY
<1>3. \A i \in Used(file) : file[i] \in Student /\ file[i].id \in StudentIds
    BY <1>1 DEF Used, Student
<1> QED
    BY <1>2, <1>3 DEF Exists

\* What a write to the slot of an id leaves of FileInv: the id it writes must be
\* new and its own slot is high enough for any record.
LEMMA WriteKeepsFileInv ==
    ASSUME FileInv, NEW id \in 0..MaxId, NEW r \in Slot,
           file' = WriteAt(file, id, r),
           \/ r = EMPTY
           \/ r.id = id /\ ~Exists(file, id)
    PROVE  FileInv'
<1>1. IsFile(file')
    BY WriteIsFile DEF FileInv
<1>2. /\ file'[id] = r
      /\ Used(file') \ {id} = Used(file) \ {id}
      /\ \A j \in Used(file) \ {id} : file'[j] = file[j]
      /\ id \in Used(file') <=> r # EMPTY
    BY WriteUsed DEF FileInv
<1>3. NoDuplicateIds'
    <2> SUFFICES ASSUME NEW i \in Used(file'), NEW j \in Used(file'),
                        file'[i].id = file'[j].id
                 PROVE  i = j
        BY DEF NoDuplicateIds
    <2>1. CASE i = id /\ j # id
        <3>1. j \in DOMAIN file /\ file[j].id = id
            BY <1>2, <2>1 DEF Used
        <3> QED
            BY <1>2, <2>1, <3>1 DEF Exists
    <2>2. CASE j = id /\ i # id
        <3>1. i \in DOMAIN file /\ file[i].id = id
            BY <1>2, <2>2 DEF Used
        <3> QED
            BY <1>2, <2>2, <3>1 DEF Exists
    <2>3. CASE i # id /\ j # id
        BY <1>2, <2>3 DEF FileInv, NoDuplicateIds
    <2> QED
        BY <2>1, <2>2, <2>3
<1>4. NeverAboveHome'
    <2> SUFFICES ASSUME NEW i \in Used(file')
                 PROVE  i <= file'[i].id
        BY DEF NeverAboveHome
    <2>1. CASE i = id
        BY <1>2, <2>1
    <2>2. CASE i # id
        BY <1>2, <2>2 DEF FileInv, NeverAboveHome
    <2> QED
        BY <2>1, <2>2
<1> QED
    BY <1>1, <1>3, <1>4 DEF FileInv

\* Compression preserves FileInv: ranks of used slots are distinct and no
\* larger than the slots.
LEMMA PackKeepsFileInv ==
    ASSUME FileInv, file' = Pack(file)
    PROVE  FileInv'
<1>1. IsFile(file') /\ Used(file') = DOMAIN file'
    BY PackIsFile DEF FileInv
<1>2. \A k \in Used(file') :
         \E i \in Used(file) : Rank(Used(file), i) = k /\ file'[k] = file[i]
    BY <1>1, PackSlot DEF FileInv
<1>3. NoDuplicateIds'
    <2> SUFFICES ASSUME NEW k \in Used(file'), NEW l \in Used(file'),
                        file'[k].id = file'[l].id
                 PROVE  k = l
        BY DEF NoDuplicateIds
    <2>1. PICK i \in Used(file) : Rank(Used(file), i) = k /\ file'[k] = file[i]
        BY <1>2
    <2>2. PICK j \in Used(file) : Rank(Used(file), j) = l /\ file'[l] = file[j]
        BY <1>2
    <2> QED
        BY <2>1, <2>2 DEF FileInv, NoDuplicateIds
<1>4. NeverAboveHome'
    <2> SUFFICES ASSUME NEW k \in Used(file')
                 PROVE  k <= file'[k].id
        BY DEF NeverAboveHome
    <2>1. PICK i \in Used(file) : Rank(Used(file), i) = k /\ file'[k] = file[i]
        BY <1>2
    <2>2. k <= i /\ i <= file[i].id
        BY <2>1, UsedSlots, RankBound DEF FileInv, NeverAboveHome
    <2>3. k \in Nat /\ i \in Nat /\ file[i].id \in Nat
        BY <1>1, <2>1, UsedSlots, PackIsFile, IdsInRange DEF FileInv, StudentIds
    <2> QED
        BY <2>1, <2>2, <2>3
<1> QED
    BY <1>1, <1>3, <1>4 DEF FileInv

LEMMA EmptyIsFile == IsFile(EmptyFile) /\ Used(EmptyFile) = {}
<1>1. EmptyFile \in [0..(0 - 1) -> Slot]
    BY DEF EmptyFile
<1>2. 0 \in 0..(MaxId + 1)
    BY RangeAssumption
<1> QED
    BY <1>1, <1>2 DEF IsFile, Used, EmptyFile

LEMMA FileInvInit == Init => FileInv
    BY EmptyIsFile DEF Init, FileInv, NoDuplicateIds, NeverAboveHome

\* One step per command: only -a, -d, -x and -z change the file.
LEMMA FileInvStep == FileInv /\ [Next]_vars => FileInv'
<1> SUFFICES ASSUME FileInv, [Next]_vars PROVE FileInv'
    OBVIOUS
<1>1. CASE UNCHANGED file
    BY <1>1 DEF FileInv, NoDuplicateIds, NeverAboveHome
<1>2. ASSUME NEW id \in ArgIds, NEW gpa \in ArgGpas, Add(id, gpa)
      PROVE  FileInv'
    <2>1. CASE UNCHANGED file
        BY <1>1, <2>1
    <2>2. CASE InRange(id, gpa) /\ ~Exists(file, id)
               /\ file' = WriteAt(file, id, [id |-> id, gpa |-> gpa])
        <3>1. [id |-> id, gpa |-> gpa] \in Slot /\ id \in 0..MaxId
            BY <2>2 DEF InRange, Slot, Student, StudentIds
        <3> QED
            BY <2>2, <3>1, WriteKeepsFileInv
    <2> QED
        BY <1>2, <2>1, <2>2 DEF Add
<1>3. ASSUME NEW id \in ArgIds, Del(id)
      PROVE  FileInv'
    <2>1. CASE UNCHANGED file
        BY <1>1, <2>1
    <2>2. CASE Exists(file, id) /\ file' = WriteAt(file, id, EMPTY)
        <3>1. id \in 0..MaxId /\ EMPTY \in Slot
            BY <2>2, IdsInRange DEF FileInv, Slot
        <3> QED
            BY <2>2, <3>1, WriteKeepsFileInv
    <2> QED
        BY <1>3, <2>1, <2>2 DEF Del
<1>4. CASE Compress
    BY <1>4, PackKeepsFileInv DEF Compress
<1>5. CASE Zero
    BY <1>5, EmptyIsFile DEF Zero, FileInv, NoDuplicateIds, NeverAboveHome
<1>6. ASSUME NEW id \in ArgIds, Find(id)
      PROVE  FileInv'
    BY <1>1, <1>6 DEF Find
<1>7. CASE Count \/ PrintAll \/ Usage \/ Die
    BY <1>1, <1>7 DEF Count, PrintAll, Usage, Die
<1>8. CASE UNCHANGED vars
    BY <1>1, <1>8 DEF vars
<1> QED
    BY <1>2, <1>3, <1>4, <1>5, <1>6, <1>7, <1>8 DEF Next, NextInPlace

LEMMA FileInvariant == Spec => []FileInv
    BY FileInvInit, FileInvStep, PTL DEF Spec

\* The file is always an array of records no longer than the largest id needs,
\* and every command leaves one of the three exit codes.
THEOREM TypeCorrect == Spec => []TypeOK
<1> DEFINE OutOK == /\ out.op \in {"none", "a", "d", "f", "c", "p", "x", "z", "h", "?"}
                    /\ out.exit \in {-1, EXIT_OK, EXIT_FAIL_DB, EXIT_FAIL_ARGS}
<1>1. Killed.op = "none" /\ Killed.exit = -1
    BY DEF Killed, Say, Reply
<1>2. Init => OutOK
    BY <1>1 DEF Init
<1>3. OutOK /\ [Next]_vars => OutOK'
    <2> SUFFICES ASSUME OutOK, [Next]_vars PROVE OutOK'
        OBVIOUS
    <2> USE DEF Say, Reply, Tell, List, EXIT_OK, EXIT_FAIL_DB, EXIT_FAIL_ARGS
    <2>1. ASSUME NEW id \in ArgIds, NEW gpa \in ArgGpas, Add(id, gpa) PROVE OutOK'
        BY <2>1 DEF Add
    <2>2. ASSUME NEW id \in ArgIds, Del(id) PROVE OutOK'
        BY <2>2 DEF Del
    <2>3. ASSUME NEW id \in ArgIds, Find(id) PROVE OutOK'
        BY <2>3 DEF Find
    <2>4. ASSUME Count PROVE OutOK'
        BY <2>4 DEF Count
    <2>5. ASSUME PrintAll PROVE OutOK'
        BY <2>5 DEF PrintAll
    <2>6. ASSUME Compress \/ Zero \/ Usage PROVE OutOK'
        BY <2>6 DEF Compress, Zero, Usage
    <2>7. ASSUME Die \/ UNCHANGED vars PROVE OutOK'
        BY <1>1, <2>7 DEF Die, vars
    <2> QED
        BY <2>1, <2>2, <2>3, <2>4, <2>5, <2>6, <2>7 DEF Next, NextInPlace
<1>4. FileInv /\ OutOK => TypeOK
    BY DEF FileInv, TypeOK
<1> HIDE DEF OutOK
<1> QED
    BY <1>2, <1>3, <1>4, FileInvariant, PTL DEF Spec

\* No sequence of commands, compressions included, ever stores two records of
\* one id: what get_student finds first is all there is.
THEOREM IdsStayUnique == Spec => []NoDuplicateIds
    BY FileInvariant, PTL DEF FileInv

\* A record is never above the slot of its id, however often the file was
\* compressed.
THEOREM RecordsOnlyMoveDown == Spec => []NeverAboveHome
    BY FileInvariant, PTL DEF FileInv

----------------------------------------------------------------------------
\* The only record a write to the slot of id can destroy is the one in it.
LEMMA WriteLosesSlot ==
    ASSUME FileInv, NEW id \in 0..MaxId, NEW r \in Slot,
           file' = WriteAt(file, id, r),
           NEW s \in StudentsIn(file) \ StudentsIn(file')
    PROVE  id \in Used(file) /\ s = file[id]
<1>1. /\ Used(file') \ {id} = Used(file) \ {id}
      /\ \A j \in Used(file) \ {id} : file'[j] = file[j]
    BY WriteUsed DEF FileInv
<1>2. PICK i \in Used(file) : s = file[i]
    BY DEF StudentsIn
<1>3. i = id
    <2> SUFFICES ASSUME i # id PROVE FALSE
        OBVIOUS
    <2>1. i \in Used(file') /\ s = file'[i]
        BY <1>1, <1>2
    <2> QED
        BY <2>1 DEF StudentsIn
<1> QED
    BY <1>2, <1>3

\* Adding and deleting write slot id whatever it holds.  After a compression
\* this can destroy another student, but only one of a larger id.
THEOREM LossOnlyUpward == Spec => LossIsUpward
<1> DEFINE A == \A s \in StudentsIn(file) \ StudentsIn(file') :
                   out'.op = "z" \/ (out'.op \in {"a", "d"} /\ s.id >= out'.id)
<1>1. FileInv /\ [Next]_vars => [A]_vars
    <2> SUFFICES ASSUME FileInv, Next,
                        NEW s \in StudentsIn(file) \ StudentsIn(file')
                 PROVE  out'.op = "z" \/ (out'.op \in {"a", "d"} /\ s.id >= out'.id)
        OBVIOUS
    <2>1. file' # file
        OBVIOUS
    <2>2. ASSUME NEW id \in 0..MaxId, NEW r \in Slot, file' = WriteAt(file, id, r)
          PROVE  s.id >= id
        <3>1. id \in Used(file) /\ s = file[id]
            BY <2>2, WriteLosesSlot
        <3>2. id <= file[id].id /\ file[id].id \in 0..MaxId
            BY <3>1, IdsInRange DEF FileInv, NeverAboveHome, Used
        <3> QED
            BY <3>1, <3>2
    <2>3. ASSUME NEW id \in ArgIds, NEW gpa \in ArgGpas, Add(id, gpa)
          PROVE  out'.op = "a" /\ s.id >= out'.id
        <3>1. /\ InRange(id, gpa)
              /\ file' = WriteAt(file, id, [id |-> id, gpa |-> gpa])
              /\ out'.op = "a" /\ out'.id = id
            BY <2>1, <2>3 DEF Add, Say, Reply
        <3>2. [id |-> id, gpa |-> gpa] \in Slot /\ id \in 0..MaxId
            BY <3>1 DEF InRange, Slot, Student, StudentIds
        <3> QED
            BY <2>2, <3>1, <3>2
    <2>4. ASSUME NEW id \in ArgIds, Del(id)
          PROVE  out'.op = "d" /\ s.id >= out'.id
        <3>1. /\ Exists(file, id)
              /\ file' = WriteAt(file, id, EMPTY)
              /\ out'.op = "d" /\ out'.id = id
            BY <2>1, <2>4 DEF Del, Say, Reply
        <3>2. id \in 0..MaxId /\ EMPTY \in Slot
            BY <3>1, IdsInRange DEF FileInv, Slot
        <3> QED
            BY <2>2, <3>1, <3>2
    <2>5. ~Compress
        BY PackKeepsStudents DEF Compress, FileInv
    <2>6. ASSUME NEW id \in ArgIds PROVE ~Find(id)
        BY <2>1 DEF Find
    <2>7. ~(Count \/ PrintAll \/ Usage \/ Die)
        BY <2>1 DEF Count, PrintAll, Usage, Die
    <2>8. CASE Zero
        BY <2>8 DEF Zero, Say, Reply
    <2> QED
        BY <2>3, <2>4, <2>5, <2>6, <2>7, <2>8 DEF Next, NextInPlace
<1> QED
    BY <1>1, FileInvariant, PTL DEF Spec, LossIsUpward

----------------------------------------------------------------------------
(* A database that is never compressed *)

\* Writing to the slot of id a record of that id, or EMPTY, keeps every student
\* at home.
LEMMA WriteKeepsHomeInv ==
    ASSUME HomeInv, NEW id \in 0..MaxId, NEW r \in Slot,
           file' = WriteAt(file, id, r),
           r = EMPTY \/ r.id = id
    PROVE  HomeInv'
<1>1. IsFile(file')
    BY WriteIsFile DEF HomeInv
<1>2. /\ file'[id] = r
      /\ Used(file') \ {id} = Used(file) \ {id}
      /\ \A j \in Used(file) \ {id} : file'[j] = file[j]
      /\ id \in Used(file') <=> r # EMPTY
    BY WriteUsed DEF HomeInv
<1> QED
    BY <1>1, <1>2 DEF HomeInv, AtHome

LEMMA HomeInvStep == HomeInv /\ [NextInPlace]_vars => HomeInv'
<1> SUFFICES ASSUME HomeInv, [NextInPlace]_vars PROVE HomeInv'
    OBVIOUS
<1>1. CASE UNCHANGED file
    BY <1>1 DEF HomeInv, AtHome
<1>2. ASSUME NEW id \in ArgIds, NEW gpa \in ArgGpas, Add(id, gpa)
      PROVE  HomeInv'
    <2>1. CASE UNCHANGED file
        BY <1>1, <2>1
    <2>2. CASE InRange(id, gpa) /\ file' = WriteAt(file, id, [id |-> id, gpa |-> gpa])
        <3>1. [id |-> id, gpa |-> gpa] \in Slot /\ id \in 0..MaxId
            BY <2>2 DEF InRange, Slot, Student, StudentIds
        <3> QED
            BY <2>2, <3>1, WriteKeepsHomeInv
    <2> QED
        BY <1>2, <2>1, <2>2 DEF Add
<1>3. ASSUME NEW id \in ArgIds, Del(id)
      PROVE  HomeInv'
    <2>1. CASE UNCHANGED file
        BY <1>1, <2>1
    <2>2. CASE Exists(file, id) /\ file' = WriteAt(file, id, EMPTY)
        <3>1. id \in 0..MaxId /\ EMPTY \in Slot
            BY <2>2, IdsInRange DEF HomeInv, Slot
        <3> QED
            BY <2>2, <3>1, WriteKeepsHomeInv
    <2> QED
        BY <1>3, <2>1, <2>2 DEF Del
<1>4. CASE Zero
    BY <1>4, EmptyIsFile DEF Zero, HomeInv, AtHome
<1>5. ASSUME NEW id \in ArgIds, Find(id)
      PROVE  HomeInv'
    BY <1>1, <1>5 DEF Find
<1>6. CASE Count \/ PrintAll \/ Usage \/ Die
    BY <1>1, <1>6 DEF Count, PrintAll, Usage, Die
<1>7. CASE UNCHANGED vars
    BY <1>1, <1>7 DEF vars
<1> QED
    BY <1>2, <1>3, <1>4, <1>5, <1>6, <1>7 DEF NextInPlace

LEMMA HomeInvariant == SpecInPlace => []HomeInv
<1>1. Init => HomeInv
    BY EmptyIsFile DEF Init, HomeInv, AtHome
<1> QED
    BY <1>1, HomeInvStep, PTL DEF SpecInPlace

\* Without -x every student is in the slot of its id.
THEOREM StudentsAtHome == SpecInPlace => []AtHome
    BY HomeInvariant, PTL DEF HomeInv

----------------------------------------------------------------------------
\* In place, the slot of an id is used exactly when the registry has a student
\* of that id, and it holds that student.
LEMMA HomeSlot ==
    ASSUME HomeInv, NEW id \in StudentIds
    PROVE  /\ Exists(file, id) <=> id \in Used(file)
           /\ Exists(file, id) <=> Registry!Taken(id)
           /\ id \in Used(file) => GetStudent(file, id) = file[id]
           /\ \A s \in StudentsIn(file) : s.id = id => id \in Used(file) /\ s = file[id]
<1>1. id # 0 /\ \A i \in DOMAIN file : file[i].id = id => i \in Used(file)
    BY DEF StudentIds, Used, EMPTY
<1>2. \A i \in DOMAIN file : file[i].id = id => i = id /\ id \in Used(file)
    BY <1>1 DEF HomeInv, AtHome
<1>3. id \in Used(file) => id \in DOMAIN file /\ file[id].id = id
    BY DEF HomeInv, AtHome, Used
<1>4. id \in Used(file) => FirstSlot(file, id) = id
    BY <1>2, <1>3 DEF FirstSlot, StudentIds
<1>5. \A s \in StudentsIn(file) : s.id = id => id \in Used(file) /\ s = file[id]
    BY <1>2 DEF StudentsIn, Used
<1>6. Registry!Taken(id) <=> id \in Used(file)
    BY <1>3, <1>5 DEF Registry!Taken, StudentsIn
<1> QED
    BY <1>2, <1>3, <1>4, <1>5, <1>6 DEF Exists, GetStudent

\* The registry's set after a write to the slot of an id.
LEMMA HomeWrite ==
    ASSUME HomeInv, NEW id \in 0..MaxId, NEW r \in Slot,
           file' = WriteAt(file, id, r),
           r = EMPTY \/ r.id = id
    PROVE  StudentsIn(file') =
             {s \in StudentsIn(file) : s.id # id} \cup (IF r = EMPTY THEN {} ELSE {r})
<1>1. /\ file'[id] = r
      /\ Used(file') \ {id} = Used(file) \ {id}
      /\ \A j \in Used(file) \ {id} : file'[j] = file[j]
      /\ id \in Used(file') <=> r # EMPTY
    BY WriteUsed DEF HomeInv
<1>2. \A j \in Used(file) : file[j].id = id <=> j = id
    BY DEF HomeInv, AtHome
<1>3. ASSUME NEW s \in StudentsIn(file')
      PROVE  \/ s \in StudentsIn(file) /\ s.id # id
             \/ r # EMPTY /\ s = r
    <2>1. PICK i \in Used(file') : s = file'[i]
        BY DEF StudentsIn
    <2>2. CASE i = id
        BY <1>1, <2>1, <2>2
    <2>3. CASE i # id
        <3>1. i \in Used(file) /\ s = file[i] /\ s.id # id
            BY <1>1, <1>2, <2>1, <2>3
        <3> QED
            BY <3>1 DEF StudentsIn
    <2> QED
        BY <2>2, <2>3
<1>4. ASSUME NEW s \in StudentsIn(file), s.id # id
      PROVE  s \in StudentsIn(file')
    <2>1. PICK i \in Used(file) : s = file[i]
        BY DEF StudentsIn
    <2>2. i \in Used(file') /\ s = file'[i]
        BY <1>1, <1>2, <1>4, <2>1
    <2> QED
        BY <2>2 DEF StudentsIn
<1>5. r # EMPTY => r \in StudentsIn(file')
    BY <1>1 DEF StudentsIn
<1> QED
    BY <1>3, <1>4, <1>5

\* Every student has a slot of its own, so counting used slots counts students.
LEMMA HomeCount ==
    ASSUME HomeInv
    PROVE  /\ Cardinality(StudentsIn(file)) = Cardinality(Used(file))
           /\ StudentsIn(file) = {} <=> Used(file) = {}
<1> DEFINE F == [i \in Used(file) |-> file[i]]
<1>1. F \in [Used(file) -> StudentsIn(file)]
    BY DEF StudentsIn
<1>2. \A a, b \in Used(file) : F[a] = F[b] => a = b
    BY DEF HomeInv, AtHome
<1>3. \A s \in StudentsIn(file) : \E i \in Used(file) : F[i] = s
    BY DEF StudentsIn
<1>4. F \in Bijection(Used(file), StudentsIn(file))
    <2> HIDE DEF F
    <2> QED
        BY <1>1, <1>2, <1>3, Fun_IsBij
<1>5. ExistsBijection(Used(file), StudentsIn(file))
    BY <1>4, Fun_ExistsBij
<1>6. IsFiniteSet(Used(file))
    BY UsedSlots DEF HomeInv
<1>7. Cardinality(StudentsIn(file)) = Cardinality(Used(file))
    BY <1>5, <1>6, FS_Bijection
<1> QED
    BY <1>7 DEF StudentsIn

\* What -p lists: every student, once.
LEMMA HomeList ==
    ASSUME HomeInv
    PROVE  /\ {Pack(file)[k] : k \in DOMAIN Pack(file)} = StudentsIn(file)
           /\ \A k, l \in DOMAIN Pack(file) : Pack(file)[k] = Pack(file)[l] => k = l
<1>1. {Pack(file)[k] : k \in DOMAIN Pack(file)} = StudentsIn(file)
    BY PackIsFile, PackKeepsStudents DEF HomeInv, StudentsIn
<1>2. ASSUME NEW k \in DOMAIN Pack(file), NEW l \in DOMAIN Pack(file),
             Pack(file)[k] = Pack(file)[l]
      PROVE  k = l
    <2>1. PICK i \in Used(file) : Rank(Used(file), i) = k /\ Pack(file)[k] = file[i]
        BY PackSlot DEF HomeInv
    <2>2. PICK j \in Used(file) : Rank(Used(file), j) = l /\ Pack(file)[l] = file[j]
        BY PackSlot DEF HomeInv
    <2> QED
        BY <1>2, <2>1, <2>2 DEF HomeInv, AtHome
<1> QED
    BY <1>1, <1>2

----------------------------------------------------------------------------
LEMMA AddRefines ==
    ASSUME HomeInv, NEW id \in ArgIds, NEW gpa \in ArgGpas, Add(id, gpa)
    PROVE  Registry!Add(id, gpa)
<1> USE DEF Registry!Say, Registry!Reply, Say, Reply, EXIT_OK, EXIT_FAIL_DB, EXIT_FAIL_ARGS,
            Registry!EXIT_OK, Registry!EXIT_FAIL_DB, Registry!EXIT_FAIL_ARGS,
            Registry!EmptyFile, EmptyFile, Registry!EMPTY, EMPTY
<1>1. InRange(id, gpa) <=> Registry!InRange(id, gpa)
    BY DEF InRange, Registry!InRange, StudentIds, Registry!StudentIds, Gpas, Registry!Gpas
<1>2. CASE ~InRange(id, gpa)
    BY <1>1, <1>2 DEF Add, Registry!Add
<1>3. CASE InRange(id, gpa) /\ Exists(file, id)
    BY <1>1, <1>3, HomeSlot DEF Add, Registry!Add, InRange
<1>4. CASE InRange(id, gpa) /\ ~Exists(file, id)
    <2> DEFINE r == [id |-> id, gpa |-> gpa]
    <2>1. id \in StudentIds /\ id \in 0..MaxId /\ r \in Slot /\ r # EMPTY /\ r.id = id
        BY <1>4 DEF InRange, StudentIds, Slot, Student
    <2>2. file' = WriteAt(file, id, r) /\ out' = Say("a", id, "M_STD_ADDED", 0)
        BY <1>4 DEF Add
    <2>3. StudentsIn(file') =
             {s \in StudentsIn(file) : s.id # id} \cup (IF r = EMPTY THEN {} ELSE {r})
        BY <2>1, <2>2, HomeWrite
    <2>4. ~Registry!Taken(id)
        BY <1>4, <2>1, HomeSlot
    <2>5. StudentsIn(file') = StudentsIn(file) \cup {r}
        BY <2>1, <2>3, <2>4 DEF Registry!Taken
    <2> QED
        BY <1>1, <1>4, <2>2, <2>4, <2>5 DEF Registry!Add
<1> QED
    BY <1>2, <1>3, <1>4

LEMMA DelRefines ==
    ASSUME HomeInv, NEW id \in ArgIds, Del(id)
    PROVE  Registry!Del(id)
<1> USE DEF Registry!Say, Registry!Reply, Say, Reply, EXIT_OK, EXIT_FAIL_DB,
            Registry!EXIT_OK, Registry!EXIT_FAIL_DB,
            Registry!EmptyFile, EmptyFile, Registry!EMPTY, EMPTY
<1>1. StudentIds = Registry!StudentIds
    BY DEF StudentIds, Registry!StudentIds
<1>2. CASE Exists(file, id)
    <2>1. id \in 0..MaxId /\ EMPTY \in Slot
        BY <1>2, IdsInRange DEF HomeInv, Slot
    <2>2. file' = WriteAt(file, id, EMPTY) /\ out' = Say("d", id, "M_STD_DEL_MSG", 0)
        BY <1>2 DEF Del
    <2>3. StudentsIn(file') = {s \in StudentsIn(file) : s.id # id}
        BY <2>1, <2>2, HomeWrite
    <2>4. CASE id \in StudentIds
        BY <1>1, <1>2, <2>2, <2>3, <2>4, HomeSlot DEF Registry!Del
    <2>5. CASE id \notin StudentIds
        <3>1. \A s \in StudentsIn(file) : s.id # id
            BY <2>5, IdsInRange DEF HomeInv, StudentsIn
        <3> QED
            BY <1>1, <2>2, <2>3, <2>5, <3>1 DEF Registry!Del
    <2> QED
        BY <2>4, <2>5
<1>3. CASE ~Exists(file, id)
    <2>1. CASE id \in StudentIds
        BY <1>1, <1>3, <2>1, HomeSlot DEF Del, Registry!Del
    <2>2. CASE id \notin StudentIds
        BY <1>1, <1>3, <2>2 DEF Del, Registry!Del
    <2> QED
        BY <2>1, <2>2
<1> QED
    BY <1>2, <1>3

LEMMA FindRefines ==
    ASSUME HomeInv, NEW id \in ArgIds, Find(id)
    PROVE  Registry!Find(id)
<1> USE DEF Registry!Say, Registry!Reply, Say, Reply, EXIT_OK, EXIT_FAIL_DB,
            Registry!EXIT_OK, Registry!EXIT_FAIL_DB,
            Registry!EmptyFile, EmptyFile, Registry!EMPTY, EMPTY,
            List, Registry!List, One, Registry!One
<1>1. StudentIds = Registry!StudentIds
    BY DEF StudentIds, Registry!StudentIds
<1>2. CASE id \notin StudentIds
    BY <1>1, <1>2 DEF Find, Registry!Find
<1>3. CASE id \in StudentIds /\ ~Exists(file, id)
    BY <1>1, <1>3, HomeSlot DEF Find, Registry!Find
<1>4. CASE id \in StudentIds /\ Exists(file, id)
    <2>1. id \in Used(file) /\ GetStudent(file, id) = file[id] /\ id # 0
        BY <1>4, HomeSlot DEF StudentIds
    <2>2. file[id] \in StudentsIn(file) /\ file[id].id = id
        BY <2>1 DEF StudentsIn, HomeInv, AtHome
    <2>3. out' = List("f", id, "STUDENT_PRINT", One(file[id])) /\ UNCHANGED file
        BY <1>4, <2>1 DEF Find
    <2> QED
        BY <2>2, <2>3 DEF Registry!Find
<1> QED
    BY <1>2, <1>3, <1>4

\* The registry counts with the Cardinality of its own instance of FiniteSets.
LEMMA SameCardinality ==
    ASSUME NEW S
    PROVE  Registry!Cardinality(S) = Cardinality(S)
    BY DEF Cardinality, Registry!Cardinality

LEMMA ListingsRefine ==
    ASSUME HomeInv
    PROVE  (Count => Registry!Count) /\ (PrintAll => Registry!PrintAll)
<1> USE DEF Registry!Reply, Reply, EXIT_OK, Registry!EXIT_OK,
            Registry!EmptyFile, EmptyFile, Registry!EMPTY, EMPTY
<1>1. ASSUME Count PROVE Registry!Count
    <2> DEFINE msg == IF Used(file) = {} THEN "M_DB_EMPTY" ELSE "M_DB_RECORD_CNT"
               n == Cardinality(Used(file))
    <2>1. UNCHANGED file /\ out' = Tell("c", msg, n)
        BY <1>1 DEF Count
    <2>2. Tell("c", msg, n) = Registry!Tell("c", msg, n)
        BY DEF Tell, Registry!Tell
    <2>3. /\ msg = IF StudentsIn(file) = {} THEN "M_DB_EMPTY" ELSE "M_DB_RECORD_CNT"
          /\ n = Registry!Cardinality(StudentsIn(file))
        BY HomeCount, SameCardinality
    <2>4. UNCHANGED StudentsIn(file)
        BY <2>1
    <2> HIDE DEF msg, n
    <2>5. out' = Registry!Tell("c", msg, n)
        BY <2>1, <2>2
    <2> QED
        BY <2>3, <2>4, <2>5 DEF Registry!Count
<1>2. ASSUME PrintAll PROVE Registry!PrintAll
    <2> DEFINE msg == IF Used(file) = {} THEN "M_DB_EMPTY" ELSE "STUDENT_PRINT"
    <2>1. UNCHANGED file /\ out' = List("p", 0, msg, Pack(file))
        BY <1>2 DEF PrintAll
    <2>2. out'.msg = msg /\ out'.rows = Pack(file)
        BY <2>1 DEF List
    <2>3. out' = Registry!List("p", 0, out'.msg, out'.rows)
        BY <2>1, <2>2 DEF List, Registry!List
    <2> QED
        BY <2>1, <2>2, <2>3, HomeList, HomeCount DEF Registry!PrintAll
<1> QED
    BY <1>1, <1>2

\* A database that is never compressed behaves as a set of students: every
\* command changes the set, answers from it and exits as the registry says.
THEOREM InPlaceImplementsRegistry == SpecInPlace => ImplementsRegistry
<1>1. Init => Registry!Init
    BY EmptyIsFile DEF Init, Registry!Init, StudentsIn, Killed, Registry!Killed,
       Say, Registry!Say, Reply, Registry!Reply, EmptyFile, Registry!EmptyFile,
       EMPTY, Registry!EMPTY
<1>2. HomeInv /\ [NextInPlace]_vars => [Registry!Next]_(Registry!regvars)
    <2> SUFFICES ASSUME HomeInv, [NextInPlace]_vars
                 PROVE  Registry!Next \/ UNCHANGED Registry!regvars
        OBVIOUS
    <2>1. ASSUME NEW id \in ArgIds, NEW gpa \in ArgGpas, Add(id, gpa)
          PROVE  Registry!Next
        BY <2>1, AddRefines DEF Registry!Next
    <2>2. ASSUME NEW id \in ArgIds, Del(id)
          PROVE  Registry!Next
        BY <2>2, DelRefines DEF Registry!Next
    <2>3. ASSUME NEW id \in ArgIds, Find(id)
          PROVE  Registry!Next
        BY <2>3, FindRefines DEF Registry!Next
    <2>4. CASE Count \/ PrintAll
        BY <2>4, ListingsRefine DEF Registry!Next
    <2>5. CASE Zero
        <3>1. Registry!Zero
            BY <2>5, EmptyIsFile DEF Zero, Registry!Zero, StudentsIn, Say, Registry!Say,
               Reply, Registry!Reply, EmptyFile, Registry!EmptyFile, EMPTY, Registry!EMPTY,
               EXIT_OK, Registry!EXIT_OK
        <3> QED
            BY <3>1 DEF Registry!Next
    <2>6. CASE Usage
        <3>1. Registry!Usage
            BY <2>6 DEF Usage, Registry!Usage, Say, Registry!Say,
               Reply, Registry!Reply, EmptyFile, Registry!EmptyFile, EMPTY, Registry!EMPTY,
               EXIT_OK, Registry!EXIT_OK, EXIT_FAIL_ARGS, Registry!EXIT_FAIL_ARGS
        <3> QED
            BY <3>1 DEF Registry!Next
    <2>7. CASE Die
        <3>1. Registry!Die
            BY <2>7 DEF Die, Registry!Die, Killed, Registry!Killed, Say, Registry!Say,
               Reply, Registry!Reply, EmptyFile, Registry!EmptyFile, EMPTY, Registry!EMPTY
        <3> QED
            BY <3>1 DEF Registry!Next
    <2>8. CASE UNCHANGED vars
        BY <2>8 DEF vars, Registry!regvars
    <2> QED
        BY <2>1, <2>2, <2>3, <2>4, <2>5, <2>6, <2>7, <2>8 DEF NextInPlace
<1> QED
    BY <1>1, <1>2, HomeInvariant, PTL DEF SpecInPlace, ImplementsRegistry, Registry!Spec
=============================================================================
