------------------------ MODULE StudentDBProcsProofs ------------------------
(***************************************************************************)
(* The safety of StudentDBProcs for any number of processes and inodes,    *)
(* any commands and any number of failing calls and killed processes.      *)
(***************************************************************************)
EXTENDS StudentDBHistory, StudentFileProofs, NaturalFacts

----------------------------------------------------------------------------
(* The inductive invariant *)

Stores ==
    /\ DOMAIN content = Inodes
    /\ pc \in [Procs -> Calls]
    /\ DOMAIN cmd = Procs
    /\ fd \in [Procs -> [ino : Inodes \cup {NoInode}, off : 0..(MaxId + 1)]]
    /\ tfd \in [Procs -> [ino : Inodes \cup {NoInode}, off : 0..(MaxId + 1)]]
    /\ student \in [Procs -> Slot]
    /\ DOMAIN tally = Procs

Copying == {"copyread", "copywrite", "rename"}

\* The call p has come to is one of its command.
Called(p) ==
    /\ pc[p] \in {"scan", "write"} =>
          cmd[p].op \in {"d", "f"} \/ (cmd[p].op = "a" /\ InRange(cmd[p].id, cmd[p].gpa))
    /\ pc[p] = "write" => cmd[p].op \in {"a", "d"} /\ cmd[p].id \in 0..MaxId
    /\ pc[p] \in {"opentmp", "reopen"} \cup Copying => cmd[p].op = "x"

\* p has the files open its call is about.
Opened(p) ==
    /\ pc[p] \in {"scan", "write", "read", "opentmp"} \cup Copying => fd[p].ino \in Inodes
    /\ tfd[p].ino # NoInode <=> pc[p] \in Copying
    /\ tfd[p].ino # NoInode => tfd[p].ino # fd[p].ino

\* What p writes or counts it has read before.
Counted(p) ==
    /\ pc[p] = "copyread" => tfd[p].off <= fd[p].off
    /\ pc[p] = "copywrite" => tfd[p].off < fd[p].off
    /\ pc[p] \in {"idle", "open"} => tally[p] = EmptyFile
    /\ pc[p] = "read" => Cardinality(DOMAIN tally[p]) <= fd[p].off

\* A file named .tmp_student.db was never named student.db, so nobody has it
\* open as the latter.
Apart == tmp # NoInode => tmp # db /\ \A p \in Procs : fd[p].ino # tmp

Good(p) == Called(p) /\ Opened(p) /\ Counted(p)

IInv == TypeOK /\ Stores /\ Apart /\ \A p \in Procs : Good(p)

----------------------------------------------------------------------------
(* Files and descriptors *)

LEMMA EmptyIsFile == IsFile(EmptyFile) /\ DOMAIN EmptyFile = {} /\ Cardinality(DOMAIN EmptyFile) = 0
<1>1. 0 \in 0..(MaxId + 1) /\ 0..(0 - 1) = {}
    BY RangeAssumption
<1>2. EmptyFile \in [{} -> Slot]
    BY DEF EmptyFile
<1>3. DOMAIN EmptyFile = {}
    BY <1>2
<1> QED
    BY <1>1, <1>2, <1>3, FS_EmptySet DEF IsFile

\* A new file gets an inode nobody refers to.
LEMMA FreshIsFree ==
    ASSUME ~NoSpace
    PROVE  FreshInode \in Inodes \ Referenced
<1>1. Inodes \ Referenced \in SUBSET Nat
    BY ProcsAssumption
<1>2. Inodes \ Referenced # {}
    BY DEF NoSpace
<1>3. \E i \in Inodes \ Referenced : \A j \in Inodes \ Referenced : i <= j
    BY <1>1, <1>2, LeastNat
<1> QED
    BY <1>3 DEF FreshInode

\* A record that was read.
LEMMA SlotRead ==
    ASSUME IInv, NEW p \in Procs, fd[p].ino \in Inodes, ~AtEnd(p)
    PROVE  fd[p].off \in 0..MaxId /\ FileOf(p)[fd[p].off] \in Slot
<1>1. IsFile(FileOf(p))
    BY DEF IInv, TypeOK, FileOf
<1> QED
    BY <1>1, UsedSlots DEF AtEnd

\* A descriptor before and after a read.
LEMMA ReadOn ==
    ASSUME IInv, NEW p \in Procs, fd[p].ino \in Inodes,
           UNCHANGED fd \/ (~AtEnd(p) /\ Advance(p))
    PROVE  /\ fd' \in [Procs -> [ino : Inodes \cup {NoInode}, off : 0..(MaxId + 1)]]
           /\ fd'[p].ino = fd[p].ino
           /\ Advance(p) => fd'[p].off = fd[p].off + 1
           /\ \A q \in Procs : q # p => fd'[q] = fd[q]
<1>1. CASE UNCHANGED fd /\ ~Advance(p)
    BY <1>1 DEF IInv, Stores
<1>2. CASE ~AtEnd(p) /\ fd' = [fd EXCEPT ![p] = [ino |-> fd[p].ino, off |-> fd[p].off + 1]]
    <2>1. fd[p].off + 1 \in 0..(MaxId + 1)
        BY <1>2, SlotRead, RangeAssumption
    <2> QED
        BY <1>2, <2>1 DEF IInv, Stores
<1>3. ~AtEnd(p) /\ Advance(p) =>
         fd' = [fd EXCEPT ![p] = [ino |-> fd[p].ino, off |-> fd[p].off + 1]]
    <2>1. fd[p] \in [ino : Inodes \cup {NoInode}, off : 0..(MaxId + 1)]
        BY DEF IInv, Stores
    <2>2. [fd[p] EXCEPT !.off = @ + 1] = [ino |-> fd[p].ino, off |-> fd[p].off + 1]
        BY <2>1
    <2> QED
        BY <2>2 DEF Advance
<1>4. UNCHANGED fd => ~Advance(p)
    BY DEF IInv, Stores, Advance
<1> QED
    BY <1>1, <1>2, <1>3, <1>4

\* The files that stay, and the space that is given back.
LEMMA StoreIsFiles ==
    ASSUME NEW c, \A i \in Inodes : IsFile(c[i]), Store(c)
    PROVE  DOMAIN content' = Inodes /\ \A i \in Inodes : IsFile(content'[i])
BY EmptyIsFile DEF Store

\* A process that makes no step has its own variables as they were.
LEMMA Bystander ==
    ASSUME NEW p, Good(p), pc'[p] = pc[p], cmd'[p] = cmd[p], fd'[p] = fd[p],
           tfd'[p] = tfd[p], tally'[p] = tally[p]
    PROVE  Good(p)'
BY DEF Good, Called, Opened, Counted

----------------------------------------------------------------------------
(* The steps *)

LEMMA InvInit == ASSUME Init PROVE IInv
<1>1. \A i \in Inodes : IsFile(content[i])
    BY EmptyIsFile, ProcsAssumption DEF Init
<1>2. TypeOK
    BY <1>1, EmptyIsFile, ProcsAssumption, RangeAssumption
       DEF Init, TypeOK, Calls, Closed, NoInode, Slot
<1>3. Stores
    BY RangeAssumption DEF Init, Stores, Calls, Closed, NoInode, Slot
<1>4. Apart
    BY DEF Init, Apart
<1>5. ASSUME NEW p \in Procs
      PROVE  Good(p)
    BY DEF Init, Good, Called, Opened, Counted, Copying, Closed
<1> QED
    BY <1>2, <1>3, <1>4, <1>5 DEF IInv

LEMMA InvStutter == ASSUME IInv, UNCHANGED vars PROVE IInv'
BY DEF IInv, TypeOK, Stores, Apart, Good, Called, Opened, Counted, vars, kernel, local

LEMMA StartKeepsInv == ASSUME IInv, NEW p \in Procs, Start(p) PROVE IInv'
<1> USE DEF Start, kernel
<1>1. PICK c \in Menu[p] :
         /\ cmd' = [cmd EXCEPT ![p] = c]
         /\ \/ pc' = [pc EXCEPT ![p] = "exit"]
            \/ pc' = [pc EXCEPT ![p] = "open"]
    BY DEF Answer, Proceed, Goto
<1>2. TypeOK'
    BY <1>1 DEF IInv, TypeOK, Stores, Calls
<1>3. Stores'
    BY <1>1 DEF IInv, Stores, Calls
<1>4. Apart'
    BY DEF IInv, Apart
<1>5. Good(p)'
    BY <1>1 DEF IInv, Stores, Good, Called, Opened, Counted, Copying
<1>6. ASSUME NEW q \in Procs, q # p
      PROVE  Good(q)'
    BY <1>1, <1>6, Bystander DEF IInv, Stores
<1> QED
    BY <1>2, <1>3, <1>4, <1>5, <1>6 DEF IInv

\* A call that fails ends the command and leaves the files alone.
LEMMA FailKeepsInv ==
    ASSUME IInv, NEW p \in Procs, NEW r, Answer(p, r), faults' \in 0..MaxFaults,
           pc[p] \notin Copying,
           UNCHANGED <<kernel, cmd, fd, tfd, student, tally, crashes>>
    PROVE  IInv'
<1> USE DEF kernel, Answer, Goto
<1>1. TypeOK'
    BY DEF IInv, TypeOK, Stores, Calls
<1>2. Stores' /\ Apart'
    BY DEF IInv, Stores, Apart, Calls
<1>3. Good(p)'
    BY DEF IInv, Stores, Good, Called, Opened, Counted, Copying
<1>4. ASSUME NEW q \in Procs, q # p
      PROVE  Good(q)'
    BY <1>4, Bystander DEF IInv, Stores
<1> QED
    BY <1>1, <1>2, <1>3, <1>4 DEF IInv

LEMMA FaultsCounted ==
    ASSUME IInv, Fails \/ Works
    PROVE  faults' \in 0..MaxFaults
BY ProcsAssumption DEF IInv, TypeOK, Fails, Works

\* Where main goes, as far as the invariant is concerned.
LEMMA Dispatched ==
    ASSUME NEW p \in Procs, Dispatch(p)
    PROVE  \E l \in {"exit", "scan", "read", "opentmp", "truncate"} :
              /\ pc' = [pc EXCEPT ![p] = l]
              /\ l = "scan" => \/ cmd[p].op \in {"d", "f"}
                               \/ cmd[p].op = "a" /\ InRange(cmd[p].id, cmd[p].gpa)
              /\ l = "opentmp" => cmd[p].op = "x"
BY DEF Dispatch, Answer, Proceed, Goto

LEMMA OpenDbKeepsInv == ASSUME IInv, NEW p \in Procs, OpenDb(p) PROVE IInv'
<1> USE DEF OpenDb
<1>1. faults' \in 0..MaxFaults
    BY FaultsCounted
<1>2. CASE UNCHANGED <<db, fd>> /\ \E r : Answer(p, r)
    BY <1>1, <1>2, FailKeepsInv DEF kernel, Copying
<1>3. CASE /\ db = NoInode => ~NoSpace
           /\ db' = IF db = NoInode THEN FreshInode ELSE db
           /\ fd' = [fd EXCEPT ![p] = [ino |-> db', off |-> 0]]
           /\ Dispatch(p)
    <2>1. /\ db' \in Inodes
          /\ db = NoInode => \A x \in Referenced : db' # x
          /\ db # NoInode => db' = db
        BY <1>3, FreshIsFree DEF IInv, TypeOK
    <2>2. PICK l \in {"exit", "scan", "read", "opentmp", "truncate"} :
              /\ pc' = [pc EXCEPT ![p] = l]
              /\ l = "scan" => \/ cmd[p].op \in {"d", "f"}
                               \/ cmd[p].op = "a" /\ InRange(cmd[p].id, cmd[p].gpa)
              /\ l = "opentmp" => cmd[p].op = "x"
        BY <1>3, Dispatched
    <2>3. Stores'
        BY <1>3, <2>1, <2>2, RangeAssumption DEF IInv, Stores, Calls
    <2>4. TypeOK'
        BY <1>1, <2>1, <2>3 DEF IInv, TypeOK, Stores, Calls
    <2>5. Apart'
        BY <1>3, <2>1 DEF IInv, Apart, Stores, Referenced
    <2>6. Good(p)'
        <3>1. /\ pc[p] = "open" /\ cmd' = cmd /\ tfd' = tfd /\ tally' = tally
              /\ pc'[p] = l /\ fd'[p] = [ino |-> db', off |-> 0]
            BY <1>3, <2>2 DEF IInv, Stores
        <3>2. Called(p)'
            BY <2>2, <3>1 DEF Called, Copying
        <3>3. Opened(p)'
            BY <2>1, <3>1 DEF IInv, Good, Opened, Copying
        <3>4. Counted(p)'
            BY <3>1, EmptyIsFile DEF IInv, Good, Counted
        <3> QED
            BY <3>2, <3>3, <3>4 DEF Good
    <2>7. ASSUME NEW q \in Procs, q # p
          PROVE  Good(q)'
        BY <1>3, <2>2, <2>7, Bystander DEF IInv, Stores
    <2> QED
        BY <2>3, <2>4, <2>5, <2>6, <2>7 DEF IInv
<1> QED
    BY <1>2, <1>3

\* A process that is gone has nothing open; what nobody refers to is given back.
LEMMA GoneKeepsInv ==
    ASSUME IInv, NEW p \in Procs, Gone(p), faults' \in 0..MaxFaults, crashes' \in 0..MaxCrashes
    PROVE  IInv'
<1> USE DEF Gone, Goto
<1>1. DOMAIN content' = Inodes /\ \A i \in Inodes : IsFile(content'[i])
    BY StoreIsFiles DEF IInv, TypeOK
<1>2. Stores'
    BY <1>1, RangeAssumption DEF IInv, Stores, Calls, Closed, Slot
<1>3. TypeOK'
    BY <1>1, <1>2, EmptyIsFile DEF IInv, TypeOK, Stores
<1>4. Apart'
    BY DEF IInv, Apart, Stores, Closed
<1>5. Good(p)'
    BY DEF IInv, Stores, Good, Called, Opened, Counted, Copying, Closed
<1>6. ASSUME NEW q \in Procs, q # p
      PROVE  Good(q)'
    BY <1>6, Bystander DEF IInv, Stores
<1> QED
    BY <1>2, <1>3, <1>4, <1>5, <1>6 DEF IInv

LEMMA ExitKeepsInv == ASSUME IInv, NEW p \in Procs, Exit(p) PROVE IInv'
BY GoneKeepsInv DEF Exit, IInv, TypeOK

LEMMA CrashKeepsInv == ASSUME IInv, NEW p \in Procs, Crash(p) PROVE IInv'
<1>1. crashes' \in 0..MaxCrashes
    BY ProcsAssumption DEF Crash, IInv, TypeOK
<1> QED
    BY <1>1, GoneKeepsInv DEF Crash, IInv, TypeOK

\* The loop of get_student ends where its caller goes on.
LEMMA ScanKeepsInv == ASSUME IInv, NEW p \in Procs, Scan(p) PROVE IInv'
<1> USE DEF Scan, kernel
<1>1. faults' \in 0..MaxFaults
    BY FaultsCounted
<1>2. fd[p].ino \in Inodes
    BY DEF IInv, Good, Opened
<1>3. \E l \in {"exit", "write", "scan"} :
         /\ pc' = [pc EXCEPT ![p] = l]
         /\ l = "write" => /\ cmd[p].op \in {"a", "d"}
                           /\ cmd[p].op = "d" => ~AtEnd(p) /\ FileOf(p)[fd[p].off].id = cmd[p].id
    <2>1. ASSUME NEW r, OnFound(p, r), ~AtEnd(p), FileOf(p)[fd[p].off].id = cmd[p].id
          PROVE  <1>3
        BY <2>1 DEF OnFound, Answer, Proceed, Goto
    <2>2. ASSUME NEW r, OnMissing(p, r)
          PROVE  <1>3
        BY <2>2 DEF OnMissing, Answer, Proceed, Goto
    <2>3. ASSUME UNCHANGED pc
          PROVE  <1>3
        BY <2>3 DEF IInv, Stores
    <2> QED
        BY <2>1, <2>2, <2>3
<1>4. PICK l \in {"exit", "write", "scan"} :
         /\ pc' = [pc EXCEPT ![p] = l]
         /\ l = "write" => /\ cmd[p].op \in {"a", "d"}
                           /\ cmd[p].op = "d" => ~AtEnd(p) /\ FileOf(p)[fd[p].off].id = cmd[p].id
    BY <1>3
<1>5. /\ fd' \in [Procs -> [ino : Inodes \cup {NoInode}, off : 0..(MaxId + 1)]]
      /\ fd'[p].ino = fd[p].ino
      /\ \A q \in Procs : q # p => fd'[q] = fd[q]
    BY <1>2, ReadOn
<1>6. Stores'
    BY <1>4, <1>5 DEF IInv, Stores, Calls
<1>7. TypeOK'
    BY <1>1, <1>6 DEF IInv, TypeOK, Stores, Calls
<1>8. Apart'
    BY <1>5 DEF IInv, Apart
<1>9. Good(p)'
    <2>1. /\ pc[p] = "scan" /\ cmd' = cmd /\ tfd' = tfd /\ tally' = tally /\ pc'[p] = l
        BY <1>4 DEF IInv, Stores
    <2>2. l = "write" => cmd[p].id \in 0..MaxId
        <3>1. CASE cmd[p].op = "a"
            BY <2>1, <3>1, RangeAssumption DEF IInv, Good, Called, InRange, StudentIds
        <3>2. CASE l = "write" /\ cmd[p].op = "d"
            <4>1. FileOf(p)[fd[p].off] \in Slot /\ FileOf(p)[fd[p].off].id = cmd[p].id
                BY <1>2, <1>4, <3>2, SlotRead
            <4> QED
                BY <4>1, RangeAssumption DEF Slot, Student, StudentIds, EMPTY
        <3> QED
            BY <1>4, <3>1, <3>2
    <2>3. Called(p)'
        BY <1>4, <2>1, <2>2 DEF IInv, Good, Called, Copying
    <2>4. Opened(p)'
        BY <1>2, <1>5, <2>1 DEF IInv, Good, Opened, Copying
    <2>5. Counted(p)'
        BY <2>1 DEF Counted
    <2> QED
        BY <2>3, <2>4, <2>5 DEF Good
<1>10. ASSUME NEW q \in Procs, q # p
      PROVE  Good(q)'
    BY <1>4, <1>5, <1>10, Bystander DEF IInv, Stores
<1> QED
    BY <1>6, <1>7, <1>8, <1>9, <1>10 DEF IInv

\* A write that succeeds is one to a slot of the file.
LEMMA WriteSlotKeepsInv == ASSUME IInv, NEW p \in Procs, WriteSlot(p) PROVE IInv'
<1> USE DEF WriteSlot
<1> DEFINE r == IF cmd[p].op = "a" THEN [id |-> cmd[p].id, gpa |-> cmd[p].gpa] ELSE EMPTY
<1>1. faults' \in 0..MaxFaults
    BY FaultsCounted
<1>2. CASE UNCHANGED content /\ \E a : Answer(p, a)
    BY <1>1, <1>2, FailKeepsInv DEF kernel, Copying
<1>3. CASE /\ content' = [content EXCEPT ![fd[p].ino] = WriteAt(@, SlotToWrite(p), r)]
           /\ \E a : Answer(p, a)
    <2>1. /\ fd[p].ino \in Inodes /\ SlotToWrite(p) \in 0..MaxId /\ r \in Slot
          /\ pc' = [pc EXCEPT ![p] = "exit"]
        BY <1>3 DEF IInv, Good, Opened, Called, SlotToWrite, InRange, Slot, Student, Answer, Goto
    <2>2. IsFile(WriteAt(content[fd[p].ino], SlotToWrite(p), r))
        BY <2>1, WriteIsFile DEF IInv, TypeOK
    <2>3. DOMAIN content' = Inodes /\ \A i \in Inodes : IsFile(content'[i])
        BY <1>3, <2>1, <2>2 DEF IInv, TypeOK, Stores
    <2>4. Stores' /\ Apart'
        BY <2>1, <2>3 DEF IInv, Stores, Apart, Calls
    <2>5. TypeOK'
        BY <1>1, <2>3, <2>4 DEF IInv, TypeOK, Stores
    <2>6. Good(p)'
        BY <2>1 DEF IInv, Stores, Good, Called, Opened, Counted, Copying
    <2>7. ASSUME NEW q \in Procs, q # p
          PROVE  Good(q)'
        BY <2>1, <2>7, Bystander DEF IInv, Stores
    <2> QED
        BY <2>4, <2>5, <2>6, <2>7 DEF IInv
<1> QED
    BY <1>2, <1>3

\* The slots of a file are as many as its length.
LEMMA LengthOfFile ==
    ASSUME NEW f, IsFile(f)
    PROVE  /\ Cardinality(DOMAIN f) \in 0..(MaxId + 1)
           /\ DOMAIN f = 0..(Cardinality(DOMAIN f) - 1)
<1>1. PICK n \in 0..(MaxId + 1) : f \in [0..(n - 1) -> Slot]
    BY DEF IsFile
<1>2. Cardinality(0..(n - 1)) = IF 0 > n - 1 THEN 0 ELSE (n - 1) - 0 + 1
    BY <1>1, FS_Interval, RangeAssumption
<1>3. Cardinality(DOMAIN f) = n
    BY <1>1, <1>2, RangeAssumption
<1> QED
    BY <1>1, <1>3

\* The used records go one behind the other, and there are no more of them than
\* records that were read.
LEMMA TallyGrows ==
    ASSUME NEW f, IsFile(f), NEW r \in Slot, Cardinality(DOMAIN f) <= MaxId
    PROVE  LET g == WriteAt(f, Cardinality(DOMAIN f), r) IN
           IsFile(g) /\ Cardinality(DOMAIN g) = Cardinality(DOMAIN f) + 1
<1> DEFINE n == Cardinality(DOMAIN f)
           g == WriteAt(f, n, r)
<1>1. n \in 0..MaxId /\ DOMAIN f = 0..(n - 1)
    BY LengthOfFile, RangeAssumption
<1>2. IsFile(g)
    BY <1>1, WriteIsFile
<1>3. DOMAIN g = 0..n
    BY <1>1 DEF WriteAt
<1>4. Cardinality(0..n) = n + 1
    BY <1>1, FS_Interval, RangeAssumption
<1> QED
    BY <1>2, <1>3, <1>4

LEMMA ReadRecordKeepsInv == ASSUME IInv, NEW p \in Procs, ReadRecord(p) PROVE IInv'
<1> USE DEF ReadRecord, kernel
<1> DEFINE n == Cardinality(DOMAIN tally[p])
           r == FileOf(p)[fd[p].off]
<1>1. faults' \in 0..MaxFaults
    BY FaultsCounted
<1>2. CASE UNCHANGED <<fd, tally>> /\ \E a : Answer(p, a)
    BY <1>1, <1>2, FailKeepsInv DEF Copying
<1>3. CASE /\ ~AtEnd(p) /\ Advance(p) /\ UNCHANGED pc
           /\ tally' = [tally EXCEPT ![p] = IF r = EMPTY THEN @ ELSE WriteAt(@, n, r)]
    <2>1. /\ pc[p] = "read" /\ fd[p].ino \in Inodes /\ n <= fd[p].off /\ IsFile(tally[p])
        BY DEF IInv, TypeOK, Good, Opened, Counted
    <2>2. /\ fd' \in [Procs -> [ino : Inodes \cup {NoInode}, off : 0..(MaxId + 1)]]
          /\ fd'[p].ino = fd[p].ino /\ fd'[p].off = fd[p].off + 1
          /\ \A q \in Procs : q # p => fd'[q] = fd[q]
        BY <1>3, <2>1, ReadOn
    <2>3. fd[p].off \in 0..MaxId /\ r \in Slot
        BY <1>3, <2>1, SlotRead
    <2>4. n \in 0..MaxId
        BY <2>1, <2>3, LengthOfFile, RangeAssumption
    <2>5. IsFile(tally'[p]) /\ Cardinality(DOMAIN tally'[p]) <= n + 1
        <3>1. CASE r = EMPTY
            BY <1>3, <2>1, <2>4, <3>1 DEF IInv, Stores
        <3>2. CASE r # EMPTY
            BY <1>3, <2>1, <2>3, <2>4, <3>2, TallyGrows DEF IInv, Stores
        <3> QED
            BY <3>1, <3>2
    <2>6. DOMAIN tally' = Procs /\ \A q \in Procs : q # p => tally'[q] = tally[q]
        BY <1>3 DEF IInv, Stores
    <2>7. Stores' /\ Apart'
        BY <1>3, <2>2, <2>6 DEF IInv, Stores, Apart
    <2>8. TypeOK'
        BY <1>1, <1>3, <2>5, <2>6, <2>7 DEF IInv, TypeOK, Stores
    <2>9. Good(p)'
        <3>1. Called(p)' /\ Opened(p)'
            BY <1>3, <2>1, <2>2 DEF IInv, Good, Called, Opened, Copying
        <3>2. Cardinality(DOMAIN tally'[p]) <= fd'[p].off
            <4> HIDE DEF n
            <4>1. Cardinality(DOMAIN tally'[p]) \in Int
                BY <2>5, LengthOfFile
            <4> QED
                BY <2>1, <2>2, <2>3, <2>4, <2>5, <4>1
        <3>3. Counted(p)'
            BY <1>3, <2>1, <3>2 DEF Counted
        <3> QED
            BY <3>1, <3>3 DEF Good
    <2>10. ASSUME NEW q \in Procs, q # p
          PROVE  Good(q)'
        BY <1>3, <2>2, <2>6, <2>10, Bystander DEF IInv
    <2> QED
        BY <2>7, <2>8, <2>9, <2>10 DEF IInv
<1> QED
    BY <1>2, <1>3

LEMMA OpenTmpKeepsInv == ASSUME IInv, NEW p \in Procs, OpenTmp(p) PROVE IInv'
<1> USE DEF OpenTmp
<1>1. faults' \in 0..MaxFaults
    BY FaultsCounted
<1>2. CASE UNCHANGED <<content, tmp, tfd>> /\ \E r : Answer(p, r)
    BY <1>1, <1>2, FailKeepsInv DEF kernel, Copying
<1>3. CASE /\ tmp = NoInode => ~NoSpace
           /\ tmp' = IF tmp = NoInode THEN FreshInode ELSE tmp
           /\ MakeEmpty(tmp')
           /\ tfd' = [tfd EXCEPT ![p] = [ino |-> tmp', off |-> 0]]
           /\ Proceed(p, "copyread")
    <2>1. /\ pc[p] = "opentmp" /\ pc' = [pc EXCEPT ![p] = "copyread"]
          /\ cmd[p].op = "x" /\ fd[p].ino \in Inodes
        BY <1>3 DEF IInv, Good, Called, Opened, Proceed, Goto
    <2>2. /\ tmp' \in Inodes /\ tmp' # NoInode
          /\ tmp' # db /\ \A q \in Procs : fd[q].ino # tmp'
        <3>1. CASE tmp = NoInode
            BY <1>3, <3>1, FreshIsFree, ProcsAssumption DEF Referenced
        <3>2. CASE tmp # NoInode
            BY <1>3, <3>2 DEF IInv, TypeOK, Apart
        <3> QED
            BY <3>1, <3>2
    <2>3. DOMAIN content' = Inodes /\ \A i \in Inodes : IsFile(content'[i])
        BY <1>3, <2>2, EmptyIsFile DEF IInv, TypeOK, Stores, MakeEmpty
    <2>4. Stores'
        BY <1>3, <2>1, <2>2, <2>3, RangeAssumption DEF IInv, Stores, Calls
    <2>5. TypeOK'
        BY <1>1, <2>2, <2>3, <2>4 DEF IInv, TypeOK, Stores
    <2>6. Apart'
        BY <2>2 DEF IInv, Apart
    <2>7. Good(p)'
        <3>1. tfd'[p] = [ino |-> tmp', off |-> 0] /\ pc'[p] = "copyread"
            BY <1>3, <2>1 DEF IInv, Stores
        <3>2. fd[p].off >= 0
            BY DEF IInv, TypeOK
        <3> QED
            BY <2>1, <2>2, <3>1, <3>2 DEF Good, Called, Opened, Counted, Copying
    <2>8. ASSUME NEW q \in Procs, q # p
          PROVE  Good(q)'
        BY <1>3, <2>1, <2>8, Bystander DEF IInv, Stores
    <2> QED
        BY <2>4, <2>5, <2>6, <2>7, <2>8 DEF IInv
<1> QED
    BY <1>2, <1>3

\* A record is read before it is copied, so the copy is never longer than what
\* was read.
LEMMA CopyReadKeepsInv == ASSUME IInv, NEW p \in Procs, CopyRead(p) PROVE IInv'
<1> USE DEF CopyRead, kernel
<1> DEFINE r == FileOf(p)[fd[p].off]
<1>1. faults' \in 0..MaxFaults
    BY FaultsCounted
<1>2. /\ pc[p] = "copyread" /\ cmd[p].op = "x" /\ fd[p].ino \in Inodes
      /\ tfd[p].off <= fd[p].off /\ fd[p].off \in Int /\ tfd[p].off \in Int
    BY DEF IInv, TypeOK, Good, Called, Opened, Counted, Copying
<1>3. \/ /\ pc' = [pc EXCEPT ![p] = "rename"]
         /\ UNCHANGED <<fd, student>>
      \/ /\ ~AtEnd(p) /\ Advance(p)
         /\ UNCHANGED <<pc, student>>
      \/ /\ ~AtEnd(p) /\ Advance(p)
         /\ pc' = [pc EXCEPT ![p] = "copywrite"]
         /\ student' = [student EXCEPT ![p] = r]
    BY DEF Goto
<1>4. /\ fd' \in [Procs -> [ino : Inodes \cup {NoInode}, off : 0..(MaxId + 1)]]
      /\ fd'[p].ino = fd[p].ino
      /\ Advance(p) => fd'[p].off = fd[p].off + 1
      /\ \A q \in Procs : q # p => fd'[q] = fd[q]
    BY <1>2, <1>3, ReadOn
<1>5. ~AtEnd(p) => r \in Slot
    BY <1>2, SlotRead
<1>6. /\ \A q \in Procs : q # p => pc'[q] = pc[q]
      /\ pc' \in [Procs -> Calls]
      /\ student' \in [Procs -> Slot]
      /\ pc'[p] \in Copying
      /\ pc'[p] = "copywrite" => Advance(p)
      /\ pc'[p] = "copyread" => Advance(p)
    BY <1>2, <1>3, <1>5 DEF IInv, Stores, Calls, Copying
<1>7. Stores' /\ Apart'
    BY <1>4, <1>6 DEF IInv, Stores, Apart
<1>8. TypeOK'
    BY <1>1, <1>7 DEF IInv, TypeOK, Stores
<1>9. Good(p)'
    <2>1. Called(p)' /\ Opened(p)'
        BY <1>2, <1>4, <1>6 DEF IInv, Good, Called, Opened, Copying
    <2>2. Counted(p)'
        BY <1>2, <1>4, <1>6 DEF Counted, Copying
    <2> QED
        BY <2>1, <2>2 DEF Good
<1>10. ASSUME NEW q \in Procs, q # p
      PROVE  Good(q)'
    BY <1>4, <1>6, <1>10, Bystander DEF IInv
<1> QED
    BY <1>7, <1>8, <1>9, <1>10 DEF IInv

LEMMA CopyWriteKeepsInv == ASSUME IInv, NEW p \in Procs, CopyWrite(p) PROVE IInv'
<1> USE DEF CopyWrite
<1>1. faults' \in 0..MaxFaults
    BY FaultsCounted
<1>2. /\ pc[p] = "copywrite" /\ cmd[p].op = "x" /\ fd[p].ino \in Inodes
      /\ tfd[p].ino \in Inodes /\ tfd[p].ino # NoInode /\ tfd[p].ino # fd[p].ino
      /\ tfd[p].off < fd[p].off /\ fd[p].off \in 0..(MaxId + 1) /\ tfd[p].off \in 0..(MaxId + 1)
    BY ProcsAssumption DEF IInv, TypeOK, Good, Called, Opened, Counted, Copying
<1>3. student' \in [Procs -> Slot] /\ student[p] \in Slot
    BY DEF IInv, Stores, Slot
<1>4. CASE /\ content' = [content EXCEPT ![tfd[p].ino] = WriteAt(@, tfd[p].off, student[p])]
           /\ tfd' = [tfd EXCEPT ![p].off = @ + 1]
           /\ Proceed(p, "copyread")
           /\ UNCHANGED <<db, tmp, fd>>
    <2>1. tfd[p].off \in 0..MaxId /\ tfd[p].off + 1 \in 0..(MaxId + 1)
        BY <1>2, RangeAssumption
    <2>2. /\ tfd' \in [Procs -> [ino : Inodes \cup {NoInode}, off : 0..(MaxId + 1)]]
          /\ tfd'[p].ino = tfd[p].ino /\ tfd'[p].off = tfd[p].off + 1
          /\ \A q \in Procs : q # p => tfd'[q] = tfd[q]
        <3>1. tfd[p] \in [ino : Inodes \cup {NoInode}, off : 0..(MaxId + 1)]
            BY DEF IInv, Stores
        <3>2. [tfd[p] EXCEPT !.off = @ + 1] = [ino |-> tfd[p].ino, off |-> tfd[p].off + 1]
            BY <3>1
        <3>3. tfd' = [tfd EXCEPT ![p] = [ino |-> tfd[p].ino, off |-> tfd[p].off + 1]]
            BY <1>4, <3>2
        <3> QED
            BY <1>2, <2>1, <3>3 DEF IInv, Stores
    <2>3. IsFile(WriteAt(content[tfd[p].ino], tfd[p].off, student[p]))
        BY <1>2, <1>3, <2>1, WriteIsFile DEF IInv, TypeOK
    <2>4. DOMAIN content' = Inodes /\ \A i \in Inodes : IsFile(content'[i])
        BY <1>2, <1>4, <2>3 DEF IInv, TypeOK, Stores
    <2>5. pc' = [pc EXCEPT ![p] = "copyread"]
        BY <1>4 DEF Proceed, Goto
    <2>6. Stores' /\ Apart'
        BY <1>3, <1>4, <2>2, <2>4, <2>5 DEF IInv, Stores, Apart, Calls
    <2>7. TypeOK'
        BY <1>1, <1>4, <2>4, <2>6 DEF IInv, TypeOK, Stores
    <2>8. Good(p)'
        <3>1. pc'[p] = "copyread" /\ cmd' = cmd /\ fd' = fd
            BY <1>4, <2>5 DEF IInv, Stores
        <3> QED
            BY <1>2, <2>2, <3>1 DEF Good, Called, Opened, Counted, Copying
    <2>9. ASSUME NEW q \in Procs, q # p
          PROVE  Good(q)'
        BY <1>4, <2>2, <2>5, <2>9, Bystander DEF IInv, Stores
    <2> QED
        BY <2>6, <2>7, <2>8, <2>9 DEF IInv
<1>5. CASE /\ \E r : Answer(p, r)
           /\ tfd' = [tfd EXCEPT ![p] = Closed]
           /\ UNCHANGED <<db, tmp, fd>>
           /\ Store(content)
    <2>1. DOMAIN content' = Inodes /\ \A i \in Inodes : IsFile(content'[i])
        BY <1>5, StoreIsFiles DEF IInv, TypeOK
    <2>2. pc' = [pc EXCEPT ![p] = "exit"]
        BY <1>5 DEF Answer, Goto
    <2>3. Stores' /\ Apart'
        BY <1>3, <1>5, <2>1, <2>2, RangeAssumption DEF IInv, Stores, Apart, Calls, Closed
    <2>4. TypeOK'
        BY <1>1, <1>5, <2>1, <2>3 DEF IInv, TypeOK, Stores
    <2>5. Good(p)'
        BY <1>5, <2>2 DEF IInv, Stores, Good, Called, Opened, Counted, Copying, Closed
    <2>6. ASSUME NEW q \in Procs, q # p
          PROVE  Good(q)'
        BY <1>5, <2>2, <2>6, Bystander DEF IInv, Stores
    <2> QED
        BY <2>3, <2>4, <2>5, <2>6 DEF IInv
<1> QED
    BY <1>4, <1>5

LEMMA RenameKeepsInv == ASSUME IInv, NEW p \in Procs, Rename(p) PROVE IInv'
<1> USE DEF Rename
<1>1. faults' \in 0..MaxFaults
    BY FaultsCounted
<1>2. DOMAIN content' = Inodes /\ \A i \in Inodes : IsFile(content'[i])
    BY StoreIsFiles DEF IInv, TypeOK
<1>3. /\ {db', tmp'} \subseteq Inodes \cup {NoInode}
      /\ tmp' = NoInode \/ (tmp' = tmp /\ db' = db)
    BY DEF IInv, TypeOK, RenameTmp
<1>4. \E l \in {"reopen", "exit"} : pc' = [pc EXCEPT ![p] = l]
    BY DEF Answer, Goto
<1>5. Stores'
    BY <1>2, <1>4, RangeAssumption DEF IInv, Stores, Calls, Closed
<1>6. TypeOK'
    BY <1>1, <1>2, <1>3, <1>5 DEF IInv, TypeOK, Stores
<1>7. Apart'
    BY <1>3 DEF IInv, Apart, Stores, Closed
<1>8. Good(p)'
    <2>1. pc[p] = "rename" /\ cmd[p].op = "x" /\ pc'[p] \in {"reopen", "exit"}
        BY <1>4 DEF IInv, Stores, Good, Called, Copying
    <2> QED
        BY <2>1 DEF IInv, Stores, Good, Called, Opened, Counted, Copying, Closed
<1>9. ASSUME NEW q \in Procs, q # p
      PROVE  Good(q)'
    BY <1>4, <1>9, Bystander DEF IInv, Stores
<1> QED
    BY <1>5, <1>6, <1>7, <1>8, <1>9 DEF IInv

LEMMA ReopenKeepsInv == ASSUME IInv, NEW p \in Procs, Reopen(p) PROVE IInv'
<1> USE DEF Reopen, kernel
<1>1. faults' \in 0..MaxFaults
    BY FaultsCounted
<1>2. CASE UNCHANGED fd /\ \E r : Answer(p, r)
    BY <1>1, <1>2, FailKeepsInv DEF Copying
<1>3. CASE fd' = [fd EXCEPT ![p] = [ino |-> db, off |-> 0]] /\ Answer(p, Compressed)
    <2>1. pc' = [pc EXCEPT ![p] = "exit"]
        BY <1>3 DEF Answer, Goto
    <2>2. Stores'
        BY <1>3, <2>1, RangeAssumption DEF IInv, TypeOK, Stores, Calls
    <2>3. TypeOK'
        BY <1>1, <2>2 DEF IInv, TypeOK, Stores
    <2>4. Apart'
        BY <1>3 DEF IInv, Apart, Stores
    <2>5. Good(p)'
        BY <2>1 DEF IInv, Stores, Good, Called, Opened, Counted, Copying
    <2>6. ASSUME NEW q \in Procs, q # p
          PROVE  Good(q)'
        BY <1>3, <2>1, <2>6, Bystander DEF IInv, Stores
    <2> QED
        BY <2>2, <2>3, <2>4, <2>5, <2>6 DEF IInv
<1> QED
    BY <1>2, <1>3

LEMMA TruncateKeepsInv == ASSUME IInv, NEW p \in Procs, Truncate(p) PROVE IInv'
<1> USE DEF Truncate
<1>1. faults' \in 0..MaxFaults
    BY FaultsCounted
<1>2. \E i \in {db, NoInode} : fd' = [fd EXCEPT ![p] = [ino |-> i, off |-> 0]]
    BY DEF Closed
<1>3. pc' = [pc EXCEPT ![p] = "exit"]
    BY DEF Answer, Goto
<1>4. DOMAIN content' = Inodes /\ \A i \in Inodes : IsFile(content'[i])
    <2>1. \A i \in Inodes : IsFile([content EXCEPT ![db] = EmptyFile][i])
        BY EmptyIsFile DEF IInv, TypeOK, Stores
    <2> QED
        BY <2>1, StoreIsFiles DEF IInv, TypeOK
<1>5. Stores'
    BY <1>2, <1>3, <1>4, RangeAssumption DEF IInv, TypeOK, Stores, Calls
<1>6. TypeOK'
    BY <1>1, <1>4, <1>5 DEF IInv, TypeOK, Stores
<1>7. Apart'
    BY <1>2 DEF IInv, Apart, Stores
<1>8. Good(p)'
    BY <1>2, <1>3 DEF IInv, Stores, Good, Called, Opened, Counted, Copying
<1>9. ASSUME NEW q \in Procs, q # p
      PROVE  Good(q)'
    BY <1>2, <1>3, <1>9, Bystander DEF IInv, Stores
<1> QED
    BY <1>5, <1>6, <1>7, <1>8, <1>9 DEF IInv

----------------------------------------------------------------------------
LEMMA InvStep == ASSUME IInv, [Next]_vars PROVE IInv'
<1>1. CASE UNCHANGED vars
    BY <1>1, InvStutter
<1>2. CASE Next
    <2>1. PICK p \in Procs : Start(p) \/ Step(p) \/ Crash(p)
        BY <1>2 DEF Next
    <2>2. CASE Start(p)
        BY <2>2, StartKeepsInv
    <2>3. CASE Crash(p)
        BY <2>3, CrashKeepsInv
    <2>4. CASE OpenDb(p) \/ Scan(p) \/ WriteSlot(p) \/ ReadRecord(p)
        BY <2>4, OpenDbKeepsInv, ScanKeepsInv, WriteSlotKeepsInv, ReadRecordKeepsInv
    <2>5. CASE OpenTmp(p) \/ CopyRead(p) \/ CopyWrite(p) \/ Rename(p)
        BY <2>5, OpenTmpKeepsInv, CopyReadKeepsInv, CopyWriteKeepsInv, RenameKeepsInv
    <2>6. CASE Reopen(p) \/ Truncate(p) \/ Exit(p)
        BY <2>6, ReopenKeepsInv, TruncateKeepsInv, ExitKeepsInv
    <2> QED
        BY <2>1, <2>2, <2>3, <2>4, <2>5, <2>6 DEF Step
<1> QED
    BY <1>1, <1>2

LEMMA InvHolds == Spec => []IInv
BY InvInit, InvStep, PTL DEF Spec

\* Whatever the processes do and wherever they fail or are killed, every inode
\* is a file of at most MaxId + 1 records and no offset runs off: the copy loop
\* of compress_db writes no more than it has read, even into a file that other
\* runs write, truncate or rename.
THEOREM TypeCorrect == Spec => []TypeOK
<1>1. IInv => TypeOK
    BY DEF IInv
<1> QED
    BY <1>1, InvHolds, PTL

\* compress_db never reads and writes one inode, however many runs share
\* .tmp_student.db and whatever was left by those that were killed.
THEOREM CopiesApart == Spec => []NeverCopiesOntoItself
<1>1. IInv => NeverCopiesOntoItself
    BY DEF IInv, Good, Opened, NeverCopiesOntoItself
<1> QED
    BY <1>1, InvHolds, PTL

----------------------------------------------------------------------------
(* A database that is never compressed *)

InPlace ==
    /\ \A p \in Procs : \A c \in Menu[p] : c.op # "x"
    /\ \A f \in InitialFiles : \A k \in Used(f) : f[k].id = k

LEMMA NothingUsed == Used(EmptyFile) = {}
BY EmptyIsFile DEF Used

\* A write puts the record of an id, or the empty one, into the slot of the id.
LEMMA WriteSlotAtHome ==
    ASSUME IInv, AllAtHome, NEW p \in Procs, WriteSlot(p)
    PROVE  AllAtHome'
<1> DEFINE r == IF cmd[p].op = "a" THEN [id |-> cmd[p].id, gpa |-> cmd[p].gpa] ELSE EMPTY
<1>1. CASE UNCHANGED content
    BY <1>1 DEF AllAtHome
<1>2. CASE content' = [content EXCEPT ![fd[p].ino] = WriteAt(@, SlotToWrite(p), r)]
    <2>1. /\ fd[p].ino \in Inodes /\ cmd[p].id \in 0..MaxId /\ r \in Slot
          /\ r = EMPTY \/ r.id = cmd[p].id
        BY DEF WriteSlot, IInv, Good, Opened, Called, InRange, Slot, Student
    <2> DEFINE f == content[fd[p].ino]
               g == WriteAt(f, cmd[p].id, r)
    <2>2. IsFile(f) /\ \A k \in Used(f) : f[k].id = k
        BY <2>1 DEF IInv, TypeOK, AllAtHome
    <2>3. \A k \in Used(g) : g[k].id = k
        <3> HIDE DEF r, f
        <3>1. /\ g[cmd[p].id] = r
              /\ Used(g) \ {cmd[p].id} = Used(f) \ {cmd[p].id}
              /\ \A j \in Used(f) \ {cmd[p].id} : g[j] = f[j]
              /\ cmd[p].id \in Used(g) <=> r # EMPTY
            BY <2>1, <2>2, WriteUsed
        <3> QED
            BY <2>1, <2>2, <3>1
    <2>4. content' = [content EXCEPT ![fd[p].ino] = g]
        BY <1>2 DEF SlotToWrite
    <2> QED
        <3> HIDE DEF g
        <3> QED
            BY <2>3, <2>4 DEF AllAtHome, IInv, Stores
<1> QED
    BY <1>1, <1>2 DEF WriteSlot

\* Space that is given back holds no student.
LEMMA StoreAtHome ==
    ASSUME NEW c, \A i \in Inodes : \A k \in Used(c[i]) : c[i][k].id = k, Store(c)
    PROVE  AllAtHome'
BY NothingUsed DEF Store, AllAtHome

LEMMA StepAtHome ==
    ASSUME InPlace, IInv, AllAtHome, [Next]_vars
    PROVE  AllAtHome'
<1>1. CASE UNCHANGED content
    BY <1>1 DEF AllAtHome
<1>2. ASSUME NEW p \in Procs, Start(p) \/ Step(p) \/ Crash(p), ~UNCHANGED content
      PROVE  AllAtHome'
    <2>1. cmd[p].op # "x"
        BY DEF InPlace, IInv, TypeOK, NoCmd
    <2>2. pc[p] \notin {"opentmp", "reopen"} \cup Copying
        BY <2>1 DEF IInv, Good, Called
    <2>3. CASE Gone(p)
        BY <2>3, StoreAtHome DEF Gone, AllAtHome
    <2>4. CASE WriteSlot(p)
        BY <2>4, WriteSlotAtHome
    <2>5. CASE Truncate(p)
        <3>1. \A i \in Inodes : LET f == [content EXCEPT ![db] = EmptyFile][i] IN
                 \A k \in Used(f) : f[k].id = k
            BY NothingUsed DEF IInv, Stores, AllAtHome
        <3> QED
            BY <2>5, <3>1, StoreAtHome DEF Truncate, AllAtHome
    <2>6. CASE OpenTmp(p) \/ CopyWrite(p) \/ Rename(p)
        BY <2>2, <2>6 DEF OpenTmp, CopyWrite, Rename, Copying
    <2> QED
        BY <1>2, <2>3, <2>4, <2>5, <2>6
        DEF Start, Step, Crash, OpenDb, Scan, ReadRecord, CopyRead, Reopen, Exit, kernel
<1> QED
    BY <1>1, <1>2 DEF Next, vars, kernel

\* As long as nobody compresses, a student sits in the slot of its id at every
\* moment, in every inode, for any number of users that add, delete, read and
\* truncate at once and may be killed between two calls.
THEOREM StudentsStayHome == ASSUME InPlace PROVE Spec => []AllAtHome
<1>1. Init => AllAtHome
    BY NothingUsed DEF Init, InPlace, AllAtHome
<1>2. IInv /\ AllAtHome /\ [Next]_vars => AllAtHome'
    BY StepAtHome
<1> QED
    BY <1>1, <1>2, InvHolds, PTL DEF Spec

----------------------------------------------------------------------------
(* Commands that run at once and answer as if alone                        *)

\* No call fails; -a, -d and -z run alone; one process compresses, and only it
\* may look for an empty slot, which compression does away with.
Readers ==
    /\ MaxFaults = 0
    /\ {"a", "d", "z"} \subseteq Alone
    /\ InitialFiles = {EmptyFile}
    /\ \A p, q \in Procs : \A c \in Menu[p], e \in Menu[q] :
          c.op = "x" /\ p # q => e.op # "x" /\ (e.op = "f" => e.id # 0)

\* A file can be made when one is needed.
Room ==
    \A p \in Procs :
        (pc[p] = "open" /\ db = NoInode) \/ (pc[p] = "opentmp" /\ tmp = NoInode) => ~NoSpace

Listed(p) ==
    /\ pc[p] # "idle" => cmd[p] \in Menu[p]
    /\ pc[p] = "idle" => cmd[p] = NoCmd
    /\ pc[p] = "read" => cmd[p].op \in {"c", "p"}
    /\ pc[p] = "truncate" => cmd[p].op = "z"
    /\ pc[p] \in {"idle", "open", "reopen"} => fd[p].ino = NoInode

\* A command that writes runs alone.
Solo == \A p, q \in Procs : cmd[p].op \in {"a", "d", "z"} /\ p # q => pc[q] = "idle"

\* No inode but those in use has anything in it; there is a database once one of
\* them is open.
Kernel ==
    /\ \A i \in Inodes \ Referenced : content[i] = EmptyFile
    /\ db = NoInode => tmp = NoInode /\ \A p \in Procs : fd[p].ino = NoInode

\* p walks a file that has the students of the database in their order, and the
\* database itself if it will write it, replace it or find an empty slot in it.
Reading == {"scan", "write", "read", "opentmp"} \cup Copying

AtDb(p) ==
    \/ pc[p] \in {"write", "opentmp"} \cup Copying
    \/ pc[p] = "scan" /\ (cmd[p].op # "f" \/ cmd[p].id = 0)

Current(p) ==
    /\ pc[p] \in Reading => Pack(FileOf(p)) = Pack(DbFile)
    /\ AtDb(p) => fd[p].ino = db
    /\ pc[p] \in {"truncate", "reopen"} => db # NoInode

\* What the loops have done so far.
Walked(p) ==
    /\ pc[p] = "opentmp" => fd[p].off = 0
    /\ pc[p] = "scan" => \A j \in DOMAIN FileOf(p) : j < fd[p].off => FileOf(p)[j].id # cmd[p].id
    /\ pc[p] = "write" => (Exists(DbFile, cmd[p].id) <=> cmd[p].op = "d")
    /\ pc[p] = "read" => /\ tally[p] = Pack(Prefix(FileOf(p), fd[p].off))
                         /\ Cardinality(DOMAIN tally[p]) = Cardinality(Used(Prefix(FileOf(p), fd[p].off)))

\* content[tmp] is the copy of the first k records.
CopyOf(p, k) ==
    LET h == Prefix(FileOf(p), k) IN
        content[tmp] = Pack(h) /\ tfd[p].off = Cardinality(Used(h))

Copied(p) ==
    /\ pc[p] \in Copying => tfd[p].ino = tmp
    /\ pc[p] = "copyread" => CopyOf(p, fd[p].off)
    /\ pc[p] = "copywrite" => /\ fd[p].off - 1 \in DOMAIN FileOf(p)
                              /\ student[p] = FileOf(p)[fd[p].off - 1] /\ student[p] # EMPTY
                              /\ CopyOf(p, fd[p].off - 1)
    /\ pc[p] = "rename" => content[tmp] = Pack(FileOf(p))
    /\ pc[p] = "reopen" => Pack(DbFile) = DbFile

Fine(p) == Listed(p) /\ Current(p) /\ Walked(p) /\ Copied(p)

AInv == IInv /\ Solo /\ Kernel /\ \A p \in Procs : Fine(p)

LEMMA PrefixZero ==
    ASSUME NEW f, IsFile(f)
    PROVE  Pack(Prefix(f, 0)) = EmptyFile /\ Cardinality(Used(Prefix(f, 0))) = 0
<1> DEFINE U == Used(Prefix(f, 0))
<1>1. U = {}
    <2>1. Used(f) \in SUBSET Nat
        BY UsedSlots
    <2>2. U = {i \in Used(f) : i < 0}
        BY PrefixIsFile, RangeAssumption
    <2> QED
        BY <2>1, <2>2
<1>2. Cardinality(U) = 0
    BY <1>1, FS_EmptySet
<1>3. DOMAIN Pack(Prefix(f, 0)) = {}
    BY <1>2 DEF Pack
<1>4. Pack(Prefix(f, 0)) = [k \in DOMAIN Pack(Prefix(f, 0)) |-> Pack(Prefix(f, 0))[k]]
    BY DEF Pack
<1> QED
    BY <1>2, <1>3, <1>4 DEF EmptyFile

\* Two files that are packed alike hold the same ids.
LEMMA SameIds ==
    ASSUME NEW f, IsFile(f), NEW g, IsFile(g), Pack(f) = Pack(g), NEW id, id # 0, Exists(f, id)
    PROVE  Exists(g, id)
<1> DEFINE T == {i \in DOMAIN f : f[i].id = id}
<1>1. T \in SUBSET Nat /\ T # {}
    BY UsedSlots DEF Exists
<1>2. PICK i \in T : \A j \in T : i <= j
    <2> HIDE DEF T
    <2> QED
        BY <1>1, LeastNat
<1>3. i \in DOMAIN f /\ f[i].id = id /\ \A j \in DOMAIN f : j < i => f[j].id # id
    BY <1>1, <1>2
<1> QED
    BY <1>3, PackFindsSame

LEMMA SameNumber ==
    ASSUME NEW f, IsFile(f), NEW g, IsFile(g), Pack(f) = Pack(g)
    PROVE  Cardinality(Used(f)) = Cardinality(Used(g))
BY PackTwice

LEMMA DbIsFile == ASSUME IInv PROVE IsFile(DbFile)
BY EmptyIsFile DEF IInv, TypeOK, DbFile

\* A step of another process that leaves q's view of the files alone.
Keeps(q) ==
    /\ pc'[q] = pc[q] /\ cmd'[q] = cmd[q] /\ fd'[q] = fd[q]
    /\ tfd'[q] = tfd[q] /\ student'[q] = student[q] /\ tally'[q] = tally[q]
    /\ pc[q] \in Reading => FileOf(q)' = FileOf(q)
    /\ Pack(DbFile') = Pack(DbFile)
    /\ db # NoInode => db' # NoInode
    /\ db' = db \/ ~AtDb(q)
    /\ pc[q] \in Copying => tmp' = tmp /\ content'[tmp] = content[tmp]
    /\ pc[q] \in {"write", "reopen"} => DbFile' = DbFile

LEMMA KeptFine ==
    ASSUME NEW q \in Procs, Fine(q), Keeps(q)
    PROVE  Fine(q)'
<1> USE DEF Fine, Keeps
<1>1. Listed(q)'
    BY DEF Listed
<1>2. Current(q)'
    BY DEF Current, AtDb, Reading
<1>3. Walked(q)'
    BY DEF Walked, Reading, FileOf
<1>4. Copied(q)'
    BY DEF Copied, CopyOf, Reading, Copying, FileOf
<1> QED
    BY <1>1, <1>2, <1>3, <1>4

\* A process that does not run has no view.
LEMMA IdleFine ==
    ASSUME NEW q \in Procs, Fine(q), pc[q] = "idle", pc'[q] = pc[q], cmd'[q] = cmd[q],
           fd'[q] = fd[q]
    PROVE  Fine(q)'
BY DEF Fine, Listed, Current, AtDb, Reading, Walked, Copied, Copying

\* While one process compresses, the others look at their files only.
LEMMA OneCompresses ==
    ASSUME Readers, AInv, NEW p \in Procs, cmd[p].op = "x", pc[p] # "idle",
           NEW q \in Procs, q # p
    PROVE  /\ ~AtDb(q)
           /\ pc[q] \notin {"write", "reopen", "opentmp", "truncate"} \cup Copying
<1>1. cmd[q].op \notin {"a", "d", "z"}
    BY DEF AInv, Solo
<1>2. CASE pc[q] = "idle"
    BY <1>2 DEF AtDb, Copying
<1>3. CASE pc[q] # "idle"
    <2>1. cmd[p] \in Menu[p] /\ cmd[q] \in Menu[q]
        BY <1>3 DEF AInv, Fine, Listed
    <2>2. cmd[q].op # "x" /\ (cmd[q].op = "f" => cmd[q].id # 0)
        BY <2>1 DEF Readers
    <2> QED
        BY <1>1, <2>2 DEF AInv, IInv, Good, Called, Fine, Listed, AtDb
<1> QED
    BY <1>2, <1>3

LEMMA WritesAlone ==
    ASSUME AInv, NEW p \in Procs, cmd[p].op \in {"a", "d", "z"}, NEW q \in Procs, q # p
    PROVE  pc[q] = "idle"
BY DEF AInv, Solo

LEMMA NoFaults == ASSUME Readers, AInv PROVE ~Fails
BY DEF Readers, AInv, IInv, TypeOK, Fails

\* A step that starts no command leaves the processes apart that must be.
LEMMA StillSolo ==
    ASSUME Solo, NEW p \in Procs, pc[p] # "idle", cmd'[p] \in {cmd[p], NoCmd},
           \A q \in Procs : q # p => pc'[q] = pc[q] /\ cmd'[q] = cmd[q]
    PROVE  Solo'
BY DEF Solo, NoCmd

\* A step that touches no file and leaves the descriptors open.
LEMMA KernelKept ==
    ASSUME Kernel, IInv, NEW p \in Procs, UNCHANGED kernel,
           DOMAIN fd' = Procs, DOMAIN tfd' = Procs,
           \A q \in Procs : fd'[q].ino = fd[q].ino /\ tfd'[q].ino = tfd[q].ino
    PROVE  Kernel'
<1>1. Referenced' = Referenced
    BY DEF Referenced, kernel
<1> QED
    BY <1>1 DEF Kernel, kernel

LEMMA OthersKeep ==
    ASSUME AInv, NEW p \in Procs, UNCHANGED kernel,
           \A q \in Procs : q # p =>
              /\ pc'[q] = pc[q] /\ cmd'[q] = cmd[q] /\ fd'[q] = fd[q]
              /\ tfd'[q] = tfd[q] /\ student'[q] = student[q] /\ tally'[q] = tally[q]
    PROVE  \A q \in Procs : q # p => Fine(q)'
<1> SUFFICES ASSUME NEW q \in Procs, q # p
             PROVE  Fine(q)'
    OBVIOUS
<1>1. Keeps(q)
    BY DEF Keeps, kernel, FileOf, DbFile
<1> QED
    BY <1>1, KeptFine DEF AInv

Preserved == Solo' /\ Kernel' /\ \A q \in Procs : Fine(q)'

LEMMA StartPreserves == ASSUME Readers, AInv, NEW p \in Procs, Start(p) PROVE Preserved
<1> USE DEF Start
<1>1. PICK c \in Menu[p] :
         /\ c.op \in Alone => \A q \in Procs : pc[q] = "idle"
         /\ cmd' = [cmd EXCEPT ![p] = c]
         /\ \/ pc' = [pc EXCEPT ![p] = "exit"]
            \/ pc' = [pc EXCEPT ![p] = "open"]
    BY DEF Answer, Proceed, Goto
<1>2. /\ cmd'[p] = c /\ pc'[p] \in {"exit", "open"}
      /\ \A q \in Procs : q # p => cmd'[q] = cmd[q] /\ pc'[q] = pc[q]
    BY <1>1 DEF AInv, IInv, Stores
<1>3. Solo'
    BY <1>1, <1>2 DEF AInv, Solo, Readers
<1>4. Kernel'
    BY KernelKept DEF AInv, IInv, Stores
<1>5. Fine(p)'
    BY <1>1, <1>2 DEF AInv, Fine, Listed, Current, AtDb, Reading, Walked, Copied, Copying
<1>6. \A q \in Procs : q # p => Fine(q)'
    BY <1>2, OthersKeep
<1> QED
    BY <1>3, <1>4, <1>5, <1>6 DEF Preserved

LEMMA OpenDbPreserves ==
    ASSUME Readers, AInv, Room, NEW p \in Procs, OpenDb(p)
    PROVE  Preserved /\ DbFile' = DbFile
<1> USE DEF OpenDb
<1>1. /\ pc[p] = "open" /\ fd[p].ino = NoInode
      /\ db = NoInode => ~NoSpace
    BY DEF Room, AInv, Fine, Listed
<1>2. /\ db' = IF db = NoInode THEN FreshInode ELSE db
      /\ fd' = [fd EXCEPT ![p] = [ino |-> db', off |-> 0]]
      /\ Dispatch(p)
    BY <1>1, NoFaults
<1>3. /\ db' \in Inodes /\ db' # NoInode
      /\ db = NoInode => db' \notin Referenced
      /\ db # NoInode => db' = db
    BY <1>1, <1>2, FreshIsFree, ProcsAssumption DEF AInv, IInv, TypeOK
<1>4. /\ fd'[p] = [ino |-> db', off |-> 0]
      /\ \A q \in Procs : q # p => fd'[q] = fd[q]
    BY <1>2 DEF AInv, IInv, Stores
<1>5. PICK l \in {"exit", "scan", "read", "opentmp", "truncate"} :
         /\ pc' = [pc EXCEPT ![p] = l]
         /\ l = "scan" => \/ cmd[p].op \in {"d", "f"}
                          \/ cmd[p].op = "a" /\ InRange(cmd[p].id, cmd[p].gpa)
         /\ l = "opentmp" => cmd[p].op = "x"
         /\ l = "read" => cmd[p].op \in {"c", "p"}
         /\ l = "truncate" => cmd[p].op = "z"
    BY <1>2 DEF Dispatch, Answer, Proceed, Goto
<1>6. pc'[p] = l /\ \A q \in Procs : q # p => pc'[q] = pc[q]
    BY <1>5 DEF AInv, IInv, Stores
<1>7. DbFile' = DbFile
    BY <1>3 DEF DbFile, AInv, Kernel
<1>8. Solo'
    BY <1>1, <1>6, StillSolo DEF AInv
<1>9. Kernel'
    <2>1. Referenced \ {NoInode} \subseteq Referenced'
        BY <1>1, <1>3, <1>4 DEF Referenced
    <2>2. \A i \in Inodes : i # NoInode
        BY ProcsAssumption
    <2> QED
        BY <1>3, <2>1, <2>2 DEF AInv, Kernel
<1>10. Fine(p)'
    <2>1. cmd' = cmd /\ tally' = tally /\ content' = content
        OBVIOUS
    <2>2. FileOf(p)' = DbFile'
        BY <1>3, <1>4, <2>1 DEF FileOf, DbFile
    <2>3. IsFile(DbFile') /\ DOMAIN DbFile' \in SUBSET Nat
        BY <1>7, DbIsFile, UsedSlots DEF AInv
    <2>4. Listed(p)' /\ Current(p)'
        BY <1>1, <1>3, <1>4, <1>5, <1>6, <2>1, <2>2
        DEF AInv, Fine, Listed, Current, AtDb, Reading, Copying
    <2>5. tally[p] = EmptyFile
        BY <1>1 DEF AInv, IInv, Good, Counted
    <2>6. Walked(p)'
        <3>1. pc'[p] = "read" => /\ tally'[p] = Pack(Prefix(FileOf(p)', 0))
                                 /\ Cardinality(DOMAIN tally'[p])
                                        = Cardinality(Used(Prefix(FileOf(p)', 0)))
            BY <2>1, <2>2, <2>3, <2>5, PrefixZero, EmptyIsFile
        <3>2. pc'[p] = "scan" => \A j \in DOMAIN FileOf(p)' : ~(j < 0)
            BY <2>2, <2>3
        <3>3. pc'[p] # "write"
            BY <1>6
        <3> QED
            BY <1>4, <3>1, <3>2, <3>3 DEF Walked
    <2>7. Copied(p)'
        BY <1>6 DEF Copied, Copying
    <2> QED
        BY <2>4, <2>6, <2>7 DEF Fine
<1>11. ASSUME NEW q \in Procs, q # p
      PROVE  Fine(q)'
    <2>1. db = NoInode => pc[q] \notin Reading \cup {"truncate", "reopen"}
        BY ProcsAssumption DEF AInv, Kernel, IInv, Good, Opened, Reading, Fine, Current
    <2>2. Keeps(q)
        BY <1>3, <1>4, <1>6, <1>7, <1>11, <2>1 DEF Keeps, FileOf, AtDb, Reading, Copying
    <2> QED
        BY <2>2, KeptFine DEF AInv
<1> QED
    BY <1>7, <1>8, <1>9, <1>10, <1>11 DEF Preserved

\* A process that ends takes nothing from the others.
LEMMA GonePreserves ==
    ASSUME Readers, AInv, NEW p \in Procs, pc[p] # "idle", Gone(p)
    PROVE  Preserved /\ DbFile' = DbFile
<1> USE DEF Gone, Goto
<1>1. /\ pc'[p] = "idle" /\ cmd'[p] = NoCmd /\ fd'[p] = Closed
      /\ \A q \in Procs : q # p =>
            /\ pc'[q] = pc[q] /\ cmd'[q] = cmd[q] /\ fd'[q] = fd[q]
            /\ tfd'[q] = tfd[q] /\ student'[q] = student[q] /\ tally'[q] = tally[q]
    BY DEF AInv, IInv, Stores
<1>2. \A i \in Inodes : content'[i] = IF i \in Referenced' THEN content[i] ELSE EmptyFile
    BY DEF Store
<1>3. /\ db \in Inodes => db \in Referenced'
      /\ tmp \in Inodes => tmp \in Referenced'
      /\ \A q \in Procs : q # p => fd[q].ino \in Referenced'
    BY <1>1 DEF Referenced
<1>4. DbFile' = DbFile
    BY <1>2, <1>3 DEF DbFile, AInv, IInv, TypeOK
<1>5. Solo'
    BY <1>1, StillSolo DEF AInv
<1>6. Kernel'
    <2>1. ASSUME db = NoInode
          PROVE  tmp' = NoInode /\ \A q \in Procs : fd'[q].ino = NoInode
        BY <1>1, <2>1 DEF AInv, Kernel, Closed
    <2> QED
        BY <1>2, <2>1 DEF Kernel
<1>7. Fine(p)'
    BY <1>1 DEF Fine, Listed, Current, AtDb, Reading, Walked, Copied, Copying, Closed
<1>8. ASSUME NEW q \in Procs, q # p
      PROVE  Fine(q)'
    <2>1. pc[q] \in Reading => FileOf(q)' = FileOf(q)
        BY <1>1, <1>2, <1>3, <1>8 DEF FileOf, AInv, IInv, Good, Opened, Reading
    <2>2. pc[q] \in Copying => tmp \in Inodes
        BY <1>8 DEF AInv, IInv, TypeOK, Good, Opened, Fine, Copied
    <2>3. Keeps(q)
        BY <1>1, <1>2, <1>3, <1>4, <1>8, <2>1, <2>2 DEF Keeps
    <2> QED
        BY <2>3, KeptFine DEF AInv
<1> QED
    BY <1>4, <1>5, <1>6, <1>7, <1>8 DEF Preserved

\* What the next record adds to what get_student has looked at.
LEMMA ScanPreserves ==
    ASSUME Readers, AInv, NEW p \in Procs, Scan(p)
    PROVE  Preserved /\ DbFile' = DbFile
<1> USE DEF Scan
<1> DEFINE f == FileOf(p)
           o == fd[p].off
<1>1. /\ pc[p] = "scan" /\ fd[p].ino \in Inodes
      /\ \A j \in DOMAIN f : j < o => f[j].id # cmd[p].id
    BY DEF AInv, IInv, Good, Opened, Fine, Walked
<1>2. IsFile(f) /\ DOMAIN f \in SUBSET Nat /\ o \in Nat
    BY <1>1, UsedSlots, RangeAssumption DEF AInv, IInv, TypeOK, FileOf
<1>3. /\ \A q \in Procs : fd'[q].ino = fd[q].ino /\ (q # p => fd'[q] = fd[q])
      /\ fd' \in [Procs -> [ino : Inodes \cup {NoInode}, off : 0..(MaxId + 1)]]
      /\ Advance(p) => fd'[p].off = o + 1
    BY <1>1, ReadOn DEF AInv
<1>4. \/ pc' = [pc EXCEPT ![p] = "exit"]
      \/ /\ pc' = [pc EXCEPT ![p] = "write"]
         /\ \/ cmd[p].op = "a" /\ AtEnd(p)
            \/ cmd[p].op = "d" /\ ~AtEnd(p) /\ f[o].id = cmd[p].id
      \/ UNCHANGED pc /\ ~AtEnd(p) /\ Advance(p) /\ f[o].id # cmd[p].id
    <2>1. ASSUME OnMissing(p, "SRCH_NOT_FOUND"), AtEnd(p)
          PROVE  <1>4
        BY <2>1 DEF OnMissing, Answer, Proceed, Goto
    <2>2. ASSUME OnFound(p, f[o]), ~AtEnd(p), f[o].id = cmd[p].id
          PROVE  <1>4
        BY <2>2 DEF OnFound, Answer, Proceed, Goto
    <2> QED
        BY <2>1, <2>2, NoFaults
<1>5. /\ pc'[p] \in {"exit", "write", "scan"}
      /\ \A q \in Procs : q # p => pc'[q] = pc[q]
      /\ pc'[p] = "write" => \/ cmd[p].op = "a" /\ AtEnd(p)
                             \/ cmd[p].op = "d" /\ ~AtEnd(p) /\ f[o].id = cmd[p].id
      /\ pc'[p] = "scan" => Advance(p) /\ f[o].id # cmd[p].id
    BY <1>1, <1>4 DEF AInv, IInv, Stores
<1>6. DbFile' = DbFile
    BY DEF DbFile, kernel
<1>7. Solo'
    BY <1>1, <1>5, StillSolo DEF AInv
<1>8. Kernel'
    BY <1>3, KernelKept DEF AInv, IInv, Stores
<1>9. Fine(p)'
    <2>1. cmd' = cmd /\ content' = content /\ db' = db /\ FileOf(p)' = f
        BY <1>3 DEF kernel, FileOf
    <2>2. Listed(p)' /\ Copied(p)'
        BY <1>1, <1>5, <2>1 DEF AInv, Fine, Listed, Copied, Copying
    <2>3. Current(p)'
        BY <1>1, <1>3, <1>5, <1>6, <2>1 DEF AInv, Fine, Current, AtDb, Reading, Copying
    <2>4. pc'[p] = "write" => (Exists(DbFile', cmd'[p].id) <=> cmd'[p].op = "d")
        <3>1. pc'[p] = "write" => f = DbFile
            <4>1. pc'[p] = "write" => fd[p].ino = db
                BY <1>1, <1>5 DEF AInv, Fine, Current, AtDb
            <4> QED
                BY <1>1, <4>1, ProcsAssumption DEF FileOf, DbFile
        <3>2. AtEnd(p) => ~Exists(f, cmd[p].id)
            <4>1. AtEnd(p) => \A j \in DOMAIN f : j < o
                BY <1>2, LengthOfFile, RangeAssumption DEF AtEnd
            <4> QED
                BY <1>1, <4>1 DEF Exists
        <3>3. ~AtEnd(p) /\ f[o].id = cmd[p].id => Exists(f, cmd[p].id)
            BY DEF AtEnd, Exists
        <3> QED
            BY <1>5, <1>6, <2>1, <3>1, <3>2, <3>3
    <2>5. pc'[p] = "scan" => \A j \in DOMAIN f : j < fd'[p].off => f[j].id # cmd[p].id
        BY <1>1, <1>2, <1>3, <1>5
    <2>6. Walked(p)'
        BY <1>5, <2>1, <2>4, <2>5 DEF Walked
    <2> QED
        BY <2>2, <2>3, <2>6 DEF Fine
<1>10. \A q \in Procs : q # p => Fine(q)'
    BY <1>3, <1>5, OthersKeep
<1> QED
    BY <1>6, <1>7, <1>8, <1>9, <1>10 DEF Preserved

\* A file is changed while nobody else runs.
LEMMA WriteSlotPreserves ==
    ASSUME Readers, AInv, NEW p \in Procs, WriteSlot(p)
    PROVE  Preserved
<1> USE DEF WriteSlot
<1>1. /\ pc[p] = "write" /\ cmd[p].op \in {"a", "d"} /\ fd[p].ino \in Inodes
      /\ \A q \in Procs : q # p => pc[q] = "idle"
    BY WritesAlone DEF AInv, IInv, Good, Called, Opened
<1>2. /\ pc' = [pc EXCEPT ![p] = "exit"]
      /\ \A i \in Inodes : i # fd[p].ino => content'[i] = content[i]
    BY DEF Answer, Goto, AInv, IInv, Stores
<1>3. /\ pc'[p] = "exit"
      /\ \A q \in Procs : q # p => pc'[q] = pc[q]
    BY <1>2 DEF AInv, IInv, Stores
<1>4. Solo'
    BY <1>1, <1>3, StillSolo DEF AInv
<1>5. Kernel'
    <2>1. Referenced' = Referenced /\ fd[p].ino \in Referenced
        BY DEF Referenced
    <2> QED
        BY <1>2, <2>1 DEF AInv, Kernel
<1>6. Fine(p)'
    BY <1>1, <1>3 DEF AInv, Fine, Listed, Current, AtDb, Reading, Walked, Copied, Copying
<1>7. ASSUME NEW q \in Procs, q # p
      PROVE  Fine(q)'
    BY <1>1, <1>3, <1>7, IdleFine DEF AInv
<1> QED
    BY <1>4, <1>5, <1>6, <1>7 DEF Preserved

LEMMA TruncatePreserves ==
    ASSUME Readers, AInv, NEW p \in Procs, Truncate(p)
    PROVE  Preserved /\ DbFile' = EmptyFile
<1> USE DEF Truncate
<1>1. /\ pc[p] = "truncate" /\ cmd[p].op = "z" /\ db # NoInode
      /\ \A q \in Procs : q # p => pc[q] = "idle"
    BY WritesAlone DEF AInv, Fine, Listed, Current
<1>2. /\ fd' = [fd EXCEPT ![p] = [ino |-> db, off |-> 0]]
      /\ pc' = [pc EXCEPT ![p] = "exit"]
      /\ Store([content EXCEPT ![db] = EmptyFile])
    BY NoFaults DEF Answer, Goto
<1>3. /\ pc'[p] = "exit" /\ fd'[p].ino = db
      /\ \A q \in Procs : q # p => pc'[q] = pc[q] /\ fd'[q] = fd[q]
    BY <1>2 DEF AInv, IInv, Stores
<1>4. /\ \A i \in Inodes : i \notin Referenced' => content'[i] = EmptyFile
      /\ DbFile' = EmptyFile
    BY <1>2 DEF Store, DbFile, AInv, IInv, TypeOK, Stores
<1>5. Solo'
    BY <1>1, <1>3, StillSolo DEF AInv
<1>6. Kernel'
    BY <1>1, <1>4 DEF Kernel
<1>7. Fine(p)'
    BY <1>1, <1>3 DEF AInv, Fine, Listed, Current, AtDb, Reading, Walked, Copied, Copying
<1>8. ASSUME NEW q \in Procs, q # p
      PROVE  Fine(q)'
    BY <1>1, <1>3, <1>8, IdleFine DEF AInv
<1> QED
    BY <1>4, <1>5, <1>6, <1>7, <1>8 DEF Preserved

\* count_db_records and print_db have met the used records of what they read.
LEMMA ReadRecordPreserves ==
    ASSUME Readers, AInv, NEW p \in Procs, ReadRecord(p)
    PROVE  Preserved /\ DbFile' = DbFile
<1> USE DEF ReadRecord
<1> DEFINE f == FileOf(p)
           o == fd[p].off
           h == Prefix(f, o)
           n == Cardinality(DOMAIN tally[p])
<1>1. /\ pc[p] = "read" /\ fd[p].ino \in Inodes
      /\ tally[p] = Pack(h) /\ n = Cardinality(Used(h))
    BY DEF AInv, IInv, Good, Opened, Fine, Walked
<1>2. IsFile(f)
    BY <1>1 DEF AInv, IInv, TypeOK, FileOf
<1>3. /\ \A q \in Procs : fd'[q].ino = fd[q].ino /\ (q # p => fd'[q] = fd[q])
      /\ fd' \in [Procs -> [ino : Inodes \cup {NoInode}, off : 0..(MaxId + 1)]]
      /\ Advance(p) => fd'[p].off = o + 1
    BY <1>1, ReadOn DEF AInv
<1>4. \/ pc' = [pc EXCEPT ![p] = "exit"] /\ UNCHANGED tally
      \/ /\ UNCHANGED pc /\ ~AtEnd(p) /\ Advance(p)
         /\ tally' = [tally EXCEPT ![p] = IF f[o] = EMPTY THEN @ ELSE WriteAt(@, n, f[o])]
    BY NoFaults DEF Answer, Goto
<1>5. /\ pc'[p] \in {"exit", "read"}
      /\ \A q \in Procs : q # p => pc'[q] = pc[q] /\ tally'[q] = tally[q]
      /\ pc'[p] = "read" =>
            /\ ~AtEnd(p) /\ Advance(p)
            /\ tally'[p] = IF f[o] = EMPTY THEN tally[p] ELSE WriteAt(tally[p], n, f[o])
    BY <1>1, <1>4 DEF AInv, IInv, Stores
<1>6. DbFile' = DbFile
    BY DEF DbFile, kernel
<1>7. Solo'
    BY <1>1, <1>5, StillSolo DEF AInv
<1>8. Kernel'
    BY <1>3, KernelKept DEF AInv, IInv, Stores
<1>9. Fine(p)'
    <2>1. cmd' = cmd /\ content' = content /\ db' = db /\ FileOf(p)' = f
        BY <1>3 DEF kernel, FileOf
    <2>2. Listed(p)' /\ Copied(p)'
        BY <1>1, <1>5, <2>1 DEF AInv, Fine, Listed, Copied, Copying
    <2>3. Current(p)'
        BY <1>1, <1>3, <1>5, <1>6, <2>1 DEF AInv, Fine, Current, AtDb, Reading, Copying
    <2>4. ASSUME pc'[p] = "read"
          PROVE  LET g == Prefix(f, fd'[p].off) IN
                 tally'[p] = Pack(g) /\ Cardinality(DOMAIN tally'[p]) = Cardinality(Used(g))
        <3>1. o \in DOMAIN f /\ fd'[p].off = o + 1
            BY <1>3, <1>5, <2>4 DEF AtEnd
        <3> DEFINE g == Prefix(f, o + 1)
        <3>2. /\ f[o] = EMPTY => Pack(g) = Pack(h) /\ Cardinality(Used(g)) = Cardinality(Used(h))
              /\ f[o] # EMPTY => /\ Pack(g) = WriteAt(Pack(h), Cardinality(Used(h)), f[o])
                                 /\ Cardinality(Used(g)) = Cardinality(Used(h)) + 1
            BY <1>2, <3>1, PackNext
        <3>3. tally'[p] = Pack(g)
            <4> HIDE DEF f, h, g, n
            <4> QED
                BY <1>1, <1>5, <2>4, <3>2
        <3>4. IsFile(g) /\ Pack(g) = [k \in 0..(Cardinality(Used(g)) - 1) |-> Pack(g)[k]]
            <4>1. o + 1 \in 0..(MaxId + 1)
                BY <1>2, <3>1, UsedSlots, RangeAssumption
            <4> QED
                BY <1>2, <4>1, PrefixIsFile DEF Pack
        <3>5. Cardinality(DOMAIN Pack(g)) = Cardinality(Used(g))
            <4>1. IsFile(Pack(g)) /\ Used(Pack(g)) = DOMAIN Pack(g)
                BY <3>4, PackIsFile
            <4> QED
                BY <3>4, <4>1, PackTwice
        <3> QED
            BY <3>1, <3>3, <3>5
    <2>5. Walked(p)'
        BY <1>5, <2>1, <2>4 DEF Walked
    <2> QED
        BY <2>2, <2>3, <2>5 DEF Fine
<1>10. \A q \in Procs : q # p => Fine(q)'
    BY <1>3, <1>5, OthersKeep
<1> QED
    BY <1>6, <1>7, <1>8, <1>9, <1>10 DEF Preserved

\* The others look at files the compression does not touch.
LEMMA CompressorKeeps ==
    ASSUME Readers, AInv, NEW p \in Procs, cmd[p].op = "x", pc[p] # "idle",
           NEW q \in Procs, q # p,
           pc'[q] = pc[q], cmd'[q] = cmd[q], fd'[q] = fd[q],
           tfd'[q] = tfd[q], student'[q] = student[q], tally'[q] = tally[q],
           fd[q].ino \in Inodes => content'[fd[q].ino] = content[fd[q].ino],
           Pack(DbFile') = Pack(DbFile), db # NoInode => db' # NoInode
    PROVE  Fine(q)'
<1>1. /\ ~AtDb(q)
      /\ pc[q] \notin {"write", "reopen", "opentmp", "truncate"} \cup Copying
    BY OneCompresses
<1>2. pc[q] \in Reading => fd[q].ino \in Inodes
    BY DEF AInv, IInv, Good, Opened, Reading
<1>3. Keeps(q)
    BY <1>1, <1>2 DEF Keeps, FileOf
<1> QED
    BY <1>3, KeptFine DEF AInv

LEMMA OpenTmpPreserves ==
    ASSUME Readers, AInv, IInv', Room, NEW p \in Procs, OpenTmp(p)
    PROVE  Preserved /\ DbFile' = DbFile
<1> USE DEF OpenTmp
<1>1. /\ pc[p] = "opentmp" /\ cmd[p].op = "x" /\ fd[p].ino \in Inodes /\ fd[p].off = 0
      /\ fd[p].ino = db
      /\ tmp = NoInode => ~NoSpace
    BY DEF Room, AInv, IInv, Good, Called, Opened, Fine, Walked, Current, AtDb
<1>2. /\ tmp' = IF tmp = NoInode THEN FreshInode ELSE tmp
      /\ content' = [content EXCEPT ![tmp'] = EmptyFile]
      /\ tfd' = [tfd EXCEPT ![p] = [ino |-> tmp', off |-> 0]]
      /\ pc' = [pc EXCEPT ![p] = "copyread"]
    BY <1>1, NoFaults DEF MakeEmpty, Proceed, Goto
<1>3. /\ pc'[p] = "copyread" /\ tfd'[p] = [ino |-> tmp', off |-> 0]
      /\ \A q \in Procs : q # p => pc'[q] = pc[q] /\ tfd'[q] = tfd[q]
    BY <1>2 DEF AInv, IInv, Stores
<1>4. /\ tmp' \in Inodes /\ content'[tmp'] = EmptyFile
      /\ \A i \in Inodes : i # tmp' => content'[i] = content[i]
      /\ tmp' # db /\ \A q \in Procs : fd[q].ino # tmp'
    <2>1. tmp' \in Inodes
        BY <1>1, <1>2, FreshIsFree DEF AInv, IInv, TypeOK
    <2>2. tmp' # NoInode
        BY <2>1, ProcsAssumption
    <2> QED
        BY <1>2, <2>1, <2>2 DEF AInv, IInv, Stores, Apart
<1>5. DbFile' = DbFile
    BY <1>4 DEF DbFile, AInv, IInv, TypeOK
<1>6. Solo'
    BY <1>1, <1>3, StillSolo DEF AInv
<1>7. Kernel'
    <2>1. db # NoInode
        BY <1>1, ProcsAssumption
    <2>2. tfd[p].ino = NoInode /\ (tmp # NoInode => tmp' = tmp)
        BY <1>1, <1>2 DEF AInv, IInv, Good, Opened, Copying
    <2>3. Referenced \ {NoInode} \subseteq Referenced' /\ tmp' \in Referenced'
        BY <1>3, <2>2 DEF Referenced
    <2>4. \A i \in Inodes : i # NoInode
        BY ProcsAssumption
    <2> QED
        BY <1>4, <2>1, <2>3, <2>4 DEF AInv, Kernel
<1>8. Fine(p)'
    <2>1. FileOf(p)' = FileOf(p) /\ IsFile(FileOf(p))
        BY <1>1, <1>4 DEF FileOf, AInv, IInv, TypeOK
    <2>2. Listed(p)' /\ Walked(p)'
        BY <1>1, <1>3 DEF AInv, Fine, Listed, Walked
    <2>3. Current(p)'
        BY <1>1, <1>3, <1>5, <2>1 DEF AInv, Fine, Current, AtDb, Reading, Copying
    <2>4. CopyOf(p, 0)'
        BY <1>3, <1>4, <2>1, PrefixZero DEF CopyOf
    <2>5. Copied(p)'
        BY <1>1, <1>3, <2>4 DEF Copied
    <2> QED
        BY <2>2, <2>3, <2>5 DEF Fine
<1>9. ASSUME NEW q \in Procs, q # p
      PROVE  Fine(q)'
    BY <1>1, <1>3, <1>4, <1>5, <1>9, CompressorKeeps
<1> QED
    BY <1>5, <1>6, <1>7, <1>8, <1>9 DEF Preserved

LEMMA CopyReadPreserves ==
    ASSUME Readers, AInv, NEW p \in Procs, CopyRead(p)
    PROVE  Preserved /\ DbFile' = DbFile
<1> USE DEF CopyRead
<1> DEFINE f == FileOf(p)
           o == fd[p].off
<1>1. /\ pc[p] = "copyread" /\ cmd[p].op = "x" /\ fd[p].ino \in Inodes /\ fd[p].ino = db
      /\ tfd[p].ino = tmp /\ CopyOf(p, o)
    BY DEF AInv, IInv, Good, Called, Opened, Fine, Current, AtDb, Copied, Copying
<1>2. IsFile(f) /\ o \in Nat
    BY <1>1 DEF AInv, IInv, TypeOK, FileOf
<1>3. /\ \A q \in Procs : fd'[q].ino = fd[q].ino /\ (q # p => fd'[q] = fd[q])
      /\ fd' \in [Procs -> [ino : Inodes \cup {NoInode}, off : 0..(MaxId + 1)]]
      /\ Advance(p) => fd'[p].off = o + 1
    BY <1>1, ReadOn DEF AInv
<1>4. \/ pc' = [pc EXCEPT ![p] = "rename"] /\ AtEnd(p) /\ UNCHANGED <<fd, student>>
      \/ UNCHANGED <<pc, student>> /\ ~AtEnd(p) /\ Advance(p) /\ f[o] = EMPTY
      \/ /\ ~AtEnd(p) /\ Advance(p) /\ f[o] # EMPTY
         /\ pc' = [pc EXCEPT ![p] = "copywrite"]
         /\ student' = [student EXCEPT ![p] = f[o]]
    BY NoFaults DEF Goto
<1>5. /\ \A q \in Procs : q # p => pc'[q] = pc[q] /\ student'[q] = student[q]
      /\ \/ pc'[p] = "rename" /\ AtEnd(p)
         \/ pc'[p] = "copyread" /\ ~AtEnd(p) /\ Advance(p) /\ f[o] = EMPTY
         \/ pc'[p] = "copywrite" /\ ~AtEnd(p) /\ Advance(p) /\ f[o] # EMPTY /\ student'[p] = f[o]
    BY <1>1, <1>4 DEF AInv, IInv, Stores
<1>6. DbFile' = DbFile
    BY DEF DbFile, kernel
<1>7. Solo'
    BY <1>1, <1>5, StillSolo DEF AInv
<1>8. Kernel'
    BY <1>3, KernelKept DEF AInv, IInv, Stores
<1>9. Fine(p)'
    <2>1. /\ cmd' = cmd /\ content' = content /\ db' = db /\ tmp' = tmp /\ tfd' = tfd
          /\ FileOf(p)' = f
        BY <1>3 DEF kernel, FileOf
    <2>2. Listed(p)' /\ Walked(p)'
        BY <1>1, <1>5, <2>1 DEF AInv, Fine, Listed, Walked
    <2>3. Current(p)'
        BY <1>1, <1>3, <1>5, <1>6, <2>1 DEF AInv, Fine, Current, AtDb, Reading, Copying
    <2>4. ASSUME pc'[p] = "rename" /\ AtEnd(p)
          PROVE  Copied(p)'
        <3>1. o \in 0..(MaxId + 1) /\ o \notin DOMAIN f
            BY <2>4 DEF AtEnd, AInv, IInv, TypeOK
        <3>2. content[tmp] = Pack(f)
            BY <1>1, <1>2, <3>1, PrefixIsFile DEF CopyOf
        <3> QED
            BY <1>1, <2>1, <2>4, <3>2 DEF Copied
    <2>5. ASSUME pc'[p] = "copyread" /\ ~AtEnd(p) /\ Advance(p) /\ f[o] = EMPTY
          PROVE  Copied(p)'
        <3>1. o \in DOMAIN f /\ fd'[p].off = o + 1
            BY <1>3, <2>5 DEF AtEnd
        <3>2. /\ Pack(Prefix(f, o + 1)) = Pack(Prefix(f, o))
              /\ Cardinality(Used(Prefix(f, o + 1))) = Cardinality(Used(Prefix(f, o)))
            BY <1>2, <2>5, <3>1, PackNext
        <3>3. content[tmp] = Pack(Prefix(f, o)) /\ tfd[p].off = Cardinality(Used(Prefix(f, o)))
            BY <1>1 DEF CopyOf
        <3>4. CopyOf(p, fd[p].off)'
            BY <2>1, <3>1, <3>2, <3>3 DEF CopyOf
        <3> QED
            BY <1>1, <2>1, <2>5, <3>4 DEF Copied
    <2>6. ASSUME pc'[p] = "copywrite" /\ ~AtEnd(p) /\ Advance(p) /\ f[o] # EMPTY /\ student'[p] = f[o]
          PROVE  Copied(p)'
        <3>1. o \in DOMAIN f /\ fd'[p].off - 1 = o
            BY <1>2, <1>3, <2>6 DEF AtEnd
        <3>2. content[tmp] = Pack(Prefix(f, o)) /\ tfd[p].off = Cardinality(Used(Prefix(f, o)))
            BY <1>1 DEF CopyOf
        <3>3. CopyOf(p, fd[p].off - 1)'
            BY <2>1, <3>1, <3>2 DEF CopyOf
        <3>4. fd'[p].off - 1 = o
            BY <3>1
        <3> QED
            BY <1>1, <2>1, <2>6, <3>1, <3>3, <3>4 DEF Copied
    <2>7. Copied(p)'
        BY <1>5, <2>4, <2>5, <2>6
    <2> QED
        BY <2>2, <2>3, <2>7 DEF Fine
<1>10. \A q \in Procs : q # p => Fine(q)'
    BY <1>3, <1>5, OthersKeep
<1> QED
    BY <1>6, <1>7, <1>8, <1>9, <1>10 DEF Preserved

LEMMA CopyWritePreserves ==
    ASSUME Readers, AInv, NEW p \in Procs, CopyWrite(p)
    PROVE  Preserved /\ DbFile' = DbFile
<1> USE DEF CopyWrite
<1> DEFINE f == FileOf(p)
           k == fd[p].off - 1
<1>1. /\ pc[p] = "copywrite" /\ cmd[p].op = "x" /\ fd[p].ino \in Inodes /\ fd[p].ino = db
      /\ tfd[p].ino = tmp /\ CopyOf(p, k) /\ tfd[p].ino # NoInode
      /\ k \in DOMAIN f /\ student[p] = f[k] /\ f[k] # EMPTY
    BY DEF AInv, IInv, Good, Called, Opened, Fine, Current, AtDb, Copied, Copying
<1>2. IsFile(f) /\ k + 1 = fd[p].off /\ tfd[p].off \in Nat
    BY <1>1 DEF AInv, IInv, TypeOK, FileOf
<1>3. /\ content' = [content EXCEPT ![tmp] = WriteAt(@, tfd[p].off, student[p])]
      /\ tfd' = [tfd EXCEPT ![p].off = @ + 1]
      /\ pc' = [pc EXCEPT ![p] = "copyread"]
      /\ UNCHANGED <<db, tmp, fd>>
    BY <1>1, NoFaults DEF Proceed, Goto
<1>4. tmp \in Inodes /\ tmp # db /\ \A q \in Procs : fd[q].ino # tmp
    BY <1>1 DEF AInv, IInv, TypeOK, Apart
<1>5. /\ pc'[p] = "copyread" /\ tfd'[p].ino = tmp /\ tfd'[p].off = tfd[p].off + 1
      /\ \A q \in Procs : q # p => pc'[q] = pc[q] /\ tfd'[q] = tfd[q] /\ student'[q] = student[q]
      /\ \A q \in Procs : tfd'[q].ino = tfd[q].ino
    <2>1. tfd[p] \in [ino : Inodes \cup {NoInode}, off : 0..(MaxId + 1)]
        BY DEF AInv, IInv, Stores
    <2> QED
        BY <1>1, <1>3, <2>1 DEF AInv, IInv, Stores
<1>6. /\ content'[tmp] = WriteAt(content[tmp], tfd[p].off, f[k])
      /\ \A i \in Inodes : i # tmp => content'[i] = content[i]
    BY <1>1, <1>3, <1>4 DEF AInv, IInv, Stores
<1>7. DbFile' = DbFile
    BY <1>3, <1>4, <1>6 DEF DbFile, AInv, IInv, TypeOK
<1>8. Solo'
    BY <1>1, <1>5, StillSolo DEF AInv
<1>9. Kernel'
    <2>1. Referenced' = Referenced /\ tmp \in Referenced
        BY <1>3, <1>5 DEF Referenced
    <2> QED
        BY <1>3, <1>6, <2>1 DEF AInv, Kernel
<1>10. Fine(p)'
    <2>1. FileOf(p)' = f
        BY <1>1, <1>3, <1>4, <1>6 DEF FileOf
    <2>2. Listed(p)' /\ Walked(p)'
        BY <1>1, <1>5 DEF AInv, Fine, Listed, Walked
    <2>3. Current(p)'
        BY <1>1, <1>3, <1>5, <1>7, <2>1 DEF AInv, Fine, Current, AtDb, Reading, Copying
    <2>4. CopyOf(p, k + 1)'
        <3>1. /\ Pack(Prefix(f, k + 1)) = WriteAt(Pack(Prefix(f, k)), Cardinality(Used(Prefix(f, k))), f[k])
              /\ Cardinality(Used(Prefix(f, k + 1))) = Cardinality(Used(Prefix(f, k))) + 1
            BY <1>1, <1>2, PackNext
        <3>2. content[tmp] = Pack(Prefix(f, k)) /\ tfd[p].off = Cardinality(Used(Prefix(f, k)))
            BY <1>1 DEF CopyOf
        <3>3. /\ content'[tmp'] = Pack(Prefix(f, k + 1))
              /\ tfd'[p].off = Cardinality(Used(Prefix(f, k + 1)))
            BY <1>3, <1>5, <1>6, <3>1, <3>2
        <3> QED
            BY <1>3, <2>1, <3>3 DEF CopyOf
    <2>5. Copied(p)'
        BY <1>2, <1>3, <1>5, <2>4 DEF Copied
    <2> QED
        BY <2>2, <2>3, <2>5 DEF Fine
<1>11. ASSUME NEW q \in Procs, q # p
      PROVE  Fine(q)'
    BY <1>1, <1>3, <1>4, <1>5, <1>6, <1>7, <1>11, CompressorKeeps
<1> QED
    BY <1>7, <1>8, <1>9, <1>10, <1>11 DEF Preserved

\* The copy is complete when it takes the name of the database.
LEMMA RenamePreserves ==
    ASSUME Readers, AInv, NEW p \in Procs, Rename(p)
    PROVE  Preserved /\ DbFile' = Pack(DbFile) /\ out' = Compressed
<1> USE DEF Rename
<1>1. /\ pc[p] = "rename" /\ cmd[p].op = "x" /\ fd[p].ino \in Inodes /\ fd[p].ino = db
      /\ tmp \in Inodes /\ tmp # NoInode /\ content[tmp] = Pack(FileOf(p))
    BY DEF AInv, IInv, TypeOK, Good, Called, Opened, Fine, Current, AtDb, Copied, Copying
<1>2. /\ db' = tmp /\ tmp' = NoInode /\ out' = Compressed
      /\ pc' = [pc EXCEPT ![p] = "reopen"]
    BY <1>1, NoFaults DEF RenameTmp, Goto
<1>3. /\ pc'[p] = "reopen" /\ fd'[p] = Closed
      /\ \A q \in Procs : q # p => pc'[q] = pc[q] /\ fd'[q] = fd[q] /\ tfd'[q] = tfd[q]
    BY <1>2 DEF AInv, IInv, Stores
<1>4. \A i \in Inodes : content'[i] = IF i \in Referenced' THEN content[i] ELSE EmptyFile
    BY DEF Store
<1>5. tmp \in Referenced' /\ \A q \in Procs : q # p => fd[q].ino \in Referenced'
    BY <1>2, <1>3 DEF Referenced
<1>6. DbFile' = Pack(DbFile) /\ Pack(DbFile') = Pack(DbFile)
    <2>1. DbFile' = content[tmp]
        BY <1>1, <1>2, <1>4, <1>5 DEF DbFile
    <2>2. DbFile = FileOf(p)
        BY <1>1, ProcsAssumption DEF DbFile, FileOf
    <2> QED
        BY <1>1, <2>1, <2>2, DbIsFile, PackTwice DEF AInv
<1>7. Solo'
    BY <1>1, <1>3, StillSolo DEF AInv
<1>8. Kernel'
    BY <1>1, <1>2, <1>4 DEF Kernel
<1>9. Fine(p)'
    <2>1. Listed(p)' /\ Walked(p)'
        BY <1>1, <1>3 DEF AInv, Fine, Listed, Walked, Closed
    <2>2. Current(p)'
        BY <1>1, <1>2, <1>3 DEF Current, AtDb, Reading, Copying
    <2>3. Copied(p)'
        BY <1>3, <1>6 DEF Copied, Copying
    <2> QED
        BY <2>1, <2>2, <2>3 DEF Fine
<1>10. ASSUME NEW q \in Procs, q # p
      PROVE  Fine(q)'
    BY <1>1, <1>2, <1>3, <1>4, <1>5, <1>6, <1>10, CompressorKeeps
<1> QED
    BY <1>2, <1>6, <1>7, <1>8, <1>9, <1>10 DEF Preserved

LEMMA ReopenPreserves ==
    ASSUME Readers, AInv, NEW p \in Procs, Reopen(p)
    PROVE  Preserved /\ DbFile' = DbFile /\ DbFile = Pack(DbFile) /\ out' = Compressed
<1> USE DEF Reopen
<1>1. /\ pc[p] = "reopen" /\ cmd[p].op = "x" /\ db # NoInode /\ Pack(DbFile) = DbFile
      /\ fd[p].ino = NoInode
    BY DEF AInv, IInv, Good, Called, Fine, Listed, Current, Copied
<1>2. /\ fd' = [fd EXCEPT ![p] = [ino |-> db, off |-> 0]] /\ out' = Compressed
      /\ pc' = [pc EXCEPT ![p] = "exit"]
    BY NoFaults DEF Answer, Goto
<1>3. /\ pc'[p] = "exit" /\ fd'[p].ino = db
      /\ \A q \in Procs : q # p => pc'[q] = pc[q] /\ fd'[q] = fd[q]
    BY <1>2 DEF AInv, IInv, Stores
<1>4. DbFile' = DbFile
    BY DEF DbFile, kernel
<1>5. Solo'
    BY <1>1, <1>3, StillSolo DEF AInv
<1>6. Kernel'
    <2>1. Referenced \ {NoInode} \subseteq Referenced'
        BY <1>1, <1>3 DEF Referenced, kernel
    <2>2. \A i \in Inodes : i # NoInode
        BY ProcsAssumption
    <2> QED
        BY <1>1, <2>1, <2>2 DEF AInv, Kernel, kernel
<1>7. Fine(p)'
    BY <1>1, <1>3 DEF AInv, Fine, Listed, Current, AtDb, Reading, Walked, Copied, Copying
<1>8. \A q \in Procs : q # p => Fine(q)'
    BY <1>3, OthersKeep
<1> QED
    BY <1>1, <1>2, <1>4, <1>5, <1>6, <1>7, <1>8 DEF Preserved

----------------------------------------------------------------------------
(* The answers are those of the commands run one at a time *)

LEMMA SameWords ==
    /\ \A f, i, r : Atomic!WriteAt(f, i, r) = WriteAt(f, i, r)
    /\ \A f, id : Atomic!Exists(f, id) <=> Exists(f, id)
    /\ \A f, id : Atomic!GetStudent(f, id) = GetStudent(f, id)
    /\ \A f : Atomic!Used(f) = Used(f)
    /\ \A f : Atomic!Pack(f) = Pack(f)
    /\ \A id, gpa : Atomic!InRange(id, gpa) <=> InRange(id, gpa)
<1>1. \A f : Atomic!Used(f) = Used(f)
    BY DEF Atomic!Used, Used, Atomic!EMPTY, EMPTY
<1>2. ASSUME NEW f
      PROVE  Atomic!Pack(f) = Pack(f)
    <2>1. \A S : Atomic!Cardinality(S) = Cardinality(S)
        <3> TAKE S
        <3> QED
            BY DEF Atomic!Cardinality, Cardinality
    <2>2. \A i : Atomic!Rank(Used(f), i) = Rank(Used(f), i)
        BY <2>1 DEF Atomic!Rank, Rank
    <2>3. \A k : (CHOOSE i \in Used(f) : Atomic!Rank(Used(f), i) = k)
                = (CHOOSE i \in Used(f) : Rank(Used(f), i) = k)
        BY <2>2
    <2>4. Atomic!Pack(f) = [k \in 0..(Cardinality(Used(f)) - 1) |->
                               f[CHOOSE i \in Used(f) : Atomic!Rank(Used(f), i) = k]]
        <3>1. Atomic!Used(f) = Used(f) /\ Atomic!Cardinality(Used(f)) = Cardinality(Used(f))
            BY <1>1, <2>1
        <3> QED
            BY <3>1 DEF Atomic!Pack
    <2>5. \A k \in 0..(Cardinality(Used(f)) - 1) :
             f[CHOOSE i \in Used(f) : Atomic!Rank(Used(f), i) = k]
                 = f[CHOOSE i \in Used(f) : Rank(Used(f), i) = k]
        <3> TAKE k \in 0..(Cardinality(Used(f)) - 1)
        <3>1. (CHOOSE i \in Used(f) : Atomic!Rank(Used(f), i) = k)
                  = (CHOOSE i \in Used(f) : Rank(Used(f), i) = k)
            BY <2>3
        <3> QED
            BY <3>1
    <2> QED
        BY <2>4, <2>5, Zenon DEF Pack
<1>3. \A f : Atomic!Pack(f) = Pack(f)
    BY <1>2
<1>4. \A f, i, r : Atomic!WriteAt(f, i, r) = WriteAt(f, i, r)
    BY DEF Atomic!WriteAt, WriteAt, Atomic!EMPTY, EMPTY
<1>5. \A f, id : Atomic!Exists(f, id) <=> Exists(f, id)
    BY DEF Atomic!Exists, Exists
<1>6. \A f, id : Atomic!GetStudent(f, id) = GetStudent(f, id)
    BY DEF Atomic!GetStudent, GetStudent, Atomic!FirstSlot, FirstSlot
<1>7. \A id, gpa : Atomic!InRange(id, gpa) <=> InRange(id, gpa)
    BY DEF Atomic!InRange, InRange, Atomic!StudentIds, StudentIds, Atomic!Gpas, Gpas
<1> QED
    BY <1>1, <1>3, <1>4, <1>5, <1>6, <1>7

LEMMA SameReplies ==
    /\ Atomic!EmptyFile = EmptyFile /\ Atomic!Killed = Killed
    /\ \A op, id, msg, exit : Atomic!Say(op, id, msg, exit) = Say(op, id, msg, exit)
    /\ \A op, msg, n : Atomic!Tell(op, msg, n) = Tell(op, msg, n)
    /\ \A op, id, msg, rows : Atomic!List(op, id, msg, rows) = List(op, id, msg, rows)
    /\ \A s : Atomic!One(s) = One(s)
    /\ Atomic!EMPTY = EMPTY
    /\ Atomic!EXIT_OK = EXIT_OK /\ Atomic!EXIT_FAIL_DB = EXIT_FAIL_DB
    /\ Atomic!EXIT_FAIL_ARGS = EXIT_FAIL_ARGS
BY DEF Atomic!EmptyFile, EmptyFile, Atomic!EMPTY, EMPTY, Atomic!Say, Say, Atomic!Reply, Reply,
       Atomic!Tell, Tell, Atomic!List, List, Atomic!One, One, Atomic!Killed, Killed,
       Atomic!EXIT_OK, EXIT_OK, Atomic!EXIT_FAIL_DB, EXIT_FAIL_DB,
       Atomic!EXIT_FAIL_ARGS, EXIT_FAIL_ARGS

\* A running process has a command of the menus, so what the command does alone
\* is a step of StudentDB.
LEMMA CommandRuns ==
    ASSUME AInv, NEW p \in Procs, pc[p] # "idle",
           \/ Atomic!Add(cmd[p].id, cmd[p].gpa) \/ Atomic!Del(cmd[p].id) \/ Atomic!Find(cmd[p].id)
    PROVE  Atomic!Next
<1>1. cmd[p] \in Commands
    BY DEF AInv, Fine, Listed, Commands
<1>2. cmd[p].id \in {c.id : c \in Commands} /\ cmd[p].gpa \in {c.gpa : c \in Commands}
    BY <1>1
<1> QED
    BY <1>2 DEF Atomic!Next, Atomic!NextInPlace

Answered == [Atomic!Next]_(Atomic!vars)

LEMMA Silent ==
    ASSUME DbFile' = DbFile, out' = out PROVE Answered
BY DEF Answered, Atomic!vars

LEMMA StartAnswers == ASSUME NEW p \in Procs, Start(p) PROVE Answered
<1>1. DbFile' = DbFile
    BY DEF Start, DbFile, kernel
<1>2. \/ out' = Say("h", 0, "usage", EXIT_OK)
      \/ out' = Say("?", 0, "usage", 1)
      \/ out' = out
    BY DEF Start, Answer, Proceed
<1>3. CASE out' = Say("h", 0, "usage", EXIT_OK) \/ out' = Say("?", 0, "usage", 1)
    BY <1>1, <1>3, SameReplies DEF Answered, Atomic!Next, Atomic!NextInPlace, Atomic!Usage
<1> QED
    BY <1>1, <1>2, <1>3, Silent

LEMMA OpenDbAnswers ==
    ASSUME Readers, AInv, Room, NEW p \in Procs, OpenDb(p), DbFile' = DbFile PROVE Answered
<1>1. pc[p] = "open" /\ Dispatch(p)
    BY NoFaults DEF OpenDb, Room
<1>2. \/ /\ ~InRange(cmd[p].id, cmd[p].gpa)
         /\ out' = Say("a", cmd[p].id, "M_ERR_STD_RNG", EXIT_FAIL_ARGS)
      \/ out' = Say("?", 0, "usage", EXIT_FAIL_ARGS)
      \/ out' = out
    BY <1>1 DEF Dispatch, Answer, Proceed
<1>3. CASE /\ ~InRange(cmd[p].id, cmd[p].gpa)
           /\ out' = Say("a", cmd[p].id, "M_ERR_STD_RNG", EXIT_FAIL_ARGS)
    <2>1. Atomic!Add(cmd[p].id, cmd[p].gpa)
        BY <1>3, SameWords, SameReplies DEF Atomic!Add
    <2> QED
        BY <1>1, <2>1, CommandRuns DEF Answered
<1>4. CASE out' = Say("?", 0, "usage", EXIT_FAIL_ARGS)
    BY <1>4, SameReplies DEF Answered, Atomic!Next, Atomic!NextInPlace, Atomic!Usage
<1> QED
    BY <1>2, <1>3, <1>4, Silent

LEMMA GoneAnswers ==
    ASSUME NEW p \in Procs, Exit(p) \/ Crash(p), DbFile' = DbFile PROVE Answered
<1>1. out' = Killed
    BY DEF Exit, Crash
<1> QED
    BY <1>1, SameReplies DEF Answered, Atomic!Next, Atomic!NextInPlace, Atomic!Die

\* Every record was read and none had the id.
LEMMA ScanMisses ==
    ASSUME AInv, NEW p \in Procs, pc[p] = "scan", AtEnd(p)
    PROVE  ~Exists(DbFile, cmd[p].id)
<1> DEFINE f == FileOf(p)
           o == fd[p].off
           id == cmd[p].id
<1>1. /\ fd[p].ino \in Inodes /\ Pack(f) = Pack(DbFile)
      /\ \A j \in DOMAIN f : j < o => f[j].id # id
    BY DEF AInv, IInv, Good, Opened, Fine, Current, Walked, Reading
<1>2. IsFile(f) /\ o \in Nat /\ IsFile(DbFile)
    BY <1>1, DbIsFile DEF AInv, IInv, TypeOK, FileOf
<1>3. ~Exists(f, id)
    <2>1. \A j \in DOMAIN f : j < o
        BY <1>2, LengthOfFile, RangeAssumption DEF AtEnd
    <2> QED
        BY <1>1, <2>1 DEF Exists
<1>4. CASE id = 0 \/ cmd[p].op # "f"
    <2>1. fd[p].ino = db
        BY <1>4 DEF AInv, Fine, Current, AtDb
    <2>2. f = DbFile
        BY <1>1, <2>1, ProcsAssumption DEF FileOf, DbFile
    <2> QED
        BY <1>3, <2>2
<1>5. CASE id # 0
    BY <1>1, <1>2, <1>3, <1>5, SameIds
<1> QED
    BY <1>4, <1>5

\* The record read has the id and none before it had.
LEMMA ScanFinds ==
    ASSUME AInv, NEW p \in Procs, pc[p] = "scan", ~AtEnd(p),
           FileOf(p)[fd[p].off].id = cmd[p].id
    PROVE  /\ Exists(DbFile, cmd[p].id)
           /\ cmd[p].id # 0 => GetStudent(DbFile, cmd[p].id) = FileOf(p)[fd[p].off]
<1> DEFINE f == FileOf(p)
           o == fd[p].off
           id == cmd[p].id
<1>1. /\ fd[p].ino \in Inodes /\ Pack(f) = Pack(DbFile) /\ o \in DOMAIN f
      /\ \A j \in DOMAIN f : j < o => f[j].id # f[o].id
    BY DEF AInv, IInv, Good, Opened, Fine, Current, Walked, Reading, AtEnd
<1>2. IsFile(f) /\ IsFile(DbFile)
    BY <1>1, DbIsFile DEF AInv, IInv, TypeOK, FileOf
<1>3. CASE id = 0
    <2>1. fd[p].ino = db
        BY <1>3 DEF AInv, Fine, Current, AtDb
    <2>2. f = DbFile
        BY <1>1, <2>1, ProcsAssumption DEF FileOf, DbFile
    <2> QED
        BY <1>1, <1>3, <2>2 DEF Exists
<1>4. CASE id # 0
    BY <1>1, <1>2, <1>4, PackFindsSame
<1> QED
    BY <1>3, <1>4

LEMMA ScanAnswers ==
    ASSUME Readers, AInv, NEW p \in Procs, Scan(p), DbFile' = DbFile PROVE Answered
<1> DEFINE r == FileOf(p)[fd[p].off]
           id == cmd[p].id
<1>1. pc[p] = "scan"
    BY DEF Scan
<1>2. \/ AtEnd(p) /\ OnMissing(p, "SRCH_NOT_FOUND")
      \/ ~AtEnd(p) /\ r.id = id /\ OnFound(p, r)
      \/ out' = out
    BY NoFaults DEF Scan
<1>3. CASE AtEnd(p) /\ OnMissing(p, "SRCH_NOT_FOUND")
    <2>1. ~Exists(DbFile, id)
        BY <1>1, <1>3, ScanMisses
    <2>2. \/ out' = Say("d", id, "M_STD_NOT_FND_MSG", EXIT_FAIL_DB)
          \/ out' = Say("f", id, "M_STD_NOT_FND_MSG", EXIT_FAIL_DB)
          \/ out' = out
        BY <1>3 DEF OnMissing, Answer, Proceed
    <2>3. CASE out' = Say("d", id, "M_STD_NOT_FND_MSG", EXIT_FAIL_DB)
        <3>1. Atomic!Del(cmd[p].id)
            BY <2>1, <2>3, SameWords, SameReplies DEF Atomic!Del
        <3> QED
            BY <1>1, <3>1, CommandRuns DEF Answered
    <2>4. CASE out' = Say("f", id, "M_STD_NOT_FND_MSG", EXIT_FAIL_DB)
        <3>1. Atomic!Find(cmd[p].id)
            BY <2>1, <2>4, SameWords, SameReplies DEF Atomic!Find
        <3> QED
            BY <1>1, <3>1, CommandRuns DEF Answered
    <2> QED
        BY <2>2, <2>3, <2>4, Silent
<1>4. CASE ~AtEnd(p) /\ r.id = id /\ OnFound(p, r)
    <2>1. Exists(DbFile, id) /\ (id # 0 => GetStudent(DbFile, id) = r)
        BY <1>1, <1>4, ScanFinds
    <2>2. \/ /\ out' = Say("a", id, "M_ERR_DB_ADD_DUP", EXIT_FAIL_DB)
             /\ InRange(id, cmd[p].gpa)
          \/ out' = Say("f", id, "M_ERR_STD_PRINT", EXIT_OK) /\ id = 0
          \/ out' = List("f", id, "STUDENT_PRINT", One(r)) /\ id # 0
          \/ out' = out
        <3>1. cmd[p].op = "a" => InRange(id, cmd[p].gpa)
            BY <1>1 DEF AInv, IInv, Good, Called
        <3> QED
            BY <1>4, <3>1 DEF OnFound, Answer, Proceed
    <2>3. CASE out' = Say("a", id, "M_ERR_DB_ADD_DUP", EXIT_FAIL_DB) /\ InRange(id, cmd[p].gpa)
        <3>1. Atomic!Add(cmd[p].id, cmd[p].gpa)
            BY <2>1, <2>3, SameWords, SameReplies DEF Atomic!Add
        <3> QED
            BY <1>1, <3>1, CommandRuns DEF Answered
    <2>4. CASE out' = Say("f", id, "M_ERR_STD_PRINT", EXIT_OK) /\ id = 0
        <3>1. Atomic!Find(cmd[p].id)
            BY <2>1, <2>4, SameWords, SameReplies DEF Atomic!Find
        <3> QED
            BY <1>1, <3>1, CommandRuns DEF Answered
    <2>5. CASE out' = List("f", id, "STUDENT_PRINT", One(r)) /\ id # 0
        <3>1. Atomic!Find(cmd[p].id)
            BY <2>1, <2>5, SameWords, SameReplies DEF Atomic!Find
        <3> QED
            BY <1>1, <3>1, CommandRuns DEF Answered
    <2> QED
        BY <2>2, <2>3, <2>4, <2>5, Silent
<1> QED
    BY <1>2, <1>3, <1>4, Silent

LEMMA WriteSlotAnswers ==
    ASSUME Readers, AInv, NEW p \in Procs, WriteSlot(p) PROVE Answered
<1> DEFINE id == cmd[p].id
           r == IF cmd[p].op = "a" THEN [id |-> id, gpa |-> cmd[p].gpa] ELSE EMPTY
<1>1. /\ pc[p] = "write" /\ fd[p].ino \in Inodes /\ fd[p].ino = db
      /\ \/ cmd[p].op = "a" /\ InRange(id, cmd[p].gpa) /\ ~Exists(DbFile, id)
         \/ cmd[p].op = "d" /\ Exists(DbFile, id)
    BY DEF WriteSlot, AInv, IInv, Good, Called, Opened, Fine, Current, AtDb, Walked
<1>2. /\ content' = [content EXCEPT ![fd[p].ino] = WriteAt(@, id, r)]
      /\ out' = Say(cmd[p].op, id, IF cmd[p].op = "a" THEN "M_STD_ADDED" ELSE "M_STD_DEL_MSG", EXIT_OK)
      /\ db' = db
    BY NoFaults DEF WriteSlot, Answer, SlotToWrite
<1>3. DbFile' = WriteAt(DbFile, id, r)
    BY <1>1, <1>2, ProcsAssumption DEF DbFile, AInv, IInv, Stores
<1>4. CASE cmd[p].op = "a" /\ InRange(id, cmd[p].gpa) /\ ~Exists(DbFile, id)
    <2>1. Atomic!Add(cmd[p].id, cmd[p].gpa)
        BY <1>2, <1>3, <1>4, SameWords, SameReplies DEF Atomic!Add
    <2> QED
        BY <1>1, <2>1, CommandRuns DEF Answered
<1>5. CASE cmd[p].op = "d" /\ Exists(DbFile, id)
    <2>1. Atomic!Del(cmd[p].id)
        BY <1>2, <1>3, <1>5, SameWords, SameReplies DEF Atomic!Del
    <2> QED
        BY <1>1, <2>1, CommandRuns DEF Answered
<1> QED
    BY <1>1, <1>4, <1>5

LEMMA ReadRecordAnswers ==
    ASSUME Readers, AInv, NEW p \in Procs, ReadRecord(p), DbFile' = DbFile PROVE Answered
<1> DEFINE f == FileOf(p)
           o == fd[p].off
           n == Cardinality(DOMAIN tally[p])
<1>1. /\ pc[p] = "read" /\ fd[p].ino \in Inodes /\ Pack(f) = Pack(DbFile)
      /\ o \in 0..(MaxId + 1) /\ cmd[p].op \in {"c", "p"}
      /\ tally[p] = Pack(Prefix(f, o)) /\ n = Cardinality(Used(Prefix(f, o)))
    BY DEF ReadRecord, AInv, IInv, TypeOK, Good, Opened, Fine, Listed, Current, Walked, Reading
<1>2. IsFile(f) /\ IsFile(DbFile)
    BY <1>1, DbIsFile DEF AInv, IInv, TypeOK, FileOf
<1>3. \/ AtEnd(p) /\ cmd[p].op = "c"
         /\ out' = Tell("c", IF n = 0 THEN "M_DB_EMPTY" ELSE "M_DB_RECORD_CNT", n)
      \/ AtEnd(p) /\ cmd[p].op = "p"
         /\ out' = List("p", 0, IF n = 0 THEN "M_DB_EMPTY" ELSE "STUDENT_PRINT", tally[p])
      \/ out' = out
    BY <1>1, NoFaults DEF ReadRecord, Answer
<1>4. ASSUME AtEnd(p)
      PROVE  /\ tally[p] = Pack(DbFile) /\ n = Cardinality(Used(DbFile))
             /\ n = 0 <=> Used(DbFile) = {}
    <2>1. Prefix(f, o) = f
        BY <1>1, <1>2, <1>4, PrefixIsFile DEF AtEnd
    <2>2. Cardinality(Used(f)) = Cardinality(Used(DbFile))
        BY <1>1, <1>2, SameNumber
    <2>3. Cardinality(Used(DbFile)) = 0 <=> Used(DbFile) = {}
        BY <1>2, UsedSlots, FS_EmptySet
    <2> QED
        BY <1>1, <2>1, <2>2, <2>3
<1>5. CASE AtEnd(p) /\ out' = Tell("c", IF n = 0 THEN "M_DB_EMPTY" ELSE "M_DB_RECORD_CNT", n)
    <2>1. \A S : Atomic!Cardinality(S) = Cardinality(S)
        <3> TAKE S
        <3> QED
            BY DEF Atomic!Cardinality, Cardinality
    <2>2. Atomic!Count
        BY <1>4, <1>5, <2>1, SameWords, SameReplies DEF Atomic!Count
    <2> QED
        BY <2>2 DEF Answered, Atomic!Next, Atomic!NextInPlace
<1>6. CASE /\ AtEnd(p)
           /\ out' = List("p", 0, IF n = 0 THEN "M_DB_EMPTY" ELSE "STUDENT_PRINT", tally[p])
    <2>1. Atomic!PrintAll
        BY <1>4, <1>6, SameWords, SameReplies DEF Atomic!PrintAll
    <2> QED
        BY <2>1 DEF Answered, Atomic!Next, Atomic!NextInPlace
<1> QED
    BY <1>3, <1>5, <1>6, Silent

LEMMA TruncateAnswers ==
    ASSUME Readers, AInv, NEW p \in Procs, Truncate(p), DbFile' = EmptyFile PROVE Answered
<1>1. out' = Say("z", 0, "M_DB_ZERO_OK", EXIT_OK)
    BY NoFaults DEF Truncate, Answer
<1>2. Atomic!Zero
    BY <1>1, SameReplies DEF Atomic!Zero
<1> QED
    BY <1>2 DEF Answered, Atomic!Next, Atomic!NextInPlace

\* The command compresses at its rename; the open that follows says it again.
LEMMA CompressAnswers ==
    ASSUME DbFile' = Pack(DbFile), out' = Compressed PROVE Answered
<1>1. Atomic!Compress
    BY SameWords, SameReplies DEF Atomic!Compress, Compressed
<1> QED
    BY <1>1 DEF Answered, Atomic!Next

LEMMA OpenTmpAnswers ==
    ASSUME Readers, AInv, Room, NEW p \in Procs, OpenTmp(p), DbFile' = DbFile PROVE Answered
<1>1. out' = out
    BY NoFaults DEF OpenTmp, Proceed, Room
<1> QED
    BY <1>1, Silent

LEMMA CopyAnswers ==
    ASSUME Readers, AInv, NEW p \in Procs, CopyRead(p) \/ CopyWrite(p), DbFile' = DbFile PROVE Answered
<1>1. out' = out
    BY NoFaults DEF CopyRead, CopyWrite, Proceed
<1> QED
    BY <1>1, Silent

----------------------------------------------------------------------------
LEMMA AtomicStep ==
    ASSUME Readers, AInv, Room, [Next]_vars
    PROVE  AInv' /\ Answered
<1>1. IInv'
    BY InvStep DEF AInv
<1>2. CASE UNCHANGED vars
    <2>1. DbFile' = DbFile /\ out' = out
        BY <1>2 DEF vars, kernel, DbFile
    <2>2. Referenced' = Referenced
        BY <1>2 DEF vars, kernel, local, Referenced
    <2>3. Solo' /\ Kernel'
        BY <1>2, <2>2 DEF vars, kernel, local, AInv, Solo, Kernel
    <2>4. ASSUME NEW q \in Procs
          PROVE  Fine(q)'
        <3>1. Keeps(q)
            BY <1>2, <2>1 DEF vars, kernel, local, Keeps, FileOf
        <3> QED
            BY <3>1, KeptFine DEF AInv
    <2> QED
        BY <1>1, <2>1, <2>3, <2>4, Silent DEF AInv
<1>3. CASE Next
    <2>1. PICK p \in Procs : Start(p) \/ Step(p) \/ Crash(p)
        BY <1>3 DEF Next
    <2>2. CASE Start(p)
        BY <1>1, <2>2, StartPreserves, StartAnswers DEF AInv, Preserved
    <2>3. CASE OpenDb(p)
        BY <1>1, <2>3, OpenDbPreserves, OpenDbAnswers DEF AInv, Preserved
    <2>4. CASE Exit(p) \/ Crash(p)
        <3>1. pc[p] # "idle" /\ Gone(p)
            BY <2>4 DEF Exit, Crash
        <3> QED
            BY <1>1, <2>4, <3>1, GonePreserves, GoneAnswers DEF AInv, Preserved
    <2>5. CASE Scan(p)
        BY <1>1, <2>5, ScanPreserves, ScanAnswers DEF AInv, Preserved
    <2>6. CASE WriteSlot(p)
        BY <1>1, <2>6, WriteSlotPreserves, WriteSlotAnswers DEF AInv, Preserved
    <2>7. CASE ReadRecord(p)
        BY <1>1, <2>7, ReadRecordPreserves, ReadRecordAnswers DEF AInv, Preserved
    <2>8. CASE OpenTmp(p)
        BY <1>1, <2>8, OpenTmpPreserves, OpenTmpAnswers DEF AInv, Preserved
    <2>9. CASE CopyRead(p) \/ CopyWrite(p)
        BY <1>1, <2>9, CopyReadPreserves, CopyWritePreserves, CopyAnswers DEF AInv, Preserved
    <2>10. CASE Rename(p)
        BY <1>1, <2>10, RenamePreserves, CompressAnswers DEF AInv, Preserved
    <2>11. CASE Reopen(p)
        BY <1>1, <2>11, ReopenPreserves, CompressAnswers DEF AInv, Preserved
    <2>12. CASE Truncate(p)
        BY <1>1, <2>12, TruncatePreserves, TruncateAnswers DEF AInv, Preserved
    <2> QED
        BY <2>1, <2>2, <2>3, <2>4, <2>5, <2>6, <2>7, <2>8, <2>9, <2>10, <2>11, <2>12 DEF Step
<1> QED
    BY <1>2, <1>3

LEMMA AtomicInit == ASSUME Readers, Init PROVE AInv /\ Atomic!Init
<1>1. IInv
    BY InvInit
<1>2. \A i \in Inodes : content[i] = EmptyFile
    BY DEF Init, Readers
<1>3. \A p \in Procs : pc[p] = "idle" /\ cmd[p] = NoCmd /\ fd[p].ino = NoInode
    BY DEF Init, Closed
<1>4. Solo /\ Kernel
    BY <1>2, <1>3 DEF Init, Solo, Kernel
<1>5. \A p \in Procs : Fine(p)
    BY <1>3 DEF Fine, Listed, Current, AtDb, Reading, Walked, Copied, Copying
<1>6. DbFile = EmptyFile
    BY <1>2 DEF Init, DbFile
<1>7. Atomic!Init
    BY <1>6, SameReplies DEF Init, Atomic!Init
<1> QED
    BY <1>1, <1>4, <1>5, <1>7 DEF AInv

\* Commands that only read, run at once with each other and with a compression,
\* and the writing commands, run alone, answer as if every command ran alone
\* and in one step: a reader that walks a file while a compression replaces it
\* finds, counts and prints what StudentDB would, and a run killed at any call
\* did all of its command or nothing.
THEOREM AnswersAsIfAlone ==
    ASSUME Readers
    PROVE  Spec /\ []Room => ImplementsAtomic
<1>1. Init => AInv /\ Atomic!Init
    BY AtomicInit
<1>2. AInv /\ Room /\ [Next]_vars => AInv'
    BY AtomicStep
<1>3. AInv /\ Room /\ [Next]_vars => [Atomic!Next]_(Atomic!vars)
    BY AtomicStep DEF Answered
<1> QED
    BY <1>1, <1>2, <1>3, PTL DEF Spec, ImplementsAtomic, Atomic!Spec

\* Finitely many processes never use up infinitely many inodes.
LEMMA AlwaysRoom ==
    ASSUME IsFiniteSet(Procs), ~IsFiniteSet(Inodes) PROVE Room
<1> DEFINE F == {fd[p].ino : p \in Procs}
           T == {tfd[p].ino : p \in Procs}
<1>1. IsFiniteSet(F) /\ IsFiniteSet(T)
    <2>1. [p \in Procs |-> fd[p].ino] \in Surjection(Procs, F)
        BY DEF Surjection
    <2>2. [p \in Procs |-> tfd[p].ino] \in Surjection(Procs, T)
        BY DEF Surjection
    <2> QED
        BY <2>1, <2>2, FS_Surjection
<1>2. IsFiniteSet({db, tmp})
    <2>1. IsFiniteSet({} \cup {db})
        BY FS_EmptySet, FS_AddElement
    <2>2. IsFiniteSet(({} \cup {db}) \cup {tmp})
        BY <2>1, FS_AddElement
    <2>3. {db, tmp} = ({} \cup {db}) \cup {tmp}
        OBVIOUS
    <2> QED
        BY <2>2, <2>3
<1>3. IsFiniteSet({db, tmp} \cup F)
    BY <1>1, <1>2, FS_Union
<1>4. IsFiniteSet(({db, tmp} \cup F) \cup T)
    BY <1>1, <1>3, FS_Union
<1>5. ~NoSpace
    BY <1>4, FS_Subset DEF NoSpace, Referenced
<1> QED
    BY <1>5 DEF Room

\* The same where the file system has an inode for every file the processes
\* can hold open.
THEOREM AnswersAsIfAloneWithRoom ==
    ASSUME Readers, IsFiniteSet(Procs), ~IsFiniteSet(Inodes)
    PROVE  Spec => ImplementsAtomic
<1>1. Room
    BY AlwaysRoom
<1> QED
    BY <1>1, AnswersAsIfAlone, PTL

----------------------------------------------------------------------------
(* What the answers say was true at some moment                            *)

\* Whoever has the database open has the file of that name open: there is one.
OneFile == \A p \in Procs : fd[p].ino \in {NoInode, db}

\* What an answer claims about its id.
Claims(r, q) ==
    r.id \in StudentIds =>
        /\ r.msg \in {"STUDENT_PRINT", "M_ERR_DB_ADD_DUP", "M_STD_DEL_MSG"} => r.id \in present[q]
        /\ r.msg \in {"M_STD_NOT_FND_MSG", "M_STD_ADDED"} => r.id \in absent[q]

\* The student p looks for was not there when the loop passed its slot, or not
\* when it ended; what p is about to write follows from that.
Learnt(p) ==
    cmd[p].id \in StudentIds =>
        /\ pc[p] = "scan" /\ cmd[p].id < fd[p].off => cmd[p].id \in absent[p]
        /\ pc[p] = "write" /\ cmd[p].op = "a" => cmd[p].id \in absent[p]
        /\ pc[p] = "write" /\ cmd[p].op = "d" => cmd[p].id \in present[p]

Honest(p) ==
    /\ failed[p] \in Nat /\ failed[p] <= faults
    /\ pc[p] # "exit" => reply[p] = Killed
    /\ faults = failed[p] => Learnt(p) /\ Claims(reply[p], p)

HistInv ==
    /\ OneFile
    /\ DOMAIN failed = Procs /\ DOMAIN present = Procs /\ DOMAIN absent = Procs
    /\ DOMAIN reply = Procs
    /\ \A p \in Procs : Honest(p)

\* The student of an id is in the database if it is in the slot of its id.
LEMMA HereAtHome ==
    ASSUME IInv, AllAtHome, NEW id \in StudentIds
    PROVE  id \in Here <=> id \in DOMAIN DbFile /\ DbFile[id].id = id
<1>1. IsFile(DbFile) /\ \A k \in Used(DbFile) : DbFile[k].id = k
    <2>1. CASE db = NoInode
        BY <2>1, EmptyIsFile, NothingUsed DEF DbFile
    <2>2. CASE db # NoInode
        BY <2>2 DEF DbFile, IInv, TypeOK, AllAtHome
    <2> QED
        BY <2>1, <2>2
<1>2. id # 0
    BY RangeAssumption DEF StudentIds
<1>3. ASSUME id \in Here
      PROVE  id \in DOMAIN DbFile /\ DbFile[id].id = id
    <2>1. PICK k \in Used(DbFile) : DbFile[k].id = id
        BY <1>3 DEF Here, StudentsIn
    <2> QED
        BY <1>1, <2>1 DEF Used
<1>4. ASSUME id \in DOMAIN DbFile, DbFile[id].id = id
      PROVE  id \in Here
    <2>1. id \in Used(DbFile)
        BY <1>2, <1>4 DEF Used, EMPTY
    <2> QED
        BY <1>4, <2>1 DEF Here, StudentsIn
<1> QED
    BY <1>3, <1>4

\* The history of a process that is running grows; that of one that is not is
\* empty.
LEMMA HistoryGrows ==
    ASSUME HistInv, HNext, NEW q \in Procs
    PROVE  /\ pc'[q] # "idle" =>
                 /\ present'[q] = present[q] \cup Here'
                 /\ absent'[q] = absent[q] \cup (StudentIds \ Here')
                 /\ pc[q] # "idle" => failed'[q] = failed[q]
                 /\ pc[q] = "idle" => failed'[q] = faults
           /\ pc'[q] = "idle" => failed'[q] = 0
           /\ DOMAIN failed' = Procs /\ DOMAIN present' = Procs /\ DOMAIN absent' = Procs
BY DEF HNext

\* No answer, no claim.
LEMMA KilledClaims == 0 \notin StudentIds /\ Killed.id \notin StudentIds
BY RangeAssumption DEF Killed, Say, Reply, StudentIds

\* A process that makes no step.
LEMMA StaysHonest ==
    ASSUME IInv, HistInv, HNext, Fails \/ Works, NEW q \in Procs,
           pc'[q] = pc[q], cmd'[q] = cmd[q], fd'[q] = fd[q], reply'[q] = reply[q]
    PROVE  Honest(q)'
<1>1. Honest(q)
    BY DEF HistInv
<1>2. faults \in Nat /\ (faults' = faults \/ faults' = faults + 1)
    BY ProcsAssumption DEF IInv, TypeOK, Fails, Works
<1>3. CASE pc[q] = "idle"
    <2>1. Claims(reply[q], q)'
        BY <1>1, <1>3, KilledClaims DEF Honest, Claims
    <2> QED
        BY <1>1, <1>2, <1>3, <2>1, HistoryGrows DEF Honest, Learnt
<1>4. CASE pc[q] # "idle"
    <2>1. /\ failed'[q] = failed[q]
          /\ present[q] \subseteq present'[q] /\ absent[q] \subseteq absent'[q]
        BY <1>4, HistoryGrows
    <2>2. faults' = failed[q] => faults = failed[q]
        BY <1>1, <1>2 DEF Honest
    <2>3. ASSUME Claims(reply[q], q)
          PROVE  Claims(reply[q], q)'
        BY <2>1, <2>3 DEF Claims
    <2>4. ASSUME Learnt(q)
          PROVE  Learnt(q)'
        BY <2>1, <2>4 DEF Learnt
    <2> QED
        BY <1>1, <1>2, <2>1, <2>2, <2>3, <2>4 DEF Honest
<1> QED
    BY <1>3, <1>4

\* A process that ends its command with an answer, or goes on with it.
LEMMA StepHonest ==
    ASSUME IInv, HistInv, HNext, Fails \/ Works, NEW p \in Procs,
           pc[p] # "idle", pc'[p] # "idle",
           Works /\ faults = failed[p] => Claims(reply[p], p)' /\ Learnt(p)',
           pc'[p] # "exit" => reply'[p] = Killed
    PROVE  Honest(p)'
<1>1. failed[p] \in Nat /\ failed[p] <= faults /\ failed'[p] = failed[p]
    BY HistoryGrows DEF HistInv, Honest
<1>2. faults \in Nat /\ (Fails => faults' = faults + 1) /\ (Works => faults' = faults)
    BY ProcsAssumption DEF IInv, TypeOK, Fails, Works
<1> QED
    BY <1>1, <1>2 DEF Honest

\* Without -x a database keeps its inode.
LEMMA SameFile ==
    ASSUME InPlace, IInv, OneFile, [Next]_vars
    PROVE  /\ OneFile'
           /\ db # NoInode => db' = db
<1>1. CASE UNCHANGED vars
    BY <1>1 DEF OneFile, vars, kernel, local
<1>2. ASSUME NEW p \in Procs, Start(p) \/ Step(p) \/ Crash(p)
      PROVE  OneFile' /\ (db # NoInode => db' = db)
    <2>1. cmd[p].op # "x"
        BY DEF InPlace, IInv, TypeOK, NoCmd
    <2>2. pc[p] \notin {"opentmp", "reopen"} \cup Copying
        BY <2>1 DEF IInv, Good, Called
    <2>3. db' = db \/ (OpenDb(p) /\ db = NoInode)
        BY <1>2, <2>2 DEF Start, Step, Crash, OpenDb, Scan, WriteSlot, ReadRecord, OpenTmp, CopyRead,
           CopyWrite, Rename, Reopen, Truncate, Exit, Gone, kernel, Copying
    <2>4. ASSUME NEW q \in Procs
          PROVE  fd'[q].ino \in {NoInode, db'}
        <3>1. fd[q].ino \in {NoInode, db}
            BY DEF OneFile
        <3>2. fd'[q].ino \in {fd[q].ino, NoInode, db'}
            <4>1. fd \in [Procs -> [ino : Inodes \cup {NoInode}, off : 0..(MaxId + 1)]]
                BY DEF IInv, Stores
            <4>2. CASE Advance(p)
                BY <4>1, <4>2 DEF Advance
            <4>3. CASE fd' = fd \/ fd' = [fd EXCEPT ![p] = Closed]
                  \/ fd' = [fd EXCEPT ![p] = [ino |-> db', off |-> 0]]
                BY <4>1, <4>3 DEF Closed
            <4> QED
                BY <1>2, <2>2, <4>2, <4>3 DEF Start, Step, Crash, OpenDb, Scan, WriteSlot, ReadRecord,
                   OpenTmp, CopyRead, CopyWrite, Rename, Reopen, Truncate, Exit, Gone, kernel, Copying
        <3> QED
            BY <2>3, <3>1, <3>2
    <2> QED
        BY <2>3, <2>4 DEF OneFile
<1> QED
    BY <1>1, <1>2 DEF Next

\* One turn of the loop of get_student: the slot of the id is looked at when the
\* loop passes it, and the end of the file when it does not get there.
LEMMA ScanHonest ==
    ASSUME IInv, AllAtHome, HistInv, HNext, NEW p \in Procs, Scan(p)
    PROVE  Honest(p)'
<1> DEFINE id == cmd[p].id
           o == fd[p].off
<1>1. /\ pc[p] = "scan" /\ reply[p] = Killed /\ cmd' = cmd
      /\ fd[p].ino \in Inodes /\ fd[p].ino = db /\ FileOf(p) = DbFile /\ IsFile(DbFile)
      /\ o \in 0..(MaxId + 1)
    BY ProcsAssumption DEF Scan, HistInv, Honest, OneFile, IInv, Good, Opened, FileOf, DbFile, TypeOK
<1>2. Here' = Here
    BY DEF Scan, kernel, Here, DbFile, StudentsIn, Used
<1>3. pc' = pc \/ \E l \in {"exit", "write"} : pc' = [pc EXCEPT ![p] = l]
    BY DEF Scan, OnFound, OnMissing, Answer, Proceed, Goto
<1>4. pc'[p] \in {"scan", "exit", "write"}
    BY <1>1, <1>3 DEF IInv, Stores
<1>5. /\ present'[p] = present[p] \cup Here
      /\ absent'[p] = absent[p] \cup (StudentIds \ Here)
    BY <1>2, <1>4, HistoryGrows
<1>6. ASSUME id \in StudentIds
      PROVE  id \in Here <=> id \in DOMAIN DbFile /\ DbFile[id].id = id
    BY <1>6, HereAtHome
<1>7. pc'[p] # "exit" => reply'[p] = Killed
    BY <1>1, <1>3 DEF Scan, OnFound, OnMissing, Answer, Proceed, Goto, IInv, Stores
<1>8. ASSUME Works, faults = failed[p]
      PROVE  Claims(reply[p], p)' /\ Learnt(p)'
    <2>1. id \in StudentIds /\ id < o => id \in absent[p]
        BY <1>1, <1>8 DEF HistInv, Honest, Learnt
    <2>2. ~Fails
        BY <1>8, ProcsAssumption DEF Fails, Works, IInv, TypeOK
    <2>3. CASE AtEnd(p) /\ OnMissing(p, "SRCH_NOT_FOUND")
        <3>1. id \in StudentIds => id \in absent'[p]
            <4>1. o \notin DOMAIN DbFile
                BY <1>1, <2>3 DEF AtEnd
            <4>2. id \in StudentIds /\ ~(id < o) => id \notin DOMAIN DbFile
                BY <1>1, <4>1 DEF IsFile, StudentIds
            <4> QED
                BY <1>5, <1>6, <2>1, <4>2
        <3> QED
            <4>1. CASE cmd[p].op = "a" /\ Proceed(p, "write")
                <5>1. pc'[p] = "write" /\ reply'[p] = Killed
                    BY <1>1, <4>1 DEF Proceed, Goto, IInv, Stores
                <5> QED
                    BY <1>1, <3>1, <4>1, <5>1, KilledClaims DEF Claims, Learnt
            <4>2. ASSUME NEW r, Answer(p, r), r.id = id, r.msg = "M_STD_NOT_FND_MSG"
                  PROVE  Claims(reply[p], p)' /\ Learnt(p)'
                <5>1. pc'[p] = "exit" /\ reply'[p] = r
                    BY <4>2 DEF Answer, Goto, IInv, Stores, HistInv
                <5> QED
                    BY <3>1, <4>2, <5>1 DEF Claims, Learnt
            <4> QED
                BY <2>3, <4>1, <4>2 DEF OnMissing, Say, Reply
    <2>4. CASE ~AtEnd(p) /\ DbFile[o].id = id /\ OnFound(p, DbFile[o])
        <3>1. id \in StudentIds => id \in Here
            BY <1>1, <2>4, RangeAssumption DEF AtEnd, Here, StudentsIn, Used, EMPTY, StudentIds
        <3>2. CASE cmd[p].op = "d" /\ Proceed(p, "write")
            <4>1. pc'[p] = "write" /\ reply'[p] = Killed
                BY <1>1, <3>2 DEF Proceed, Goto, IInv, Stores
            <4> QED
                BY <1>1, <1>5, <3>1, <3>2, <4>1, KilledClaims DEF Claims, Learnt
        <3>3. ASSUME NEW r, Answer(p, r), r.id = id,
                     r.msg \notin {"M_STD_NOT_FND_MSG", "M_STD_ADDED"}
              PROVE  Claims(reply[p], p)' /\ Learnt(p)'
            <4>1. pc'[p] = "exit" /\ reply'[p] = r
                BY <3>3 DEF Answer, Goto, IInv, Stores, HistInv
            <4> QED
                BY <1>5, <3>1, <3>3, <4>1 DEF Claims, Learnt
        <3> QED
            BY <2>4, <3>2, <3>3 DEF OnFound, Say, List, Reply
    <2>5. CASE ~AtEnd(p) /\ DbFile[o].id # id /\ Advance(p) /\ UNCHANGED <<pc, reply, out>>
        <3>1. fd'[p].off = o + 1
            BY <1>1, <2>5, ReadOn
        <3>2. id \in StudentIds /\ id < o + 1 => id \in absent'[p]
            BY <1>1, <1>5, <1>6, <2>1, <2>5 DEF StudentIds
        <3> QED
            BY <1>1, <2>5, <3>1, <3>2, KilledClaims DEF Claims, Learnt
    <2> QED
        BY <1>1, <2>2, <2>3, <2>4, <2>5 DEF Scan
<1>9. Fails \/ Works
    BY DEF Scan
<1> QED
    BY <1>1, <1>4, <1>7, <1>8, <1>9, StepHonest

\* The write comes after what it relies on was learnt.
LEMMA WriteHonest ==
    ASSUME IInv, HistInv, HNext, NEW p \in Procs, WriteSlot(p)
    PROVE  Honest(p)'
<1>1. /\ pc[p] = "write" /\ cmd[p].op \in {"a", "d"} /\ pc'[p] = "exit"
      /\ reply' = [reply EXCEPT ![p] = reply'[p]] /\ reply'[p].id = cmd[p].id
      /\ Works => reply'[p].msg = IF cmd[p].op = "a" THEN "M_STD_ADDED" ELSE "M_STD_DEL_MSG"
    BY ProcsAssumption DEF WriteSlot, Answer, Goto, IInv, TypeOK, Stores, Good, Called, HistInv, Say, Reply,
       Fails, Works
<1>2. present[p] \subseteq present'[p] /\ absent[p] \subseteq absent'[p]
    BY <1>1, HistoryGrows
<1>3. Works /\ faults = failed[p] => Claims(reply[p], p)' /\ Learnt(p)'
    BY <1>1, <1>2 DEF HistInv, Honest, Learnt, Claims
<1>4. Fails \/ Works
    BY DEF WriteSlot
<1> QED
    BY <1>1, <1>3, <1>4, StepHonest

\* An answer that claims nothing about a student.
LEMMA AnswerHonest ==
    ASSUME IInv, HistInv, HNext, Fails \/ Works, NEW p \in Procs, pc[p] # "idle",
           NEW r, Answer(p, r),
           \/ r.id \notin StudentIds
           \/ r.msg \in {"usage", "M_ERR_STD_RNG", "M_ERR_DB_OPEN"}
    PROVE  Honest(p)'
<1>1. pc'[p] = "exit" /\ reply'[p] = r
    BY DEF Answer, Goto, IInv, Stores, HistInv
<1> QED
    BY <1>1, StepHonest DEF Claims, Learnt

LEMMA OpenHonest ==
    ASSUME IInv, HistInv, HNext, NEW p \in Procs, OpenDb(p)
    PROVE  Honest(p)'
<1>1. Fails \/ Works
    BY DEF OpenDb
<1>2. pc[p] = "open" /\ reply[p] = Killed
    BY DEF OpenDb, HistInv, Honest
<1>3. ASSUME NEW r, Answer(p, r), r.msg \in {"usage", "M_ERR_STD_RNG", "M_ERR_DB_OPEN"}
      PROVE  Honest(p)'
    BY <1>1, <1>2, <1>3, AnswerHonest
<1>4. ASSUME NEW l \in {"scan", "read", "opentmp", "truncate"}, Proceed(p, l),
             fd' = [fd EXCEPT ![p] = [ino |-> db', off |-> 0]], cmd' = cmd
      PROVE  Honest(p)'
    <2>1. pc'[p] = l /\ reply'[p] = Killed /\ fd'[p].off = 0
        BY <1>2, <1>4 DEF Proceed, Goto, IInv, Stores
    <2>2. cmd[p].id \in StudentIds => ~(cmd[p].id < 0)
        BY RangeAssumption DEF StudentIds
    <2>3. Claims(reply[p], p)' /\ Learnt(p)'
        BY <1>4, <2>1, <2>2, KilledClaims DEF Claims, Learnt
    <2> QED
        BY <1>1, <1>2, <2>1, <2>3, StepHonest
<1> QED
    BY <1>3, <1>4 DEF OpenDb, Dispatch, Say, Reply

LEMMA StartHonest ==
    ASSUME IInv, HistInv, HNext, NEW p \in Procs, Start(p)
    PROVE  Honest(p)'
<1>1. PICK c \in Menu[p] :
         \/ \E o : Answer(p, Say(o, 0, "usage", EXIT_OK)) \/ Answer(p, Say(o, 0, "usage", 1))
         \/ Proceed(p, "open")
    BY DEF Start
<1>2. reply[p] = Killed /\ faults' = faults /\ faults \in Nat
    <2>1. pc[p] = "idle" /\ faults' = faults
        BY DEF Start
    <2>2. faults \in Nat
        BY ProcsAssumption DEF IInv, TypeOK
    <2> QED
        BY <2>1, <2>2 DEF HistInv, Honest
<1>3. \/ pc'[p] = "exit" /\ reply'[p].id = 0
      \/ pc'[p] = "open" /\ reply'[p] = Killed
    BY <1>1, <1>2 DEF Answer, Proceed, Goto, Say, Reply, IInv, Stores, HistInv
<1>4. Claims(reply[p], p)' /\ Learnt(p)'
    BY <1>3, KilledClaims DEF Claims, Learnt
<1>5. failed'[p] = faults
    BY <1>3, HistoryGrows DEF Start
<1> QED
    BY <1>2, <1>3, <1>4, <1>5 DEF Honest

LEMMA GoneHonest ==
    ASSUME IInv, HistInv, HNext, NEW p \in Procs, Gone(p), Works
    PROVE  Honest(p)'
<1>1. pc'[p] = "idle" /\ reply'[p] = Killed
    BY DEF Gone, Goto, IInv, Stores, HistInv
<1>2. failed'[p] = 0 /\ faults' \in Nat
    BY <1>1, HistoryGrows DEF Works, IInv, TypeOK
<1> QED
    BY <1>1, <1>2, KilledClaims DEF Honest, Learnt, Claims

LEMMA HistStep ==
    ASSUME InPlace, IInv, AllAtHome, HistInv, [HNext]_hvars
    PROVE  HistInv'
<1>1. CASE UNCHANGED hvars
    BY <1>1 DEF HistInv, OneFile, Honest, Learnt, Claims, hvars, vars, kernel, local
<1>2. CASE HNext
    <2>1. PICK p \in Procs : Start(p) \/ Step(p) \/ Crash(p)
        BY <1>2 DEF HNext, Next
    <2>2. OneFile'
        BY <1>2, SameFile DEF HNext, HistInv
    <2>3. DOMAIN failed' = Procs /\ DOMAIN present' = Procs /\ DOMAIN absent' = Procs
        BY <1>2 DEF HNext
    <2>4. cmd[p].op # "x" /\ pc[p] \notin {"opentmp", "reopen"} \cup Copying
        BY DEF InPlace, IInv, TypeOK, NoCmd, Good, Called
    <2>5. Fails \/ Works
        BY <2>1 DEF Start, Step, Crash, OpenDb, Scan, WriteSlot, ReadRecord, OpenTmp, CopyRead,
           CopyWrite, Rename, Reopen, Truncate, Exit, Works
    <2>6. DOMAIN reply' = Procs
        BY <2>1, <2>4 DEF HistInv, Start, Step, Crash, OpenDb, Dispatch, Scan, OnFound, OnMissing,
           WriteSlot, ReadRecord, OpenTmp, CopyRead, CopyWrite, Rename, Reopen, Truncate, Exit, Gone,
           Answer, Proceed, Copying
    <2>7. Honest(p)'
        <3>1. CASE ReadRecord(p) \/ Truncate(p)
            <4>1. CASE \E r : Answer(p, r) /\ r.id = 0
                <5>1. 0 \notin StudentIds /\ pc[p] # "idle"
                    BY <3>1, RangeAssumption DEF StudentIds, ReadRecord, Truncate
                <5> QED
                    BY <1>2, <2>5, <4>1, <5>1, AnswerHonest
            <4>2. CASE UNCHANGED <<pc, reply, out>> /\ ReadRecord(p)
                <5>1. pc[p] = "read" /\ pc' = pc /\ reply'[p] = Killed
                    BY <4>2 DEF ReadRecord, HistInv, Honest
                <5>2. Claims(reply[p], p)' /\ Learnt(p)'
                    BY <5>1, KilledClaims DEF Claims, Learnt
                <5> QED
                    BY <1>2, <2>5, <5>1, <5>2, StepHonest
            <4> QED
                BY <3>1, <4>1, <4>2 DEF ReadRecord, Truncate, Say, Tell, List, Reply
        <3>2. CASE Exit(p) \/ Crash(p)
            BY <1>2, <3>2, GoneHonest DEF Exit, Crash, Works
        <3> QED
            BY <1>2, <2>1, <2>4, <3>1, <3>2, StartHonest, OpenHonest, ScanHonest, WriteHonest
            DEF Step, OpenTmp, CopyRead, CopyWrite, Rename, Reopen, Copying
    <2>8. ASSUME NEW q \in Procs, q # p
          PROVE  Honest(q)'
        <3>1. pc'[q] = pc[q] /\ reply'[q] = reply[q]
            BY <2>1, <2>4, <2>8 DEF IInv, Stores, HistInv, Start, Step, Crash, OpenDb, Dispatch, Scan,
               OnFound, OnMissing, WriteSlot, ReadRecord, OpenTmp, CopyRead, CopyWrite, Rename, Reopen,
               Truncate, Exit, Gone, Answer, Proceed, Goto, Copying
        <3>2. cmd'[q] = cmd[q]
            BY <2>1, <2>8 DEF IInv, Stores, Start, Step, Crash, OpenDb, Scan, WriteSlot, ReadRecord,
               OpenTmp, CopyRead, CopyWrite, Rename, Reopen, Truncate, Exit, Gone
        <3>3. fd'[q] = fd[q]
            BY <2>1, <2>8 DEF IInv, Stores, Start, Step, Crash, OpenDb, Scan, WriteSlot, ReadRecord,
               OpenTmp, CopyRead, CopyWrite, Rename, Reopen, Truncate, Exit, Gone, Advance
        <3> QED
            BY <1>2, <2>5, <3>1, <3>2, <3>3, StaysHonest
    <2> QED
        BY <2>2, <2>3, <2>6, <2>7, <2>8 DEF HistInv
<1> QED
    BY <1>1, <1>2

\* Any number of users add, delete, find and truncate at once, and any of them
\* may be killed.  As long as no call failed while a command ran, what it says of
\* the student of an id was true at some moment between its start and its
\* answer: the slot of the id was looked at, or the end of the file was, in that
\* time.
THEOREM AnswersTrueOnce == ASSUME InPlace PROVE HSpec => []AnswersWereTrue
<1>1. HSpec => Spec
    <2>1. HInit => Init
        BY DEF HInit
    <2>2. [HNext]_hvars => [Next]_vars
        BY DEF HNext, hvars
    <2> QED
        BY <2>1, <2>2, PTL DEF HSpec, Spec
<1>2. HInit => HistInv
    BY KilledClaims DEF HInit, Init, HistInv, OneFile, Honest, Learnt, Claims, Closed
<1>3. IInv /\ AllAtHome /\ HistInv /\ [HNext]_hvars => HistInv'
    BY HistStep
<1>4. HistInv => AnswersWereTrue
    BY DEF HistInv, Honest, Claims, AnswersWereTrue
<1>5. HSpec => []IInv /\ []AllAtHome
    BY <1>1, InvHolds, StudentsStayHome, PTL
<1> QED
    BY <1>2, <1>3, <1>4, <1>5, PTL DEF HSpec

=============================================================================
