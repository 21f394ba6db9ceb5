---------------------------- MODULE StudentFile ----------------------------
(***************************************************************************)
(* The database file of 2-student-db as sdbsc.c addresses it: an array of  *)
(* fixed-size slots.  The program opens "student.db", seeks to            *)
(* id * STUDENT_RECORD_SIZE and reads or writes whole records, so a file   *)
(* is a function from slot numbers 0..n-1 to slot contents and its size    *)
(* in bytes is n * 64.                                                     *)
(*                                                                         *)
(* A record keeps its id and its gpa; the two names are copied with the    *)
(* record and never looked at, so gpa stands for the whole payload.        *)
(***************************************************************************)
EXTENDS Integers, FiniteSets

CONSTANTS MaxId,     \* MAX_STD_ID  (100000 in db.h)
          MaxGpa     \* MAX_STD_GPA (500 in db.h)

ASSUME RangeAssumption == MaxId \in Nat \ {0} /\ MaxGpa \in Nat

StudentIds == 1..MaxId
Gpas == 0..MaxGpa
Student == [id: StudentIds, gpa: Gpas]

\* The all-zero record: a deleted student, or a hole of the sparse file.
EMPTY == [id |-> 0, gpa |-> 0]

Slot == Student \cup {EMPTY}

\* No file is longer than the slot of the largest id.
IsFile(f) == \E n \in 0..(MaxId + 1) : f \in [0..(n - 1) -> Slot]

EmptyFile == [i \in {} |-> EMPTY]

----------------------------------------------------------------------------
\* The slots whose memcmp with EMPTY_STUDENT_RECORD differs.
Used(f) == {i \in DOMAIN f : f[i] # EMPTY}

StudentsIn(f) == {f[i] : i \in Used(f)}

\* Mistake: the write goes one slot too far.
WriteAtNext(f, i, r) ==
    [j \in DOMAIN f \cup 0..(i + 1) |->
        IF j = i + 1 THEN r ELSE IF j \in DOMAIN f THEN f[j] ELSE EMPTY]

\* lseek to slot i and write one record.  Writing beyond the end of the file
\* leaves a hole, which reads as zeros.
WriteAt(f, i, r) ==
    [j \in DOMAIN f \cup 0..i |->
        IF j = i THEN r ELSE IF j \in DOMAIN f THEN f[j] ELSE EMPTY]

\* Mistake: only the slot numbered id is looked at, as the comment of
\* add_student suggests.
ExistsInOwnSlot(f, id) == id \in DOMAIN f /\ f[id].id = id

\* get_student compares the id field of each slot read, whatever the slot.
\* A hole or a deleted record has id 0.
Exists(f, id) == \E i \in DOMAIN f : f[i].id = id

FirstSlot(f, id) ==
    CHOOSE i \in DOMAIN f :
        /\ f[i].id = id
        /\ \A j \in DOMAIN f : f[j].id = id => i <= j

\* The record get_student copies to the caller.
GetStudent(f, id) == f[FirstSlot(f, id)]

\* How many elements of S precede i: the slot a used record of a file moves to
\* when the used records are copied one after the other to a new file.
Rank(S, i) == Cardinality({j \in S : j < i})

\* Mistake: the copy stops before the last record.
PackAllButLast(f) ==
    [k \in 0..(Cardinality(Used(f)) - 2) |->
        f[CHOOSE i \in Used(f) : Rank(Used(f), i) = k]]

Pack(f) ==
    [k \in 0..(Cardinality(Used(f)) - 1) |->
        f[CHOOSE i \in Used(f) : Rank(Used(f), i) = k]]

\* validate_range
InRange(id, gpa) == id \in StudentIds /\ gpa \in Gpas
=============================================================================
