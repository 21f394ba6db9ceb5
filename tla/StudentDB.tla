----------------------------- MODULE StudentDB ------------------------------
(***************************************************************************)
(* sdbsc with one command at a time and no I/O errors: each action is a    *)
(* whole run of the program, from open_db to exit, on the file it finds.   *)
(* StudentDBProcs has the same commands one system call at a time.         *)
(***************************************************************************)
EXTENDS StudentReply

CONSTANTS ArgIds, ArgGpas      \* ids and gpas a user may type (after atoi)

ASSUME ArgAssumption == ArgIds \subseteq Int /\ ArgGpas \subseteq Int

VARIABLES file,     \* the content of student.db
          out       \* what the last command printed and its exit code

vars == <<file, out>>

Init == file = EmptyFile /\ out = Killed

----------------------------------------------------------------------------
\* -a id fname lname gpa.  The duplicate check looks for the id anywhere in
\* the file; the slot written is the one numbered id, whatever it holds.
Add(id, gpa) ==
    \/ /\ ~InRange(id, gpa)
       /\ out' = Say("a", id, "M_ERR_STD_RNG", EXIT_FAIL_ARGS)
       /\ UNCHANGED file
    \/ /\ InRange(id, gpa)
       /\ Exists(file, id)
       /\ out' = Say("a", id, "M_ERR_DB_ADD_DUP", EXIT_FAIL_DB)
       /\ UNCHANGED file
    \/ /\ InRange(id, gpa)
       /\ ~Exists(file, id)
       /\ file' = WriteAt(file, id, [id |-> id, gpa |-> gpa])
       /\ out' = Say("a", id, "M_STD_ADDED", EXIT_OK)

\* Mistake: no lseek before the write, which lands after the record read last.
DelWithoutSeek(id) ==
    \/ /\ ~Exists(file, id)
       /\ out' = Say("d", id, "M_STD_NOT_FND_MSG", EXIT_FAIL_DB)
       /\ UNCHANGED file
    \/ /\ Exists(file, id)
       /\ file' = WriteAt(file, FirstSlot(file, id) + 1, EMPTY)
       /\ out' = Say("d", id, "M_STD_DEL_MSG", EXIT_OK)

\* -d id.  There is no range check: id 0 is found in any empty slot.
Del(id) ==
    \/ /\ ~Exists(file, id)
       /\ out' = Say("d", id, "M_STD_NOT_FND_MSG", EXIT_FAIL_DB)
       /\ UNCHANGED file
    \/ /\ Exists(file, id)
       /\ file' = WriteAt(file, id, EMPTY)
       /\ out' = Say("d", id, "M_STD_DEL_MSG", EXIT_OK)

\* -f id: get_student, then print_student, which refuses a record of id 0.
Find(id) ==
    /\ UNCHANGED file
    /\ \/ /\ ~Exists(file, id)
          /\ out' = Say("f", id, "M_STD_NOT_FND_MSG", EXIT_FAIL_DB)
       \/ /\ Exists(file, id)
          /\ id = 0
          /\ out' = Say("f", id, "M_ERR_STD_PRINT", EXIT_OK)
       \/ /\ Exists(file, id)
          /\ id # 0
          /\ out' = List("f", id, "STUDENT_PRINT", One(GetStudent(file, id)))

Count ==
    /\ UNCHANGED file
    /\ out' = Tell("c", IF Used(file) = {} THEN "M_DB_EMPTY" ELSE "M_DB_RECORD_CNT",
                   Cardinality(Used(file)))

PrintAll ==
    /\ UNCHANGED file
    /\ out' = List("p", 0, IF Used(file) = {} THEN "M_DB_EMPTY" ELSE "STUDENT_PRINT",
                   Pack(file))

\* -x: the used records become slots 0, 1, 2, ... of the new file.
Compress ==
    /\ file' = Pack(file)
    /\ out' = Say("x", 0, "M_DB_COMPRESSED_OK", EXIT_OK)

\* -z: close, and open again with O_TRUNC.
Zero ==
    /\ file' = EmptyFile
    /\ out' = Say("z", 0, "M_DB_ZERO_OK", EXIT_OK)

\* -h, an unknown option or the wrong number of arguments, no option at all:
\* three exit codes.
Usage ==
    /\ UNCHANGED file
    /\ \/ out' = Say("h", 0, "usage", EXIT_OK)
       \/ out' = Say("?", 0, "usage", EXIT_FAIL_ARGS)
       \/ out' = Say("?", 0, "usage", 1)

\* A run killed before its first write or before it printed; or an answer that
\* has been read.
Die == UNCHANGED file /\ out' = Killed

----------------------------------------------------------------------------
\* Every command but -x.
NextInPlace ==
    \/ \E id \in ArgIds, gpa \in ArgGpas : Add(id, gpa)
    \/ \E id \in ArgIds : Del(id) \/ Find(id)
    \/ Count \/ PrintAll \/ Zero \/ Usage \/ Die

Next == NextInPlace \/ Compress

Spec == Init /\ [][Next]_vars

\* A database that is never compressed.
SpecInPlace == Init /\ [][NextInPlace]_vars

----------------------------------------------------------------------------
TypeOK ==
    /\ IsFile(file)
    /\ out.op \in {"none", "a", "d", "f", "c", "p", "x", "z", "h", "?"}
    /\ out.exit \in {-1, EXIT_OK, EXIT_FAIL_DB, EXIT_FAIL_ARGS}

\* No two slots hold a student of the same id, compressed or not: the
\* duplicate check of add_student is by id and covers the whole file.
NoDuplicateIds ==
    \A i, j \in Used(file) : file[i].id = file[j].id => i = j

\* A student sits in the slot of its id or, once the file was compressed, in
\* an earlier one; slots only ever move down.
NeverAboveHome == \A i \in Used(file) : i <= file[i].id

\* In a database that was never compressed a student sits in its own slot, so
\* writing slot id can only touch the student of that id.
AtHome == \A i \in Used(file) : file[i].id = i

\* add_student and del_student write slot id without looking at what it holds.
\* Whatever was compressed before, the students this can destroy are that of
\* the id itself and those with a larger id, never one with a smaller id.
LossIsUpward ==
    [][\A s \in StudentsIn(file) \ StudentsIn(file') :
          out'.op = "z" \/ (out'.op \in {"a", "d"} /\ s.id >= out'.id)]_vars

\* What the registry sees of the file.
Registry == INSTANCE StudentRegistry WITH students <- StudentsIn(file)

\* A database that is never compressed implements the registry.
ImplementsRegistry == Registry!Spec

----------------------------------------------------------------------------
\* sdbsc.c:106 "check if there is another student already at that location":
\* adding a student keeps every other one.
AddKeepsOthers ==
    [][out'.msg = "M_STD_ADDED" => StudentsIn(file) \subseteq StudentsIn(file')]_vars
=============================================================================
