-------------------------- MODULE StudentRegistry ---------------------------
(***************************************************************************)
(* What sdbsc promises its user: a set of students with at most one        *)
(* student per id, and commands that answer from that set.  How the set is *)
(* laid out in a file is not visible here.                                 *)
(*                                                                         *)
(* out is the answer of the last command: its option letter and id         *)
(* argument, the message it printed, the students it listed, the number it *)
(* reported and the exit code.                                             *)
(***************************************************************************)
EXTENDS Integers, FiniteSets, StudentReply

CONSTANTS ArgIds, ArgGpas      \* ids and gpas a user may type (after atoi)

VARIABLES students, out

regvars == <<students, out>>

Init == students = {} /\ out = Killed

Taken(id) == \E s \in students : s.id = id

Add(id, gpa) ==
    \/ /\ ~InRange(id, gpa)
       /\ out' = Say("a", id, "M_ERR_STD_RNG", EXIT_FAIL_ARGS)
       /\ UNCHANGED students
    \/ /\ InRange(id, gpa)
       /\ Taken(id)
       /\ out' = Say("a", id, "M_ERR_DB_ADD_DUP", EXIT_FAIL_DB)
       /\ UNCHANGED students
    \/ /\ InRange(id, gpa)
       /\ ~Taken(id)
       /\ students' = students \cup {[id |-> id, gpa |-> gpa]}
       /\ out' = Say("a", id, "M_STD_ADDED", EXIT_OK)

\* An id no student can have removes nobody; what is said is left open.
Del(id) ==
    \/ /\ id \notin StudentIds
       /\ out'.op = "d" /\ out'.id = id
       /\ UNCHANGED students
    \/ /\ id \in StudentIds
       /\ ~Taken(id)
       /\ out' = Say("d", id, "M_STD_NOT_FND_MSG", EXIT_FAIL_DB)
       /\ UNCHANGED students
    \/ /\ id \in StudentIds
       /\ Taken(id)
       /\ students' = {s \in students : s.id # id}
       /\ out' = Say("d", id, "M_STD_DEL_MSG", EXIT_OK)

Find(id) ==
    /\ UNCHANGED students
    /\ \/ id \notin StudentIds /\ out'.op = "f" /\ out'.id = id
       \/ /\ id \in StudentIds
          /\ ~Taken(id)
          /\ out' = Say("f", id, "M_STD_NOT_FND_MSG", EXIT_FAIL_DB)
       \/ \E s \in students :
             s.id = id /\ out' = List("f", id, "STUDENT_PRINT", One(s))

Count ==
    /\ UNCHANGED students
    /\ out' = Tell("c", IF students = {} THEN "M_DB_EMPTY" ELSE "M_DB_RECORD_CNT",
                   Cardinality(students))

\* Every student exactly once, in whatever order.
PrintAll ==
    /\ UNCHANGED students
    /\ out' = List("p", 0, out'.msg, out'.rows)
    /\ out'.msg = IF students = {} THEN "M_DB_EMPTY" ELSE "STUDENT_PRINT"
    /\ {out'.rows[k] : k \in DOMAIN out'.rows} = students
    /\ \A k, l \in DOMAIN out'.rows : out'.rows[k] = out'.rows[l] => k = l

Compress ==
    /\ UNCHANGED students
    /\ out' = Say("x", 0, "M_DB_COMPRESSED_OK", EXIT_OK)

Zero ==
    /\ students' = {}
    /\ out' = Say("z", 0, "M_DB_ZERO_OK", EXIT_OK)

\* Wrong arguments change nothing.
Usage ==
    /\ UNCHANGED students
    /\ \/ out' = Say("h", 0, "usage", EXIT_OK)
       \/ out' = Say("?", 0, "usage", EXIT_FAIL_ARGS)
       \/ out' = Say("?", 0, "usage", 1)

\* A command that was killed before it answered, or an answer that was read.
Die == UNCHANGED students /\ out' = Killed

Next ==
    \/ \E id \in ArgIds, gpa \in ArgGpas : Add(id, gpa)
    \/ \E id \in ArgIds : Del(id) \/ Find(id)
    \/ Count \/ PrintAll \/ Compress \/ Zero \/ Usage \/ Die

Spec == Init /\ [][Next]_regvars
=============================================================================
