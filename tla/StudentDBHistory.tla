-------------------------- MODULE StudentDBHistory --------------------------
(***************************************************************************)
(* StudentDBProcs with history variables: for each running command, how    *)
(* many calls had failed when it started, the ids that were in the         *)
(* database at some moment of its run, and those that were not.            *)
(***************************************************************************)
EXTENDS StudentDBProcs

VARIABLES failed, present, absent

hvars == <<vars, failed, present, absent>>

Here == {s.id : s \in StudentsIn(DbFile)}

HInit ==
    /\ Init
    /\ failed = [p \in Procs |-> 0]
    /\ present = [p \in Procs |-> {}]
    /\ absent = [p \in Procs |-> {}]

\* pc'[p] = "idle": p is not running; pc[p] = "idle": p starts now.
HNext ==
    /\ Next
    /\ failed' = [p \in Procs |-> IF pc'[p] = "idle" THEN 0
                                  ELSE IF pc[p] = "idle" THEN faults
                                  ELSE failed[p]]
    /\ present' = [p \in Procs |-> IF pc'[p] = "idle" THEN {} ELSE present[p] \cup Here']
    /\ absent' = [p \in Procs |-> IF pc'[p] = "idle" THEN {}
                                  ELSE absent[p] \cup (StudentIds \ Here')]

HSpec == HInit /\ [][HNext]_hvars

\* get_student walks the file while others change it.  Without -x and as long as
\* no call fails, what a command concludes about its id was true at some moment
\* of its run: a student reported found, duplicate or deleted was there, one
\* reported missing or added was not there.
AnswersWereTrue ==
    \A p \in Procs : faults = failed[p] /\ reply[p].id \in StudentIds =>
        /\ reply[p].msg \in {"STUDENT_PRINT", "M_ERR_DB_ADD_DUP", "M_STD_DEL_MSG"}
             => reply[p].id \in present[p]
        /\ reply[p].msg \in {"M_STD_NOT_FND_MSG", "M_STD_ADDED"}
             => reply[p].id \in absent[p]

\* sdbsc.h:30 "EXIT_OK program executed without error": a command, running
\* alone, that exits with EXIT_OK made no system call that failed.
ErrorsAreReported ==
    \A p \in Procs :
        pc[p] = "exit" /\ reply[p].exit = EXIT_OK => faults = failed[p]
=============================================================================
