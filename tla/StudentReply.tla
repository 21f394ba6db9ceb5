---------------------------- MODULE StudentReply ----------------------------
(***************************************************************************)
(* What a run of sdbsc leaves on the console and in $?: the messages of    *)
(* sdbsc.h are the strings' names there, and the text is not modelled.     *)
(***************************************************************************)
EXTENDS StudentFile

EXIT_OK == 0
EXIT_FAIL_DB == 1
EXIT_FAIL_ARGS == 2

Reply(op, id, msg, rows, n, exit) ==
    [op |-> op, id |-> id, msg |-> msg, rows |-> rows, n |-> n, exit |-> exit]

\* A message alone.
Say(op, id, msg, exit) == Reply(op, id, msg, EmptyFile, 0, exit)

\* The number count_db_records prints.
Tell(op, msg, n) == Reply(op, 0, msg, EmptyFile, n, EXIT_OK)

\* The student lines print_db and print_student print, in order.
List(op, id, msg, rows) == Reply(op, id, msg, rows, 0, EXIT_OK)

One(s) == [k \in {0} |-> s]

\* Nothing is on the console: no command has run yet, or it was killed.
Killed == Say("none", 0, "", -1)
=============================================================================
