--------------------------- MODULE MCRemoteShell ----------------------------
(* RemoteShell for TLC. *)
EXTENDS RemoteShell, TLC

CONSTANTS a, b

\* A command, one that reads the terminal, the ones that end something, with and
\* without an argument, an empty line and one without commands.
MCLines == {<<"pwd">>, <<"cat">>, <<"exit">>, <<"exit", "now">>, <<"stop-server", "now">>, <<>>,
            <<"|">>}
MCReaders == {<<"cat">>}

\* Users that only list and leave.
PlainLines == {<<"pwd">>, <<"exit">>}
NoReaders == {}

\* A long session, and a user that waits for its turn and types nothing.
LongAndIdle == a :> 3 @@ b :> 0
Three == [c \in Clients |-> 3]
=============================================================================
