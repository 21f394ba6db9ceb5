---------------------------- MODULE RemoteShell -----------------------------
(***************************************************************************)
(* The remote mode of 6-shell-p4: rsh_cli.c and rsh_server.c on two ends of *)
(* TCP connections.  One server process serves its clients one after the   *)
(* other; a client sends a line, prints what it receives until a chunk     *)
(* ends in RDSH_EOF_CHAR, and prompts for the next line.                    *)
(*                                                                         *)
(* TCP is a stream: what one side sends is appended piece by piece, and a  *)
(* recv returns any non-empty prefix of what has arrived.  A piece is the  *)
(* text of a line or the NUL behind it on the way up; the output of a      *)
(* command, a status message with its NUL, or RDSH_EOF_CHAR on the way     *)
(* down.  Every piece carries the number of the line it belongs to.        *)
(*                                                                         *)
(* The commands of one line are a job that may write to the socket, and    *)
(* reads it when its first command reads standard input; what happens      *)
(* inside a job is the subject of Pipeline.  Output never contains         *)
(* RDSH_EOF_CHAR itself.                                                   *)
(***************************************************************************)
EXTENDS Naturals, Sequences

CONSTANTS Clients,
          NoClient,     \* cli_socket before the first accept
          Lines,        \* what users type, as sequences of words
          Readers,      \* the lines whose first command reads standard input
          ArgMax,       \* CMD_ARGV_MAX - 1, the words that no longer fit
          SplitLines,   \* whether a line may arrive without its NUL
          MaxLines,     \* MaxLines[c]: bound on the lines user c types
          MaxLeaves,    \* bound on the users that leave by ^D or ^C
          MaxFaults     \* bound on the system calls of the server that fail

ASSUME RemoteAssumption ==
    /\ NoClient \notin Clients
    /\ Readers \subseteq Lines
    /\ ArgMax \in Nat \ {0} /\ SplitLines \in BOOLEAN
    /\ MaxLines \in [Clients -> Nat]
    /\ MaxLeaves \in Nat /\ MaxFaults \in Nat

VARIABLES
    cpc,        \* cpc[c]: where client c is
    typed,      \* typed[c]: how many lines it has sent
    cmd_buff,   \* cmd_buff[c]: the last one
    shown,      \* shown[c]: the lines whose output it printed since then
    up, down,   \* up[c], down[c]: the pieces in flight to and from the server
    reset,      \* reset[c]: one end has been told that the other is gone
    backlog,    \* the connections accept has not returned yet
    spc,        \* where the server is
    cur,        \* the client of cli_socket
    io_buff,    \* the line number and the string at the start of io_buff
    hungup,     \* the clients whose connection the server has closed
    leaves, faults

client == <<cpc, typed, cmd_buff, shown>>
server == <<spc, cur, io_buff, hungup, backlog>>
net == <<up, down, reset>>
vars == <<client, server, net, leaves, faults>>

Blank == <<>>
NUL == Blank

Init ==
    /\ cpc = [c \in Clients |-> "off"]
    /\ typed = [c \in Clients |-> 0]
    /\ cmd_buff = [c \in Clients |-> Blank]
    /\ shown = [c \in Clients |-> {}]
    /\ up = [c \in Clients |-> <<>>]
    /\ down = [c \in Clients |-> <<>>]
    /\ reset = [c \in Clients |-> FALSE]
    /\ backlog = <<>>
    /\ spc = "accept"
    /\ cur = NoClient
    /\ io_buff = [n |-> 0, words |-> Blank]
    /\ hungup = {}
    /\ leaves = 0 /\ faults = 0

----------------------------------------------------------------------------
(* The client: exec_remote_cmd_loop *)

\* close(cli_socket).  Closing with data unread resets the connection.
Close(c) ==
    /\ cpc' = [cpc EXCEPT ![c] = "gone"]
    /\ reset' = [reset EXCEPT ![c] = @ \/ down'[c] # <<>>]

\* start_client: connect succeeds while the server listens.
Connect(c) ==
    /\ cpc[c] = "off"
    /\ \/ /\ spc # "stopped"
          /\ cpc' = [cpc EXCEPT ![c] = "prompt"]
          /\ backlog' = Append(backlog, c)
       \/ /\ spc = "stopped"
          /\ cpc' = [cpc EXCEPT ![c] = "gone"]
          /\ UNCHANGED backlog
    /\ UNCHANGED <<typed, cmd_buff, shown, spc, cur, io_buff, hungup, net, leaves, faults>>

\* A line and its NUL as they travel.
Sent(n, l) ==
    IF l = Blank THEN <<[n |-> n, words |-> NUL]>>
    ELSE <<[n |-> n, words |-> l], [n |-> n, words |-> NUL]>>

\* The user types a line and it is sent.  Sending to a server that has closed
\* resets the connection, and once that is known SIGPIPE ends the client.
TypeLine(c) ==
    /\ cpc[c] = "prompt"
    /\ typed[c] < MaxLines[c]
    /\ \E l \in Lines :
          /\ typed' = [typed EXCEPT ![c] = @ + 1]
          /\ cmd_buff' = [cmd_buff EXCEPT ![c] = l]
          /\ shown' = [shown EXCEPT ![c] = {}]
          /\ IF c \in hungup
             THEN /\ cpc' = [cpc EXCEPT ![c] = IF reset[c] THEN "gone" ELSE "recv"]
                  /\ reset' = [reset EXCEPT ![c] = TRUE]
                  /\ UNCHANGED up
             ELSE /\ cpc' = [cpc EXCEPT ![c] = "recv"]
                  /\ up' = [up EXCEPT ![c] = @ \o Sent(typed[c] + 1, l)]
                  /\ UNCHANGED reset
    /\ UNCHANGED <<down, server, leaves, faults>>

\* ^D at the prompt, or the client is killed.
Leave(c) ==
    /\ cpc[c] \in {"prompt", "recv"}
    /\ leaves < MaxLeaves
    /\ leaves' = leaves + 1
    /\ UNCHANGED <<typed, cmd_buff, shown, up, down, server, faults>>
    /\ Close(c)

\* The inner loop is left: the client compares the whole line it sent.
EndOfAnswer(c) ==
    IF cmd_buff[c] \in {<<"exit">>, <<"stop-server">>}
    THEN Close(c)
    ELSE cpc' = [cpc EXCEPT ![c] = "prompt"] /\ UNCHANGED reset

\* printf("%.*s") stops at the first NUL, so what is behind a status message
\* in the same chunk is not shown.
Printed(chunk) ==
    {chunk[i].n : i \in {j \in DOMAIN chunk :
        /\ chunk[j].kind # "eof"
        /\ \A k \in 1..(j - 1) : chunk[k].kind # "status"}}

\* Mistake: the delimiter is looked for at the start of the chunk.
AtDelimiter(chunk) == Head(chunk).kind = "eof"

EndsAnswer(chunk) == chunk[Len(chunk)].kind = "eof"

RecvAnswer(c) ==
    /\ cpc[c] = "recv"
    /\ \E k \in 1..Len(down[c]) :
          LET chunk == SubSeq(down[c], 1, k) IN
          /\ down' = [down EXCEPT ![c] = SubSeq(@, k + 1, Len(@))]
          /\ shown' = [shown EXCEPT ![c] = @ \cup Printed(chunk)]
          /\ IF EndsAnswer(chunk) THEN EndOfAnswer(c) ELSE UNCHANGED <<cpc, reset>>
    /\ UNCHANGED <<typed, cmd_buff, up, server, leaves, faults>>

\* recv returns 0, which ends the inner loop only, or fails after a reset.
RecvClosed(c) ==
    /\ cpc[c] = "recv"
    /\ down[c] = <<>>
    /\ c \in hungup
    /\ UNCHANGED down
    /\ EndOfAnswer(c) \/ (reset[c] /\ Close(c))
    /\ UNCHANGED <<typed, cmd_buff, shown, up, server, leaves, faults>>

----------------------------------------------------------------------------
(* The server: process_cli_requests and exec_client_requests *)

\* The process ends: every connection is closed.
Stop ==
    /\ spc' = "stopped"
    /\ hungup' = Clients

\* A piece is written to cli_socket, by the server or by a job; then the
\* server is at l.  Writing to a client that has closed resets the connection,
\* and once that is known SIGPIPE kills the writer.
Write(kind, l) ==
    IF cpc[cur] # "gone"
    THEN /\ down' = [down EXCEPT ![cur] = Append(@, [n |-> io_buff.n, kind |-> kind])]
         /\ spc' = l
         /\ UNCHANGED <<reset, hungup>>
    ELSE /\ reset' = [reset EXCEPT ![cur] = TRUE]
         /\ IF reset[cur] /\ kind # "output" THEN Stop ELSE spc' = l /\ UNCHANGED hungup
         /\ UNCHANGED down

\* Mistake: the last to connect is the first to be served.
LastCome == backlog[Len(backlog)]

FirstCome == Head(backlog)

\* exec_client_requests begins with an io_buff of its own.
Accept ==
    /\ spc = "accept"
    /\ backlog # <<>>
    /\ cur' = FirstCome
    /\ backlog' = Tail(backlog)
    /\ io_buff' = [n |-> 0, words |-> Blank]
    /\ spc' = "recv"
    /\ UNCHANGED <<hungup, client, net, leaves, faults>>

\* build_cmd_list returns OK: a name, and no more words than argv holds.
Parses(l) == l # Blank /\ Len(l) < ArgMax

\* The lengths of what recv may return of s.
Arrivals(s) == {k \in DOMAIN s : SplitLines \/ s[k].words = NUL}

\* recv removes what it returns.
Taken(s, k) == SubSeq(s, k + 1, Len(s))

\* recv takes any prefix of what has arrived, a NUL is put behind it, and
\* build_cmd_list parses the string at the start of the buffer.  Whatever
\* follows in the chunk is dropped.
RecvLine ==
    /\ spc = "recv"
    /\ \E k \in Arrivals(up[cur]) :
          /\ up' = [up EXCEPT ![cur] = Taken(@, k)]
          /\ io_buff' = Head(up[cur])
          /\ spc' = IF Parses(Head(up[cur]).words) THEN "job" ELSE "status"
    /\ UNCHANGED <<cur, hungup, backlog, client, down, reset, leaves, faults>>

\* Mistake: a recv of 0 bytes counts as nothing received yet, and is retried.
RecvAgain == UNCHANGED <<spc, hungup, io_buff>>

\* recv returns 0: ERR_RDSH_COMMUNICATION ends the loop over the clients too.
LostClient == Stop /\ UNCHANGED io_buff

RecvEnd ==
    /\ spc = "recv"
    /\ up[cur] = <<>>
    /\ cpc[cur] = "gone"
    /\ LostClient
    /\ UNCHANGED <<cur, backlog, client, net, leaves, faults>>

\* A command writes to standard output or standard error.  "|" alone has none.
JobWrite ==
    /\ spc = "job"
    /\ io_buff.words # <<"|">>
    /\ Write("output", "wrote")
    /\ UNCHANGED <<cur, io_buff, backlog, client, up, leaves, faults>>

\* The first command reads what the user typed for the server.
JobRead ==
    /\ spc \in {"job", "wrote"}
    /\ io_buff.words \in Readers
    /\ \E k \in Arrivals(up[cur]) : up' = [up EXCEPT ![cur] = Taken(@, k)]
    /\ UNCHANGED <<server, client, down, reset, leaves, faults>>

\* waitpid has returned for every command.  One that reads standard input ends
\* at the end of its input.
JobEnd ==
    /\ spc \in {"job", "wrote"}
    /\ io_buff.words \in Readers => up[cur] = <<>> /\ cpc[cur] = "gone"
    /\ spc' = "status"
    /\ UNCHANGED <<cur, io_buff, hungup, backlog, client, net, leaves, faults>>

\* send_message_string, first send.
SendStatus ==
    /\ spc = "status"
    /\ Write("status", "eof")
    /\ UNCHANGED <<cur, io_buff, backlog, client, up, leaves, faults>>

\* After parsing, the blank behind the first word is a NUL.
FirstWord(l) == IF l = Blank THEN "" ELSE Head(l)

AfterAnswer(l) ==
    IF ~Parses(l) THEN "recv"
    ELSE IF FirstWord(l) = "exit" THEN "close"
    ELSE IF FirstWord(l) = "stop-server" THEN "stop"
    ELSE "extra"

\* send_message_string, second send.
SendEof ==
    /\ spc = "eof"
    /\ Write("eof", AfterAnswer(io_buff.words))
    /\ UNCHANGED <<cur, io_buff, backlog, client, up, leaves, faults>>

\* Mistake: recv stands in front of the loop, and io_buff is parsed again.
ParseAgain == "job"

\* What a turn of the loop begins with.
NextTurn == "recv"

\* The send_message_eof at the end of the loop.
SendExtraEof ==
    /\ spc = "extra"
    /\ Write("eof", NextTurn)
    /\ UNCHANGED <<cur, io_buff, backlog, client, up, leaves, faults>>

\* Mistake: the loop over the lines of this client is not left.
SameClient == "recv"

\* Where exec_client_requests returns to after exit.
NextClient == "accept"

\* exit: OK, so the next client is accepted; stop-server: OK_EXIT.
HangUp ==
    /\ spc \in {"close", "stop"}
    /\ reset' = [reset EXCEPT ![cur] = @ \/ up[cur] # <<>>]
    /\ \/ /\ spc = "close"
          /\ spc' = NextClient
          /\ hungup' = hungup \cup {cur}
       \/ spc = "stop" /\ Stop
    /\ UNCHANGED <<cur, io_buff, backlog, client, up, down, leaves, faults>>

\* accept or recv fails, or pipe or fork, which calls exit.
ServerFault ==
    /\ spc \in {"accept", "recv", "job"}
    /\ faults < MaxFaults
    /\ faults' = faults + 1
    /\ Stop
    /\ UNCHANGED <<cur, io_buff, backlog, client, net, leaves>>

----------------------------------------------------------------------------
ServerStep ==
    \/ Accept \/ RecvLine \/ RecvEnd \/ JobWrite \/ JobRead \/ JobEnd
    \/ SendStatus \/ SendEof \/ SendExtraEof \/ HangUp

RecvStep(c) == RecvAnswer(c) \/ RecvClosed(c)

Next ==
    \/ \E c \in Clients : Connect(c) \/ TypeLine(c) \/ Leave(c) \/ RecvStep(c)
    \/ ServerStep \/ ServerFault

Spec == Init /\ [][Next]_vars

\* The server and its jobs keep running, and a client that waits gets its turn;
\* users need not type anything.
FairSpec == Spec /\ WF_vars(ServerStep) /\ \A c \in Clients : WF_vars(RecvStep(c))

----------------------------------------------------------------------------
Pieces == [n: Nat, words: Lines \cup {NUL}]
Answers == [n: Nat, kind: {"output", "status", "eof"}]

\* A server at work has an open cli_socket.
TypeOK ==
    /\ spc \in {"accept", "recv", "job", "wrote", "status", "eof", "extra", "close",
                "stop", "stopped"}
    /\ cur \in Clients \cup {NoClient}
    /\ spc \notin {"accept", "stopped"} => cur \in Clients \ hungup
    /\ hungup \subseteq Clients
    /\ backlog \in Seq(Clients)
    /\ \A c \in Clients :
          /\ cpc[c] \in {"off", "prompt", "recv", "gone"}
          /\ typed[c] \in 0..MaxLines[c]
          /\ up[c] \in Seq(Pieces) /\ down[c] \in Seq(Answers)
          /\ shown[c] \subseteq 1..typed[c]

\* Chunks are split, merged, and partly dropped by the server and stolen by
\* jobs; still each line a job is started for was typed after the one before, and
\* before every line that is still on its way.
LinesRunOnceInOrder ==
    [][spc # "job" /\ spc' = "job" =>
          /\ io_buff.n < io_buff'.n
          /\ \A i \in DOMAIN up'[cur] :
                up'[cur][i].words # NUL => io_buff'.n < up'[cur][i].n]_vars

\* The server waits for a user other than that of c.
ServesAnother(c) == spc \in {"accept", "recv"} /\ cur # c

JobReadsTerminal == spc \in {"job", "wrote"} /\ io_buff.words \in Readers

\* A client that waits for an answer gets one, or the end of the connection,
\* although the server drops lines that arrive together: the two cannot both
\* wait for the other.  The exceptions are a job that reads the connection as
\* its standard input and a server that is busy with another user.
EveryWaitEnds ==
    \A c \in Clients :
        cpc[c] = "recv" ~> cpc[c] # "recv" \/ JobReadsTerminal \/ ServesAnother(c)

\* A user that left, whatever its client had sent and whatever job was running,
\* does not hold the server.
LeaversFreeServer ==
    \A c \in Clients : cpc[c] = "gone" ~> cur # c \/ spc \in {"accept", "stopped"}

----------------------------------------------------------------------------
Serves == spc \notin {"accept", "stopped"}

Service == INSTANCE RemoteService WITH
    queue <- backlog,
    serving <- IF Serves THEN cur ELSE NoClient,
    line <- IF Serves THEN io_buff.n ELSE 0,
    work <- CASE spc \in {"job", "wrote"} -> "run" [] spc \in {"status", "eof"} -> "reply"
              [] OTHER -> "none",
    left <- hungup

\* The server keeps what RemoteService promises, whatever TCP makes of the lines
\* and whoever leaves when: users are served in the order in which they
\* connected, one that was hung up on is never served again, and no line of a
\* user is run twice or after a later one.
ImplementsService == Service!Spec

----------------------------------------------------------------------------
\* rshlib.h:24-29: the end-of-stream marker manages "where messages begin and
\* end", so what a client shows between two prompts answers the line it sent.
AnswersMatchLines ==
    \A c \in Clients : shown[c] \subseteq {typed[c]}

\* rshlib.h:47 "client exited: getting next connection...": with users that
\* leave by exit and no failing call, only stop-server ends the server.
ServerOutlivesClients ==
    spc = "stopped" => FirstWord(io_buff.words) = "stop-server"
=============================================================================
