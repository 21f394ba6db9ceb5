--------------------------- MODULE RemoteService ----------------------------
(***************************************************************************)
(* What the server of 6-shell-p4 promises, without sockets, chunks and     *)
(* delimiters: clients are served one at a time, in the order in which     *)
(* they came, each until it is hung up on, which is for good.  The lines   *)
(* of a client are worked off one at a time and in the order in which they *)
(* were typed, and none is run twice; a line may be passed over.           *)
(***************************************************************************)
EXTENDS Naturals, Sequences

CONSTANTS Clients, NoClient

VARIABLES queue,    \* the clients that wait to be served
          serving,  \* the client that is served
          line,     \* the number of the last of its lines taken up
          work,     \* "run", "reply" or "none": what is done for that line
          left      \* the clients that were hung up on

service == <<queue, serving, line, work, left>>

Free == serving' = NoClient /\ line' = 0 /\ work' = "none"

Init ==
    /\ queue = <<>> /\ serving = NoClient
    /\ line = 0 /\ work = "none" /\ left = {}

Arrive(c) ==
    /\ c \notin left /\ c # serving /\ \A n \in DOMAIN queue : queue[n] # c
    /\ queue' = Append(queue, c)
    /\ UNCHANGED <<serving, line, work, left>>

Serve ==
    /\ serving = NoClient /\ queue # <<>>
    /\ serving' = Head(queue)
    /\ queue' = Tail(queue)
    /\ UNCHANGED <<line, work, left>>

\* A line is taken up.  Some are not run, and only replied to.
TakeUp ==
    /\ serving # NoClient /\ work = "none"
    /\ \/ work' = "run" /\ line' > line
       \/ work' = "reply" /\ line' >= line
    /\ UNCHANGED <<queue, serving, left>>

Reply ==
    /\ work = "run"
    /\ work' = "reply"
    /\ UNCHANGED <<queue, serving, line, left>>

Done ==
    /\ work = "reply"
    /\ work' = "none"
    /\ UNCHANGED <<queue, serving, line, left>>

HangUp ==
    /\ serving # NoClient
    /\ left' = left \cup {serving}
    /\ Free
    /\ UNCHANGED queue

\* The service ends for everybody.
Stop ==
    /\ left' = Clients
    /\ Free
    /\ UNCHANGED queue

Next == (\E c \in Clients : Arrive(c)) \/ Serve \/ TakeUp \/ Reply \/ Done \/ HangUp \/ Stop

Spec == Init /\ [][Next]_service
=============================================================================
