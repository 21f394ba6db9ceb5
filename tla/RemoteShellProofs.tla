------------------------- MODULE RemoteShellProofs --------------------------
(***************************************************************************)
(* The safety of RemoteShell for any clients, any lines they may type and  *)
(* any number of leavers and failing calls: the type invariant, the order  *)
(* in which lines are worked off, and the refinement of RemoteService.     *)
(***************************************************************************)
EXTENDS RemoteShell, SequenceTheorems, TLAPS

----------------------------------------------------------------------------
(* The inductive invariant *)

Stores ==
    /\ cpc \in [Clients -> {"off", "prompt", "recv", "gone"}]
    /\ typed \in [Clients -> Nat]
    /\ shown \in [Clients -> SUBSET Nat]
    /\ up \in [Clients -> Seq(Pieces)]
    /\ down \in [Clients -> Seq(Answers)]
    /\ io_buff \in Pieces

\* The server has a line in io_buff.
AtWork == spc \in {"job", "wrote", "status", "eof", "extra", "close", "stop"}

\* Whatever travels or is worked on belongs to a line that was typed.
Numbered ==
    /\ \A c \in Clients :
          /\ \A i \in DOMAIN up[c] : up[c][i].n \in 1..typed[c]
          /\ \A i \in DOMAIN down[c] : down[c][i].n \in 1..typed[c]
    /\ Serves => io_buff.n <= typed[cur]
    /\ AtWork => io_buff.n >= 1

\* p comes before q on a connection: q is a later piece, and a piece with words
\* begins a line.
Before(p, q) == p.n <= q.n /\ (q.words # NUL => p.n < q.n)

\* The pieces of a connection, that in io_buff in front, are in the order in
\* which they were typed.
InOrder ==
    /\ \A c \in Clients : \A i, j \in DOMAIN up[c] : i < j => Before(up[c][i], up[c][j])
    /\ Serves => \A i \in DOMAIN up[cur] : Before(io_buff, up[cur][i])

\* A connection is in one place: not made yet, in the backlog, served or closed.
Queued ==
    spc # "stopped" =>
        /\ \A m, n \in DOMAIN backlog : backlog[m] = backlog[n] => m = n
        /\ \A n \in DOMAIN backlog :
              /\ backlog[n] \notin hungup
              /\ cpc[backlog[n]] # "off"
              /\ Serves => backlog[n] # cur
        /\ \A c \in hungup : cpc[c] # "off"
        /\ Serves => cpc[cur] # "off"

IInv == TypeOK /\ Stores /\ Numbered /\ InOrder /\ Queued

----------------------------------------------------------------------------
(* Streams *)

\* What is left of a stream when the first k pieces have been taken.
LEMMA RestOfStream ==
    ASSUME NEW S, NEW s \in Seq(S), NEW k \in 0..Len(s)
    PROVE  LET t == SubSeq(s, k + 1, Len(s)) IN
           /\ t \in Seq(S)
           /\ DOMAIN t = 1..(Len(s) - k)
           /\ \A i \in DOMAIN t : i + k \in DOMAIN s /\ t[i] = s[i + k]
<1> DEFINE t == SubSeq(s, k + 1, Len(s))
<1>1. /\ Len(s) \in Nat /\ DOMAIN s = 1..Len(s)
      /\ \A i \in DOMAIN s : s[i] \in S
    BY LenProperties, ElementOfSeq
<1>2. \A i \in (k + 1)..Len(s) : s[i] \in S
    BY <1>1
<1>3. /\ t \in Seq(S)
      /\ Len(t) = IF k + 1 <= Len(s) THEN Len(s) - (k + 1) + 1 ELSE 0
      /\ \A i \in 1..(Len(s) - (k + 1) + 1) : t[i] = s[(k + 1) + i - 1]
    <2>1. k + 1 \in Int /\ Len(s) \in Int
        BY <1>1
    <2> HIDE DEF t
    <2> QED
        BY <1>2, <2>1, SubSeqProperties DEF t
<1>4. DOMAIN t = 1..(Len(s) - k)
    BY <1>1, <1>3, LenProperties
<1> QED
    BY <1>1, <1>3, <1>4

\* A stream after a piece has been appended.
LEMMA OneMorePiece ==
    ASSUME NEW S, NEW s \in Seq(S), NEW e \in S
    PROVE  LET t == Append(s, e) IN
           /\ t \in Seq(S)
           /\ DOMAIN t = 1..(Len(s) + 1)
           /\ \A i \in DOMAIN s : t[i] = s[i]
           /\ t[Len(s) + 1] = e
<1>1. DOMAIN s = 1..Len(s) /\ Len(s) \in Nat
    BY LenProperties
<1> QED
    BY <1>1, AppendProperties, LenProperties

\* A stream after a line has been sent.
LEMMA SentPieces ==
    ASSUME NEW n \in Nat, NEW l \in Lines
    PROVE  /\ Sent(n, l) \in Seq(Pieces)
           /\ \A i \in DOMAIN Sent(n, l) : Sent(n, l)[i].n = n
           /\ \A i \in DOMAIN Sent(n, l) : i > 1 => Sent(n, l)[i].words = NUL
<1> DEFINE p == [n |-> n, words |-> l]
           q == [n |-> n, words |-> NUL]
<1>1. /\ p \in Pieces /\ p.n = n
      /\ q \in Pieces /\ q.n = n /\ q.words = NUL
    BY DEF Pieces
<1>2. Sent(n, l) = IF l = Blank THEN <<q>> ELSE <<p, q>>
    BY DEF Sent
<1> HIDE DEF p, q
<1> QED
    BY <1>1, <1>2

----------------------------------------------------------------------------
(* The steps *)

LEMMA InvInit == ASSUME Init PROVE IInv
<1>1. TypeOK
    BY RemoteAssumption DEF Init, TypeOK, Blank
<1>2. Stores
    BY DEF Init, Stores, Pieces, NUL, Blank
<1>3. Numbered /\ InOrder /\ Queued
    BY DEF Init, Numbered, InOrder, Queued, AtWork, Serves
<1> QED
    BY <1>1, <1>2, <1>3 DEF IInv

LEMMA InvStutter == ASSUME IInv, UNCHANGED vars PROVE IInv'
    BY DEF IInv, TypeOK, Stores, Numbered, InOrder, Queued, AtWork, Serves, vars,
           client, server, net

LEMMA StopKeepsInv ==
    ASSUME IInv, Stop, UNCHANGED <<cur, io_buff, backlog, client, up, down>>
    PROVE  IInv'
<1> USE DEF Stop, client
<1>1. TypeOK'
    BY DEF IInv, TypeOK
<1>2. Stores'
    BY DEF IInv, Stores
<1>3. Numbered' /\ InOrder' /\ Queued'
    BY DEF IInv, Numbered, InOrder, Queued, AtWork, Serves
<1> QED
    BY <1>1, <1>2, <1>3 DEF IInv

\* The server goes on with the line in io_buff or back to recv.
LEMMA MoveKeepsInv ==
    ASSUME IInv, AtWork, AtWork' \/ spc' = "recv",
           UNCHANGED <<cur, io_buff, hungup, backlog, client, up, down>>
    PROVE  IInv'
<1> USE DEF client, AtWork
<1>1. TypeOK'
    BY DEF IInv, TypeOK
<1>2. Stores'
    BY DEF IInv, Stores
<1>3. Numbered' /\ InOrder' /\ Queued'
    BY DEF IInv, Numbered, InOrder, Queued, Serves
<1> QED
    BY <1>1, <1>2, <1>3 DEF IInv

\* So it does when it writes a piece of the answer to that line.
LEMMA WriteKeepsInv ==
    ASSUME IInv, AtWork, NEW l, NEW kind \in {"output", "status", "eof"}, Write(kind, l),
           l \in {"wrote", "eof", "recv", "extra", "close", "stop"},
           UNCHANGED <<cur, io_buff, backlog, client, up>>
    PROVE  IInv'
<1>1. CASE cpc[cur] # "gone"
    <2> DEFINE e == [n |-> io_buff.n, kind |-> kind]
    <2>1. /\ cur \in Clients /\ down[cur] \in Seq(Answers)
          /\ typed[cur] \in Nat
          /\ io_buff.n \in Nat /\ io_buff.n \in 1..typed[cur]
          /\ e \in Answers /\ e.n = io_buff.n
        BY DEF IInv, TypeOK, Stores, Numbered, AtWork, Serves, Pieces, Answers
    <2>2. /\ spc' = l /\ UNCHANGED <<reset, hungup>>
          /\ down' = [down EXCEPT ![cur] = Append(@, e)]
        BY <1>1 DEF Write
    <2> HIDE DEF e
    <2>3. /\ down'[cur] \in Seq(Answers)
          /\ \A i \in DOMAIN down'[cur] : down'[cur][i].n \in 1..typed[cur]
          /\ \A c \in Clients \ {cur} : down'[c] = down[c]
          /\ down' \in [Clients -> Seq(Answers)]
        <3>1. /\ DOMAIN down[cur] = 1..Len(down[cur]) /\ Len(down[cur]) \in Nat
              /\ \A i \in DOMAIN down[cur] : down[cur][i].n \in 1..typed[cur]
            BY <2>1, LenProperties DEF IInv, Numbered
        <3>2. down \in [Clients -> Seq(Answers)]
            BY DEF IInv, Stores
        <3> QED
            BY <2>1, <2>2, <3>1, <3>2, OneMorePiece
    <2>4. TypeOK'
        BY <2>1, <2>2, <2>3 DEF IInv, TypeOK, Stores, client, AtWork
    <2>5. Stores'
        BY <2>2, <2>3 DEF IInv, Stores, client
    <2>6. Numbered'
        BY <2>1, <2>2, <2>3 DEF IInv, Numbered, AtWork, Serves, client
    <2>7. InOrder' /\ Queued'
        BY <2>2 DEF IInv, InOrder, Queued, Serves, AtWork, client
    <2> QED
        BY <2>4, <2>5, <2>6, <2>7 DEF IInv
<1>2. CASE cpc[cur] = "gone" /\ Stop
    BY <1>2, StopKeepsInv DEF Write
<1>3. CASE cpc[cur] = "gone" /\ ~Stop
    BY <1>3, MoveKeepsInv DEF Write, AtWork
<1> QED
    BY <1>1, <1>2, <1>3

\* A client takes steps on its own side that leave the streams to the server and
\* the numbers alone.
LEMMA ClientKeepsInv ==
    ASSUME IInv, NEW c \in Clients, UNCHANGED <<typed, up, server>>,
           cpc[c] # "off",
           NEW s \in {"prompt", "recv", "gone"}, cpc' = [cpc EXCEPT ![c] = s],
           NEW k \in 0..Len(down[c]),
           down' = [down EXCEPT ![c] = SubSeq(@, k + 1, Len(@))],
           NEW p \in SUBSET (1..typed[c]), shown' = [shown EXCEPT ![c] = @ \cup p]
    PROVE  IInv'
<1> USE DEF server
<1>1. /\ typed \in [Clients -> Nat]
      /\ down \in [Clients -> Seq(Answers)]
      /\ shown \in [Clients -> SUBSET Nat]
      /\ cpc \in [Clients -> {"off", "prompt", "recv", "gone"}]
    BY DEF IInv, Stores
<1>2. /\ down' \in [Clients -> Seq(Answers)]
      /\ \A d \in Clients \ {c} : down'[d] = down[d]
      /\ \A i \in DOMAIN down'[c] : i + k \in DOMAIN down[c] /\ down'[c][i] = down[c][i + k]
    BY <1>1, RestOfStream
<1>3. TypeOK'
    BY <1>1, <1>2 DEF IInv, TypeOK
<1>4. Stores'
    <2>1. p \in SUBSET Nat
        BY <1>1
    <2>2. shown' \in [Clients -> SUBSET Nat]
        BY <1>1, <2>1
    <2> QED
        BY <1>1, <1>2, <2>2 DEF IInv, Stores
<1>5. Numbered'
    BY <1>1, <1>2 DEF IInv, Numbered, AtWork, Serves
<1>6. InOrder'
    BY DEF IInv, InOrder, Serves
<1>7. Queued'
    BY <1>1 DEF IInv, Queued, Serves, TypeOK
<1> QED
    BY <1>3, <1>4, <1>5, <1>6, <1>7 DEF IInv

LEMMA ConnectKeepsInv == ASSUME IInv, NEW c \in Clients, Connect(c) PROVE IInv'
<1> USE DEF net
<1>1. /\ cpc[c] = "off" /\ cpc \in [Clients -> {"off", "prompt", "recv", "gone"}]
      /\ UNCHANGED <<typed, cmd_buff, shown, spc, cur, io_buff, hungup, up, down, reset>>
    BY DEF Connect, IInv, Stores
<1>2. Numbered' /\ InOrder'
    BY <1>1 DEF IInv, Numbered, InOrder, AtWork, Serves
<1>3. CASE spc = "stopped"
    <2>1. cpc' = [cpc EXCEPT ![c] = "gone"] /\ UNCHANGED backlog
        BY <1>3 DEF Connect
    <2> QED
        BY <1>1, <1>2, <1>3, <2>1 DEF IInv, TypeOK, Stores, Queued
<1>4. CASE spc # "stopped"
    <2>1. cpc' = [cpc EXCEPT ![c] = "prompt"] /\ backlog' = Append(backlog, c)
        BY <1>4 DEF Connect
    <2>2. backlog \in Seq(Clients)
        BY DEF IInv, TypeOK
    <2>3. /\ backlog' \in Seq(Clients)
          /\ DOMAIN backlog = 1..Len(backlog) /\ Len(backlog) \in Nat
          /\ DOMAIN backlog' = 1..(Len(backlog) + 1)
          /\ \A i \in DOMAIN backlog : backlog'[i] = backlog[i] /\ backlog[i] \in Clients
          /\ backlog'[Len(backlog) + 1] = c
        BY <2>1, <2>2, OneMorePiece, LenProperties, ElementOfSeq
    <2>4. TypeOK' /\ Stores'
        BY <1>1, <2>1, <2>3 DEF IInv, TypeOK, Stores
    <2>5. Queued'
        <3>1. \A n \in DOMAIN backlog : backlog[n] # c
            BY <1>1, <1>4 DEF IInv, Queued
        <3> QED
            BY <1>1, <1>4, <2>1, <2>3, <3>1 DEF IInv, Queued, TypeOK, Serves
    <2> QED
        BY <1>2, <2>4, <2>5 DEF IInv
<1> QED
    BY <1>3, <1>4

LEMMA TypeLineKeepsInv == ASSUME IInv, NEW c \in Clients, TypeLine(c) PROVE IInv'
<1> USE DEF server
<1>1. /\ typed \in [Clients -> Nat] /\ up \in [Clients -> Seq(Pieces)]
      /\ shown \in [Clients -> SUBSET Nat]
      /\ cpc \in [Clients -> {"off", "prompt", "recv", "gone"}]
      /\ cpc[c] = "prompt" /\ typed[c] < MaxLines[c] /\ MaxLines[c] \in Nat
      /\ UNCHANGED <<down, spc, cur, io_buff, hungup, backlog>>
      /\ typed' = [typed EXCEPT ![c] = @ + 1] /\ shown' = [shown EXCEPT ![c] = {}]
    BY RemoteAssumption DEF IInv, Stores, TypeLine
<1>2. PICK l \in Lines :
          \/ /\ c \in hungup
             /\ cpc' = [cpc EXCEPT ![c] = IF reset[c] THEN "gone" ELSE "recv"]
             /\ UNCHANGED up
          \/ /\ cpc' = [cpc EXCEPT ![c] = "recv"]
             /\ up' = [up EXCEPT ![c] = @ \o Sent(typed[c] + 1, l)]
    BY DEF TypeLine
<1> DEFINE n == typed[c] + 1
           s == Sent(n, l)
<1>3. /\ n \in Nat /\ typed'[c] = n /\ \A d \in Clients \ {c} : typed'[d] = typed[d]
      /\ \A d \in Clients : typed[d] <= typed'[d]
    BY <1>1
<1>4. /\ s \in Seq(Pieces) /\ DOMAIN s = 1..Len(s) /\ Len(s) \in Nat
      /\ \A i \in DOMAIN s : s[i].n = n /\ (i > 1 => s[i].words = NUL)
    BY <1>3, SentPieces, LenProperties
<1>5. up[c] \in Seq(Pieces) /\ DOMAIN up[c] = 1..Len(up[c]) /\ Len(up[c]) \in Nat
    BY <1>1, LenProperties
<1> HIDE DEF s, n
<1>6. /\ up' \in [Clients -> Seq(Pieces)]
      /\ \A d \in Clients \ {c} : up'[d] = up[d]
      /\ \/ up'[c] = up[c]
         \/ /\ DOMAIN up'[c] = 1..(Len(up[c]) + Len(s))
            /\ \A i \in DOMAIN up'[c] :
                  up'[c][i] = IF i <= Len(up[c]) THEN up[c][i] ELSE s[i - Len(up[c])]
    <2>1. CASE UNCHANGED up
        BY <1>1, <2>1
    <2>2. CASE up' = [up EXCEPT ![c] = @ \o s]
        <3>1. /\ up[c] \o s \in Seq(Pieces) /\ Len(up[c] \o s) = Len(up[c]) + Len(s)
              /\ \A i \in 1..(Len(up[c]) + Len(s)) :
                    (up[c] \o s)[i] = IF i <= Len(up[c]) THEN up[c][i] ELSE s[i - Len(up[c])]
            BY <1>4, <1>5, ConcatProperties
        <3>2. DOMAIN (up[c] \o s) = 1..(Len(up[c]) + Len(s))
            BY <3>1, LenProperties
        <3> QED
            BY <1>1, <2>2, <3>1, <3>2
    <2> QED
        BY <1>2, <2>1, <2>2 DEF s, n
<1>7. TypeOK'
    <2>1. \A d \in Clients :
              /\ cpc'[d] \in {"off", "prompt", "recv", "gone"}
              /\ typed'[d] \in 0..MaxLines[d]
              /\ shown'[d] \subseteq 1..typed'[d]
        <3> SUFFICES ASSUME NEW d \in Clients
                     PROVE  /\ cpc'[d] \in {"off", "prompt", "recv", "gone"}
                            /\ typed'[d] \in 0..MaxLines[d]
                            /\ shown'[d] \subseteq 1..typed'[d]
            OBVIOUS
        <3>1. CASE d = c
            BY <1>1, <1>2, <1>3, <3>1 DEF n
        <3>2. CASE d # c
            BY <1>1, <1>2, <1>3, <3>2 DEF IInv, TypeOK
        <3> QED
            BY <3>1, <3>2
    <2> QED
        BY <1>1, <1>6, <2>1 DEF IInv, TypeOK
<1>8. Stores'
    <2>1. cpc' \in [Clients -> {"off", "prompt", "recv", "gone"}]
        BY <1>1, <1>2
    <2>2. shown' \in [Clients -> SUBSET Nat] /\ typed' \in [Clients -> Nat]
        BY <1>1
    <2> QED
        BY <1>1, <1>6, <2>1, <2>2 DEF IInv, Stores
<1>9. \A i \in DOMAIN up'[c] :
          \/ i \in DOMAIN up[c] /\ up'[c][i] = up[c][i]
          \/ /\ up'[c][i].n = n
             /\ \A j \in DOMAIN up'[c] : j < i /\ j \notin DOMAIN up[c] => up'[c][i].words = NUL
    <2> SUFFICES ASSUME NEW i \in DOMAIN up'[c], i \notin DOMAIN up[c]
                 PROVE  /\ up'[c][i].n = n
                        /\ \A j \in DOMAIN up'[c] :
                              j < i /\ j \notin DOMAIN up[c] => up'[c][i].words = NUL
        BY <1>5, <1>6
    <2>1. i - Len(up[c]) \in DOMAIN s /\ up'[c][i] = s[i - Len(up[c])] /\ i \in Nat
        BY <1>4, <1>5, <1>6
    <2>2. \A j \in DOMAIN up'[c] : j < i /\ j \notin DOMAIN up[c] => i - Len(up[c]) > 1
        BY <1>4, <1>5, <1>6, <2>1
    <2> QED
        BY <1>4, <2>1, <2>2
<1>10. Numbered'
    <2>1. \A d \in Clients : \A i \in DOMAIN up'[d] : up'[d][i].n \in 1..typed'[d]
        <3> SUFFICES ASSUME NEW d \in Clients, NEW i \in DOMAIN up'[d]
                     PROVE  up'[d][i].n \in 1..typed'[d]
            OBVIOUS
        <3>1. CASE d # c
            BY <1>1, <1>3, <1>6, <3>1 DEF IInv, Numbered
        <3>2. CASE d = c /\ i \in DOMAIN up[c] /\ up'[c][i] = up[c][i]
            BY <1>1, <1>3, <3>2 DEF IInv, Numbered, n
        <3>3. CASE d = c /\ up'[c][i].n = n
            BY <1>1, <1>3, <3>3 DEF n
        <3> QED
            BY <1>9, <3>1, <3>2, <3>3
    <2>2. \A d \in Clients : \A i \in DOMAIN down'[d] : down'[d][i].n \in 1..typed'[d]
        BY <1>1, <1>3 DEF IInv, Numbered
    <2>3. Serves' => io_buff'.n <= typed'[cur]
        BY <1>1, <1>3 DEF IInv, Numbered, TypeOK, Serves, Stores, Pieces
    <2> QED
        BY <1>1, <2>1, <2>2, <2>3 DEF IInv, Numbered, AtWork
<1>11. InOrder'
    <2>1. \A d \in Clients : \A i, j \in DOMAIN up'[d] : i < j => Before(up'[d][i], up'[d][j])
        <3> SUFFICES ASSUME NEW i \in DOMAIN up'[c], NEW j \in DOMAIN up'[c], i < j
                     PROVE  Before(up'[c][i], up'[c][j])
            BY <1>6 DEF IInv, InOrder
        <3>1. CASE i \in DOMAIN up[c] /\ j \in DOMAIN up[c]
            BY <1>5, <1>6, <3>1 DEF IInv, InOrder
        <3>2. CASE i \in DOMAIN up[c] /\ j \notin DOMAIN up[c]
            <4>1. up'[c][i].n \in 1..typed[c] /\ up'[c][j].n = n
                BY <1>5, <1>6, <1>9, <3>2 DEF IInv, Numbered
            <4> QED
                BY <1>1, <4>1 DEF Before, n
        <3>3. CASE i \notin DOMAIN up[c]
            <4>1. j \notin DOMAIN up[c] /\ up'[c][i].n = n /\ up'[c][j].n = n
                  /\ up'[c][j].words = NUL
                BY <1>5, <1>6, <1>9, <3>3
            <4> QED
                BY <1>3, <4>1 DEF Before
        <3> QED
            BY <3>1, <3>2, <3>3
    <2>2. Serves' => \A i \in DOMAIN up'[cur] : Before(io_buff, up'[cur][i])
        <3> SUFFICES ASSUME Serves, cur = c, NEW i \in DOMAIN up'[c], i \notin DOMAIN up[c]
                     PROVE  Before(io_buff, up'[c][i])
            BY <1>1, <1>6, <1>9 DEF IInv, InOrder, TypeOK, Serves
        <3>1. io_buff.n <= typed[c] /\ io_buff.n \in Nat
            BY DEF IInv, Numbered, Stores, Pieces
        <3> QED
            BY <1>1, <1>9, <3>1 DEF Before, n
    <2> QED
        BY <1>1, <2>1, <2>2 DEF InOrder, Serves
<1>12. Queued'
    BY <1>1, <1>2 DEF IInv, Queued, Serves, TypeOK
<1> QED
    BY <1>7, <1>8, <1>10, <1>11, <1>12 DEF IInv

\* A client that only moves, prints nothing and takes nothing.
LEMMA ClientMovesKeepsInv ==
    ASSUME IInv, NEW c \in Clients, cpc[c] # "off",
           NEW s \in {"prompt", "recv", "gone"}, cpc' = [cpc EXCEPT ![c] = s],
           UNCHANGED <<typed, shown, up, down, server>>
    PROVE  IInv'
<1>1. down \in [Clients -> Seq(Answers)] /\ shown \in [Clients -> SUBSET Nat]
    BY DEF IInv, Stores
<1>2. SubSeq(down[c], 0 + 1, Len(down[c])) = down[c] /\ 0 \in 0..Len(down[c])
    BY <1>1, SubSeqFull, LenProperties
<1>3. down' = [down EXCEPT ![c] = SubSeq(@, 0 + 1, Len(@))]
    BY <1>1, <1>2
<1>4. {} \in SUBSET (1..typed[c]) /\ shown' = [shown EXCEPT ![c] = @ \cup {}]
    BY <1>1
<1> QED
    BY <1>2, <1>3, <1>4, ClientKeepsInv

\* Leaving the inner loop ends the client or brings it back to the prompt.
LEMMA AfterAnswerMoves ==
    ASSUME NEW c \in Clients, EndOfAnswer(c) \/ Close(c)
    PROVE  \E s \in {"prompt", "recv", "gone"} : cpc' = [cpc EXCEPT ![c] = s]
    BY DEF EndOfAnswer, Close

LEMMA RecvAnswerKeepsInv == ASSUME IInv, NEW c \in Clients, RecvAnswer(c) PROVE IInv'
<1>1. PICK k \in 1..Len(down[c]) :
          LET chunk == SubSeq(down[c], 1, k) IN
          /\ down' = [down EXCEPT ![c] = SubSeq(@, k + 1, Len(@))]
          /\ shown' = [shown EXCEPT ![c] = @ \cup Printed(chunk)]
          /\ IF EndsAnswer(chunk) THEN EndOfAnswer(c) ELSE UNCHANGED <<cpc, reset>>
    BY DEF RecvAnswer
<1> DEFINE chunk == SubSeq(down[c], 1, k)
<1>2. cpc[c] = "recv" /\ UNCHANGED <<typed, cmd_buff, up, server>>
    BY DEF RecvAnswer
<1>3. cpc \in [Clients -> {"off", "prompt", "recv", "gone"}] /\ down[c] \in Seq(Answers)
    BY DEF IInv, Stores
<1>4. Printed(chunk) \in SUBSET (1..typed[c])
    <2>1. DOMAIN down[c] = 1..Len(down[c]) /\ Len(down[c]) \in Nat
        BY <1>3, LenProperties
    <2>2. \A i \in 1..k : down[c][i] \in Answers /\ i \in DOMAIN down[c]
        BY <1>3, <2>1, ElementOfSeq
    <2>3. /\ chunk \in Seq(Answers) /\ Len(chunk) = k
          /\ \A i \in 1..k : chunk[i] = down[c][i]
        BY <2>1, <2>2, SubSeqProperties
    <2>4. \A i \in DOMAIN chunk : chunk[i].n \in 1..typed[c]
        BY <2>2, <2>3, LenProperties DEF IInv, Numbered
    <2> HIDE DEF chunk
    <2> QED
        BY <2>4 DEF Printed
<1>5. \E s \in {"prompt", "recv", "gone"} : cpc' = [cpc EXCEPT ![c] = s]
    <2>1. CASE EndOfAnswer(c)
        BY <2>1, AfterAnswerMoves
    <2>2. CASE UNCHANGED cpc
        BY <1>2, <1>3, <2>2
    <2> QED
        BY <1>1, <2>1, <2>2
<1>6. k \in 0..Len(down[c])
    BY <1>3, LenProperties
<1> HIDE DEF chunk
<1> QED
    BY <1>1, <1>2, <1>4, <1>5, <1>6, ClientKeepsInv DEF chunk

LEMMA ClientStepKeepsInv ==
    ASSUME IInv, NEW c \in Clients,
           Connect(c) \/ TypeLine(c) \/ Leave(c) \/ RecvStep(c)
    PROVE  IInv'
<1>1. CASE Leave(c)
    <2>1. \E s \in {"prompt", "recv", "gone"} : cpc' = [cpc EXCEPT ![c] = s]
        BY <1>1, AfterAnswerMoves DEF Leave
    <2>2. cpc[c] # "off" /\ UNCHANGED <<typed, shown, up, down, server>>
        BY <1>1 DEF Leave
    <2> QED
        BY <2>1, <2>2, ClientMovesKeepsInv
<1>2. CASE RecvClosed(c)
    <2>1. \E s \in {"prompt", "recv", "gone"} : cpc' = [cpc EXCEPT ![c] = s]
        BY <1>2, AfterAnswerMoves DEF RecvClosed
    <2>2. cpc[c] # "off" /\ UNCHANGED <<typed, shown, up, down, server>>
        BY <1>2 DEF RecvClosed
    <2> QED
        BY <2>1, <2>2, ClientMovesKeepsInv
<1> QED
    BY <1>1, <1>2, ConnectKeepsInv, TypeLineKeepsInv, RecvAnswerKeepsInv DEF RecvStep

LEMMA AcceptKeepsInv == ASSUME IInv, Accept PROVE IInv'
<1> USE DEF client, net
<1>1. /\ spc = "accept" /\ spc' = "recv" /\ backlog \in Seq(Clients) /\ backlog # <<>>
      /\ cur' = Head(backlog) /\ backlog' = Tail(backlog)
      /\ io_buff' = [n |-> 0, words |-> Blank]
      /\ UNCHANGED <<hungup, cpc, typed, cmd_buff, shown, up, down, reset>>
    BY DEF Accept, FirstCome, IInv, TypeOK
<1>2. /\ DOMAIN backlog = 1..Len(backlog) /\ Len(backlog) \in Nat \ {0}
      /\ Head(backlog) = backlog[1] /\ Head(backlog) \in Clients
      /\ Tail(backlog) \in Seq(Clients)
      /\ DOMAIN Tail(backlog) = 1..(Len(backlog) - 1)
      /\ \A i \in DOMAIN Tail(backlog) : Tail(backlog)[i] = backlog[i + 1]
    BY <1>1, HeadTailProperties, LenProperties, EmptySeq
<1>3. \A c \in Clients : \A i \in DOMAIN up[c] :
          up[c][i].n \in 1..typed[c] /\ typed[c] \in Nat
    BY DEF IInv, Numbered, Stores
<1>4. TypeOK'
    BY <1>1, <1>2 DEF IInv, TypeOK, Queued
<1>5. Stores'
    BY <1>1 DEF IInv, Stores, Pieces, NUL
<1>6. Numbered'
    BY <1>1, <1>2, <1>3 DEF IInv, Numbered, AtWork, Stores
<1>7. InOrder'
    <2>1. \A i \in DOMAIN up'[cur'] : Before(io_buff', up'[cur'][i])
        BY <1>1, <1>2, <1>3 DEF Before
    <2> QED
        BY <1>1, <2>1 DEF IInv, InOrder
<1>8. Queued'
    BY <1>1, <1>2 DEF IInv, Queued, Serves
<1> QED
    BY <1>4, <1>5, <1>6, <1>7, <1>8 DEF IInv

\* What recv returns is a prefix of the stream: the rest is later than it.
LEMMA TakenPieces ==
    ASSUME IInv, Serves, NEW k \in Arrivals(up[cur]),
           up' = [up EXCEPT ![cur] = Taken(@, k)]
    PROVE  /\ cur \in Clients /\ k \in Nat
           /\ 1 \in DOMAIN up[cur] /\ Head(up[cur]) = up[cur][1] /\ Head(up[cur]) \in Pieces
           /\ up' \in [Clients -> Seq(Pieces)]
           /\ \A d \in Clients \ {cur} : up'[d] = up[d]
           /\ \A i \in DOMAIN up'[cur] :
                 /\ i \in Nat /\ i + k \in DOMAIN up[cur] /\ i + k > 1
                 /\ up'[cur][i] = up[cur][i + k]
<1>1. up \in [Clients -> Seq(Pieces)] /\ cur \in Clients
    BY DEF IInv, Stores, TypeOK, Serves
<1>2. /\ up[cur] \in Seq(Pieces) /\ DOMAIN up[cur] = 1..Len(up[cur]) /\ Len(up[cur]) \in Nat
      /\ k \in 1..Len(up[cur])
    BY <1>1, LenProperties DEF Arrivals
<1>3. /\ 1 \in DOMAIN up[cur] /\ up[cur] # <<>>
    BY <1>2
<1>4. Head(up[cur]) = up[cur][1] /\ Head(up[cur]) \in Pieces
    BY <1>2, <1>3, HeadTailProperties
<1>5. /\ Taken(up[cur], k) \in Seq(Pieces)
      /\ DOMAIN Taken(up[cur], k) = 1..(Len(up[cur]) - k)
      /\ \A i \in DOMAIN Taken(up[cur], k) :
            i + k \in DOMAIN up[cur] /\ Taken(up[cur], k)[i] = up[cur][i + k]
    BY <1>2, RestOfStream DEF Taken
<1> QED
    BY <1>1, <1>2, <1>3, <1>4, <1>5

LEMMA TakingKeepsInv ==
    ASSUME IInv, Serves, NEW k \in Arrivals(up[cur]),
           up' = [up EXCEPT ![cur] = Taken(@, k)],
           UNCHANGED <<cur, hungup, backlog, client, down>>,
           \/ io_buff' = Head(up[cur]) /\ spc' \in {"job", "status"}
           \/ UNCHANGED <<io_buff, spc>>
    PROVE  IInv'
<1> USE DEF client
<1> DEFINE s == up[cur]
<1>1. /\ cur \in Clients /\ Head(s) = s[1] /\ Head(s) \in Pieces /\ 1 \in DOMAIN s
      /\ up' \in [Clients -> Seq(Pieces)]
      /\ \A d \in Clients \ {cur} : up'[d] = up[d]
      /\ \A i \in DOMAIN up'[cur] :
            i \in Nat /\ i + k \in DOMAIN s /\ i + k > 1 /\ up'[cur][i] = s[i + k]
      /\ k \in Nat
    BY TakenPieces
<1>2. TypeOK'
    BY <1>1 DEF IInv, TypeOK, Serves
<1>3. Stores'
    BY <1>1 DEF IInv, Stores
<1>4. Numbered'
    <2>1. s[1].n \in 1..typed[cur] /\ typed[cur] \in Nat
        BY <1>1 DEF IInv, Numbered, Stores
    <2> QED
        BY <1>1, <2>1 DEF IInv, Numbered, Serves, AtWork
<1>5. InOrder'
    <2>1. \A i, j \in DOMAIN up'[cur] : i < j => Before(up'[cur][i], up'[cur][j])
        BY <1>1 DEF IInv, InOrder
    <2>2. \A i \in DOMAIN up'[cur] : Before(io_buff', up'[cur][i])
        <3>1. CASE io_buff' = Head(s)
            BY <1>1, <3>1 DEF IInv, InOrder
        <3>2. CASE UNCHANGED io_buff
            BY <1>1, <3>2 DEF IInv, InOrder
        <3> QED
            BY <3>1, <3>2
    <2> QED
        BY <1>1, <2>1, <2>2 DEF IInv, InOrder
<1>6. Queued'
    BY DEF IInv, Queued, Serves
<1> QED
    BY <1>2, <1>3, <1>4, <1>5, <1>6 DEF IInv

LEMMA HangUpKeepsInv == ASSUME IInv, HangUp PROVE IInv'
<1>1. CASE spc = "stop" /\ Stop
    BY <1>1, StopKeepsInv DEF HangUp
<1>2. CASE spc = "close"
    <2>1. /\ spc' = "accept" /\ hungup' = hungup \cup {cur}
          /\ UNCHANGED <<cur, io_buff, backlog, cpc, typed, cmd_buff, shown, up, down>>
        BY <1>2 DEF HangUp, NextClient, client
    <2>2. Serves /\ ~Serves'
        BY <1>2, <2>1 DEF Serves
    <2>3. TypeOK' /\ Stores'
        BY <2>1, <2>2 DEF IInv, TypeOK, Stores, Serves
    <2>4. Numbered' /\ InOrder'
        BY <2>1, <2>2 DEF IInv, Numbered, InOrder, AtWork
    <2>5. Queued'
        BY <1>2, <2>1, <2>2 DEF IInv, Queued
    <2> QED
        BY <2>3, <2>4, <2>5 DEF IInv
<1> QED
    BY <1>1, <1>2 DEF HangUp

LEMMA ServerStepKeepsInv == ASSUME IInv, ServerStep \/ ServerFault PROVE IInv'
<1>1. CASE RecvLine
    <2>1. PICK k \in Arrivals(up[cur]) :
              /\ up' = [up EXCEPT ![cur] = Taken(@, k)]
              /\ io_buff' = Head(up[cur])
              /\ spc' \in {"job", "status"}
        BY <1>1 DEF RecvLine
    <2>2. Serves /\ UNCHANGED <<cur, hungup, backlog, client, down>>
        BY <1>1 DEF RecvLine, Serves
    <2> QED
        BY <2>1, <2>2, TakingKeepsInv
<1>2. CASE JobRead
    <2>1. PICK k \in Arrivals(up[cur]) : up' = [up EXCEPT ![cur] = Taken(@, k)]
        BY <1>2 DEF JobRead
    <2>2. Serves /\ UNCHANGED <<cur, hungup, backlog, client, down, io_buff, spc>>
        BY <1>2 DEF JobRead, Serves, server
    <2> QED
        BY <2>1, <2>2, TakingKeepsInv
<1>3. CASE RecvEnd
    BY <1>3, StopKeepsInv DEF RecvEnd, LostClient, net
<1>4. CASE JobWrite
    BY <1>4, WriteKeepsInv DEF JobWrite, AtWork
<1>5. CASE JobEnd
    BY <1>5, MoveKeepsInv DEF JobEnd, AtWork, net
<1>6. CASE SendStatus
    BY <1>6, WriteKeepsInv DEF SendStatus, AtWork
<1>7. CASE SendEof
    <2>1. AfterAnswer(io_buff.words) \in {"recv", "extra", "close", "stop"}
        BY DEF AfterAnswer
    <2> QED
        BY <1>7, <2>1, WriteKeepsInv DEF SendEof, AtWork
<1>8. CASE SendExtraEof
    BY <1>8, WriteKeepsInv DEF SendExtraEof, AtWork, NextTurn
<1>9. CASE ServerFault
    BY <1>9, StopKeepsInv DEF ServerFault, net
<1> QED
    BY <1>1, <1>2, <1>3, <1>4, <1>5, <1>6, <1>7, <1>8, <1>9, AcceptKeepsInv, HangUpKeepsInv
    DEF ServerStep

\* Every step of a client or of the server keeps the invariant.
LEMMA InvStep == ASSUME IInv, [Next]_vars PROVE IInv'
    BY InvStutter, ClientStepKeepsInv, ServerStepKeepsInv DEF Next

LEMMA InvHolds == Spec => []IInv
<1>1. Init => IInv
    BY InvInit
<1>2. IInv /\ [Next]_vars => IInv'
    BY InvStep
<1> QED
    BY <1>1, <1>2, PTL DEF Spec

----------------------------------------------------------------------------
\* In every reachable state, for any clients and any lines: the server at work
\* has an open connection that it serves, and what a client shows belongs to
\* lines it has sent.
THEOREM TypeCorrect == Spec => []TypeOK
<1>1. IInv => TypeOK
    BY DEF IInv
<1> QED
    BY <1>1, InvHolds, PTL

\* exec_client_requests starts jobs for the lines of a connection in the order in
\* which they were typed and never twice, however recv splits and merges them and
\* whatever jobs take from the stream.
THEOREM OrderKept == Spec => LinesRunOnceInOrder
<1> DEFINE Ordered ==
        spc # "job" /\ spc' = "job" =>
            /\ io_buff.n < io_buff'.n
            /\ \A i \in DOMAIN up'[cur] :
                  up'[cur][i].words # NUL => io_buff'.n < up'[cur][i].n
<1>1. IInv /\ [Next]_vars => [Ordered]_vars
    <2> SUFFICES ASSUME IInv, [Next]_vars, spc # "job", spc' = "job"
                 PROVE  Ordered
        OBVIOUS
    <2>1. RecvLine
        BY DEF Next, vars, server, client, net, Connect, TypeLine, Leave, RecvStep, RecvAnswer,
               RecvClosed, ServerStep, ServerFault, Accept, RecvEnd, LostClient, JobWrite, JobRead,
               JobEnd, SendStatus, SendEof, SendExtraEof, HangUp, Stop, Write, NextTurn,
               NextClient, AfterAnswer
    <2>2. PICK k \in Arrivals(up[cur]) :
              /\ up' = [up EXCEPT ![cur] = Taken(@, k)]
              /\ io_buff' = Head(up[cur])
              /\ spc' = IF Parses(Head(up[cur]).words) THEN "job" ELSE "status"
        BY <2>1 DEF RecvLine
    <2>3. Serves
        BY <2>1 DEF RecvLine, Serves
    <2>4. /\ cur \in Clients /\ 1 \in DOMAIN up[cur] /\ io_buff' = up[cur][1]
          /\ \A i \in DOMAIN up'[cur] :
                i + k \in DOMAIN up[cur] /\ i + k > 1 /\ up'[cur][i] = up[cur][i + k]
        BY <2>2, <2>3, TakenPieces
    <2>5. up[cur][1].words # NUL
        BY <2>2, <2>4 DEF Parses, NUL
    <2> QED
        BY <2>3, <2>4, <2>5 DEF IInv, InOrder, Before
<1> QED
    BY <1>1, InvHolds, PTL DEF Spec, LinesRunOnceInOrder

----------------------------------------------------------------------------
(* The refinement of RemoteService *)

\* The values the refinement mapping gives to the variables of the service that
\* are not variables here.
Serving == IF Serves THEN cur ELSE NoClient
LineAt == IF Serves THEN io_buff.n ELSE 0
Work == CASE spc \in {"job", "wrote"} -> "run" [] spc \in {"status", "eof"} -> "reply"
          [] OTHER -> "none"

LEMMA ServiceStep ==
    /\ Service!Next <=>
          \/ \E c \in Clients :
                /\ c \notin hungup /\ c # Serving /\ \A n \in DOMAIN backlog : backlog[n] # c
                /\ backlog' = Append(backlog, c)
                /\ UNCHANGED <<Serving, LineAt, Work, hungup>>
          \/ /\ Serving = NoClient /\ backlog # <<>>
             /\ Serving' = Head(backlog) /\ backlog' = Tail(backlog)
             /\ UNCHANGED <<LineAt, Work, hungup>>
          \/ /\ Serving # NoClient /\ Work = "none"
             /\ \/ Work' = "run" /\ LineAt' > LineAt
                \/ Work' = "reply" /\ LineAt' >= LineAt
             /\ UNCHANGED <<backlog, Serving, hungup>>
          \/ Work = "run" /\ Work' = "reply" /\ UNCHANGED <<backlog, Serving, LineAt, hungup>>
          \/ Work = "reply" /\ Work' = "none" /\ UNCHANGED <<backlog, Serving, LineAt, hungup>>
          \/ /\ Serving # NoClient /\ hungup' = hungup \cup {Serving}
             /\ Serving' = NoClient /\ LineAt' = 0 /\ Work' = "none"
             /\ UNCHANGED backlog
          \/ /\ hungup' = Clients
             /\ Serving' = NoClient /\ LineAt' = 0 /\ Work' = "none"
             /\ UNCHANGED backlog
    /\ UNCHANGED Service!service <=> UNCHANGED <<backlog, Serving, LineAt, Work, hungup>>
    BY DEF Service!Next, Service!Arrive, Service!Serve, Service!TakeUp, Service!Reply,
           Service!Done, Service!HangUp, Service!Stop, Service!Free, Service!service,
           Serving, LineAt, Work

LEMMA StopIsService ==
    ASSUME Stop, UNCHANGED backlog
    PROVE  Service!Next
<1>1. Serving' = NoClient /\ LineAt' = 0 /\ Work' = "none" /\ hungup' = Clients
    BY DEF Stop, Serving, LineAt, Work, Serves
<1> QED
    BY <1>1, ServiceStep

\* What the server does with spc alone.
LEMMA MoveIsService ==
    ASSUME Serves, Serves', UNCHANGED <<cur, io_buff, hungup, backlog>>,
           \/ Work' = Work
           \/ Work = "run" /\ Work' = "reply"
           \/ Work = "reply" /\ Work' = "none"
    PROVE  [Service!Next]_Service!service
<1>1. UNCHANGED <<Serving, LineAt>>
    BY DEF Serving, LineAt
<1> QED
    BY <1>1, ServiceStep

LEMMA WriteIsService ==
    ASSUME IInv, Serves, NEW kind, NEW l, Write(kind, l), UNCHANGED <<cur, io_buff, backlog>>,
           l \in {"wrote", "eof", "recv", "extra", "close", "stop"},
           spc' = l =>
               \/ Work' = Work
               \/ Work = "reply" /\ Work' = "none"
    PROVE  [Service!Next]_Service!service
<1>1. CASE Stop
    BY <1>1, StopIsService
<1>2. CASE spc' = l /\ UNCHANGED hungup
    BY <1>2, MoveIsService DEF Serves
<1> QED
    BY <1>1, <1>2 DEF Write

LEMMA ClientIsService ==
    ASSUME IInv, NEW c \in Clients,
           Connect(c) \/ TypeLine(c) \/ Leave(c) \/ RecvStep(c)
    PROVE  [Service!Next]_Service!service
<1>1. UNCHANGED <<spc, cur, io_buff, hungup>>
    BY DEF Connect, TypeLine, Leave, RecvStep, RecvAnswer, RecvClosed, server
<1>2. UNCHANGED <<Serving, LineAt, Work>>
    BY <1>1 DEF Serving, LineAt, Work, Serves
<1>3. CASE UNCHANGED backlog
    BY <1>1, <1>2, <1>3, ServiceStep
<1>4. CASE Connect(c) /\ spc # "stopped" /\ backlog' = Append(backlog, c)
    <2>1. cpc[c] = "off"
        BY <1>4 DEF Connect
    <2>2. /\ c \notin hungup /\ \A n \in DOMAIN backlog : backlog[n] # c
          /\ Serves => c # cur
        BY <1>4, <2>1 DEF IInv, Queued
    <2>3. c # Serving
        BY <2>2, RemoteAssumption DEF Serving
    <2> QED
        BY <1>1, <1>2, <1>4, <2>2, <2>3, ServiceStep
<1> QED
    BY <1>3, <1>4 DEF Connect, TypeLine, Leave, RecvStep, RecvAnswer, RecvClosed, server

LEMMA RecvLineIsService == ASSUME IInv, RecvLine PROVE Service!Next
<1>1. PICK k \in Arrivals(up[cur]) :
          /\ up' = [up EXCEPT ![cur] = Taken(@, k)]
          /\ io_buff' = Head(up[cur])
          /\ spc' = IF Parses(Head(up[cur]).words) THEN "job" ELSE "status"
    BY DEF RecvLine
<1>2. Serves /\ Serves' /\ UNCHANGED <<cur, hungup, backlog>> /\ spc = "recv"
    BY DEF RecvLine, Serves
<1>3. cur \in Clients /\ 1 \in DOMAIN up[cur] /\ io_buff' = up[cur][1] /\ io_buff' \in Pieces
    BY <1>1, <1>2, TakenPieces
<1>4. Before(io_buff, io_buff')
    BY <1>2, <1>3 DEF IInv, InOrder
<1>5. LineAt = io_buff.n /\ LineAt' = io_buff'.n /\ LineAt \in Nat /\ LineAt' \in Nat
    BY <1>2, <1>3 DEF LineAt, IInv, Stores, Pieces
<1>6. Serving # NoClient /\ UNCHANGED Serving /\ Work = "none"
    BY <1>2, <1>3, RemoteAssumption DEF Serving, Work
<1>7. CASE Parses(Head(up[cur]).words)
    <2>1. Work' = "run" /\ io_buff'.words # NUL
        BY <1>1, <1>7 DEF Work, Parses, NUL
    <2>2. LineAt' > LineAt
        BY <1>4, <1>5, <2>1 DEF Before
    <2> QED
        BY <1>2, <1>6, <2>1, <2>2, ServiceStep
<1>8. CASE ~Parses(Head(up[cur]).words)
    <2>1. Work' = "reply"
        BY <1>1, <1>8 DEF Work
    <2>2. LineAt' >= LineAt
        BY <1>4, <1>5 DEF Before
    <2> QED
        BY <1>2, <1>6, <2>1, <2>2, ServiceStep
<1> QED
    BY <1>7, <1>8

LEMMA ServerIsService ==
    ASSUME IInv, ServerStep \/ ServerFault
    PROVE  [Service!Next]_Service!service
<1>1. CASE Accept
    <2>1. /\ spc = "accept" /\ spc' = "recv" /\ backlog # <<>> /\ UNCHANGED hungup
          /\ cur' = Head(backlog) /\ backlog' = Tail(backlog) /\ io_buff'.n = 0
        BY <1>1 DEF Accept, FirstCome
    <2>2. /\ Serving = NoClient /\ LineAt = 0 /\ Work = "none"
          /\ Serving' = Head(backlog) /\ LineAt' = 0 /\ Work' = "none"
        BY <2>1 DEF Serving, LineAt, Work, Serves
    <2> QED
        BY <2>1, <2>2, ServiceStep
<1>2. CASE JobRead
    BY <1>2, MoveIsService DEF JobRead, server, Serves, Work
<1>3. CASE RecvEnd
    BY <1>3, StopIsService DEF RecvEnd, LostClient
<1>4. CASE JobWrite
    BY <1>4, WriteIsService DEF JobWrite, Serves, Work
<1>5. CASE JobEnd
    BY <1>5, MoveIsService DEF JobEnd, Serves, Work
<1>6. CASE SendStatus
    BY <1>6, WriteIsService DEF SendStatus, Serves, Work
<1>7. CASE SendEof
    <2>1. AfterAnswer(io_buff.words) \in {"recv", "extra", "close", "stop"}
        BY DEF AfterAnswer
    <2> QED
        BY <1>7, <2>1, WriteIsService DEF SendEof, Serves, Work
<1>8. CASE SendExtraEof
    BY <1>8, WriteIsService DEF SendExtraEof, NextTurn, Serves, Work
<1>9. CASE HangUp /\ Stop
    BY <1>9, StopIsService DEF HangUp
<1>10. CASE HangUp /\ spc = "close"
    <2>1. /\ spc' = "accept" /\ hungup' = hungup \cup {cur} /\ UNCHANGED backlog
          /\ cur \in Clients
        BY <1>10 DEF HangUp, NextClient, IInv, TypeOK
    <2>2. /\ Serving = cur /\ Serving # NoClient
          /\ Serving' = NoClient /\ LineAt' = 0 /\ Work' = "none"
        BY <1>10, <2>1, RemoteAssumption DEF Serving, LineAt, Work, Serves
    <2> QED
        BY <2>1, <2>2, ServiceStep
<1>11. CASE ServerFault
    BY <1>11, StopIsService DEF ServerFault
<1> QED
    BY <1>1, <1>2, <1>3, <1>4, <1>5, <1>6, <1>7, <1>8, <1>9, <1>10, <1>11, RecvLineIsService
    DEF ServerStep, HangUp

\* Whatever TCP makes of the lines, and whoever leaves or fails when, the server
\* keeps what RemoteService promises: users in the order of their connections,
\* each until it is hung up on for good, no line of theirs run twice or after a
\* later one.
THEOREM ShellImplementsService == Spec => ImplementsService
<1>1. Init => Service!Init
    BY DEF Init, Service!Init, Serves
<1>2. IInv /\ [Next]_vars => [Service!Next]_Service!service
    <2> SUFFICES ASSUME IInv, [Next]_vars
                 PROVE  [Service!Next]_Service!service
        OBVIOUS
    <2>1. CASE UNCHANGED vars
        <3>1. UNCHANGED <<backlog, Serving, LineAt, Work, hungup>>
            BY <2>1 DEF vars, server, Serving, LineAt, Work, Serves
        <3> QED
            BY <3>1, ServiceStep
    <2> QED
        BY <2>1, ClientIsService, ServerIsService DEF Next
<1> QED
    BY <1>1, <1>2, InvHolds, PTL DEF Spec, ImplementsService, Service!Spec
=============================================================================
