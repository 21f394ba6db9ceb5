---------------------------- MODULE ParserProofs ----------------------------
(***************************************************************************)
(* The parsers of CmdBuff keep to their buffers and their words apart and  *)
(* find the words and files of a line as they were typed, and the parser   *)
(* of CmdList keeps to its arrays and shows a line as it was typed, for    *)
(* lines of any length and any limits.                                     *)
(***************************************************************************)
EXTENDS CmdBuff, CmdList, NaturalFacts, SequenceTheorems, TLAPS

----------------------------------------------------------------------------
(* Scanning *)

\* If one of S is at or behind i, First finds the first.
LEMMA FirstFound ==
    ASSUME NEW b, Len(b) \in Nat, NEW i \in Nat, NEW S, NEW e \in i..Len(b), b[e] \in S
    PROVE  /\ First(b, i, S) \in i..Len(b) /\ First(b, i, S) <= e
           /\ b[First(b, i, S)] \in S
<1> DEFINE P(j) == b[j] \in S /\ \A k \in i..(j - 1) : b[k] \notin S
           T == {j \in i..Len(b) : b[j] \in S}
<1>1. T \in SUBSET Nat /\ e \in T
    OBVIOUS
<1>2. PICK m \in T : \A n \in T : m <= n
    BY <1>1, LeastNat
<1>3. m \in i..Len(b) /\ P(m)
    <2>1. ASSUME NEW k \in i..(m - 1) PROVE b[k] \notin S
        <3>1. k \in i..Len(b) /\ ~(m <= k)
            OBVIOUS
        <3> QED
            BY <1>2, <3>1
    <2> QED
        BY <2>1
<1>4. First(b, i, S) = CHOOSE j \in i..Len(b) : P(j)
    BY DEF First
<1> DEFINE f == CHOOSE j \in i..Len(b) : P(j)
<1> HIDE DEF P
<1>5. f \in i..Len(b) /\ P(f)
    BY <1>3
<1>6. f <= e
    <2> SUFFICES ASSUME e < f PROVE FALSE
        BY <1>5
    <2>1. e \in i..(f - 1)
        BY <1>5
    <2> QED
        BY <1>5, <2>1 DEF P
<1> QED
    BY <1>4, <1>5, <1>6 DEF P

\* If something else than S is at or behind i, Skip finds the first.
LEMMA SkipFound ==
    ASSUME NEW b, Len(b) \in Nat, NEW i \in Nat, NEW S, NEW e \in i..Len(b), b[e] \notin S
    PROVE  /\ Skip(b, i, S) \in i..Len(b) /\ b[Skip(b, i, S)] \notin S
           /\ \A k \in i..(Skip(b, i, S) - 1) : b[k] \in S
<1> DEFINE P(j) == b[j] \notin S /\ \A k \in i..(j - 1) : b[k] \in S
           T == {j \in i..Len(b) : b[j] \notin S}
<1>1. T \in SUBSET Nat /\ e \in T
    OBVIOUS
<1>2. PICK m \in T : \A n \in T : m <= n
    BY <1>1, LeastNat
<1>3. m \in i..Len(b) /\ P(m)
    <2>1. ASSUME NEW k \in i..(m - 1) PROVE b[k] \in S
        <3>1. k \in i..Len(b) /\ ~(m <= k)
            OBVIOUS
        <3> QED
            BY <1>2, <3>1
    <2> QED
        BY <2>1
<1>4. Skip(b, i, S) = CHOOSE j \in i..Len(b) : P(j)
    BY DEF Skip
<1> DEFINE f == CHOOSE j \in i..Len(b) : P(j)
<1> HIDE DEF P
<1>5. f \in i..Len(b) /\ P(f)
    BY <1>3
<1> QED
    BY <1>4, <1>5 DEF P

\* A buffer of a line: it ends with a NUL.
LineText == {b \in Seq(Chars \cup {NUL}) : Len(b) > 0 /\ b[Len(b)] = NUL}

LEMMA CutText ==
    ASSUME NEW b \in LineText, NEW at
    PROVE  /\ Cut(b, at) \in LineText /\ Len(Cut(b, at)) = Len(b)
           /\ \A n \in 1..Len(b) : Cut(b, at)[n] = IF n \in at THEN NUL ELSE b[n]
<1> DEFINE c == Cut(b, at)
<1>1. b \in Seq(Chars \cup {NUL}) /\ Len(b) \in Nat /\ Len(b) > 0 /\ b[Len(b)] = NUL /\ DOMAIN b = 1..Len(b)
    BY DEF LineText
<1>2. c = [n \in 1..Len(b) |-> IF n \in at THEN NUL ELSE b[n]]
    BY <1>1 DEF Cut
<1>3. c \in Seq(Chars \cup {NUL}) /\ Len(c) = Len(b)
    BY <1>1, <1>2
<1> HIDE DEF c
<1>4. \A n \in 1..Len(b) : c[n] = IF n \in at THEN NUL ELSE b[n]
    BY <1>2
<1>5. c[Len(c)] = NUL
    BY <1>1, <1>3, <1>4
<1> QED
    BY <1>1, <1>3, <1>4, <1>5 DEF LineText, c

\* What a scan must do with the word at p: it starts there or behind the quote,
\* something at or behind its start becomes NUL, and the next scan starts there
\* or later, in the buffer.
Scanned(b, p, w) ==
    /\ w.start \in p..Len(b)
    /\ w.next \in 1..Len(b)
    /\ \E z \in w.start..w.next : z \in w.cut

LEMMA Scan2Word ==
    ASSUME NEW b \in LineText, NEW p \in 1..Len(b), b[p] # NUL
    PROVE  Scanned(b, p, Scan2(b, p))
<1> DEFINE s == IF Opens(b, p) THEN p + 1 ELSE p
           S == IF Opens(b, p) THEN {Quote, NUL} ELSE IsSpace \cup {NUL}
           e == First(b, s, S)
           next == IF b[e] = NUL THEN e ELSE e + 1
<1>1. Len(b) \in Nat /\ b[Len(b)] = NUL /\ p # Len(b)
    BY DEF LineText
<1>2. s \in p..Len(b) /\ s \in Nat /\ Len(b) \in s..Len(b) /\ NUL \in S
    BY <1>1
<1>3. e \in s..Len(b)
    <2> HIDE DEF s, S
    <2> QED
        BY <1>1, <1>2, FirstFound
<1> HIDE DEF e
<1>4. next \in 1..Len(b) /\ e \in s..next
    <2>1. e = Len(b) => b[e] = NUL
        BY <1>1
    <2> HIDE DEF s
    <2> QED
        BY <1>1, <1>2, <1>3, <2>1
<1>5. Scan2(b, p) = [start |-> s, cut |-> {e}, next |-> next]
    BY DEF Scan2, e
<1> HIDE DEF s, next
<1> QED
    BY <1>2, <1>4, <1>5 DEF Scanned

LEMMA Scan3Word ==
    ASSUME NEW b \in LineText, NEW p \in 1..Len(b), b[p] # NUL
    PROVE  Scanned(b, p, Scan3(b, p))
<1> DEFINE w == Scan2(b, p)
           more == Opens(b, p) /\ b[w.next] # NUL
           v == Scan3(b, p)
<1>1. Len(b) \in Nat /\ b[Len(b)] = NUL
    BY DEF LineText
<1>2. Scanned(b, p, w)
    BY Scan2Word
<1>3. v = [w EXCEPT !.cut = IF more THEN @ \cup {w.next} ELSE @,
                    !.next = IF more THEN @ + 1 ELSE @]
    BY DEF Scan3
<1>4. /\ v.start = w.start /\ v.cut = (IF more THEN w.cut \cup {w.next} ELSE w.cut)
      /\ v.next = IF more THEN w.next + 1 ELSE w.next
    <2>1. \E s, c, n : w = [start |-> s, cut |-> c, next |-> n]
        BY DEF Scan2
    <2> HIDE DEF w, v, more
    <2> QED
        BY <1>3, <2>1
<1>5. more => w.next # Len(b)
    BY <1>1
<1> HIDE DEF w, v, more
<1> QED
    BY <1>1, <1>2, <1>4, <1>5 DEF Scanned, v

LEMMA Scan4Word ==
    ASSUME NEW b \in LineText, NEW p \in 1..Len(b), b[p] # NUL
    PROVE  Scanned(b, p, Scan4(b, p))
<1> DEFINE quotes(n) == {k \in p..(n - 1) : b[k] = Quote}
           end(n) == b[n] = NUL \/ (b[n] = Blank /\ Cardinality(quotes(n)) % 2 = 0)
           T == {n \in p..Len(b) : end(n)}
           e == End4(b, p)
           s == IF Opens(b, p) THEN p + 1 ELSE p
           next == IF b[e] = NUL THEN e ELSE e + 1
<1>1. Len(b) \in Nat /\ b[Len(b)] = NUL /\ p # Len(b)
    BY DEF LineText
<1> HIDE DEF quotes
<1>2. T \in SUBSET Nat /\ Len(b) \in T
    BY <1>1
<1>3. PICK m \in T : \A n \in T : m <= n
    BY <1>2, LeastNat
<1>4. \A k \in p..(m - 1) : ~end(k)
    <2> SUFFICES ASSUME NEW k \in p..(m - 1), end(k) PROVE FALSE
        OBVIOUS
    <2>1. k \in T /\ ~(m <= k)
        BY <1>1
    <2> QED
        BY <1>3, <2>1
<1>5. e = CHOOSE n \in p..Len(b) : end(n) /\ \A k \in p..(n - 1) : ~end(k)
    BY DEF End4, quotes
<1>6. e \in p..Len(b) /\ end(e)
    <2> HIDE DEF end
    <2>1. \E n \in p..Len(b) : end(n) /\ \A k \in p..(n - 1) : ~end(k)
        BY <1>3, <1>4
    <2> HIDE DEF e
    <2> QED
        BY <1>5, <2>1
<1> HIDE DEF e
<1>7. Opens(b, p) => e # p
    BY <1>6 DEF Opens, Quote, NUL, Blank
<1>8. s \in p..Len(b) /\ next \in 1..Len(b) /\ e \in s..next
    BY <1>1, <1>6, <1>7
<1>9. Scan4(b, p) = [start |-> s, cut |-> Cuts4(b, p, e), next |-> next]
    BY DEF Scan4, e
<1>10. e \in Cuts4(b, p, e)
    BY DEF Cuts4
<1> HIDE DEF s, next
<1> QED
    BY <1>8, <1>9, <1>10 DEF Scanned

----------------------------------------------------------------------------
(* The invariant.                                                          *)

\* Between p and q the buffer has a NUL.
EndsIn(b, p, q) == \E z \in p..q : b[z] = NUL

\* Words that were found before q: each ends there, and before the next begins.
Words(b, av, q) ==
    /\ av \in Seq(1..Len(b))
    /\ \A i \in 1..Len(av) : EndsIn(b, av[i], q)
    /\ \A i \in 1..(Len(av) - 1) : EndsIn(b, av[i], av[i + 1] - 1)

\* The parser's places in its buffer.
ParserAt ==
    /\ shell \in {"p2", "p3", "p4"}
    /\ ppc \in {"idle", "list", "word", "redir", "done"}
    /\ line \in Seq(Chars)
    /\ buf \in LineText /\ Len(buf) = Len(line) + 1
    /\ save \in 1..Len(buf) /\ ptr \in 1..Len(buf)

\* A command of which the second loop of 5-shellp3 has placed the tokens before
\* the next of n: it has fewer arguments than that.
WellPlaced(c, L, n) ==
    /\ c \in [next : Nat, argv : Seq(1..L), in : Nat, out : Nat, app : Nat]
    /\ Len(c.argv) < c.next
    /\ c.next <= n + 1

Placed == WellPlaced(cmd, Len(buf), Len(argv))

Command == [next : Nat, argv : Seq(Nat), in : Nat, out : Nat, app : Nat]

\* What may still be stored: a parser that looks for words has room for the
\* NULL behind them, and for the command.
RoomLeft ==
    /\ Len(argv) <= ARGV_MAX
    /\ ppc \in {"word", "redir"} => Len(argv) <= ARGV_MAX - 1 /\ Len(clist) < MAX_CMDS
    /\ clist \in Seq(Command)
    /\ Len(clist) <= MAX_CMDS
    /\ \A i \in 1..Len(clist) : Len(clist[i].argv) <= ARGV_MAX - 1

Fresh == ppc = "idle" => save = 1 /\ ptr = 1 /\ argv = <<>> /\ cmd = NoCmd /\ clist = <<>>

ParserInv == ParserAt /\ Words(buf, argv, ptr) /\ Placed /\ RoomLeft /\ Fresh

\* Cutting more takes no end away.
LEMMA EndsKept ==
    ASSUME NEW b \in LineText, NEW at, NEW p \in 1..Len(b), NEW q \in Nat, q <= Len(b), EndsIn(b, p, q)
    PROVE  EndsIn(Cut(b, at), p, q)
<1>1. PICK z \in p..q : b[z] = NUL
    BY DEF EndsIn
<1>2. Len(b) \in Nat
    BY DEF LineText
<1>3. z \in 1..Len(b)
    BY <1>2
<1>4. Cut(b, at)[z] = NUL
    BY <1>1, <1>3, CutText
<1> QED
    BY <1>4 DEF EndsIn

\* So a scan keeps the words that were found, and the new one comes behind all
\* of them.
LEMMA WordTaken ==
    ASSUME NEW b \in LineText, NEW q \in 1..Len(b), NEW av, Words(b, av, q),
           NEW p \in q..Len(b), b[p] # NUL, NEW w, Scanned(b, p, w)
    PROVE  /\ w.next \in q..Len(b)
           /\ Words(Cut(b, w.cut), av, w.next)
           /\ Words(Cut(b, w.cut), Append(av, w.start), w.next)
<1> DEFINE c == Cut(b, w.cut)
           bv == Append(av, w.start)
<1>1. Len(b) \in Nat /\ c \in LineText /\ Len(c) = Len(b)
    BY CutText DEF LineText
<1>2. PICK z \in w.start..w.next : z \in w.cut
    BY DEF Scanned
<1>3. /\ w.start \in p..Len(b) /\ w.next \in 1..Len(b)
      /\ z \in 1..Len(b) /\ w.start \in 1..Len(b)
    BY <1>1, <1>2 DEF Scanned
<1>4. w.next \in q..Len(b)
    BY <1>1, <1>3
<1>5. EndsIn(c, w.start, w.next)
    <2>1. c[z] = NUL
        BY <1>2, <1>3, CutText
    <2> HIDE DEF c
    <2> QED
        BY <1>2, <2>1 DEF EndsIn
<1>6. av \in Seq(1..Len(b)) /\ Len(av) \in Nat /\ \A i \in 1..Len(av) : av[i] \in 1..Len(b)
    BY DEF Words
<1>7. ASSUME NEW i \in 1..Len(av) PROVE EndsIn(c, av[i], w.next) /\ EndsIn(c, av[i], w.start - 1)
    <2>1. PICK y \in av[i]..q : b[y] = NUL
        BY DEF Words, EndsIn
    <2>2. av[i] \in 1..Len(b) /\ y \in 1..Len(b)
        BY <1>1, <1>6, <2>1
    <2>3. y # p
        BY <2>1
    <2>4. y \in av[i]..w.next /\ y \in av[i]..(w.start - 1)
        BY <1>1, <1>3, <1>4, <2>1, <2>2, <2>3
    <2>5. c[y] = NUL
        BY <2>1, <2>2, CutText
    <2> HIDE DEF c
    <2> QED
        BY <2>4, <2>5 DEF EndsIn
<1>8. ASSUME NEW i \in 1..(Len(av) - 1) PROVE EndsIn(c, av[i], av[i + 1] - 1)
    <2>1. i \in 1..Len(av) /\ i + 1 \in 1..Len(av)
        BY <1>6
    <2>2. av[i] \in 1..Len(b) /\ av[i + 1] - 1 \in Nat /\ av[i + 1] - 1 <= Len(b)
        BY <1>1, <1>6, <2>1, SMTT(30)
    <2>3. EndsIn(b, av[i], av[i + 1] - 1)
        BY DEF Words
    <2> QED
        BY <2>2, <2>3, EndsKept
<1> HIDE DEF c
<1>9. Words(c, av, w.next)
    BY <1>1, <1>6, <1>7, <1>8 DEF Words
<1>10. /\ bv \in Seq(1..Len(b)) /\ Len(bv) = Len(av) + 1 /\ bv[Len(av) + 1] = w.start
       /\ \A i \in 1..Len(av) : bv[i] = av[i]
    BY <1>3, <1>6
<1> HIDE DEF bv
<1>11. ASSUME NEW i \in 1..Len(bv) PROVE EndsIn(c, bv[i], w.next)
    <2>1. i \in 1..Len(av) \/ i = Len(av) + 1
        BY <1>6, <1>10
    <2> QED
        BY <1>5, <1>7, <1>10, <2>1
<1>12. ASSUME NEW i \in 1..(Len(bv) - 1) PROVE EndsIn(c, bv[i], bv[i + 1] - 1)
    <2>1. i \in 1..Len(av) /\ bv[i] = av[i]
        BY <1>6, <1>10
    <2>2. CASE i = Len(av)
        BY <1>7, <1>10, <2>1, <2>2
    <2>3. CASE i # Len(av)
        <3>1. i \in 1..(Len(av) - 1) /\ i + 1 \in 1..Len(av)
            BY <1>6, <2>1, <2>3
        <3>2. bv[i + 1] = av[i + 1]
            BY <1>10, <3>1
        <3> QED
            BY <1>8, <2>1, <3>1, <3>2
    <2> QED
        BY <2>2, <2>3
<1>13. Words(c, bv, w.next)
    BY <1>1, <1>10, <1>11, <1>12 DEF Words
<1> QED
    BY <1>4, <1>9, <1>13 DEF c, bv

\* Nothing is white at the NUL, so a scan for a word stays in the buffer.
LEMMA NextWord ==
    ASSUME NEW b \in LineText, NEW q \in 1..Len(b), NEW S, NUL \notin S
    PROVE  Skip(b, q, S) \in q..Len(b)
<1>1. Len(b) \in Nat /\ b[Len(b)] \notin S /\ Len(b) \in q..Len(b) /\ q \in Nat
    BY DEF LineText
<1> QED
    BY <1>1, SkipFound

----------------------------------------------------------------------------
(* The steps.                                                              *)

LEMMA ParserStarts == ParserInit => ParserInv
<1> SUFFICES ASSUME ParserInit PROVE ParserInv
    OBVIOUS
<1> USE DEF ParserInit
<1>1. buf \in LineText /\ Len(buf) = 1 /\ Len(line) = 0 /\ line \in Seq(Chars)
    BY DEF LineText
<1>2. ParserAt
    BY <1>1 DEF ParserAt
<1>3. Words(buf, argv, ptr)
    BY <1>1 DEF Words
<1>4. Placed
    BY DEF Placed, WellPlaced, NoCmd
<1>5. RoomLeft
    BY LineAssumption DEF RoomLeft, ARGV_MAX
<1>6. Fresh
    BY DEF Fresh
<1> QED
    BY <1>2, <1>3, <1>4, <1>5, <1>6 DEF ParserInv

\* The empty command, and the words there are before the first.
LEMMA NothingYet ==
    ASSUME NEW b \in LineText, NEW q \in 1..Len(b)
    PROVE  /\ Words(b, <<>>, q)
           /\ NoCmd \in [next : Nat, argv : Seq(1..Len(b)), in : Nat, out : Nat, app : Nat]
           /\ NoCmd.argv = <<>> /\ NoCmd.next = 1
    BY DEF Words, NoCmd

LEMMA TypeCommandKeeps == ParserInv /\ TypeCommand => ParserInv'
<1> SUFFICES ASSUME ParserInv, TypeCommand PROVE ParserInv'
    OBVIOUS
<1> USE DEF TypeCommand, ParserInv
<1>1. line' \in Seq(Chars) /\ Len(line') \in Nat
    BY LineAssumption
<1>2. buf' \in LineText /\ Len(buf') = Len(line') + 1
    <2>1. buf' \in Seq(Chars \cup {NUL})
        BY <1>1
    <2>2. Len(buf') = Len(line') + 1 /\ buf'[Len(line') + 1] = NUL
        BY <1>1
    <2>3. Len(buf') > 0 /\ buf'[Len(buf')] = NUL
        BY <1>1, <2>2
    <2> QED
        BY <2>1, <2>2, <2>3 DEF LineText
<1>3. save' = 1 /\ ptr' = 1 /\ argv' = <<>> /\ cmd' = NoCmd /\ clist' = <<>>
    BY DEF Fresh
<1>4. ppc' \in {"word", "list"}
    OBVIOUS
<1>5. ParserAt'
    BY <1>1, <1>2, <1>3, <1>4 DEF ParserAt
<1>6. 1 \in 1..Len(buf')
    BY <1>1, <1>2
<1>7. Words(buf', argv', ptr')
    BY <1>2, <1>3, <1>6, NothingYet
<1>8. Placed'
    BY <1>2, <1>3, <1>6, NothingYet DEF Placed, WellPlaced
<1>9. RoomLeft'
    BY <1>3, LineAssumption DEF RoomLeft, ARGV_MAX
<1>10. Fresh'
    BY <1>4 DEF Fresh
<1> QED
    BY <1>5, <1>7, <1>8, <1>9, <1>10

LEMMA NextCommandKeeps == ParserInv /\ NextCommand => ParserInv'
<1> SUFFICES ASSUME ParserInv, NextCommand PROVE ParserInv'
    OBVIOUS
<1> USE DEF ParserInv
<1> DEFINE s == Skip(buf, save, {Bar})
           e == First(buf, s, {Bar, NUL})
<1>1. /\ buf \in LineText /\ Len(buf) \in Nat /\ buf[Len(buf)] = NUL /\ save \in 1..Len(buf)
      /\ ptr \in 1..Len(buf)
    BY DEF ParserAt, LineText
<1>2. s \in 1..Len(buf)
    <2>1. s \in save..Len(buf)
        BY <1>1, NextWord DEF NUL, Bar
    <2> HIDE DEF s
    <2> QED
        BY <1>1, <2>1
<1>3. e \in s..Len(buf)
    <2> HIDE DEF s
    <2> QED
        BY <1>1, <1>2, FirstFound
<1>4. /\ \/ UNCHANGED <<buf, save, ptr>> /\ Return("OK")
         \/ /\ buf' = Cut(buf, {e})
            /\ save' = (IF buf[e] = NUL THEN e ELSE e + 1)
            /\ ptr' = s
            /\ IF ListFull THEN Return("ERR_TOO_MANY_COMMANDS") ELSE ppc' = "word"
      /\ argv' = <<>> /\ cmd' = NoCmd /\ UNCHANGED <<shell, line, clist>>
    BY DEF NextCommand
<1> HIDE DEF s, e
<1>5. /\ buf' \in LineText /\ Len(buf') = Len(buf)
      /\ save' \in 1..Len(buf) /\ ptr' \in 1..Len(buf)
    <2>1. CASE UNCHANGED <<buf, save, ptr>>
        BY <1>1, <2>1
    <2>2. CASE buf' = Cut(buf, {e}) /\ save' = (IF buf[e] = NUL THEN e ELSE e + 1) /\ ptr' = s
        <3>1. buf' \in LineText /\ Len(buf') = Len(buf)
            BY <1>1, <2>2, CutText
        <3>2. save' \in 1..Len(buf)
            BY <1>1, <1>2, <1>3, <2>2
        <3> QED
            BY <1>2, <2>2, <3>1, <3>2
    <2> QED
        BY <1>4, <2>1, <2>2
<1>6. ppc' = "done" \/ (ppc' = "word" /\ ~ListFull)
    BY <1>4 DEF Return
<1>7. ParserAt'
    BY <1>4, <1>5, <1>6 DEF ParserAt
<1>8. Words(buf', argv', ptr')
    BY <1>4, <1>5, NothingYet
<1>9. Placed'
    <2>1. cmd' = NoCmd /\ argv' = <<>>
        BY <1>4
    <2> QED
        BY <1>5, <2>1, NothingYet DEF Placed, WellPlaced
<1>10. RoomLeft'
    <2>1. clist' = clist /\ argv' = <<>> /\ (ppc' \in {"word", "redir"} => Len(clist) < MAX_CMDS)
        <3>1. Len(clist) \in Nat
            BY DEF RoomLeft
        <3> QED
            BY <1>4, <1>6, <3>1, LineAssumption DEF ListFull
    <2> QED
        BY <2>1, LineAssumption DEF RoomLeft, ARGV_MAX
<1>11. Fresh'
    BY <1>6 DEF Fresh
<1> QED
    BY <1>7, <1>8, <1>9, <1>10, <1>11

\* What the three loops over words have in common.
LEMMA WordKeeps ==
    ASSUME ParserInv, ppc = "word", NEW S, NUL \notin S, NEW w,
           buf[Skip(buf, ptr, S)] # NUL, Scanned(buf, Skip(buf, ptr, S), w), Take(w),
           argv' = argv \/ argv' = Append(argv, w.start), Len(argv') <= ARGV_MAX,
           ppc' = "done" \/ (ppc' = "word" /\ Len(argv') <= ARGV_MAX - 1)
    PROVE  ParserInv'
<1> USE DEF ParserInv
<1> DEFINE p == Skip(buf, ptr, S)
<1>1. /\ buf \in LineText /\ Len(buf) \in Nat /\ ptr \in 1..Len(buf)
      /\ argv \in Seq(1..Len(buf)) /\ Len(argv) \in Nat
    BY DEF ParserAt, LineText, Words
<1>2. p \in ptr..Len(buf)
    BY <1>1, NextWord
<1>3. /\ buf' = Cut(buf, w.cut) /\ ptr' = w.next
      /\ UNCHANGED <<shell, line, save, cmd, clist>>
    BY DEF Take
<1>4. buf' \in LineText /\ Len(buf') = Len(buf)
    BY <1>1, <1>3, CutText
<1>5. ptr' \in 1..Len(buf) /\ Words(buf', argv', ptr')
    <2>1. Words(buf, argv, ptr) /\ buf[p] # NUL /\ Scanned(buf, p, w)
        OBVIOUS
    <2> HIDE DEF p
    <2>2. /\ w.next \in ptr..Len(buf)
          /\ Words(Cut(buf, w.cut), argv, w.next)
          /\ Words(Cut(buf, w.cut), Append(argv, w.start), w.next)
        BY <1>1, <1>2, <2>1, WordTaken
    <2>3. ptr' \in 1..Len(buf)
        BY <1>1, <1>3, <2>2
    <2>4. Words(buf', argv', ptr')
        BY <1>3, <2>2, Zenon
    <2> QED
        BY <2>3, <2>4
<1>6. ParserAt'
    BY <1>3, <1>4, <1>5 DEF ParserAt
<1>7. Placed'
    <2>1. Len(argv') \in Nat /\ Len(argv) <= Len(argv')
        BY <1>1
    <2>2. cmd' = cmd /\ cmd.next \in Nat
        BY <1>3 DEF Placed, WellPlaced
    <2> QED
        BY <1>1, <1>4, <2>1, <2>2 DEF Placed, WellPlaced
<1>8. RoomLeft'
    BY <1>3 DEF RoomLeft
<1>9. Fresh'
    BY DEF Fresh
<1> QED
    BY <1>5, <1>6, <1>7, <1>8, <1>9

LEMMA Word2Keeps == ParserInv /\ Word2 => ParserInv'
<1> SUFFICES ASSUME ParserInv, Word2 PROVE ParserInv'
    OBVIOUS
<1> DEFINE p == Skip(buf, ptr, IsSpace)
           w == Scan2(buf, p)
<1>1. ppc = "word" /\ buf[p] # NUL /\ argv' = Keep(w.start) /\ Take(w) /\ ppc' = ppc
    BY DEF Word2
<1>2. NUL \notin IsSpace
    BY DEF IsSpace, NUL, Blank, Tab, CR
<1>3. Scanned(buf, p, w)
    <2>1. buf \in LineText /\ ptr \in 1..Len(buf) /\ Len(buf) \in Nat
        BY DEF ParserInv, ParserAt, LineText
    <2>2. p \in ptr..Len(buf)
        BY <1>2, <2>1, NextWord
    <2> HIDE DEF p
    <2>3. p \in 1..Len(buf)
        BY <2>1, <2>2
    <2> QED
        BY <1>1, <2>1, <2>3, Scan2Word
<1> HIDE DEF w
<1>4. /\ argv' = argv \/ argv' = Append(argv, w.start)
      /\ Len(argv') <= ARGV_MAX - 1
    <2>1. ARGV_MAX \in Nat /\ argv \in Seq(1..Len(buf)) /\ Len(argv) <= ARGV_MAX - 1
        BY <1>1, LineAssumption DEF ParserInv, RoomLeft, Words, ARGV_MAX
    <2>2. Len(Append(argv, w.start)) = Len(argv) + 1 /\ Len(argv) \in Nat
        BY <2>1
    <2> QED
        BY <1>1, <2>1, <2>2 DEF Keep
<1>5. Len(argv') <= ARGV_MAX
    <2>1. ARGV_MAX \in Nat /\ Len(argv') \in Nat
        <3>1. argv \in Seq(1..Len(buf))
            BY DEF ParserInv, Words
        <3> QED
            BY <1>4, <3>1, LineAssumption DEF ARGV_MAX
    <2> QED
        BY <1>4, <2>1
<1> QED
    BY <1>1, <1>2, <1>3, <1>4, <1>5, WordKeeps

LEMMA Word3Keeps == ParserInv /\ Word3 => ParserInv'
<1> SUFFICES ASSUME ParserInv, Word3 PROVE ParserInv'
    OBVIOUS
<1> DEFINE p == Skip(buf, ptr, {Blank})
           w == Scan3(buf, p)
<1>1. /\ ppc = "word" /\ buf[p] # NUL /\ argv' = Append(argv, w.start) /\ Take(w)
      /\ IF TokensFull(Len(argv')) THEN Return("ERR_TOO_MANY_COMMANDS") ELSE ppc' = ppc
    BY DEF Word3
<1>2. NUL \notin {Blank}
    BY DEF NUL, Blank
<1>3. Scanned(buf, p, w)
    <2>1. buf \in LineText /\ ptr \in 1..Len(buf) /\ Len(buf) \in Nat
        BY DEF ParserInv, ParserAt, LineText
    <2>2. p \in ptr..Len(buf)
        BY <1>2, <2>1, NextWord
    <2> HIDE DEF p
    <2>3. p \in 1..Len(buf)
        BY <2>1, <2>2
    <2> QED
        BY <1>1, <2>1, <2>3, Scan3Word
<1> HIDE DEF w
<1>4. ARGV_MAX \in Nat /\ Len(argv') \in Nat /\ Len(argv') <= ARGV_MAX
    <2>1. ARGV_MAX \in Nat /\ argv \in Seq(1..Len(buf)) /\ Len(argv) <= ARGV_MAX - 1
        BY <1>1, LineAssumption DEF ParserInv, RoomLeft, Words, ARGV_MAX
    <2>2. Len(Append(argv, w.start)) = Len(argv) + 1 /\ Len(argv) \in Nat
        BY <2>1
    <2> QED
        BY <1>1, <2>1, <2>2
<1>5. ppc' = "done" \/ (ppc' = "word" /\ Len(argv') <= ARGV_MAX - 1)
    BY <1>1, <1>4 DEF TokensFull, Return
<1> QED
    BY <1>1, <1>2, <1>3, <1>4, <1>5, WordKeeps

LEMMA Word4Keeps == ParserInv /\ Word4 => ParserInv'
<1> SUFFICES ASSUME ParserInv, Word4 PROVE ParserInv'
    OBVIOUS
<1> DEFINE p == Skip(buf, ptr, {Blank})
           w == Scan4(buf, p)
<1>1. /\ ppc = "word" /\ buf[p] # NUL /\ argv' = Append(argv, w.start) /\ Take(w)
      /\ IF Len(argv') >= ARGV_MAX - 1 THEN Return("ERR_TOO_MANY_COMMANDS") ELSE ppc' = ppc
    BY DEF Word4
<1>2. NUL \notin {Blank}
    BY DEF NUL, Blank
<1>3. Scanned(buf, p, w)
    <2>1. buf \in LineText /\ ptr \in 1..Len(buf) /\ Len(buf) \in Nat
        BY DEF ParserInv, ParserAt, LineText
    <2>2. p \in ptr..Len(buf)
        BY <1>2, <2>1, NextWord
    <2> HIDE DEF p
    <2>3. p \in 1..Len(buf)
        BY <2>1, <2>2
    <2> QED
        BY <1>1, <2>1, <2>3, Scan4Word
<1> HIDE DEF w
<1>4. ARGV_MAX \in Nat /\ Len(argv') \in Nat /\ Len(argv') <= ARGV_MAX
    <2>1. ARGV_MAX \in Nat /\ argv \in Seq(1..Len(buf)) /\ Len(argv) <= ARGV_MAX - 1
        BY <1>1, LineAssumption DEF ParserInv, RoomLeft, Words, ARGV_MAX
    <2>2. Len(Append(argv, w.start)) = Len(argv) + 1 /\ Len(argv) \in Nat
        BY <2>1
    <2> QED
        BY <1>1, <2>1, <2>2
<1>5. ppc' = "done" \/ (ppc' = "word" /\ Len(argv') <= ARGV_MAX - 1)
    BY <1>1, <1>4 DEF Return
<1> QED
    BY <1>1, <1>2, <1>3, <1>4, <1>5, WordKeeps

\* The steps that leave the buffer and the words alone.
LEMMA SameWords ==
    ASSUME ParserInv, UNCHANGED <<shell, line, buf, save, ptr, argv>>,
           ppc' \in {"list", "redir", "done"}
    PROVE  ParserAt' /\ Words(buf, argv, ptr)' /\ Fresh'
<1>1. ParserAt'
    BY DEF ParserInv, ParserAt
<1>2. Words(buf, argv, ptr)'
    BY DEF ParserInv
<1>3. Fresh'
    BY DEF Fresh
<1> QED
    BY <1>1, <1>2, <1>3

\* The commands, with one more of at most ARGV_MAX - 1 words.
LEMMA OneMore ==
    ASSUME ParserInv, Len(clist) < MAX_CMDS, NEW c \in Command, Len(c.argv) <= ARGV_MAX - 1
    PROVE  LET l == Append(clist, c)
           IN  l \in Seq(Command) /\ Len(l) <= MAX_CMDS
               /\ \A i \in 1..Len(l) : Len(l[i].argv) <= ARGV_MAX - 1
<1> DEFINE l == Append(clist, c)
<1>1. /\ clist \in Seq(Command) /\ Len(clist) \in Nat /\ MAX_CMDS \in Nat
      /\ \A i \in 1..Len(clist) : Len(clist[i].argv) <= ARGV_MAX - 1
    BY LineAssumption DEF ParserInv, RoomLeft, Command
<1>2. /\ l \in Seq(Command) /\ Len(l) = Len(clist) + 1 /\ l[Len(clist) + 1] = c
      /\ \A i \in 1..Len(clist) : l[i] = clist[i]
    BY <1>1
<1> HIDE DEF l
<1>3. ASSUME NEW i \in 1..Len(l) PROVE Len(l[i].argv) <= ARGV_MAX - 1
    <2>1. CASE i \in 1..Len(clist)
        BY <1>1, <1>2, <2>1
    <2>2. CASE i = Len(clist) + 1
        BY <1>2, <2>2
    <2> QED
        BY <1>1, <1>2, <2>1, <2>2
<1> QED
    BY <1>1, <1>2, <1>3 DEF l

\* The command that is made of the words.
LEMMA CommandOf ==
    ASSUME ParserInv
    PROVE  [NoCmd EXCEPT !.argv = argv] \in Command /\ [NoCmd EXCEPT !.argv = argv].argv = argv
<1>1. argv \in Seq(Nat)
    <2>1. argv \in Seq(1..Len(buf)) /\ 1..Len(buf) \subseteq Nat
        BY DEF ParserInv, Words
    <2> QED
        BY <2>1
<1> QED
    BY <1>1 DEF NoCmd, Command

LEMMA EndOfWordsKeeps == ParserInv /\ EndOfWords => ParserInv'
<1> SUFFICES ASSUME ParserInv, EndOfWords PROVE ParserInv'
    OBVIOUS
<1> DEFINE c == [NoCmd EXCEPT !.argv = argv]
<1>1. /\ ppc = "word" /\ UNCHANGED <<shell, line, buf, save, ptr, argv, cmd>>
      /\ \/ clist' = <<c>> /\ ppc' = "done"
         \/ clist' = clist /\ ppc' \in {"redir", "done"}
         \/ clist' = Append(clist, c) /\ ppc' = "list"
    BY DEF EndOfWords, Return
<1>2. c \in Command /\ c.argv = argv
    BY CommandOf
<1> HIDE DEF c
<1>3. /\ Len(argv) <= ARGV_MAX - 1 /\ Len(clist) < MAX_CMDS /\ clist \in Seq(Command)
      /\ Len(argv) \in Nat /\ ARGV_MAX \in Nat /\ MAX_CMDS \in Nat \ {0} /\ Len(clist) \in Nat
      /\ \A i \in 1..Len(clist) : Len(clist[i].argv) <= ARGV_MAX - 1
    BY <1>1, LineAssumption DEF ParserInv, RoomLeft, Words, Command, ARGV_MAX
<1>4. ParserAt' /\ Words(buf, argv, ptr)' /\ Fresh'
    BY <1>1, SameWords
<1>5. Placed'
    BY <1>1 DEF ParserInv, Placed, WellPlaced
<1>6. /\ clist' \in Seq(Command) /\ Len(clist') <= MAX_CMDS
      /\ \A i \in 1..Len(clist') : Len(clist'[i].argv) <= ARGV_MAX - 1
    <2>1. CASE clist' = <<c>>
        <3>1. clist' \in Seq(Command) /\ Len(clist') = 1 /\ clist'[1] = c
            BY <1>2, <2>1
        <3> QED
            BY <1>2, <1>3, <3>1
    <2>2. CASE clist' = clist
        BY <1>3, <2>2
    <2>3. CASE clist' = Append(clist, c)
        BY <1>2, <1>3, <2>3, OneMore
    <2> QED
        BY <1>1, <2>1, <2>2, <2>3
<1>7. Len(argv') <= ARGV_MAX - 1 /\ Len(argv') <= ARGV_MAX
      /\ (ppc' \in {"word", "redir"} => Len(clist') < MAX_CMDS)
    BY <1>1, <1>3
<1>8. RoomLeft'
    BY <1>6, <1>7 DEF RoomLeft, Command
<1> QED
    BY <1>4, <1>5, <1>8 DEF ParserInv

\* One turn of the second loop, at a token that is taken as f says.
TokenAs(c, t, f) ==
    IF f = "argv" THEN [c EXCEPT !.argv = Append(@, t[c.next]), !.next = c.next + 1]
    ELSE IF c.next = Len(t) THEN [c EXCEPT !.next = c.next + 1]
    ELSE [c EXCEPT ![f] = t[c.next + 1], !.next = c.next + 2]

LEMMA TokenPlaced ==
    ASSUME NEW L \in Nat, NEW t \in Seq(1..L), NEW n \in 1..Len(t),
           NEW a \in Seq(1..L), Len(a) < n, NEW x \in Nat, NEW y \in Nat, NEW z \in Nat,
           NEW f \in {"app", "out", "in", "argv"}
    PROVE  WellPlaced(TokenAs([next |-> n, argv |-> a, in |-> x, out |-> y, app |-> z], t, f),
                      L, Len(t))
<1> DEFINE c == [next |-> n, argv |-> a, in |-> x, out |-> y, app |-> z]
           d == TokenAs(c, t, f)
<1>1. Len(t) \in Nat /\ Len(a) \in Nat /\ t[n] \in 1..L /\ n \in Nat
    OBVIOUS
<1>2. c.next = n /\ c.argv = a
    OBVIOUS
<1>3. \/ d = [c EXCEPT !.argv = Append(a, t[n]), !.next = n + 1]
      \/ n = Len(t) /\ d = [c EXCEPT !.next = n + 1]
      \/ n # Len(t) /\ \E g \in {"app", "out", "in"} : d = [c EXCEPT ![g] = t[n + 1], !.next = n + 2]
    <2>1. \/ d = [c EXCEPT !.argv = Append(@, t[c.next]), !.next = c.next + 1]
          \/ c.next = Len(t) /\ d = [c EXCEPT !.next = c.next + 1]
          \/ /\ c.next # Len(t)
             /\ \E g \in {"app", "out", "in"} : d = [c EXCEPT ![g] = t[c.next + 1], !.next = c.next + 2]
        <3> HIDE DEF c
        <3> QED
            BY Zenon DEF TokenAs
    <2>2. [c EXCEPT !.argv = Append(@, t[c.next]), !.next = c.next + 1]
              = [c EXCEPT !.argv = Append(a, t[n]), !.next = n + 1]
        OBVIOUS
    <2> HIDE DEF c, d
    <2> QED
        BY <1>2, <2>1, <2>2, Zenon
<1> SUFFICES WellPlaced(d, L, Len(t))
    OBVIOUS
<1> HIDE DEF d
<1>4. CASE d = [c EXCEPT !.argv = Append(a, t[n]), !.next = n + 1]
    <2>1. d = [next |-> n + 1, argv |-> Append(a, t[n]), in |-> x, out |-> y, app |-> z]
        BY <1>4
    <2>2. Append(a, t[n]) \in Seq(1..L) /\ Len(Append(a, t[n])) = Len(a) + 1
        BY <1>1
    <2> QED
        BY <1>1, <2>1, <2>2 DEF WellPlaced
<1>5. CASE n = Len(t) /\ d = [c EXCEPT !.next = n + 1]
    <2>1. d = [next |-> n + 1, argv |-> a, in |-> x, out |-> y, app |-> z]
        BY <1>5
    <2> QED
        BY <1>1, <2>1 DEF WellPlaced
<1>6. CASE n # Len(t) /\ \E g \in {"app", "out", "in"} : d = [c EXCEPT ![g] = t[n + 1], !.next = n + 2]
    <2>1. n + 1 \in 1..Len(t) /\ n + 2 <= Len(t) + 1
        <3>1. n # Len(t)
            BY <1>6, Zenon
        <3> QED
            BY <1>1, <3>1
    <2>2. t[n + 1] \in 1..L
        BY <2>1
    <2>3. t[n + 1] \in Nat
        BY <2>2
    <2>4. \E u, v, w \in Nat : d = [next |-> n + 2, argv |-> a, in |-> u, out |-> v, app |-> w]
        <3>1. CASE d = [c EXCEPT !.in = t[n + 1], !.next = n + 2]
            <4>1. d = [next |-> n + 2, argv |-> a, in |-> t[n + 1], out |-> y, app |-> z]
                BY <3>1
            <4> QED
                BY <2>3, <4>1
        <3>2. CASE d = [c EXCEPT !.out = t[n + 1], !.next = n + 2]
            <4>1. d = [next |-> n + 2, argv |-> a, in |-> x, out |-> t[n + 1], app |-> z]
                BY <3>2
            <4> QED
                BY <2>3, <4>1
        <3>3. CASE d = [c EXCEPT !.app = t[n + 1], !.next = n + 2]
            <4>1. d = [next |-> n + 2, argv |-> a, in |-> x, out |-> y, app |-> t[n + 1]]
                BY <3>3
            <4> QED
                BY <2>3, <4>1
        <3> HIDE DEF c
        <3> QED
            BY <1>6, <3>1, <3>2, <3>3, Zenon
    <2> QED
        BY <1>1, <2>1, <2>4 DEF WellPlaced
<1> QED
    BY <1>3, <1>4, <1>5, <1>6, Zenon

LEMMA PlaceTokenKeeps == ParserInv /\ PlaceToken => ParserInv'
<1> SUFFICES ASSUME ParserInv, PlaceToken PROVE ParserInv'
    OBVIOUS
<1> DEFINE f == Field(String(argv[cmd.next]))
<1>1. /\ ppc = "redir" /\ cmd.next <= Len(argv)
      /\ UNCHANGED <<shell, line, buf, save, ptr, argv, clist, ppc>>
      /\ cmd' = TokenAs(cmd, argv, f)
    BY DEF PlaceToken, TokenAs, TwoTokens
<1>2. f \in {"app", "out", "in", "argv"}
    BY DEF Field
<1>3. /\ cmd \in [next : Nat, argv : Seq(1..Len(buf)), in : Nat, out : Nat, app : Nat]
      /\ Len(cmd.argv) < cmd.next
    BY DEF ParserInv, Placed, WellPlaced
<1>4. argv \in Seq(1..Len(buf)) /\ Len(argv) \in Nat /\ Len(buf) \in Nat
    BY DEF ParserInv, ParserAt, LineText, Words
<1> HIDE DEF f
<1>5. PICK n \in Nat, a \in Seq(1..Len(buf)), x \in Nat, y \in Nat, z \in Nat :
          cmd = [next |-> n, argv |-> a, in |-> x, out |-> y, app |-> z]
    <2>1. cmd = [next |-> cmd.next, argv |-> cmd.argv, in |-> cmd.in, out |-> cmd.out, app |-> cmd.app]
        BY <1>3
    <2>2. /\ cmd.next \in Nat /\ cmd.argv \in Seq(1..Len(buf))
          /\ cmd.in \in Nat /\ cmd.out \in Nat /\ cmd.app \in Nat
        BY <1>3
    <2> QED
        BY <2>1, <2>2, Zenon
<1>6. cmd.next = n /\ cmd.argv = a
    BY <1>5
<1>7. Len(a) \in Nat /\ Len(a) < n /\ n \in 1..Len(argv)
    <2>1. Len(a) \in Nat
        OBVIOUS
    <2>2. Len(a) < n /\ n <= Len(argv)
        BY <1>1, <1>3, <1>6
    <2> QED
        BY <1>4, <2>1, <2>2
<1>8. WellPlaced(cmd', Len(buf), Len(argv))
    <2>1. cmd' = TokenAs([next |-> n, argv |-> a, in |-> x, out |-> y, app |-> z], argv, f)
        BY <1>1, <1>5
    <2>2. WellPlaced(TokenAs([next |-> n, argv |-> a, in |-> x, out |-> y, app |-> z], argv, f),
                     Len(buf), Len(argv))
        BY <1>2, <1>4, <1>7, TokenPlaced
    <2> QED
        BY <2>1, <2>2
<1>9. Placed'
    BY <1>1, <1>8 DEF Placed
<1>10. RoomLeft'
    BY <1>1 DEF ParserInv, RoomLeft
<1>11. ParserAt' /\ Words(buf, argv, ptr)' /\ Fresh'
    BY <1>1, SameWords
<1> QED
    BY <1>9, <1>10, <1>11 DEF ParserInv

LEMMA EndOfTokensKeeps == ParserInv /\ EndOfTokens => ParserInv'
<1> SUFFICES ASSUME ParserInv, EndOfTokens PROVE ParserInv'
    OBVIOUS
<1>1. /\ ppc = "redir" /\ UNCHANGED <<shell, line, buf, save, ptr, argv, cmd>>
      /\ \/ clist' = clist /\ ppc' = "done"
         \/ clist' = Append(clist, cmd) /\ ppc' = "list"
    BY DEF EndOfTokens, Return
<1>2. /\ Len(argv) <= ARGV_MAX - 1 /\ Len(clist) < MAX_CMDS /\ clist \in Seq(Command)
      /\ Len(argv) \in Nat /\ ARGV_MAX \in Nat /\ MAX_CMDS \in Nat \ {0} /\ Len(clist) \in Nat
      /\ Len(clist) <= MAX_CMDS
      /\ \A i \in 1..Len(clist) : Len(clist[i].argv) <= ARGV_MAX - 1
    BY <1>1, LineAssumption DEF ParserInv, RoomLeft, Words, Command, ARGV_MAX
<1>3. cmd \in Command /\ Len(cmd.argv) <= ARGV_MAX - 1
    <2>1. /\ cmd \in [next : Nat, argv : Seq(1..Len(buf)), in : Nat, out : Nat, app : Nat]
          /\ Len(cmd.argv) < cmd.next /\ cmd.next <= Len(argv) + 1
        BY DEF ParserInv, Placed, WellPlaced
    <2>2. 1..Len(buf) \subseteq Nat /\ cmd.argv \in Seq(1..Len(buf)) /\ cmd.next \in Nat
        BY <2>1
    <2>3. cmd.argv \in Seq(Nat) /\ Len(cmd.argv) \in Nat
        BY <2>2
    <2>4. cmd \in Command
        BY <2>1, <2>3 DEF Command
    <2> QED
        BY <1>2, <2>1, <2>2, <2>3, <2>4
<1>4. ParserAt' /\ Words(buf, argv, ptr)' /\ Fresh'
    BY <1>1, SameWords
<1>5. Placed'
    BY <1>1 DEF ParserInv, Placed, WellPlaced
<1>6. /\ clist' \in Seq(Command) /\ Len(clist') <= MAX_CMDS
      /\ \A i \in 1..Len(clist') : Len(clist'[i].argv) <= ARGV_MAX - 1
    <2>1. CASE clist' = clist
        BY <1>2, <2>1
    <2>2. CASE clist' = Append(clist, cmd)
        BY <1>2, <1>3, <2>2, OneMore
    <2> QED
        BY <1>1, <2>1, <2>2
<1>7. Len(argv') <= ARGV_MAX /\ ppc' \notin {"word", "redir"}
    BY <1>1, <1>2
<1>8. RoomLeft'
    BY <1>6, <1>7 DEF RoomLeft, Command
<1> QED
    BY <1>4, <1>5, <1>8 DEF ParserInv

LEMMA ParserKeeps == ParserInv /\ [ParserNext]_parser => ParserInv'
<1> SUFFICES ASSUME ParserInv, [ParserNext]_parser PROVE ParserInv'
    OBVIOUS
<1>1. CASE TypeCommand
    BY <1>1, TypeCommandKeeps
<1>2. CASE NextCommand
    BY <1>2, NextCommandKeeps
<1>3. CASE Word2
    BY <1>3, Word2Keeps
<1>4. CASE Word3
    BY <1>4, Word3Keeps
<1>5. CASE Word4
    BY <1>5, Word4Keeps
<1>6. CASE EndOfWords
    BY <1>6, EndOfWordsKeeps
<1>7. CASE PlaceToken
    BY <1>7, PlaceTokenKeeps
<1>8. CASE EndOfTokens
    BY <1>8, EndOfTokensKeeps
<1>9. CASE UNCHANGED parser
    BY <1>9 DEF ParserInv, ParserAt, Words, EndsIn, Placed, WellPlaced, RoomLeft, Fresh, parser
<1> QED
    BY <1>1, <1>2, <1>3, <1>4, <1>5, <1>6, <1>7, <1>8, <1>9 DEF ParserNext, ParseStep

THEOREM ParserInvariant == ParserSpec => []ParserInv
    BY ParserStarts, ParserKeeps, PTL DEF ParserSpec

\* Every scan of the three parsers ends inside the buffer of its line and every
\* argv and the list of commands have room for what is stored, whatever is
\* typed and whatever the limit on commands is.
THEOREM ParserTypeCorrect == ParserSpec => []ParserTypeOK
<1>1. ParserInv => ParserTypeOK
    <2> SUFFICES ASSUME ParserInv PROVE ParserTypeOK
        OBVIOUS
    <2>1. /\ Len(buf) = Len(line) + 1 /\ buf[Len(buf)] = NUL /\ DOMAIN buf = 1..Len(buf)
          /\ save \in 1..Len(buf) /\ ptr \in 1..Len(buf)
          /\ ppc \in {"idle", "list", "word", "redir", "done"}
        BY DEF ParserInv, ParserAt, LineText
    <2>2. argv \in Seq(1..Len(buf)) /\ cmd.argv \in Seq(1..Len(buf))
        BY DEF ParserInv, Words, Placed, WellPlaced
    <2>3. /\ Len(argv) <= ARGV_MAX
          /\ ppc \in {"word", "redir"} => Len(argv) <= ARGV_MAX - 1
          /\ Len(clist) <= MAX_CMDS
          /\ DOMAIN clist = 1..Len(clist)
          /\ \A i \in 1..Len(clist) : Len(clist[i].argv) <= ARGV_MAX - 1
        BY DEF ParserInv, RoomLeft
    <2> QED
        BY <2>1, <2>2, <2>3 DEF ParserTypeOK, Pointers
<1> QED
    BY <1>1, ParserInvariant, PTL

\* In all three parsers each word of a command ends before the next one begins,
\* however the line is quoted: what is written over the line later, at the end
\* of a later word or at a quote, never joins two words or moves an end.
THEOREM WordsStayApart == ParserSpec => []WordsApart
<1>1. ParserInv => WordsApart
    <2> SUFFICES ASSUME ParserInv, NEW i \in 1..(Len(argv) - 1)
                 PROVE  argv[i] < argv[i + 1] /\ First(buf, argv[i], {NUL}) < argv[i + 1]
        BY DEF WordsApart
    <2>1. /\ argv \in Seq(1..Len(buf)) /\ Len(argv) \in Nat /\ Len(buf) \in Nat
          /\ EndsIn(buf, argv[i], argv[i + 1] - 1)
        BY DEF ParserInv, ParserAt, LineText, Words
    <2>2. PICK z \in argv[i]..(argv[i + 1] - 1) : buf[z] = NUL
        BY <2>1 DEF EndsIn
    <2>3. argv[i] \in 1..Len(buf) /\ argv[i + 1] \in 1..Len(buf)
        BY <2>1
    <2>4. z \in argv[i]..Len(buf) /\ argv[i] \in Nat /\ buf[z] \in {NUL}
        BY <2>1, <2>2, <2>3
    <2>5. First(buf, argv[i], {NUL}) \in argv[i]..Len(buf) /\ First(buf, argv[i], {NUL}) <= z
        BY <2>1, <2>4, FirstFound
    <2> QED
        BY <2>1, <2>2, <2>3, <2>5, SMTT(30)
<1> QED
    BY <1>1, ParserInvariant, PTL

----------------------------------------------------------------------------
(* What strtok_r and trim return                                           *)

\* InOrder lists a set of positions, each with its number.
LEMMA OrderIs ==
    ASSUME NEW S \in SUBSET Nat, IsFiniteSet(S)
    PROVE  /\ Cardinality(S) \in Nat
           /\ DOMAIN InOrder(S) = 1..Cardinality(S)
           /\ \A n \in 1..Cardinality(S) :
                 InOrder(S)[n] \in S /\ Cardinality(UpTo(S, InOrder(S)[n])) = n
           /\ \A p \in S : /\ Cardinality(UpTo(S, p)) \in 1..Cardinality(S)
                           /\ InOrder(S)[Cardinality(UpTo(S, p))] = p
           /\ \A m, n \in 1..Cardinality(S) : m < n => InOrder(S)[m] < InOrder(S)[n]
<1> DEFINE C(p) == Cardinality(UpTo(S, p))
<1>1. Cardinality(S) \in Nat
    BY FS_CardinalityType
<1>2. InOrder(S) = [n \in 1..Cardinality(S) |-> CHOOSE p \in S : C(p) = n]
    BY DEF InOrder, UpTo
<1>3. \A p \in S : C(p) \in 1..Cardinality(S)
    BY CountRange
<1>4. \A n \in 1..Cardinality(S) : \E p \in S : C(p) = n
    BY CountOnto
<1>5. \A p, q \in S : C(p) = C(q) => p = q
    BY CountOnce
<1>6. \A p, q \in S : p < q => C(p) < C(q)
    BY CountGrows
<1> HIDE DEF C
<1>7. \A n \in 1..Cardinality(S) : InOrder(S)[n] \in S /\ C(InOrder(S)[n]) = n
    BY <1>2, <1>4
<1>8. \A p \in S : InOrder(S)[C(p)] = p
    BY <1>3, <1>5, <1>7
<1>9. ASSUME NEW m \in 1..Cardinality(S), NEW n \in 1..Cardinality(S), m < n
      PROVE  InOrder(S)[m] < InOrder(S)[n]
    <2> DEFINE p == InOrder(S)[m]
               q == InOrder(S)[n]
    <2>1. p \in S /\ q \in S /\ C(p) = m /\ C(q) = n
        BY <1>7
    <2> HIDE DEF p, q
    <2>2. p \in Nat /\ q \in Nat /\ m \in Nat /\ n \in Nat
        BY <1>1, <2>1
    <2>3. ~(q < p) /\ p # q
        BY <1>6, <1>9, <2>1, <2>2
    <2> QED
        BY <2>2, <2>3 DEF p, q
<1> QED
    BY <1>1, <1>2, <1>3, <1>7, <1>8, <1>9 DEF C

\* Positions of a sequence are finitely many.
LEMMA PositionsFinite ==
    ASSUME NEW T, NEW s \in Seq(T), NEW at \in SUBSET (DOMAIN s)
    PROVE  /\ at \in SUBSET Nat /\ IsFiniteSet(at)
           /\ Cardinality(at) \in Nat /\ Cardinality(at) <= Len(s)
<1>1. DOMAIN s = 1..Len(s) /\ Len(s) \in Nat
    OBVIOUS
<1>2. IsFiniteSet(1..Len(s)) /\ Cardinality(1..Len(s)) = Len(s)
    <2>1. /\ IsFiniteSet(1..Len(s))
          /\ Cardinality(1..Len(s)) = IF 1 > Len(s) THEN 0 ELSE Len(s) - 1 + 1
        BY <1>1, FS_Interval
    <2> QED
        BY <1>1, <2>1
<1>3. IsFiniteSet(at) /\ Cardinality(at) <= Len(s)
    BY <1>1, <1>2, FS_Subset
<1> QED
    BY <1>1, <1>3, FS_CardinalityType

\* How many words there are, where the n-th begins, and the position behind it.
Count(s, d) == Cardinality(Starts(s, d))
Begin(s, d, n) == InOrder(Starts(s, d))[n]
Behind(s, d, n) == First(Append(s, d), Begin(s, d, n), {d})

\* The words stand one behind the other in s, with a separator between them.
LEMMA TokensAre ==
    ASSUME NEW T, NEW s \in Seq(T), NEW d
    PROVE  /\ Count(s, d) \in Nat /\ Tokens(s, d) \in Seq(Seq(T)) /\ Len(Tokens(s, d)) = Count(s, d)
           /\ \A n \in 1..Count(s, d) :
                 /\ Begin(s, d, n) \in 1..Len(s)
                 /\ Behind(s, d, n) \in (Begin(s, d, n) + 1)..(Len(s) + 1)
                 /\ Tokens(s, d)[n] = SubSeq(s, Begin(s, d, n), Behind(s, d, n) - 1)
                 /\ Len(Tokens(s, d)[n]) = Behind(s, d, n) - Begin(s, d, n)
           /\ \A n \in 1..Count(s, d) :
                 n + 1 <= Count(s, d) => Behind(s, d, n) < Begin(s, d, n + 1)
<1> DEFINE S == Starts(s, d)
           b == Append(s, d)
<1>1. S \in SUBSET (DOMAIN s) /\ DOMAIN s = 1..Len(s) /\ Len(s) \in Nat
    BY DEF Starts
<1>2. S \in SUBSET Nat /\ IsFiniteSet(S)
    BY <1>1, PositionsFinite
<1>3. /\ Count(s, d) \in Nat /\ DOMAIN InOrder(S) = 1..Count(s, d)
      /\ \A n \in 1..Count(s, d) : Begin(s, d, n) \in S
      /\ \A n \in 1..Count(s, d) : n + 1 <= Count(s, d) => Begin(s, d, n) < Begin(s, d, n + 1)
    <2> HIDE DEF S
    <2>1. /\ Cardinality(S) \in Nat /\ DOMAIN InOrder(S) = 1..Cardinality(S)
          /\ \A n \in 1..Cardinality(S) : InOrder(S)[n] \in S
          /\ \A m, n \in 1..Cardinality(S) : m < n => InOrder(S)[m] < InOrder(S)[n]
        BY <1>2, OrderIs
    <2>2. \A n \in 1..Cardinality(S) : n + 1 <= Cardinality(S) =>
             n + 1 \in 1..Cardinality(S) /\ n < n + 1
        BY <2>1
    <2> QED
        BY <2>1, <2>2 DEF S, Count, Begin
<1>4. Len(b) = Len(s) + 1 /\ b[Len(s) + 1] = d /\ \A k \in 1..Len(s) : b[k] = s[k]
    BY <1>1
<1>5. ASSUME NEW n \in 1..Count(s, d)
      PROVE  /\ Begin(s, d, n) \in 1..Len(s)
             /\ Behind(s, d, n) \in (Begin(s, d, n) + 1)..(Len(s) + 1)
             /\ \A k \in Begin(s, d, n)..Len(s) : s[k] = d => Behind(s, d, n) <= k
    <2> DEFINE q == Begin(s, d, n)
               e == Behind(s, d, n)
    <2>1. q \in 1..Len(s) /\ s[q] # d
        BY <1>1, <1>3 DEF Starts
    <2>2. e = First(b, q, {d})
        BY DEF Behind
    <2> HIDE DEF q, e, b
    <2>3. q \in Nat /\ Len(b) \in Nat /\ Len(s) + 1 \in q..Len(b) /\ b[Len(s) + 1] \in {d}
        BY <1>1, <1>4, <2>1
    <2>4. e \in q..Len(b) /\ b[e] \in {d}
        BY <2>2, <2>3, FirstFound
    <2>5. ASSUME NEW k \in q..Len(s), s[k] = d
          PROVE  e <= k
        <3>1. k \in q..Len(b) /\ b[k] \in {d}
            BY <1>1, <1>4, <2>1, <2>5
        <3> QED
            BY <2>2, <2>3, <3>1, FirstFound
    <2>6. e # q
        BY <1>4, <2>1, <2>4
    <2>7. e \in (q + 1)..(Len(s) + 1)
        BY <1>4, <2>1, <2>4, <2>6
    <2> QED
        BY <2>1, <2>5, <2>7 DEF q, e
<1>6. ASSUME NEW n \in 1..Count(s, d), n + 1 <= Count(s, d)
      PROVE  Behind(s, d, n) < Begin(s, d, n + 1)
    <2> DEFINE q == Begin(s, d, n)
               r == Begin(s, d, n + 1)
    <2>1. n + 1 \in 1..Count(s, d)
        BY <1>3, <1>6
    <2>2. q \in 1..Len(s) /\ r \in 1..Len(s) /\ q < r /\ r \in S
        BY <1>1, <1>3, <1>6, <2>1
    <2>3. r # 1 /\ s[r - 1] = d
        BY <2>2 DEF Starts
    <2>4. r - 1 \in q..Len(s)
        BY <1>1, <2>2
    <2>5. Behind(s, d, n) <= r - 1
        BY <1>5, <2>3, <2>4
    <2> QED
        BY <1>5, <2>2, <2>5
<1>7. Tokens(s, d) = [n \in 1..Count(s, d) |-> SubSeq(s, Begin(s, d, n), Behind(s, d, n) - 1)]
    BY <1>3 DEF Tokens, Begin, Behind
<1>8. ASSUME NEW n \in 1..Count(s, d)
      PROVE  LET w == SubSeq(s, Begin(s, d, n), Behind(s, d, n) - 1)
             IN  w \in Seq(T) /\ Len(w) = Behind(s, d, n) - Begin(s, d, n)
    <2> DEFINE q == Begin(s, d, n)
               e == Behind(s, d, n)
    <2>1. q \in 1..Len(s) /\ e \in (q + 1)..(Len(s) + 1)
        BY <1>5
    <2> HIDE DEF q, e
    <2>2. q \in 1..(Len(s) + 1) /\ e - 1 \in (q - 1)..Len(s)
        BY <1>1, <2>1
    <2>3. SubSeq(s, q, e - 1) \in Seq(T) /\ Len(SubSeq(s, q, e - 1)) = (e - 1) - q + 1
        BY <1>1, <2>1
    <2>4. (e - 1) - q + 1 = e - q
        BY <2>1
    <2> QED
        BY <2>3, <2>4 DEF q, e
<1>9. Tokens(s, d) \in Seq(Seq(T)) /\ Len(Tokens(s, d)) = Count(s, d)
    <2> DEFINE w(n) == SubSeq(s, Begin(s, d, n), Behind(s, d, n) - 1)
    <2>1. Tokens(s, d) = [n \in 1..Count(s, d) |-> w(n)] /\ \A n \in 1..Count(s, d) : w(n) \in Seq(T)
        BY <1>7, <1>8
    <2> HIDE DEF w
    <2> QED
        BY <1>3, <2>1, SMTT(30)
<1> QED
    BY <1>3, <1>5, <1>6, <1>7, <1>8, <1>9

\* Characters of a sequence are a sequence that is no longer.
LEMMA KeptIs ==
    ASSUME NEW T, NEW s \in Seq(T), NEW at \in SUBSET (DOMAIN s)
    PROVE  /\ Kept(s, at) \in Seq(T) /\ Len(Kept(s, at)) = Cardinality(at) /\ Len(Kept(s, at)) <= Len(s)
           /\ \A n \in 1..Cardinality(at) : Kept(s, at)[n] = s[InOrder(at)[n]]
<1>1. at \in SUBSET Nat /\ IsFiniteSet(at) /\ Cardinality(at) \in Nat /\ Cardinality(at) <= Len(s)
    BY PositionsFinite
<1>2. DOMAIN InOrder(at) = 1..Cardinality(at) /\ \A n \in 1..Cardinality(at) : InOrder(at)[n] \in at
    BY <1>1, OrderIs
<1>3. Kept(s, at) = [n \in 1..Cardinality(at) |-> s[InOrder(at)[n]]]
    BY <1>2 DEF Kept
<1>4. \A n \in 1..Cardinality(at) : s[InOrder(at)[n]] \in T
    BY <1>2
<1> QED
    BY <1>1, <1>3, <1>4

LEMMA TrimmedIs ==
    ASSUME NEW T, NEW s \in Seq(T)
    PROVE  Trimmed(s) \in Seq(T) /\ Len(Trimmed(s)) <= Len(s)
<1> DEFINE at == LET solid == {p \in DOMAIN s : s[p] \notin IsSpace}
                 IN  {p \in DOMAIN s : \E l, h \in solid : l <= p /\ p <= h}
<1>1. at \in SUBSET (DOMAIN s)
    OBVIOUS
<1>2. Trimmed(s) = Kept(s, at)
    BY DEF Trimmed
<1> HIDE DEF at
<1> QED
    BY <1>1, <1>2, KeptIs

----------------------------------------------------------------------------
(* CmdList                                                                 *)

Characters == STRING \cup {Newline, Blank, Bar}
Texts == Seq(Characters)

\* The words still to be copied are the last ones of a text t that fits into
\* ARG_MAX bytes, and what was copied is no longer than what stands before them.
Filling ==
    \E t \in Texts : \E n \in 1..Count(t, Blank) :
        /\ Len(t) < ARG_MAX
        /\ Len(words) = Count(t, Blank) - n
        /\ \A k \in 1..Len(words) : words[k] = Tokens(t, Blank)[n + k]
        /\ Len(exe) > 0
        /\ Len(exe) + (IF args = <<>> THEN 0 ELSE Len(args) + 1) < Behind(t, Blank, n)

ListTypes ==
    /\ lpc \in {"prompt", "part", "args", "shown", "exited"}
    /\ unread \in Texts /\ (unread # <<>> => unread[Len(unread)] = Newline)
    /\ input_buffer \in Texts
    /\ parts \in Seq(Texts) /\ \A n \in 1..Len(parts) : Len(parts[n]) < ARG_MAX
    /\ words \in Seq(Texts)
    /\ exe \in Texts /\ Len(exe) < EXE_MAX
    /\ args \in Texts /\ Len(args) < ARG_MAX
    /\ commands \in Seq([exe : Texts, args : Texts]) /\ Len(commands) <= CMD_MAX

ListInv ==
    /\ ListTypes
    /\ lpc # "args" => words = <<>>
    /\ lpc = "args" => Filling /\ Len(commands) < CMD_MAX
    /\ lpc \in {"part", "args"} => status # "ERR_CMD_OR_ARGS_TOO_BIG"

LEMMA WiderText ==
    ASSUME NEW T, NEW U, T \subseteq U, NEW l \in Seq(T)
    PROVE  l \in Seq(U)
OBVIOUS

LEMMA LongerText ==
    ASSUME NEW T, NEW l \in Seq(T), NEW c \in T
    PROVE  /\ Append(l, c) \in Seq(T) /\ Len(Append(l, c)) = Len(l) + 1
           /\ Append(l, c)[Len(l) + 1] = c
OBVIOUS

LEMMA ListSizes ==
    /\ EXE_MAX \in Nat \ {0} /\ ARG_MAX \in Nat \ {0} /\ CMD_MAX \in Nat \ {0}
    /\ \A l \in Inputs : l \in Texts
<1>1. STRING \subseteq Characters
    BY DEF Characters
<1>2. \A l \in Inputs : l \in Seq(STRING)
    BY ListAssumption
<1>3. \A l \in Inputs : l \in Seq(Characters)
    BY <1>1, <1>2, WiderText
<1> QED
    BY <1>3, ListAssumption DEF Texts

LEMMA OneMoreChar ==
    ASSUME NEW l \in Texts, NEW c \in Characters
    PROVE  /\ Append(l, c) \in Texts /\ Len(Append(l, c)) = Len(l) + 1
           /\ Append(l, c)[Len(l) + 1] = c
BY LongerText DEF Texts

LEMMA TwoTexts ==
    ASSUME NEW l \in Texts, NEW m \in Texts
    PROVE  l \o m \in Texts /\ Len(l \o m) = Len(l) + Len(m)
<1>1. \A T : l \in Seq(T) /\ m \in Seq(T) => l \o m \in Seq(T) /\ Len(l \o m) = Len(l) + Len(m)
    OBVIOUS
<1> QED
    BY <1>1 DEF Texts

LEMMA NewlineChar == Newline \in Characters /\ Blank \in Characters /\ Bar \in Characters
BY DEF Characters

LEMMA ListStarts == ListInit => ListInv
BY ListSizes DEF ListInit, ListInv, ListTypes, Texts

LEMMA TypeInputKeeps == ListInv /\ TypeInput => ListInv'
<1> SUFFICES ASSUME ListInv, TypeInput PROVE ListInv'
    OBVIOUS
<1>1. PICK l \in Inputs : unread' = Append(l, Newline)
    BY DEF TypeInput
<1>2. l \in Texts
    BY ListSizes
<1>3. unread' \in Texts /\ unread'[Len(unread')] = Newline
    BY <1>1, <1>2, OneMoreChar, NewlineChar
<1> QED
    BY <1>3 DEF ListInv, ListTypes, Filling, TypeInput

\* fgets takes less than ARG_MAX characters, up to the newline at most.
LEMMA ChunkIs ==
    ASSUME ListInv, unread # <<>>
    PROVE  Chunk(unread) \in 0..Len(unread) /\ Chunk(unread) < ARG_MAX
<1>1. unread \in Texts /\ Len(unread) \in Nat /\ Len(unread) >= 1 /\ unread[Len(unread)] = Newline
    BY DEF ListInv, ListTypes, Texts
<1>2. First(unread, 1, {Newline}) \in 1..Len(unread)
    BY <1>1, FirstFound
<1> DEFINE f == First(unread, 1, {Newline})
<1>3. Chunk(unread) = IF f < ARG_MAX THEN f ELSE ARG_MAX - 1
    BY DEF Chunk
<1> HIDE DEF f
<1> QED
    BY <1>1, <1>2, <1>3, ListSizes DEF f

\* No word is longer than the text it stands in.
LEMMA TokenFits ==
    ASSUME NEW s \in Texts, NEW d, NEW n \in 1..Len(Tokens(s, d))
    PROVE  Tokens(s, d)[n] \in Texts /\ Len(Tokens(s, d)[n]) <= Len(s)
<1>1. /\ Len(Tokens(s, d)) = Count(s, d) /\ Tokens(s, d) \in Seq(Texts)
      /\ Begin(s, d, n) \in 1..Len(s) /\ Behind(s, d, n) \in (Begin(s, d, n) + 1)..(Len(s) + 1)
      /\ Len(Tokens(s, d)[n]) = Behind(s, d, n) - Begin(s, d, n)
    BY TokensAre DEF Texts
<1>2. Len(s) \in Nat
    BY DEF Texts
<1> QED
    BY <1>1, <1>2

LEMMA ReadInputKeeps == ListInv /\ ReadInput => ListInv'
<1> SUFFICES ASSUME ListInv, ReadInput PROVE ListInv'
    OBVIOUS
<1> DEFINE n == Chunk(unread)
           c == SubSeq(unread, 1, n)
           l == Tokens(c, Newline)
           t == Trimmed(input_buffer')
<1>1. /\ unread' = SubSeq(unread, n + 1, Len(unread))
      /\ input_buffer' = IF l = <<>> THEN <<>> ELSE l[1]
      /\ UNCHANGED <<words, exe, args>> /\ lpc = "prompt" /\ unread # <<>>
    BY DEF ReadInput
<1>2. n \in 0..Len(unread) /\ n < ARG_MAX /\ n \in Nat
    BY <1>1, ChunkIs
<1>3. unread \in Texts /\ Len(unread) \in Nat /\ unread[Len(unread)] = Newline
    BY <1>1 DEF ListInv, ListTypes, Texts
<1> HIDE DEF n
<1>4. unread' \in Texts /\ (unread' # <<>> => unread'[Len(unread')] = Newline)
    <2>1. /\ unread' \in Texts /\ Len(unread') = Len(unread) - n
          /\ \A k \in 1..(Len(unread) - n) : unread'[k] = unread[n + k]
        <3>1. \A T : unread \in Seq(T) =>
                 /\ SubSeq(unread, n + 1, Len(unread)) \in Seq(T)
                 /\ Len(SubSeq(unread, n + 1, Len(unread))) = Len(unread) - n
                 /\ \A k \in 1..(Len(unread) - n) : SubSeq(unread, n + 1, Len(unread))[k] = unread[n + k]
            BY <1>2, <1>3
        <3> QED
            BY <1>1, <1>3, <3>1 DEF Texts
    <2>2. CASE n < Len(unread)
        <3>1. Len(unread) - n \in 1..(Len(unread) - n) /\ n + (Len(unread) - n) = Len(unread)
            BY <1>2, <1>3, <2>2
        <3> QED
            BY <1>3, <2>1, <3>1
    <2>3. CASE n = Len(unread)
        <3>1. Len(unread') = 0
            BY <1>3, <2>1, <2>3
        <3> QED
            BY <2>1, <3>1 DEF Texts
    <2> QED
        BY <1>2, <1>3, <2>2, <2>3
<1>5. c \in Texts /\ Len(c) = n
    BY <1>2, <1>3 DEF Texts
<1>6. input_buffer' \in Texts /\ Len(input_buffer') < ARG_MAX
    <2>1. l \in Seq(Texts)
        BY <1>5, TokensAre DEF Texts
    <2>2. CASE l = <<>>
        BY <1>1, <2>2, ListSizes DEF Texts
    <2>3. CASE l # <<>>
        <3>1. 1 \in 1..Len(l)
            BY <2>1, <2>3
        <3>2. l[1] \in Texts /\ Len(l[1]) <= Len(c)
            BY <1>5, <3>1, TokenFits
        <3>3. Len(l[1]) \in Nat
            BY <3>2 DEF Texts
        <3> QED
            BY <1>1, <1>2, <1>5, <2>3, <3>2, <3>3, ListSizes
    <2> QED
        BY <2>2, <2>3
<1>7. t \in Texts /\ Len(t) <= Len(input_buffer')
    BY <1>6, TrimmedIs DEF Texts
<1>8. /\ Tokens(t, Bar) \in Seq(Texts)
      /\ \A k \in 1..Len(Tokens(t, Bar)) : Len(Tokens(t, Bar)[k]) < ARG_MAX
    <2>1. Tokens(t, Bar) \in Seq(Texts)
        BY <1>7, TokensAre DEF Texts
    <2>2. ASSUME NEW k \in 1..Len(Tokens(t, Bar))
          PROVE  Len(Tokens(t, Bar)[k]) < ARG_MAX
        <3>1. Len(Tokens(t, Bar)[k]) <= Len(t) /\ Tokens(t, Bar)[k] \in Texts
            BY <1>7, TokenFits
        <3>2. Len(Tokens(t, Bar)[k]) \in Nat /\ Len(t) \in Nat /\ Len(input_buffer') \in Nat
            BY <1>6, <1>7, <3>1 DEF Texts
        <3> QED
            BY <1>6, <1>7, <3>1, <3>2, ListSizes
    <2> QED
        BY <2>1, <2>2
<1>9. CASE lpc' \in {"prompt", "exited"} /\ UNCHANGED <<parts, commands, status>>
    BY <1>1, <1>4, <1>6, <1>9 DEF ListInv, ListTypes
<1>10. CASE /\ parts' = Tokens(t, Bar) /\ commands' = <<>>
            /\ lpc' \in {"part", "shown"} /\ status' \in {"OK", "WARN_NO_CMDS"}
    <2>1. ListTypes'
        <3>1. commands' \in Seq([exe : Texts, args : Texts]) /\ Len(commands') = 0 /\ 0 <= CMD_MAX
            BY <1>10, ListSizes
        <3>2. /\ parts' \in Seq(Texts) /\ \A k \in 1..Len(parts') : Len(parts'[k]) < ARG_MAX
            BY <1>8, <1>10
        <3> QED
            BY <1>1, <1>4, <1>6, <1>10, <3>1, <3>2 DEF ListInv, ListTypes
    <2> QED
        BY <1>1, <1>10, <2>1 DEF ListInv
<1> QED
    BY <1>1, <1>9, <1>10 DEF ReadInput

LEMMA NextPartKeeps == ListInv /\ NextPart => ListInv'
<1> SUFFICES ASSUME ListInv, NextPart PROVE ListInv'
    OBVIOUS
<1> DEFINE t == Trimmed(Head(parts))
           ws == Tokens(t, Blank)
<1>1. /\ lpc = "part" /\ parts # <<>> /\ UNCHANGED <<unread, input_buffer, commands>>
      /\ \/ lpc' = "shown" /\ UNCHANGED <<parts, words, exe, args>>
         \/ /\ parts' = Tail(parts) /\ UNCHANGED <<lpc, words, exe, args, status>>
         \/ /\ Len(commands) < CMD_MAX /\ ws # <<>> /\ Len(ws[1]) < EXE_MAX
            /\ parts' = Tail(parts)
            /\ exe' = ws[1] /\ args' = <<>> /\ words' = Tail(ws)
            /\ lpc' = "args" /\ UNCHANGED status
    BY DEF NextPart, Refuse
<1>2. /\ parts \in Seq(Texts) /\ Head(parts) = parts[1] /\ 1 \in 1..Len(parts)
      /\ Len(Head(parts)) < ARG_MAX /\ Head(parts) \in Texts
    BY <1>1 DEF ListInv, ListTypes
<1>3. Tail(parts) \in Seq(Texts) /\ \A n \in 1..Len(Tail(parts)) : Len(Tail(parts)[n]) < ARG_MAX
    BY <1>1, <1>2 DEF ListInv, ListTypes
<1>4. t \in Texts /\ Len(t) < ARG_MAX
    <2>1. t \in Texts /\ Len(t) <= Len(Head(parts))
        BY <1>2, TrimmedIs DEF Texts
    <2>2. Len(t) \in Nat /\ Len(Head(parts)) \in Nat
        BY <1>2, <2>1 DEF Texts
    <2> QED
        BY <1>2, <2>1, <2>2, ListSizes
<1> HIDE DEF t
<1>5. /\ ws \in Seq(Texts) /\ Len(ws) = Count(t, Blank) /\ Count(t, Blank) \in Nat
      /\ \A n \in 1..Len(ws) : /\ Begin(t, Blank, n) \in 1..Len(t)
                               /\ Behind(t, Blank, n) \in (Begin(t, Blank, n) + 1)..(Len(t) + 1)
                               /\ Len(ws[n]) = Behind(t, Blank, n) - Begin(t, Blank, n)
    BY <1>4, TokensAre DEF Texts
<1> HIDE DEF ws
<1>6. CASE lpc' = "shown" /\ UNCHANGED <<parts, words, exe, args>>
    BY <1>1, <1>6 DEF ListInv, ListTypes
<1>7. CASE parts' = Tail(parts) /\ UNCHANGED <<lpc, words, exe, args, status>>
    BY <1>1, <1>3, <1>7 DEF ListInv, ListTypes
<1>8. CASE /\ Len(commands) < CMD_MAX /\ ws # <<>> /\ Len(ws[1]) < EXE_MAX
           /\ parts' = Tail(parts)
           /\ exe' = ws[1] /\ args' = <<>> /\ words' = Tail(ws)
           /\ lpc' = "args" /\ UNCHANGED status
    <2>1. 1 \in 1..Len(ws) /\ ws[1] \in Texts
        BY <1>5, <1>8
    <2>2. words' \in Seq(Texts) /\ Len(words') = Count(t, Blank) - 1
          /\ \A k \in 1..Len(words') : words'[k] = ws[1 + k]
        <3>1. /\ Tail(ws) \in Seq(Texts) /\ Len(Tail(ws)) = Len(ws) - 1
              /\ \A k \in 1..(Len(ws) - 1) : Tail(ws)[k] = ws[k + 1]
            BY <1>5, <1>8
        <3>2. \A k \in 1..(Len(ws) - 1) : k + 1 = 1 + k
            BY <1>5
        <3> QED
            BY <1>5, <1>8, <3>1, <3>2
    <2>3. Len(exe') > 0 /\ Len(exe') < Behind(t, Blank, 1)
        <3>1. /\ Begin(t, Blank, 1) \in 1..Len(t)
              /\ Behind(t, Blank, 1) \in (Begin(t, Blank, 1) + 1)..(Len(t) + 1)
              /\ Len(exe') = Behind(t, Blank, 1) - Begin(t, Blank, 1)
            BY <1>5, <1>8, <2>1
        <3>2. Len(t) \in Nat
            BY <1>4 DEF Texts
        <3> QED
            BY <3>1, <3>2
    <2>4. Filling'
        <3>1. Len(exe') \in Nat /\ Len(exe') + 0 = Len(exe')
            BY <1>8, <2>1 DEF Texts
        <3>2. Len(exe') + (IF args' = <<>> THEN 0 ELSE Len(args') + 1) < Behind(t, Blank, 1)
            BY <1>8, <2>3, <3>1
        <3> QED
            BY <1>4, <1>5, <2>1, <2>2, <2>3, <3>2 DEF Filling, ws
    <2>5. ListTypes'
        BY <1>1, <1>3, <1>8, <2>1, <2>2, ListSizes DEF ListInv, ListTypes, Texts
    <2> QED
        BY <1>1, <1>8, <2>4, <2>5 DEF ListInv
<1> QED
    BY <1>1, <1>6, <1>7, <1>8

\* The words of a part that was read into ARG_MAX bytes always fit.
LEMMA NextArgKeeps == ListInv /\ NextArg => ListInv'
<1> SUFFICES ASSUME ListInv, NextArg PROVE ListInv'
    OBVIOUS
<1>1. /\ lpc = "args" /\ words # <<>> /\ UNCHANGED <<unread, input_buffer, parts, exe, commands>>
      /\ Filling /\ ListTypes /\ Len(commands) < CMD_MAX /\ status # "ERR_CMD_OR_ARGS_TOO_BIG"
    BY DEF NextArg, ListInv
<1>2. PICK t \in Texts : \E n \in 1..Count(t, Blank) :
        /\ Len(t) < ARG_MAX
        /\ Len(words) = Count(t, Blank) - n
        /\ \A k \in 1..Len(words) : words[k] = Tokens(t, Blank)[n + k]
        /\ Len(exe) > 0
        /\ Len(exe) + (IF args = <<>> THEN 0 ELSE Len(args) + 1) < Behind(t, Blank, n)
    BY <1>1 DEF Filling
<1>3. PICK n \in 1..Count(t, Blank) :
        /\ Len(t) < ARG_MAX
        /\ Len(words) = Count(t, Blank) - n
        /\ \A k \in 1..Len(words) : words[k] = Tokens(t, Blank)[n + k]
        /\ Len(exe) > 0
        /\ Len(exe) + (IF args = <<>> THEN 0 ELSE Len(args) + 1) < Behind(t, Blank, n)
    BY <1>2
<1>4. /\ Count(t, Blank) \in Nat
      /\ \A m \in 1..Count(t, Blank) :
            /\ Begin(t, Blank, m) \in 1..Len(t)
            /\ Behind(t, Blank, m) \in (Begin(t, Blank, m) + 1)..(Len(t) + 1)
            /\ Len(Tokens(t, Blank)[m]) = Behind(t, Blank, m) - Begin(t, Blank, m)
      /\ \A m \in 1..Count(t, Blank) :
            m + 1 <= Count(t, Blank) => Behind(t, Blank, m) < Begin(t, Blank, m + 1)
    BY TokensAre DEF Texts
<1>5. words \in Seq(Texts) /\ args \in Texts /\ exe \in Texts
    BY <1>1 DEF ListTypes
<1>6. /\ Len(words) \in Nat /\ Len(args) \in Nat /\ Len(exe) \in Nat /\ Len(t) \in Nat
      /\ Len(words) >= 1 /\ Head(words) = words[1]
      /\ args # <<>> => Len(args) >= 1
    BY <1>1, <1>5 DEF Texts
<1>7. n + 1 \in 1..Count(t, Blank) /\ words[1] = Tokens(t, Blank)[n + 1]
    BY <1>3, <1>4, <1>6
<1> DEFINE w == Head(words)
           b == Begin(t, Blank, n + 1)
           e == Behind(t, Blank, n)
           f == Behind(t, Blank, n + 1)
<1>8. /\ Len(w) = f - b /\ e < b /\ f \in (b + 1)..(Len(t) + 1) /\ b \in Nat /\ e \in Nat /\ f \in Nat
      /\ w \in Texts
    <2>1. e \in (Begin(t, Blank, n) + 1)..(Len(t) + 1) /\ Begin(t, Blank, n) \in 1..Len(t)
        BY <1>4
    <2>2. f \in (b + 1)..(Len(t) + 1) /\ b \in 1..Len(t) /\ Len(w) = f - b
        BY <1>4, <1>6, <1>7
    <2>3. n + 1 <= Count(t, Blank)
        BY <1>4, <1>7
    <2>4. e < b
        BY <1>4, <2>3
    <2>5. w \in Texts
        BY <1>5, <1>6
    <2> HIDE DEF w, b, e, f
    <2> QED
        BY <1>6, <2>1, <2>2, <2>4, <2>5
<1> HIDE DEF w, b, e, f
<1>9. Len(args) + Len(w) + 2 <= ARG_MAX
    <2>1. Len(exe) + (IF args = <<>> THEN 0 ELSE Len(args) + 1) < e /\ Len(exe) > 0 /\ Len(t) < ARG_MAX
        BY <1>3 DEF e
    <2>2. CASE args = <<>>
        <3>1. Len(args) = 0
            BY <2>2
        <3> QED
            BY <1>6, <1>8, <2>1, <2>2, <3>1, ListSizes
    <2>3. CASE args # <<>>
        BY <1>6, <1>8, <2>1, <2>3, ListSizes
    <2> QED
        BY <2>2, <2>3
<1>10. args' = JoinArg(args, w) /\ words' = Tail(words) /\ UNCHANGED <<lpc, status>>
    <2>1. ~(Len(args) + Len(w) + 2 > ARG_MAX)
        BY <1>6, <1>8, <1>9, ListSizes
    <2> QED
        BY <2>1 DEF NextArg, w
<1>11. /\ args' \in Texts /\ Len(args') < ARG_MAX /\ args' # <<>>
       /\ Len(args') = Len(w) + (IF args = <<>> THEN 0 ELSE Len(args) + 1)
    <2>1. Len(w) \in Nat /\ Len(w) >= 1
        BY <1>8
    <2>2. CASE args = <<>>
        <3>1. args' = w
            <4>1. args' = <<>> \o w
                BY <1>10, <2>2 DEF JoinArg
            <4> QED
                BY <1>8, <4>1 DEF Texts
        <3> QED
            BY <1>6, <1>8, <1>9, <2>1, <2>2, <3>1, ListSizes
    <2>3. CASE args # <<>>
        <3>1. args' = Append(args, Blank) \o w
            BY <1>10, <2>3 DEF JoinArg
        <3>2. Append(args, Blank) \in Texts /\ Len(Append(args, Blank)) = Len(args) + 1
            BY <1>5, OneMoreChar, NewlineChar
        <3>3. args' \in Texts /\ Len(args') = Len(args) + 1 + Len(w)
            BY <1>8, <3>1, <3>2, TwoTexts
        <3> QED
            BY <1>6, <1>8, <1>9, <2>1, <2>3, <3>3, ListSizes
    <2> QED
        BY <2>2, <2>3
<1>12. /\ words' \in Seq(Texts) /\ Len(words') = Count(t, Blank) - (n + 1)
       /\ \A k \in 1..Len(words') : words'[k] = Tokens(t, Blank)[(n + 1) + k]
    <2>1. /\ Tail(words) \in Seq(Texts) /\ Len(Tail(words)) = Len(words) - 1
          /\ \A k \in 1..(Len(words) - 1) : Tail(words)[k] = words[k + 1]
        BY <1>5, <1>6
    <2>2. Len(words) - 1 = Count(t, Blank) - (n + 1)
        BY <1>3, <1>4
    <2>3. ASSUME NEW k \in 1..(Len(words) - 1)
          PROVE  words[k + 1] = Tokens(t, Blank)[(n + 1) + k]
        <3>1. k + 1 \in 1..Len(words) /\ n + (k + 1) = (n + 1) + k
            BY <1>6
        <3> QED
            BY <1>3, <3>1
    <2> QED
        BY <1>10, <2>1, <2>2, <2>3
<1>13. Filling'
    <2>1. Len(exe') > 0 /\ Len(exe') + (IF args' = <<>> THEN 0 ELSE Len(args') + 1) < f
        BY <1>1, <1>3, <1>6, <1>8, <1>11, SMTT(30) DEF e
    <2> QED
        BY <1>3, <1>7, <1>12, <2>1 DEF Filling, f
<1>14. ListTypes'
    BY <1>1, <1>10, <1>11, <1>12 DEF ListTypes
<1> QED
    BY <1>1, <1>10, <1>13, <1>14 DEF ListInv

LEMMA ListOthersKeep == ListInv /\ (EndOfPart \/ EndOfParts \/ Prompt) => ListInv'
<1> SUFFICES ASSUME ListInv, EndOfPart \/ EndOfParts \/ Prompt PROVE ListInv'
    OBVIOUS
<1>1. CASE EndOfPart
    <2>1. /\ commands' \in Seq([exe : Texts, args : Texts])
          /\ Len(commands') = Len(commands) + 1 /\ Len(commands) < CMD_MAX /\ Len(commands) \in Nat
        BY <1>1 DEF EndOfPart, ListInv, ListTypes
    <2>2. Len(commands') <= CMD_MAX
        BY <2>1, ListSizes
    <2> QED
        BY <1>1, <2>1, <2>2 DEF EndOfPart, ListInv, ListTypes
<1>2. CASE EndOfParts
    BY <1>2 DEF EndOfParts, ListInv, ListTypes
<1>3. CASE Prompt
    BY <1>3, ListSizes DEF Prompt, ListInv, ListTypes, Texts
<1> QED
    BY <1>1, <1>2, <1>3

LEMMA ListKeeps == ListInv /\ [ListNext]_lister => ListInv'
<1>1. ListInv /\ UNCHANGED lister => ListInv'
    BY DEF ListInv, ListTypes, Filling, lister
<1> QED
    BY <1>1, TypeInputKeeps, ReadInputKeeps, NextPartKeeps, NextArgKeeps, ListOthersKeep DEF ListNext

\* 3-shellp1 never copies behind the end of an array, for lines of any length
\* and arrays of any size.  That no test guards args but one that cannot fire is
\* right: a part that was read into ARG_MAX bytes has its words apart by blanks
\* of its own, and exe has taken the first of them.
THEOREM ListTypeCorrect == ListSpec => []ListTypeOK
<1>1. ListInv => ListTypeOK
    BY DEF ListInv, ListTypes, ListTypeOK
<1> QED
    BY <1>1, ListKeeps, ListStarts, PTL DEF ListSpec

----------------------------------------------------------------------------
(* What the parsers make of a line.                                        *)

\* A line in which a pair of quotes encloses a whole word, operators or not.
Tidy ==
    /\ ~InQuotes(Len(line) + 1)
    /\ \A i \in 1..Len(line) :
          /\ line[i] \notin {Tab, CR}
          /\ line[i] = Bar => ~InQuotes(i)
          /\ line[i] = Quote => Sep(IF InQuotes(i) THEN i + 1 ELSE i - 1)

\* Where words begin, between lo and hi, and parts.
WordStarts(lo, hi) == {i \in lo..hi : ~Sep(i) /\ Sep(i - 1)}
IsBar(i) == i \notin DOMAIN line \/ line[i] = Bar
PartStarts == {i \in DOMAIN line : ~IsBar(i) /\ IsBar(i - 1)}

\* The first m of the positions in S are before q.
Passed(S, q, m) ==
    /\ m \in 0..Cardinality(S)
    /\ \A k \in 1..Cardinality(S) : InOrder(S)[k] < q <=> k <= m

\* Only what ends a word has become NUL.
Intact(b) == \A k \in 1..Len(line) : b[k] = line[k] \/ (b[k] = NUL /\ (Sep(k) \/ line[k] = Quote))

\* A place between words.
AtGap(q) == ~InQuotes(q) /\ (Sep(q - 1) \/ Sep(q))

\* strtok goes on at s: it has passed n parts and not touched the rest.
InList(b, s, n) ==
    /\ Passed(PartStarts, s, n)
    /\ \A k \in s..Len(line) : b[k] = line[k]
    /\ IsBar(s - 1) \/ s = Len(line) + 1

\* The first of the words ws are stored, and end where they do.
WordsStored(b, av, ws) == \A k \in 1..Len(av) : av[k] = ws[k][1] /\ b[ws[k][2]] = NUL

\* 3-shellp2 stores only so many words.
Room(m) == IF shell = "p2" /\ m > ARGV_MAX - 1 THEN ARGV_MAX - 1 ELSE m

\* Of the words in lo..hi those before q are read, and the rest not touched.
ReadSoFar(b, av, q, lo, hi) ==
    /\ q \in lo..(hi + 1) /\ b[hi + 1] = NUL
    /\ \A k \in q..hi : b[k] = line[k]
    /\ AtGap(q)
    /\ \E m \in 0..Cardinality(WordStarts(lo, hi)) :
          Passed(WordStarts(lo, hi), q, m) /\ Len(av) = Room(m)
    /\ WordsStored(b, av, WordsIn(lo, hi))

\* Which of the words ws open a file: an operator does if the word before it
\* does not.
FieldOf(ws, i) == Field(SubSeq(line, ws[i][1], ws[i][2] - 1))
OpensFile(ws) ==
    LET opens[i \in 0..Len(ws)] == i > 0 /\ FieldOf(ws, i) # "argv" /\ ~opens[i - 1]
    IN  opens
FilesOf(ws, f, m) == {ws[i][1] : i \in {j \in 2..m : OpensFile(ws)[j - 1] /\ FieldOf(ws, j - 1) = f}}
ArgsOf(ws, m) == {ws[i][1] : i \in {j \in 1..m : ~OpensFile(ws)[j] /\ ~OpensFile(ws)[j - 1]}}

\* What the second loop of 5-shellp3 has made of the first m of the words.
Sorted(c, ws, m) ==
    /\ m \in 0..Len(ws)
    /\ m = Len(ws) \/ ~OpensFile(ws)[m]
    /\ {c.argv[i] : i \in 1..Len(c.argv)} = ArgsOf(ws, m)
    /\ \A f \in {"in", "out", "app"} :
          /\ c[f] = 0 <=> FilesOf(ws, f, m) = {}
          /\ FilesOf(ws, f, m) # {} => c[f] \in FilesOf(ws, f, m) /\ \A x \in FilesOf(ws, f, m) : x <= c[f]
    /\ (\A i \in 1..Len(ws) : FieldOf(ws, i) = "argv") =>
          Len(c.argv) = m /\ \A i \in 1..m : c.argv[i] = ws[i][1]

\* A command as its words say.
Taken(b, c, ws) ==
    IF shell = "p3" THEN (\A k \in 1..Len(ws) : b[ws[k][2]] = NUL) /\ Sorted(c, ws, Len(ws))
    ELSE Len(c.argv) = Room(Len(ws)) /\ WordsStored(b, c.argv, ws)

AllTaken(b, cs) ==
    \A n \in 1..Len(cs) : n \in DOMAIN Parts /\ Len(Meant[n]) \in 1..Limit /\ Taken(b, cs[n], Meant[n])

\* The parser is in part n of the line.
InPart(b, s, n) ==
    /\ n \in DOMAIN Parts
    /\ shell # "p2" => InList(b, s, n) /\ (s > Parts[n][2] + 1 \/ s = Len(line) + 1)

\* The end of parsing.
ParsingOutcome(cs, r) ==
    /\ r = "OK" => Len(cs) = Len(Meant) /\ Len(Meant) <= MAX_CMDS
    /\ r \notin {"OK", "ERR_MEMORY"} /\ WellQuoted =>
          Len(Meant) > MAX_CMDS \/ \E n \in DOMAIN Meant : Len(Meant[n]) \notin 1..Limit

\* What holds at each place of the parser.
Parsed(b, s, q, av, c, cs, pc, r) ==
    /\ Intact(b) /\ AllTaken(b, cs)
    /\ shell = "p2" => ~Refused(shell, line) /\ pc \in {"word", "done"} /\ (pc = "word" => cs = <<>>)
    /\ pc = "list" => InList(b, s, Len(cs))
    /\ pc = "word" => /\ InPart(b, s, Len(cs) + 1)
                      /\ ReadSoFar(b, av, q, Parts[Len(cs) + 1][1], Parts[Len(cs) + 1][2])
                      /\ c = NoCmd
                      /\ shell = "p4" => Len(av) <= ARGV_MAX - 2
    /\ pc = "redir" => /\ InPart(b, s, Len(cs) + 1)
                       /\ shell = "p3"
                       /\ WordsStored(b, av, Meant[Len(cs) + 1])
                       /\ Len(av) = Len(Meant[Len(cs) + 1])
                       /\ Sorted(c, Meant[Len(cs) + 1], c.next - 1)
    /\ pc = "done" => ParsingOutcome(cs, r)

WordInv == ppc # "idle" /\ Tidy => Parsed(buf, save, ptr, argv, cmd, clist, ppc, rc)

----------------------------------------------------------------------------
(* Quotes.                                                                 *)

QuotesBefore(i) == {k \in 1..(i - 1) : line[k] = Quote}

LEMMA QuotesFinite ==
    ASSUME NEW i \in Nat
    PROVE  IsFiniteSet(QuotesBefore(i)) /\ Cardinality(QuotesBefore(i)) \in Nat
<1>1. IsFiniteSet(1..(i - 1))
    BY FS_Interval
<1>2. QuotesBefore(i) \subseteq 1..(i - 1)
    BY DEF QuotesBefore
<1>3. IsFiniteSet(QuotesBefore(i))
    BY <1>1, <1>2, FS_Subset
<1> QED
    BY <1>3, FS_CardinalityType

\* A quote opens or closes, and no other character does.
LEMMA QuoteToggles ==
    ASSUME NEW i \in Nat \ {0}
    PROVE  /\ ~InQuotes(1)
           /\ line[i] = Quote => (InQuotes(i + 1) <=> ~InQuotes(i))
           /\ line[i] # Quote => (InQuotes(i + 1) <=> InQuotes(i))
<1>1. ~InQuotes(1)
    <2>1. {k \in 1..(1 - 1) : line[k] = Quote} = {}
        OBVIOUS
    <2>2. Cardinality({k \in 1..(1 - 1) : line[k] = Quote}) = 0
        BY <2>1, FS_EmptySet
    <2> QED
        BY <2>2 DEF InQuotes
<1>2. /\ IsFiniteSet(QuotesBefore(i)) /\ Cardinality(QuotesBefore(i)) \in Nat
      /\ i \notin QuotesBefore(i)
    BY QuotesFinite DEF QuotesBefore
<1>3. /\ InQuotes(i) <=> Cardinality(QuotesBefore(i)) % 2 = 1
      /\ InQuotes(i + 1) <=> Cardinality(QuotesBefore(i + 1)) % 2 = 1
    BY DEF InQuotes, QuotesBefore
<1>4. ASSUME line[i] = Quote PROVE InQuotes(i + 1) <=> ~InQuotes(i)
    <2>1. QuotesBefore(i + 1) = QuotesBefore(i) \cup {i}
        BY <1>4 DEF QuotesBefore
    <2>2. Cardinality(QuotesBefore(i + 1)) = Cardinality(QuotesBefore(i)) + 1
        BY <1>2, <2>1, FS_AddElement
    <2>3. \A n \in Nat : (n + 1) % 2 = 1 <=> ~(n % 2 = 1)
        OBVIOUS
    <2> QED
        BY <1>2, <1>3, <2>2, <2>3
<1>5. ASSUME line[i] # Quote PROVE InQuotes(i + 1) <=> InQuotes(i)
    <2>1. QuotesBefore(i + 1) = QuotesBefore(i)
        BY <1>5 DEF QuotesBefore
    <2> QED
        BY <1>3, <2>1
<1> QED
    BY <1>1, <1>4, <1>5

LEMMA NoQuotesBetween ==
    ASSUME NEW i \in Nat \ {0}, NEW j \in Nat, i <= j, \A k \in i..(j - 1) : line[k] # Quote
    PROVE  InQuotes(j) <=> InQuotes(i)
<1>1. {k \in 1..(j - 1) : line[k] = Quote} = {k \in 1..(i - 1) : line[k] = Quote}
    <2>1. ASSUME NEW k \in 1..(j - 1), line[k] = Quote PROVE k \in 1..(i - 1)
        BY <2>1
    <2> QED
        BY <2>1
<1> QED
    BY <1>1 DEF InQuotes

----------------------------------------------------------------------------
(* Positions in order.                                                     *)

LEMMA PassedNone ==
    ASSUME NEW S \in SUBSET Nat, IsFiniteSet(S), NEW q \in Nat, \A p \in S : q <= p
    PROVE  Passed(S, q, 0)
<1>1. Cardinality(S) \in Nat /\ \A k \in 1..Cardinality(S) : InOrder(S)[k] \in S
    BY OrderIs
<1>2. ASSUME NEW k \in 1..Cardinality(S) PROVE ~(InOrder(S)[k] < q) /\ ~(k <= 0)
    <2>1. InOrder(S)[k] \in S
        BY <1>1
    <2>2. InOrder(S)[k] \in Nat /\ q <= InOrder(S)[k]
        BY <2>1
    <2> HIDE DEF InOrder
    <2> QED
        BY <1>1, <2>2
<1> QED
    BY <1>1, <1>2 DEF Passed

\* The next one of the positions is the first that was not passed.
LEMMA PassedOne ==
    ASSUME NEW S \in SUBSET Nat, IsFiniteSet(S), NEW q \in Nat, NEW m, Passed(S, q, m),
           NEW p \in S, NEW r \in Nat, q <= p, p < r, \A k \in S : k < r => k < q \/ k = p
    PROVE  /\ m \in Nat /\ m + 1 \in 1..Cardinality(S) /\ InOrder(S)[m + 1] = p
           /\ Passed(S, r, m + 1)
<1> DEFINE o == InOrder(S)
           c == Cardinality(S)
           n == Cardinality(UpTo(S, p))
<1>1. /\ c \in Nat
      /\ \A k \in 1..c : o[k] \in S /\ o[k] \in Nat
      /\ n \in 1..c /\ o[n] = p
      /\ \A k, l \in 1..c : k < l => o[k] < o[l]
    BY OrderIs
<1> HIDE DEF o, c, n
<1>2. m \in 0..c /\ \A k \in 1..c : o[k] < q <=> k <= m
    BY DEF Passed, o, c
<1>3. n > m
    BY <1>1, <1>2
<1>4. n = m + 1
    <2> SUFFICES ASSUME n # m + 1 PROVE FALSE
        OBVIOUS
    <2>1. m + 1 \in 1..c /\ m + 1 < n
        BY <1>1, <1>2, <1>3
    <2>2. o[m + 1] < p /\ ~(o[m + 1] < q) /\ o[m + 1] \in S
        BY <1>1, <1>2, <2>1
    <2> QED
        BY <1>1, <2>1, <2>2
<1>5. ASSUME NEW k \in 1..c PROVE o[k] < r <=> k <= m + 1
    <2>1. CASE k <= m
        BY <1>1, <1>2, <2>1
    <2>2. CASE k = m + 1
        BY <1>1, <1>4, <2>2
    <2>3. CASE k > m + 1
        <3>1. p < o[k] /\ ~(o[k] < q) /\ o[k] \in S
            BY <1>1, <1>2, <1>4, <2>3
        <3> QED
            BY <1>1, <1>2, <2>3, <3>1
    <2> QED
        BY <1>1, <1>2, <2>1, <2>2, <2>3
<1> QED
    BY <1>1, <1>2, <1>4, <1>5 DEF Passed, o, c

LEMMA PassedAll ==
    ASSUME NEW S \in SUBSET Nat, IsFiniteSet(S), NEW q \in Nat, NEW m, Passed(S, q, m), \A p \in S : p < q
    PROVE  m = Cardinality(S)
<1>1. /\ Cardinality(S) \in Nat /\ m \in 0..Cardinality(S)
      /\ \A k \in 1..Cardinality(S) : InOrder(S)[k] \in S /\ (InOrder(S)[k] < q <=> k <= m)
    BY OrderIs DEF Passed
<1>2. ASSUME Cardinality(S) # 0 PROVE Cardinality(S) <= m
    <2>1. Cardinality(S) \in 1..Cardinality(S)
        BY <1>1, <1>2
    <2>2. InOrder(S)[Cardinality(S)] < q
        BY <1>1, <2>1
    <2> QED
        BY <1>1, <2>1, <2>2
<1> QED
    BY <1>1, <1>2

----------------------------------------------------------------------------
(* Words in a tidy line.                                                   *)

\* A word without quotes from i to before e, and one in the quotes at i and q.
PlainWord(i, e) ==
    /\ e \in (i + 1)..(Len(line) + 1)
    /\ \A k \in i..(e - 1) : line[k] \notin Delims /\ line[k] # Quote /\ ~Sep(k)
    /\ ~InQuotes(e) /\ Sep(e)
    /\ Word(i) = <<i, e>>

QuotedWord(i, q) ==
    /\ q \in (i + 1)..Len(line)
    /\ line[i] = Quote /\ line[q] = Quote
    /\ \A k \in (i + 1)..(q - 1) : line[k] # Quote
    /\ \A k \in i..q : ~Sep(k)
    /\ ~InQuotes(q + 1) /\ Sep(q + 1)
    /\ Word(i) = <<i + 1, q>>

LEMMA FirstSep ==
    ASSUME Len(line) \in Nat, NEW i \in 1..Len(line), NEW e \in i..(Len(line) + 1),
           Sep(e), \A k \in i..(e - 1) : ~Sep(k)
    PROVE  Word(i) = IF line[i] = Quote THEN <<i + 1, e - 1>> ELSE <<i, e>>
<1> DEFINE P(j) == Sep(j) /\ \A k \in i..(j - 1) : ~Sep(k)
           f == CHOOSE j \in i..(Len(line) + 1) : P(j)
<1>1. f \in i..(Len(line) + 1) /\ P(f)
    <2>1. P(e)
        OBVIOUS
    <2> HIDE DEF P
    <2> QED
        BY <2>1
<1> HIDE DEF f
<1>2. f = e
    <2>1. ~(f < e)
        BY <1>1
    <2>2. ~(e < f)
        BY <1>1
    <2> QED
        BY <1>1, <2>1, <2>2
<1>3. f = CHOOSE j \in i..(Len(line) + 1) : Sep(j) /\ \A k \in i..(j - 1) : ~Sep(k)
    BY DEF f
<1> QED
    BY <1>2, <1>3 DEF Word

\* Outside the line there is no word, and the characters of the line are none
\* of the buffer's own.
LEMMA LineFacts ==
    ASSUME ParserAt
    PROVE  /\ Len(line) \in Nat /\ DOMAIN line = 1..Len(line) /\ Len(buf) = Len(line) + 1
           /\ \A k \in 1..Len(line) : line[k] \in Chars /\ line[k] # NUL
           /\ Quote \notin Delims /\ NUL \notin Delims /\ Blank \in Delims /\ Delims \subseteq {Blank, Bar}
           /\ \A k \in Int : k < 1 \/ k > Len(line) => Sep(k)
           /\ \A k \in 1..Len(line) : Sep(k) <=> (line[k] \in Delims /\ ~InQuotes(k))
<1>1. Len(line) \in Nat /\ DOMAIN line = 1..Len(line) /\ Len(buf) = Len(line) + 1
    BY DEF ParserAt
<1>2. \A k \in 1..Len(line) : line[k] \in Chars
    BY DEF ParserAt
<1>3. NUL \notin Chars
    BY DEF Chars, NUL, Blank, Tab, CR, Quote, Bar
<1>4. Quote \notin Delims /\ NUL \notin Delims /\ Blank \in Delims /\ Delims \subseteq {Blank, Bar}
    BY DEF Delims, Quote, Bar, Blank, NUL
<1> QED
    BY <1>1, <1>2, <1>3, <1>4 DEF Sep

LEMMA NotQuotedAt ==
    ASSUME ParserAt, NEW i \in 1..(Len(line) + 1), Sep(i - 1)
    PROVE  ~InQuotes(i)
<1>1. CASE i = 1
    BY <1>1, QuoteToggles
<1>2. CASE i # 1
    <2>1. i - 1 \in 1..Len(line) /\ i - 1 \in Nat \ {0} /\ (i - 1) + 1 = i
        BY <1>2, LineFacts
    <2>2. line[i - 1] # Quote /\ ~InQuotes(i - 1)
        BY <2>1, LineFacts
    <2> QED
        BY <2>1, <2>2, QuoteToggles
<1> QED
    BY <1>1, <1>2

LEMMA PlainWordIs ==
    ASSUME ParserAt, Tidy, NEW i \in 1..Len(line), ~Sep(i), Sep(i - 1), line[i] # Quote
    PROVE  \E e : PlainWord(i, e)
<1> DEFINE T == {e \in Nat : i <= e /\ Sep(e)}
<1>1. Len(line) \in Nat /\ Len(line) + 1 \in T /\ T \in SUBSET Nat
    BY LineFacts
<1>2. PICK e \in T : \A n \in T : e <= n
    BY <1>1, LeastNat
<1>3. e \in i..(Len(line) + 1) /\ Sep(e) /\ e # i
    BY <1>1, <1>2
<1>4. ASSUME NEW k \in i..(e - 1) PROVE ~Sep(k)
    <2>1. k \in Nat /\ ~(e <= k)
        BY <1>3
    <2> QED
        BY <1>2, <2>1
<1>5. ~InQuotes(i)
    BY NotQuotedAt
<1> DEFINE U == {k \in Nat : k \in i..(e - 1) /\ line[k] = Quote}
<1>6. U = {}
    <2> SUFFICES ASSUME U # {} PROVE FALSE
        OBVIOUS
    <2>1. PICK k \in U : \A n \in U : k <= n
        BY LeastNat
    <2>2. k \in i..(e - 1) /\ line[k] = Quote /\ k # i
        BY <2>1
    <2>3. \A n \in i..(k - 1) : line[n] # Quote
        <3>1. ASSUME NEW n \in i..(k - 1), line[n] = Quote PROVE FALSE
            <4>1. n \in U /\ ~(k <= n)
                BY <2>2, <3>1, <1>3
            <4> QED
                BY <2>1, <4>1
        <3> QED
            BY <3>1
    <2>4. ~InQuotes(k)
        <3>1. i \in Nat \ {0} /\ k \in Nat /\ i <= k
            BY <2>2
        <3> QED
            BY <1>5, <2>3, <3>1, NoQuotesBetween
    <2>5. k \in 1..Len(line) /\ k - 1 \in i..(e - 1)
        BY <1>3, <2>2
    <2>6. Sep(k - 1)
        BY <2>2, <2>4, <2>5 DEF Tidy
    <2> QED
        BY <1>4, <2>5, <2>6
<1>7. \A k \in i..(e - 1) : line[k] # Quote
    <2> SUFFICES ASSUME NEW k \in i..(e - 1), line[k] = Quote PROVE FALSE
        OBVIOUS
    <2>1. k \in U
        BY <1>3
    <2> QED
        BY <1>6, <2>1
<1> HIDE DEF U
<1>8. ASSUME NEW k \in i..e PROVE ~InQuotes(k)
    <2>1. i \in Nat \ {0} /\ k \in Nat /\ i <= k /\ \A n \in i..(k - 1) : line[n] # Quote
        BY <1>3, <1>7
    <2> QED
        BY <1>5, <2>1, NoQuotesBetween
<1>9. ASSUME NEW k \in i..(e - 1) PROVE line[k] \notin Delims
    <2>1. k \in 1..Len(line) /\ ~Sep(k) /\ ~InQuotes(k)
        BY <1>1, <1>3, <1>4, <1>8
    <2> QED
        BY <2>1, LineFacts
<1>10. Word(i) = <<i, e>>
    BY <1>1, <1>3, <1>4, FirstSep
<1>11. ~InQuotes(e)
    BY <1>3, <1>8
<1> QED
    BY <1>3, <1>4, <1>7, <1>9, <1>10, <1>11 DEF PlainWord

LEMMA QuotedWordIs ==
    ASSUME ParserAt, Tidy, NEW i \in 1..Len(line), ~Sep(i), Sep(i - 1), line[i] = Quote
    PROVE  \E q : QuotedWord(i, q)
<1> DEFINE T == {q \in Nat : i + 1 <= q /\ ~InQuotes(q + 1)}
<1>1. Len(line) \in Nat /\ ~InQuotes(i) /\ InQuotes(i + 1) /\ ~InQuotes(Len(line) + 1)
    BY NotQuotedAt, QuoteToggles, LineFacts DEF Tidy
<1>2. Len(line) \in T /\ T \in SUBSET Nat
    BY <1>1
<1>3. PICK q \in T : \A n \in T : q <= n
    BY <1>2, LeastNat
<1>4. q \in (i + 1)..Len(line) /\ ~InQuotes(q + 1)
    BY <1>2, <1>3
<1>5. ASSUME NEW k \in (i + 1)..q PROVE InQuotes(k)
    <2>1. CASE k = i + 1
        BY <1>1, <2>1
    <2>2. CASE k # i + 1
        <3>1. k - 1 \in Nat /\ i + 1 <= k - 1 /\ ~(q <= k - 1) /\ (k - 1) + 1 = k
            BY <1>4, <2>2
        <3> QED
            BY <1>3, <3>1
    <2> QED
        BY <2>1, <2>2
<1>6. line[q] = Quote
    <2>1. q \in Nat \ {0} /\ InQuotes(q)
        BY <1>4, <1>5
    <2> QED
        BY <1>4, <2>1, QuoteToggles
<1>7. ASSUME NEW k \in (i + 1)..(q - 1) PROVE line[k] # Quote
    <2>1. k \in Nat \ {0} /\ k \in (i + 1)..q /\ k + 1 \in (i + 1)..q
        BY <1>4
    <2>2. InQuotes(k) /\ InQuotes(k + 1)
        BY <1>5, <2>1
    <2> QED
        BY <2>1, <2>2, QuoteToggles
<1>8. Sep(q + 1)
    <2>1. q \in 1..Len(line) /\ q \in (i + 1)..q
        BY <1>4
    <2>2. InQuotes(q)
        BY <1>5, <2>1
    <2> QED
        BY <1>6, <2>1, <2>2 DEF Tidy
<1>9. ASSUME NEW k \in i..q PROVE ~Sep(k)
    <2>1. k = i \/ (k \in (i + 1)..q /\ k \in 1..Len(line))
        BY <1>4
    <2> QED
        BY <1>5, <2>1, LineFacts
<1>10. Word(i) = <<i + 1, q>>
    <2>1. /\ q + 1 \in i..(Len(line) + 1) /\ (q + 1) - 1 = q
          /\ \A k \in i..((q + 1) - 1) : ~Sep(k)
        BY <1>4, <1>9
    <2> QED
        BY <1>1, <1>8, <2>1, FirstSep
<1> QED
    BY <1>4, <1>6, <1>7, <1>8, <1>9, <1>10 DEF QuotedWord

----------------------------------------------------------------------------
(* Scans in a tidy line.                                                   *)

LEMMA FirstIs ==
    ASSUME NEW b, Len(b) \in Nat, NEW i \in Nat, NEW S, NEW e \in i..Len(b), b[e] \in S,
           \A k \in i..(e - 1) : b[k] \notin S
    PROVE  First(b, i, S) = e
<1> DEFINE f == First(b, i, S)
<1>1. f \in i..Len(b) /\ f <= e /\ b[f] \in S
    BY FirstFound
<1> HIDE DEF f
<1>2. ~(f < e)
    BY <1>1
<1> QED
    BY <1>1, <1>2 DEF f

\* What is left of a part from i to hi: the buffer still shows it and ends it.
Unread(b, i, hi) ==
    /\ b \in LineText /\ Len(b) = Len(line) + 1
    /\ i \in 1..(hi + 1) /\ hi \in 0..Len(line)
    /\ b[hi + 1] = NUL
    /\ \A k \in i..hi : b[k] = line[k] /\ (shell # "p2" => line[k] # Bar)
    /\ Sep(hi + 1)

\* What a scan must do with the word that begins at i.
WordRead(b, i, hi, w) ==
    /\ w.start = Word(i)[1] /\ Word(i)[2] \in w.cut
    /\ w.next \in (i + 1)..(hi + 1)
    /\ \A k \in w.cut : /\ k \in 1..(hi + 1)
                        /\ k < w.next \/ b[k] = NUL
                        /\ Sep(k) \/ line[k] = Quote
    /\ AtGap(w.next)
    /\ \A k \in (i + 1)..(w.next - 1) : Sep(k) \/ ~Sep(k - 1)

\* In a part only a blank separates words, and only its end is NUL.
LEMMA PartFacts ==
    ASSUME ParserAt, Tidy, NEW b, NEW i, NEW hi, Unread(b, i, hi)
    PROVE  /\ Len(line) \in Nat /\ Len(b) = Len(line) + 1
           /\ i \in 1..(hi + 1) /\ hi \in 0..Len(line) /\ b[hi + 1] = NUL
           /\ \A k \in i..hi : /\ k \in 1..Len(line) /\ b[k] = line[k] /\ b[k] # NUL
                               /\ b[k] \notin {Tab, CR}
                               /\ line[k] \in Delims <=> line[k] = Blank
<1>1. Len(line) \in Nat
    BY LineFacts
<1>2. ASSUME NEW k \in i..hi
      PROVE  /\ k \in 1..Len(line) /\ b[k] = line[k] /\ b[k] # NUL
             /\ b[k] \notin {Tab, CR}
             /\ line[k] \in Delims <=> line[k] = Blank
    <2>1. k \in 1..Len(line) /\ b[k] = line[k] /\ (shell # "p2" => line[k] # Bar)
        BY <1>1 DEF Unread
    <2> QED
        BY <2>1, LineFacts DEF Tidy, Delims
<1> QED
    BY <1>1, <1>2 DEF Unread

LEMMA PlainRead ==
    ASSUME ParserAt, Tidy, NEW b, NEW i, NEW hi, Unread(b, i, hi), i <= hi,
           NEW e, PlainWord(i, e), NEW w,
           w.start = i, w.cut = {e}, w.next = IF b[e] = NUL THEN e ELSE e + 1
    PROVE  WordRead(b, i, hi, w)
<1>1. /\ i \in 1..hi /\ hi \in 0..Len(line) /\ Len(line) \in Nat /\ b[hi + 1] = NUL /\ Sep(hi + 1)
      /\ Word(i) = <<i, e>> /\ e \in (i + 1)..(Len(line) + 1) /\ ~InQuotes(e) /\ Sep(e)
      /\ \A k \in i..(e - 1) : ~Sep(k)
    BY PartFacts DEF PlainWord, Unread
<1>2. e <= hi + 1
    BY <1>1
<1>3. e # hi + 1 => e \in i..hi /\ b[e] = line[e] /\ b[e] # NUL /\ e \in 1..Len(line)
    BY <1>1, <1>2, PartFacts
<1>4. AtGap(w.next)
    <2>1. CASE e = hi + 1
        BY <1>1, <2>1 DEF AtGap
    <2>2. CASE e # hi + 1
        <3>1. line[e] # Quote
            BY <1>1, <1>3, <2>2, LineFacts
        <3>2. ~InQuotes(e + 1) /\ (e + 1) - 1 = e /\ w.next = e + 1
            BY <1>1, <1>3, <2>2, <3>1, QuoteToggles
        <3> QED
            BY <1>1, <3>2 DEF AtGap
    <2> QED
        BY <2>1, <2>2
<1>5. ASSUME NEW k \in (i + 1)..(w.next - 1) PROVE ~Sep(k - 1)
    <2>1. k - 1 \in i..(e - 1)
        BY <1>1
    <2> QED
        BY <1>1, <2>1
<1>6. w.next \in (i + 1)..(hi + 1) /\ e \in 1..(hi + 1) /\ (e < w.next \/ b[e] = NUL)
    BY <1>1, <1>2, <1>3
<1> QED
    BY <1>1, <1>4, <1>5, <1>6 DEF WordRead

LEMMA QuotedRead ==
    ASSUME ParserAt, Tidy, NEW b, NEW i, NEW hi, Unread(b, i, hi), i <= hi,
           NEW q, QuotedWord(i, q), NEW w,
           w.start = i + 1, w.cut \subseteq {q, q + 1}, q \in w.cut,
           \/ w.cut = {q} /\ w.next = q + 1
           \/ w.next = IF b[q + 1] = NUL THEN q + 1 ELSE q + 2
    PROVE  WordRead(b, i, hi, w)
<1>1. /\ i \in 1..hi /\ hi \in 0..Len(line) /\ Len(line) \in Nat /\ b[hi + 1] = NUL /\ Sep(hi + 1)
      /\ Word(i) = <<i + 1, q>> /\ q \in (i + 1)..Len(line) /\ ~InQuotes(q + 1) /\ Sep(q + 1)
      /\ line[q] = Quote
      /\ \A k \in i..q : ~Sep(k)
    BY PartFacts DEF QuotedWord, Unread
<1>2. q <= hi
    BY <1>1
<1>3. q # hi => q + 1 \in i..hi /\ b[q + 1] = line[q + 1] /\ b[q + 1] # NUL /\ q + 1 \in 1..Len(line)
    BY <1>1, <1>2, PartFacts
<1>4. w.next \in {q + 1, q + 2} /\ (w.next = q + 2 => q # hi)
    <2>1. CASE b[q + 1] = NUL
        <3>1. w.next = q + 1 /\ q \in Int
            BY <1>1, <2>1
        <3> QED
            BY <3>1
    <2>2. CASE b[q + 1] # NUL
        <3>1. w.next \in {q + 1, q + 2}
            BY <2>2
        <3>2. q # hi
            BY <1>1, <2>2
        <3> QED
            BY <3>1, <3>2
    <2> QED
        BY <2>1, <2>2
<1>5. AtGap(w.next)
    <2>1. CASE w.next = q + 1
        BY <1>1, <2>1 DEF AtGap
    <2>2. CASE w.next = q + 2
        <3>1. line[q + 1] # Quote
            BY <1>1, <1>3, <1>4, <2>2, LineFacts
        <3>2. ~InQuotes((q + 1) + 1) /\ (q + 2) - 1 = q + 1 /\ (q + 1) + 1 = q + 2
            BY <1>1, <1>3, <3>1, QuoteToggles
        <3> QED
            BY <1>1, <2>2, <3>2 DEF AtGap
    <2> QED
        BY <1>4, <2>1, <2>2
<1>6. ASSUME NEW k \in (i + 1)..(w.next - 1) PROVE ~Sep(k - 1)
    <2>1. k - 1 \in i..q
        BY <1>1, <1>4
    <2> QED
        BY <1>1, <2>1
<1>7. ASSUME NEW k \in w.cut
      PROVE  k \in 1..(hi + 1) /\ (k < w.next \/ b[k] = NUL) /\ (Sep(k) \/ line[k] = Quote)
    <2>1. CASE k = q
        BY <1>1, <1>2, <1>4, <2>1
    <2>2. CASE k = q + 1
        BY <1>1, <1>2, <2>2
    <2> QED
        BY <2>1, <2>2
<1>8. w.next \in (i + 1)..(hi + 1)
    BY <1>1, <1>2, <1>4
<1> QED
    BY <1>1, <1>5, <1>6, <1>7, <1>8 DEF WordRead

LEMMA Scan2Plain ==
    ASSUME ParserAt, Tidy, NEW b, NEW i, NEW hi, Unread(b, i, hi), i <= hi, NEW e, PlainWord(i, e)
    PROVE  Scan2(b, i) = [start |-> i, cut |-> {e}, next |-> IF b[e] = NUL THEN e ELSE e + 1]
<1>1. /\ i \in 1..hi /\ hi \in 0..Len(line) /\ Len(line) \in Nat /\ Len(b) = Len(line) + 1
      /\ b[hi + 1] = NUL /\ Sep(hi + 1)
      /\ e \in (i + 1)..(Len(line) + 1)
      /\ Sep(e)
      /\ \A k \in i..(e - 1) : line[k] \notin Delims /\ line[k] # Quote /\ ~Sep(k)
    BY PartFacts DEF PlainWord, Unread
<1>2. e <= hi + 1
    BY <1>1
<1>3. ~Opens(b, i)
    <2>1. i \in i..hi /\ i \in i..(e - 1)
        BY <1>1
    <2>2. b[i] = line[i] /\ line[i] # Quote
        BY <1>1, <2>1, PartFacts
    <2> QED
        BY <2>2 DEF Opens
<1>4. b[e] \in IsSpace \cup {NUL}
    <2>1. CASE e = hi + 1
        BY <1>1, <2>1
    <2>2. CASE e # hi + 1
        <3>1. e \in i..hi /\ e \in 1..Len(line)
            BY <1>1, <1>2, <2>2
        <3>2. line[e] \in Delims
            BY <1>1, <3>1, LineFacts
        <3>3. b[e] = Blank
            BY <3>1, <3>2, PartFacts
        <3> QED
            BY <3>3 DEF IsSpace
    <2> QED
        BY <2>1, <2>2
<1>5. \A k \in i..(e - 1) : b[k] \notin IsSpace \cup {NUL}
    <2> SUFFICES ASSUME NEW k \in i..(e - 1) PROVE b[k] \notin IsSpace \cup {NUL}
        OBVIOUS
    <2>1. k \in i..hi /\ line[k] \notin Delims
        BY <1>1, <1>2
    <2>2. b[k] # NUL /\ b[k] # Blank /\ b[k] \notin {Tab, CR}
        BY <2>1, PartFacts
    <2> QED
        BY <2>2 DEF IsSpace
<1>6. First(b, i, IsSpace \cup {NUL}) = e
    <2>1. i \in Nat /\ e \in i..Len(b) /\ Len(b) \in Nat
        BY <1>1
    <2> QED
        BY <1>4, <1>5, <2>1, FirstIs
<1> QED
    BY <1>3, <1>6 DEF Scan2

LEMMA Scan2Quoted ==
    ASSUME ParserAt, Tidy, NEW b, NEW i, NEW hi, Unread(b, i, hi), i <= hi, NEW q, QuotedWord(i, q)
    PROVE  /\ Scan2(b, i) = [start |-> i + 1, cut |-> {q}, next |-> q + 1]
           /\ Opens(b, i)
<1>1. /\ i \in 1..hi /\ hi \in 0..Len(line) /\ Len(line) \in Nat /\ Len(b) = Len(line) + 1
      /\ Sep(hi + 1) /\ q \in (i + 1)..Len(line)
      /\ line[i] = Quote /\ line[q] = Quote
      /\ \A k \in (i + 1)..(q - 1) : line[k] # Quote
      /\ \A k \in i..q : ~Sep(k)
    BY PartFacts DEF QuotedWord, Unread
<1>2. q <= hi
    BY <1>1
<1>3. b[i] = Quote /\ b[q] = Quote /\ b[q] # NUL
    <2>1. i \in i..hi /\ q \in i..hi
        BY <1>1, <1>2
    <2> QED
        BY <1>1, <2>1, PartFacts
<1>4. \A k \in (i + 1)..(q - 1) : b[k] \notin {Quote, NUL}
    <2> SUFFICES ASSUME NEW k \in (i + 1)..(q - 1) PROVE b[k] \notin {Quote, NUL}
        OBVIOUS
    <2>1. k \in i..hi /\ line[k] # Quote
        BY <1>1, <1>2
    <2> QED
        BY <2>1, PartFacts
<1>5. First(b, i + 1, {Quote, NUL}) = q
    <2>1. i + 1 \in Nat /\ q \in (i + 1)..Len(b) /\ Len(b) \in Nat
        BY <1>1
    <2> QED
        BY <1>3, <1>4, <2>1, FirstIs
<1>6. Opens(b, i)
    BY <1>3 DEF Opens
<1> QED
    BY <1>3, <1>5, <1>6 DEF Scan2

\* Where a word begins the scans of the three parsers read it.
LEMMA Scan2Reads ==
    ASSUME ParserAt, Tidy, NEW b, NEW i, NEW hi, Unread(b, i, hi), i <= hi, ~Sep(i), Sep(i - 1)
    PROVE  WordRead(b, i, hi, Scan2(b, i))
<1> DEFINE w == Scan2(b, i)
<1>1. i \in 1..Len(line)
    BY PartFacts
<1>2. CASE line[i] = Quote
    <2>1. PICK q : QuotedWord(i, q)
        BY <1>1, <1>2, QuotedWordIs
    <2>2. w = [start |-> i + 1, cut |-> {q}, next |-> q + 1]
        BY <2>1, Scan2Quoted
    <2>3. w.start = i + 1 /\ w.cut = {q} /\ w.next = q + 1
        BY <2>2
    <2> HIDE DEF w
    <2>4. w.cut \subseteq {q, q + 1} /\ q \in w.cut
        BY <2>3
    <2>5. WordRead(b, i, hi, w)
        BY <2>1, <2>3, <2>4, QuotedRead
    <2> QED
        BY <2>5 DEF w
<1>3. CASE line[i] # Quote
    <2>1. PICK e : PlainWord(i, e)
        BY <1>1, <1>3, PlainWordIs
    <2>2. w = [start |-> i, cut |-> {e}, next |-> IF b[e] = NUL THEN e ELSE e + 1]
        BY <2>1, Scan2Plain
    <2>3. w.start = i /\ w.cut = {e} /\ w.next = IF b[e] = NUL THEN e ELSE e + 1
        BY <2>2
    <2> HIDE DEF w
    <2>4. WordRead(b, i, hi, w)
        BY <2>1, <2>3, PlainRead
    <2> QED
        BY <2>4 DEF w
<1> QED
    BY <1>2, <1>3

LEMMA Scan3Reads ==
    ASSUME ParserAt, Tidy, NEW b, NEW i, NEW hi, Unread(b, i, hi), i <= hi, ~Sep(i), Sep(i - 1)
    PROVE  WordRead(b, i, hi, Scan3(b, i))
<1> DEFINE v == Scan2(b, i)
           w == Scan3(b, i)
           more == Opens(b, i) /\ b[v.next] # NUL
<1>1. i \in 1..Len(line)
    BY PartFacts
<1>2. w = [v EXCEPT !.cut = IF more THEN @ \cup {v.next} ELSE @,
                    !.next = IF more THEN @ + 1 ELSE @]
    BY DEF Scan3
<1>3. CASE line[i] = Quote
    <2>1. PICK q : QuotedWord(i, q)
        BY <1>1, <1>3, QuotedWordIs
    <2>2. v = [start |-> i + 1, cut |-> {q}, next |-> q + 1] /\ Opens(b, i)
        BY <2>1, Scan2Quoted
    <2> HIDE DEF v, w
    <2>3. /\ w.start = i + 1
          /\ w.cut = IF b[q + 1] # NUL THEN {q} \cup {q + 1} ELSE {q}
          /\ w.next = IF b[q + 1] # NUL THEN (q + 1) + 1 ELSE q + 1
        BY <1>2, <2>2
    <2>4. q \in Int
        BY <2>1, LineFacts DEF QuotedWord
    <2>5. /\ w.cut \subseteq {q, q + 1} /\ q \in w.cut
          /\ w.next = IF b[q + 1] = NUL THEN q + 1 ELSE q + 2
        BY <2>3, <2>4
    <2>6. WordRead(b, i, hi, w)
        BY <2>1, <2>3, <2>5, QuotedRead
    <2> QED
        BY <2>6 DEF w
<1>4. CASE line[i] # Quote
    <2>1. b[i] = line[i]
        BY PartFacts
    <2>2. ~more
        BY <1>4, <2>1 DEF Opens
    <2>3. \E s, c, n : v = [start |-> s, cut |-> c, next |-> n]
        BY DEF Scan2
    <2>4. w = v
        <3> HIDE DEF v, w, more
        <3> QED
            BY <1>2, <2>2, <2>3, ZenonT(60)
    <2>5. WordRead(b, i, hi, v)
        BY Scan2Reads
    <2> QED
        BY <2>4, <2>5
<1> QED
    BY <1>3, <1>4

\* Where the scan of 6-shell-p4 ends a word.
Ends4(b, p, n) == b[n] = NUL \/ (b[n] = Blank /\ Cardinality({k \in p..(n - 1) : b[k] = Quote}) % 2 = 0)

LEMMA End4Is ==
    ASSUME NEW b, Len(b) \in Nat, NEW p \in Nat, NEW e \in p..Len(b), Ends4(b, p, e),
           \A k \in p..(e - 1) : ~Ends4(b, p, k)
    PROVE  End4(b, p) = e
<1> DEFINE P(n) == Ends4(b, p, n) /\ \A k \in p..(n - 1) : ~Ends4(b, p, k)
           f == CHOOSE n \in p..Len(b) : P(n)
<1>1. f \in p..Len(b) /\ P(f)
    <2>1. P(e)
        OBVIOUS
    <2> HIDE DEF P
    <2> QED
        BY <2>1
<1>2. End4(b, p) = f
    BY DEF End4, Ends4
<1> HIDE DEF f
<1>3. ~(f < e) /\ ~(e < f)
    BY <1>1
<1> QED
    BY <1>1, <1>2, <1>3

LEMMA Scan4Plain ==
    ASSUME ParserAt, Tidy, shell # "p2", NEW b, NEW i, NEW hi, Unread(b, i, hi), i <= hi,
           NEW e, PlainWord(i, e)
    PROVE  Scan4(b, i) = [start |-> i, cut |-> {e}, next |-> IF b[e] = NUL THEN e ELSE e + 1]
<1>1. /\ i \in 1..hi /\ hi \in 0..Len(line) /\ Len(line) \in Nat /\ Len(b) = Len(line) + 1
      /\ b[hi + 1] = NUL /\ Sep(hi + 1)
      /\ e \in (i + 1)..(Len(line) + 1)
      /\ Sep(e)
      /\ \A k \in i..(e - 1) : line[k] \notin Delims /\ line[k] # Quote /\ ~Sep(k)
    BY PartFacts DEF PlainWord, Unread
<1>2. e <= hi + 1
    BY <1>1
<1>3. ASSUME NEW k \in i..(e - 1) PROVE b[k] # Quote /\ b[k] # NUL /\ b[k] # Blank
    <2>1. k \in i..hi
        BY <1>1, <1>2
    <2>2. b[k] = line[k] /\ b[k] # NUL /\ (line[k] \in Delims <=> line[k] = Blank)
        BY <2>1, PartFacts
    <2> QED
        BY <1>1, <2>2
<1>4. b[e] = NUL \/ b[e] = Blank
    <2>1. CASE e = hi + 1
        BY <1>1, <2>1
    <2>2. CASE e # hi + 1
        <3>1. e \in i..hi /\ e \in 1..Len(line)
            BY <1>1, <1>2, <2>2
        <3>2. line[e] \in Delims
            BY <1>1, <3>1, LineFacts
        <3> QED
            BY <3>1, <3>2, PartFacts
    <2> QED
        BY <2>1, <2>2
<1>5. {k \in i..(e - 1) : b[k] = Quote} = {}
    BY <1>3
<1>6. Ends4(b, i, e)
    <2>1. Cardinality({k \in i..(e - 1) : b[k] = Quote}) = 0
        BY <1>5, FS_EmptySet
    <2>2. Cardinality({k \in i..(e - 1) : b[k] = Quote}) % 2 = 0
        BY <2>1
    <2> QED
        BY <1>4, <2>2 DEF Ends4
<1>7. \A k \in i..(e - 1) : ~Ends4(b, i, k)
    BY <1>3 DEF Ends4
<1>8. End4(b, i) = e
    <2>1. i \in Nat /\ e \in i..Len(b) /\ Len(b) \in Nat
        BY <1>1
    <2> QED
        BY <1>6, <1>7, <2>1, End4Is
<1>9. Cuts4(b, i, e) = {e}
    <2>1. {k \in (i + 1)..e : b[k] = Quote} \subseteq {e}
        BY <1>1, <1>3
    <2> QED
        BY <2>1 DEF Cuts4
<1>10. ~Opens(b, i)
    BY <1>1, <1>3 DEF Opens
<1> QED
    BY <1>8, <1>9, <1>10 DEF Scan4

LEMMA Scan4Quoted ==
    ASSUME ParserAt, Tidy, shell # "p2", NEW b, NEW i, NEW hi, Unread(b, i, hi), i <= hi,
           NEW q, QuotedWord(i, q)
    PROVE  Scan4(b, i) = [start |-> i + 1, cut |-> {q, q + 1},
                          next |-> IF b[q + 1] = NUL THEN q + 1 ELSE q + 2]
<1>1. /\ i \in 1..hi /\ hi \in 0..Len(line) /\ Len(line) \in Nat /\ Len(b) = Len(line) + 1
      /\ Sep(hi + 1) /\ q \in (i + 1)..Len(line) /\ b[hi + 1] = NUL
      /\ line[i] = Quote /\ line[q] = Quote /\ Sep(q + 1)
      /\ \A k \in (i + 1)..(q - 1) : line[k] # Quote
      /\ \A k \in i..q : ~Sep(k)
    BY PartFacts DEF QuotedWord, Unread
<1>2. q <= hi
    BY <1>1
<1>3. b[i] = Quote /\ b[q] = Quote
    <2>1. i \in i..hi /\ q \in i..hi
        BY <1>1, <1>2
    <2> QED
        BY <1>1, <2>1, PartFacts
<1>4. ASSUME NEW k \in (i + 1)..(q - 1) PROVE b[k] # Quote /\ b[k] # NUL
    <2>1. k \in i..hi /\ line[k] # Quote
        BY <1>1, <1>2
    <2> QED
        BY <2>1, PartFacts
<1>5. b[q + 1] = NUL \/ b[q + 1] = Blank
    <2>1. CASE q = hi
        BY <1>1, <2>1
    <2>2. CASE q # hi
        <3>1. q + 1 \in i..hi /\ q + 1 \in 1..Len(line)
            BY <1>1, <1>2, <2>2
        <3>2. line[q + 1] \in Delims
            BY <1>1, <3>1, LineFacts
        <3> QED
            BY <3>1, <3>2, PartFacts
    <2> QED
        BY <2>1, <2>2
<1>6. Ends4(b, i, q + 1)
    <2>1. {k \in i..((q + 1) - 1) : b[k] = Quote} = {i, q}
        BY <1>1, <1>3, <1>4
    <2>2. i # q
        BY <1>1
    <2>3. Cardinality({i, q}) = 2
        <3>1. Cardinality({i}) = 1 /\ IsFiniteSet({i})
            BY FS_Singleton
        <3>2. {i, q} = {i} \cup {q} /\ q \notin {i}
            BY <2>2
        <3>3. Cardinality({i} \cup {q}) = Cardinality({i}) + 1
            BY <3>1, <3>2, FS_AddElement
        <3> QED
            BY <3>1, <3>2, <3>3
    <2>4. 2 % 2 = 0
        OBVIOUS
    <2> QED
        BY <1>5, <2>1, <2>3, <2>4 DEF Ends4
<1>7. ASSUME NEW k \in i..((q + 1) - 1) PROVE ~Ends4(b, i, k)
    <2>1. CASE k = i \/ k = q
        BY <1>3, <2>1 DEF Ends4, Quote, NUL, Blank
    <2>2. CASE k # i /\ k # q
        <3>1. k \in (i + 1)..(q - 1)
            BY <1>1, <2>2
        <3>2. b[k] # NUL
            BY <1>4, <3>1
        <3>3. {j \in i..(k - 1) : b[j] = Quote} = {i}
            <4>1. \A j \in (i + 1)..(k - 1) : j \in (i + 1)..(q - 1)
                BY <1>1, <3>1
            <4>2. i \in i..(k - 1) /\ \A j \in i..(k - 1) : j = i \/ j \in (i + 1)..(k - 1)
                BY <1>1, <3>1
            <4> QED
                BY <1>3, <1>4, <4>1, <4>2
        <3>4. Cardinality({i}) = 1
            BY FS_Singleton
        <3>5. ~(1 % 2 = 0)
            OBVIOUS
        <3> QED
            BY <3>2, <3>3, <3>4, <3>5 DEF Ends4
    <2> QED
        BY <2>1, <2>2
<1>8. End4(b, i) = q + 1
    <2>1. i \in Nat /\ q + 1 \in i..Len(b) /\ Len(b) \in Nat
        BY <1>1
    <2> QED
        BY <1>6, <1>7, <2>1, End4Is
<1>9. Cuts4(b, i, q + 1) = {q, q + 1}
    <2>1. q \in {k \in (i + 1)..(q + 1) : b[k] = Quote}
        BY <1>1, <1>3
    <2>2. ASSUME NEW k \in (i + 1)..(q + 1), b[k] = Quote PROVE k \in {q, q + 1}
        <3>1. ~(k \in (i + 1)..(q - 1))
            BY <1>4, <2>2
        <3> QED
            BY <1>1, <3>1
    <2> QED
        BY <2>1, <2>2 DEF Cuts4
<1>10. Opens(b, i)
    BY <1>3 DEF Opens
<1>11. (q + 1) + 1 = q + 2
    BY <1>1
<1> QED
    BY <1>8, <1>9, <1>10, <1>11 DEF Scan4

LEMMA Scan4Reads ==
    ASSUME ParserAt, Tidy, shell # "p2", NEW b, NEW i, NEW hi, Unread(b, i, hi), i <= hi,
           ~Sep(i), Sep(i - 1)
    PROVE  WordRead(b, i, hi, Scan4(b, i))
<1> DEFINE w == Scan4(b, i)
<1>1. i \in 1..Len(line)
    BY PartFacts
<1>2. CASE line[i] = Quote
    <2>1. PICK q : QuotedWord(i, q)
        BY <1>1, <1>2, QuotedWordIs
    <2>2. w = [start |-> i + 1, cut |-> {q, q + 1}, next |-> IF b[q + 1] = NUL THEN q + 1 ELSE q + 2]
        BY <2>1, Scan4Quoted
    <2>3. /\ w.start = i + 1 /\ w.cut \subseteq {q, q + 1} /\ q \in w.cut
          /\ w.next = IF b[q + 1] = NUL THEN q + 1 ELSE q + 2
        BY <2>2
    <2> HIDE DEF w
    <2>4. WordRead(b, i, hi, w)
        BY <2>1, <2>3, QuotedRead
    <2> QED
        BY <2>4 DEF w
<1>3. CASE line[i] # Quote
    <2>1. PICK e : PlainWord(i, e)
        BY <1>1, <1>3, PlainWordIs
    <2>2. w = [start |-> i, cut |-> {e}, next |-> IF b[e] = NUL THEN e ELSE e + 1]
        BY <2>1, Scan4Plain
    <2>3. w.start = i /\ w.cut = {e} /\ w.next = IF b[e] = NUL THEN e ELSE e + 1
        BY <2>2
    <2> HIDE DEF w
    <2>4. WordRead(b, i, hi, w)
        BY <2>1, <2>3, PlainRead
    <2> QED
        BY <2>4 DEF w
<1> QED
    BY <1>2, <1>3

----------------------------------------------------------------------------
(* The words of a part.                                                    *)

\* From a place between words the search finds the next word or the end.
LEMMA NextOfPart ==
    ASSUME ParserAt, Tidy, NEW b, NEW q, NEW hi, Unread(b, q, hi), AtGap(q), NEW S \in {IsSpace, {Blank}}
    PROVE  /\ Skip(b, q, S) \in q..(hi + 1)
           /\ b[Skip(b, q, S)] = NUL <=> Skip(b, q, S) = hi + 1
           /\ \A k \in q..(Skip(b, q, S) - 1) : Sep(k)
           /\ Skip(b, q, S) <= hi => ~Sep(Skip(b, q, S)) /\ Sep(Skip(b, q, S) - 1)
<1> DEFINE p == Skip(b, q, S)
<1>1. /\ Len(line) \in Nat /\ Len(b) = Len(line) + 1 /\ q \in 1..(hi + 1) /\ hi \in 0..Len(line)
      /\ b[hi + 1] = NUL /\ NUL \notin S
    BY PartFacts DEF IsSpace, NUL, Blank, Tab, CR
<1>2. p \in q..Len(b) /\ b[p] \notin S /\ \A k \in q..(p - 1) : b[k] \in S
    <2>1. q \in Nat /\ hi + 1 \in q..Len(b) /\ Len(b) \in Nat
        BY <1>1
    <2> QED
        BY <1>1, <2>1, SkipFound
<1> HIDE DEF p
<1>3. p <= hi + 1
    <2>1. ~(hi + 1 \in q..(p - 1))
        BY <1>1, <1>2
    <2> QED
        BY <1>1, <1>2, <2>1
<1>4. ASSUME NEW k \in q..(p - 1) PROVE k \in 1..Len(line) /\ line[k] = Blank
    <2>1. k \in q..hi /\ b[k] \in S
        BY <1>1, <1>2, <1>3
    <2>2. b[k] = line[k] /\ b[k] \notin {Tab, CR} /\ k \in 1..Len(line)
        BY <2>1, PartFacts
    <2> QED
        BY <2>1, <2>2 DEF IsSpace
<1>5. ASSUME NEW k \in q..p PROVE ~InQuotes(k)
    <2>1. \A n \in q..(k - 1) : line[n] # Quote
        <3>1. \A n \in q..(k - 1) : n \in q..(p - 1)
            BY <1>1, <1>2
        <3> QED
            BY <1>4, <3>1 DEF Blank, Quote
    <2>2. q \in Nat \ {0} /\ k \in Nat /\ q <= k
        BY <1>1, <1>2
    <2> QED
        BY <2>1, <2>2, NoQuotesBetween DEF AtGap
<1>6. ASSUME NEW k \in q..(p - 1) PROVE Sep(k)
    <2>1. k \in q..p
        BY <1>2
    <2> QED
        BY <1>4, <1>5, <2>1, LineFacts
<1>7. ASSUME p <= hi PROVE b[p] # NUL /\ ~Sep(p) /\ Sep(p - 1)
    <2>1. p \in q..hi /\ p \in q..p
        BY <1>1, <1>2, <1>7
    <2>2. b[p] # NUL /\ b[p] = line[p] /\ p \in 1..Len(line) /\ (line[p] \in Delims <=> line[p] = Blank)
        BY <2>1, PartFacts
    <2>3. line[p] # Blank
        BY <1>2, <2>2 DEF IsSpace
    <2>4. ~Sep(p)
        BY <2>2, <2>3, LineFacts
    <2>5. Sep(p - 1)
        <3>1. CASE p = q
            BY <2>4, <3>1 DEF AtGap
        <3>2. CASE p # q
            <4>1. p - 1 \in q..(p - 1)
                BY <1>1, <1>2, <3>2
            <4> QED
                BY <1>6, <4>1
        <3> QED
            BY <3>1, <3>2
    <2> QED
        BY <2>2, <2>4, <2>5
<1>8. p = hi + 1 \/ p <= hi
    BY <1>1, <1>2, <1>3
<1>9. b[p] = NUL <=> p = hi + 1
    BY <1>1, <1>7, <1>8
<1> QED
    BY <1>2, <1>3, <1>6, <1>7, <1>9 DEF p

\* A word is in its part; no end of a word is inside it.
LEMMA WordBounds ==
    ASSUME ParserAt, Tidy, NEW i \in 1..Len(line), ~Sep(i), Sep(i - 1),
           NEW hi \in i..Len(line), Sep(hi + 1)
    PROVE  /\ Word(i) = <<Word(i)[1], Word(i)[2]>>
           /\ Word(i)[1] \in i..(i + 1) /\ Word(i)[2] \in Word(i)[1]..(hi + 1)
           /\ \A k \in Word(i)[1]..(Word(i)[2] - 1) : /\ k \in 1..Len(line)
                                                      /\ ~Sep(k) /\ line[k] # Quote
<1>1. Len(line) \in Nat
    BY LineFacts
<1>2. CASE line[i] = Quote
    <2>1. PICK q : QuotedWord(i, q)
        BY <1>2, QuotedWordIs
    <2>2. /\ q \in (i + 1)..Len(line) /\ Word(i) = <<i + 1, q>>
          /\ \A k \in i..q : ~Sep(k)
          /\ \A k \in (i + 1)..(q - 1) : line[k] # Quote
        BY <2>1 DEF QuotedWord
    <2>3. q <= hi
        BY <1>1, <2>2
    <2> QED
        BY <1>1, <2>2, <2>3
<1>3. CASE line[i] # Quote
    <2>1. PICK e : PlainWord(i, e)
        BY <1>3, PlainWordIs
    <2>2. /\ e \in (i + 1)..(Len(line) + 1) /\ Word(i) = <<i, e>>
          /\ \A k \in i..(e - 1) : ~Sep(k) /\ line[k] # Quote
        BY <2>1 DEF PlainWord
    <2>3. e <= hi + 1
        BY <1>1, <2>2
    <2> QED
        BY <1>1, <2>2, <2>3
<1> QED
    BY <1>2, <1>3

\* A part of the line, or the line of 3-shellp2.
IsPart(lo, hi) ==
    /\ lo \in 1..(hi + 1) /\ hi \in 0..Len(line)
    /\ Sep(lo - 1) /\ Sep(hi + 1)
    /\ \A k \in lo..hi : shell # "p2" => line[k] # Bar

LEMMA WordsInAre ==
    ASSUME ParserAt, Tidy, NEW lo, NEW hi, IsPart(lo, hi)
    PROVE  /\ WordStarts(lo, hi) \in SUBSET (1..Len(line)) /\ WordStarts(lo, hi) \in SUBSET Nat
           /\ IsFiniteSet(WordStarts(lo, hi))
           /\ Cardinality(WordStarts(lo, hi)) \in 0..Len(line)
           /\ DOMAIN WordsIn(lo, hi) = 1..Cardinality(WordStarts(lo, hi))
           /\ Len(WordsIn(lo, hi)) = Cardinality(WordStarts(lo, hi))
           /\ WordsIn(lo, hi) \in Seq(Nat \X Nat)
           /\ \A n \in 1..Cardinality(WordStarts(lo, hi)) :
                 /\ InOrder(WordStarts(lo, hi))[n] \in WordStarts(lo, hi)
                 /\ WordsIn(lo, hi)[n] = Word(InOrder(WordStarts(lo, hi))[n])
<1> DEFINE S == WordStarts(lo, hi)
           c == Cardinality(S)
<1>1. lo \in 1..(hi + 1) /\ hi \in 0..Len(line) /\ Sep(hi + 1) /\ Len(line) \in Nat
    BY LineFacts DEF IsPart
<1>2. S \in SUBSET (1..Len(line)) /\ S \in SUBSET (DOMAIN line)
    BY <1>1, LineFacts DEF WordStarts
<1>3. S \in SUBSET Nat /\ IsFiniteSet(S) /\ c \in Nat /\ c <= Len(line)
    <2>1. line \in Seq(Chars)
        BY DEF ParserAt
    <2> HIDE DEF S
    <2> QED
        BY <1>2, <2>1, PositionsFinite
<1> HIDE DEF c
<1>4. DOMAIN InOrder(S) = 1..c /\ \A n \in 1..c : InOrder(S)[n] \in S
    <2> HIDE DEF S
    <2> QED
        BY <1>3, OrderIs DEF c
<1>5. WordsIn(lo, hi) = [n \in 1..c |-> Word(InOrder(S)[n])]
    BY <1>4 DEF WordsIn, WordStarts
<1>6. ASSUME NEW n \in 1..c PROVE Word(InOrder(S)[n]) \in Nat \X Nat
    <2> DEFINE i == InOrder(S)[n]
    <2>1. i \in lo..hi /\ ~Sep(i) /\ Sep(i - 1)
        BY <1>4 DEF WordStarts
    <2> HIDE DEF i
    <2>2. i \in 1..Len(line) /\ hi \in i..Len(line)
        BY <1>1, <2>1
    <2>3. /\ Word(i) = <<Word(i)[1], Word(i)[2]>>
          /\ Word(i)[1] \in i..(i + 1) /\ Word(i)[2] \in Word(i)[1]..(hi + 1)
        BY <1>1, <2>1, <2>2, WordBounds
    <2>4. Word(i)[1] \in Nat /\ Word(i)[2] \in Nat
        BY <1>1, <2>2, <2>3
    <2> QED
        BY <2>3, <2>4 DEF i
<1> HIDE DEF S
<1>7. WordsIn(lo, hi) \in Seq(Nat \X Nat) /\ Len(WordsIn(lo, hi)) = c /\ DOMAIN WordsIn(lo, hi) = 1..c
    BY <1>3, <1>5, <1>6
<1>8. c \in 0..Len(line)
    BY <1>1, <1>3
<1>9. \A n \in 1..c : InOrder(S)[n] \in S /\ WordsIn(lo, hi)[n] = Word(InOrder(S)[n])
    BY <1>4, <1>5
<1> QED
    BY <1>2, <1>3, <1>7, <1>8, <1>9 DEF S, c

----------------------------------------------------------------------------
(* While the line is the same, so is what it means.                        *)

LEMMA SameMeaning ==
    ASSUME line' = line, shell' = shell
    PROVE  /\ Parts' = Parts /\ Meant' = Meant /\ Limit' = Limit
           /\ WellQuoted' <=> WellQuoted
           /\ Tidy' <=> Tidy
BY DEF Parts, Meant, Limit, WellQuoted, Tidy, WordsIn, Word, Sep, InQuotes, Delims

LEMMA SameAllTaken ==
    ASSUME line' = line, shell' = shell
    PROVE  AllTaken(buf, clist)' <=> AllTaken(buf', clist')
<1>1. Meant' = Meant /\ Parts' = Parts /\ Limit' = Limit
    BY SameMeaning
<1> QED
    BY <1>1 DEF AllTaken, Taken, Sorted, FilesOf, ArgsOf, OpensFile, FieldOf, WordsStored, Room

LEMMA SameSorted ==
    ASSUME line' = line, shell' = shell
    PROVE  Sorted(cmd, Meant[Len(clist) + 1], cmd.next - 1)'
               <=> Sorted(cmd', Meant[Len(clist') + 1], cmd'.next - 1)
<1>1. Meant' = Meant
    BY SameMeaning
<1> QED
    BY <1>1 DEF Sorted, FilesOf, ArgsOf, OpensFile, FieldOf

LEMMA SameRead ==
    ASSUME line' = line, shell' = shell
    PROVE  ReadSoFar(buf, argv, ptr, Parts[Len(clist) + 1][1], Parts[Len(clist) + 1][2])'
               <=> ReadSoFar(buf', argv', ptr', Parts[Len(clist') + 1][1], Parts[Len(clist') + 1][2])
<1>1. Parts' = Parts
    BY SameMeaning
<1>2. WordStarts(Parts[Len(clist) + 1][1], Parts[Len(clist) + 1][2])'
          = WordStarts(Parts[Len(clist') + 1][1], Parts[Len(clist') + 1][2])
    BY <1>1 DEF WordStarts, Sep, InQuotes, Delims
<1>3. WordsIn(Parts[Len(clist) + 1][1], Parts[Len(clist) + 1][2])'
          = WordsIn(Parts[Len(clist') + 1][1], Parts[Len(clist') + 1][2])
    BY <1>1 DEF WordsIn, Word, Sep, InQuotes, Delims
<1>4. AtGap(ptr)' <=> AtGap(ptr')
    BY DEF AtGap, Sep, InQuotes, Delims
<1> QED
    BY <1>1, <1>2, <1>3, <1>4 DEF ReadSoFar, Passed, WordsStored, Room

LEMMA SameParsed ==
    ASSUME line' = line, shell' = shell
    PROVE  Parsed(buf, save, ptr, argv, cmd, clist, ppc, rc)'
               <=> Parsed(buf', save', ptr', argv', cmd', clist', ppc', rc')
<1>1. Meant' = Meant /\ Parts' = Parts
    BY SameMeaning
<1>2. Intact(buf)' <=> Intact(buf')
    BY DEF Intact, Sep, InQuotes, Delims
<1>3. InList(buf, save, Len(clist))' <=> InList(buf', save', Len(clist'))
    BY DEF InList, Passed, PartStarts, IsBar
<1>4. InPart(buf, save, Len(clist) + 1)' <=> InPart(buf', save', Len(clist') + 1)
    BY DEF InPart, InList, Passed, PartStarts, IsBar, Parts
<1>5. WordsStored(buf, argv, Meant[Len(clist) + 1])' <=> WordsStored(buf', argv', Meant[Len(clist') + 1])
    BY <1>1 DEF WordsStored
<1>6. ParsingOutcome(clist, rc)' <=> ParsingOutcome(clist', rc')
    BY <1>1, SameMeaning DEF ParsingOutcome
<1>7. Refused(shell, line)' <=> Refused(shell, line)
    BY DEF Refused
<1> QED
    BY <1>1, <1>2, <1>3, <1>4, <1>5, <1>6, <1>7, SameAllTaken, SameSorted, SameRead DEF Parsed

----------------------------------------------------------------------------
(* The parts of a tidy line.                                               *)

\* The bar at or behind i, or the end.
BarBehind(i) == CHOOSE j \in i..(Len(line) + 1) : IsBar(j) /\ \A k \in i..(j - 1) : ~IsBar(k)

LEMMA BarBehindIs ==
    ASSUME ParserAt, NEW i \in 1..(Len(line) + 1)
    PROVE  /\ BarBehind(i) \in i..(Len(line) + 1) /\ IsBar(BarBehind(i))
           /\ \A k \in i..(BarBehind(i) - 1) : ~IsBar(k)
           /\ \A e \in i..(Len(line) + 1) :
                 IsBar(e) /\ (\A k \in i..(e - 1) : ~IsBar(k)) => BarBehind(i) = e
<1> DEFINE P(j) == IsBar(j) /\ \A k \in i..(j - 1) : ~IsBar(k)
           f == BarBehind(i)
           T == {j \in Nat : i <= j /\ IsBar(j)}
<1>1. Len(line) \in Nat /\ DOMAIN line = 1..Len(line)
    BY LineFacts
<1>2. Len(line) + 1 \in T /\ T \in SUBSET Nat
    BY <1>1 DEF IsBar
<1>3. PICK m \in T : \A n \in T : m <= n
    BY <1>2, LeastNat
<1>4. m \in i..(Len(line) + 1) /\ P(m)
    <2>1. m \in i..(Len(line) + 1) /\ IsBar(m)
        BY <1>1, <1>2, <1>3
    <2>2. ASSUME NEW k \in i..(m - 1) PROVE ~IsBar(k)
        <3>1. k \in Nat /\ i <= k /\ ~(m <= k)
            BY <2>1
        <3> QED
            BY <1>3, <3>1
    <2> QED
        BY <2>1, <2>2
<1>5. f = CHOOSE j \in i..(Len(line) + 1) : P(j)
    BY DEF BarBehind
<1> HIDE DEF f
<1>6. f \in i..(Len(line) + 1) /\ P(f)
    <2> HIDE DEF P
    <2> QED
        BY <1>4, <1>5
<1>7. ASSUME NEW e \in i..(Len(line) + 1), P(e) PROVE f = e
    <2>1. ~(f < e) /\ ~(e < f)
        BY <1>6, <1>7
    <2> QED
        BY <1>6, <2>1
<1> QED
    BY <1>6, <1>7 DEF f

LEMMA BarSeparates ==
    ASSUME ParserAt, Tidy, shell # "p2", NEW k \in Int, IsBar(k)
    PROVE  Sep(k)
<1>1. CASE k \in 1..Len(line)
    <2>1. line[k] = Bar /\ ~InQuotes(k) /\ Bar \in Delims
        BY <1>1, LineFacts DEF IsBar, Tidy, Delims
    <2> QED
        BY <1>1, <2>1, LineFacts
<1>2. CASE k \notin 1..Len(line)
    BY <1>2, LineFacts DEF Sep
<1> QED
    BY <1>1, <1>2

LEMMA PartStartsAre ==
    ASSUME ParserAt
    PROVE  /\ PartStarts \in SUBSET (1..Len(line)) /\ PartStarts \in SUBSET Nat
           /\ IsFiniteSet(PartStarts) /\ Cardinality(PartStarts) \in Nat
<1>1. PartStarts \in SUBSET (DOMAIN line) /\ DOMAIN line = 1..Len(line)
    BY LineFacts DEF PartStarts
<1>2. line \in Seq(Chars)
    BY DEF ParserAt
<1> QED
    BY <1>1, <1>2, PositionsFinite

LEMMA PartsAre ==
    ASSUME ParserAt, shell # "p2"
    PROVE  /\ DOMAIN Parts = 1..Cardinality(PartStarts) /\ Len(Parts) = Cardinality(PartStarts)
           /\ \A n \in 1..Cardinality(PartStarts) :
                 /\ InOrder(PartStarts)[n] \in PartStarts
                 /\ Parts[n] = <<InOrder(PartStarts)[n], BarBehind(InOrder(PartStarts)[n]) - 1>>
<1> DEFINE c == Cardinality(PartStarts)
           o == InOrder(PartStarts)
           p == [n \in 1..c |-> <<o[n], BarBehind(o[n]) - 1>>]
<1>1. c \in Nat /\ DOMAIN o = 1..c /\ \A n \in 1..c : o[n] \in PartStarts
    BY PartStartsAre, OrderIs
<1>2. Parts = p
    BY <1>1 DEF Parts, PartStarts, IsBar, BarBehind
<1> HIDE DEF c, o
<1>3. DOMAIN p = 1..c /\ Len(p) = c
    BY <1>1
<1>4. \A n \in 1..c : p[n] = <<o[n], BarBehind(o[n]) - 1>>
    OBVIOUS
<1> QED
    BY <1>1, <1>2, <1>3, <1>4 DEF c, o

\* Each part is one, and means the words in it.
LEMMA MeantIs ==
    ASSUME ParserAt, Tidy
    PROVE  /\ DOMAIN Meant = DOMAIN Parts /\ Len(Meant) = Len(Parts) /\ Len(Parts) \in Nat
           /\ DOMAIN Parts = 1..Len(Parts)
           /\ shell = "p2" => Len(Parts) = 1 /\ Parts[1][1] = 1 /\ Parts[1][2] = Len(line)
           /\ \A n \in DOMAIN Parts : /\ IsPart(Parts[n][1], Parts[n][2])
                                      /\ Meant[n] = WordsIn(Parts[n][1], Parts[n][2])
<1>1. Len(line) \in Nat
    BY LineFacts
<1>2. /\ DOMAIN Parts = 1..Len(Parts) /\ Len(Parts) \in Nat
      /\ \A n \in DOMAIN Parts : IsPart(Parts[n][1], Parts[n][2])
      /\ shell = "p2" => Len(Parts) = 1 /\ Parts[1][1] = 1 /\ Parts[1][2] = Len(line)
    <2>1. CASE shell = "p2"
        <3>1. Parts = << <<1, Len(line)>> >>
            BY <2>1 DEF Parts
        <3>2. Sep(1 - 1) /\ Sep(Len(line) + 1)
            BY <1>1, LineFacts
        <3>3. IsPart(1, Len(line))
            BY <1>1, <2>1, <3>2 DEF IsPart
        <3> QED
            BY <1>1, <3>1, <3>3
    <2>2. CASE shell # "p2"
        <3>1. /\ DOMAIN Parts = 1..Len(Parts) /\ Len(Parts) \in Nat
            BY <2>2, PartsAre, PartStartsAre
        <3>2. ASSUME NEW n \in DOMAIN Parts PROVE IsPart(Parts[n][1], Parts[n][2])
            <4> DEFINE i == InOrder(PartStarts)[n]
                       e == BarBehind(i)
            <4>1. Parts[n] = <<i, e - 1>> /\ i \in PartStarts
                BY <2>2, PartsAre
            <4> HIDE DEF i
            <4>2. i \in 1..Len(line) /\ ~IsBar(i) /\ IsBar(i - 1)
                BY <1>1, <4>1, PartStartsAre DEF PartStarts
            <4>3. e \in i..(Len(line) + 1) /\ IsBar(e) /\ \A k \in i..(e - 1) : ~IsBar(k)
                BY <1>1, <4>2, BarBehindIs
            <4> HIDE DEF e
            <4>4. Sep(e) /\ Sep(i - 1)
                BY <2>2, <4>2, <4>3, BarSeparates
            <4>5. \A k \in i..(e - 1) : line[k] # Bar
                BY <4>3 DEF IsBar
            <4>6. IsPart(i, e - 1)
                <5>1. (e - 1) + 1 = e /\ i \in 1..e /\ e - 1 \in 0..Len(line)
                    BY <1>1, <4>2, <4>3
                <5> QED
                    BY <4>4, <4>5, <5>1 DEF IsPart
            <4> QED
                BY <4>1, <4>6
        <3> QED
            BY <2>2, <3>1, <3>2
    <2> QED
        BY <2>1, <2>2
<1>3. Meant = [n \in DOMAIN Parts |-> WordsIn(Parts[n][1], Parts[n][2])]
    BY DEF Meant
<1>4. DOMAIN Meant = DOMAIN Parts /\ Len(Meant) = Len(Parts)
    BY <1>2, <1>3
<1>5. \A n \in DOMAIN Parts : Meant[n] = WordsIn(Parts[n][1], Parts[n][2])
    BY <1>3
<1> QED
    BY <1>2, <1>4, <1>5

----------------------------------------------------------------------------
(* Reading a part.                                                         *)

LEMMA WordAtIs ==
    ASSUME ParserAt, Tidy, NEW lo, NEW hi, IsPart(lo, hi), NEW n \in 1..Len(WordsIn(lo, hi))
    PROVE  LET w == WordsIn(lo, hi)[n] i == InOrder(WordStarts(lo, hi))[n]
           IN  /\ i \in lo..hi /\ i \in 1..Len(line) /\ ~Sep(i) /\ Sep(i - 1) /\ w = Word(i)
               /\ w = <<w[1], w[2]>>
               /\ w[1] \in i..(i + 1) /\ w[2] \in w[1]..(hi + 1)
               /\ w[1] \in 1..(Len(line) + 1) /\ w[2] \in 1..(Len(line) + 1)
               /\ \A k \in w[1]..(w[2] - 1) : k \in 1..Len(line) /\ ~Sep(k) /\ line[k] # Quote
<1> DEFINE w == WordsIn(lo, hi)[n]
           i == InOrder(WordStarts(lo, hi))[n]
<1>1. i \in WordStarts(lo, hi) /\ w = Word(i)
    BY WordsInAre
<1>2. lo \in 1..(hi + 1) /\ hi \in 0..Len(line) /\ Len(line) \in Nat /\ Sep(hi + 1)
    BY LineFacts DEF IsPart
<1> HIDE DEF i, w
<1>3. i \in lo..hi /\ i \in 1..Len(line) /\ hi \in i..Len(line) /\ ~Sep(i) /\ Sep(i - 1)
    BY <1>1, <1>2 DEF WordStarts
<1>4. /\ w = <<w[1], w[2]>> /\ w[1] \in i..(i + 1) /\ w[2] \in w[1]..(hi + 1)
      /\ \A k \in w[1]..(w[2] - 1) : k \in 1..Len(line) /\ ~Sep(k) /\ line[k] # Quote
    BY <1>1, <1>2, <1>3, WordBounds
<1>5. w[1] \in 1..(Len(line) + 1) /\ w[2] \in 1..(Len(line) + 1)
    BY <1>2, <1>3, <1>4
<1> QED
    BY <1>1, <1>3, <1>4, <1>5 DEF i, w

LEMMA StillStored ==
    ASSUME NEW b \in LineText, NEW at, NEW av, NEW ws, WordsStored(b, av, ws),
           \A k \in 1..Len(av) : ws[k][2] \in 1..Len(b)
    PROVE  WordsStored(Cut(b, at), av, ws)
<1> SUFFICES ASSUME NEW k \in 1..Len(av) PROVE av[k] = ws[k][1] /\ Cut(b, at)[ws[k][2]] = NUL
    BY DEF WordsStored
<1>1. av[k] = ws[k][1] /\ b[ws[k][2]] = NUL /\ ws[k][2] \in 1..Len(b)
    BY DEF WordsStored
<1> QED
    BY <1>1, CutText

LEMMA StillTaken ==
    ASSUME ParserAt, Tidy, NEW b \in LineText, Len(b) = Len(line) + 1, NEW cs, NEW at, AllTaken(b, cs)
    PROVE  AllTaken(Cut(b, at), cs)
<1> SUFFICES ASSUME NEW n \in 1..Len(cs), n \in DOMAIN Parts, Taken(b, cs[n], Meant[n])
             PROVE  Taken(Cut(b, at), cs[n], Meant[n])
    BY DEF AllTaken
<1> DEFINE ws == Meant[n]
           c == cs[n]
<1>1. IsPart(Parts[n][1], Parts[n][2]) /\ ws = WordsIn(Parts[n][1], Parts[n][2])
    BY MeantIs
<1>2. \A k \in 1..Len(ws) : ws[k][2] \in 1..Len(b)
    BY <1>1, WordAtIs
<1>3. Len(ws) \in Nat
    BY <1>1, WordsInAre
<1> HIDE DEF ws, c
<1>4. CASE shell = "p3"
    <2>1. (\A k \in 1..Len(ws) : b[ws[k][2]] = NUL) /\ Sorted(c, ws, Len(ws))
        BY <1>4 DEF Taken, c, ws
    <2>2. \A k \in 1..Len(ws) : Cut(b, at)[ws[k][2]] = NUL
        BY <1>2, <2>1, CutText
    <2> QED
        BY <1>4, <2>1, <2>2 DEF Taken, c, ws
<1>5. CASE shell # "p3"
    <2>1. Len(c.argv) = Room(Len(ws)) /\ WordsStored(b, c.argv, ws)
        BY <1>5 DEF Taken, c, ws
    <2>2. \A k \in 1..Len(c.argv) : k \in 1..Len(ws)
        BY <1>3, <2>1, LineAssumption DEF Room, ARGV_MAX
    <2>3. WordsStored(Cut(b, at), c.argv, ws)
        BY <1>2, <2>1, <2>2, StillStored
    <2> QED
        BY <1>5, <2>1, <2>3 DEF Taken, c, ws
<1> QED
    BY <1>4, <1>5

LEMMA StillUnread ==
    ASSUME ParserAt, NEW b \in LineText, Len(b) = Len(line) + 1, NEW lo, NEW hi, IsPart(lo, hi),
           NEW av, NEW q, ReadSoFar(b, av, q, lo, hi)
    PROVE  Unread(b, q, hi) /\ AtGap(q)
<1>1. lo \in 1..(hi + 1) /\ hi \in 0..Len(line) /\ q \in lo..(hi + 1)
    BY DEF IsPart, ReadSoFar
<1>2. q \in 1..(hi + 1) /\ \A k \in q..hi : k \in lo..hi
    BY <1>1
<1> QED
    BY <1>1, <1>2 DEF IsPart, ReadSoFar, Unread

\* What a turn of the loops stores.
Stores(av, p) == IF shell = "p2" /\ ~(Len(av) < ARGV_MAX - 1) THEN av ELSE Append(av, p)

\* A turn reads the next word of the part, and nothing but it.
LEMMA ReadOne ==
    ASSUME ParserAt, Tidy, NEW b \in LineText, Len(b) = Len(line) + 1, Intact(b),
           NEW lo, NEW hi, IsPart(lo, hi), NEW av \in Seq(Nat), NEW q, ReadSoFar(b, av, q, lo, hi),
           NEW S \in {IsSpace, {Blank}}, b[Skip(b, q, S)] # NUL,
           NEW w, WordRead(b, Skip(b, q, S), hi, w)
    PROVE  /\ ReadSoFar(Cut(b, w.cut), Stores(av, w.start), w.next, lo, hi)
           /\ Intact(Cut(b, w.cut))
           /\ \A k \in w.cut : k \in 1..(hi + 1)
           /\ shell # "p2" => Len(av) + 1 <= Len(WordsIn(lo, hi))
<1> DEFINE p == Skip(b, q, S)
           c == Cut(b, w.cut)
           T == WordStarts(lo, hi)
           ws == WordsIn(lo, hi)
           bv == Stores(av, w.start)
<1>1. /\ lo \in 1..(hi + 1) /\ hi \in 0..Len(line) /\ q \in lo..(hi + 1) /\ Len(line) \in Nat
      /\ b[hi + 1] = NUL
      /\ \A k \in q..hi : b[k] = line[k]
    BY LineFacts DEF IsPart, ReadSoFar
<1>2. Unread(b, q, hi) /\ AtGap(q)
    BY StillUnread
<1>3. /\ p \in q..hi /\ ~Sep(p) /\ Sep(p - 1)
      /\ \A k \in q..(p - 1) : Sep(k)
    <2>1. p \in q..(hi + 1) /\ p # hi + 1
        BY <1>2, NextOfPart
    <2>2. p \in q..hi /\ p <= hi
        BY <1>1, <2>1
    <2>3. p <= hi => ~Sep(p) /\ Sep(p - 1)
        BY <1>2, NextOfPart
    <2>4. \A k \in q..(p - 1) : Sep(k)
        BY <1>2, NextOfPart
    <2> QED
        BY <2>2, <2>3, <2>4
<1>4. /\ w.start = Word(p)[1] /\ Word(p)[2] \in w.cut
      /\ w.next \in (p + 1)..(hi + 1)
      /\ \A k \in w.cut : k \in 1..(hi + 1) /\ (k < w.next \/ b[k] = NUL) /\ (Sep(k) \/ line[k] = Quote)
      /\ AtGap(w.next)
      /\ \A k \in (p + 1)..(w.next - 1) : Sep(k) \/ ~Sep(k - 1)
    BY DEF WordRead
<1> HIDE DEF p, T, ws
<1>5. c \in LineText /\ Len(c) = Len(b) /\ \A k \in 1..Len(b) : c[k] = IF k \in w.cut THEN NUL ELSE b[k]
    BY CutText
<1> HIDE DEF c
<1>6. PICK m \in 0..Cardinality(T) : Passed(T, q, m) /\ Len(av) = Room(m)
    BY DEF ReadSoFar, T
<1>7. T \in SUBSET Nat /\ IsFiniteSet(T) /\ Cardinality(T) \in Nat /\ Len(ws) = Cardinality(T)
    BY WordsInAre DEF T, ws
<1>8. m \in Nat /\ m + 1 \in 1..Cardinality(T) /\ InOrder(T)[m + 1] = p /\ Passed(T, w.next, m + 1)
    <2>1. p \in T
        BY <1>1, <1>3 DEF T, WordStarts
    <2>2. ASSUME NEW k \in T, k < w.next PROVE k < q \/ k = p
        <3>1. k \in lo..hi /\ ~Sep(k) /\ Sep(k - 1)
            BY <2>2 DEF T, WordStarts
        <3>2. ~(k \in q..(p - 1)) /\ ~(k \in (p + 1)..(w.next - 1))
            BY <1>3, <1>4, <3>1
        <3> QED
            BY <1>1, <1>3, <1>4, <2>2, <3>1, <3>2
    <2>3. q \in Nat /\ w.next \in Nat /\ q <= p /\ p < w.next
        BY <1>1, <1>3, <1>4
    <2> QED
        BY <1>6, <1>7, <2>1, <2>2, <2>3, PassedOne
<1>9. ws[m + 1] = Word(p) /\ Word(p)[2] \in 1..Len(b)
    <2>1. m + 1 \in 1..Len(ws)
        BY <1>7, <1>8
    <2> QED
        BY <1>8, <2>1, WordAtIs DEF T, ws
<1>10. \A k \in w.next..hi : c[k] = line[k]
    <2> SUFFICES ASSUME NEW k \in w.next..hi PROVE c[k] = line[k]
        OBVIOUS
    <2>1. k \in q..hi /\ k \in 1..Len(b) /\ k \in 1..Len(line)
        BY <1>1, <1>3, <1>4, SMTT(30)
    <2>2. b[k] = line[k] /\ b[k] # NUL
        BY <1>1, <2>1, LineFacts
    <2>3. k \notin w.cut
        <3>1. w.next \in Int /\ k \in Int /\ ~(k < w.next)
            BY <1>1, <1>3, <1>4
        <3> QED
            BY <1>4, <2>2, <3>1
    <2> QED
        BY <1>5, <2>1, <2>2, <2>3
<1>11. ARGV_MAX - 1 \in Nat
    BY LineAssumption DEF ARGV_MAX
<1>12. Len(bv) = Room(m + 1) /\ Len(av) \in Nat
    BY <1>6, <1>8, <1>11 DEF Room, Stores
<1>13. WordsStored(c, av, ws)
    <2>1. WordsStored(b, av, ws)
        BY DEF ReadSoFar, ws
    <2>2. \A k \in 1..Len(av) : k \in 1..Len(ws)
        BY <1>6, <1>7, <1>8, <1>11 DEF Room
    <2>3. \A k \in 1..Len(av) : ws[k][2] \in 1..Len(b)
        BY <2>2, WordAtIs DEF ws
    <2> QED
        BY <2>1, <2>3, StillStored DEF c
<1>14. WordsStored(c, bv, ws)
    <2>1. CASE bv = av
        BY <1>13, <2>1
    <2>2. CASE bv # av
        <3>1. bv = Append(av, w.start) /\ Len(av) = m
            BY <1>6, <1>8, <1>11, <2>2 DEF Room, Stores
        <3>2. Len(bv) = m + 1 /\ bv[m + 1] = w.start /\ \A k \in 1..m : bv[k] = av[k]
            BY <1>12, <3>1
        <3>3. bv[m + 1] = ws[m + 1][1] /\ c[ws[m + 1][2]] = NUL
            BY <1>4, <1>5, <1>9, <3>2
        <3>4. ASSUME NEW k \in 1..Len(bv) PROVE bv[k] = ws[k][1] /\ c[ws[k][2]] = NUL
            <4>1. CASE k = m + 1
                BY <3>3, <4>1
            <4>2. CASE k # m + 1
                <5>1. k \in 1..Len(av) /\ bv[k] = av[k]
                    BY <1>8, <3>1, <3>2, <4>2
                <5> QED
                    BY <1>13, <5>1 DEF WordsStored
            <4> QED
                BY <4>1, <4>2
        <3> QED
            BY <3>4 DEF WordsStored
    <2> QED
        BY <2>1, <2>2
<1>15. ReadSoFar(c, bv, w.next, lo, hi)
    <2>1. w.next \in lo..(hi + 1)
        BY <1>1, <1>3, <1>4
    <2>2. c[hi + 1] = NUL
        <3>1. hi + 1 \in 1..Len(b)
            BY <1>1
        <3> QED
            BY <1>1, <1>5, <3>1
    <2>3. m + 1 \in 0..Cardinality(T)
        BY <1>7, <1>8
    <2> QED
        BY <1>4, <1>8, <1>10, <1>12, <1>14, <2>1, <2>2, <2>3 DEF ReadSoFar, T, ws
<1>16. Intact(c)
    <2> SUFFICES ASSUME NEW k \in 1..Len(line)
                 PROVE  c[k] = line[k] \/ (c[k] = NUL /\ (Sep(k) \/ line[k] = Quote))
        BY DEF Intact
    <2>1. k \in 1..Len(b) /\ (b[k] = line[k] \/ (b[k] = NUL /\ (Sep(k) \/ line[k] = Quote)))
        BY <1>1 DEF Intact
    <2> QED
        BY <1>4, <1>5, <2>1
<1>17. shell # "p2" => Len(av) + 1 <= Len(ws)
    BY <1>6, <1>7, <1>8 DEF Room
<1> QED
    BY <1>4, <1>15, <1>16, <1>17 DEF c, ws

\* At the end of a part all its words are read.
LEMMA AllRead ==
    ASSUME ParserAt, Tidy, NEW b \in LineText, Len(b) = Len(line) + 1,
           NEW lo, NEW hi, IsPart(lo, hi), NEW av, NEW q, ReadSoFar(b, av, q, lo, hi),
           NEW S \in {IsSpace, {Blank}}, b[Skip(b, q, S)] = NUL
    PROVE  Len(av) = Room(Len(WordsIn(lo, hi)))
<1> DEFINE T == WordStarts(lo, hi)
<1>1. lo \in 1..(hi + 1) /\ hi \in 0..Len(line) /\ q \in lo..(hi + 1) /\ Len(line) \in Nat
    BY LineFacts DEF IsPart, ReadSoFar
<1>2. Unread(b, q, hi) /\ AtGap(q)
    BY StillUnread
<1>3. \A k \in q..hi : Sep(k)
    <2>1. Skip(b, q, S) = hi + 1 /\ \A k \in q..(Skip(b, q, S) - 1) : Sep(k)
        BY <1>2, NextOfPart
    <2> QED
        BY <1>1, <2>1
<1>4. T \in SUBSET Nat /\ IsFiniteSet(T) /\ Len(WordsIn(lo, hi)) = Cardinality(T)
    BY WordsInAre
<1>5. PICK m \in 0..Cardinality(T) : Passed(T, q, m) /\ Len(av) = Room(m)
    BY DEF ReadSoFar
<1>6. \A k \in T : k < q
    BY <1>1, <1>3 DEF WordStarts
<1> HIDE DEF T
<1>7. m = Cardinality(T)
    <2>1. q \in Nat
        BY <1>1
    <2> QED
        BY <1>4, <1>5, <1>6, <2>1, PassedAll
<1> QED
    BY <1>4, <1>5, <1>7

----------------------------------------------------------------------------
(* The head of build_cmd_list's loop.                                      *)

\* Before the first word nothing is read.
LEMMA ReadNone ==
    ASSUME ParserAt, Tidy, NEW b, NEW lo, NEW hi, IsPart(lo, hi), b[hi + 1] = NUL,
           \A k \in lo..hi : b[k] = line[k]
    PROVE  ReadSoFar(b, <<>>, lo, lo, hi)
<1> DEFINE T == WordStarts(lo, hi)
<1>1. lo \in 1..(hi + 1) /\ hi \in 0..Len(line) /\ Len(line) \in Nat /\ Sep(lo - 1)
    BY LineFacts DEF IsPart
<1>2. AtGap(lo)
    <2>1. lo \in 1..(Len(line) + 1)
        BY <1>1
    <2> QED
        BY <1>1, <2>1, NotQuotedAt DEF AtGap
<1>3. T \in SUBSET Nat /\ IsFiniteSet(T) /\ Cardinality(T) \in Nat
    BY WordsInAre
<1>4. \A p \in T : lo <= p
    BY <1>1 DEF WordStarts
<1> HIDE DEF T
<1>5. Passed(T, lo, 0)
    BY <1>1, <1>3, <1>4, PassedNone
<1>6. Len(<<>>) = Room(0)
    BY LineAssumption DEF Room, ARGV_MAX
<1>7. WordsStored(b, <<>>, WordsIn(lo, hi))
    BY DEF WordsStored
<1> QED
    BY <1>1, <1>2, <1>3, <1>5, <1>6, <1>7 DEF ReadSoFar, T

LEMMA NoMoreParts ==
    ASSUME ParserAt, shell # "p2", NEW b \in LineText, Len(b) = Len(line) + 1,
           NEW s \in 1..Len(b), NEW n, InList(b, s, n), b[Skip(b, s, {Bar})] = NUL
    PROVE  n = Len(Parts)
<1> DEFINE t == Skip(b, s, {Bar})
<1>1. Len(line) \in Nat /\ \A k \in s..Len(line) : b[k] = line[k] /\ b[k] # NUL /\ k \in DOMAIN line
    BY LineFacts DEF InList
<1>2. t \in s..Len(b) /\ \A k \in s..(t - 1) : b[k] \in {Bar}
    <2>1. s \in Nat /\ Len(b) \in s..Len(b) /\ b[Len(b)] \notin {Bar} /\ Len(b) \in Nat
        BY <1>1 DEF LineText, NUL, Bar
    <2> QED
        BY <2>1, SkipFound
<1>3. b[t] = NUL
    OBVIOUS
<1> HIDE DEF t
<1>4. t = Len(line) + 1
    BY <1>1, <1>2, <1>3
<1>5. ASSUME NEW p \in PartStarts PROVE p < s
    <2>1. p \in 1..Len(line) /\ line[p] # Bar
        BY PartStartsAre DEF PartStarts, IsBar
    <2>2. ~(p \in s..(t - 1))
        BY <1>1, <1>2, <1>4, <2>1
    <2> QED
        BY <1>1, <1>4, <2>1, <2>2
<1>6. n = Cardinality(PartStarts)
    <2>1. s \in Nat /\ Passed(PartStarts, s, n)
        BY DEF InList
    <2> QED
        BY <1>5, <2>1, PassedAll, PartStartsAre
<1> QED
    BY <1>6, PartsAre

LEMMA OneMorePart ==
    ASSUME ParserAt, Tidy, shell # "p2", NEW b \in LineText, Len(b) = Len(line) + 1, Intact(b),
           NEW s \in 1..Len(b), NEW n, InList(b, s, n), b[Skip(b, s, {Bar})] # NUL
    PROVE  LET t == Skip(b, s, {Bar})
               e == First(b, t, {Bar, NUL})
           IN  /\ n + 1 \in DOMAIN Parts
               /\ InPart(Cut(b, {e}), IF b[e] = NUL THEN e ELSE e + 1, n + 1)
               /\ ReadSoFar(Cut(b, {e}), <<>>, t, Parts[n + 1][1], Parts[n + 1][2])
               /\ Intact(Cut(b, {e}))
<1> DEFINE t == Skip(b, s, {Bar})
           e == First(b, t, {Bar, NUL})
           c == Cut(b, {e})
           r == IF b[e] = NUL THEN e ELSE e + 1
<1>1. Len(line) \in Nat /\ \A k \in s..Len(line) : b[k] = line[k] /\ b[k] # NUL /\ k \in DOMAIN line
    BY LineFacts DEF InList
<1>2. t \in s..Len(b) /\ b[t] # Bar /\ \A k \in s..(t - 1) : b[k] = Bar
    <2>1. s \in Nat /\ Len(b) \in s..Len(b) /\ b[Len(b)] \notin {Bar} /\ Len(b) \in Nat
        BY <1>1 DEF LineText, NUL, Bar
    <2> HIDE DEF t
    <2>2. t \in s..Len(b) /\ b[t] \notin {Bar} /\ \A k \in s..(t - 1) : b[k] \in {Bar}
        BY <2>1, SkipFound DEF t
    <2> QED
        BY <2>2
<1>3. b[t] # NUL /\ b[Len(line) + 1] = NUL
    BY DEF LineText
<1> HIDE DEF t
<1>4. t \in s..Len(line) /\ t \in 1..Len(line) /\ line[t] = b[t] /\ ~IsBar(t)
    <2>1. t \in s..Len(line) /\ t \in 1..Len(line)
        BY <1>1, <1>2, <1>3
    <2> QED
        BY <1>1, <1>2, <2>1 DEF IsBar
<1>5. IsBar(t - 1)
    <2>1. CASE t = s
        <3>1. IsBar(s - 1) \/ s = Len(line) + 1
            BY DEF InList
        <3> QED
            BY <1>1, <1>4, <2>1, <3>1
    <2>2. CASE t # s
        <3>1. t - 1 \in s..(t - 1) /\ t - 1 \in s..Len(line)
            BY <1>1, <1>4, <2>2
        <3> QED
            BY <1>1, <1>2, <3>1 DEF IsBar
    <2> QED
        BY <2>1, <2>2
<1>6. t \in PartStarts
    BY <1>1, <1>4, <1>5 DEF PartStarts, IsBar
<1>7. /\ e = BarBehind(t) /\ e \in (t + 1)..(Len(line) + 1) /\ IsBar(e)
      /\ \A k \in t..(e - 1) : ~IsBar(k)
    <2> DEFINE f == BarBehind(t)
    <2>1. t \in 1..(Len(line) + 1)
        BY <1>4
    <2>2. f \in t..(Len(line) + 1) /\ IsBar(f) /\ \A k \in t..(f - 1) : ~IsBar(k)
        BY <2>1, BarBehindIs
    <2> HIDE DEF f
    <2>3. \A k \in t..(f - 1) : b[k] \notin {Bar, NUL}
        <3>1. \A k \in t..(f - 1) : k \in s..Len(line)
            BY <1>1, <1>4, <2>2
        <3> QED
            BY <1>1, <2>2, <3>1 DEF IsBar
    <2>4. b[f] \in {Bar, NUL}
        <3>1. CASE f = Len(line) + 1
            BY <1>3, <3>1
        <3>2. CASE f # Len(line) + 1
            <4>1. f \in s..Len(line)
                BY <1>1, <1>4, <2>2, <3>2
            <4> QED
                BY <1>1, <2>2, <4>1 DEF IsBar
        <3> QED
            BY <3>1, <3>2
    <2>5. e = f
        <3>1. t \in Nat /\ f \in t..Len(b) /\ Len(b) \in Nat
            BY <1>1, <1>4, <2>2
        <3> QED
            BY <2>3, <2>4, <3>1, FirstIs
    <2>6. f # t /\ f = BarBehind(t)
        BY <1>4, <2>2 DEF f
    <2>7. f \in (t + 1)..(Len(line) + 1)
        BY <1>4, <2>2, <2>6
    <2> HIDE DEF e
    <2> QED
        BY <2>2, <2>5, <2>6, <2>7
<1> HIDE DEF e
<1>8. r \in (t + 1)..(Len(line) + 1) /\ (r = e + 1 \/ (r = e /\ e = Len(line) + 1))
    <2>1. e \in 1..Len(line) => b[e] # NUL
        BY <1>1, <1>4, <1>7
    <2> QED
        BY <1>1, <1>3, <1>4, <1>7, <2>1, SMTT(30)
<1> HIDE DEF r
<1>9. /\ n \in Nat /\ n + 1 \in 1..Cardinality(PartStarts) /\ InOrder(PartStarts)[n + 1] = t
      /\ Passed(PartStarts, r, n + 1)
    <2>1. ASSUME NEW k \in PartStarts, k < r PROVE k < s \/ k = t
        <3>1. k \in 1..Len(line) /\ ~IsBar(k) /\ IsBar(k - 1)
            BY PartStartsAre DEF PartStarts
        <3>2. ~(k \in s..(t - 1))
            <4> SUFFICES ASSUME k \in s..(t - 1) PROVE FALSE
                OBVIOUS
            <4>1. b[k] = Bar /\ k \in s..Len(line)
                BY <1>1, <1>2, <1>4, <3>1
            <4> QED
                BY <1>1, <3>1, <4>1 DEF IsBar
        <3>3. ~(k - 1 \in t..(e - 1)) /\ k # e
            BY <1>7, <3>1
        <3> QED
            BY <1>1, <1>4, <1>7, <1>8, <2>1, <3>1, <3>2, <3>3
    <2>2. s \in Nat /\ r \in Nat /\ s <= t /\ t < r /\ Passed(PartStarts, s, n)
        BY <1>4, <1>8 DEF InList
    <2> QED
        BY <1>6, <2>1, <2>2, PassedOne, PartStartsAre
<1>10. n + 1 \in DOMAIN Parts /\ Parts[n + 1] = <<t, e - 1>>
    BY <1>7, <1>9, PartsAre
<1>11. Parts[n + 1][1] = t /\ Parts[n + 1][2] = e - 1 /\ (e - 1) + 1 = e
    BY <1>4, <1>7, <1>10
<1>12. c \in LineText /\ \A k \in 1..Len(b) : c[k] = IF k \in {e} THEN NUL ELSE b[k]
    BY CutText
<1> HIDE DEF c
<1>13. InPart(c, r, n + 1)
    <2>1. \A k \in r..Len(line) : c[k] = line[k]
        <3> SUFFICES ASSUME NEW k \in r..Len(line) PROVE c[k] = line[k]
            OBVIOUS
        <3>1. k \in s..Len(line) /\ k \in 1..Len(b) /\ k # e
            BY <1>1, <1>4, <1>7, <1>8
        <3> QED
            BY <1>1, <1>12, <3>1
    <2>2. IsBar(r - 1) \/ r = Len(line) + 1
        BY <1>7, <1>8
    <2>3. r > (e - 1) + 1 \/ r = Len(line) + 1
        BY <1>7, <1>8
    <2> QED
        BY <1>9, <1>10, <1>11, <2>1, <2>2, <2>3 DEF InPart, InList
<1>14. ReadSoFar(c, <<>>, t, Parts[n + 1][1], Parts[n + 1][2])
    <2>1. IsPart(t, e - 1)
        BY <1>10, <1>11, MeantIs
    <2>2. c[(e - 1) + 1] = NUL
        BY <1>1, <1>4, <1>7, <1>11, <1>12
    <2>3. \A k \in t..(e - 1) : c[k] = line[k]
        <3> SUFFICES ASSUME NEW k \in t..(e - 1) PROVE c[k] = line[k]
            OBVIOUS
        <3>1. k \in s..Len(line) /\ k \in 1..Len(b) /\ k # e
            BY <1>1, <1>4, <1>7
        <3> QED
            BY <1>1, <1>12, <3>1
    <2> QED
        BY <1>11, <2>1, <2>2, <2>3, ReadNone
<1>15. Intact(c)
    <2> SUFFICES ASSUME NEW k \in 1..Len(line)
                 PROVE  c[k] = line[k] \/ (c[k] = NUL /\ (Sep(k) \/ line[k] = Quote))
        BY DEF Intact
    <2>1. k \in 1..Len(b) /\ (b[k] = line[k] \/ (b[k] = NUL /\ (Sep(k) \/ line[k] = Quote)))
        BY <1>1 DEF Intact
    <2>2. k = e => Sep(k)
        BY <1>7, BarSeparates
    <2> QED
        BY <1>12, <2>1, <2>2
<1> QED
    BY <1>10, <1>13, <1>14, <1>15 DEF t, e, c, r

----------------------------------------------------------------------------
(* The steps in a tidy line.                                               *)

\* A command that was typed is still as typed.
LEMMA ParsingStarts ==
    /\ ParserAt /\ Tidy /\ ~Refused(shell, line) /\ buf = Append(line, NUL)
    /\ save = 1 /\ ptr = 1 /\ argv = <<>> /\ cmd = NoCmd /\ clist = <<>>
    /\ ppc = IF shell = "p2" THEN "word" ELSE "list"
    => Parsed(buf, save, ptr, argv, cmd, clist, ppc, rc)
<1> SUFFICES ASSUME ParserAt, Tidy, ~Refused(shell, line), buf = Append(line, NUL),
                    save = 1, ptr = 1, argv = <<>>, cmd = NoCmd, clist = <<>>,
                    ppc = IF shell = "p2" THEN "word" ELSE "list"
             PROVE  Parsed(buf, save, ptr, argv, cmd, clist, ppc, rc)
    OBVIOUS
<1>1. Len(line) \in Nat /\ line \in Seq(Chars) /\ DOMAIN line = 1..Len(line)
    BY LineFacts DEF ParserAt
<1>2. /\ \A k \in 1..Len(line) : buf[k] = line[k]
      /\ buf[Len(line) + 1] = NUL
    BY <1>1
<1>3. Intact(buf)
    BY <1>2 DEF Intact
<1>4. AllTaken(buf, clist)
    BY DEF AllTaken
<1>5. CASE shell = "p2"
    <2>1. /\ 1 \in DOMAIN Parts /\ Parts[1][1] = 1 /\ Parts[1][2] = Len(line)
          /\ IsPart(1, Len(line))
        <3>1. Len(Parts) = 1 /\ DOMAIN Parts = 1..Len(Parts) /\ Parts[1][1] = 1 /\ Parts[1][2] = Len(line)
            BY <1>5, MeantIs
        <3>2. 1 \in DOMAIN Parts
            BY <3>1
        <3>3. IsPart(Parts[1][1], Parts[1][2])
            BY <3>2, MeantIs
        <3> QED
            BY <3>1, <3>2, <3>3
    <2>2. InPart(buf, save, Len(clist) + 1)
        BY <1>5, <2>1 DEF InPart
    <2>3. ReadSoFar(buf, argv, ptr, Parts[Len(clist) + 1][1], Parts[Len(clist) + 1][2])
        <3>1. ReadSoFar(buf, <<>>, 1, 1, Len(line))
            BY <1>2, <2>1, ReadNone
        <3>2. Len(clist) + 1 = 1
            OBVIOUS
        <3> QED
            BY <2>1, <3>1, <3>2
    <2> QED
        BY <1>3, <1>4, <1>5, <2>2, <2>3 DEF Parsed
<1>6. CASE shell # "p2"
    <2>1. Passed(PartStarts, 1, 0)
        <3>1. \A p \in PartStarts : 1 <= p
            BY PartStartsAre
        <3> QED
            BY <3>1, PassedNone, PartStartsAre
    <2>2. IsBar(1 - 1)
        BY <1>1 DEF IsBar
    <2>3. InList(buf, save, Len(clist))
        BY <1>2, <2>1, <2>2 DEF InList
    <2> QED
        BY <1>3, <1>4, <1>6, <2>3 DEF Parsed
<1> QED
    BY <1>5, <1>6

LEMMA TypeCommandMeans == ParserInv /\ TypeCommand => WordInv'
<1> SUFFICES ASSUME ParserInv, TypeCommand PROVE WordInv'
    OBVIOUS
<1>1. ParserAt'
    BY TypeCommandKeeps DEF ParserInv
<1>2. /\ save' = 1 /\ ptr' = 1 /\ argv' = <<>> /\ cmd' = NoCmd /\ clist' = <<>>
      /\ ~Refused(shell', line') /\ buf' = Append(line', NUL)
      /\ ppc' = IF shell' = "p2" THEN "word" ELSE "list"
    BY DEF ParserInv, Fresh, TypeCommand
<1>3. (/\ ParserAt /\ Tidy /\ ~Refused(shell, line) /\ buf = Append(line, NUL)
       /\ save = 1 /\ ptr = 1 /\ argv = <<>> /\ cmd = NoCmd /\ clist = <<>>
       /\ ppc = IF shell = "p2" THEN "word" ELSE "list"
       => Parsed(buf, save, ptr, argv, cmd, clist, ppc, rc))'
    BY ParsingStarts, PTL
<1>4. (~Refused(shell, line))'
    BY <1>2 DEF Refused
<1> QED
    BY <1>1, <1>2, <1>3, <1>4 DEF WordInv

\* What a step that does not change the line must show.
LEMMA MeaningKept ==
    ASSUME WordInv, line' = line, shell' = shell, ppc # "idle",
           Tidy /\ Parsed(buf, save, ptr, argv, cmd, clist, ppc, rc)
               => Parsed(buf', save', ptr', argv', cmd', clist', ppc', rc')
    PROVE  WordInv'
<1>1. Tidy' <=> Tidy
    BY SameMeaning
<1>2. Parsed(buf, save, ptr, argv, cmd, clist, ppc, rc)'
          <=> Parsed(buf', save', ptr', argv', cmd', clist', ppc', rc')
    BY SameParsed
<1> QED
    BY <1>1, <1>2 DEF WordInv

\* What is known of the arrays.
LEMMA ArrayFacts ==
    ASSUME ParserInv
    PROVE  /\ ParserAt /\ buf \in LineText /\ Len(buf) = Len(line) + 1
           /\ save \in 1..Len(buf) /\ ptr \in 1..Len(buf)
           /\ argv \in Seq(Nat) /\ argv \in Seq(1..Len(buf)) /\ Len(argv) \in Nat
           /\ Len(clist) \in Nat /\ Len(clist) <= MAX_CMDS
           /\ MAX_CMDS \in Nat \ {0} /\ ARGV_MAX = MAX_CMDS + 1
           /\ shell \in {"p2", "p3", "p4"}
<1>1. ParserAt /\ buf \in LineText /\ Len(buf) = Len(line) + 1 /\ shell \in {"p2", "p3", "p4"}
      /\ save \in 1..Len(buf) /\ ptr \in 1..Len(buf)
    BY DEF ParserInv, ParserAt
<1>2. argv \in Seq(1..Len(buf)) /\ 1..Len(buf) \subseteq Nat
    BY DEF ParserInv, Words
<1>3. argv \in Seq(Nat) /\ Len(argv) \in Nat
    BY <1>2
<1>4. Len(clist) \in Nat /\ Len(clist) <= MAX_CMDS
    BY DEF ParserInv, RoomLeft
<1>5. MAX_CMDS \in Nat \ {0} /\ ARGV_MAX = MAX_CMDS + 1
    BY LineAssumption DEF ARGV_MAX
<1> QED
    BY <1>1, <1>2, <1>3, <1>4, <1>5

LEMMA NextCommandMeans == ParserInv /\ WordInv /\ NextCommand => WordInv'
<1> SUFFICES ASSUME ParserInv, WordInv, NextCommand PROVE WordInv'
    OBVIOUS
<1> DEFINE t == Skip(buf, save, {Bar})
           e == First(buf, t, {Bar, NUL})
           n == Len(clist)
<1>1. /\ ppc = "list" /\ argv' = <<>> /\ cmd' = NoCmd /\ UNCHANGED <<shell, line, clist>>
      /\ \/ buf[t] = NUL /\ ppc' = "done" /\ rc' = "OK" /\ UNCHANGED <<buf, save, ptr>>
         \/ /\ buf[t] # NUL /\ buf' = Cut(buf, {e}) /\ ptr' = t
            /\ save' = IF buf[e] = NUL THEN e ELSE e + 1
            /\ IF ListFull THEN ppc' = "done" /\ rc' = "ERR_TOO_MANY_COMMANDS" ELSE ppc' = "word"
    BY DEF NextCommand, Return
<1> SUFFICES ASSUME Tidy, Parsed(buf, save, ptr, argv, cmd, clist, ppc, rc)
             PROVE  Parsed(buf', save', ptr', argv', cmd', clist', ppc', rc')
    BY <1>1, MeaningKept
<1> HIDE DEF t, e, n
<1>2. /\ shell # "p2" /\ Intact(buf) /\ AllTaken(buf, clist) /\ InList(buf, save, n)
    BY <1>1 DEF Parsed, n
<1>3. n \in Nat /\ n <= MAX_CMDS /\ Len(Meant) = Len(Parts) /\ DOMAIN Parts = 1..Len(Parts) /\ Len(Parts) \in Nat
    BY ArrayFacts, MeantIs DEF n
<1>4. CASE buf[t] = NUL /\ ppc' = "done" /\ rc' = "OK" /\ UNCHANGED <<buf, save, ptr>>
    <2>1. n = Len(Parts)
        BY <1>2, <1>4, ArrayFacts, NoMoreParts DEF t
    <2>2. ParsingOutcome(clist, "OK")
        BY <1>3, <2>1 DEF ParsingOutcome, n
    <2> QED
        BY <1>1, <1>2, <1>4, <2>2 DEF Parsed
<1>5. CASE /\ buf[t] # NUL /\ buf' = Cut(buf, {e}) /\ ptr' = t
           /\ save' = IF buf[e] = NUL THEN e ELSE e + 1
           /\ IF ListFull THEN ppc' = "done" /\ rc' = "ERR_TOO_MANY_COMMANDS" ELSE ppc' = "word"
    <2>1. /\ n + 1 \in DOMAIN Parts
          /\ InPart(buf', save', n + 1)
          /\ ReadSoFar(buf', <<>>, t, Parts[n + 1][1], Parts[n + 1][2])
          /\ Intact(buf')
        BY <1>2, <1>5, ArrayFacts, OneMorePart DEF t, e
    <2>2. AllTaken(buf', clist)
        BY <1>2, <1>5, ArrayFacts, StillTaken
    <2>3. CASE ppc' = "word"
        BY <1>1, <1>2, <1>5, <2>1, <2>2, <2>3, ArrayFacts DEF Parsed, n
    <2>4. CASE ListFull /\ ppc' = "done" /\ rc' = "ERR_TOO_MANY_COMMANDS"
        <3>1. Len(Meant) > MAX_CMDS
            BY <1>3, <2>1, <2>4, ArrayFacts DEF ListFull, n
        <3>2. ParsingOutcome(clist, rc')
            BY <2>4, <3>1 DEF ParsingOutcome
        <3> QED
            BY <1>1, <1>2, <2>1, <2>2, <2>4, <3>2 DEF Parsed
    <2> QED
        BY <1>5, <2>3, <2>4
<1> QED
    BY <1>1, <1>4, <1>5

\* A turn of the loops over words reads the next word.
LEMMA TurnMeans ==
    ASSUME ParserInv, WordInv, ppc = "word", NEW S \in {IsSpace, {Blank}}, NEW w,
           buf[Skip(buf, ptr, S)] # NUL,
           \A hi : Unread(buf, Skip(buf, ptr, S), hi) /\ Skip(buf, ptr, S) <= hi /\ Tidy
                   /\ ~Sep(Skip(buf, ptr, S)) /\ Sep(Skip(buf, ptr, S) - 1)
                       => WordRead(buf, Skip(buf, ptr, S), hi, w),
           Take(w), argv' = Stores(argv, w.start),
           \/ ppc' = "word" /\ (shell = "p4" => Len(argv') <= ARGV_MAX - 2)
           \/ /\ ppc' = "done" /\ rc' = "ERR_TOO_MANY_COMMANDS"
              /\ shell # "p2" /\ Limit \in Nat /\ Limit < Len(argv')
    PROVE  WordInv'
<1> DEFINE p == Skip(buf, ptr, S)
           n == Len(clist) + 1
           lo == Parts[n][1]
           hi == Parts[n][2]
<1>1. buf' = Cut(buf, w.cut) /\ ptr' = w.next /\ UNCHANGED <<shell, line, save, cmd, clist>>
    BY DEF Take
<1> SUFFICES ASSUME Tidy, Parsed(buf, save, ptr, argv, cmd, clist, ppc, rc)
             PROVE  Parsed(buf', save', ptr', argv', cmd', clist', ppc', rc')
    BY <1>1, MeaningKept
<1> HIDE DEF p, n
<1>2. /\ Intact(buf) /\ AllTaken(buf, clist)
      /\ shell = "p2" => ~Refused(shell, line) /\ clist = <<>>
      /\ InPart(buf, save, n) /\ ReadSoFar(buf, argv, ptr, lo, hi)
      /\ cmd = NoCmd
    BY DEF Parsed, n
<1>3. /\ n \in DOMAIN Parts /\ IsPart(lo, hi) /\ Meant[n] = WordsIn(lo, hi) /\ n \in DOMAIN Meant
    BY <1>2, ArrayFacts, MeantIs DEF InPart
<1> HIDE DEF lo, hi
<1>4. Unread(buf, ptr, hi) /\ AtGap(ptr)
    BY <1>2, <1>3, ArrayFacts, StillUnread
<1>5. /\ lo \in 1..(hi + 1) /\ hi \in 0..Len(line) /\ ptr \in lo..(hi + 1) /\ Len(line) \in Nat
    BY <1>2, <1>3, ArrayFacts, LineFacts DEF IsPart, ReadSoFar
<1>6. p \in ptr..hi /\ p <= hi /\ ~Sep(p) /\ Sep(p - 1)
    <2>1. p \in ptr..(hi + 1) /\ p # hi + 1
        BY <1>4, ArrayFacts, NextOfPart DEF p
    <2>2. p \in ptr..hi /\ p <= hi
        BY <1>5, <2>1
    <2>3. ~Sep(p) /\ Sep(p - 1)
        BY <1>4, <2>2, ArrayFacts, NextOfPart DEF p
    <2> QED
        BY <2>2, <2>3
<1>7. Unread(buf, p, hi)
    <2>1. p \in 1..(hi + 1) /\ \A k \in p..hi : k \in ptr..hi
        BY <1>5, <1>6
    <2> QED
        BY <1>4, <2>1 DEF Unread
<1>8. WordRead(buf, p, hi, w)
    BY <1>6, <1>7 DEF p
<1>9. /\ ReadSoFar(buf', argv', ptr', lo, hi)
      /\ Intact(buf')
      /\ \A k \in w.cut : k \in 1..(hi + 1)
      /\ shell # "p2" => Len(argv) + 1 <= Len(WordsIn(lo, hi))
    BY <1>1, <1>2, <1>3, <1>8, ArrayFacts, ReadOne DEF p
<1>10. AllTaken(buf', clist)
    BY <1>1, <1>2, ArrayFacts, StillTaken
<1>11. InPart(buf', save, n)
    <2> SUFFICES ASSUME shell # "p2" PROVE \A k \in save..Len(line) : buf'[k] = line[k]
        BY <1>2 DEF InPart, InList
    <2> SUFFICES ASSUME NEW k \in save..Len(line) PROVE buf'[k] = line[k]
        OBVIOUS
    <2>1. buf[k] = line[k] /\ (save > hi + 1 \/ save = Len(line) + 1)
        BY <1>2 DEF InPart, InList, hi
    <2>2. save \in 1..Len(buf) /\ buf \in LineText /\ Len(buf) = Len(line) + 1
        BY ArrayFacts
    <2>3. k \in 1..Len(buf) /\ ~(k \in 1..(hi + 1))
        BY <1>5, <2>1, <2>2
    <2>4. k \notin w.cut
        BY <1>9, <2>3
    <2> QED
        BY <1>1, <2>1, <2>2, <2>3, <2>4, CutText
<1>12. CASE ppc' = "word" /\ (shell = "p4" => Len(argv') <= ARGV_MAX - 2)
    BY <1>1, <1>2, <1>9, <1>10, <1>11, <1>12 DEF Parsed, n, lo, hi
<1>13. CASE /\ ppc' = "done" /\ rc' = "ERR_TOO_MANY_COMMANDS"
            /\ shell # "p2" /\ Limit \in Nat /\ Limit < Len(argv')
    <2>1. Len(argv') = Len(argv) + 1 /\ Len(argv) \in Nat
        BY <1>13, ArrayFacts DEF Stores
    <2>2. Len(Meant[n]) \in Nat
        BY <1>3, ArrayFacts, WordsInAre
    <2>3. Len(Meant[n]) \notin 1..Limit
        BY <1>3, <1>9, <1>13, <2>1, <2>2
    <2>4. ParsingOutcome(clist, rc')
        BY <1>3, <1>13, <2>3 DEF ParsingOutcome
    <2> QED
        BY <1>1, <1>2, <1>9, <1>10, <1>13, <2>4 DEF Parsed
<1> QED
    BY <1>12, <1>13

LEMMA Word2Means == ParserInv /\ WordInv /\ Word2 => WordInv'
<1> SUFFICES ASSUME ParserInv, WordInv, Word2 PROVE WordInv'
    OBVIOUS
<1> DEFINE p == Skip(buf, ptr, IsSpace)
           w == Scan2(buf, p)
<1>1. /\ ppc = "word" /\ shell = "p2" /\ buf[p] # NUL /\ argv' = Keep(w.start) /\ Take(w) /\ ppc' = ppc
    BY DEF Word2
<1>2. \A hi : Unread(buf, p, hi) /\ p <= hi /\ Tidy /\ ~Sep(p) /\ Sep(p - 1) => WordRead(buf, p, hi, w)
    <2> HIDE DEF p
    <2> QED
        BY ArrayFacts, Scan2Reads
<1> HIDE DEF w
<1>3. argv' = Stores(argv, w.start)
    BY <1>1 DEF Keep, Stores
<1>4. ppc' = "word" /\ (shell = "p4" => Len(argv') <= ARGV_MAX - 2)
    BY <1>1
<1> QED
    BY <1>1, <1>2, <1>3, <1>4, TurnMeans

LEMMA Word3Means == ParserInv /\ WordInv /\ Word3 => WordInv'
<1> SUFFICES ASSUME ParserInv, WordInv, Word3 PROVE WordInv'
    OBVIOUS
<1> DEFINE p == Skip(buf, ptr, {Blank})
           w == Scan3(buf, p)
<1>1. /\ ppc = "word" /\ shell = "p3" /\ buf[p] # NUL /\ argv' = Append(argv, w.start) /\ Take(w)
      /\ IF TokensFull(Len(argv')) THEN ppc' = "done" /\ rc' = "ERR_TOO_MANY_COMMANDS" ELSE ppc' = ppc
    BY DEF Word3, Return
<1>2. \A hi : Unread(buf, p, hi) /\ p <= hi /\ Tidy /\ ~Sep(p) /\ Sep(p - 1) => WordRead(buf, p, hi, w)
    <2> HIDE DEF p
    <2> QED
        BY ArrayFacts, Scan3Reads
<1> HIDE DEF w
<1>3. argv' = Stores(argv, w.start)
    BY <1>1 DEF Stores
<1>4. \/ ppc' = "word" /\ (shell = "p4" => Len(argv') <= ARGV_MAX - 2)
      \/ /\ ppc' = "done" /\ rc' = "ERR_TOO_MANY_COMMANDS"
         /\ shell # "p2" /\ Limit \in Nat /\ Limit < Len(argv')
    <2>1. Limit = ARGV_MAX - 1 /\ ARGV_MAX \in Nat \ {0} /\ Len(argv') = Len(argv) + 1 /\ Len(argv) \in Nat
        BY <1>1, ArrayFacts DEF Limit
    <2>2. CASE TokensFull(Len(argv'))
        BY <1>1, <2>1, <2>2 DEF TokensFull
    <2>3. CASE ~TokensFull(Len(argv'))
        BY <1>1, <2>3
    <2> QED
        BY <2>2, <2>3
<1> QED
    BY <1>1, <1>2, <1>3, <1>4, TurnMeans

LEMMA Word4Means == ParserInv /\ WordInv /\ Word4 => WordInv'
<1> SUFFICES ASSUME ParserInv, WordInv, Word4 PROVE WordInv'
    OBVIOUS
<1> DEFINE p == Skip(buf, ptr, {Blank})
           w == Scan4(buf, p)
<1>1. /\ ppc = "word" /\ shell = "p4" /\ buf[p] # NUL /\ argv' = Append(argv, w.start) /\ Take(w)
      /\ IF Len(argv') >= ARGV_MAX - 1 THEN ppc' = "done" /\ rc' = "ERR_TOO_MANY_COMMANDS" ELSE ppc' = ppc
    BY DEF Word4, Return
<1>2. \A hi : Unread(buf, p, hi) /\ p <= hi /\ Tidy /\ ~Sep(p) /\ Sep(p - 1) => WordRead(buf, p, hi, w)
    <2> HIDE DEF p
    <2> QED
        BY <1>1, ArrayFacts, Scan4Reads
<1> HIDE DEF w
<1>3. argv' = Stores(argv, w.start)
    BY <1>1 DEF Stores
<1>4. \/ ppc' = "word" /\ (shell = "p4" => Len(argv') <= ARGV_MAX - 2)
      \/ /\ ppc' = "done" /\ rc' = "ERR_TOO_MANY_COMMANDS"
         /\ shell # "p2" /\ Limit \in Nat /\ Limit < Len(argv')
    <2>1. /\ Limit = ARGV_MAX - 2 /\ ARGV_MAX \in Nat /\ ARGV_MAX >= 2
          /\ Len(argv') = Len(argv) + 1 /\ Len(argv) \in Nat
        BY <1>1, ArrayFacts DEF Limit
    <2>2. CASE Len(argv') >= ARGV_MAX - 1
        BY <1>1, <2>1, <2>2
    <2>3. CASE ~(Len(argv') >= ARGV_MAX - 1)
        BY <1>1, <2>1, <2>3
    <2> QED
        BY <2>2, <2>3
<1> QED
    BY <1>1, <1>2, <1>3, <1>4, TurnMeans

----------------------------------------------------------------------------
(* Redirections.                                                           *)

\* There is a function that says what opens a file: it is OpensFile.
OpensUpTo(ws, m, f) == f = [i \in 0..m |-> i > 0 /\ FieldOf(ws, i) # "argv" /\ ~f[i - 1]]

LEMMA OpensFileExists ==
    ASSUME NEW ws, NEW m \in Nat
    PROVE  \E f : OpensUpTo(ws, m, f)
<1> DEFINE T == {n \in Nat : \E f : OpensUpTo(ws, n, f)}
           P(i) == FieldOf(ws, i) # "argv"
<1>1. 0 \in T
    <2> DEFINE f == [i \in 0..0 |-> FALSE]
    <2>1. \A i \in 0..0 : ~(i > 0)
        OBVIOUS
    <2>2. f = [i \in 0..0 |-> i > 0 /\ FieldOf(ws, i) # "argv" /\ ~f[i - 1]]
        BY <2>1
    <2>3. OpensUpTo(ws, 0, f)
        BY <2>2 DEF OpensUpTo
    <2> QED
        BY <2>3
<1>2. ASSUME NEW n \in T PROVE n + 1 \in T
    <2>1. n \in Nat
        OBVIOUS
    <2>2. PICK f : f = [i \in 0..n |-> i > 0 /\ P(i) /\ ~f[i - 1]]
        BY DEF OpensUpTo
    <2> DEFINE g == [i \in 0..(n + 1) |-> IF i = n + 1 THEN P(n + 1) /\ ~f[n] ELSE f[i]]
    <2> HIDE DEF P
    <2>3. ASSUME NEW i \in 0..(n + 1) PROVE g[i] = (i > 0 /\ P(i) /\ ~g[i - 1])
        <3>1. CASE i = n + 1
            <4>1. g[i] = (P(n + 1) /\ ~f[n]) /\ i > 0 /\ i - 1 = n /\ n \in 0..(n + 1) /\ n # n + 1
                BY <2>1, <3>1
            <4>2. g[n] = f[n]
                BY <4>1
            <4> QED
                BY <3>1, <4>1, <4>2
        <3>2. CASE i # n + 1
            <4>1. i \in 0..n /\ g[i] = f[i]
                BY <2>1, <3>2
            <4>2. f[i] = (i > 0 /\ P(i) /\ ~f[i - 1])
                BY <2>2, <4>1
            <4>3. i > 0 => g[i - 1] = f[i - 1]
                BY <2>1, <4>1
            <4> QED
                BY <4>1, <4>2, <4>3
        <3> QED
            BY <3>1, <3>2
    <2>4. g = [i \in 0..(n + 1) |-> i > 0 /\ P(i) /\ ~g[i - 1]]
        BY <2>3
    <2>5. OpensUpTo(ws, n + 1, g)
        BY <2>4 DEF OpensUpTo, P
    <2> QED
        BY <2>1, <2>5
<1>3. T = Nat
    <2> HIDE DEF T
    <2>1. T \in SUBSET Nat
        BY DEF T
    <2> QED
        BY <1>1, <1>2, <2>1, AllNat
<1> QED
    BY <1>3

LEMMA OpensFileIs ==
    ASSUME NEW ws, Len(ws) \in Nat
    PROVE  /\ ~OpensFile(ws)[0]
           /\ \A i \in 1..Len(ws) : OpensFile(ws)[i] <=> (FieldOf(ws, i) # "argv" /\ ~OpensFile(ws)[i - 1])
<1> DEFINE o == OpensFile(ws)
<1>1. o = CHOOSE f : OpensUpTo(ws, Len(ws), f)
    BY DEF OpensFile, OpensUpTo
<1>2. OpensUpTo(ws, Len(ws), o)
    <2> HIDE DEF o
    <2> QED
        BY <1>1, OpensFileExists
<1> HIDE DEF o
<1>3. o = [i \in 0..Len(ws) |-> i > 0 /\ FieldOf(ws, i) # "argv" /\ ~o[i - 1]]
    BY <1>2 DEF OpensUpTo
<1>4. ASSUME NEW i \in 0..Len(ws) PROVE o[i] = (i > 0 /\ FieldOf(ws, i) # "argv" /\ ~o[i - 1])
    BY <1>3
<1>5. ~o[0]
    <2>1. 0 \in 0..Len(ws) /\ ~(0 > 0)
        OBVIOUS
    <2> QED
        BY <1>4, <2>1
<1>6. ASSUME NEW i \in 1..Len(ws) PROVE o[i] <=> (FieldOf(ws, i) # "argv" /\ ~o[i - 1])
    <2>1. i \in 0..Len(ws) /\ i > 0
        OBVIOUS
    <2> QED
        BY <1>4, <2>1
<1> QED
    BY <1>5, <1>6 DEF o

\* With one more word, one more is an argument or a file, or none.
LEMMA OneWordMore ==
    ASSUME NEW ws, Len(ws) \in Nat, NEW n \in 1..Len(ws)
    PROVE  /\ ArgsOf(ws, n) = ArgsOf(ws, n - 1) \cup
                  IF ~OpensFile(ws)[n] /\ ~OpensFile(ws)[n - 1] THEN {ws[n][1]} ELSE {}
           /\ \A f : FilesOf(ws, f, n) = FilesOf(ws, f, n - 1) \cup
                  IF OpensFile(ws)[n - 1] /\ FieldOf(ws, n - 1) = f THEN {ws[n][1]} ELSE {}
<1> DEFINE o == OpensFile(ws)
<1>1. ~o[0]
    BY OpensFileIs
<1> HIDE DEF o
<1>2. ArgsOf(ws, n) = ArgsOf(ws, n - 1) \cup IF ~o[n] /\ ~o[n - 1] THEN {ws[n][1]} ELSE {}
    <2> DEFINE A(m) == {j \in 1..m : ~o[j] /\ ~o[j - 1]}
    <2>1. A(n) = A(n - 1) \cup IF ~o[n] /\ ~o[n - 1] THEN {n} ELSE {}
        OBVIOUS
    <2>2. \A m : ArgsOf(ws, m) = {ws[i][1] : i \in A(m)}
        BY DEF ArgsOf, o
    <2> HIDE DEF A
    <2>3. CASE ~o[n] /\ ~o[n - 1]
        <3>1. A(n) = A(n - 1) \cup {n}
            BY <2>1, <2>3
        <3>2. {ws[i][1] : i \in A(n - 1) \cup {n}} = {ws[i][1] : i \in A(n - 1)} \cup {ws[n][1]}
            OBVIOUS
        <3> QED
            BY <2>2, <2>3, <3>1, <3>2
    <2>4. CASE ~(~o[n] /\ ~o[n - 1])
        <3>1. A(n) = A(n - 1)
            BY <2>1, <2>4
        <3> QED
            BY <2>2, <2>4, <3>1
    <2> QED
        BY <2>3, <2>4
<1>3. ASSUME NEW f
      PROVE  FilesOf(ws, f, n) = FilesOf(ws, f, n - 1) \cup
                 IF o[n - 1] /\ FieldOf(ws, n - 1) = f THEN {ws[n][1]} ELSE {}
    <2> DEFINE A(m) == {j \in 2..m : o[j - 1] /\ FieldOf(ws, j - 1) = f}
    <2>1. A(n) = A(n - 1) \cup IF o[n - 1] /\ FieldOf(ws, n - 1) = f THEN {n} ELSE {}
        <3>1. CASE n = 1
            <4>1. n - 1 = 0 /\ 2..n = {} /\ 2..(n - 1) = {}
                BY <3>1
            <4> QED
                BY <1>1, <4>1
        <3>2. CASE n # 1
            BY <3>2
        <3> QED
            BY <3>1, <3>2
    <2>2. \A m : FilesOf(ws, f, m) = {ws[i][1] : i \in A(m)}
        BY DEF FilesOf, o
    <2> HIDE DEF A
    <2>3. CASE o[n - 1] /\ FieldOf(ws, n - 1) = f
        <3>1. A(n) = A(n - 1) \cup {n}
            BY <2>1, <2>3
        <3>2. {ws[i][1] : i \in A(n - 1) \cup {n}} = {ws[i][1] : i \in A(n - 1)} \cup {ws[n][1]}
            OBVIOUS
        <3> QED
            BY <2>2, <2>3, <3>1, <3>2
    <2>4. CASE ~(o[n - 1] /\ FieldOf(ws, n - 1) = f)
        <3>1. A(n) = A(n - 1)
            BY <2>1, <2>4
        <3> QED
            BY <2>2, <2>4, <3>1
    <2> QED
        BY <2>3, <2>4
<1> QED
    BY <1>2, <1>3 DEF o

FileFields == {"in", "out", "app"}

\* What a turn of the second loop does with token n, which f says how to take.
TakesToken(c, d, av, n, f) ==
    \/ /\ f = "argv" /\ d.argv = Append(c.argv, av[n]) /\ d.next = n + 1
       /\ \A g \in FileFields : d[g] = c[g]
    \/ /\ f \in FileFields /\ n = Len(av) /\ d.argv = c.argv /\ d.next = n + 1
       /\ \A g \in FileFields : d[g] = c[g]
    \/ /\ f \in FileFields /\ n # Len(av) /\ d.argv = c.argv /\ d.next = n + 2 /\ d[f] = av[n + 1]
       /\ \A g \in FileFields : g # f => d[g] = c[g]

LEMMA TokenTaken ==
    ASSUME NEW c \in [next : Nat, argv : Seq(Nat), in : Nat, out : Nat, app : Nat], NEW av,
           NEW f \in {"app", "out", "in", "argv"}
    PROVE  TakesToken(c, TokenAs(c, av, f), av, c.next, f)
<1> DEFINE d == TokenAs(c, av, f)
<1>1. CASE f = "argv"
    <2>1. d = [c EXCEPT !.argv = Append(@, av[c.next]), !.next = c.next + 1]
        BY <1>1 DEF TokenAs
    <2> HIDE DEF d
    <2>2. d.argv = Append(c.argv, av[c.next]) /\ d.next = c.next + 1 /\ d.in = c.in /\ d.out = c.out /\ d.app = c.app
        BY <2>1
    <2>3. TakesToken(c, d, av, c.next, f)
        BY <1>1, <2>2 DEF TakesToken, FileFields
    <2> QED
        BY <2>3 DEF d
<1>2. CASE f # "argv" /\ c.next = Len(av)
    <2>1. d = [c EXCEPT !.next = c.next + 1]
        BY <1>2 DEF TokenAs
    <2> HIDE DEF d
    <2>2. d.argv = c.argv /\ d.next = c.next + 1 /\ d.in = c.in /\ d.out = c.out /\ d.app = c.app
        BY <2>1
    <2>3. TakesToken(c, d, av, c.next, f)
        BY <1>2, <2>2 DEF TakesToken, FileFields
    <2> QED
        BY <2>3 DEF d
<1>3. CASE f # "argv" /\ c.next # Len(av)
    <2>1. d = [c EXCEPT ![f] = av[c.next + 1], !.next = c.next + 2]
        BY <1>3 DEF TokenAs
    <2> HIDE DEF d
    <2>2. f \in FileFields
        BY <1>3 DEF FileFields
    <2>3. /\ d.argv = c.argv /\ d.next = c.next + 2 /\ d[f] = av[c.next + 1]
          /\ \A g \in FileFields : g # f => d[g] = c[g]
        BY <2>1, <2>2 DEF FileFields
    <2>4. TakesToken(c, d, av, c.next, f)
        BY <1>3, <2>2, <2>3 DEF TakesToken
    <2> QED
        BY <2>4 DEF d
<1> QED
    BY <1>1, <1>2, <1>3

\* The words of a command, each behind the one before it.
InTheirOrder(ws) ==
    /\ ws \in Seq(Nat \X Nat)
    /\ \A i \in 1..Len(ws) : ws[i][1] \in Nat \ {0}
    /\ \A i, j \in 1..Len(ws) : i < j => ws[i][1] < ws[j][1]

LEMMA NoneSorted ==
    ASSUME NEW ws, Len(ws) \in Nat
    PROVE  Sorted(NoCmd, ws, 0)
<1>1. ~OpensFile(ws)[0]
    BY OpensFileIs
<1>2. ArgsOf(ws, 0) = {} /\ \A f : FilesOf(ws, f, 0) = {}
    BY DEF ArgsOf, FilesOf
<1>3. /\ NoCmd.argv = <<>> /\ NoCmd["in"] = 0 /\ NoCmd["out"] = 0 /\ NoCmd["app"] = 0
    BY DEF NoCmd
<1>4. {NoCmd.argv[i] : i \in 1..Len(NoCmd.argv)} = {}
    BY <1>3
<1> QED
    BY <1>1, <1>2, <1>3, <1>4 DEF Sorted

\* One turn of the second loop.
LEMMA OneMoreSorted ==
    ASSUME NEW ws, InTheirOrder(ws), NEW c, c.argv \in Seq(Nat), NEW d,
           NEW n \in 1..Len(ws), Sorted(c, ws, n - 1),
           NEW av \in Seq(Nat), Len(av) = Len(ws), \A k \in 1..Len(ws) : av[k] = ws[k][1],
           TakesToken(c, d, av, n, FieldOf(ws, n))
    PROVE  Sorted(d, ws, d.next - 1)
<1> DEFINE o == OpensFile(ws)
           f == FieldOf(ws, n)
           Best(e, m) == \A g \in {"in", "out", "app"} :
                             /\ e[g] = 0 <=> FilesOf(ws, g, m) = {}
                             /\ FilesOf(ws, g, m) # {} => /\ e[g] \in FilesOf(ws, g, m)
                                                        /\ \A x \in FilesOf(ws, g, m) : x <= e[g]
           Alone(e, m) == (\A i \in 1..Len(ws) : FieldOf(ws, i) = "argv") =>
                             Len(e.argv) = m /\ \A i \in 1..m : e.argv[i] = ws[i][1]
<1>1. Len(ws) \in Nat /\ n \in Nat
    BY DEF InTheirOrder
<1>2. /\ ~o[n - 1] /\ {c.argv[i] : i \in 1..Len(c.argv)} = ArgsOf(ws, n - 1)
      /\ Best(c, n - 1) /\ Alone(c, n - 1)
    <2>1. n - 1 # Len(ws)
        BY <1>1
    <2> QED
        BY <2>1 DEF Sorted
<1>3. o[n] <=> f # "argv"
    BY <1>1, <1>2, OpensFileIs
<1>4. /\ ArgsOf(ws, n) = ArgsOf(ws, n - 1) \cup IF ~o[n] /\ ~o[n - 1] THEN {ws[n][1]} ELSE {}
      /\ \A g : FilesOf(ws, g, n) = FilesOf(ws, g, n - 1)
    <2>1. ArgsOf(ws, n) = ArgsOf(ws, n - 1) \cup IF ~o[n] /\ ~o[n - 1] THEN {ws[n][1]} ELSE {}
        BY <1>1, OneWordMore
    <2>2. \A g : FilesOf(ws, g, n) = FilesOf(ws, g, n - 1) \cup
                     IF o[n - 1] /\ FieldOf(ws, n - 1) = g THEN {ws[n][1]} ELSE {}
        BY <1>1, OneWordMore
    <2> HIDE DEF o
    <2>3. \A g : FilesOf(ws, g, n) = FilesOf(ws, g, n - 1)
        BY <1>2, <2>2
    <2> QED
        BY <2>1, <2>3
<1>5. ASSUME NEW m \in 0..Len(ws), m = Len(ws) \/ ~o[m],
             {d.argv[i] : i \in 1..Len(d.argv)} = ArgsOf(ws, m), Best(d, m), Alone(d, m)
      PROVE  Sorted(d, ws, m)
    BY <1>5 DEF Sorted
<1>6. FilesOf(ws, f, n - 1) \subseteq {ws[i][1] : i \in 1..(n - 1)}
    BY <1>1 DEF FilesOf
<1> HIDE DEF o, f, Best, Alone
<1>7. CASE /\ f = "argv" /\ d.argv = Append(c.argv, av[n]) /\ d.next = n + 1
           /\ \A g \in FileFields : d[g] = c[g]
    <2>1. ~o[n] /\ ArgsOf(ws, n) = ArgsOf(ws, n - 1) \cup {ws[n][1]}
        BY <1>2, <1>3, <1>4, <1>7
    <2>2. av[n] = ws[n][1] /\ av[n] \in Nat
        BY <1>1
    <2>3. /\ Len(d.argv) = Len(c.argv) + 1 /\ d.argv[Len(c.argv) + 1] = ws[n][1] /\ Len(c.argv) \in Nat
          /\ \A i \in 1..Len(c.argv) : d.argv[i] = c.argv[i]
        BY <1>7, <2>2
    <2>4. {d.argv[i] : i \in 1..Len(d.argv)} = {c.argv[i] : i \in 1..Len(c.argv)} \cup {ws[n][1]}
        <3>1. 1..Len(d.argv) = 1..Len(c.argv) \cup {Len(c.argv) + 1}
            BY <2>3
        <3>2. {d.argv[i] : i \in 1..Len(d.argv)}
                  = {d.argv[i] : i \in 1..Len(c.argv)} \cup {d.argv[Len(c.argv) + 1]}
            BY <3>1
        <3>3. {d.argv[i] : i \in 1..Len(c.argv)} = {c.argv[i] : i \in 1..Len(c.argv)}
            <4> DEFINE x == d.argv
                       y == c.argv
                       T == 1..Len(y)
            <4>1. \A i \in T : x[i] = y[i]
                BY <2>3
            <4> HIDE DEF x, y, T
            <4>2. {x[i] : i \in T} = {y[i] : i \in T}
                <5>1. ASSUME NEW i \in T PROVE x[i] \in {y[j] : j \in T}
                    BY <4>1
                <5>2. ASSUME NEW i \in T PROVE y[i] \in {x[j] : j \in T}
                    BY <4>1
                <5> QED
                    BY <5>1, <5>2
            <4> QED
                BY <4>2 DEF x, y, T
        <3> QED
            BY <2>3, <3>2, <3>3
    <2>5. Best(d, n)
        BY <1>2, <1>4, <1>7 DEF Best, FileFields
    <2>6. Alone(d, n)
        <3> SUFFICES ASSUME \A i \in 1..Len(ws) : FieldOf(ws, i) = "argv"
                     PROVE  Len(d.argv) = n /\ \A i \in 1..n : d.argv[i] = ws[i][1]
            BY DEF Alone
        <3>1. Len(c.argv) = n - 1 /\ \A i \in 1..(n - 1) : c.argv[i] = ws[i][1]
            BY <1>2 DEF Alone
        <3>2. Len(d.argv) = n
            BY <1>1, <2>3, <3>1
        <3>3. ASSUME NEW i \in 1..n PROVE d.argv[i] = ws[i][1]
            <4>1. i = n \/ i \in 1..(n - 1)
                BY <1>1
            <4>2. CASE i = n
                BY <1>1, <2>3, <3>1, <4>2
            <4>3. CASE i \in 1..(n - 1)
                BY <2>3, <3>1, <4>3
            <4> QED
                BY <4>1, <4>2, <4>3
        <3> QED
            BY <3>2, <3>3
    <2>7. d.next - 1 = n /\ n \in 0..Len(ws)
        BY <1>1, <1>7
    <2> QED
        BY <1>2, <1>5, <2>1, <2>4, <2>5, <2>6, <2>7
<1>8. CASE /\ f \in FileFields /\ n = Len(av) /\ d.argv = c.argv /\ d.next = n + 1
           /\ \A g \in FileFields : d[g] = c[g]
    <2>1. f # "argv" /\ ArgsOf(ws, n) = ArgsOf(ws, n - 1)
        BY <1>3, <1>4, <1>8 DEF FileFields
    <2>2. Best(d, n)
        BY <1>2, <1>4, <1>8 DEF Best, FileFields
    <2>3. Alone(d, n)
        BY <2>1 DEF Alone, f
    <2>4. d.next - 1 = n /\ n \in 0..Len(ws) /\ n = Len(ws)
        BY <1>1, <1>8
    <2>5. {d.argv[i] : i \in 1..Len(d.argv)} = ArgsOf(ws, n)
        BY <1>2, <1>8, <2>1
    <2> QED
        BY <1>5, <2>2, <2>3, <2>4, <2>5
<1>9. CASE /\ f \in FileFields /\ n # Len(av) /\ d.argv = c.argv /\ d.next = n + 2 /\ d[f] = av[n + 1]
           /\ \A g \in FileFields : g # f => d[g] = c[g]
    <2>1. f # "argv" /\ ArgsOf(ws, n) = ArgsOf(ws, n - 1) /\ o[n]
        BY <1>3, <1>4, <1>9 DEF FileFields
    <2>2. n + 1 \in 1..Len(ws) /\ (n + 1) - 1 = n
        BY <1>1, <1>9
    <2>3. ~o[n + 1]
        BY <1>1, <2>1, <2>2, OpensFileIs DEF o
    <2>4. /\ ArgsOf(ws, n + 1) = ArgsOf(ws, n)
          /\ \A g : FilesOf(ws, g, n + 1) = FilesOf(ws, g, n - 1) \cup IF g = f THEN {ws[n + 1][1]} ELSE {}
        <3>1. /\ ArgsOf(ws, n + 1) = ArgsOf(ws, n) \cup IF ~o[n + 1] /\ ~o[n] THEN {ws[n + 1][1]} ELSE {}
              /\ \A g : FilesOf(ws, g, n + 1) = FilesOf(ws, g, n) \cup
                            IF o[n] /\ f = g THEN {ws[n + 1][1]} ELSE {}
            BY <1>1, <2>2, OneWordMore DEF o, f
        <3>2. ArgsOf(ws, n + 1) = ArgsOf(ws, n)
            BY <2>1, <3>1
        <3>3. ASSUME NEW g
              PROVE  FilesOf(ws, g, n + 1) = FilesOf(ws, g, n - 1) \cup IF g = f THEN {ws[n + 1][1]} ELSE {}
            <4>1. FilesOf(ws, g, n) = FilesOf(ws, g, n - 1)
                BY <1>4
            <4>2. FilesOf(ws, g, n + 1) = FilesOf(ws, g, n) \cup IF o[n] /\ f = g THEN {ws[n + 1][1]} ELSE {}
                BY <3>1
            <4> QED
                BY <2>1, <4>1, <4>2
        <3> QED
            BY <3>2, <3>3
    <2>5. d[f] = ws[n + 1][1] /\ d[f] \in Nat \ {0}
        BY <1>9, <2>2 DEF InTheirOrder
    <2>6. \A x \in FilesOf(ws, f, n - 1) : x <= d[f]
        <3> SUFFICES ASSUME NEW i \in 1..(n - 1) PROVE ws[i][1] <= ws[n + 1][1]
            BY <1>6, <2>5
        <3>1. i \in 1..Len(ws) /\ i < n + 1
            BY <1>1
        <3>2. ws[i][1] < ws[n + 1][1] /\ ws[i][1] \in Nat /\ ws[n + 1][1] \in Nat
            BY <2>2, <3>1 DEF InTheirOrder
        <3> QED
            BY <3>2, SMTT(30)
    <2>7. Best(d, n + 1)
        <3> SUFFICES ASSUME NEW g \in {"in", "out", "app"}
                     PROVE  /\ d[g] = 0 <=> FilesOf(ws, g, n + 1) = {}
                            /\ FilesOf(ws, g, n + 1) # {} => /\ d[g] \in FilesOf(ws, g, n + 1)
                                                           /\ \A x \in FilesOf(ws, g, n + 1) : x <= d[g]
            BY DEF Best
        <3>1. CASE g = f
            <4>1. FilesOf(ws, g, n + 1) = FilesOf(ws, f, n - 1) \cup {d[f]}
                BY <2>4, <2>5, <3>1
            <4> QED
                BY <2>5, <2>6, <3>1, <4>1, SMTT(30)
        <3>2. CASE g # f
            <4>1. FilesOf(ws, g, n + 1) = FilesOf(ws, g, n - 1) /\ d[g] = c[g]
                BY <1>9, <2>4, <3>2 DEF FileFields
            <4> QED
                BY <1>2, <4>1 DEF Best
        <3> QED
            BY <3>1, <3>2
    <2>8. Alone(d, n + 1)
        BY <2>1 DEF Alone, f
    <2>9. d.next - 1 = n + 1 /\ n + 1 \in 0..Len(ws)
        BY <1>1, <1>9, <2>2
    <2>10. {d.argv[i] : i \in 1..Len(d.argv)} = ArgsOf(ws, n + 1)
        BY <1>2, <1>9, <2>1, <2>4
    <2> QED
        BY <1>5, <2>3, <2>7, <2>8, <2>9, <2>10
<1> QED
    BY <1>7, <1>8, <1>9 DEF TakesToken, f

\* The words of a part stand in it one behind the other.
LEMMA WordsInOrder ==
    ASSUME ParserAt, Tidy, NEW lo, NEW hi, IsPart(lo, hi)
    PROVE  InTheirOrder(WordsIn(lo, hi))
<1> DEFINE ws == WordsIn(lo, hi)
           T == WordStarts(lo, hi)
<1>1. ws \in Seq(Nat \X Nat) /\ Len(ws) = Cardinality(T) /\ T \in SUBSET Nat /\ IsFiniteSet(T)
    BY WordsInAre
<1>2. ASSUME NEW i \in 1..Len(ws) PROVE ws[i][1] \in Nat \ {0}
    <2>1. ws[i][1] \in 1..(Len(line) + 1)
        BY WordAtIs
    <2> QED
        BY <2>1
<1>3. ASSUME NEW i \in 1..Len(ws), NEW j \in 1..Len(ws), i < j PROVE ws[i][1] < ws[j][1]
    <2> DEFINE a == InOrder(T)[i]
               b == InOrder(T)[j]
    <2>1. a \in 1..Len(line) /\ ~Sep(a) /\ ws[i][1] \in a..(a + 1)
        BY WordAtIs
    <2>2. b \in 1..Len(line) /\ Sep(b - 1) /\ ws[j][1] \in b..(b + 1)
        BY WordAtIs
    <2>3. a < b
        <3> HIDE DEF T
        <3> QED
            BY <1>1, <1>3, OrderIs
    <2> HIDE DEF a, b, ws
    <2>4. b # a + 1
        <3> SUFFICES ASSUME b = a + 1 PROVE FALSE
            OBVIOUS
        <3>1. b - 1 = a
            BY <2>1
        <3> QED
            BY <2>1, <2>2, <3>1
    <2> QED
        BY <2>1, <2>2, <2>3, <2>4
<1> QED
    BY <1>1, <1>2, <1>3 DEF InTheirOrder

\* A pointer to a word that is cut off stands for that word of the line.
LEMMA StringIs ==
    ASSUME ParserAt, Tidy, Intact(buf), NEW lo, NEW hi, IsPart(lo, hi),
           NEW n \in 1..Len(WordsIn(lo, hi)), buf[WordsIn(lo, hi)[n][2]] = NUL
    PROVE  /\ First(buf, WordsIn(lo, hi)[n][1], {NUL}) = WordsIn(lo, hi)[n][2]
           /\ Field(String(WordsIn(lo, hi)[n][1])) = FieldOf(WordsIn(lo, hi), n)
<1> DEFINE s == WordsIn(lo, hi)[n][1]
           e == WordsIn(lo, hi)[n][2]
           x == SubSeq(buf, s, e - 1)
           y == SubSeq(line, s, e - 1)
<1>1. /\ s \in 1..(Len(line) + 1) /\ e \in 1..(Len(line) + 1) /\ s <= e
      /\ \A k \in s..(e - 1) : k \in 1..Len(line) /\ ~Sep(k) /\ line[k] # Quote
    <2>1. /\ s \in 1..(Len(line) + 1) /\ e \in 1..(Len(line) + 1) /\ e \in s..(hi + 1)
          /\ \A k \in s..(e - 1) : k \in 1..Len(line) /\ ~Sep(k) /\ line[k] # Quote
        BY WordAtIs
    <2> QED
        BY <2>1
<1>2. buf[e] = NUL
    OBVIOUS
<1> HIDE DEF s, e
<1>3. Len(line) \in Nat /\ Len(buf) = Len(line) + 1 /\ s \in Nat /\ e \in Nat
    BY <1>1, LineFacts
<1>4. \A k \in s..(e - 1) : buf[k] = line[k] /\ line[k] # NUL /\ line[k] \in Chars
    BY <1>1, LineFacts DEF Intact
<1>5. First(buf, s, {NUL}) = e
    <2>1. e \in s..Len(buf) /\ \A k \in s..(e - 1) : buf[k] \notin {NUL}
        BY <1>1, <1>3, <1>4
    <2>2. buf[e] \in {NUL} /\ Len(buf) \in Nat
        BY <1>2, <1>3
    <2> QED
        BY <1>3, <2>1, <2>2, FirstIs
<1>6. x = y
    <2>1. /\ s \in Int /\ e - 1 \in Int /\ \A k \in s..(e - 1) : buf[k] \in Chars /\ line[k] \in Chars
        BY <1>3, <1>4
    <2>2. /\ x \in Seq(Chars) /\ Len(x) = IF s <= e - 1 THEN e - 1 - s + 1 ELSE 0
          /\ \A i \in 1..(e - 1 - s + 1) : x[i] = buf[s + i - 1]
        BY <2>1, SubSeqProperties
    <2>3. /\ y \in Seq(Chars) /\ Len(y) = IF s <= e - 1 THEN e - 1 - s + 1 ELSE 0
          /\ \A i \in 1..(e - 1 - s + 1) : y[i] = line[s + i - 1]
        BY <2>1, SubSeqProperties
    <2> HIDE DEF x, y
    <2>4. Len(x) = e - s /\ Len(y) = e - s
        BY <1>1, <1>3, <2>2, <2>3
    <2>5. ASSUME NEW i \in 1..(e - s) PROVE x[i] = y[i]
        <3>1. i \in 1..(e - 1 - s + 1) /\ s + i - 1 \in s..(e - 1)
            BY <1>1, <1>3
        <3> QED
            BY <1>4, <2>2, <2>3, <3>1
    <2> QED
        BY <2>2, <2>3, <2>4, <2>5
<1>7. String(s) = x
    BY <1>5 DEF String
<1> QED
    BY <1>5, <1>6, <1>7 DEF FieldOf, s, e, x, y

LEMMA PlaceTokenMeans == ParserInv /\ WordInv /\ PlaceToken => WordInv'
<1> SUFFICES ASSUME ParserInv, WordInv, PlaceToken PROVE WordInv'
    OBVIOUS
<1> DEFINE n == cmd.next
           m == Len(clist) + 1
           ws == Meant[m]
           f == Field(String(argv[n]))
<1>1. /\ ppc = "redir" /\ n <= Len(argv)
      /\ UNCHANGED <<shell, line, buf, save, ptr, argv, clist, ppc, rc>>
      /\ cmd' = TokenAs(cmd, argv, f)
    BY DEF PlaceToken, TokenAs, TwoTokens
<1> SUFFICES ASSUME Tidy, Parsed(buf, save, ptr, argv, cmd, clist, ppc, rc)
             PROVE  Parsed(buf', save', ptr', argv', cmd', clist', ppc', rc')
    BY <1>1, MeaningKept
<1>2. /\ Intact(buf) /\ InPart(buf, save, m) /\ WordsStored(buf, argv, ws) /\ Len(argv) = Len(ws)
      /\ Sorted(cmd, ws, n - 1)
    BY <1>1 DEF Parsed
<1>3. ParserAt /\ argv \in Seq(Nat) /\ Len(argv) \in Nat
    BY ArrayFacts
<1>4. IsPart(Parts[m][1], Parts[m][2]) /\ ws = WordsIn(Parts[m][1], Parts[m][2])
    BY <1>2, <1>3, MeantIs DEF InPart
<1>5. InTheirOrder(ws)
    BY <1>3, <1>4, WordsInOrder
<1>6. cmd \in [next : Nat, argv : Seq(Nat), in : Nat, out : Nat, app : Nat] /\ n \in 1..Len(ws)
    <2>1. /\ cmd \in [next : Nat, argv : Seq(1..Len(buf)), in : Nat, out : Nat, app : Nat]
          /\ Len(cmd.argv) < cmd.next
        BY DEF ParserInv, Placed, WellPlaced
    <2>2. cmd.argv \in Seq(1..Len(buf)) /\ 1..Len(buf) \subseteq Nat /\ cmd.next \in Nat
        BY <2>1
    <2>3. cmd.argv \in Seq(Nat) /\ Len(cmd.argv) \in Nat
        BY <2>2
    <2>4. n \in 1..Len(ws)
        BY <1>1, <1>2, <1>3, <2>1, <2>2, <2>3
    <2> QED
        BY <2>1, <2>3, <2>4
<1>7. \A k \in 1..Len(ws) : argv[k] = ws[k][1]
    BY <1>2 DEF WordsStored
<1>8. f = FieldOf(ws, n)
    <2>1. argv[n] = ws[n][1] /\ buf[ws[n][2]] = NUL
        BY <1>2, <1>6 DEF WordsStored
    <2> DEFINE lo == Parts[m][1]
               hi == Parts[m][2]
               vs == WordsIn(lo, hi)
    <2>2. IsPart(lo, hi) /\ ws = vs /\ n \in 1..Len(vs) /\ buf[vs[n][2]] = NUL
        BY <1>4, <1>6, <2>1
    <2> HIDE DEF ws, lo, hi, m, f, n
    <2>3. Field(String(vs[n][1])) = FieldOf(vs, n)
        BY <1>2, <1>3, <2>2, StringIs
    <2>4. Field(String(argv[n])) = FieldOf(ws, n)
        BY <2>1, <2>2, <2>3
    <2> QED
        BY <2>4 DEF f, n
<1>9. f \in {"app", "out", "in", "argv"}
    BY DEF Field
<1> HIDE DEF f, ws, m
<1>10. TakesToken(cmd, cmd', argv, n, FieldOf(ws, n))
    BY <1>1, <1>6, <1>8, <1>9, TokenTaken
<1>11. Sorted(cmd', ws, cmd'.next - 1)
    <2>1. cmd.argv \in Seq(Nat)
        BY <1>6
    <2> QED
        BY <1>2, <1>3, <1>5, <1>6, <1>7, <1>10, <2>1, OneMoreSorted
<1> QED
    BY <1>1, <1>11 DEF Parsed, ws, m

\* A line that holds no operator of 5-shellp3 opens no file.
LEMMA NoOperators ==
    ASSUME ParserAt, Tidy, WellQuoted, NEW lo, NEW hi, IsPart(lo, hi), NEW n \in 1..Len(WordsIn(lo, hi))
    PROVE  FieldOf(WordsIn(lo, hi), n) = "argv"
<1> DEFINE s == WordsIn(lo, hi)[n][1]
           e == WordsIn(lo, hi)[n][2]
           y == SubSeq(line, s, e - 1)
<1>1. /\ s \in 1..(Len(line) + 1) /\ e \in 1..(Len(line) + 1)
      /\ \A k \in s..(e - 1) : k \in 1..Len(line)
    BY WordAtIs
<1> HIDE DEF s, e
<1>2. Len(line) \in Nat /\ DOMAIN line = 1..Len(line)
    BY LineFacts
<1>3. \A k \in s..(e - 1) : line[k] \in Chars \ {"<", ">"}
    BY <1>1, <1>2, LineFacts DEF WellQuoted
<1>4. \A i \in 1..Len(y) : y[i] \in Chars \ {"<", ">"}
    <2>1. y \in Seq(Chars \ {"<", ">"})
        BY <1>1, <1>2, <1>3, SubSeqProperties
    <2> QED
        BY <2>1
<1> HIDE DEF y
<1>5. y # <<">", ">">> /\ y # <<">">> /\ y # <<"<">>
    <2>1. CASE y = <<">", ">">>
        <3>1. 1 \in 1..Len(y) /\ y[1] = ">"
            BY <2>1
        <3> QED
            BY <1>4, <3>1
    <2>2. CASE y = <<">">>
        <3>1. 1 \in 1..Len(y) /\ y[1] = ">"
            BY <2>2
        <3> QED
            BY <1>4, <3>1
    <2>3. CASE y = <<"<">>
        <3>1. 1 \in 1..Len(y) /\ y[1] = "<"
            BY <2>3
        <3> QED
            BY <1>4, <3>1
    <2> QED
        BY <2>1, <2>2, <2>3
<1>6. Field(y) = "argv"
    BY <1>5 DEF Field
<1> QED
    BY <1>6 DEF FieldOf, y, s, e

\* A line that 3-shellp2 does not refuse has a word.
LEMMA SomeWord ==
    ASSUME ParserAt, Tidy, shell = "p2", ~Refused(shell, line), IsPart(1, Len(line))
    PROVE  Len(WordsIn(1, Len(line))) \in 1..Limit
<1> DEFINE U == {k \in Nat : k >= 1 /\ ~Sep(k)}
           T == WordStarts(1, Len(line))
<1>1. Len(line) \in Nat /\ DOMAIN line = 1..Len(line)
    BY LineFacts
<1>2. PICK i \in 1..Len(line) : line[i] \notin {Blank, Tab}
    BY <1>1 DEF Refused
<1>3. i \in U
    BY <1>2, LineFacts DEF Delims
<1>4. PICK k \in U : \A n \in U : k <= n
    <2>1. U \in SUBSET Nat
        OBVIOUS
    <2> HIDE DEF U
    <2> QED
        BY <1>3, <2>1, LeastNat
<1>5. k \in 1..Len(line) /\ ~Sep(k)
    BY <1>1, <1>2, <1>3, <1>4
<1>6. Sep(k - 1)
    <2>1. CASE k = 1
        BY <2>1, LineFacts
    <2>2. CASE k # 1
        <3>1. k - 1 \in Nat /\ k - 1 >= 1 /\ ~(k <= k - 1)
            BY <1>5, <2>2
        <3> QED
            BY <1>4, <3>1
    <2> QED
        BY <2>1, <2>2
<1>7. k \in T
    BY <1>5, <1>6 DEF WordStarts
<1>8. /\ IsFiniteSet(T) /\ Cardinality(T) \in 0..Len(line)
      /\ Len(WordsIn(1, Len(line))) = Cardinality(T)
    BY WordsInAre
<1> HIDE DEF T
<1>9. Cardinality(T) # 0
    BY <1>7, <1>8, FS_EmptySet
<1>10. Limit = Len(line)
    BY DEF Limit
<1> QED
    BY <1>1, <1>8, <1>9, <1>10

\* One more command is as its words say.
LEMMA OneMoreTaken ==
    ASSUME NEW b, NEW cs \in Seq(Command), AllTaken(b, cs), NEW c \in Command,
           Len(cs) + 1 \in DOMAIN Parts, Len(Meant[Len(cs) + 1]) \in 1..Limit,
           Taken(b, c, Meant[Len(cs) + 1])
    PROVE  AllTaken(b, Append(cs, c)) /\ Len(Append(cs, c)) = Len(cs) + 1
<1> DEFINE l == Append(cs, c)
<1>1. /\ Len(l) = Len(cs) + 1 /\ l[Len(cs) + 1] = c /\ Len(cs) \in Nat
      /\ \A i \in 1..Len(cs) : l[i] = cs[i]
    OBVIOUS
<1> HIDE DEF l
<1>2. ASSUME NEW n \in 1..Len(l)
      PROVE  n \in DOMAIN Parts /\ Len(Meant[n]) \in 1..Limit /\ Taken(b, l[n], Meant[n])
    <2>1. CASE n = Len(cs) + 1
        BY <1>1, <2>1
    <2>2. CASE n # Len(cs) + 1
        <3>1. n \in 1..Len(cs) /\ l[n] = cs[n]
            BY <1>1, <2>2
        <3> QED
            BY <3>1 DEF AllTaken
    <2> QED
        BY <2>1, <2>2
<1> QED
    BY <1>1, <1>2 DEF AllTaken, l

LEMMA EndOfWordsMeans == ParserInv /\ WordInv /\ EndOfWords => WordInv'
<1> SUFFICES ASSUME ParserInv, WordInv, EndOfWords PROVE WordInv'
    OBVIOUS
<1> DEFINE S == IF shell = "p2" THEN IsSpace ELSE {Blank}
           m == Len(clist) + 1
           lo == Parts[m][1]
           hi == Parts[m][2]
           ws == WordsIn(lo, hi)
           c == [NoCmd EXCEPT !.argv = argv]
<1>1. /\ ppc = "word" /\ buf[Skip(buf, ptr, S)] = NUL
      /\ UNCHANGED <<shell, line, buf, save, ptr, argv, cmd>>
      /\ \/ shell = "p2" /\ clist' = <<c>> /\ ppc' = "done" /\ rc' = "OK"
         \/ shell = "p3" /\ ppc' = "redir" /\ clist' = clist
         \/ shell = "p4" /\ argv # <<>> /\ clist' = Append(clist, c) /\ ppc' = "list"
         \/ shell = "p4" /\ argv = <<>> /\ ppc' = "done" /\ rc' = "WARN_NO_CMDS" /\ clist' = clist
    BY DEF EndOfWords, Return
<1> SUFFICES ASSUME Tidy, Parsed(buf, save, ptr, argv, cmd, clist, ppc, rc)
             PROVE  Parsed(buf', save', ptr', argv', cmd', clist', ppc', rc')
    BY <1>1, MeaningKept
<1>2. c \in Command /\ c.argv = argv
    BY CommandOf
<1> HIDE DEF S, m, c
<1>3. /\ Intact(buf) /\ AllTaken(buf, clist) /\ InPart(buf, save, m) /\ ReadSoFar(buf, argv, ptr, lo, hi)
      /\ cmd = NoCmd
      /\ shell = "p2" => ~Refused(shell, line) /\ clist = <<>>
      /\ shell = "p4" => Len(argv) <= ARGV_MAX - 2
    BY <1>1 DEF Parsed, m
<1>4. /\ ParserAt /\ buf \in LineText /\ Len(buf) = Len(line) + 1 /\ Len(argv) \in Nat
      /\ MAX_CMDS \in Nat \ {0} /\ ARGV_MAX = MAX_CMDS + 1 /\ Len(clist) \in Nat
      /\ clist \in Seq(Command)
    BY ArrayFacts DEF ParserInv, RoomLeft
<1>5. m \in DOMAIN Parts /\ m \in DOMAIN Meant /\ IsPart(lo, hi) /\ Meant[m] = ws
    BY <1>3, <1>4, MeantIs DEF InPart
<1> HIDE DEF lo, hi
<1>6. WordsStored(buf, argv, ws)
    BY <1>3 DEF ReadSoFar
<1>7. Len(argv) = Room(Len(ws))
    <2>1. S \in {IsSpace, {Blank}} /\ buf[Skip(buf, ptr, S)] = NUL
        BY <1>1 DEF S
    <2> QED
        BY <1>3, <1>4, <1>5, <2>1, AllRead
<1>8. Len(ws) \in Nat
    BY <1>4, <1>5, WordsInAre
<1>9. shell # "p3" => Taken(buf, c, ws)
    BY <1>2, <1>6, <1>7 DEF Taken
<1>10. shell # "p2" => Len(argv) = Len(ws)
    BY <1>7 DEF Room
<1>11. CASE shell = "p2" /\ clist' = <<c>> /\ ppc' = "done" /\ rc' = "OK"
    <2>1. m = 1 /\ Len(Meant) = 1 /\ lo = 1 /\ hi = Len(line)
        <3>1. Len(Meant) = 1 /\ Parts[1][1] = 1 /\ Parts[1][2] = Len(line)
            BY <1>4, <1>11, MeantIs
        <3>2. m = 1
            BY <1>3, <1>11 DEF m
        <3> QED
            BY <3>1, <3>2 DEF lo, hi
    <2>2. Len(ws) \in 1..Limit
        BY <1>3, <1>4, <1>5, <1>11, <2>1, SomeWord
    <2>3. Append(clist, c) = <<c>> /\ Len(<<c>>) = 1
        BY <1>3, <1>11
    <2>4. AllTaken(buf, <<c>>)
        <3>1. Len(clist) + 1 = m
            BY DEF m
        <3> HIDE DEF ws
        <3>2. AllTaken(buf, Append(clist, c))
            BY <1>2, <1>3, <1>4, <1>5, <1>9, <1>11, <2>2, <3>1, OneMoreTaken
        <3> QED
            BY <2>3, <3>2
    <2>5. ParsingOutcome(<<c>>, "OK")
        BY <1>4, <2>1, <2>3 DEF ParsingOutcome
    <2> QED
        BY <1>1, <1>3, <1>11, <2>4, <2>5 DEF Parsed
<1>12. CASE shell = "p3" /\ ppc' = "redir" /\ clist' = clist
    <2>1. Sorted(cmd, ws, cmd.next - 1)
        <3>1. NoCmd.next - 1 = 0
            BY DEF NoCmd
        <3> HIDE DEF ws
        <3> QED
            BY <1>3, <1>8, <3>1, NoneSorted
    <2>2. Len(argv) = Len(ws)
        BY <1>10, <1>12
    <2> HIDE DEF ws
    <2> QED
        BY <1>1, <1>3, <1>5, <1>6, <1>12, <2>1, <2>2 DEF Parsed, m
<1>13. CASE shell = "p4" /\ argv # <<>> /\ clist' = Append(clist, c) /\ ppc' = "list"
    <2>1. Len(ws) \in 1..Limit
        <3>1. Limit = ARGV_MAX - 2
            BY <1>13 DEF Limit
        <3>2. Len(argv) # 0
            <4>1. argv \in Seq(Nat)
                BY ArrayFacts
            <4> QED
                BY <1>13, <4>1
        <3> QED
            BY <1>3, <1>4, <1>8, <1>10, <1>13, <3>1, <3>2
    <2>2. AllTaken(buf, Append(clist, c)) /\ Len(Append(clist, c)) = m
        <3>1. Len(clist) + 1 = m
            BY DEF m
        <3> HIDE DEF ws
        <3> QED
            BY <1>2, <1>3, <1>4, <1>5, <1>9, <1>13, <2>1, <3>1, OneMoreTaken
    <2>3. InList(buf, save, m)
        BY <1>3, <1>13 DEF InPart
    <2> QED
        BY <1>1, <1>3, <1>13, <2>2, <2>3 DEF Parsed
<1>14. CASE shell = "p4" /\ argv = <<>> /\ ppc' = "done" /\ rc' = "WARN_NO_CMDS" /\ clist' = clist
    <2>1. Len(Meant[m]) = 0
        BY <1>5, <1>10, <1>14
    <2>2. ParsingOutcome(clist, rc')
        BY <1>5, <1>14, <2>1 DEF ParsingOutcome
    <2> QED
        BY <1>1, <1>3, <1>14, <2>2 DEF Parsed
<1> QED
    BY <1>1, <1>11, <1>12, <1>13, <1>14

LEMMA EndOfTokensMeans == ParserInv /\ WordInv /\ EndOfTokens => WordInv'
<1> SUFFICES ASSUME ParserInv, WordInv, EndOfTokens PROVE WordInv'
    OBVIOUS
<1> DEFINE m == Len(clist) + 1
           lo == Parts[m][1]
           hi == Parts[m][2]
           ws == WordsIn(lo, hi)
<1>1. /\ ppc = "redir" /\ cmd.next > Len(argv)
      /\ UNCHANGED <<shell, line, buf, save, ptr, argv, cmd>>
      /\ \/ cmd.argv = <<>> /\ ppc' = "done" /\ rc' = "WARN_NO_CMDS" /\ clist' = clist
         \/ cmd.argv # <<>> /\ clist' = Append(clist, cmd) /\ ppc' = "list"
         \/ ppc' = "done" /\ rc' = "ERR_MEMORY" /\ clist' = clist
    BY DEF EndOfTokens, Return
<1> SUFFICES ASSUME Tidy, Parsed(buf, save, ptr, argv, cmd, clist, ppc, rc)
             PROVE  Parsed(buf', save', ptr', argv', cmd', clist', ppc', rc')
    BY <1>1, MeaningKept
<1> HIDE DEF m
<1>2. /\ shell = "p3" /\ Intact(buf) /\ AllTaken(buf, clist) /\ InPart(buf, save, m)
      /\ WordsStored(buf, argv, Meant[m]) /\ Len(argv) = Len(Meant[m])
      /\ Sorted(cmd, Meant[m], cmd.next - 1)
    BY <1>1 DEF Parsed, m
<1>3. /\ ParserAt /\ Len(argv) \in Nat /\ ARGV_MAX \in Nat /\ clist \in Seq(Command)
      /\ Len(argv) <= ARGV_MAX - 1
    BY <1>1, ArrayFacts DEF ParserInv, RoomLeft
<1>4. m \in DOMAIN Parts /\ m \in DOMAIN Meant /\ IsPart(lo, hi) /\ Meant[m] = ws
    BY <1>2, <1>3, MeantIs DEF InPart
<1> HIDE DEF lo, hi
<1>5. /\ cmd \in Command /\ cmd.argv \in Seq(Nat) /\ Len(cmd.argv) \in Nat
      /\ cmd.next \in Nat /\ Len(cmd.argv) < cmd.next /\ cmd.next - 1 = Len(ws)
    <2>1. /\ cmd \in [next : Nat, argv : Seq(1..Len(buf)), in : Nat, out : Nat, app : Nat]
          /\ Len(cmd.argv) < cmd.next /\ cmd.next <= Len(argv) + 1
        BY DEF ParserInv, Placed, WellPlaced
    <2>2. cmd.argv \in Seq(1..Len(buf)) /\ 1..Len(buf) \subseteq Nat /\ cmd.next \in Nat
        BY <2>1
    <2>3. cmd.argv \in Seq(Nat) /\ Len(cmd.argv) \in Nat
        BY <2>2
    <2>4. cmd \in Command
        BY <2>1, <2>3 DEF Command
    <2>5. cmd.next - 1 = Len(argv)
        BY <1>1, <1>3, <2>1, <2>2
    <2> QED
        BY <1>2, <1>4, <2>1, <2>2, <2>3, <2>4, <2>5
<1>6. Len(ws) \in Nat /\ Len(argv) = Len(ws) /\ Sorted(cmd, ws, Len(ws)) /\ WordsStored(buf, argv, ws)
    BY <1>2, <1>3, <1>4, <1>5
<1>7. CASE cmd.argv = <<>> /\ ppc' = "done" /\ rc' = "WARN_NO_CMDS" /\ clist' = clist
    <2>1. ASSUME WellQuoted PROVE Len(Meant[m]) \notin 1..Limit
        <3>1. \A i \in 1..Len(ws) : FieldOf(ws, i) = "argv"
            BY <1>3, <1>4, <2>1, NoOperators
        <3>2. Len(cmd.argv) = Len(ws)
            BY <1>6, <3>1 DEF Sorted
        <3> QED
            BY <1>4, <1>7, <3>2
    <2>2. ParsingOutcome(clist, rc')
        BY <1>4, <1>7, <2>1 DEF ParsingOutcome
    <2> QED
        BY <1>1, <1>2, <1>7, <2>2 DEF Parsed
<1>8. CASE cmd.argv # <<>> /\ clist' = Append(clist, cmd) /\ ppc' = "list"
    <2>1. Len(ws) \in 1..Limit
        <3>1. Limit = ARGV_MAX - 1
            BY <1>2 DEF Limit
        <3>2. Len(cmd.argv) # 0
            BY <1>5, <1>8
        <3> QED
            BY <1>3, <1>5, <1>6, <3>1, <3>2
    <2>2. Taken(buf, cmd, ws)
        <3>1. \A k \in 1..Len(ws) : buf[ws[k][2]] = NUL
            BY <1>6 DEF WordsStored
        <3> QED
            BY <1>2, <1>6, <3>1 DEF Taken
    <2>3. AllTaken(buf, Append(clist, cmd)) /\ Len(Append(clist, cmd)) = m
        <3>1. Len(clist) + 1 = m
            BY DEF m
        <3> HIDE DEF ws
        <3> QED
            BY <1>2, <1>3, <1>4, <1>5, <2>1, <2>2, <3>1, OneMoreTaken
    <2>4. InList(buf, save, m)
        BY <1>2 DEF InPart
    <2> QED
        BY <1>1, <1>2, <1>8, <2>3, <2>4 DEF Parsed
<1>9. CASE ppc' = "done" /\ rc' = "ERR_MEMORY" /\ clist' = clist
    <2>1. ParsingOutcome(clist, rc')
        BY <1>9 DEF ParsingOutcome
    <2> QED
        BY <1>1, <1>2, <1>9, <2>1 DEF Parsed
<1> QED
    BY <1>1, <1>7, <1>8, <1>9

----------------------------------------------------------------------------
(* What a reader of the line finds.                                        *)

LEMMA WordsKept == ParserInv /\ WordInv /\ [ParserNext]_parser => WordInv'
<1> SUFFICES ASSUME ParserInv, WordInv, [ParserNext]_parser PROVE WordInv'
    OBVIOUS
<1>1. CASE TypeCommand
    BY <1>1, TypeCommandMeans
<1>2. CASE NextCommand
    BY <1>2, NextCommandMeans
<1>3. CASE Word2
    BY <1>3, Word2Means
<1>4. CASE Word3
    BY <1>4, Word3Means
<1>5. CASE Word4
    BY <1>5, Word4Means
<1>6. CASE EndOfWords
    BY <1>6, EndOfWordsMeans
<1>7. CASE PlaceToken
    BY <1>7, PlaceTokenMeans
<1>8. CASE EndOfTokens
    BY <1>8, EndOfTokensMeans
<1>9. CASE UNCHANGED parser
    <2>1. UNCHANGED <<shell, line, buf, save, ptr, argv, cmd, clist, ppc, rc>>
        BY <1>9 DEF parser
    <2>2. CASE ppc = "idle"
        BY <2>1, <2>2 DEF WordInv
    <2>3. CASE ppc # "idle"
        <3>1. Parsed(buf, save, ptr, argv, cmd, clist, ppc, rc)
                  => Parsed(buf', save', ptr', argv', cmd', clist', ppc', rc')
            BY <2>1
        <3> QED
            BY <2>1, <2>3, <3>1, MeaningKept
    <2> QED
        BY <2>2, <2>3
<1> QED
    BY <1>1, <1>2, <1>3, <1>4, <1>5, <1>6, <1>7, <1>8, <1>9 DEF ParserNext, ParseStep

LEMMA WellQuotedTidy == ParserAt /\ WellQuoted => Tidy
<1> SUFFICES ASSUME ParserAt, WellQuoted PROVE Tidy
    OBVIOUS
<1>1. DOMAIN line = 1..Len(line)
    BY LineFacts
<1> QED
    BY <1>1 DEF WellQuoted, Tidy

LEMMA UnquotedTidy ==
    ASSUME ParserAt, \A i \in DOMAIN line : line[i] \notin {Quote, Tab, CR}
    PROVE  Tidy
<1>1. DOMAIN line = 1..Len(line) /\ Len(line) \in Nat
    BY LineFacts
<1>2. ASSUME NEW i \in 1..(Len(line) + 1) PROVE ~InQuotes(i)
    <2>1. i \in Nat /\ 1 <= i /\ \A k \in 1..(i - 1) : line[k] # Quote
        BY <1>1
    <2>2. InQuotes(i) <=> InQuotes(1)
        BY <2>1, NoQuotesBetween
    <2> QED
        BY <2>2, QuoteToggles
<1> QED
    BY <1>1, <1>2 DEF Tidy

\* The commands of a line that was parsed.
LEMMA CommandsAre ==
    ASSUME ParserInv, WordInv, Tidy, ppc = "done"
    PROVE  /\ Intact(buf) /\ ParsingOutcome(clist, rc)
           /\ clist \in Seq(Command) /\ Len(clist) \in Nat /\ DOMAIN clist = 1..Len(clist)
           /\ \A n \in 1..Len(clist) :
                 /\ n \in DOMAIN Parts /\ Len(Meant[n]) \in 1..Limit
                 /\ Taken(buf, clist[n], Meant[n])
                 /\ clist[n].argv \in Seq(Nat)
                 /\ Meant[n] = WordsIn(Parts[n][1], Parts[n][2]) /\ IsPart(Parts[n][1], Parts[n][2])
<1>1. Intact(buf) /\ ParsingOutcome(clist, rc) /\ AllTaken(buf, clist)
    BY DEF WordInv, Parsed
<1>2. clist \in Seq(Command) /\ Len(clist) \in Nat /\ DOMAIN clist = 1..Len(clist)
    <2>1. clist \in Seq(Command)
        BY DEF ParserInv, RoomLeft
    <2> QED
        BY <2>1
<1>3. ASSUME NEW n \in 1..Len(clist) PROVE clist[n].argv \in Seq(Nat)
    <2>1. clist[n] \in Command
        BY <1>2
    <2> QED
        BY <2>1 DEF Command
<1>4. ParserAt
    BY DEF ParserInv
<1>5. \A n \in 1..Len(clist) : /\ n \in DOMAIN Parts /\ Len(Meant[n]) \in 1..Limit
                               /\ Taken(buf, clist[n], Meant[n])
    BY <1>1 DEF AllTaken
<1>6. \A n \in DOMAIN Parts : /\ Meant[n] = WordsIn(Parts[n][1], Parts[n][2])
                              /\ IsPart(Parts[n][1], Parts[n][2])
    BY <1>4, MeantIs
<1> QED
    BY <1>1, <1>2, <1>3, <1>5, <1>6

\* The first k of some words.
LEMMA FirstWords ==
    ASSUME NEW ws \in Seq(Nat \X Nat), NEW k \in 0..Len(ws)
    PROVE  SubSeq(ws, 1, k) = [i \in 1..k |-> ws[i]] /\ ws = [i \in 1..Len(ws) |-> ws[i]]
<1> DEFINE x == SubSeq(ws, 1, k)
<1>1. x \in Seq(Nat \X Nat) /\ Len(x) = k /\ \A i \in 1..k : x[i] = ws[i]
    <2>1. \A i \in 1..k : ws[i] \in Nat \X Nat
        OBVIOUS
    <2>2. /\ x \in Seq(Nat \X Nat) /\ Len(x) = IF 1 <= k THEN k - 1 + 1 ELSE 0
          /\ \A i \in 1..(k - 1 + 1) : x[i] = ws[1 + i - 1]
        BY <2>1, SubSeqProperties
    <2> HIDE DEF x
    <2> QED
        BY <2>2
<1> HIDE DEF x
<1>2. x = [i \in 1..k |-> ws[i]]
    BY <1>1
<1>3. ws = [i \in 1..Len(ws) |-> ws[i]]
    OBVIOUS
<1> QED
    BY <1>2, <1>3 DEF x

\* The words of a command as they were found.
LEMMA FoundIs ==
    ASSUME ParserInv, WordInv, WellQuoted, ppc = "done", NEW n \in 1..Len(clist)
    PROVE  [i \in DOMAIN clist[n].argv |->
               <<clist[n].argv[i], First(buf, clist[n].argv[i], {NUL})>>]
           = IF shell = "p2" /\ Len(Meant[n]) > ARGV_MAX - 1
             THEN SubSeq(Meant[n], 1, ARGV_MAX - 1) ELSE Meant[n]
<1> DEFINE ws == Meant[n]
           av == clist[n].argv
           lo == Parts[n][1]
           hi == Parts[n][2]
           k == Room(Len(ws))
<1>1. ParserAt /\ Tidy
    BY WellQuotedTidy DEF ParserInv
<1>2. /\ Intact(buf) /\ Taken(buf, clist[n], ws) /\ av \in Seq(Nat)
      /\ ws = WordsIn(lo, hi) /\ IsPart(lo, hi)
    BY <1>1, CommandsAre
<1>3. ws \in Seq(Nat \X Nat) /\ Len(ws) \in Nat
    <2>1. WordsIn(lo, hi) \in Seq(Nat \X Nat)
        BY <1>1, <1>2, WordsInAre
    <2> QED
        BY <1>2, <2>1
<1>4. k \in 0..Len(ws)
    BY <1>3, LineAssumption DEF Room, ARGV_MAX
<1> HIDE DEF ws, lo, hi
<1>5. Len(av) = k /\ \A i \in 1..k : av[i] = ws[i][1] /\ buf[ws[i][2]] = NUL
    <2>1. CASE shell = "p3"
        <3>1. k = Len(ws) /\ Sorted(clist[n], ws, Len(ws)) /\ \A i \in 1..Len(ws) : buf[ws[i][2]] = NUL
            BY <1>2, <2>1 DEF Taken, Room
        <3>2. \A i \in 1..Len(ws) : FieldOf(ws, i) = "argv"
            BY <1>1, <1>2, NoOperators
        <3>3. Len(av) = Len(ws) /\ \A i \in 1..Len(ws) : av[i] = ws[i][1]
            BY <3>1, <3>2 DEF Sorted
        <3> QED
            BY <3>1, <3>3
    <2>2. CASE shell # "p3"
        <3>1. Len(av) = k /\ WordsStored(buf, av, ws)
            BY <1>2, <2>2 DEF Taken
        <3> HIDE DEF av, k
        <3> QED
            BY <3>1 DEF WordsStored
    <2> QED
        BY <2>1, <2>2
<1>6. DOMAIN av = 1..k
    BY <1>2, <1>5
<1> HIDE DEF av, k
<1>7. ASSUME NEW i \in 1..k PROVE <<av[i], First(buf, av[i], {NUL})>> = ws[i]
    <2>1. i \in 1..Len(WordsIn(lo, hi)) /\ ws = WordsIn(lo, hi)
        BY <1>2, <1>4
    <2>2. av[i] = ws[i][1] /\ buf[ws[i][2]] = NUL
        BY <1>5
    <2>3. First(buf, WordsIn(lo, hi)[i][1], {NUL}) = WordsIn(lo, hi)[i][2]
        BY <1>1, <1>2, <2>1, <2>2, StringIs
    <2>4. WordsIn(lo, hi)[i] = <<WordsIn(lo, hi)[i][1], WordsIn(lo, hi)[i][2]>>
        BY <1>1, <1>2, <2>1, WordAtIs
    <2> QED
        BY <2>1, <2>2, <2>3, <2>4
<1>8. [i \in DOMAIN av |-> <<av[i], First(buf, av[i], {NUL})>>] = [i \in 1..k |-> ws[i]]
    BY <1>6, <1>7
<1>9. SubSeq(ws, 1, k) = [i \in 1..k |-> ws[i]] /\ ws = [i \in 1..Len(ws) |-> ws[i]]
    BY <1>3, <1>4, FirstWords
<1>10. [i \in 1..k |-> ws[i]]
           = IF shell = "p2" /\ Len(ws) > ARGV_MAX - 1 THEN SubSeq(ws, 1, ARGV_MAX - 1) ELSE ws
    <2>1. k = IF shell = "p2" /\ Len(ws) > ARGV_MAX - 1 THEN ARGV_MAX - 1 ELSE Len(ws)
        BY DEF k, Room
    <2> QED
        BY <1>9, <2>1
<1> QED
    BY <1>8, <1>10 DEF av, ws

LEMMA WordsRead == ParserInv /\ WordInv => WordsAsTyped
<1> SUFFICES ASSUME ParserInv, WordInv, ppc = "done", rc # "ERR_MEMORY", WellQuoted
             PROVE  /\ rc = "OK" <=> /\ Len(Meant) <= MAX_CMDS
                                     /\ \A n \in DOMAIN Meant : Len(Meant[n]) \in 1..Limit
                    /\ rc = "OK" =>
                          Found = [n \in DOMAIN Meant |->
                                      IF shell = "p2" /\ Len(Meant[n]) > ARGV_MAX - 1
                                      THEN SubSeq(Meant[n], 1, ARGV_MAX - 1) ELSE Meant[n]]
    BY DEF WordsAsTyped
<1>1. ParserAt /\ Tidy
    BY WellQuotedTidy DEF ParserInv
<1>2. /\ ParsingOutcome(clist, rc) /\ Len(clist) \in Nat /\ DOMAIN clist = 1..Len(clist)
      /\ \A n \in 1..Len(clist) : Len(Meant[n]) \in 1..Limit
    BY <1>1, CommandsAre
<1>3. DOMAIN Meant = 1..Len(Meant) /\ Len(Meant) \in Nat
    BY <1>1, MeantIs
<1>4. MAX_CMDS \in Nat
    BY LineAssumption
<1>5. ASSUME rc = "OK"
      PROVE  /\ Len(clist) = Len(Meant) /\ Len(Meant) <= MAX_CMDS
             /\ \A n \in DOMAIN Meant : Len(Meant[n]) \in 1..Limit
    BY <1>2, <1>3, <1>5 DEF ParsingOutcome
<1>6. ASSUME rc # "OK"
      PROVE  ~(Len(Meant) <= MAX_CMDS /\ \A n \in DOMAIN Meant : Len(Meant[n]) \in 1..Limit)
    <2>1. Len(Meant) > MAX_CMDS \/ \E n \in DOMAIN Meant : Len(Meant[n]) \notin 1..Limit
        BY <1>2, <1>6 DEF ParsingOutcome
    <2> QED
        BY <1>3, <1>4, <2>1
<1>7. ASSUME rc = "OK"
      PROVE  Found = [n \in DOMAIN Meant |->
                         IF shell = "p2" /\ Len(Meant[n]) > ARGV_MAX - 1
                         THEN SubSeq(Meant[n], 1, ARGV_MAX - 1) ELSE Meant[n]]
    <2> DEFINE F(n) == [i \in DOMAIN clist[n].argv |->
                           <<clist[n].argv[i], First(buf, clist[n].argv[i], {NUL})>>]
               G(n) == IF shell = "p2" /\ Len(Meant[n]) > ARGV_MAX - 1
                       THEN SubSeq(Meant[n], 1, ARGV_MAX - 1) ELSE Meant[n]
    <2>1. DOMAIN clist = DOMAIN Meant
        BY <1>2, <1>3, <1>5, <1>7
    <2>2. \A n \in 1..Len(clist) : F(n) = G(n)
        BY FoundIs
    <2>3. Found = [n \in DOMAIN clist |-> F(n)]
        BY DEF Found
    <2> HIDE DEF F, G
    <2>4. Found = [n \in DOMAIN Meant |-> G(n)]
        BY <1>2, <2>1, <2>2, <2>3
    <2> QED
        BY <2>4 DEF G
<1> QED
    BY <1>5, <1>6, <1>7

LEMMA FilesFound == ParserInv /\ WordInv => RedirectionsTaken
<1> SUFFICES ASSUME ParserInv, WordInv, ppc = "done", rc = "OK", shell = "p3",
                    \A i \in DOMAIN line : line[i] \notin {Quote, Tab, CR},
                    NEW n \in DOMAIN clist
             PROVE  LET ws == Meant[n]
                        field(i) == Field(SubSeq(line, ws[i][1], ws[i][2] - 1))
                        opens[i \in 0..Len(ws)] == i > 0 /\ field(i) # "argv" /\ ~opens[i - 1]
                        files(f) == {ws[i][1] : i \in {j \in 2..Len(ws) : opens[j - 1] /\ field(j - 1) = f}}
                        mine == {ws[i][1] : i \in {j \in DOMAIN ws : ~opens[j] /\ ~opens[j - 1]}}
                    IN  /\ {clist[n].argv[i] : i \in DOMAIN clist[n].argv} = mine
                        /\ \A f \in {"in", "out", "app"} :
                              /\ clist[n][f] = 0 <=> files(f) = {}
                              /\ files(f) # {} => clist[n][f] \in files(f)
                                                  /\ \A x \in files(f) : x <= clist[n][f]
    BY DEF RedirectionsTaken
<1> DEFINE ws == Meant[n]
           av == clist[n].argv
           c == clist[n]
<1>1. ParserAt /\ Tidy
    BY UnquotedTidy DEF ParserInv
<1>2. Taken(buf, c, ws) /\ av \in Seq(Nat) /\ ws \in Seq(Nat \X Nat)
    <2>1. n \in 1..Len(clist)
        BY <1>1, CommandsAre
    <2>2. /\ Taken(buf, c, ws) /\ av \in Seq(Nat)
          /\ ws = WordsIn(Parts[n][1], Parts[n][2]) /\ IsPart(Parts[n][1], Parts[n][2])
        BY <1>1, <2>1, CommandsAre
    <2>3. WordsIn(Parts[n][1], Parts[n][2]) \in Seq(Nat \X Nat)
        BY <1>1, <2>2, WordsInAre
    <2> QED
        BY <2>2, <2>3
<1>3. Sorted(c, ws, Len(ws)) /\ DOMAIN av = 1..Len(av) /\ DOMAIN ws = 1..Len(ws)
    BY <1>2 DEF Taken
<1>4. /\ {av[i] : i \in DOMAIN av} = ArgsOf(ws, Len(ws))
      /\ \A f \in {"in", "out", "app"} :
            /\ c[f] = 0 <=> FilesOf(ws, f, Len(ws)) = {}
            /\ FilesOf(ws, f, Len(ws)) # {} => /\ c[f] \in FilesOf(ws, f, Len(ws))
                                             /\ \A x \in FilesOf(ws, f, Len(ws)) : x <= c[f]
    BY <1>3 DEF Sorted
<1> HIDE DEF ws
<1> DEFINE field(i) == Field(SubSeq(line, ws[i][1], ws[i][2] - 1))
           o == CHOOSE opens : opens = [i \in 0..Len(ws) |-> i > 0 /\ field(i) # "argv" /\ ~opens[i - 1]]
           files(f) == {ws[i][1] : i \in {j \in 2..Len(ws) : o[j - 1] /\ field(j - 1) = f}}
           mine == {ws[i][1] : i \in {j \in DOMAIN ws : ~o[j] /\ ~o[j - 1]}}
<1>5. o = OpensFile(ws)
    BY DEF OpensFile, FieldOf
<1>6. \A i : field(i) = FieldOf(ws, i)
    BY DEF FieldOf
<1> HIDE DEF o, field
<1>7. mine = ArgsOf(ws, Len(ws))
    BY <1>3, <1>5 DEF ArgsOf
<1>8. \A f : files(f) = FilesOf(ws, f, Len(ws))
    BY <1>5, <1>6 DEF FilesOf
<1> HIDE DEF files, mine
<1>9. /\ {av[i] : i \in DOMAIN av} = mine
      /\ \A f \in {"in", "out", "app"} :
            /\ c[f] = 0 <=> files(f) = {}
            /\ files(f) # {} => c[f] \in files(f) /\ \A x \in files(f) : x <= c[f]
    BY <1>4, <1>7, <1>8
<1> QED
    BY <1>9 DEF ws, field, o, files, mine

\* At every place of the three parsers the buffer, the pointers and the
\* commands are as the words of the line say, whatever line whose quotes enclose
\* whole words was typed: build_cmd_buff and build_cmd_list read the words one
\* by one, each once, and the second loop of 5-shellp3 sorts them as it goes.
THEOREM LineMeant == ParserSpec => [](ParserInv /\ WordInv)
<1>1. ParserInit => ParserInv /\ WordInv
    BY ParserStarts DEF ParserInit, WordInv
<1>2. (ParserInv /\ WordInv) /\ [ParserNext]_parser => (ParserInv /\ WordInv)'
    BY ParserKeeps, WordsKept
<1> QED
    BY <1>1, <1>2, PTL DEF ParserSpec

\* On lines whose quotes enclose whole words the parsers of 3-shellp2, 5-shellp3
\* and 6-shell-p4, which scan in three ways, find the words a reader of the line
\* sees, and refuse exactly the lines with too many commands, too many words or
\* a command without words; 3-shellp2 keeps the first words only.
THEOREM WordsFoundAsTyped == ParserSpec => []WordsAsTyped
    BY LineMeant, WordsRead, PTL

\* 5-shellp3, on a line without quotes and tabs: a word is a file exactly if the
\* word before it is an operator and not itself a file; of several files for one
\* operator the last is taken; the other words are the arguments.
THEOREM FilesTaken == ParserSpec => []RedirectionsTaken
    BY LineMeant, FilesFound, PTL

----------------------------------------------------------------------------
(* What is shown of a line.                                                *)

\* A position of line l that is in no word.
Apart(l, i) == i \notin DOMAIN l \/ l[i] \in {Blank, Bar}

\* The last position of the gap that begins at i.
GapEnd(l, i) ==
    CHOOSE j \in i..Len(l) : Apart(l, j) /\ ~Apart(l, j + 1) /\ \A k \in i..j : Apart(l, k)

\* The positions before q of which something is shown: those in words and the
\* first of each gap between two words.
Shown(l, q) ==
    {i \in DOMAIN l : i < q /\ (~Apart(l, i) \/ (~Apart(l, i - 1) /\ \E j \in i..(q - 1) : ~Apart(l, j)))}

\* What is shown of them, and the text that makes.
Marked(l) ==
    [i \in DOMAIN l |-> IF i \notin Shown(l, Len(l) + 1) \/ ~Apart(l, i) THEN l[i]
                        ELSE IF \E k \in i..GapEnd(l, i) : l[k] = Bar THEN Bar ELSE Blank]
SqueezedTo(l, q) == Kept(Marked(l), Shown(l, q))

\* The strings ts are what strtok_r finds in lo..hi: they begin at the places bs
\* and end before es, at separators; the rest is gaps.
CutUpAt(l, lo, hi, d, ts, bs, es) ==
    /\ \A n \in 1..Len(ts) :
          /\ bs[n] \in lo..hi /\ es[n] \in (bs[n] + 1)..(hi + 1)
          /\ ts[n] = SubSeq(l, bs[n], es[n] - 1)
          /\ \A k \in bs[n]..(es[n] - 1) : l[k] # d
    /\ \A m, n \in 1..Len(ts) : m < n => es[m] < bs[n] /\ l[es[m]] = d
    /\ \A k \in lo..hi : l[k] \notin {Blank, d} => \E n \in 1..Len(ts) : k \in bs[n]..(es[n] - 1)

CutUp(l, lo, hi, d, ts) ==
    \E bs, es \in [1..Len(ts) -> lo..(hi + 1)] : CutUpAt(l, lo, hi, d, ts, bs, es)

----------------------------------------------------------------------------
(* Pieces of a text.                                                       *)

\* One text behind another.
LEMMA Joined ==
    ASSUME NEW T, NEW u \in Seq(T), NEW v \in Seq(T)
    PROVE  /\ u \o v \in Seq(T) /\ Len(u \o v) = Len(u) + Len(v)
           /\ \A k \in 1..(Len(u) + Len(v)) : (u \o v)[k] = IF k <= Len(u) THEN u[k] ELSE v[k - Len(u)]
           /\ \A k \in 1..Len(u) : (u \o v)[k] = u[k]
           /\ \A k \in 1..Len(v) : (u \o v)[Len(u) + k] = v[k]
OBVIOUS

LEMMA Alike ==
    ASSUME NEW T, NEW u \in Seq(T), NEW v \in Seq(T), Len(u) = Len(v), \A k \in 1..Len(u) : u[k] = v[k]
    PROVE  u = v
OBVIOUS

\* What is kept at one set of positions and at another behind it.
LEMMA KeptTwo ==
    ASSUME NEW T, NEW s \in Seq(T), NEW A \in SUBSET (DOMAIN s), NEW B \in SUBSET (DOMAIN s),
           \A a \in A, b \in B : a < b
    PROVE  Kept(s, A \cup B) = Kept(s, A) \o Kept(s, B)
<1> DEFINE C == A \cup B
           x == Cardinality(A)
           y == Cardinality(B)
<1>1. /\ A \in SUBSET Nat /\ IsFiniteSet(A) /\ x \in Nat
      /\ B \in SUBSET Nat /\ IsFiniteSet(B) /\ y \in Nat
      /\ C \in SUBSET (DOMAIN s) /\ C \in SUBSET Nat /\ IsFiniteSet(C)
    BY PositionsFinite
<1>2. A \cap B = {}
    <2>1. \A a \in A : a \in Nat /\ ~(a < a)
        BY <1>1
    <2> QED
        BY <2>1
<1>3. Cardinality(C) = x + y
    <2>1. Cardinality(C) = x + y - Cardinality(A \cap B)
        BY <1>1, FS_Union
    <2>2. Cardinality(A \cap B) = 0
        BY <1>2, FS_EmptySet
    <2> QED
        BY <1>1, <2>1, <2>2
<1>4. ASSUME NEW p \in A PROVE UpTo(C, p) = UpTo(A, p)
    <2>1. ASSUME NEW b \in B PROVE ~(b <= p)
        <3>1. p < b /\ p \in Nat /\ b \in Nat
            BY <1>1
        <3> QED
            BY <3>1
    <2> QED
        BY <2>1 DEF UpTo
<1>5. ASSUME NEW p \in B PROVE Cardinality(UpTo(C, p)) = x + Cardinality(UpTo(B, p))
    <2>1. \A a \in A : a <= p
        <3>1. ASSUME NEW a \in A PROVE a <= p
            <4>1. a < p /\ p \in Nat /\ a \in Nat
                BY <1>1
            <4> QED
                BY <4>1
        <3> QED
            BY <3>1
    <2>2. UpTo(C, p) = A \cup UpTo(B, p) /\ A \cap UpTo(B, p) = {}
        BY <1>2, <2>1 DEF UpTo
    <2>3. UpTo(B, p) \in SUBSET B
        BY DEF UpTo
    <2>4. IsFiniteSet(UpTo(B, p)) /\ Cardinality(UpTo(B, p)) \in Nat
        BY <1>1, <2>3, FS_Subset, FS_CardinalityType
    <2>5. Cardinality(UpTo(C, p)) = x + Cardinality(UpTo(B, p)) - Cardinality({})
        BY <1>1, <2>2, <2>4, FS_Union
    <2> QED
        BY <1>1, <2>4, <2>5, FS_EmptySet
<1>6. /\ \A k \in 1..x : InOrder(A)[k] \in A /\ Cardinality(UpTo(A, InOrder(A)[k])) = k
      /\ \A k \in 1..y : InOrder(B)[k] \in B /\ Cardinality(UpTo(B, InOrder(B)[k])) = k
      /\ \A p \in C : InOrder(C)[Cardinality(UpTo(C, p))] = p
    <2> HIDE DEF C
    <2> QED
        BY <1>1, OrderIs
<1>7. \A k \in 1..x : InOrder(C)[k] = InOrder(A)[k]
    <2>1. ASSUME NEW k \in 1..x PROVE InOrder(C)[k] = InOrder(A)[k]
        <3>1. InOrder(A)[k] \in A /\ InOrder(A)[k] \in C /\ Cardinality(UpTo(C, InOrder(A)[k])) = k
            BY <1>4, <1>6
        <3> QED
            BY <1>6, <3>1
    <2> QED
        BY <2>1
<1>8. \A k \in 1..y : InOrder(C)[x + k] = InOrder(B)[k]
    <2>1. ASSUME NEW k \in 1..y PROVE InOrder(C)[x + k] = InOrder(B)[k]
        <3>1. InOrder(B)[k] \in B /\ InOrder(B)[k] \in C /\ Cardinality(UpTo(C, InOrder(B)[k])) = x + k
            BY <1>5, <1>6
        <3> QED
            BY <1>6, <3>1
    <2> QED
        BY <2>1
<1> HIDE DEF C
<1>9. /\ Kept(s, A) \in Seq(T) /\ Len(Kept(s, A)) = x /\ \A k \in 1..x : Kept(s, A)[k] = s[InOrder(A)[k]]
      /\ Kept(s, B) \in Seq(T) /\ Len(Kept(s, B)) = y /\ \A k \in 1..y : Kept(s, B)[k] = s[InOrder(B)[k]]
      /\ Kept(s, C) \in Seq(T) /\ Len(Kept(s, C)) = x + y
      /\ \A k \in 1..(x + y) : Kept(s, C)[k] = s[InOrder(C)[k]]
    BY <1>1, <1>3, KeptIs
<1> DEFINE u == Kept(s, A)
           v == Kept(s, B)
           w == Kept(s, C)
<1> HIDE DEF u, v, w
<1>13. u \in Seq(T) /\ Len(u) = x /\ v \in Seq(T) /\ Len(v) = y
    BY <1>9 DEF u, v
<1> HIDE DEF x, y
<1>10. /\ u \o v \in Seq(T) /\ Len(u \o v) = x + y
       /\ \A k \in 1..(x + y) : (u \o v)[k] = IF k <= x THEN u[k] ELSE v[k - x]
    <2>1. /\ u \o v \in Seq(T) /\ Len(u \o v) = Len(u) + Len(v)
          /\ \A k \in 1..(Len(u) + Len(v)) : (u \o v)[k] = IF k <= Len(u) THEN u[k] ELSE v[k - Len(u)]
        BY <1>13, Joined
    <2> QED
        BY <1>13, <2>1
<1>11. ASSUME NEW k \in 1..(x + y) PROVE w[k] = (u \o v)[k]
    <2>1. CASE k <= x
        <3>1. k \in 1..x
            BY <1>1, <2>1
        <3>2. u[k] = s[InOrder(A)[k]] /\ w[k] = s[InOrder(C)[k]] /\ InOrder(C)[k] = InOrder(A)[k]
            BY <1>7, <1>9, <3>1 DEF u, w
        <3> QED
            BY <1>10, <2>1, <3>2
    <2>2. CASE ~(k <= x)
        <3>1. k - x \in 1..y /\ x + (k - x) = k
            BY <1>1, <2>2
        <3>2. InOrder(C)[k] = InOrder(B)[k - x]
            BY <1>8, <3>1
        <3>3. v[k - x] = s[InOrder(B)[k - x]] /\ w[k] = s[InOrder(C)[k]]
            BY <1>9, <3>1, <3>2 DEF v, w
        <3> QED
            BY <1>10, <2>2, <3>2, <3>3
    <2> QED
        BY <2>1, <2>2
<1>12. w = u \o v
    <2>1. w \in Seq(T) /\ Len(w) = x + y
        BY <1>9 DEF w
    <2> QED
        BY <1>10, <1>11, <2>1, Alike
<1> QED
    BY <1>12 DEF u, v, w, C

\* What is kept at neighbouring positions is a piece of the text.
LEMMA KeptPiece ==
    ASSUME NEW T, NEW s \in Seq(T), NEW lo \in 1..(Len(s) + 1), NEW hi \in (lo - 1)..Len(s)
    PROVE  Kept(s, lo..hi) = SubSeq(s, lo, hi)
<1> DEFINE A == lo..hi
<1>1. Len(s) \in Nat /\ DOMAIN s = 1..Len(s)
    OBVIOUS
<1>2. lo \in Nat /\ hi \in Nat /\ lo \in Int /\ hi \in Int
    BY <1>1
<1>3. \A p \in A : UpTo(A, p) = lo..p
    BY <1>2 DEF UpTo
<1>4. ASSUME NEW p \in A PROVE Cardinality(UpTo(A, p)) = p - lo + 1
    <2>1. p \in Int /\ ~(lo > p)
        BY <1>2
    <2>2. Cardinality(lo..p) = IF lo > p THEN 0 ELSE p - lo + 1
        BY <1>2, <2>1, FS_Interval
    <2> QED
        BY <1>3, <2>1, <2>2
<1>5. Cardinality(A) = hi - lo + 1
    <2>1. Cardinality(A) = IF lo > hi THEN 0 ELSE hi - lo + 1
        BY <1>2, FS_Interval
    <2>2. lo > hi => hi - lo + 1 = 0
        BY <1>2
    <2> QED
        BY <2>1, <2>2
<1>6. A \in SUBSET (DOMAIN s)
    BY <1>1, <1>2
<1>7. A \in SUBSET Nat /\ IsFiniteSet(A)
    BY <1>6, PositionsFinite
<1>8. \A p \in A : InOrder(A)[Cardinality(UpTo(A, p))] = p
    <2> HIDE DEF A
    <2> QED
        BY <1>7, OrderIs
<1>9. \A k \in 1..(hi - lo + 1) : InOrder(A)[k] = lo + k - 1
    <2>1. ASSUME NEW k \in 1..(hi - lo + 1) PROVE InOrder(A)[k] = lo + k - 1
        <3>1. lo + k - 1 \in A /\ (lo + k - 1) - lo + 1 = k
            BY <1>2
        <3>2. Cardinality(UpTo(A, lo + k - 1)) = k
            BY <1>4, <3>1
        <3> QED
            BY <1>8, <3>1, <3>2
    <2> QED
        BY <2>1
<1>10. /\ Kept(s, A) \in Seq(T) /\ Len(Kept(s, A)) = hi - lo + 1
       /\ \A k \in 1..(hi - lo + 1) : Kept(s, A)[k] = s[lo + k - 1]
    <2> HIDE DEF A
    <2>1. /\ Kept(s, A) \in Seq(T) /\ Len(Kept(s, A)) = Cardinality(A)
          /\ \A k \in 1..Cardinality(A) : Kept(s, A)[k] = s[InOrder(A)[k]]
        BY <1>6, KeptIs
    <2> QED
        BY <1>5, <1>9, <2>1
<1>11. /\ SubSeq(s, lo, hi) \in Seq(T) /\ Len(SubSeq(s, lo, hi)) = hi - lo + 1
       /\ \A k \in 1..(hi - lo + 1) : SubSeq(s, lo, hi)[k] = s[lo + k - 1]
    BY <1>1, <1>2
<1> HIDE DEF A
<1>12. Kept(s, A) = SubSeq(s, lo, hi)
    BY <1>10, <1>11
<1> QED
    BY <1>12 DEF A

----------------------------------------------------------------------------
(* Lines with their gaps squeezed.                                         *)

LEMMA LineIs ==
    ASSUME NEW l \in Texts
    PROVE  /\ Len(l) \in Nat /\ DOMAIN l = 1..Len(l) /\ l \in Seq(Characters)
           /\ \A i \in 1..Len(l) : l[i] \in Characters
           /\ \A i : ~Apart(l, i) => i \in 1..Len(l)
BY DEF Texts, Apart

\* What is shown of a line is a text, and as long as the shown positions are many.
LEMMA ShownIs ==
    ASSUME NEW l \in Texts, NEW q \in Nat
    PROVE  /\ Marked(l) \in Texts /\ Len(Marked(l)) = Len(l) /\ Shown(l, q) \in SUBSET (DOMAIN Marked(l))
           /\ SqueezedTo(l, q) \in Texts
           /\ SqueezedTo(l, q) = <<>> <=> Shown(l, q) = {}
<1>1. Bar \in Characters /\ Blank \in Characters
    BY NewlineChar
<1> DEFINE c(i) == IF i \notin Shown(l, Len(l) + 1) \/ ~Apart(l, i) THEN l[i]
                   ELSE IF \E k \in i..GapEnd(l, i) : l[k] = Bar THEN Bar ELSE Blank
<1>2. Marked(l) = [i \in 1..Len(l) |-> c(i)] /\ Len(l) \in Nat /\ DOMAIN l = 1..Len(l)
    BY LineIs DEF Marked
<1>3. ASSUME NEW i \in 1..Len(l) PROVE c(i) \in Characters
    <2>1. l[i] \in Characters
        BY LineIs
    <2> QED
        BY <1>1, <2>1
<1> HIDE DEF c
<1>4. Marked(l) \in Seq(Characters) /\ Len(Marked(l)) = Len(l) /\ DOMAIN Marked(l) = 1..Len(l)
    BY <1>2, <1>3
<1>5. Shown(l, q) \in SUBSET (DOMAIN Marked(l))
    BY <1>2, <1>4 DEF Shown
<1>6. SqueezedTo(l, q) \in Seq(Characters) /\ Len(SqueezedTo(l, q)) = Cardinality(Shown(l, q))
    BY <1>4, <1>5, KeptIs DEF SqueezedTo
<1>7. IsFiniteSet(Shown(l, q))
    BY <1>4, <1>5, PositionsFinite
<1>8. Cardinality(Shown(l, q)) = 0 <=> Shown(l, q) = {}
    BY <1>7, FS_EmptySet
<1>9. SqueezedTo(l, q) = <<>> <=> Len(SqueezedTo(l, q)) = 0
    BY <1>6
<1> QED
    BY <1>4, <1>5, <1>6, <1>8, <1>9 DEF Texts

LEMMA NothingShown ==
    ASSUME NEW l \in Texts
    PROVE  Shown(l, 1) = {} /\ SqueezedTo(l, 1) = <<>>
<1>1. Shown(l, 1) = {}
    <2>1. \A i \in 1..Len(l) : ~(i < 1)
        OBVIOUS
    <2> QED
        BY <2>1, LineIs DEF Shown
<1> QED
    BY <1>1, ShownIs

\* Nothing is shown of a gap that no word has followed yet.
LEMMA StillShown ==
    ASSUME NEW l \in Texts, NEW q \in Nat, NEW r \in Nat, q <= r, \A k \in q..(r - 1) : Apart(l, k)
    PROVE  SqueezedTo(l, r) = SqueezedTo(l, q)
<1>1. ASSUME NEW j \in 1..Len(l), j < r, ~Apart(l, j) PROVE j < q
    BY <1>1
<1>2. ASSUME NEW i \in Shown(l, r) PROVE i \in Shown(l, q)
    <2>1. i \in 1..Len(l) /\ i < r /\ (~Apart(l, i) \/ (~Apart(l, i - 1) /\ \E j \in i..(r - 1) : ~Apart(l, j)))
        BY LineIs DEF Shown
    <2>2. CASE ~Apart(l, i)
        BY <1>1, <2>1, <2>2, LineIs DEF Shown
    <2>3. CASE ~Apart(l, i - 1) /\ \E j \in i..(r - 1) : ~Apart(l, j)
        <3>1. PICK j \in i..(r - 1) : ~Apart(l, j)
            BY <2>3
        <3>2. j \in 1..Len(l) /\ j < r
            BY <2>1, <3>1, LineIs
        <3>3. j < q
            BY <1>1, <3>1, <3>2
        <3>4. j \in i..(q - 1) /\ i < q
            BY <2>1, <3>1, <3>2, <3>3
        <3> QED
            BY <2>1, <2>3, <3>1, <3>4, LineIs DEF Shown
    <2> QED
        BY <2>1, <2>2, <2>3
<1>3. ASSUME NEW i \in Shown(l, q) PROVE i \in Shown(l, r)
    <2>1. i \in 1..Len(l) /\ i < q /\ (~Apart(l, i) \/ (~Apart(l, i - 1) /\ \E j \in i..(q - 1) : ~Apart(l, j)))
        BY LineIs DEF Shown
    <2>2. i < r /\ i..(q - 1) \subseteq i..(r - 1)
        BY <2>1
    <2> QED
        BY <2>1, <2>2, LineIs DEF Shown
<1>4. Shown(l, r) = Shown(l, q)
    BY <1>2, <1>3
<1> QED
    BY <1>4 DEF SqueezedTo

\* There is a word from b up to e, and a gap before it.
WordAfter(l, q, b, e) ==
    /\ q \in 1..b /\ b \in 1..Len(l) /\ e \in (b + 1)..(Len(l) + 1)
    /\ \A k \in q..(b - 1) : Apart(l, k)
    /\ \A k \in b..(e - 1) : ~Apart(l, k)

\* What a word adds: itself if it is the first,
LEMMA FirstWordShown ==
    ASSUME NEW l \in Texts, NEW q, NEW b, NEW e, WordAfter(l, q, b, e), Shown(l, q) = {}
    PROVE  Shown(l, e) = b..(e - 1)
<1>1. /\ q \in Nat /\ b \in Nat /\ e \in Nat /\ q <= b /\ b < e /\ e <= Len(l) + 1 /\ Len(l) \in Nat
      /\ 1 <= q /\ b <= Len(l)
    BY LineIs DEF WordAfter
<1>2. ASSUME NEW i \in 1..Len(l), ~Apart(l, i) PROVE b <= i
    <2>1. ~(i < q)
        BY <1>2, LineIs DEF Shown
    <2>2. i < b => i \in q..(b - 1)
        BY <1>1, <2>1
    <2> QED
        BY <1>1, <1>2, <2>2 DEF WordAfter
<1>3. ASSUME NEW i \in Shown(l, e) PROVE i \in b..(e - 1)
    <2>1. i \in 1..Len(l) /\ i < e /\ (~Apart(l, i) \/ ~Apart(l, i - 1))
        BY LineIs DEF Shown
    <2>2. CASE ~Apart(l, i)
        BY <1>1, <1>2, <2>1, <2>2
    <2>3. CASE ~Apart(l, i - 1)
        <3>1. i - 1 \in 1..Len(l)
            BY <2>3, LineIs
        <3>2. b <= i - 1
            BY <1>2, <2>3, <3>1
        <3> QED
            BY <1>1, <2>1, <3>2
    <2> QED
        BY <2>1, <2>2, <2>3
<1>4. ASSUME NEW i \in b..(e - 1) PROVE i \in Shown(l, e)
    <2>1. i \in 1..Len(l) /\ i < e
        BY <1>1
    <2>2. ~Apart(l, i)
        BY DEF WordAfter
    <2> QED
        BY <2>1, <2>2, LineIs DEF Shown
<1> QED
    BY <1>3, <1>4

\* and the first position of the gap before it if it is not.
LEMMA NextWordShown ==
    ASSUME NEW l \in Texts, NEW q, NEW b, NEW e, WordAfter(l, q, b, e), Shown(l, q) # {}, Apart(l, q)
    PROVE  \E g \in 1..q :
              /\ ~Apart(l, g - 1) /\ \A k \in g..(b - 1) : Apart(l, k)
              /\ Shown(l, e) = (Shown(l, q) \cup {g}) \cup b..(e - 1)
              /\ \A a \in Shown(l, q) : a < g
              /\ Marked(l)[g] = IF \E k \in g..(b - 1) : l[k] = Bar THEN Bar ELSE Blank
<1>1. /\ q \in Nat /\ b \in Nat /\ e \in Nat /\ q <= b /\ b < e /\ e <= Len(l) + 1 /\ Len(l) \in Nat
      /\ 1 <= q /\ b <= Len(l)
    BY LineIs DEF WordAfter
<1>2. PICK j \in 1..Len(l) : ~Apart(l, j) /\ j < q
    <2>1. PICK i \in Shown(l, q) : TRUE
        OBVIOUS
    <2>2. i \in 1..Len(l) /\ i < q /\ (~Apart(l, i) \/ \E k \in i..(q - 1) : ~Apart(l, k))
        BY LineIs DEF Shown
    <2>3. CASE ~Apart(l, i)
        BY <2>2, <2>3
    <2>4. CASE \E k \in i..(q - 1) : ~Apart(l, k)
        <3>1. PICK k \in i..(q - 1) : ~Apart(l, k)
            BY <2>4
        <3>2. k \in 1..Len(l) /\ k < q
            BY <1>1, <2>2, <3>1, LineIs
        <3> QED
            BY <3>1, <3>2
    <2> QED
        BY <2>2, <2>3, <2>4
<1> DEFINE G == {t \in 1..q : \A k \in t..(q - 1) : Apart(l, k)}
<1>3. G \in SUBSET Nat /\ q \in G
    BY <1>1
<1>4. PICK g \in G : \A t \in G : g <= t
    BY <1>3, LeastNat
<1>5. g \in 1..q /\ g \in Nat /\ \A k \in g..(q - 1) : Apart(l, k)
    BY <1>1, <1>4
<1>6. ~Apart(l, g - 1)
    <2>1. g # 1
        <3>1. j \in 1..(q - 1)
            BY <1>1, <1>2
        <3> QED
            BY <1>2, <1>5, <3>1
    <2>2. g - 1 \in 1..q /\ ~(g <= g - 1)
        BY <1>1, <1>5, <2>1
    <2>3. PICK k \in (g - 1)..(q - 1) : ~Apart(l, k)
        BY <1>4, <2>2
    <2>4. k \in g..(q - 1) \/ k = g - 1
        BY <1>5, <2>3
    <2> QED
        BY <1>5, <2>3, <2>4
<1> HIDE DEF G
<1>7. \A k \in g..(b - 1) : Apart(l, k)
    <2>1. ASSUME NEW k \in g..(b - 1) PROVE Apart(l, k)
        <3>1. k \in g..(q - 1) \/ k \in q..(b - 1)
            BY <1>1, <1>5
        <3> QED
            BY <1>5, <3>1 DEF WordAfter
    <2> QED
        BY <2>1
<1>8. ~Apart(l, b) /\ q # b /\ g < b /\ Apart(l, g)
    <2>1. b \in b..(e - 1)
        BY <1>1
    <2>2. ~Apart(l, b)
        BY <2>1 DEF WordAfter
    <2>3. q # b
        BY <2>2
    <2>4. g < b /\ g \in g..(b - 1)
        BY <1>1, <1>5, <2>3
    <2> QED
        BY <1>7, <2>2, <2>3, <2>4
<1>9. ASSUME NEW i \in 1..Len(l), ~Apart(l, i), i < e PROVE i < g \/ i \in b..(e - 1)
    <2>1. i \notin g..(b - 1)
        BY <1>7, <1>9
    <2> QED
        BY <1>1, <1>5, <1>9, <2>1
<1>10. ASSUME NEW a \in Shown(l, q) PROVE a < g
    <2>1. a \in 1..Len(l) /\ a < q /\ (~Apart(l, a) \/ \E k \in a..(q - 1) : ~Apart(l, k))
        BY LineIs DEF Shown
    <2>2. PICK k \in a..(q - 1) : ~Apart(l, k)
        <3>1. a \in a..(q - 1)
            BY <1>1, <2>1
        <3> QED
            BY <2>1, <3>1
    <2>3. k \notin g..(q - 1)
        BY <1>5, <2>2
    <2> QED
        BY <1>1, <1>5, <2>1, <2>2, <2>3
<1>11. ASSUME NEW i \in Shown(l, e) PROVE i \in Shown(l, q) \/ i = g \/ i \in b..(e - 1)
    <2>1. i \in 1..Len(l) /\ i < e /\ (~Apart(l, i) \/ ~Apart(l, i - 1))
        BY LineIs DEF Shown
    <2>2. g - 1 < q /\ g - 1 \in Int
        BY <1>1, <1>5
    <2>3. CASE ~Apart(l, i)
        <3>1. i < g => i < q
            BY <1>1, <1>5, <2>1
        <3> QED
            BY <1>9, <2>1, <2>3, <3>1, LineIs DEF Shown
    <2>4. CASE ~Apart(l, i - 1) /\ Apart(l, i)
        <3>1. i - 1 \in 1..Len(l) /\ i - 1 < e
            BY <1>1, <2>1, <2>4, LineIs
        <3>2. i - 1 < g \/ i - 1 \in b..(e - 1)
            BY <1>9, <2>4, <3>1
        <3>3. i \notin b..(e - 1)
            BY <2>4 DEF WordAfter
        <3>4. i - 1 < g
            BY <1>1, <2>1, <3>2, <3>3
        <3>5. i # g => g - 1 \in i..(q - 1) /\ i < q
            BY <1>1, <1>5, <2>1, <3>4
        <3> QED
            BY <1>6, <2>1, <2>4, <3>5, LineIs DEF Shown
    <2> QED
        BY <2>1, <2>3, <2>4
<1>12. ASSUME NEW i \in Shown(l, q) PROVE i \in Shown(l, e)
    <2>1. i \in 1..Len(l) /\ i < q /\ (~Apart(l, i) \/ (~Apart(l, i - 1) /\ \E k \in i..(q - 1) : ~Apart(l, k)))
        BY LineIs DEF Shown
    <2>2. i < e /\ i..(q - 1) \subseteq i..(e - 1)
        BY <1>1, <2>1
    <2> QED
        BY <2>1, <2>2, LineIs DEF Shown
<1>13. g \in Shown(l, e) /\ g \in Shown(l, Len(l) + 1) /\ g \in 1..Len(l)
    <2>1. g \in 1..Len(l) /\ g < e /\ g < Len(l) + 1
        BY <1>1, <1>5, <1>8
    <2>2. b \in g..(e - 1) /\ b \in g..((Len(l) + 1) - 1)
        BY <1>1, <1>5, <1>8
    <2> QED
        BY <1>6, <1>8, <2>1, <2>2, LineIs DEF Shown
<1>14. ASSUME NEW i \in b..(e - 1) PROVE i \in Shown(l, e)
    <2>1. i \in 1..Len(l) /\ i < e
        BY <1>1
    <2>2. ~Apart(l, i)
        BY DEF WordAfter
    <2> QED
        BY <2>1, <2>2, LineIs DEF Shown
<1>15. GapEnd(l, g) = b - 1
    <2> DEFINE P(k) == Apart(l, k) /\ ~Apart(l, k + 1) /\ \A n \in g..k : Apart(l, n)
    <2>1. b - 1 \in g..Len(l) /\ P(b - 1)
        <3>1. b - 1 \in g..(b - 1) /\ b - 1 \in g..Len(l) /\ (b - 1) + 1 = b
            BY <1>1, <1>5, <1>8
        <3> QED
            BY <1>7, <1>8, <3>1
    <2>2. ASSUME NEW k \in g..Len(l), P(k) PROVE k = b - 1
        <3>1. k + 1 \notin g..(b - 1)
            BY <1>7, <2>2
        <3>2. ~(b \in g..k)
            BY <1>8, <2>2
        <3> QED
            BY <1>1, <1>5, <1>8, <3>1, <3>2
    <2>3. GapEnd(l, g) = CHOOSE k \in g..Len(l) : P(k)
        BY DEF GapEnd
    <2> HIDE DEF P
    <2> QED
        BY <2>1, <2>2, <2>3
<1>16. Marked(l)[g] = IF \E k \in g..(b - 1) : l[k] = Bar THEN Bar ELSE Blank
    BY <1>8, <1>13, <1>15, LineIs DEF Marked
<1>17. Shown(l, e) = (Shown(l, q) \cup {g}) \cup b..(e - 1)
    BY <1>11, <1>12, <1>13, <1>14
<1> QED
    BY <1>5, <1>6, <1>7, <1>10, <1>16, <1>17

LEMMA KeptOne ==
    ASSUME NEW T, NEW s \in Seq(T), NEW k \in 1..Len(s)
    PROVE  Kept(s, {k}) = <<s[k]>>
<1>1. Len(s) \in Nat /\ k \in Nat /\ k \in 1..(Len(s) + 1) /\ k \in (k - 1)..Len(s) /\ k..k = {k}
    OBVIOUS
<1>2. Kept(s, k..k) = SubSeq(s, k, k)
    BY <1>1, KeptPiece
<1> DEFINE x == s[k]
           u == SubSeq(s, k, k)
<1>3. u \in Seq(T) /\ Len(u) = 1 /\ u[1] = x
    <2>1. k - k + 1 = 1 /\ k + 1 - 1 = k
        BY <1>1
    <2>2. u \in Seq(T) /\ Len(u) = k - k + 1 /\ u[1] = s[k + 1 - 1]
        BY <1>1
    <2> QED
        BY <2>1, <2>2
<1>4. x \in T
    OBVIOUS
<1> HIDE DEF x, u
<1>5. <<x>> \in Seq(T) /\ Len(<<x>>) = 1 /\ <<x>>[1] = x
    BY <1>4
<1>6. u = <<x>>
    <2>1. \A n \in 1..Len(u) : n = 1
        BY <1>3
    <2>2. \A n \in 1..Len(u) : u[n] = <<x>>[n]
        BY <1>3, <1>5, <2>1
    <2> QED
        BY <1>3, <1>5, <2>2, Alike
<1> QED
    BY <1>1, <1>2, <1>6 DEF u, x

LEMMA SameShown ==
    ASSUME NEW l \in Texts, NEW q, NEW b, NEW e, WordAfter(l, q, b, e)
    PROVE  /\ b..(e - 1) \in SUBSET (DOMAIN Marked(l))
           /\ Kept(Marked(l), b..(e - 1)) = SubSeq(l, b, e - 1)
           /\ SubSeq(l, b, e - 1) \in Texts /\ Len(SubSeq(l, b, e - 1)) = e - b
<1>1. b \in 1..Len(l) /\ e \in (b + 1)..(Len(l) + 1) /\ Len(l) \in Nat /\ l \in Seq(Characters)
    BY LineIs DEF WordAfter
<1>2. Marked(l) \in Seq(Characters) /\ Len(Marked(l)) = Len(l) /\ DOMAIN Marked(l) = 1..Len(l)
    <2>1. 1 \in Nat
        OBVIOUS
    <2>2. Marked(l) \in Texts /\ Len(Marked(l)) = Len(l)
        BY <2>1, ShownIs
    <2> QED
        BY <2>2, LineIs
<1>3. /\ b \in 1..(Len(l) + 1) /\ e - 1 \in (b - 1)..Len(l) /\ (e - 1) - b + 1 = e - b
      /\ b..(e - 1) \in SUBSET (1..Len(l))
    BY <1>1
<1>4. Kept(Marked(l), b..(e - 1)) = SubSeq(Marked(l), b, e - 1)
    BY <1>2, <1>3, KeptPiece
<1>5. \A s : s \in Seq(Characters) /\ Len(s) = Len(l) =>
         /\ SubSeq(s, b, e - 1) \in Seq(Characters) /\ Len(SubSeq(s, b, e - 1)) = e - b
         /\ \A k \in 1..(e - b) : SubSeq(s, b, e - 1)[k] = s[b + k - 1]
    BY <1>1, <1>3
<1>6. ASSUME NEW k \in 1..(e - b) PROVE Marked(l)[b + k - 1] = l[b + k - 1]
    <2>1. b + k - 1 \in b..(e - 1) /\ b + k - 1 \in 1..Len(l)
        BY <1>1
    <2>2. ~Apart(l, b + k - 1)
        BY <2>1 DEF WordAfter
    <2> QED
        BY <2>1, <2>2, LineIs DEF Marked
<1>7. SubSeq(Marked(l), b, e - 1) = SubSeq(l, b, e - 1)
    <2>1. \A k \in 1..(e - b) : SubSeq(Marked(l), b, e - 1)[k] = SubSeq(l, b, e - 1)[k]
        BY <1>1, <1>2, <1>5, <1>6
    <2> QED
        BY <1>1, <1>2, <1>5, <2>1, Alike
<1> QED
    BY <1>1, <1>2, <1>3, <1>4, <1>5, <1>7 DEF Texts

\* A word is shown behind what is shown before it.
LEMMA WordShown ==
    ASSUME NEW l \in Texts, NEW q, NEW b, NEW e, WordAfter(l, q, b, e),
           SqueezedTo(l, q) # <<>> => Apart(l, q)
    PROVE  /\ SqueezedTo(l, q) = <<>> => SqueezedTo(l, e) = SubSeq(l, b, e - 1)
           /\ SqueezedTo(l, q) # <<>> =>
                 \E c \in {Bar, Blank} :
                    /\ SqueezedTo(l, e) = (SqueezedTo(l, q) \o <<c>>) \o SubSeq(l, b, e - 1)
                    /\ l[q] = Bar => c = Bar
                    /\ ~Apart(l, q - 1) /\ (\A k \in q..(b - 1) : l[k] # Bar) => c = Blank
<1>1. /\ q \in Nat /\ b \in Nat /\ e \in Nat /\ q <= b /\ b < e /\ e <= Len(l) + 1 /\ Len(l) \in Nat
      /\ 1 <= q /\ b <= Len(l)
    BY LineIs DEF WordAfter
<1> DEFINE m == Marked(l)
           w == SubSeq(l, b, e - 1)
<1>2. /\ m \in Texts /\ Shown(l, q) \in SUBSET (DOMAIN m) /\ Shown(l, e) \in SUBSET (DOMAIN m)
      /\ SqueezedTo(l, q) = <<>> <=> Shown(l, q) = {}
    BY <1>1, ShownIs
<1>3. b..(e - 1) \in SUBSET (DOMAIN m) /\ Kept(m, b..(e - 1)) = w
    BY SameShown
<1>4. CASE SqueezedTo(l, q) = <<>>
    <2>1. Shown(l, e) = b..(e - 1)
        BY <1>2, <1>4, FirstWordShown
    <2> QED
        BY <1>3, <1>4, <2>1 DEF SqueezedTo
<1>5. CASE SqueezedTo(l, q) # <<>>
    <2>1. PICK g \in 1..q :
              /\ ~Apart(l, g - 1) /\ \A k \in g..(b - 1) : Apart(l, k)
              /\ Shown(l, e) = (Shown(l, q) \cup {g}) \cup b..(e - 1)
              /\ \A a \in Shown(l, q) : a < g
              /\ m[g] = IF \E k \in g..(b - 1) : l[k] = Bar THEN Bar ELSE Blank
        BY <1>2, <1>5, NextWordShown
    <2> HIDE DEF m, w
    <2>2. g \in Nat /\ g <= q
        BY <1>1, <2>1
    <2>3. q # b /\ q < b
        <3>1. b \in b..(e - 1)
            BY <1>1
        <3>2. q # b
            BY <1>5, <3>1 DEF WordAfter
        <3> QED
            BY <1>1, <3>2
    <2>4. {g} \in SUBSET (DOMAIN m)
        BY <1>2, <2>1
    <2>5. Shown(l, q) \cup {g} \in SUBSET (DOMAIN m)
        BY <1>2, <2>4
    <2>6. \A a \in Shown(l, q) \cup {g}, x \in b..(e - 1) : a < x
        <3>1. \A a \in Shown(l, q) : a \in Nat
            BY <1>2, LineIs
        <3> QED
            BY <1>1, <2>1, <2>2, <2>3, <3>1
    <2>7. Kept(m, {g}) = <<m[g]>>
        <3>1. g \in 1..Len(m) /\ Len(m) \in Nat /\ m \in Seq(Characters)
            BY <1>2, <2>4, LineIs
        <3> QED
            BY <3>1, KeptOne
    <2>8. Kept(m, Shown(l, e)) = Kept(m, Shown(l, q) \cup {g}) \o Kept(m, b..(e - 1))
        BY <1>2, <1>3, <2>1, <2>5, <2>6, KeptTwo DEF Texts
    <2>9. Kept(m, Shown(l, q) \cup {g}) = Kept(m, Shown(l, q)) \o Kept(m, {g})
        <3>1. \A a \in Shown(l, q), x \in {g} : a < x
            BY <2>1
        <3> QED
            BY <1>2, <2>4, <3>1, KeptTwo DEF Texts
    <2>10. SqueezedTo(l, e) = (SqueezedTo(l, q) \o <<m[g]>>) \o w
        BY <1>3, <2>7, <2>8, <2>9 DEF SqueezedTo, m
    <2>11. m[g] \in {Bar, Blank}
        BY <2>1
    <2>12. l[q] = Bar => m[g] = Bar
        <3>1. q \in g..(b - 1)
            BY <1>1, <2>2, <2>3
        <3> QED
            BY <2>1, <3>1
    <2>13. ASSUME ~Apart(l, q - 1), \A k \in q..(b - 1) : l[k] # Bar PROVE m[g] = Blank
        <3>1. ~(q - 1 \in g..(b - 1))
            BY <2>1, <2>13
        <3>2. g = q
            BY <1>1, <2>2, <2>3, <3>1
        <3> QED
            BY <2>1, <2>13, <3>2
    <2> QED
        BY <1>5, <2>10, <2>11, <2>12, <2>13 DEF w
<1> QED
    BY <1>4, <1>5

\* What is shown of a line goes on as it begins.
LEMMA ShownBegins ==
    ASSUME NEW l \in Texts, NEW q \in 1..(Len(l) + 1)
    PROVE  \E t \in Texts : SqueezedTo(l, Len(l) + 1) = SqueezedTo(l, q) \o t
<1> DEFINE z == Len(l) + 1
           m == Marked(l)
           A == Shown(l, q)
           B == Shown(l, z) \ A
<1>1. Len(l) \in Nat /\ q \in Nat /\ z \in Nat /\ q <= z
    BY LineIs
<1>2. /\ m \in Texts /\ A \in SUBSET (DOMAIN m) /\ Shown(l, z) \in SUBSET (DOMAIN m)
      /\ B \in SUBSET (DOMAIN m)
    <2>1. m \in Texts /\ A \in SUBSET (DOMAIN m) /\ Shown(l, z) \in SUBSET (DOMAIN m)
        BY <1>1, ShownIs
    <2> QED
        BY <2>1
<1>3. A \subseteq Shown(l, z)
    <2>1. ASSUME NEW i \in A PROVE i \in Shown(l, z)
        <3>1. i \in 1..Len(l) /\ i < q /\ (~Apart(l, i) \/ (~Apart(l, i - 1) /\ \E k \in i..(q - 1) : ~Apart(l, k)))
            BY LineIs DEF Shown
        <3>2. i < z /\ i..(q - 1) \subseteq i..(z - 1)
            BY <1>1, <3>1
        <3> QED
            BY <3>1, <3>2, LineIs DEF Shown
    <2> QED
        BY <2>1
<1>4. ASSUME NEW a \in A, NEW x \in B PROVE a < x
    <2>1. a \in 1..Len(l) /\ a < q /\ (~Apart(l, a) \/ \E k \in a..(q - 1) : ~Apart(l, k))
        BY LineIs DEF Shown
    <2>2. PICK k \in a..(q - 1) : ~Apart(l, k)
        <3>1. a \in a..(q - 1)
            BY <1>1, <2>1
        <3> QED
            BY <2>1, <3>1
    <2>3. x \in 1..Len(l) /\ x < z /\ (~Apart(l, x) \/ ~Apart(l, x - 1))
        BY LineIs DEF Shown
    <2>4. x < q => \A i \in x..(q - 1) : Apart(l, i)
        <3>1. ASSUME x < q, NEW i \in x..(q - 1), ~Apart(l, i) PROVE FALSE
            <4>1. x \notin Shown(l, q)
                OBVIOUS
            <4> QED
                BY <2>3, <3>1, <4>1, LineIs DEF Shown
        <3> QED
            BY <3>1
    <2>5. ~(k \in x..(q - 1)) \/ ~(x < q)
        BY <2>2, <2>4
    <2> QED
        BY <1>1, <2>1, <2>2, <2>3, <2>5
<1>5. A \cup B = Shown(l, z)
    BY <1>3
<1> HIDE DEF A, B, m, z
<1>6. Kept(m, A \cup B) = Kept(m, A) \o Kept(m, B)
    BY <1>2, <1>4, KeptTwo DEF Texts
<1>7. Kept(m, B) \in Texts
    BY <1>2, KeptIs DEF Texts
<1> QED
    BY <1>5, <1>6, <1>7 DEF SqueezedTo, A, m, z

LEMMA SqueezedIs ==
    ASSUME NEW l \in Texts
    PROVE  Squeezed(l) = SqueezedTo(l, Len(l) + 1)
<1> DEFINE gap(i) == i \notin DOMAIN l \/ l[i] \in {Blank, Bar}
           last(i) == CHOOSE j \in i..Len(l) : gap(j) /\ ~gap(j + 1) /\ \A k \in i..j : gap(k)
           at == {i \in DOMAIN l : ~gap(i) \/ (~gap(i - 1) /\ \E j \in i..Len(l) : ~gap(j))}
           m == [i \in DOMAIN l |-> IF i \notin at \/ ~gap(i) THEN l[i]
                                    ELSE IF \E k \in i..last(i) : l[k] = Bar THEN Bar ELSE Blank]
<1>1. Squeezed(l) = Kept(m, at)
    BY DEF Squeezed
<1>2. \A i : gap(i) <=> Apart(l, i)
    BY DEF Apart
<1>3. \A i : last(i) = GapEnd(l, i)
    BY DEF GapEnd, Apart
<1> HIDE DEF gap, last
<1>4. at = Shown(l, Len(l) + 1)
    <2>1. Len(l) \in Nat /\ DOMAIN l = 1..Len(l) /\ (Len(l) + 1) - 1 = Len(l)
        BY LineIs
    <2>2. \A i \in 1..Len(l) : i < Len(l) + 1
        BY <2>1
    <2> QED
        BY <1>2, <2>1, <2>2 DEF Shown
<1> HIDE DEF at
<1>5. m = Marked(l)
    BY <1>2, <1>3, <1>4 DEF Marked
<1> QED
    BY <1>1, <1>4, <1>5 DEF SqueezedTo

----------------------------------------------------------------------------
(* Lines that are cut up.                                                  *)

\* A piece of a text.
LEMMA PieceIs ==
    ASSUME NEW T, NEW l \in Seq(T), NEW lo \in 1..(Len(l) + 1), NEW hi \in (lo - 1)..Len(l)
    PROVE  /\ SubSeq(l, lo, hi) \in Seq(T) /\ Len(SubSeq(l, lo, hi)) = hi - lo + 1
           /\ \A k \in 1..(hi - lo + 1) : SubSeq(l, lo, hi)[k] = l[lo + k - 1]
<1>1. Len(l) \in Nat
    OBVIOUS
<1> QED
    BY <1>1

LEMMA PieceOfPiece ==
    ASSUME NEW T, NEW l \in Seq(T), NEW lo \in 1..(Len(l) + 1), NEW hi \in (lo - 1)..Len(l),
           NEW b \in 1..(hi - lo + 2), NEW e \in (b - 1)..(hi - lo + 1)
    PROVE  SubSeq(SubSeq(l, lo, hi), b, e) = SubSeq(l, lo + b - 1, lo + e - 1)
<1> DEFINE t == SubSeq(l, lo, hi)
           u == SubSeq(t, b, e)
           v == SubSeq(l, lo + b - 1, lo + e - 1)
<1>1. Len(l) \in Nat /\ lo \in Int /\ hi \in Int /\ b \in Int /\ e \in Int
    OBVIOUS
<1>2. t \in Seq(T) /\ Len(t) = hi - lo + 1 /\ \A k \in 1..(hi - lo + 1) : t[k] = l[lo + k - 1]
    BY PieceIs
<1> HIDE DEF t
<1>3. b \in 1..(Len(t) + 1) /\ e \in (b - 1)..Len(t)
    BY <1>1, <1>2
<1>4. u \in Seq(T) /\ Len(u) = e - b + 1 /\ \A k \in 1..(e - b + 1) : u[k] = t[b + k - 1]
    BY <1>2, <1>3, PieceIs
<1>5. lo + b - 1 \in 1..(Len(l) + 1) /\ lo + e - 1 \in ((lo + b - 1) - 1)..Len(l)
      /\ (lo + e - 1) - (lo + b - 1) + 1 = e - b + 1
    BY <1>1
<1>6. v \in Seq(T) /\ Len(v) = e - b + 1 /\ \A k \in 1..(e - b + 1) : v[k] = l[(lo + b - 1) + k - 1]
    BY <1>5, PieceIs
<1>7. ASSUME NEW k \in 1..(e - b + 1) PROVE u[k] = v[k]
    <2>1. b + k - 1 \in 1..(hi - lo + 1) /\ lo + (b + k - 1) - 1 = (lo + b - 1) + k - 1
        BY <1>1
    <2> QED
        BY <1>2, <1>4, <1>6, <2>1
<1> HIDE DEF u, v
<1>8. u = v
    BY <1>4, <1>6, <1>7, Alike
<1> QED
    BY <1>8 DEF t, u, v

\* What trim cuts off a text without tabs and returns is blanks.
LEMMA TrimmedCut ==
    ASSUME NEW s \in Texts, \A k \in 1..Len(s) : s[k] \notin {Tab, CR}
    PROVE  \E f \in 1..(Len(s) + 1), g \in 0..Len(s) :
              f - 1 <= g /\ Trimmed(s) = SubSeq(s, f, g) /\ \A k \in 1..Len(s) : s[k] # Blank => k \in f..g
<1> DEFINE solid == {i \in DOMAIN s : s[i] \notin IsSpace}
           at == {i \in DOMAIN s : \E j, k \in solid : j <= i /\ i <= k}
<1>1. Len(s) \in Nat /\ DOMAIN s = 1..Len(s) /\ s \in Seq(Characters)
    BY LineIs
<1>2. \A i \in 1..Len(s) : s[i] # Blank <=> i \in solid
    BY <1>1 DEF IsSpace
<1>3. Trimmed(s) = Kept(s, at)
    BY DEF Trimmed
<1>4. CASE solid = {}
    <2>1. at = 1..0 /\ 1 \in 1..(Len(s) + 1) /\ 0 \in (1 - 1)..Len(s) /\ 0 \in 0..Len(s) /\ 1 - 1 <= 0
        BY <1>1, <1>4
    <2>2. Kept(s, 1..0) = SubSeq(s, 1, 0)
        BY <1>1, <2>1, KeptPiece
    <2> QED
        BY <1>2, <1>3, <1>4, <2>1, <2>2
<1>5. CASE solid # {}
    <2>1. solid \in SUBSET Nat /\ solid \in SUBSET (1..Len(s))
        BY <1>1
    <2>2. PICK f \in solid : \A n \in solid : f <= n
        BY <1>5, <2>1, LeastNat
    <2> DEFINE U == {t \in 1..Len(s) : \A n \in solid : n <= t}
    <2>3. U \in SUBSET Nat /\ Len(s) \in U
        <3>1. Len(s) \in 1..Len(s) /\ \A n \in 1..Len(s) : n <= Len(s)
            BY <1>1, <2>1, <2>2
        <3> QED
            BY <2>1, <3>1
    <2>4. PICK g \in U : \A t \in U : g <= t
        BY <2>3, LeastNat
    <2>5. g \in solid
        <3>1. SUFFICES ASSUME g \notin solid PROVE FALSE
            OBVIOUS
        <3>2. f <= g /\ f # g /\ f \in 1..Len(s) /\ g \in 1..Len(s)
            BY <2>1, <2>2, <2>4, <3>1
        <3>3. ASSUME NEW n \in solid PROVE n <= g - 1
            <4>1. n <= g /\ n # g /\ n \in 1..Len(s)
                BY <2>1, <2>4, <3>1
            <4> QED
                BY <3>2, <4>1
        <3>4. g - 1 \in 1..Len(s) /\ ~(g <= g - 1)
            BY <1>1, <3>2
        <3> QED
            BY <2>4, <3>3, <3>4
    <2>6. \A n \in solid : f <= n /\ n <= g
        BY <2>2, <2>4
    <2>7. f \in 1..Len(s) /\ g \in 1..Len(s) /\ f <= g
        BY <2>1, <2>2, <2>5
    <2>8. ASSUME NEW i \in 1..Len(s) PROVE i \in at <=> i \in f..g
        <3>1. i \in at => i \in f..g
            <4>1. ASSUME NEW j \in solid, NEW k \in solid, j <= i, i <= k PROVE i \in f..g
                <5>1. f <= j /\ k <= g /\ j \in 1..Len(s) /\ k \in 1..Len(s)
                    BY <2>1, <2>6
                <5> QED
                    BY <2>7, <4>1, <5>1
            <4> QED
                BY <4>1
        <3>2. i \in f..g => f <= i /\ i <= g
            BY <2>7
        <3> QED
            BY <1>1, <2>2, <2>5, <3>1, <3>2
    <2>9. at = f..g
        <3>1. at \subseteq 1..Len(s) /\ f..g \subseteq 1..Len(s)
            BY <1>1, <2>7
        <3> HIDE DEF at
        <3> QED
            BY <2>8, <3>1
    <2>10. f \in 1..(Len(s) + 1) /\ g \in (f - 1)..Len(s) /\ g \in 0..Len(s) /\ f - 1 <= g
        BY <1>1, <2>7
    <2>11. Trimmed(s) = SubSeq(s, f, g)
        BY <1>1, <1>3, <2>9, <2>10, KeptPiece
    <2>12. \A k \in 1..Len(s) : s[k] # Blank => k \in f..g
        <3>1. ASSUME NEW k \in 1..Len(s), s[k] # Blank PROVE k \in f..g
            <4>1. k \in solid
                BY <1>2, <3>1
            <4> QED
                BY <2>6, <2>7, <4>1
        <3> QED
            BY <3>1
    <2> QED
        BY <2>10, <2>11, <2>12
<1> QED
    BY <1>4, <1>5

\* The strings strtok_r returns, and what is between them.
LEMMA TokensTile ==
    ASSUME NEW t \in Texts, NEW d
    PROVE  /\ \A n \in 1..Count(t, d) : \A k \in Begin(t, d, n)..(Behind(t, d, n) - 1) : t[k] # d
           /\ \A m, n \in 1..Count(t, d) : m < n => Behind(t, d, m) < Begin(t, d, n) /\ t[Behind(t, d, m)] = d
           /\ \A k \in 1..Len(t) : t[k] # d =>
                 \E n \in 1..Count(t, d) : k \in Begin(t, d, n)..(Behind(t, d, n) - 1)
           /\ \A n \in 1..Count(t, d) : Behind(t, d, n) <= Len(t) => t[Behind(t, d, n)] = d
<1> DEFINE S == Starts(t, d)
           u == Append(t, d)
<1>1. Len(t) \in Nat /\ DOMAIN t = 1..Len(t) /\ t \in Seq(Characters)
    BY LineIs
<1>2. Len(u) = Len(t) + 1 /\ u[Len(t) + 1] = d /\ \A k \in 1..Len(t) : u[k] = t[k]
    BY <1>1
<1>3. /\ Count(t, d) \in Nat
      /\ \A n \in 1..Count(t, d) : /\ Begin(t, d, n) \in 1..Len(t)
                                   /\ Behind(t, d, n) \in (Begin(t, d, n) + 1)..(Len(t) + 1)
      /\ \A n \in 1..Count(t, d) : n + 1 <= Count(t, d) => Behind(t, d, n) < Begin(t, d, n + 1)
    BY <1>1, TokensAre
<1>4. S \in SUBSET (1..Len(t)) /\ S \in SUBSET Nat /\ IsFiniteSet(S)
    <2>1. S \in SUBSET (DOMAIN t)
        BY DEF Starts
    <2> QED
        BY <1>1, <2>1, PositionsFinite
<1>5. /\ \A p \in S : Cardinality(UpTo(S, p)) \in 1..Count(t, d) /\ Begin(t, d, Cardinality(UpTo(S, p))) = p
      /\ \A m, n \in 1..Count(t, d) : m < n => Begin(t, d, m) < Begin(t, d, n)
    <2> HIDE DEF S
    <2>1. /\ \A p \in S : /\ Cardinality(UpTo(S, p)) \in 1..Cardinality(S)
                          /\ InOrder(S)[Cardinality(UpTo(S, p))] = p
          /\ \A m, n \in 1..Cardinality(S) : m < n => InOrder(S)[m] < InOrder(S)[n]
        BY <1>4, OrderIs
    <2> QED
        BY <2>1 DEF S, Count, Begin
<1> HIDE DEF S, u
<1>6. ASSUME NEW n \in 1..Count(t, d)
      PROVE  /\ u[Behind(t, d, n)] = d
             /\ \A k \in Begin(t, d, n)..Len(u) : u[k] = d => Behind(t, d, n) <= k
    <2>1. Begin(t, d, n) \in Nat /\ Len(u) \in Nat /\ Len(t) + 1 \in Begin(t, d, n)..Len(u) /\ u[Len(t) + 1] \in {d}
        BY <1>1, <1>2, <1>3
    <2>2. Behind(t, d, n) = First(u, Begin(t, d, n), {d})
        BY DEF Behind, u
    <2>3. u[Behind(t, d, n)] \in {d}
        BY <2>1, <2>2, FirstFound
    <2>4. ASSUME NEW k \in Begin(t, d, n)..Len(u), u[k] = d PROVE Behind(t, d, n) <= k
        <3>1. u[k] \in {d}
            BY <2>4
        <3> QED
            BY <2>1, <2>2, <3>1, FirstFound
    <2> QED
        BY <2>3, <2>4
<1>7. ASSUME NEW n \in 1..Count(t, d), NEW k \in Begin(t, d, n)..(Behind(t, d, n) - 1)
      PROVE  t[k] # d
    <2>1. k \in 1..Len(t) /\ k \in Begin(t, d, n)..Len(u) /\ ~(Behind(t, d, n) <= k)
        BY <1>1, <1>2, <1>3
    <2> QED
        BY <1>2, <1>6, <2>1
<1>8. ASSUME NEW m \in 1..Count(t, d), NEW n \in 1..Count(t, d), m < n
      PROVE  Behind(t, d, m) < Begin(t, d, n) /\ t[Behind(t, d, m)] = d
    <2>1. m + 1 <= Count(t, d) /\ m + 1 \in 1..Count(t, d) /\ (m + 1 < n \/ m + 1 = n)
        BY <1>3, <1>8
    <2>2. Behind(t, d, m) < Begin(t, d, m + 1) /\ (m + 1 < n => Begin(t, d, m + 1) < Begin(t, d, n))
        BY <1>3, <1>5, <2>1
    <2>3. /\ Begin(t, d, m + 1) \in 1..Len(t) /\ Begin(t, d, n) \in 1..Len(t) /\ Begin(t, d, m) \in 1..Len(t)
          /\ Behind(t, d, m) \in (Begin(t, d, m) + 1)..(Len(t) + 1)
        BY <1>3, <2>1
    <2>4. Behind(t, d, m) < Begin(t, d, n)
        <3>1. CASE m + 1 = n
            BY <2>2, <3>1
        <3>2. CASE m + 1 < n
            BY <1>1, <2>2, <2>3, <3>2
        <3> QED
            BY <2>1, <3>1, <3>2
    <2>5. Behind(t, d, m) \in 1..Len(t)
        BY <1>1, <2>3, <2>4
    <2> QED
        BY <1>2, <1>6, <2>4, <2>5
<1>9. ASSUME NEW k \in 1..Len(t), t[k] # d
      PROVE  \E n \in 1..Count(t, d) : k \in Begin(t, d, n)..(Behind(t, d, n) - 1)
    <2> DEFINE P == {p \in 1..k : \A j \in p..k : t[j] # d}
    <2>1. P \in SUBSET Nat /\ k \in P
        <3>1. \A j \in k..k : j = k
            OBVIOUS
        <3> QED
            BY <1>9, <3>1
    <2>2. PICK p \in P : \A r \in P : p <= r
        BY <2>1, LeastNat
    <2>3. p \in 1..k /\ p \in 1..Len(t) /\ \A j \in p..k : t[j] # d
        BY <1>1, <2>2
    <2>4. p = 1 \/ t[p - 1] = d
        <3>1. ASSUME p # 1, t[p - 1] # d PROVE FALSE
            <4>1. p - 1 \in 1..k /\ ~(p <= p - 1)
                BY <2>3, <3>1
            <4>2. \A j \in (p - 1)..k : j = p - 1 \/ j \in p..k
                BY <2>3
            <4> QED
                BY <2>2, <2>3, <3>1, <4>1, <4>2
        <3> QED
            BY <3>1
    <2>5. p \in S
        <3>1. p \in p..k
            BY <2>3
        <3> QED
            BY <1>1, <2>3, <2>4, <3>1 DEF S, Starts
    <2>6. PICK n \in 1..Count(t, d) : Begin(t, d, n) = p
        BY <1>5, <2>5
    <2>7. ~(Behind(t, d, n) <= k)
        <3>1. ASSUME Behind(t, d, n) <= k PROVE FALSE
            <4>1. Behind(t, d, n) \in p..k /\ Behind(t, d, n) \in 1..Len(t)
                BY <1>1, <1>3, <2>3, <2>6, <3>1
            <4> QED
                BY <1>2, <1>6, <2>3, <4>1
        <3> QED
            BY <3>1
    <2>8. k \in Begin(t, d, n)..(Behind(t, d, n) - 1)
        BY <1>1, <1>3, <2>3, <2>6, <2>7
    <2> QED
        BY <2>8
<1>10. ASSUME NEW n \in 1..Count(t, d), Behind(t, d, n) <= Len(t) PROVE t[Behind(t, d, n)] = d
    <2>1. Behind(t, d, n) \in 1..Len(t)
        BY <1>1, <1>3, <1>10
    <2> QED
        BY <1>2, <1>6, <2>1
<1> QED
    BY <1>7, <1>8, <1>9, <1>10

LEMMA HeadTailIs ==
    ASSUME NEW T, NEW s \in Seq(T), s # <<>>
    PROVE  /\ Len(s) \in Nat /\ 1 \in 1..Len(s) /\ Head(s) = s[1] /\ Head(s) \in T
           /\ Tail(s) \in Seq(T) /\ Len(Tail(s)) = Len(s) - 1
           /\ \A n \in 1..(Len(s) - 1) : Tail(s)[n] = s[n + 1]
           /\ Tail(s) # <<>> => 2 \in 1..Len(s)
OBVIOUS

\* What strtok_r finds in a trimmed piece of a line.
LEMMA PieceCut ==
    ASSUME NEW l \in Texts, \A k \in 1..Len(l) : l[k] \notin {Tab, CR},
           NEW lo \in 1..(Len(l) + 1), NEW hi \in (lo - 1)..Len(l), NEW d
    PROVE  CutUp(l, lo, hi, d, Tokens(Trimmed(SubSeq(l, lo, hi)), d))
<1> DEFINE s == SubSeq(l, lo, hi)
<1>1. Len(l) \in Nat /\ l \in Seq(Characters) /\ lo \in Int /\ hi \in Int
    BY LineIs
<1>2. /\ s \in Seq(Characters) /\ Len(s) = hi - lo + 1
      /\ \A k \in 1..(hi - lo + 1) : s[k] = l[lo + k - 1]
    BY <1>1, PieceIs
<1>3. \A k \in 1..Len(s) : s[k] \notin {Tab, CR}
    <2>1. ASSUME NEW k \in 1..Len(s) PROVE s[k] \notin {Tab, CR}
        <3>1. k \in 1..(hi - lo + 1) /\ lo + k - 1 \in 1..Len(l)
            BY <1>1, <1>2
        <3> QED
            BY <1>2, <3>1
    <2> QED
        BY <2>1
<1> HIDE DEF s
<1>4. PICK f \in 1..(Len(s) + 1), g \in 0..Len(s) :
          f - 1 <= g /\ Trimmed(s) = SubSeq(s, f, g) /\ \A k \in 1..Len(s) : s[k] # Blank => k \in f..g
    BY <1>2, <1>3, TrimmedCut DEF Texts
<1> DEFINE x == lo + f - 1
           y == lo + g - 1
           t == SubSeq(l, x, y)
           c == Count(t, d)
           bs == [n \in 1..c |-> Begin(t, d, n) + x - 1]
           es == [n \in 1..c |-> Behind(t, d, n) + x - 1]
<1>5. /\ f \in Int /\ g \in Int /\ x \in lo..(hi + 1) /\ y \in (x - 1)..hi /\ y - x = g - f
      /\ x \in 1..(Len(l) + 1) /\ y \in (x - 1)..Len(l) /\ x \in Int /\ y \in Int
    BY <1>1, <1>2, <1>4
<1>6. Trimmed(s) = t
    <2>1. f \in 1..(hi - lo + 2) /\ g \in (f - 1)..(hi - lo + 1)
        BY <1>1, <1>2, <1>4
    <2>2. SubSeq(SubSeq(l, lo, hi), f, g) = SubSeq(l, lo + f - 1, lo + g - 1)
        BY <1>1, <2>1, PieceOfPiece
    <2> QED
        BY <1>4, <2>2 DEF s
<1> HIDE DEF x, y
<1>7. t \in Seq(Characters) /\ Len(t) = y - x + 1 /\ \A k \in 1..(y - x + 1) : t[k] = l[x + k - 1]
    BY <1>1, <1>5, PieceIs
<1> HIDE DEF t
<1>8. /\ c \in Nat /\ Len(Tokens(t, d)) = c
      /\ \A n \in 1..c :
            /\ Begin(t, d, n) \in 1..Len(t)
            /\ Behind(t, d, n) \in (Begin(t, d, n) + 1)..(Len(t) + 1)
            /\ Tokens(t, d)[n] = SubSeq(t, Begin(t, d, n), Behind(t, d, n) - 1)
    <2>1. /\ Count(t, d) \in Nat /\ Len(Tokens(t, d)) = Count(t, d)
          /\ \A n \in 1..Count(t, d) :
                /\ Begin(t, d, n) \in 1..Len(t)
                /\ Behind(t, d, n) \in (Begin(t, d, n) + 1)..(Len(t) + 1)
                /\ Tokens(t, d)[n] = SubSeq(t, Begin(t, d, n), Behind(t, d, n) - 1)
        <3>1. t \in Seq(Characters)
            BY <1>7
        <3> QED
            BY <3>1, TokensAre
    <2> QED
        BY <2>1
<1>9. /\ \A n \in 1..c : \A k \in Begin(t, d, n)..(Behind(t, d, n) - 1) : t[k] # d
      /\ \A m, n \in 1..c : m < n => Behind(t, d, m) < Begin(t, d, n) /\ t[Behind(t, d, m)] = d
      /\ \A k \in 1..Len(t) : t[k] # d =>
            \E n \in 1..c : k \in Begin(t, d, n)..(Behind(t, d, n) - 1)
    BY <1>7, TokensTile DEF Texts
<1>10. \A n \in 1..c : bs[n] = Begin(t, d, n) + x - 1 /\ es[n] = Behind(t, d, n) + x - 1
    OBVIOUS
<1>11. ASSUME NEW n \in 1..c
       PROVE  /\ bs[n] \in lo..hi /\ es[n] \in (bs[n] + 1)..(hi + 1)
              /\ Tokens(t, d)[n] = SubSeq(l, bs[n], es[n] - 1)
              /\ \A k \in bs[n]..(es[n] - 1) : l[k] # d
    <2> DEFINE b == Begin(t, d, n)
               e == Behind(t, d, n)
    <2>1. b \in 1..Len(t) /\ e \in (b + 1)..(Len(t) + 1) /\ Tokens(t, d)[n] = SubSeq(t, b, e - 1)
        BY <1>8
    <2>2. bs[n] = b + x - 1 /\ es[n] = e + x - 1
        BY <1>10
    <2>3. \A k \in b..(e - 1) : t[k] # d
        BY <1>9
    <2> HIDE DEF b, e, bs, es, c
    <2>4. bs[n] \in lo..hi /\ es[n] \in (bs[n] + 1)..(hi + 1)
        BY <1>1, <1>5, <1>7, <2>1, <2>2
    <2>5. SubSeq(t, b, e - 1) = SubSeq(l, x + b - 1, x + (e - 1) - 1)
        <3>1. b \in 1..(y - x + 2) /\ e - 1 \in (b - 1)..(y - x + 1)
            BY <1>5, <1>7, <2>1
        <3>2. SubSeq(SubSeq(l, x, y), b, e - 1) = SubSeq(l, x + b - 1, x + (e - 1) - 1)
            <4> DEFINE r == e - 1
            <4>1. l \in Seq(Characters) /\ x \in 1..(Len(l) + 1) /\ y \in (x - 1)..Len(l)
                BY <1>1, <1>5
            <4>2. b \in 1..(y - x + 2) /\ r \in (b - 1)..(y - x + 1)
                BY <3>1
            <4> HIDE DEF r
            <4>3. SubSeq(SubSeq(l, x, y), b, r) = SubSeq(l, x + b - 1, x + r - 1)
                BY <4>1, <4>2, PieceOfPiece
            <4> QED
                BY <4>3 DEF r
        <3> QED
            BY <3>2 DEF t
    <2>6. x + b - 1 = bs[n] /\ x + (e - 1) - 1 = es[n] - 1
        BY <1>5, <1>7, <2>1, <2>2
    <2>7. ASSUME NEW k \in bs[n]..(es[n] - 1) PROVE l[k] # d
        <3>1. k - x + 1 \in b..(e - 1) /\ k - x + 1 \in 1..(y - x + 1) /\ x + (k - x + 1) - 1 = k
            BY <1>5, <1>7, <2>1, <2>2
        <3> QED
            BY <1>7, <2>3, <3>1
    <2> QED
        BY <2>1, <2>4, <2>5, <2>6, <2>7
<1>12. ASSUME NEW m \in 1..c, NEW n \in 1..c, m < n
       PROVE  es[m] < bs[n] /\ l[es[m]] = d
    <2> DEFINE b == Begin(t, d, n)
               e == Behind(t, d, m)
    <2>1. b \in 1..Len(t) /\ e \in (Begin(t, d, m) + 1)..(Len(t) + 1) /\ Begin(t, d, m) \in 1..Len(t)
        BY <1>8
    <2>2. bs[n] = b + x - 1 /\ es[m] = e + x - 1
        BY <1>10
    <2>3. e < b /\ t[e] = d
        BY <1>9, <1>12
    <2> HIDE DEF b, e, bs, es, c
    <2>4. e \in 1..(y - x + 1) /\ x + e - 1 = es[m] /\ es[m] < bs[n]
        <3>1. Len(t) \in Int /\ Begin(t, d, m) \in Int /\ Begin(t, d, m) >= 1
            BY <1>5, <1>7, <2>1
        <3>2. b \in Int /\ e \in Int /\ 1 <= e /\ e <= y - x + 1
            BY <1>7, <2>1, <2>3, <3>1
        <3> QED
            BY <1>5, <2>2, <2>3, <3>2
    <2> QED
        BY <1>7, <2>3, <2>4
<1>13. ASSUME NEW k \in lo..hi, l[k] \notin {Blank, d}
       PROVE  \E n \in 1..c : k \in bs[n]..(es[n] - 1)
    <2>1. k - lo + 1 \in 1..Len(s) /\ s[k - lo + 1] # Blank
        <3>1. k - lo + 1 \in 1..(hi - lo + 1) /\ lo + (k - lo + 1) - 1 = k
            BY <1>1
        <3> QED
            BY <1>2, <1>13, <3>1
    <2>2. k - lo + 1 \in f..g
        BY <1>4, <2>1
    <2>3. k - x + 1 \in 1..(y - x + 1) /\ x + (k - x + 1) - 1 = k
        BY <1>1, <1>5, <2>2 DEF x, y
    <2>4. t[k - x + 1] # d
        BY <1>7, <1>13, <2>3
    <2>5. PICK n \in 1..c : k - x + 1 \in Begin(t, d, n)..(Behind(t, d, n) - 1)
        BY <1>7, <1>9, <2>3, <2>4
    <2>6. Begin(t, d, n) \in Int /\ Behind(t, d, n) \in Int
        BY <1>7, <1>8
    <2>7. bs[n] = Begin(t, d, n) + x - 1 /\ es[n] = Behind(t, d, n) + x - 1
        BY <1>10
    <2>8. k \in bs[n]..(es[n] - 1)
        BY <1>1, <1>5, <2>5, <2>6, <2>7
    <2> QED
        BY <2>8
<1>14. /\ bs \in [1..c -> lo..(hi + 1)] /\ es \in [1..c -> lo..(hi + 1)]
    <2>1. \A n \in 1..c : bs[n] \in lo..(hi + 1) /\ es[n] \in lo..(hi + 1)
        BY <1>1, <1>11
    <2> QED
        BY <2>1
<1> HIDE DEF bs, es, c
<1>15. CutUpAt(l, lo, hi, d, Tokens(t, d), bs, es)
    BY <1>8, <1>11, <1>12, <1>13 DEF CutUpAt
<1> QED
    BY <1>6, <1>8, <1>14, <1>15 DEF CutUp, s

\* What is cut up is a word (or a part) and the rest.
LEMMA HeadCut ==
    ASSUME NEW l \in Texts, NEW lo \in 1..(Len(l) + 1), NEW hi \in (lo - 1)..Len(l), NEW d,
           NEW ts \in Seq(Texts), ts # <<>>, CutUp(l, lo, hi, d, ts)
    PROVE  \E b \in lo..hi : \E e \in (b + 1)..(hi + 1) :
              /\ Head(ts) = SubSeq(l, b, e - 1)
              /\ \A k \in lo..(b - 1) : l[k] \in {Blank, d}
              /\ \A k \in b..(e - 1) : l[k] # d
              /\ e <= hi => l[e] \in {Blank, d}
              /\ Tail(ts) # <<>> => e <= hi /\ l[e] = d
              /\ CutUp(l, e, hi, d, Tail(ts))
<1> DEFINE c == Len(ts)
<1>1. PICK bs, es \in [1..c -> lo..(hi + 1)] : CutUpAt(l, lo, hi, d, ts, bs, es)
    BY DEF CutUp
<1>2. /\ c \in Nat /\ 1 \in 1..c /\ Head(ts) = ts[1] /\ Len(Tail(ts)) = c - 1
      /\ \A n \in 1..(c - 1) : Tail(ts)[n] = ts[n + 1]
      /\ Tail(ts) # <<>> => 2 \in 1..c
    BY HeadTailIs
<1> DEFINE b == bs[1]
           e == es[1]
<1>3. Len(l) \in Nat /\ lo \in Int /\ hi \in Int
    BY LineIs
<1> HIDE DEF c
<1>4. /\ \A n \in 1..c : /\ bs[n] \in lo..hi /\ es[n] \in (bs[n] + 1)..(hi + 1)
                         /\ ts[n] = SubSeq(l, bs[n], es[n] - 1)
                         /\ \A k \in bs[n]..(es[n] - 1) : l[k] # d
      /\ \A m, n \in 1..c : m < n => es[m] < bs[n] /\ l[es[m]] = d
      /\ \A k \in lo..hi : l[k] \notin {Blank, d} => \E n \in 1..c : k \in bs[n]..(es[n] - 1)
    BY <1>1 DEF CutUpAt, c
<1>5. b \in lo..hi /\ e \in (b + 1)..(hi + 1) /\ Head(ts) = SubSeq(l, b, e - 1) /\ \A k \in b..(e - 1) : l[k] # d
    BY <1>2, <1>4
<1>6. \A n \in 1..c : n # 1 => e < bs[n] /\ l[e] = d /\ bs[n] \in Int
    <2>1. ASSUME NEW n \in 1..c, n # 1 PROVE e < bs[n] /\ l[e] = d /\ bs[n] \in Int
        <3>1. 1 < n
            BY <2>1
        <3> QED
            BY <1>2, <1>4, <3>1
    <2> QED
        BY <2>1
<1>7. ASSUME NEW k \in lo..hi, k < b \/ k = e, l[k] \notin {Blank, d} PROVE FALSE
    <2>1. PICK n \in 1..c : k \in bs[n]..(es[n] - 1)
        BY <1>4, <1>7
    <2>2. CASE n = 1
        BY <1>3, <1>5, <1>7, <2>1, <2>2
    <2>3. CASE n # 1
        BY <1>3, <1>5, <1>6, <1>7, <2>1, <2>3
    <2> QED
        BY <2>2, <2>3
<1>8. (\A k \in lo..(b - 1) : l[k] \in {Blank, d}) /\ (e <= hi => l[e] \in {Blank, d})
    <2>1. \A k \in lo..(b - 1) : k \in lo..hi /\ k < b
        BY <1>3, <1>5
    <2>2. e <= hi => e \in lo..hi
        BY <1>3, <1>5
    <2> QED
        BY <1>7, <2>1, <2>2
<1>9. Tail(ts) # <<>> => e <= hi /\ l[e] = d
    <2>1. ASSUME Tail(ts) # <<>> PROVE e <= hi /\ l[e] = d
        <3>1. 2 \in 1..c /\ 2 # 1
            BY <1>2, <2>1
        <3>2. e < bs[2] /\ l[e] = d /\ bs[2] \in lo..hi
            BY <1>4, <1>6, <3>1
        <3> QED
            BY <1>3, <1>5, <3>2
    <2> QED
        BY <2>1
<1> DEFINE bt == [n \in 1..(c - 1) |-> bs[n + 1]]
           et == [n \in 1..(c - 1) |-> es[n + 1]]
<1>10. \A n \in 1..(c - 1) : n + 1 \in 1..c /\ n + 1 # 1 /\ bt[n] = bs[n + 1] /\ et[n] = es[n + 1]
    BY <1>2
<1> HIDE DEF b, e
<1>11. ASSUME NEW n \in 1..(c - 1)
       PROVE  /\ bt[n] \in e..hi /\ et[n] \in (bt[n] + 1)..(hi + 1)
              /\ Tail(ts)[n] = SubSeq(l, bt[n], et[n] - 1)
              /\ \A k \in bt[n]..(et[n] - 1) : l[k] # d
    <2>1. n + 1 \in 1..c /\ n + 1 # 1 /\ bt[n] = bs[n + 1] /\ et[n] = es[n + 1]
        BY <1>10
    <2> HIDE DEF bt, et
    <2>2. e < bs[n + 1] /\ bs[n + 1] \in lo..hi
        BY <1>4, <1>6, <2>1
    <2>3. bs[n + 1] \in e..hi
        BY <1>3, <1>5, <2>2
    <2> QED
        BY <1>2, <1>4, <2>1, <2>3
<1>12. ASSUME NEW m \in 1..(c - 1), NEW n \in 1..(c - 1), m < n
       PROVE  et[m] < bt[n] /\ l[et[m]] = d
    <2>1. m + 1 \in 1..c /\ n + 1 \in 1..c /\ m + 1 < n + 1
        BY <1>2, <1>12
    <2> QED
        BY <1>4, <1>10, <2>1
<1>13. ASSUME NEW k \in e..hi, l[k] \notin {Blank, d}
       PROVE  \E n \in 1..(c - 1) : k \in bt[n]..(et[n] - 1)
    <2>1. k \in lo..hi
        BY <1>3, <1>5
    <2>2. PICK n \in 1..c : k \in bs[n]..(es[n] - 1)
        BY <1>4, <1>13, <2>1
    <2>3. n # 1
        <3>1. ~(k \in b..(e - 1))
            BY <1>3, <1>5
        <3> QED
            BY <2>2, <3>1 DEF b, e
    <2>4. n - 1 \in 1..(c - 1) /\ (n - 1) + 1 = n
        BY <1>2, <2>3
    <2>5. bt[n - 1] = bs[n] /\ et[n - 1] = es[n]
        BY <1>10, <2>4
    <2> QED
        BY <2>2, <2>4, <2>5
<1>14. bt \in [1..(c - 1) -> e..(hi + 1)] /\ et \in [1..(c - 1) -> e..(hi + 1)]
    <2>1. \A n \in 1..(c - 1) : bt[n] \in e..(hi + 1) /\ et[n] \in e..(hi + 1)
        <3>1. ASSUME NEW n \in 1..(c - 1) PROVE bt[n] \in e..(hi + 1) /\ et[n] \in e..(hi + 1)
            <4>1. bt[n] \in e..hi /\ et[n] \in (bt[n] + 1)..(hi + 1)
                BY <1>11
            <4> HIDE DEF bt, et
            <4> QED
                BY <1>3, <1>5, <4>1
        <3> QED
            BY <3>1
    <2> QED
        BY <2>1
<1> HIDE DEF bt, et
<1>15. CutUpAt(l, e, hi, d, Tail(ts), bt, et)
    BY <1>2, <1>11, <1>12, <1>13 DEF CutUpAt
<1>16. CutUp(l, e, hi, d, Tail(ts))
    BY <1>2, <1>14, <1>15 DEF CutUp
<1> QED
    BY <1>5, <1>8, <1>9, <1>16 DEF b, e

LEMMA NoneCut ==
    ASSUME NEW l, NEW lo, NEW hi, NEW d, CutUp(l, lo, hi, d, <<>>)
    PROVE  \A k \in lo..hi : l[k] \in {Blank, d}
<1>1. \A n \in 1..Len(<<>>) : FALSE
    OBVIOUS
<1> QED
    BY <1>1 DEF CutUp, CutUpAt

LEMMA AppendIs ==
    ASSUME NEW T, NEW cs \in Seq(T), NEW c \in T
    PROVE  /\ Len(cs) \in Nat /\ Len(Append(cs, c)) = Len(cs) + 1 /\ Append(cs, c)[Len(cs) + 1] = c
           /\ \A k \in 1..Len(cs) : cs[k] = Append(cs, c)[k]
           /\ cs = <<>> <=> Len(cs) = 0
OBVIOUS

----------------------------------------------------------------------------
(* Lines that are shown.                                                   *)

\* There is a function that says what is shown of the first n commands.
TypedUpTo(cs, n, f) ==
    f = [k \in 0..n |-> IF k = 0 THEN <<>> ELSE f[k - 1] \o (IF k = 1 THEN <<>> ELSE <<Bar>>) \o Whole(cs[k])]

LEMMA TypedExists ==
    ASSUME NEW cs, NEW m \in Nat
    PROVE  \E f : TypedUpTo(cs, m, f)
<1> DEFINE T == {n \in Nat : \E f : TypedUpTo(cs, n, f)}
           V(k, x) == x \o (IF k = 1 THEN <<>> ELSE <<Bar>>) \o Whole(cs[k])
<1>1. \A n, f : TypedUpTo(cs, n, f) <=> f = [k \in 0..n |-> IF k = 0 THEN <<>> ELSE V(k, f[k - 1])]
    BY DEF TypedUpTo
<1> HIDE DEF V
<1>2. 0 \in T
    <2> DEFINE f == [k \in 0..0 |-> <<>>]
    <2>1. \A k \in 0..0 : k = 0
        OBVIOUS
    <2>2. f = [k \in 0..0 |-> IF k = 0 THEN <<>> ELSE V(k, f[k - 1])]
        BY <2>1
    <2>3. TypedUpTo(cs, 0, f)
        BY <1>1, <2>2
    <2> QED
        BY <2>3
<1>3. ASSUME NEW n \in T PROVE n + 1 \in T
    <2>1. n \in Nat
        OBVIOUS
    <2>2. PICK f : f = [k \in 0..n |-> IF k = 0 THEN <<>> ELSE V(k, f[k - 1])]
        BY <1>1
    <2> DEFINE g == [k \in 0..(n + 1) |-> IF k = n + 1 THEN V(n + 1, f[n]) ELSE f[k]]
    <2>3. ASSUME NEW k \in 0..(n + 1) PROVE g[k] = IF k = 0 THEN <<>> ELSE V(k, g[k - 1])
        <3>1. CASE k = n + 1
            <4>1. g[k] = V(n + 1, f[n]) /\ k # 0 /\ k - 1 = n /\ n \in 0..(n + 1) /\ n # n + 1
                BY <2>1, <3>1
            <4>2. g[n] = f[n]
                BY <4>1
            <4> QED
                BY <3>1, <4>1, <4>2
        <3>2. CASE k # n + 1
            <4>1. k \in 0..n /\ g[k] = f[k]
                BY <2>1, <3>2
            <4>2. f[k] = IF k = 0 THEN <<>> ELSE V(k, f[k - 1])
                BY <2>2, <4>1
            <4>3. k # 0 => k - 1 \in 0..(n + 1) /\ k - 1 # n + 1
                BY <2>1, <4>1
            <4>4. k # 0 => g[k - 1] = f[k - 1]
                BY <4>3
            <4> QED
                BY <4>1, <4>2, <4>4
        <3> QED
            BY <3>1, <3>2
    <2>4. g = [k \in 0..(n + 1) |-> IF k = 0 THEN <<>> ELSE V(k, g[k - 1])]
        BY <2>3
    <2>5. TypedUpTo(cs, n + 1, g)
        BY <1>1, <2>4
    <2> QED
        BY <2>1, <2>5
<1>4. T = Nat
    <2> HIDE DEF T
    <2>1. T \in SUBSET Nat
        BY DEF T
    <2> QED
        BY <1>2, <1>3, <2>1, AllNat
<1> QED
    BY <1>4

\* Two such functions agree on the commands they share.
LEMMA TypedAgree ==
    ASSUME NEW cs, NEW ds, NEW m \in Nat, NEW n \in Nat, NEW f, NEW g,
           m <= n, \A k \in 1..m : cs[k] = ds[k], TypedUpTo(cs, m, f), TypedUpTo(ds, n, g)
    PROVE  \A k \in 0..m : f[k] = g[k]
<1> DEFINE T == {k \in Nat : k <= m => f[k] = g[k]}
           V(c, k, x) == x \o (IF k = 1 THEN <<>> ELSE <<Bar>>) \o Whole(c)
<1>1. /\ f = [k \in 0..m |-> IF k = 0 THEN <<>> ELSE V(cs[k], k, f[k - 1])]
      /\ g = [k \in 0..n |-> IF k = 0 THEN <<>> ELSE V(ds[k], k, g[k - 1])]
    BY DEF TypedUpTo
<1> HIDE DEF V
<1>2. 0 \in T
    <2>1. 0 \in 0..m /\ 0 \in 0..n
        OBVIOUS
    <2>2. f[0] = <<>> /\ g[0] = <<>>
        BY <1>1, <2>1
    <2> QED
        BY <2>2
<1>3. ASSUME NEW k \in T PROVE k + 1 \in T
    <2>1. SUFFICES ASSUME k + 1 <= m PROVE f[k + 1] = g[k + 1]
        OBVIOUS
    <2>2. k \in Nat /\ k <= m /\ k + 1 \in 0..m /\ k + 1 \in 0..n /\ k + 1 \in 1..m
          /\ k + 1 # 0 /\ (k + 1) - 1 = k
        BY <2>1
    <2>3. f[k] = g[k]
        BY <2>2
    <2>4. f[k + 1] = V(cs[k + 1], k + 1, f[(k + 1) - 1]) /\ g[k + 1] = V(ds[k + 1], k + 1, g[(k + 1) - 1])
        BY <1>1, <2>2
    <2> QED
        BY <2>2, <2>3, <2>4
<1>4. T = Nat
    <2> HIDE DEF T
    <2>1. T \in SUBSET Nat
        BY DEF T
    <2> QED
        BY <1>2, <1>3, <2>1, AllNat
<1> QED
    BY <1>4

LEMMA TypedIs ==
    ASSUME NEW cs, Len(cs) \in Nat
    PROVE  \E f : TypedUpTo(cs, Len(cs), f) /\ Typed(cs) = f[Len(cs)]
<1> DEFINE o == CHOOSE f : TypedUpTo(cs, Len(cs), f)
<1>1. Typed(cs) = o[Len(cs)]
    BY DEF Typed, TypedUpTo
<1>2. TypedUpTo(cs, Len(cs), o)
    <2> HIDE DEF o
    <2> QED
        BY TypedExists DEF o
<1> QED
    BY <1>1, <1>2

LEMMA TypedNone == Typed(<<>>) = <<>>
<1>1. PICK f : TypedUpTo(<<>>, 0, f) /\ Typed(<<>>) = f[0]
    <2>1. Len(<<>>) = 0
        OBVIOUS
    <2> QED
        BY <2>1, TypedIs
<1>2. 0 \in 0..0
    OBVIOUS
<1>3. f[0] = <<>>
    BY <1>1, <1>2 DEF TypedUpTo
<1> QED
    BY <1>1, <1>3

LEMMA TypedMore ==
    ASSUME NEW T, NEW cs \in Seq(T), NEW c \in T
    PROVE  Typed(Append(cs, c)) = Typed(cs) \o (IF cs = <<>> THEN <<>> ELSE <<Bar>>) \o Whole(c)
<1> DEFINE m == Len(cs)
           ds == Append(cs, c)
<1>1. m \in Nat /\ Len(ds) = m + 1 /\ ds[m + 1] = c /\ (\A k \in 1..m : cs[k] = ds[k]) /\ (cs = <<>> <=> m = 0)
    BY AppendIs
<1> HIDE DEF m, ds
<1>2. PICK f : TypedUpTo(cs, m, f) /\ Typed(cs) = f[m]
    BY <1>1, TypedIs DEF m
<1>3. PICK g : TypedUpTo(ds, m + 1, g) /\ Typed(ds) = g[m + 1]
    <2>1. Len(ds) \in Nat
        BY <1>1
    <2> QED
        BY <1>1, <2>1, TypedIs
<1>4. f[m] = g[m]
    <2> DEFINE n == m + 1
    <2>1. m \in Nat /\ n \in Nat /\ m <= n /\ m \in 0..m
        BY <1>1
    <2>2. \A k \in 1..m : cs[k] = ds[k]
        BY <1>1
    <2>3. TypedUpTo(cs, m, f) /\ TypedUpTo(ds, n, g)
        BY <1>2, <1>3
    <2> HIDE DEF n
    <2>4. \A k \in 0..m : f[k] = g[k]
        BY <2>1, <2>2, <2>3, TypedAgree
    <2> QED
        BY <2>1, <2>4
<1>5. m + 1 \in 0..(m + 1) /\ m + 1 # 0 /\ (m + 1) - 1 = m /\ (m + 1 = 1 <=> m = 0)
    BY <1>1
<1>6. g[m + 1] = g[m] \o (IF m + 1 = 1 THEN <<>> ELSE <<Bar>>) \o Whole(ds[m + 1])
    <2> DEFINE V(k, x) == x \o (IF k = 1 THEN <<>> ELSE <<Bar>>) \o Whole(ds[k])
    <2>1. g = [k \in 0..(m + 1) |-> IF k = 0 THEN <<>> ELSE V(k, g[k - 1])]
        BY <1>3 DEF TypedUpTo
    <2> HIDE DEF V
    <2>2. g[m + 1] = V(m + 1, g[(m + 1) - 1])
        BY <1>5, <2>1
    <2> QED
        BY <1>5, <2>2 DEF V
<1>7. Typed(ds) = f[m] \o (IF m = 0 THEN <<>> ELSE <<Bar>>) \o Whole(c)
    BY <1>1, <1>3, <1>4, <1>5, <1>6
<1> QED
    BY <1>1, <1>2, <1>7 DEF ds

\* A text without a bar in it, and not empty: a word, to strtok_r.
NoBar(w) == w \in Texts /\ w # <<>> /\ \A k \in 1..Len(w) : w[k] # Bar

\* A text that shows n commands, the last of them not yet ended.
Commands(s, n) ==
    /\ s \in Texts /\ Count(s, Bar) = n
    /\ s # <<>> => s[Len(s)] # Bar

LEMMA StartsAre ==
    ASSUME NEW s \in Texts
    PROVE  /\ Starts(s, Bar) = {p \in 1..Len(s) : s[p] # Bar /\ (p = 1 \/ s[p - 1] = Bar)}
           /\ Starts(s, Bar) \in SUBSET (1..Len(s)) /\ IsFiniteSet(Starts(s, Bar)) /\ Count(s, Bar) \in Nat
<1>1. DOMAIN s = 1..Len(s) /\ s \in Seq(Characters)
    BY LineIs
<1>2. Starts(s, Bar) \in SUBSET (DOMAIN s)
    BY DEF Starts
<1>3. IsFiniteSet(Starts(s, Bar)) /\ Count(s, Bar) \in Nat
    BY <1>1, <1>2, PositionsFinite DEF Count
<1> QED
    BY <1>1, <1>2, <1>3 DEF Starts

LEMMA NoCommand == Commands(<<>>, 0)
<1>1. <<>> \in Texts /\ Len(<<>>) = 0
    BY DEF Texts
<1>2. Starts(<<>>, Bar) \in SUBSET (1..0)
    BY <1>1, StartsAre
<1>3. Starts(<<>>, Bar) = {}
    <2>1. 1..0 = {}
        OBVIOUS
    <2> QED
        BY <1>2, <2>1
<1>4. Cardinality({}) = 0
    BY FS_EmptySet
<1> QED
    BY <1>1, <1>3, <1>4 DEF Commands, Count

LEMMA OneCommand ==
    ASSUME NEW w, NoBar(w)
    PROVE  Commands(w, 1)
<1>1. w \in Texts /\ Len(w) \in Nat /\ Len(w) >= 1 /\ \A k \in 1..Len(w) : w[k] # Bar
    <2>1. w \in Texts /\ w # <<>> /\ \A k \in 1..Len(w) : w[k] # Bar
        BY DEF NoBar
    <2> QED
        BY <2>1 DEF Texts
<1>2. ASSUME NEW p \in 1..Len(w), p # 1 PROVE w[p - 1] # Bar
    <2>1. p - 1 \in 1..Len(w)
        BY <1>1, <1>2
    <2> QED
        BY <1>1, <2>1
<1>3. 1 \in 1..Len(w) /\ Len(w) \in 1..Len(w)
    BY <1>1
<1>4. Starts(w, Bar) = {1}
    BY <1>1, <1>2, <1>3, StartsAre
<1> QED
    BY <1>1, <1>3, <1>4, FS_Singleton DEF Commands, Count

\* What a word adds to what is shown.
LEMMA JoinIs ==
    ASSUME NEW s \in Texts, NEW c \in Characters, NEW w \in Texts
    PROVE  LET u == (s \o <<c>>) \o w IN
              /\ u \in Texts /\ Len(u) = Len(s) + 1 + Len(w) /\ Len(s) \in Nat /\ Len(w) \in Nat
              /\ \A k \in 1..Len(s) : u[k] = s[k]
              /\ u[Len(s) + 1] = c
              /\ \A k \in 1..Len(w) : u[Len(s) + 1 + k] = w[k]
<1> DEFINE x == <<c>>
           v == s \o x
<1>1. x \in Seq(Characters) /\ Len(x) = 1 /\ x[1] = c
    OBVIOUS
<1>2. s \in Seq(Characters) /\ w \in Seq(Characters) /\ Len(s) \in Nat /\ Len(w) \in Nat
    BY LineIs
<1> HIDE DEF x
<1>3. /\ v \in Seq(Characters) /\ Len(v) = Len(s) + 1
      /\ \A k \in 1..Len(s) : v[k] = s[k]
      /\ \A k \in 1..Len(x) : v[Len(s) + k] = x[k]
    <2>1. x \in Seq(Characters) /\ s \in Seq(Characters)
        BY <1>1, <1>2
    <2>2. /\ s \o x \in Seq(Characters) /\ Len(s \o x) = Len(s) + Len(x)
          /\ \A k \in 1..Len(s) : (s \o x)[k] = s[k]
          /\ \A k \in 1..Len(x) : (s \o x)[Len(s) + k] = x[k]
        BY <2>1, Joined
    <2> QED
        BY <1>1, <2>2
<1> HIDE DEF v
<1>4. /\ v \o w \in Seq(Characters) /\ Len(v \o w) = Len(v) + Len(w)
      /\ \A k \in 1..Len(v) : (v \o w)[k] = v[k]
      /\ \A k \in 1..Len(w) : (v \o w)[Len(v) + k] = w[k]
    <2>1. v \in Seq(Characters) /\ w \in Seq(Characters)
        BY <1>2, <1>3
    <2> QED
        BY <2>1, Joined
<1>5. v[Len(s) + 1] = c
    BY <1>1, <1>3
<1>6. /\ \A k \in 1..Len(s) : k \in 1..Len(v)
      /\ Len(s) + 1 \in 1..Len(v)
    BY <1>2, <1>3
<1>7. /\ v \o w \in Texts /\ Len(v \o w) = Len(s) + 1 + Len(w)
      /\ \A k \in 1..Len(s) : (v \o w)[k] = s[k]
      /\ (v \o w)[Len(s) + 1] = c
      /\ \A k \in 1..Len(w) : (v \o w)[Len(s) + 1 + k] = w[k]
    BY <1>3, <1>4, <1>5, <1>6 DEF Texts
<1> QED
    BY <1>2, <1>7 DEF v, x

LEMMA OneMoreCommand ==
    ASSUME NEW s, NEW n, Commands(s, n), s # <<>>, NEW w, NoBar(w)
    PROVE  /\ Commands((s \o <<Bar>>) \o w, n + 1)
           /\ Commands((s \o <<Blank>>) \o w, n)
<1>1. /\ s \in Texts /\ Count(s, Bar) = n /\ s[Len(s)] # Bar /\ Len(s) \in Nat /\ Len(s) >= 1
      /\ w \in Texts /\ Len(w) \in Nat /\ Len(w) >= 1 /\ \A k \in 1..Len(w) : w[k] # Bar
    <2>1. /\ s \in Texts /\ Count(s, Bar) = n /\ s[Len(s)] # Bar
          /\ w \in Texts /\ w # <<>> /\ \A k \in 1..Len(w) : w[k] # Bar
        BY DEF Commands, NoBar
    <2> QED
        BY <2>1 DEF Texts
<1>2. ASSUME NEW c \in {Bar, Blank}
      PROVE  LET u == (s \o <<c>>) \o w IN
                /\ u \in Texts /\ u # <<>> /\ u[Len(u)] # Bar
                /\ Starts(u, Bar) = Starts(s, Bar) \cup (IF c = Bar THEN {Len(s) + 2} ELSE {})
    <2> DEFINE u == (s \o <<c>>) \o w
               x == Len(s)
    <2>1. c \in Characters
        BY NewlineChar
    <2>2. /\ u \in Texts /\ Len(u) = x + 1 + Len(w)
          /\ \A k \in 1..x : u[k] = s[k]
          /\ u[x + 1] = c
          /\ \A k \in 1..Len(w) : u[x + 1 + k] = w[k]
        <3>1. s \in Texts /\ w \in Texts
            BY <1>1
        <3> HIDE DEF u
        <3>2. LET v == (s \o <<c>>) \o w IN
                 /\ v \in Texts /\ Len(v) = Len(s) + 1 + Len(w)
                 /\ \A k \in 1..Len(s) : v[k] = s[k]
                 /\ v[Len(s) + 1] = c
                 /\ \A k \in 1..Len(w) : v[Len(s) + 1 + k] = w[k]
            BY <2>1, <3>1, JoinIs
        <3> QED
            BY <3>2 DEF u
    <2> HIDE DEF u
    <2>3. x \in Nat /\ x >= 1 /\ Len(u) \in Nat /\ Len(w) \in 1..Len(w) /\ x \in 1..x
        BY <1>1, <2>2
    <2> HIDE DEF x
    <2>4. \A p \in 1..Len(u) : p \in 1..x \/ p = x + 1 \/ (p - x - 1 \in 1..Len(w) /\ x + 1 + (p - x - 1) = p)
        BY <1>1, <2>2, <2>3
    <2>5. /\ Starts(u, Bar) = {p \in 1..Len(u) : u[p] # Bar /\ (p = 1 \/ u[p - 1] = Bar)}
          /\ Starts(s, Bar) = {p \in 1..x : s[p] # Bar /\ (p = 1 \/ s[p - 1] = Bar)}
        BY <1>1, <2>2, StartsAre DEF x
    <2>6. ASSUME NEW p \in 1..x PROVE p \in Starts(u, Bar) <=> p \in Starts(s, Bar)
        <3>1. p \in 1..Len(u) /\ (p # 1 => p - 1 \in 1..x)
            BY <1>1, <2>2, <2>3
        <3>2. u[p] = s[p] /\ (p # 1 => u[p - 1] = s[p - 1])
            BY <2>2, <3>1
        <3> QED
            BY <2>5, <3>1, <3>2
    <2>7. x + 1 \notin Starts(u, Bar)
        <3>1. u[(x + 1) - 1] = s[x] /\ x + 1 # 1
            BY <2>2, <2>3
        <3>2. u[(x + 1) - 1] # Bar
            BY <1>1, <3>1 DEF x
        <3> QED
            BY <2>5, <3>1, <3>2
    <2>8. x + 2 \in Starts(u, Bar) <=> c = Bar
        <3>1. x + 2 \in 1..Len(u) /\ (x + 2) - 1 = x + 1 /\ x + 2 # 1 /\ x + 2 = x + 1 + 1 /\ 1 \in 1..Len(w)
            BY <1>1, <2>2, <2>3
        <3>2. u[x + 2] # Bar /\ u[(x + 2) - 1] = c
            BY <1>1, <2>2, <3>1
        <3> QED
            BY <2>5, <3>1, <3>2
    <2>9. ASSUME NEW p \in 1..Len(u), p > x + 2 PROVE p \notin Starts(u, Bar)
        <3>1. (p - 1) - x - 1 \in 1..Len(w) /\ x + 1 + ((p - 1) - x - 1) = p - 1 /\ p # 1
            BY <1>1, <2>2, <2>3, <2>9
        <3>2. u[p - 1] # Bar
            BY <1>1, <2>2, <3>1
        <3> QED
            BY <2>5, <3>1, <3>2
    <2>10. \A p : p \in Starts(u, Bar) => p \in 1..Len(u)
        BY <2>5
    <2>11. \A p \in 1..Len(u) : p \in 1..x \/ p = x + 1 \/ p = x + 2 \/ p > x + 2
        BY <2>2, <2>3
    <2>12. \A p : p \in Starts(s, Bar) => p \in 1..x
        BY <2>5
    <2>13. Starts(u, Bar) = Starts(s, Bar) \cup (IF c = Bar THEN {x + 2} ELSE {})
        BY <2>6, <2>7, <2>8, <2>9, <2>10, <2>11, <2>12
    <2>14. u # <<>> /\ u[Len(u)] # Bar
        <3>1. Len(u) = x + 1 + Len(w) /\ Len(u) # 0
            BY <2>2, <2>3
        <3>2. u[Len(u)] = w[Len(w)]
            BY <2>2, <2>3, <3>1
        <3> QED
            BY <1>1, <2>3, <3>1, <3>2
    <2> QED
        BY <2>2, <2>13, <2>14 DEF u, x
<1>3. Starts(s, Bar) \in SUBSET (1..Len(s)) /\ IsFiniteSet(Starts(s, Bar)) /\ Cardinality(Starts(s, Bar)) = n
    BY <1>1, StartsAre DEF Count
<1>4. Commands((s \o <<Bar>>) \o w, n + 1)
    <2>1. LET u == (s \o <<Bar>>) \o w IN
             u \in Texts /\ u[Len(u)] # Bar /\ Starts(u, Bar) = Starts(s, Bar) \cup {Len(s) + 2}
        BY <1>2
    <2>2. Len(s) + 2 \notin Starts(s, Bar)
        <3>1. Len(s) + 2 \notin 1..Len(s)
            BY <1>1
        <3> QED
            BY <1>3, <3>1
    <2>3. Cardinality(Starts(s, Bar) \cup {Len(s) + 2}) = n + 1
        BY <1>3, <2>2, FS_AddElement
    <2> QED
        BY <2>1, <2>3 DEF Commands, Count
<1>5. Commands((s \o <<Blank>>) \o w, n)
    <2>1. Blank # Bar
        BY DEF Blank, Bar
    <2>2. LET u == (s \o <<Blank>>) \o w IN
             u \in Texts /\ u[Len(u)] # Bar /\ Starts(u, Bar) = Starts(s, Bar)
        BY <1>2, <2>1
    <2> QED
        BY <1>3, <2>2 DEF Commands, Count
<1> QED
    BY <1>4, <1>5

\* A text shows at least the commands that what it begins with shows.
LEMMA MoreCommands ==
    ASSUME NEW s \in Texts, NEW t \in Texts
    PROVE  Count(s, Bar) <= Count(s \o t, Bar)
<1> DEFINE u == s \o t
<1>1. u \in Texts /\ Len(u) = Len(s) + Len(t) /\ \A k \in 1..Len(s) : u[k] = s[k]
    BY LineIs, Joined DEF Texts
<1>2. Len(s) \in Nat /\ Len(t) \in Nat
    BY LineIs
<1> HIDE DEF u
<1>3. ASSUME NEW p \in Starts(s, Bar) PROVE p \in Starts(u, Bar)
    <2>1. p \in 1..Len(s) /\ s[p] # Bar /\ (p = 1 \/ s[p - 1] = Bar)
        BY StartsAre
    <2>2. p \in 1..Len(u) /\ (p # 1 => p - 1 \in 1..Len(s))
        BY <1>1, <1>2, <2>1
    <2>3. u[p] = s[p] /\ (p # 1 => u[p - 1] = s[p - 1])
        BY <1>1, <2>1, <2>2
    <2> QED
        BY <1>1, <2>1, <2>2, <2>3, StartsAre
<1>4. IsFiniteSet(Starts(u, Bar))
    BY <1>1, StartsAre
<1>5. Cardinality(Starts(s, Bar)) <= Cardinality(Starts(u, Bar))
    BY <1>3, <1>4, FS_Subset
<1> QED
    BY <1>5 DEF Count, u

\* A word of L with a bar (or nothing) before it is the first word of what
\* strtok_r would return there, or the beginning of it.
LEMMA LongFirstWord ==
    ASSUME NEW s \in Texts, s = <<>> \/ s[Len(s)] = Bar,
           NEW w, NoBar(w), \A k \in 1..Len(w) : w[k] # Blank, NEW t \in Texts
    PROVE  LET l == (s \o w) \o t
           IN  \E n \in DOMAIN Tokens(l, Bar) :
                  /\ Len(Head(Tokens(Tokens(l, Bar)[n], Blank))) \in Nat
                  /\ Len(Head(Tokens(Tokens(l, Bar)[n], Blank))) >= Len(w)
<1> DEFINE l == (s \o w) \o t
           x == Len(s) + 1
<1>1. /\ w \in Texts /\ Len(w) \in Nat /\ Len(w) >= 1 /\ Len(s) \in Nat /\ Len(t) \in Nat
      /\ \A k \in 1..Len(w) : w[k] # Bar /\ w[k] # Blank
    <2>1. w \in Texts /\ w # <<>> /\ \A k \in 1..Len(w) : w[k] # Bar
        BY DEF NoBar
    <2> QED
        BY <2>1 DEF Texts
<1>2. /\ s \o w \in Texts /\ Len(s \o w) = Len(s) + Len(w)
      /\ \A k \in 1..Len(s) : (s \o w)[k] = s[k]
      /\ \A k \in 1..Len(w) : (s \o w)[Len(s) + k] = w[k]
    <2>1. s \in Seq(Characters) /\ w \in Seq(Characters)
        BY <1>1, LineIs
    <2> QED
        BY <2>1, Joined DEF Texts
<1>3. /\ l \in Texts /\ Len(l) = Len(s \o w) + Len(t)
      /\ \A k \in 1..Len(s \o w) : l[k] = (s \o w)[k]
    <2>1. s \o w \in Seq(Characters) /\ t \in Seq(Characters)
        BY <1>2, LineIs
    <2> QED
        BY <2>1, Joined DEF Texts
<1> HIDE DEF l
<1>4. /\ Len(l) \in Nat /\ Len(l) >= Len(s) + Len(w)
      /\ \A k \in 1..Len(s) : l[k] = s[k]
      /\ \A k \in 1..Len(w) : l[Len(s) + k] = w[k]
    <2>1. \A k \in 1..Len(s) : k \in 1..Len(s \o w)
        BY <1>1, <1>2
    <2>2. \A k \in 1..Len(w) : Len(s) + k \in 1..Len(s \o w)
        BY <1>1, <1>2
    <2> QED
        BY <1>1, <1>2, <1>3, <2>1, <2>2
<1>5. x \in 1..Len(l) /\ l[x] # Bar /\ (x = 1 \/ l[x - 1] = Bar)
    <2>1. x \in 1..Len(l) /\ 1 \in 1..Len(w) /\ x = Len(s) + 1 /\ x - 1 = Len(s)
        BY <1>1, <1>4
    <2>2. l[x] = w[1]
        BY <1>4, <2>1
    <2>3. CASE s = <<>>
        BY <1>1, <2>1, <2>2, <2>3
    <2>4. CASE s # <<>> /\ s[Len(s)] = Bar
        <3>1. Len(s) \in 1..Len(s)
            BY <1>1, <2>4 DEF Texts
        <3> QED
            BY <1>1, <1>4, <2>1, <2>2, <2>4, <3>1
    <2> QED
        BY <2>3, <2>4
<1>6. \A k \in x..(x + Len(w) - 1) : l[k] # Bar /\ l[k] # Blank /\ l[k] = w[k - x + 1] /\ k - x + 1 \in 1..Len(w)
    <2>1. ASSUME NEW k \in x..(x + Len(w) - 1)
          PROVE  l[k] # Bar /\ l[k] # Blank /\ l[k] = w[k - x + 1] /\ k - x + 1 \in 1..Len(w)
        <3>1. k - x + 1 \in 1..Len(w) /\ Len(s) + (k - x + 1) = k
            BY <1>1
        <3> QED
            BY <1>1, <1>4, <3>1
    <2> QED
        BY <2>1
<1> HIDE DEF x
<1>7. PICK n \in 1..Count(l, Bar) : Begin(l, Bar, n) = x
    <2> DEFINE S == Starts(l, Bar)
    <2>1. x \in S /\ S \in SUBSET (1..Len(l)) /\ IsFiniteSet(S)
        BY <1>3, <1>5, StartsAre
    <2> HIDE DEF S
    <2>2. S \in SUBSET Nat
        BY <1>4, <2>1
    <2>3. Cardinality(UpTo(S, x)) \in 1..Cardinality(S) /\ InOrder(S)[Cardinality(UpTo(S, x))] = x
        BY <2>1, <2>2, OrderIs
    <2> QED
        BY <2>3 DEF S, Count, Begin
<1> DEFINE y == Behind(l, Bar, n)
           p == Tokens(l, Bar)[n]
<1>8. y \in (x + 1)..(Len(l) + 1) /\ p = SubSeq(l, x, y - 1) /\ n \in DOMAIN Tokens(l, Bar)
    <2>1. l \in Seq(Characters)
        BY <1>3, LineIs
    <2>2. /\ Count(l, Bar) \in Nat /\ Tokens(l, Bar) \in Seq(Seq(Characters)) /\ Len(Tokens(l, Bar)) = Count(l, Bar)
          /\ \A i \in 1..Count(l, Bar) :
                /\ Behind(l, Bar, i) \in (Begin(l, Bar, i) + 1)..(Len(l) + 1)
                /\ Tokens(l, Bar)[i] = SubSeq(l, Begin(l, Bar, i), Behind(l, Bar, i) - 1)
        BY <2>1, TokensAre
    <2> QED
        BY <1>7, <2>2
<1>9. y <= Len(l) => l[y] = Bar
    BY <1>3, TokensTile
<1> HIDE DEF y, p
<1>10. y >= x + Len(w)
    <2>1. ~(y \in x..(x + Len(w) - 1))
        <3>1. ASSUME y \in x..(x + Len(w) - 1) PROVE FALSE
            <4>1. y <= Len(l)
                BY <1>1, <1>4, <1>5, <3>1 DEF x
            <4> QED
                BY <1>6, <1>9, <3>1, <4>1
        <3> QED
            BY <3>1
    <2> QED
        BY <1>1, <1>4, <1>5, <1>8, <2>1
<1>11. /\ p \in Texts /\ Len(p) = y - x /\ Len(p) \in Nat /\ Len(p) >= Len(w)
       /\ \A k \in 1..Len(w) : p[k] # Blank
    <2>1. x \in 1..(Len(l) + 1) /\ y - 1 \in (x - 1)..Len(l) /\ (y - 1) - x + 1 = y - x
        BY <1>4, <1>5, <1>8
    <2>2. l \in Seq(Characters)
        BY <1>3, LineIs
    <2>3. /\ p \in Seq(Characters) /\ Len(p) = y - x
          /\ \A k \in 1..(y - x) : p[k] = l[x + k - 1]
        BY <1>8, <2>1, <2>2, PieceIs
    <2>4. ASSUME NEW k \in 1..Len(w) PROVE p[k] # Blank
        <3>1. k \in 1..(y - x) /\ x + k - 1 \in x..(x + Len(w) - 1)
            BY <1>1, <1>5, <1>8, <1>10
        <3> QED
            BY <1>6, <2>3, <3>1
    <2>5. y - x \in Nat /\ y - x >= Len(w)
        BY <1>1, <1>5, <1>8, <1>10
    <2> QED
        BY <2>3, <2>4, <2>5 DEF Texts
<1>12. 1 \in 1..Count(p, Blank) /\ Begin(p, Blank, 1) = 1
    <2> DEFINE S == Starts(p, Blank)
    <2>1. 1 \in 1..Len(w) /\ 1 \in 1..Len(p) /\ p \in Seq(Characters) /\ DOMAIN p = 1..Len(p)
        BY <1>1, <1>11, LineIs
    <2>2. 1 \in S /\ S \in SUBSET (DOMAIN p)
        BY <1>11, <2>1 DEF Starts
    <2> HIDE DEF S
    <2>3. S \in SUBSET Nat /\ IsFiniteSet(S)
        BY <2>1, <2>2, PositionsFinite
    <2>4. UpTo(S, 1) = {1}
        <3>1. \A k \in S : k <= 1 => k = 1
            BY <2>1, <2>2
        <3> QED
            BY <2>2, <3>1 DEF UpTo
    <2>5. Cardinality(UpTo(S, 1)) = 1
        BY <2>4, FS_Singleton
    <2>6. Cardinality(UpTo(S, 1)) \in 1..Cardinality(S) /\ InOrder(S)[Cardinality(UpTo(S, 1))] = 1
        BY <2>2, <2>3, OrderIs
    <2> QED
        BY <2>5, <2>6 DEF S, Count, Begin
<1> DEFINE z == Behind(p, Blank, 1)
<1>13. /\ z \in (1 + 1)..(Len(p) + 1) /\ (z <= Len(p) => p[z] = Blank)
       /\ Head(Tokens(p, Blank)) = Tokens(p, Blank)[1] /\ Len(Tokens(p, Blank)[1]) = z - 1
    <2>1. p \in Seq(Characters)
        BY <1>11, LineIs
    <2>2. /\ Tokens(p, Blank) \in Seq(Seq(Characters)) /\ Len(Tokens(p, Blank)) = Count(p, Blank)
          /\ \A i \in 1..Count(p, Blank) :
                /\ Behind(p, Blank, i) \in (Begin(p, Blank, i) + 1)..(Len(p) + 1)
                /\ Len(Tokens(p, Blank)[i]) = Behind(p, Blank, i) - Begin(p, Blank, i)
        BY <2>1, TokensAre
    <2>3. z <= Len(p) => p[z] = Blank
        BY <1>11, <1>12, TokensTile
    <2>4. Head(Tokens(p, Blank)) = Tokens(p, Blank)[1]
        OBVIOUS
    <2> QED
        BY <1>12, <2>2, <2>3, <2>4
<1> HIDE DEF z
<1>14. z - 1 >= Len(w) /\ z - 1 \in Nat
    <2>1. ~(z \in 1..Len(w))
        <3>1. ASSUME z \in 1..Len(w) PROVE FALSE
            <4>1. z <= Len(p)
                BY <1>1, <1>11, <3>1
            <4> QED
                BY <1>11, <1>13, <3>1, <4>1
        <3> QED
            BY <3>1
    <2> QED
        BY <1>1, <1>11, <1>13, <2>1
<1> QED
    BY <1>8, <1>13, <1>14 DEF l, p

----------------------------------------------------------------------------
(* The invariant of the parser of CmdList.                                 *)

\* At the head of the loop the parts ps are still to come and the commands cs
\* are what stands before q.
AtPart(l, q, ps, cs) ==
    /\ q \in 1..(Len(l) + 1)
    /\ CutUp(l, q, Len(l), Bar, ps)
    /\ ps # <<>> /\ cs # <<>> => l[q] = Bar
    /\ Typed(cs) = SqueezedTo(l, q)
    /\ Commands(SqueezedTo(l, q), Len(cs))

\* In a part that ends before h, the words ws are still to come, and with
\* program x and arguments a the commands are what stands before q.
AtArgs(l, q, h, ps, ws, x, a, cs) ==
    /\ h \in 2..(Len(l) + 1) /\ q \in 2..h
    /\ ~Apart(l, q - 1) /\ Apart(l, q) /\ Apart(l, h)
    /\ \A k \in q..(h - 1) : l[k] # Bar
    /\ CutUp(l, q, h - 1, Blank, ws)
    /\ CutUp(l, h, Len(l), Bar, ps)
    /\ ps # <<>> => l[h] = Bar
    /\ Typed(cs) \in Texts /\ x \in Texts /\ a \in Texts
    /\ Typed(Append(cs, [exe |-> x, args |-> a])) = SqueezedTo(l, q)
    /\ Commands(SqueezedTo(l, q), Len(cs) + 1)

\* What the loop shows of line l.
ShownSo(l, cs, r) ==
    /\ r = "OK" => Typed(cs) = Squeezed(l) /\ Count(Squeezed(l), Bar) = Len(cs)
    /\ r = "ERR_TOO_MANY_COMMANDS" => Len(cs) >= CMD_MAX /\ Count(Squeezed(l), Bar) >= Len(cs)
    /\ r = "ERR_CMD_OR_ARGS_TOO_BIG" =>
          \E n \in DOMAIN Tokens(Squeezed(l), Bar) :
              Len(Head(Tokens(Tokens(Squeezed(l), Bar)[n], Blank))) >= EXE_MAX

\* A line without tabs and returns, and what the parser has made of it.
Untabbed(l) == \A k \in 1..Len(l) : l[k] \notin {Tab, CR}

ShownInv ==
    Untabbed(input_buffer) =>
        /\ lpc \in {"part", "args"} => status = "OK"
        /\ lpc = "part" => \E q \in 1..(Len(input_buffer) + 1) : AtPart(input_buffer, q, parts, commands)
        /\ lpc = "args" => \E h \in 2..(Len(input_buffer) + 1) : \E q \in 2..h :
                              AtArgs(input_buffer, q, h, parts, words, exe, args, commands)
        /\ lpc = "shown" => ShownSo(input_buffer, commands, status)

LEMMA FirstPart ==
    ASSUME NEW l \in Texts, Untabbed(l)
    PROVE  AtPart(l, 1, Tokens(Trimmed(l), Bar), <<>>)
<1>1. Len(l) \in Nat /\ 1 \in 1..(Len(l) + 1) /\ Len(l) \in (1 - 1)..Len(l) /\ l \in Seq(Characters)
    BY LineIs
<1>2. SubSeq(l, 1, Len(l)) = l
    <2> DEFINE n == Len(l)
               u == SubSeq(l, 1, n)
    <2>1. u \in Seq(Characters) /\ Len(u) = n - 1 + 1 /\ \A k \in 1..(n - 1 + 1) : u[k] = l[1 + k - 1]
        BY <1>1, PieceIs
    <2> HIDE DEF u
    <2>2. n - 1 + 1 = n /\ \A k \in 1..n : 1 + k - 1 = k
        BY <1>1
    <2>3. u = l
        BY <1>1, <2>1, <2>2, Alike
    <2> QED
        BY <2>3 DEF u
<1>3. CutUp(l, 1, Len(l), Bar, Tokens(Trimmed(SubSeq(l, 1, Len(l))), Bar))
    BY <1>1, PieceCut DEF Untabbed
<1>4. Typed(<<>>) = SqueezedTo(l, 1) /\ SqueezedTo(l, 1) = <<>>
    BY TypedNone, NothingShown
<1>5. Len(<<>>) = 0
    OBVIOUS
<1> QED
    BY <1>1, <1>2, <1>3, <1>4, <1>5, NoCommand DEF AtPart

\* The first of the words in a piece.
LEMMA BlankCut ==
    ASSUME NEW l \in Texts, NEW lo \in 1..(Len(l) + 1), NEW hi \in (lo - 1)..Len(l),
           NEW ts \in Seq(Texts), ts # <<>>, CutUp(l, lo, hi, Blank, ts)
    PROVE  \E b \in lo..hi : \E e \in (b + 1)..(hi + 1) :
              /\ Head(ts) = SubSeq(l, b, e - 1)
              /\ \A k \in lo..(b - 1) : l[k] \in {Blank, Blank}
              /\ \A k \in b..(e - 1) : l[k] # Blank
              /\ e <= hi => l[e] \in {Blank, Blank}
              /\ CutUp(l, e, hi, Blank, Tail(ts))
<1>1. PICK b \in lo..hi : \E e \in (b + 1)..(hi + 1) :
              /\ Head(ts) = SubSeq(l, b, e - 1)
              /\ \A k \in lo..(b - 1) : l[k] \in {Blank, Blank}
              /\ \A k \in b..(e - 1) : l[k] # Blank
              /\ e <= hi => l[e] \in {Blank, Blank}
              /\ Tail(ts) # <<>> => e <= hi /\ l[e] = Blank
              /\ CutUp(l, e, hi, Blank, Tail(ts))
    BY HeadCut
<1> QED
    BY <1>1

\* The first word of a part.
LEMMA PartWord ==
    ASSUME NEW l \in Texts, Untabbed(l), NEW q \in 1..(Len(l) + 1), NEW ps \in Seq(Texts), ps # <<>>,
           CutUp(l, q, Len(l), Bar, ps)
    PROVE  LET ws == Tokens(Trimmed(Head(ps)), Blank) IN
           \E h \in 2..(Len(l) + 1) :
              /\ q < h /\ Apart(l, h) /\ CutUp(l, h, Len(l), Bar, Tail(ps))
              /\ Tail(ps) # <<>> => l[h] = Bar
              /\ ws = <<>> => \A k \in q..(h - 1) : Apart(l, k)
              /\ ws # <<>> => \E b \in q..(h - 1) : \E e \in (b + 1)..h :
                    /\ WordAfter(l, q, b, e) /\ Apart(l, e)
                    /\ Head(ws) = SubSeq(l, b, e - 1)
                    /\ \A k \in e..(h - 1) : l[k] # Bar
                    /\ CutUp(l, e, h - 1, Blank, Tail(ws))
<1> DEFINE ws == Tokens(Trimmed(Head(ps)), Blank)
<1>1. Len(l) \in Nat /\ q \in Int /\ Len(l) \in (q - 1)..Len(l) /\ l \in Seq(Characters)
    BY LineIs
<1>2. PICK p \in q..Len(l) : \E e \in (p + 1)..(Len(l) + 1) :
              /\ Head(ps) = SubSeq(l, p, e - 1)
              /\ \A k \in q..(p - 1) : l[k] \in {Blank, Bar}
              /\ \A k \in p..(e - 1) : l[k] # Bar
              /\ e <= Len(l) => l[e] \in {Blank, Bar}
              /\ Tail(ps) # <<>> => e <= Len(l) /\ l[e] = Bar
              /\ CutUp(l, e, Len(l), Bar, Tail(ps))
    BY <1>1, HeadCut
<1>3. PICK h \in (p + 1)..(Len(l) + 1) :
              /\ Head(ps) = SubSeq(l, p, h - 1)
              /\ \A k \in q..(p - 1) : l[k] \in {Blank, Bar}
              /\ \A k \in p..(h - 1) : l[k] # Bar
              /\ h <= Len(l) => l[h] \in {Blank, Bar}
              /\ Tail(ps) # <<>> => h <= Len(l) /\ l[h] = Bar
              /\ CutUp(l, h, Len(l), Bar, Tail(ps))
    BY <1>2
<1>4. /\ p \in Int /\ h \in Int /\ 1 <= q /\ q <= p /\ p < h /\ h <= Len(l) + 1
      /\ p \in 1..(Len(l) + 1) /\ h - 1 \in (p - 1)..Len(l) /\ h \in 2..(Len(l) + 1)
    BY <1>1
<1>5. Apart(l, h)
    BY <1>1, <1>3, <1>4, LineIs DEF Apart
<1>6. CutUp(l, p, h - 1, Blank, ws)
    BY <1>3, <1>4, PieceCut DEF Untabbed
<1>7. ws \in Seq(Texts)
    <2>1. Head(ps) \in Seq(Characters)
        BY HeadTailIs DEF Texts
    <2>2. Trimmed(Head(ps)) \in Seq(Characters)
        BY <2>1, TrimmedIs
    <2> QED
        BY <2>2, TokensAre DEF Texts
<1> HIDE DEF ws
<1>8. CASE ws = <<>>
    <2>1. \A k \in p..(h - 1) : l[k] \in {Blank, Blank}
        BY <1>6, <1>8, NoneCut
    <2>2. ASSUME NEW k \in q..(h - 1) PROVE Apart(l, k)
        <3>1. k \in q..(p - 1) \/ k \in p..(h - 1)
            BY <1>1, <1>4
        <3> QED
            BY <1>3, <2>1, <3>1 DEF Apart
    <2> QED
        BY <1>3, <1>4, <1>5, <1>8, <2>2 DEF ws
<1>9. CASE ws # <<>>
    <2>1. PICK b \in p..(h - 1) : \E e \in (b + 1)..((h - 1) + 1) :
              /\ Head(ws) = SubSeq(l, b, e - 1)
              /\ \A k \in p..(b - 1) : l[k] \in {Blank, Blank}
              /\ \A k \in b..(e - 1) : l[k] # Blank
              /\ e <= h - 1 => l[e] \in {Blank, Blank}
              /\ CutUp(l, e, h - 1, Blank, Tail(ws))
        BY <1>4, <1>6, <1>7, <1>9, BlankCut
    <2>2. PICK e \in (b + 1)..((h - 1) + 1) :
              /\ Head(ws) = SubSeq(l, b, e - 1)
              /\ \A k \in p..(b - 1) : l[k] \in {Blank, Blank}
              /\ \A k \in b..(e - 1) : l[k] # Blank
              /\ e <= h - 1 => l[e] \in {Blank, Blank}
              /\ CutUp(l, e, h - 1, Blank, Tail(ws))
        BY <2>1
    <2>3. /\ b \in Int /\ e \in Int /\ p <= b /\ b < e /\ e <= h
          /\ b \in q..(h - 1) /\ e \in (b + 1)..h
        BY <1>1, <1>4
    <2>4. WordAfter(l, q, b, e)
        <3>1. q \in 1..b /\ b \in 1..Len(l) /\ e \in (b + 1)..(Len(l) + 1)
            BY <1>1, <1>4, <2>3
        <3>2. ASSUME NEW k \in q..(b - 1) PROVE Apart(l, k)
            <4>1. k \in q..(p - 1) \/ k \in p..(b - 1)
                BY <1>1, <1>4, <2>3
            <4> QED
                BY <1>3, <2>2, <4>1 DEF Apart
        <3>3. ASSUME NEW k \in b..(e - 1) PROVE ~Apart(l, k)
            <4>1. k \in p..(h - 1) /\ k \in 1..Len(l)
                BY <1>1, <1>4, <2>3
            <4> QED
                BY <1>3, <2>2, <4>1, LineIs DEF Apart
        <3> QED
            BY <3>1, <3>2, <3>3 DEF WordAfter
    <2>5. Apart(l, e)
        <3>1. CASE e = h
            BY <1>5, <3>1
        <3>2. CASE e # h
            <4>1. e <= h - 1
                BY <1>4, <2>3, <3>2
            <4> QED
                BY <2>2, <4>1 DEF Apart
        <3> QED
            BY <3>1, <3>2
    <2>6. \A k \in e..(h - 1) : l[k] # Bar
        <3>1. \A k \in e..(h - 1) : k \in p..(h - 1)
            BY <1>4, <2>3
        <3> QED
            BY <1>3, <3>1
    <2>7. q < h
        BY <1>1, <1>4
    <2>8. /\ WordAfter(l, q, b, e) /\ Apart(l, e) /\ Head(ws) = SubSeq(l, b, e - 1)
          /\ \A k \in e..(h - 1) : l[k] # Bar
          /\ CutUp(l, e, h - 1, Blank, Tail(ws))
        BY <2>2, <2>4, <2>5, <2>6
    <2> QED
        BY <1>3, <1>4, <1>5, <1>9, <2>3, <2>7, <2>8 DEF ws
<1> QED
    BY <1>8, <1>9

----------------------------------------------------------------------------
(* What the steps of the loop do to the places.                            *)

\* A word of a line is a text without separators.
LoneWord(w) == NoBar(w) /\ \A k \in 1..Len(w) : w[k] # Blank

LEMMA WordIs ==
    ASSUME NEW l \in Texts, NEW q, NEW b, NEW e, WordAfter(l, q, b, e)
    PROVE  LET w == SubSeq(l, b, e - 1) IN
              LoneWord(w) /\ NoBar(w) /\ w \in Texts /\ Len(w) = e - b /\ w # <<>>
<1> DEFINE w == SubSeq(l, b, e - 1)
<1>1. /\ b \in Int /\ e \in Int /\ 1 <= b /\ b < e /\ e <= Len(l) + 1 /\ Len(l) \in Nat
      /\ b \in 1..(Len(l) + 1) /\ e - 1 \in (b - 1)..Len(l) /\ l \in Seq(Characters)
    BY LineIs DEF WordAfter
<1>2. w \in Seq(Characters) /\ Len(w) = e - 1 - b + 1 /\ \A k \in 1..(e - 1 - b + 1) : w[k] = l[b + k - 1]
    BY <1>1, PieceIs
<1> HIDE DEF w
<1>3. ASSUME NEW k \in 1..Len(w) PROVE w[k] \notin {Blank, Bar}
    <2>1. b + k - 1 \in b..(e - 1) /\ k \in 1..(e - 1 - b + 1)
        BY <1>1, <1>2
    <2>2. ~Apart(l, b + k - 1)
        BY <2>1 DEF WordAfter
    <2> QED
        BY <1>2, <2>1, <2>2 DEF Apart
<1>4. Len(w) = e - b /\ e - b >= 1
    BY <1>1, <1>2
<1>5. w # <<>>
    BY <1>1, <1>4
<1> QED
    BY <1>2, <1>3, <1>4, <1>5 DEF w, LoneWord, NoBar, Texts

LEMMA PartSkipped ==
    ASSUME NEW l \in Texts, Untabbed(l), NEW q \in 1..(Len(l) + 1), NEW ps \in Seq(Texts), ps # <<>>,
           NEW cs, AtPart(l, q, ps, cs), Tokens(Trimmed(Head(ps)), Blank) = <<>>
    PROVE  \E h \in 1..(Len(l) + 1) : AtPart(l, h, Tail(ps), cs)
<1>1. CutUp(l, q, Len(l), Bar, ps)
    BY DEF AtPart
<1>2. PICK h \in 2..(Len(l) + 1) :
         /\ q < h /\ CutUp(l, h, Len(l), Bar, Tail(ps)) /\ (Tail(ps) # <<>> => l[h] = Bar)
         /\ \A k \in q..(h - 1) : Apart(l, k)
    BY <1>1, PartWord
<1>3. q \in Nat /\ h \in Nat /\ q <= h /\ h \in 1..(Len(l) + 1)
    BY <1>2, LineIs
<1>4. SqueezedTo(l, h) = SqueezedTo(l, q)
    BY <1>2, <1>3, StillShown
<1>5. Typed(cs) = SqueezedTo(l, h) /\ Commands(SqueezedTo(l, h), Len(cs))
    BY <1>4 DEF AtPart
<1> QED
    BY <1>2, <1>3, <1>5 DEF AtPart

\* Before the first command nothing is shown, and behind one something is.
LEMMA ShownOrNot ==
    ASSUME NEW s, NEW n \in Nat, Commands(s, n), n # 0
    PROVE  s # <<>>
BY NoCommand DEF Commands

LEMMA PartTaken ==
    ASSUME NEW l \in Texts, Untabbed(l), NEW q \in 1..(Len(l) + 1), NEW ps \in Seq(Texts), ps # <<>>,
           NEW cs \in Seq([exe : Texts, args : Texts]), AtPart(l, q, ps, cs),
           Tokens(Trimmed(Head(ps)), Blank) # <<>>
    PROVE  LET ws == Tokens(Trimmed(Head(ps)), Blank)
           IN  \E h \in 2..(Len(l) + 1) : \E e \in 2..h :
                  AtArgs(l, e, h, Tail(ps), Tail(ws), Head(ws), <<>>, cs)
<1> DEFINE ws == Tokens(Trimmed(Head(ps)), Blank)
           w == Head(ws)
           s == SqueezedTo(l, q)
<1>1. /\ CutUp(l, q, Len(l), Bar, ps) /\ Typed(cs) = s /\ Commands(s, Len(cs))
      /\ cs # <<>> => l[q] = Bar
    BY DEF AtPart
<1>2. PICK h \in 2..(Len(l) + 1) :
         /\ q < h /\ Apart(l, h) /\ CutUp(l, h, Len(l), Bar, Tail(ps)) /\ (Tail(ps) # <<>> => l[h] = Bar)
         /\ \E b \in q..(h - 1) : \E e \in (b + 1)..h :
               /\ WordAfter(l, q, b, e) /\ Apart(l, e)
               /\ w = SubSeq(l, b, e - 1)
               /\ \A k \in e..(h - 1) : l[k] # Bar
               /\ CutUp(l, e, h - 1, Blank, Tail(ws))
    BY <1>1, PartWord
<1> HIDE DEF ws
<1>3. PICK b \in q..(h - 1) : \E e \in (b + 1)..h :
         /\ WordAfter(l, q, b, e) /\ Apart(l, e)
         /\ w = SubSeq(l, b, e - 1)
         /\ \A k \in e..(h - 1) : l[k] # Bar
         /\ CutUp(l, e, h - 1, Blank, Tail(ws))
    BY <1>2
<1>4. PICK e \in (b + 1)..h :
         /\ WordAfter(l, q, b, e) /\ Apart(l, e)
         /\ w = SubSeq(l, b, e - 1)
         /\ \A k \in e..(h - 1) : l[k] # Bar
         /\ CutUp(l, e, h - 1, Blank, Tail(ws))
    BY <1>3
<1>5. NoBar(w) /\ w \in Texts
    BY <1>4, WordIs
<1> HIDE DEF w
<1>6. /\ q \in Nat /\ b \in Nat /\ e \in Nat /\ h \in Nat /\ e \in 2..h /\ e - 1 \in b..(e - 1)
    BY LineIs
<1>7. ~Apart(l, e - 1)
    BY <1>4, <1>6 DEF WordAfter
<1>8. Len(cs) \in Nat /\ (cs = <<>> <=> Len(cs) = 0)
    OBVIOUS
<1>9. s \in Texts
    BY <1>1 DEF Commands
<1>10. s = <<>> <=> cs = <<>>
    BY <1>1, <1>8, ShownOrNot, TypedNone
<1>11. [exe |-> w, args |-> <<>>] \in [exe : Texts, args : Texts]
    BY <1>5 DEF Texts
<1> DEFINE c == [exe |-> w, args |-> <<>>]
<1>12. Whole(c) = w
    <2>1. Whole(c) = w \o <<>>
        BY DEF Whole
    <2> QED
        BY <1>5, <2>1, ConcatEmptySeq DEF Texts
<1>13. Typed(Append(cs, c)) = Typed(cs) \o (IF cs = <<>> THEN <<>> ELSE <<Bar>>) \o Whole(c)
    BY <1>11, TypedMore
<1> HIDE DEF c, s
<1>14. SqueezedTo(l, e) = Typed(Append(cs, c)) /\ Commands(SqueezedTo(l, e), Len(cs) + 1)
    <2>1. s # <<>> => Apart(l, q) /\ l[q] = Bar
        BY <1>1, <1>10 DEF Apart
    <2>2. CASE cs = <<>>
        <3>1. SqueezedTo(l, e) = w
            BY <1>4, <1>10, <2>2, WordShown DEF s
        <3>2. Typed(Append(cs, c)) = (<<>> \o <<>>) \o w
            BY <1>1, <1>10, <1>12, <1>13, <2>2
        <3>3. (<<>> \o <<>>) \o w = w
            <4>1. <<>> \o <<>> = <<>>
                BY ConcatEmptySeq
            <4>2. <<>> \o w = w
                BY <1>5, ConcatEmptySeq DEF Texts
            <4> QED
                BY <4>1, <4>2
        <3>4. Len(cs) + 1 = 1
            BY <2>2, <1>8
        <3> QED
            BY <1>5, <3>1, <3>2, <3>3, <3>4, OneCommand
    <2>3. CASE cs # <<>>
        <3>1. \E d \in {Bar, Blank} :
                 /\ SqueezedTo(l, e) = (s \o <<d>>) \o w
                 /\ l[q] = Bar => d = Bar
            BY <1>4, <1>10, <2>1, <2>3, WordShown DEF s
        <3>2. SqueezedTo(l, e) = (s \o <<Bar>>) \o w
            BY <1>10, <2>1, <2>3, <3>1
        <3>3. Typed(Append(cs, c)) = (s \o <<Bar>>) \o w
            BY <1>1, <1>12, <1>13, <2>3
        <3> QED
            BY <1>1, <1>5, <1>10, <2>3, <3>2, <3>3, OneMoreCommand
    <2> QED
        BY <2>2, <2>3
<1>15. AtArgs(l, e, h, Tail(ps), Tail(ws), w, <<>>, cs)
    <2>1. Typed(cs) \in Texts /\ <<>> \in Texts
        BY <1>1, <1>9 DEF Texts
    <2> QED
        BY <1>2, <1>4, <1>5, <1>6, <1>7, <1>14, <2>1 DEF AtArgs, c
<1> QED
    BY <1>6, <1>15 DEF ws, w

\* Between two words of a part a blank is shown.
Within(l, q, b) == ~Apart(l, q - 1) /\ \A k \in q..(b - 1) : l[k] # Bar

LEMMA BlankShown ==
    ASSUME NEW l \in Texts, NEW q, NEW b, NEW e, WordAfter(l, q, b, e), SqueezedTo(l, q) # <<>>,
           Apart(l, q), Within(l, q, b)
    PROVE  SqueezedTo(l, e) = (SqueezedTo(l, q) \o <<Blank>>) \o SubSeq(l, b, e - 1)
<1>1. ~Apart(l, q - 1) /\ \A k \in q..(b - 1) : l[k] # Bar
    BY DEF Within
<1>2. \E c \in {Bar, Blank} :
         /\ SqueezedTo(l, e) = (SqueezedTo(l, q) \o <<c>>) \o SubSeq(l, b, e - 1)
         /\ ~Apart(l, q - 1) /\ (\A k \in q..(b - 1) : l[k] # Bar) => c = Blank
    BY WordShown
<1> QED
    BY <1>1, <1>2

LEMMA Grouped ==
    \A u, v, w \in Texts : u \o (v \o w) = (u \o v) \o w
<1> SUFFICES ASSUME NEW u \in Texts, NEW v \in Texts, NEW w \in Texts
             PROVE  u \o (v \o w) = (u \o v) \o w
    OBVIOUS
<1>1. u \in Seq(Characters) /\ v \in Seq(Characters) /\ w \in Seq(Characters)
    BY DEF Texts
<1>2. (u \o v) \o w = u \o (v \o w)
    BY <1>1, ConcatAssociative
<1> QED
    BY <1>1, <1>2

LEMMA GroupedTwice ==
    \A u, v, w, z \in Texts : u \o ((v \o w) \o z) = ((u \o v) \o w) \o z
<1> SUFFICES ASSUME NEW u \in Texts, NEW v \in Texts, NEW w \in Texts, NEW z \in Texts
             PROVE  u \o ((v \o w) \o z) = ((u \o v) \o w) \o z
    OBVIOUS
<1> DEFINE s == v \o w
<1>1. s \in Texts
    BY TwoTexts
<1> HIDE DEF s
<1>2. u \o (s \o z) = (u \o s) \o z
    BY <1>1, Grouped, Zenon
<1>3. u \o s = (u \o v) \o w
    BY Grouped, Zenon DEF s
<1> QED
    BY <1>2, <1>3 DEF s

\* One more argument is one more word behind a blank.
LEMMA WholeJoined ==
    ASSUME NEW x \in Texts, NEW a \in Texts, NEW w \in Texts, w # <<>>
    PROVE  /\ Whole([exe |-> x, args |-> a]) \in Texts /\ JoinArg(a, w) \in Texts
           /\ Whole([exe |-> x, args |-> JoinArg(a, w)]) = (Whole([exe |-> x, args |-> a]) \o <<Blank>>) \o w
<1> DEFINE y == <<Blank>>
<1>1. /\ x \in Seq(Characters) /\ a \in Seq(Characters) /\ w \in Seq(Characters)
      /\ y \in Seq(Characters) /\ Blank \in Characters /\ y \in Texts
    BY NewlineChar DEF Texts
<1>2. /\ x \in Texts /\ a \in Texts /\ w \in Texts
      /\ x \o y \in Texts /\ y \o a \in Texts /\ a \o y \in Texts /\ y \o w \in Texts
    BY <1>1, TwoTexts
<1>3. x \o (y \o a) \in Texts /\ (a \o y) \o w \in Texts /\ (a \o y) \o w # <<>>
    <2>1. x \o (y \o a) \in Texts /\ (a \o y) \o w \in Texts
        BY <1>1, <1>2, TwoTexts
    <2>2. Len((a \o y) \o w) = Len(a \o y) + Len(w)
        BY <1>2, TwoTexts
    <2>3. Len(w) \in Nat /\ Len(w) >= 1 /\ Len(a \o y) \in Nat /\ Len((a \o y) \o w) >= 1
        BY <1>1, <1>2, <2>2, LineIs
    <2> QED
        BY <2>1, <2>3
<1>4. Whole([exe |-> x, args |-> a]) = x \o (IF a = <<>> THEN <<>> ELSE y \o a)
    BY DEF Whole
<1>5. JoinArg(a, w) = IF a = <<>> THEN w ELSE (a \o y) \o w
    <2>1. Append(a, Blank) = a \o y
        BY <1>1, AppendIsConcat
    <2>2. <<>> \o w = w
        BY <1>1, ConcatEmptySeq
    <2> QED
        BY <2>1, <2>2 DEF JoinArg
<1>6. Whole([exe |-> x, args |-> JoinArg(a, w)]) = x \o (y \o JoinArg(a, w))
    BY <1>3, <1>5 DEF Whole
<1>7. x \o <<>> = x
    BY <1>1, ConcatEmptySeq
<1> HIDE DEF y
<1>8. CASE a = <<>>
    <2>1. x \o (y \o w) = (x \o y) \o w
        BY <1>1, Grouped
    <2> QED
        BY <1>1, <1>4, <1>5, <1>6, <1>7, <1>8, <2>1 DEF y
<1>9. CASE a # <<>>
    <2> DEFINE z == y \o a
    <2>1. z \in Texts
        BY <1>2
    <2>2. y \o ((a \o y) \o w) = ((y \o a) \o y) \o w
        <3>1. \A c, d \in Texts : y \o ((a \o c) \o d) = ((y \o a) \o c) \o d
            BY <1>1, <1>2, GroupedTwice
        <3> QED
            BY <1>1, <1>2, <3>1
    <2> HIDE DEF z
    <2>3. x \o ((z \o y) \o w) = ((x \o z) \o y) \o w
        <3>1. \A c, d \in Texts : x \o ((z \o c) \o d) = ((x \o z) \o c) \o d
            BY <1>2, <2>1, GroupedTwice
        <3> QED
            BY <1>1, <1>2, <3>1
    <2>4. x \o (y \o ((a \o y) \o w)) = ((x \o (y \o a)) \o y) \o w
        BY <2>2, <2>3 DEF z
    <2> QED
        BY <1>3, <1>4, <1>5, <1>6, <1>9, <2>4 DEF y
<1> QED
    BY <1>8, <1>9

LEMMA ArgTaken ==
    ASSUME NEW l \in Texts, NEW h \in 2..(Len(l) + 1), NEW q \in 2..h, NEW ps,
           NEW ws \in Seq(Texts), ws # <<>>, NEW x, NEW a,
           NEW cs \in Seq([exe : Texts, args : Texts]), AtArgs(l, q, h, ps, ws, x, a, cs)
    PROVE  \E e \in 2..h : AtArgs(l, e, h, ps, Tail(ws), x, JoinArg(a, Head(ws)), cs)
<1> DEFINE w == Head(ws)
           s == SqueezedTo(l, q)
           old == [exe |-> x, args |-> a]
           new == [exe |-> x, args |-> JoinArg(a, w)]
<1>1. /\ Apart(l, q) /\ Apart(l, h) /\ ~Apart(l, q - 1) /\ \A k \in q..(h - 1) : l[k] # Bar
      /\ CutUp(l, q, h - 1, Blank, ws)
      /\ Typed(cs) \in Texts /\ x \in Texts /\ a \in Texts
      /\ Typed(Append(cs, old)) = s /\ Commands(s, Len(cs) + 1)
    BY DEF AtArgs
<1>2. /\ Len(l) \in Nat /\ q \in Int /\ h \in Int /\ 2 <= q /\ q <= h /\ h <= Len(l) + 1
      /\ q \in 1..(Len(l) + 1) /\ h - 1 \in (q - 1)..Len(l)
    BY LineIs
<1>3. PICK b \in q..(h - 1) : \E e \in (b + 1)..((h - 1) + 1) :
         /\ w = SubSeq(l, b, e - 1)
         /\ \A k \in q..(b - 1) : l[k] \in {Blank, Blank}
         /\ \A k \in b..(e - 1) : l[k] # Blank
         /\ e <= h - 1 => l[e] \in {Blank, Blank}
         /\ CutUp(l, e, h - 1, Blank, Tail(ws))
    BY <1>1, <1>2, BlankCut
<1>4. PICK e \in (b + 1)..((h - 1) + 1) :
         /\ w = SubSeq(l, b, e - 1)
         /\ \A k \in q..(b - 1) : l[k] \in {Blank, Blank}
         /\ \A k \in b..(e - 1) : l[k] # Blank
         /\ e <= h - 1 => l[e] \in {Blank, Blank}
         /\ CutUp(l, e, h - 1, Blank, Tail(ws))
    BY <1>3
<1>5. /\ b \in Int /\ e \in Int /\ q <= b /\ b < e /\ e <= h /\ e \in 2..h
      /\ e - 1 \in b..(e - 1) /\ (e # h => e <= h - 1)
    BY <1>2
<1>6. WordAfter(l, q, b, e)
    <2>1. q \in 1..b /\ b \in 1..Len(l) /\ e \in (b + 1)..(Len(l) + 1)
        BY <1>2, <1>5
    <2>2. \A k \in q..(b - 1) : Apart(l, k)
        BY <1>4 DEF Apart
    <2>3. ASSUME NEW k \in b..(e - 1) PROVE ~Apart(l, k)
        <3>1. k \in q..(h - 1) /\ k \in 1..Len(l)
            BY <1>2, <1>5
        <3> QED
            BY <1>1, <1>4, <3>1, LineIs DEF Apart
    <2> QED
        BY <2>1, <2>2, <2>3 DEF WordAfter
<1>7. Apart(l, e) /\ ~Apart(l, e - 1) /\ \A k \in e..(h - 1) : l[k] # Bar
    <2>1. Apart(l, e)
        BY <1>1, <1>4, <1>5 DEF Apart
    <2>2. ~Apart(l, e - 1)
        BY <1>5, <1>6 DEF WordAfter
    <2>3. \A k \in e..(h - 1) : k \in q..(h - 1)
        BY <1>2, <1>5
    <2> QED
        BY <1>1, <2>1, <2>2, <2>3
<1>8. NoBar(w) /\ w \in Texts /\ w # <<>>
    <2>1. NoBar(SubSeq(l, b, e - 1))
        BY <1>6, WordIs
    <2> QED
        BY <1>4, <2>1 DEF NoBar
<1>9. Len(cs) \in Nat /\ Len(cs) + 1 \in Nat /\ Len(cs) + 1 # 0
    OBVIOUS
<1>10. s # <<>> /\ s \in Texts
    BY <1>1, <1>9, ShownOrNot DEF Commands
<1>11. /\ Whole(old) \in Texts /\ JoinArg(a, w) \in Texts
       /\ Whole(new) = (Whole(old) \o <<Blank>>) \o w
    BY <1>1, <1>8, WholeJoined
<1>12. SqueezedTo(l, e) = (s \o <<Blank>>) \o w
    <2>1. \A k \in q..(b - 1) : k \in q..(h - 1)
        BY <1>2, <1>5
    <2>2. Within(l, q, b)
        BY <1>1, <2>1 DEF Within
    <2>3. SqueezedTo(l, e) = (SqueezedTo(l, q) \o <<Blank>>) \o SubSeq(l, b, e - 1)
        <3>1. Apart(l, q) /\ SqueezedTo(l, q) # <<>>
            BY <1>1, <1>10
        <3> QED
            BY <1>6, <2>2, <3>1, BlankShown
    <2> QED
        BY <1>4, <2>3
<1> DEFINE p == Typed(cs) \o (IF cs = <<>> THEN <<>> ELSE <<Bar>>)
<1>13. p \in Texts /\ Typed(Append(cs, old)) = p \o Whole(old) /\ Typed(Append(cs, new)) = p \o Whole(new)
    <2>1. old \in [exe : Texts, args : Texts] /\ new \in [exe : Texts, args : Texts]
        BY <1>1, <1>11
    <2>2. (IF cs = <<>> THEN <<>> ELSE <<Bar>>) \in Texts
        BY NewlineChar DEF Texts
    <2> HIDE DEF old, new
    <2>3. p \in Texts
        BY <1>1, <2>2, TwoTexts
    <2> QED
        BY <2>1, <2>3, TypedMore
<1> HIDE DEF p, old, new, w
<1>14. p \o ((Whole(old) \o <<Blank>>) \o w) = ((p \o Whole(old)) \o <<Blank>>) \o w
    <2> DEFINE v == Whole(old)
               y == <<Blank>>
    <2>1. v \in Texts /\ y \in Texts /\ p \in Texts /\ w \in Texts
        BY <1>8, <1>11, <1>13, NewlineChar DEF Texts
    <2> HIDE DEF v, y
    <2>2. p \o ((v \o y) \o w) = ((p \o v) \o y) \o w
        <3>1. \A c, d \in Texts : p \o ((v \o c) \o d) = ((p \o v) \o c) \o d
            BY <2>1, GroupedTwice
        <3> QED
            BY <2>1, <3>1
    <2> QED
        BY <2>2 DEF v, y
<1>15. Typed(Append(cs, new)) = SqueezedTo(l, e)
    BY <1>1, <1>11, <1>12, <1>13, <1>14
<1>16. Commands(SqueezedTo(l, e), Len(cs) + 1)
    <2> HIDE DEF s
    <2> QED
        BY <1>1, <1>8, <1>10, <1>12, OneMoreCommand
<1>17. AtArgs(l, e, h, ps, Tail(ws), x, JoinArg(a, w), cs)
    <2>1. h \in 2..(Len(l) + 1) /\ CutUp(l, h, Len(l), Bar, ps) /\ (ps # <<>> => l[h] = Bar)
        BY DEF AtArgs
    <2> QED
        BY <1>1, <1>4, <1>5, <1>7, <1>11, <1>15, <1>16, <2>1 DEF AtArgs, new
<1> QED
    BY <1>5, <1>17 DEF w

LEMMA PartDone ==
    ASSUME NEW l \in Texts, NEW h \in 2..(Len(l) + 1), NEW q \in 2..h, NEW ps, NEW x, NEW a,
           NEW cs \in Seq([exe : Texts, args : Texts]), AtArgs(l, q, h, ps, <<>>, x, a, cs)
    PROVE  h \in 1..(Len(l) + 1) /\ AtPart(l, h, ps, Append(cs, [exe |-> x, args |-> a]))
<1> DEFINE c == [exe |-> x, args |-> a]
<1>1. /\ CutUp(l, q, h - 1, Blank, <<>>) /\ CutUp(l, h, Len(l), Bar, ps) /\ (ps # <<>> => l[h] = Bar)
      /\ x \in Texts /\ a \in Texts
      /\ Typed(Append(cs, c)) = SqueezedTo(l, q) /\ Commands(SqueezedTo(l, q), Len(cs) + 1)
    BY DEF AtArgs
<1>2. q \in Nat /\ h \in Nat /\ q <= h /\ h \in 1..(Len(l) + 1)
    BY LineIs
<1>3. \A k \in q..(h - 1) : l[k] \in {Blank, Blank}
    BY <1>1, NoneCut
<1>4. \A k \in q..(h - 1) : Apart(l, k)
    BY <1>3 DEF Apart
<1>5. SqueezedTo(l, h) = SqueezedTo(l, q)
    BY <1>2, <1>4, StillShown
<1>6. c \in [exe : Texts, args : Texts]
    BY <1>1
<1> HIDE DEF c
<1>7. Len(Append(cs, c)) = Len(cs) + 1
    BY <1>6, AppendIs
<1> QED
    BY <1>1, <1>2, <1>5, <1>7 DEF AtPart, c

LEMMA PartsDone ==
    ASSUME NEW l \in Texts, NEW q \in 1..(Len(l) + 1), NEW cs, AtPart(l, q, <<>>, cs)
    PROVE  Typed(cs) = Squeezed(l) /\ Count(Squeezed(l), Bar) = Len(cs)
<1>1. CutUp(l, q, Len(l), Bar, <<>>) /\ Typed(cs) = SqueezedTo(l, q) /\ Commands(SqueezedTo(l, q), Len(cs))
    BY DEF AtPart
<1>2. Len(l) \in Nat /\ q \in Nat /\ Len(l) + 1 \in Nat /\ q <= Len(l) + 1 /\ Len(l) + 1 - 1 = Len(l)
    BY LineIs
<1>3. \A k \in q..Len(l) : l[k] \in {Blank, Bar}
    BY <1>1, NoneCut
<1>4. \A k \in q..(Len(l) + 1 - 1) : Apart(l, k)
    BY <1>2, <1>3 DEF Apart
<1>5. SqueezedTo(l, Len(l) + 1) = SqueezedTo(l, q)
    BY <1>2, <1>4, StillShown
<1> QED
    BY <1>1, <1>5, SqueezedIs DEF Commands

LEMMA TooMany ==
    ASSUME NEW l \in Texts, NEW q \in 1..(Len(l) + 1), NEW ps, NEW cs, AtPart(l, q, ps, cs)
    PROVE  Count(Squeezed(l), Bar) >= Len(cs)
<1>1. SqueezedTo(l, q) \in Texts /\ Count(SqueezedTo(l, q), Bar) = Len(cs)
    BY DEF AtPart, Commands
<1>2. PICK t \in Texts : SqueezedTo(l, Len(l) + 1) = SqueezedTo(l, q) \o t
    BY ShownBegins
<1>3. Count(SqueezedTo(l, q), Bar) <= Count(SqueezedTo(l, q) \o t, Bar)
    BY <1>1, MoreCommands
<1> QED
    BY <1>1, <1>2, <1>3, SqueezedIs

LEMMA TooBig ==
    ASSUME NEW l \in Texts, Untabbed(l), NEW q \in 1..(Len(l) + 1), NEW ps \in Seq(Texts), ps # <<>>,
           NEW cs \in Seq([exe : Texts, args : Texts]), AtPart(l, q, ps, cs),
           Tokens(Trimmed(Head(ps)), Blank) # <<>>,
           Len(Head(Tokens(Trimmed(Head(ps)), Blank))) >= EXE_MAX
    PROVE  \E n \in DOMAIN Tokens(Squeezed(l), Bar) :
              Len(Head(Tokens(Tokens(Squeezed(l), Bar)[n], Blank))) >= EXE_MAX
<1> DEFINE w == Head(Tokens(Trimmed(Head(ps)), Blank))
           s == SqueezedTo(l, q)
<1>1. /\ CutUp(l, q, Len(l), Bar, ps) /\ Typed(cs) = s /\ Commands(s, Len(cs)) /\ s \in Texts
      /\ cs # <<>> => l[q] = Bar
    BY DEF AtPart, Commands
<1>2. PICK h \in 2..(Len(l) + 1) : \E b \in q..(h - 1) : \E e \in (b + 1)..h :
         WordAfter(l, q, b, e) /\ w = SubSeq(l, b, e - 1)
    BY <1>1, PartWord
<1> HIDE DEF w
<1>3. PICK b \in q..(h - 1) : \E e \in (b + 1)..h : WordAfter(l, q, b, e) /\ w = SubSeq(l, b, e - 1)
    BY <1>2
<1>4. PICK e \in (b + 1)..h : WordAfter(l, q, b, e) /\ w = SubSeq(l, b, e - 1)
    BY <1>3
<1>5. NoBar(w) /\ w \in Texts /\ w # <<>> /\ \A k \in 1..Len(w) : w[k] # Blank
    <2>1. LoneWord(SubSeq(l, b, e - 1))
        BY <1>4, WordIs
    <2> QED
        BY <1>4, <2>1 DEF LoneWord, NoBar
<1>6. s # <<>> => l[q] = Bar /\ Apart(l, q)
    BY <1>1, TypedNone DEF Apart
<1> HIDE DEF s
<1>7. \E u \in Texts : (u = <<>> \/ u[Len(u)] = Bar) /\ SqueezedTo(l, e) = u \o w
    <2>1. CASE s = <<>>
        <3>1. SqueezedTo(l, e) = w
            BY <1>4, <2>1, WordShown DEF s
        <3>2. <<>> \o w = w /\ <<>> \in Texts
            BY <1>5, ConcatEmptySeq DEF Texts
        <3> QED
            BY <3>1, <3>2
    <2>2. CASE s # <<>>
        <3>1. \E d \in {Bar, Blank} :
                 /\ SqueezedTo(l, e) = (s \o <<d>>) \o w
                 /\ l[q] = Bar => d = Bar
            BY <1>4, <1>6, <2>2, WordShown DEF s
        <3>2. SqueezedTo(l, e) = (s \o <<Bar>>) \o w
            BY <1>6, <2>2, <3>1
        <3>3. Append(s, Bar) = s \o <<Bar>>
            BY <1>1, NewlineChar, AppendIsConcat DEF Texts
        <3>4. Append(s, Bar) \in Texts /\ Append(s, Bar)[Len(Append(s, Bar))] = Bar
            BY <1>1, NewlineChar, OneMoreChar
        <3> QED
            BY <3>2, <3>3, <3>4
    <2> QED
        BY <2>1, <2>2
<1>8. PICK u \in Texts : (u = <<>> \/ u[Len(u)] = Bar) /\ SqueezedTo(l, e) = u \o w
    BY <1>7
<1>9. e \in 1..(Len(l) + 1)
    BY LineIs
<1>10. PICK t \in Texts : Squeezed(l) = (u \o w) \o t
    BY <1>8, <1>9, ShownBegins, SqueezedIs
<1>11. \E n \in DOMAIN Tokens((u \o w) \o t, Bar) :
          /\ Len(Head(Tokens(Tokens((u \o w) \o t, Bar)[n], Blank))) \in Nat
          /\ Len(Head(Tokens(Tokens((u \o w) \o t, Bar)[n], Blank))) >= Len(w)
    BY <1>5, <1>8, LongFirstWord
<1>12. PICK n \in DOMAIN Tokens(Squeezed(l), Bar) :
          /\ Len(Head(Tokens(Tokens(Squeezed(l), Bar)[n], Blank))) \in Nat
          /\ Len(Head(Tokens(Tokens(Squeezed(l), Bar)[n], Blank))) >= Len(w)
    BY <1>10, <1>11
<1>13. Len(w) \in Nat /\ Len(w) >= EXE_MAX /\ EXE_MAX \in Nat
    BY <1>5, ListSizes DEF Texts, w
<1> QED
    BY <1>12, <1>13

----------------------------------------------------------------------------
(* The steps of the loop.                                                  *)

LEMMA ShownStarts == ListInit => ShownInv
BY DEF ListInit, ShownInv

LEMMA TypeInputShows == ShownInv /\ TypeInput => ShownInv'
BY DEF TypeInput, ShownInv

LEMMA PromptShows == Prompt => ShownInv'
BY DEF Prompt, ShownInv

LEMMA ReadInputShows == ListInv' /\ ReadInput => ShownInv'
<1> SUFFICES ASSUME ListInv', ReadInput, Untabbed(input_buffer') PROVE ShownInv'
    BY DEF ShownInv
<1> DEFINE l == input_buffer'
<1>1. l \in Texts
    BY DEF ListInv, ListTypes
<1>2. \/ lpc' \in {"prompt", "exited"}
      \/ lpc' = "shown" /\ status' = "WARN_NO_CMDS"
      \/ lpc' = "part" /\ status' = "OK" /\ parts' = Tokens(Trimmed(l), Bar) /\ commands' = <<>>
    BY DEF ReadInput
<1>3. CASE lpc' \in {"prompt", "exited"}
    BY <1>3 DEF ShownInv
<1>4. CASE lpc' = "shown" /\ status' = "WARN_NO_CMDS"
    BY <1>4 DEF ShownInv, ShownSo
<1>5. CASE lpc' = "part" /\ status' = "OK" /\ parts' = Tokens(Trimmed(l), Bar) /\ commands' = <<>>
    <2>1. AtPart(l, 1, parts', commands')
        BY <1>1, <1>5, FirstPart
    <2>2. 1 \in 1..(Len(l) + 1)
        BY <1>1, LineIs
    <2> QED
        BY <1>5, <2>1, <2>2 DEF ShownInv
<1> QED
    BY <1>2, <1>3, <1>4, <1>5

LEMMA NextPartShows == ListInv /\ ShownInv /\ NextPart => ShownInv'
<1> SUFFICES ASSUME ListInv, ShownInv, NextPart, Untabbed(input_buffer') PROVE ShownInv'
    BY DEF ShownInv
<1> DEFINE l == input_buffer
           ws == Tokens(Trimmed(Head(parts)), Blank)
<1>1. /\ lpc = "part" /\ parts # <<>> /\ UNCHANGED <<input_buffer, commands>>
      /\ \/ /\ Len(commands) >= CMD_MAX /\ lpc' = "shown" /\ status' = "ERR_TOO_MANY_COMMANDS"
         \/ /\ ws = <<>> /\ parts' = Tail(parts) /\ UNCHANGED <<lpc, status>>
         \/ /\ ws # <<>> /\ Len(ws[1]) >= EXE_MAX
            /\ lpc' = "shown" /\ status' = "ERR_CMD_OR_ARGS_TOO_BIG"
         \/ /\ ws # <<>> /\ parts' = Tail(parts)
            /\ exe' = ws[1] /\ args' = <<>> /\ words' = Tail(ws) /\ lpc' = "args" /\ UNCHANGED status
    BY DEF NextPart, Refuse
<1>2. l \in Texts /\ parts \in Seq(Texts) /\ commands \in Seq([exe : Texts, args : Texts])
    BY DEF ListInv, ListTypes
<1>3. Untabbed(l)
    BY <1>1
<1>4. PICK q \in 1..(Len(l) + 1) : AtPart(l, q, parts, commands)
    BY <1>1, <1>3 DEF ShownInv
<1>5. status = "OK"
    BY <1>1, <1>3 DEF ShownInv
<1>6. ws[1] = Head(ws)
    OBVIOUS
<1> HIDE DEF ws
<1>7. CASE Len(commands) >= CMD_MAX /\ lpc' = "shown" /\ status' = "ERR_TOO_MANY_COMMANDS"
    <2>1. Count(Squeezed(l), Bar) >= Len(commands)
        BY <1>2, <1>4, TooMany
    <2> QED
        BY <1>1, <1>7, <2>1 DEF ShownInv, ShownSo
<1>8. CASE ws = <<>> /\ parts' = Tail(parts) /\ UNCHANGED <<lpc, status>>
    <2>1. \E h \in 1..(Len(l) + 1) : AtPart(l, h, Tail(parts), commands)
        BY <1>1, <1>2, <1>3, <1>4, <1>8, PartSkipped DEF ws
    <2> QED
        BY <1>1, <1>5, <1>8, <2>1 DEF ShownInv
<1>9. CASE /\ ws # <<>> /\ Len(ws[1]) >= EXE_MAX
           /\ lpc' = "shown" /\ status' = "ERR_CMD_OR_ARGS_TOO_BIG"
    <2>1. \E n \in DOMAIN Tokens(Squeezed(l), Bar) :
              Len(Head(Tokens(Tokens(Squeezed(l), Bar)[n], Blank))) >= EXE_MAX
        BY <1>1, <1>2, <1>3, <1>4, <1>6, <1>9, TooBig DEF ws
    <2> QED
        BY <1>1, <1>9, <2>1 DEF ShownInv, ShownSo
<1>10. CASE /\ ws # <<>> /\ parts' = Tail(parts)
            /\ exe' = ws[1] /\ args' = <<>> /\ words' = Tail(ws) /\ lpc' = "args" /\ UNCHANGED status
    <2>1. \E h \in 2..(Len(l) + 1) : \E e \in 2..h :
             AtArgs(l, e, h, Tail(parts), Tail(ws), Head(ws), <<>>, commands)
        BY <1>1, <1>2, <1>3, <1>4, <1>10, PartTaken DEF ws
    <2>2. \E h \in 2..(Len(l) + 1) : \E e \in 2..h :
             AtArgs(l, e, h, parts', words', exe', args', commands')
        BY <1>1, <1>6, <1>10, <2>1
    <2> QED
        BY <1>1, <1>5, <1>10, <2>2 DEF ShownInv
<1> QED
    BY <1>1, <1>7, <1>8, <1>9, <1>10

\* That an argument is refused would leave words (ListInv).
LEMMA NextArgShows == ListInv /\ ListInv' /\ ShownInv /\ NextArg => ShownInv'
<1> SUFFICES ASSUME ListInv, ListInv', ShownInv, NextArg, Untabbed(input_buffer') PROVE ShownInv'
    BY DEF ShownInv
<1> DEFINE l == input_buffer
<1>1. /\ lpc = "args" /\ words # <<>> /\ UNCHANGED <<input_buffer, parts, exe, commands>>
      /\ \/ lpc' = "shown" /\ words' = words
         \/ args' = JoinArg(args, Head(words)) /\ words' = Tail(words) /\ UNCHANGED <<lpc, status>>
    BY DEF NextArg, Refuse
<1>2. args' = JoinArg(args, Head(words)) /\ words' = Tail(words) /\ UNCHANGED <<lpc, status>>
    <2>1. lpc' # "args" => words' = <<>>
        BY DEF ListInv
    <2> QED
        BY <1>1, <2>1
<1>3. l \in Texts /\ words \in Seq(Texts) /\ commands \in Seq([exe : Texts, args : Texts])
    BY DEF ListInv, ListTypes
<1>4. Untabbed(l)
    BY <1>1
<1>5. status = "OK"
    BY <1>1, <1>4 DEF ShownInv
<1>6. PICK h \in 2..(Len(l) + 1) : \E q \in 2..h : AtArgs(l, q, h, parts, words, exe, args, commands)
    BY <1>1, <1>4 DEF ShownInv
<1>7. PICK q \in 2..h : AtArgs(l, q, h, parts, words, exe, args, commands)
    BY <1>6
<1>8. \E e \in 2..h : AtArgs(l, e, h, parts, Tail(words), exe, JoinArg(args, Head(words)), commands)
    BY <1>1, <1>3, <1>7, ArgTaken
<1>9. \E g \in 2..(Len(l) + 1) : \E e \in 2..g : AtArgs(l, e, g, parts', words', exe', args', commands')
    BY <1>1, <1>2, <1>8
<1> QED
    BY <1>1, <1>2, <1>5, <1>9 DEF ShownInv

LEMMA EndOfPartShows == ListInv /\ ShownInv /\ EndOfPart => ShownInv'
<1> SUFFICES ASSUME ListInv, ShownInv, EndOfPart, Untabbed(input_buffer') PROVE ShownInv'
    BY DEF ShownInv
<1> DEFINE l == input_buffer
<1>1. /\ lpc = "args" /\ words = <<>> /\ UNCHANGED <<input_buffer, parts, status>>
      /\ lpc' = "part" /\ commands' = Append(commands, [exe |-> exe, args |-> args])
    BY DEF EndOfPart
<1>2. l \in Texts /\ commands \in Seq([exe : Texts, args : Texts])
    BY DEF ListInv, ListTypes
<1>3. Untabbed(l)
    BY <1>1
<1>4. status = "OK"
    BY <1>1, <1>3 DEF ShownInv
<1>5. PICK h \in 2..(Len(l) + 1) : \E q \in 2..h : AtArgs(l, q, h, parts, words, exe, args, commands)
    BY <1>1, <1>3 DEF ShownInv
<1>6. PICK q \in 2..h : AtArgs(l, q, h, parts, <<>>, exe, args, commands)
    BY <1>1, <1>5
<1>7. h \in 1..(Len(l) + 1) /\ AtPart(l, h, parts, commands')
    BY <1>1, <1>2, <1>6, PartDone
<1> QED
    BY <1>1, <1>4, <1>7 DEF ShownInv

LEMMA EndOfPartsShows == ListInv /\ ShownInv /\ EndOfParts => ShownInv'
<1> SUFFICES ASSUME ListInv, ShownInv, EndOfParts, Untabbed(input_buffer') PROVE ShownInv'
    BY DEF ShownInv
<1> DEFINE l == input_buffer
<1>1. lpc = "part" /\ parts = <<>> /\ UNCHANGED <<input_buffer, commands, status>> /\ lpc' = "shown"
    BY DEF EndOfParts
<1>2. l \in Texts
    BY DEF ListInv, ListTypes
<1>3. status = "OK"
    BY <1>1 DEF ShownInv
<1>4. PICK q \in 1..(Len(l) + 1) : AtPart(l, q, <<>>, commands)
    BY <1>1 DEF ShownInv
<1>5. Typed(commands) = Squeezed(l) /\ Count(Squeezed(l), Bar) = Len(commands)
    BY <1>2, <1>4, PartsDone
<1> QED
    BY <1>1, <1>3, <1>5 DEF ShownInv, ShownSo

LEMMA ShownFits == ListInv /\ ShownInv => ShownAsTyped
<1> SUFFICES ASSUME ListInv, ShownInv, lpc = "shown",
                    \A i \in DOMAIN input_buffer : input_buffer[i] \notin {Tab, CR}
             PROVE  ShownAsTyped
    BY DEF ShownAsTyped
<1> DEFINE b == input_buffer
           l == Squeezed(b)
           firsts == {Head(Tokens(p, Blank)) : p \in {Tokens(l, Bar)[n] : n \in DOMAIN Tokens(l, Bar)}}
<1>1. b \in Texts /\ Len(commands) <= CMD_MAX /\ Len(commands) \in Nat /\ CMD_MAX \in Nat
    BY ListSizes DEF ListInv, ListTypes
<1>2. Untabbed(b)
    BY <1>1, LineIs DEF Untabbed
<1>3. ShownSo(b, commands, status)
    BY <1>2 DEF ShownInv
<1>4. l \in Texts
    <2>1. Len(b) + 1 \in Nat
        BY <1>1, LineIs
    <2> QED
        BY <1>1, <2>1, SqueezedIs, ShownIs
<1> HIDE DEF l
<1>5. Len(Tokens(l, Bar)) = Count(l, Bar) /\ Count(l, Bar) \in Nat
    BY <1>4, LineIs, TokensAre
<1>6. status = "OK" => Typed(commands) = l /\ Len(Tokens(l, Bar)) <= CMD_MAX
    BY <1>1, <1>3, <1>5 DEF ShownSo, l
<1>7. status = "ERR_TOO_MANY_COMMANDS" => Len(Tokens(l, Bar)) >= CMD_MAX
    BY <1>1, <1>3, <1>5 DEF ShownSo, l
<1>8. status = "ERR_CMD_OR_ARGS_TOO_BIG" => \E w \in firsts : Len(w) >= EXE_MAX
    <2> SUFFICES ASSUME status = "ERR_CMD_OR_ARGS_TOO_BIG" PROVE \E w \in firsts : Len(w) >= EXE_MAX
        OBVIOUS
    <2>1. PICK n \in DOMAIN Tokens(l, Bar) : Len(Head(Tokens(Tokens(l, Bar)[n], Blank))) >= EXE_MAX
        BY <1>3 DEF ShownSo, l
    <2>2. Head(Tokens(Tokens(l, Bar)[n], Blank)) \in firsts
        OBVIOUS
    <2> QED
        BY <2>1, <2>2
<1>9. Len(Tokens(l, Bar)) > CMD_MAX => status # "OK"
    BY <1>1, <1>5, <1>6
<1> QED
    BY <1>6, <1>7, <1>8, <1>9 DEF ShownAsTyped, l

LEMMA ListShows == ListInv /\ ListInv' /\ ShownInv /\ [ListNext]_lister => ShownInv'
<1> SUFFICES ASSUME ListInv, ListInv', ShownInv, [ListNext]_lister PROVE ShownInv'
    OBVIOUS
<1>1. CASE ReadInput
    BY <1>1, ReadInputShows
<1>2. CASE NextPart
    BY <1>2, NextPartShows
<1>3. CASE NextArg
    BY <1>3, NextArgShows
<1>4. CASE EndOfPart
    BY <1>4, EndOfPartShows
<1>5. CASE EndOfParts
    BY <1>5, EndOfPartsShows
<1>6. CASE TypeInput \/ Prompt
    BY <1>6, TypeInputShows, PromptShows
<1>7. CASE UNCHANGED lister
    BY <1>7 DEF lister, ShownInv
<1> QED
    BY <1>1, <1>2, <1>3, <1>4, <1>5, <1>6, <1>7 DEF ListNext

\* What build_cmd_list makes of a line, and main shows of it, is the line with
\* its gaps squeezed, and a line is refused only for its parts or first words.
THEOREM LineShown == ListSpec => []ShownAsTyped
<1>1. ListInit => ListInv /\ ShownInv
    BY ListStarts, ShownStarts
<1>2. ListInv /\ ShownInv /\ [ListNext]_lister => (ListInv /\ ShownInv)'
    BY ListKeeps, ListShows
<1>3. ListInv /\ ShownInv => ShownAsTyped
    BY ShownFits
<1> QED
    BY <1>1, <1>2, <1>3, PTL DEF ListSpec

=============================================================================
