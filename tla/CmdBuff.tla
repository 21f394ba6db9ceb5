------------------------------ MODULE CmdBuff ------------------------------
(***************************************************************************)
(* The parsers of three shells: build_cmd_buff of 3-shellp2, and           *)
(* build_cmd_buff under build_cmd_list of 5-shellp3 and 6-shell-p4.        *)
(*                                                                         *)
(* They work in the buffer of the line: a word is a pointer into it, and   *)
(* it ends at a NUL the parser writes over the character behind it.  strtok*)
(* cuts the line at "|" in the same way before the words of a command are  *)
(* looked for.  A pointer is a position; the letters of a word all look    *)
(* alike.                                                                  *)
(***************************************************************************)
EXTENDS Naturals, Sequences, FiniteSets, LineChars

CONSTANTS TypedLines,   \* what users type, as sequences of characters
          MAX_CMDS      \* CMD_MAX

Chars == {"x", Blank, Tab, CR, Quote, Bar, "<", ">"}

ASSUME LineAssumption ==
    /\ TypedLines \subseteq Seq(Chars)
    /\ MAX_CMDS \in Nat \ {0}

ARGV_MAX == MAX_CMDS + 1

VARIABLES
    shell,      \* whose parser runs
    line,       \* what was typed
    buf,        \* the buffer, which ends with a NUL
    save,       \* where strtok goes on
    ptr,        \* where build_cmd_buff goes on
    argv,       \* the pointers stored so far (tokens of 5-shellp3)
    cmd,        \* 5-shellp3: what its second loop has made of them
    clist,      \* the commands that are complete
    ppc, rc

parser == <<shell, line, buf, save, ptr, argv, cmd, clist, ppc, rc>>

NoCmd == [next |-> 1, argv |-> <<>>, in |-> 0, out |-> 0, app |-> 0]

ParserInit ==
    /\ shell = "p2" /\ line = <<>> /\ buf = <<NUL>>
    /\ save = 1 /\ ptr = 1
    /\ argv = <<>> /\ cmd = NoCmd /\ clist = <<>>
    /\ ppc = "idle" /\ rc = "OK"

----------------------------------------------------------------------------
(* Scanning *)

Cut(b, at) == [i \in DOMAIN b |-> IF i \in at THEN NUL ELSE b[i]]

\* A quote at p opens a quoted word.
Opens(b, p) == b[p] = Quote

\* One turn of the loop of 3-shellp2, at the word that starts at p: where the
\* word starts, which characters become NUL, and where the next turn starts.
\* A quote ends at the next quote, another word at the next white space.
Scan2(b, p) ==
    LET s == IF Opens(b, p) THEN p + 1 ELSE p
        e == First(b, s, IF Opens(b, p) THEN {Quote, NUL} ELSE IsSpace \cup {NUL})
    IN  [start |-> s, cut |-> {e}, next |-> IF b[e] = NUL THEN e ELSE e + 1]

\* 5-shellp3: behind a closing quote one more character is made NUL, whatever
\* it is.
Scan3(b, p) ==
    LET w == Scan2(b, p)
        more == Opens(b, p) /\ b[w.next] # NUL
    IN  [w EXCEPT !.cut = IF more THEN @ \cup {w.next} ELSE @,
                  !.next = IF more THEN @ + 1 ELSE @]

\* Mistake: in_quotes is never set.
EndAtBlank(b, p) == First(b, p, {Blank, NUL})

\* The end of the word of 6-shell-p4 that starts at p: the first blank outside
\* quotes.
End4(b, p) ==
    LET quotes(i) == {k \in p..(i - 1) : b[k] = Quote}
        end(i) == b[i] = NUL \/ (b[i] = Blank /\ Cardinality(quotes(i)) % 2 = 0)
    IN  CHOOSE i \in p..Len(b) : end(i) /\ \A j \in p..(i - 1) : ~end(j)

\* Mistake: the blank behind a word is skipped, not made NUL.
QuotesOnly(b, p, e) == {i \in (p + 1)..e : b[i] = Quote}

\* The characters that become NUL: quotes, and the one at the end.
Cuts4(b, p, e) == {i \in (p + 1)..e : b[i] = Quote} \cup {e}

\* 6-shell-p4: a quote anywhere toggles in_quotes and becomes NUL.
Scan4(b, p) ==
    LET e == End4(b, p)
    IN  [start |-> IF Opens(b, p) THEN p + 1 ELSE p, cut |-> Cuts4(b, p, e),
         next |-> IF b[e] = NUL THEN e ELSE e + 1]

----------------------------------------------------------------------------
(* The steps of a parser *)

\* The loops of the shells refuse an empty line; that of 3-shellp2 also one of
\* blanks and tabs.
Refused(sh, l) == \A i \in DOMAIN l : sh = "p2" /\ l[i] \in {Blank, Tab}

TypeCommand ==
    /\ ppc = "idle"
    /\ shell' \in {"p2", "p3", "p4"}
    /\ line' \in TypedLines
    /\ ~Refused(shell', line')
    /\ buf' = Append(line', NUL)
    /\ ppc' = IF shell' = "p2" THEN "word" ELSE "list"
    /\ UNCHANGED <<save, ptr, argv, cmd, clist, rc>>

Return(r) == ppc' = "done" /\ rc' = r

ListFull == Len(clist) >= MAX_CMDS

\* The head of the loop of build_cmd_list: strtok skips bars, cuts the line at
\* the next one and returns what is between.
NextCommand ==
    /\ ppc = "list"
    /\ LET s == Skip(buf, save, {Bar})
           e == First(buf, s, {Bar, NUL})
       IN  \/ /\ buf[s] = NUL
              /\ Return("OK")
              /\ UNCHANGED <<buf, save, ptr>>
           \/ /\ buf[s] # NUL
              /\ buf' = Cut(buf, {e})
              /\ save' = IF buf[e] = NUL THEN e ELSE e + 1
              /\ ptr' = s
              /\ IF ListFull THEN Return("ERR_TOO_MANY_COMMANDS")
                 ELSE ppc' = "word" /\ UNCHANGED rc
    /\ argv' = <<>> /\ cmd' = NoCmd
    /\ UNCHANGED <<shell, line, clist>>

\* 3-shellp2 drops the words that do not fit.
Keep(p) == IF Len(argv) < ARGV_MAX - 1 THEN Append(argv, p) ELSE argv

Take(w) ==
    /\ buf' = Cut(buf, w.cut)
    /\ ptr' = w.next
    /\ UNCHANGED <<shell, line, save, cmd, clist>>

Word2 ==
    /\ ppc = "word" /\ shell = "p2"
    /\ LET p == Skip(buf, ptr, IsSpace) w == Scan2(buf, p) IN
          /\ buf[p] # NUL
          /\ argv' = Keep(w.start)
          /\ Take(w)
    /\ UNCHANGED <<ppc, rc>>

\* Mistake: token_count > CMD_ARGV_MAX.
TooManyTokens(n) == n > ARGV_MAX

TokensFull(n) == n >= ARGV_MAX

Word3 ==
    /\ ppc = "word" /\ shell = "p3"
    /\ LET p == Skip(buf, ptr, {Blank}) w == Scan3(buf, p) IN
          /\ buf[p] # NUL
          /\ argv' = Append(argv, w.start)
          /\ Take(w)
    /\ IF TokensFull(Len(argv')) THEN Return("ERR_TOO_MANY_COMMANDS") ELSE UNCHANGED <<ppc, rc>>

Word4 ==
    /\ ppc = "word" /\ shell = "p4"
    /\ LET p == Skip(buf, ptr, {Blank}) w == Scan4(buf, p) IN
          /\ buf[p] # NUL
          /\ argv' = Append(argv, w.start)
          /\ Take(w)
    /\ IF Len(argv') >= ARGV_MAX - 1 THEN Return("ERR_TOO_MANY_COMMANDS")
       ELSE UNCHANGED <<ppc, rc>>

\* The loop over the words ends at the NUL.
EndOfWords ==
    /\ ppc = "word"
    /\ buf[Skip(buf, ptr, IF shell = "p2" THEN IsSpace ELSE {Blank})] = NUL
    /\ \/ /\ shell = "p2"
          /\ clist' = <<[NoCmd EXCEPT !.argv = argv]>>
          /\ Return("OK")
       \/ /\ shell = "p3"
          /\ ppc' = "redir"
          /\ UNCHANGED <<clist, rc>>
       \/ /\ shell = "p4" /\ argv # <<>>
          /\ clist' = Append(clist, [NoCmd EXCEPT !.argv = argv])
          /\ ppc' = "list"
          /\ UNCHANGED rc
       \/ /\ shell = "p4" /\ argv = <<>>
          /\ Return("WARN_NO_CMDS")
          /\ UNCHANGED clist
    /\ UNCHANGED <<shell, line, buf, save, ptr, argv, cmd>>

\* The string a pointer stands for.
String(p) == SubSeq(buf, p, First(buf, p, {NUL}) - 1)

Field(s) == CASE s = <<">", ">">> -> "app" [] s = <<">">> -> "out" [] s = <<"<">> -> "in"
              [] OTHER -> "argv"

\* Mistake: tokens[i + 1], not tokens[++i].
OneToken(n) == n + 1

\* Mistake: the index stays at the operator.
SameToken(n) == n

\* An operator takes the token behind it.
TwoTokens(n) == n + 2

\* One turn of the second loop of 5-shellp3.
PlaceToken ==
    /\ ppc = "redir"
    /\ cmd.next <= Len(argv)
    /\ LET n == cmd.next
           f == Field(String(argv[n]))
       IN  cmd' = IF f = "argv" THEN [cmd EXCEPT !.argv = Append(@, argv[n]), !.next = n + 1]
                  ELSE IF n = Len(argv) THEN [cmd EXCEPT !.next = n + 1]
                  ELSE [cmd EXCEPT ![f] = argv[n + 1], !.next = TwoTokens(n)]
    /\ UNCHANGED <<shell, line, buf, save, ptr, argv, clist, ppc, rc>>

\* The rest of build_cmd_buff; malloc may fail.
EndOfTokens ==
    /\ ppc = "redir"
    /\ cmd.next > Len(argv)
    /\ \/ /\ cmd.argv = <<>>
          /\ Return("WARN_NO_CMDS")
          /\ UNCHANGED clist
       \/ /\ cmd.argv # <<>>
          /\ clist' = Append(clist, cmd)
          /\ ppc' = "list"
          /\ UNCHANGED rc
       \/ /\ cmd.argv # <<>>
          /\ Return("ERR_MEMORY")
          /\ UNCHANGED clist
    /\ UNCHANGED <<shell, line, buf, save, ptr, argv, cmd>>

ParseStep == NextCommand \/ Word2 \/ Word3 \/ Word4 \/ EndOfWords \/ PlaceToken \/ EndOfTokens

ParserNext == TypeCommand \/ ParseStep

ParserSpec == ParserInit /\ [][ParserNext]_parser

----------------------------------------------------------------------------
Pointers == DOMAIN buf

\* Every read and write is inside an array: the scans stop at the NUL of the
\* buffer, and argv[argc] = NULL has room behind the words whenever a parser
\* goes on to store it.
ParserTypeOK ==
    /\ Len(buf) = Len(line) + 1 /\ buf[Len(buf)] = NUL
    /\ save \in Pointers /\ ptr \in Pointers
    /\ argv \in Seq(Pointers) /\ cmd.argv \in Seq(Pointers)
    /\ Len(argv) <= ARGV_MAX
    /\ ppc \in {"word", "redir"} => Len(argv) <= ARGV_MAX - 1
    /\ Len(clist) <= MAX_CMDS
    /\ \A i \in DOMAIN clist : Len(clist[i].argv) <= ARGV_MAX - 1
    /\ ppc \in {"idle", "list", "word", "redir", "done"}

\* A pointer stays good while the parser goes on writing: each word ends
\* before the next one of its command begins, so no argument runs on into the
\* text behind it, quotes or not.
WordsApart ==
    \A i \in 1..(Len(argv) - 1) :
        argv[i] < argv[i + 1] /\ First(buf, argv[i], {NUL}) < argv[i + 1]

----------------------------------------------------------------------------
(* What a line means, said without a buffer: for lines in which a pair of  *)
(* quotes, if any, encloses a whole word.                                  *)

Delims == IF shell = "p2" THEN {Blank} ELSE {Blank, Bar}

InQuotes(i) == Cardinality({k \in 1..(i - 1) : line[k] = Quote}) % 2 = 1

Sep(i) == i \notin DOMAIN line \/ (line[i] \in Delims /\ ~InQuotes(i))

WellQuoted ==
    /\ ~InQuotes(Len(line) + 1)
    /\ \A i \in DOMAIN line :
          /\ line[i] \notin {Tab, CR, "<", ">"}
          /\ line[i] = Bar => ~InQuotes(i)
          /\ line[i] = Quote => Sep(IF InQuotes(i) THEN i + 1 ELSE i - 1)

\* A word as its first position and the one behind its last.
Word(i) ==
    LET e == CHOOSE j \in i..(Len(line) + 1) : Sep(j) /\ \A k \in i..(j - 1) : ~Sep(k)
    IN  IF line[i] = Quote THEN <<i + 1, e - 1>> ELSE <<i, e>>

\* The words that begin in lo..hi.
WordsIn(lo, hi) ==
    LET starts == InOrder({i \in lo..hi : ~Sep(i) /\ Sep(i - 1)})
    IN  [n \in DOMAIN starts |-> Word(starts[n])]

\* The parts of the line between bars, without the empty ones.
Parts ==
    IF shell = "p2" THEN << <<1, Len(line)>> >>
    ELSE LET bar(i) == i \notin DOMAIN line \/ line[i] = Bar
             starts == InOrder({i \in DOMAIN line : ~bar(i) /\ bar(i - 1)})
         IN  [n \in DOMAIN starts |-> <<starts[n],
                 (CHOOSE j \in starts[n]..(Len(line) + 1) :
                      bar(j) /\ \A k \in starts[n]..(j - 1) : ~bar(k)) - 1>>]

Meant == LET parts == Parts IN [n \in DOMAIN parts |-> WordsIn(parts[n][1], parts[n][2])]

Found == [n \in DOMAIN clist |->
             [i \in DOMAIN clist[n].argv |->
                 <<clist[n].argv[i], First(buf, clist[n].argv[i], {NUL})>>]]

\* The most words a command may have.
Limit == CASE shell = "p2" -> Len(line) [] shell = "p3" -> ARGV_MAX - 1 [] OTHER -> ARGV_MAX - 2

\* On lines whose quotes enclose whole words the three parsers, which scan in
\* three ways, find the words a reader of the line sees, in every command of
\* it, and refuse exactly the lines with too many commands, too many words or
\* a command without words.  3-shellp2 keeps the first words only.
WordsAsTyped ==
    ppc = "done" /\ rc # "ERR_MEMORY" /\ WellQuoted =>
        LET meant == Meant IN
        /\ rc = "OK" <=> /\ Len(meant) <= MAX_CMDS
                         /\ \A n \in DOMAIN meant : Len(meant[n]) \in 1..Limit
        /\ rc = "OK" =>
              Found = [n \in DOMAIN meant |->
                          IF shell = "p2" /\ Len(meant[n]) > ARGV_MAX - 1
                          THEN SubSeq(meant[n], 1, ARGV_MAX - 1) ELSE meant[n]]

\* 5-shellp3 on a line without quotes and tabs: a word is a file exactly if the
\* word before it is an operator and not itself a file; of several files for
\* one operator the last is taken; the other words are the arguments.
RedirectionsTaken ==
    ppc = "done" /\ rc = "OK" /\ shell = "p3" /\ (\A i \in DOMAIN line : line[i] \notin {Quote, Tab, CR}) =>
        \A n \in DOMAIN clist :
            LET ws == Meant[n]
                field(i) == Field(SubSeq(line, ws[i][1], ws[i][2] - 1))
                opens[i \in 0..Len(ws)] == i > 0 /\ field(i) # "argv" /\ ~opens[i - 1]
                files(f) == {ws[i][1] : i \in {j \in 2..Len(ws) : opens[j - 1] /\ field(j - 1) = f}}
                args == {ws[i][1] : i \in {j \in DOMAIN ws : ~opens[j] /\ ~opens[j - 1]}}
            IN  /\ {clist[n].argv[i] : i \in DOMAIN clist[n].argv} = args
                /\ \A f \in {"in", "out", "app"} :
                      /\ clist[n][f] = 0 <=> files(f) = {}
                      /\ files(f) # {} => clist[n][f] \in files(f)
                                          /\ \A x \in files(f) : x <= clist[n][f]

\* Parsing ends: each turn of a loop moves on, at the character behind a quote,
\* at a tab that ends no word and starts none, and at the end of the buffer.
ParsingEnds == ppc = "word" ~> ppc = "done"
=============================================================================
