------------------------------ MODULE CmdList ------------------------------
(***************************************************************************)
(* 3-shellp1: the loop of dsh_cli.c, which shows how it parses a line, and *)
(* build_cmd_list, which cuts a copy of the line at "|", trims the parts   *)
(* and copies the words of each into arrays: the first into exe, the       *)
(* others, joined by single blanks, into args.                             *)
(***************************************************************************)
EXTENDS Naturals, Sequences, LineChars

CONSTANTS Inputs,                       \* what users type in a line
          EXE_MAX, ARG_MAX, CMD_MAX     \* the sizes of the arrays

ExitLine == <<"e", "x", "i", "t">>
DragonLine == <<"d", "r", "a", "g", "o", "n">>
Newline == "nl"

ASSUME ListAssumption ==
    /\ EXE_MAX \in Nat \ {0} /\ ARG_MAX \in Nat \ {0} /\ CMD_MAX \in Nat \ {0}
    /\ \A l \in Inputs : l \in Seq(STRING) /\ \A i \in DOMAIN l : l[i] # Newline

VARIABLES
    lpc,            \* where the program is
    unread,         \* what fgets has not taken yet
    input_buffer,   \* what it took last
    parts,          \* the parts strtok_r has still to return
    words,          \* and the words of the part at hand
    exe, args,      \* the fields of the command at hand
    commands,       \* the commands that are complete
    status          \* parse_status

lister == <<lpc, unread, input_buffer, parts, words, exe, args, commands, status>>

ListInit ==
    /\ lpc = "prompt" /\ unread = <<>> /\ input_buffer = <<>>
    /\ parts = <<>> /\ words = <<>> /\ exe = <<>> /\ args = <<>>
    /\ commands = <<>> /\ status = "OK"

----------------------------------------------------------------------------
TypeInput ==
    /\ lpc = "prompt" /\ unread = <<>>
    /\ unread' \in {Append(l, Newline) : l \in Inputs}
    /\ UNCHANGED <<lpc, input_buffer, parts, words, exe, args, commands, status>>

\* Mistake: fgets is given a larger size.
WholeLine(s) == First(s, 1, {Newline})

\* How much of s fgets takes.
Chunk(s) == IF First(s, 1, {Newline}) < ARG_MAX THEN First(s, 1, {Newline}) ELSE ARG_MAX - 1

IsEmptyInput(l) == \A i \in DOMAIN l : l[i] \in {Blank, Tab}

\* The loop up to strtok_r, which knows the whole list of parts; the copy has
\* room for any line that was read.  A line of other white space is
\* WARN_NO_CMDS, of which main says nothing.
ReadInput ==
    /\ lpc = "prompt" /\ unread # <<>>
    /\ LET n == Chunk(unread)
           l == Tokens(SubSeq(unread, 1, n), Newline)
       IN  /\ unread' = SubSeq(unread, n + 1, Len(unread))
           /\ input_buffer' = IF l = <<>> THEN <<>> ELSE l[1]
    /\ IF input_buffer' = ExitLine THEN lpc' = "exited" /\ UNCHANGED <<parts, commands, status>>
       ELSE IF input_buffer' = DragonLine \/ IsEmptyInput(input_buffer')
       THEN UNCHANGED <<lpc, parts, commands, status>>
       ELSE /\ parts' = Tokens(Trimmed(input_buffer'), Bar)
            /\ commands' = <<>>
            /\ status' = IF Trimmed(input_buffer') = <<>> THEN "WARN_NO_CMDS" ELSE "OK"
            /\ lpc' = IF Trimmed(input_buffer') = <<>> THEN "shown" ELSE "part"
    /\ UNCHANGED <<words, exe, args>>

Refuse(r) == lpc' = "shown" /\ status' = r

\* The head of the loop, up to the copy of the first word.
NextPart ==
    /\ lpc = "part" /\ parts # <<>>
    /\ LET ws == Tokens(Trimmed(Head(parts)), Blank) IN
          \/ /\ Len(commands) >= CMD_MAX
             /\ Refuse("ERR_TOO_MANY_COMMANDS")
             /\ UNCHANGED <<parts, words, exe, args>>
          \/ /\ Len(commands) < CMD_MAX /\ ws = <<>>
             /\ parts' = Tail(parts)
             /\ UNCHANGED <<lpc, words, exe, args, status>>
          \/ /\ Len(commands) < CMD_MAX /\ ws # <<>> /\ Len(ws[1]) >= EXE_MAX
             /\ Refuse("ERR_CMD_OR_ARGS_TOO_BIG")
             /\ UNCHANGED <<parts, words, exe, args>>
          \/ /\ Len(commands) < CMD_MAX /\ ws # <<>> /\ Len(ws[1]) < EXE_MAX
             /\ parts' = Tail(parts)
             /\ exe' = ws[1] /\ args' = <<>> /\ words' = Tail(ws)
             /\ lpc' = "args"
             /\ UNCHANGED status
    /\ UNCHANGED <<unread, input_buffer, commands>>

\* Mistake: no blank between two arguments.
JoinTight(a, w) == a \o w

JoinArg(a, w) == (IF a = <<>> THEN a ELSE Append(a, Blank)) \o w

NextArg ==
    /\ lpc = "args" /\ words # <<>>
    /\ IF Len(args) + Len(Head(words)) + 2 > ARG_MAX
       THEN Refuse("ERR_CMD_OR_ARGS_TOO_BIG") /\ UNCHANGED <<words, args>>
       ELSE /\ args' = JoinArg(args, Head(words))
            /\ words' = Tail(words)
            /\ UNCHANGED <<lpc, status>>
    /\ UNCHANGED <<unread, input_buffer, parts, exe, commands>>

EndOfPart ==
    /\ lpc = "args" /\ words = <<>>
    /\ commands' = Append(commands, [exe |-> exe, args |-> args])
    /\ lpc' = "part"
    /\ UNCHANGED <<unread, input_buffer, parts, words, exe, args, status>>

EndOfParts ==
    /\ lpc = "part" /\ parts = <<>>
    /\ lpc' = "shown"
    /\ UNCHANGED <<unread, input_buffer, parts, words, exe, args, commands, status>>

\* display_command_info or a message; nothing for WARN_NO_CMDS and
\* ERR_CMD_OR_ARGS_TOO_BIG.  The next line overwrites everything but unread.
Prompt ==
    /\ lpc = "shown"
    /\ lpc' = "prompt" /\ input_buffer' = <<>>
    /\ parts' = <<>> /\ words' = <<>> /\ exe' = <<>> /\ args' = <<>>
    /\ commands' = <<>> /\ status' = "OK"
    /\ UNCHANGED unread

ListNext ==
    \/ TypeInput \/ ReadInput \/ NextPart \/ NextArg \/ EndOfPart \/ EndOfParts \/ Prompt

ListSpec == ListInit /\ [][ListNext]_lister

----------------------------------------------------------------------------
\* strcpy and strcat stay inside the arrays, their NUL included.  That the line
\* was read into ARG_MAX bytes is enough for args: the test of its size never
\* fires, and the only words that are too big are first words.
ListTypeOK ==
    /\ lpc \in {"prompt", "part", "args", "shown", "exited"}
    /\ Len(exe) < EXE_MAX /\ Len(args) < ARG_MAX /\ Len(commands) <= CMD_MAX
    /\ status = "ERR_CMD_OR_ARGS_TOO_BIG" => words = <<>>

Whole(c) == c.exe \o (IF c.args = <<>> THEN <<>> ELSE <<Blank>> \o c.args)

Typed(cs) ==
    LET f[n \in 0..Len(cs)] ==
            IF n = 0 THEN <<>> ELSE f[n - 1] \o (IF n = 1 THEN <<>> ELSE <<Bar>>) \o Whole(cs[n])
    IN  f[Len(cs)]

\* A line with each gap between two words made one character, a bar if there is
\* one in it.
Squeezed(l) ==
    LET gap(i) == i \notin DOMAIN l \/ l[i] \in {Blank, Bar}
        last(i) == CHOOSE j \in i..Len(l) : gap(j) /\ ~gap(j + 1) /\ \A k \in i..j : gap(k)
        at == {i \in DOMAIN l : ~gap(i) \/ (~gap(i - 1) /\ \E j \in i..Len(l) : ~gap(j))}
        m == [i \in DOMAIN l |-> IF i \notin at \/ ~gap(i) THEN l[i]
                                 ELSE IF \E k \in i..last(i) : l[k] = Bar THEN Bar ELSE Blank]
    IN  Kept(m, at)

\* What is shown of a line (tabs aside) is the line itself with its gaps
\* squeezed: no word is lost, joined, cut or moved to another command, and what
\* is shown would be parsed in the same way.  A line is refused only if it
\* leaves no room for its parts or one of its first words.
ShownAsTyped ==
    lpc = "shown" /\ (\A i \in DOMAIN input_buffer : input_buffer[i] \notin {Tab, CR}) =>
        LET l == Squeezed(input_buffer)
            firsts == {Head(Tokens(p, Blank)) : p \in {Tokens(l, Bar)[n] : n \in DOMAIN Tokens(l, Bar)}}
        IN  /\ status = "OK" => Typed(commands) = l
            /\ status = "ERR_CMD_OR_ARGS_TOO_BIG" => \E w \in firsts : Len(w) >= EXE_MAX
            /\ Len(Tokens(l, Bar)) > CMD_MAX => status # "OK"
            /\ status = "ERR_TOO_MANY_COMMANDS" => Len(Tokens(l, Bar)) >= CMD_MAX
=============================================================================
