----------------------------- MODULE ShellInput -----------------------------
(***************************************************************************)
(* The loops of 3-shellp2, 5-shellp3 and 6-shell-p4 as readers of their    *)
(* standard input, which they share with the programs they run: the shell  *)
(* reads ahead into the buffer of stdio, a program reads on where the      *)
(* descriptor stands, and a child whose execvp fails calls exit, which in  *)
(* a file moves the descriptor back by what it finds unread in its copy of *)
(* the buffer.                                                             *)
(*                                                                         *)
(* A line is its number in the script; of its text only matters what the   *)
(* loop makes of it.  A line of several commands is here what its first    *)
(* command is: the others do not have the standard input of the shell.     *)
(* All lines are of one length.                                            *)
(***************************************************************************)
EXTENDS Naturals, Sequences, FiniteSets, Functions

CONSTANTS Scripts,      \* what the shells are given: sequences of kinds of lines
          BlockLines,   \* the lines a read from a file or a pipe returns at most
          MaxTaken      \* bound on the lines a shell takes

\* "none" is refused or empty, "cr" a single carriage return, "exit " is exit
\* with something behind it, "nodir" a cd that fails.
Kinds == {"none", "cr", "cd", "nodir", "exit", "exit ", "dragon",
          "run", "reader", "unknown"}

ASSUME InputAssumption ==
    /\ Scripts \subseteq Seq(Kinds)
    /\ BlockLines \in Nat \ {0} /\ MaxTaken \in Nat

VARIABLES
    ipc, dsh, source,
    script,         \* what the standard input holds
    offset,         \* where its descriptor stands
    ahead,          \* the lines in the buffer of stdio
    now,            \* the line the shell is at
    cwd,            \* the line whose cd was the last to succeed
    taken,          \* the lines the shell has taken, each with its directory
    eaten           \* the lines programs have read

input == <<ipc, dsh, source, script, offset, ahead, now, cwd, taken, eaten>>

InputInit ==
    /\ ipc = "idle" /\ dsh = "p2" /\ source = "tty" /\ script = <<>>
    /\ offset = 0 /\ ahead = <<>> /\ now = 0 /\ cwd = 0
    /\ taken = <<>> /\ eaten = {}

----------------------------------------------------------------------------
\* What the loop of shell sh makes of a line: 3-shellp2 compares the line with
\* "exit", the others the first word, and only 5-shellp3 knows dragon.  With no
\* words at all argv[0] is NULL, which strcmp reads in 3-shellp2; the others
\* have a word that is no program.
Outcome(sh, k) ==
    CASE k = "exit " -> IF sh = "p2" THEN "unknown" ELSE "exit"
      [] k = "dragon" -> IF sh = "p3" THEN "none" ELSE "unknown"
      [] k = "cr" -> IF sh = "p2" THEN "crash" ELSE "unknown"
      [] k = "nodir" -> "none"
      [] OTHER -> k

StartShell ==
    /\ ipc = "idle"
    /\ dsh' \in {"p2", "p3", "p4"}
    /\ source' \in {"tty", "pipe", "file"}
    /\ script' \in Scripts
    /\ ipc' = "prompt"
    /\ UNCHANGED <<offset, ahead, now, cwd, taken, eaten>>

\* The lines read(2) may return.
Block ==
    LET rest == Len(script) - offset
        most == IF rest < BlockLines THEN rest ELSE BlockLines
    IN  CASE source = "tty" -> {1} [] source = "pipe" -> 1..most [] OTHER -> {most}

\* fgets with an empty buffer.
ReadAhead ==
    /\ ipc = "prompt"
    /\ ahead = <<>> /\ offset < Len(script)
    /\ \E n \in Block :
          /\ ahead' = [i \in 1..n |-> offset + i]
          /\ offset' = offset + n
    /\ UNCHANGED <<ipc, dsh, source, script, now, cwd, taken, eaten>>

\* Mistake: the result of fgets is not looked at.
IgnoreNull == FALSE

FgetsNull == ahead = <<>> /\ offset = Len(script)

EndOfScript ==
    /\ ipc = "prompt"
    /\ FgetsNull
    /\ ipc' = "ended"
    /\ UNCHANGED <<dsh, source, script, offset, ahead, now, cwd, taken, eaten>>

\* Mistake: cd is done in a child.
ChildDir(o, l) == cwd

NewDir(o, l) == IF o = "cd" THEN l ELSE cwd

\* A line is read, parsed and, if it is built in, done.
TakeLine ==
    /\ ipc = "prompt"
    /\ ahead # <<>> /\ Len(taken) < MaxTaken
    /\ now' = Head(ahead)
    /\ ahead' = Tail(ahead)
    /\ taken' = Append(taken, [line |-> now', cwd |-> cwd])
    /\ LET o == Outcome(dsh, script[now']) IN
          /\ cwd' = NewDir(o, now')
          /\ ipc' = CASE o \in {"exit", "crash"} -> "ended" [] o \in {"cd", "none"} -> "prompt"
                      [] OTHER -> "fork"
    /\ UNCHANGED <<dsh, source, script, offset, eaten>>

\* fork may fail, which 3-shellp2 takes for the end.
ForkChild ==
    /\ ipc = "fork"
    /\ ipc' \in {"child", IF dsh = "p2" THEN "ended" ELSE "prompt"}
    /\ UNCHANGED <<dsh, source, script, offset, ahead, now, cwd, taken, eaten>>

InChild(k) == ipc = "child" /\ Outcome(dsh, script[now]) = k /\ ipc' = "prompt"

\* The shell waits for a program that leaves the input alone.
ProgramEnds ==
    /\ InChild("run")
    /\ UNCHANGED <<dsh, source, script, offset, ahead, now, cwd, taken, eaten>>

\* Or for one that reads some of it first.
ReaderEnds ==
    /\ InChild("reader")
    /\ offset' \in offset..Len(script)
    /\ eaten' = eaten \cup (offset + 1)..offset'
    /\ UNCHANGED <<dsh, source, script, ahead, now, cwd, taken>>

\* execvp fails and the child exits; lseek refuses a pipe, a terminal and a
\* position before the beginning.
ExitSeeksBack ==
    /\ InChild("unknown")
    /\ offset' = IF source = "file" /\ Len(ahead) <= offset THEN offset - Len(ahead) ELSE offset
    /\ UNCHANGED <<dsh, source, script, ahead, now, cwd, taken, eaten>>

InputStep ==
    \/ ReadAhead \/ EndOfScript \/ TakeLine \/ ForkChild
    \/ ProgramEnds \/ ReaderEnds \/ ExitSeeksBack

InputNext == StartShell \/ InputStep

InputSpec == InputInit /\ [][InputNext]_input

----------------------------------------------------------------------------
Lines == DOMAIN script
TakenLines == [i \in DOMAIN taken |-> taken[i].line]

\* The lines at which a child calls exit.
Unknown == {l \in Lines : Outcome(dsh, script[l]) = "unknown"}

\* However the shell and its programs share the input, no line is lost: what the
\* descriptor has passed was taken, was read by a program or is in the buffer.
\* And, a file with an unknown command in it aside, each line has one reader:
\* the shell takes the lines no program has read, once and in the order of the
\* script, and each in the directory of the last cd before it.
EveryLineOnce ==
    /\ 1..offset \subseteq Range(TakenLines) \cup eaten \cup Range(ahead)
    /\ \/ source = "file" /\ Unknown # {}
       \/ /\ \A i, k \in DOMAIN taken : i < k => taken[i].line < taken[k].line
          /\ eaten \cap (Range(TakenLines) \cup Range(ahead)) = {}
          /\ \A i \in DOMAIN taken :
                LET cds == {l \in 1..(taken[i].line - 1) \ eaten : script[l] = "cd"}
                IN  taken[i].cwd \in cds \cup {0} /\ \A l \in cds : l <= taken[i].cwd

\* The shell comes to the end of the script, a file with two unknown commands
\* aside, where it may read the same lines for ever.
ScriptEnds ==
    ipc = "prompt" /\ (source # "file" \/ Cardinality(Unknown) < 2) ~> ipc = "ended"
=============================================================================
