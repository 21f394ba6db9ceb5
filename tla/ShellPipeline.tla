--------------------------- MODULE ShellPipeline ----------------------------
(***************************************************************************)
(* The local loop of 5-shellp3 (and of 6-shell-p4, which has the same      *)
(* control without redirections): the shell reads a line, makes the pipes, *)
(* forks one child per command, closes its own pipe ends and waits for its *)
(* children one after the other.  Between two system calls of the shell    *)
(* any child may run.                                                      *)
(*                                                                         *)
(* A command is a program and its redirections; of the programs only their *)
(* way with standard input and output matters.  What flows through a pipe  *)
(* is a number of items.  A pipe exists as long as some process, a child   *)
(* of an earlier line included, holds one of its ends.  fork copies all    *)
(* ends the shell holds, also those a failed line left open.               *)
(***************************************************************************)
EXTENDS Naturals, Sequences, FiniteSets, Functions

CONSTANTS Lines,        \* what the user types: sequences of commands
          Pipes, Pids,  \* identities of pipes and of children
          CmdMax,       \* CMD_MAX
          PipeSize,     \* items a pipe holds
          Items,        \* what "gen" writes and what an input file holds
          MaxLines,     \* bound on the lines typed
          MaxFaults     \* bound on the failing calls of the shell

Programs == {"gen", "yes", "cat", "head", "missing", "exit"}
Redirections == {"in", "out", "app", "nofile"}
Command == [prog : Programs, redir : SUBSET Redirections]

ASSUME PipelineAssumption ==
    /\ Lines \subseteq Seq(Command)
    /\ CmdMax \in Nat \ {0} /\ PipeSize \in Nat \ {0} /\ Items \in Nat
    /\ MaxLines \in Nat /\ MaxFaults \in Nat
    /\ \A x \in Pipes : x \notin {"terminal", "file"}

VARIABLES spc,          \* where the shell is
          clist,        \* cmd_list: the commands of the current line
          pipes, pids,  \* the local arrays of execute_pipeline
          waited,       \* how many of pids waitpid has returned for
          ends,         \* the pipe ends the shell holds
          kids,         \* kids[p]: child p
          data,         \* data[x]: the items in pipe x
          screen,       \* items the current line has put on the terminal, up to Items + 1
          typed, faults

vars == <<spc, clist, pipes, pids, waited, ends, kids, data, screen, typed, faults>>

\* st: "born" after fork, "run" after execvp, "zombie" after exit.  own: the
\* pipes of its line.  hand: an item read and not yet written.  left: items
\* still to generate or to read.  file: items left in the input file.
NoKid == [st |-> "none", prog |-> "", redir |-> {}, in |-> "terminal", out |-> "terminal",
          own |-> {}, ends |-> {}, hand |-> 0, left |-> 0, file |-> 0]

Init ==
    /\ spc = "prompt"
    /\ clist = <<>> /\ pipes = <<>> /\ pids = <<>> /\ waited = 0
    /\ ends = {}
    /\ kids = [p \in Pids |-> NoKid]
    /\ data = [x \in Pipes |-> 0]
    /\ screen = 0 /\ typed = 0 /\ faults = 0

Both(xs) == xs \X {"r", "w"}
Held == ends \cup UNION {kids[p].ends : p \in Pids}
FreePipes == {x \in Pipes : {<<x, "r">>, <<x, "w">>} \cap Held = {}}
FreePids == {p \in Pids : kids[p].st = "none"}

Fails == faults < MaxFaults /\ faults' = faults + 1
Works == UNCHANGED faults

\* The items of a pipe go with its last end.
Drain ==
    data' = [x \in Pipes |-> IF {<<x, "r">>, <<x, "w">>} \cap Held' = {} THEN 0 ELSE data[x]]

----------------------------------------------------------------------------
(* The shell *)

\* Mistake: num > CMD_MAX, one command too late.
OneTooMany(l) == Len(l) > CmdMax + 1

\* build_cmd_list refuses a line with more commands.
TooMany(l) == Len(l) > CmdMax

\* exit is built in when it is the only command.
IsExit(l) == Len(l) = 1 /\ l[1].prog = "exit"

\* One line is read and parsed.  The loop looks for two of the parser's error
\* codes only: when malloc fails at some command, the commands before it run.
ReadLine ==
    /\ spc = "prompt"
    /\ typed < MaxLines
    /\ typed' = typed + 1
    /\ screen' = 0
    /\ \E l \in Lines :
          \/ /\ Works
             /\ clist' = IF TooMany(l) THEN <<>> ELSE l
             /\ spc' = IF IsExit(l) THEN "exited"
                       ELSE IF clist' = <<>> THEN "prompt" ELSE "pipe"
          \/ /\ Fails
             /\ \E k \in 0..(Len(l) - 1) :
                   /\ k < CmdMax
                   /\ clist' = SubSeq(l, 1, k)
                   /\ spc' = IF IsExit(clist') THEN "exited"
                             ELSE IF k = 0 THEN "prompt" ELSE "pipe"
    /\ pipes' = <<>> /\ pids' = <<>> /\ waited' = 0
    /\ UNCHANGED <<ends, kids, data>>

\* ^D at the prompt.
EndOfInput ==
    /\ spc = "prompt"
    /\ spc' = "exited"
    /\ UNCHANGED <<clist, pipes, pids, waited, ends, kids, data, screen, typed, faults>>

\* pipe(pipes[i]); no descriptor left is a failure like any other.
MakePipe ==
    /\ spc = "pipe"
    /\ Len(pipes) < Len(clist) - 1
    /\ \/ /\ Works
          /\ FreePipes # {}
          /\ LET x == CHOOSE x \in FreePipes : TRUE IN
                pipes' = Append(pipes, x) /\ ends' = ends \cup Both({x})
          /\ UNCHANGED spc
       \/ /\ Fails \/ (Works /\ FreePipes = {})
          /\ spc' = "prompt"
          /\ UNCHANGED <<pipes, ends>>
    /\ UNCHANGED <<clist, pids, waited, kids, data, screen, typed>>

\* Mistake: every child reads the first pipe.
FirstPipe(i) == IF i > 1 THEN pipes[1] ELSE "terminal"

\* What dup2 makes the standard input of command i.
PipeBefore(i) == IF i > 1 THEN pipes[i - 1] ELSE "terminal"

\* What the child of command i is right after fork.
Child(i) ==
    [NoKid EXCEPT !.st = "born", !.prog = clist[i].prog, !.redir = clist[i].redir,
                  !.in = PipeBefore(i),
                  !.out = IF i < Len(clist) THEN pipes[i] ELSE "terminal",
                  !.own = Range(pipes), !.ends = ends]

Fork ==
    /\ spc = "pipe"
    /\ Len(pipes) = Len(clist) - 1
    /\ Len(pids) < Len(clist)
    /\ \/ /\ Works
          /\ FreePids # {}
          /\ LET p == CHOOSE p \in FreePids : TRUE IN
                /\ pids' = Append(pids, p)
                /\ kids' = [kids EXCEPT ![p] = Child(Len(pids) + 1)]
          /\ UNCHANGED spc
       \/ /\ Fails \/ (Works /\ FreePids = {})
          /\ spc' = "prompt"
          /\ UNCHANGED <<pids, kids>>
    /\ UNCHANGED <<clist, pipes, waited, ends, data, screen, typed>>

\* Mistake: the shell closes the write ends only.
WriteEnds(ps) == Range(ps) \X {"w"}

\* The ends the shell closes once all children are forked.
EndsOf(ps) == Both(Range(ps))

CloseEnds ==
    /\ spc = "pipe"
    /\ Len(pids) = Len(clist)
    /\ ends' = ends \ EndsOf(pipes)
    /\ spc' = "wait"
    /\ UNCHANGED <<clist, pipes, pids, waited, kids, screen, typed, faults>>
    /\ Drain

\* waitpid(pids[i]) returns once that child has exited.
Wait ==
    /\ spc = "wait"
    /\ kids[pids[waited + 1]].st = "zombie"
    /\ kids' = [kids EXCEPT ![pids[waited + 1]] = NoKid]
    /\ waited' = waited + 1
    /\ spc' = IF waited' = Len(pids) THEN "prompt" ELSE "wait"
    /\ UNCHANGED <<clist, pipes, pids, ends, data, screen, typed, faults>>

----------------------------------------------------------------------------
(* The children *)

\* What the child finds in redir_info: strstr cuts the string behind the first
\* file name it looks for, so only one of the redirections is seen.
Seen(r) ==
    IF "in" \in r THEN {"in"} ELSE IF "out" \in r THEN {"out"} ELSE r

\* Mistake: the child closes nothing after dup2.
KeepEnds(k) == k.ends

\* The pipe ends still open after both dup2 and the close loop.
EndsLeft(k) ==
    (k.ends \ Both(k.own))
        \cup (IF k.in \in Pipes THEN {<<k.in, "r">>} ELSE {})
        \cup (IF k.out \in Pipes THEN {<<k.out, "w">>} ELSE {})

\* What remains of a child that exits or is killed.
Zombie == [NoKid EXCEPT !.st = "zombie"]

\* dup2, close, the redirections and execvp.  An input file that cannot be
\* opened and a program that is not found end the child.
Exec(p) ==
    LET k == kids[p]
        seen == Seen(k.redir)
        new == [k EXCEPT !.st = "run",
                         !.in = IF "in" \in seen THEN "file" ELSE k.in,
                         !.out = IF seen \cap {"out", "app"} # {} THEN "file" ELSE k.out,
                         !.file = IF "in" \in seen THEN Items ELSE 0,
                         !.left = CASE k.prog = "gen" -> Items [] k.prog = "head" -> 1
                                    [] OTHER -> 0]
    IN
    /\ k.st = "born"
    /\ kids' = [kids EXCEPT ![p] =
          IF k.prog \in {"missing", "exit"} \/ "nofile" \in seen THEN Zombie
          ELSE [new EXCEPT !.ends = EndsLeft(new)]]
    /\ UNCHANGED <<spc, clist, pipes, pids, waited, ends, screen, typed, faults>>
    /\ Drain

Running(p, progs) == kids[p].st = "run" /\ kids[p].prog \in progs

\* "cat" and "head" read an item, from a file or from a pipe.
Take(p) ==
    LET k == kids[p] IN
    /\ Running(p, {"cat", "head"})
    /\ k.hand = 0
    /\ k.prog = "head" => k.left > 0
    /\ \/ /\ k.in = "file" /\ k.file > 0
          /\ kids' = [kids EXCEPT ![p].hand = 1, ![p].file = @ - 1,
                                  ![p].left = IF k.prog = "head" THEN @ - 1 ELSE @]
          /\ UNCHANGED data
       \/ /\ k.in \in Pipes /\ data[k.in] > 0
          /\ kids' = [kids EXCEPT ![p].hand = 1,
                                  ![p].left = IF k.prog = "head" THEN @ - 1 ELSE @]
          /\ data' = [data EXCEPT ![k.in] = @ - 1]
    /\ UNCHANGED <<spc, clist, pipes, pids, waited, ends, screen, typed, faults>>

HasItem(k) == k.hand = 1 \/ k.prog = "yes" \/ (k.prog = "gen" /\ k.left > 0)

Written(k) == [k EXCEPT !.hand = 0, !.left = IF k.prog = "gen" THEN @ - 1 ELSE @]

\* An item is written; without a reader SIGPIPE kills the writer.
Give(p) ==
    LET k == kids[p] IN
    /\ Running(p, {"gen", "yes", "cat", "head"})
    /\ HasItem(k)
    /\ UNCHANGED <<spc, clist, pipes, pids, waited, ends, typed, faults>>
    /\ \/ /\ k.out = "terminal"
          /\ screen' = IF screen > Items THEN screen ELSE screen + 1
          /\ kids' = [kids EXCEPT ![p] = Written(k)]
          /\ UNCHANGED data
       \/ /\ k.out = "file"
          /\ kids' = [kids EXCEPT ![p] = Written(k)]
          /\ UNCHANGED <<screen, data>>
       \/ /\ k.out \in Pipes
          /\ <<k.out, "r">> \in Held
          /\ data[k.out] < PipeSize
          /\ data' = [data EXCEPT ![k.out] = @ + 1]
          /\ kids' = [kids EXCEPT ![p] = Written(k)]
          /\ UNCHANGED screen
       \/ /\ k.out \in Pipes
          /\ <<k.out, "r">> \notin Held
          /\ kids' = [kids EXCEPT ![p] = Zombie]
          /\ UNCHANGED screen
          /\ Drain

\* read returns 0: the file is at its end, or the pipe is empty and nobody,
\* the shell included, holds its write end.
AtEnd(k) ==
    \/ k.in = "file" /\ k.file = 0
    \/ k.in \in Pipes /\ data[k.in] = 0 /\ <<k.in, "w">> \notin Held

\* The program has done its work and exits.
Finish(p) ==
    LET k == kids[p] IN
    /\ k.st = "run"
    /\ ~HasItem(k)
    /\ \/ k.prog = "gen"
       \/ k.prog = "head" /\ k.left = 0
       \/ k.prog \in {"cat", "head"} /\ AtEnd(k)
    /\ kids' = [kids EXCEPT ![p] = Zombie]
    /\ UNCHANGED <<spc, clist, pipes, pids, waited, ends, screen, typed, faults>>
    /\ Drain

----------------------------------------------------------------------------
ShellStep == MakePipe \/ Fork \/ CloseEnds \/ Wait
KidStep(p) == Exec(p) \/ Take(p) \/ Give(p) \/ Finish(p)

Next == ReadLine \/ EndOfInput \/ ShellStep \/ \E p \in Pids : KidStep(p)

Spec == Init /\ [][Next]_vars

\* The shell and every child keep being scheduled; the user need not type.
FairSpec == Spec /\ WF_vars(ShellStep) /\ \A p \in Pids : WF_vars(KidStep(p))

----------------------------------------------------------------------------
TypeOK ==
    /\ spc \in {"prompt", "pipe", "wait", "exited"}
    /\ Len(clist) <= CmdMax
    /\ Range(pipes) \subseteq Pipes /\ Range(pids) \subseteq Pids
    /\ waited \in 0..Len(pids)
    /\ Held \subseteq Both(Pipes)
    /\ \A x \in Pipes : data[x] \in 0..PipeSize
    /\ \A p \in Pids :
          /\ kids[p].st \in {"none", "born", "run", "zombie"}
          /\ kids[p].hand \in 0..1 /\ kids[p].left \in 0..(Items + 1)

\* When the shell prompts after a line in which no call failed, it holds no pipe
\* end and has no child left, running or zombie: lines do not add up to a lack
\* of descriptors or processes.
PromptIsClean ==
    spc = "prompt" /\ faults = 0 => ends = {} /\ \A p \in Pids : kids[p].st = "none"

\* What a line puts on the terminal if its commands run one after the other,
\* each on what the one before it wrote.
Reads(s, input) == IF "in" \in Seen(s.redir) THEN Items ELSE input

Writes(s, input) ==
    CASE s.prog = "gen" -> Items
      [] s.prog = "yes" -> Items + 1
      [] s.prog = "cat" -> Reads(s, input)
      [] s.prog = "head" /\ Reads(s, input) > 0 -> 1
      [] OTHER -> 0

Passes(s, input) ==
    IF Seen(s.redir) \cap {"out", "app", "nofile"} # {} THEN 0 ELSE Writes(s, input)

Output(l) ==
    LET f[i \in 0..Len(l)] == IF i = 0 THEN 0 ELSE Passes(l[i], f[i - 1])
    IN  f[Len(l)]

\* However the children of a pipeline interleave, and although those upstream
\* of a "head" are killed in the middle of their work, the terminal shows what
\* the commands yield one after the other.
OutputIsComposed ==
    spc = "prompt" /\ faults = 0 => screen = Output(clist)

\* Every line comes back to the prompt, an endless writer in front of a reader
\* that stops early included: no child waits for the end of a pipe that is kept
\* open by the shell, by a sibling or by what a failed line has left behind.
\* The exception is the endless writer that is last because malloc failed behind
\* it.
EveryLineEnds ==
    spc \in {"pipe", "wait"} ~>
        spc \in {"prompt", "exited"} \/ clist[Len(clist)].prog = "yes"
=============================================================================
