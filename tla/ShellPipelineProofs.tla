------------------------ MODULE ShellPipelineProofs -------------------------
(***************************************************************************)
(* The safety of ShellPipeline for any lines, any number of pipes and      *)
(* children, and any interleaving of the children with the shell.          *)
(***************************************************************************)
EXTENDS ShellPipeline, NaturalFacts, SequenceTheorems, FiniteSetTheorems, TLAPS

----------------------------------------------------------------------------
(* The state the shell and its children can be in *)

Sources == Pipes \cup {"terminal", "file"}

Kid == [st : {"none", "born", "run", "zombie"}, prog : Programs \cup {""},
        redir : SUBSET Redirections, in : Sources, out : Sources,
        own : SUBSET Pipes, ends : SUBSET Both(Pipes),
        hand : 0..1, left : 0..(Items + 1), file : 0..Items]

\* Only "cat" and "head" have read an item when they write it.
Hands == \A p \in Pids : kids[p].prog = "gen" => kids[p].hand = 0

\* How far the shell is with its line.
Place ==
    /\ spc = "pipe" => clist # <<>> /\ waited = 0
    /\ spc = "wait" => waited < Len(pids)
    /\ Len(pids) <= Len(clist)

Stores ==
    /\ spc \in {"prompt", "pipe", "wait", "exited"}
    /\ clist \in Seq(Command) /\ Len(clist) <= CmdMax
    /\ pipes \in Seq(Pipes) /\ pids \in Seq(Pids)
    /\ waited \in 0..Len(pids)
    /\ ends \subseteq Both(Pipes)
    /\ kids \in [Pids -> Kid]
    /\ data \in [Pipes -> 0..PipeSize]

IInv == Stores /\ Place /\ Hands

LEMMA RangeHolds ==
    ASSUME NEW S, NEW s \in Seq(S)
    PROVE  /\ Range(s) \subseteq S
           /\ \A i \in 1..Len(s) : s[i] \in Range(s)
           /\ \A x \in Range(s) : \E i \in 1..Len(s) : x = s[i]
<1>1. DOMAIN s = 1..Len(s) /\ \A i \in 1..Len(s) : s[i] \in S
    OBVIOUS
<1>2. \A x \in Range(s) : x \in S
    BY <1>1 DEF Range
<1>3. \A i \in 1..Len(s) : s[i] \in Range(s)
    BY <1>1 DEF Range
<1>4. \A x \in Range(s) : \E i \in 1..Len(s) : x = s[i]
    BY <1>1 DEF Range
<1>5. Range(s) \subseteq S
    BY <1>2, Zenon
<1> QED
    BY <1>3, <1>4, <1>5, Zenon

LEMMA KidsAreKids == NoKid \in Kid /\ Zombie \in Kid
<1>1. 0 \in 0..1 /\ 0 \in 0..(Items + 1) /\ 0 \in 0..Items
    BY PipelineAssumption
<1>2. NoKid \in Kid
    BY <1>1 DEF Kid, NoKid, Sources
<1>3. Zombie \in Kid
    BY <1>2 DEF Zombie, Kid
<1> QED
    BY <1>2, <1>3

LEMMA HeldArePipes == ASSUME Stores PROVE Held \subseteq Both(Pipes)
<1>1. \A p \in Pids : kids[p].ends \subseteq Both(Pipes)
    BY DEF Stores, Kid
<1> QED
    BY <1>1 DEF Stores, Held

LEMMA DrainKeeps ==
    ASSUME Stores, Drain PROVE data' \in [Pipes -> 0..PipeSize]
BY PipelineAssumption DEF Stores, Drain

LEMMA InvInit == Init => IInv
<1> SUFFICES ASSUME Init PROVE IInv
    OBVIOUS
<1>1. Stores
    <2>1. <<>> \in Seq(Command) /\ <<>> \in Seq(Pipes) /\ <<>> \in Seq(Pids) /\ Len(<<>>) = 0
        OBVIOUS
    <2> QED
        BY <2>1, KidsAreKids, PipelineAssumption DEF Init, Stores
<1>2. Hands
    BY DEF Init, Hands, NoKid
<1>3. Place
    BY DEF Init, Place
<1> QED
    BY <1>1, <1>2, <1>3 DEF IInv

LEMMA ReadLineKeepsInv == ASSUME IInv, ReadLine PROVE IInv'
<1> USE DEF ReadLine
<1>1. PICK l \in Lines :
         \/ /\ clist' = IF TooMany(l) THEN <<>> ELSE l
            /\ spc' = IF IsExit(l) THEN "exited" ELSE IF clist' = <<>> THEN "prompt" ELSE "pipe"
         \/ \E k \in 0..(Len(l) - 1) :
               /\ k < CmdMax
               /\ clist' = SubSeq(l, 1, k)
               /\ spc' = IF IsExit(clist') THEN "exited" ELSE IF k = 0 THEN "prompt" ELSE "pipe"
    OBVIOUS
<1>2. l \in Seq(Command) /\ Len(l) \in Nat /\ CmdMax \in Nat
    BY PipelineAssumption
<1>3. /\ clist' \in Seq(Command) /\ Len(clist') <= CmdMax
      /\ spc' \in {"exited", "prompt", "pipe"}
      /\ spc' = "pipe" => clist' # <<>>
    <2>1. CASE /\ clist' = IF TooMany(l) THEN <<>> ELSE l
               /\ spc' = IF IsExit(l) THEN "exited" ELSE IF clist' = <<>> THEN "prompt" ELSE "pipe"
        BY <1>2, <2>1 DEF TooMany
    <2>2. ASSUME NEW k \in 0..(Len(l) - 1), k < CmdMax, clist' = SubSeq(l, 1, k),
                 spc' = IF IsExit(clist') THEN "exited" ELSE IF k = 0 THEN "prompt" ELSE "pipe"
          PROVE  <1>3
        <3>1. SubSeq(l, 1, k) \in Seq(Command) /\ Len(SubSeq(l, 1, k)) = k
            BY <1>2
        <3> QED
            BY <1>2, <2>2, <3>1
    <2> QED
        BY <1>1, <2>1, <2>2
<1> QED
    BY <1>2, <1>3 DEF IInv, Stores, Place, Hands

LEMMA EndOfInputKeepsInv == ASSUME IInv, EndOfInput PROVE IInv'
BY DEF EndOfInput, IInv, Stores, Place, Hands

LEMMA MakePipeKeepsInv == ASSUME IInv, MakePipe PROVE IInv'
<1>1. CASE spc' = "prompt" /\ UNCHANGED <<pipes, ends>>
    BY <1>1 DEF MakePipe, IInv, Stores, Place, Hands
<1>2. ASSUME NEW x \in FreePipes, spc' = spc,
             pipes' = Append(pipes, x), ends' = ends \cup Both({x})
      PROVE  IInv'
    <2>1. x \in Pipes
        BY DEF FreePipes
    <2>2. pipes' \in Seq(Pipes) /\ ends' \subseteq Both(Pipes)
        BY <1>2, <2>1 DEF IInv, Stores, Both
    <2> QED
        BY <1>2, <2>2 DEF MakePipe, IInv, Stores, Place, Hands
<1> QED
    BY <1>1, <1>2 DEF MakePipe

\* The children of the current line get standard input and output from pipes of
\* the line.
LEMMA ChildIsKid ==
    ASSUME IInv, spc = "pipe", Len(pipes) = Len(clist) - 1, NEW i \in 1..Len(clist)
    PROVE  /\ Child(i) \in Kid /\ Child(i).st = "born" /\ Child(i).hand = 0
           /\ Child(i).ends = ends /\ Child(i).own = Range(pipes)
           /\ Child(i).in = PipeBefore(i)
           /\ Child(i).out = IF i < Len(clist) THEN pipes[i] ELSE "terminal"
           /\ {Child(i).in, Child(i).out} \subseteq Range(pipes) \cup {"terminal"}
<1>1. clist[i] \in Command /\ Len(clist) \in Nat /\ pipes \in Seq(Pipes) /\ ends \subseteq Both(Pipes)
    BY DEF IInv, Stores
<1>2. Range(pipes) \subseteq Pipes /\ \A j \in 1..Len(pipes) : pipes[j] \in Range(pipes)
    BY <1>1, RangeHolds
<1>3. /\ PipeBefore(i) \in Range(pipes) \cup {"terminal"}
      /\ i < Len(clist) => pipes[i] \in Range(pipes)
    BY <1>1, <1>2 DEF PipeBefore
<1>4. NoKid \in Kid /\ NoKid.hand = 0
    BY KidsAreKids DEF NoKid
<1>5. {PipeBefore(i), IF i < Len(clist) THEN pipes[i] ELSE "terminal"} \subseteq Sources
    BY <1>2, <1>3 DEF Sources
<1>6. Child(i) \in Kid
    BY <1>1, <1>2, <1>4, <1>5 DEF Child, Kid, Command
<1>7. /\ Child(i).st = "born" /\ Child(i).hand = 0
      /\ Child(i).ends = ends /\ Child(i).own = Range(pipes)
      /\ Child(i).in = PipeBefore(i)
      /\ Child(i).out = IF i < Len(clist) THEN pipes[i] ELSE "terminal"
    BY <1>4 DEF Child, Kid
<1> QED
    BY <1>3, <1>6, <1>7

LEMMA ForkKeepsInv == ASSUME IInv, Fork PROVE IInv'
<1> USE DEF Fork
<1>1. \/ \E p \in FreePids : /\ pids' = Append(pids, p)
                             /\ kids' = [kids EXCEPT ![p] = Child(Len(pids) + 1)]
                             /\ spc' = spc
      \/ spc' = "prompt" /\ UNCHANGED <<pids, kids>>
    OBVIOUS
<1>2. CASE spc' = "prompt" /\ UNCHANGED <<pids, kids>>
    BY <1>2 DEF IInv, Stores, Place, Hands
<1>3. ASSUME NEW p \in FreePids, pids' = Append(pids, p),
             kids' = [kids EXCEPT ![p] = Child(Len(pids) + 1)], spc' = spc
      PROVE  IInv'
    <2>1. p \in Pids /\ Len(pids) + 1 \in 1..Len(clist)
        BY DEF IInv, Stores, FreePids
    <2>2. Child(Len(pids) + 1) \in Kid /\ Child(Len(pids) + 1).hand = 0
        BY <2>1, ChildIsKid
    <2>3. kids' \in [Pids -> Kid] /\ Hands'
        BY <1>3, <2>1, <2>2 DEF IInv, Stores, Hands
    <2>4. pids' \in Seq(Pids) /\ Len(pids') = Len(pids) + 1
        BY <1>3, <2>1 DEF IInv, Stores
    <2> QED
        BY <1>3, <2>1, <2>3, <2>4 DEF IInv, Stores, Place
<1> QED
    BY <1>1, <1>2, <1>3

LEMMA CloseEndsKeepsInv == ASSUME IInv, CloseEnds PROVE IInv'
<1> USE DEF CloseEnds
<1>1. data' \in [Pipes -> 0..PipeSize]
    BY DrainKeeps DEF IInv
<1>2. Len(clist) > 0
    BY DEF IInv, Stores, Place
<1> QED
    BY <1>1, <1>2 DEF IInv, Stores, Place, Hands

LEMMA WaitKeepsInv == ASSUME IInv, Wait PROVE IInv'
<1> USE DEF Wait
<1>1. waited + 1 \in 1..Len(pids) /\ pids[waited + 1] \in Pids
    BY DEF IInv, Stores, Place
<1>2. kids' \in [Pids -> Kid] /\ Hands'
    BY <1>1, KidsAreKids DEF IInv, Stores, Hands, NoKid
<1> QED
    BY <1>1, <1>2 DEF IInv, Stores, Place

----------------------------------------------------------------------------
(* The children *)

\* A step that changes one child and drains what nobody holds any more.
LEMMA KidKeepsInv ==
    ASSUME IInv, NEW p \in Pids, NEW k \in Kid, kids' = [kids EXCEPT ![p] = k],
           k.prog = "gen" => k.hand = 0, data' \in [Pipes -> 0..PipeSize],
           UNCHANGED <<spc, clist, pipes, pids, waited, ends>>
    PROVE  IInv'
<1>1. kids' \in [Pids -> Kid] /\ Hands'
    BY DEF IInv, Stores, Hands
<1> QED
    BY <1>1 DEF IInv, Stores, Place

LEMMA ExecKeepsInv == ASSUME IInv, NEW p \in Pids, Exec(p) PROVE IInv'
<1> DEFINE k == kids[p]
           seen == Seen(k.redir)
           new == [k EXCEPT !.st = "run",
                         !.in = IF "in" \in seen THEN "file" ELSE k.in,
                         !.out = IF seen \cap {"out", "app"} # {} THEN "file" ELSE k.out,
                         !.file = IF "in" \in seen THEN Items ELSE 0,
                         !.left = CASE k.prog = "gen" -> Items [] k.prog = "head" -> 1
                                    [] OTHER -> 0]
           next == IF k.prog \in {"missing", "exit"} \/ "nofile" \in seen THEN Zombie
                   ELSE [new EXCEPT !.ends = EndsLeft(new)]
<1>1. kids' = [kids EXCEPT ![p] = next]
    BY DEF Exec
<1>2. k \in Kid /\ (k.prog = "gen" => k.hand = 0)
    BY DEF IInv, Stores, Hands
<1>3. new \in Kid /\ new.prog = k.prog /\ new.hand = k.hand
    <2>1. {IF "in" \in seen THEN "file" ELSE k.in,
           IF seen \cap {"out", "app"} # {} THEN "file" ELSE k.out} \subseteq Sources
        BY <1>2 DEF Kid, Sources
    <2>2. (IF "in" \in seen THEN Items ELSE 0) \in 0..Items
        BY PipelineAssumption
    <2>3. (CASE k.prog = "gen" -> Items [] k.prog = "head" -> 1 [] OTHER -> 0) \in 0..(Items + 1)
        BY PipelineAssumption
    <2> HIDE DEF seen
    <2> QED
        BY <1>2, <2>1, <2>2, <2>3 DEF Kid
<1>4. EndsLeft(new) \subseteq Both(Pipes)
    <2> HIDE DEF new
    <2>1. new.ends \subseteq Both(Pipes)
        BY <1>3 DEF Kid
    <2>2. \A x \in Pipes : <<x, "r">> \in Both(Pipes) /\ <<x, "w">> \in Both(Pipes)
        BY DEF Both
    <2> QED
        BY <2>1, <2>2 DEF EndsLeft
<1>5. next \in Kid /\ (next.prog = "gen" => next.hand = 0)
    <2> HIDE DEF new
    <2>1. [new EXCEPT !.ends = EndsLeft(new)] \in Kid
        BY <1>3, <1>4 DEF Kid
    <2>2. /\ [new EXCEPT !.ends = EndsLeft(new)].prog = k.prog
          /\ [new EXCEPT !.ends = EndsLeft(new)].hand = k.hand
        BY <1>3 DEF Kid
    <2> QED
        BY <1>2, <2>1, <2>2, KidsAreKids DEF Zombie, NoKid
<1>6. data' \in [Pipes -> 0..PipeSize]
    BY DrainKeeps DEF Exec, IInv
<1> HIDE DEF next
<1> QED
    BY <1>1, <1>5, <1>6, KidKeepsInv DEF Exec

LEMMA TakeKeepsInv == ASSUME IInv, NEW p \in Pids, Take(p) PROVE IInv'
<1> DEFINE k == kids[p]
           l == IF k.prog = "head" THEN k.left - 1 ELSE k.left
<1>1. k \in Kid /\ k.prog \in {"cat", "head"} /\ (k.prog = "head" => k.left > 0)
    BY DEF Take, Running, IInv, Stores
<1>2. l \in 0..(Items + 1)
    <2>1. k.left \in 0..(Items + 1)
        BY <1>1 DEF Kid
    <2> QED
        BY <1>1, <2>1, PipelineAssumption
<1> HIDE DEF l
<1>3. \/ /\ k.file > 0
         /\ kids' = [kids EXCEPT ![p] = [k EXCEPT !.hand = 1, !.file = k.file - 1, !.left = l]]
         /\ UNCHANGED data
      \/ /\ k.in \in Pipes /\ data[k.in] > 0
         /\ kids' = [kids EXCEPT ![p] = [k EXCEPT !.hand = 1, !.left = l]]
         /\ data' = [data EXCEPT ![k.in] = @ - 1]
    BY <1>1 DEF Take, l, IInv, Stores, Kid
<1>4. data' \in [Pipes -> 0..PipeSize]
    <2>1. ASSUME NEW x \in Pipes, data[x] > 0
          PROVE  data[x] - 1 \in 0..PipeSize
        <3>1. data[x] \in 0..PipeSize
            BY DEF IInv, Stores
        <3> QED
            BY <2>1, <3>1, PipelineAssumption
    <2> QED
        BY <1>3, <2>1 DEF IInv, Stores
<1>5. 1 \in 0..1 /\ (k.file > 0 => k.file - 1 \in 0..Items)
    <2>1. k.file \in 0..Items
        BY <1>1 DEF Kid
    <2> QED
        BY <2>1, PipelineAssumption
<1>6. k.file > 0 => /\ [k EXCEPT !.hand = 1, !.file = k.file - 1, !.left = l] \in Kid
                    /\ [k EXCEPT !.hand = 1, !.file = k.file - 1, !.left = l].prog = k.prog
    BY <1>1, <1>2, <1>5 DEF Kid
<1>7. [k EXCEPT !.hand = 1, !.left = l] \in Kid /\ [k EXCEPT !.hand = 1, !.left = l].prog = k.prog
    BY <1>1, <1>2, <1>5 DEF Kid
<1> QED
    BY <1>1, <1>3, <1>4, <1>6, <1>7, KidKeepsInv DEF Take

LEMMA WrittenIsKid ==
    ASSUME NEW k \in Kid, HasItem(k), k.prog = "gen" => k.hand = 0
    PROVE  Written(k) \in Kid /\ Written(k).hand = 0
<1> DEFINE l == IF k.prog = "gen" THEN k.left - 1 ELSE k.left
<1>1. l \in 0..(Items + 1)
    <2>1. k.left \in 0..(Items + 1)
        BY DEF Kid
    <2>2. k.prog = "gen" => k.left > 0
        BY DEF HasItem
    <2> QED
        BY <2>1, <2>2, PipelineAssumption
<1>2. Written(k) = [k EXCEPT !.hand = 0, !.left = l]
    BY DEF Written, Kid
<1>3. 0 \in 0..1
    OBVIOUS
<1> HIDE DEF l
<1> QED
    BY <1>1, <1>2, <1>3 DEF Kid

LEMMA GiveKeepsInv == ASSUME IInv, NEW p \in Pids, Give(p) PROVE IInv'
<1> DEFINE k == kids[p]
<1>1. k \in Kid /\ HasItem(k) /\ (k.prog = "gen" => k.hand = 0)
    BY DEF Give, IInv, Stores, Hands
<1>2. Written(k) \in Kid /\ Written(k).hand = 0
    BY <1>1, WrittenIsKid
<1>3. Zombie \in Kid /\ Zombie.hand = 0
    BY KidsAreKids DEF Zombie, NoKid
<1>4. data' \in [Pipes -> 0..PipeSize]
    <2>1. CASE UNCHANGED data
        BY <2>1 DEF IInv, Stores
    <2>2. CASE k.out \in Pipes /\ data[k.out] < PipeSize /\ data' = [data EXCEPT ![k.out] = @ + 1]
        BY <2>2, PipelineAssumption DEF IInv, Stores
    <2>3. CASE Drain
        BY <2>3, DrainKeeps DEF IInv
    <2> QED
        BY <2>1, <2>2, <2>3 DEF Give
<1>5. kids' = [kids EXCEPT ![p] = Written(k)] \/ kids' = [kids EXCEPT ![p] = Zombie]
    BY DEF Give
<1> QED
    BY <1>2, <1>3, <1>4, <1>5, KidKeepsInv DEF Give

LEMMA FinishKeepsInv == ASSUME IInv, NEW p \in Pids, Finish(p) PROVE IInv'
<1>1. data' \in [Pipes -> 0..PipeSize]
    BY DrainKeeps DEF Finish, IInv
<1>2. Zombie \in Kid /\ Zombie.hand = 0
    BY KidsAreKids DEF Zombie, NoKid
<1> QED
    BY <1>1, <1>2, KidKeepsInv DEF Finish

LEMMA InvStep == ASSUME IInv, [Next]_vars PROVE IInv'
<1>1. CASE UNCHANGED vars
    BY <1>1 DEF vars, IInv, Stores, Place, Hands
<1>2. CASE ReadLine \/ EndOfInput
    BY <1>2, ReadLineKeepsInv, EndOfInputKeepsInv
<1>3. CASE ShellStep
    BY <1>3, MakePipeKeepsInv, ForkKeepsInv, CloseEndsKeepsInv, WaitKeepsInv DEF ShellStep
<1>4. CASE \E p \in Pids : KidStep(p)
    BY <1>4, ExecKeepsInv, TakeKeepsInv, GiveKeepsInv, FinishKeepsInv DEF KidStep
<1> QED
    BY <1>1, <1>2, <1>3, <1>4 DEF Next

LEMMA InvHolds == Spec => []IInv
BY InvInit, InvStep, PTL DEF Spec

\* The arrays of execute_pipeline hold pipes and children, a pipe never more
\* than it can, and the shell waits only for children of its line, whatever
\* fails and whenever a child is killed.
THEOREM TypeCorrect == Spec => []TypeOK
<1>1. IInv => TypeOK
    <2> SUFFICES ASSUME IInv PROVE TypeOK
        OBVIOUS
    <2>1. Range(pipes) \subseteq Pipes /\ Range(pids) \subseteq Pids
        BY RangeHolds DEF IInv, Stores
    <2>2. Held \subseteq Both(Pipes)
        BY HeldArePipes DEF IInv
    <2> QED
        BY <2>1, <2>2 DEF TypeOK, IInv, Stores, Kid
<1> QED
    BY <1>1, InvHolds, PTL

----------------------------------------------------------------------------
(* Lines that leave nothing behind *)

\* As many pipes and children as one line of CmdMax commands needs.
Enough ==
    /\ IsFiniteSet(Pipes) /\ Cardinality(Pipes) >= CmdMax - 1
    /\ IsFiniteSet(Pids) /\ Cardinality(Pids) >= CmdMax

\* The pipes in front of and behind command i of line l.
PipeIn(ps, i) == IF i > 1 THEN ps[i - 1] ELSE "terminal"
PipeOut(l, ps, i) == IF i < Len(l) THEN ps[i] ELSE "terminal"

\* Its standard input and output once it runs.
StdIn(l, ps, i) == IF "in" \in Seen(l[i].redir) THEN "file" ELSE PipeIn(ps, i)
StdOut(l, ps, i) ==
    IF Seen(l[i].redir) \cap {"out", "app"} # {} THEN "file" ELSE PipeOut(l, ps, i)

EndsOn(x, y) ==
    (IF x \in Pipes THEN {<<x, "r">>} ELSE {}) \cup (IF y \in Pipes THEN {<<y, "w">>} ELSE {})

\* k is a state the child of command i of line l can be in.
Stage(l, ps, i, k) ==
    /\ k.st \in {"born", "run", "zombie"}
    /\ k.st = "born" =>
          /\ k.prog = l[i].prog /\ k.redir = l[i].redir
          /\ k.in = PipeIn(ps, i) /\ k.out = PipeOut(l, ps, i)
          /\ k.own = Range(ps) /\ k.ends = Both(Range(ps))
          /\ k.hand = 0
    /\ k.st = "run" =>
          /\ k.prog = l[i].prog
          /\ k.prog \notin {"missing", "exit"} /\ "nofile" \notin Seen(l[i].redir)
          /\ k.in = StdIn(l, ps, i) /\ k.out = StdOut(l, ps, i)
          /\ k.ends = EndsOn(StdIn(l, ps, i), StdOut(l, ps, i))
    /\ k.st = "zombie" => k = Zombie

Injective(s) == \A i, j \in 1..Len(s) : s[i] = s[j] => i = j

\* A child of which waitpid has returned has left nothing behind.
Gone == \A p \in Pids : kids[p].st = "none" => kids[p] = NoKid

AtPrompt == spc = "prompt" => ends = {} /\ \A p \in Pids : kids[p].st = "none"

Forking ==
    spc = "pipe" => /\ ends = Both(Range(pipes))
                    /\ Len(pipes) <= Len(clist) - 1
                    /\ pids # <<>> => Len(pipes) = Len(clist) - 1

Waiting == spc = "wait" => ends = {} /\ Len(pids) = Len(clist) /\ Len(pipes) = Len(clist) - 1

\* Each child not yet waited for runs its command ...
Staged ==
    spc \in {"pipe", "wait"} => \A i \in (waited + 1)..Len(pids) : Stage(clist, pipes, i, kids[pids[i]])

\* ... and there is no other child.
Listed ==
    spc \in {"pipe", "wait"} =>
        \A p \in Pids : kids[p].st # "none" => \E i \in (waited + 1)..Len(pids) : p = pids[i]

\* Which children there are, and which ends the shell holds.
Clean == /\ Gone /\ AtPrompt /\ Forking /\ Waiting /\ Staged /\ Listed
         /\ Injective(pipes) /\ Injective(pids)

CInv == IInv /\ faults \in Nat /\ (faults = 0 => Clean)

\* A line that is short of S has not used up S.
LEMMA OneIsLeft ==
    ASSUME NEW S, NEW s \in Seq(S), IsFiniteSet(S), Cardinality(S) > Len(s)
    PROVE  \E x \in S : x \notin Range(s)
<1> DEFINE R == Range(s)
           N == 1..Len(s)
<1>1. IsFiniteSet(N) /\ Cardinality(N) = Len(s)
    <2>1. Len(s) \in Nat
        OBVIOUS
    <2> QED
        BY <2>1, FS_Interval
<1>2. s \in Surjection(N, R)
    <2>1. DOMAIN s = N /\ s = [i \in N |-> s[i]]
        OBVIOUS
    <2>2. \A i \in N : s[i] \in R
        BY RangeHolds
    <2>3. \A x \in R : \E i \in N : x = s[i]
        BY RangeHolds
    <2> HIDE DEF R, N
    <2>4. s \in [N -> R]
        BY <2>1, <2>2
    <2> QED
        BY <2>3, <2>4 DEF Surjection
<1>3. IsFiniteSet(R) /\ Cardinality(R) <= Len(s)
    BY <1>1, <1>2, FS_Surjection
<1>4. R # S
    <2>1. Cardinality(S) \in Nat /\ Cardinality(R) \in Nat /\ Len(s) \in Nat
        BY <1>3, FS_CardinalityType
    <2> QED
        BY <1>3, <2>1
<1>5. R \subseteq S
    BY RangeHolds
<1> QED
    BY <1>4, <1>5

\* What a child holds open belongs to its line.
LEMMA StageEnds ==
    ASSUME CInv, faults = 0, spc \in {"pipe", "wait"}, NEW p \in Pids
    PROVE  kids[p].ends \subseteq Both(Range(pipes))
<1>1. CASE kids[p].st = "none"
    <2>1. kids[p] = NoKid
        BY <1>1, Zenon DEF CInv, Clean, Gone
    <2>2. NoKid.ends = {}
        BY DEF NoKid
    <2> QED
        BY <2>1, <2>2
<1>2. CASE kids[p].st # "none"
    <2>1. PICK i \in (waited + 1)..Len(pids) : p = pids[i]
        BY <1>2 DEF CInv, Clean, Listed
    <2>2. Stage(clist, pipes, i, kids[p]) /\ i \in 1..Len(pids)
        BY <2>1 DEF CInv, IInv, Stores, Clean, Staged
    <2>3. CASE kids[p].st = "born"
        BY <2>2, <2>3 DEF Stage
    <2>4. CASE kids[p].st = "zombie"
        BY <2>2, <2>4 DEF Stage, Zombie, NoKid
    <2>5. CASE kids[p].st = "run"
        <3>1. pids # <<>> /\ Len(pipes) = Len(clist) - 1 /\ i \in 1..Len(clist)
            BY <2>2 DEF CInv, IInv, Stores, Place, Clean, Forking, Waiting
        <3>2. /\ PipeIn(pipes, i) \in Range(pipes) \cup {"terminal"}
              /\ PipeOut(clist, pipes, i) \in Range(pipes) \cup {"terminal"}
            <4>1. \A j \in 1..Len(pipes) : pipes[j] \in Range(pipes)
                BY RangeHolds DEF CInv, IInv, Stores
            <4> QED
                BY <3>1, <4>1 DEF PipeIn, PipeOut, CInv, IInv, Stores
        <3>3. StdIn(clist, pipes, i) \in Pipes => StdIn(clist, pipes, i) \in Range(pipes)
            BY <3>2, PipelineAssumption DEF StdIn
        <3>4. StdOut(clist, pipes, i) \in Pipes => StdOut(clist, pipes, i) \in Range(pipes)
            BY <3>2, PipelineAssumption DEF StdOut
        <3> QED
            BY <2>2, <2>5, <3>3, <3>4 DEF Stage, EndsOn, Both
    <2> QED
        BY <2>2, <2>3, <2>4, <2>5 DEF Stage
<1> QED
    BY <1>1, <1>2

LEMMA PipeIsFree ==
    ASSUME Enough, CInv, faults = 0, spc = "pipe", Len(pipes) < Len(clist) - 1
    PROVE  FreePipes # {}
<1>1. Cardinality(Pipes) > Len(pipes)
    BY PipelineAssumption, FS_CardinalityType DEF Enough, CInv, IInv, Stores
<1>2. PICK x \in Pipes : x \notin Range(pipes)
    BY <1>1, OneIsLeft DEF Enough, CInv, IInv, Stores
<1>3. ends \subseteq Both(Range(pipes)) /\ \A p \in Pids : kids[p].ends \subseteq Both(Range(pipes))
    BY StageEnds DEF CInv, Clean, Forking
<1>4. \A e : <<x, e>> \notin Both(Range(pipes))
    BY <1>2 DEF Both
<1>5. <<x, "r">> \notin Held /\ <<x, "w">> \notin Held
    BY <1>3, <1>4 DEF Held
<1> QED
    BY <1>2, <1>5 DEF FreePipes

LEMMA PidIsFree ==
    ASSUME Enough, CInv, faults = 0, spc = "pipe", Len(pids) < Len(clist)
    PROVE  FreePids # {}
<1>1. Cardinality(Pids) > Len(pids)
    BY PipelineAssumption, FS_CardinalityType DEF Enough, CInv, IInv, Stores
<1>2. PICK p \in Pids : p \notin Range(pids)
    BY <1>1, OneIsLeft DEF Enough, CInv, IInv, Stores
<1>3. kids[p].st = "none"
    <2>1. \A i \in 1..Len(pids) : pids[i] \in Range(pids)
        BY RangeHolds DEF CInv, IInv, Stores
    <2>2. waited = 0
        BY DEF CInv, IInv, Place
    <2> QED
        BY <1>2, <2>1, <2>2 DEF CInv, Clean, Listed
<1> QED
    BY <1>3 DEF FreePids

LEMMA NoneIsEmpty == Range(<<>>) = {} /\ Injective(<<>>) /\ Len(<<>>) = 0
<1>1. DOMAIN <<>> = {} /\ Len(<<>>) = 0
    OBVIOUS
<1> QED
    BY <1>1 DEF Range, Injective

LEMMA AppendInjects ==
    ASSUME NEW S, NEW s \in Seq(S), NEW x \in S, Injective(s), x \notin Range(s)
    PROVE  Injective(Append(s, x))
<1> DEFINE t == Append(s, x)
<1>1. /\ Len(t) = Len(s) + 1 /\ t[Len(s) + 1] = x /\ Len(s) \in Nat
      /\ \A i \in 1..Len(s) : t[i] = s[i] /\ t[i] # x
    BY RangeHolds
<1> SUFFICES ASSUME NEW i \in 1..Len(t), NEW j \in 1..Len(t), t[i] = t[j]
             PROVE  i = j
    BY DEF Injective
<1> HIDE DEF t
<1>2. CASE i = Len(s) + 1 \/ j = Len(s) + 1
    BY <1>1, <1>2
<1>3. CASE i # Len(s) + 1 /\ j # Len(s) + 1
    <2>1. i \in 1..Len(s) /\ j \in 1..Len(s)
        BY <1>1, <1>3
    <2> QED
        BY <1>1, <2>1 DEF Injective
<1> QED
    BY <1>2, <1>3

LEMMA AppendRange ==
    ASSUME NEW S, NEW s \in Seq(S), NEW x \in S
    PROVE  Range(Append(s, x)) = Range(s) \cup {x}
<1> DEFINE t == Append(s, x)
<1>1. /\ Len(t) = Len(s) + 1 /\ t[Len(s) + 1] = x /\ Len(s) \in Nat /\ t \in Seq(S)
      /\ \A i \in 1..Len(s) : t[i] = s[i]
    OBVIOUS
<1> HIDE DEF t
<1>2. \A y \in Range(t) : y \in Range(s) \cup {x}
    <2> SUFFICES ASSUME NEW y \in Range(t), y # x
                 PROVE  y \in Range(s)
        OBVIOUS
    <2>1. PICK i \in 1..Len(t) : y = t[i]
        BY <1>1, RangeHolds
    <2>2. i \in 1..Len(s)
        BY <1>1, <2>1
    <2> QED
        BY <1>1, <2>1, <2>2, RangeHolds
<1>3. \A y \in Range(s) : y \in Range(t)
    <2> SUFFICES ASSUME NEW y \in Range(s)
                 PROVE  y \in Range(t)
        OBVIOUS
    <2>1. PICK i \in 1..Len(s) : y = s[i]
        BY RangeHolds
    <2>2. i \in 1..Len(t) /\ y = t[i]
        BY <1>1, <2>1
    <2> QED
        BY <1>1, <2>2, RangeHolds
<1>4. x \in Range(t)
    <2>1. Len(s) + 1 \in 1..Len(t)
        BY <1>1
    <2> QED
        BY <1>1, <2>1, RangeHolds
<1> QED
    BY <1>2, <1>3, <1>4 DEF t

LEMMA CleanInit == Init => Clean
<1> SUFFICES ASSUME Init PROVE Clean
    OBVIOUS
<1>1. NoKid.st = "none"
    BY DEF NoKid
<1>2. Gone /\ AtPrompt
    BY <1>1 DEF Init, Gone, AtPrompt
<1>3. Forking /\ Waiting /\ Staged /\ Listed
    BY DEF Init, Forking, Waiting, Staged, Listed
<1>4. Injective(pipes) /\ Injective(pids)
    BY NoneIsEmpty DEF Init
<1> QED
    BY <1>2, <1>3, <1>4 DEF Clean

LEMMA ReadLineKeepsClean ==
    ASSUME CInv, faults = 0, ReadLine, faults' = 0 PROVE Clean'
<1>1. \E l \in Lines :
         /\ clist' = IF TooMany(l) THEN <<>> ELSE l
         /\ spc' = IF IsExit(l) THEN "exited" ELSE IF clist' = <<>> THEN "prompt" ELSE "pipe"
    BY DEF ReadLine, Fails
<1>2. spc' \in {"exited", "prompt", "pipe"} /\ (spc' = "pipe" => clist' # <<>>)
    BY <1>1
<1>3. clist' \in Seq(Command)
    BY ReadLineKeepsInv DEF CInv, IInv, Stores
<1>4. spc' = "pipe" => 0 <= Len(clist') - 1
    BY <1>2, <1>3
<1>5. ends = {} /\ (\A p \in Pids : kids[p].st = "none") /\ Gone
    BY DEF ReadLine, CInv, Clean, AtPrompt
<1>6. Both({}) = {}
    BY DEF Both
<1>7. pipes' = <<>> /\ pids' = <<>> /\ waited' = 0 /\ UNCHANGED <<ends, kids>>
    BY DEF ReadLine
<1>8. Gone' /\ AtPrompt'
    BY <1>5, <1>7 DEF Gone, AtPrompt
<1>9. Forking' /\ Waiting'
    BY <1>2, <1>4, <1>5, <1>6, <1>7, NoneIsEmpty DEF Forking, Waiting
<1>10. Staged'
    <2>1. (waited + 1)'..Len(pids') = {}
        BY <1>7, NoneIsEmpty
    <2> QED
        BY <2>1 DEF Staged
<1>11. Listed'
    BY <1>5, <1>7 DEF Listed
<1>12. Injective(pipes') /\ Injective(pids')
    BY <1>7, NoneIsEmpty
<1> QED
    BY <1>8, <1>9, <1>10, <1>11, <1>12 DEF Clean, Injective

LEMMA MakePipeKeepsClean ==
    ASSUME Enough, CInv, faults = 0, MakePipe, faults' = 0 PROVE Clean'
<1>1. FreePipes # {}
    BY PipeIsFree DEF MakePipe
<1>2. PICK x \in FreePipes : pipes' = Append(pipes, x) /\ ends' = ends \cup Both({x}) /\ spc' = spc
    <2>1. ~Fails
        BY DEF Fails
    <2>2. (CHOOSE x \in FreePipes : TRUE) \in FreePipes
        BY <1>1, Zenon
    <2> DEFINE x == CHOOSE x \in FreePipes : TRUE
    <2>3. pipes' = Append(pipes, x) /\ ends' = ends \cup Both({x}) /\ spc' = spc
        BY <1>1, <2>1, Zenon DEF MakePipe
    <2> QED
        BY <2>2, <2>3, Zenon
<1>3. spc = "pipe" /\ Len(pipes) < Len(clist) - 1 /\ Clean
    BY DEF MakePipe, CInv
<1>4. x \in Pipes /\ pipes \in Seq(Pipes) /\ Len(clist) \in Nat /\ Len(pipes) \in Nat
    BY DEF FreePipes, CInv, IInv, Stores
<1>5. x \notin Range(pipes)
    <2>1. <<x, "r">> \notin ends
        BY DEF FreePipes, Held
    <2> QED
        BY <1>3, <2>1 DEF Clean, Forking, Both
<1>6. Injective(pipes') /\ Range(pipes') = Range(pipes) \cup {x} /\ Len(pipes') = Len(pipes) + 1
    BY <1>2, <1>3, <1>4, <1>5, AppendInjects, AppendRange DEF Clean
<1>7. ends' = Both(Range(pipes'))
    <2>1. Both(Range(pipes) \cup {x}) = Both(Range(pipes)) \cup Both({x})
        BY DEF Both
    <2> QED
        BY <1>2, <1>3, <1>6, <2>1 DEF Clean, Forking
<1>8. pids = <<>> /\ Len(pids) = 0
    BY <1>3, <1>4, NoneIsEmpty DEF Clean, Forking
<1>9. UNCHANGED <<clist, pids, waited, kids>>
    BY DEF MakePipe
<1>10. waited = 0
    BY <1>3 DEF CInv, IInv, Place
<1>11. Gone' /\ AtPrompt' /\ Waiting'
    BY <1>2, <1>3, <1>9 DEF Clean, Gone, AtPrompt, Waiting
<1>12. Forking'
    BY <1>3, <1>4, <1>6, <1>7, <1>8, <1>9 DEF Forking
<1>13. Staged'
    <2>1. (waited + 1)'..Len(pids') = {}
        BY <1>8, <1>9, <1>10
    <2> QED
        BY <2>1 DEF Staged
<1>14. Listed'
    BY <1>2, <1>3, <1>9 DEF Clean, Listed
<1> QED
    BY <1>3, <1>6, <1>9, <1>11, <1>12, <1>13, <1>14 DEF Clean, Injective

LEMMA ForkKeepsClean ==
    ASSUME Enough, CInv, faults = 0, Fork, faults' = 0 PROVE Clean'
<1> DEFINE n == Len(pids) + 1
<1>1. /\ spc = "pipe" /\ Len(pipes) = Len(clist) - 1 /\ Len(pids) < Len(clist) /\ Clean
      /\ UNCHANGED <<clist, pipes, waited, ends>> /\ waited = 0
    BY DEF Fork, CInv, IInv, Place
<1>2. FreePids # {}
    BY <1>1, PidIsFree
<1>3. PICK p \in FreePids : /\ pids' = Append(pids, p) /\ spc' = spc
                            /\ kids' = [kids EXCEPT ![p] = Child(n)]
    <2>1. ~Fails
        BY DEF Fails
    <2>2. (CHOOSE p \in FreePids : TRUE) \in FreePids
        BY <1>2, Zenon
    <2> DEFINE p == CHOOSE p \in FreePids : TRUE
    <2>3. /\ pids' = Append(pids, p) /\ spc' = spc
          /\ kids' = [kids EXCEPT ![p] = Child(n)]
        BY <1>2, <2>1, Zenon DEF Fork
    <2> QED
        BY <2>2, <2>3, Zenon
<1>4. p \in Pids /\ kids[p].st = "none" /\ pids \in Seq(Pids) /\ Len(clist) \in Nat
    BY DEF FreePids, CInv, IInv, Stores
<1>5. /\ Len(pids') = n /\ n \in 1..Len(clist) /\ pids'[n] = p /\ pids' # <<>>
      /\ \A i \in 1..Len(pids) : pids'[i] = pids[i] /\ pids[i] \in Pids /\ pids[i] # p
    <2>1. \A i \in 1..Len(pids) : Stage(clist, pipes, i, kids[pids[i]])
        BY <1>1 DEF Clean, Staged
    <2>2. \A i \in 1..Len(pids) : kids[pids[i]].st # "none"
        BY <2>1 DEF Stage
    <2> QED
        BY <1>1, <1>3, <1>4, <2>2
<1>6. Injective(pids')
    <2>1. p \notin Range(pids)
        BY <1>4, <1>5, RangeHolds
    <2> QED
        BY <1>1, <1>3, <1>4, <2>1, AppendInjects DEF Clean
<1>7. kids'[p] = Child(n) /\ \A q \in Pids : q # p => kids'[q] = kids[q]
    BY <1>3, <1>4 DEF CInv, IInv, Stores
<1>8. Stage(clist, pipes, n, Child(n))
    <2>1. /\ Child(n).st = "born" /\ Child(n).hand = 0
          /\ Child(n).ends = ends /\ Child(n).own = Range(pipes)
          /\ Child(n).in = PipeBefore(n)
          /\ Child(n).out = IF n < Len(clist) THEN pipes[n] ELSE "terminal"
        BY <1>1, <1>5, ChildIsKid DEF CInv
    <2>2. Child(n).prog = clist[n].prog /\ Child(n).redir = clist[n].redir
        <3>1. NoKid \in Kid
            BY KidsAreKids
        <3> HIDE DEF n
        <3> QED
            BY <3>1 DEF Child, Kid
    <2>3. ends = Both(Range(pipes))
        BY <1>1 DEF Clean, Forking
    <2> HIDE DEF n
    <2> QED
        BY <2>1, <2>2, <2>3 DEF Stage, PipeIn, PipeOut, PipeBefore
<1>9. \A i \in 1..n : Stage(clist, pipes, i, kids'[pids'[i]])
    <2> SUFFICES ASSUME NEW i \in 1..n PROVE Stage(clist, pipes, i, kids'[pids'[i]])
        OBVIOUS
    <2>1. CASE i = n
        BY <1>5, <1>7, <1>8, <2>1
    <2>2. CASE i # n
        <3>1. i \in 1..Len(pids)
            BY <1>4, <2>2
        <3>2. Stage(clist, pipes, i, kids[pids[i]])
            BY <1>1, <3>1 DEF Clean, Staged
        <3> QED
            BY <1>5, <1>7, <3>1, <3>2
    <2> QED
        BY <2>1, <2>2
<1> HIDE DEF n
<1>10. Staged'
    BY <1>1, <1>5, <1>9 DEF Staged
<1>11. Listed'
    <2> SUFFICES ASSUME NEW q \in Pids, kids'[q].st # "none"
                 PROVE  \E i \in 1..n : q = pids'[i]
        BY <1>1, <1>5 DEF Listed
    <2>1. CASE q = p
        BY <1>4, <1>5, <2>1
    <2>2. CASE q # p
        <3>1. PICK i \in 1..Len(pids) : q = pids[i]
            BY <1>1, <1>7, <2>2 DEF Clean, Listed
        <3>2. i \in 1..n
            BY <1>4, <3>1 DEF n
        <3> QED
            BY <1>5, <3>1, <3>2
    <2> QED
        BY <2>1, <2>2
<1>12. Gone'
    <2>1. Child(n).st # "none"
        BY <1>8 DEF Stage
    <2> QED
        BY <1>1, <1>7, <2>1 DEF Clean, Gone
<1>13. AtPrompt' /\ Forking' /\ Waiting'
    BY <1>1, <1>3 DEF Clean, AtPrompt, Forking, Waiting
<1> QED
    BY <1>1, <1>6, <1>10, <1>11, <1>12, <1>13 DEF Clean, Injective

LEMMA CloseEndsKeepsClean ==
    ASSUME CInv, faults = 0, CloseEnds PROVE Clean'
<1>1. /\ spc = "pipe" /\ spc' = "wait" /\ Len(pids) = Len(clist) /\ ends' = ends \ EndsOf(pipes)
      /\ UNCHANGED <<clist, pipes, pids, waited, kids>> /\ clist # <<>> /\ clist \in Seq(Command)
      /\ pids \in Seq(Pids) /\ Clean
    BY DEF CloseEnds, CInv, IInv, Stores, Place
<1>2. pids # <<>>
    BY <1>1
<1>3. ends = Both(Range(pipes)) /\ Len(pipes) = Len(clist) - 1
    BY <1>1, <1>2 DEF Clean, Forking
<1>4. ends' = {}
    BY <1>1, <1>3 DEF EndsOf
<1>5. Gone' /\ AtPrompt' /\ Forking' /\ Waiting'
    BY <1>1, <1>3, <1>4 DEF Clean, Gone, AtPrompt, Forking, Waiting
<1>6. Staged' /\ Listed'
    BY <1>1 DEF Clean, Staged, Listed
<1> QED
    BY <1>1, <1>5, <1>6 DEF Clean, Injective

LEMMA WaitKeepsClean ==
    ASSUME CInv, faults = 0, Wait PROVE Clean'
<1> DEFINE w == waited + 1
           p == pids[w]
<1>1. /\ spc = "wait" /\ kids' = [kids EXCEPT ![p] = NoKid] /\ waited' = w
      /\ spc' = IF w = Len(pids) THEN "prompt" ELSE "wait"
      /\ UNCHANGED <<clist, pipes, pids, ends>> /\ Clean
    BY DEF Wait, CInv
<1>2. w \in 1..Len(pids) /\ p \in Pids /\ Len(pids) \in Nat /\ waited \in Nat
    BY <1>1 DEF CInv, IInv, Stores, Place
<1>3. kids'[p] = NoKid /\ \A q \in Pids : q # p => kids'[q] = kids[q]
    BY <1>1, <1>2 DEF CInv, IInv, Stores
<1>4. NoKid.st = "none"
    BY DEF NoKid
<1>5. \A q \in Pids : kids'[q].st # "none" => \E i \in (w + 1)..Len(pids) : q = pids[i]
    <2> SUFFICES ASSUME NEW q \in Pids, kids'[q].st # "none"
                 PROVE  \E i \in (w + 1)..Len(pids) : q = pids[i]
        OBVIOUS
    <2>1. q # p /\ kids[q].st # "none"
        BY <1>3, <1>4
    <2>2. PICK i \in w..Len(pids) : q = pids[i]
        BY <1>1, <2>1 DEF Clean, Listed
    <2>3. i \in (w + 1)..Len(pids)
        BY <1>2, <2>1, <2>2
    <2> QED
        BY <2>2, <2>3
<1>6. ASSUME NEW i \in (w + 1)..Len(pids)
      PROVE  Stage(clist, pipes, i, kids'[pids[i]])
    <2>1. i \in w..Len(pids) /\ i \in 1..Len(pids) /\ i # w
        BY <1>2
    <2>2. pids[i] # p /\ pids[i] \in Pids
        BY <1>1, <1>2, <2>1 DEF Clean, Injective, CInv, IInv, Stores
    <2>3. Stage(clist, pipes, i, kids[pids[i]])
        BY <1>1, <2>1 DEF Clean, Staged
    <2> QED
        BY <1>3, <2>2, <2>3
<1>7. ends = {} /\ Len(pids) = Len(clist) /\ Len(pipes) = Len(clist) - 1
    BY <1>1 DEF Clean, Waiting
<1> HIDE DEF w, p
<1>8. Gone'
    <2>1. \A q \in Pids : kids'[q].st = "none" => kids'[q] = NoKid
        BY <1>1, <1>3 DEF Clean, Gone
    <2> QED
        BY <2>1 DEF Gone
<1>9. AtPrompt'
    <2>1. w = Len(pids) => (w + 1)..Len(pids) = {}
        BY <1>2
    <2> QED
        BY <1>1, <1>5, <1>7, <2>1 DEF AtPrompt
<1>10. Forking' /\ Waiting'
    BY <1>1, <1>7 DEF Forking, Waiting
<1>11. Staged'
    BY <1>1, <1>6 DEF Staged
<1>12. Listed'
    BY <1>1, <1>5 DEF Listed
<1> QED
    BY <1>1, <1>8, <1>9, <1>10, <1>11, <1>12 DEF Clean, Injective

\* A child that goes on as the child of its command may.
LEMMA KidKeepsClean ==
    ASSUME CInv, faults = 0, NEW p \in Pids, kids[p].st \in {"born", "run"},
           NEW k, k.st # "none", kids' = [kids EXCEPT ![p] = k],
           UNCHANGED <<spc, clist, pipes, pids, waited, ends>>,
           \A i \in 1..Len(clist) :
               Len(pipes) = Len(clist) - 1 /\ Stage(clist, pipes, i, kids[p])
                   => Stage(clist, pipes, i, k)
    PROVE  Clean'
<1>1. kids'[p] = k /\ \A q \in Pids : q # p => kids'[q] = kids[q]
    BY DEF CInv, IInv, Stores
<1>2. Clean /\ spc # "prompt"
    BY DEF CInv, Clean, AtPrompt
<1>3. Gone'
    BY <1>1, <1>2 DEF Clean, Gone
<1>4. AtPrompt' /\ Forking' /\ Waiting'
    BY <1>2 DEF Clean, AtPrompt, Forking, Waiting
<1>5. Listed'
    BY <1>1, <1>2 DEF Clean, Listed
<1>6. Staged'
    <2> SUFFICES ASSUME spc \in {"pipe", "wait"}, NEW i \in (waited + 1)..Len(pids)
                 PROVE  Stage(clist, pipes, i, kids'[pids[i]])
        BY DEF Staged
    <2>1. i \in 1..Len(pids) /\ pids # <<>> /\ i \in 1..Len(clist) /\ pids[i] \in Pids
        BY DEF CInv, IInv, Stores, Place
    <2>2. Len(pipes) = Len(clist) - 1
        BY <1>2, <2>1 DEF Clean, Forking, Waiting
    <2>3. Stage(clist, pipes, i, kids[pids[i]])
        BY <1>2 DEF Clean, Staged
    <2> QED
        BY <1>1, <2>1, <2>2, <2>3
<1> QED
    BY <1>2, <1>3, <1>4, <1>5, <1>6 DEF Clean, Injective

LEMMA ZombieStage ==
    /\ Zombie.st = "zombie"
    /\ \A l, ps, i : Stage(l, ps, i, Zombie)
<1>1. Zombie.st = "zombie"
    BY DEF Zombie, NoKid
<1> QED
    BY <1>1 DEF Stage

\* dup2 and the close loop leave a child with the ends of its own input and
\* output, whatever the shell held when it forked.
LEMMA ExecKeepsClean ==
    ASSUME CInv, faults = 0, NEW p \in Pids, Exec(p) PROVE Clean'
<1> DEFINE k == kids[p]
           seen == Seen(k.redir)
           new == [k EXCEPT !.st = "run",
                         !.in = IF "in" \in seen THEN "file" ELSE k.in,
                         !.out = IF seen \cap {"out", "app"} # {} THEN "file" ELSE k.out,
                         !.file = IF "in" \in seen THEN Items ELSE 0,
                         !.left = CASE k.prog = "gen" -> Items [] k.prog = "head" -> 1
                                    [] OTHER -> 0]
           open == [new EXCEPT !.ends = EndsLeft(new)]
           next == IF k.prog \in {"missing", "exit"} \/ "nofile" \in seen THEN Zombie ELSE open
<1>1. k.st = "born" /\ kids' = [kids EXCEPT ![p] = next] /\ k \in Kid
    BY DEF Exec, CInv, IInv, Stores
<1>2. /\ new.in = IF "in" \in seen THEN "file" ELSE k.in
      /\ new.out = IF seen \cap {"out", "app"} # {} THEN "file" ELSE k.out
      /\ new.prog = k.prog /\ new.own = k.own /\ new.ends = k.ends
    <2> HIDE DEF seen
    <2> QED
        BY <1>1 DEF Kid
<1>3. /\ open.st = "run" /\ open.prog = k.prog /\ open.in = new.in /\ open.out = new.out
      /\ open.ends = EndsLeft(new)
    <2> HIDE DEF seen
    <2> QED
        BY <1>1 DEF Kid
<1> HIDE DEF new, open
<1>4. ASSUME NEW i \in 1..Len(clist), Stage(clist, pipes, i, k)
      PROVE  Stage(clist, pipes, i, next)
    <2>1. /\ k.prog = clist[i].prog /\ k.redir = clist[i].redir
          /\ k.in = PipeIn(pipes, i) /\ k.out = PipeOut(clist, pipes, i)
          /\ k.own = Range(pipes) /\ k.ends = Both(Range(pipes))
        BY <1>1, <1>4 DEF Stage
    <2>2. new.in = StdIn(clist, pipes, i) /\ new.out = StdOut(clist, pipes, i)
        BY <1>2, <2>1 DEF StdIn, StdOut
    <2>3. EndsLeft(new) = EndsOn(StdIn(clist, pipes, i), StdOut(clist, pipes, i))
        BY <1>2, <2>1, <2>2 DEF EndsLeft, EndsOn
    <2>4. CASE k.prog \in {"missing", "exit"} \/ "nofile" \in seen
        BY <2>4, ZombieStage
    <2>5. CASE ~(k.prog \in {"missing", "exit"} \/ "nofile" \in seen)
        <3>1. next = open
            BY <2>5
        <3>2. open.prog \notin {"missing", "exit"} /\ "nofile" \notin Seen(clist[i].redir)
            BY <1>3, <2>1, <2>5
        <3> HIDE DEF next, seen, k
        <3> QED
            BY <1>3, <2>1, <2>2, <2>3, <3>1, <3>2 DEF Stage
    <2> QED
        BY <2>4, <2>5
<1>5. next.st # "none"
    BY <1>3, ZombieStage
<1> HIDE DEF next
<1> QED
    BY <1>1, <1>4, <1>5, KidKeepsClean DEF Exec

\* A running child that only reads, counts or writes.
LEMMA RunKeepsStage ==
    ASSUME NEW k, k.st = "run", NEW j, j.st = "run", j.prog = k.prog, j.in = k.in,
           j.out = k.out, j.ends = k.ends,
           NEW l, NEW ps, NEW i, Stage(l, ps, i, k)
    PROVE  Stage(l, ps, i, j)
BY DEF Stage

LEMMA TakeKeepsClean ==
    ASSUME CInv, faults = 0, NEW p \in Pids, Take(p) PROVE Clean'
<1> DEFINE k == kids[p]
           l == IF k.prog = "head" THEN k.left - 1 ELSE k.left
<1>1. k \in Kid /\ k.st = "run"
    BY DEF Take, Running, CInv, IInv, Stores
<1>2. \/ kids' = [kids EXCEPT ![p] = [k EXCEPT !.hand = 1, !.file = k.file - 1, !.left = l]]
      \/ kids' = [kids EXCEPT ![p] = [k EXCEPT !.hand = 1, !.left = l]]
    BY DEF Take, CInv, IInv, Stores, Kid
<1>3. ASSUME NEW j, kids' = [kids EXCEPT ![p] = j], j.st = "run", j.prog = k.prog, j.in = k.in,
             j.out = k.out, j.ends = k.ends
      PROVE  Clean'
    BY <1>1, <1>3, RunKeepsStage, KidKeepsClean DEF Take
<1> HIDE DEF l
<1>4. CASE kids' = [kids EXCEPT ![p] = [k EXCEPT !.hand = 1, !.file = k.file - 1, !.left = l]]
    <2> DEFINE j == [k EXCEPT !.hand = 1, !.file = k.file - 1, !.left = l]
    <2>1. j.st = "run" /\ j.prog = k.prog /\ j.in = k.in /\ j.out = k.out /\ j.ends = k.ends
        BY <1>1 DEF Kid
    <2> HIDE DEF j
    <2> QED
        BY <1>3, <1>4, <2>1 DEF j
<1>5. CASE kids' = [kids EXCEPT ![p] = [k EXCEPT !.hand = 1, !.left = l]]
    <2> DEFINE j == [k EXCEPT !.hand = 1, !.left = l]
    <2>1. j.st = "run" /\ j.prog = k.prog /\ j.in = k.in /\ j.out = k.out /\ j.ends = k.ends
        BY <1>1 DEF Kid
    <2> HIDE DEF j
    <2> QED
        BY <1>3, <1>5, <2>1 DEF j
<1> QED
    BY <1>2, <1>4, <1>5

LEMMA EndKeepsClean ==
    ASSUME CInv, faults = 0, NEW p \in Pids, kids[p].st = "run",
           kids' = [kids EXCEPT ![p] = Zombie],
           UNCHANGED <<spc, clist, pipes, pids, waited, ends>>
    PROVE  Clean'
BY ZombieStage, KidKeepsClean

LEMMA GiveKeepsClean ==
    ASSUME CInv, faults = 0, NEW p \in Pids, Give(p) PROVE Clean'
<1> DEFINE k == kids[p]
           j == Written(k)
<1>1. k \in Kid /\ k.st = "run"
    BY DEF Give, Running, CInv, IInv, Stores
<1>2. j.st = "run" /\ j.prog = k.prog /\ j.in = k.in /\ j.out = k.out /\ j.ends = k.ends
    BY <1>1 DEF Written, Kid
<1>3. kids' = [kids EXCEPT ![p] = j] \/ kids' = [kids EXCEPT ![p] = Zombie]
    BY DEF Give
<1>4. UNCHANGED <<spc, clist, pipes, pids, waited, ends>>
    BY DEF Give
<1> HIDE DEF j
<1>5. CASE kids' = [kids EXCEPT ![p] = j]
    BY <1>1, <1>2, <1>4, <1>5, RunKeepsStage, KidKeepsClean
<1>6. CASE kids' = [kids EXCEPT ![p] = Zombie]
    BY <1>1, <1>4, <1>6, EndKeepsClean
<1> QED
    BY <1>3, <1>5, <1>6

LEMMA FaultsGrow == ASSUME [Next]_vars PROVE faults' \in {faults, faults + 1}
<1>1. CASE UNCHANGED vars
    BY <1>1 DEF vars
<1>2. CASE ReadLine \/ EndOfInput \/ MakePipe \/ Fork
    BY <1>2 DEF ReadLine, EndOfInput, MakePipe, Fork, Works, Fails
<1>3. CASE CloseEnds \/ Wait
    BY <1>3 DEF CloseEnds, Wait
<1>4. CASE \E p \in Pids : KidStep(p)
    BY <1>4 DEF KidStep, Exec, Take, Give, Finish
<1> QED
    BY <1>1, <1>2, <1>3, <1>4 DEF Next, ShellStep

LEMMA CleanStep == ASSUME Enough, CInv, [Next]_vars PROVE CInv'
<1>1. IInv' /\ faults' \in Nat
    BY InvStep, FaultsGrow DEF CInv
<1> SUFFICES ASSUME faults' = 0 PROVE Clean'
    BY <1>1 DEF CInv
<1>2. faults = 0 /\ Clean
    BY FaultsGrow DEF CInv
<1>3. CASE UNCHANGED vars
    BY <1>2, <1>3 DEF vars, Clean, Gone, AtPrompt, Forking, Waiting, Staged, Listed, Injective
<1>4. CASE ReadLine
    BY <1>2, <1>4, ReadLineKeepsClean
<1>5. CASE EndOfInput
    BY <1>2, <1>5 DEF EndOfInput, Clean, Gone, AtPrompt, Forking, Waiting, Staged, Listed, Injective
<1>6. CASE ShellStep
    BY <1>2, <1>6, MakePipeKeepsClean, ForkKeepsClean, CloseEndsKeepsClean, WaitKeepsClean DEF ShellStep
<1>7. CASE \E p \in Pids : KidStep(p)
    <2>1. PICK p \in Pids : KidStep(p)
        BY <1>7
    <2>2. CASE Finish(p)
        BY <1>2, <2>2, EndKeepsClean DEF Finish
    <2> QED
        BY <1>2, <2>1, <2>2, ExecKeepsClean, TakeKeepsClean, GiveKeepsClean DEF KidStep
<1> QED
    BY <1>3, <1>4, <1>5, <1>6, <1>7 DEF Next

LEMMA CleanHolds == ASSUME Enough PROVE Spec => []CInv
<1>1. Init => CInv
    BY InvInit, CleanInit DEF CInv, Init
<1>2. CInv /\ [Next]_vars => CInv'
    BY CleanStep
<1> QED
    BY <1>1, <1>2, PTL DEF Spec

\* With the pipes and children one line needs, any number of lines leave neither
\* a descriptor nor a zombie behind when no call fails: what a line used is free
\* again at the prompt, so the next line finds enough too.
THEOREM PromptClean == ASSUME Enough PROVE Spec => []PromptIsClean
<1>1. CInv => PromptIsClean
    BY DEF CInv, Clean, AtPrompt, PromptIsClean
<1> QED
    BY <1>1, CleanHolds, PTL

----------------------------------------------------------------------------
(* What a line puts on the terminal *)

\* Sums are told apart up to Items + 1, as on the screen.
Sat(n) == IF n > Items THEN Items + 1 ELSE n

Least(m, n) == IF m < n THEN m ELSE n

\* What a running child has still to write if s items are still to come.
RunRest(k, s) ==
    LET source == IF k.in = "file" THEN k.file ELSE s IN
    CASE k.prog = "gen" -> k.left
      [] k.prog = "yes" -> Items + 1
      [] k.prog = "cat" -> Sat(k.hand + source)
      [] k.prog = "head" -> Sat(k.hand + Least(k.left, source))
      [] OTHER -> 0

\* What the child of command c has still to pass on.
KidRest(c, k, s) ==
    CASE k.st = "born" -> Passes(c, s)
      [] k.st = "run" /\ k.out # "file" -> RunRest(k, s)
      [] OTHER -> 0

\* The same for command i of line l, of which the children cs are forked and
\* the first w of them waited for.
Rest(l, cs, w, ks, i, s) ==
    IF i > Len(cs) THEN Passes(l[i], s) ELSE IF i <= w THEN 0 ELSE KidRest(l[i], ks[cs[i]], s)

\* What is still to come out of pipe j: what is in it and what command j passes on.
Supply(d, ps, rem, j) == Sat((IF j \in 1..Len(ps) THEN d[ps[j]] ELSE 0) + rem[j])

\* rem[i] is what command i has still to pass on; with what the screen shows
\* the last one makes the output of the line.
Flow(rem) ==
    /\ rem \in [0..Len(clist) -> 0..(Items + 1)]
    /\ rem[0] = 0
    /\ \A i \in 1..Len(clist) :
          rem[i] = Rest(clist, pids, waited, kids, i, Supply(data, pipes, rem, i - 1))
    /\ Sat(screen + rem[Len(clist)]) = Output(clist)

\* What nobody holds is empty.
Drained == \A x \in Pipes : <<x, "r">> \notin Held /\ <<x, "w">> \notin Held => data[x] = 0

Composed ==
    /\ screen \in 0..(Items + 1)
    /\ Drained
    /\ spc \in {"pipe", "wait"} => \E rem \in [0..Len(clist) -> 0..(Items + 1)] : Flow(rem)
    /\ OutputIsComposed

OInv == CInv /\ (faults = 0 => Composed)

LEMMA SatFacts ==
    /\ \A n \in Nat : Sat(n) \in 0..(Items + 1)
    /\ \A n \in 0..(Items + 1) : Sat(n) = n
    /\ \A m, n \in Nat : Sat(m + Sat(n)) = Sat(m + n)
    /\ \A m, n \in Nat : Sat(Sat(m) + n) = Sat(m + n)
BY PipelineAssumption DEF Sat

LEMMA PassesType ==
    ASSUME NEW c, NEW s \in 0..(Items + 1) PROVE Passes(c, s) \in 0..(Items + 1)
<1>1. Reads(c, s) \in 0..(Items + 1)
    BY PipelineAssumption DEF Reads
<1>2. Writes(c, s) \in 0..(Items + 1)
    BY <1>1, PipelineAssumption DEF Writes
<1>3. 0 \in 0..(Items + 1)
    BY PipelineAssumption
<1> QED
    BY <1>2, <1>3 DEF Passes

\* What the commands yield one after the other is defined for every line.
LEMMA OutputFlows ==
    ASSUME NEW l \in Seq(Command)
    PROVE  \E f \in [0..Len(l) -> 0..(Items + 1)] :
              /\ f[0] = 0
              /\ \A i \in 1..Len(l) : f[i] = Passes(l[i], f[i - 1])
              /\ f[Len(l)] = Output(l)
<1> DEFINE n == Len(l)
           Makes(m, f) == f = [i \in 0..m |-> IF i = 0 THEN 0 ELSE Passes(l[i], f[i - 1])]
           S == {m \in Nat : \E f : Makes(m, f)}
           g == CHOOSE f : Makes(n, f)
<1>1. n \in Nat
    OBVIOUS
<1>2. S = Nat
    <2>1. 0 \in S
        <3>1. Makes(0, [i \in 0..0 |-> 0])
            OBVIOUS
        <3> QED
            BY <3>1
    <2>2. ASSUME NEW m \in S
          PROVE  m + 1 \in S
        <3>1. PICK f : Makes(m, f)
            OBVIOUS
        <3> DEFINE h == [i \in 0..(m + 1) |-> IF i = 0 THEN 0 ELSE Passes(l[i], f[i - 1])]
        <3>2. m \in Nat
            OBVIOUS
        <3>3. \A i \in 0..m : h[i] = f[i]
            BY <3>1, <3>2
        <3>4. \A i \in 0..(m + 1) : i # 0 => i - 1 \in 0..m
            BY <3>2
        <3>5. h = [i \in 0..(m + 1) |-> IF i = 0 THEN 0 ELSE Passes(l[i], h[i - 1])]
            BY <3>3, <3>4
        <3>6. Makes(m + 1, h)
            BY <3>5
        <3>7. m + 1 \in Nat
            BY <3>2
        <3> HIDE DEF h, Makes
        <3> QED
            BY <3>6, <3>7
    <2> HIDE DEF S
    <2>3. S \in SUBSET Nat
        BY DEF S
    <2> QED
        BY <2>1, <2>2, <2>3, AllNat
<1>3. Makes(n, g)
    <2>1. \E f : Makes(n, f)
        BY <1>1, <1>2
    <2> HIDE DEF Makes
    <2> QED
        BY <2>1, Zenon
<1>4. Output(l) = g[n]
    BY DEF Output
<1> HIDE DEF g
<1>5. g[0] = 0 /\ (\A i \in 1..n : g[i] = Passes(l[i], g[i - 1])) /\ DOMAIN g = 0..n
    BY <1>1, <1>3
<1>6. \A m \in 0..n : g[m] \in 0..(Items + 1)
    <2> DEFINE U == {m \in Nat : m <= n => g[m] \in 0..(Items + 1)}
    <2>1. 0 \in U
        BY <1>5, PipelineAssumption
    <2>2. ASSUME NEW m \in U
          PROVE  m + 1 \in U
        <3>1. CASE m + 1 <= n
            <4>1. g[m] \in 0..(Items + 1) /\ m + 1 \in 1..n /\ (m + 1) - 1 = m
                BY <1>1, <3>1
            <4>2. g[m + 1] = Passes(l[m + 1], g[m])
                BY <1>5, <4>1
            <4> QED
                BY <4>1, <4>2, PassesType
        <3>2. CASE ~(m + 1 <= n)
            BY <3>2
        <3> QED
            BY <3>1, <3>2
    <2>3. U \in SUBSET Nat
        OBVIOUS
    <2> HIDE DEF U
    <2>4. U = Nat
        BY <2>1, <2>2, <2>3, AllNat
    <2> QED
        BY <1>1, <2>4 DEF U
<1>7. g \in [0..n -> 0..(Items + 1)]
    BY <1>3, <1>6
<1> QED
    BY <1>4, <1>5, <1>7

LEMMA RestType ==
    ASSUME NEW k \in Kid, NEW c, NEW s \in 0..(Items + 1)
    PROVE  KidRest(c, k, s) \in 0..(Items + 1)
<1>1. k.hand \in Nat /\ k.left \in 0..(Items + 1) /\ k.file \in Nat /\ Items \in Nat
    <2>1. k.hand \in 0..1 /\ k.left \in 0..(Items + 1) /\ k.file \in 0..Items
        BY DEF Kid
    <2> QED
        BY <2>1, PipelineAssumption
<1>2. Passes(c, s) \in 0..(Items + 1)
    BY PassesType
<1> DEFINE src == IF k.in = "file" THEN k.file ELSE s
<1>3. src \in Nat
    BY <1>1
<1>4. k.hand + src \in Nat /\ k.hand + Least(k.left, src) \in Nat
    BY <1>1, <1>3 DEF Least
<1>5. Sat(k.hand + src) \in 0..(Items + 1) /\ Sat(k.hand + Least(k.left, src)) \in 0..(Items + 1)
    BY <1>4, SatFacts
<1>6. 0 \in 0..(Items + 1) /\ Items + 1 \in 0..(Items + 1)
    BY <1>1
<1>7. RunRest(k, s) \in 0..(Items + 1)
    BY <1>1, <1>5, <1>6 DEF RunRest
<1> QED
    BY <1>2, <1>6, <1>7 DEF KidRest

\* Who does not hold the pipe in front of it does not read from it any more.
LEMMA DeafKid ==
    ASSUME NEW l, NEW ps, NEW i, NEW k, Stage(l, ps, i, k), i > 1,
           ps[i - 1] \in Pipes, ps[i - 1] \in Range(ps), <<ps[i - 1], "r">> \notin k.ends
    PROVE  \A c, s, t : KidRest(c, k, s) = KidRest(c, k, t)
<1>1. k.st # "born"
    BY DEF Stage, Both
<1>2. CASE k.st = "run"
    <2>1. k.in = "file"
        BY <1>2 DEF Stage, StdIn, PipeIn, EndsOn
    <2>2. \A s, t : RunRest(k, s) = RunRest(k, t)
        BY <2>1 DEF RunRest
    <2> QED
        BY <1>2, <2>2 DEF KidRest
<1>3. CASE k.st # "run"
    BY <1>1, <1>3 DEF KidRest
<1> QED
    BY <1>2, <1>3

\* Who does not hold the pipe behind it has nothing to pass on any more.
LEMMA MuteKid ==
    ASSUME NEW l, NEW ps, NEW i, NEW k, Stage(l, ps, i, k), i < Len(l),
           ps[i] \in Pipes, ps[i] \in Range(ps), <<ps[i], "w">> \notin k.ends
    PROVE  \A c, s : KidRest(c, k, s) = 0
<1>1. k.st # "born"
    BY DEF Stage, Both
<1>2. CASE k.st = "run"
    <2>1. k.out = "file"
        BY <1>2 DEF Stage, StdOut, PipeOut, EndsOn
    <2> QED
        BY <1>2, <2>1 DEF KidRest
<1>3. CASE k.st # "run"
    BY <1>1, <1>3 DEF KidRest
<1> QED
    BY <1>2, <1>3

\* Of what a child passes on, none is lost or made when it writes an item.
LEMMA WrittenRest ==
    ASSUME NEW k \in Kid, k.st = "run", k.out # "file", HasItem(k),
           k.prog \in {"gen", "yes", "cat", "head"}, k.prog = "gen" => k.hand = 0,
           NEW c, NEW s \in 0..(Items + 1)
    PROVE  KidRest(c, k, s) = Sat(1 + KidRest(c, Written(k), s))
<1> DEFINE j == Written(k)
           src == IF k.in = "file" THEN k.file ELSE s
<1>1. /\ k.hand \in 0..1 /\ k.left \in 0..(Items + 1) /\ k.file \in 0..Items /\ Items \in Nat
      /\ src \in Nat
    <2>1. k.hand \in 0..1 /\ k.left \in 0..(Items + 1) /\ k.file \in 0..Items
        BY DEF Kid
    <2> QED
        BY <2>1, PipelineAssumption
<1>2. /\ j.st = "run" /\ j.out # "file" /\ j.prog = k.prog /\ j.in = k.in /\ j.file = k.file
      /\ j.hand = 0 /\ j.left = IF k.prog = "gen" THEN k.left - 1 ELSE k.left
    BY DEF Written, Kid
<1> HIDE DEF j, src
<1>3. KidRest(c, k, s) = RunRest(k, s) /\ KidRest(c, j, s) = RunRest(j, s)
    BY <1>2 DEF KidRest
<1>4. CASE k.prog = "gen"
    <2>1. RunRest(k, s) = k.left /\ RunRest(j, s) = k.left - 1 /\ k.left > 0
        BY <1>2, <1>4 DEF RunRest, HasItem
    <2> QED
        BY <1>1, <1>3, <2>1 DEF Sat, j
<1>5. CASE k.prog = "yes"
    <2>1. RunRest(k, s) = Items + 1 /\ RunRest(j, s) = Items + 1
        BY <1>2, <1>5 DEF RunRest
    <2> QED
        BY <1>1, <1>3, <2>1 DEF Sat, j
<1>6. CASE k.prog = "cat"
    <2>1. RunRest(k, s) = Sat(1 + src) /\ RunRest(j, s) = Sat(0 + src)
        BY <1>2, <1>6 DEF RunRest, HasItem, src
    <2> QED
        BY <1>1, <1>3, <2>1, SatFacts DEF j
<1>7. CASE k.prog = "head"
    <2>1. RunRest(k, s) = Sat(1 + Least(k.left, src)) /\ RunRest(j, s) = Sat(0 + Least(k.left, src))
        BY <1>2, <1>7 DEF RunRest, HasItem, src
    <2>2. Least(k.left, src) \in Nat
        BY <1>1 DEF Least
    <2> QED
        BY <1>1, <1>3, <2>1, <2>2, SatFacts DEF j
<1> QED
    BY <1>4, <1>5, <1>6, <1>7

\* Nor when it reads one.
LEMMA TakenRest ==
    ASSUME NEW k \in Kid, k.st = "run", k.prog \in {"cat", "head"}, k.hand = 0,
           k.prog = "head" => k.left > 0,
           NEW j \in Kid, j.st = "run", j.out = k.out, j.prog = k.prog, j.in = k.in, j.hand = 1,
           j.left = IF k.prog = "head" THEN k.left - 1 ELSE k.left,
           NEW s \in 0..(Items + 1), NEW t \in Nat,
           k.in = "file" => k.file > 0 /\ j.file = k.file - 1,
           k.in # "file" => s = Sat(t + 1), NEW c
    PROVE  KidRest(c, k, s) = KidRest(c, j, Sat(t))
<1> DEFINE src == IF k.in = "file" THEN k.file ELSE s
           rest == IF k.in = "file" THEN k.file - 1 ELSE Sat(t)
<1>1. k.left \in 0..(Items + 1) /\ k.file \in 0..Items /\ Items \in Nat
    <2>1. k.left \in 0..(Items + 1) /\ k.file \in 0..Items
        BY DEF Kid
    <2> QED
        BY <2>1, PipelineAssumption
<1>2. /\ src \in 0..(Items + 1) /\ rest \in Nat
      /\ src = rest + 1 \/ (src = Items + 1 /\ rest = Items + 1)
    <2>1. CASE k.in = "file"
        BY <1>1, <2>1
    <2>2. CASE k.in # "file"
        BY <1>1, <2>2 DEF Sat
    <2> QED
        BY <2>1, <2>2
<1>3. CASE k.out = "file"
    BY <1>3 DEF KidRest
<1>4. CASE k.out # "file"
    <2>1. KidRest(c, k, s) = RunRest(k, s) /\ KidRest(c, j, Sat(t)) = RunRest(j, Sat(t))
        BY <1>4 DEF KidRest
    <2>2. CASE k.prog = "cat"
        <3>1. RunRest(k, s) = Sat(0 + src)
            BY <2>2 DEF RunRest
        <3>2. RunRest(j, Sat(t)) = Sat(1 + rest)
            BY <2>2 DEF RunRest
        <3> HIDE DEF src, rest
        <3> QED
            BY <1>1, <1>2, <2>1, <3>1, <3>2 DEF Sat
    <2>3. CASE k.prog = "head"
        <3>1. RunRest(k, s) = Sat(0 + Least(k.left, src))
            BY <2>3 DEF RunRest
        <3>2. RunRest(j, Sat(t)) = Sat(1 + Least(k.left - 1, rest))
            BY <2>3 DEF RunRest
        <3> HIDE DEF src, rest
        <3>3. 0 + Least(k.left, src) = 1 + Least(k.left - 1, rest)
            BY <1>1, <1>2, <2>3 DEF Least
        <3> QED
            BY <2>1, <3>1, <3>2, <3>3
    <2> QED
        BY <2>2, <2>3
<1> QED
    BY <1>3, <1>4

\* j is what execvp makes of the child k, its ends aside.
Started(k, j) ==
    IF k.prog \in {"missing", "exit"} \/ "nofile" \in Seen(k.redir) THEN j = Zombie
    ELSE /\ j.st = "run" /\ j.prog = k.prog /\ j.hand = 0
         /\ j.in = IF "in" \in Seen(k.redir) THEN "file" ELSE k.in
         /\ j.out = IF Seen(k.redir) \cap {"out", "app"} # {} THEN "file" ELSE k.out
         /\ j.file = IF "in" \in Seen(k.redir) THEN Items ELSE 0
         /\ j.left = CASE k.prog = "gen" -> Items [] k.prog = "head" -> 1 [] OTHER -> 0

\* A child that has started passes on what its command does.
LEMMA StartedRest ==
    ASSUME NEW k \in Kid, k.st = "born", NEW c \in Command, k.prog = c.prog, k.redir = c.redir,
           k.out # "file", k.in # "file", k.hand = 0,
           NEW j \in Kid, Started(k, j), NEW s \in 0..(Items + 1)
    PROVE  KidRest(c, k, s) = KidRest(c, j, s)
<1> USE DEF Started
<1> DEFINE seen == Seen(c.redir)
<1>1. KidRest(c, k, s) = Passes(c, s)
    BY DEF KidRest
<1>2. CASE k.prog \in {"missing", "exit"}
    <2>1. Writes(c, s) = 0
        BY <1>2 DEF Writes
    <2>2. KidRest(c, j, s) = 0
        BY <1>2, ZombieStage DEF KidRest
    <2> QED
        BY <1>1, <2>1, <2>2 DEF Passes
<1>3. CASE "nofile" \in seen
    <2>1. seen \cap {"out", "app", "nofile"} # {}
        BY <1>3
    <2>2. KidRest(c, j, s) = 0
        BY <1>3, ZombieStage DEF KidRest
    <2> HIDE DEF seen
    <2> QED
        BY <1>1, <2>1, <2>2 DEF Passes, seen
<1>4. CASE ~(k.prog \in {"missing", "exit"}) /\ "nofile" \notin seen /\ seen \cap {"out", "app"} # {}
    <2>1. seen \cap {"out", "app", "nofile"} # {}
        BY <1>4
    <2>2. KidRest(c, j, s) = 0
        BY <1>4 DEF KidRest
    <2> HIDE DEF seen
    <2> QED
        BY <1>1, <2>1, <2>2 DEF Passes, seen
<1>5. CASE ~(k.prog \in {"missing", "exit"}) /\ "nofile" \notin seen /\ seen \cap {"out", "app"} = {}
    <2>1. seen \cap {"out", "app", "nofile"} = {}
        BY <1>5
    <2>2. Passes(c, s) = Writes(c, s)
        BY <2>1, Zenon DEF Passes
    <2>3. j.out # "file" /\ KidRest(c, j, s) = RunRest(j, s)
        BY <1>5 DEF KidRest
    <2> DEFINE src == IF j.in = "file" THEN j.file ELSE s
    <2>4. src = Reads(c, s) /\ src \in 0..(Items + 1) /\ Items \in Nat
        BY <1>5, PipelineAssumption DEF Reads
    <2>5. k.prog \in {"gen", "yes", "cat", "head"}
        BY <1>5 DEF Command, Programs
    <2> HIDE DEF seen, src
    <2>6. CASE k.prog = "gen"
        BY <1>5, <2>6 DEF RunRest, Writes, KidRest, seen, Passes
    <2>7. CASE k.prog = "yes"
        BY <1>1, <1>5, <2>2, <2>3, <2>7 DEF RunRest, Writes, seen
    <2>8. CASE k.prog = "cat"
        <3>1. RunRest(j, s) = Sat(0 + src)
            BY <1>5, <2>8 DEF RunRest, seen, src
        <3>2. Writes(c, s) = src
            BY <2>4, <2>8 DEF Writes
        <3> QED
            BY <1>1, <2>2, <2>3, <2>4, <3>1, <3>2 DEF Sat
    <2>9. CASE k.prog = "head"
        <3>1. RunRest(j, s) = Sat(0 + Least(1, src))
            BY <1>5, <2>9 DEF RunRest, seen, src
        <3>2. Writes(c, s) = IF src > 0 THEN 1 ELSE 0
            BY <2>4, <2>9 DEF Writes
        <3> QED
            BY <1>1, <2>2, <2>3, <2>4, <3>1, <3>2 DEF Sat, Least
    <2> QED
        BY <2>5, <2>6, <2>7, <2>8, <2>9
<1> QED
    BY <1>2, <1>3, <1>4, <1>5

\* Behind a pipe nobody can read from, nothing depends on what is in it.
LEMMA DeafStage ==
    ASSUME CInv, NEW ks, \A i \in (waited + 1)..Len(pids) : Stage(clist, pipes, i, ks[pids[i]]),
           Len(pids) = Len(clist), Len(pipes) = Len(clist) - 1,
           NEW j \in 1..Len(pipes), \A p \in Pids : <<pipes[j], "r">> \notin ks[p].ends
    PROVE  \A s, t : Rest(clist, pids, waited, ks, j + 1, s) = Rest(clist, pids, waited, ks, j + 1, t)
<1> DEFINE m == j + 1
           k == ks[pids[m]]
<1>1. /\ m \in 1..Len(pids) /\ m > 1 /\ m - 1 = j /\ waited \in Nat /\ m \in Nat
      /\ pipes \in Seq(Pipes) /\ pids \in Seq(Pids)
    BY DEF CInv, IInv, Stores
<1> HIDE DEF m
<1>2. CASE m <= waited
    BY <1>1, <1>2 DEF Rest, m
<1>3. CASE ~(m <= waited)
    <2>1. m \in (waited + 1)..Len(pids) /\ pids[m] \in Pids
        BY <1>1, <1>3
    <2>2. pipes[j] \in Pipes /\ pipes[j] \in Range(pipes)
        BY <1>1, RangeHolds
    <2>3. Stage(clist, pipes, m, k) /\ <<pipes[m - 1], "r">> \notin k.ends
        BY <1>1, <2>1
    <2> HIDE DEF k
    <2>4. \A c, s, t : KidRest(c, k, s) = KidRest(c, k, t)
        BY <1>1, <2>2, <2>3, DeafKid
    <2>5. \A s : Rest(clist, pids, waited, ks, m, s) = KidRest(clist[m], k, s)
        BY <1>1, <1>3 DEF Rest, k
    <2> QED
        BY <2>4, <2>5 DEF m
<1> QED
    BY <1>2, <1>3

\* The same after a step: what was emptied, or is not read any more.
LEMMA NotRead ==
    ASSUME CInv, CInv', faults' = 0, UNCHANGED <<clist, pipes, pids, waited>>,
           spc' \in {"pipe", "wait"}, Len(pipes) = Len(clist) - 1,
           NEW j \in 1..Len(pipes), <<pipes[j], "r">> \notin Held'
    PROVE  \A s, t : Rest(clist, pids, waited, kids', j + 1, s)
                         = Rest(clist, pids, waited, kids', j + 1, t)
<1>1. <<pipes[j], "r">> \notin ends' /\ \A p \in Pids : <<pipes[j], "r">> \notin kids'[p].ends
    BY DEF Held
<1>2. Clean'
    BY DEF CInv
<1>3. spc' # "pipe"
    <2>1. pipes[j] \in Range(pipes)
        BY RangeHolds DEF CInv, IInv, Stores
    <2>2. <<pipes[j], "r">> \in Both(Range(pipes))
        BY <2>1 DEF Both
    <2> QED
        BY <1>1, <1>2, <2>2 DEF Clean, Forking
<1>4. Len(pids) = Len(clist)
    BY <1>2, <1>3 DEF Clean, Waiting
<1>5. \A i \in (waited + 1)..Len(pids) : Stage(clist, pipes, i, kids'[pids[i]])
    BY <1>2 DEF Clean, Staged
<1> QED
    BY <1>1, <1>4, <1>5, DeafStage

LEMMA DrainDrains == ASSUME Stores, Drain PROVE Drained'
BY DEF Stores, Drain, Drained

LEMMA Drains ==
    ASSUME Stores, Drain, NEW x \in Pipes, data'[x] # data[x] PROVE <<x, "r">> \notin Held'
BY DEF Stores, Drain

LEMMA SupplyType ==
    ASSUME NEW d \in [Pipes -> 0..PipeSize], NEW ps \in Seq(Pipes), NEW n \in Nat,
           NEW rem \in [0..n -> 0..(Items + 1)], NEW j \in 0..n
    PROVE  /\ Supply(d, ps, rem, j) \in 0..(Items + 1)
           /\ j \in 1..Len(ps) => d[ps[j]] \in Nat /\ Supply(d, ps, rem, j) = Sat(d[ps[j]] + rem[j])
           /\ j \notin 1..Len(ps) => Supply(d, ps, rem, j) = Sat(rem[j])
<1>1. rem[j] \in Nat /\ PipeSize \in Nat
    BY PipelineAssumption
<1>2. j \in 1..Len(ps) => d[ps[j]] \in Nat
    BY <1>1
<1>3. (IF j \in 1..Len(ps) THEN d[ps[j]] ELSE 0) + rem[j] \in Nat
    BY <1>1, <1>2
<1>4. Supply(d, ps, rem, j) \in 0..(Items + 1)
    BY <1>3, SatFacts DEF Supply
<1>5. /\ j \in 1..Len(ps) => Supply(d, ps, rem, j) = Sat(d[ps[j]] + rem[j])
      /\ j \notin 1..Len(ps) => Supply(d, ps, rem, j) = Sat(rem[j])
    BY <1>1 DEF Supply
<1> QED
    BY <1>2, <1>4, <1>5

\* After a step that makes k of the child of command i, r is what the commands
\* have still to pass on: each behind it has the same to come, or does not read it.
Onward(rem, r, i, k) ==
    /\ r \in [0..Len(clist) -> 0..(Items + 1)]
    /\ \A j \in 0..Len(clist) : j # i => r[j] = rem[j]
    /\ r[i] = KidRest(clist[i], k, Supply(data', pipes, r, i - 1))
    /\ \A j \in 1..Len(clist) : j # i =>
          \/ Supply(data', pipes, r, j - 1) = Supply(data, pipes, rem, j - 1)
          \/ \A s, t : Rest(clist, pids, waited, kids', j, s) = Rest(clist, pids, waited, kids', j, t)
    /\ Sat(screen' + r[Len(clist)]) = Sat(screen + rem[Len(clist)])

LEMMA StepFlow ==
    ASSUME CInv, CInv', NEW rem, Flow(rem), UNCHANGED <<clist, pipes, pids, waited>>,
           NEW i \in (waited + 1)..Len(pids), NEW k, kids' = [kids EXCEPT ![pids[i]] = k],
           Injective(pids), NEW r, Onward(rem, r, i, k)
    PROVE  \E q \in [0..Len(clist) -> 0..(Items + 1)] : Flow(q)'
<1> USE DEF Onward
<1>1. /\ i \in 1..Len(pids) /\ i \in 1..Len(clist) /\ ~(i <= waited) /\ ~(i > Len(pids))
      /\ pids \in Seq(Pids) /\ Len(clist) \in Nat /\ kids \in [Pids -> Kid]
    BY DEF CInv, IInv, Stores, Place
<1>2. r \in [0..Len(clist) -> 0..(Items + 1)] /\ r[0] = 0
    BY <1>1 DEF Flow
<1>3. /\ r[i] = KidRest(clist[i], k, Supply(data', pipes, r, i - 1))
      /\ \A j \in 0..Len(clist) : j # i => r[j] = rem[j]
    OBVIOUS
<1>4. ASSUME NEW j \in 1..Len(clist)
      PROVE  r[j] = Rest(clist, pids, waited, kids', j, Supply(data', pipes, r, j - 1))
    <2>1. CASE j = i
        <3>1. kids'[pids[i]] = k
            BY <1>1
        <3> QED
            BY <1>1, <1>3, <2>1, <3>1 DEF Rest
    <2>2. CASE j # i
        <3>1. j \in 1..Len(pids) => kids'[pids[j]] = kids[pids[j]]
            BY <1>1, <2>2 DEF Injective
        <3>2. j > waited /\ ~(j > Len(pids)) => j \in 1..Len(pids)
            BY <1>1
        <3>3. \A s : Rest(clist, pids, waited, kids', j, s) = Rest(clist, pids, waited, kids, j, s)
            BY <3>1, <3>2, <1>1 DEF Rest, CInv, IInv, Stores
        <3>4. rem[j] = Rest(clist, pids, waited, kids, j, Supply(data, pipes, rem, j - 1))
            BY DEF Flow
        <3> DEFINE new == Supply(data', pipes, r, j - 1)
                   old == Supply(data, pipes, rem, j - 1)
                   Now(s) == Rest(clist, pids, waited, kids', j, s)
        <3>5. r[j] = Now(old)
            <4>1. r[j] = rem[j]
                BY <1>1, <1>3, <2>2
            <4> QED
                BY <3>3, <3>4, <4>1, Zenon
        <3>6. new = old \/ \A s, t : Now(s) = Now(t)
            BY <2>2
        <3> HIDE DEF new, old, Now
        <3>7. r[j] = Now(new)
            BY <3>5, <3>6
        <3> QED
            BY <3>7 DEF new, Now
    <2> QED
        BY <2>1, <2>2
<1>5. Sat(screen' + r[Len(clist)]) = Output(clist)
    BY DEF Flow
<1>6. Flow(r)'
    BY <1>2, <1>4, <1>5 DEF Flow
<1> QED
    BY <1>2, <1>6

LEMMA DrainedSupply ==
    ASSUME CInv, CInv', faults' = 0, UNCHANGED <<clist, pipes, pids, waited>>,
           spc' \in {"pipe", "wait"}, Len(pipes) = Len(clist) - 1, Drain,
           NEW rem, NEW j \in 1..Len(clist)
    PROVE  \/ Supply(data', pipes, rem, j - 1) = Supply(data, pipes, rem, j - 1)
           \/ \A s, t : Rest(clist, pids, waited, kids', j, s) = Rest(clist, pids, waited, kids', j, t)
<1>1. Stores /\ pipes \in Seq(Pipes) /\ Len(clist) \in Nat
    BY DEF CInv, IInv, Stores
<1>2. CASE j - 1 \in 1..Len(pipes) /\ data'[pipes[j - 1]] # data[pipes[j - 1]]
    <2> DEFINE m == j - 1
    <2>1. m \in 1..Len(pipes) /\ pipes[m] \in Pipes /\ j = m + 1
        BY <1>1, <1>2
    <2> HIDE DEF m
    <2>2. <<pipes[m], "r">> \notin Held'
        BY <1>1, <1>2, <2>1, Drains DEF m
    <2>3. \A s, t : Rest(clist, pids, waited, kids', m + 1, s) = Rest(clist, pids, waited, kids', m + 1, t)
        BY <2>1, <2>2, NotRead
    <2> QED
        BY <2>1, <2>3, Zenon
<1>3. CASE ~(j - 1 \in 1..Len(pipes) /\ data'[pipes[j - 1]] # data[pipes[j - 1]])
    BY <1>3 DEF Supply
<1> QED
    BY <1>2, <1>3

\* The child's command, its place in the line, and what it has still to pass on.
LEMMA KidPlace ==
    ASSUME CInv, faults = 0, spc \in {"pipe", "wait"}, NEW p \in Pids, kids[p].st # "none"
    PROVE  /\ Len(pipes) = Len(clist) - 1 /\ Injective(pids) /\ Injective(pipes)
           /\ \E i \in (waited + 1)..Len(pids) :
                 /\ p = pids[i] /\ i \in 1..Len(clist)
                 /\ Stage(clist, pipes, i, kids[p])
                 /\ \A rem : Flow(rem) =>
                       rem[i] = KidRest(clist[i], kids[p], Supply(data, pipes, rem, i - 1))
<1>1. Clean
    BY DEF CInv
<1>2. PICK i \in (waited + 1)..Len(pids) : p = pids[i]
    BY <1>1 DEF Clean, Listed
<1>3. i \in 1..Len(clist) /\ pids # <<>> /\ ~(i <= waited) /\ ~(i > Len(pids))
    BY <1>2 DEF CInv, IInv, Stores, Place
<1>4. Len(pipes) = Len(clist) - 1
    BY <1>1, <1>3 DEF Clean, Forking, Waiting
<1>5. Stage(clist, pipes, i, kids[p])
    BY <1>1, <1>2 DEF Clean, Staged
<1>6. ASSUME NEW rem, Flow(rem)
      PROVE  rem[i] = KidRest(clist[i], kids[p], Supply(data, pipes, rem, i - 1))
    <2>1. rem[i] = Rest(clist, pids, waited, kids, i, Supply(data, pipes, rem, i - 1))
        BY <1>3, <1>6 DEF Flow
    <2> QED
        BY <1>2, <1>3, <2>1 DEF Rest
<1> QED
    BY <1>1, <1>2, <1>3, <1>4, <1>5, <1>6 DEF Clean

LEMMA ExecFlow ==
    ASSUME CInv, CInv', faults = 0, spc \in {"pipe", "wait"}, NEW p \in Pids, Exec(p),
           NEW rem, Flow(rem)
    PROVE  \E q \in [0..Len(clist) -> 0..(Items + 1)] : Flow(q)'
<1> DEFINE k == kids[p]
           seen == Seen(k.redir)
           new == [k EXCEPT !.st = "run",
                         !.in = IF "in" \in seen THEN "file" ELSE k.in,
                         !.out = IF seen \cap {"out", "app"} # {} THEN "file" ELSE k.out,
                         !.file = IF "in" \in seen THEN Items ELSE 0,
                         !.left = CASE k.prog = "gen" -> Items [] k.prog = "head" -> 1
                                    [] OTHER -> 0]
           open == [new EXCEPT !.ends = EndsLeft(new)]
           next == IF k.prog \in {"missing", "exit"} \/ "nofile" \in seen THEN Zombie ELSE open
<1>1. /\ k.st = "born" /\ kids' = [kids EXCEPT ![p] = next] /\ Drain
      /\ UNCHANGED <<spc, clist, pipes, pids, waited, ends, screen, typed, faults>>
    BY DEF Exec
<1>2. PICK i \in (waited + 1)..Len(pids) :
         /\ p = pids[i] /\ i \in 1..Len(clist) /\ Stage(clist, pipes, i, k)
         /\ \A q : Flow(q) => q[i] = KidRest(clist[i], k, Supply(data, pipes, q, i - 1))
    BY <1>1, KidPlace
<1>3. Len(pipes) = Len(clist) - 1 /\ Injective(pids)
    BY <1>1, KidPlace
<1>4. k \in Kid /\ next \in Kid /\ clist[i] \in Command /\ Len(clist) \in Nat
    <2>1. kids' \in [Pids -> Kid] /\ kids \in [Pids -> Kid] /\ clist \in Seq(Command)
        BY <1>1 DEF CInv, IInv, Stores
    <2> HIDE DEF next
    <2> QED
        BY <1>1, <1>2, <2>1
<1>5. /\ open.st = "run" /\ open.prog = k.prog /\ open.hand = k.hand
      /\ open.in = IF "in" \in seen THEN "file" ELSE k.in
      /\ open.out = IF seen \cap {"out", "app"} # {} THEN "file" ELSE k.out
      /\ open.file = IF "in" \in seen THEN Items ELSE 0
      /\ open.left = CASE k.prog = "gen" -> Items [] k.prog = "head" -> 1 [] OTHER -> 0
    <2> HIDE DEF seen
    <2> QED
        BY <1>4 DEF Kid
<1> DEFINE c == clist[i]
<1>6. /\ k.prog = c.prog /\ k.redir = c.redir /\ k.hand = 0
      /\ k.in = PipeIn(pipes, i) /\ k.out = PipeOut(clist, pipes, i)
    BY <1>1, <1>2 DEF Stage
<1>7. k.in # "file" /\ k.out # "file"
    <2>1. pipes \in Seq(Pipes) /\ \A x \in Pipes : x # "file"
        BY PipelineAssumption DEF CInv, IInv, Stores
    <2> QED
        BY <1>2, <1>3, <1>4, <1>6, <2>1 DEF PipeIn, PipeOut
<1>8. ASSUME NEW s \in 0..(Items + 1)
      PROVE  KidRest(c, k, s) = KidRest(c, next, s)
    <2> HIDE DEF open
    <2>1. IF k.prog \in {"missing", "exit"} \/ "nofile" \in seen THEN next = Zombie ELSE next = open
        OBVIOUS
    <2> HIDE DEF next
    <2>2. Started(k, next)
        BY <1>5, <1>6, <2>1, Zenon DEF Started
    <2> HIDE DEF k, c
    <2>3. k \in Kid /\ next \in Kid /\ c \in Command /\ k.st = "born"
        BY <1>1, <1>4 DEF k, c
    <2> QED
        BY <1>6, <1>7, <2>2, <2>3, StartedRest
<1> HIDE DEF next, open, k
<1> DEFINE old == Supply(data, pipes, rem, i - 1)
           now == Supply(data', pipes, rem, i - 1)
<1>9. rem \in [0..Len(clist) -> 0..(Items + 1)]
    BY DEF Flow
<1>10. old \in 0..(Items + 1)
    <2>1. i - 1 \in 0..Len(clist)
        BY <1>2, <1>4
    <2> QED
        BY <1>4, <1>9, <2>1, SupplyType DEF CInv, IInv, Stores
<1>11. rem[i] = KidRest(c, next, old)
    BY <1>2, <1>8, <1>10
<1>12. \A j \in 1..Len(clist) :
          \/ Supply(data', pipes, rem, j - 1) = Supply(data, pipes, rem, j - 1)
          \/ \A s, t : Rest(clist, pids, waited, kids', j, s) = Rest(clist, pids, waited, kids', j, t)
    BY <1>1, <1>3, DrainedSupply
<1>13. rem[i] = KidRest(c, next, now)
    <2>1. kids'[pids[i]] = next
        BY <1>1, <1>2 DEF CInv, IInv, Stores
    <2>2. ~(i > Len(pids)) /\ ~(i <= waited)
        BY <1>2 DEF CInv, IInv, Stores
    <2>3. \A s : Rest(clist, pids, waited, kids', i, s) = KidRest(c, next, s)
        BY <2>1, <2>2 DEF Rest
    <2>4. now = old \/ \A s, t : KidRest(c, next, s) = KidRest(c, next, t)
        BY <1>2, <1>12, <2>3
    <2> HIDE DEF now, old, c
    <2> QED
        BY <1>11, <2>4
<1>14. Onward(rem, rem, i, next)
    <2>1. Sat(screen' + rem[Len(clist)]) = Sat(screen + rem[Len(clist)])
        BY <1>1
    <2> QED
        BY <1>9, <1>12, <1>13, <2>1 DEF Onward
<1> HIDE DEF old, now, c
<1>15. kids' = [kids EXCEPT ![pids[i]] = next] /\ UNCHANGED <<clist, pipes, pids, waited>>
    BY <1>1, <1>2
<1> QED
    BY <1>3, <1>14, <1>15, StepFlow

LEMMA TakeFlow ==
    ASSUME CInv, CInv', faults = 0, spc \in {"pipe", "wait"}, NEW p \in Pids, Take(p),
           NEW rem, Flow(rem)
    PROVE  \E q \in [0..Len(clist) -> 0..(Items + 1)] : Flow(q)'
<1> DEFINE k == kids[p]
           j == kids'[p]
           l == IF k.prog = "head" THEN k.left - 1 ELSE k.left
<1>1. /\ k.st = "run" /\ k.prog \in {"cat", "head"} /\ k.hand = 0
      /\ k.prog = "head" => k.left > 0
      /\ UNCHANGED <<spc, clist, pipes, pids, waited, ends, screen, typed, faults>>
    BY DEF Take, Running
<1>2. PICK i \in (waited + 1)..Len(pids) :
         /\ p = pids[i] /\ i \in 1..Len(clist) /\ Stage(clist, pipes, i, k)
         /\ \A q : Flow(q) => q[i] = KidRest(clist[i], k, Supply(data, pipes, q, i - 1))
    BY <1>1, KidPlace
<1>3. Len(pipes) = Len(clist) - 1 /\ Injective(pids) /\ Injective(pipes)
    BY <1>1, KidPlace
<1>4. /\ k \in Kid /\ j \in Kid /\ Len(clist) \in Nat /\ kids \in [Pids -> Kid] /\ kids' \in [Pids -> Kid]
      /\ pipes \in Seq(Pipes) /\ data \in [Pipes -> 0..PipeSize]
    BY <1>1 DEF CInv, IInv, Stores
<1>5. \/ /\ k.in = "file" /\ k.file > 0
         /\ kids' = [kids EXCEPT ![p] = [k EXCEPT !.hand = 1, !.file = k.file - 1, !.left = l]]
         /\ UNCHANGED data
      \/ /\ k.in \in Pipes /\ data[k.in] > 0
         /\ kids' = [kids EXCEPT ![p] = [k EXCEPT !.hand = 1, !.left = l]]
         /\ data' = [data EXCEPT ![k.in] = @ - 1]
    BY <1>4 DEF Take, Kid
<1>6. kids' = [kids EXCEPT ![p] = j]
    BY <1>4, <1>5
<1> HIDE DEF l, k
<1>7. /\ j.st = "run" /\ j.out = k.out /\ j.prog = k.prog /\ j.in = k.in /\ j.hand = 1
      /\ j.left = l /\ (k.in = "file" => j.file = k.file - 1)
    <2>1. CASE /\ k.in = "file" /\ k.file > 0
               /\ kids' = [kids EXCEPT ![p] = [k EXCEPT !.hand = 1, !.file = k.file - 1, !.left = l]]
        <3>1. j = [k EXCEPT !.hand = 1, !.file = k.file - 1, !.left = l]
            BY <1>4, <2>1
        <3> HIDE DEF j
        <3> QED
            BY <1>1, <1>4, <3>1 DEF Kid
    <2>2. CASE k.in \in Pipes /\ kids' = [kids EXCEPT ![p] = [k EXCEPT !.hand = 1, !.left = l]]
        <3>1. j = [k EXCEPT !.hand = 1, !.left = l]
            BY <1>4, <2>2
        <3>2. k.in # "file"
            BY <2>2, PipelineAssumption
        <3> HIDE DEF j
        <3> QED
            BY <1>1, <1>4, <3>1, <3>2 DEF Kid
    <2> QED
        BY <1>5, <2>1, <2>2
<1> HIDE DEF j
<1> DEFINE m == i - 1
           c == clist[i]
           old == Supply(data, pipes, rem, m)
           now == Supply(data', pipes, rem, m)
<1>8. /\ rem \in [0..Len(clist) -> 0..(Items + 1)] /\ m \in 0..Len(clist) /\ rem[m] \in Nat
      /\ old \in 0..(Items + 1) /\ data' \in [Pipes -> 0..PipeSize]
    <2>1. rem \in [0..Len(clist) -> 0..(Items + 1)]
        BY DEF Flow
    <2>2. m \in 0..Len(clist)
        BY <1>2, <1>4
    <2>3. rem[m] \in Nat
        BY <2>1, <2>2, PipelineAssumption
    <2>4. old \in 0..(Items + 1)
        BY <1>4, <2>1, <2>2, SupplyType
    <2>5. data' \in [Pipes -> 0..PipeSize]
        BY DEF CInv, IInv, Stores
    <2> QED
        BY <2>1, <2>2, <2>3, <2>4, <2>5
<1>9. rem[i] = KidRest(c, k, old)
    BY <1>2
<1>10. CASE k.in = "file"
    <2>1. data' = data
        BY <1>5, <1>10, PipelineAssumption
    <2>2. k.file > 0
        BY <1>5, <1>10, PipelineAssumption
    <2>3. Sat(old) = old /\ old \in Nat
        BY <1>8, SatFacts, PipelineAssumption
    <2>4. KidRest(c, k, old) = KidRest(c, j, old)
        <3> HIDE DEF old, c
        <3>1. KidRest(c, k, old) = KidRest(c, j, Sat(old))
            BY <1>1, <1>4, <1>7, <1>8, <1>10, <2>2, <2>3, TakenRest DEF l
        <3> QED
            BY <2>3, <3>1
    <2>5. Onward(rem, rem, i, j)
        BY <1>1, <1>8, <1>9, <2>1, <2>4 DEF Onward
    <2> QED
        BY <1>1, <1>2, <1>3, <1>6, <2>5, StepFlow
<1>11. CASE k.in # "file"
    <2>1. k.in \in Pipes /\ data[k.in] > 0 /\ data' = [data EXCEPT ![k.in] = @ - 1]
        BY <1>5, <1>11
    <2>2. k.in = PipeIn(pipes, i)
        BY <1>1, <1>2, <1>11 DEF Stage, StdIn
    <2>3. m \in 1..Len(pipes) /\ k.in = pipes[m]
        BY <1>2, <1>3, <1>4, <2>1, <2>2, PipelineAssumption DEF PipeIn
    <2>4. data'[pipes[m]] = data[pipes[m]] - 1 /\ data[pipes[m]] \in Nat /\ data[pipes[m]] > 0
        BY <1>4, <2>1, <2>3, PipelineAssumption
    <2>5. ASSUME NEW n \in 1..Len(pipes), n # m
          PROVE  data'[pipes[n]] = data[pipes[n]]
        <3> HIDE DEF m
        <3>1. pipes[n] # pipes[m] /\ pipes[n] \in Pipes
            BY <1>3, <1>4, <2>3, <2>5 DEF Injective
        <3> QED
            BY <1>4, <2>1, <2>3, <3>1
    <2> DEFINE t == data[pipes[m]] - 1 + rem[m]
    <2> HIDE DEF m
    <2>6. t \in Nat /\ old = Sat(t + 1) /\ now = Sat(t)
        <3>1. /\ old = Sat(data[pipes[m]] + rem[m]) /\ now = Sat(data'[pipes[m]] + rem[m])
            BY <1>4, <1>8, <2>3, SupplyType
        <3>2. t \in Nat /\ t + 1 = data[pipes[m]] + rem[m] /\ t = data'[pipes[m]] + rem[m]
            BY <1>8, <2>4
        <3> HIDE DEF t
        <3> QED
            BY <3>1, <3>2
    <2> HIDE DEF t, old, now, c
    <2>7. KidRest(c, k, old) = KidRest(c, j, Sat(t))
        BY <1>1, <1>4, <1>7, <1>8, <1>11, <2>6, TakenRest DEF l
    <2>8. ASSUME NEW n \in 1..Len(clist), n # i
          PROVE  Supply(data', pipes, rem, n - 1) = Supply(data, pipes, rem, n - 1)
        <3>1. n - 1 \in 1..Len(pipes) => data'[pipes[n - 1]] = data[pipes[n - 1]]
            BY <1>4, <2>5, <2>8 DEF m
        <3> QED
            BY <3>1 DEF Supply
    <2>9. rem[i] = KidRest(c, j, now)
        BY <1>9, <2>6, <2>7
    <2>10. Onward(rem, rem, i, j)
        BY <1>1, <1>8, <2>8, <2>9 DEF Onward, now, m, c
    <2> QED
        BY <1>1, <1>2, <1>3, <1>6, <2>10, StepFlow
<1> QED
    BY <1>10, <1>11

LEMMA FinishFlow ==
    ASSUME CInv, CInv', faults = 0, spc \in {"pipe", "wait"}, NEW p \in Pids, Finish(p),
           NEW rem, Flow(rem)
    PROVE  \E q \in [0..Len(clist) -> 0..(Items + 1)] : Flow(q)'
<1> DEFINE k == kids[p]
<1>1. /\ k.st = "run" /\ ~HasItem(k) /\ kids' = [kids EXCEPT ![p] = Zombie] /\ Drain
      /\ \/ k.prog = "gen"
         \/ k.prog = "head" /\ k.left = 0
         \/ k.prog \in {"cat", "head"} /\ AtEnd(k)
      /\ UNCHANGED <<spc, clist, pipes, pids, waited, ends, screen, typed, faults>>
    BY DEF Finish
<1>2. PICK i \in (waited + 1)..Len(pids) :
         /\ p = pids[i] /\ i \in 1..Len(clist) /\ Stage(clist, pipes, i, k)
         /\ \A q : Flow(q) => q[i] = KidRest(clist[i], k, Supply(data, pipes, q, i - 1))
    BY <1>1, KidPlace
<1>3. Len(pipes) = Len(clist) - 1 /\ Injective(pids)
    BY <1>1, KidPlace
<1>4. /\ k \in Kid /\ Len(clist) \in Nat /\ pipes \in Seq(Pipes) /\ data \in [Pipes -> 0..PipeSize]
      /\ rem \in [0..Len(clist) -> 0..(Items + 1)] /\ waited \in Nat /\ pids \in Seq(Pids)
      /\ kids \in [Pids -> Kid] /\ kids' \in [Pids -> Kid]
    BY <1>1 DEF CInv, IInv, Stores, Flow
<1>5. k.hand = 0 \/ k.prog = "gen"
    <2>1. k.hand \in 0..1
        BY <1>4 DEF Kid
    <2> QED
        BY <1>1, <2>1 DEF HasItem
<1> DEFINE m == i - 1
           old == Supply(data, pipes, rem, m)
\* At the end of a pipe nobody is left who would write to it.
<1>6. k.in \in Pipes /\ AtEnd(k) /\ k.out # "file" => old = 0
    <2> SUFFICES ASSUME k.in \in Pipes, AtEnd(k)
                 PROVE  old = 0
        OBVIOUS
    <2>1. data[k.in] = 0 /\ <<k.in, "w">> \notin Held
        BY PipelineAssumption DEF AtEnd
    <2>2. k.in = PipeIn(pipes, i)
        BY <1>1, <1>2, PipelineAssumption DEF Stage, StdIn
    <2>3. m \in 1..Len(pipes) /\ k.in = pipes[m]
        BY <1>2, <1>3, <1>4, <2>2, PipelineAssumption DEF PipeIn
    <2>4. m \in 1..Len(clist) /\ m < Len(clist) /\ m \in 1..Len(pids) /\ m <= Len(pids)
        BY <1>2, <1>3, <1>4, <2>3
    <2> HIDE DEF m, k
    <2>5. pipes[m] \in Range(pipes) /\ pipes[m] \in Pipes
        BY <1>4, <2>3, RangeHolds
    <2>6. rem[m] = Rest(clist, pids, waited, kids, m, Supply(data, pipes, rem, m - 1))
        BY <2>4 DEF Flow
    <2>7. CASE m <= waited
        <3>1. rem[m] = 0
            BY <1>4, <2>4, <2>6, <2>7 DEF Rest
        <3> QED
            BY <2>1, <2>3, <3>1, PipelineAssumption DEF Supply, Sat
    <2>8. CASE ~(m <= waited)
        <3>1. m \in (waited + 1)..Len(pids) /\ pids[m] \in Pids
            BY <1>4, <2>4, <2>8
        <3>2. Stage(clist, pipes, m, kids[pids[m]])
            BY <3>1 DEF CInv, Clean, Staged
        <3>3. <<pipes[m], "w">> \notin kids[pids[m]].ends
            BY <2>1, <2>3, <3>1 DEF Held
        <3>4. \A c, s : KidRest(c, kids[pids[m]], s) = 0
            BY <2>4, <2>5, <3>2, <3>3, MuteKid
        <3>5. rem[m] = 0
            BY <1>4, <2>4, <2>6, <2>8, <3>4 DEF Rest
        <3> QED
            BY <2>1, <2>3, <3>5, PipelineAssumption DEF Supply, Sat
    <2> QED
        BY <2>7, <2>8
<1>7. rem[i] = 0
    <2>1. rem[i] = KidRest(clist[i], k, old)
        BY <1>2
    <2>2. CASE k.out = "file"
        BY <1>1, <2>1, <2>2 DEF KidRest
    <2>3. CASE k.out # "file"
        <3>1. rem[i] = RunRest(k, old)
            BY <1>1, <2>1, <2>3 DEF KidRest
        <3>2. CASE k.prog = "gen"
            <4>1. k.left \in 0..(Items + 1) /\ ~(k.left > 0)
                BY <1>1, <1>4, <3>2 DEF Kid, HasItem
            <4>2. k.left = 0
                BY <4>1, PipelineAssumption
            <4> QED
                BY <3>1, <3>2, <4>2 DEF RunRest
        <3> DEFINE src == IF k.in = "file" THEN k.file ELSE old
        <3>3. CASE k.prog = "head" /\ k.left = 0
            <4>1. rem[i] = Sat(0 + Least(0, src))
                BY <1>5, <3>1, <3>3 DEF RunRest
            <4>2. src \in Nat
                <5>1. m \in 0..Len(clist)
                    BY <1>2, <1>4
                <5>2. old \in 0..(Items + 1)
                    BY <1>4, <5>1, SupplyType
                <5>3. k.file \in 0..Items
                    BY <1>4 DEF Kid
                <5> HIDE DEF old
                <5> QED
                    BY <5>2, <5>3, PipelineAssumption
            <4> HIDE DEF src
            <4> QED
                BY <4>1, <4>2, PipelineAssumption DEF Least, Sat
        <3>4. CASE k.prog \in {"cat", "head"} /\ AtEnd(k)
            <4>1. src = 0
                BY <1>6, <2>3, <3>4, PipelineAssumption DEF AtEnd
            <4>2. k.left \in 0..(Items + 1)
                BY <1>4 DEF Kid
            <4>3. rem[i] = Sat(0 + src) \/ rem[i] = Sat(0 + Least(k.left, src))
                BY <1>5, <3>1, <3>4 DEF RunRest
            <4> HIDE DEF src, k
            <4> QED
                BY <4>1, <4>2, <4>3, PipelineAssumption DEF Least, Sat
        <3> QED
            BY <1>1, <3>2, <3>3, <3>4
    <2> QED
        BY <2>2, <2>3
<1>8. \A s : KidRest(clist[i], Zombie, s) = 0
    BY ZombieStage DEF KidRest
<1>9. \A j \in 1..Len(clist) :
          \/ Supply(data', pipes, rem, j - 1) = Supply(data, pipes, rem, j - 1)
          \/ \A s, t : Rest(clist, pids, waited, kids', j, s) = Rest(clist, pids, waited, kids', j, t)
    BY <1>1, <1>3, DrainedSupply DEF CInv
<1>10. Onward(rem, rem, i, Zombie)
    <2>1. Sat(screen' + rem[Len(clist)]) = Sat(screen + rem[Len(clist)])
        BY <1>1
    <2> QED
        BY <1>4, <1>7, <1>8, <1>9, <2>1 DEF Onward
<1>11. kids' = [kids EXCEPT ![pids[i]] = Zombie] /\ UNCHANGED <<clist, pipes, pids, waited>>
    BY <1>1, <1>2
<1> QED
    BY <1>3, <1>10, <1>11, StepFlow

\* The writer whose reader is gone is killed, and what it had still to pass on
\* with it: the reader did not want it.
LEMMA KilledFlow ==
    ASSUME CInv, CInv', faults = 0, spc \in {"pipe", "wait"}, NEW p \in Pids,
           kids[p].st = "run", kids[p].out \in Pipes, <<kids[p].out, "r">> \notin Held,
           kids' = [kids EXCEPT ![p] = Zombie], Drain,
           UNCHANGED <<spc, clist, pipes, pids, waited, ends, screen, faults>>,
           NEW rem, Flow(rem)
    PROVE  \E q \in [0..Len(clist) -> 0..(Items + 1)] : Flow(q)'
<1> DEFINE k == kids[p]
           n == Len(clist)
<1>1. PICK i \in (waited + 1)..Len(pids) :
         /\ p = pids[i] /\ i \in 1..Len(clist) /\ Stage(clist, pipes, i, k)
    BY KidPlace
<1>2. Len(pipes) = n - 1 /\ Injective(pids) /\ Injective(pipes)
    BY KidPlace
<1>3. /\ n \in Nat /\ pipes \in Seq(Pipes) /\ kids \in [Pids -> Kid] /\ 0 \in 0..(Items + 1)
      /\ rem \in [0..n -> 0..(Items + 1)]
    BY PipelineAssumption DEF CInv, IInv, Stores, Flow
<1>4. k.out = PipeOut(clist, pipes, i)
    BY <1>1, PipelineAssumption DEF Stage, StdOut
<1>5. i \in 1..Len(pipes) /\ k.out = pipes[i] /\ i < n
    BY <1>1, <1>2, <1>3, <1>4, PipelineAssumption DEF PipeOut
<1>6. <<pipes[i], "r">> \notin Held'
    <2>1. Zombie.ends = {}
        BY DEF Zombie, NoKid
    <2>2. \A q \in Pids : kids'[q].ends \subseteq kids[q].ends
        BY <1>3, <2>1
    <2>3. Held' \subseteq Held
        BY <2>2 DEF Held
    <2> QED
        BY <1>5, <2>3
<1>7. \A s, t : Rest(clist, pids, waited, kids', i + 1, s) = Rest(clist, pids, waited, kids', i + 1, t)
    BY <1>2, <1>5, <1>6, NotRead
<1> DEFINE z == [rem EXCEPT ![i] = 0]
<1>8. z \in [0..n -> 0..(Items + 1)] /\ z[i] = 0 /\ \A j \in 0..n : j # i => z[j] = rem[j]
    BY <1>1, <1>3
<1> HIDE DEF z
<1>9. KidRest(clist[i], Zombie, Supply(data', pipes, z, i - 1)) = 0
    BY ZombieStage DEF KidRest
<1>10. ASSUME NEW j \in 1..n
       PROVE  \/ Supply(data', pipes, z, j - 1) = Supply(data, pipes, rem, j - 1)
              \/ \A s, t : Rest(clist, pids, waited, kids', j, s) = Rest(clist, pids, waited, kids', j, t)
    <2>1. CASE j = i + 1
        BY <1>7, <2>1
    <2>2. CASE j # i + 1
        <3>1. j - 1 \in 0..n /\ j - 1 # i
            BY <1>1, <1>3, <2>2
        <3>2. Supply(data', pipes, z, j - 1) = Supply(data', pipes, rem, j - 1)
            BY <1>8, <3>1 DEF Supply
        <3>3. \/ Supply(data', pipes, rem, j - 1) = Supply(data, pipes, rem, j - 1)
              \/ \A s, t : Rest(clist, pids, waited, kids', j, s) = Rest(clist, pids, waited, kids', j, t)
            BY <1>2, DrainedSupply DEF CInv
        <3> QED
            BY <3>2, <3>3
    <2> QED
        BY <2>1, <2>2
<1>11. Sat(screen' + z[n]) = Sat(screen + rem[n])
    <2>1. z[n] = rem[n]
        BY <1>3, <1>5, <1>8
    <2> QED
        BY <2>1
<1>12. Onward(rem, z, i, Zombie)
    BY <1>8, <1>9, <1>10, <1>11 DEF Onward
<1>13. kids' = [kids EXCEPT ![pids[i]] = Zombie] /\ UNCHANGED <<clist, pipes, pids, waited>>
    BY <1>1
<1> QED
    BY <1>2, <1>12, <1>13, StepFlow

LEMMA GiveFlow ==
    ASSUME CInv, CInv', faults = 0, spc \in {"pipe", "wait"}, NEW p \in Pids, Give(p),
           screen \in 0..(Items + 1), NEW rem, Flow(rem)
    PROVE  \E q \in [0..Len(clist) -> 0..(Items + 1)] : Flow(q)'
<1> DEFINE k == kids[p]
           n == Len(clist)
           k2 == Written(k)
<1>1. /\ k.st = "run" /\ HasItem(k) /\ k.prog \in {"gen", "yes", "cat", "head"}
      /\ UNCHANGED <<spc, clist, pipes, pids, waited, ends, typed, faults>>
    BY DEF Give, Running
<1>2. CASE /\ k.out \in Pipes /\ <<k.out, "r">> \notin Held
           /\ kids' = [kids EXCEPT ![p] = Zombie] /\ UNCHANGED screen /\ Drain
    BY <1>1, <1>2, KilledFlow
<1>3. CASE /\ kids' = [kids EXCEPT ![p] = Written(k)]
           /\ \/ /\ k.out = "terminal" /\ UNCHANGED data
                 /\ screen' = IF screen > Items THEN screen ELSE screen + 1
              \/ k.out = "file" /\ UNCHANGED <<screen, data>>
              \/ /\ k.out \in Pipes /\ UNCHANGED screen
                 /\ data' = [data EXCEPT ![k.out] = @ + 1]
    <2>1. PICK i \in (waited + 1)..Len(pids) :
             /\ p = pids[i] /\ i \in 1..n /\ Stage(clist, pipes, i, k)
             /\ \A q : Flow(q) => q[i] = KidRest(clist[i], k, Supply(data, pipes, q, i - 1))
        BY <1>1, KidPlace
    <2>2. Len(pipes) = n - 1 /\ Injective(pids) /\ Injective(pipes)
        BY <1>1, KidPlace
    <2>3. /\ n \in Nat /\ pipes \in Seq(Pipes) /\ data \in [Pipes -> 0..PipeSize]
          /\ data' \in [Pipes -> 0..PipeSize] /\ rem \in [0..n -> 0..(Items + 1)]
          /\ k \in Kid /\ k2 \in Kid /\ (k.prog = "gen" => k.hand = 0)
        <3>1. k \in Kid /\ (k.prog = "gen" => k.hand = 0)
            BY DEF CInv, IInv, Stores, Hands
        <3>2. k2 \in Kid
            BY <1>1, <3>1, WrittenIsKid
        <3> QED
            BY <3>1, <3>2 DEF CInv, IInv, Stores, Flow
    <2>4. k2.st = "run" /\ k2.out = k.out
        BY <1>1, <2>3 DEF Written, Kid
    <2>5. k.out = StdOut(clist, pipes, i)
        BY <1>1, <2>1 DEF Stage
    <2> DEFINE c == clist[i]
               old == Supply(data, pipes, rem, i - 1)
               v == KidRest(c, k2, old)
               z == [rem EXCEPT ![i] = v]
    <2> HIDE DEF k, k2
    <2>6. old \in 0..(Items + 1) /\ v \in 0..(Items + 1) /\ rem[i] = KidRest(c, k, old)
        <3>1. i - 1 \in 0..n
            BY <2>1, <2>3
        <3>2. old \in 0..(Items + 1)
            BY <2>3, <3>1, SupplyType
        <3> HIDE DEF old
        <3> QED
            BY <2>1, <2>3, <3>2, RestType DEF old, k
    <2> HIDE DEF old, v, c
    <2>7. z \in [0..n -> 0..(Items + 1)] /\ z[i] = v /\ \A j \in 0..n : j # i => z[j] = rem[j]
        BY <2>1, <2>3, <2>6
    <2> HIDE DEF z
    <2>8. k.out # "file" => rem[i] = Sat(1 + v)
        BY <1>1, <2>3, <2>6, WrittenRest DEF v, k2
    <2>9. k.out = "file" => rem[i] = 0 /\ v = 0
        BY <2>4, <2>6, <1>1 DEF KidRest, v, k
    <2>10. v \in Nat /\ Items \in Nat
        BY <2>6, PipelineAssumption
    <2>11. kids' = [kids EXCEPT ![pids[i]] = k2] /\ UNCHANGED <<clist, pipes, pids, waited>>
        BY <1>1, <1>3, <2>1 DEF k2, k
    \* To the terminal: what the last command has less to pass on, the screen shows.
    <2>12. CASE /\ k.out = "terminal" /\ UNCHANGED data
                /\ screen' = IF screen > Items THEN screen ELSE screen + 1
        <3>1. UNCHANGED data
            BY <2>12
        <3>2. i = n
            <4>1. pipes[i] # "terminal" \/ i = n
                BY <2>1, <2>2, <2>3, PipelineAssumption
            <4> QED
                BY <2>1, <2>3, <2>5, <2>12, <4>1 DEF StdOut, PipeOut
        <3>3. \A j \in 0..(n - 1) : Supply(data', pipes, z, j) = Supply(data, pipes, rem, j)
            BY <2>3, <2>7, <3>1, <3>2 DEF Supply
        <3>4. Sat(screen' + z[n]) = Sat(screen + rem[n])
            <4>1. z[n] = v /\ rem[n] = Sat(1 + v)
                BY <2>7, <2>8, <2>12, <3>2
            <4> QED
                BY <2>10, <2>12, <4>1 DEF Sat
        <3>5. v = KidRest(c, k2, Supply(data', pipes, z, i - 1))
            BY <2>1, <2>3, <3>2, <3>3 DEF v, old
        <3>6. Onward(rem, z, i, k2)
            BY <2>3, <2>7, <3>3, <3>4, <3>5 DEF Onward, c
        <3> QED
            BY <2>2, <2>11, <3>6, StepFlow
    \* To a file: nothing of it is to come.
    <2>13. CASE k.out = "file" /\ UNCHANGED <<screen, data>>
        <3>1. UNCHANGED <<screen, data>> /\ z = rem
            BY <2>3, <2>7, <2>9, <2>13
        <3>2. v = KidRest(c, k2, Supply(data', pipes, z, i - 1))
            BY <3>1 DEF v, old
        <3>3. Onward(rem, z, i, k2)
            BY <2>7, <3>1, <3>2 DEF Onward, c
        <3> QED
            BY <2>2, <2>11, <3>3, StepFlow
    \* To a pipe: what the command has less to pass on, the pipe holds.
    <2>14. CASE k.out \in Pipes /\ UNCHANGED screen /\ data' = [data EXCEPT ![k.out] = @ + 1]
        <3>1. k.out = PipeOut(clist, pipes, i) /\ k.out # "file" /\ k.out # "terminal"
            BY <2>5, <2>14, PipelineAssumption DEF StdOut
        <3>2. i \in 1..Len(pipes) /\ k.out = pipes[i] /\ i < n
            BY <2>1, <2>2, <2>3, <3>1 DEF PipeOut
        <3>3. data'[pipes[i]] = data[pipes[i]] + 1 /\ data[pipes[i]] \in Nat
            BY <2>3, <2>14, <3>2, PipelineAssumption
        <3>4. ASSUME NEW j \in 1..Len(pipes), j # i
              PROVE  data'[pipes[j]] = data[pipes[j]]
            <4>1. pipes[j] # pipes[i] /\ pipes[j] \in Pipes
                BY <2>2, <2>3, <3>2, <3>4 DEF Injective
            <4> QED
                BY <2>3, <2>14, <3>2, <4>1
        <3>5. Supply(data', pipes, z, i) = Supply(data, pipes, rem, i)
            <4>1. i \in 0..n
                BY <2>1, <2>3
            <4>2. Supply(data', pipes, z, i) = Sat(data'[pipes[i]] + v)
                BY <2>3, <2>7, <3>2, <4>1, SupplyType
            <4>3. Supply(data, pipes, rem, i) = Sat(data[pipes[i]] + rem[i])
                BY <2>3, <3>2, <4>1, SupplyType
            <4>4. rem[i] = Sat(1 + v)
                BY <2>8, <3>1
            <4> QED
                BY <2>10, <3>3, <4>2, <4>3, <4>4 DEF Sat
        <3>6. ASSUME NEW j \in 0..n
              PROVE  Supply(data', pipes, z, j) = Supply(data, pipes, rem, j)
            <4>1. CASE j = i
                BY <3>5, <4>1
            <4>2. CASE j # i
                BY <2>7, <3>4, <4>2 DEF Supply
            <4> QED
                BY <4>1, <4>2
        <3>7. \A j \in 1..n : j - 1 \in 0..n
            BY <2>3
        <3>8. v = KidRest(c, k2, Supply(data', pipes, z, i - 1))
            BY <2>1, <3>6, <3>7 DEF v, old
        <3>9. Sat(screen' + z[n]) = Sat(screen + rem[n])
            <4>1. n \in 0..n /\ n # i
                BY <2>1, <2>3, <3>2
            <4>2. z[n] = rem[n]
                BY <2>7, <4>1
            <4> QED
                BY <2>14, <4>2
        <3>10. Onward(rem, z, i, k2)
            BY <2>7, <3>6, <3>7, <3>8, <3>9 DEF Onward, c
        <3> QED
            BY <2>2, <2>11, <3>10, StepFlow
    <2> QED
        BY <1>3, <2>12, <2>13, <2>14 DEF k
<1> QED
    BY <1>2, <1>3 DEF Give

----------------------------------------------------------------------------
(* The shell's steps *)

LEMMA ReadLineFlow ==
    ASSUME CInv, CInv', faults = 0, faults' = 0, ReadLine, Drained
    PROVE  Composed'
<1>1. /\ screen' = 0 /\ pipes' = <<>> /\ pids' = <<>> /\ waited' = 0 /\ UNCHANGED <<ends, kids, data>>
      /\ clist' \in Seq(Command)
    BY DEF ReadLine, CInv, IInv, Stores
<1>2. screen' \in 0..(Items + 1) /\ Items \in Nat
    BY <1>1, PipelineAssumption
<1>3. Drained'
    BY <1>1 DEF Drained, Held
<1>4. PICK f \in [0..Len(clist') -> 0..(Items + 1)] :
         /\ f[0] = 0
         /\ \A i \in 1..Len(clist') : f[i] = Passes(clist'[i], f[i - 1])
         /\ f[Len(clist')] = Output(clist')
    BY <1>1, OutputFlows
<1>5. Len(clist') \in Nat /\ Len(pids') = 0 /\ Len(pipes') = 0
    BY <1>1
<1>6. \A n \in 0..Len(clist') : f[n] \in 0..(Items + 1) /\ Sat(f[n]) = f[n] /\ Sat(0 + f[n]) = f[n]
    BY <1>2, <1>5 DEF Sat
<1>7. \A j \in 0..Len(clist') : Supply(data', pipes', f, j) = f[j]
    BY <1>5, <1>6 DEF Supply
<1>8. ASSUME NEW i \in 1..Len(clist')
      PROVE  f[i] = Rest(clist', pids', waited', kids', i, Supply(data', pipes', f, i - 1))
    <2>1. i - 1 \in 0..Len(clist') /\ i > Len(pids')
        BY <1>5
    <2> QED
        BY <1>4, <1>7, <2>1 DEF Rest
<1>9. Sat(screen' + f[Len(clist')]) = Output(clist')
    <2>1. Len(clist') \in 0..Len(clist')
        BY <1>5
    <2> QED
        BY <1>1, <1>4, <1>6, <2>1
<1>10. Flow(f)'
    BY <1>4, <1>8, <1>9 DEF Flow
<1>11. OutputIsComposed'
    <2> SUFFICES ASSUME spc' = "prompt" PROVE screen' = Output(clist')
        BY DEF OutputIsComposed
    <2>1. clist' = <<>>
        BY DEF ReadLine, Fails
    <2>2. Len(clist') = 0
        BY <2>1
    <2> QED
        BY <1>1, <1>4, <2>2
<1> QED
    BY <1>2, <1>3, <1>4, <1>10, <1>11 DEF Composed

\* What the shell changes of its line, and nothing of the screen.
LEMMA ShellComposed ==
    ASSUME Composed, UNCHANGED <<clist, screen>>, Drained', spc' \in {"pipe", "wait"},
           \A rem : Flow(rem) => Flow(rem)', spc \in {"pipe", "wait"}
    PROVE  Composed'
BY DEF Composed, OutputIsComposed

LEMMA MakePipeFlow ==
    ASSUME Enough, CInv, CInv', faults = 0, faults' = 0, MakePipe, Composed
    PROVE  Composed'
<1>1. FreePipes # {}
    BY PipeIsFree DEF MakePipe
<1>2. PICK x \in FreePipes : pipes' = Append(pipes, x) /\ ends' = ends \cup Both({x}) /\ spc' = spc
    <2>1. ~Fails
        BY DEF Fails
    <2>2. (CHOOSE x \in FreePipes : TRUE) \in FreePipes
        BY <1>1, Zenon
    <2> DEFINE x == CHOOSE x \in FreePipes : TRUE
    <2>3. pipes' = Append(pipes, x) /\ ends' = ends \cup Both({x}) /\ spc' = spc
        BY <1>1, <2>1, Zenon DEF MakePipe
    <2> QED
        BY <2>2, <2>3, Zenon
<1>3. /\ spc = "pipe" /\ UNCHANGED <<clist, pids, waited, kids, data, screen>>
      /\ pipes \in Seq(Pipes) /\ Len(clist) \in Nat /\ x \in Pipes /\ Len(pipes) \in Nat
      /\ data \in [Pipes -> 0..PipeSize]
    BY DEF MakePipe, CInv, IInv, Stores, FreePipes
<1>4. data[x] = 0
    BY <1>3 DEF FreePipes, Composed, Drained
<1>5. Drained'
    <2>1. Held \subseteq Held'
        BY <1>2, <1>3 DEF Held
    <2> QED
        BY <1>3, <2>1 DEF Composed, Drained
<1>6. ASSUME NEW rem, Flow(rem)
      PROVE  Flow(rem)'
    <2>1. ASSUME NEW j \in 0..Len(clist)
          PROVE  Supply(data, pipes', rem, j) = Supply(data, pipes, rem, j)
        <3>1. /\ Len(pipes') = Len(pipes) + 1 /\ pipes'[Len(pipes) + 1] = x
              /\ \A n \in 1..Len(pipes) : pipes'[n] = pipes[n]
            BY <1>2, <1>3
        <3>2. CASE j = Len(pipes) + 1
            BY <1>3, <1>4, <3>1, <3>2 DEF Supply
        <3>3. CASE j # Len(pipes) + 1
            BY <1>3, <3>1, <3>3 DEF Supply
        <3> QED
            BY <3>2, <3>3
    <2>2. \A i \in 1..Len(clist) : i - 1 \in 0..Len(clist)
        BY <1>3
    <2> QED
        BY <1>3, <1>6, <2>1, <2>2 DEF Flow
<1> QED
    BY <1>2, <1>3, <1>5, <1>6, ShellComposed

LEMMA ForkFlow ==
    ASSUME Enough, CInv, CInv', faults = 0, faults' = 0, Fork, Composed
    PROVE  Composed'
<1> DEFINE n == Len(pids) + 1
<1>1. FreePids # {}
    BY PidIsFree DEF Fork
<1>2. PICK p \in FreePids : /\ pids' = Append(pids, p) /\ spc' = spc
                            /\ kids' = [kids EXCEPT ![p] = Child(n)]
    <2>1. ~Fails
        BY DEF Fails
    <2>2. (CHOOSE p \in FreePids : TRUE) \in FreePids
        BY <1>1, Zenon
    <2> DEFINE p == CHOOSE p \in FreePids : TRUE
    <2>3. /\ pids' = Append(pids, p) /\ spc' = spc
          /\ kids' = [kids EXCEPT ![p] = Child(n)]
        BY <1>1, <2>1, Zenon DEF Fork
    <2> QED
        BY <2>2, <2>3, Zenon
<1>3. /\ spc = "pipe" /\ UNCHANGED <<clist, pipes, waited, ends, data, screen>>
      /\ Len(pipes) = Len(clist) - 1 /\ n \in 1..Len(clist) /\ waited = 0 /\ Clean
      /\ p \in Pids /\ kids[p].st = "none" /\ pids \in Seq(Pids) /\ Len(clist) \in Nat
      /\ kids \in [Pids -> Kid] /\ Len(pids) \in Nat
    BY DEF Fork, CInv, IInv, Stores, Place, FreePids
<1>4. kids'[p] = Child(n) /\ \A q \in Pids : q # p => kids'[q] = kids[q]
    BY <1>2, <1>3
<1>5. kids[p].ends = {}
    <2>1. kids[p] = NoKid
        BY <1>3 DEF Clean, Gone
    <2>2. NoKid.ends = {}
        BY DEF NoKid
    <2> QED
        BY <2>1, <2>2
<1>6. Drained'
    <2>1. \A q \in Pids : kids[q].ends \subseteq kids'[q].ends
        BY <1>4, <1>5
    <2>2. Held \subseteq Held'
        BY <1>3, <2>1 DEF Held
    <2> QED
        BY <1>3, <2>2 DEF Composed, Drained
<1>7. Child(n).st = "born"
    BY <1>3, ChildIsKid DEF CInv
<1>8. ASSUME NEW i \in 1..Len(clist), NEW s
      PROVE  Rest(clist, pids', waited, kids', i, s) = Rest(clist, pids, waited, kids, i, s)
    <2>1. /\ Len(pids') = n /\ pids'[n] = p /\ ~(i <= waited)
          /\ \A j \in 1..Len(pids) : pids'[j] = pids[j] /\ pids[j] \in Pids
        BY <1>2, <1>3
    <2>2. CASE i = n
        <3>1. ~(i > Len(pids')) /\ i > Len(pids)
            BY <1>3, <2>1, <2>2
        <3>2. Rest(clist, pids, waited, kids, i, s) = Passes(clist[i], s)
            BY <3>1 DEF Rest
        <3>3. Rest(clist, pids', waited, kids', i, s) = KidRest(clist[i], kids'[p], s)
            BY <2>1, <2>2, <3>1 DEF Rest
        <3> HIDE DEF n
        <3> QED
            BY <1>4, <1>7, <3>2, <3>3 DEF KidRest
    <2>3. CASE i \in 1..Len(pids)
        <3>1. Stage(clist, pipes, i, kids[pids[i]])
            BY <1>3, <2>3 DEF Clean, Staged
        <3>2. pids[i] # p
            BY <1>3, <3>1 DEF Stage
        <3>3. ~(i > Len(pids')) /\ ~(i > Len(pids)) /\ pids'[i] = pids[i] /\ pids[i] \in Pids
            BY <1>3, <2>1, <2>3
        <3>4. kids'[pids'[i]] = kids[pids[i]]
            BY <1>4, <3>2, <3>3
        <3> QED
            BY <2>1, <3>3, <3>4 DEF Rest
    <2>4. CASE i > n
        <3>1. i > Len(pids') /\ i > Len(pids)
            BY <1>3, <2>1, <2>4
        <3> QED
            BY <3>1 DEF Rest
    <2> QED
        BY <1>3, <2>2, <2>3, <2>4
<1>9. \A rem : Flow(rem) => Flow(rem)'
    BY <1>3, <1>8 DEF Flow
<1> QED
    BY <1>2, <1>3, <1>6, <1>9, ShellComposed

LEMMA CloseEndsFlow ==
    ASSUME CInv, CInv', faults = 0, CloseEnds, Composed
    PROVE  Composed'
<1>1. /\ spc = "pipe" /\ spc' = "wait" /\ Drain /\ faults' = 0
      /\ UNCHANGED <<clist, pipes, pids, waited, kids, screen>>
      /\ Len(clist) \in Nat
    BY DEF CloseEnds, CInv, IInv, Stores
<1>2. Len(pipes) = Len(clist) - 1
    BY <1>1 DEF CInv, Clean, Waiting
<1>3. Drained'
    BY <1>1, DrainDrains DEF CInv, IInv
<1>4. ASSUME NEW rem, Flow(rem)
      PROVE  Flow(rem)'
    <2>1. ASSUME NEW j \in 1..Len(clist)
          PROVE  rem[j] = Rest(clist, pids, waited, kids', j, Supply(data', pipes, rem, j - 1))
        <3> DEFINE old == Supply(data, pipes, rem, j - 1)
                   now == Supply(data', pipes, rem, j - 1)
                   Now(s) == Rest(clist, pids, waited, kids', j, s)
        <3>1. now = old \/ \A s, t : Now(s) = Now(t)
            BY <1>1, <1>2, DrainedSupply
        <3>2. rem[j] = Now(old)
            BY <1>1, <1>4 DEF Flow
        <3> HIDE DEF old, now, Now
        <3>3. rem[j] = Now(now)
            BY <3>1, <3>2
        <3> QED
            BY <3>3 DEF now, Now
    <2> QED
        BY <1>1, <1>4, <2>1 DEF Flow
<1> QED
    BY <1>1, <1>3, <1>4, ShellComposed

LEMMA WaitFlow ==
    ASSUME CInv, CInv', faults = 0, Wait, Composed
    PROVE  Composed'
<1> DEFINE w == waited + 1
           p == pids[w]
           n == Len(clist)
<1>1. /\ spc = "wait" /\ kids[p].st = "zombie" /\ kids' = [kids EXCEPT ![p] = NoKid] /\ waited' = w
      /\ spc' = IF w = Len(pids) THEN "prompt" ELSE "wait"
      /\ UNCHANGED <<clist, pipes, pids, ends, data, screen>> /\ Clean
    BY DEF Wait, CInv
<1>2. /\ w \in 1..Len(pids) /\ p \in Pids /\ Len(pids) \in Nat /\ waited \in Nat /\ n \in Nat
      /\ kids \in [Pids -> Kid] /\ Len(pids) = n /\ pids \in Seq(Pids)
    BY <1>1 DEF CInv, IInv, Stores, Place, Clean, Waiting
<1>3. kids'[p] = NoKid /\ \A q \in Pids : q # p => kids'[q] = kids[q]
    BY <1>1, <1>2
<1>4. kids[p] = Zombie
    <2>1. w \in (waited + 1)..Len(pids)
        BY <1>2
    <2>2. Stage(clist, pipes, w, kids[p])
        BY <1>1, <2>1 DEF Clean, Staged
    <2> HIDE DEF p
    <2> QED
        BY <1>1, <2>2 DEF Stage
<1>5. Drained'
    <2>1. Zombie.ends = NoKid.ends
        BY DEF Zombie, NoKid
    <2>2. \A q \in Pids : kids'[q].ends = kids[q].ends
        BY <1>3, <1>4, <2>1
    <2>3. Held' = Held
        BY <1>1, <2>2 DEF Held
    <2> QED
        BY <1>1, <2>3 DEF Composed, Drained
<1>6. \A c, s : KidRest(c, kids[p], s) = 0
    BY <1>4, ZombieStage DEF KidRest
<1>7. ASSUME NEW i \in 1..n, NEW s
      PROVE  Rest(clist, pids, w, kids', i, s) = Rest(clist, pids, waited, kids, i, s)
    <2>1. ~(i > Len(pids))
        BY <1>2
    <2>2. CASE i = w
        <3>1. Rest(clist, pids, w, kids', i, s) = 0
            BY <1>2, <2>1, <2>2 DEF Rest
        <3>2. Rest(clist, pids, waited, kids, i, s) = KidRest(clist[i], kids[p], s)
            BY <1>2, <2>1, <2>2 DEF Rest
        <3> QED
            BY <1>6, <3>1, <3>2
    <2>3. CASE i < w
        <3>1. i <= w /\ i <= waited
            BY <1>2, <2>3
        <3> HIDE DEF w
        <3> QED
            BY <2>1, <3>1 DEF Rest
    <2>4. CASE i > w
        <3>1. ~(i <= w) /\ ~(i <= waited) /\ i \in 1..Len(pids) /\ i # w
            BY <1>2, <2>4
        <3>2. pids[i] # p /\ pids[i] \in Pids
            BY <1>1, <1>2, <3>1 DEF Clean, Injective
        <3>3. kids'[pids[i]] = kids[pids[i]]
            BY <1>3, <3>2
        <3> HIDE DEF w
        <3> QED
            BY <2>1, <3>1, <3>3 DEF Rest
    <2> QED
        BY <1>2, <2>2, <2>3, <2>4
<1>8. PICK rem \in [0..n -> 0..(Items + 1)] : Flow(rem)
    BY <1>1 DEF Composed
<1> HIDE DEF w, p
<1>9. Flow(rem)'
    BY <1>1, <1>7, <1>8 DEF Flow
\* When the last child is waited for, nothing is to come.
<1>10. OutputIsComposed'
    <2> SUFFICES ASSUME spc' = "prompt" PROVE screen = Output(clist)
        BY <1>1 DEF OutputIsComposed
    <2>1. w = n
        BY <1>1, <1>2
    <2>2. rem[n] = Rest(clist, pids, waited, kids, n, Supply(data, pipes, rem, n - 1))
        BY <1>2, <1>8, <2>1 DEF Flow
    <2>3. rem[n] = 0
        <3>1. ~(n > Len(pids)) /\ ~(n <= waited) /\ pids[n] = p
            BY <1>2, <2>1 DEF w, p
        <3> QED
            BY <1>6, <2>2, <3>1 DEF Rest
    <2>4. screen \in 0..(Items + 1) /\ Sat(screen + rem[n]) = Output(clist)
        BY <1>8 DEF Composed, Flow
    <2>5. Sat(screen + 0) = screen
        BY <2>4, PipelineAssumption DEF Sat
    <2> QED
        BY <2>3, <2>4, <2>5
<1> QED
    BY <1>1, <1>5, <1>8, <1>9, <1>10 DEF Composed

\* A child runs only while its line does, or after exit.
LEMMA KidComposed ==
    ASSUME CInv, faults = 0, Composed, NEW p \in Pids, kids[p].st \in {"born", "run"},
           UNCHANGED <<spc, clist>>, screen' \in 0..(Items + 1), Drained',
           spc \in {"pipe", "wait"} =>
               \A rem : Flow(rem) => \E q \in [0..Len(clist) -> 0..(Items + 1)] : Flow(q)'
    PROVE  Composed'
<1>1. spc # "prompt"
    BY DEF CInv, Clean, AtPrompt
<1> QED
    BY <1>1 DEF Composed, OutputIsComposed

LEMMA SameEnds ==
    ASSUME kids \in [Pids -> Kid], NEW p \in Pids, NEW k, kids' = [kids EXCEPT ![p] = k],
           k.ends = kids[p].ends, UNCHANGED ends
    PROVE  Held' = Held
<1>1. \A q \in Pids : kids'[q].ends = kids[q].ends
    OBVIOUS
<1> QED
    BY <1>1 DEF Held

LEMMA ExecComposed ==
    ASSUME CInv, CInv', faults = 0, Composed, NEW p \in Pids, Exec(p) PROVE Composed'
<1>1. /\ kids[p].st = "born" /\ Drain
      /\ UNCHANGED <<spc, clist, pipes, pids, waited, ends, screen, typed, faults>>
    BY DEF Exec
<1>2. Drained' /\ screen' \in 0..(Items + 1)
    BY <1>1, DrainDrains DEF CInv, IInv, Composed
<1> QED
    BY <1>1, <1>2, ExecFlow, KidComposed

LEMMA FinishComposed ==
    ASSUME CInv, CInv', faults = 0, Composed, NEW p \in Pids, Finish(p) PROVE Composed'
<1>1. /\ kids[p].st = "run" /\ Drain
      /\ UNCHANGED <<spc, clist, pipes, pids, waited, ends, screen, typed, faults>>
    BY DEF Finish
<1>2. Drained' /\ screen' \in 0..(Items + 1)
    BY <1>1, DrainDrains DEF CInv, IInv, Composed
<1> QED
    BY <1>1, <1>2, FinishFlow, KidComposed

LEMMA TakeComposed ==
    ASSUME CInv, CInv', faults = 0, Composed, NEW p \in Pids, Take(p) PROVE Composed'
<1> DEFINE k == kids[p]
           l == IF k.prog = "head" THEN k.left - 1 ELSE k.left
<1>1. /\ kids[p].st = "run"
      /\ UNCHANGED <<spc, clist, pipes, pids, waited, ends, screen, typed, faults>>
    BY DEF Take, Running
<1>2. k \in Kid /\ kids \in [Pids -> Kid] /\ data \in [Pipes -> 0..PipeSize]
    BY DEF CInv, IInv, Stores
<1>3. \/ /\ kids' = [kids EXCEPT ![p] = [k EXCEPT !.hand = 1, !.file = k.file - 1, !.left = l]]
         /\ UNCHANGED data
      \/ /\ k.in \in Pipes /\ data[k.in] > 0
         /\ kids' = [kids EXCEPT ![p] = [k EXCEPT !.hand = 1, !.left = l]]
         /\ data' = [data EXCEPT ![k.in] = @ - 1]
    BY <1>2 DEF Take, Kid
<1>4. Held' = Held
    <2> HIDE DEF l
    <2>1. /\ [k EXCEPT !.hand = 1, !.file = k.file - 1, !.left = l].ends = k.ends
          /\ [k EXCEPT !.hand = 1, !.left = l].ends = k.ends
        BY <1>2 DEF Kid
    <2> QED
        BY <1>1, <1>2, <1>3, <2>1, SameEnds
<1>5. Drained'
    <2>1. CASE UNCHANGED data
        BY <1>4, <2>1 DEF Composed, Drained
    <2>2. CASE k.in \in Pipes /\ data[k.in] > 0 /\ data' = [data EXCEPT ![k.in] = @ - 1]
        <3>1. \A x \in Pipes : x # k.in => data'[x] = data[x]
            BY <1>2, <2>2
        <3>2. data[k.in] # 0
            BY <2>2
        <3> QED
            BY <1>4, <2>2, <3>1, <3>2 DEF Composed, Drained
    <2> QED
        BY <1>3, <2>1, <2>2
<1>6. screen' \in 0..(Items + 1)
    BY <1>1 DEF Composed
<1> QED
    BY <1>1, <1>5, <1>6, TakeFlow, KidComposed

LEMMA GiveComposed ==
    ASSUME CInv, CInv', faults = 0, Composed, NEW p \in Pids, Give(p) PROVE Composed'
<1> DEFINE k == kids[p]
<1>1. /\ kids[p].st = "run" /\ HasItem(k)
      /\ UNCHANGED <<spc, clist, pipes, pids, waited, ends, typed, faults>>
    BY DEF Give, Running
<1>2. /\ k \in Kid /\ kids \in [Pids -> Kid] /\ data \in [Pipes -> 0..PipeSize]
      /\ screen \in 0..(Items + 1) /\ Drained
    BY DEF CInv, IInv, Stores, Composed
<1>3. screen' \in 0..(Items + 1)
    <2>1. screen' = screen \/ screen' = IF screen > Items THEN screen ELSE screen + 1
        BY DEF Give
    <2> QED
        BY <1>2, <2>1, PipelineAssumption
<1>4. Drained'
    <2>1. CASE Drain
        BY <2>1, DrainDrains DEF CInv, IInv
    <2>2. CASE /\ kids' = [kids EXCEPT ![p] = Written(k)]
               /\ \/ UNCHANGED data
                  \/ /\ k.out \in Pipes /\ <<k.out, "r">> \in Held
                     /\ data' = [data EXCEPT ![k.out] = @ + 1]
        <3>1. Written(k).ends = k.ends
            BY <1>2 DEF Written, Kid
        <3>2. Held' = Held
            BY <1>1, <1>2, <2>2, <3>1, SameEnds
        <3>3. CASE UNCHANGED data
            BY <1>2, <3>2, <3>3 DEF Drained
        <3>4. CASE /\ k.out \in Pipes /\ <<k.out, "r">> \in Held
                   /\ data' = [data EXCEPT ![k.out] = @ + 1]
            <4>1. \A x \in Pipes : x # k.out => data'[x] = data[x]
                BY <1>2, <3>4
            <4> QED
                BY <1>2, <3>2, <3>4, <4>1 DEF Drained
        <3> QED
            BY <2>2, <3>3, <3>4
    <2> QED
        BY <2>1, <2>2 DEF Give
<1> QED
    BY <1>1, <1>2, <1>3, <1>4, GiveFlow, KidComposed

LEMMA ComposedInit == Init => Composed
<1> SUFFICES ASSUME Init PROVE Composed
    OBVIOUS
<1>1. screen = 0 /\ clist = <<>> /\ spc = "prompt" /\ Len(clist) = 0 /\ clist \in Seq(Command)
    BY DEF Init
<1>2. 0 \in 0..(Items + 1)
    BY PipelineAssumption
<1>3. Drained
    BY DEF Init, Drained
<1>4. Output(clist) = 0
    BY <1>1, OutputFlows
<1> QED
    BY <1>1, <1>2, <1>3, <1>4 DEF Composed, OutputIsComposed

LEMMA ComposedStep == ASSUME Enough, OInv, [Next]_vars PROVE OInv'
<1>1. CInv /\ CInv'
    BY CleanStep DEF OInv
<1> SUFFICES ASSUME faults' = 0 PROVE Composed'
    BY <1>1 DEF OInv
<1>2. faults = 0 /\ Composed
    BY <1>1, FaultsGrow DEF CInv, OInv
<1>3. CASE UNCHANGED vars
    <2>1. \A rem : Flow(rem) => Flow(rem)'
        BY <1>3 DEF vars, Flow
    <2>2. Drained' /\ OutputIsComposed'
        BY <1>2, <1>3 DEF vars, Composed, Drained, Held, OutputIsComposed
    <2> QED
        BY <1>2, <1>3, <2>1, <2>2 DEF vars, Composed
<1>4. CASE ReadLine
    BY <1>1, <1>2, <1>4, ReadLineFlow DEF Composed
<1>5. CASE EndOfInput
    BY <1>2, <1>5 DEF EndOfInput, Composed, Drained, Held, OutputIsComposed
<1>6. CASE ShellStep
    BY <1>1, <1>2, <1>6, MakePipeFlow, ForkFlow, CloseEndsFlow, WaitFlow DEF ShellStep
<1>7. CASE \E p \in Pids : KidStep(p)
    BY <1>1, <1>2, <1>7, ExecComposed, TakeComposed, GiveComposed, FinishComposed DEF KidStep
<1> QED
    BY <1>3, <1>4, <1>5, <1>6, <1>7 DEF Next

\* However many children a line has, and however they interleave: when the shell
\* prompts again the terminal shows what the commands yield one after the other,
\* the writers killed in front of a reader that stopped early included.
THEOREM OutputComposed == ASSUME Enough PROVE Spec => []OutputIsComposed
<1>1. Init => OInv
    BY InvInit, CleanInit, ComposedInit DEF OInv, CInv, Init
<1>2. OInv /\ [Next]_vars => OInv'
    BY ComposedStep
<1>3. OInv /\ faults # 0 => OutputIsComposed
    BY DEF OutputIsComposed
<1>4. OInv => OutputIsComposed
    BY <1>3 DEF OInv, Composed
<1> QED
    BY <1>1, <1>2, <1>4, PTL DEF Spec

=============================================================================
