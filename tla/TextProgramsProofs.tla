------------------------- MODULE TextProgramsProofs -------------------------
(***************************************************************************)
(* Three of the programs of MCTextPrograms beside the parsers: the options *)
(* of dsh for command lines of any length, the loops of the shells as      *)
(* readers of an input they share with their programs for scripts of any   *)
(* length, and stringfun: its pointers, what setup_buff leaves in the      *)
(* buffer and what each option makes of that, for any text, any pair of    *)
(* words, any size of the buffer and any number of spare bytes behind it.  *)
(***************************************************************************)
EXTENDS DshArgs, ShellInput, StringFun, ParserProofs

----------------------------------------------------------------------------
(* DshArgs                                                                 *)

Option == [opt : {"c", "s", "i", "p", "x", "h"}, arg : Nat]

\* The first k options of line l that are among os.
Among(l, os, k) == {n \in 1..k : l[n].opt \in os}

\* Structure a is what the first k options of l say.
Said(a, l, k) ==
    /\ a.mode = "local" => Among(l, {"c", "s", "i", "p", "x"}, k) = {}
    /\ a.mode # "local" =>
          \E m \in 1..k :
              /\ l[m].opt = IF a.mode = "client" THEN "c" ELSE "s"
              /\ Among(l, {"c", "s"}, k) = {m}
              /\ \A n \in Among(l, {"i", "p", "x"}, k) : m < n
    /\ a.threaded <=> Among(l, {"x"}, k) # {}
    /\ a.threaded => a.mode = "server"
    /\ \A n \in Among(l, {"p"}, k) : l[n].arg > 0
    /\ a.at = LastOf(Among(l, {"i"}, k))
    /\ a.port = IF Among(l, {"p"}, k) = {} THEN DefPort ELSE l[LastOf(Among(l, {"p"}, k))].arg
    /\ Among(l, {"p"}, k) # {} => LastOf(Among(l, {"p"}, k)) \in Among(l, {"p"}, k)

Args == [mode : {"local", "client", "server"},
         ip : {"none", "loopback", "anywhere", "given"},
         at : Nat, port : Nat, threaded : BOOLEAN]

ArgsInv ==
    /\ apc \in {"idle", "options", "refused", "usage", "local", "client", "server"}
    /\ options \in Seq(Option) /\ optind \in 0..Len(options)
    /\ cargs \in Args
    /\ apc = "idle" => optind = 0 /\ cargs = Defaults
    /\ apc \in {"options", "local", "client", "server"} => Said(cargs, options, optind)
    /\ apc \in {"local", "client", "server"} =>
          /\ optind = Len(options) /\ apc = cargs.mode
          /\ port = IF cargs.mode = "local" THEN 0 ELSE Htons(cargs.port)
    /\ apc = "refused" => ~Told

\* The last of some positions.
LEMMA LastIs ==
    ASSUME NEW ns \in SUBSET Nat, NEW n \in ns, \A m \in ns : m <= n
    PROVE  LastOf(ns) = n
<1> DEFINE P(k) == \A m \in ns : m <= k
           last == CHOOSE k \in ns : P(k)
<1>1. last \in ns /\ P(last)
    <2> HIDE DEF P
    <2>1. P(n)
        BY DEF P
    <2> QED
        BY <2>1, Zenon
<1>2. LastOf(ns) = last
    BY Zenon DEF LastOf
<1> HIDE DEF last
<1>3. last = n
    BY <1>1
<1> QED
    BY <1>2, <1>3

\* One option more.
LEMMA AmongMore ==
    ASSUME NEW l, NEW os, NEW k \in Nat
    PROVE  /\ Among(l, os, k + 1) =
                  IF l[k + 1].opt \in os THEN Among(l, os, k) \cup {k + 1} ELSE Among(l, os, k)
           /\ Among(l, os, k) \subseteq 1..k
<1>1. ASSUME NEW n PROVE n \in 1..(k + 1) <=> n \in 1..k \/ n = k + 1
    OBVIOUS
<1> QED
    BY <1>1 DEF Among

LEMMA LastMore ==
    ASSUME NEW l, NEW os, NEW k \in Nat, l[k + 1].opt \in os
    PROVE  LastOf(Among(l, os, k + 1)) = k + 1
<1>1. /\ Among(l, os, k + 1) = Among(l, os, k) \cup {k + 1}
      /\ Among(l, os, k) \subseteq 1..k
    BY AmongMore
<1>2. /\ Among(l, os, k + 1) \in SUBSET Nat /\ k + 1 \in Among(l, os, k + 1)
      /\ \A m \in Among(l, os, k + 1) : m <= k + 1
    BY <1>1
<1> QED
    BY <1>2, LastIs

\* Nothing is said before the first option.
LEMMA NothingSaid ==
    ASSUME NEW l PROVE Said(Defaults, l, 0)
<1>1. \A os : Among(l, os, 0) = {}
    BY DEF Among
<1>2. LastOf({}) = 0
    BY DEF LastOf
<1> QED
    BY <1>1, <1>2 DEF Said, Defaults

\* -c or -s says the mode, if nothing did.
LEMMA SaidMode ==
    ASSUME NEW l, NEW k \in Nat, NEW a \in Args, Said(a, l, k), a.mode = "local",
           l[k + 1].opt \in {"c", "s"}, NEW b \in Args,
           b.mode = IF l[k + 1].opt = "c" THEN "client" ELSE "server",
           b.at = 0, b.port = a.port, b.threaded = a.threaded
    PROVE  Said(b, l, k + 1)
<1>1. Among(l, {"c", "s", "i", "p", "x"}, k) = {} /\ ~a.threaded /\ a.at = LastOf(Among(l, {"i"}, k))
    BY DEF Said
<1>2. /\ Among(l, {"c", "s"}, k) = {} /\ Among(l, {"i", "p", "x"}, k) = {}
      /\ Among(l, {"i"}, k) = {} /\ Among(l, {"p"}, k) = {} /\ Among(l, {"x"}, k) = {}
    BY <1>1 DEF Among
<1>3. /\ Among(l, {"c", "s"}, k + 1) = {k + 1} /\ Among(l, {"i", "p", "x"}, k + 1) = {}
      /\ Among(l, {"i"}, k + 1) = {} /\ Among(l, {"p"}, k + 1) = {} /\ Among(l, {"x"}, k + 1) = {}
    <2>1. \A os : /\ l[k + 1].opt \in os => Among(l, os, k + 1) = Among(l, os, k) \cup {k + 1}
                  /\ l[k + 1].opt \notin os => Among(l, os, k + 1) = Among(l, os, k)
        BY AmongMore
    <2>2. Among(l, {"c", "s"}, k + 1) = {k + 1}
        BY <1>2, <2>1
    <2>3. l[k + 1].opt \notin {"i", "p", "x"}
        OBVIOUS
    <2>4. Among(l, {"i", "p", "x"}, k + 1) = {}
        BY <1>2, <2>1, <2>3
    <2>5. l[k + 1].opt \notin {"i"} /\ l[k + 1].opt \notin {"p"} /\ l[k + 1].opt \notin {"x"}
        BY <2>3
    <2> QED
        BY <1>2, <2>1, <2>2, <2>4, <2>5
<1>4. LastOf({}) = 0
    BY DEF LastOf
<1>5. k + 1 \in 1..(k + 1)
    OBVIOUS
<1>6. a.port = DefPort
    BY <1>2 DEF Said
<1> QED
    BY <1>1, <1>3, <1>4, <1>5, <1>6 DEF Said

\* -i, -p and -x say their part, if the mode was said.
LEMMA SaidRest ==
    ASSUME NEW l, NEW k \in Nat, NEW a \in Args, Said(a, l, k), a.mode # "local",
           l[k + 1].opt \in {"i", "p", "x"},
           l[k + 1].opt = "p" => l[k + 1].arg > 0,
           l[k + 1].opt = "x" => a.mode = "server",
           NEW b \in Args, b.mode = a.mode,
           b.at = IF l[k + 1].opt = "i" THEN k + 1 ELSE a.at,
           b.port = IF l[k + 1].opt = "p" THEN l[k + 1].arg ELSE a.port,
           b.threaded <=> l[k + 1].opt = "x" \/ a.threaded
    PROVE  Said(b, l, k + 1)
<1> DEFINE o == l[k + 1].opt
<1>1. PICK m \in 1..k :
          /\ l[m].opt = IF a.mode = "client" THEN "c" ELSE "s"
          /\ Among(l, {"c", "s"}, k) = {m}
          /\ \A n \in Among(l, {"i", "p", "x"}, k) : m < n
    BY DEF Said
<1>2. \A os : /\ o \in os => Among(l, os, k + 1) = Among(l, os, k) \cup {k + 1}
              /\ o \notin os => Among(l, os, k + 1) = Among(l, os, k)
    BY AmongMore
<1>3. \A os : o \in os => LastOf(Among(l, os, k + 1)) = k + 1
    BY LastMore
<1>4. o \in {"i", "p", "x"}
    OBVIOUS
<1>5. m \in 1..(k + 1) /\ m < k + 1
    BY <1>1
<1>6. /\ Among(l, {"c", "s"}, k + 1) = {m}
      /\ \A n \in Among(l, {"i", "p", "x"}, k + 1) : m < n
    BY <1>1, <1>2, <1>4, <1>5
<1>7. b.threaded <=> Among(l, {"x"}, k + 1) # {}
    <2>1. a.threaded <=> Among(l, {"x"}, k) # {}
        BY DEF Said
    <2>2. CASE o = "x"
        BY <1>2, <2>2
    <2>3. CASE o # "x"
        BY <1>2, <2>1, <2>3
    <2> QED
        BY <2>2, <2>3
<1>8. b.threaded => b.mode = "server"
    BY DEF Said
<1>9. \A n \in Among(l, {"p"}, k + 1) : l[n].arg > 0
    <2>1. \A n \in Among(l, {"p"}, k) : l[n].arg > 0
        BY DEF Said
    <2>2. CASE o = "p"
        BY <1>2, <2>1, <2>2
    <2>3. CASE o # "p"
        BY <1>2, <2>1, <2>3
    <2> QED
        BY <2>2, <2>3
<1>10. b.at = LastOf(Among(l, {"i"}, k + 1))
    <2>1. a.at = LastOf(Among(l, {"i"}, k))
        BY DEF Said
    <2>2. CASE o = "i"
        BY <1>3, <2>2
    <2>3. CASE o # "i"
        BY <1>2, <2>1, <2>3
    <2> QED
        BY <2>2, <2>3
<1>11. b.port = IF Among(l, {"p"}, k + 1) = {} THEN DefPort
                ELSE l[LastOf(Among(l, {"p"}, k + 1))].arg
    <2>1. a.port = IF Among(l, {"p"}, k) = {} THEN DefPort ELSE l[LastOf(Among(l, {"p"}, k))].arg
        BY DEF Said
    <2>2. CASE o = "p"
        <3>1. LastOf(Among(l, {"p"}, k + 1)) = k + 1 /\ Among(l, {"p"}, k + 1) # {}
            BY <1>2, <1>3, <2>2
        <3> QED
            BY <2>2, <3>1
    <2>3. CASE o # "p"
        BY <1>2, <2>1, <2>3
    <2> QED
        BY <2>2, <2>3
<1>12. Among(l, {"p"}, k + 1) # {} => LastOf(Among(l, {"p"}, k + 1)) \in Among(l, {"p"}, k + 1)
    <2>1. Among(l, {"p"}, k) # {} => LastOf(Among(l, {"p"}, k)) \in Among(l, {"p"}, k)
        BY DEF Said
    <2>2. CASE o = "p"
        <3>1. LastOf(Among(l, {"p"}, k + 1)) = k + 1 /\ k + 1 \in Among(l, {"p"}, k + 1)
            BY <1>2, <1>3, <2>2
        <3> QED
            BY <3>1
    <2>3. CASE o # "p"
        BY <1>2, <2>1, <2>3
    <2> QED
        BY <2>2, <2>3
<1> QED
    BY <1>1, <1>5, <1>6, <1>7, <1>8, <1>9, <1>10, <1>11, <1>12 DEF Said

\* A line that is refused at option k + 1 cannot be told.
LEMMA Untold ==
    ASSUME options \in Seq(Option), NEW k \in Nat, k < Len(options), NEW a, Said(a, options, k),
           LET o == options[k + 1].opt
           IN  \/ o \in {"c", "s"} /\ a.mode # "local"
               \/ o \in {"i", "p", "x"} /\ a.mode = "local"
               \/ o = "p" /\ options[k + 1].arg = 0
               \/ o = "x" /\ a.mode = "client"
    PROVE  ~Told
<1> SUFFICES ASSUME Told PROVE FALSE
    OBVIOUS
<1> DEFINE o == options[k + 1].opt
<1>1. Len(options) \in Nat /\ DOMAIN options = 1..Len(options) /\ k + 1 \in DOMAIN options
    OBVIOUS
<1>2. \A os : o \in os => k + 1 \in At(os)
    BY <1>1 DEF At
<1>3. \A os, n : n \in Among(options, os, k) => n \in At(os) /\ n # k + 1
    BY <1>1 DEF At, Among
<1>4. \A os, n : n \in At(os) /\ n < k + 1 => n \in Among(options, os, k)
    BY <1>1 DEF At, Among
<1>5. /\ \A m, n \in At({"c", "s"}) : m = n
      /\ \A n \in At({"i", "p", "x"}) : \E m \in At({"c", "s"}) : m < n
      /\ At({"x"}) # {} => At({"s"}) # {}
      /\ \A n \in At({"p"}) : options[n].arg > 0
    BY DEF Told
<1>6. ASSUME a.mode # "local"
      PROVE  \E m \in Among(options, {"c", "s"}, k) :
                 options[m].opt = IF a.mode = "client" THEN "c" ELSE "s"
    BY <1>6 DEF Said
<1>7. CASE o \in {"c", "s"} /\ a.mode # "local"
    <2>1. k + 1 \in At({"c", "s"})
        BY <1>2, <1>7
    <2> QED
        BY <1>3, <1>5, <1>6, <1>7, <2>1
<1>8. CASE o \in {"i", "p", "x"} /\ a.mode = "local"
    <2>1. k + 1 \in At({"i", "p", "x"})
        BY <1>2, <1>8
    <2>2. PICK m \in At({"c", "s"}) : m < k + 1
        BY <1>5, <2>1
    <2>3. m \in Among(options, {"c", "s"}, k)
        BY <1>4, <2>2
    <2>4. Among(options, {"c", "s", "i", "p", "x"}, k) = {}
        BY <1>8 DEF Said
    <2> QED
        BY <2>3, <2>4 DEF Among
<1>9. CASE o = "p" /\ options[k + 1].arg = 0
    <2>1. k + 1 \in At({"p"})
        BY <1>2, <1>9
    <2> QED
        BY <1>5, <1>9, <2>1
<1>10. CASE o = "x" /\ a.mode = "client"
    <2>1. k + 1 \in At({"x"})
        BY <1>2, <1>10
    <2>2. PICK n \in At({"s"}) : TRUE
        BY <1>5, <2>1
    <2>3. PICK m \in Among(options, {"c", "s"}, k) : options[m].opt = "c"
        BY <1>6, <1>10
    <2>4. m \in At({"c", "s"}) /\ n \in At({"c", "s"}) /\ options[n].opt = "s"
        BY <1>3, <2>2, <2>3 DEF At
    <2>5. m = n
        BY <1>5, <2>4
    <2> QED
        BY <2>3, <2>4, <2>5
<1> QED
    BY <1>7, <1>8, <1>9, <1>10

LEMMA ArgsStart == ArgsInit => ArgsInv
<1> SUFFICES ASSUME ArgsInit PROVE ArgsInv
    OBVIOUS
<1>1. Defaults \in Args
    BY ArgsAssumption DEF Defaults, Args
<1> QED
    BY <1>1 DEF ArgsInit, ArgsInv

\* A turn of the loop that fills in what the option says and refuses what cannot
\* be told.
LEMMA TurnKeeps ==
    ASSUME ArgsInv, NEW o, Opt(o), NEW bad, NEW b, Turn(bad, b),
           bad => ~Told,
           ~bad => b \in Args /\ Said(b, options, optind + 1)
    PROVE  ArgsInv'
<1>1. /\ apc = "options" /\ optind < Len(options) /\ Len(options) \in Nat
      /\ optind \in 0..Len(options)
    BY DEF ArgsInv, Opt
<1>2. /\ optind' = optind + 1 /\ options' = options
      /\ apc' = IF bad THEN "refused" ELSE "options"
      /\ cargs' = IF bad THEN cargs ELSE b
    BY DEF Turn, RefuseIf
<1>3. optind + 1 \in 0..Len(options)
    BY <1>1
<1>4. options \in Seq(Option) /\ cargs \in Args
    BY DEF ArgsInv
<1>5. bad => ~Told'
    BY <1>2 DEF Told, At
<1>6. CASE bad
    BY <1>2, <1>3, <1>4, <1>5, <1>6 DEF ArgsInv
<1>7. CASE ~bad
    BY <1>2, <1>3, <1>4, <1>7 DEF ArgsInv
<1> QED
    BY <1>6, <1>7

\* What a turn starts from.
LEMMA AtOption ==
    ASSUME ArgsInv, NEW o, Opt(o)
    PROVE  /\ options \in Seq(Option) /\ optind \in Nat /\ optind < Len(options)
           /\ cargs \in Args /\ Said(cargs, options, optind) /\ options[optind + 1].opt = o
           /\ options[optind + 1].arg \in Nat
<1>1. /\ options \in Seq(Option) /\ optind \in 0..Len(options) /\ optind < Len(options)
      /\ options[optind + 1].opt = o /\ apc = "options"
    BY DEF ArgsInv, Opt
<1>2. options[optind + 1] \in Option
    BY <1>1
<1> QED
    BY <1>1, <1>2 DEF ArgsInv, Option

LEMMA OptModeKeeps ==
    ASSUME ArgsInv, NEW o \in {"c", "s"}, Opt(o), NEW ip \in {"anywhere", "loopback"},
           NEW m \in {"client", "server"}, m = (IF o = "c" THEN "client" ELSE "server"),
           Turn(cargs.mode # "local", [cargs EXCEPT !.mode = m, !.ip = ip, !.at = 0])
    PROVE  ArgsInv'
<1> DEFINE b == [cargs EXCEPT !.mode = m, !.ip = ip, !.at = 0]
<1>1. /\ options \in Seq(Option) /\ optind \in Nat /\ optind < Len(options)
      /\ cargs \in Args /\ Said(cargs, options, optind) /\ options[optind + 1].opt = o
    BY AtOption
<1>2. /\ b \in Args
      /\ b.mode = m /\ b.at = 0 /\ b.port = cargs.port /\ b.threaded = cargs.threaded
    BY <1>1 DEF Args
<1> HIDE DEF b
<1>3. cargs.mode # "local" => ~Told
    BY <1>1, Untold
<1>4. cargs.mode = "local" => Said(b, options, optind + 1)
    BY <1>1, <1>2, SaidMode
<1>5. Turn(cargs.mode # "local", b)
    BY DEF b
<1> QED
    BY <1>2, <1>3, <1>4, <1>5, TurnKeeps

LEMMA OptClientKeeps == ArgsInv /\ OptClient => ArgsInv'
    BY OptModeKeeps DEF OptClient

LEMMA OptServerKeeps == ArgsInv /\ OptServer => ArgsInv'
    BY OptModeKeeps DEF OptServer

LEMMA OptInterfaceKeeps == ArgsInv /\ OptInterface => ArgsInv'
<1> SUFFICES ASSUME ArgsInv, OptInterface PROVE ArgsInv'
    OBVIOUS
<1> DEFINE b == [cargs EXCEPT !.ip = "given", !.at = optind + 1]
<1>1. Opt("i") /\ Turn(TooEarly, b)
    BY DEF OptInterface
<1>2. /\ options \in Seq(Option) /\ optind \in Nat /\ optind < Len(options)
      /\ cargs \in Args /\ Said(cargs, options, optind) /\ options[optind + 1].opt = "i"
    BY <1>1, AtOption
<1>3. /\ b \in Args
      /\ b.mode = cargs.mode /\ b.at = optind + 1 /\ b.port = cargs.port
      /\ b.threaded = cargs.threaded
    <2>1. optind + 1 \in Nat /\ cargs \in Args
        BY <1>2
    <2> QED
        BY <2>1 DEF Args
<1> HIDE DEF b
<1>4. TooEarly => ~Told
    BY <1>2, Untold DEF TooEarly
<1>5. ~TooEarly => Said(b, options, optind + 1)
    BY <1>2, <1>3, SaidRest DEF TooEarly
<1> QED
    BY <1>1, <1>3, <1>4, <1>5, TurnKeeps

LEMMA OptPortKeeps == ArgsInv /\ OptPort => ArgsInv'
<1> SUFFICES ASSUME ArgsInv, OptPort PROVE ArgsInv'
    OBVIOUS
<1> DEFINE b == [cargs EXCEPT !.port = Arg]
<1>1. Opt("p") /\ Turn(TooEarly \/ Arg = 0, b)
    BY DEF OptPort
<1>2. /\ options \in Seq(Option) /\ optind \in Nat /\ optind < Len(options)
      /\ cargs \in Args /\ Said(cargs, options, optind) /\ options[optind + 1].opt = "p"
      /\ Arg \in Nat /\ Arg = options[optind + 1].arg
    BY <1>1, AtOption DEF Arg
<1>3. /\ b \in Args
      /\ b.mode = cargs.mode /\ b.at = cargs.at /\ b.port = Arg /\ b.threaded = cargs.threaded
    BY <1>2 DEF Args
<1> HIDE DEF b
<1>4. TooEarly \/ Arg = 0 => ~Told
    BY <1>2, Untold DEF TooEarly
<1>5. ~(TooEarly \/ Arg = 0) => Said(b, options, optind + 1)
    BY <1>2, <1>3, SaidRest DEF TooEarly
<1> QED
    BY <1>1, <1>3, <1>4, <1>5, TurnKeeps

LEMMA OptThreadedKeeps == ArgsInv /\ OptThreaded => ArgsInv'
<1> SUFFICES ASSUME ArgsInv, OptThreaded PROVE ArgsInv'
    OBVIOUS
<1> DEFINE b == [cargs EXCEPT !.threaded = TRUE]
<1>1. Opt("x") /\ Turn(cargs.mode # "server", b)
    BY DEF OptThreaded
<1>2. /\ options \in Seq(Option) /\ optind \in Nat /\ optind < Len(options)
      /\ cargs \in Args /\ Said(cargs, options, optind) /\ options[optind + 1].opt = "x"
    BY <1>1, AtOption
<1>3. /\ b \in Args
      /\ b.mode = cargs.mode /\ b.at = cargs.at /\ b.port = cargs.port /\ b.threaded
    BY <1>2 DEF Args
<1> HIDE DEF b
<1>4. cargs.mode # "server" => ~Told
    <2>1. cargs.mode \in {"local", "client", "server"}
        BY <1>2 DEF Args
    <2> QED
        BY <1>2, <2>1, Untold
<1>5. cargs.mode = "server" => Said(b, options, optind + 1)
    BY <1>2, <1>3, SaidRest
<1> QED
    BY <1>1, <1>3, <1>4, <1>5, TurnKeeps

LEMMA ArgsOthersKeep == ArgsInv /\ (TypeOptions \/ Usage \/ StartMode) => ArgsInv'
<1> SUFFICES ASSUME ArgsInv, TypeOptions \/ Usage \/ StartMode PROVE ArgsInv'
    OBVIOUS
<1>1. CASE TypeOptions
    <2>1. /\ apc' = "options" /\ optind' = 0 /\ cargs' = Defaults /\ cargs' \in Args
          /\ options' \in Seq(Option)
        <3>1. apc = "idle" /\ options' \in ArgLines /\ apc' = "options" /\ UNCHANGED <<optind, cargs>>
            BY <1>1 DEF TypeOptions
        <3>2. optind = 0 /\ cargs = Defaults /\ cargs \in Args
            BY <3>1 DEF ArgsInv
        <3>3. options' \in Seq(Option)
            BY <3>1, ArgsAssumption DEF Option
        <3> QED
            BY <3>1, <3>2, <3>3
    <2>2. Said(Defaults, options', 0) /\ 0 \in 0..Len(options')
        BY <2>1, NothingSaid
    <2> QED
        BY <2>1, <2>2 DEF ArgsInv
<1>2. CASE Usage
    BY <1>2 DEF Usage, ArgsInv
<1>3. CASE StartMode
    <2>1. /\ apc = "options" /\ optind = Len(options)
          /\ apc' = IF cargs.threaded /\ cargs.mode # "server" THEN "refused" ELSE cargs.mode
          /\ port' = IF cargs.mode = "local" THEN 0 ELSE Htons(cargs.port)
          /\ UNCHANGED <<options, optind, cargs>>
        BY <1>3 DEF StartMode
    <2>2. Said(cargs, options, optind) /\ cargs \in Args
        BY <2>1 DEF ArgsInv
    <2>3. apc' = cargs.mode /\ cargs.mode \in {"local", "client", "server"}
        BY <2>1, <2>2 DEF Said, Args
    <2> QED
        BY <2>1, <2>2, <2>3 DEF ArgsInv
<1> QED
    BY <1>1, <1>2, <1>3

LEMMA ArgsKeep == ArgsInv /\ [ArgsNext]_dshargs => ArgsInv'
<1> SUFFICES ASSUME ArgsInv, [ArgsNext]_dshargs PROVE ArgsInv'
    OBVIOUS
<1>1. CASE UNCHANGED dshargs
    BY <1>1 DEF ArgsInv, dshargs, Told, At
<1> QED
    BY <1>1, OptClientKeeps, OptServerKeeps, OptInterfaceKeeps, OptPortKeeps, OptThreadedKeeps,
       ArgsOthersKeep DEF ArgsNext

\* dsh starts the mode its options tell, at the last address and port given,
\* exactly if they tell one: on a line of any length, in any order and with any
\* repetitions.
THEOREM OptionsObeyed == ArgsSpec => []StartedAsTold
<1>1. ArgsInv => StartedAsTold
    <2> SUFFICES ASSUME ArgsInv PROVE StartedAsTold
        OBVIOUS
    <2>1. apc = "refused" => ~Told
        BY DEF ArgsInv
    <2>2. ASSUME apc \in {"local", "client", "server"}
          PROVE  /\ Told
                 /\ apc = "client" <=> At({"c"}) # {}
                 /\ apc = "server" <=> At({"s"}) # {}
                 /\ cargs.at = LastOf(At({"i"}))
                 /\ LET p == LastOf(At({"p"})) IN
                       apc # "local" /\ (p > 0 => options[p].arg < 65536) =>
                           port = IF p > 0 THEN options[p].arg ELSE DefPort
        <3>1. /\ options \in Seq(Option) /\ Len(options) \in Nat /\ DOMAIN options = 1..Len(options)
              /\ Said(cargs, options, Len(options)) /\ apc = cargs.mode
              /\ port = IF cargs.mode = "local" THEN 0 ELSE Htons(cargs.port)
            BY <2>2 DEF ArgsInv
        <3>2. \A os : Among(options, os, Len(options)) = At(os)
            BY <3>1 DEF Among, At
        <3>3. /\ apc = "local" => At({"c", "s", "i", "p", "x"}) = {}
              /\ apc # "local" =>
                    \E m \in 1..Len(options) :
                        /\ options[m].opt = IF apc = "client" THEN "c" ELSE "s"
                        /\ At({"c", "s"}) = {m}
                        /\ \A n \in At({"i", "p", "x"}) : m < n
              /\ At({"x"}) # {} => apc = "server"
              /\ \A n \in At({"p"}) : options[n].arg > 0
              /\ cargs.at = LastOf(At({"i"}))
              /\ cargs.port = IF At({"p"}) = {} THEN DefPort ELSE options[LastOf(At({"p"}))].arg
              /\ At({"p"}) # {} => LastOf(At({"p"})) \in At({"p"})
            BY <3>1, <3>2 DEF Said
        <3>4. /\ apc = "client" <=> At({"c"}) # {}
              /\ apc = "server" <=> At({"s"}) # {}
            <4>1. CASE apc = "local"
                BY <3>3, <4>1 DEF At
            <4>2. CASE apc # "local"
                <5>1. PICK m \in 1..Len(options) :
                          /\ options[m].opt = IF apc = "client" THEN "c" ELSE "s"
                          /\ At({"c", "s"}) = {m}
                    BY <3>3, <4>2
                <5>2. \A n \in DOMAIN options : options[n].opt \in {"c", "s"} => n = m
                    BY <5>1 DEF At
                <5>3. At({"c"}) = (IF apc = "client" THEN {m} ELSE {})
                      /\ At({"s"}) = (IF apc = "client" THEN {} ELSE {m})
                    BY <3>1, <5>1, <5>2 DEF At
                <5> QED
                    BY <2>2, <4>2, <5>3
            <4> QED
                BY <4>1, <4>2
        <3>5. Told
            <4>1. \A m, n \in At({"c", "s"}) : m = n
                BY <3>3 DEF At
            <4>2. \A n \in At({"i", "p", "x"}) : \E m \in At({"c", "s"}) : m < n
                BY <3>3 DEF At
            <4> QED
                BY <3>3, <3>4, <4>1, <4>2 DEF Told
        <3>6. ASSUME apc # "local", LastOf(At({"p"})) > 0 => options[LastOf(At({"p"}))].arg < 65536
              PROVE  port = IF LastOf(At({"p"})) > 0 THEN options[LastOf(At({"p"}))].arg ELSE DefPort
            <4>1. CASE At({"p"}) = {}
                <5>1. LastOf(At({"p"})) = 0
                    BY <4>1 DEF LastOf
                <5>2. port = DefPort % 65536
                    BY <3>1, <3>3, <3>6, <4>1 DEF Htons
                <5>3. DefPort \in Nat /\ DefPort < 65536
                    BY ArgsAssumption
                <5>4. \A n \in Nat : n < 65536 => n % 65536 = n
                    OBVIOUS
                <5> QED
                    BY <5>1, <5>2, <5>3, <5>4
            <4>2. CASE At({"p"}) # {}
                <5> DEFINE p == LastOf(At({"p"}))
                <5>1. p \in DOMAIN options /\ options[p].opt = "p"
                    BY <3>3, <4>2 DEF At
                <5>2. p > 0 /\ options[p].arg \in Nat /\ options[p].arg < 65536
                    <6>1. options[p].arg < 65536 \/ ~(p > 0)
                        BY <3>6
                    <6> HIDE DEF p
                    <6>2. options[p] \in Option /\ p \in 1..Len(options)
                        BY <3>1, <5>1
                    <6> QED
                        BY <6>1, <6>2 DEF Option
                <5>3. port = options[p].arg % 65536
                    BY <3>1, <3>3, <3>6, <4>2 DEF Htons
                <5>4. port = options[p].arg
                    <6> HIDE DEF p
                    <6> QED
                        BY <5>2, <5>3
                <5> QED
                    BY <5>2, <5>4
            <4> QED
                BY <4>1, <4>2
        <3> QED
            BY <3>3, <3>4, <3>5, <3>6
    <2> QED
        BY <2>1, <2>2 DEF StartedAsTold
<1> QED
    BY <1>1, ArgsStart, ArgsKeep, PTL DEF ArgsSpec

----------------------------------------------------------------------------
(* ShellInput                                                              *)

\* Of the lines up to n of script s that are not in set e, d is the last cd, or
\* there is none.
LastCd(s, e, d, n) ==
    /\ d \in {l \in 1..n \ e : s[l] = "cd"} \cup {0}
    /\ \A l \in 1..n \ e : s[l] = "cd" => l <= d

LinesOf(t) == {t[k].line : k \in DOMAIN t}

InputTypes ==
    /\ ipc \in {"idle", "prompt", "fork", "child", "ended"}
    /\ source \in {"tty", "pipe", "file"}
    /\ script \in Seq(Kinds)
    /\ offset \in 0..Len(script) /\ now \in 0..Len(script) /\ cwd \in Nat
    /\ ahead \in Seq(1..Len(script))
    /\ taken \in Seq([line : Nat, cwd : Nat])
    /\ ipc = "idle" => offset = 0 /\ now = 0 /\ cwd = 0 /\ ahead = <<>> /\ taken = <<>> /\ eaten = {}
    /\ ipc \in {"fork", "child"} => now \in 1..Len(script)

\* What the descriptor has passed is somewhere.
NoneLost == 1..offset \subseteq LinesOf(taken) \cup eaten \cup Range(ahead)

\* Where the descriptor is never moved back: the lines taken, then those in the
\* buffer, then those not read, each in their order, and the others were eaten.
InTurn ==
    /\ \A k, n \in 1..Len(ahead) : k < n => ahead[k] < ahead[n]
    /\ \A k \in 1..Len(ahead) : now < ahead[k] /\ ahead[k] <= offset
    /\ now <= offset /\ (now = 0 \/ now \in LinesOf(taken))
    /\ \A k \in 1..Len(taken) : taken[k].line <= now
    /\ \A k, n \in 1..Len(taken) : k < n => taken[k].line < taken[n].line
    /\ eaten \subseteq 1..offset
    /\ eaten \cap LinesOf(taken) = {} /\ eaten \cap Range(ahead) = {}
    /\ LastCd(script, eaten, cwd, now)
    /\ \A k \in 1..Len(taken) : LastCd(script, eaten, taken[k].cwd, taken[k].line - 1)

MovedBack == source = "file" /\ Unknown # {}

InputInv == InputTypes /\ NoneLost /\ (MovedBack \/ InTurn)

LEMMA HeadTail ==
    ASSUME NEW S, NEW s \in Seq(S), s # <<>>
    PROVE  /\ Range(s) = {Head(s)} \cup Range(Tail(s))
           /\ Head(s) = s[1] /\ Tail(s) \in Seq(S) /\ Len(Tail(s)) = Len(s) - 1
           /\ Len(s) \in Nat /\ Len(s) >= 1
           /\ \A k \in 1..Len(Tail(s)) : Tail(s)[k] = s[k + 1]
<1>1. /\ Head(s) = s[1] /\ Tail(s) \in Seq(S) /\ Len(Tail(s)) = Len(s) - 1
      /\ Len(s) \in Nat /\ Len(s) >= 1
      /\ \A k \in 1..Len(Tail(s)) : Tail(s)[k] = s[k + 1]
      /\ DOMAIN s = 1..Len(s) /\ DOMAIN Tail(s) = 1..Len(Tail(s))
    BY EmptySeq
<1> DEFINE t == Tail(s)
<1> HIDE DEF t
<1>2. ASSUME NEW x \in Range(s) PROVE x \in {s[1]} \cup Range(t)
    <2>1. PICK k \in 1..Len(s) : x = s[k]
        BY <1>1 DEF Range
    <2>2. CASE k = 1
        BY <2>1, <2>2
    <2>3. CASE k # 1
        <3>1. k - 1 \in 1..Len(t) /\ t[k - 1] = s[(k - 1) + 1]
            BY <1>1, <2>3 DEF t
        <3>2. (k - 1) + 1 = k
            OBVIOUS
        <3>3. t[k - 1] = x /\ DOMAIN t = 1..Len(t)
            BY <1>1, <2>1, <3>1, <3>2 DEF t
        <3> QED
            BY <3>1, <3>3 DEF Range
    <2> QED
        BY <2>2, <2>3
<1>3. ASSUME NEW x \in {s[1]} \cup Range(t) PROVE x \in Range(s)
    <2>1. CASE x = s[1]
        BY <1>1, <2>1 DEF Range
    <2>2. CASE x \in Range(t)
        <3>1. PICK k \in 1..Len(t) : x = t[k]
            BY <1>1, <2>2 DEF Range, t
        <3>2. k + 1 \in 1..Len(s) /\ x = s[k + 1]
            BY <1>1, <3>1 DEF t
        <3> QED
            BY <1>1, <3>2 DEF Range
    <2> QED
        BY <2>1, <2>2
<1> QED
    BY <1>1, <1>2, <1>3 DEF t

LEMMA OneTaken ==
    ASSUME NEW S, NEW t \in Seq(S), NEW r \in S
    PROVE  /\ LinesOf(Append(t, r)) = LinesOf(t) \cup {r.line}
           /\ Append(t, r) \in Seq(S) /\ Len(Append(t, r)) = Len(t) + 1 /\ Len(t) \in Nat
           /\ Append(t, r)[Len(t) + 1] = r
           /\ \A k \in 1..Len(t) : Append(t, r)[k] = t[k]
<1> DEFINE u == Append(t, r)
<1>1. /\ u \in Seq(S) /\ Len(u) = Len(t) + 1 /\ Len(t) \in Nat /\ u[Len(t) + 1] = r
      /\ \A k \in 1..Len(t) : u[k] = t[k]
      /\ DOMAIN u = 1..Len(u) /\ DOMAIN t = 1..Len(t)
    OBVIOUS
<1> HIDE DEF u
<1>2. \A k : k \in DOMAIN u <=> k \in DOMAIN t \/ k = Len(t) + 1
    BY <1>1
<1>3. LinesOf(u) = LinesOf(t) \cup {r.line}
    BY <1>1, <1>2 DEF LinesOf
<1> QED
    BY <1>1, <1>3 DEF u

LEMMA TakenAre ==
    ASSUME InputTypes
    PROVE  Range(TakenLines) = LinesOf(taken) /\ DOMAIN taken = 1..Len(taken) /\ Len(taken) \in Nat
    BY DEF InputTypes, TakenLines, Range, LinesOf

LEMMA InputStarts == InputInit => InputInv
<1> SUFFICES ASSUME InputInit PROVE InputInv
    OBVIOUS
<1> USE DEF InputInit
<1>1. InputTypes
    BY DEF InputTypes
<1>2. NoneLost
    BY DEF NoneLost
<1>3. LinesOf(taken) = {} /\ Range(ahead) = {} /\ Len(taken) = 0 /\ Len(ahead) = 0
    BY DEF LinesOf, Range
<1>4. InTurn
    BY <1>3 DEF InTurn, LastCd
<1> QED
    BY <1>1, <1>2, <1>4 DEF InputInv

LEMMA StartShellKeeps == InputInv /\ StartShell => InputInv'
<1> SUFFICES ASSUME InputInv, StartShell PROVE InputInv'
    OBVIOUS
<1>1. /\ ipc' = "prompt" /\ source' \in {"tty", "pipe", "file"} /\ script' \in Seq(Kinds)
      /\ offset' = 0 /\ now' = 0 /\ cwd' = 0 /\ ahead' = <<>> /\ taken' = <<>> /\ eaten' = {}
    BY InputAssumption DEF StartShell, InputInv, InputTypes
<1>2. InputTypes'
    BY <1>1 DEF InputTypes
<1>3. NoneLost'
    BY <1>1 DEF NoneLost
<1>4. LinesOf(taken') = {} /\ Range(ahead') = {} /\ Len(taken') = 0 /\ Len(ahead') = 0
    BY <1>1 DEF LinesOf, Range
<1>5. LastCd(script', eaten', cwd', now')
    BY <1>1 DEF LastCd
<1>6. InTurn'
    BY <1>1, <1>4, <1>5 DEF InTurn
<1> QED
    BY <1>2, <1>3, <1>6 DEF InputInv

\* The steps that change only where the shell is.
LEMMA OnlyPlace ==
    ASSUME InputInv, ipc' \in {"prompt", "fork", "child", "ended"},
           ipc' \in {"fork", "child"} => ipc \in {"fork", "child"},
           UNCHANGED <<dsh, source, script, offset, ahead, now, cwd, taken, eaten>>
    PROVE  InputInv'
<1>1. InputTypes'
    BY DEF InputInv, InputTypes
<1>2. NoneLost'
    BY DEF InputInv, NoneLost
<1>3. (MovedBack \/ InTurn)'
    BY DEF InputInv, MovedBack, InTurn, Unknown, Lines
<1> QED
    BY <1>1, <1>2, <1>3 DEF InputInv

\* How many lines a read returns.
LEMMA BlockSize ==
    ASSUME InputTypes, offset < Len(script), NEW n \in Block
    PROVE  n \in 1..(Len(script) - offset)
<1> DEFINE rest == Len(script) - offset
           most == IF rest < BlockLines THEN rest ELSE BlockLines
<1>1. Len(script) \in Nat /\ offset \in Nat /\ source \in {"tty", "pipe", "file"}
    BY DEF InputTypes
<1>2. rest \in Nat /\ rest >= 1 /\ most \in 1..rest
    BY <1>1, InputAssumption
<1>3. Block = CASE source = "tty" -> {1} [] source = "pipe" -> 1..most [] OTHER -> {most}
    BY DEF Block
<1> HIDE DEF rest, most
<1>4. n = 1 \/ n \in 1..most \/ n = most
    BY <1>1, <1>3
<1>5. n \in 1..rest
    BY <1>2, <1>4
<1> QED
    BY <1>5 DEF rest

LEMMA ReadAheadKeeps == InputInv /\ ReadAhead => InputInv'
<1> SUFFICES ASSUME InputInv, ReadAhead PROVE InputInv'
    OBVIOUS
<1>1. PICK n \in Block : /\ ahead' = [k \in 1..n |-> offset + k]
                         /\ offset' = offset + n
    BY DEF ReadAhead
<1>2. /\ ipc = "prompt" /\ ahead = <<>> /\ offset < Len(script)
      /\ UNCHANGED <<ipc, dsh, source, script, now, cwd, taken, eaten>>
    BY DEF ReadAhead
<1>3. InputTypes /\ offset \in Nat /\ Len(script) \in Nat /\ offset <= Len(script) /\ now \in Nat
    BY DEF InputInv, InputTypes
<1>4. n \in Nat /\ n >= 1 /\ offset + n <= Len(script) /\ offset' \in 0..Len(script)
    <2>1. n \in 1..(Len(script) - offset)
        BY <1>2, <1>3, BlockSize
    <2> QED
        BY <1>1, <1>3, <2>1
<1>5. /\ ahead' \in Seq(1..Len(script)) /\ Len(ahead') = n /\ DOMAIN ahead' = 1..n
      /\ \A k \in 1..n : ahead'[k] = offset + k
    BY <1>1, <1>3, <1>4
<1>6. InputTypes'
    BY <1>2, <1>3, <1>4, <1>5 DEF InputTypes
<1>7. Range(ahead') = (offset + 1)..(offset + n)
    <2>1. ASSUME NEW x \in (offset + 1)..(offset + n) PROVE x \in Range(ahead')
        <3>1. x - offset \in 1..n /\ offset + (x - offset) = x
            BY <1>3, <1>4
        <3> QED
            BY <1>5, <3>1 DEF Range
    <2>2. ASSUME NEW x \in Range(ahead') PROVE x \in (offset + 1)..(offset + n)
        <3>1. PICK k \in 1..n : x = offset + k
            BY <1>5 DEF Range
        <3> QED
            BY <1>3, <1>4, <3>1
    <2> QED
        BY <2>1, <2>2
<1>8. Range(ahead) = {}
    BY <1>2 DEF Range
<1>9. NoneLost'
    <2>1. 1..offset \subseteq LinesOf(taken) \cup eaten
        BY <1>8 DEF InputInv, NoneLost
    <2>2. 1..offset' \subseteq 1..offset \cup Range(ahead')
        BY <1>1, <1>3, <1>4, <1>7
    <2> QED
        BY <1>2, <2>1, <2>2 DEF NoneLost
<1>10. CASE MovedBack
    BY <1>2, <1>6, <1>9, <1>10 DEF InputInv, MovedBack, Unknown, Lines
<1>11. CASE InTurn
    <2>1. \A k, m \in 1..Len(ahead') : k < m => ahead'[k] < ahead'[m]
        BY <1>3, <1>4, <1>5
    <2>2. \A k \in 1..Len(ahead') : now < ahead'[k] /\ ahead'[k] <= offset'
        BY <1>1, <1>3, <1>4, <1>5, <1>11 DEF InTurn
    <2>3. now <= offset' /\ 1..offset \subseteq 1..offset'
        BY <1>1, <1>3, <1>4, <1>11 DEF InTurn
    <2>4. eaten \cap Range(ahead') = {}
        <3>1. eaten \subseteq 1..offset
            BY <1>11 DEF InTurn
        <3> QED
            BY <1>3, <1>7, <3>1
    <2>5. InTurn'
        BY <1>2, <1>11, <2>1, <2>2, <2>3, <2>4 DEF InTurn
    <2> QED
        BY <1>6, <1>9, <2>5 DEF InputInv
<1> QED
    BY <1>10, <1>11 DEF InputInv

LEMMA OutcomeCd == \A sh, k : Outcome(sh, k) = "cd" <=> k = "cd"
    BY DEF Outcome

\* Between the line the shell was at and the next in its buffer all were eaten,
\* so the last cd before the first is the last before the second.
LEMMA NextTaken ==
    ASSUME InputTypes, NoneLost, InTurn, ahead # <<>>
    PROVE  LastCd(script, eaten, cwd, ahead[1] - 1)
<1> DEFINE h == ahead[1]
<1>1. /\ ahead \in Seq(1..Len(script)) /\ Len(ahead) \in Nat /\ Len(ahead) >= 1
      /\ now \in Nat /\ offset \in Nat /\ DOMAIN ahead = 1..Len(ahead)
    BY HeadTail DEF InputTypes
<1>2. 1 \in 1..Len(ahead) /\ h \in Nat /\ now < h /\ h <= offset
    BY <1>1 DEF InTurn
<1>3. \A x \in Range(ahead) : x >= h
    <2> SUFFICES ASSUME NEW x \in Range(ahead) PROVE x >= h
        OBVIOUS
    <2>1. PICK k \in 1..Len(ahead) : x = ahead[k]
        BY <1>1 DEF Range
    <2>2. x \in Nat /\ (k = 1 \/ 1 < k)
        BY <1>1, <2>1
    <2>3. k = 1 => x = h
        BY <2>1
    <2>4. 1 < k => h < x
        BY <1>2, <2>1 DEF InTurn
    <2> QED
        BY <1>2, <2>2, <2>3, <2>4
<1>4. \A x \in LinesOf(taken) : x <= now
    BY DEF LinesOf, InTurn, InputTypes
<1> HIDE DEF h
<1>5. ASSUME NEW l \in (now + 1)..(h - 1) PROVE l \in eaten
    <2>1. l \in 1..offset /\ ~(l >= h) /\ ~(l <= now)
        BY <1>1, <1>2
    <2>2. l \notin Range(ahead) /\ l \notin LinesOf(taken)
        BY <1>3, <1>4, <2>1
    <2> QED
        BY <2>1, <2>2 DEF NoneLost
<1>6. 1..(h - 1) \ eaten = 1..now \ eaten
    <2>1. \A l : l \in 1..(h - 1) <=> l \in 1..now \/ l \in (now + 1)..(h - 1)
        BY <1>1, <1>2
    <2> QED
        BY <1>5, <2>1
<1>7. LastCd(script, eaten, cwd, now)
    BY DEF InTurn
<1>8. LastCd(script, eaten, cwd, h - 1)
    BY <1>6, <1>7, Zenon DEF LastCd
<1> QED
    BY <1>8 DEF h

LEMMA TakeLineKeeps == InputInv /\ TakeLine => InputInv'
<1> SUFFICES ASSUME InputInv, TakeLine PROVE InputInv'
    OBVIOUS
<1> DEFINE h == ahead[1]
           r == [line |-> h, cwd |-> cwd]
<1>1. InputTypes /\ NoneLost /\ (MovedBack \/ InTurn) /\ ahead # <<>>
    BY DEF InputInv, TakeLine
<1>2. /\ ahead \in Seq(1..Len(script)) /\ taken \in Seq([line : Nat, cwd : Nat])
      /\ now \in Nat /\ offset \in Nat /\ cwd \in Nat /\ Len(script) \in Nat
    BY <1>1 DEF InputTypes
<1>3. /\ Range(ahead) = {h} \cup Range(Tail(ahead))
      /\ Head(ahead) = h /\ Tail(ahead) \in Seq(1..Len(script)) /\ Len(Tail(ahead)) = Len(ahead) - 1
      /\ Len(ahead) \in Nat /\ Len(ahead) >= 1
      /\ \A k \in 1..Len(Tail(ahead)) : Tail(ahead)[k] = ahead[k + 1]
    BY <1>1, <1>2, HeadTail
<1>4. h \in 1..Len(script) /\ h \in Nat /\ r \in [line : Nat, cwd : Nat] /\ r.line = h /\ r.cwd = cwd
    BY <1>2, <1>3
<1>5. /\ now' = h /\ ahead' = Tail(ahead) /\ taken' = Append(taken, r)
      /\ cwd' = (IF script[h] = "cd" THEN h ELSE cwd)
      /\ ipc' \in {"prompt", "fork", "ended"}
      /\ UNCHANGED <<dsh, source, script, offset, eaten>>
    BY <1>3, OutcomeCd DEF TakeLine, NewDir
<1> HIDE DEF r
<1>6. /\ LinesOf(taken') = LinesOf(taken) \cup {h}
      /\ taken' \in Seq([line : Nat, cwd : Nat]) /\ Len(taken') = Len(taken) + 1 /\ Len(taken) \in Nat
      /\ taken'[Len(taken) + 1] = r
      /\ \A k \in 1..Len(taken) : taken'[k] = taken[k]
    <2> DEFINE S == [line : Nat, cwd : Nat]
    <2>1. taken \in Seq(S) /\ r \in S
        BY <1>2, <1>4
    <2> HIDE DEF S
    <2>2. /\ LinesOf(Append(taken, r)) = LinesOf(taken) \cup {r.line}
          /\ Append(taken, r) \in Seq(S) /\ Len(Append(taken, r)) = Len(taken) + 1 /\ Len(taken) \in Nat
          /\ Append(taken, r)[Len(taken) + 1] = r
          /\ \A k \in 1..Len(taken) : Append(taken, r)[k] = taken[k]
        BY <2>1, OneTaken
    <2> QED
        BY <1>4, <1>5, <2>2 DEF S
<1>7. InputTypes'
    <2>1. now' \in 0..Len(script) /\ now' \in 1..Len(script) /\ cwd' \in Nat
        BY <1>2, <1>4, <1>5
    <2> QED
        BY <1>1, <1>3, <1>5, <1>6, <2>1 DEF InputTypes
<1>8. NoneLost'
    BY <1>1, <1>3, <1>5, <1>6 DEF NoneLost
<1>9. CASE MovedBack
    BY <1>5, <1>7, <1>8, <1>9 DEF InputInv, MovedBack, Unknown, Lines
<1>10. CASE InTurn
    <2>1. /\ now < h /\ h <= offset /\ h \notin eaten
          /\ eaten \cap Range(ahead') = {} /\ eaten \cap LinesOf(taken') = {}
        BY <1>3, <1>5, <1>6, <1>10 DEF InTurn
    <2>2. ASSUME NEW k \in 1..Len(ahead')
          PROVE  now' < ahead'[k] /\ ahead'[k] <= offset'
        <3>1. k + 1 \in 1..Len(ahead) /\ 1 \in 1..Len(ahead) /\ 1 < k + 1
            BY <1>3, <1>5
        <3>2. ahead'[k] = ahead[k + 1]
            BY <1>3, <1>5
        <3> QED
            BY <1>5, <1>10, <3>1, <3>2 DEF InTurn
    <2>3. ASSUME NEW k \in 1..Len(ahead'), NEW n \in 1..Len(ahead'), k < n
          PROVE  ahead'[k] < ahead'[n]
        <3>1. k + 1 \in 1..Len(ahead) /\ n + 1 \in 1..Len(ahead) /\ k + 1 < n + 1
            BY <1>3, <1>5, <2>3
        <3>2. ahead'[k] = ahead[k + 1] /\ ahead'[n] = ahead[n + 1]
            BY <1>3, <1>5
        <3> QED
            BY <1>10, <3>1, <3>2 DEF InTurn
    <2>4. \A k \in 1..Len(taken) : taken[k].line <= now /\ taken[k].line \in Nat
        <3>1. \A k \in 1..Len(taken) : taken[k] \in [line : Nat, cwd : Nat]
            BY <1>2, ElementOfSeq
        <3> QED
            BY <1>10, <3>1 DEF InTurn
    <2>5. \A k \in 1..Len(taken') : k \in 1..Len(taken) \/ k = Len(taken) + 1
        BY <1>6
    <2>6. \A k \in 1..Len(taken') : taken'[k].line <= now'
        <3> SUFFICES ASSUME NEW k \in 1..Len(taken') PROVE taken'[k].line <= now'
            OBVIOUS
        <3>1. CASE k = Len(taken) + 1
            <4>1. taken'[k] = r
                BY <1>6, <3>1
            <4> QED
                BY <1>4, <1>5, <4>1
        <3>2. CASE k \in 1..Len(taken)
            <4>1. taken'[k] = taken[k] /\ taken[k].line <= now /\ taken[k].line \in Nat
                BY <1>6, <2>4, <3>2
            <4> HIDE DEF h
            <4> QED
                BY <1>2, <1>4, <1>5, <2>1, <4>1
        <3> QED
            BY <2>5, <3>1, <3>2
    <2>7. ASSUME NEW k \in 1..Len(taken'), NEW n \in 1..Len(taken'), k < n
          PROVE  taken'[k].line < taken'[n].line
        <3>1. k \in 1..Len(taken) /\ taken'[k] = taken[k]
            <4>1. Len(taken') = Len(taken) + 1 /\ Len(taken) \in Nat
                BY <1>6
            <4>2. k \in 1..(Len(taken) + 1) /\ n \in 1..(Len(taken) + 1)
                BY <4>1
            <4>3. k \in 1..Len(taken)
                BY <2>7, <4>1, <4>2
            <4> QED
                BY <1>6, <4>3
        <3>2. CASE n = Len(taken) + 1
            <4>1. taken'[n] = r /\ r.line = h
                BY <1>4, <1>6, <3>2
            <4>2. taken[k].line <= now /\ taken[k].line \in Nat
                BY <2>4, <3>1
            <4> HIDE DEF h
            <4> QED
                BY <1>2, <1>4, <2>1, <3>1, <4>1, <4>2
        <3>3. CASE n \in 1..Len(taken)
            BY <1>6, <1>10, <2>7, <3>1, <3>3 DEF InTurn
        <3> QED
            BY <2>5, <3>2, <3>3
    <2>8. LastCd(script, eaten, cwd, h - 1)
        BY <1>1, <1>10, NextTaken
    <2>9. LastCd(script, eaten, cwd', h)
        <3>1. \A l : l \in 1..h <=> l \in 1..(h - 1) \/ l = h
            BY <1>4
        <3>2. \A l \in 1..(h - 1) : l <= h
            BY <1>4
        <3>3. cwd \in {l \in 1..(h - 1) \ eaten : script[l] = "cd"} \cup {0}
            BY <2>8 DEF LastCd
        <3>4. \A l \in 1..(h - 1) \ eaten : script[l] = "cd" => l <= cwd
            BY <2>8 DEF LastCd
        <3>5. CASE script[h] = "cd"
            BY <1>4, <1>5, <2>1, <3>1, <3>2, <3>5 DEF LastCd
        <3>6. CASE script[h] # "cd"
            BY <1>5, <3>1, <3>3, <3>4, <3>6 DEF LastCd
        <3> QED
            BY <3>5, <3>6
    <2>10. ASSUME NEW k \in 1..Len(taken')
           PROVE  LastCd(script, eaten, taken'[k].cwd, taken'[k].line - 1)
        <3>1. CASE k \in 1..Len(taken)
            BY <1>6, <1>10, <3>1 DEF InTurn
        <3>2. CASE k = Len(taken) + 1
            BY <1>4, <1>6, <2>8, <3>2
        <3> QED
            BY <2>5, <3>1, <3>2
    <2> HIDE DEF h
    <2>11. InTurn'
        BY <1>5, <1>6, <1>10, <2>1, <2>2, <2>3, <2>6, <2>7, <2>9, <2>10 DEF InTurn
    <2> QED
        BY <1>7, <1>8, <2>11 DEF InputInv
<1> QED
    BY <1>1, <1>9, <1>10

\* What is read later makes no difference to the cds before it.
LEMMA EatenLater ==
    ASSUME NEW s, NEW e, NEW d, NEW k \in Nat, NEW m \in Nat, NEW n \in Int, n <= k,
           LastCd(s, e, d, n)
    PROVE  LastCd(s, e \cup (k + 1)..m, d, n)
<1>1. \A l \in 1..n : l \notin (k + 1)..m
    OBVIOUS
<1>2. 1..n \ (e \cup (k + 1)..m) = 1..n \ e
    BY <1>1
<1> QED
    BY <1>2, Zenon DEF LastCd

LEMMA ReaderEndsKeeps == InputInv /\ ReaderEnds => InputInv'
<1> SUFFICES ASSUME InputInv, ReaderEnds PROVE InputInv'
    OBVIOUS
<1>1. /\ ipc' = "prompt" /\ offset' \in offset..Len(script)
      /\ eaten' = eaten \cup (offset + 1)..offset'
      /\ UNCHANGED <<dsh, source, script, ahead, now, cwd, taken>>
    BY DEF ReaderEnds, InChild
<1>2. InputTypes /\ offset \in Nat /\ Len(script) \in Nat /\ now \in Nat
    BY DEF InputInv, InputTypes
<1>3. offset' \in Nat /\ offset <= offset' /\ offset' <= Len(script)
    BY <1>1, <1>2
<1>4. InputTypes'
    BY <1>1, <1>2, <1>3 DEF InputTypes
<1>5. NoneLost'
    <2>1. 1..offset' \subseteq 1..offset \cup (offset + 1)..offset'
        BY <1>2, <1>3
    <2>2. 1..offset \subseteq LinesOf(taken) \cup eaten \cup Range(ahead)
        BY DEF InputInv, NoneLost
    <2> QED
        BY <1>1, <2>1, <2>2 DEF NoneLost
<1>6. CASE MovedBack
    BY <1>1, <1>4, <1>5, <1>6 DEF InputInv, MovedBack, Unknown, Lines
<1>7. CASE InTurn
    <2>1. /\ ahead \in Seq(1..Len(script)) /\ taken \in Seq([line : Nat, cwd : Nat])
          /\ DOMAIN ahead = 1..Len(ahead) /\ DOMAIN taken = 1..Len(taken)
        BY <1>2 DEF InputTypes
    <2>2. \A k \in 1..Len(taken) : taken[k].line <= offset /\ taken[k].line \in Nat
        <3>1. \A k \in 1..Len(taken) : taken[k] \in [line : Nat, cwd : Nat]
            BY <2>1, ElementOfSeq
        <3>2. now <= offset /\ \A k \in 1..Len(taken) : taken[k].line <= now
            BY <1>7 DEF InTurn
        <3> QED
            BY <1>2, <3>1, <3>2
    <2>3. \A x \in LinesOf(taken) : x \notin (offset + 1)..offset'
        BY <1>2, <1>3, <2>1, <2>2 DEF LinesOf
    <2>4. \A x \in Range(ahead) : x \notin (offset + 1)..offset'
        <3> SUFFICES ASSUME NEW x \in Range(ahead) PROVE x \notin (offset + 1)..offset'
            OBVIOUS
        <3>1. PICK k \in 1..Len(ahead) : x = ahead[k]
            BY <2>1 DEF Range
        <3>2. x \in Nat /\ x <= offset
            BY <1>7, <2>1, <3>1 DEF InTurn
        <3> QED
            BY <1>2, <1>3, <3>2
    <2>5. eaten' \subseteq 1..offset' /\ eaten' \cap LinesOf(taken) = {} /\ eaten' \cap Range(ahead) = {}
        <3>1. eaten \subseteq 1..offset /\ eaten \cap LinesOf(taken) = {} /\ eaten \cap Range(ahead) = {}
            BY <1>7 DEF InTurn
        <3>2. 1..offset \subseteq 1..offset' /\ (offset + 1)..offset' \subseteq 1..offset'
            BY <1>2, <1>3
        <3> QED
            BY <1>1, <2>3, <2>4, <3>1, <3>2
    <2>6. LastCd(script, eaten', cwd, now)
        <3>1. now <= offset /\ LastCd(script, eaten, cwd, now)
            BY <1>7 DEF InTurn
        <3> QED
            BY <1>1, <1>2, <1>3, <3>1, EatenLater
    <2>7. ASSUME NEW k \in 1..Len(taken)
          PROVE  LastCd(script, eaten', taken[k].cwd, taken[k].line - 1)
        <3>1. taken[k].line - 1 \in Int /\ taken[k].line - 1 <= offset
            BY <1>2, <2>2
        <3>2. LastCd(script, eaten, taken[k].cwd, taken[k].line - 1)
            BY <1>7 DEF InTurn
        <3> QED
            BY <1>1, <1>2, <1>3, <3>1, <3>2, EatenLater
    <2>8. \A k \in 1..Len(ahead) : now < ahead[k] /\ ahead[k] <= offset'
        BY <1>2, <1>3, <1>7, <2>1 DEF InTurn
    <2>9. now <= offset'
        BY <1>2, <1>3, <1>7 DEF InTurn
    <2>10. InTurn'
        BY <1>1, <1>7, <2>5, <2>6, <2>7, <2>8, <2>9 DEF InTurn
    <2> QED
        BY <1>4, <1>5, <2>10 DEF InputInv
<1> QED
    BY <1>6, <1>7 DEF InputInv

LEMMA ExitSeeksBackKeeps == InputInv /\ ExitSeeksBack => InputInv'
<1> SUFFICES ASSUME InputInv, ExitSeeksBack PROVE InputInv'
    OBVIOUS
<1>1. /\ ipc = "child" /\ Outcome(dsh, script[now]) = "unknown" /\ ipc' = "prompt"
      /\ offset' = IF source = "file" /\ Len(ahead) <= offset THEN offset - Len(ahead) ELSE offset
      /\ UNCHANGED <<dsh, source, script, ahead, now, cwd, taken, eaten>>
    BY DEF ExitSeeksBack, InChild
<1>2. /\ InputTypes /\ offset \in 0..Len(script) /\ Len(script) \in Nat /\ Len(ahead) \in Nat
      /\ now \in 1..Len(script) /\ DOMAIN script = 1..Len(script)
    BY <1>1 DEF InputInv, InputTypes
<1>3. offset' \in 0..Len(script) /\ offset' <= offset
    BY <1>1, <1>2
<1>4. InputTypes'
    BY <1>1, <1>2, <1>3 DEF InputTypes
<1>5. NoneLost'
    <2>1. 1..offset' \subseteq 1..offset
        BY <1>2, <1>3
    <2> QED
        BY <1>1, <2>1 DEF InputInv, NoneLost
<1>6. Unknown # {}
    BY <1>1, <1>2 DEF Unknown, Lines
<1>7. CASE source = "file"
    BY <1>1, <1>4, <1>5, <1>6, <1>7 DEF InputInv, MovedBack, Unknown, Lines
<1>8. CASE source # "file"
    <2>1. InTurn /\ offset' = offset
        BY <1>1, <1>8 DEF InputInv, MovedBack
    <2>2. InTurn'
        BY <1>1, <2>1 DEF InTurn
    <2> QED
        BY <1>4, <1>5, <2>2 DEF InputInv
<1> QED
    BY <1>7, <1>8

LEMMA InputKeeps == InputInv /\ [InputNext]_input => InputInv'
<1> SUFFICES ASSUME InputInv, [InputNext]_input PROVE InputInv'
    OBVIOUS
<1>1. CASE EndOfScript
    BY <1>1, OnlyPlace DEF EndOfScript
<1>2. CASE ForkChild
    BY <1>2, OnlyPlace DEF ForkChild
<1>3. CASE ProgramEnds
    BY <1>3, OnlyPlace DEF ProgramEnds, InChild
<1>4. CASE UNCHANGED input
    BY <1>4 DEF input, InputInv, InputTypes, NoneLost, InTurn, MovedBack, Unknown, Lines
<1> QED
    BY <1>1, <1>2, <1>3, <1>4, StartShellKeeps, ReadAheadKeeps, TakeLineKeeps, ReaderEndsKeeps,
       ExitSeeksBackKeeps DEF InputNext, InputStep

\* However long the script, however much a read returns and however the shell
\* and its programs take turns at the input, no line is lost; and a file with an
\* unknown command in it aside, each line has one reader, and the shell takes
\* its lines in their order, each in the directory of the last cd before it.
THEOREM InputShared == InputSpec => []EveryLineOnce
<1>1. InputInv => EveryLineOnce
    <2> SUFFICES ASSUME InputInv PROVE EveryLineOnce
        OBVIOUS
    <2>1. /\ Range(TakenLines) = LinesOf(taken) /\ DOMAIN taken = 1..Len(taken)
          /\ Len(taken) \in Nat
        BY TakenAre DEF InputInv
    <2>2. 1..offset \subseteq Range(TakenLines) \cup eaten \cup Range(ahead)
        BY <2>1 DEF InputInv, NoneLost
    <2>3. ASSUME InTurn
          PROVE  /\ \A k, n \in DOMAIN taken : k < n => taken[k].line < taken[n].line
                 /\ eaten \cap (Range(TakenLines) \cup Range(ahead)) = {}
                 /\ \A k \in DOMAIN taken :
                       LET cds == {l \in 1..(taken[k].line - 1) \ eaten : script[l] = "cd"}
                       IN  taken[k].cwd \in cds \cup {0} /\ \A l \in cds : l <= taken[k].cwd
        <3>1. \A k, n \in DOMAIN taken : k < n => taken[k].line < taken[n].line
            BY <2>1, <2>3 DEF InTurn
        <3>2. eaten \cap (Range(TakenLines) \cup Range(ahead)) = {}
            BY <2>1, <2>3 DEF InTurn
        <3>3. \A k \in DOMAIN taken : LastCd(script, eaten, taken[k].cwd, taken[k].line - 1)
            BY <2>1, <2>3 DEF InTurn
        <3>4. ASSUME NEW k \in DOMAIN taken
              PROVE  LET cds == {l \in 1..(taken[k].line - 1) \ eaten : script[l] = "cd"}
                     IN  taken[k].cwd \in cds \cup {0} /\ \A l \in cds : l <= taken[k].cwd
            BY <3>3 DEF LastCd
        <3> QED
            BY <3>1, <3>2, <3>4
    <2>4. (source = "file" /\ Unknown # {}) \/ InTurn
        BY DEF InputInv, MovedBack
    <2> QED
        BY <2>2, <2>3, <2>4 DEF EveryLineOnce
<1> QED
    BY <1>1, InputStarts, InputKeeps, PTL DEF InputSpec

----------------------------------------------------------------------------
(* StringFun                                                               *)

\* Nothing is written behind the buffer but by -x.
Untouched == \A k \in Heap : k > BUFFER_SZ => mem[k] = Kept0[k]

NoNul == \A k \in 1..BUFFER_SZ : mem[k] # NUL

\* How far -x has come.  A loop that closes a gap stops at the NUL behind the
\* buffer at the latest.
Shrinking ==
    /\ j \in 1..i
    /\ mem[BUFFER_SZ + 1] = NUL

\* One that makes room moves as many places as the new word is longer.
Growing ==
    /\ i \in 0..BUFFER_SZ
    /\ j = i + (Len(call.replace) - Len(call.find))
    /\ Len(call.replace) > Len(call.find)
    /\ count >= 1 /\ count + Len(call.find) <= BUFFER_SZ + 1

StringPlaces ==
    /\ DOMAIN mem = Heap
    /\ count \in 0..(BUFFER_SZ + 1) /\ i \in 0..(BUFFER_SZ + 1)
    /\ j \in 0..(BUFFER_SZ + Spare + Reach)

StringCalled ==
    /\ fpc \in {"idle", "setup", "c", "w", "r", "x", "shrink", "grow", "show", "ended"}
    /\ fpc = "idle" => call.opt = "h" /\ mem = Kept0 /\ count = 0 /\ i = 1 /\ j = 1
    /\ fpc # "idle" => call \in Calls
    /\ fpc = "setup" => call.opt # "h"
    /\ fpc \in {"c", "w", "r", "x"} => call.opt = fpc
    /\ fpc \in {"shrink", "grow", "show"} => call.opt = "x"

\* Where the loop at hand is.
StringLoop ==
    /\ call.opt # "x" \/ fpc \in {"setup", "x"} => Untouched
    /\ fpc = "setup" =>
          /\ src \in Seq(STRING) /\ \A k \in 1..Len(src) : src[k] # NUL
          /\ count <= BUFFER_SZ /\ \A k \in 1..count : mem[k] # NUL
          /\ i = 1 /\ j = 1
    /\ fpc \in {"c", "w", "r", "x"} => NoNul
    /\ fpc = "c" => count < j /\ j <= BUFFER_SZ + 1
    /\ fpc = "w" => i <= BUFFER_SZ /\ j \in 1..(BUFFER_SZ + 1)
    /\ fpc = "r" => i >= 1 /\ i <= j + 1 /\ j <= BUFFER_SZ
    /\ fpc = "shrink" => Shrinking
    /\ fpc = "grow" => Growing

StringInv == StringPlaces /\ StringCalled /\ StringLoop

\* The sizes.
LEMMA Sizes ==
    /\ BUFFER_SZ \in Nat /\ BUFFER_SZ >= 1 /\ Spare \in Nat /\ Spare >= 1 /\ Reach \in Nat
    /\ BUFFER_SZ + 1 \in Heap /\ 1..BUFFER_SZ \subseteq Heap
    /\ Heap = 1..(BUFFER_SZ + Spare + Reach)
    BY StringAssumption DEF Heap

\* The arguments.
LEMMA CallIs ==
    ASSUME StringInv, fpc # "idle"
    PROVE  /\ call.opt \in {"h", "c", "r", "w", "x", "other"}
           /\ Len(call.str) \in Nat /\ Len(call.find) \in Nat /\ Len(call.replace) \in Nat
           /\ Len(call.replace) <= Spare + Reach
<1>1. call \in Calls
    BY DEF StringInv, StringCalled
<1>2. call.str \in Seq(STRING) /\ call.find \in Seq(STRING) /\ call.replace \in Seq(STRING)
    BY <1>1, StringAssumption
<1> QED
    BY <1>1, <1>2, StringAssumption

LEMMA StringStarts == StringInit => StringInv
<1> SUFFICES ASSUME StringInit PROVE StringInv
    OBVIOUS
<1>1. /\ fpc = "idle" /\ call.opt = "h" /\ mem = Kept0 /\ count = 0 /\ i = 1 /\ j = 1
    BY DEF StringInit
<1>2. DOMAIN mem = Heap
    BY <1>1 DEF Kept0
<1>3. StringPlaces
    BY <1>1, <1>2, Sizes DEF StringPlaces
<1> QED
    BY <1>1, <1>3 DEF StringInv, StringCalled, StringLoop, Untouched

\* A step to the end of the program, which writes nothing.
LEMMA EndKeeps ==
    ASSUME StringInv, fpc' = "ended", call' \in Calls, mem' = mem,
           call' = call \/ fpc = "idle",
           count' \in 0..(BUFFER_SZ + 1), i' \in 0..(BUFFER_SZ + 1),
           j' \in 0..(BUFFER_SZ + Spare + Reach)
    PROVE  StringInv'
<1>1. StringPlaces'
    BY DEF StringInv, StringPlaces
<1>2. StringCalled'
    BY DEF StringCalled
<1>3. call.opt # "x" => Untouched
    BY DEF StringInv, StringLoop
<1>4. fpc = "idle" => Untouched
    BY DEF StringInv, StringCalled, Untouched
<1>5. Untouched => Untouched'
    BY DEF Untouched
<1>6. call'.opt # "x" => Untouched'
    BY <1>3, <1>4, <1>5
<1>7. StringLoop'
    BY <1>6 DEF StringLoop
<1> QED
    BY <1>1, <1>2, <1>7 DEF StringInv

LEMMA StartKeeps == StringInv /\ Start => StringInv'
<1> SUFFICES ASSUME StringInv, Start PROVE StringInv'
    OBVIOUS
<1>1. /\ fpc = "idle" /\ call' \in Calls /\ UNCHANGED <<mem, count, flag, i, j, printed>>
      /\ mem = Kept0 /\ count = 0 /\ i = 1 /\ j = 1
    BY DEF Start, StringInv, StringCalled
<1>2. StringPlaces
    BY DEF StringInv
<1>3. CASE fpc' = "ended"
    <2>1. count' \in 0..(BUFFER_SZ + 1) /\ i' \in 0..(BUFFER_SZ + 1)
          /\ j' \in 0..(BUFFER_SZ + Spare + Reach)
        BY <1>1, <1>2 DEF StringPlaces
    <2> QED
        BY <1>1, <1>3, <2>1, EndKeeps
<1>4. CASE /\ fpc' = "setup" /\ call'.opt # "h"
           /\ src' = LET s == call'.str IN
                         SubSeq(s, Skip(Append(s, NUL), 1, {Blank, Tab}), Len(s))
    <2> DEFINE s == call'.str
               b == Append(s, NUL)
               k0 == Skip(b, 1, {Blank, Tab})
    <2>1. s \in Seq(STRING) /\ Len(s) \in Nat /\ \A k \in 1..Len(s) : s[k] # NUL
        BY <1>1, StringAssumption
    <2>2. k0 \in 1..(Len(s) + 1)
        <3>1. Len(b) = Len(s) + 1 /\ b[Len(b)] = NUL
            BY <2>1
        <3>2. NUL \notin {Blank, Tab}
            BY DEF NUL, Blank, Tab
        <3>3. Len(b) \in Nat /\ Len(b) \in 1..Len(b) /\ 1 \in Nat /\ b[Len(b)] \notin {Blank, Tab}
            BY <2>1, <3>1, <3>2
        <3> HIDE DEF b
        <3>4. k0 \in 1..Len(b)
            BY <3>3, SkipFound
        <3> QED
            BY <3>1, <3>4
    <2>3. src' = SubSeq(s, k0, Len(s))
        BY <1>4
    <2> HIDE DEF s, k0
    <2>4. src' \in Seq(STRING) /\ \A k \in 1..Len(src') : src'[k] # NUL
        <3>1. \A k \in k0..Len(s) : s[k] \in STRING
            BY <2>1, <2>2
        <3>2. /\ SubSeq(s, k0, Len(s)) \in Seq(STRING)
              /\ Len(SubSeq(s, k0, Len(s))) = Len(s) - k0 + 1
              /\ \A k \in 1..(Len(s) - k0 + 1) : SubSeq(s, k0, Len(s))[k] = s[k0 + k - 1]
            BY <2>1, <2>2, <3>1, SubSeqProperties
        <3>3. \A k \in 1..(Len(s) - k0 + 1) : k0 + k - 1 \in 1..Len(s)
            BY <2>1, <2>2
        <3> QED
            BY <2>1, <2>3, <3>2, <3>3
    <2>5. StringPlaces'
        BY <1>1, <1>2 DEF StringPlaces
    <2>6. StringCalled'
        BY <1>1, <1>4 DEF StringCalled
    <2>7. Untouched'
        BY <1>1 DEF Untouched
    <2>8. StringLoop'
        <3>1. fpc' = "setup" /\ count' = 0 /\ i' = 1 /\ j' = 1
            BY <1>1, <1>4
        <3>2. count' <= BUFFER_SZ /\ 1..count' = {}
            BY <3>1, Sizes
        <3> QED
            BY <2>4, <2>7, <3>1, <3>2 DEF StringLoop
    <2> QED
        BY <2>5, <2>6, <2>8 DEF StringInv
<1> QED
    BY <1>3, <1>4 DEF Start, Exit

\* What every step but Start leaves: the call.
LEMMA SameCall ==
    ASSUME StringInv, fpc # "idle", UNCHANGED call
    PROVE  /\ call' \in Calls /\ call'.opt = call.opt /\ call \in Calls
           /\ StringPlaces /\ StringCalled /\ StringLoop
    BY DEF StringInv, StringCalled

LEMMA SetupCharKeeps == StringInv /\ SetupChar => StringInv'
<1> SUFFICES ASSUME StringInv, SetupChar PROVE StringInv'
    OBVIOUS
<1>1. /\ fpc = "setup" /\ src # <<>> /\ UNCHANGED <<call, i, j, printed>>
    BY DEF SetupChar
<1>2. /\ call' \in Calls /\ call'.opt = call.opt /\ call \in Calls
      /\ StringPlaces /\ StringCalled /\ StringLoop
    BY <1>1, SameCall
<1>3. /\ src \in Seq(STRING) /\ \A k \in 1..Len(src) : src[k] # NUL
      /\ count \in Nat /\ count <= BUFFER_SZ /\ \A k \in 1..count : mem[k] # NUL
      /\ i = 1 /\ j = 1 /\ DOMAIN mem = Heap /\ Untouched /\ call.opt # "h"
    BY <1>1, <1>2 DEF StringLoop, StringPlaces, StringCalled
<1>4. CASE Full
    <2>1. fpc' = "ended" /\ UNCHANGED <<mem, count, call, i, j>>
        BY <1>1, <1>4 DEF SetupChar, Exit
    <2>2. count' \in 0..(BUFFER_SZ + 1) /\ i' \in 0..(BUFFER_SZ + 1)
          /\ j' \in 0..(BUFFER_SZ + Spare + Reach)
        BY <1>2, <2>1 DEF StringPlaces
    <2> QED
        BY <1>2, <2>1, <2>2, EndKeeps
<1>5. CASE ~Full
    <2>1. /\ fpc' = "setup" /\ src' = Tail(src)
          /\ \/ UNCHANGED <<mem, count>>
             \/ \E c \in {Blank, Head(src)} : Store(c)
        BY <1>1, <1>5 DEF SetupChar
    <2>2. count < BUFFER_SZ
        BY <1>3, <1>5, Sizes DEF Full
    <2>3. /\ Head(src) = src[1] /\ Tail(src) \in Seq(STRING) /\ Len(Tail(src)) = Len(src) - 1
          /\ Len(src) \in Nat /\ Len(src) >= 1
          /\ \A k \in 1..Len(Tail(src)) : Tail(src)[k] = src[k + 1]
        BY <1>1, <1>3, HeadTail
    <2>4. src' \in Seq(STRING) /\ \A k \in 1..Len(src') : src'[k] # NUL
        <3>1. \A k \in 1..Len(Tail(src)) : k + 1 \in 1..Len(src)
            BY <2>3
        <3> QED
            BY <1>3, <2>1, <2>3, <3>1
    <2>5. /\ DOMAIN mem' = Heap /\ count' \in Nat /\ count' <= BUFFER_SZ
          /\ (\A k \in 1..count' : mem'[k] # NUL) /\ Untouched'
        <3>1. CASE UNCHANGED <<mem, count>>
            BY <1>3, <3>1 DEF Untouched
        <3>2. ASSUME NEW c \in {Blank, Head(src)}, Store(c)
              PROVE  /\ DOMAIN mem' = Heap /\ count' \in Nat /\ count' <= BUFFER_SZ
                     /\ (\A k \in 1..count' : mem'[k] # NUL) /\ Untouched'
            <4>1. c # NUL
                <5>1. 1 \in 1..Len(src)
                    BY <2>3
                <5> QED
                    BY <1>3, <2>3, <5>1 DEF Blank, NUL
            <4>2. mem' = [mem EXCEPT ![count + 1] = c] /\ count' = count + 1
                BY <3>2 DEF Store
            <4>3. count + 1 \in Heap /\ DOMAIN mem' = Heap
                BY <1>3, <2>2, <4>2, Sizes
            <4>4. \A k \in Heap : mem'[k] = IF k = count + 1 THEN c ELSE mem[k]
                BY <1>3, <4>2
            <4>5. \A k \in 1..(count + 1) : k \in Heap /\ (k = count + 1 \/ k \in 1..count)
                BY <1>3, <2>2, Sizes
            <4>6. \A k \in 1..count' : mem'[k] # NUL
                BY <1>3, <4>1, <4>2, <4>4, <4>5
            <4>7. \A k \in Heap : k > BUFFER_SZ => k # count + 1
                BY <1>3, <2>2, Sizes
            <4>8. Untouched'
                BY <1>3, <4>4, <4>7 DEF Untouched
            <4> QED
                BY <1>3, <2>2, <4>2, <4>3, <4>6, <4>8, Sizes
        <3> QED
            BY <2>1, <3>1, <3>2
    <2>6. StringPlaces'
        BY <1>1, <1>2, <2>5, Sizes DEF StringPlaces
    <2>7. StringCalled'
        BY <1>1, <1>2, <1>3, <2>1 DEF StringCalled
    <2>8. StringLoop'
        BY <1>1, <1>3, <2>1, <2>4, <2>5 DEF StringLoop
    <2> QED
        BY <2>6, <2>7, <2>8 DEF StringInv
<1> QED
    BY <1>4, <1>5

LEMMA SetupEndKeeps == StringInv /\ SetupEnd => StringInv'
<1> SUFFICES ASSUME StringInv, SetupEnd PROVE StringInv'
    OBVIOUS
<1> DEFINE m == IF count > 0 /\ mem[count] = Blank THEN count - 1 ELSE count
<1>1. /\ fpc = "setup" /\ UNCHANGED <<call, src, printed>>
      /\ mem' = [k \in Heap |-> IF k \in (m + 1)..BUFFER_SZ THEN Dot ELSE mem[k]]
      /\ count' = 0
      /\ i' = (IF call.opt = "w" THEN 0 ELSE 1)
      /\ j' = (IF call.opt = "r" THEN BUFFER_SZ ELSE 1)
      /\ \/ fpc' = "ended"
         \/ fpc' = call.opt /\ call.opt # "other"
    BY DEF SetupEnd, Exit
<1>2. /\ call' \in Calls /\ call'.opt = call.opt /\ call \in Calls
      /\ StringPlaces /\ StringCalled /\ StringLoop
    BY <1>1, SameCall
<1>3. /\ count \in Nat /\ count <= BUFFER_SZ /\ (\A k \in 1..count : mem[k] # NUL)
      /\ Untouched /\ call.opt # "h"
    BY <1>1, <1>2 DEF StringLoop, StringPlaces, StringCalled
<1>4. call.opt \in {"c", "r", "w", "x", "other"}
    BY <1>1, <1>3, CallIs
<1>5. m \in Nat /\ m <= count
    BY <1>3
<1> HIDE DEF m
<1>6. DOMAIN mem' = Heap
      /\ \A k \in Heap : mem'[k] = IF k \in (m + 1)..BUFFER_SZ THEN Dot ELSE mem[k]
    BY <1>1
<1>7. NoNul'
    <2>1. \A k \in 1..BUFFER_SZ : k \in (m + 1)..BUFFER_SZ \/ k \in 1..count
        BY <1>3, <1>5, Sizes
    <2> QED
        BY <1>3, <1>6, <2>1, Sizes DEF NoNul, Dot, NUL
<1>8. Untouched'
    BY <1>3, <1>6, Sizes DEF Untouched
<1>9. i' \in {0, 1} /\ j' \in {1, BUFFER_SZ}
    BY <1>1
<1>10. StringPlaces'
    BY <1>1, <1>6, <1>9, Sizes DEF StringPlaces
<1>11. StringCalled'
    BY <1>1, <1>2, <1>4 DEF StringCalled
<1>12. StringLoop'
    BY <1>1, <1>2, <1>4, <1>7, <1>8, Sizes DEF StringLoop
<1> QED
    BY <1>10, <1>11, <1>12 DEF StringInv

LEMMA CountCharKeeps == StringInv /\ CountChar => StringInv'
<1> SUFFICES ASSUME StringInv, CountChar PROVE StringInv'
    OBVIOUS
<1>1. fpc = "c" /\ UNCHANGED <<call, mem, src, i, printed>>
    BY DEF CountChar
<1>2. /\ call' \in Calls /\ call'.opt = call.opt /\ call \in Calls
      /\ StringPlaces /\ StringCalled /\ StringLoop
    BY <1>1, SameCall
<1>3. /\ count \in Nat /\ j \in Nat /\ count < j /\ j <= BUFFER_SZ + 1 /\ NoNul /\ call.opt = "c"
      /\ Untouched
    BY <1>1, <1>2 DEF StringLoop, StringPlaces, StringCalled
<1>4. CASE j <= BUFFER_SZ
    <2>1. fpc' = "c" /\ count' \in {count, count + 1} /\ j' = j + 1
        BY <1>1, <1>4 DEF CountChar
    <2>2. count' \in Nat /\ count' < j' /\ j' \in Nat /\ j' <= BUFFER_SZ + 1
        BY <1>3, <1>4, <2>1, Sizes
    <2>3. StringPlaces'
        BY <1>1, <1>2, <2>2, Sizes DEF StringPlaces
    <2>4. StringCalled'
        BY <1>2, <1>3, <2>1 DEF StringCalled
    <2>5. StringLoop'
        BY <1>1, <1>3, <2>1, <2>2 DEF StringLoop, NoNul, Untouched
    <2> QED
        BY <2>3, <2>4, <2>5 DEF StringInv
<1>5. CASE ~(j <= BUFFER_SZ)
    <2>1. fpc' = "ended" /\ UNCHANGED <<count, j>>
        BY <1>1, <1>5 DEF CountChar, Show
    <2>2. count' \in 0..(BUFFER_SZ + 1) /\ i' \in 0..(BUFFER_SZ + 1)
          /\ j' \in 0..(BUFFER_SZ + Spare + Reach)
        BY <1>1, <1>2, <2>1 DEF StringPlaces
    <2> QED
        BY <1>1, <1>2, <2>1, <2>2, EndKeeps
<1> QED
    BY <1>4, <1>5

LEMMA PrintCharKeeps == StringInv /\ PrintChar => StringInv'
<1> SUFFICES ASSUME StringInv, PrintChar PROVE StringInv'
    OBVIOUS
<1>1. fpc = "w" /\ UNCHANGED <<call, mem, src, count, flag>>
    BY DEF PrintChar
<1>2. /\ call' \in Calls /\ call'.opt = call.opt /\ call \in Calls
      /\ StringPlaces /\ StringCalled /\ StringLoop
    BY <1>1, SameCall
<1>3. /\ i \in Nat /\ j \in Nat /\ i <= BUFFER_SZ /\ j \in 1..(BUFFER_SZ + 1) /\ NoNul
      /\ call.opt = "w" /\ Untouched /\ count \in 0..(BUFFER_SZ + 1)
    BY <1>1, <1>2 DEF StringLoop, StringPlaces, StringCalled
<1>4. CASE InText
    <2>1. fpc' = "w" /\ i' \in {0, i, j} /\ j' = j + 1
        BY <1>1, <1>4 DEF PrintChar
    <2>2. j <= BUFFER_SZ
        BY <1>4 DEF InText
    <2>3. i' \in Nat /\ i' <= BUFFER_SZ /\ j' \in 1..(BUFFER_SZ + 1)
        BY <1>3, <2>1, <2>2, Sizes
    <2>4. StringPlaces'
        BY <1>1, <1>2, <2>3, Sizes DEF StringPlaces
    <2>5. StringCalled'
        BY <1>2, <1>3, <2>1 DEF StringCalled
    <2>6. StringLoop'
        BY <1>1, <1>3, <2>1, <2>3 DEF StringLoop, NoNul, Untouched
    <2> QED
        BY <2>4, <2>5, <2>6 DEF StringInv
<1>5. CASE ~InText
    <2>1. fpc' = "ended" /\ i' \in {0, i} /\ j' = j
        BY <1>1, <1>5 DEF PrintChar, Show
    <2>2. count' \in 0..(BUFFER_SZ + 1) /\ i' \in 0..(BUFFER_SZ + 1)
          /\ j' \in 0..(BUFFER_SZ + Spare + Reach)
        BY <1>1, <1>3, <2>1, Sizes
    <2> QED
        BY <1>1, <1>2, <2>1, <2>2, EndKeeps
<1> QED
    BY <1>4, <1>5

LEMMA ReverseCharKeeps == StringInv /\ ReverseChar => StringInv'
<1> SUFFICES ASSUME StringInv, ReverseChar PROVE StringInv'
    OBVIOUS
<1>1. fpc = "r" /\ UNCHANGED <<call, src, count, printed>>
    BY DEF ReverseChar
<1>2. /\ call' \in Calls /\ call'.opt = call.opt /\ call \in Calls
      /\ StringPlaces /\ StringCalled /\ StringLoop
    BY <1>1, SameCall
<1>3. /\ i \in Nat /\ j \in Nat /\ i >= 1 /\ i <= j + 1 /\ j <= BUFFER_SZ /\ NoNul
      /\ call.opt = "r" /\ Untouched /\ count \in 0..(BUFFER_SZ + 1) /\ DOMAIN mem = Heap
    BY <1>1, <1>2 DEF StringLoop, StringPlaces, StringCalled
<1>4. \/ fpc' = "r" /\ j > i /\ j' = j - 1 /\ UNCHANGED <<mem, i>>
      \/ /\ fpc' = "r" /\ i < j /\ mem' = [mem EXCEPT ![i] = mem[j], ![j] = mem[i]]
         /\ i' = i + 1 /\ j' = j - 1
      \/ fpc' = "ended" /\ UNCHANGED <<mem, i, j>>
    BY <1>1 DEF ReverseChar, TrailingDot, Show
<1>5. CASE fpc' = "ended" /\ UNCHANGED <<mem, i, j>>
    <2>1. count' \in 0..(BUFFER_SZ + 1) /\ i' \in 0..(BUFFER_SZ + 1)
          /\ j' \in 0..(BUFFER_SZ + Spare + Reach)
        BY <1>1, <1>2, <1>5 DEF StringPlaces
    <2> QED
        BY <1>1, <1>2, <1>5, <2>1, EndKeeps
<1>6. ASSUME fpc' = "r", i < j, j' = j - 1, i' = i \/ i' = i + 1,
             DOMAIN mem' = Heap, NoNul', Untouched'
      PROVE  StringInv'
    <2>1. i' \in Nat /\ j' \in Nat /\ i' >= 1 /\ i' <= j' + 1 /\ j' <= BUFFER_SZ
        BY <1>3, <1>6, Sizes
    <2>2. StringPlaces'
        BY <1>1, <1>3, <1>6, <2>1, Sizes DEF StringPlaces
    <2>3. StringCalled'
        BY <1>2, <1>3, <1>6 DEF StringCalled
    <2>4. StringLoop'
        BY <1>6, <2>1 DEF StringLoop
    <2> QED
        BY <2>2, <2>3, <2>4 DEF StringInv
<1>7. CASE fpc' = "r" /\ j > i /\ j' = j - 1 /\ UNCHANGED <<mem, i>>
    <2>1. NoNul' /\ Untouched' /\ DOMAIN mem' = Heap /\ i < j
        BY <1>3, <1>7 DEF NoNul, Untouched
    <2> QED
        BY <1>6, <1>7, <2>1
<1>8. CASE /\ fpc' = "r" /\ i < j /\ mem' = [mem EXCEPT ![i] = mem[j], ![j] = mem[i]]
           /\ i' = i + 1 /\ j' = j - 1
    <2>1. i \in 1..BUFFER_SZ /\ j \in 1..BUFFER_SZ
        BY <1>3, <1>8, Sizes
    <2>2. \A k \in Heap : mem'[k] = IF k = j THEN mem[i] ELSE IF k = i THEN mem[j] ELSE mem[k]
        BY <1>3, <1>8
    <2>3. DOMAIN mem' = Heap
        BY <1>3, <1>8
    <2>4. NoNul'
        BY <1>3, <2>1, <2>2, Sizes DEF NoNul
    <2>5. Untouched'
        <3>1. \A k \in Heap : k > BUFFER_SZ => k # i /\ k # j
            BY <2>1, Sizes
        <3> QED
            BY <1>3, <2>2, <3>1 DEF Untouched
    <2> QED
        BY <1>6, <1>8, <2>3, <2>4, <2>5
<1> QED
    BY <1>4, <1>5, <1>7, <1>8

\* Nothing but the byte behind the buffer ends its text.
LEMMA WholeBuffer ==
    ASSUME DOMAIN mem = Heap, NoNul, Untouched
    PROVE  StrLen = BUFFER_SZ
<1> DEFINE b == [k \in 1..(BUFFER_SZ + 1) |-> mem[k]]
           e == First(b, 1, {NUL})
<1>1. Len(b) = BUFFER_SZ + 1 /\ \A k \in 1..(BUFFER_SZ + 1) : b[k] = mem[k]
    BY Sizes
<1>2. mem[BUFFER_SZ + 1] = NUL
    BY Sizes DEF Untouched, Kept0
<1>3. b[BUFFER_SZ + 1] \in {NUL} /\ BUFFER_SZ + 1 \in 1..Len(b) /\ Len(b) \in Nat
    BY <1>1, <1>2, Sizes
<1> HIDE DEF b
<1>4. e \in 1..Len(b) /\ b[e] \in {NUL}
    BY <1>3, FirstFound
<1>5. e = BUFFER_SZ + 1
    <2> HIDE DEF e
    <2>1. e \in 1..(BUFFER_SZ + 1) /\ mem[e] = NUL
        BY <1>1, <1>4
    <2>2. e \notin 1..BUFFER_SZ
        BY <2>1 DEF NoNul
    <2> QED
        BY <2>1, <2>2, Sizes
<1>6. StrLen = e - 1
    BY DEF StrLen, b
<1> QED
    BY <1>5, <1>6, Sizes

\* The place of the old word lies in the buffer.
LEMMA PlaceFound ==
    ASSUME NEW m, NEW end \in Nat, NEW s, Len(s) \in Nat, Places(m, end, s) # {}
    PROVE  LET p == FirstOf(Places(m, end, s))
           IN  p \in Places(m, end, s) /\ p \in Nat /\ p >= 1 /\ p + Len(s) <= end + 1
<1> DEFINE ps == Places(m, end, s)
           p == FirstOf(ps)
           P(x) == \A q \in ps : x <= q
<1>1. ps \in SUBSET Nat /\ ps \subseteq 1..(end - Len(s) + 1)
    BY DEF Places
<1>2. PICK x \in ps : P(x)
    <2>1. ps # {}
        OBVIOUS
    <2> HIDE DEF ps
    <2> QED
        BY <1>1, <2>1, LeastNat
<1>3. p = CHOOSE y \in ps : P(y)
    BY DEF FirstOf
<1> HIDE DEF P, ps
<1>4. p \in ps
    <2> HIDE DEF p
    <2> QED
        BY <1>2, <1>3, Zenon
<1> HIDE DEF p
<1>5. p \in Nat /\ p >= 1 /\ p + Len(s) <= end + 1
    BY <1>1, <1>4
<1> QED
    BY <1>4, <1>5 DEF p, ps

LEMMA FindWordKeeps == StringInv /\ FindWord => StringInv'
<1> SUFFICES ASSUME StringInv, FindWord PROVE StringInv'
    OBVIOUS
<1> DEFINE ps == Places(mem, StrLen, call.find)
           pos == FirstOf(ps)
           shift == Len(call.replace) - Len(call.find)
<1>1. fpc = "x" /\ UNCHANGED <<call, src, flag, printed>>
    BY DEF FindWord
<1>2. /\ call' \in Calls /\ call'.opt = call.opt /\ call \in Calls
      /\ StringPlaces /\ StringCalled /\ StringLoop
    BY <1>1, SameCall
<1>3. /\ NoNul /\ Untouched /\ call.opt = "x" /\ DOMAIN mem = Heap
      /\ count \in 0..(BUFFER_SZ + 1) /\ i \in 0..(BUFFER_SZ + 1) /\ j \in 0..(BUFFER_SZ + Spare + Reach)
    BY <1>1, <1>2 DEF StringLoop, StringPlaces, StringCalled
<1>4. StrLen = BUFFER_SZ
    BY <1>3, WholeBuffer
<1>5. /\ Len(call.find) \in Nat /\ Len(call.replace) \in Nat /\ Len(call.replace) <= Spare + Reach
    BY <1>1, CallIs
<1>6. ps # {} => pos \in Nat /\ pos >= 1 /\ pos + Len(call.find) <= BUFFER_SZ + 1
    BY <1>4, <1>5, Sizes, PlaceFound
<1>7. \/ /\ ps = {} /\ fpc' = "ended" /\ UNCHANGED <<mem, count, i, j>>
      \/ /\ ps # {} /\ Len(call.replace) <= Len(call.find)
         /\ mem' = Put(mem, pos, call.replace)
         /\ count' = pos
         /\ i' = pos + Len(call.find) /\ j' = pos + Len(call.replace)
         /\ fpc' = "shrink"
      \/ /\ ps # {} /\ Len(call.replace) > Len(call.find)
         /\ count' = pos
         /\ i' = (IF StrLen + shift >= BUFFER_SZ THEN BUFFER_SZ ELSE StrLen + 1)
         /\ j' = i' + shift
         /\ fpc' = "grow" /\ UNCHANGED mem
    BY DEF FindWord, Exit
<1> HIDE DEF ps, pos
<1>8. CASE ps = {} /\ fpc' = "ended" /\ UNCHANGED <<mem, count, i, j>>
    BY <1>1, <1>2, <1>3, <1>8, EndKeeps
<1>9. CASE /\ ps # {} /\ Len(call.replace) <= Len(call.find)
           /\ mem' = Put(mem, pos, call.replace)
           /\ count' = pos
           /\ i' = pos + Len(call.find) /\ j' = pos + Len(call.replace)
           /\ fpc' = "shrink"
    <2>1. /\ count' \in Nat /\ count' <= BUFFER_SZ + 1 /\ i' \in Nat /\ i' <= BUFFER_SZ + 1
          /\ j' \in Nat /\ j' \in 1..i'
        <3> DEFINE old == Len(call.find)
                   new == Len(call.replace)
        <3>1. pos \in Nat /\ pos >= 1 /\ pos + old <= BUFFER_SZ + 1
            BY <1>6, <1>9
        <3>2. old \in Nat /\ new \in Nat /\ new <= old /\ BUFFER_SZ \in Nat
            BY <1>5, <1>9, Sizes
        <3>3. count' = pos /\ i' = pos + old /\ j' = pos + new
            BY <1>9
        <3> HIDE DEF old, new
        <3> QED
            BY <3>1, <3>2, <3>3
    <2>2. DOMAIN mem' = Heap
        BY <1>3, <1>9 DEF Put
    <2>3. mem'[BUFFER_SZ + 1] = NUL
        <3>1. BUFFER_SZ + 1 \notin pos..(pos + Len(call.replace) - 1)
            BY <1>5, <1>6, <1>9, Sizes
        <3>2. mem[BUFFER_SZ + 1] = NUL
            BY <1>3, Sizes DEF Untouched, Kept0
        <3> QED
            BY <1>3, <1>9, <3>1, <3>2, Sizes DEF Put
    <2>4. StringPlaces'
        BY <2>1, <2>2, Sizes DEF StringPlaces
    <2>5. StringCalled'
        BY <1>2, <1>3, <1>9 DEF StringCalled
    <2>6. Shrinking'
        BY <2>1, <2>3 DEF Shrinking
    <2>7. StringLoop'
        BY <1>2, <1>3, <1>9, <2>6 DEF StringLoop
    <2> QED
        BY <2>4, <2>5, <2>7 DEF StringInv
<1>10. CASE /\ ps # {} /\ Len(call.replace) > Len(call.find)
            /\ count' = pos
            /\ i' = (IF StrLen + shift >= BUFFER_SZ THEN BUFFER_SZ ELSE StrLen + 1)
            /\ j' = i' + shift
            /\ fpc' = "grow" /\ UNCHANGED mem
    <2>1. shift \in Nat /\ shift >= 1 /\ shift <= Spare + Reach
        <3> DEFINE new == Len(call.replace)
                   old == Len(call.find)
        <3>1. new \in Nat /\ old \in Nat /\ old < new /\ new <= Spare + Reach /\ shift = new - old
            BY <1>5, <1>10
        <3> HIDE DEF new, old, shift
        <3> QED
            BY <3>1, Sizes
    <2>2. i' = BUFFER_SZ
        BY <1>4, <1>10, <2>1, Sizes
    <2>3. j' = BUFFER_SZ + shift
        BY <1>10, <2>2
    <2>4. /\ count' \in Nat /\ count' <= BUFFER_SZ + 1 /\ i' \in 0..BUFFER_SZ
          /\ j' \in 0..(BUFFER_SZ + Spare + Reach)
        <3>1. pos \in Nat /\ pos <= BUFFER_SZ + 1
            BY <1>5, <1>6, <1>10, Sizes
        <3> HIDE DEF shift
        <3> QED
            BY <1>10, <2>1, <2>2, <2>3, <3>1, Sizes
    <2>5. StringPlaces'
        <3>1. count' \in 0..(BUFFER_SZ + 1) /\ i' \in 0..(BUFFER_SZ + 1)
            BY <2>4, Sizes
        <3>2. DOMAIN mem' = Heap
            BY <1>3, <1>10
        <3> QED
            BY <2>4, <3>1, <3>2 DEF StringPlaces
    <2>6. StringCalled'
        BY <1>2, <1>3, <1>10 DEF StringCalled
    <2>7. Growing'
        BY <1>1, <1>5, <1>6, <1>10, <2>4 DEF Growing
    <2>8. StringLoop'
        BY <1>2, <1>3, <1>10, <2>7 DEF StringLoop
    <2> QED
        BY <2>5, <2>6, <2>8 DEF StringInv
<1> QED
    BY <1>7, <1>8, <1>9, <1>10

LEMMA ShrinkCharKeeps == StringInv /\ ShrinkChar => StringInv'
<1> SUFFICES ASSUME StringInv, ShrinkChar PROVE StringInv'
    OBVIOUS
<1>1. fpc = "shrink" /\ UNCHANGED <<call, src, count, flag, printed, code>>
    BY DEF ShrinkChar
<1>2. /\ call' \in Calls /\ call'.opt = call.opt /\ call \in Calls
      /\ StringPlaces /\ StringCalled /\ StringLoop
    BY <1>1, SameCall
<1>3. /\ call.opt = "x" /\ DOMAIN mem = Heap /\ count \in 0..(BUFFER_SZ + 1)
      /\ i \in 0..(BUFFER_SZ + 1) /\ j \in 1..i /\ mem[BUFFER_SZ + 1] = NUL
    BY <1>1, <1>2 DEF StringLoop, StringPlaces, StringCalled, Shrinking
<1>4. CASE mem[i] \notin {NUL, Dot}
    <2>1. mem' = [mem EXCEPT ![j] = mem[i]] /\ i' = i + 1 /\ j' = j + 1 /\ fpc' = "shrink"
        BY <1>1, <1>4 DEF ShrinkChar
    <2>2. i # BUFFER_SZ + 1
        BY <1>3, <1>4
    <2>3. i' \in 0..(BUFFER_SZ + 1) /\ j' \in 1..i' /\ j # BUFFER_SZ + 1
        BY <1>3, <2>1, <2>2, Sizes
    <2>4. DOMAIN mem' = Heap /\ mem'[BUFFER_SZ + 1] = NUL
        BY <1>3, <2>1, <2>3, Sizes
    <2>5. StringPlaces'
        BY <1>1, <1>3, <2>3, <2>4, Sizes DEF StringPlaces
    <2>6. StringCalled'
        BY <1>2, <1>3, <2>1 DEF StringCalled
    <2>7. StringLoop'
        BY <1>2, <1>3, <2>1, <2>3, <2>4 DEF StringLoop, Shrinking
    <2> QED
        BY <2>5, <2>6, <2>7 DEF StringInv
<1>5. CASE mem[i] \in {NUL, Dot}
    <2>1. /\ mem' = [k \in Heap |-> IF k \in j..BUFFER_SZ THEN Dot ELSE mem[k]]
          /\ fpc' = "show" /\ UNCHANGED <<i, j>>
        BY <1>1, <1>5 DEF ShrinkChar
    <2>2. DOMAIN mem' = Heap
        BY <2>1
    <2>3. StringPlaces'
        BY <1>1, <1>2, <2>1, <2>2 DEF StringPlaces
    <2>4. StringCalled'
        BY <1>2, <1>3, <2>1 DEF StringCalled
    <2>5. StringLoop'
        BY <1>2, <1>3, <2>1 DEF StringLoop
    <2> QED
        BY <2>3, <2>4, <2>5 DEF StringInv
<1> QED
    BY <1>4, <1>5

LEMMA GrowCharKeeps == StringInv /\ GrowChar => StringInv'
<1> SUFFICES ASSUME StringInv, GrowChar PROVE StringInv'
    OBVIOUS
<1>1. fpc = "grow" /\ UNCHANGED <<call, src, count, flag, printed, code>>
    BY DEF GrowChar
<1>2. /\ call' \in Calls /\ call'.opt = call.opt /\ call \in Calls
      /\ StringPlaces /\ StringCalled /\ StringLoop
    BY <1>1, SameCall
<1>3. /\ call.opt = "x" /\ DOMAIN mem = Heap /\ count \in 0..(BUFFER_SZ + 1)
      /\ i \in 0..BUFFER_SZ /\ j \in 0..(BUFFER_SZ + Spare + Reach) /\ Growing
    BY <1>1, <1>2 DEF StringLoop, StringPlaces, StringCalled, Growing
<1>4. Len(call.find) \in Nat /\ Len(call.replace) \in Nat
    BY <1>1, CallIs
<1>5. CASE i >= count + Len(call.find)
    <2>1. mem' = [mem EXCEPT ![j] = mem[i]] /\ i' = i - 1 /\ j' = j - 1 /\ fpc' = "grow"
        BY <1>1, <1>5 DEF GrowChar
    <2>2. DOMAIN mem' = Heap
        BY <1>3, <2>1
    <2>3. i' \in 0..BUFFER_SZ /\ j' \in 0..(BUFFER_SZ + Spare + Reach)
          /\ j' = i' + (Len(call.replace) - Len(call.find))
        <3> DEFINE new == Len(call.replace)
                   old == Len(call.find)
        <3>1. /\ new \in Nat /\ old \in Nat /\ count >= 1 /\ i >= count + old
              /\ j = i + (new - old) /\ new > old
            BY <1>3, <1>4, <1>5 DEF Growing
        <3> HIDE DEF new, old
        <3>2. i' \in 0..BUFFER_SZ /\ j' \in 0..(BUFFER_SZ + Spare + Reach) /\ j' = i' + (new - old)
            BY <1>3, <2>1, <3>1, Sizes
        <3> QED
            BY <3>2 DEF new, old
    <2>4. StringPlaces'
        <3>1. i' \in 0..(BUFFER_SZ + 1) /\ count' \in 0..(BUFFER_SZ + 1)
            BY <1>1, <1>3, <2>3, Sizes
        <3> QED
            BY <2>2, <2>3, <3>1 DEF StringPlaces
    <2>5. StringCalled'
        BY <1>2, <1>3, <2>1 DEF StringCalled
    <2>6. Growing'
        BY <1>1, <1>3, <2>3 DEF Growing
    <2>7. StringLoop'
        BY <1>2, <1>3, <2>1, <2>6 DEF StringLoop
    <2> QED
        BY <2>4, <2>5, <2>7 DEF StringInv
<1>6. CASE ~(i >= count + Len(call.find))
    <2>1. /\ mem' = [Put(mem, count, call.replace) EXCEPT ![ByteBehind] = NUL]
          /\ fpc' = "show" /\ UNCHANGED <<i, j>>
        BY <1>1, <1>6 DEF GrowChar
    <2>2. DOMAIN mem' = Heap
        BY <1>3, <2>1 DEF Put
    <2>3. StringPlaces'
        BY <1>1, <1>2, <2>1, <2>2 DEF StringPlaces
    <2>4. StringCalled'
        BY <1>2, <1>3, <2>1 DEF StringCalled
    <2>5. StringLoop'
        BY <1>2, <1>3, <2>1 DEF StringLoop
    <2> QED
        BY <2>3, <2>4, <2>5 DEF StringInv
<1> QED
    BY <1>5, <1>6

LEMMA ShowReplacedKeeps == StringInv /\ ShowReplaced => StringInv'
<1> SUFFICES ASSUME StringInv, ShowReplaced PROVE StringInv'
    OBVIOUS
<1>1. fpc = "show" /\ fpc' = "ended" /\ UNCHANGED <<call, mem, src, count, flag, i, j, printed>>
    BY DEF ShowReplaced, Show
<1>2. call' \in Calls /\ StringPlaces
    BY <1>1, SameCall
<1>3. count' \in 0..(BUFFER_SZ + 1) /\ i' \in 0..(BUFFER_SZ + 1) /\ j' \in 0..(BUFFER_SZ + Spare + Reach)
    BY <1>1, <1>2 DEF StringPlaces
<1> QED
    BY <1>1, <1>2, <1>3, EndKeeps

LEMMA StringKeeps == StringInv /\ [StringNext]_stringfun => StringInv'
<1> SUFFICES ASSUME StringInv, [StringNext]_stringfun PROVE StringInv'
    OBVIOUS
<1>1. CASE UNCHANGED stringfun
    BY <1>1 DEF stringfun, StringInv, StringPlaces, StringCalled, StringLoop, Untouched, NoNul,
       Shrinking, Growing
<1> QED
    BY <1>1, StartKeeps, SetupCharKeeps, SetupEndKeeps, CountCharKeeps, PrintCharKeeps,
       ReverseCharKeeps, FindWordKeeps, ShrinkCharKeeps, GrowCharKeeps, ShowReplacedKeeps
       DEF StringNext, StringStep

\* For a buffer of any size, any text and any words: every loop of stringfun
\* reads and writes inside the buffer and the bytes -x may use behind it, the
\* buffer has no NUL when an option starts on it, and only -x writes behind it.
THEOREM StringInBuffer == StringSpec => []StringTypeOK
<1>1. StringInv => StringTypeOK
    <2> SUFFICES ASSUME StringInv PROVE StringTypeOK
        OBVIOUS
    <2>1. StringPlaces /\ (fpc \in {"c", "w", "r", "x"} => NoNul) /\ (call.opt # "x" => Untouched)
        BY DEF StringInv, StringLoop
    <2> QED
        BY <2>1 DEF StringTypeOK, StringPlaces, NoNul, Untouched
<1> QED
    BY <1>1, StringStarts, StringKeeps, PTL DEF StringSpec

----------------------------------------------------------------------------
(* What setup_buff leaves in the buffer                                    *)

\* White space and the ends of a text.
Gap(s, k) == k \notin DOMAIN s \/ s[k] \in {Blank, Tab}

\* A text with each character of white space made a blank.
Plain(s) == [k \in DOMAIN s |-> IF Gap(s, k) THEN Blank ELSE s[k]]

\* The characters of the first n that are stored, and those Text keeps of all.
Stored(s, n) == {k \in 1..n : ~Gap(s, k) \/ ~Gap(s, k - 1)}

OfText(s) ==
    {k \in DOMAIN s : ~Gap(s, k) \/ (~Gap(s, k - 1) /\ \E l \in k..Len(s) : ~Gap(s, l))}

\* The place of character q among those at the positions in at.
Place(at, q) == Cardinality(UpTo(at, q))

LEMMA StoredSet ==
    ASSUME NEW s \in Seq(STRING), NEW n \in 0..Len(s)
    PROVE  /\ Stored(s, n) \in SUBSET (DOMAIN s)
           /\ Stored(s, n) \in SUBSET Nat /\ IsFiniteSet(Stored(s, n))
           /\ Cardinality(Stored(s, n)) \in Nat
           /\ OfText(s) \in SUBSET (DOMAIN s)
           /\ OfText(s) \in SUBSET Nat /\ IsFiniteSet(OfText(s))
           /\ Cardinality(OfText(s)) \in Nat
<1>1. Stored(s, n) \in SUBSET (DOMAIN s) /\ OfText(s) \in SUBSET (DOMAIN s)
    BY DEF Stored, OfText
<1> QED
    BY <1>1, PositionsFinite

\* A character that is stored gets the place behind the others.
LEMMA StoreOne ==
    ASSUME NEW s \in Seq(STRING), NEW n \in 0..Len(s), n < Len(s),
           ~Gap(s, n + 1) \/ ~Gap(s, n)
    PROVE  /\ Stored(s, n + 1) = Stored(s, n) \cup {n + 1}
           /\ Cardinality(Stored(s, n + 1)) = Cardinality(Stored(s, n)) + 1
           /\ Place(Stored(s, n + 1), n + 1) = Cardinality(Stored(s, n)) + 1
           /\ \A q \in Stored(s, n) : Place(Stored(s, n + 1), q) = Place(Stored(s, n), q)
<1> DEFINE S == Stored(s, n)
<1>1. S \in SUBSET Nat /\ IsFiniteSet(S) /\ Cardinality(S) \in Nat /\ \A q \in S : q <= n
    BY StoredSet DEF Stored
<1>2. Stored(s, n + 1) = S \cup {n + 1}
    <2>1. (n + 1) - 1 = n /\ 1..(n + 1) = (1..n) \cup {n + 1}
        OBVIOUS
    <2> QED
        BY <2>1 DEF Stored
<1>3. n + 1 \notin S
    BY <1>1
<1> HIDE DEF S
<1>4. Cardinality(S \cup {n + 1}) = Cardinality(S) + 1
    BY <1>1, <1>3, FS_AddElement
<1>5. UpTo(S \cup {n + 1}, n + 1) = S \cup {n + 1}
    <2>1. \A q \in S \cup {n + 1} : q <= n + 1
        BY <1>1
    <2> QED
        BY <2>1 DEF UpTo
<1>6. ASSUME NEW q \in S PROVE UpTo(S \cup {n + 1}, q) = UpTo(S, q)
    BY <1>1 DEF UpTo
<1> QED
    BY <1>2, <1>4, <1>5, <1>6 DEF S, Place

LEMMA StoreNone ==
    ASSUME NEW s \in Seq(STRING), NEW n \in 0..Len(s), n < Len(s), Gap(s, n + 1), Gap(s, n)
    PROVE  Stored(s, n + 1) = Stored(s, n)
<1>1. (n + 1) - 1 = n /\ 1..(n + 1) = (1..n) \cup {n + 1}
    OBVIOUS
<1> QED
    BY <1>1 DEF Stored

\* Only the last character that is stored may not belong to the text.
LEMMA InTextBefore ==
    ASSUME NEW s \in Seq(STRING), NEW n \in 0..Len(s), NEW p \in Stored(s, n), NEW q \in Stored(s, n),
           p < q
    PROVE  p \in OfText(s)
<1>1. p \in 1..n /\ q \in 1..n /\ p \in DOMAIN s /\ q \in DOMAIN s /\ DOMAIN s = 1..Len(s)
      /\ Len(s) \in Nat
    BY DEF Stored
<1>2. CASE ~Gap(s, p)
    BY <1>1, <1>2 DEF OfText
<1>3. CASE Gap(s, p)
    <2>1. ~Gap(s, p - 1)
        BY <1>3 DEF Stored
    <2>2. CASE ~Gap(s, q)
        <3>1. q \in p..Len(s)
            BY <1>1
        <3> QED
            BY <1>1, <2>1, <2>2, <3>1 DEF OfText
    <2>3. CASE Gap(s, q)
        <3>1. ~Gap(s, q - 1)
            BY <2>3 DEF Stored
        <3>2. q - 1 \in p..Len(s)
            BY <1>1
        <3> QED
            BY <1>1, <2>1, <3>1, <3>2 DEF OfText
    <2> QED
        BY <2>2, <2>3
<1> QED
    BY <1>2, <1>3

LEMMA InTextStored ==
    ASSUME NEW s \in Seq(STRING)
    PROVE  /\ OfText(s) \in SUBSET Stored(s, Len(s))
           /\ \A q \in Stored(s, Len(s)) : ~Gap(s, q) => q \in OfText(s)
    BY DEF OfText, Stored

\* What setup_buff has done so far: it has looked at n characters, those it
\* stored are in the buffer, and flag tells whether the last one was white space.
\* (Before the first it does not matter.)
Copied ==
    LET s == call.str
        n == Len(s) - Len(src)
    IN  /\ n \in 0..Len(s) /\ \A k \in 1..Len(src) : src[k] = s[n + k]
        /\ count = Cardinality(Stored(s, n))
        /\ \A q \in Stored(s, n) : mem[Place(Stored(s, n), q)] = Plain(s)[q]
        /\ (flag <=> Gap(s, n)) \/ (n < Len(s) => ~Gap(s, n + 1))

SetUpInv ==
    /\ fpc = "setup" => Copied
    /\ fpc # "ended" => code = 0
    /\ SetUpRight

\* What Text is, character by character.
LEMMA TextIs ==
    ASSUME StringInv, fpc # "idle"
    PROVE  /\ call.str \in Seq(STRING) /\ Len(call.str) \in Nat
           /\ \A k \in DOMAIN call.str : call.str[k] # NUL
           /\ Text \in Seq(STRING \cup {Blank}) /\ Len(Text) \in Nat
           /\ Len(Text) = Cardinality(OfText(call.str))
           /\ \A q \in OfText(call.str) :
                 /\ Place(OfText(call.str), q) \in 1..Len(Text)
                 /\ Text[Place(OfText(call.str), q)] = Plain(call.str)[q]
           /\ \A k \in 1..Len(Text) : \E q \in OfText(call.str) : Place(OfText(call.str), q) = k
<1> DEFINE s == call.str
           at == OfText(s)
           p == Plain(s)
<1>1. s \in Seq(STRING) /\ Len(s) \in Nat /\ \A k \in DOMAIN s : s[k] # NUL
    <2>1. call \in Calls
        BY DEF StringInv, StringCalled
    <2> QED
        BY <2>1, StringAssumption
<1>2. p \in Seq(STRING \cup {Blank}) /\ DOMAIN p = DOMAIN s
    BY <1>1 DEF Plain
<1>3. at \in SUBSET (DOMAIN s) /\ at \in SUBSET Nat /\ IsFiniteSet(at) /\ Cardinality(at) \in Nat
    <2>1. 0 \in 0..Len(s)
        BY <1>1
    <2> QED
        BY <1>1, <2>1, StoredSet
<1>4. Text = Kept(p, at)
    BY DEF Text, Plain, OfText, Gap
<1> HIDE DEF s, at, p
<1>5. /\ Text \in Seq(STRING \cup {Blank}) /\ Len(Text) = Cardinality(at)
      /\ \A n \in 1..Cardinality(at) : Text[n] = p[InOrder(at)[n]]
    <2>1. at \in SUBSET (DOMAIN p)
        BY <1>2, <1>3
    <2> QED
        BY <1>2, <1>4, <2>1, KeptIs
<1>6. /\ \A n \in 1..Cardinality(at) : InOrder(at)[n] \in at /\ Place(at, InOrder(at)[n]) = n
      /\ \A q \in at : Place(at, q) \in 1..Cardinality(at) /\ InOrder(at)[Place(at, q)] = q
    BY <1>3, OrderIs DEF Place
<1>7. \A q \in at : Text[Place(at, q)] = p[q]
    BY <1>5, <1>6
<1>8. \A k \in 1..Len(Text) : \E q \in at : Place(at, q) = k
    BY <1>5, <1>6
<1> QED
    BY <1>1, <1>3, <1>5, <1>6, <1>7, <1>8 DEF s, at, p

\* setup_buff begins behind leading white space, of which nothing is stored.
LEMMA CopyStarts ==
    ASSUME StringInv, Start, fpc' = "setup"
    PROVE  Copied'
<1> DEFINE s == call'.str
           b == Append(s, NUL)
           f == Skip(b, 1, {Blank, Tab})
<1>1. fpc = "idle" /\ call' \in Calls /\ src' = SubSeq(s, f, Len(s)) /\ UNCHANGED <<mem, count, flag>>
    BY DEF Start, Exit
<1>2. s \in Seq(STRING) /\ Len(s) \in Nat /\ DOMAIN s = 1..Len(s)
    BY <1>1, StringAssumption
<1>3. Len(b) = Len(s) + 1 /\ b[Len(s) + 1] = NUL /\ \A k \in 1..Len(s) : b[k] = s[k]
    BY <1>2
<1>4. f \in 1..(Len(s) + 1) /\ b[f] \notin {Blank, Tab} /\ \A k \in 1..(f - 1) : b[k] \in {Blank, Tab}
    <2> HIDE DEF s, b
    <2>1. NUL \notin {Blank, Tab}
        BY DEF NUL, Blank, Tab
    <2>2. Len(b) \in Nat /\ Len(s) + 1 \in 1..Len(b) /\ 1 \in Nat
        BY <1>2, <1>3
    <2> QED
        BY <1>3, <2>1, <2>2, SkipFound
<1> HIDE DEF s, b, f
<1>5. Len(src') = Len(s) - (f - 1) /\ \A k \in 1..Len(src') : src'[k] = s[(f - 1) + k]
    BY <1>1, <1>2, <1>4
<1> DEFINE n == f - 1
<1>6. n \in 0..Len(s) /\ Len(s) - Len(src') = n
    BY <1>2, <1>4, <1>5
<1>7. \A k \in 0..n : Gap(s, k)
    <2>1. Gap(s, 0)
        BY <1>2 DEF Gap
    <2>2. ASSUME NEW k \in 1..n PROVE Gap(s, k)
        <3>1. k \in 1..Len(s) /\ k \in 1..(f - 1)
            BY <1>6
        <3> QED
            BY <1>3, <1>4, <3>1 DEF Gap
    <2>3. \A k \in 0..n : k = 0 \/ k \in 1..n
        BY <1>6
    <2> QED
        BY <2>1, <2>2, <2>3
<1>8. Stored(s, n) = {}
    <2>1. \A k \in 1..n : k \in 0..n /\ k - 1 \in 0..n
        BY <1>6
    <2> QED
        BY <1>7, <2>1 DEF Stored
<1>9. n < Len(s) => ~Gap(s, n + 1)
    <2> SUFFICES ASSUME n < Len(s) PROVE ~Gap(s, n + 1)
        OBVIOUS
    <2>1. n + 1 = f /\ f \in 1..Len(s)
        BY <1>2, <1>4
    <2> QED
        BY <1>2, <1>3, <1>4, <2>1 DEF Gap
<1>10. count' = 0
    BY <1>1 DEF StringInv, StringCalled
<1>11. Cardinality(Stored(s, n)) = 0
    BY <1>8, FS_EmptySet
<1> HIDE DEF n
<1> QED
    BY <1>5, <1>6, <1>8, <1>9, <1>10, <1>11 DEF Copied, s, n

\* One turn of setup_buff that does not find the buffer full.
LEMMA CopyGoesOn ==
    ASSUME StringInv, Copied, SetupChar, ~Full
    PROVE  Copied'
<1> DEFINE s == call.str
           n == Len(s) - Len(src)
           S == Stored(s, n)
<1>1. /\ fpc = "setup" /\ src # <<>> /\ UNCHANGED call /\ src' = Tail(src)
      /\ flag' = (Head(src) \in {Blank, Tab})
      /\ IF flag' THEN IF flag THEN UNCHANGED <<mem, count>> ELSE Store(Blank) ELSE Store(Head(src))
    BY DEF SetupChar
<1>2. /\ src \in Seq(STRING) /\ count <= BUFFER_SZ /\ DOMAIN mem = Heap /\ count \in Nat
    BY <1>1 DEF StringInv, StringLoop, StringPlaces
<1>3. s \in Seq(STRING) /\ Len(s) \in Nat /\ DOMAIN s = 1..Len(s)
    BY <1>1, TextIs
<1>4. /\ n \in 0..Len(s) /\ \A k \in 1..Len(src) : src[k] = s[n + k]
      /\ count = Cardinality(S)
      /\ \A q \in S : mem[Place(S, q)] = Plain(s)[q]
      /\ (flag <=> Gap(s, n)) \/ (n < Len(s) => ~Gap(s, n + 1))
    BY DEF Copied
<1>5. /\ Head(src) = src[1] /\ Len(Tail(src)) = Len(src) - 1
      /\ Len(src) \in Nat /\ Len(src) >= 1
      /\ \A k \in 1..Len(Tail(src)) : Tail(src)[k] = src[k + 1]
    BY <1>1, <1>2, HeadTail
<1>6. n < Len(s) /\ Head(src) = s[n + 1] /\ Len(s) - Len(src') = n + 1 /\ n + 1 \in 0..Len(s)
      /\ \A k \in 1..Len(src') : src'[k] = s[(n + 1) + k]
    <2>1. n = Len(s) - Len(src)
        OBVIOUS
    <2> HIDE DEF n
    <2>2. n < Len(s) /\ n + 1 \in 0..Len(s) /\ Len(s) - Len(src') = n + 1
        BY <1>1, <1>3, <1>4, <1>5, <2>1
    <2>3. 1 \in 1..Len(src)
        BY <1>5
    <2>4. ASSUME NEW k \in 1..Len(src')
          PROVE  src'[k] = s[(n + 1) + k]
        <3>1. k + 1 \in 1..Len(src) /\ k \in 1..Len(Tail(src)) /\ n + (k + 1) = (n + 1) + k
            BY <1>1, <1>4, <1>5
        <3> QED
            BY <1>1, <1>4, <1>5, <3>1
    <2> QED
        BY <1>4, <1>5, <2>2, <2>3, <2>4
<1> HIDE DEF n
<1>7. flag' <=> Gap(s, n + 1)
    <2>1. n + 1 \in DOMAIN s
        BY <1>3, <1>4, <1>6
    <2>2. flag' = (s[n + 1] \in {Blank, Tab})
        BY <1>1, <1>6
    <2> QED
        BY <2>1, <2>2 DEF Gap
<1> DEFINE Q == Stored(s, n + 1)
<1>8. count' = Cardinality(Q) /\ \A q \in Q : mem'[Place(Q, q)] = Plain(s)[q]
    <2>1. CASE ~Gap(s, n + 1) \/ ~Gap(s, n)
        <3>1. \E c \in {Plain(s)[n + 1]} : Store(c)
            <4>1. n + 1 \in DOMAIN s
                BY <1>3, <1>4, <1>6
            <4>2. CASE ~Gap(s, n + 1)
                <5>1. Plain(s)[n + 1] = Head(src)
                    BY <1>6, <4>1, <4>2 DEF Plain
                <5> QED
                    BY <1>1, <1>7, <4>2, <5>1
            <4>3. CASE Gap(s, n + 1)
                <5>1. Plain(s)[n + 1] = Blank
                    BY <4>1, <4>3 DEF Plain
                <5>2. ~flag
                    BY <1>4, <1>6, <2>1, <4>3
                <5> QED
                    BY <1>1, <1>7, <4>3, <5>1, <5>2
            <4> QED
                BY <4>2, <4>3
        <3>2. mem' = [mem EXCEPT ![count + 1] = Plain(s)[n + 1]] /\ count' = count + 1
            BY <3>1 DEF Store
        <3>3. /\ Q = S \cup {n + 1} /\ Cardinality(Q) = Cardinality(S) + 1
              /\ Place(Q, n + 1) = Cardinality(S) + 1
              /\ \A q \in S : Place(Q, q) = Place(S, q)
            BY <1>3, <1>4, <1>6, <2>1, StoreOne
        <3>4. count + 1 \in Heap
            BY <1>2, Sizes DEF Full
        <3>5. \A q \in S : Place(S, q) \in 1..count
            <4>1. S \in SUBSET Nat /\ IsFiniteSet(S)
                BY <1>3, <1>4, StoredSet
            <4> HIDE DEF S
            <4> QED
                BY <1>4, <4>1, CountRange DEF Place
        <3>6. ASSUME NEW q \in S PROVE mem'[Place(S, q)] = mem[Place(S, q)]
            <4>1. Place(S, q) # count + 1 /\ Place(S, q) \in Heap
                BY <1>2, <3>4, <3>5, Sizes
            <4> QED
                BY <1>2, <3>2, <4>1
        <3>7. mem'[count + 1] = Plain(s)[n + 1]
            BY <1>2, <3>2, <3>4
        <3> HIDE DEF S, Q
        <3> QED
            BY <1>4, <3>2, <3>3, <3>6, <3>7
    <2>2. CASE Gap(s, n + 1) /\ Gap(s, n)
        <3>1. UNCHANGED <<mem, count>>
            BY <1>1, <1>4, <1>6, <1>7, <2>2
        <3>2. Q = S
            BY <1>3, <1>4, <1>6, <2>2, StoreNone
        <3> QED
            BY <1>4, <3>1, <3>2
    <2> QED
        BY <2>1, <2>2
<1> HIDE DEF Q
<1> QED
    BY <1>1, <1>6, <1>7, <1>8 DEF Copied, Q

\* A full buffer means that the text fills all of it but perhaps one character.
LEMMA FullIsLong ==
    ASSUME StringInv, Copied, fpc = "setup", Full
    PROVE  Len(Text) >= BUFFER_SZ - 1
<1> DEFINE s == call.str
           n == Len(s) - Len(src)
           S == Stored(s, n)
           T == OfText(s)
<1>1. s \in Seq(STRING) /\ Len(s) \in Nat /\ Len(Text) = Cardinality(T) /\ Len(Text) \in Nat
    BY TextIs
<1>2. n \in 0..Len(s) /\ count = Cardinality(S) /\ count >= BUFFER_SZ
    BY DEF Copied, Full
<1>3. S \in SUBSET Nat /\ IsFiniteSet(S) /\ Cardinality(S) \in Nat /\ T \in SUBSET Nat /\ IsFiniteSet(T)
    BY <1>1, <1>2, StoredSet
<1>4. \A p, q \in S : p < q => p \in T
    BY <1>1, <1>2, InTextBefore
<1> HIDE DEF s, n, S, T
<1>5. PICK q \in S : Place(S, q) = Cardinality(S)
    <2>1. Cardinality(S) \in 1..Cardinality(S)
        BY <1>2, <1>3, Sizes
    <2> QED
        BY <1>3, <2>1, CountOnto DEF Place
<1>6. S \ {q} \in SUBSET T
    <2> SUFFICES ASSUME NEW p \in S, p # q PROVE p \in T
        OBVIOUS
    <2>1. p \in Nat /\ q \in Nat
        BY <1>3
    <2>2. ~(q < p)
        <3> SUFFICES ASSUME q < p PROVE FALSE
            OBVIOUS
        <3>1. Place(S, q) < Place(S, p)
            BY <1>3, CountGrows DEF Place
        <3>2. Place(S, p) \in 1..Cardinality(S)
            BY <1>3, CountRange DEF Place
        <3> QED
            BY <1>3, <1>5, <3>1, <3>2
    <2> QED
        BY <1>4, <2>1, <2>2
<1>7. Cardinality(S \ {q}) = Cardinality(S) - 1
    BY <1>3, FS_RemoveElement
<1>8. Cardinality(S \ {q}) <= Cardinality(T)
    BY <1>3, <1>6, FS_Subset
<1> QED
    BY <1>1, <1>2, <1>3, <1>7, <1>8, Sizes

\* Behind the last character of the text nothing is stored but a blank, which
\* goes: the buffer has the text and dots behind it.
LEMMA TextInBuffer ==
    ASSUME StringInv, Copied, SetupEnd
    PROVE  Len(Text) <= BUFFER_SZ /\ \A k \in 1..BUFFER_SZ : mem'[k] = Fit(Text)[k]
<1> DEFINE s == call.str
           S == Stored(s, Len(s))
           T == OfText(s)
           m == IF count > 0 /\ mem[count] = Blank THEN count - 1 ELSE count
<1>1. /\ fpc = "setup" /\ src = <<>> /\ UNCHANGED call
      /\ mem' = [k \in Heap |-> IF k \in (m + 1)..BUFFER_SZ THEN Dot ELSE mem[k]]
    BY DEF SetupEnd
<1>2. count \in Nat /\ count <= BUFFER_SZ
    BY <1>1 DEF StringInv, StringLoop, StringPlaces
<1>3. /\ s \in Seq(STRING) /\ Len(s) \in Nat /\ DOMAIN s = 1..Len(s)
      /\ Len(Text) = Cardinality(T) /\ Len(Text) \in Nat
      /\ \A q \in T : Text[Place(T, q)] = Plain(s)[q]
      /\ \A k \in 1..Len(Text) : \E q \in T : Place(T, q) = k
    BY <1>1, TextIs
<1>4. count = Cardinality(S) /\ \A q \in S : mem[Place(S, q)] = Plain(s)[q]
    <2>1. Len(s) - Len(src) = Len(s)
        BY <1>1, <1>3
    <2> QED
        BY <2>1 DEF Copied
<1>5. /\ S \in SUBSET (DOMAIN s) /\ S \in SUBSET Nat /\ IsFiniteSet(S)
      /\ T \in SUBSET S /\ (\A q \in S : ~Gap(s, q) => q \in T)
      /\ \A p, q \in S : p < q => p \in T
    <2>1. Len(s) \in 0..Len(s)
        BY <1>3
    <2> QED
        BY <1>3, <2>1, StoredSet, InTextStored, InTextBefore
<1>6. \A q \in S : Plain(s)[q] = Blank <=> Gap(s, q)
    BY <1>3, <1>5 DEF Plain, Gap
<1> HIDE DEF s, S, T, m
<1>7. /\ m = Cardinality(T)
      /\ \A q \in T : Place(T, q) = Place(S, q)
    <2>1. CASE S = T
        <3>1. count > 0 => mem[count] # Blank
            <4> SUFFICES ASSUME count > 0 PROVE mem[count] # Blank
                OBVIOUS
            <4>1. count \in 1..Cardinality(S)
                BY <1>2, <1>4
            <4>2. PICK q \in S : Place(S, q) = count
                BY <1>5, <4>1, CountOnto DEF Place
            <4>3. ~Gap(s, q)
                <5> SUFFICES ASSUME Gap(s, q) PROVE FALSE
                    OBVIOUS
                <5>1. q \in OfText(s)
                    BY <2>1 DEF T
                <5>2. PICK l \in q..Len(s) : ~Gap(s, l) /\ ~Gap(s, q - 1)
                    BY <5>1 DEF OfText
                <5>3. q \in 1..Len(s) /\ l # q /\ l \in 1..Len(s) /\ q < l
                    BY <1>3, <1>5, <5>2
                <5>4. l \in S
                    BY <5>2, <5>3 DEF S, Stored
                <5>5. Place(S, q) < Place(S, l) /\ Place(S, l) \in 1..Cardinality(S)
                    BY <1>5, <5>3, <5>4, CountGrows, CountRange DEF Place
                <5>6. Place(S, q) \in 1..Cardinality(S)
                    BY <1>5, CountRange DEF Place
                <5> QED
                    BY <1>2, <1>4, <4>2, <5>5, <5>6
            <4> QED
                BY <1>4, <1>6, <4>2, <4>3
        <3> QED
            BY <1>2, <1>4, <2>1, <3>1 DEF m
    <2>2. CASE S # T
        <3>1. PICK q \in S : q \notin T
            BY <1>5, <2>2
        <3>2. \A p \in S : p <= q
            <4>1. \A p \in S : p \in Nat
                BY <1>5
            <4> QED
                BY <1>5, <3>1, <4>1
        <3>3. \A p \in S : p # q => p \in T
            <4>1. \A p \in S : p \in Nat
                BY <1>5
            <4>2. \A p \in S : p # q => p < q
                BY <3>2, <4>1
            <4> QED
                BY <1>5, <4>2
        <3>4. T = S \ {q}
            BY <1>5, <3>1, <3>3
        <3>5. UpTo(S, q) = S
            BY <3>2 DEF UpTo
        <3>6. Cardinality(T) = count - 1 /\ Cardinality(S) # 0
            <4>1. Cardinality(S \ {q}) = Cardinality(S) - 1 /\ Cardinality(S) # 0
                BY <1>5, <3>1, FS_RemoveElement, FS_EmptySet
            <4> QED
                BY <1>4, <3>4, <4>1
        <3>7. mem[count] = Blank
            <4>1. Gap(s, q) /\ Place(S, q) = count
                BY <1>4, <1>5, <3>1, <3>5 DEF Place
            <4> QED
                BY <1>4, <1>6, <4>1
        <3>8. m = Cardinality(T)
            BY <1>2, <1>4, <3>6, <3>7 DEF m
        <3>9. ASSUME NEW p \in T PROVE UpTo(T, p) = UpTo(S, p)
            <4>1. p \in S /\ p # q /\ p <= q /\ p \in Nat /\ q \in Nat
                BY <1>5, <3>1, <3>2
            <4>2. ~(q <= p)
                BY <4>1
            <4> QED
                BY <3>4, <4>2 DEF UpTo
        <3> QED
            BY <3>8, <3>9 DEF Place
    <2> QED
        BY <2>1, <2>2
<1>8. m = Len(Text) /\ m <= BUFFER_SZ
    <2>1. m = count - 1 \/ m = count
        BY DEF m
    <2>2. m <= BUFFER_SZ
        BY <1>2, <2>1, Sizes
    <2> QED
        BY <1>3, <1>7, <2>2
<1>9. ASSUME NEW k \in 1..BUFFER_SZ PROVE mem'[k] = Fit(Text)[k]
    <2>1. mem'[k] = IF k \in (m + 1)..BUFFER_SZ THEN Dot ELSE mem[k]
        BY <1>1, Sizes
    <2>2. Fit(Text)[k] = IF k <= Len(Text) THEN Text[k] ELSE Dot
        BY DEF Fit
    <2>3. CASE k <= Len(Text)
        <3>1. k \in 1..Len(Text) /\ k \notin (m + 1)..BUFFER_SZ
            BY <1>3, <1>8, <2>3
        <3>2. PICK q \in T : Place(T, q) = k
            BY <1>3, <3>1
        <3>3. mem[k] = Plain(s)[q] /\ Text[k] = Plain(s)[q]
            BY <1>3, <1>4, <1>5, <1>7, <3>2
        <3> QED
            BY <2>1, <2>2, <2>3, <3>1, <3>3
    <2>4. CASE ~(k <= Len(Text))
        <3>1. k \in (m + 1)..BUFFER_SZ
            BY <1>3, <1>8, <2>4
        <3> QED
            BY <2>1, <2>2, <2>4, <3>1
    <2> QED
        BY <2>3, <2>4
<1> QED
    BY <1>8, <1>9

\* The text of a call does not change while it is worked on.
LEMMA SameText ==
    ASSUME UNCHANGED call
    PROVE  Text' = Text /\ Fit(Text)' = Fit(Text)
    BY DEF Text, Fit

LEMMA BufferIs ==
    ASSUME NEW t
    PROVE  Buffer = Fit(t) <=> \A k \in 1..BUFFER_SZ : mem[k] = Fit(t)[k]
    BY DEF Buffer, Fit

LEMMA SetUpStarts == StringInit => SetUpInv
<1> SUFFICES ASSUME StringInit PROVE SetUpInv
    OBVIOUS
<1>1. fpc = "idle" /\ code = 0
    BY DEF StringInit
<1> QED
    BY <1>1 DEF SetUpInv, SetUpRight

LEMMA SetUpKeeps == StringInv /\ SetUpInv /\ StringNext => SetUpInv'
<1> SUFFICES ASSUME StringInv, SetUpInv, StringNext PROVE SetUpInv'
    OBVIOUS
<1>1. CASE Start
    <2>1. fpc = "idle" /\ code = 0
        BY <1>1 DEF Start, SetUpInv
    <2>2. \/ fpc' = "ended" /\ code' \in {0, 1, 2}
          \/ fpc' = "setup" /\ code' = 0
        BY <1>1, <2>1 DEF Start, Exit
    <2>3. fpc' = "setup" => Copied'
        BY <1>1, CopyStarts
    <2> QED
        BY <2>2, <2>3 DEF SetUpInv, SetUpRight
<1>2. CASE SetupChar
    <2>1. fpc = "setup" /\ code = 0 /\ Copied /\ UNCHANGED call
        BY <1>2 DEF SetupChar, SetUpInv
    <2>2. CASE Full
        <3>1. fpc' = "ended" /\ code' = 3 /\ Text' = Text
            BY <1>2, <2>1, <2>2, SameText DEF SetupChar, Exit
        <3>2. Len(Text) >= BUFFER_SZ - 1
            BY <2>1, <2>2, FullIsLong
        <3> QED
            BY <3>1, <3>2 DEF SetUpInv, SetUpRight
    <2>3. CASE ~Full
        <3>1. fpc' = "setup" /\ code' = 0
            BY <1>2, <2>1, <2>3 DEF SetupChar
        <3>2. Copied'
            BY <1>2, <2>1, <2>3, CopyGoesOn
        <3> QED
            BY <3>1, <3>2 DEF SetUpInv, SetUpRight
    <2> QED
        BY <2>2, <2>3
<1>3. CASE SetupEnd
    <2>1. fpc = "setup" /\ code = 0 /\ Copied /\ UNCHANGED call
        BY <1>3 DEF SetupEnd, SetUpInv
    <2>2. \/ fpc' = "ended" /\ code' = 1
          \/ fpc' \in {"c", "w", "r", "x"} /\ code' = 0
        <3>1. call.opt # "h" /\ call.opt \in {"h", "c", "r", "w", "x", "other"}
            BY <2>1, CallIs DEF StringInv, StringCalled
        <3> QED
            BY <1>3, <2>1, <3>1 DEF SetupEnd, Exit
    <2>3. Len(Text) <= BUFFER_SZ /\ \A k \in 1..BUFFER_SZ : mem'[k] = Fit(Text)[k]
        BY <1>3, <2>1, TextInBuffer
    <2>4. Buffer' = Fit(Text)
        BY <2>3 DEF Buffer, Fit
    <2>5. Len(Text') <= BUFFER_SZ /\ Buffer' = Fit(Text)'
        BY <2>1, <2>3, <2>4, SameText
    <2> QED
        BY <2>2, <2>5 DEF SetUpInv, SetUpRight
<1>4. CASE CountChar \/ PrintChar
    <2>1. /\ fpc \in {"c", "w"} /\ fpc' \in {fpc, "ended"} /\ UNCHANGED <<call, mem>>
          /\ code' \in {0, SIGABRT} /\ (fpc' # "ended" => code' = 0)
        BY <1>4 DEF CountChar, PrintChar, Show, SetUpInv
    <2>2. Buffer' = Buffer /\ Text' = Text /\ Fit(Text)' = Fit(Text)
        BY <2>1, SameText DEF Buffer
    <2> QED
        BY <2>1, <2>2 DEF SetUpInv, SetUpRight, SIGABRT
<1>5. CASE ReverseChar
    <2>1. /\ fpc = "r" /\ fpc' \in {fpc, "ended"} /\ UNCHANGED call
          /\ code' \in {0, SIGABRT} /\ (fpc' # "ended" => code' = 0)
        BY <1>5 DEF ReverseChar, Show, SetUpInv
    <2>2. Text' = Text
        BY <2>1, SameText
    <2> QED
        BY <2>1, <2>2 DEF SetUpInv, SetUpRight, SIGABRT
<1>6. CASE FindWord \/ ShrinkChar \/ GrowChar \/ ShowReplaced
    <2>1. /\ fpc' \in {"shrink", "grow", "show", "ended"}
          /\ code' \in {0, 1, SIGABRT} /\ (fpc' # "ended" => code' = 0)
        BY <1>6 DEF FindWord, ShrinkChar, GrowChar, ShowReplaced, Show, Exit, SetUpInv
    <2> QED
        BY <2>1 DEF SetUpInv, SetUpRight, SIGABRT
<1> QED
    BY <1>1, <1>2, <1>3, <1>4, <1>5, <1>6 DEF StringNext, StringStep

LEMMA SetUpStutters == SetUpInv /\ UNCHANGED stringfun => SetUpInv'
    BY SameText DEF SetUpInv, SetUpRight, Copied, Buffer, stringfun

\* For a text of any length and any buffer: what setup_buff leaves in it is the
\* words of the text, joined by single blanks, and dots; a text that is refused
\* leaves at most one byte of the buffer free.
THEOREM TextSetUp == StringSpec => []SetUpRight
<1>1. StringInv /\ SetUpInv /\ [StringNext]_stringfun => SetUpInv'
    BY SetUpKeeps, SetUpStutters
<1>2. SetUpInv => SetUpRight
    BY DEF SetUpInv
<1> QED
    BY <1>1, <1>2, StringStarts, SetUpStarts, StringKeeps, PTL DEF StringSpec

----------------------------------------------------------------------------
(* What -c and -w find                                                     *)

\* A text neither begins nor ends with a blank.
LEMMA TextEnds ==
    ASSUME StringInv, fpc # "idle", Len(Text) # 0
    PROVE  Text[1] # Blank /\ Text[Len(Text)] # Blank
<1> DEFINE s == call.str
           T == OfText(s)
<1>1. /\ s \in Seq(STRING) /\ Len(s) \in Nat /\ DOMAIN s = 1..Len(s)
      /\ Len(Text) = Cardinality(T) /\ Len(Text) \in Nat
      /\ \A q \in T : Text[Place(T, q)] = Plain(s)[q]
      /\ \A k \in 1..Len(Text) : \E q \in T : Place(T, q) = k
    BY TextIs
<1>2. T \in SUBSET (DOMAIN s) /\ T \in SUBSET Nat /\ IsFiniteSet(T)
    <2>1. 0 \in 0..Len(s)
        BY <1>1
    <2> QED
        BY <1>1, <2>1, StoredSet
<1>3. /\ \A q \in T : Place(T, q) \in 1..Len(Text)
      /\ \A p, q \in T : p < q => Place(T, p) < Place(T, q)
    <2> HIDE DEF T
    <2> QED
        BY <1>1, <1>2, CountRange, CountGrows DEF Place
<1>4. \A q \in T : Plain(s)[q] = Blank => Gap(s, q)
    BY <1>1, <1>2 DEF Plain, Gap
<1>5. ASSUME NEW q \in T, Gap(s, q)
      PROVE  (\E p \in T : p < q) /\ (\E r \in T : q < r)
    <2>1. PICK r \in q..Len(s) : ~Gap(s, r) /\ ~Gap(s, q - 1)
        BY <1>5 DEF OfText
    <2>2. r \in DOMAIN s /\ q - 1 \in DOMAIN s
        BY <2>1 DEF Gap
    <2>3. r # q /\ q \in Nat /\ r \in Nat
        BY <1>2, <1>5, <2>1
    <2>4. r \in T /\ q - 1 \in T
        BY <2>1, <2>2 DEF OfText
    <2> QED
        BY <2>1, <2>3, <2>4
<1> HIDE DEF s, T
<1>6. ASSUME NEW q \in T, Gap(s, q)
      PROVE  Place(T, q) # 1 /\ Place(T, q) # Len(Text)
    <2>1. PICK p \in T, r \in T : p < q /\ q < r
        BY <1>5, <1>6
    <2>2. /\ Place(T, p) \in 1..Len(Text) /\ Place(T, q) \in 1..Len(Text)
          /\ Place(T, r) \in 1..Len(Text)
          /\ Place(T, p) < Place(T, q) /\ Place(T, q) < Place(T, r)
        BY <1>3, <2>1
    <2> QED
        BY <1>1, <2>2
<1>7. 1 \in 1..Len(Text) /\ Len(Text) \in 1..Len(Text)
    BY <1>1
<1> QED
    BY <1>1, <1>4, <1>6, <1>7

\* Where words begin among the first n characters.
LEMMA StartsEnds ==
    ASSUME NEW t, NEW d, Len(t) \in Nat, DOMAIN t = 1..Len(t)
    PROVE  /\ Starts(t, d) \in SUBSET (1..Len(t)) /\ IsFiniteSet(Starts(t, d))
           /\ Starts(t, d) \in SUBSET Nat
           /\ UpTo(Starts(t, d), 0) = {}
           /\ UpTo(Starts(t, d), Len(t)) = Starts(t, d)
<1>1. Starts(t, d) \in SUBSET (1..Len(t))
    BY DEF Starts
<1>2. IsFiniteSet(1..Len(t))
    BY FS_Interval
<1> QED
    BY <1>1, <1>2, FS_Subset DEF UpTo

LEMMA StartsUpTo ==
    ASSUME NEW t, NEW d, Len(t) \in Nat, DOMAIN t = 1..Len(t), NEW n \in 1..Len(t)
    PROVE  /\ Cardinality(UpTo(Starts(t, d), n - 1)) \in Nat
           /\ Cardinality(UpTo(Starts(t, d), n)) = Cardinality(UpTo(Starts(t, d), n - 1))
                                                   + (IF n \in Starts(t, d) THEN 1 ELSE 0)
<1> DEFINE S == Starts(t, d)
           U == UpTo(S, n - 1)
<1>1. S \in SUBSET (1..Len(t)) /\ IsFiniteSet(S)
    BY StartsEnds
<1>2. U \in SUBSET S
    BY DEF UpTo
<1>3. IsFiniteSet(U) /\ Cardinality(U) \in Nat
    BY <1>1, <1>2, FS_Subset, FS_CardinalityType
<1>4. n \notin U /\ UpTo(S, n) = IF n \in S THEN U \cup {n} ELSE U
    <2>1. \A k \in 1..Len(t) : (k <= n) <=> (k <= n - 1 \/ k = n)
        OBVIOUS
    <2>2. ~(n <= n - 1)
        OBVIOUS
    <2> QED
        BY <1>1, <2>1, <2>2 DEF UpTo
<1> HIDE DEF U, S
<1>5. Cardinality(U \cup {n}) = Cardinality(U) + 1
    BY <1>3, <1>4, FS_AddElement
<1>6. Cardinality(UpTo(S, n)) = Cardinality(U) + (IF n \in S THEN 1 ELSE 0)
    BY <1>3, <1>4, <1>5
<1> QED
    BY <1>3, <1>6 DEF U, S

\* A text that fits has its words in the buffer; one that is empty leaves one
\* word there, of dots.
LEMMA StartsInBuffer ==
    ASSUME NEW t \in Seq(STRING \cup {Blank}), Len(t) <= BUFFER_SZ,
           Len(t) # 0 => t[1] # Blank /\ t[Len(t)] # Blank
    PROVE  /\ Len(t) # 0 => Starts(Fit(t), Blank) = Starts(t, Blank)
           /\ Len(t) = 0 => Starts(Fit(t), Blank) = {1}
<1>1. Len(t) \in Nat /\ DOMAIN t = 1..Len(t) /\ DOMAIN Fit(t) = 1..BUFFER_SZ /\ BUFFER_SZ \in Nat
      /\ BUFFER_SZ >= 1
    BY Sizes DEF Fit
<1>2. \A k \in 1..BUFFER_SZ : Fit(t)[k] = IF k <= Len(t) THEN t[k] ELSE Dot
    BY DEF Fit
<1>3. Dot # Blank
    BY DEF Dot, Blank
<1>4. ASSUME Len(t) # 0 PROVE Starts(Fit(t), Blank) = Starts(t, Blank)
    <2>1. ASSUME NEW p \in Starts(t, Blank) PROVE p \in Starts(Fit(t), Blank)
        <3>1. p \in 1..Len(t) /\ t[p] # Blank /\ (p = 1 \/ t[p - 1] = Blank)
            BY <1>1 DEF Starts
        <3>2. p \in 1..BUFFER_SZ /\ Fit(t)[p] = t[p]
            BY <1>1, <1>2, <3>1
        <3>3. p # 1 => Fit(t)[p - 1] = t[p - 1]
            <4> SUFFICES ASSUME p # 1 PROVE Fit(t)[p - 1] = t[p - 1]
                OBVIOUS
            <4>1. p - 1 \in 1..BUFFER_SZ /\ p - 1 <= Len(t)
                BY <1>1, <3>1
            <4> QED
                BY <1>2, <4>1
        <3> QED
            BY <1>1, <3>1, <3>2, <3>3 DEF Starts
    <2>2. ASSUME NEW p \in Starts(Fit(t), Blank) PROVE p \in Starts(t, Blank)
        <3>1. p \in 1..BUFFER_SZ /\ Fit(t)[p] # Blank /\ (p = 1 \/ Fit(t)[p - 1] = Blank)
            BY <1>1 DEF Starts
        <3>2. CASE p <= Len(t)
            <4>1. p \in 1..Len(t) /\ Fit(t)[p] = t[p]
                BY <1>1, <1>2, <3>1, <3>2
            <4>2. p # 1 => Fit(t)[p - 1] = t[p - 1]
                <5> SUFFICES ASSUME p # 1 PROVE Fit(t)[p - 1] = t[p - 1]
                    OBVIOUS
                <5>1. p - 1 \in 1..BUFFER_SZ /\ p - 1 <= Len(t)
                    BY <1>1, <3>1, <4>1
                <5> QED
                    BY <1>2, <5>1
            <4> QED
                BY <1>1, <3>1, <4>1, <4>2 DEF Starts
        <3>3. CASE ~(p <= Len(t))
            <4>1. p # 1 /\ p - 1 \in 1..BUFFER_SZ /\ p - 1 >= Len(t)
                BY <1>1, <1>4, <3>1, <3>3
            <4>2. Fit(t)[p - 1] # Blank
                BY <1>1, <1>2, <1>3, <1>4, <4>1
            <4> QED
                BY <3>1, <4>1, <4>2
        <3> QED
            BY <3>2, <3>3
    <2> QED
        BY <2>1, <2>2
<1>5. ASSUME Len(t) = 0 PROVE Starts(Fit(t), Blank) = {1}
    <2>1. \A k \in 1..BUFFER_SZ : Fit(t)[k] = Dot
        BY <1>2, <1>5
    <2>2. 1 \in 1..BUFFER_SZ /\ \A k \in 1..BUFFER_SZ : k # 1 => k - 1 \in 1..BUFFER_SZ
        BY <1>1
    <2> QED
        BY <1>1, <1>3, <2>1, <2>2 DEF Starts
<1> QED
    BY <1>4, <1>5

LEMMA WordCut ==
    ASSUME NEW T, NEW t \in Seq(T), NEW f \in 1..Len(t), NEW e \in (f + 1)..(Len(t) + 1)
    PROVE  /\ SubSeq(t, f, e - 1) = [k \in 1..(e - f) |-> t[f + k - 1]]
           /\ SubSeq(t, f, e - 1) \in Seq(T)
<1>1. (e - 1) - f + 1 = e - f
    OBVIOUS
<1>2. SubSeq(t, f, e - 1) = [k \in 1..((e - 1) - f + 1) |-> t[f + k - 1]]
    OBVIOUS
<1>3. SubSeq(t, f, e - 1) \in Seq(T)
    OBVIOUS
<1> QED
    BY <1>1, <1>2, <1>3

\* A word that begins at f and ends before e is the one strtok_r returns after
\* those that begin before it.
LEMMA WordEnds ==
    ASSUME NEW T, NEW t \in Seq(T), NEW d, NEW f \in Starts(t, d), NEW e \in (f + 1)..(Len(t) + 1),
           \A k \in f..(e - 1) : t[k] # d, e <= Len(t) => t[e] = d
    PROVE  LET n == Cardinality(UpTo(Starts(t, d), e - 1))
           IN  n \in 1..Len(Tokens(t, d)) /\ Tokens(t, d)[n] = SubSeq(t, f, e - 1)
<1> DEFINE S == Starts(t, d)
           b == Append(t, d)
           n == Cardinality(UpTo(S, f))
<1>1. /\ S \in SUBSET (1..Len(t)) /\ S \in SUBSET Nat /\ IsFiniteSet(S)
      /\ Len(t) \in Nat /\ DOMAIN t = 1..Len(t)
    BY StartsEnds
<1>2. UpTo(S, e - 1) = UpTo(S, f)
    <2>1. ASSUME NEW p \in S, f < p PROVE ~(p <= e - 1)
        <3> SUFFICES ASSUME p <= e - 1 PROVE FALSE
            OBVIOUS
        <3>1. p # 1 /\ p - 1 \in f..(e - 1)
            BY <1>1, <2>1
        <3>2. t[p - 1] = d
            BY <3>1 DEF Starts
        <3> QED
            BY <3>1, <3>2
    <2>2. \A p \in S : (p <= e - 1) <=> (p <= f)
        BY <1>1, <2>1
    <2> QED
        BY <2>2 DEF UpTo
<1>3. n \in 1..Cardinality(S) /\ InOrder(S)[n] = f /\ f \in 1..Len(t)
    <2>1. f \in S
        OBVIOUS
    <2> HIDE DEF S
    <2> QED
        BY <1>1, <2>1, OrderIs
<1>4. Len(b) = Len(t) + 1 /\ b[Len(t) + 1] = d /\ \A k \in 1..Len(t) : b[k] = t[k]
    BY <1>1
<1>5. First(b, f, {d}) = e
    <2>1. b[e] \in {d} /\ e \in f..Len(b) /\ f \in Nat /\ Len(b) \in Nat
        BY <1>1, <1>4
    <2> HIDE DEF b, S
    <2>2. First(b, f, {d}) \in f..Len(b) /\ First(b, f, {d}) <= e /\ b[First(b, f, {d})] = d
        BY <2>1, FirstFound
    <2>3. \A k \in f..(e - 1) : b[k] # d
        <3>1. \A k \in f..(e - 1) : k \in 1..Len(t)
            BY <1>1, <1>3
        <3> QED
            BY <1>4, <3>1
    <2> QED
        BY <1>1, <2>1, <2>2, <2>3
<1>6. Begin(t, d, n) = f /\ Behind(t, d, n) = e
    BY <1>3, <1>5 DEF Begin, Behind
<1>7. n \in 1..Count(t, d)
    BY <1>3 DEF Count
<1> HIDE DEF n, b
<1>8. Tokens(t, d)[n] = SubSeq(t, f, e - 1) /\ Len(Tokens(t, d)) = Count(t, d)
    <2>1. Tokens(t, d)[n] = SubSeq(t, Begin(t, d, n), Behind(t, d, n) - 1)
        BY <1>7, TokensAre
    <2> QED
        BY <1>6, <2>1, TokensAre
<1> QED
    BY <1>2, <1>7, <1>8 DEF n

NoDots == \A k \in DOMAIN Text : Text[k] # Dot

\* The loop of count_words has counted the words that begin before j.
Counting ==
    /\ count = Cardinality(UpTo(Starts(Fit(Text), Blank), j - 1))
    /\ flag <=> j > 1 /\ Fit(Text)[j - 1] # Blank

\* That of print_words_and_lengths has printed those that end before j.
Printing ==
    /\ j \in 1..(Len(Text) + 1)
    /\ i # 0 => i \in Starts(Text, Blank) /\ i < j /\ \A k \in i..(j - 1) : Text[k] # Blank
    /\ i = 0 => j = 1 \/ Text[j - 1] = Blank
    /\ printed \in Seq(Seq(STRING \cup {Blank}))
    /\ Len(printed) + (IF i = 0 THEN 0 ELSE 1) = Cardinality(UpTo(Starts(Text, Blank), j - 1))
    /\ \A n \in 1..Len(printed) : printed[n] = Tokens(Text, Blank)[n]

FoundInv ==
    /\ fpc \in {"idle", "setup"} => printed = <<>>
    /\ fpc = "c" => Counting
    /\ fpc = "w" /\ NoDots => Printing
    /\ WordsFound

LEMMA CountGoesOn ==
    ASSUME StringInv, SetUpInv, FoundInv, CountChar
    PROVE  FoundInv'
<1> DEFINE S == Starts(Fit(Text), Blank)
<1>1. /\ fpc = "c" /\ UNCHANGED <<call, mem, src, i, printed>> /\ Text' = Text /\ Fit(Text)' = Fit(Text)
    BY SameText DEF CountChar
<1>2. /\ j \in Nat /\ count \in Nat /\ count < j /\ j <= BUFFER_SZ + 1 /\ call.opt = "c"
      /\ BUFFER_SZ \in Nat /\ BUFFER_SZ >= 1
    BY <1>1, Sizes DEF StringInv, StringLoop, StringPlaces, StringCalled
<1>3. /\ count = Cardinality(UpTo(S, j - 1)) /\ (flag <=> j > 1 /\ Fit(Text)[j - 1] # Blank)
      /\ Len(Text) <= BUFFER_SZ /\ \A k \in 1..BUFFER_SZ : mem[k] = Fit(Text)[k]
    BY <1>1, BufferIs DEF FoundInv, Counting, SetUpInv, SetUpRight
<1>4. DOMAIN Fit(Text) = 1..BUFFER_SZ /\ Len(Fit(Text)) = BUFFER_SZ
    BY <1>2 DEF Fit
<1>5. j >= 1
    BY <1>2
<1>6. CASE j <= BUFFER_SZ
    <2>1. /\ fpc' = "c" /\ j' = j + 1 /\ flag' = (mem[j] # Blank)
          /\ count' = IF flag' /\ ~flag THEN count + 1 ELSE count
        BY <1>1, <1>6 DEF CountChar
    <2>2. j \in 1..BUFFER_SZ /\ j' - 1 = j /\ mem[j] = Fit(Text)[j]
        BY <1>2, <1>3, <1>5, <1>6, <2>1
    <2>3. j \in S <=> flag' /\ ~flag
        <3>1. j \in S <=> Fit(Text)[j] # Blank /\ (j = 1 \/ Fit(Text)[j - 1] = Blank)
            BY <1>4, <2>2 DEF Starts
        <3>2. flag' <=> Fit(Text)[j] # Blank
            BY <2>1, <2>2
        <3>3. (j = 1) <=> ~(j > 1)
            BY <1>2, <1>5
        <3> QED
            BY <1>3, <3>1, <3>2, <3>3
    <2>4. Cardinality(UpTo(S, j)) = count + (IF j \in S THEN 1 ELSE 0)
        BY <1>3, <1>4, <2>2, StartsUpTo
    <2>5. count' = Cardinality(UpTo(S, j' - 1))
        BY <1>2, <2>1, <2>2, <2>3, <2>4
    <2>6. Counting'
        <3>1. flag' <=> j' > 1 /\ Fit(Text)[j' - 1] # Blank
            <4>1. j' > 1
                BY <1>2, <1>5, <2>1
            <4>2. flag' <=> Fit(Text)[j] # Blank
                BY <2>1, <2>2
            <4> QED
                BY <2>2, <4>1, <4>2
        <3> QED
            BY <1>1, <2>5, <3>1 DEF Counting
    <2>7. WordsFound'
        BY <2>1 DEF WordsFound, Ended
    <2> QED
        BY <2>1, <2>6, <2>7 DEF FoundInv
<1>7. CASE ~(j <= BUFFER_SZ)
    <2>1. fpc' = "ended" /\ UNCHANGED <<count, call>>
        BY <1>1, <1>7 DEF CountChar, Show
    <2>2. count = Cardinality(S)
        <3>1. j - 1 = BUFFER_SZ
            BY <1>2, <1>7
        <3> QED
            BY <1>2, <1>3, <1>4, <3>1, StartsEnds
    <2>3. /\ Text \in Seq(STRING \cup {Blank}) /\ Len(Text) \in Nat
          /\ Len(Text) # 0 => Text[1] # Blank /\ Text[Len(Text)] # Blank
        BY <1>1, TextIs, TextEnds
    <2>4. Tokens(Text, Blank) \in Seq(Seq(STRING \cup {Blank}))
          /\ Len(Tokens(Text, Blank)) = Cardinality(Starts(Text, Blank))
        BY <2>3, TokensAre DEF Count
    <2>5. count = IF Tokens(Text, Blank) = <<>> THEN 1 ELSE Len(Tokens(Text, Blank))
        <3>1. CASE Len(Text) = 0
            <4>1. S = {1}
                BY <1>3, <2>3, <3>1, StartsInBuffer
            <4>2. Starts(Text, Blank) = {}
                BY <2>3, <3>1 DEF Starts
            <4>3. Cardinality(S) = 1 /\ Cardinality(Starts(Text, Blank)) = 0
                BY <4>1, <4>2, FS_Singleton, FS_EmptySet
            <4> QED
                BY <2>2, <2>4, <4>3
        <3>2. CASE Len(Text) # 0
            <4>1. S = Starts(Text, Blank)
                BY <1>3, <2>3, <3>2, StartsInBuffer
            <4>2. 1 \in Starts(Text, Blank)
                BY <2>3, <3>2 DEF Starts
            <4>3. IsFiniteSet(Starts(Text, Blank))
                BY <2>3, StartsEnds
            <4>4. Cardinality(Starts(Text, Blank)) # 0
                BY <4>2, <4>3, FS_EmptySet
            <4> QED
                BY <2>2, <2>4, <4>1, <4>4
        <3> QED
            BY <3>1, <3>2
    <2>6. WordsFound'
        BY <1>1, <1>2, <2>1, <2>5 DEF WordsFound, Ended
    <2> QED
        BY <2>1, <2>6 DEF FoundInv
<1> QED
    BY <1>6, <1>7

\* One turn of print_words_and_lengths over a text without dots.
LEMMA PrintGoesOn ==
    ASSUME StringInv, SetUpInv, FoundInv, PrintChar
    PROVE  FoundInv'
<1> DEFINE t == Text
           S == Starts(t, Blank)
           more == InText
           ends == i # 0 /\ (~more \/ mem[j] = Blank)
           w == [k \in 1..(j - i) |-> mem[i + k - 1]]
<1>1. /\ fpc = "w" /\ UNCHANGED <<call, mem, src, count, flag>> /\ Text' = t /\ Fit(Text)' = Fit(t)
      /\ printed' = (IF ends THEN Append(printed, w) ELSE printed)
      /\ i' = (IF ends THEN 0 ELSE IF more /\ i = 0 /\ mem[j] # Blank THEN j ELSE i)
      /\ IF more THEN j' = j + 1 /\ fpc' = fpc ELSE fpc' = "ended" /\ j' = j
    BY SameText DEF PrintChar, Show
<1>2. /\ j \in 1..(BUFFER_SZ + 1) /\ i \in 0..BUFFER_SZ /\ call.opt = "w"
      /\ BUFFER_SZ \in Nat /\ BUFFER_SZ >= 1
    BY <1>1, Sizes DEF StringInv, StringLoop, StringPlaces, StringCalled
<1>3. CASE NoDots
    <2>1. /\ j \in 1..(Len(t) + 1)
          /\ i # 0 => i \in S /\ i < j /\ \A k \in i..(j - 1) : t[k] # Blank
          /\ i = 0 => j = 1 \/ t[j - 1] = Blank
          /\ printed \in Seq(Seq(STRING \cup {Blank}))
          /\ Len(printed) + (IF i = 0 THEN 0 ELSE 1) = Cardinality(UpTo(S, j - 1))
          /\ \A n \in 1..Len(printed) : printed[n] = Tokens(t, Blank)[n]
        BY <1>1, <1>3 DEF FoundInv, Printing
    <2>2. /\ t \in Seq(STRING \cup {Blank}) /\ Len(t) \in Nat /\ DOMAIN t = 1..Len(t)
          /\ Len(t) <= BUFFER_SZ /\ \A k \in 1..BUFFER_SZ : mem[k] = Fit(t)[k]
        BY <1>1, TextIs, BufferIs DEF SetUpInv, SetUpRight
    <2>3. /\ \A k \in 1..Len(t) : mem[k] = t[k] /\ t[k] # Dot
          /\ \A k \in 1..BUFFER_SZ : k > Len(t) => mem[k] = Dot
        BY <1>2, <1>3, <2>2 DEF Fit, NoDots
    <2>4. more <=> j <= Len(t)
        BY <1>2, <2>1, <2>2, <2>3 DEF InText
    <2>5. more => mem[j] = t[j] /\ j \in 1..Len(t)
        BY <2>1, <2>2, <2>3, <2>4
    <2>6. /\ Tokens(t, Blank) \in Seq(Seq(STRING \cup {Blank}))
          /\ Len(Tokens(t, Blank)) = Cardinality(S)
        BY <2>2, TokensAre DEF Count
    <2>7. ASSUME ends
          PROVE  LET n == Cardinality(UpTo(S, j - 1))
                 IN  /\ w \in Seq(STRING \cup {Blank}) /\ n \in 1..Len(Tokens(t, Blank))
                     /\ w = Tokens(t, Blank)[n]
        <3>1. i \in S /\ i \in 1..Len(t) /\ i < j /\ j \in (i + 1)..(Len(t) + 1)
            BY <2>1, <2>2, <2>7 DEF Starts
        <3>2. j <= Len(t) => t[j] = Blank
            BY <2>4, <2>5, <2>7
        <3>3. /\ Cardinality(UpTo(S, j - 1)) \in 1..Len(Tokens(t, Blank))
              /\ Tokens(t, Blank)[Cardinality(UpTo(S, j - 1))] = SubSeq(t, i, j - 1)
            BY <2>1, <2>2, <2>7, <3>1, <3>2, WordEnds
        <3>4. SubSeq(t, i, j - 1) = [k \in 1..(j - i) |-> t[i + k - 1]]
              /\ SubSeq(t, i, j - 1) \in Seq(STRING \cup {Blank})
            BY <2>2, <3>1, WordCut
        <3>5. \A k \in 1..(j - i) : i + k - 1 \in 1..Len(t)
            BY <2>2, <3>1
        <3>6. w = [k \in 1..(j - i) |-> t[i + k - 1]]
            BY <2>3, <3>5
        <3> HIDE DEF w
        <3> QED
            BY <3>3, <3>4, <3>6
    <2>8. ASSUME more
          PROVE  Printing'
        <3>1. /\ j \in 1..Len(t) /\ mem[j] = t[j] /\ j' = j + 1 /\ j' - 1 = j
              /\ j' \in 1..(Len(t) + 1)
            BY <1>1, <2>2, <2>5, <2>8
        <3>2. /\ Cardinality(UpTo(S, j - 1)) \in Nat
              /\ Cardinality(UpTo(S, j)) = Cardinality(UpTo(S, j - 1)) + (IF j \in S THEN 1 ELSE 0)
            BY <2>2, <3>1, StartsUpTo
        <3>3. j \in S <=> t[j] # Blank /\ (j = 1 \/ t[j - 1] = Blank)
            BY <2>2, <3>1 DEF Starts
        <3>4. CASE i = 0 /\ t[j] = Blank
            <4>1. printed' = printed /\ i' = 0 /\ j \notin S
                BY <1>1, <3>1, <3>3, <3>4
            <4> QED
                BY <1>1, <2>1, <3>1, <3>2, <3>4, <4>1 DEF Printing
        <3>5. CASE i = 0 /\ t[j] # Blank
            <4>1. printed' = printed /\ i' = j /\ j \in S
                BY <1>1, <2>1, <2>8, <3>1, <3>3, <3>5
            <4>2. \A k \in i'..(j' - 1) : k = j
                BY <3>1, <4>1
            <4>3. i' \in S /\ i' < j' /\ i' # 0 /\ \A k \in i'..(j' - 1) : t[k] # Blank
                BY <3>1, <3>5, <4>1, <4>2
            <4>4. Len(printed') + 1 = Cardinality(UpTo(S, j' - 1))
                BY <2>1, <3>1, <3>2, <3>5, <4>1
            <4> QED
                BY <1>1, <2>1, <3>1, <4>1, <4>3, <4>4 DEF Printing
        <3>6. CASE i # 0 /\ t[j] # Blank
            <4>1. printed' = printed /\ i' = i
                BY <1>1, <2>8, <3>1, <3>6
            <4>2. j \notin S
                <5>1. i \in 1..Len(t) /\ i < j /\ j - 1 \in i..(j - 1)
                    BY <2>1, <2>2, <3>1, <3>6 DEF Starts
                <5>2. t[j - 1] # Blank /\ j # 1
                    BY <2>1, <3>1, <3>6, <5>1
                <5> QED
                    BY <3>3, <5>2
            <4>3. \A k \in i'..(j' - 1) : k = j \/ k \in i..(j - 1)
                BY <1>2, <3>1, <4>1
            <4>4. i' \in S /\ i' < j' /\ i' # 0 /\ \A k \in i'..(j' - 1) : t[k] # Blank
                BY <1>2, <2>1, <3>1, <3>6, <4>1, <4>3
            <4>5. Len(printed') + 1 = Cardinality(UpTo(S, j' - 1))
                BY <2>1, <3>1, <3>2, <3>6, <4>1, <4>2
            <4> QED
                BY <1>1, <2>1, <3>1, <4>1, <4>4, <4>5 DEF Printing
        <3>7. CASE i # 0 /\ t[j] = Blank
            <4>1. ends /\ printed' = Append(printed, w) /\ i' = 0 /\ j \notin S
                BY <1>1, <3>1, <3>3, <3>7
            <4>2. w \in Seq(STRING \cup {Blank})
                  /\ w = Tokens(t, Blank)[Cardinality(UpTo(S, j - 1))]
                BY <2>7, <4>1
            <4>3. Len(printed) + 1 = Cardinality(UpTo(S, j - 1))
                BY <2>1, <3>7
            <4> HIDE DEF w, ends, more
            <4>4. /\ printed' \in Seq(Seq(STRING \cup {Blank})) /\ Len(printed') = Len(printed) + 1
                  /\ printed'[Len(printed) + 1] = w
                  /\ \A n \in 1..Len(printed) : printed'[n] = printed[n]
                BY <2>1, <4>1, <4>2
            <4>5. \A n \in 1..Len(printed') : n \in 1..Len(printed) \/ n = Len(printed) + 1
                BY <2>1, <4>4
            <4>6. \A n \in 1..Len(printed') : printed'[n] = Tokens(t, Blank)[n]
                BY <2>1, <4>2, <4>3, <4>4, <4>5
            <4>7. Len(printed') = Cardinality(UpTo(S, j' - 1))
                BY <3>1, <3>2, <4>1, <4>3, <4>4
            <4>8. t[j' - 1] = Blank
                BY <3>1, <3>7
            <4> QED
                BY <1>1, <3>1, <3>2, <4>1, <4>4, <4>6, <4>7, <4>8 DEF Printing
        <3> QED
            BY <3>4, <3>5, <3>6, <3>7
    <2>9. ASSUME ~more
          PROVE  printed' = Tokens(t, Blank)
        <3>1. j = Len(t) + 1
            BY <2>1, <2>2, <2>4, <2>9
        <3>2. Cardinality(UpTo(S, j - 1)) = Cardinality(S)
            <4>1. j - 1 = Len(t)
                BY <2>2, <3>1
            <4> QED
                BY <2>2, <4>1, StartsEnds
        <3>3. /\ printed' \in Seq(Seq(STRING \cup {Blank}))
              /\ Len(printed') = Cardinality(S)
              /\ \A n \in 1..Len(printed') : printed'[n] = Tokens(t, Blank)[n]
            <4>1. CASE i = 0
                <5>1. printed' = printed
                    BY <1>1, <4>1
                <5> QED
                    BY <2>1, <3>2, <4>1, <5>1
            <4>2. CASE i # 0
                <5>1. ends /\ printed' = Append(printed, w)
                    BY <1>1, <2>9, <4>2
                <5>2. w \in Seq(STRING \cup {Blank})
                      /\ w = Tokens(t, Blank)[Cardinality(UpTo(S, j - 1))]
                    BY <2>7, <5>1
                <5>3. Len(printed) + 1 = Cardinality(UpTo(S, j - 1))
                    BY <2>1, <4>2
                <5> HIDE DEF w, ends, more
                <5>4. /\ printed' \in Seq(Seq(STRING \cup {Blank})) /\ Len(printed') = Len(printed) + 1
                      /\ printed'[Len(printed) + 1] = w
                      /\ \A n \in 1..Len(printed) : printed'[n] = printed[n]
                    BY <2>1, <5>1, <5>2
                <5>5. \A n \in 1..Len(printed') : n \in 1..Len(printed) \/ n = Len(printed) + 1
                    BY <2>1, <5>4
                <5> QED
                    BY <2>1, <3>2, <5>2, <5>3, <5>4, <5>5
            <4> QED
                BY <4>1, <4>2
        <3> DEFINE a == printed'
                   c == Tokens(t, Blank)
        <3>4. a \in Seq(Seq(STRING \cup {Blank})) /\ c \in Seq(Seq(STRING \cup {Blank}))
              /\ Len(a) = Len(c) /\ \A n \in 1..Len(a) : a[n] = c[n]
            BY <2>6, <3>3
        <3> HIDE DEF a, c
        <3>5. a = c
            BY <3>4, SeqEqual
        <3> QED
            BY <3>5 DEF a, c
    <2>10. CASE more
        BY <1>1, <2>8, <2>10 DEF FoundInv, WordsFound, Ended
    <2>11. CASE ~more
        <3>1. fpc' = "ended" /\ call'.opt = "w"
            BY <1>1, <1>2, <2>11
        <3> QED
            BY <1>1, <2>9, <2>11, <3>1 DEF FoundInv, WordsFound, Ended
    <2> QED
        BY <2>10, <2>11
<1>4. CASE ~NoDots
    <2>1. ~NoDots' /\ call'.opt = "w" /\ fpc' \in {"w", "ended"}
        BY <1>1, <1>2, <1>4 DEF NoDots
    <2>2. WordsFound'
        BY <2>1 DEF WordsFound, Ended, NoDots
    <2> QED
        BY <2>1, <2>2 DEF FoundInv
<1> QED
    BY <1>3, <1>4

LEMMA FoundStarts == StringInit => FoundInv
<1> SUFFICES ASSUME StringInit PROVE FoundInv
    OBVIOUS
<1>1. fpc = "idle" /\ printed = <<>>
    BY DEF StringInit
<1> QED
    BY <1>1 DEF FoundInv, WordsFound, Ended

LEMMA FoundKeeps == StringInv /\ SetUpInv /\ FoundInv /\ StringNext => FoundInv'
<1> SUFFICES ASSUME StringInv, SetUpInv, FoundInv, StringNext PROVE FoundInv'
    OBVIOUS
<1>1. CASE Start
    <2>1. /\ printed' = printed /\ fpc = "idle"
          /\ \/ fpc' = "setup"
             \/ fpc' = "ended" /\ (code' # 0 \/ call'.opt = "h")
        BY <1>1 DEF Start, Exit
    <2> QED
        BY <2>1 DEF FoundInv, WordsFound, Ended
<1>2. CASE SetupChar
    <2>1. /\ printed' = printed /\ fpc = "setup"
          /\ fpc' = "setup" \/ (fpc' = "ended" /\ code' # 0)
        BY <1>2 DEF SetupChar, Exit
    <2> QED
        BY <2>1 DEF FoundInv, WordsFound, Ended
<1>3. CASE SetupEnd
    <2>1. /\ fpc = "setup" /\ printed' = <<>> /\ count' = 0 /\ flag' = FALSE
          /\ UNCHANGED call /\ Text' = Text /\ Fit(Text)' = Fit(Text)
          /\ i' = (IF call.opt = "w" THEN 0 ELSE 1) /\ j' = (IF call.opt = "r" THEN BUFFER_SZ ELSE 1)
          /\ \/ fpc' = "ended" /\ code' # 0
             \/ fpc' = call.opt
        BY <1>3, SameText DEF SetupEnd, Exit, FoundInv
    <2>2. /\ Text \in Seq(STRING \cup {Blank}) /\ Len(Text) \in Nat /\ DOMAIN Text = 1..Len(Text)
        BY <2>1, TextIs
    <2>3. CASE fpc' = "ended" /\ code' # 0
        BY <2>3 DEF FoundInv, WordsFound, Ended
    <2>4. CASE fpc' = call.opt /\ call.opt = "c"
        <3>1. j' = 1 /\ j' - 1 = 0
            BY <2>1, <2>4
        <3>2. DOMAIN Fit(Text) = 1..Len(Fit(Text)) /\ Len(Fit(Text)) \in Nat
            BY Sizes DEF Fit
        <3>3. UpTo(Starts(Fit(Text), Blank), 0) = {}
            BY <3>2, StartsEnds
        <3>4. Cardinality(UpTo(Starts(Fit(Text), Blank), 0)) = 0
            BY <3>3, FS_EmptySet
        <3>5. Counting'
            BY <2>1, <3>1, <3>4 DEF Counting
        <3> QED
            BY <2>4, <3>5 DEF FoundInv, WordsFound, Ended
    <2>5. CASE fpc' = call.opt /\ call.opt = "w"
        <3>1. j' = 1 /\ j' - 1 = 0 /\ i' = 0
            BY <2>1, <2>5
        <3>2. UpTo(Starts(Text, Blank), 0) = {}
            BY <2>2, StartsEnds
        <3>3. Cardinality(UpTo(Starts(Text, Blank), 0)) = 0
            BY <3>2, FS_EmptySet
        <3>4. /\ printed' \in Seq(Seq(STRING \cup {Blank})) /\ Len(printed') = 0
              /\ j' \in 1..(Len(Text) + 1)
            BY <2>1, <2>2, <3>1
        <3>5. Printing'
            BY <2>1, <3>1, <3>3, <3>4 DEF Printing
        <3> QED
            BY <2>5, <3>5 DEF FoundInv, WordsFound, Ended
    <2>6. CASE fpc' = call.opt /\ call.opt \notin {"c", "w"}
        <3>1. fpc' # "idle" /\ fpc' # "setup" /\ fpc' # "ended"
            <4>1. call.opt \in {"h", "c", "r", "w", "x", "other"}
                BY <2>1, CallIs
            <4> QED
                BY <2>6, <4>1
        <3> QED
            BY <2>6, <3>1 DEF FoundInv, WordsFound, Ended
    <2> QED
        BY <2>1, <2>3, <2>4, <2>5, <2>6
<1>4. CASE CountChar
    BY <1>4, CountGoesOn
<1>5. CASE PrintChar
    BY <1>5, PrintGoesOn
<1>6. CASE ReverseChar \/ FindWord \/ ShrinkChar \/ GrowChar \/ ShowReplaced
    <2>1. fpc \in {"r", "x", "shrink", "grow", "show"} /\ UNCHANGED call
          /\ fpc' \in {"r", "shrink", "grow", "show", "ended"}
        BY <1>6 DEF ReverseChar, FindWord, ShrinkChar, GrowChar, ShowReplaced, Show, Exit
    <2>2. call'.opt \in {"r", "x"}
        BY <2>1 DEF StringInv, StringCalled
    <2> QED
        BY <2>1, <2>2 DEF FoundInv, WordsFound, Ended
<1> QED
    BY <1>1, <1>2, <1>3, <1>4, <1>5, <1>6 DEF StringNext, StringStep

\* The loops of -c and -w find the words of any text: the one counts the dots
\* behind an empty text for a word, the other stops at them.
THEOREM WordsAreFound == StringSpec => []WordsFound
<1>1. StringInv /\ SetUpInv /\ FoundInv /\ [StringNext]_stringfun => SetUpInv' /\ FoundInv'
    <2>1. FoundInv /\ UNCHANGED stringfun => FoundInv'
        BY SameText DEF stringfun, FoundInv, Counting, Printing, NoDots, WordsFound, Ended
    <2> QED
        BY <2>1, SetUpKeeps, SetUpStutters, FoundKeeps
<1>2. FoundInv => WordsFound
    BY DEF FoundInv
<1> QED
    BY <1>1, <1>2, StringStarts, SetUpStarts, FoundStarts, StringKeeps, PTL DEF StringSpec

----------------------------------------------------------------------------
(* What -r leaves                                                          *)

\* The length of a text without the dots at its end.
Solid(t) ==
    CHOOSE k \in 0..Len(t) :
        /\ \A l \in (k + 1)..Len(t) : t[l] = Dot
        /\ k > 0 => t[k] # Dot

\* reverse_string begins at a dot if there is nothing else.
LastSwapped(t) == IF Solid(t) = 0 THEN 1 ELSE Solid(t)

LEMMA SolidIs ==
    ASSUME NEW T, NEW t \in Seq(T)
    PROVE  /\ Solid(t) \in 0..Len(t)
           /\ \A l \in (Solid(t) + 1)..Len(t) : t[l] = Dot
           /\ Solid(t) > 0 => t[Solid(t)] # Dot
<1> DEFINE P(k) == (\A l \in (k + 1)..Len(t) : t[l] = Dot) /\ (k > 0 => t[k] # Dot)
           U == {k \in 0..Len(t) : \A l \in (k + 1)..Len(t) : t[l] = Dot}
<1>1. U \in SUBSET Nat /\ Len(t) \in U /\ Len(t) \in Nat
    OBVIOUS
<1>2. PICK m \in U : \A k \in U : m <= k
    BY <1>1, LeastNat
<1>3. m \in 0..Len(t) /\ P(m)
    <2>1. m > 0 => t[m] # Dot
        <3> SUFFICES ASSUME m > 0, t[m] = Dot PROVE FALSE
            OBVIOUS
        <3>1. m - 1 \in 0..Len(t) /\ ~(m <= m - 1)
            BY <1>1
        <3>2. \A l \in ((m - 1) + 1)..Len(t) : l = m \/ l \in (m + 1)..Len(t)
            BY <1>1
        <3>3. m - 1 \in U
            BY <3>1, <3>2
        <3> QED
            BY <1>2, <3>1, <3>3
    <2> QED
        BY <2>1
<1>4. Solid(t) = CHOOSE k \in 0..Len(t) : P(k)
    BY DEF Solid
<1> DEFINE f == CHOOSE k \in 0..Len(t) : P(k)
<1> HIDE DEF P
<1>5. f \in 0..Len(t) /\ P(f)
    BY <1>3
<1> QED
    BY <1>4, <1>5 DEF P

\* The buffer when the characters before i and behind j have been swapped.
Swapped(t) ==
    /\ i + j = LastSwapped(t) + 1
    /\ \A k \in 1..BUFFER_SZ :
          mem[k] = IF k < i \/ (j < k /\ k <= LastSwapped(t)) THEN Fit(t)[LastSwapped(t) + 1 - k]
                   ELSE Fit(t)[k]

\* How far the loop of reverse_string has come: it looks for the end of the text
\* first.
Reversing ==
    /\ ~flag => i = 1 /\ j >= LastSwapped(Text) /\ \A k \in 1..BUFFER_SZ : mem[k] = Fit(Text)[k]
    /\ flag => Swapped(Text)

ReverseInv ==
    /\ fpc = "r" => Reversing
    /\ Reversed

LEMMA LastIsIn ==
    ASSUME StringInv, fpc # "idle", Len(Text) <= BUFFER_SZ
    PROVE  /\ LastSwapped(Text) \in 1..BUFFER_SZ /\ Solid(Text) \in 0..Len(Text) /\ Len(Text) \in Nat
           /\ \A k \in 1..BUFFER_SZ : k > Solid(Text) => Fit(Text)[k] = Dot
           /\ \A k \in 1..BUFFER_SZ : k = Solid(Text) => Fit(Text)[k] # Dot
           /\ \A k \in 1..Solid(Text) : Fit(Text)[k] = Text[k]
<1>1. Text \in Seq(STRING \cup {Blank}) /\ Len(Text) \in Nat
    BY TextIs
<1>2. /\ Solid(Text) \in 0..Len(Text)
      /\ \A l \in (Solid(Text) + 1)..Len(Text) : Text[l] = Dot
      /\ Solid(Text) > 0 => Text[Solid(Text)] # Dot
    BY <1>1, SolidIs
<1>3. \A k \in 1..BUFFER_SZ : Fit(Text)[k] = IF k <= Len(Text) THEN Text[k] ELSE Dot
    BY DEF Fit
<1>4. LastSwapped(Text) \in 1..BUFFER_SZ
    BY <1>1, <1>2, Sizes DEF LastSwapped
<1>5. ASSUME NEW k \in 1..BUFFER_SZ, k > Solid(Text) PROVE Fit(Text)[k] = Dot
    <2>1. k <= Len(Text) => k \in (Solid(Text) + 1)..Len(Text)
        BY <1>1, <1>2, <1>5, Sizes
    <2> QED
        BY <1>2, <1>3, <2>1
<1>6. ASSUME NEW k \in 1..BUFFER_SZ, k = Solid(Text) PROVE Fit(Text)[k] # Dot
    BY <1>1, <1>2, <1>3, <1>6, Sizes
<1>7. ASSUME NEW k \in 1..Solid(Text) PROVE Fit(Text)[k] = Text[k]
    <2>1. k \in 1..BUFFER_SZ /\ k <= Len(Text)
        BY <1>1, <1>2, Sizes
    <2> QED
        BY <1>3, <2>1
<1> QED
    BY <1>1, <1>2, <1>4, <1>5, <1>6, <1>7

LEMMA ReverseGoesOn ==
    ASSUME StringInv, SetUpInv, ReverseInv, ReverseChar
    PROVE  ReverseInv'
<1> DEFINE t == Text
           r == LastSwapped(t)
           b == Fit(t)
<1>1. fpc = "r" /\ UNCHANGED <<call, src, count, printed>> /\ Text' = t /\ Fit(Text)' = b
    BY SameText DEF ReverseChar
<1>2. /\ i \in Nat /\ i >= 1 /\ i <= j + 1 /\ j <= BUFFER_SZ /\ j \in Nat /\ call.opt = "r"
      /\ BUFFER_SZ \in Nat /\ BUFFER_SZ >= 1 /\ DOMAIN mem = Heap
    BY <1>1, Sizes DEF StringInv, StringLoop, StringPlaces, StringCalled
<1>3. Len(t) <= BUFFER_SZ /\ Reversing
    BY <1>1 DEF SetUpInv, SetUpRight, ReverseInv
<1>4. /\ r \in 1..BUFFER_SZ /\ Solid(t) \in 0..Len(t) /\ Len(t) \in Nat
      /\ \A k \in 1..BUFFER_SZ : k > Solid(t) => b[k] = Dot
      /\ \A k \in 1..BUFFER_SZ : k = Solid(t) => b[k] # Dot
      /\ \A k \in 1..Solid(t) : b[k] = t[k]
      /\ r = IF Solid(t) = 0 THEN 1 ELSE Solid(t)
    BY <1>1, <1>3, LastIsIn DEF LastSwapped
<1>5. Text' = Text /\ LastSwapped(Text)' = r
    BY <1>1 DEF LastSwapped, Solid
<1>6. CASE TrailingDot
    <2>1. fpc' = "r" /\ j' = j - 1 /\ i' = i /\ mem' = mem /\ flag' = flag
        BY <1>1, <1>6 DEF ReverseChar
    <2>2. ~flag /\ mem[j] = Dot /\ j > i /\ i = 1 /\ j >= r
          /\ \A k \in 1..BUFFER_SZ : mem[k] = b[k]
        BY <1>3, <1>6 DEF TrailingDot, Reversing
    <2>3. b[j] = Dot /\ j \in 1..BUFFER_SZ
        BY <1>2, <2>2
    <2>4. j # r
        BY <1>4, <2>2, <2>3
    <2>5. j' >= r
        BY <1>2, <1>4, <2>1, <2>2, <2>4
    <2>6. Reversing'
        BY <1>1, <1>5, <2>1, <2>2, <2>5 DEF Reversing
    <2> QED
        BY <2>1, <2>6 DEF ReverseInv, Reversed, Ended
<1>7. CASE ~TrailingDot
    <2>1. Swapped(t)
        <3>1. CASE flag
            BY <1>3, <3>1 DEF Reversing
        <3>2. CASE ~flag
            <4>1. /\ i = 1 /\ j >= r /\ j \in 1..BUFFER_SZ
                  /\ \A k \in 1..BUFFER_SZ : mem[k] = b[k]
                BY <1>2, <1>3, <1>4, <3>2 DEF Reversing
            <4>2. b[j] # Dot \/ ~(j > i)
                BY <1>7, <3>2, <4>1 DEF TrailingDot
            <4>3. j = r
                BY <1>2, <1>4, <4>1, <4>2
            <4>4. \A k \in 1..BUFFER_SZ : ~(k < i) /\ ~(j < k /\ k <= r)
                BY <1>2, <4>1, <4>3
            <4>5. i + j = r + 1
                BY <1>2, <4>1, <4>3
            <4> HIDE DEF r, b
            <4>6. Swapped(t) <=> /\ i + j = r + 1
                                 /\ \A k \in 1..BUFFER_SZ :
                                       mem[k] = IF k < i \/ (j < k /\ k <= r) THEN b[r + 1 - k] ELSE b[k]
                BY DEF Swapped, r, b
            <4> QED
                BY <4>1, <4>4, <4>5, <4>6
        <3> QED
            BY <3>1, <3>2
    <2>2. i + j = r + 1 /\ \A k \in 1..BUFFER_SZ :
             mem[k] = IF k < i \/ (j < k /\ k <= r) THEN b[r + 1 - k] ELSE b[k]
        BY <2>1 DEF Swapped
    <2>3. CASE i < j
        <3>1. /\ mem' = [mem EXCEPT ![i] = mem[j], ![j] = mem[i]]
              /\ i' = i + 1 /\ j' = j - 1 /\ flag' = TRUE /\ fpc' = "r"
            <4>1. ~(i >= j)
                BY <1>2, <2>3
            <4> QED
                BY <1>1, <1>7, <4>1 DEF ReverseChar
        <3>2. i \in 1..BUFFER_SZ /\ j \in 1..BUFFER_SZ /\ i \in Heap /\ j \in Heap
            BY <1>2, <2>3, Sizes
        <3>3. /\ mem[i] = b[i] /\ mem[j] = b[j]
            <4>1. ~(i < i) /\ ~(j < i) /\ ~(j < j)
                BY <1>2, <2>3
            <4> QED
                BY <2>2, <3>2, <4>1
        <3>4. ASSUME NEW k \in 1..BUFFER_SZ
              PROVE  mem'[k] = IF k < i' \/ (j' < k /\ k <= r) THEN b[r + 1 - k] ELSE b[k]
            <4>1. k \in Heap
                BY Sizes
            <4>2. mem'[k] = IF k = j THEN mem[i] ELSE IF k = i THEN mem[j] ELSE mem[k]
                BY <1>2, <2>3, <3>1, <3>2, <4>1
            <4> HIDE DEF r, b
            <4>3. CASE k = i
                <5>1. k < i' /\ r + 1 - k = j
                    <6>1. i + j = r + 1 /\ r \in Nat /\ i' = i + 1
                        BY <1>4, <2>2, <3>1
                    <6> QED
                        BY <1>2, <4>3, <6>1
                <5> QED
                    BY <1>2, <2>3, <3>3, <4>2, <4>3, <5>1
            <4>4. CASE k = j
                <5>1. j' < k /\ k <= r /\ r + 1 - k = i
                    BY <1>2, <1>4, <2>2, <3>1, <4>4
                <5> QED
                    BY <3>3, <4>2, <4>4, <5>1
            <4>5. CASE k # i /\ k # j
                <5>1. (k < i' <=> k < i) /\ (j' < k <=> j < k)
                    BY <1>2, <3>1, <4>5
                <5>2. mem'[k] = mem[k]
                    BY <4>2, <4>5
                <5> QED
                    BY <2>2, <5>1, <5>2
            <4> QED
                BY <4>3, <4>4, <4>5
        <3>5. i' + j' = r + 1
            BY <1>2, <1>4, <2>2, <3>1
        <3>6. Swapped(Text)'
            BY <1>1, <1>5, <3>4, <3>5 DEF Swapped
        <3>7. Reversing'
            BY <3>1, <3>6 DEF Reversing
        <3> QED
            BY <3>1, <3>7 DEF ReverseInv, Reversed, Ended
    <2>4. CASE ~(i < j)
        <3>1. fpc' = "ended" /\ mem' = mem
            BY <1>1, <1>7, <2>4 DEF ReverseChar, Show
        <3> DEFINE n == Solid(t)
                   u == [k \in 1..n |-> t[n + 1 - k]]
        <3>2. Len(u) = n
            BY <1>4
        <3>3. ASSUME NEW k \in 1..BUFFER_SZ
              PROVE  mem[k] = IF k <= n THEN u[k] ELSE Dot
            <4> HIDE DEF r, b, t
            <4>1. mem[k] = IF k <= r THEN b[r + 1 - k] ELSE b[k]
                <5>1. CASE k < i \/ (j < k /\ k <= r)
                    <6>1. k <= r
                        BY <1>2, <1>4, <2>2, <2>4, <5>1
                    <6> QED
                        BY <2>2, <5>1, <6>1
                <5>2. CASE ~(k < i \/ (j < k /\ k <= r)) /\ k <= r
                    <6>1. r + 1 - k = k
                        <7>1. i <= k /\ k <= j /\ r \in Nat
                            BY <1>2, <1>4, <5>2
                        <7>2. i + j = r + 1 /\ j <= i
                            BY <1>2, <2>2, <2>4
                        <7> QED
                            BY <1>2, <7>1, <7>2
                    <6> QED
                        BY <2>2, <5>2, <6>1
                <5>3. CASE ~(k < i \/ (j < k /\ k <= r)) /\ ~(k <= r)
                    BY <2>2, <5>3
                <5> QED
                    BY <5>1, <5>2, <5>3
            <4>2. CASE n = 0
                <5>1. r = 1 /\ \A l \in 1..BUFFER_SZ : b[l] = Dot
                    BY <1>4, <4>2
                <5>2. k <= r => r + 1 - k \in 1..BUFFER_SZ
                    BY <1>2, <5>1
                <5>3. ~(k <= n)
                    BY <4>2
                <5> QED
                    BY <4>1, <5>1, <5>2, <5>3
            <4>3. CASE n # 0 /\ k <= n
                <5>1. r = n /\ k \in 1..n /\ n + 1 - k \in 1..n
                    BY <1>4, <4>3
                <5>2. u[k] = t[n + 1 - k] /\ b[n + 1 - k] = t[n + 1 - k]
                    BY <1>4, <5>1
                <5> QED
                    BY <4>1, <4>3, <5>1, <5>2
            <4>4. CASE n # 0 /\ ~(k <= n)
                <5>1. r = n /\ k > n
                    BY <1>4, <4>4
                <5> QED
                    BY <1>4, <4>1, <4>4, <5>1
            <4> QED
                BY <4>2, <4>3, <4>4
        <3> HIDE DEF u
        <3>4. Buffer' = Fit(u)
            BY <3>1, <3>2, <3>3 DEF Buffer, Fit
        <3>5. Reversed'
            <4>1. Buffer' = Fit([k \in 1..Solid(t) |-> t[Solid(t) + 1 - k]])
                BY <3>4 DEF u
            <4> QED
                BY <1>1, <4>1 DEF Reversed, Solid, Fit
        <3> QED
            BY <3>1, <3>5 DEF ReverseInv
    <2> QED
        BY <2>3, <2>4
<1> QED
    BY <1>6, <1>7

LEMMA ReverseStarts == StringInit => ReverseInv
<1> SUFFICES ASSUME StringInit PROVE ReverseInv
    OBVIOUS
<1>1. fpc = "idle"
    BY DEF StringInit
<1> QED
    BY <1>1 DEF ReverseInv, Reversed, Ended

LEMMA ReverseKeeps == StringInv /\ SetUpInv /\ ReverseInv /\ StringNext => ReverseInv'
<1> SUFFICES ASSUME StringInv, SetUpInv, ReverseInv, StringNext PROVE ReverseInv'
    OBVIOUS
<1>1. CASE Start
    <2>1. \/ fpc' = "setup"
          \/ fpc' = "ended" /\ (code' # 0 \/ call'.opt = "h")
        BY <1>1 DEF Start, Exit
    <2> QED
        BY <2>1 DEF ReverseInv, Reversed, Ended
<1>2. CASE SetupChar
    <2>1. fpc' = "setup" \/ (fpc' = "ended" /\ code' # 0)
        BY <1>2 DEF SetupChar, Exit
    <2> QED
        BY <2>1 DEF ReverseInv, Reversed, Ended
<1>3. CASE SetupEnd
    <2>1. /\ fpc = "setup" /\ flag' = FALSE
          /\ UNCHANGED call /\ Text' = Text /\ Fit(Text)' = Fit(Text)
          /\ i' = (IF call.opt = "w" THEN 0 ELSE 1) /\ j' = (IF call.opt = "r" THEN BUFFER_SZ ELSE 1)
          /\ \/ fpc' = "ended" /\ code' # 0
             \/ fpc' = call.opt
        BY <1>3, SameText DEF SetupEnd, Exit
    <2>2. CASE fpc' = "ended" /\ code' # 0
        BY <2>2 DEF ReverseInv, Reversed, Ended
    <2>3. CASE fpc' = call.opt /\ call.opt = "r"
        <3>1. Len(Text) <= BUFFER_SZ /\ \A k \in 1..BUFFER_SZ : mem'[k] = Fit(Text)[k]
            BY <1>3, <2>1, TextInBuffer DEF SetUpInv
        <3>2. i' = 1 /\ j' = BUFFER_SZ
            BY <2>1, <2>3
        <3>3. LastSwapped(Text) \in 1..BUFFER_SZ /\ LastSwapped(Text)' = LastSwapped(Text)
            BY <2>1, <3>1, LastIsIn DEF LastSwapped, Solid
        <3>4. j' >= LastSwapped(Text)
            BY <3>2, <3>3, Sizes
        <3>5. Reversing'
            BY <2>1, <3>1, <3>2, <3>3, <3>4 DEF Reversing
        <3> QED
            BY <2>3, <3>5 DEF ReverseInv, Reversed, Ended
    <2>4. CASE fpc' = call.opt /\ call.opt # "r"
        <3>1. fpc' # "setup" /\ fpc' # "ended"
            <4>1. call.opt \in {"h", "c", "r", "w", "x", "other"}
                BY <2>1, CallIs
            <4> QED
                BY <2>4, <4>1
        <3> QED
            BY <2>4, <3>1 DEF ReverseInv, Reversed, Ended
    <2> QED
        BY <2>1, <2>2, <2>3, <2>4
<1>4. CASE ReverseChar
    BY <1>4, ReverseGoesOn
<1>5. CASE CountChar \/ PrintChar \/ FindWord \/ ShrinkChar \/ GrowChar \/ ShowReplaced
    <2>1. fpc \in {"c", "w", "x", "shrink", "grow", "show"} /\ UNCHANGED call
          /\ fpc' \in {"c", "w", "shrink", "grow", "show", "ended"}
        BY <1>5 DEF CountChar, PrintChar, FindWord, ShrinkChar, GrowChar, ShowReplaced, Show, Exit
    <2>2. call'.opt \in {"c", "w", "x"}
        BY <2>1 DEF StringInv, StringCalled
    <2> QED
        BY <2>1, <2>2 DEF ReverseInv, Reversed, Ended
<1> QED
    BY <1>1, <1>2, <1>3, <1>4, <1>5 DEF StringNext, StringStep

\* reverse_string turns any text around within itself, dots in the middle of it
\* included, and leaves the dots behind it where they are.
THEOREM TextReversed == StringSpec => []Reversed
<1>1. StringInv /\ SetUpInv /\ ReverseInv /\ [StringNext]_stringfun => SetUpInv' /\ ReverseInv'
    <2>1. ReverseInv /\ UNCHANGED stringfun => ReverseInv'
        <3> SUFFICES ASSUME ReverseInv, UNCHANGED stringfun PROVE ReverseInv'
            OBVIOUS
        <3>1. UNCHANGED <<fpc, call, mem, i, j, flag, code>> /\ Text' = Text /\ Fit(Text)' = Fit(Text)
            BY SameText DEF stringfun
        <3>2. LastSwapped(Text)' = LastSwapped(Text) /\ Buffer' = Buffer
            BY <3>1 DEF LastSwapped, Solid, Buffer
        <3>3. Reversing => Reversing'
            BY <3>1, <3>2 DEF Reversing, Swapped
        <3>4. Reversed => Reversed'
            <4> DEFINE u == Fit([k \in 1..Solid(Text) |-> Text[Solid(Text) + 1 - k]])
            <4>1. Reversed <=> (Ended("r") => Buffer = u)
                BY DEF Reversed, Solid
            <4>2. Reversed' <=> (Ended("r")' => Buffer' = u)
                BY <3>1 DEF Reversed, Solid, Fit
            <4>3. Ended("r")' <=> Ended("r")
                BY <3>1 DEF Ended
            <4> QED
                BY <3>2, <4>1, <4>2, <4>3
        <3> QED
            BY <3>1, <3>3, <3>4 DEF ReverseInv
    <2> QED
        BY <2>1, SetUpKeeps, SetUpStutters, ReverseKeeps
<1>2. ReverseInv => Reversed
    BY DEF ReverseInv
<1> QED
    BY <1>1, <1>2, StringStarts, SetUpStarts, ReverseStarts, StringKeeps, PTL DEF StringSpec

----------------------------------------------------------------------------
(* What -x leaves                                                          *)

OldLen == Len(call.find)
NewLen == Len(call.replace)
WordPlaces == Places(Fit(Text), BUFFER_SZ, call.find)
WordAt == FirstOf(WordPlaces)

\* The text with the new word in the place of the old one.
Result ==
    SubSeq(Fit(Text), 1, WordAt - 1) \o call.replace \o SubSeq(Fit(Text), WordAt + OldLen, BUFFER_SZ)

\* r in the place of the old characters of t from p on.
Splice(t, r, p, old) == SubSeq(t, 1, p - 1) \o r \o SubSeq(t, p + old, Len(t))

LEMMA Spliced ==
    ASSUME NEW T, NEW t \in Seq(T), NEW r \in Seq(T), NEW p \in Nat, NEW old \in Nat,
           p >= 1, p + old <= Len(t) + 1
    PROVE  /\ Len(Splice(t, r, p, old)) \in Nat
           /\ Len(Splice(t, r, p, old)) = Len(t) - old + Len(r)
           /\ \A k \in 1..Len(Splice(t, r, p, old)) :
                 Splice(t, r, p, old)[k] =
                     IF k < p THEN t[k] ELSE IF k < p + Len(r) THEN r[k - p + 1]
                     ELSE t[k - Len(r) + old]
<1> DEFINE a == SubSeq(t, 1, p - 1)
           c == SubSeq(t, p + old, Len(t))
<1>1. Len(t) \in Nat /\ Len(r) \in Nat
    OBVIOUS
<1>2. a \in Seq(T) /\ Len(a) = p - 1 /\ \A k \in 1..(p - 1) : a[k] = t[k]
    <2>1. p - 1 \in Nat /\ p - 1 <= Len(t)
        BY <1>1
    <2> QED
        BY <1>1, <2>1
<1>3. c \in Seq(T) /\ Len(c) = Len(t) - old - p + 1
      /\ \A k \in 1..Len(c) : c[k] = t[p + old + k - 1]
    <2>1. p + old \in Nat /\ p + old >= 1 /\ p + old <= Len(t) + 1
        OBVIOUS
    <2> DEFINE m == p + old
    <2> HIDE DEF m
    <2>2. m \in Nat /\ m >= 1 /\ m <= Len(t) + 1
        BY <2>1 DEF m
    <2>3. /\ SubSeq(t, m, Len(t)) \in Seq(T) /\ Len(SubSeq(t, m, Len(t))) = Len(t) - m + 1
          /\ \A k \in 1..(Len(t) - m + 1) : SubSeq(t, m, Len(t))[k] = t[m + k - 1]
        BY <1>1, <2>2
    <2>4. Len(t) - m + 1 = Len(t) - old - p + 1
        BY <1>1 DEF m
    <2> QED
        BY <2>3, <2>4 DEF m
<1> HIDE DEF a, c
<1>4. /\ a \o r \in Seq(T) /\ Len(a \o r) = p - 1 + Len(r)
      /\ \A k \in 1..(p - 1 + Len(r)) : (a \o r)[k] = IF k < p THEN t[k] ELSE r[k - p + 1]
    <2>1. /\ a \o r \in Seq(T) /\ Len(a \o r) = Len(a) + Len(r)
          /\ \A k \in 1..(Len(a) + Len(r)) : (a \o r)[k] = IF k <= Len(a) THEN a[k] ELSE r[k - Len(a)]
        BY <1>2, ConcatProperties
    <2>2. ASSUME NEW k \in 1..(p - 1 + Len(r))
          PROVE  (a \o r)[k] = IF k < p THEN t[k] ELSE r[k - p + 1]
        <3>1. (a \o r)[k] = IF k <= p - 1 THEN a[k] ELSE r[k - (p - 1)]
            BY <1>2, <2>1
        <3>2. k - (p - 1) = k - p + 1 /\ (k <= p - 1 <=> k < p) /\ (k < p => k \in 1..(p - 1))
            BY <1>1
        <3> QED
            BY <1>2, <3>1, <3>2
    <2> QED
        BY <1>2, <2>1, <2>2
<1> DEFINE d == a \o r
<1> HIDE DEF d
<1>5. /\ d \o c \in Seq(T) /\ Len(d \o c) = Len(d) + Len(c)
      /\ \A k \in 1..(Len(d) + Len(c)) : (d \o c)[k] = IF k <= Len(d) THEN d[k] ELSE c[k - Len(d)]
    <2>1. d \in Seq(T)
        BY <1>4 DEF d
    <2> QED
        BY <1>3, <2>1, ConcatProperties
<1>6. Len(d) = p - 1 + Len(r) /\ \A k \in 1..Len(d) : d[k] = IF k < p THEN t[k] ELSE r[k - p + 1]
    BY <1>4 DEF d
<1>7. Len(d \o c) = Len(t) - old + Len(r) /\ Len(d \o c) \in Nat
    BY <1>1, <1>3, <1>5, <1>6
<1>8. ASSUME NEW k \in 1..Len(d \o c)
      PROVE  (d \o c)[k] = IF k < p THEN t[k] ELSE IF k < p + Len(r) THEN r[k - p + 1]
                           ELSE t[k - Len(r) + old]
    <2>1. CASE k <= Len(d)
        <3>1. k \in 1..Len(d) /\ k < p + Len(r)
            BY <1>1, <1>6, <1>7, <2>1
        <3>2. (d \o c)[k] = d[k]
            BY <1>5, <2>1
        <3> QED
            BY <1>6, <3>1, <3>2
    <2>2. CASE ~(k <= Len(d))
        <3>1. ~(k < p) /\ ~(k < p + Len(r)) /\ k - Len(d) \in 1..Len(c)
              /\ p + old + (k - Len(d)) - 1 = k - Len(r) + old
            BY <1>1, <1>3, <1>5, <1>6, <1>7, <2>2
        <3>2. (d \o c)[k] = c[k - Len(d)]
            BY <1>5, <2>2
        <3> QED
            BY <1>3, <3>1, <3>2
    <2> QED
        BY <2>1, <2>2
<1> QED
    BY <1>7, <1>8 DEF a, c, d, Splice

\* No character of the buffer is what malloc keeps or a NUL.
LEMMA TextChars ==
    ASSUME StringInv, fpc # "idle"
    PROVE  \A k \in 1..BUFFER_SZ : Fit(Text)[k] \notin {NUL, "malloc"}
<1>1. /\ Len(Text) \in Nat
      /\ \A q \in OfText(call.str) : Text[Place(OfText(call.str), q)] = Plain(call.str)[q]
      /\ \A k \in 1..Len(Text) : \E q \in OfText(call.str) : Place(OfText(call.str), q) = k
    BY TextIs
<1>2. \A q \in DOMAIN call.str : call.str[q] \notin {NUL, "malloc"}
    <2>1. call \in Calls
        BY DEF StringInv, StringCalled
    <2> QED
        BY <2>1, StringAssumption
<1>3. \A q \in OfText(call.str) : Plain(call.str)[q] \notin {NUL, "malloc"}
    BY <1>2 DEF OfText, Plain, Blank, NUL
<1>4. \A k \in 1..Len(Text) : Text[k] \notin {NUL, "malloc"}
    BY <1>1, <1>3
<1>5. \A k \in 1..BUFFER_SZ : k <= Len(Text) => k \in 1..Len(Text)
    BY <1>1
<1> QED
    BY <1>4, <1>5 DEF Fit, Dot, NUL

\* Where the old word is, and what the buffer should be then.
LEMMA ResultIs ==
    ASSUME StringInv, fpc # "idle", WordPlaces # {}
    PROVE  /\ OldLen \in Nat /\ NewLen \in Nat /\ NewLen <= Spare + Reach
           /\ WordAt \in Nat /\ WordAt >= 1 /\ WordAt + OldLen <= BUFFER_SZ + 1
           /\ \A k \in 1..NewLen : call.replace[k] \notin {NUL, "malloc"}
           /\ \A k \in 1..BUFFER_SZ :
                 Fit(Result)[k] = IF k < WordAt THEN Fit(Text)[k]
                                  ELSE IF k < WordAt + NewLen THEN call.replace[k - WordAt + 1]
                                  ELSE IF k - NewLen + OldLen <= BUFFER_SZ THEN Fit(Text)[k - NewLen + OldLen]
                                  ELSE Dot
<1>1. OldLen \in Nat /\ NewLen \in Nat /\ NewLen <= Spare + Reach
    BY CallIs DEF OldLen, NewLen
<1>2. WordAt \in Nat /\ WordAt >= 1 /\ WordAt + OldLen <= BUFFER_SZ + 1
    BY <1>1, Sizes, PlaceFound DEF WordAt, WordPlaces, OldLen
<1>3. call.replace \in Seq(STRING) /\ \A k \in DOMAIN call.replace : call.replace[k] \notin {NUL, "malloc"}
    <2>1. call \in Calls
        BY DEF StringInv, StringCalled
    <2> QED
        BY <2>1, StringAssumption
<1>4. Fit(Text) \in Seq(STRING \cup {Blank, Dot}) /\ Len(Fit(Text)) = BUFFER_SZ
    <2>1. Text \in Seq(STRING \cup {Blank}) /\ Len(Text) \in Nat /\ DOMAIN Text = 1..Len(Text)
        BY TextIs
    <2>2. \A k \in 1..BUFFER_SZ : k <= Len(Text) => k \in 1..Len(Text)
        BY <2>1
    <2>3. \A k \in 1..Len(Text) : Text[k] \in STRING \cup {Blank}
        BY <2>1
    <2>4. \A k \in 1..BUFFER_SZ : (IF k <= Len(Text) THEN Text[k] ELSE Dot) \in STRING \cup {Blank, Dot}
        BY <2>2, <2>3
    <2> DEFINE g(k) == IF k <= Len(Text) THEN Text[k] ELSE Dot
    <2>5. Fit(Text) = [k \in 1..BUFFER_SZ |-> g(k)] /\ \A k \in 1..BUFFER_SZ : g(k) \in STRING \cup {Blank, Dot}
        BY <2>4 DEF Fit
    <2> HIDE DEF g
    <2> QED
        BY <2>5, Sizes
<1> DEFINE t == Fit(Text)
           r == call.replace
           u == Splice(t, r, WordAt, OldLen)
<1>5. t \in Seq(STRING \cup {Blank, Dot}) /\ r \in Seq(STRING \cup {Blank, Dot}) /\ Len(t) = BUFFER_SZ
      /\ Len(r) = NewLen
    <2>1. STRING \subseteq STRING \cup {Blank, Dot}
        OBVIOUS
    <2> QED
        BY <1>3, <1>4, <2>1, WiderText DEF NewLen
<1>6. Result = u
    BY <1>4 DEF Result, Splice
<1> HIDE DEF t, r
<1>7. /\ Len(u) \in Nat /\ Len(u) = BUFFER_SZ - OldLen + NewLen
      /\ \A k \in 1..Len(u) :
            u[k] = IF k < WordAt THEN t[k] ELSE IF k < WordAt + NewLen THEN r[k - WordAt + 1]
                   ELSE t[k - NewLen + OldLen]
    <2> DEFINE T == STRING \cup {Blank, Dot}
    <2>1. t \in Seq(T) /\ r \in Seq(T) /\ WordAt + OldLen <= Len(t) + 1
        BY <1>2, <1>5
    <2> HIDE DEF T, u
    <2>2. /\ Len(u) \in Nat /\ Len(u) = Len(t) - OldLen + Len(r)
          /\ \A k \in 1..Len(u) :
                u[k] = IF k < WordAt THEN t[k] ELSE IF k < WordAt + Len(r) THEN r[k - WordAt + 1]
                       ELSE t[k - Len(r) + OldLen]
        BY <1>1, <1>2, <2>1, Spliced DEF u
    <2> QED
        BY <1>5, <2>2
<1> HIDE DEF u
<1>8. \A k \in 1..BUFFER_SZ : Fit(u)[k] = IF k <= Len(u) THEN u[k] ELSE Dot
    BY DEF Fit
<1>9. ASSUME NEW k \in 1..BUFFER_SZ
      PROVE  Fit(u)[k] = IF k < WordAt THEN t[k]
                         ELSE IF k < WordAt + NewLen THEN r[k - WordAt + 1]
                         ELSE IF k - NewLen + OldLen <= BUFFER_SZ THEN t[k - NewLen + OldLen]
                         ELSE Dot
    <2>1. (k <= Len(u)) <=> (k - NewLen + OldLen <= BUFFER_SZ)
        BY <1>1, <1>7, Sizes
    <2>2. k < WordAt \/ k < WordAt + NewLen => k <= Len(u)
        BY <1>1, <1>2, <1>7, Sizes
    <2>3. k <= Len(u) => k \in 1..Len(u)
        BY <1>7
    <2>4. CASE k <= Len(u)
        BY <1>7, <1>8, <2>1, <2>3, <2>4
    <2>5. CASE ~(k <= Len(u))
        BY <1>8, <2>1, <2>2, <2>5
    <2> QED
        BY <2>4, <2>5
<1>10. \A k \in 1..NewLen : r[k] \notin {NUL, "malloc"}
    BY <1>3, <1>5 DEF r
<1> QED
    BY <1>1, <1>2, <1>6, <1>9, <1>10 DEF t, r

\* The loop that closes the gap has moved what stands before i.
Closing ==
    /\ i = j + (OldLen - NewLen) /\ j >= WordAt + NewLen
    /\ \A k \in 1..BUFFER_SZ : /\ k < j => mem[k] = Fit(Result)[k]
                               /\ k >= i => mem[k] = Fit(Text)[k]

\* The loop that makes room has moved what stands behind i, the last character
\* as far behind the buffer as the new word is longer.
Opening ==
    /\ count = WordAt /\ i >= WordAt + OldLen - 1
    /\ \A k \in 1..BUFFER_SZ : /\ k <= i => mem[k] = Fit(Text)[k]
                               /\ k > j => mem[k] = Fit(Text)[k - (NewLen - OldLen)]
    /\ \A k \in Heap : k > BUFFER_SZ + (NewLen - OldLen) => mem[k] = Kept0[k]
    /\ i < BUFFER_SZ => mem[BUFFER_SZ + (NewLen - OldLen)] # "malloc"

MallocKept == \A k \in Heap : k > BUFFER_SZ + Spare => mem[k] = "malloc"

\* The new word is in the buffer.  What malloc keeps is still there if the word
\* did not grow by more than the spare bytes.
WordPut ==
    /\ NoDots => Buffer = Fit(Result)
    /\ MallocKept <=> NewLen <= OldLen + Spare

ReplaceInv ==
    /\ fpc \in {"shrink", "grow", "show"} => WordPlaces # {}
    /\ fpc = "shrink" => Untouched /\ NewLen <= OldLen /\ (NoDots => Closing)
    /\ fpc = "grow" => Opening
    /\ fpc = "show" => WordPut
    /\ Replaced

\* The terms of the invariant speak of the call only.
LEMMA SameCase ==
    ASSUME UNCHANGED call
    PROVE  /\ Text' = Text /\ Fit(Text)' = Fit(Text) /\ OldLen' = OldLen /\ NewLen' = NewLen
           /\ WordPlaces' = WordPlaces /\ WordAt' = WordAt
           /\ Result' = Result /\ Fit(Result)' = Fit(Result) /\ NoDots' = NoDots
<1>1. Text' = Text /\ Fit(Text)' = Fit(Text)
    BY SameText
<1>2. OldLen' = OldLen /\ NewLen' = NewLen
    BY DEF OldLen, NewLen
<1>3. WordPlaces' = WordPlaces
    BY <1>1 DEF WordPlaces, Places, Fit
<1>4. WordAt' = WordAt
    BY <1>3 DEF WordAt, FirstOf
<1>5. Result' = Result
    BY <1>1, <1>2, <1>4 DEF Result, Fit
<1>6. Fit(Result)' = Fit(Result)
    BY <1>5 DEF Fit
<1>7. NoDots' = NoDots
    BY <1>1 DEF NoDots
<1> QED
    BY <1>1, <1>2, <1>3, <1>4, <1>5, <1>6, <1>7

\* Replaced, with the names of this proof.
LEMMA ReplacedIs ==
    Replaced <=> /\ Ended("x") /\ NoDots => Buffer = Fit(Result)
                 /\ fpc = "ended" /\ code = SIGABRT => call.opt = "x" /\ NewLen > OldLen + Spare
                 /\ Ended("x") => NewLen <= OldLen + Spare
    BY DEF Replaced, NoDots, Result, WordAt, WordPlaces, OldLen, NewLen

LEMMA ReplacedNext ==
    Replaced' <=> /\ Ended("x")' /\ NoDots' => Buffer' = Fit(Result)'
                  /\ fpc' = "ended" /\ code' = SIGABRT => call'.opt = "x" /\ NewLen' > OldLen' + Spare
                  /\ Ended("x")' => NewLen' <= OldLen' + Spare
    BY DEF Replaced, NoDots, Result, WordAt, WordPlaces, OldLen, NewLen, Fit

\* A step after which the program still runs, or that ends it without printing.
LEMMA NotReplaced ==
    ASSUME fpc' \notin {"shrink", "grow", "show"},
           fpc' = "ended" => code' # SIGABRT /\ (code' # 0 \/ call'.opt # "x")
    PROVE  ReplaceInv'
<1>1. Replaced'
    BY ReplacedNext DEF Ended
<1> QED
    BY <1>1 DEF ReplaceInv

LEMMA MallocUntouched == Untouched => MallocKept
<1> SUFFICES ASSUME Untouched, NEW k \in Heap, k > BUFFER_SZ + Spare PROVE mem[k] = "malloc"
    BY DEF MallocKept
<1>1. k > BUFFER_SZ /\ ~(k <= BUFFER_SZ + Spare)
    BY Sizes
<1> QED
    BY <1>1 DEF Untouched, Kept0

\* The search for the word.
LEMMA FindWordDone ==
    ASSUME StringInv, SetUpInv, ReplaceInv, FindWord
    PROVE  ReplaceInv'
<1> DEFINE t == Fit(Text)
<1>1. fpc = "x" /\ UNCHANGED <<call, src, flag, printed>>
    BY DEF FindWord
<1>2. /\ NoNul /\ Untouched /\ call.opt = "x" /\ DOMAIN mem = Heap
    BY <1>1 DEF StringInv, StringLoop, StringPlaces, StringCalled
<1>3. StrLen = BUFFER_SZ
    BY <1>2, WholeBuffer
<1>4. Len(Text) <= BUFFER_SZ /\ \A k \in 1..BUFFER_SZ : mem[k] = t[k]
    BY <1>1, BufferIs DEF SetUpInv, SetUpRight
<1>5. Places(mem, StrLen, call.find) = WordPlaces
    <2> DEFINE f == call.find
    <2>1. Len(f) \in Nat /\ DOMAIN f = 1..Len(f) /\ BUFFER_SZ \in Nat
        <3>1. call \in Calls
            BY <1>1 DEF StringInv, StringCalled
        <3>2. f \in Seq(STRING)
            BY <3>1, StringAssumption
        <3> QED
            BY <3>2, Sizes
    <2> HIDE DEF f, t
    <2>2. \A p \in 1..(BUFFER_SZ - Len(f) + 1) : \A k \in DOMAIN f : p + k - 1 \in 1..BUFFER_SZ
        BY <2>1
    <2>3. \A p \in 1..(BUFFER_SZ - Len(f) + 1) : \A k \in DOMAIN f : mem[p + k - 1] = t[p + k - 1]
        BY <1>4, <2>2
    <2>4. Places(mem, BUFFER_SZ, f) = Places(t, BUFFER_SZ, f)
        BY <2>3 DEF Places
    <2> QED
        BY <1>3, <2>4 DEF WordPlaces, f, t
<1> DEFINE shift == NewLen - OldLen
<1>6. \/ WordPlaces = {} /\ fpc' = "ended" /\ code' = 1
      \/ /\ WordPlaces # {} /\ NewLen <= OldLen /\ mem' = Put(mem, WordAt, call.replace)
         /\ count' = WordAt /\ i' = WordAt + OldLen /\ j' = WordAt + NewLen
         /\ fpc' = "shrink"
      \/ /\ WordPlaces # {} /\ NewLen > OldLen /\ count' = WordAt
         /\ i' = (IF BUFFER_SZ + shift >= BUFFER_SZ THEN BUFFER_SZ ELSE BUFFER_SZ + 1)
         /\ j' = i' + shift
         /\ fpc' = "grow" /\ UNCHANGED mem
    BY <1>3, <1>5 DEF FindWord, Exit, WordAt, OldLen, NewLen
<1> HIDE DEF t
<1>7. CASE WordPlaces = {} /\ fpc' = "ended" /\ code' = 1
    BY <1>7, NotReplaced DEF SIGABRT
<1>8. CASE /\ WordPlaces # {} /\ NewLen <= OldLen /\ mem' = Put(mem, WordAt, call.replace)
           /\ count' = WordAt /\ i' = WordAt + OldLen /\ j' = WordAt + NewLen
           /\ fpc' = "shrink"
    <2>1. /\ OldLen \in Nat /\ NewLen \in Nat /\ WordAt \in Nat /\ WordAt >= 1
          /\ WordAt + OldLen <= BUFFER_SZ + 1
          /\ \A k \in 1..BUFFER_SZ :
                Fit(Result)[k] = IF k < WordAt THEN t[k]
                                 ELSE IF k < WordAt + NewLen THEN call.replace[k - WordAt + 1]
                                 ELSE IF k - NewLen + OldLen <= BUFFER_SZ THEN t[k - NewLen + OldLen]
                                 ELSE Dot
        BY <1>1, <1>8, ResultIs DEF t
    <2>2. \A k \in Heap : mem'[k] = IF k \in WordAt..(WordAt + NewLen - 1) THEN call.replace[k - WordAt + 1]
                                    ELSE mem[k]
        BY <1>2, <1>8 DEF Put, NewLen
    <2>3. Untouched'
        <3>1. \A k \in Heap : k > BUFFER_SZ => k \notin WordAt..(WordAt + NewLen - 1)
            BY <1>8, <2>1, Sizes
        <3> QED
            BY <1>2, <2>2, <3>1 DEF Untouched
    <2>4. ASSUME NEW k \in 1..BUFFER_SZ
          PROVE  /\ k < j' => mem'[k] = Fit(Result)[k]
                 /\ k >= i' => mem'[k] = t[k]
        <3>1. k \in Heap
            BY Sizes
        <3>2. CASE k < WordAt
            <4>1. k \notin WordAt..(WordAt + NewLen - 1) /\ ~(k >= i')
                BY <1>8, <2>1, <3>2
            <4> QED
                BY <1>4, <2>1, <2>2, <3>1, <3>2, <4>1
        <3>3. CASE ~(k < WordAt) /\ k < WordAt + NewLen
            <4>1. k \in WordAt..(WordAt + NewLen - 1) /\ ~(k >= i')
                BY <1>8, <2>1, <3>3
            <4> QED
                BY <2>1, <2>2, <3>1, <3>3, <4>1
        <3>4. CASE ~(k < WordAt + NewLen)
            <4>1. k \notin WordAt..(WordAt + NewLen - 1) /\ ~(k < j')
                BY <1>8, <2>1, <3>4
            <4> QED
                BY <1>4, <2>2, <3>1, <4>1
        <3> QED
            BY <3>2, <3>3, <3>4
    <2>5. i' = j' + (OldLen - NewLen) /\ j' >= WordAt + NewLen
        BY <1>8, <2>1
    <2>6. Closing'
        BY <1>1, <2>4, <2>5, SameCase DEF Closing, t
    <2>7. Replaced'
        BY <1>8, ReplacedNext DEF Ended
    <2> QED
        BY <1>1, <1>8, <2>3, <2>6, <2>7, SameCase DEF ReplaceInv
<1>9. CASE /\ WordPlaces # {} /\ NewLen > OldLen /\ count' = WordAt
           /\ i' = (IF BUFFER_SZ + shift >= BUFFER_SZ THEN BUFFER_SZ ELSE BUFFER_SZ + 1)
           /\ j' = i' + shift
           /\ fpc' = "grow" /\ UNCHANGED mem
    <2>1. /\ OldLen \in Nat /\ NewLen \in Nat /\ WordAt \in Nat /\ WordAt >= 1
          /\ WordAt + OldLen <= BUFFER_SZ + 1
        BY <1>1, <1>9, ResultIs
    <2>2. shift \in Nat /\ shift >= 1
        BY <1>9, <2>1
    <2> HIDE DEF shift
    <2>3. i' = BUFFER_SZ /\ j' = BUFFER_SZ + shift
        BY <1>9, <2>2, Sizes
    <2>4. i' >= WordAt + OldLen - 1 /\ ~(i' < BUFFER_SZ)
        BY <2>1, <2>3, Sizes
    <2>5. \A k \in 1..BUFFER_SZ : ~(k > j') /\ mem'[k] = t[k]
        BY <1>4, <1>9, <2>2, <2>3, Sizes
    <2>6. \A k \in Heap : k > BUFFER_SZ + shift => mem'[k] = Kept0[k]
        <3>1. \A k \in Heap : k > BUFFER_SZ + shift => k > BUFFER_SZ
            BY <2>2, Sizes
        <3> QED
            BY <1>2, <1>9, <3>1 DEF Untouched
    <2>7. Opening'
        BY <1>1, <1>9, <2>4, <2>5, <2>6, SameCase DEF Opening, shift, t
    <2>8. Replaced'
        BY <1>9, ReplacedNext DEF Ended
    <2> QED
        BY <1>1, <1>9, <2>7, <2>8, SameCase DEF ReplaceInv
<1> QED
    BY <1>6, <1>7, <1>8, <1>9

LEMMA ShrinkDone ==
    ASSUME StringInv, SetUpInv, ReplaceInv, ShrinkChar
    PROVE  ReplaceInv'
<1> DEFINE t == Fit(Text)
           d == OldLen - NewLen
<1>1. fpc = "shrink" /\ UNCHANGED <<call, src, count, flag, printed, code>>
    BY DEF ShrinkChar
<1>2. /\ DOMAIN mem = Heap /\ i \in 0..(BUFFER_SZ + 1) /\ j \in 1..i /\ mem[BUFFER_SZ + 1] = NUL
      /\ call.opt = "x"
    BY <1>1 DEF StringInv, StringLoop, StringPlaces, StringCalled, Shrinking
<1>3. WordPlaces # {} /\ Untouched /\ NewLen <= OldLen /\ (NoDots => Closing)
    BY <1>1 DEF ReplaceInv
<1>4. /\ OldLen \in Nat /\ NewLen \in Nat /\ WordAt \in Nat /\ WordAt >= 1
      /\ WordAt + OldLen <= BUFFER_SZ + 1
      /\ \A k \in 1..BUFFER_SZ :
            Fit(Result)[k] = IF k < WordAt THEN t[k]
                             ELSE IF k < WordAt + NewLen THEN call.replace[k - WordAt + 1]
                             ELSE IF k - NewLen + OldLen <= BUFFER_SZ THEN t[k - NewLen + OldLen]
                             ELSE Dot
    BY <1>1, <1>3, ResultIs
<1>5. d \in Nat /\ \A k \in Nat : k - NewLen + OldLen = k + d
    BY <1>3, <1>4
<1>6. \A k \in 1..BUFFER_SZ : k >= WordAt + NewLen =>
         Fit(Result)[k] = IF k + d <= BUFFER_SZ THEN t[k + d] ELSE Dot
    <2> SUFFICES ASSUME NEW k \in 1..BUFFER_SZ, k >= WordAt + NewLen
                 PROVE  Fit(Result)[k] = IF k + d <= BUFFER_SZ THEN t[k + d] ELSE Dot
        OBVIOUS
    <2>1. ~(k < WordAt) /\ ~(k < WordAt + NewLen) /\ k - NewLen + OldLen = k + d
        BY <1>4, <1>5
    <2> HIDE DEF d, t
    <2> QED
        BY <1>4, <2>1
<1>7. \A k \in 1..BUFFER_SZ : t[k] # NUL
    BY <1>1, TextChars
<1>8. NoDots => /\ i = j + d /\ j >= WordAt + NewLen
                /\ \A k \in 1..BUFFER_SZ : (k < j => mem[k] = Fit(Result)[k]) /\ (k >= i => mem[k] = t[k])
    BY <1>3 DEF Closing
<1>9. NoDots => \A k, l \in 1..BUFFER_SZ : k <= l /\ t[k] = Dot => t[l] = Dot
    <2> SUFFICES ASSUME NoDots, NEW k \in 1..BUFFER_SZ, NEW l \in 1..BUFFER_SZ, k <= l, t[k] = Dot
                 PROVE  t[l] = Dot
        OBVIOUS
    <2>1. Text \in Seq(STRING \cup {Blank}) /\ Len(Text) \in Nat /\ DOMAIN Text = 1..Len(Text)
        BY <1>1, TextIs
    <2>2. ~(k <= Len(Text))
        <3> SUFFICES ASSUME k <= Len(Text) PROVE FALSE
            OBVIOUS
        <3>1. k \in DOMAIN Text /\ t[k] = Text[k]
            BY <2>1 DEF Fit
        <3> QED
            BY <3>1 DEF NoDots
    <2>3. ~(l <= Len(Text))
        BY <2>1, <2>2
    <2> QED
        BY <2>3 DEF Fit
<1> HIDE DEF t, d
<1>10. CASE mem[i] \notin {NUL, Dot}
    <2>1. mem' = [mem EXCEPT ![j] = mem[i]] /\ i' = i + 1 /\ j' = j + 1 /\ fpc' = "shrink"
        BY <1>1, <1>10 DEF ShrinkChar
    <2>2. i # BUFFER_SZ + 1 /\ i \in 1..BUFFER_SZ /\ j \in 1..BUFFER_SZ /\ j \in Heap
        BY <1>2, <1>10, Sizes
    <2>3. \A k \in Heap : mem'[k] = IF k = j THEN mem[i] ELSE mem[k]
        BY <1>2, <2>1, <2>2
    <2>4. Untouched'
        <3>1. \A k \in Heap : k > BUFFER_SZ => k # j
            BY <2>2, Sizes
        <3> QED
            BY <1>3, <2>3, <3>1 DEF Untouched
    <2>5. NoDots => Closing'
        <3> SUFFICES ASSUME NoDots PROVE Closing'
            OBVIOUS
        <3>1. i' = j' + d /\ j' >= WordAt + NewLen
            BY <1>2, <1>4, <1>5, <1>8, <2>1, <2>2
        <3>2. mem[i] = t[i] /\ j + d = i /\ j >= WordAt + NewLen
            BY <1>2, <1>5, <1>8, <2>2
        <3>3. Fit(Result)[j] = t[i]
            <4>1. j + d <= BUFFER_SZ
                BY <2>2, <3>2
            <4>2. Fit(Result)[j] = t[j + d]
                BY <1>6, <2>2, <3>2, <4>1
            <4> QED
                BY <3>2, <4>2
        <3>4. ASSUME NEW k \in 1..BUFFER_SZ
              PROVE  (k < j' => mem'[k] = Fit(Result)[k]) /\ (k >= i' => mem'[k] = t[k])
            <4>1. k \in Heap
                BY Sizes
            <4>2. CASE k = j
                <5>1. ~(k >= i') /\ mem'[k] = mem[i]
                    BY <1>2, <2>1, <2>2, <2>3, <4>1, <4>2
                <5> QED
                    BY <3>2, <3>3, <4>2, <5>1
            <4>3. CASE k # j
                <5>1. mem'[k] = mem[k] /\ (k < j' => k < j) /\ (k >= i' => k >= i)
                    BY <1>2, <2>1, <2>2, <2>3, <4>1, <4>3
                <5> QED
                    BY <1>8, <5>1
            <4> QED
                BY <4>2, <4>3
        <3> QED
            BY <1>1, <3>1, <3>4, SameCase DEF Closing, t, d
    <2>6. Replaced'
        BY <2>1, ReplacedNext DEF Ended
    <2> QED
        BY <1>1, <1>3, <2>1, <2>4, <2>5, <2>6, SameCase DEF ReplaceInv
<1>11. CASE mem[i] \in {NUL, Dot}
    <2>1. /\ mem' = [k \in Heap |-> IF k \in j..BUFFER_SZ THEN Dot ELSE mem[k]]
          /\ fpc' = "show" /\ UNCHANGED <<i, j>>
        BY <1>1, <1>11 DEF ShrinkChar
    <2>2. MallocKept'
        <3>1. \A k \in Heap : k > BUFFER_SZ => k \notin j..BUFFER_SZ
            BY <1>2, Sizes
        <3>2. Untouched'
            BY <1>3, <2>1, <3>1 DEF Untouched
        <3>3. \A k \in Heap : k > BUFFER_SZ + Spare => k > BUFFER_SZ /\ ~(k <= BUFFER_SZ + Spare)
            BY Sizes
        <3> QED
            BY <3>2, <3>3 DEF Untouched, MallocKept, Kept0
    <2>3. NewLen <= OldLen + Spare
        BY <1>3, <1>4, Sizes
    <2>4. ASSUME NoDots, NEW k \in 1..BUFFER_SZ
          PROVE  mem'[k] = Fit(Result)[k]
        <3>1. k \in Heap
            BY Sizes
        <3>2. CASE k < j
            <4>1. k \notin j..BUFFER_SZ
                BY <1>2, <3>2
            <4> QED
                BY <1>8, <2>1, <2>4, <3>1, <3>2, <4>1
        <3>3. CASE ~(k < j)
            <4>1. mem'[k] = Dot
                BY <1>2, <2>1, <3>1, <3>3
            <4>2. k >= WordAt + NewLen /\ k + d >= i
                BY <1>2, <1>4, <1>5, <1>8, <2>4, <3>3
            <4>3. k + d <= BUFFER_SZ => t[k + d] = Dot
                <5> SUFFICES ASSUME k + d <= BUFFER_SZ PROVE t[k + d] = Dot
                    OBVIOUS
                <5>1. i \in 1..BUFFER_SZ /\ k + d \in 1..BUFFER_SZ /\ i <= k + d
                    <6>1. i \in Nat /\ i >= 1 /\ d \in Nat /\ k \in Nat /\ k >= 1
                        BY <1>2, <1>5, Sizes
                    <6>2. k + d >= i /\ k + d <= BUFFER_SZ /\ BUFFER_SZ \in Nat
                        BY <4>2, Sizes
                    <6> HIDE DEF d
                    <6> QED
                        BY <6>1, <6>2
                <5>2. mem[i] = t[i]
                    BY <1>2, <1>8, <2>4, <5>1
                <5>3. t[i] = Dot
                    BY <1>7, <1>11, <5>1, <5>2
                <5> QED
                    BY <1>9, <2>4, <5>1, <5>3
            <4> QED
                BY <1>6, <4>1, <4>2, <4>3
        <3> QED
            BY <3>2, <3>3
    <2>5. NoDots => Buffer' = Fit(Result)
        BY <2>4 DEF Buffer, Fit
    <2>6. WordPut'
        BY <1>1, <2>2, <2>3, <2>5, SameCase DEF WordPut
    <2>7. Replaced'
        BY <2>1, ReplacedNext DEF Ended
    <2> QED
        BY <1>1, <1>3, <2>1, <2>6, <2>7, SameCase DEF ReplaceInv
<1> QED
    BY <1>10, <1>11

LEMMA GrowDone ==
    ASSUME StringInv, SetUpInv, ReplaceInv, GrowChar
    PROVE  ReplaceInv'
<1> DEFINE t == Fit(Text)
           d == NewLen - OldLen
<1>1. fpc = "grow" /\ UNCHANGED <<call, src, count, flag, printed, code>>
    BY DEF GrowChar
<1>2. /\ DOMAIN mem = Heap /\ i \in 0..BUFFER_SZ /\ j \in 0..(BUFFER_SZ + Spare + Reach)
      /\ j = i + d /\ NewLen > OldLen /\ call.opt = "x"
    BY <1>1 DEF StringInv, StringLoop, StringPlaces, StringCalled, Growing, OldLen, NewLen
<1>3. WordPlaces # {} /\ Opening
    BY <1>1 DEF ReplaceInv
<1>4. /\ OldLen \in Nat /\ NewLen \in Nat /\ NewLen <= Spare + Reach
      /\ WordAt \in Nat /\ WordAt >= 1 /\ WordAt + OldLen <= BUFFER_SZ + 1
      /\ \A k \in 1..NewLen : call.replace[k] \notin {NUL, "malloc"}
      /\ \A k \in 1..BUFFER_SZ :
            Fit(Result)[k] = IF k < WordAt THEN t[k]
                             ELSE IF k < WordAt + NewLen THEN call.replace[k - WordAt + 1]
                             ELSE IF k - NewLen + OldLen <= BUFFER_SZ THEN t[k - NewLen + OldLen]
                             ELSE Dot
    BY <1>1, <1>3, ResultIs
<1>5. d \in Nat /\ d >= 1 /\ d <= Spare + Reach /\ WordAt + NewLen = WordAt + OldLen + d
      /\ (d <= Spare <=> NewLen <= OldLen + Spare) /\ \A k \in Nat : k - NewLen + OldLen = k - d
    BY <1>2, <1>4, Sizes
<1>6. /\ count = WordAt /\ i >= WordAt + OldLen - 1
      /\ \A k \in 1..BUFFER_SZ : (k <= i => mem[k] = t[k]) /\ (k > j => mem[k] = t[k - d])
      /\ \A k \in Heap : k > BUFFER_SZ + d => mem[k] = Kept0[k]
      /\ i < BUFFER_SZ => mem[BUFFER_SZ + d] # "malloc"
    BY <1>3 DEF Opening
<1>7. \A k \in 1..BUFFER_SZ : t[k] # "malloc"
    BY <1>1, TextChars
<1>8. \A k \in 1..BUFFER_SZ :
         Fit(Result)[k] = IF k < WordAt THEN t[k]
                          ELSE IF k < WordAt + NewLen THEN call.replace[k - WordAt + 1]
                          ELSE t[k - d]
    <2> SUFFICES ASSUME NEW k \in 1..BUFFER_SZ
                 PROVE  Fit(Result)[k] = IF k < WordAt THEN t[k]
                                         ELSE IF k < WordAt + NewLen THEN call.replace[k - WordAt + 1]
                                         ELSE t[k - d]
        OBVIOUS
    <2>1. k - NewLen + OldLen = k - d /\ k - d <= BUFFER_SZ
        BY <1>5, Sizes
    <2> HIDE DEF d, t
    <2> QED
        BY <1>4, <2>1
<1> HIDE DEF t, d
<1>9. BUFFER_SZ + d \in Heap
    BY <1>5, Sizes
<1>10. CASE i >= count + Len(call.find)
    <2>1. mem' = [mem EXCEPT ![j] = mem[i]] /\ i' = i - 1 /\ j' = j - 1 /\ fpc' = "grow"
        BY <1>1, <1>10 DEF GrowChar
    <2>2. i >= WordAt + OldLen /\ i \in 1..BUFFER_SZ /\ j \in Heap /\ mem[i] = t[i]
        <3>1. i >= WordAt + OldLen
            BY <1>6, <1>10 DEF OldLen
        <3>2. i \in 1..BUFFER_SZ
            <4>1. WordAt \in Nat /\ OldLen \in Nat /\ WordAt >= 1
                BY <1>4
            <4> QED
                BY <1>2, <3>1, <4>1, Sizes
        <3>3. j \in Heap
            <4>1. d \in Nat /\ d <= Spare + Reach /\ j = i + d
                BY <1>2, <1>5
            <4> QED
                BY <3>2, <4>1, Sizes
        <3> QED
            BY <1>6, <3>1, <3>2, <3>3
    <2>3. \A k \in Heap : mem'[k] = IF k = j THEN mem[i] ELSE mem[k]
        BY <1>2, <2>1, <2>2
    <2>4. ASSUME NEW k \in 1..BUFFER_SZ
          PROVE  (k <= i' => mem'[k] = t[k]) /\ (k > j' => mem'[k] = t[k - d])
        <3>1. k \in Heap
            BY Sizes
        <3>2. CASE k = j
            <4>1. ~(k <= i') /\ k - d = i /\ mem'[k] = mem[i]
                BY <1>2, <1>5, <2>1, <2>3, <3>1, <3>2
            <4> QED
                BY <2>2, <4>1
        <3>3. CASE k # j
            <4>1. mem'[k] = mem[k] /\ (k <= i' => k <= i) /\ (k > j' => k > j)
                BY <1>2, <2>1, <2>3, <3>1, <3>3
            <4> QED
                BY <1>6, <4>1
        <3> QED
            BY <3>2, <3>3
    <2>5. ASSUME NEW k \in Heap, k > BUFFER_SZ + d PROVE mem'[k] = Kept0[k]
        <3>1. k # j
            BY <1>2, <1>5, <2>5, Sizes
        <3> QED
            BY <1>6, <2>3, <2>5, <3>1
    <2>6. mem'[BUFFER_SZ + d] # "malloc"
        <3>1. CASE i = BUFFER_SZ
            <4>1. mem'[BUFFER_SZ + d] = t[i]
                BY <1>2, <1>9, <2>2, <2>3, <3>1
            <4> QED
                BY <1>7, <2>2, <4>1
        <3>2. CASE i # BUFFER_SZ
            <4>1. i < BUFFER_SZ /\ BUFFER_SZ + d # j
                BY <1>2, <1>5, <3>2, Sizes
            <4> QED
                BY <1>6, <1>9, <2>3, <4>1
        <3> QED
            BY <3>1, <3>2
    <2>7. i' >= WordAt + OldLen - 1
        BY <1>2, <1>4, <2>1, <2>2
    <2>8. Opening'
        BY <1>1, <1>6, <2>4, <2>5, <2>6, <2>7, SameCase DEF Opening, t, d
    <2>9. Replaced'
        BY <2>1, ReplacedNext DEF Ended
    <2> QED
        BY <1>1, <1>3, <2>1, <2>8, <2>9, SameCase DEF ReplaceInv
<1>11. CASE ~(i >= count + Len(call.find))
    <2> DEFINE w == WordAt..(WordAt + NewLen - 1)
    <2>1. /\ mem' = [Put(mem, count, call.replace) EXCEPT ![BUFFER_SZ + 1] = NUL]
          /\ fpc' = "show" /\ UNCHANGED <<i, j>>
        BY <1>1, <1>11 DEF GrowChar, ByteBehind
    <2>2. i = WordAt + OldLen - 1 /\ j = WordAt + NewLen - 1
        <3>1. ~(i >= WordAt + OldLen)
            BY <1>6, <1>11 DEF OldLen
        <3>2. i = WordAt + OldLen - 1
            BY <1>2, <1>4, <1>6, <3>1
        <3> QED
            BY <1>2, <1>4, <1>5, <3>2
    <2>3. \A k \in Heap : k # BUFFER_SZ + 1 =>
             mem'[k] = IF k \in w THEN call.replace[k - WordAt + 1] ELSE mem[k]
        BY <1>2, <1>6, <2>1 DEF Put, NewLen
    <2>4. ASSUME NEW k \in 1..BUFFER_SZ PROVE mem'[k] = Fit(Result)[k]
        <3>1. k \in Heap /\ k # BUFFER_SZ + 1
            BY Sizes
        <3>2. CASE k < WordAt
            <4>1. k \notin w /\ k <= i
                BY <1>2, <1>4, <2>2, <3>2
            <4> QED
                BY <1>6, <1>8, <2>3, <3>1, <3>2, <4>1
        <3>3. CASE ~(k < WordAt) /\ k < WordAt + NewLen
            <4>1. k \in w
                BY <1>4, <3>3
            <4> QED
                BY <1>8, <2>3, <3>1, <3>3, <4>1
        <3>4. CASE ~(k < WordAt + NewLen)
            <4>1. k \notin w /\ ~(k < WordAt) /\ k > j
                BY <1>2, <1>4, <2>2, <3>4
            <4> QED
                BY <1>6, <1>8, <2>3, <3>1, <3>4, <4>1
        <3> QED
            BY <3>2, <3>3, <3>4
    <2>5. MallocKept' <=> NewLen <= OldLen + Spare
        <3>1. CASE d <= Spare
            <4>1. ASSUME NEW k \in Heap, k > BUFFER_SZ + Spare PROVE mem'[k] = "malloc"
                <5>1. k # BUFFER_SZ + 1 /\ k \notin w /\ k > BUFFER_SZ + d /\ ~(k <= BUFFER_SZ + Spare)
                    BY <1>2, <1>4, <1>5, <2>2, <3>1, <4>1, Sizes
                <5>2. mem'[k] = Kept0[k]
                    BY <1>6, <2>3, <5>1
                <5> QED
                    BY <5>1, <5>2 DEF Kept0
            <4> QED
                BY <1>5, <3>1, <4>1 DEF MallocKept
        <3>2. CASE ~(d <= Spare)
            <4> DEFINE k == BUFFER_SZ + d
            <4>1. k \in Heap /\ k > BUFFER_SZ + Spare /\ k # BUFFER_SZ + 1
                BY <1>5, <1>9, <3>2, Sizes
            <4>2. mem'[k] # "malloc"
                <5>1. CASE k \in w
                    <6>1. k - WordAt + 1 \in 1..NewLen
                        BY <1>4, <5>1
                    <6>2. mem'[k] = call.replace[k - WordAt + 1]
                        BY <2>3, <4>1, <5>1
                    <6> HIDE DEF k
                    <6> QED
                        BY <1>4, <6>1, <6>2
                <5>2. CASE k \notin w
                    <6>1. i < BUFFER_SZ
                        BY <1>2, <1>4, <1>5, <2>2, <5>2, Sizes
                    <6> QED
                        BY <1>6, <2>3, <4>1, <5>2, <6>1
                <5> QED
                    BY <5>1, <5>2
            <4>3. ~MallocKept'
                BY <4>1, <4>2 DEF MallocKept
            <4> QED
                BY <1>5, <3>2, <4>3
        <3> QED
            BY <3>1, <3>2
    <2>6. Buffer' = Fit(Result)
        BY <2>4 DEF Buffer, Fit
    <2>7. WordPut'
        BY <1>1, <2>5, <2>6, SameCase DEF WordPut
    <2>8. Replaced'
        BY <2>1, ReplacedNext DEF Ended
    <2> QED
        BY <1>1, <1>3, <2>1, <2>7, <2>8, SameCase DEF ReplaceInv
<1> QED
    BY <1>10, <1>11

LEMMA ReplaceStarts == StringInit => ReplaceInv
<1> SUFFICES ASSUME StringInit PROVE ReplaceInv
    OBVIOUS
<1>1. fpc = "idle"
    BY DEF StringInit
<1>2. Replaced
    BY <1>1, ReplacedIs DEF Ended
<1> QED
    BY <1>1, <1>2 DEF ReplaceInv

\* The other options end well: they never write where malloc keeps its own.
LEMMA OtherOptions ==
    ASSUME StringInv, CountChar \/ PrintChar \/ ReverseChar
    PROVE  ReplaceInv'
<1>1. /\ fpc \in {"c", "w", "r"} /\ UNCHANGED call
      /\ fpc' = fpc \/ Show
    <2>1. CASE CountChar
        BY <2>1 DEF CountChar
    <2>2. CASE PrintChar
        BY <2>2 DEF PrintChar
    <2>3. CASE ReverseChar
        BY <2>3 DEF ReverseChar
    <2> QED
        BY <2>1, <2>2, <2>3
<1>2. call.opt \in {"c", "w", "r"} /\ Untouched
    BY <1>1 DEF StringInv, StringCalled, StringLoop
<1>3. fpc' = fpc \/ (fpc' = "ended" /\ code' = 0)
    BY <1>1, <1>2, MallocUntouched DEF Show, MallocKept
<1>4. fpc' \notin {"shrink", "grow", "show"} /\ call'.opt # "x"
    BY <1>1, <1>2, <1>3
<1>5. fpc' = "ended" => code' # SIGABRT
    BY <1>1, <1>3 DEF SIGABRT
<1> QED
    BY <1>4, <1>5, NotReplaced

LEMMA ShowDone ==
    ASSUME StringInv, ReplaceInv, ShowReplaced
    PROVE  ReplaceInv'
<1>1. fpc = "show" /\ fpc' = "ended" /\ UNCHANGED <<call, mem>>
      /\ code' = IF MallocKept THEN 0 ELSE SIGABRT
    BY DEF ShowReplaced, Show, MallocKept
<1>2. WordPut /\ call.opt = "x"
    BY <1>1 DEF ReplaceInv, StringInv, StringCalled
<1>3. OldLen \in Nat /\ NewLen \in Nat
    BY <1>1, CallIs DEF OldLen, NewLen
<1>4. Buffer' = Buffer
    BY <1>1 DEF Buffer
<1>5. NoDots' => Buffer' = Fit(Result)'
    BY <1>1, <1>2, <1>4, SameCase DEF WordPut
<1>6. code' = SIGABRT => NewLen' > OldLen' + Spare
    <2>1. code' = SIGABRT => ~MallocKept
        BY <1>1 DEF SIGABRT
    <2>2. ~MallocKept => ~(NewLen <= OldLen + Spare)
        BY <1>2 DEF WordPut
    <2>3. NewLen' = NewLen /\ OldLen' = OldLen
        BY <1>1, SameCase
    <2> QED
        BY <1>3, <2>1, <2>2, <2>3, Sizes
<1>7. code' = 0 => NewLen' <= OldLen' + Spare
    <2>1. code' = 0 => MallocKept
        BY <1>1 DEF SIGABRT
    <2> QED
        BY <1>1, <1>2, <2>1, SameCase DEF WordPut
<1>8. Replaced'
    BY <1>1, <1>2, <1>5, <1>6, <1>7, ReplacedNext DEF Ended
<1> QED
    BY <1>1, <1>8 DEF ReplaceInv

LEMMA ReplaceKeeps == StringInv /\ SetUpInv /\ ReplaceInv /\ StringNext => ReplaceInv'
<1> SUFFICES ASSUME StringInv, SetUpInv, ReplaceInv, StringNext PROVE ReplaceInv'
    OBVIOUS
<1>1. CASE Start
    <2>1. \/ fpc' = "setup"
          \/ fpc' = "ended" /\ code' \in {1, 2}
          \/ fpc' = "ended" /\ code' = 0 /\ call'.opt = "h"
        BY <1>1 DEF Start, Exit
    <2> QED
        BY <2>1, NotReplaced DEF SIGABRT
<1>2. CASE SetupChar
    <2>1. fpc' = "setup" \/ (fpc' = "ended" /\ code' = 3)
        BY <1>2 DEF SetupChar, Exit
    <2> QED
        BY <2>1, NotReplaced DEF SIGABRT
<1>3. CASE SetupEnd
    <2>1. fpc = "setup" /\ (fpc' = call.opt \/ (fpc' = "ended" /\ code' = 1))
        BY <1>3 DEF SetupEnd, Exit
    <2>2. call.opt \in {"h", "c", "r", "w", "x", "other"}
        BY <2>1, CallIs
    <2>3. fpc' \notin {"shrink", "grow", "show"}
        BY <2>1, <2>2
    <2>4. fpc' = "ended" => code' = 1
        BY <2>1, <2>2
    <2> QED
        BY <2>3, <2>4, NotReplaced DEF SIGABRT
<1>4. CASE CountChar \/ PrintChar \/ ReverseChar
    BY <1>4, OtherOptions
<1>5. CASE FindWord
    BY <1>5, FindWordDone
<1>6. CASE ShrinkChar
    BY <1>6, ShrinkDone
<1>7. CASE GrowChar
    BY <1>7, GrowDone
<1>8. CASE ShowReplaced
    BY <1>8, ShowDone
<1> QED
    BY <1>1, <1>2, <1>3, <1>4, <1>5, <1>6, <1>7, <1>8 DEF StringNext, StringStep

LEMMA ReplaceStutters == ReplaceInv /\ UNCHANGED stringfun => ReplaceInv'
<1> SUFFICES ASSUME ReplaceInv, UNCHANGED stringfun PROVE ReplaceInv'
    OBVIOUS
<1>1. UNCHANGED <<fpc, call, mem, count, i, j, code>> /\ Buffer' = Buffer
    BY DEF stringfun, Buffer
<1>2. Untouched => Untouched'
    BY <1>1 DEF Untouched
<1>3. Closing => Closing'
    BY <1>1, SameCase DEF Closing
<1>4. Opening => Opening'
    BY <1>1, SameCase DEF Opening
<1>5. WordPut => WordPut'
    <2>1. MallocKept' <=> MallocKept
        BY <1>1 DEF MallocKept
    <2> QED
        BY <1>1, <2>1, SameCase DEF WordPut
<1>6. Replaced'
    <2>1. (Ended("x")' <=> Ended("x")) /\ Replaced
        BY <1>1 DEF Ended, ReplaceInv
    <2> QED
        BY <1>1, <2>1, SameCase, ReplacedIs, ReplacedNext
<1> QED
    BY <1>1, <1>2, <1>3, <1>4, <1>5, <1>6, SameCase DEF ReplaceInv

\* For every text, buffer and pair of words replace_word puts the new word in
\* the place of the first old one, moving what stands behind it within the
\* buffer, and the program survives what it writes behind the buffer if, and
\* only if, the new word is longer by no more than the spare bytes.
THEOREM WordReplaced == StringSpec => []Replaced
<1>1. StringInv /\ SetUpInv /\ ReplaceInv /\ [StringNext]_stringfun => SetUpInv' /\ ReplaceInv'
    BY SetUpKeeps, SetUpStutters, ReplaceKeeps, ReplaceStutters
<1>2. ReplaceInv => Replaced
    BY DEF ReplaceInv
<1> QED
    BY <1>1, <1>2, StringStarts, SetUpStarts, ReplaceStarts, StringKeeps, PTL DEF StringSpec

=============================================================================
