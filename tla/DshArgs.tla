------------------------------ MODULE DshArgs ------------------------------
(***************************************************************************)
(* The command line of dsh in 6-shell-p4: parse_args goes through the      *)
(* options in the order getopt finds them, each of which may refuse the    *)
(* line for what was not said before it, and main starts what they say.    *)
(***************************************************************************)
EXTENDS Naturals, Sequences

CONSTANTS ArgLines,     \* the options typed, each with its argument
          DefPort       \* RDSH_DEF_PORT

\* atoi makes 0 of what is not a number; an option getopt does not know and one
\* that lacks its argument print the usage like -h.  The default is a port.
ASSUME ArgsAssumption ==
    /\ ArgLines \subseteq Seq([opt : {"c", "s", "i", "p", "x", "h"}, arg : Nat])
    /\ DefPort \in Nat \ {0} /\ DefPort < 65536

VARIABLES
    apc, options,   \* the whole line
    optind,         \* how many of the options are done
    cargs,          \* the structure parse_args fills
    port            \* where the socket is bound or connected

dshargs == <<apc, options, optind, cargs, port>>

\* An address is 0 as long as memset's zeros are all there is, "anywhere" and
\* "loopback" by default, or the number of the option that gives it.
Defaults == [mode |-> "local", ip |-> "none", at |-> 0, port |-> DefPort, threaded |-> FALSE]

ArgsInit ==
    /\ apc = "idle" /\ options = <<>> /\ optind = 0
    /\ cargs = Defaults /\ port = 0

----------------------------------------------------------------------------
TypeOptions ==
    /\ apc = "idle"
    /\ options' \in ArgLines
    /\ apc' = "options"
    /\ UNCHANGED <<optind, cargs, port>>

\* Mistake: -i and -p may stand anywhere.
NeverTooEarly == FALSE

\* -i and -p before -c or -s.
TooEarly == cargs.mode = "local"

Opt(o) == apc = "options" /\ optind < Len(options) /\ options[optind + 1].opt = o

Arg == options[optind + 1].arg

RefuseIf(bad) == apc' = IF bad THEN "refused" ELSE "options"

\* One turn of the loop, which fills in args unless it refuses.
Turn(bad, args) ==
    /\ RefuseIf(bad)
    /\ cargs' = IF bad THEN cargs ELSE args
    /\ optind' = optind + 1
    /\ UNCHANGED <<options, port>>

OptClient ==
    Opt("c") /\ Turn(cargs.mode # "local",
                     [cargs EXCEPT !.mode = "client", !.ip = "loopback", !.at = 0])

OptServer ==
    Opt("s") /\ Turn(cargs.mode # "local",
                     [cargs EXCEPT !.mode = "server", !.ip = "anywhere", !.at = 0])

OptInterface ==
    Opt("i") /\ Turn(TooEarly, [cargs EXCEPT !.ip = "given", !.at = optind + 1])

OptPort ==
    Opt("p") /\ Turn(TooEarly \/ Arg = 0, [cargs EXCEPT !.port = Arg])

OptThreaded ==
    Opt("x") /\ Turn(cargs.mode # "server", [cargs EXCEPT !.threaded = TRUE])

Usage ==
    /\ Opt("h")
    /\ apc' = "usage"
    /\ UNCHANGED <<options, optind, cargs, port>>

\* htons keeps 16 bits.
Htons(p) == p % 65536

\* main starts what the options say.
StartMode ==
    /\ apc = "options" /\ optind = Len(options)
    /\ apc' = IF cargs.threaded /\ cargs.mode # "server" THEN "refused" ELSE cargs.mode
    /\ port' = IF cargs.mode = "local" THEN 0 ELSE Htons(cargs.port)
    /\ UNCHANGED <<options, optind, cargs>>

ArgsNext ==
    \/ TypeOptions \/ OptClient \/ OptServer \/ OptInterface \/ OptPort \/ OptThreaded
    \/ Usage \/ StartMode

ArgsSpec == ArgsInit /\ [][ArgsNext]_dshargs

----------------------------------------------------------------------------
At(os) == {n \in DOMAIN options : options[n].opt \in os}

LastOf(ns) == IF ns = {} THEN 0 ELSE CHOOSE n \in ns : \A m \in ns : m <= n

\* What a line of options says when it is read as a whole.
Told ==
    LET mode == At({"c", "s"})
    IN  /\ \A m, n \in mode : m = n
        /\ \A n \in At({"i", "p", "x"}) : \E m \in mode : m < n
        /\ At({"x"}) # {} => At({"s"}) # {}
        /\ \A n \in At({"p"}) : options[n].arg > 0

\* A mode is started exactly if there is at most one, in front of the options
\* that go with it, and at the last address and port given: no default, which
\* -c and -s copy over what is there, replaces one.  That holds for ports of 16
\* bits; of others main shows the number and the socket has what is left of it.
StartedAsTold ==
    /\ apc \in {"local", "client", "server"} =>
          /\ Told
          /\ apc = "client" <=> At({"c"}) # {}
          /\ apc = "server" <=> At({"s"}) # {}
          /\ cargs.at = LastOf(At({"i"}))
          /\ LET p == LastOf(At({"p"})) IN
                apc # "local" /\ (p > 0 => options[p].arg < 65536) =>
                    port = IF p > 0 THEN options[p].arg ELSE DefPort
    /\ apc = "refused" => ~Told
=============================================================================
