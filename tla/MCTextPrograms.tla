--------------------------- MODULE MCTextPrograms ---------------------------
(* The parsers, the loops as readers of their input, the command line of    *)
(* dsh and stringfun for TLC: one of them runs, the others stay in their    *)
(* initial states.                                                          *)
EXTENDS CmdBuff, CmdList, StringFun, ShellInput, DshArgs, SequencesExt

vars == <<parser, lister, stringfun, input, dshargs>>

Init == ParserInit /\ ListInit /\ StringInit /\ InputInit /\ ArgsInit

Next ==
    \/ /\ ListInit /\ StringInit /\ InputInit /\ ArgsInit
       /\ ParserNext
       /\ UNCHANGED <<lister, stringfun, input, dshargs>>
    \/ /\ ParserInit /\ StringInit /\ InputInit /\ ArgsInit
       /\ ListNext
       /\ UNCHANGED <<parser, stringfun, input, dshargs>>
    \/ /\ ParserInit /\ ListInit /\ InputInit /\ ArgsInit
       /\ StringNext
       /\ UNCHANGED <<parser, lister, input, dshargs>>
    \/ /\ ParserInit /\ ListInit /\ StringInit /\ ArgsInit
       /\ InputNext
       /\ UNCHANGED <<parser, lister, stringfun, dshargs>>
    \/ /\ ParserInit /\ ListInit /\ StringInit /\ InputInit
       /\ ArgsNext
       /\ UNCHANGED <<parser, lister, stringfun, input>>

Spec == Init /\ [][Next]_vars

\* A program that runs keeps being scheduled; nobody need start one.
FairSpec == Spec /\ WF_parser(ParseStep) /\ WF_input(InputStep)

----------------------------------------------------------------------------
Spaced(ts) == FlattenSeq([n \in DOMAIN ts |-> Append(ts[n], Blank)])
Barred(n) == [k \in 1..(2 * n - 1) |-> IF k % 2 = 1 THEN "x" ELSE Bar]

\* Every short line; and lines long enough for every limit, whole words and
\* operators apart by blanks.
MCTypedLines ==
    BoundedSeq(Chars, 3)
        \cup BoundedSeq({"x", Blank, Bar}, 5) \cup BoundedSeq({"x", Blank, Quote}, 6)
        \cup {Spaced(ts) : ts \in BoundedSeq({<<"x">>, <<"<">>, <<">">>}, 5)
                               \cup BoundedSeq({<<"x">>, <<">", ">">>, <<">">>}, 4)}
        \cup {Spaced(<< <<"x">>, <<"x">>, <<"x">>, <<"x">>, <<"x">>, <<"x">> >>),
              Barred(5), Barred(6)}

MCInputs ==
    BoundedSeq({"x", Blank, Bar}, 6) \cup BoundedSeq({"x", Blank, Bar, Tab, CR}, 3)
        \cup {ExitLine, DragonLine, <<"x", Blank, "x", "x", "x", "x", "x", "x">>}

CallOf(opt, argc, str, find, replace) ==
    [opt |-> opt, argc |-> argc, str |-> str, find |-> find, replace |-> replace]

MCCalls ==
    {CallOf("h", 1, <<>>, <<>>, <<>>), CallOf("h", 2, <<>>, <<>>, <<>>),
     CallOf("c", 2, <<>>, <<>>, <<>>), CallOf("x", 4, <<"a">>, <<"a">>, <<>>)}
        \cup {CallOf(opt, 3, str, <<>>, <<>>) :
                 opt \in {"c", "r", "w", "other"},
                 str \in BoundedSeq({"a", "b", Blank}, 6) \cup BoundedSeq({"a", Blank, Tab, Dot}, 4)}
        \cup {CallOf("x", 5, str, find, replace) :
                 str \in BoundedSeq({"a", "b", Blank}, 5) \cup BoundedSeq({"a", Dot}, 3),
                 find \in {<<>>, <<"b">>, <<"a", "b">>, <<Dot>>},
                 replace \in {<<>>, <<"c">>, <<"c", "d">>, <<"c", "d", "c", "d">>}}

MCScripts == BoundedSeq({"cd", "run", "reader", "unknown"}, 4) \cup BoundedSeq(Kinds, 2)

MCArgLines ==
    BoundedSeq([opt : {"c", "s", "i", "x"}, arg : {0}]
                   \cup [opt : {"p"}, arg : {0, 80, 70000}], 4)
        \cup {<<[opt |-> "c", arg |-> 0], [opt |-> "h", arg |-> 0]>>}
=============================================================================
