-------------------------- MODULE MCShellPipeline ---------------------------
(* ShellPipeline for TLC. *)
EXTENDS ShellPipeline

C(prog) == [prog |-> prog, redir |-> {}]
R(prog, redir) == [prog |-> prog, redir |-> redir]

\* Every first command has an input of its own, and every endless writer has a
\* reader that stops.
MCLines == {
    <<>>,
    <<C("exit")>>,
    <<C("gen")>>,
    <<R("cat", {"in", "out"})>>,
    <<C("gen"), C("cat"), C("cat")>>,
    <<C("yes"), C("head"), C("cat")>>,
    <<C("yes"), C("missing")>>,
    <<C("gen"), R("cat", {"out", "app"}), C("cat")>>,
    <<C("yes"), R("head", {"in"})>>,
    <<C("yes"), R("cat", {"nofile"})>>,
    <<C("gen"), C("cat"), C("head"), C("cat")>>,
    <<C("gen"), C("cat"), C("cat"), C("cat"), C("head")>>}
=============================================================================
