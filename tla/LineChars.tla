----------------------------- MODULE LineChars -----------------------------
(***************************************************************************)
(* The characters that matter to the programs that cut up lines, and the   *)
(* functions of the C library they cut with.                               *)
(***************************************************************************)
EXTENDS Naturals, Sequences, FiniteSets

NUL == "NUL"
Blank == " "
Tab == "tab"
CR == "cr"
Quote == "quote"
Bar == "|"
Dot == "."

IsSpace == {Blank, Tab, CR}

\* The first position from i on that holds one of S, if there is one.
First(b, i, S) ==
    CHOOSE j \in i..Len(b) : b[j] \in S /\ \A k \in i..(j - 1) : b[k] \notin S

\* The first position from i on that holds none of S, if there is one.
Skip(b, i, S) ==
    CHOOSE j \in i..Len(b) : b[j] \notin S /\ \A k \in i..(j - 1) : b[k] \in S

\* The positions in a set, the smallest first.
InOrder(at) ==
    [n \in 1..Cardinality(at) |-> CHOOSE p \in at : Cardinality({q \in at : q <= p}) = n]

\* Where the words of s begin, if d separates them.
Starts(s, d) == {p \in DOMAIN s : s[p] # d /\ (p = 1 \/ s[p - 1] = d)}

\* What strtok_r returns for string s, call after call.
Tokens(s, d) ==
    LET starts == InOrder(Starts(s, d))
    IN  [n \in DOMAIN starts |-> SubSeq(s, starts[n], First(Append(s, d), starts[n], {d}) - 1)]

\* The characters of s at the positions in at.
Kept(s, at) == LET ps == InOrder(at) IN [n \in DOMAIN ps |-> s[ps[n]]]

\* s without the white space at its ends.
Trimmed(s) ==
    LET solid == {i \in DOMAIN s : s[i] \notin IsSpace}
    IN  Kept(s, {i \in DOMAIN s : \E j, k \in solid : j <= i /\ i <= k})
=============================================================================
