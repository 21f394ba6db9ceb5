---------------------------- MODULE StudentDBMenus ----------------------------
(* Who runs which commands of sdbsc, on which files: values for the constants *)
(* of StudentDBProcs.                                                          *)
EXTENDS StudentFile, TLC

CONSTANTS p1, p2

A(id, gpa) == [op |-> "a", id |-> id, gpa |-> gpa]
D(id) == [op |-> "d", id |-> id, gpa |-> 0]
F(id) == [op |-> "f", id |-> id, gpa |-> 0]
Plain(op) == [op |-> op, id |-> 0, gpa |-> 0]

AnyId == 0..(MaxId + 1)

Everything ==
    {A(i, g) : i \in AnyId, g \in 0..(MaxGpa + 1)} \cup {D(i) : i \in AnyId}
        \cup {F(i) : i \in AnyId}
        \cup {Plain(op) : op \in {"c", "p", "x", "z", "h", "?", "no option"}}

MenuAll == [p \in {p1} |-> Everything]

\* One user runs any command, the other one reads.
MenuReader == p1 :> Everything @@ p2 :> {F(1), Plain("c"), Plain("p")}

\* Everything that changes records in place, for two users at once.
MenuInPlace == [p \in {p1, p2} |->
    {A(i, 0) : i \in StudentIds} \cup {D(i) : i \in 0..MaxId} \cup {F(i) : i \in StudentIds}
        \cup {Plain("z")}]

\* Both users compress, while one adds at the end of the file and the other
\* one counts.
MenuWalkers ==
    p1 :> {Plain("x"), Plain("c")} @@ p2 :> {A(MaxId, 0), Plain("x")}

Writers == {"a", "d", "z"}

\* Files a database that was never compressed can hold: some students, each
\* in its slot, possibly followed by deleted slots.
HomeFiles ==
    UNION {{f \in [0..n -> Slot] : \A i \in 0..n : f[i] = EMPTY \/ f[i].id = i} :
              n \in 0..MaxId}

NoFile == {EmptyFile}
=============================================================================
