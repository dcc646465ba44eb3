-------------------------------- MODULE MCLists --------------------------------
(***************************************************************************)
(* A small instance of Lists for TLC.                                      *)
(***************************************************************************)
EXTENDS Lists

CONSTANTS p1, p2, q, pq, k1, k2, A, B

\* Two versions of a package and of the kernel, and a package whose name has
\* another's inside.
Archives == {p1, p2, q, pq, k1, k2}
Names == [x \in Archives |->
    CASE x \in {p1, p2} -> "p" [] x \in {k1, k2} -> "kernel" [] x = q -> "q" [] OTHER -> "pq"]
Inside == [x \in Archives |-> IF x = q THEN {q, pq} ELSE {x}]

Order == <<k1, k2, p1, p2, pq, q>>
SortedSets == [S \in SUBSET Archives |-> LET InS(x) == x \in S IN SelectSeq(Order, InS)]

\* The old and the new version of list A, and a list that shares with both.
OldA == [list |-> A, packages |-> {p1, q, k1}]
NewA == [list |-> A, packages |-> {p2, q, k2}]
OldB == [list |-> B, packages |-> {p1, pq}]
Repository == {OldA, NewA, OldB}
FromRepository == {<<OldA>>, <<NewA>>, <<OldB>>, <<OldA, OldB>>, <<OldA, NewA>>}
FromInstalled == {<<A>>, <<B>>, <<A, B>>}
=============================================================================
