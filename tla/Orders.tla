-------------------------------- MODULE Orders --------------------------------
(***************************************************************************)
(* What the scripts get from ls, sort and grep -v: a set in order, and a   *)
(* list without some of its lines.  The standard modules have operators    *)
(* for both that the prover has no rules for.                              *)
(***************************************************************************)
EXTENDS Integers, Sequences, FiniteSets

Elements(s) == {s[i] : i \in 1..Len(s)}

\* The elements of S in the order R, a set of pairs: k elements are not after
\* the k-th.
InOrder(S, R) ==
    [k \in 1..Cardinality(S) |->
        CHOOSE s \in S : Cardinality({r \in S : <<r, s>> \in R}) = k]

UpTo(S) == {p \in S \X S : p[1] <= p[2]}

\* The list s without the elements of X
Without(s, X) ==
    LET kept == {i \in 1..Len(s) : s[i] \notin X}
        positions == InOrder(kept, UpTo(kept))
    IN  [k \in 1..Cardinality(kept) |-> s[positions[k]]]
===============================================================================
