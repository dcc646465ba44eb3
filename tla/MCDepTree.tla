------------------------------- MODULE MCDepTree -------------------------------
(***************************************************************************)
(* Small instances of DepTree for TLC.                                     *)
(***************************************************************************)
EXTENDS DepTree

CONSTANTS a, b, c, d, e

Three == {a, b, c}
Five == {a, b, c, d, e}
InOrder == <<a, b, c>>

\* Every graph of three packages, of which no other has a file: each needs each
\* other one not at all, to be built or at run time.
Roles == [Three -> [Three -> {"none", "build", "runtime"}]]
WithRole(role, p, r) ==
    LET InRole(q) == role[p][q] = r IN
    IF p \in Three THEN SelectSeq(InOrder, InRole) ELSE <<>>
ThreeGraphs ==
    {[present |-> Three,
      build |-> [p \in Five |-> WithRole(role, p, "build")],
      runtime |-> [p \in Five |-> WithRole(role, p, "runtime")]] :
        role \in {r \in Roles : \A p \in Three : r[p][p] = "none"}}

\* Five packages: a diamond, a cycle of build and runtime needs through the
\* root, a package without a .deps file, and names that contain another's
\* ("b" in the name of d).
FiveGraphs ==
    {[present |-> Five \ {e},
      build |-> [p \in Five |->
          CASE p = a -> <<b, c, e>> [] p = b -> <<d>> [] p = c -> <<d, b>> [] OTHER -> <<>>],
      runtime |-> [p \in Five |-> IF p = d THEN <<a>> ELSE <<>>]],
     [present |-> Five,
      build |-> [p \in Five |->
          CASE p = a -> <<e, b>> [] p = b -> <<d, c>> [] p = c -> <<d, b>> [] OTHER -> <<>>],
      runtime |-> [p \in Five |->
          CASE p = b -> <<e>> [] p = e -> <<b>> [] p = a -> <<c>> [] OTHER -> <<>>]],
     [present |-> Five \ {c},
      build |-> [p \in Five |->
          CASE p = a -> <<b, d>> [] p = b -> <<a, d>> [] p = e -> <<b, a>> [] OTHER -> <<>>],
      runtime |-> [p \in Five |->
          CASE p = d -> <<b>> [] p = a -> <<e>> [] OTHER -> <<>>]]}
FiveInside == [p \in Five |-> IF p = b THEN {b, d} ELSE {p}]

AllGraphs == ThreeGraphs \cup FiveGraphs
FiveRequests == {<<a, b>>, <<e, c>>, <<d>>}

\* Root a is built with c, whose name contains "a" (a package and its -pass1).
PassOneGraphs ==
    {[present |-> Three,
      build |-> [p \in Three |-> CASE p = a -> <<c, b>> [] p = b -> <<c>> [] OTHER -> <<>>],
      runtime |-> [p \in Three |-> <<>>]]}
PassOneInside == [p \in Three |-> IF p = a THEN {a, c} ELSE {p}]
ThreeInOrder == {<<a>>, <<b>>, <<c>>, <<a, b>>, <<a, c>>, <<b, c>>}
=============================================================================
