------------------------------ MODULE MCWorkPlan ------------------------------
(***************************************************************************)
(* Small plans: c needs a and b, d needs a; in one of the sets of trees a  *)
(* and b need each other, and b has a first pass.  e is up to date, n has  *)
(* no script, v no version, and the custom build z is installed.  And a    *)
(* plan of nine packages, to which c adds the tenth and u the eleventh,    *)
(* and a list of ten custom builds.                                        *)
(***************************************************************************)
EXTENDS WorkPlan

CONSTANTS a, b, c, d, bpass1, e, n, v, u, x, y, z

Nine == 1..9
NineInOrder == [i \in Nine |-> i]
TenBuilds == 11..20
TenInOrder == [i \in 1..10 |-> 10 + i]

SmallTrees ==
    { (a :> <<bpass1, a>>) @@ (b :> <<a, b>>) @@ (c :> <<e, bpass1, a, b, c>>)
          @@ (d :> <<bpass1, a, n, d>>),
      (a :> <<a>>) @@ (b :> <<a, b>>) @@ (c :> <<b, a, e, c>>) @@ (v :> <<a, v>>),
      (a :> <<a>>) @@ (b :> <<n, b>>) @@ (c :> <<a, b, c>>) @@ (d :> <<a, d>>),
      (9 :> NineInOrder) @@ (c :> NineInOrder \o <<c>>) @@ (u :> NineInOrder \o <<c, u>>) }

SmallRequests ==
    {<<>>, <<c>>, <<d, c>>, <<c, d>>, <<b, v>>, <<d, d>>, <<9>>, <<u>>}
SmallBuilds == {<<>>, <<x>>, <<y, z, x>>, TenInOrder}
SmallAlphabet == NineInOrder \o TenInOrder \o <<a, b, bpass1, c, d, e, n, u, v, x, y, z>>
===============================================================================
