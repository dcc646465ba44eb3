-------------------------------- MODULE Measures --------------------------------
(***************************************************************************)
(* How far loops within loops are from their end: four numbers, of which   *)
(* an earlier one counts more than all that come after it.  OrdersProofs   *)
(* shows that such a measure cannot go down for ever.                      *)
(***************************************************************************)
EXTENDS Integers

Counts == [1..4 -> Nat]

Below(m, n) ==
    \/ m[1] < n[1]
    \/ m[1] = n[1] /\ m[2] < n[2]
    \/ m[1] = n[1] /\ m[2] = n[2] /\ m[3] < n[3]
    \/ m[1] = n[1] /\ m[2] = n[2] /\ m[3] = n[3] /\ m[4] < n[4]
===============================================================================
