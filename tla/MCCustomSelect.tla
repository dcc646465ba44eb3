---------------------------- MODULE MCCustomSelect ----------------------------
(***************************************************************************)
(* Two metas, whose files hold up to two of the six words in any order,   *)
(* and every selection.  The name of kde is inside that of mykde; gone has *)
(* no file.  Metas may stand for each other and for themselves.            *)
(***************************************************************************)
EXTENDS CustomSelect

CONSTANTS m1, m2, kde, mykde, gone, b1

InMenuOrder == <<m1, m2, kde, mykde, b1>>

AllSelections ==
    {LET Chosen(w) == w \in S IN SelectSeq(InMenuOrder, Chosen) : S \in SUBSET Elements(InMenuOrder)}

\* No word twice, and so no file that doubles what another brings
Contents == {<<>>} \cup {<<v>> : v \in Words} \cup {<<v, w>> : v \in Words, w \in Words}

SmallMetaFiles ==
    [Metas -> {c \in Contents : Cardinality(Elements(c)) = Len(c)}]

OneInside == [w \in Words |-> IF w = kde THEN {kde, mykde} ELSE {w}]
===============================================================================
