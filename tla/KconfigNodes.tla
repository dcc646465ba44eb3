------------------------------ MODULE KconfigNodes ------------------------------
(***************************************************************************)
(* kconfiglib/kconfiglib.py: the menu nodes of a Kconfig object k, whose   *)
(* menu tree k.final.tree module KconfigTree makes.                        *)
(***************************************************************************)
EXTENDS Integers, Sequences, FiniteSets, SequencesExt

NoItem == "-"
TopNode == 0
None == -2      \* Python's None, for a user value or an empty cache
EmptyString == -1
NoValue == -4   \* no value that _change_node could assign: it raises
BoolTristate == {"bool", "tristate"}

Tree(k) == k.final.tree
Type0(k, i) == Tree(k).type[i]          \* orig_type

ListOf(k, n) == Tree(k).list[n]
KindOf(k, n) == Tree(k).kind[n]
IsMenuconfig(k, n) == n \in Tree(k).menu
ItemOf(k, n) == Tree(k).item[n]

IsItem(k, n) == KindOf(k, n) \in {"sym", "choice"}
HasText(k, i) == Type0(k, i) \notin BoolTristate

\* The place of node n in nodes, from 0, or -1: list.index and "in".
IndexIn(nodes, n) ==
    IF n \in ToSet(nodes) THEN (CHOOSE j \in DOMAIN nodes : nodes[j] = n) - 1 ELSE -1
===============================================================================
