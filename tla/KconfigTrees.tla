------------------------------ MODULE KconfigTrees ------------------------------
(***************************************************************************)
(* How the instances of the Kconfig modules write down Kconfig files.      *)
(***************************************************************************)
EXTENDS KconfigTree

\* A tree is written as the sequence of its nodes in parse order; "in" is the
\* parent, 0 for the top level.
Blank == [kind |-> "sym", item |-> NoItem, in |-> TopNode, dep |-> Y,
          prompt |-> NoPrompt, visible |-> Y, defaults |-> <<>>, ranges |-> <<>>,
          selects |-> <<>>, implies |-> <<>>, type |-> "unknown", menu |-> FALSE,
          optional |-> FALSE]

Def(v, c) == [val |-> v, cond |-> c]
Sym(i, in, type) == [Blank EXCEPT !.item = i, !.in = in, !.type = type]
Shown(i, in, type) == [Sym(i, in, type) EXCEPT !.prompt = Y]
Choice(i, in, type) == [Shown(i, in, type) EXCEPT !.kind = "choice", !.menu = TRUE]
Block(kind, in, dep) == [Blank EXCEPT !.kind = kind, !.in = in, !.dep = dep]
Menu(in, dep, visible) ==
    [Block("menu", in, dep) EXCEPT !.prompt = Y, !.visible = visible, !.menu = TRUE]

ParsedTree(nodes) ==
    LET all == 0..Len(nodes)
        At(n) == IF n = TopNode THEN [Menu(-1, Y, Y) EXCEPT !.in = -1] ELSE nodes[n]
        items == {At(n).item : n \in all} \ {NoItem}
        Typed(i) == {n \in all : At(n).item = i /\ At(n).type # "unknown"}
    IN  [kind |-> [n \in all |-> At(n).kind], item |-> [n \in all |-> At(n).item],
         list |-> [n \in all |-> SelectSeq([m \in DOMAIN nodes |-> m], LAMBDA m : At(m).in = n)],
         dep |-> [n \in all |-> At(n).dep], prompt |-> [n \in all |-> At(n).prompt],
         visible |-> [n \in all |-> At(n).visible],
         defaults |-> [n \in all |-> At(n).defaults],
         ranges |-> [n \in all |-> At(n).ranges],
         selects |-> [n \in all |-> At(n).selects],
         implies |-> [n \in all |-> At(n).implies],
         menu |-> {n \in all : At(n).menu},
         type |-> [i \in items |-> IF Typed(i) = {} THEN "unknown"
                                   ELSE At(CHOOSE n \in Typed(i) : TRUE).type],
         optional |-> {At(n).item : n \in {m \in all : At(m).optional}},
         modules |-> IF "MODULES" \in items THEN "MODULES" ELSE NoItem]

A == Ref("A")
B == Ref("B")
C == Ref("C")

Line(s, v) == [sym |-> s, val |-> v]
===============================================================================
