-------------------------------- MODULE MenuTree --------------------------------
(***************************************************************************)
(* kconfiglib/menuconfig.py: what the menu shows of a Kconfig object and   *)
(* which values it offers.  The operators read k, whose caches they may    *)
(* fill, and give what was read only: by CacheCoherent (module Kconfig) it *)
(* does not matter for a value what is in the caches.                      *)
(***************************************************************************)
EXTENDS KconfigEval

\* k with nothing cached
Uncached(k) == [InvalidateAll(k) EXCEPT !.write = NewKconfig(k.final).write,
                                        !.was = {}, !.missing = {}]

ParentOf(k, n) == CHOOSE p \in Nodes(Tree(k)) : n \in ToSet(ListOf(k, p))

\* _parent_menu
RECURSIVE ParentMenu(_, _)
ParentMenu(k, n) ==
    LET p == ParentOf(k, n) IN IF IsMenuconfig(k, p) THEN p ELSE ParentMenu(k, p)

\* How many menus node n is in
RECURSIVE MenuDepth(_, _)
MenuDepth(k, n) == IF n = TopNode THEN 0 ELSE 1 + MenuDepth(k, ParentMenu(k, n))

Holds(k, e) == ExprValue(k, e).v # 0

PromptHolds(k, n) == Tree(k).prompt[n] # NoPrompt /\ Holds(k, Tree(k).prompt[n])

\* _visible
NodeVisible(k, n) ==
    PromptHolds(k, n) /\ (KindOf(k, n) = "menu" => Holds(k, Tree(k).visible[n]))

\* rec() of _shown_nodes: what is shown of a list of nodes.  Nodes of implicit
\* menus follow the symbol that has them; an invisible symbol is shown when
\* something is shown below it.
RECURSIVE ShownOf(_, _, _)
ShownOf(k, nodes, showAll) ==
    IF nodes = <<>> THEN <<>>
    ELSE LET n == Head(nodes)
             Listed(below) ==
                 IF \/ showAll \/ NodeVisible(k, n)
                    \/ KindOf(k, n) = "sym" /\ below # <<>>
                 THEN <<n>> \o IF IsMenuconfig(k, n) THEN <<>> ELSE below
                 ELSE <<>>
         IN  Listed(ShownOf(k, ListOf(k, n), showAll)) \o ShownOf(k, Tail(nodes), showAll)

(* A choice shows the nodes of all the places it is defined in, each symbol  *)
(* once; where it is defined here, the node here.                            *)
SymbolsOf(k, nodes) == {ItemOf(k, n) : n \in {m \in ToSet(nodes) : KindOf(k, m) = "sym"}}

OnceEach(k, here, all) ==
    LET Take(acc, n) ==
            IF ItemOf(k, n) \in SymbolsOf(k, here \o acc) /\ n \notin ToSet(here)
            THEN acc ELSE Append(acc, n)
    IN  FoldLeft(Take, <<>>, all)

ShownInChoice(k, menu, showAll) ==
    OnceEach(k, ShownOf(k, ListOf(k, menu), showAll),
             FlattenSeq([j \in DOMAIN k.final.nodes[ItemOf(k, menu)] |->
                 ShownOf(k, ListOf(k, k.final.nodes[ItemOf(k, menu)][j]), showAll)]))

\* _shown_nodes
ShownNodes(k, menu, showAll) ==
    IF KindOf(k, menu) = "choice" THEN ShownInChoice(k, menu, showAll)
    ELSE ShownOf(k, ListOf(k, menu), showAll)

\* Mutant: the whole tree, from its top
SearchableTop(k) == <<TopNode>> \o InParseOrder(Tree(k))

\* The nodes that can be searched: symbols, choices, menus and comments.  The
\* order in each group is that of the tree, not of the names.
Searchable(k) ==
    LET Of(kind) == SelectSeq(InParseOrder(Tree(k)), LAMBDA n : KindOf(k, n) = kind)
    IN  Of("sym") \o Of("choice") \o Of("menu") \o Of("comment")

-------------------------------------------------------------------------------
\* Changing values

Offered(k, i) == Assignable(k, i).v

\* _is_y_mode_choice_sym
IsYModeChoiceSym(k, i) ==
    IsSymbol(k, i) /\ ChoiceOf(k, i) # NoItem /\ Visibility(k, i).v = 2

\* _changeable
Changeable(k, n) ==
    /\ IsItem(k, n)
    /\ PromptHolds(k, n)
    /\ \/ HasText(k, ItemOf(k, n))
       \/ Cardinality(Offered(k, ItemOf(k, n))) > 1
       \/ IsYModeChoiceSym(k, ItemOf(k, n))

\* The value that _change_node gives a bool or tristate: the next one that is
\* offered, and the first after the last; the present one must be offered too.
NextOffered(offered, value) ==
    LET above == {v \in offered : v > value} IN
    IF Cardinality(offered) = 1 THEN CHOOSE v \in offered : TRUE
    ELSE IF value \notin offered THEN NoValue
    ELSE IF above # {} THEN Min(above) ELSE Min(offered)

NextValue(k, i) == NextOffered(Offered(k, i), StrValue(k, i).v)

\* _check_valid of a text that was typed for symbol i.  A bound without a
\* value is no number, and raises.
CheckRaises(k, i, v) ==
    LET r == FirstActive(k, Tree(k).rngs[i], 1) IN
    /\ Type0(k, i) = "int" /\ v # EmptyString /\ r.i # 0
    /\ \E bound \in {Tree(k).rngs[i][r.i].low, Tree(k).rngs[i][r.i].high} :
          ConstOrStr(k, bound).v = EmptyString

CheckValid(k, i, v) ==
    Type0(k, i) = "int" =>
        /\ v # EmptyString
        /\ LET range == RangeOf(k, i) IN range.active => v \in range.low..range.high

\* Mutant: only what the file does not set is looked at
NeedsSaveUnset(k) ==
    \/ k.missing # {}
    \/ \E s \in Symbols(k) : k.user[s] = None /\ ConfigString(k, s).v # <<>>

\* _needs_save: whether saving what was loaded would change the file.
NeedsSave(k) ==
    \/ k.missing # {}
    \/ \E s \in Symbols(k) :
          IF k.user[s] = None THEN ConfigString(k, s).v # <<>>
          ELSE StrValue(k, s).v # k.user[s]
===============================================================================
