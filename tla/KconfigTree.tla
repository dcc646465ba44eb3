------------------------------ MODULE KconfigTree ------------------------------
(***************************************************************************)
(* kconfiglib/kconfiglib.py, from the parsed Kconfig files to the menu     *)
(* tree that is evaluated: what Kconfig._init does after _parse_block.     *)
(*                                                                         *)
(* A parsed tree is a record                                               *)
(*   kind, item   [Node -> what the node holds]; NoItem for menus and ifs  *)
(*   list         [Node -> Seq(Node)], the children (.list and .next)      *)
(*   dep, prompt, visible, defaults, ranges, selects, implies   per node   *)
(*   menu         the nodes with is_menuconfig                             *)
(*   type         [Item -> type]                                           *)
(*   optional     the optional choices                                     *)
(*   modules      the symbol MODULES, or NoItem when it is not defined     *)
(* Nodes are numbered in the order they are parsed; 0 is top_node.         *)
(* Values are numbers: 0, 1, 2 for n, m, y; -1 is the empty string, and    *)
(* numbers stand for the numbers or the strings of the other types.        *)
(***************************************************************************)
EXTENDS KconfigNodes

-------------------------------------------------------------------------------
\* Expressions

Lit(v) == [op |-> "lit", v |-> v]
Y == Lit(2)
M == Lit(1)
N == Lit(0)
Ref(i) == [op |-> "ref", i |-> i]
Not(e) == [op |-> "not", e |-> e]
Rel(r, a, b) == [op |-> "rel", rel |-> r, l |-> a, r |-> b]
NoPrompt == [op |-> "none"]

MakeAnd(a, b) ==
    IF a = Y THEN b
    ELSE IF b = Y THEN a
    ELSE IF N \in {a, b} THEN N ELSE [op |-> "and", l |-> a, r |-> b]

MakeOr(a, b) ==
    IF a = N THEN b
    ELSE IF b = N THEN a
    ELSE IF Y \in {a, b} THEN Y ELSE [op |-> "or", l |-> a, r |-> b]

\* The items an expression refers to.
RECURSIVE Items(_)
Items(e) ==
    CASE e.op = "ref" -> {e.i}
      [] e.op = "not" -> Items(e.e)
      [] e.op \in {"and", "or", "rel"} -> Items(e.l) \cup Items(e.r)
      [] OTHER -> {}

\* Whether e, a condition of a later node, makes that node an entry of the
\* implicit menu of item i.
RECURSIVE ExprDependsOn(_, _)
ExprDependsOn(e, i) ==
    CASE e.op = "ref" -> e.i = i
      [] e.op = "rel" ->
           \E other \in {e.l, e.r} :
              /\ {e.l, e.r} = {other, Ref(i)}
              /\ \/ e.rel = "=" /\ other = M
                 \/ e.rel = "=" /\ other = Y
                 \/ e.rel = "!=" /\ other = N
      [] e.op = "and" -> ExprDependsOn(e.l, i) \/ ExprDependsOn(e.r, i)
      [] OTHER -> FALSE

-------------------------------------------------------------------------------
(* The tree while it is finalized: the parsed tree with, per symbol, what   *)
(* its nodes contribute (direct, rev, weak, and the defaults and ranges of  *)
(* all its nodes), and per choice its symbols.                              *)

\* f itself: TLC keeps a function as the expression that defines it until it is
\* compared with another, and then as a table.
Table(f) == IF f = f THEN f ELSE <<>>

Nodes(t) == DOMAIN t.kind
IsSym(t, i) == \E n \in Nodes(t) : t.kind[n] = "sym" /\ t.item[n] = i

InParseOrder(t) == [n \in 1..Cardinality(Nodes(t)) - 1 |-> n]
NodesOf(t, i) == SelectSeq(InParseOrder(t), LAMBDA n : t.item[n] = i)

ItemsOf(t, kind) == {t.item[n] : n \in {m \in Nodes(t) : t.kind[m] = kind}}

\* The order of unique_defined_syms and unique_choices: first definitions.
InOrder(t, kind) ==
    LET First(n) == t.kind[n] = kind /\ \A m \in 1..n - 1 : t.item[m] # t.item[n]
        first == SelectSeq(InParseOrder(t), First)
    IN  [j \in DOMAIN first |-> t.item[first[j]]]

Unfinalized(t) ==
    LET items == ItemsOf(t, "sym") \cup ItemsOf(t, "choice") IN
    Table([kind |-> t.kind, item |-> t.item, list |-> t.list, dep |-> t.dep,
     prompt |-> t.prompt, visible |-> t.visible, menu |-> t.menu,
     defaults |-> t.defaults, ranges |-> t.ranges, selects |-> t.selects,
     implies |-> t.implies, type |-> t.type, optional |-> t.optional,
     modules |-> t.modules,
     direct |-> [i \in items |-> N], rev |-> [i \in items |-> N],
     weak |-> [i \in items |-> N], defs |-> [i \in items |-> <<>>],
     rngs |-> [i \in items |-> <<>>], choice |-> [i \in items |-> NoItem],
     syms |-> [i \in items |-> <<>>]])

AndConds(props, dep) ==
    [j \in DOMAIN props |-> [props[j] EXCEPT !.cond = MakeAnd(@, dep)]]

\* Mutant: "visible if" is left out
PromptInNoVisible(t, c, dep, visibleIf) ==
    IF t.prompt[c] = NoPrompt THEN NoPrompt ELSE MakeAnd(t.prompt[c], dep)

\* The condition of node c's prompt, with what is propagated to it.
PromptIn(t, c, dep, visibleIf) ==
    IF t.prompt[c] = NoPrompt THEN NoPrompt
    ELSE MakeAnd(t.prompt[c],
                 IF t.kind[c] \in {"sym", "choice"} THEN MakeAnd(visibleIf, dep) ELSE dep)

\* _propagate_deps: the dependencies of node n go to each of its children.
PropagateDeps(t, n, visibleIf) ==
    LET base == IF t.kind[n] = "choice" THEN Ref(t.item[n]) ELSE t.dep[n]
        children == ToSet(t.list[n])
        dep == Table([c \in Nodes(t) |->
            IF c \in children THEN MakeAnd(t.dep[c], base) ELSE t.dep[c]])
        Conds(props) == Table([c \in Nodes(t) |->
            IF c \in children THEN AndConds(props[c], dep[c]) ELSE props[c]])
    IN  [t EXCEPT !.dep = dep,
                  !.prompt = Table([c \in Nodes(t) |->
                      IF c \in children THEN PromptIn(t, c, dep[c], visibleIf)
                      ELSE t.prompt[c]]),
                  !.defaults = Conds(t.defaults),
                  !.ranges = Conds(t.ranges),
                  !.selects = Conds(t.selects),
                  !.implies = Conds(t.implies)]

\* The reverse dependencies that the selects (or implies) of symbol s add.
RECURSIVE AddReverse(_, _, _)
AddReverse(rev, s, props) ==
    IF props = <<>> THEN rev
    ELSE LET p == Head(props) IN
         AddReverse([rev EXCEPT ![p.val.i] = MakeOr(@, MakeAnd(Ref(s), p.cond))],
                    s, Tail(props))

\* _add_props_to_sym: node n's properties go to its symbol, in parse order.
AddPropsToSym(t, n) ==
    LET s == t.item[n] IN
    [t EXCEPT !.direct[s] = MakeOr(@, t.dep[n]),
              !.defs[s] = @ \o t.defaults[n],
              !.rngs[s] = @ \o t.ranges[n],
              !.rev = AddReverse(@, s, t.selects[n]),
              !.weak = AddReverse(@, s, t.implies[n])]

\* _auto_menu_dep
AutoMenuDep(t, n, next) ==
    ExprDependsOn(IF t.prompt[next] # NoPrompt THEN t.prompt[next] ELSE t.dep[next],
                  t.item[n])

\* Mutant: what follows a flattened node is not linked after its children
FlattenFromCuts(t, p, i) ==
    LET n == t.list[p][i] IN
    IF i > Len(t.list[p]) THEN t
    ELSE IF t.list[n] # <<>> /\ t.prompt[n] = NoPrompt /\ t.kind[n] # "choice"
    THEN [t EXCEPT !.list[p] = SubSeq(@, 1, i) \o t.list[n], !.list[n] = <<>>]
    ELSE t

\* _flatten: the children of a promptless node, choices apart, are put after
\* it, and are flattened in their turn.
RECURSIVE FlattenFrom(_, _, _)
FlattenFrom(t, p, i) ==
    IF i > Len(t.list[p]) THEN t
    ELSE LET n == t.list[p][i] IN
         FlattenFrom(
             IF t.list[n] # <<>> /\ t.prompt[n] = NoPrompt /\ t.kind[n] # "choice"
             THEN [t EXCEPT !.list[p] = SubSeq(@, 1, i) \o t.list[n]
                                        \o SubSeq(@, i + 1, Len(@)),
                            !.list[n] = <<>>]
             ELSE t,
             p, i + 1)

RemoveIfs(t, p) ==
    [t EXCEPT !.list[p] = SelectSeq(@, LAMBDA n : t.kind[n] # "if")]

\* _finalize_choice: the symbols right under choice node n are its symbols.
FinalizeChoice(t, n) ==
    LET c == t.item[n]
        here == [j \in DOMAIN SelectSeq(t.list[n], LAMBDA x : t.kind[x] = "sym") |->
                    t.item[SelectSeq(t.list[n], LAMBDA x : t.kind[x] = "sym")[j]]]
        all == t.syms[c] \o here
        typed == SelectSeq(all, LAMBDA s : t.type[s] # "unknown")
        ctype == IF t.type[c] = "unknown" /\ typed # <<>> THEN t.type[Head(typed)]
                 ELSE t.type[c]
    IN  [t EXCEPT !.choice = Table([i \in DOMAIN @ |->
                      IF i \in ToSet(here) THEN c ELSE @[i]]),
                  !.syms[c] = all,
                  !.type = Table([i \in DOMAIN @ |->
                      IF i = c \/ (i \in ToSet(all) /\ @[i] = "unknown")
                      THEN ctype ELSE @[i]])]

(* _finalize_node.  FinalizeAt finalizes the i-th child of p; a symbol takes *)
(* the siblings that depend on it into an implicit menu (PullIn counts       *)
(* them), anything else hands its dependencies down and finalizes its        *)
(* children.                                                                 *)
RECURSIVE FinalizeAt(_, _, _, _), FinalizeChildren(_, _, _, _), PullIn(_, _, _, _, _)

PullIn(t, p, i, k, visibleIf) ==
    IF i + k < Len(t.list[p]) /\ AutoMenuDep(t, t.list[p][i], t.list[p][i + k + 1])
    THEN PullIn(FinalizeAt(t, p, i + k + 1, visibleIf), p, i, k + 1, visibleIf)
    ELSE LET all == t.list[p] IN
         IF k = 0 THEN t
         ELSE [t EXCEPT !.list[all[i]] = SubSeq(all, i + 1, i + k),
                        !.list[p] = SubSeq(all, 1, i) \o SubSeq(all, i + k + 1, Len(all))]

FinalizeChildren(t, n, i, visibleIf) ==
    IF i > Len(t.list[n]) THEN t
    ELSE FinalizeChildren(FinalizeAt(t, n, i, visibleIf), n, i + 1, visibleIf)

FinalizeBlock(t, n, visibleIf) ==
    LET v == IF t.kind[n] = "menu" THEN MakeAnd(visibleIf, t.visible[n]) ELSE visibleIf
    IN  IF t.list[n] = <<>> THEN t
        ELSE FinalizeChildren(PropagateDeps(t, n, v), n, 1, v)

FinishLevel(t, n) ==
    LET u == IF t.list[n] = <<>> THEN t ELSE RemoveIfs(FlattenFrom(t, n, 1), n)
    IN  IF t.kind[n] # "choice" THEN u
        ELSE FinalizeChoice(
                 [u EXCEPT !.direct[u.item[n]] = MakeOr(@, u.dep[n]),
                           !.defs[u.item[n]] = @ \o u.defaults[n]], n)

FinalizeAt(t, p, i, visibleIf) ==
    LET n == t.list[p][i] IN
    FinishLevel(IF t.kind[n] = "sym" THEN PullIn(AddPropsToSym(t, n), p, i, 0, visibleIf)
                ELSE FinalizeBlock(t, n, visibleIf),
                n)

FinalizeTree(t) == FinishLevel(FinalizeBlock(Unfinalized(t), TopNode, Y), TopNode)

-------------------------------------------------------------------------------
\* The dependency graph

PropItems(props) == UNION {Items(props[j].cond) : j \in DOMAIN props}
ValueItems(props) == UNION {Items(props[j].val) : j \in DOMAIN props}
RangeItems(props) == UNION {Items(props[j].low) \cup Items(props[j].high) : j \in DOMAIN props}

PromptItems(t, i) ==
    UNION {Items(t.prompt[n]) : n \in {m \in Nodes(t) : t.item[m] = i}}

\* What _build_dep makes item i a dependent of.
DependsOn(t, i) ==
    IF IsSym(t, i)
    THEN PromptItems(t, i)
         \cup PropItems(t.defs[i]) \cup ValueItems(t.defs[i])
         \cup Items(t.rev[i]) \cup Items(t.weak[i])
         \cup PropItems(t.rngs[i]) \cup RangeItems(t.rngs[i])
         \cup Items(t.direct[i])
    ELSE PromptItems(t, i) \cup PropItems(t.defs[i])

AllItems(t) == DOMAIN t.direct

\* The _dependents sets before _add_choice_deps.
BuildDep(t) ==
    LET on == Table([j \in AllItems(t) |-> DependsOn(t, j)])
    IN  Table([i \in AllItems(t) |-> {j \in AllItems(t) : i \in on[j]}])

\* _add_choice_deps: a choice depends on its symbols too.
AddChoiceDeps(t, dependents) ==
    [i \in AllItems(t) |->
        dependents[i] \cup {c \in AllItems(t) : i \in ToSet(t.syms[c])}]

(* The depth-first search for dependency loops.  visited is 0, 1 (on the     *)
(* path) or 2 (done) per item; loop is what is found on the way back, and    *)
(* stays when a loop was closed (the code raises KconfigError there).        *)
RECURSIVE LoopSym(_, _, _, _, _), LoopSyms(_, _, _, _, _), LoopChoice(_, _, _, _, _)

NoLoop(visited) == [visited |-> visited, loop |-> FALSE]

\* Mutant: a symbol is never checked for a loop through its choice
LoopSymNoChoice(t, dependents, visited, s, ignoreChoice) ==
    CASE visited[s] = 2 -> NoLoop(visited)
      [] visited[s] = 1 -> [visited |-> visited, loop |-> TRUE]
      [] OTHER ->
           LET r == LoopSyms(t, dependents, [visited EXCEPT ![s] = 1],
                             dependents[s], NoItem)
           IN  IF r.loop THEN r ELSE NoLoop([r.visited EXCEPT ![s] = 2])

LoopSym(t, dependents, visited, s, ignoreChoice) ==
    CASE visited[s] = 2 -> NoLoop(visited)
      [] visited[s] = 1 -> [visited |-> visited, loop |-> TRUE]
      [] OTHER ->
           LET below == LoopSyms(t, dependents, [visited EXCEPT ![s] = 1],
                                 dependents[s], NoItem)
               r == IF below.loop \/ t.choice[s] = NoItem \/ ignoreChoice THEN below
                    ELSE LoopChoice(t, dependents, below.visited, t.choice[s], s)
           IN  IF r.loop THEN r ELSE NoLoop([r.visited EXCEPT ![s] = 2])

\* Every item of the set, one after the other; inside is the choice that is
\* being left for its symbols, or NoItem.
LoopSyms(t, dependents, visited, set, inside) ==
    IF set = {} THEN NoLoop(visited)
    ELSE LET i == CHOOSE x \in set : TRUE
             r == IF IsSym(t, i)
                  THEN LoopSym(t, dependents, visited, i, inside # NoItem)
                  ELSE LoopChoice(t, dependents, visited, i, NoItem)
         IN  IF r.loop THEN r
             ELSE LoopSyms(t, dependents, r.visited, set \ {i}, inside)

LoopChoice(t, dependents, visited, c, skip) ==
    CASE visited[c] = 2 -> NoLoop(visited)
      [] visited[c] = 1 -> [visited |-> visited, loop |-> TRUE]
      [] OTHER ->
           LET r == LoopSyms(t, dependents, [visited EXCEPT ![c] = 1],
                             ToSet(t.syms[c]) \ {skip}, c)
           IN  IF r.loop THEN r ELSE NoLoop([r.visited EXCEPT ![c] = 2])

DepLoop(t) ==
    LoopSyms(t, BuildDep(t), [i \in AllItems(t) |-> 0],
             {i \in AllItems(t) : IsSym(t, i)}, NoItem).loop

(* _check_sym_sanity and _check_choice_sanity: a malformed default raises    *)
(* KconfigError, the rest are warnings.                                      *)
Malformed(t) ==
    \E i \in AllItems(t) :
        /\ (IsSym(t, i) => t.type[i] \in {"int", "string"})
        /\ \E j \in DOMAIN t.defs[i] : t.defs[i][j].val.op \notin {"ref", "lit"}

\* What _init leaves: the finalized tree and the _dependents, or an error.
Finalize(tree) ==
    LET t == FinalizeTree(tree) IN
    Table([tree |-> t,
           error |-> Malformed(t) \/ DepLoop(t),
           dependents |-> AddChoiceDeps(t, BuildDep(t)),
           order |-> InOrder(t, "sym"),
           choices |-> InOrder(t, "choice"),
           nodes |-> [i \in AllItems(t) |-> NodesOf(t, i)],
           isSym |-> [i \in AllItems(t) |-> IsSym(t, i)]])
===============================================================================
