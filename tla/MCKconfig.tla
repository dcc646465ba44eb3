------------------------------- MODULE MCKconfig -------------------------------
(***************************************************************************)
(* The Kconfig trees the runs check, and the values of the constants.      *)
(***************************************************************************)
EXTENDS Kconfig, KconfigTrees

Modular == Shown("MODULES", 0, "bool")

Pair == << Shown("A", 0, "bool"), [Shown("B", 0, "int") EXCEPT !.dep = A] >>

Small == [
    \* m and n by selects and implies, with and without MODULES
    select |-> << Modular,
        [Shown("A", 0, "tristate") EXCEPT !.selects = <<Def(C, Y)>>],
        [Shown("C", 0, "tristate") EXCEPT !.dep = Ref("MODULES")] >>,
    imply |-> << [Sym("MODULES", 0, "bool") EXCEPT !.defaults = <<Def(Y, Y)>>],
        [Shown("A", 0, "tristate") EXCEPT !.implies = <<Def(B, Y)>>],
        [Shown("B", 0, "tristate") EXCEPT !.prompt = A, !.defaults = <<Def(M, Y)>>] >>,
    \* a tristate symbol that m is the limit for, and that is y by default
    limited |-> << [Sym("MODULES", 0, "bool") EXCEPT !.defaults = <<Def(Y, Y)>>],
        [Shown("A", 0, "tristate") EXCEPT !.prompt = M, !.defaults = <<Def(Y, B)>>],
        Shown("B", 0, "bool") >>,
    \* a bool choice whose visibility and default depend on A
    choice |-> << Shown("A", 0, "bool"),
        [Choice("K", 0, "bool") EXCEPT !.defaults = <<Def(C, A)>>],
        Shown("B", 2, "bool"), [Shown("C", 2, "bool") EXCEPT !.dep = Not(A)] >>,
    \* a tristate choice with a bool symbol
    mixed |-> << Modular, Choice("K", 0, "tristate"),
        Shown("A", 2, "tristate"), Shown("B", 2, "bool") >>,
    optional |-> << [Sym("MODULES", 0, "bool") EXCEPT !.defaults = <<Def(Y, Y)>>],
        [Choice("K", 0, "tristate") EXCEPT !.optional = TRUE],
        Shown("A", 2, "tristate"), Shown("B", 2, "tristate") >>,
    \* a choice defined in two places
    named |-> << [Choice("K", 0, "bool") EXCEPT !.type = "bool"], Shown("A", 1, "bool"),
        [Choice("K", 0, "unknown") EXCEPT !.prompt = Not(C)], Shown("B", 3, "bool"),
        Shown("C", 0, "bool") >>,
    \* a range that moves, and a string
    range |-> << [Shown("A", 0, "int") EXCEPT !.defaults = <<Def(M, Y)>>],
        [Shown("B", 0, "int") EXCEPT !.ranges = <<[low |-> Lit(1), high |-> A, cond |-> Y]>>,
                                     !.defaults = <<Def(Lit(0), Y)>>],
        [Sym("C", 0, "bool") EXCEPT !.defaults = <<Def(Y, Rel("<", B, A))>>] >>,
    text |-> << Shown("A", 0, "string"),
        [Shown("B", 0, "bool") EXCEPT !.dep = Rel("!=", A, Lit(EmptyString))],
        [Sym("C", 0, "string") EXCEPT !.defaults = <<Def(A, B), Def(Lit(1), Y)>>] >>,
    \* menus: an if, an implicit menu in it, visible if
    menus |-> << Shown("A", 0, "bool"), Block("if", 0, A), Shown("B", 2, "bool"),
        [Shown("C", 2, "bool") EXCEPT !.dep = B], Menu(0, Y, Not(B)),
        [Shown("D", 5, "bool") EXCEPT !.defaults = <<Def(Y, A)>>], Block("comment", 5, B) >>,
    \* for sync_deps, and for saving
    build |-> Pair, files |-> Pair]

\* Three symbols that may depend on each other in every way, two of them in a
\* choice or not: for the dependency loops.
On(e, i) == IF i = "no" THEN e ELSE Ref(i)
Props(i) == IF i = "no" THEN <<>> ELSE <<Def(Ref(i), Y)>>
Loops == {"loops"} \X {"no", "B", "C"} \X {"no", "B", "C"} \X {"no", "A", "C"}
         \X {"no", "A", "B"} \X {"no", "A", "B"} \X {"no", "C"} \X {"in", "out"}

LoopTree(id) ==
    LET in == IF id[8] = "in" THEN 1 ELSE 0 IN
    << [Choice("K", 0, "bool") EXCEPT !.prompt = On(Y, id[7])],
       [Shown("A", in, "bool") EXCEPT !.dep = On(Y, id[2]), !.defaults = Props(id[3])],
       [Shown("B", in, "bool") EXCEPT !.dep = On(Y, id[4])],
       [Shown("C", 0, "bool") EXCEPT !.dep = On(Y, id[5]), !.selects = Props(id[6])] >>

\* Three nodes of every kind in each other, and symbols after them: for the
\* moves into and out of menus.
Shapes == {id \in {"shape"} \X {"if", "sym", "menu"} \X {"if", "menu", "choice"} \X (0..1)
                  \X {"if", "sym", "hidden", "comment"} \X (0..2) \X (0..3) :
             /\ (id[4] = 1 => id[2] # "sym") /\ (id[6] = 1 => id[2] # "sym")
             /\ (id[7] = 1 => id[2] # "sym") /\ (id[7] = 3 => id[5] = "if")}

ShapeTree(id) ==
    LET Node(kind, i, in) ==
            CASE kind = "sym" -> [Shown(i, in, "bool") EXCEPT !.dep = A]
              [] kind = "hidden" -> Sym(i, in, "bool")
              [] kind = "choice" -> [Choice(i, in, "bool") EXCEPT !.dep = A]
              [] kind = "menu" -> Menu(in, A, Not(Ref("E")))
              [] OTHER -> [Block(kind, in, A) EXCEPT !.prompt =
                               IF kind = "comment" THEN Y ELSE NoPrompt]
    IN  << Node(id[2], "B", 0), Node(id[3], "C", id[4]), Node(id[5], "D", id[6]),
           Shown("A", id[7], "bool"), [Shown("E", id[7], "bool") EXCEPT !.dep = A],
           [Shown("F", 0, "bool") EXCEPT !.prompt = Ref("E")] >>

\* Whether the nodes are in parse order: nothing is put in a block that ended.
Parsable(nodes) ==
    \A n \in DOMAIN nodes : \A m \in nodes[n].in + 1..n - 1 : nodes[m].in >= nodes[n].in

AllTrees == Table([id \in {<<c>> : c \in DOMAIN Small} \cup Loops
                          \cup {s \in Shapes : Parsable(ShapeTree(s))} |->
    ParsedTree(CASE id[1] = "loops" -> LoopTree(id)
                 [] id[1] = "shape" -> ShapeTree(id)
                 [] OTHER -> Small[id[1]])])

\* Which calls are made on which trees.
AllUses == [id \in DOMAIN AllTrees |->
    CASE id[1] \in {"select", "imply", "limited"} -> {"read", "assign", "unassign", "load"}
      [] id[1] \in {"range", "text"} -> {"read", "assign", "unassign"}
      [] id[1] \in {"choice", "named", "menus"} -> {"show", "assign", "unassign", "load"}
      [] id[1] \in {"mixed", "optional"} -> {"show", "assign", "load"}
      [] id[1] = "build" -> {"assign", "sync"}
      [] id[1] = "files" -> {"assign", "save"}
      [] OTHER -> {}]
MCInputs == {0, 1, 2}
AllHandFiles == [id \in DOMAIN AllTrees |->
    IF Len(id) > 1 THEN {}
    ELSE {<<Line("A", 2), Line("B", 2)>>, <<Line("B", 0), Line("A", 1), Line("GONE", 2)>>}]

\* TLC evaluates a definition without parameters once, but not one that a .cfg
\* gives a constant.
MCTrees == AllTrees
MCUses == AllUses
MCHandFiles == AllHandFiles
===============================================================================
