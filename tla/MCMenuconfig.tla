------------------------------ MODULE MCMenuconfig ------------------------------
(***************************************************************************)
(* The Kconfig trees, terminals and files the menuconfig runs check.       *)
(***************************************************************************)
EXTENDS Menuconfig, MenuTree, KconfigTrees

\* Menus of one, three and five rows; edit boxes of two, four and three columns.
Tiny == [height |-> 5, width |-> 4]
Small == [height |-> 7, width |-> 6]
Large == [height |-> 9, width |-> 5]
MCScreens == {Tiny, Small, Large}

Menuconfig1(i, in) == [Shown(i, in, "bool") EXCEPT !.menu = TRUE]

Files == [
    \* a menu that is longer than the terminal, and one that is not
    list |-> << Shown("A", 0, "bool"), Shown("B", 0, "bool"), Shown("C", 0, "bool"),
        Menu(0, Y, Y), Shown("D", 4, "bool"), Shown("E", 4, "bool"),
        Shown("F", 0, "bool"), Shown("G", 0, "bool") >>,
    \* an implicit menu, and a menu that is only visible if A
    menus |-> << Shown("A", 0, "bool"), [Shown("B", 0, "bool") EXCEPT !.dep = A],
        Menu(0, Y, A), Shown("C", 3, "bool"), [Shown("D", 3, "bool") EXCEPT !.dep = C] >>,
    \* a symbol that is a menu, and an invisible one with a visible child
    symbols |-> << Menuconfig1("A", 0), [Shown("B", 0, "bool") EXCEPT !.dep = A],
        [Shown("C", 0, "bool") EXCEPT !.prompt = Not(A), !.defaults = <<Def(Y, Y)>>],
        [Shown("D", 0, "bool") EXCEPT !.dep = C] >>,
    \* a choice in which a symbol comes and goes, and one has an entry below it
    choice |-> << Shown("A", 0, "bool"), Choice("K", 0, "bool"), Shown("B", 2, "bool"),
        [Shown("D", 2, "bool") EXCEPT !.dep = B], [Shown("C", 2, "bool") EXCEPT !.dep = A] >>,
    named |-> << Choice("K", 0, "bool"), Shown("A", 1, "bool"), Choice("K", 0, "unknown"),
        Shown("B", 3, "bool"), [Shown("A", 3, "bool") EXCEPT !.prompt = Ref("C")],
        Shown("C", 0, "bool") >>,
    \* a choice whose second definition is only listed with all nodes
    twice |-> << Choice("K", 0, "bool"), Shown("A", 1, "bool"), Shown("B", 1, "bool"),
        Choice("K", 0, "unknown"), [Shown("A", 4, "bool") EXCEPT !.prompt = N],
        [Shown("B", 4, "bool") EXCEPT !.prompt = N] >>,
    tristate |-> << Shown("MODULES", 0, "bool"),
        [Choice("K", 0, "tristate") EXCEPT !.optional = TRUE],
        Shown("A", 2, "tristate"), Shown("B", 2, "tristate") >>,
    select |-> << [Sym("MODULES", 0, "bool") EXCEPT !.defaults = <<Def(Y, Y)>>],
        [Shown("A", 0, "tristate") EXCEPT !.selects = <<Def(B, Y)>>],
        Shown("B", 0, "tristate"), [Shown("C", 0, "bool") EXCEPT !.dep = B] >>,
    \* a tristate symbol that m is the limit for, and that is y by default
    limited |-> << [Sym("MODULES", 0, "bool") EXCEPT !.defaults = <<Def(Y, Y)>>],
        [Shown("A", 0, "tristate") EXCEPT !.prompt = M, !.defaults = <<Def(Y, Y)>>],
        Shown("B", 0, "bool") >>,
    text |-> << [Shown("A", 0, "int") EXCEPT !.ranges = <<[low |-> Lit(1), high |-> Lit(2),
                                                          cond |-> Y]>>],
        [Shown("B", 0, "string") EXCEPT !.dep = Rel("=", A, Lit(2))],
        [Sym("C", 0, "string") EXCEPT !.defaults = <<Def(B, Y)>>] >>,
    \* a symbol that loses what the user gave it when A is not set
    files |-> << Shown("A", 0, "bool"),
        [Shown("B", 0, "bool") EXCEPT !.prompt = A, !.defaults = <<Def(Y, Y)>>],
        [Sym("C", 0, "int") EXCEPT !.defaults = <<Def(M, B)>>] >>,
    search |-> << [Shown("A", 0, "bool") EXCEPT !.defaults = <<Def(Y, Y)>>], Choice("K", 0, "bool"), Shown("B", 2, "bool"),
        Menu(0, A, Y), Shown("C", 4, "bool"), Sym("D", 4, "bool"),
        [Block("comment", 0, Y) EXCEPT !.prompt = Y] >>,
    typing |-> << Shown("A", 0, "bool"), Shown("B", 0, "bool") >>]

MCTrees == [id \in DOMAIN Files |-> Finalize(ParsedTree(Files[id]))]
MCUses == [id \in DOMAIN Files |->
    CASE id = "list" -> {"move", "resize", "menu", "help"}
      [] id \in {"menus", "symbols", "choice", "named", "twice"} -> {"move", "change", "menu", "all"}
      [] id \in {"tristate", "select", "text"} -> {"move", "change", "tri", "menu"}
      [] id = "limited" -> {"move", "change", "tri", "load", "save"}
      [] id = "files" -> {"move", "change", "load", "save"}
      [] id = "search" -> {"move", "jump", "info", "resize", "all"}
      [] id = "typing" -> {"jump", "type", "resize"}]
MCInputs == {EmptyString, 1, 2, 3}

NoFiles == [f \in FileNames |-> NoFile]
Stored(config, other) == [NoFiles EXCEPT ![".config"] = config, !["other"] = other]
MCStoredFiles == [id \in DOMAIN Files |->
    IF id = "files" THEN
        {NoFiles,
         Stored(<<Line("A", 2), Line("B", 2), Line("C", 1)>>,
                <<Line("B", 0), Line("A", 0), Line("C", 1)>>),
         Stored(<<Line("A", 2), Line("GONE", 2)>>, <<Line("A", 0), Line("B", 2)>>)}
    ELSE {NoFiles}]
MCTerminals == [id \in DOMAIN Files |->
    IF id = "list" THEN MCScreens ELSE IF id \in {"search", "typing"} THEN {Tiny, Large} ELSE {Small}]
===============================================================================
