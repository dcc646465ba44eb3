-------------------------------- MODULE Kconfig --------------------------------
(***************************************************************************)
(* A Kconfig object in use: values are read (which fills its caches) and   *)
(* assigned in any order, .config files are loaded and written, and        *)
(* sync_deps tells the build what changed.                                 *)
(*                                                                         *)
(* Everything runs in one Python process, so a call is one action.  What a *)
(* call leaves on the disk stays when it fails or the process is killed    *)
(* half way: such a call is an action too, with the place it got to.       *)
(* The disk, and what it has to do with the values, is that of ConfigFiles.*)
(***************************************************************************)
EXTENDS KconfigEval, ConfigFiles

CONSTANTS
    Trees,       \* the Kconfig files: [id -> a parsed tree]
    Uses,        \* [id -> SUBSET Calls], bound:
                 \*   which calls are made on a configuration
    Inputs,      \* values that are assigned
    HandFiles,   \* [id -> the .config files written by hand that are loaded]
    MaxValues,   \* bound: items that have a user value at the same time
    MaxCrashes   \* bound: interrupted saves

Calls == {"read", "show", "assign", "unassign", "load", "sync", "save"}

ASSUME KconfigAssumption ==
    /\ \A c \in DOMAIN Trees : Uses[c] \subseteq Calls
    /\ MaxValues \in Nat
    /\ MaxCrashes \in Nat

VARIABLES
    conf,     \* the Kconfig files that are used
    kc        \* the Kconfig object

vars == <<conf, kc, output, auto, touched, built, synced, lost, config, old, crashes>>
disk == <<conf, auto, touched, built, synced, lost, config, old, crashes>>

Absent == [state |-> "absent", lines |-> <<>>]
Torn(lines) == [state |-> "torn", lines |-> lines]   \* the start of a file
Whole(lines) == [state |-> "whole", lines |-> lines]

Error == kc.final.error
Used(call) == ~Error /\ call \in Uses[conf]
OnSymbols(v) == [s \in Symbols(kc) |-> v]

\* What a symbol is in autoconf.h: None for n and for what is not written.
Output(k, s) ==
    LET line == ConfigString(k, s).v IN
    IF line = <<>> THEN None
    ELSE IF Type0(k, s) \in BoolTristate /\ line[1].val = 0 THEN None ELSE line[1].val

RECURSIVE ReadItems(_, _)
ReadItems(k, items) ==
    IF items = {} THEN k
    ELSE LET i == CHOOSE x \in items : TRUE
             value == IF IsSymbol(k, i) THEN StrValue(k, i) ELSE Selection(k, i)
         IN  ReadItems(Assignable(value.k, i).k, items \ {i})

\* A tree with an error is refused, and one that is only finalized is not
\* asked for a value.
Evaluated(k) == ~k.final.error /\ Uses[conf] # {}
Outputs(k) == [s \in Symbols(k) |-> IF Evaluated(k) THEN Output(k, s) ELSE None]

Init ==
    /\ conf \in DOMAIN Trees
    /\ kc = NewKconfig(Finalize(Trees[conf]))
    /\ output = Outputs(kc)
    /\ auto = OnSymbols(None)
    /\ touched = {}
    /\ built = OnSymbols(Unbuilt)
    /\ synced = FALSE
    /\ lost = {}
    /\ config = Absent
    /\ old = Absent
    /\ crashes = 0

-------------------------------------------------------------------------------
\* Reading and assigning values

Becomes(k) == kc' = k /\ output' = Outputs(k)

\* What a menu reads of an item.  The other attributes are read on the way.
ReadItem(k, i) ==
    LET value == IF IsSymbol(k, i) THEN StrValue(k, i) ELSE Selection(k, i)
    IN  {value.k, Assignable(k, i).k}

Read ==
    /\ Used("read")
    /\ \E i \in Symbols(kc) \cup ChoiceItems(kc) : \E k \in ReadItem(kc, i) : Becomes(k)
    /\ UNCHANGED disk

\* Everything is read, as for a menu with all symbols on the screen.
ReadAll ==
    /\ Used("show")
    /\ Becomes(ReadItems(kc, Symbols(kc) \cup ChoiceItems(kc)))
    /\ UNCHANGED disk

Changed(k) ==
    /\ Becomes(k)
    /\ synced' = FALSE
    /\ UNCHANGED <<conf, auto, touched, built, lost, config, old, crashes>>

Assigned(k) == {i \in DOMAIN k.user : k.user[i] # None \/ k.mode[i] # None}

Assign ==
    /\ Used("assign")
    /\ \E i \in Symbols(kc) \cup ChoiceItems(kc), v \in Inputs :
          /\ Cardinality(Assigned(kc) \cup {i}) <= MaxValues
          /\ Changed([SetValue(kc, i, v) EXCEPT !.was = {}])

Unassign ==
    /\ Used("unassign")
    /\ \E i \in Symbols(kc) \cup ChoiceItems(kc) : Changed(UnsetValue(kc, i))

UnassignAll ==
    /\ Used("unassign")
    /\ Changed(UnsetValues(kc))

\* load_config of a file written by hand, replacing or merging.
Load ==
    /\ Used("load")
    /\ \E f \in HandFiles[conf], replace \in BOOLEAN :
          Changed([LoadConfig(kc, f, replace) EXCEPT !.was = {}, !.missing = {}])

-------------------------------------------------------------------------------
(* sync_deps: _load_old_vals, a touch for every symbol whose output differs  *)
(* from auto.conf, then _write_old_vals.  It may fail after any touch, and   *)
(* while it writes auto.conf, which was truncated when it was opened.        *)

OldVals == auto

Stale == SelectSeq(kc.final.order, LAMBDA s : output[s] # OldVals[s])

TouchFirst(done) == touched' = touched \cup {Stale[j] : j \in 1..done}

\* auto.conf with the lines of the first symbols only
AutoUpTo(written) ==
    [s \in Symbols(kc) |-> IF s \in ToSet(SubSeq(kc.final.order, 1, written))
                           THEN output[s] ELSE None]

\* Mutant: auto.conf is written first
SyncDepsWriteFirst ==
    \E done \in 0..Len(Stale) :
        TouchFirst(done) /\ auto' = output /\ synced' = (done = Len(Stale))

SyncDeps ==
    \/ \E done \in 0..Len(Stale) : TouchFirst(done) /\ auto' = auto /\ synced' = FALSE
    \/ /\ TouchFirst(Len(Stale)) /\ auto # output /\ synced' = FALSE
       /\ \E written \in 0..Len(kc.final.order) : auto' = AutoUpTo(written)
    \/ TouchFirst(Len(Stale)) /\ auto' = output /\ synced' = TRUE

Sync ==
    /\ Used("sync")
    /\ SyncDeps
    /\ lost' = (lost \cup LostLines) \ touched'
    /\ Becomes(ConfigContents(kc).k)
    /\ UNCHANGED <<conf, built, config, old, crashes>>

Build ==
    /\ BuildSome
    /\ UNCHANGED <<conf, kc, output, auto, synced, lost, config, old, crashes>>

-------------------------------------------------------------------------------
(* write_config: nothing when the contents are the same; otherwise the file  *)
(* is renamed to .old and written.  reached is -1 before the file is opened, *)
(* then the number of lines that are in it.                                  *)

\* Mutant: the file is not renamed before it is written
SaveConfigOver(k, lines, reached) ==
    /\ Becomes(k)
    /\ old' = old
    /\ config' = CASE reached = -1 -> config
                   [] reached \in 0..Len(lines) - 1 -> Torn(SubSeq(lines, 1, reached))
                   [] OTHER -> Whole(lines)

SaveConfig(k, lines, reached) ==
    /\ config # Whole(lines)
    /\ Becomes(k)
    /\ old' = SavedOld
    /\ config' = CASE reached = -1 -> Absent
                   [] reached \in 0..Len(lines) - 1 -> Torn(SubSeq(lines, 1, reached))
                   [] OTHER -> Whole(lines)

Save ==
    /\ Used("save")
    /\ LET r == ConfigContents(kc) IN SaveConfig(r.k, r.v, Len(r.v))
    /\ UNCHANGED <<conf, auto, touched, built, synced, lost, crashes>>

\* The process is killed while it saves; the next one loads .config.
SaveKilled ==
    /\ Used("save")
    /\ crashes < MaxCrashes
    /\ LET r == ConfigContents(kc) IN
       \E reached \in -1..Len(r.v) - 1 : SaveConfig(NewKconfig(kc.final), r.v, reached)
    /\ crashes' = crashes + 1
    /\ synced' = FALSE
    /\ UNCHANGED <<conf, auto, touched, built, lost>>

\* load_config of .config
Reload ==
    /\ Used("save")
    /\ config # Absent
    /\ Changed([LoadConfig(kc, config.lines, TRUE) EXCEPT !.was = {}])

Next ==
    \/ Read \/ ReadAll \/ Assign \/ Unassign \/ UnassignAll \/ Load
    \/ Sync \/ Build
    \/ Save \/ SaveKilled \/ Reload

Spec == Init /\ [][Next]_vars

-------------------------------------------------------------------------------
\* Properties

\* What is kept of an evaluation is what the evaluation would give now:
\* nothing that is invalidated when a value changes leaves an old value
\* behind (_rec_invalidate stops at the first item that has nothing cached).
CacheCoherent ==
    LET now == InvalidateAll(kc) IN
    \A i \in AllItems(Tree(kc)) :
        /\ kc.vis[i] # None => kc.vis[i] = Visibility(now, i).v
        /\ kc.tri[i] # None => kc.tri[i] = TriValue(now, i).v
        /\ kc.str[i] # None => /\ kc.str[i] = StrValue(now, i).v
                               /\ kc.write[i] = StrValue(now, i).k.write[i]
        /\ kc.asg[i] # NoAsg => kc.asg[i] = Assignable(now, i).v
        /\ kc.sel[i] # "?" => kc.sel[i] = Selection(now, i).v

(* Which attributes an attribute of an item is evaluated from.  An attribute *)
(* that is evaluated from itself never returns.                              *)
AsksItems(t, items) ==
    {<<IF IsSym(t, i) THEN "value" ELSE "mode", i>> : i \in items \cap AllItems(t)}

AsksType(t, i) ==
    IF t.type[i] # "tristate" THEN {}
    ELSE AsksItems(t, {t.modules} \cup IF t.choice[i] = NoItem THEN {} ELSE {t.choice[i]})

Asks(t, attribute, i) ==
    CASE attribute = "vis" ->
           AsksItems(t, PromptItems(t, i) \cup IF t.choice[i] = NoItem THEN {} ELSE {t.choice[i]})
           \cup AsksType(t, i)
      [] attribute = "mode" -> {<<"vis", i>>} \cup AsksType(t, i)
      [] attribute = "selection" ->
           {<<"mode", i>>} \cup {<<"vis", s>> : s \in ToSet(t.syms[i])}
           \cup AsksItems(t, PropItems(t.defs[i]))
      [] attribute = "value" ->
           {<<"vis", i>>} \cup AsksType(t, i)
           \cup IF t.choice[i] # NoItem THEN {<<"selection", t.choice[i]>>}
                ELSE AsksItems(t, DependsOn(t, i))

RECURSIVE WithoutLoop(_, _)
WithoutLoop(t, asking) ==
    LET answered == {a \in asking : Asks(t, a[1], a[2]) \cap asking = {}} IN
    asking = {} \/ (answered # {} /\ WithoutLoop(t, asking \ answered))

\* The trees of the run that pass the check for dependency loops can be
\* evaluated: no attribute of an item is evaluated from itself, through choices
\* too.  (The check looks for loops between symbols and choices, not between
\* attributes; trees with a loop that it is known to miss are not in the run.)
EvaluationTerminates ==
    LET t == Tree(kc)
        symbols == {i \in AllItems(t) : IsSym(t, i)}
    IN  ~Error /\ kc = NewKconfig(kc.final) =>
        WithoutLoop(t, ({"value", "vis"} \X symbols)
                       \cup ({"vis", "mode", "selection"} \X (AllItems(t) \ symbols)))

RECURSIVE Walk(_, _)
Walk(t, nodes) ==
    IF nodes = <<>> THEN <<>>
    ELSE <<Head(nodes)>> \o Walk(t, t.list[Head(nodes)]) \o Walk(t, Tail(nodes))

\* However nodes are moved into implicit menus and out of ifs, walking the
\* tree meets every node but the ifs, once, in the order of the Kconfig files.
NothingLost ==
    LET t == Tree(kc) IN
    Walk(t, t.list[TopNode]) = SelectSeq(InParseOrder(t), LAMBDA n : t.kind[n] # "if")

\* The parents of node n in the Kconfig files, the top node apart.
RECURSIVE ParsedIn(_, _)
ParsedIn(tree, n) ==
    UNION {{p} \cup ParsedIn(tree, p) : p \in {q \in Nodes(tree) \ {TopNode} :
                                               n \in ToSet(tree.list[q])}}

ConditionsOf(tree, n) ==
    {tree.prompt[n], tree.dep[n]}
    \cup {tree.dep[p] : p \in ParsedIn(tree, n)}
    \cup {tree.visible[p] : p \in ParsedIn(tree, n)}

\* Outside choices, an item is as visible as the best of its prompts, and a
\* prompt is as visible as the least of its own condition, the dependencies of
\* its node and of everything the node was written in, and the "visible if"
\* of the menus around it; m is y where there is no m.
VisibilityFromParents ==
    LET tree == Trees[conf]
        now == InvalidateAll(kc)
        OutOfChoices(n) == \A p \in ParsedIn(tree, n) : tree.kind[p] # "choice"
        Limit(n) == Min({ExprValue(now, e).v : e \in ConditionsOf(tree, n)})
        Prompts(i) == {n \in ToSet(NodesOf(tree, i)) : tree.prompt[n] # NoPrompt}
    IN  ~Error => \A i \in AllItems(Tree(kc)) :
           (\A n \in ToSet(NodesOf(tree, i)) : OutOfChoices(n)) =>
           LET vis == Max({0} \cup {Limit(n) : n \in Prompts(i)}) IN
           Visibility(now, i).v =
               IF vis = 1 /\ TypeOf(now, i).v # "tristate" THEN 2 ELSE vis

\* In y mode a choice has exactly one symbol at y, and none at m, unless no
\* symbol is visible; in m mode it has none at y; in n mode all are n.
ChoiceExclusive ==
    LET now == InvalidateAll(kc) IN
    ~Error => \A c \in ChoiceItems(kc) :
        LET mode == ChoiceTri(now, c).v
            symbols == ToSet(Tree(kc).syms[c])
            At(v) == {s \in symbols : TriValue(now, s).v = v}
        IN  /\ mode = 2 => /\ At(1) = {}
                           /\ Cardinality(At(2)) =
                                 IF \E s \in symbols : Visibility(now, s).v # 0 THEN 1 ELSE 0
            /\ mode = 1 => At(2) = {}
            /\ mode = 0 => At(0) = symbols

\* A value that is offered (assignable) is the value after it is assigned, and
\* an int symbol has a value in its range, whatever is assigned to it or to the
\* bounds of the range.
AssignableTakesEffect ==
    ~Error =>
        /\ \A i \in AllItems(Tree(kc)) : \A v \in Assignable(kc, i).v :
               TriValue(SetValue(kc, i, v), i).v = v
        /\ \A s \in {x \in Symbols(kc) : Type0(kc, x) = "int"} :
               LET range == RangeOf(kc, s)
                   value == NumberOf(kc, Ref(s)).v
               IN  range.active /\ range.low <= range.high => value \in range.low..range.high

\* Loading what was saved, as it is or as a minimal configuration, gives every
\* symbol the value it had.  (A minimal one does not where a tristate choice
\* has a bool symbol as its default: in y mode that symbol is left out as the
\* default selection, and the mode is lost with it.)  Excepted is a symbol that
\* m is the limit for and that is y by default: y is saved, and loaded as m.
RoundTrip ==
    ~Error /\ (\A s \in Symbols(kc) : ~LimitedToM(kc, s)) =>
      \A saved \in {ConfigContents(kc), MinConfigContents(kc)} :
        ValuesOf(LoadConfig(NewKconfig(kc.final), saved.v, TRUE)) = ValuesOf(saved.k)

\* Loading a file in place of the values there are gives what loading it first
\* would give, in what is assigned, in the modes of choices and in what is
\* picked in them.  Excepted is the pick of a choice that the file gives a mode
\* and no symbol at y (A=m): it stays as it was before, although load_config's
\* documentation has all user values cleared.  Where no pick stayed, all
\* values are the same too.
LoadReplaces ==
    \A f \in HandFiles[conf] :
        LET before == LoadConfig(kc, f, TRUE)
            first == LoadConfig(NewKconfig(kc.final), f, TRUE)
            OnlyMode(c) == first.mode[c] # None /\ first.pick[c] = NoItem
        IN  /\ before.user = first.user /\ before.mode = first.mode
            /\ \A c \in ChoiceItems(kc) : before.pick[c] = first.pick[c] \/ OnlyMode(c)
            /\ before.pick = first.pick => ValuesOf(before) = ValuesOf(first)

\* Whatever the symbols are and whichever calls are made, the disk is written
\* as ConfigFiles says, and reading, saving and sync_deps change no value.
ImplementsFiles == FilesSpec
===============================================================================
