------------------------------ MODULE KconfigEval ------------------------------
(***************************************************************************)
(* kconfiglib/kconfiglib.py: the values of symbols and choices, computed   *)
(* when they are asked for and kept until something they may depend on     *)
(* changes, and the .config files they are written to and read from.       *)
(*                                                                         *)
(* The state of a Kconfig object is a record k:                            *)
(*   final                  what _init left: Finalize of the parsed tree   *)
(*   user, mode, pick       Symbol.user_value, Choice.user_value and       *)
(*                          Choice.user_selection                          *)
(*   was                    the items with _was_set                        *)
(*   missing                missing_syms                                   *)
(*   vis, tri, str, asg, sel    the _cached_ fields                        *)
(*   write                  _write_to_conf                                 *)
(* An operator that evaluates returns [k |-> the state after, v |-> value],*)
(* since evaluating fills the caches.                                      *)
(***************************************************************************)
EXTENDS KconfigTree

NoAsg == {None} \* an empty _cached_assignable

ChoiceOf(k, s) == Tree(k).choice[s]
IsSymbol(k, i) == i \in DOMAIN k.final.isSym /\ k.final.isSym[i]
Symbols(k) == ToSet(k.final.order)
ChoiceItems(k) == ToSet(k.final.choices)

Least(a, b) == IF a < b THEN a ELSE b
Most(a, b) == IF a < b THEN b ELSE a
Got(k, v) == [k |-> k, v |-> v]
With(result, Then(_)) == Then(result)   \* what is evaluated next, after result

\* A Kconfig object right after _init: no user values, nothing cached.
NewKconfig(final) ==
    LET All(v) == [i \in DOMAIN final.isSym |-> v] IN
        [final |-> final, user |-> All(None), mode |-> All(None), pick |-> All(NoItem),
         was |-> {}, missing |-> {}, vis |-> All(None), tri |-> All(None),
         str |-> All(None), asg |-> All(NoAsg), sel |-> All("?"),
         write |-> All(FALSE)]

-------------------------------------------------------------------------------
\* Evaluation

\* The attributes that are evaluated in terms of each other.
RECURSIVE Get(_, _, _)
ExprValue(k, e) == Get(k, "expr_value", e)
TypeOf(k, i) == Get(k, "type", i)
TriValue(k, i) == Get(k, "tri_value", i)
StrValue(k, i) == Get(k, "str_value", i)
Visibility(k, i) == Get(k, "visibility", i)
ChoiceTri(k, c) == Get(k, "mode", c)
Selection(k, c) == Get(k, "selection", c)

Compare(rel, a, b) ==
    CASE rel = "=" -> a = b
      [] rel = "!=" -> a # b
      [] rel = "<" -> a < b
      [] rel = "<=" -> a <= b
      [] rel = ">" -> a > b
      [] rel = ">=" -> a >= b

\* An operand of a relation, as a number (_sym_to_num), or as the value it
\* is compared by when it is not one.
Operand(k, e) ==
    IF e.op = "lit" THEN Got(k, e.v)
    ELSE IF IsSymbol(k, e.i) /\ Type0(k, e.i) \in BoolTristate THEN TriValue(k, e.i)
    ELSE StrValue(k, e.i)

GetExprValue(k, e) ==
    CASE e.op = "lit" -> Got(k, e.v)
      [] e.op = "ref" -> TriValue(k, e.i)
      [] e.op = "and" -> With(ExprValue(k, e.l), LAMBDA a :
             IF a.v = 0 THEN a
             ELSE With(ExprValue(a.k, e.r), LAMBDA b : Got(b.k, Least(a.v, b.v))))
      [] e.op = "or" -> With(ExprValue(k, e.l), LAMBDA a :
             IF a.v = 2 THEN a
             ELSE With(ExprValue(a.k, e.r), LAMBDA b : Got(b.k, Most(a.v, b.v))))
      [] e.op = "not" -> With(ExprValue(k, e.e), LAMBDA a : Got(a.k, 2 - a.v))
      [] e.op = "rel" -> With(Operand(k, e.l), LAMBDA a :
             With(Operand(a.k, e.r), LAMBDA b :
                 Got(b.k, IF Compare(e.rel, a.v, b.v) THEN 2 ELSE 0)))

\* The first property whose condition is not n, from the i-th on: its place
\* (0 if there is none) and the value of the condition.
RECURSIVE FirstActive(_, _, _)
FirstActive(k, props, i) ==
    IF i > Len(props) THEN [k |-> k, v |-> 0, i |-> 0]
    ELSE With(ExprValue(k, props[i].cond), LAMBDA c :
             IF c.v # 0 THEN [k |-> c.k, v |-> c.v, i |-> i]
             ELSE FirstActive(c.k, props, i + 1))

\* kconfig.modules.tri_value
Modules(k) == IF Tree(k).modules = NoItem THEN Got(k, 0) ELSE TriValue(k, Tree(k).modules)

\* Symbol.type and Choice.type
GetType(k, i) ==
    LET ByModules(k1) == With(Modules(k1), LAMBDA m :
            Got(m.k, IF m.v = 0 THEN "bool" ELSE "tristate"))
    IN  IF Type0(k, i) # "tristate" THEN Got(k, Type0(k, i))
        ELSE With(IF ChoiceOf(k, i) = NoItem THEN Got(k, 0) ELSE ChoiceTri(k, ChoiceOf(k, i)),
                  LAMBDA c : IF c.v = 2 THEN Got(c.k, "bool") ELSE ByModules(c.k))

\* m is y for what is not tristate.
PromoteM(k, i, v) ==
    IF v # 1 THEN Got(k, v)
    ELSE With(TypeOf(k, i), LAMBDA t : Got(t.k, IF t.v = "tristate" THEN 1 ELSE 2))

\* The largest value of the prompt conditions of the nodes.
RECURSIVE PromptVis(_, _, _, _)
PromptVis(k, nodes, i, vis) ==
    IF i > Len(nodes) THEN Got(k, vis)
    ELSE With(IF Tree(k).prompt[nodes[i]] = NoPrompt THEN Got(k, 0)
              ELSE ExprValue(k, Tree(k).prompt[nodes[i]]),
              LAMBDA p : PromptVis(p.k, nodes, i + 1, Most(vis, p.v)))

\* _visibility: in a tristate choice, a bool symbol is only visible in y mode,
\* and a tristate symbol at m is not visible in y mode.
ComputeVis(k, i) ==
    LET c == ChoiceOf(k, i)
        mixed == c # NoItem /\ Type0(k, c) = "tristate" /\ Type0(k, i) # "tristate"
        Hidden(v, mode) == IF mixed THEN mode # 2 ELSE v = 1 /\ mode = 2
    IN  With(PromptVis(k, k.final.nodes[i], 1, 0), LAMBDA p :
            IF mixed \/ (c # NoItem /\ Type0(k, i) = "tristate" /\ p.v = 1)
            THEN With(ChoiceTri(p.k, c), LAMBDA mode :
                     IF Hidden(p.v, mode.v) THEN Got(mode.k, 0)
                     ELSE PromoteM(mode.k, i, p.v))
            ELSE PromoteM(p.k, i, p.v))

\* The visibility property, which caches it.
GetVisibility(k, i) ==
    IF k.vis[i] # None THEN Got(k, k.vis[i])
    ELSE With(ComputeVis(k, i), LAMBDA r : Got([r.k EXCEPT !.vis[i] = r.v], r.v))

(* Symbol.tri_value of a symbol outside choices: the user value or the       *)
(* first default with the implies; then the selects; then m becomes y where  *)
(* there is no m.  w is _write_to_conf so far.                               *)
Written(k, v, w) == [k |-> k, v |-> v, w |-> w]

\* Defaults of bool and tristate symbols
DefaultTri(k, s) ==
    With(FirstActive(k, Tree(k).defs[s], 1), LAMBDA d :
        IF d.i = 0 THEN Got(d.k, 0)
        ELSE With(ExprValue(d.k, Tree(k).defs[s][d.i].val), LAMBDA v :
                 Got(v.k, Least(v.v, d.v))))

OwnValue(k, s, vis) ==
    IF vis # 0 /\ k.user[s] # None THEN Written(k, Least(k.user[s], vis), TRUE)
    ELSE With(DefaultTri(k, s), LAMBDA def :
         With(ExprValue(def.k, Tree(k).weak[s]), LAMBDA implied :
         With(IF implied.v = 0 THEN implied ELSE ExprValue(implied.k, Tree(k).direct[s]),
              LAMBDA direct :
                  IF implied.v # 0 /\ direct.v # 0
                  THEN Written(direct.k, Most(implied.v, def.v), TRUE)
                  ELSE Written(direct.k, def.v, vis # 0 \/ def.v # 0))))

\* The value of the selects; the direct dependencies are only read to warn.
Selects(k, s) ==
    With(ExprValue(k, Tree(k).rev[s]), LAMBDA rev :
        IF rev.v = 0 THEN rev
        ELSE With(ExprValue(rev.k, Tree(k).direct[s]), LAMBDA d : Got(d.k, rev.v)))

\* m is y for a bool symbol and for one that is implied to y.
WithoutM(k, s, v) ==
    IF v # 1 THEN Got(k, v)
    ELSE With(TypeOf(k, s), LAMBDA t :
             IF t.v = "bool" THEN Got(t.k, 2)
             ELSE With(ExprValue(t.k, Tree(k).weak[s]), LAMBDA weak :
                      Got(weak.k, IF weak.v = 2 THEN 2 ELSE 1)))

FreeTri(k, s, vis) ==
    With(OwnValue(k, s, vis), LAMBDA own :
    With(Selects(own.k, s), LAMBDA rev :
    With(WithoutM(rev.k, s, Most(rev.v, own.v)), LAMBDA val :
        Written(val.k, val.v, own.w \/ rev.v # 0))))

\* Mutant: in y mode the user value counts, not the selection
ChoiceSymTriUser(k, s, vis) ==
    [k |-> k, w |-> vis # 0, v |-> IF vis = 0 \/ k.user[s] = None THEN 0
                                   ELSE Least(k.user[s], vis)]

\* Symbol.tri_value of a choice symbol: it is the selection, or has a user
\* value in m mode.
ChoiceSymTri(k, s, vis) ==
    IF vis = 2
    THEN With(Selection(k, ChoiceOf(k, s)), LAMBDA sel :
             Written(sel.k, IF sel.v = s THEN 2 ELSE 0, TRUE))
    ELSE Written(k, IF vis # 0 /\ k.user[s] \notin {None, 0} THEN 1 ELSE 0, vis # 0)

GetTriValue(k, i) ==
    IF ~IsSymbol(k, i) THEN IF i \in ChoiceItems(k) THEN ChoiceTri(k, i) ELSE Got(k, 0)
    ELSE IF k.tri[i] # None THEN Got(k, k.tri[i])
    ELSE IF Type0(k, i) \notin BoolTristate THEN Got([k EXCEPT !.tri[i] = 0], 0)
    ELSE With(Visibility(k, i), LAMBDA vis :
         With(IF ChoiceOf(k, i) = NoItem THEN FreeTri(vis.k, i, vis.v)
              ELSE ChoiceSymTri(vis.k, i, vis.v),
              LAMBDA r : Got([r.k EXCEPT !.tri[i] = r.v, !.write[i] = r.w], r.v)))

\* Choice.tri_value, the mode of the choice.  It is not cached.
GetMode(k, c) ==
    LET own == Most(IF c \in Tree(k).optional THEN 0 ELSE 1,
                    IF k.mode[c] = None THEN 0 ELSE k.mode[c])
    IN  With(Visibility(k, c), LAMBDA vis :
            IF Least(own, vis.v) # 1 THEN Got(vis.k, Least(own, vis.v))
            ELSE With(TypeOf(vis.k, c), LAMBDA t :
                     Got(t.k, IF t.v = "bool" THEN 2 ELSE 1)))

RECURSIVE FirstVisible(_, _, _)
FirstVisible(k, syms, i) ==
    IF i > Len(syms) THEN Got(k, NoItem)
    ELSE With(Visibility(k, syms[i]), LAMBDA vis :
             IF vis.v # 0 THEN Got(vis.k, syms[i]) ELSE FirstVisible(vis.k, syms, i + 1))

\* _selection_from_defaults, from the i-th default on.
RECURSIVE DefaultSelection(_, _, _)
DefaultSelection(k, c, i) ==
    With(FirstActive(k, Tree(k).defs[c], i), LAMBDA d :
        IF d.i = 0 THEN FirstVisible(d.k, Tree(k).syms[c], 1)
        ELSE With(Visibility(d.k, Tree(k).defs[c][d.i].val.i), LAMBDA vis :
                 IF vis.v # 0 THEN Got(vis.k, Tree(k).defs[c][d.i].val.i)
                 ELSE DefaultSelection(vis.k, c, d.i + 1)))

ComputeSelection(k, c) ==
    With(ChoiceTri(k, c), LAMBDA mode :
        IF mode.v # 2 THEN Got(mode.k, NoItem)
        ELSE With(IF k.pick[c] = NoItem THEN Got(mode.k, 0) ELSE Visibility(mode.k, k.pick[c]),
                  LAMBDA vis : IF vis.v # 0 THEN Got(vis.k, k.pick[c])
                               ELSE DefaultSelection(vis.k, c, 1)))

GetSelection(k, c) ==
    IF k.sel[c] # "?" THEN Got(k, k.sel[c])
    ELSE With(ComputeSelection(k, c), LAMBDA r : Got([r.k EXCEPT !.sel[c] = r.v], r.v))

(* Symbol.str_value.  Of bool and tristate symbols it is the tristate value; *)
(* int symbols take the user value or the first default into the active      *)
(* range, strings take either as it is.                                      *)
ConstOrStr(k, e) == IF e.op = "lit" THEN Got(k, e.v) ELSE StrValue(k, e.i)

NumberOf(k, e) == With(ConstOrStr(k, e), LAMBDA v :
    Got(v.k, IF v.v = EmptyString THEN 0 ELSE v.v))

RangeOf(k, s) ==
    With(FirstActive(k, Tree(k).rngs[s], 1), LAMBDA r :
        IF r.i = 0 THEN [k |-> r.k, active |-> FALSE, low |-> 0, high |-> 0]
        ELSE With(NumberOf(r.k, Tree(k).rngs[s][r.i].low), LAMBDA low :
             With(NumberOf(low.k, Tree(k).rngs[s][r.i].high), LAMBDA high :
                 [k |-> high.k, active |-> TRUE, low |-> low.v, high |-> high.v])))

DefaultStr(k, s) ==
    With(FirstActive(k, Tree(k).defs[s], 1), LAMBDA d :
        IF d.i = 0 THEN Written(d.k, EmptyString, FALSE)
        ELSE With(ConstOrStr(d.k, Tree(k).defs[s][d.i].val), LAMBDA v :
                 Written(v.k, v.v, TRUE)))

Clamp(range, v) ==
    LET num == IF v = EmptyString THEN 0 ELSE v IN
    IF range.active /\ num < range.low THEN range.low
    ELSE IF range.active /\ num > range.high THEN range.high ELSE v

IntStr(k, s, vis) ==
    With(RangeOf(k, s), LAMBDA range :
        IF /\ vis # 0 /\ k.user[s] # None
           /\ range.active => k.user[s] \in range.low..range.high
        THEN Written(range.k, k.user[s], TRUE)
        ELSE With(DefaultStr(range.k, s), LAMBDA def :
                 Written(def.k, Clamp(range, def.v), vis # 0 \/ def.w)))

StringStr(k, s, vis) ==
    IF vis # 0 /\ k.user[s] # None THEN Written(k, k.user[s], TRUE)
    ELSE With(DefaultStr(k, s), LAMBDA def : Written(def.k, def.v, vis # 0 \/ def.w))

GetStrValue(k, i) ==
    IF ~IsSymbol(k, i) THEN TriValue(k, i)
    ELSE IF k.str[i] # None THEN Got(k, k.str[i])
    ELSE IF Type0(k, i) \in BoolTristate
    THEN With(TriValue(k, i), LAMBDA r : Got([r.k EXCEPT !.str[i] = r.v], r.v))
    ELSE With(Visibility(k, i), LAMBDA vis :
         With(IF Type0(k, i) = "int" THEN IntStr(vis.k, i, vis.v)
              ELSE StringStr(vis.k, i, vis.v),
              LAMBDA r : Got([r.k EXCEPT !.str[i] = r.v, !.write[i] = r.w], r.v)))

Get(k, attribute, i) ==
    CASE attribute = "tri_value" -> GetTriValue(k, i)
      [] attribute = "str_value" -> GetStrValue(k, i)
      [] attribute = "visibility" -> GetVisibility(k, i)
      [] attribute = "mode" -> GetMode(k, i)
      [] attribute = "selection" -> GetSelection(k, i)
      [] attribute = "type" -> GetType(k, i)
      [] attribute = "expr_value" -> GetExprValue(k, i)

\* The values of all symbols
ValuesOf(k) == [s \in Symbols(k) |-> StrValue(k, s).v]

-------------------------------------------------------------------------------
\* Symbol._assignable and Choice._assignable

SymAssignable(k, s) ==
    LET From(low) == {v \in {0, 1, 2} : v >= low}
        \* y visible: m is left out where it cannot be
        AtY(rev) == With(TypeOf(rev.k, s), LAMBDA type :
            IF type.v = "bool" THEN Got(type.k, From(rev.v) \ {1})
            ELSE With(ExprValue(type.k, Tree(k).weak[s]), LAMBDA weak :
                     Got(weak.k, IF weak.v = 2 THEN From(rev.v) \ {1} ELSE From(rev.v))))
        AtM(rev) == With(ExprValue(rev.k, Tree(k).weak[s]), LAMBDA weak :
                         Got(weak.k, IF weak.v = 2 THEN {0, 2} ELSE {0, 1}))
    IN  IF Type0(k, s) \notin BoolTristate THEN Got(k, {})
        ELSE With(Visibility(k, s), LAMBDA vis :
             IF vis.v = 0 THEN Got(vis.k, {})
             ELSE With(ExprValue(vis.k, Tree(k).rev[s]), LAMBDA rev :
                 CASE vis.v = 2 /\ ChoiceOf(k, s) # NoItem -> Got(rev.k, {2})
                   [] rev.v = 2 -> Got(rev.k, {2})
                   [] vis.v = 2 /\ ChoiceOf(k, s) = NoItem /\ rev.v < 2 -> AtY(rev)
                   [] vis.v = 1 /\ rev.v = 1 -> Got(rev.k, {1})
                   [] vis.v = 1 /\ rev.v = 0 -> AtM(rev)))

ChoiceAssignable(k, c) ==
    LET optional == IF c \in Tree(k).optional THEN {0} ELSE {}
    IN  With(Visibility(k, c), LAMBDA vis :
            CASE vis.v = 0 -> Got(vis.k, {})
              [] vis.v = 1 -> Got(vis.k, {1} \cup optional)
              [] vis.v = 2 -> With(TypeOf(vis.k, c), LAMBDA type :
                     Got(type.k, optional \cup IF type.v = "bool" THEN {2} ELSE {1, 2})))

Assignable(k, i) ==
    IF k.asg[i] # NoAsg THEN Got(k, k.asg[i])
    ELSE With(IF IsSymbol(k, i) THEN SymAssignable(k, i) ELSE ChoiceAssignable(k, i),
              LAMBDA r : Got([r.k EXCEPT !.asg[i] = r.v], r.v))

\* A tristate symbol or choice that is y by default though its prompt is limited
\* to m: it cannot be given the value it has.
LimitedToM(k, i) ==
    Type0(k, i) = "tristate" /\ Visibility(k, i).v = 1 /\ TriValue(k, i).v = 2

-------------------------------------------------------------------------------
\* Invalidation

Forget(k, i) ==
    [k EXCEPT !.vis[i] = None, !.tri[i] = None, !.str[i] = None,
              !.asg[i] = NoAsg, !.sel[i] = "?"]

InvalidateAll(k) ==
    LET empty == NewKconfig(k.final) IN
    [k EXCEPT !.vis = empty.vis, !.tri = empty.tri, !.str = empty.str,
              !.asg = empty.asg, !.sel = empty.sel]

\* Symbol._rec_invalidate and Choice._rec_invalidate: a dependent without a
\* cached visibility has nothing cached, and stops the search.
RECURSIVE RecInvalidate(_, _), InvalidateDependents(_, _)
InvalidateDependents(k, set) ==
    IF set = {} THEN k
    ELSE LET i == CHOOSE x \in set : TRUE IN
         InvalidateDependents(IF k.vis[i] # None THEN RecInvalidate(k, i) ELSE k,
                              set \ {i})

\* Mutant: only the item itself is recalculated
RecInvalidateSelf(k, i) == Forget(k, i)

RecInvalidate(k, i) ==
    IF i = Tree(k).modules THEN InvalidateAll(k)
    ELSE InvalidateDependents(Forget(k, i), k.final.dependents[i])

HasPrompt(k, i) ==
    \E n \in ToSet(k.final.nodes[i]) : Tree(k).prompt[n] # NoPrompt

InvalidateIfHasPrompt(k, s) == IF HasPrompt(k, s) THEN RecInvalidate(k, s) ELSE k

-------------------------------------------------------------------------------
\* Assigning values

ValidFor(type, v) ==
    CASE type = "bool" -> v \in {0, 2}
      [] type = "tristate" -> v \in {0, 1, 2}
      [] type = "int" -> v >= 0
      [] OTHER -> TRUE

\* Mutant: the shortcut for an unchanged value is taken for choice symbols too
SymSetValueShort(k, s, v) ==
    LET set == [k EXCEPT !.user[s] = v, !.was = @ \cup {s}] IN
    IF v = k.user[s] THEN [k EXCEPT !.was = @ \cup {s}]
    ELSE IF ~ValidFor(Type0(k, s), v) THEN k
    ELSE IF ChoiceOf(k, s) # NoItem /\ v = 2
    THEN RecInvalidate([set EXCEPT !.pick[ChoiceOf(k, s)] = s,
                                   !.was = @ \cup {ChoiceOf(k, s)}], ChoiceOf(k, s))
    ELSE InvalidateIfHasPrompt(set, s)

\* Symbol.set_value
SymSetValue(k, s, v) ==
    LET c == ChoiceOf(k, s)
        set == [k EXCEPT !.user[s] = v, !.was = @ \cup {s}]
    IN  IF v = k.user[s] /\ c = NoItem THEN [k EXCEPT !.was = @ \cup {s}]
        ELSE IF ~ValidFor(Type0(k, s), v) THEN k
        ELSE IF c # NoItem /\ v = 2
        THEN RecInvalidate([set EXCEPT !.pick[c] = s, !.was = @ \cup {c}], c)
        ELSE InvalidateIfHasPrompt(set, s)

\* Choice.set_value
ChoiceSetValue(k, c, v) ==
    IF v = k.mode[c] THEN [k EXCEPT !.was = @ \cup {c}]
    ELSE IF ~ValidFor(Type0(k, c), v) THEN k
    ELSE RecInvalidate([k EXCEPT !.mode[c] = v, !.was = @ \cup {c}], c)

SetValue(k, i, v) == IF IsSymbol(k, i) THEN SymSetValue(k, i, v) ELSE ChoiceSetValue(k, i, v)

\* Symbol.unset_value and Choice.unset_value
UnsetValue(k, i) ==
    IF IsSymbol(k, i)
    THEN IF k.user[i] = None THEN k
         ELSE InvalidateIfHasPrompt([k EXCEPT !.user[i] = None], i)
    ELSE IF k.mode[i] = None /\ k.pick[i] = NoItem THEN k
         ELSE RecInvalidate([k EXCEPT !.mode[i] = None, !.pick[i] = NoItem], i)

RECURSIVE UnsetEach(_, _)
UnsetEach(k, items) ==
    IF items = <<>> THEN k ELSE UnsetEach(UnsetValue(k, Head(items)), Tail(items))

\* Kconfig.unset_values
UnsetValues(k) == UnsetEach(k, k.final.order \o k.final.choices)

-------------------------------------------------------------------------------
(* .config files.  A file is a sequence of assignments [sym, val]; n of a     *)
(* bool or tristate symbol stands for "# CONFIG_FOO is not set".              *)

\* Mutant: the mode of the choice is not set
LoadLineNoMode(k, line) ==
    LET s == line.sym IN
    IF ~IsSymbol(k, s) THEN [k EXCEPT !.missing = @ \cup {s}] ELSE SymSetValue(k, s, line.val)

\* _load_config, one assignment: the mode of a choice is inferred from the
\* values of its symbols.
LoadLine(k, line) ==
    LET s == line.sym
        c == ChoiceOf(k, s)
        mode == IF Type0(k, s) \in BoolTristate /\ c # NoItem /\ line.val # 0
                THEN ChoiceSetValue(k, c, line.val) ELSE k
    IN  IF ~IsSymbol(k, s) THEN [k EXCEPT !.missing = @ \cup {s}]
        ELSE IF Type0(k, s) \in BoolTristate /\ ~ValidFor(Type0(k, s), line.val) THEN k
        ELSE SymSetValue(mode, s, line.val)

RECURSIVE LoadLines(_, _)
LoadLines(k, file) ==
    IF file = <<>> THEN k ELSE LoadLines(LoadLine(k, Head(file)), Tail(file))

\* Mutant: the values the file does not set stay
LoadConfigKeeps(k, file, replace) ==
    LoadLines(IF replace THEN [k EXCEPT !.was = {}, !.missing = {}] ELSE k, file)

\* Kconfig.load_config: when replacing, what the file did not set is unset.
LoadConfig(k, file, replace) ==
    LET start == IF replace THEN [k EXCEPT !.was = {}, !.missing = {}] ELSE k
        read == LoadLines(start, file)
        items == k.final.order \o k.final.choices
    IN  IF replace THEN UnsetEach(read, SelectSeq(items, LAMBDA i : i \notin read.was))
        ELSE read

(* What is written, symbol by symbol in the order of their definitions.      *)
\* Symbol.config_string: at most one line.
ConfigString(k, s) ==
    With(StrValue(k, s), LAMBDA str :
        Got(str.k, IF str.k.write[s] THEN <<[sym |-> s, val |-> str.v]>> ELSE <<>>))

RECURSIVE ConfigLines(_, _)
ConfigLines(k, syms) ==
    IF syms = <<>> THEN Got(k, <<>>)
    ELSE With(ConfigString(k, Head(syms)), LAMBDA line :
         With(ConfigLines(line.k, Tail(syms)), LAMBDA rest : Got(rest.k, line.v \o rest.v)))

\* _config_contents
ConfigContents(k) == ConfigLines(k, k.final.order)

\* Symbol._str_default
StrDefault(k, s) ==
    IF Type0(k, s) \notin BoolTristate THEN DefaultStr(k, s)
    ELSE IF ChoiceOf(k, s) # NoItem THEN Got(k, 0)
    ELSE With(DefaultTri(k, s), LAMBDA def :
         With(ExprValue(def.k, Tree(k).rev[s]), LAMBDA rev :
         With(ExprValue(rev.k, Tree(k).weak[s]), LAMBDA weak :
         With(Most(Most(rev.v, weak.v), def.v), LAMBDA val :
             IF val # 1 THEN Got(weak.k, val)
             ELSE With(TypeOf(weak.k, s), LAMBDA t :
                      Got(t.k, IF t.v = "bool" THEN 2 ELSE 1))))))

\* The three tests of _min_config_contents that leave a symbol out.
Unchangeable(k, s) ==
    IF ChoiceOf(k, s) # NoItem THEN Got(k, FALSE)
    ELSE With(Visibility(k, s), LAMBDA vis :
         With(ExprValue(vis.k, Tree(k).rev[s]), LAMBDA rev : Got(rev.k, vis.v <= rev.v)))

AtDefault(k, s) ==
    With(StrValue(k, s), LAMBDA str :
    With(StrDefault(str.k, s), LAMBDA def : Got(def.k, str.v = def.v)))

SelectedByDefault(k, s) ==
    IF ChoiceOf(k, s) \in Tree(k).optional \cup {NoItem} THEN Got(k, FALSE)
    ELSE With(DefaultSelection(k, ChoiceOf(k, s), 1), LAMBDA sel :
         IF sel.v # s \/ Type0(k, s) # "bool" THEN Got(sel.k, FALSE)
         ELSE With(TriValue(sel.k, s), LAMBDA tri : Got(tri.k, tri.v = 2)))

RECURSIVE MinConfigLines(_, _)
MinConfigLines(k, syms) ==
    IF syms = <<>> THEN Got(k, <<>>)
    ELSE LET Skip(result, Test(_, _)) ==
                 IF result.v THEN result ELSE Test(result.k, Head(syms))
         IN  With(Skip(Skip(Skip(Got(k, FALSE), Unchangeable), AtDefault), SelectedByDefault),
                  LAMBDA skip :
             With(IF skip.v THEN Got(skip.k, <<>>) ELSE ConfigString(skip.k, Head(syms)),
                  LAMBDA line :
             With(MinConfigLines(line.k, Tail(syms)), LAMBDA rest :
                  Got(rest.k, line.v \o rest.v))))

\* _min_config_contents
MinConfigContents(k) == MinConfigLines(k, k.final.order)
===============================================================================
