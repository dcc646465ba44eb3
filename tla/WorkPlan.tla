------------------------------- MODULE WorkPlan -------------------------------
(***************************************************************************)
(* From the selected packages to a build that can be resumed.              *)
(*                                                                         *)
(* setup-blfs-work.sh and setup-patch-work.sh empty the work directory,    *)
(* put the packages to build in order, copy their scripts under a number   *)
(* and write a makefile in which each script waits for the one before;     *)
(* setup-custom-work.sh adds the custom builds.  build-blfs-work.sh runs   *)
(* make on it.  Every command can be killed between two of its steps, and  *)
(* a script may fail; make is then run again.                              *)
(***************************************************************************)
EXTENDS Orders, SequencesExt

CONSTANTS
    Packages, Builds,
    Trees,       \* what the tree files may contain: a set of functions
    Actions,     \* the $ACTION that may be chosen
    Requests,    \* lists of packages to choose from
    BuildLists,  \* lists of custom builds to choose from
    UpToDate,    \* packages installed in the version of the book
    Versionless, \* packages the package list has no version of
    NoScript,    \* packages without a build script
    Installed,   \* custom builds that are installed
    Executable,  \* the files of custom builds with their x bit set
    Alphabet,    \* all names in the order ls sorts them
    MaxSetups, MaxKills

Names == Packages \cup Builds

ASSUME WorkPlanAssumption ==
    /\ Packages \cap Builds = {}
    /\ \A t \in Trees : t \in [DOMAIN t -> Seq(Packages)] /\ DOMAIN t \subseteq Packages
    /\ Actions \subseteq {"BUILDBLFS", "BUILDCUSTOM", "BUILDPATCH"}
    /\ Requests \subseteq Seq(Packages)
    /\ BuildLists \subseteq Seq(Builds)
    /\ UpToDate \cup Versionless \cup NoScript \subseteq Packages
    /\ Installed \cup Executable \subseteq Builds
    /\ Alphabet \in Seq(Names) /\ \A n \in Names : \E i \in 1..Len(Alphabet) : Alphabet[i] = n
    /\ MaxSetups \in Nat /\ MaxKills \in Nat

VARIABLES
    trees,    \* $DEPTREE_TREES
    action,   \* $ACTION
    pc,       \* the command that runs and how far it is
    todo,     \* the lines its loop has left
    workTree, \* $WORK_PKGS_TREE
    cnt,
    scripts,  \* the files in $BUILD_WORK/scripts: [order, name]
    exec,     \* those that can be executed
    copied,   \* scripts, in the order they were put there
    makefile, \* the scripts make is to run, last first, and the rules written
    touched,  \* the targets that exist, oldest first
    at,       \* the rule make has come to
    logs,     \* the packages with difflogs
    done,     \* the scripts that ran to their end since the directory was emptied
    result,   \* of the last command: "none", "planned", "built" or "failed"
    planned,  \* whether the last set-up came to its end
    cleared,  \* history: the difflogs were removed since the directory was emptied
    setups, kills

setupVars == <<workTree, cnt, scripts, exec, copied, makefile>>
buildVars == <<touched, at, logs, done>>
others == <<trees, action, planned, cleared, setups, kills>>
vars == <<others, pc, todo, setupVars, buildVars, result>>

NoMakefile == [chain |-> <<>>, rules |-> 0]

-------------------------------------------------------------------------------
\* Numbers as the names of the scripts have them, and what ls makes of them

Numeral(n) ==
    IF n < 1000
    THEN <<n \div 100, (n \div 10) % 10, n % 10>>
    ELSE <<n \div 1000, (n \div 100) % 10, (n \div 10) % 10, n % 10>>

\* At the first place where they differ, a ends or has the smaller digit.
TextBefore(a, b) ==
    \E i \in 1..Len(b) :
        /\ i <= Len(a) + 1
        /\ \A j \in 1..(i - 1) : a[j] = b[j]
        /\ i <= Len(a) => a[i] < b[i]

Rank(name) == CHOOSE i \in 1..Len(Alphabet) : Alphabet[i] = name

Listed(r, s) ==
    \/ TextBefore(r.order, s.order)
    \/ r.order = s.order /\ Rank(r.name) <= Rank(s.name)

Sorted(S) == InOrder(S, {p \in S \X S : Listed(p[1], p[2])})

\* The value of at most four digits
Value(digits) ==
    LET missing == 4 - Len(digits)
        q == [i \in 1..4 |-> IF i <= missing THEN 0 ELSE digits[i - missing]]
    IN  1000 * q[1] + 100 * q[2] + 10 * q[3] + q[4]

\* Mutant: the scripts that are there are not looked at
CountFromOne(S) == 1

\* ${cnt//0/} takes every zero out of the number of the last script.
StartingCount(S) ==
    IF S = {} THEN 1
    ELSE Value(Without(Last(Sorted(S)).order, {0})) + 1

-------------------------------------------------------------------------------
\* setup-blfs-work.sh, setup-patch-work.sh

Init ==
    /\ trees \in Trees
    /\ action \in Actions
    /\ pc = "idle"
    /\ todo = <<>>
    /\ workTree = <<>> /\ cnt = 1
    /\ scripts = {} /\ exec = {} /\ copied = <<>>
    /\ makefile = NoMakefile
    /\ touched = <<>> /\ at = 0 /\ logs = {} /\ done = {}
    /\ result = "none" /\ planned = FALSE /\ cleared = FALSE
    /\ setups = 0 /\ kills = 0

Fail ==
    /\ pc' = "idle" /\ result' = "failed"
    /\ todo' = <<>>

EmptyWork ==
    /\ workTree' = <<>> /\ cnt' = 1
    /\ scripts' = {} /\ exec' = {} /\ copied' = <<>> /\ makefile' = NoMakefile
    /\ touched' = <<>> /\ done' = {}
    /\ UNCHANGED <<at, logs>>

StartSetup(a, request) ==
    /\ pc = "idle"
    /\ setups < MaxSetups
    /\ setups' = setups + 1
    /\ EmptyWork
    /\ action' = a
    /\ planned' = FALSE /\ cleared' = FALSE
    /\ result' = "none"
    /\ IF a = "BUILDPATCH"
       THEN pc' = "patch" /\ todo' = request
       ELSE pc' = "deps" /\ todo' = request
    /\ UNCHANGED <<trees, kills>>

\* Mutant: packages are put in front of those of earlier trees
MergedBefore(tree) ==
    Without(tree, UpToDate \cup Elements(workTree)) \o workTree

\* What of a tree is added: a line that is there already is not added again.
Merged(tree) ==
    workTree \o Without(tree, UpToDate \cup Elements(workTree))

\* The lines of a tree as far as their packages have a version.
Readable(tree) ==
    CHOOSE t \in {SubSeq(tree, 1, i) : i \in 0..Len(tree)} :
        /\ Elements(t) \cap Versionless = {}
        /\ Len(t) < Len(tree) => tree[Len(t) + 1] \in Versionless

\* xmllint fails for a package without a version, and that ends the script, as
\* a missing tree file does.
MergeTree ==
    /\ pc = "deps" /\ todo # <<>>
    /\ LET p == Head(todo)
           tree == IF p \in DOMAIN trees THEN trees[p] ELSE <<>>
       IN  /\ workTree' = Merged(Readable(tree))
           /\ IF p \in DOMAIN trees /\ Readable(tree) = tree
              THEN todo' = Tail(todo) /\ UNCHANGED <<pc, result>>
              ELSE Fail
    /\ UNCHANGED <<others, cnt, scripts, exec, copied, makefile, buildVars>>

\* The packages to patch are taken as they were selected.
AddPatch ==
    /\ pc = "patch" /\ todo # <<>>
    /\ workTree' = Append(workTree, Head(todo))
    /\ todo' = Tail(todo)
    /\ UNCHANGED <<others, pc, cnt, scripts, exec, copied, makefile, buildVars, result>>

StartScripts ==
    /\ pc \in {"deps", "patch"} /\ todo = <<>>
    /\ pc' = "scripts"
    /\ todo' = workTree
    /\ cnt' = 1
    /\ UNCHANGED <<others, workTree, scripts, exec, copied, makefile, buildVars, result>>

\* The script file of name gets the next number.
PutScript(name, canRun) ==
    LET s == [order |-> Numeral(cnt), name |-> name] IN
    /\ scripts' = scripts \cup {s}
    /\ exec' = IF canRun THEN exec \cup {s} ELSE exec
    /\ copied' = Append(copied, s)
    /\ cnt' = cnt + 1

\* xsltproc writes the scripts of the book without an x bit.
CopyScript ==
    /\ pc = "scripts" /\ todo # <<>>
    /\ IF Head(todo) \in NoScript
       THEN UNCHANGED <<scripts, exec, copied, cnt>>
       ELSE PutScript(Head(todo), FALSE)
    /\ todo' = Tail(todo)
    /\ UNCHANGED <<others, pc, workTree, makefile, buildVars, result>>

\* Nothing is made executable for a custom build.
FinishScripts ==
    /\ pc = "scripts" /\ todo = <<>>
    /\ \/ action = "BUILDCUSTOM" /\ pc' = "logs" /\ UNCHANGED <<todo, result, exec>>
       \/ action # "BUILDCUSTOM" /\ cnt = 1 /\ Fail /\ UNCHANGED exec
       \/ /\ action # "BUILDCUSTOM" /\ cnt > 1
          /\ pc' = "makefile" /\ exec' = scripts
          /\ UNCHANGED <<todo, result>>
    /\ UNCHANGED <<others, workTree, cnt, scripts, copied, makefile, buildVars>>

-------------------------------------------------------------------------------
\* setup-makefile.func

\* Mutant: ls without -r
ChainForward == Sorted(scripts)

Chain == Reverse(Sorted(scripts))

StartMakefile ==
    /\ pc = "makefile"
    /\ makefile' = IF scripts = {} THEN NoMakefile ELSE [chain |-> Chain, rules |-> 0]
    /\ IF scripts = {} THEN Fail ELSE pc' = "rules" /\ UNCHANGED <<todo, result>>
    /\ UNCHANGED <<others, workTree, cnt, scripts, exec, copied, buildVars>>

WriteRule ==
    /\ pc = "rules"
    /\ makefile.rules < Len(makefile.chain)
    /\ makefile' = [makefile EXCEPT !.rules = @ + 1]
    /\ UNCHANGED <<others, pc, todo, workTree, cnt, scripts, exec, copied, buildVars, result>>

FinishMakefile ==
    /\ pc = "rules"
    /\ makefile.rules = Len(makefile.chain)
    /\ IF action = "BUILDCUSTOM"
       THEN pc' = "idle" /\ result' = "planned" /\ planned' = TRUE
       ELSE pc' = "logs" /\ UNCHANGED <<result, planned>>
    /\ UNCHANGED <<trees, action, cleared, todo, setupVars, buildVars, setups, kills>>

\* Mutant: the difflogs of the last build stay
KeepLogs ==
    /\ pc = "logs"
    /\ cleared' = TRUE
    /\ IF action = "BUILDCUSTOM"
       THEN pc' = "list" /\ UNCHANGED <<result, planned>>
       ELSE pc' = "idle" /\ result' = "planned" /\ planned' = TRUE
    /\ UNCHANGED <<trees, action, todo, setupVars, buildVars, setups, kills>>

\* A set-up for custom builds goes on with setup-custom-work.sh.
ClearLogs ==
    /\ pc = "logs"
    /\ logs' = {} /\ cleared' = TRUE
    /\ IF action = "BUILDCUSTOM"
       THEN pc' = "list" /\ UNCHANGED <<result, planned>>
       ELSE pc' = "idle" /\ result' = "planned" /\ planned' = TRUE
    /\ UNCHANGED <<trees, action, todo, setupVars, touched, at, done, setups, kills>>

-------------------------------------------------------------------------------
\* setup-custom-work.sh

\* The target can be called by itself as well.
StartCustomAlone ==
    /\ pc = "idle"
    /\ action = "BUILDCUSTOM"
    /\ setups < MaxSetups
    /\ setups' = setups + 1
    /\ pc' = "list"
    /\ planned' = FALSE /\ result' = "none"
    /\ UNCHANGED <<trees, action, cleared, todo, setupVars, buildVars, kills>>

ReadBuilds(list) ==
    /\ pc = "list"
    /\ pc' = "builds"
    /\ todo' = list
    /\ cnt' = StartingCount(scripts)
    /\ UNCHANGED <<others, workTree, scripts, exec, copied, makefile, buildVars, result>>

CopyBuild ==
    /\ pc = "builds" /\ todo # <<>>
    /\ IF Head(todo) \in Installed
       THEN UNCHANGED <<scripts, exec, copied, cnt>>
       ELSE PutScript(Head(todo), Head(todo) \in Executable)
    /\ todo' = Tail(todo)
    /\ UNCHANGED <<others, pc, workTree, makefile, buildVars, result>>

\* cp finds no file of the build in $CUSTOM_BUILD, or cannot write, and that
\* ends the set-up.  (A copy that breaks off is CopyBuild and then a Kill.)
CopyBuildFails ==
    /\ pc = "builds" /\ todo # <<>>
    /\ Head(todo) \notin Installed
    /\ Fail
    /\ UNCHANGED <<others, setupVars, buildVars>>

FinishBuilds ==
    /\ pc = "builds" /\ todo = <<>>
    /\ pc' = "makefile"
    /\ UNCHANGED <<others, todo, setupVars, buildVars, result>>

-------------------------------------------------------------------------------
\* make -C $BUILD_WORK

Position(s) == CHOOSE i \in 1..Len(touched) : touched[i] = s

Exists(s) == s \in Elements(touched)

\* The target of rule i does not exist or is older than what it waits for.
OutOfDate(i) ==
    LET s == makefile.chain[i] IN
    \/ ~Exists(s)
    \/ /\ Exists(s) /\ i < Len(makefile.chain)
       /\ Exists(makefile.chain[i + 1])
       /\ Position(makefile.chain[i + 1]) > Position(s)

\* The last prerequisite has a rule, or is there without one.
Complete ==
    /\ makefile.rules > 0
    /\ \/ makefile.rules = Len(makefile.chain)
       \/ Exists(makefile.chain[makefile.rules + 1])

StartMake ==
    /\ pc = "idle"
    /\ IF Complete
       THEN pc' = "make" /\ at' = makefile.rules /\ result' = "none"
       ELSE result' = "failed" /\ UNCHANGED <<pc, at>>
    /\ UNCHANGED <<others, todo, setupVars, touched, logs, done>>

NextRule == IF at = 1
            THEN pc' = "idle" /\ at' = 0 /\ result' = "built"
            ELSE pc' = "make" /\ at' = at - 1 /\ UNCHANGED result

SkipTarget ==
    /\ pc = "make" /\ ~OutOfDate(at)
    /\ NextRule
    /\ UNCHANGED <<others, todo, setupVars, touched, logs, done>>

\* The script has written its difflogs when it ends.
RunScript ==
    /\ pc = "make" /\ OutOfDate(at)
    /\ makefile.chain[at] \in exec
    /\ pc' = "touch"
    /\ done' = done \cup {makefile.chain[at]}
    /\ logs' = logs \cup {makefile.chain[at].name}
    /\ UNCHANGED <<others, todo, setupVars, touched, at, result>>

\* Mutant: the pipe hides the failure, and the target is touched
ScriptFailsUnseen ==
    /\ pc = "make" /\ OutOfDate(at)
    /\ pc' = "touch"
    /\ UNCHANGED <<others, todo, setupVars, touched, at, logs, done, result>>

\* script -e and pipefail hand the failure on to make.  A script that fails
\* may have its first difflog.
ScriptFails ==
    /\ pc = "make" /\ OutOfDate(at)
    /\ Fail
    /\ at' = 0
    /\ \/ UNCHANGED logs
       \/ makefile.chain[at] \in exec /\ logs' = logs \cup {makefile.chain[at].name}
    /\ UNCHANGED <<others, setupVars, touched, done>>

Touch ==
    /\ pc = "touch"
    /\ touched' = Append(Without(touched, {makefile.chain[at]}), makefile.chain[at])
    /\ NextRule
    /\ UNCHANGED <<others, todo, setupVars, logs, done>>

\* The command that runs is killed, between two of its steps.
Kill ==
    /\ pc # "idle"
    /\ kills < MaxKills
    /\ kills' = kills + 1
    /\ Fail
    /\ at' = 0
    /\ UNCHANGED <<trees, action, setupVars, touched, logs, done, planned, cleared, setups>>

Next ==
    \/ \E a \in Actions, r \in Requests : StartSetup(a, r)
    \/ MergeTree \/ AddPatch \/ StartScripts \/ CopyScript \/ FinishScripts
    \/ StartMakefile \/ WriteRule \/ FinishMakefile \/ ClearLogs
    \/ StartCustomAlone \/ CopyBuild \/ CopyBuildFails \/ FinishBuilds
    \/ \E l \in BuildLists : ReadBuilds(l)
    \/ StartMake \/ SkipTarget \/ RunScript \/ ScriptFails \/ Touch
    \/ Kill

Spec == Init /\ [][Next]_vars

-------------------------------------------------------------------------------
\* Properties

Before(list, d, b) ==
    \E i, j \in 1..Len(list) : i < j /\ list[i] = d /\ list[j] = b

\* In every tree with b, d comes before it: b needs d.
AlwaysBefore(d, b) ==
    \A p \in DOMAIN trees : b \in Elements(trees[p]) => Before(trees[p], d, b)

\* The packages are in the work tree once, each after all it needs that is not
\* up to date already.
InTreeOrder ==
    /\ \A i, j \in 1..Len(workTree) : workTree[i] = workTree[j] => i = j
    /\ \A b \in Elements(workTree), d \in Packages \ UpToDate :
           AlwaysBefore(d, b) => Before(workTree, d, b)

\* setup-deps.func: while trees are merged, and when the scripts are copied, the
\* packages of all trees are in the work tree once, and after all they need.
MergedInOrder ==
    (action # "BUILDPATCH" /\ pc \in {"deps", "scripts"}) => InTreeOrder

\* A number with a zero that is not a leading one
ZeroInside(order) == \E i, j \in 1..Len(order) : i < j /\ order[i] # 0 /\ order[j] = 0

\* Custom builds follow a script with such a number: setup-custom-work.sh takes
\* out all zeros and counts from too low a number (010 is read as 1).
Misnumbered ==
    \E i \in 1..(Len(copied) - 1) :
        /\ copied[i + 1].name \in Builds /\ ZeroInside(copied[i].order)
        /\ ~TextBefore(copied[i].order, copied[i + 1].order)

\* However often make failed or was killed: a script is started only when all
\* that were given a number before it have run to their end, but for builds
\* with too low a number.
BuildsInOrder ==
    (pc = "touch" /\ ~Misnumbered) =>
        \A i \in 1..Len(copied) :
            copied[i] = makefile.chain[at] => \A j \in 1..(i - 1) : copied[j] \in done

\* The aim of the numbers: a package of the book is built only when all that it
\* needs, has a script and is not up to date was built, but for packages that
\* were selected to be patched and builds with too low a number.
NeedsBuilt ==
    (pc = "touch" /\ action # "BUILDPATCH" /\ ~Misnumbered) =>
        \A d \in Packages \ (UpToDate \cup NoScript) :
            makefile.chain[at].name \in Packages /\ AlwaysBefore(d, makefile.chain[at].name)
                => \E s \in done : s.name = d

\* make ended well: all of a finished plan was built, and the difflogs, of which
\* the archives are made, are those of its scripts alone, but for a plan of
\* custom builds alone that follows a set-up that did not come to clear-logs.
SuccessMeansBuilt ==
    (result = "built" /\ planned) =>
        scripts = done /\ (cleared => logs = {s.name : s \in scripts})

\* make does not run a script again that has its target, but for what comes
\* after a build with too low a number that was added to it.
BuiltIsKept ==
    [][RunScript /\ ~Misnumbered => ~Exists(makefile.chain[at])]_vars
===============================================================================
