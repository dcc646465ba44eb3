-------------------------------- MODULE DepTree --------------------------------
(***************************************************************************)
(* scripts/book/book-blfs-trees.sh: for every package of $BLFS_PKGS_LIST a *)
(* tree file, the packages to build for it in the order to build them.     *)
(*                                                                         *)
(* The script walks the .deps files depth first.  A .deps file lists what  *)
(* its package needs to be built, then the package itself as an endpoint   *)
(* line --name--, then what it needs at run time (xsl/blfs-deps.xsl).      *)
(* Only endpoint lines are written to the tree.  The file PROCD holds the  *)
(* packages walked into for this tree and breaks cycles.                   *)
(*                                                                         *)
(* The shell's recursion is a stack of files with the line each has come   *)
(* to; $level is one more than the files on it.  Tree files stay when the  *)
(* script is killed, and a tree file that exists is never made again.      *)
(***************************************************************************)
EXTENDS Integers, Sequences, FiniteSets

CONSTANTS
    Packages,
    DepFiles,    \* what the .deps files may hold, see DepFileType
    NameInside,  \* [Packages -> SUBSET Packages]: whose names contain the name
    Requests,    \* contents $BLFS_PKGS_LIST may have
    NoRoot,
    MaxRuns,     \* bound: runs of the script
    MaxCrashes   \* bound: interrupted runs

DepFileType ==
    [present : SUBSET Packages,
     build : [Packages -> Seq(Packages)],
     runtime : [Packages -> Seq(Packages)]]

ASSUME DepTreeAssumption ==
    /\ NoRoot \notin Packages
    /\ DepFiles \subseteq DepFileType
    /\ NameInside \in [Packages -> SUBSET Packages]
    /\ \A p \in Packages : p \in NameInside[p]
    /\ Requests \subseteq Seq(Packages)
    /\ MaxRuns \in Nat
    /\ MaxCrashes \in Nat

VARIABLES
    deps,     \* the .deps files: those present, and their lines
    made,     \* packages whose tree file exists
    trees,    \* [Packages -> its lines, each with the moment it was written]
    written,  \* lines written to the current tree so far
    procd,    \* the PROCD file
    stack,    \* files being read, the innermost last
    root,     \* the package whose tree is being made
    todo,     \* what is left of $BLFS_PKGS_LIST
    request,  \* the $BLFS_PKGS_LIST of the last run
    phase,
    exit,
    torn,     \* history: packages whose tree an interrupted run left
    runs,     \* history
    crashes   \* history

files == <<deps, made, trees>>
walk == <<written, procd, stack, root>>
history == <<torn, runs, crashes>>
vars == <<deps, made, trees, written, procd, stack, root, todo, request, phase,
          exit, torn, runs, crashes>>

-------------------------------------------------------------------------------
\* Vocabulary

Elements(s) == {s[i] : i \in 1..Len(s)}
Names(p) == {l.name : l \in trees[p]}

\* A .deps file has its build dependencies, itself, its runtime dependencies.
LineCount(p) == Len(deps.build[p]) + 1 + Len(deps.runtime[p])
SelfLine(p) == Len(deps.build[p]) + 1

\* Mutant: the runtime dependencies come first, the build dependencies last
DepAtSwapped(p, i) ==
    IF i < SelfLine(p)
      THEN IF i <= Len(deps.runtime[p]) THEN deps.runtime[p][i] ELSE deps.build[p][i]
      ELSE IF i - SelfLine(p) <= Len(deps.build[p])
             THEN deps.build[p][i - SelfLine(p)]
             ELSE deps.runtime[p][i - SelfLine(p)]

DepAt(p, i) ==
    IF i < SelfLine(p) THEN deps.build[p][i] ELSE deps.runtime[p][i - SelfLine(p)]

Top == stack[Len(stack)]
AtDep == phase = "tree" /\ Top.line <= LineCount(Top.file) /\ Top.line # SelfLine(Top.file)
NextLine == [stack EXCEPT ![Len(stack)].line = @ + 1]

-------------------------------------------------------------------------------
\* The loop over $BLFS_PKGS_LIST

Init ==
    /\ deps \in DepFiles
    /\ made = {}
    /\ trees = [p \in Packages |-> {}]
    /\ written = 0
    /\ procd = {}
    /\ stack = <<>>
    /\ root = NoRoot
    /\ todo = <<>>
    /\ request = <<>>
    /\ phase = "idle"
    /\ exit = "none"
    /\ torn = {}
    /\ runs = 0
    /\ crashes = 0

Start(q) ==
    /\ phase = "idle"
    /\ runs < MaxRuns
    /\ runs' = runs + 1
    /\ todo' = q
    /\ request' = q
    /\ procd' = {}
    /\ phase' = "roots"
    /\ exit' = "none"
    /\ UNCHANGED <<files, written, stack, root, torn, crashes>>

\* Mutant: the loop does not read its next line
SameRoot == UNCHANGED todo

NextRoot == todo' = Tail(todo)

\* [ -f $tree_file ] && continue
SkipRoot ==
    /\ phase = "roots"
    /\ todo # <<>>
    /\ Head(todo) \in made
    /\ NextRoot
    /\ procd' = {}
    /\ UNCHANGED <<files, written, stack, root, request, phase, exit, history>>

\* Mutant: PROCD is not emptied between two trees
KeepProcd == UNCHANGED procd

ResetProcd == procd' = {}

\* touch $tree_file comes before the walk
BeginRoot ==
    /\ phase = "roots"
    /\ todo # <<>>
    /\ Head(todo) \notin made
    /\ made' = made \cup {Head(todo)}
    /\ ResetProcd
    /\ written' = 0
    /\ IF Head(todo) \in deps.present
         THEN /\ phase' = "tree"
              /\ root' = Head(todo)
              /\ stack' = <<[file |-> Head(todo), line |-> 1]>>
              /\ UNCHANGED <<exit, torn>>
         ELSE \* reading a missing file ends the script (set -e)
              /\ phase' = "idle"
              /\ exit' = "failed"
              /\ torn' = torn \cup {Head(todo)}
              /\ UNCHANGED <<root, stack>>
    /\ UNCHANGED <<deps, trees, todo, request, runs, crashes>>

Finish ==
    /\ phase = "roots"
    /\ todo = <<>>
    /\ phase' = "idle"
    /\ exit' = "ok"
    /\ UNCHANGED <<files, walk, todo, request, history>>

-------------------------------------------------------------------------------
\* recurse

\* The dependency has no .deps file, or PROCD has it
SkipDep ==
    /\ AtDep
    /\ LET q == DepAt(Top.file, Top.line)
       IN  q \notin deps.present \/ q \in procd
    /\ stack' = NextLine
    /\ UNCHANGED <<files, written, procd, root, todo, request, phase, exit, history>>

NoteDep(q) == procd' = procd \cup {q}

WalkInto ==
    /\ AtDep
    /\ LET q == DepAt(Top.file, Top.line)
       IN  /\ q \in deps.present \ procd
           /\ NoteDep(q)
           /\ stack' = Append(NextLine, [file |-> q, line |-> 1])
    /\ UNCHANGED <<files, written, root, todo, request, phase, exit, history>>

\* Mutant: no grep -x before the line is appended
WantedAlways(p) == TRUE

\* [[ -z $(grep -x $name $tree_file) ]] || [ $level -eq 2 ]
Wanted(p) == p \notin Names(root) \/ Len(stack) = 1

\* At level 2, sed "/$name/d" takes out every line that contains the name
Dropped(p) ==
    IF Len(stack) = 1 THEN {l \in trees[root] : l.name \in NameInside[p]} ELSE {}

WriteSelf ==
    /\ phase = "tree"
    /\ Top.line = SelfLine(Top.file)
    /\ stack' = NextLine
    /\ IF Wanted(Top.file)
         THEN /\ written' = written + 1
              /\ trees' = [trees EXCEPT ![root] =
                    (@ \ Dropped(Top.file)) \cup {[name |-> Top.file, at |-> written + 1]}]
         ELSE UNCHANGED <<written, trees>>
    /\ UNCHANGED <<deps, made, procd, root, todo, request, phase, exit, history>>

\* After the outermost return the loop goes on to the next package
EndOfTree ==
    IF Len(stack) > 1
      THEN UNCHANGED <<phase, todo, root>>
      ELSE phase' = "roots" /\ NextRoot /\ root' = NoRoot

Return ==
    /\ phase = "tree"
    /\ Top.line > LineCount(Top.file)
    /\ stack' = SubSeq(stack, 1, Len(stack) - 1)
    /\ EndOfTree
    /\ UNCHANGED <<files, written, procd, request, exit, history>>

\* The script is interrupted; its variables are lost, its files are not
Crash ==
    /\ phase # "idle"
    /\ crashes < MaxCrashes
    /\ crashes' = crashes + 1
    /\ torn' = IF phase = "tree" THEN torn \cup {root} ELSE torn
    /\ phase' = "idle"
    /\ exit' = "failed"
    /\ root' = NoRoot
    /\ stack' = <<>>
    /\ UNCHANGED <<files, written, procd, todo, request, runs>>

Step == SkipRoot \/ BeginRoot \/ Finish \/ SkipDep \/ WalkInto \/ WriteSelf \/ Return

Next == Step \/ Crash \/ \E q \in Requests : Start(q)

Spec == Init /\ [][Next]_vars

\* The script waits for nothing, so it keeps running.
FairSpec == Spec /\ WF_vars(Step)

-------------------------------------------------------------------------------
\* Properties

TypeOK ==
    /\ deps \in DepFileType
    /\ made \subseteq Packages
    /\ trees \in [Packages -> SUBSET [name : Packages, at : Nat]]
    /\ written \in Nat
    /\ procd \subseteq deps.present
    /\ stack \in Seq([file : deps.present, line : Nat \ {0}])
    /\ root \in Packages \cup {NoRoot}
    /\ todo \in Seq(Packages)
    /\ request \in Seq(Packages)
    /\ phase \in {"idle", "roots", "tree"}
    /\ exit \in {"none", "ok", "failed"}
    /\ torn \subseteq made
    /\ runs \in 0..MaxRuns
    /\ crashes \in 0..MaxCrashes
    /\ phase = "tree" <=> stack # <<>>
    /\ phase = "tree" <=> root \in Packages
    /\ phase = "tree" => todo # <<>> /\ root = Head(todo) /\ root \in made

Needs(p) == (Elements(deps.build[p]) \cup Elements(deps.runtime[p])) \cap deps.present

Closed(S) == \A p \in S : Needs(p) \subseteq S

\* b is among the dependencies of a, theirs, and so on: it is in every set
\* that has a and is closed under dependencies.
Reaches(a, b) == \A S \in SUBSET deps.present : a \in S /\ Closed(S) => b \in S

Finished == made \ (torn \cup {root})

\* No package is listed twice in a tree: a package walked into twice (the
\* root, when a cycle leads back to it) is written once.
NoDuplicates ==
    \A p \in Packages : \A l, m \in trees[p] : l.name = m.name => l = m

\* A package is listed after everything needed to build it; two packages are
\* in the wrong order only where a cycle of dependencies makes either order
\* wrong.  It holds of every tree at every moment, in interrupted trees too.
BuildOrder ==
    \A p \in Packages : \A l, m \in trees[p] :
        /\ m.name \in Elements(deps.build[l.name])
        /\ l.at < m.at
        => Reaches(m.name, l.name)

\* A tree whose walk ended has the root and all that can be reached from it,
\* except what the substitution at level 2 may have taken out with the root's
\* own line: names that contain the root's name.
TreesComplete ==
    \A p \in Finished :
        /\ p \in Names(p)
        /\ \A q \in Names(p) : Reaches(p, q)
        /\ \A q \in deps.present \ NameInside[p] : Reaches(p, q) => q \in Names(p)

\* A run of the script ends: the recursion comes back from every cycle.
RunEnds == phase # "idle" ~> phase = "idle"

\* README.md:12, "automatically resolves package dependencies [...] and builds
\* packages in the correct order": when the script ends well, the tree of each
\* package asked for has all it depends on.
DependenciesResolved ==
    phase = "idle" /\ exit = "ok" =>
        \A i \in 1..Len(request) : \A q \in deps.present :
            Reaches(request[i], q) => q \in Names(request[i])
=============================================================================
