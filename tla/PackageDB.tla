------------------------------- MODULE PackageDB -------------------------------
(***************************************************************************)
(* The installed-package database and the root file system, as changed by  *)
(* scripts/package/package-{install,remove,upgrade}.sh and the scripts     *)
(* they run once per package: funcs/{inst,remv,upgr}-pkg.sh.               *)
(*                                                                         *)
(* The database is the directory $LPM_INSTALLED: one "installed file list" *)
(* per package, holding the archive's listing line by line.  It is         *)
(* consulted by the mere existence of that file (-f), and nothing writes   *)
(* it atomically, so every path unpacked, line recorded, path removed and  *)
(* list deleted is a step of its own here and a crash may fall between any *)
(* two of them.  Everything in "disk", "recorded" and "lines" survives a   *)
(* crash; the position in the scripts does not.                            *)
(***************************************************************************)
EXTENDS Integers, Sequences, FiniteSets

CONSTANTS
    Packages,     \* archives, one per name and version
    NameOf,       \* [Packages -> names]: what precedes the first "--"
    Paths,        \* paths under the root
    Root,         \* the root directory itself, in no listing
    Parent,       \* [Paths -> Paths \cup {Root}]
    Listing,      \* [Packages -> Seq(Paths)]: tar -tf, parents first
    PatternHits,  \* [Paths -> SUBSET Paths]: recorded lines that grep ^path$ selects
    StagedFiles,  \* aa_volatile-files packages
    StagedDirs,   \* aa_volatile-dirs packages
    Kernels,      \* packages named kernel*
    DotNew,       \* [Paths -> Paths]: the path after mv f f.new in the staging etc/
    Selections,   \* package lists a user can have selected
    None,         \* content of a path that is absent; no package
    Edited,       \* content of a file the administrator changed
    MaxOps,       \* bound: commands started
    MaxFaults     \* bound: crashes and failed writes

Kinds == {"install", "remove", "upgrade"}
Phases == {"idle", "confirm", "next", "unpack", "record", "copy",
           "retire", "remove", "post"}

ASSUME PackagesAssumption ==
    /\ None \notin Packages
    /\ Edited \notin Packages
    /\ None # Edited
    /\ StagedFiles \subseteq Packages
    /\ StagedDirs \subseteq Packages
    /\ StagedFiles \cap StagedDirs = {}
    /\ \A p, q \in Packages : NameOf[p] = NameOf[q] /\ p \in Kernels => q \in Kernels
    /\ Listing \in [Packages -> Seq(Paths)]
    /\ Selections \subseteq Seq(Packages)

\* build-archives.sh ends with "tar -cJpf archive ." in the extracted tree, so
\* a listing names every directory of its tree, ahead of what is inside.
ASSUME TreeAssumption ==
    /\ Root \notin Paths
    /\ Parent \in [Paths -> Paths \cup {Root}]
    /\ PatternHits \in [Paths -> SUBSET Paths]
    /\ DotNew \in [Paths -> Paths]
    /\ \A p \in Packages : \A i \in 1..Len(Listing[p]) :
         \/ Parent[Listing[p][i]] = Root
         \/ \E j \in 1..(i - 1) : Listing[p][j] = Parent[Listing[p][i]]

ASSUME BoundsAssumption == MaxOps \in Nat /\ MaxFaults \in Nat

VARIABLES
    disk,      \* [Paths -> package whose content the path has, Edited or None]
    recorded,  \* packages whose installed file list exists
    lines,     \* [Packages -> number of listing lines in that file]
    kind,      \* the command running, or the last one
    request,   \* the package list the command was given
    todo,      \* what its loop has left
    error,     \* package-install's error flag
    phase,     \* where the scripts are
    cur,       \* the package inst-pkg / upgr-pkg works on
    victim,    \* the package remv-pkg works on
    idx,       \* the loop's position in a listing
    olds,      \* what upgr-pkg.sh's loop over old versions has left
    exit,      \* exit status of the last command
    torn,      \* history: packages an interrupted step left half done
    ops,       \* history: commands started
    faults     \* history: faults so far

durable == <<disk, recorded, lines>>
loop == <<kind, request, todo, error>>
work == <<cur, victim, idx, olds>>
history == <<torn, ops, faults>>
vars == <<disk, recorded, lines, kind, request, todo, error, phase, cur,
          victim, idx, olds, exit, torn, ops, faults>>

-------------------------------------------------------------------------------
\* Vocabulary

Files(p) == {Listing[p][i] : i \in 1..Len(Listing[p])}
Lines(p) == {Listing[p][i] : i \in 1..lines[p]}
Present(x) == disk[x] # None
HasChild(x) == \E y \in Paths : Parent[y] = x /\ Present(y)

Staged(p) == kind = "upgrade" /\ p \in StagedFiles \cup StagedDirs
Placed(p, x) == IF p \in StagedFiles THEN DotNew[x] ELSE x

\* find $installed_dir -name $pkgname--*, the upgraded package aside
OldVersions(p) == {q \in recorded : NameOf[q] = NameOf[p] /\ q # p}

\* upgr-pkg.sh exits before that loop when the package is a kernel
Superseded(p) == IF p \in Kernels THEN {} ELSE OldVersions(p)

\* Mutant: the other lists are not consulted
ListedNowhere(x) == FALSE

\* Mutant: --exclude leaves out every version's list, not the victim's alone
ListedByOtherNames(x) ==
    \E q \in recorded :
        NameOf[q] # NameOf[victim] /\ Lines(q) \cap PatternHits[x] # {}

\* remv-pkg.sh: some other list has a line the pattern ^path$ selects
ListedElsewhere(x) ==
    \E q \in recorded \ {victim} : Lines(q) \cap PatternHits[x] # {}

\* Packages whose files or list a running step is changing
Unsettled ==
    CASE phase \in {"unpack", "record", "copy"} -> {cur}
      [] phase = "remove" -> {victim}
      [] OTHER -> {}

-------------------------------------------------------------------------------
\* The commands' loops

Init ==
    /\ disk = [x \in Paths |-> None]
    /\ recorded = {}
    /\ lines = [p \in Packages |-> 0]
    /\ kind = "install"
    /\ request = <<>>
    /\ todo = <<>>
    /\ error = FALSE
    /\ phase = "idle"
    /\ cur = None
    /\ victim = None
    /\ idx = 0
    /\ olds = {}
    /\ exit = "none"
    /\ torn = {}
    /\ ops = 0
    /\ faults = 0

Start(k, q) ==
    /\ phase = "idle"
    /\ ops < MaxOps
    /\ ops' = ops + 1
    /\ kind' = k
    /\ request' = q
    /\ todo' = q
    /\ error' = FALSE
    /\ phase' = "confirm"
    /\ exit' = "none"
    /\ UNCHANGED <<durable, work, torn, faults>>

\* "Yes", and every pre-install script succeeded
Confirm ==
    /\ phase = "confirm"
    /\ phase' = "next"
    /\ UNCHANGED <<durable, loop, work, exit, history>>

\* Any other answer, or a failing pre-install script (set -e)
Cancel ==
    /\ phase = "confirm"
    /\ phase' = "idle"
    /\ exit' = "failed"
    /\ UNCHANGED <<durable, loop, work, history>>

\* To the next iteration of the command's loop
NextPackage ==
    /\ phase' = "next"
    /\ todo' = Tail(todo)
    /\ cur' = None
    /\ victim' = None
    /\ idx' = 0
    /\ olds' = {}
    /\ UNCHANGED <<kind, request, exit>>

\* upgr-pkg.sh: find is run once, and what it found is gone through
FindOld(p) ==
    /\ phase' = "retire"
    /\ olds' = Superseded(p)

SkipPackage ==
    /\ phase = "next"
    /\ todo # <<>>
    /\ \/ kind = "install" /\ Head(todo) \in recorded
       \/ kind = "remove" /\ Head(todo) \notin recorded
    /\ NextPackage
    /\ UNCHANGED <<durable, error, history>>

\* upgr-pkg.sh: already INSTALLED, on to the old versions
UpgradeInstalled ==
    /\ phase = "next"
    /\ todo # <<>>
    /\ kind = "upgrade"
    /\ Head(todo) \in recorded
    /\ FindOld(Head(todo))
    /\ cur' = Head(todo)
    /\ UNCHANGED <<durable, loop, victim, idx, exit, history>>

BeginRemove ==
    /\ phase = "next"
    /\ todo # <<>>
    /\ kind = "remove"
    /\ Head(todo) \in recorded
    /\ phase' = "remove"
    /\ victim' = Head(todo)
    /\ idx' = lines[Head(todo)]
    /\ UNCHANGED <<durable, loop, cur, olds, exit, history>>

LoopEnds ==
    /\ phase = "next"
    /\ todo = <<>>
    /\ phase' = IF kind = "install" /\ ~error THEN "post" ELSE "idle"
    /\ exit' = IF kind = "install"
                 THEN IF error THEN "failed" ELSE exit
                 ELSE "ok"
    /\ UNCHANGED <<durable, loop, work, history>>

\* The post-install scripts run; one that fails ends the command (set -e)
PostInstall ==
    /\ phase = "post"
    /\ phase' = "idle"
    /\ exit' \in {"ok", "failed"}
    /\ UNCHANGED <<durable, loop, work, history>>

-------------------------------------------------------------------------------
\* inst-pkg.sh, and what upgr-pkg.sh does around it

\* Mutant: the error flag is not set
NoteNothing == UNCHANGED error

NoteError == error' = TRUE

\* Mutant: upgr-pkg.sh without set -e, on to the old versions
UpgradeGoesOn ==
    /\ FindOld(Head(todo))
    /\ cur' = Head(todo)
    /\ UNCHANGED <<idx, exit>>

UpgradeAborts ==
    /\ phase' = "idle"
    /\ cur' = None
    /\ idx' = 0
    /\ olds' = {}
    /\ exit' = "failed"

\* inst-pkg.sh exits non-zero: package-install notes the error and goes on,
\* upgr-pkg.sh and with it package-upgrade end (set -e)
PackageFails ==
    \/ kind = "install" /\ NoteError /\ NextPackage
    \/ kind = "upgrade" /\ UpgradeAborts /\ UNCHANGED <<loop, victim>>

\* The redirection "> $ifl" creates the list before its first line
OpenRecord(p) ==
    /\ recorded' = recorded \cup {p}
    /\ lines' = [lines EXCEPT ![p] = 0]
    /\ phase' = "record"
    /\ idx' = 0

\* The loop is at a package that has no list yet
Uninstalled ==
    /\ phase = "next"
    /\ todo # <<>>
    /\ kind \in {"install", "upgrade"}
    /\ Head(todo) \notin recorded

FetchFails ==
    /\ Uninstalled
    /\ PackageFails
    /\ UNCHANGED <<durable, history>>

\* tar -xpf straight into the root
FetchToRoot ==
    /\ Uninstalled
    /\ ~Staged(Head(todo))
    /\ phase' = "unpack"
    /\ cur' = Head(todo)
    /\ UNCHANGED <<durable, loop, victim, idx, olds, exit, history>>

UnpackPath ==
    /\ phase = "unpack"
    /\ idx < Len(Listing[cur])
    /\ disk' = [disk EXCEPT ![Listing[cur][idx + 1]] = cur]
    /\ idx' = idx + 1
    /\ UNCHANGED <<recorded, lines, loop, phase, cur, victim, olds, exit, history>>

UnpackEnds ==
    /\ phase = "unpack"
    /\ idx = Len(Listing[cur])
    /\ OpenRecord(cur)
    /\ UNCHANGED <<disk, loop, cur, victim, olds, exit, history>>

\* tar -xpf into $INSTALLROOT/tmp/lfspkmg$RANDOM (DESTDIR), outside Paths;
\* the list goes to the database of the root all the same
FetchToStaging ==
    /\ Uninstalled
    /\ Staged(Head(todo))
    /\ cur' = Head(todo)
    /\ OpenRecord(Head(todo))
    /\ UNCHANGED <<disk, loop, victim, olds, exit, history>>

RecordLine ==
    /\ phase = "record"
    /\ lines[cur] < Len(Listing[cur])
    /\ lines' = [lines EXCEPT ![cur] = @ + 1]
    /\ UNCHANGED <<disk, recorded, loop, phase, work, exit, history>>

\* inst-pkg.sh exits with 0
PackageInstalled ==
    \/ kind = "install" /\ NextPackage
    \/ /\ kind = "upgrade"
       /\ ~Staged(cur)
       /\ FindOld(cur)
       /\ UNCHANGED <<kind, request, todo, cur, victim, idx, exit>>
    \/ /\ Staged(cur)
       /\ phase' = "copy"
       /\ UNCHANGED <<kind, request, todo, work, exit>>

RecordEnds ==
    /\ phase = "record"
    /\ lines[cur] = Len(Listing[cur])
    /\ PackageInstalled
    /\ torn' = IF Staged(cur) THEN torn ELSE torn \ {cur}
    /\ UNCHANGED <<durable, error, ops, faults>>

\* tar -tf fails on the way: the pipeline of inst-pkg.sh:88 has the status of
\* its last command, so the script goes on with the lines there are
ListCutShort ==
    /\ phase = "record"
    /\ lines[cur] < Len(Listing[cur])
    /\ faults < MaxFaults
    /\ faults' = faults + 1
    /\ PackageInstalled
    /\ torn' = torn \cup {cur}
    /\ UNCHANGED <<durable, error, ops>>

\* mv f f.new for what is in the staging etc/, then cp -a to the root
CopyPath ==
    /\ phase = "copy"
    /\ idx < Len(Listing[cur])
    /\ disk' = [disk EXCEPT ![Placed(cur, Listing[cur][idx + 1])] = cur]
    /\ idx' = idx + 1
    /\ UNCHANGED <<recorded, lines, loop, phase, cur, victim, olds, exit, history>>

CopiedAll == idx = Len(Listing[cur])

CopyEnds ==
    /\ phase = "copy"
    /\ CopiedAll
    /\ FindOld(cur)
    /\ torn' = IF lines[cur] = Len(Listing[cur]) THEN torn \ {cur} ELSE torn
    /\ UNCHANGED <<durable, loop, cur, victim, idx, exit, ops, faults>>

-------------------------------------------------------------------------------
\* remv-pkg.sh, and upgr-pkg.sh's loop over the old versions

UpgradeEnds ==
    /\ phase = "retire"
    /\ olds = {}
    /\ NextPackage
    /\ UNCHANGED <<durable, error, history>>

\* (remv-pkg.sh skips a list that is gone, which is one without lines here)
RetireOld ==
    /\ phase = "retire"
    /\ \E q \in olds :
         /\ olds' = olds \ {q}
         /\ victim' = q
         /\ idx' = lines[q]
    /\ phase' = "remove"
    /\ UNCHANGED <<durable, loop, cur, exit, history>>

\* Mutant: the list is read from its beginning
FirstLine == Listing[victim][lines[victim] - idx + 1]

\* The list is read from its end (tac)
LastLine == Listing[victim][idx]

\* rm -d leaves a directory that has something in it
RemovePath ==
    /\ phase = "remove"
    /\ idx > 0
    /\ disk' = IF ListedElsewhere(LastLine) \/ HasChild(LastLine)
                 THEN disk
                 ELSE [disk EXCEPT ![LastLine] = None]
    /\ idx' = idx - 1
    /\ UNCHANGED <<recorded, lines, loop, phase, cur, victim, olds, exit, history>>

DropList ==
    /\ recorded' = recorded \ {victim}
    /\ lines' = [lines EXCEPT ![victim] = 0]

\* rm $ifl
RemoveEnds ==
    /\ phase = "remove"
    /\ idx = 0
    /\ DropList
    /\ torn' = IF lines[victim] = Len(Listing[victim])
                 THEN torn \ {victim}
                 ELSE torn
    /\ \/ kind = "remove" /\ NextPackage
       \/ /\ kind = "upgrade"
          /\ phase' = "retire"
          /\ victim' = None
          /\ UNCHANGED <<kind, request, todo, cur, idx, olds, exit>>
    /\ UNCHANGED <<disk, error, ops, faults>>

-------------------------------------------------------------------------------
\* Faults and the administrator

\* A write fails (a full disk, a bad archive): the script ends there
WriteFails ==
    /\ phase \in {"unpack", "record", "copy"}
    /\ faults < MaxFaults
    /\ faults' = faults + 1
    /\ torn' = torn \cup Unsettled
    /\ PackageFails
    /\ UNCHANGED <<durable, ops>>

\* The machine stops or the command is killed
Crash ==
    /\ phase # "idle"
    /\ faults < MaxFaults
    /\ faults' = faults + 1
    /\ torn' = torn \cup Unsettled
    /\ phase' = "idle"
    /\ exit' = "failed"
    /\ cur' = None
    /\ victim' = None
    /\ idx' = 0
    /\ olds' = {}
    /\ UNCHANGED <<durable, loop, ops>>

\* The administrator changes a configuration file between commands
EditFile(x) ==
    /\ phase = "idle"
    /\ DotNew[x] # x
    /\ disk[x] \in Packages
    /\ disk' = [disk EXCEPT ![x] = Edited]
    /\ UNCHANGED <<recorded, lines, loop, phase, work, exit, history>>

Step ==
    \/ SkipPackage \/ UpgradeInstalled \/ BeginRemove
    \/ LoopEnds \/ PostInstall
    \/ FetchToRoot \/ UnpackPath \/ UnpackEnds \/ FetchToStaging
    \/ RecordLine \/ RecordEnds \/ CopyPath \/ CopyEnds
    \/ UpgradeEnds \/ RetireOld \/ RemovePath \/ RemoveEnds

Environment ==
    \/ \E k \in Kinds, q \in Selections : Start(k, q)
    \/ Confirm \/ Cancel
    \/ FetchFails \/ WriteFails \/ ListCutShort \/ Crash
    \/ \E x \in Paths : EditFile(x)

Next == Step \/ Environment

Spec == Init /\ [][Next]_vars

-------------------------------------------------------------------------------
\* Properties

\* Every variable stays in its type, and the position in the scripts is one
\* the scripts can be in: a loop variable is bound where the loop body runs.
TypeOK ==
    /\ disk \in [Paths -> Packages \cup {None, Edited}]
    /\ recorded \subseteq Packages
    /\ lines \in [Packages -> Nat]
    /\ kind \in Kinds
    /\ request \in Seq(Packages)
    /\ todo \in Seq(Packages)
    /\ error \in BOOLEAN
    /\ phase \in Phases
    /\ cur \in Packages \cup {None}
    /\ victim \in Packages \cup {None}
    /\ idx \in Nat
    /\ olds \subseteq Packages
    /\ exit \in {"none", "ok", "failed"}
    /\ torn \subseteq Packages
    /\ ops \in 0..MaxOps
    /\ faults \in 0..MaxFaults
    /\ phase \in {"unpack", "record", "copy", "retire"} => cur \in Packages
    /\ phase = "remove" => victim \in Packages

\* What the database may be trusted about: packages with a complete list that
\* no running step works on and no interrupted step left half done.  The files
\* of an upgraded aa_volatile-files package are under other names than listed.
Installed ==
    {p \in recorded \ (torn \cup StagedFiles \cup Unsettled) :
        lines[p] = Len(Listing[p])}

Intact(p) == \A x \in Files(p) : Present(x)

\* Installing, removing and upgrading any packages in any order, with crashes
\* and failed writes at any step, never costs an installed package a file:
\* shared paths are kept (remv-pkg.sh:54) and an upgrade removes the old
\* version only after the new one is in place.
RecordedIntact == \A p \in Installed : Intact(p)

\* Some recorded list accounts for every path on disk, so removing packages
\* leaves nothing behind: lists are processed backwards (remv-pkg.sh:59), so
\* a directory is empty when its turn comes.  Excepted are what interrupted
\* steps left and the .new files, which no list ever names.
DotNewPaths == {DotNew[x] : x \in {y \in Paths : DotNew[y] # y}}
WithParents(S) == \A x \in S : Parent[x] \in S \cup {Root}
NewTree ==
    {x \in Paths : \A S \in SUBSET Paths : DotNewPaths \subseteq S /\ WithParents(S) => x \in S}

NoOrphans ==
    \A x \in Paths : Present(x) =>
        \/ \E p \in recorded : x \in Lines(p)
        \/ \E p \in torn \cup Unsettled : x \in Files(p)
        \/ x \in NewTree

\* The request's packages that nothing later in the request replaces
LastOfName ==
    {request[i] : i \in
        {j \in 1..Len(request) :
            \A k \in (j + 1)..Len(request) :
                NameOf[request[k]] = NameOf[request[j]] => request[k] = request[j]}}

\* Exit status 0 means what was asked: every package of the list is installed,
\* and after an upgrade no other version of it is left, kernels aside.  A
\* failure in the middle of package-install's loop is not forgotten at its end.
SuccessMeansDone ==
    phase = "idle" /\ exit = "ok" =>
        CASE kind = "remove" ->
                \A i \in 1..Len(request) : request[i] \notin recorded
          [] kind = "install" ->
                \A i \in 1..Len(request) :
                    request[i] \in Installed \cup torn \cup StagedFiles
          [] kind = "upgrade" ->
                \A p \in LastOfName :
                    /\ p \in Installed \cup torn \cup StagedFiles
                    /\ p \in Kernels \/ OldVersions(p) = {}

Loses(x) == Present(x) /\ ~Present(x)'

\* An upgrade drops the list of an old version, or a file only it had, at a
\* time when the new version is completely installed: a failed fetch or write
\* never leaves the machine without either (set -e in upgr-pkg.sh).
InstallsFirst ==
    ~(recorded \subseteq recorded') \/ (\E x \in Paths : Loses(x))
        => cur \in Installed \cup torn \cup StagedFiles

\* An edited configuration file survives when the new version still has it: the
\* new copy goes to .new beside it, and the old version's removal skips it
\* because the new list names it.
EditsSurvive ==
    \A x \in Paths :
        /\ cur \in StagedFiles \ torn
        /\ x \in Files(cur)
        /\ disk[x] = Edited
        /\ DotNew[x] # x
        => disk'[x] = Edited

\* No kernel is taken away, neither the running one nor its modules, whatever
\* other packages the same upgrade replaces.
KernelsStay == \A k \in Kernels \cap Installed : k \in Installed'

\* No step of an upgrade costs the machine what the upgrade is to keep: the
\* package itself, edited files and kernels.
UpgradeKeeps ==
    [][kind = "upgrade" => InstallsFirst /\ EditsSurvive /\ KernelsStay]_vars

\* The scripts implement the store a user thinks of: every step of theirs is
\* one step of it, or none.
Store == INSTANCE PackageStore WITH
    Contents <- [p \in Packages |-> Files(p)],
    installed <- Installed,
    files <- {x \in Paths : Present(x)}

ImplementsStore == Store!Spec

\* remv-pkg.sh:52, "check installed in other package": a removal leaves alone
\* every path another list names.
OtherPackagesPathsKept ==
    [][\A x \in Paths : phase = "remove" /\ Loses(x) =>
         \A q \in recorded \ {victim} : x \notin Lines(q)]_vars

\* doc/text/upgrade-package.help:6, "installing the new package and removing
\* the old": after an upgrade that reports success the new package is there.
UpgradeInstallsNew ==
    phase = "idle" /\ exit = "ok" /\ kind = "upgrade" =>
        \A p \in LastOfName \ StagedFiles : Intact(p)
=============================================================================
