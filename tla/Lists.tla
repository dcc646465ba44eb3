--------------------------------- MODULE Lists ---------------------------------
(***************************************************************************)
(* Package lists: scripts/list/list-{install,remove,upgrade}.sh with       *)
(* funcs/get-list-pkgs.func and funcs/install-list-files.func.             *)
(*                                                                         *)
(* A list is a file of archive names.  A command works out packages from   *)
(* the lists it was given, runs the package command of its kind over them, *)
(* and then copies the list files to $LPM_LISTS or deletes them there.     *)
(* Only these files tell which lists, and so which packages, are in use.   *)
(*                                                                         *)
(* "installed" is what PackageDB calls recorded.  A package is installed   *)
(* or removed in one step here: what happens inside is PackageDB's matter. *)
(* A command may be killed between any two steps, and while it copies a    *)
(* list file.                                                              *)
(***************************************************************************)
EXTENDS Integers, Sequences, FiniteSets

CONSTANTS
    Packages,     \* archive names
    NameOf,       \* [Packages -> names]: what precedes the first "--"
    NameInside,   \* [Packages -> SUBSET Packages]: whose names contain the name
    Kernels,
    SortUnique,   \* [SUBSET Packages -> Seq(Packages)]: sort -u
    ListNames,
    RepoFiles,    \* list files in the repository, see ListFile
    RepoRequests, \* contents $REPO_LIST_LIST may have
    InstRequests, \* contents $REMV_LISTS_LIST may have
    MaxOps,       \* bound: commands started
    MaxFaults     \* bound: killed commands

Elements(s) == {s[i] : i \in 1..Len(s)}

ListFile == [list : ListNames, packages : SUBSET Packages]

ASSUME ListsAssumption ==
    /\ NameInside \in [Packages -> SUBSET Packages]
    /\ \A p \in Packages : p \in NameInside[p]
    /\ SortUnique \in [SUBSET Packages -> Seq(Packages)]
    /\ \A S \in SUBSET Packages : Elements(SortUnique[S]) = S
    /\ RepoFiles \subseteq ListFile
    /\ RepoRequests \subseteq Seq(RepoFiles)
    /\ InstRequests \subseteq Seq(ListNames)
    /\ MaxOps \in Nat
    /\ MaxFaults \in Nat

VARIABLES
    installed, \* packages with an installed file list
    filed,     \* lists with a file in $LPM_LISTS
    listed,    \* [ListNames -> packages in that file]
    kind,      \* the command running, or the last one
    request,   \* its lists, with the packages it read from them
    todo,      \* packages its loop has left
    files,     \* list files it has left to copy or delete
    error,     \* package-install's error flag
    phase,
    exit,
    replaced,  \* history: packages taken away by an upgrade or one by one
    torn,      \* history: lists whose removal did not come to its end
    ops,       \* history
    faults     \* history

durable == <<installed, filed, listed>>
command == <<kind, request, todo, files, error>>
history == <<replaced, torn, ops, faults>>
vars == <<installed, filed, listed, kind, request, todo, files, error, phase,
          exit, replaced, torn, ops, faults>>

-------------------------------------------------------------------------------
\* Vocabulary

Named(r) == {f.list : f \in Elements(r)}
Contents(r) == UNION {f.packages : f \in Elements(r)}

\* upgr-pkg.sh: the versions an upgrade to p takes away
Superseded(p) ==
    IF p \in Kernels THEN {} ELSE {q \in installed \ {p} : NameOf[q] = NameOf[p]}

\* Mutant: lists being removed count as well
UsedAnywhere(p, r) == \E l \in filed : listed[l] \cap NameInside[p] # {}

\* list-remove.sh, CHECK USED: some list other than those of the request has a
\* line with the package's name in it
Used(p, r) == \E l \in filed \ Named(r) : listed[l] \cap NameInside[p] # {}

-------------------------------------------------------------------------------
\* Starting

Init ==
    /\ installed = {}
    /\ filed = {}
    /\ listed = [l \in ListNames |-> {}]
    /\ kind = "install"
    /\ request = <<>>
    /\ todo = <<>>
    /\ files = <<>>
    /\ error = FALSE
    /\ phase = "idle"
    /\ exit = "none"
    /\ replaced = {}
    /\ torn = {}
    /\ ops = 0
    /\ faults = 0

Begin(k, r, pkgs) ==
    /\ phase = "idle"
    /\ ops < MaxOps
    /\ ops' = ops + 1
    /\ kind' = k
    /\ request' = r
    /\ todo' = pkgs
    /\ files' = r
    /\ error' = FALSE
    /\ phase' = "confirm"
    /\ exit' = "none"
    /\ UNCHANGED <<durable, replaced, torn, faults>>

\* list-install.sh and list-upgrade.sh read the repository's list files
StartFromRepo(k, r) == Begin(k, r, SortUnique[Contents(r)])

\* list-remove.sh reads the installed list files
StartRemove(names) ==
    LET r == [i \in 1..Len(names) |-> [list |-> names[i], packages |-> listed[names[i]]]]
        unused == {p \in Contents(r) : ~Used(p, r)}
    IN  /\ Elements(names) \subseteq filed
        /\ Begin("remove", r, SortUnique[unused])

Installs(p) ==
    /\ installed' = installed \cup {p}
    /\ replaced' = replaced \ {p}

\* A package command outside of any list
DirectInstall(p) ==
    /\ phase = "idle"
    /\ ops < MaxOps
    /\ ops' = ops + 1
    /\ Installs(p)
    /\ exit' = "none"
    /\ UNCHANGED <<filed, listed, command, phase, torn, faults>>

DirectRemove(p) ==
    /\ phase = "idle"
    /\ ops < MaxOps
    /\ p \in installed
    /\ ops' = ops + 1
    /\ installed' = installed \ {p}
    /\ replaced' = replaced \cup {p}
    /\ exit' = "none"
    /\ UNCHANGED <<filed, listed, command, phase, torn, faults>>

Confirm ==
    /\ phase = "confirm"
    /\ phase' = "packages"
    /\ UNCHANGED <<durable, command, exit, history>>

Fails ==
    /\ phase' = "idle"
    /\ exit' = "failed"

\* A pre-install script fails, or the answer is not "Yes"
Cancel ==
    /\ phase = "confirm"
    /\ Fails
    /\ UNCHANGED <<durable, command, history>>

-------------------------------------------------------------------------------
\* The package command: package-install.sh, -remove.sh or -upgrade.sh

NextPackage == todo' = Tail(todo)
AtPackage(k) == phase = "packages" /\ kind = k /\ todo # <<>>

InstallSkips ==
    /\ AtPackage("install")
    /\ Head(todo) \in installed
    /\ NextPackage
    /\ UNCHANGED <<durable, kind, request, files, error, phase, exit, history>>

\* Mutant: an error is forgotten by the end of the loop
NoteNothing == UNCHANGED error

NoteError == error' = TRUE

\* A failing inst-pkg.sh has written its package's list, or has not come so far.
InstallFails(p) == Installs(p) \/ UNCHANGED <<installed, replaced>>

InstallNext ==
    /\ AtPackage("install")
    /\ Head(todo) \notin installed
    /\ NextPackage
    /\ \/ Installs(Head(todo)) /\ UNCHANGED error
       \/ InstallFails(Head(todo)) /\ NoteError
    /\ UNCHANGED <<filed, listed, kind, request, files, phase, exit, torn, ops, faults>>

RemoveNext ==
    /\ AtPackage("remove")
    /\ NextPackage
    /\ installed' = installed \ {Head(todo)}
    /\ UNCHANGED <<filed, listed, kind, request, files, error, phase, exit, history>>

UpgradeInstalls ==
    /\ AtPackage("upgrade")
    /\ Head(todo) \notin installed
    /\ Installs(Head(todo))
    /\ UNCHANGED <<filed, listed, command, phase, exit, torn, ops, faults>>

UpgradeFails ==
    /\ AtPackage("upgrade")
    /\ Head(todo) \notin installed
    /\ InstallFails(Head(todo))
    /\ Fails
    /\ UNCHANGED <<filed, listed, command, torn, ops, faults>>

UpgradeRetires ==
    /\ AtPackage("upgrade")
    /\ Head(todo) \in installed
    /\ \E q \in Superseded(Head(todo)) :
         /\ installed' = installed \ {q}
         /\ replaced' = replaced \cup {q}
    /\ UNCHANGED <<filed, listed, command, phase, exit, torn, ops, faults>>

UpgradeNext ==
    /\ AtPackage("upgrade")
    /\ Head(todo) \in installed
    /\ Superseded(Head(todo)) = {}
    /\ NextPackage
    /\ UNCHANGED <<durable, kind, request, files, error, phase, exit, history>>

PackagesEnd ==
    /\ phase = "packages"
    /\ todo = <<>>
    /\ IF kind = "install" /\ error
         THEN Fails
         ELSE phase' = "hooks" /\ UNCHANGED exit
    /\ UNCHANGED <<durable, command, history>>

-------------------------------------------------------------------------------
\* After the packages: post-install scripts and list files

\* list-install.sh copies, list-upgrade.sh copies and deletes, list-remove.sh
\* deletes.  Only list-install.sh has post scripts that exist, see the README.
Hooks ==
    /\ phase = "hooks"
    /\ \/ phase' = (IF kind = "remove" THEN "delete" ELSE "copy") /\ UNCHANGED exit
       \/ kind = "install" /\ Fails
    /\ UNCHANGED <<durable, command, history>>

\* Mutant: a list file that is there already is left as it is
FileWhenAbsent(f) ==
    /\ filed' = filed \cup {f.list}
    /\ listed' = IF f.list \in filed THEN listed ELSE [listed EXCEPT ![f.list] = f.packages]

FileUnderName(f) ==
    /\ filed' = filed \cup {f.list}
    /\ listed' = [listed EXCEPT ![f.list] = f.packages]

CopyList ==
    /\ phase = "copy"
    /\ files # <<>>
    /\ FileUnderName(Head(files))
    /\ torn' = torn \ {Head(files).list}
    /\ files' = Tail(files)
    /\ UNCHANGED <<installed, kind, request, todo, error, phase, exit, replaced, ops, faults>>

\* The repository does not answer, the disk is full or the command is killed:
\* cp and curl have not opened the list file yet, or have written some of it.
CopyFails ==
    /\ phase = "copy"
    /\ files # <<>>
    /\ Fails
    /\ \/ UNCHANGED <<filed, listed, torn>>
       \/ /\ \E part \in SUBSET Head(files).packages :
               FileUnderName([Head(files) EXCEPT !.packages = part])
          /\ torn' = torn \ {Head(files).list}
    /\ UNCHANGED <<installed, command, replaced, ops, faults>>

CopyEnds ==
    /\ phase = "copy"
    /\ files = <<>>
    /\ IF kind = "upgrade"
         THEN phase' = "delete" /\ files' = request /\ UNCHANGED exit
         ELSE phase' = "idle" /\ exit' = "ok" /\ UNCHANGED files
    /\ UNCHANGED <<durable, kind, request, todo, error, history>>

\* Lists whose packages a running command is taking away
Leaving == IF kind = "remove" /\ phase \notin {"idle", "confirm"} THEN Named(request) ELSE {}

\* rm of a file that is gone fails: the same list twice in the request
DeleteList ==
    /\ phase = "delete"
    /\ files # <<>>
    /\ IF Head(files).list \in filed
         THEN /\ filed' = filed \ {Head(files).list}
              /\ listed' = [listed EXCEPT ![Head(files).list] = {}]
              /\ torn' = torn \ {Head(files).list}
              /\ files' = Tail(files)
              /\ UNCHANGED <<phase, exit>>
         ELSE /\ Fails
              /\ torn' = torn \cup (Leaving \cap filed)
              /\ UNCHANGED <<filed, listed, files>>
    /\ UNCHANGED <<installed, kind, request, todo, error, replaced, ops, faults>>

DeleteEnds ==
    /\ phase = "delete"
    /\ files = <<>>
    /\ phase' = "idle"
    /\ exit' = "ok"
    /\ UNCHANGED <<durable, command, history>>

Crash ==
    /\ phase # "idle"
    /\ faults < MaxFaults
    /\ faults' = faults + 1
    /\ torn' = torn \cup (Leaving \cap filed)
    /\ Fails
    /\ UNCHANGED <<durable, command, replaced, ops>>

Step ==
    \/ InstallSkips \/ InstallNext \/ RemoveNext
    \/ UpgradeInstalls \/ UpgradeFails \/ UpgradeRetires \/ UpgradeNext
    \/ PackagesEnd \/ Hooks
    \/ CopyList \/ CopyFails \/ CopyEnds \/ DeleteList \/ DeleteEnds

Environment ==
    \/ \E k \in {"install", "upgrade"}, r \in RepoRequests : StartFromRepo(k, r)
    \/ \E names \in InstRequests : StartRemove(names)
    \/ \E p \in Packages : DirectInstall(p) \/ DirectRemove(p)
    \/ Confirm \/ Cancel \/ Crash

Next == Step \/ Environment

Spec == Init /\ [][Next]_vars

-------------------------------------------------------------------------------
\* Properties

TypeOK ==
    /\ installed \subseteq Packages
    /\ filed \subseteq ListNames
    /\ listed \in [ListNames -> SUBSET Packages]
    /\ kind \in {"install", "remove", "upgrade"}
    /\ request \in Seq(ListFile)
    /\ todo \in Seq(Packages)
    /\ files \in Seq(ListFile)
    /\ error \in BOOLEAN
    /\ phase \in {"idle", "confirm", "packages", "hooks", "copy", "delete"}
    /\ exit \in {"none", "ok", "failed"}
    /\ replaced \subseteq Packages \ installed
    /\ torn \subseteq filed
    /\ ops \in 0..MaxOps
    /\ faults \in 0..MaxFaults
    /\ \A l \in ListNames : l \notin filed => listed[l] = {}

\* An installed list file means that its packages are installed, whatever
\* lists share packages and whichever command failed or was killed: the file is
\* copied after the packages (list-install.sh:100), it goes after them, and a
\* removal leaves what another list has (list-remove.sh:75).  Excepted are
\* packages an upgrade or a direct removal took, and lists whose removal was
\* interrupted.
ListedInstalled ==
    \A l \in filed \ (torn \cup Leaving) : listed[l] \subseteq installed \cup replaced

\* A removal that reports success leaves no file of its lists, and of their
\* packages only those whose name some other list has a line with.
RemovalComplete ==
    phase = "idle" /\ exit = "ok" /\ kind = "remove" =>
        /\ Named(request) \cap filed = {}
        /\ \A p \in Contents(request) \cap installed :
              \E l \in filed : listed[l] \cap NameInside[p] # {}

\* list-install.sh's success means what was asked, whatever was installed or in
\* use before: its packages are installed, and of every list that was named the
\* file has the lines of one that the request has under this name.  A package
\* that fails in the middle of package-install.sh's loop, or a list file that is
\* not copied whole, is not forgotten at the end.
InstallComplete ==
    phase = "idle" /\ exit = "ok" /\ kind = "install" =>
        /\ Contents(request) \subseteq installed
        /\ \A l \in Named(request) :
              l \in filed /\ \E f \in Elements(request) : f.list = l /\ listed[l] = f.packages

\* list-upgrade.sh:108,111, "INSTALL LIST FILES": after an upgrade that reports
\* success the list files of the request are installed.
UpgradeInstallsLists ==
    phase = "idle" /\ exit = "ok" /\ kind = "upgrade" => Named(request) \subseteq filed
=============================================================================
