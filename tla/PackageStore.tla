----------------------------- MODULE PackageStore -----------------------------
(***************************************************************************)
(* What the package manager promises about the root file system, with the  *)
(* scripts' loops, list files and exit statuses left out.                  *)
(*                                                                         *)
(* "files" are the paths on disk and "installed" the packages a user may   *)
(* rely on.  A package becomes installed only once all its files are       *)
(* there, and a file goes only when no installed package has it.           *)
(***************************************************************************)
CONSTANTS
    Packages,   \* the package archives
    Paths,      \* the paths archives put under the root
    Contents    \* [Packages -> SUBSET Paths]

VARIABLES
    installed,
    files

storeVars == <<installed, files>>

Init ==
    /\ installed = {}
    /\ files = {}

\* A path appears: unpacked by an install, or renamed into place.
Write(x) ==
    /\ files' = files \cup {x}
    /\ UNCHANGED installed

\* A package counts as installed once every path of it is on disk.
Commit(p) ==
    /\ Contents[p] \subseteq files
    /\ installed' = installed \cup {p}
    /\ UNCHANGED files

\* A package stops being relied on before its first file is taken away.
Retire(p) ==
    /\ installed' = installed \ {p}
    /\ UNCHANGED files

\* A path disappears, and no installed package misses it.
Erase(x) ==
    /\ \A p \in installed : x \notin Contents[p]
    /\ files' = files \ {x}
    /\ UNCHANGED installed

Next ==
    \/ \E x \in Paths : Write(x) \/ Erase(x)
    \/ \E p \in Packages : Commit(p) \/ Retire(p)

Spec == Init /\ [][Next]_storeVars
===============================================================================
