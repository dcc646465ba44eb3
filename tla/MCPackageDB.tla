------------------------------ MODULE MCPackageDB ------------------------------
(***************************************************************************)
(* Small instances of PackageDB for TLC.                                   *)
(***************************************************************************)
EXTENDS PackageDB, TLC

CONSTANTS usr, bin, f, g, h, etc, pw, pwNew, boot, img, sys

CONSTANTS a1, a2, b1, v1, v2, k1, k2, d1

Exact(paths) == [x \in paths |-> {x}]
Plain(paths) == [x \in paths |-> x]

\* Two versions of a package, and another that shares a file with the first.
SharedPackages == {a1, a2, b1}
SharedNames == [p \in SharedPackages |-> IF p = b1 THEN "b" ELSE "a"]
SharedPaths == {usr, bin, f, g, h}
SharedParent ==
    [x \in SharedPaths |-> CASE x = usr -> Root [] x \in {bin, h} -> usr [] OTHER -> bin]
SharedListing ==
    [p \in SharedPackages |->
        CASE p = a1 -> <<usr, bin, f, g>>
          [] p = a2 -> <<usr, h, bin, f>>
          [] p = b1 -> <<usr, bin, g>>]
SharedHits == Exact(SharedPaths)
SharedDotNew == Plain(SharedPaths)
SharedSelections == {<<a1>>, <<b1>>, <<a2, b1>>, <<a1, a2>>}

\* f stands for /usr/bin/[, whose line is no regular expression grep accepts.
BracketHits == [x \in SharedPaths |-> IF x = f THEN {} ELSE {x}]

\* Configuration files that are staged, directories that are, and kernels.
VolatilePackages == {v1, v2, k1, k2, d1}
VolatileNames ==
    [p \in VolatilePackages |->
        CASE p \in {v1, v2} -> "v" [] p \in {k1, k2} -> "k" [] OTHER -> "d"]
VolatilePaths == {etc, pw, pwNew, boot, img, sys}
VolatileParent ==
    [x \in VolatilePaths |->
        CASE x \in {etc, boot} -> Root [] x \in {pw, pwNew} -> etc [] OTHER -> boot]
VolatileListing ==
    [p \in VolatilePackages |->
        CASE p \in {v1, v2} -> <<etc, pw>>
          [] p = k1 -> <<boot, img>>
          [] p = k2 -> <<boot, sys>>
          [] p = d1 -> <<boot>>]
VolatileSelections == {<<v1>>, <<v2, d1>>, <<k1>>, <<k2>>}
VolatileStaged == {v1, v2}
VolatileStagedDirs == {d1}
VolatileKernels == {k1, k2}

\* Both: the commands of a behaviour stay with the packages of the first one,
\* for the two have no path and no name in common; the second has one fault.
BothPackages == SharedPackages \cup VolatilePackages
BothNames == SharedNames @@ VolatileNames
BothPaths == SharedPaths \cup VolatilePaths
BothParent == SharedParent @@ VolatileParent
BothListing == SharedListing @@ VolatileListing
BothHits == Exact(BothPaths)
BothDotNew == [Plain(BothPaths) EXCEPT ![pw] = pwNew]
BothSelections == SharedSelections \cup VolatileSelections
OneFamily ==
    /\ request # <<>> => (request \in SharedSelections <=> request' \in SharedSelections)
    /\ request' \in VolatileSelections => faults' <= 1
=============================================================================
