----------------------------- MODULE MCPackaging ------------------------------
(***************************************************************************)
(* A package with a first pass, one that is built between the two passes   *)
(* and overwrites a file of the first, a third that takes a file away      *)
(* again, and one with a dangling link and a file with blanks in its name; *)
(* some files are there before the build.                                  *)
(***************************************************************************)
EXTENDS Packaging, TLC

CONSTANTS pass1, p, q, r, w, f, g, h, log, link, blanks

SmallPlans == {<<pass1, q, p>>, <<q, p, r>>, <<p>>, <<w, q>>}

SmallInstalls ==
    (pass1 :> {f, g}) @@ (p :> {g, h}) @@ (q :> {f, log}) @@ (r :> {g})
    @@ (w :> {link, blanks, h})

SmallRemoves == (pass1 :> {}) @@ (p :> {}) @@ (q :> {}) @@ (r :> {h}) @@ (w :> {})

ThereBefore == {{}, {f, g}, {log}}

Whole == (pass1 :> p) @@ (p :> p) @@ (q :> q) @@ (r :> r) @@ (w :> w)

ByName == <<p, pass1, q, r, w>>
===============================================================================
