------------------------------ MODULE ConfigFiles ------------------------------
(***************************************************************************)
(* What a Kconfig object leaves on the disk, whatever its symbols are worth *)
(* and however their values change: auto.conf and the headers, by which a   *)
(* build knows what changed, and .config with the one before it.            *)
(*                                                                         *)
(* Kconfig implements this module: it has the values that output and the    *)
(* lines of the files come from.                                            *)
(***************************************************************************)
EXTENDS Integers

VARIABLES
    output,   \* [symbol -> what it is in autoconf.h]
    auto,     \* <path>/auto.conf: [symbol -> value]
    touched,  \* the symbols whose <path>/*.h is newer than the last build
    built,    \* [symbol -> what the build last saw of it]
    synced,   \* whether sync_deps has returned since the last change
    lost,     \* history: the symbols that auto.conf no longer tells the build's
              \*   value of, as the writing of it was cut short, and that were
              \*   not touched since
    config,   \* the file .config, whose state is "absent", "torn" or "whole"
    old,      \* the file .config.old
    crashes   \* history

sync_vars == <<auto, touched, built, synced, lost>>
save_vars == <<config, old, crashes>>
files_vars == <<output, sync_vars, save_vars>>

Unbuilt == -3   \* what the build has seen of a symbol it never compiled

FilesInit ==
    /\ DOMAIN auto = DOMAIN output
    /\ touched = {}
    /\ built = [s \in DOMAIN output |-> Unbuilt]
    /\ synced = FALSE
    /\ lost = {}
    /\ config.state = "absent" /\ old.state = "absent"
    /\ crashes = 0

-------------------------------------------------------------------------------
(* sync_deps touches every symbol whose output is not that of auto.conf,     *)
(* then writes auto.conf.  It may fail between any two of these, and in the  *)
(* middle of the writing: auto.conf is truncated before it is written.       *)

StaleSymbols == {s \in DOMAIN output : output[s] # auto[s]}

\* Some lines are in auto.conf, others are not or are cut short.
TornAuto == DOMAIN auto' = DOMAIN output

LostLines == IF auto' = auto THEN {} ELSE {s \in DOMAIN output : auto'[s] # output[s]}

SyncFiles ==
    /\ UNCHANGED <<output, built, save_vars>>
    /\ \/ touched' = touched \cup StaleSymbols /\ auto' = output /\ synced' = TRUE
       \/ /\ \E some \in SUBSET StaleSymbols : touched' = touched \cup some
          /\ auto' = auto /\ synced' = FALSE
       \/ touched' = touched \cup StaleSymbols /\ auto # output /\ TornAuto /\ synced' = FALSE
    /\ lost' = (lost \cup LostLines) \ touched'

\* The build compiles what depends on some of the touched symbols, and what
\* it never compiled.
BuildSome ==
    /\ synced
    /\ \E some \in SUBSET touched :
          /\ built' = [s \in DOMAIN output |->
                 IF s \in some \/ built[s] = Unbuilt THEN output[s] ELSE built[s]]
          /\ touched' = touched \ some

BuildFiles ==
    /\ BuildSome
    /\ UNCHANGED <<output, auto, synced, lost, save_vars>>

\* Values are assigned or loaded.
ChangeValues ==
    /\ DOMAIN output' = DOMAIN output
    /\ synced' = FALSE
    /\ UNCHANGED <<auto, touched, built, lost, save_vars>>

-------------------------------------------------------------------------------
\* write_config, and the process killed in it: the next one has other values.

SavedOld == IF config.state = "absent" THEN old ELSE config

SaveFile ==
    /\ old' = SavedOld
    /\ config'.state = "whole"
    /\ UNCHANGED <<output, sync_vars, crashes>>

SaveFileKilled ==
    /\ old' = SavedOld
    /\ config'.state \in {"absent", "torn"}
    /\ crashes' = crashes + 1
    /\ DOMAIN output' = DOMAIN output
    /\ synced' = FALSE
    /\ UNCHANGED <<auto, touched, built, lost>>

FilesNext == ChangeValues \/ SyncFiles \/ BuildFiles \/ SaveFile \/ SaveFileKilled

FilesSpec == FilesInit /\ [][FilesNext]_files_vars

-------------------------------------------------------------------------------
\* Properties

\* Once sync_deps has returned, a symbol that the build has seen otherwise has
\* been touched, even when earlier calls failed at any touch or before auto.conf
\* was opened.  When one was killed while it wrote auto.conf, the symbols whose
\* lines it lost are excepted until they are touched: such a symbol is taken to
\* have been n, so setting it to n now tells the build nothing.
SyncTouches ==
    synced => \A s \in DOMAIN output \ lost :
        built[s] \in {Unbuilt, output[s]} \/ s \in touched

\* As long as one save at most was cut short, a whole .config or .config.old
\* remains once there is one.
SaveSafe ==
    [][ crashes' <= 1 /\ "whole" \in {config.state, old.state}
        => "whole" \in {config'.state, old'.state} ]_files_vars
===============================================================================
