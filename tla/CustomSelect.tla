----------------------------- MODULE CustomSelect -----------------------------
(***************************************************************************)
(* scripts/select/select-custom-packages.sh, after the menu: the selection *)
(* of metas, groups and builds is worked off word by word until it has no  *)
(* meta left.  A meta stands for the words in its file; a group goes to    *)
(* the list of BLFS packages, a build to the list of custom builds.        *)
(*                                                                         *)
(* The selection is a shell variable, and ${configout//$co/} takes a word  *)
(* out of it wherever it occurs, inside longer words as well.  What is     *)
(* left of such a word has no meaning any more; the model drops it.  The   *)
(* for loop itself goes over the words as they were when it began.         *)
(***************************************************************************)
EXTENDS Orders

CONSTANTS
    Metas, Groups, Builds, \* the words, by their suffix
    Absent,      \* the metas and groups that have no file
    MetaFiles,   \* what the files of the metas may contain
    Selections,  \* what may be selected, in the order of the menu
    WordsWith    \* [Words -> SUBSET Words]: in which a word occurs

Words == Metas \cup Groups \cup Builds

ASSUME CustomSelectAssumption ==
    /\ Metas \cap Groups = {} /\ Metas \cap Builds = {} /\ Groups \cap Builds = {}
    /\ Absent \subseteq Metas \cup Groups
    /\ MetaFiles \subseteq [Metas -> Seq(Words)]
    /\ Selections \subseteq Seq(Words \ Absent)
    /\ WordsWith \in [Words -> SUBSET Words]
    /\ \A w \in Words : w \in WordsWith[w]

VARIABLES
    metafile,  \* the content of the meta files
    selected,  \* the selection of the menu
    configout, \* the words left to do
    round,     \* the words the for loop has left
    meta,      \* whether this round has met a meta
    pkgs,      \* the groups whose packages are in $BLFS_PKGS_LIST
    blds,      \* $CSTM_BLDS_LIST
    phase

vars == <<metafile, selected, configout, round, meta, pkgs, blds, phase>>

\* What is left of words when w is replaced by nothing.
TakenOut(words, w) == Without(words, WordsWith[w])

Init ==
    /\ metafile \in MetaFiles
    /\ selected \in Selections
    /\ configout = selected
    /\ round = <<>>
    /\ meta = TRUE
    /\ pkgs = {}
    /\ blds = {}
    /\ phase = "rounds"

\* The while loop goes on when the last round has met a meta.
StartRound ==
    /\ phase = "rounds"
    /\ IF meta
       THEN /\ round' = configout
            /\ phase' = "words"
            /\ meta' = FALSE
       ELSE phase' = "done" /\ UNCHANGED <<round, meta>>
    /\ UNCHANGED <<metafile, selected, configout, pkgs, blds>>

EndRound ==
    /\ phase = "words"
    /\ round = <<>>
    /\ phase' = "rounds"
    /\ UNCHANGED <<metafile, selected, configout, round, meta, pkgs, blds>>

\* Mutant: a word is taken out of the rest of the round too
TakenEverywhere(w) == TakenOut(Tail(round), w)

TakenFrom(w) == Tail(round)

TakeWord(w) ==
    /\ phase = "words"
    /\ round # <<>>
    /\ w = Head(round)
    /\ round' = TakenFrom(w)
    /\ UNCHANGED <<metafile, selected>>

\* Mutant: the meta stays in the selection it is expanded in
ExpandMetaInPlace(w) ==
    /\ w \in Metas \ Absent
    /\ TakeWord(w)
    /\ meta' = TRUE
    /\ configout' = configout \o metafile[w]
    /\ UNCHANGED <<pkgs, blds, phase>>

ExpandMeta(w) ==
    /\ w \in Metas \ Absent
    /\ TakeWord(w)
    /\ meta' = TRUE
    /\ configout' = TakenOut(configout, w) \o metafile[w]
    /\ UNCHANGED <<pkgs, blds, phase>>

WriteGroup(w) ==
    /\ w \in Groups \ Absent
    /\ TakeWord(w)
    /\ pkgs' = pkgs \cup {w}
    /\ configout' = TakenOut(configout, w)
    /\ UNCHANGED <<meta, blds, phase>>

\* No file is read; the lists are kept without what is in them twice, as the
\* end of the script leaves them.
WriteBuild(w) ==
    /\ w \in Builds
    /\ TakeWord(w)
    /\ blds' = blds \cup {w}
    /\ configout' = TakenOut(configout, w)
    /\ UNCHANGED <<meta, pkgs, phase>>

\* cat fails and set -e ends the script; the lists stay as far as they are.
FileMissing(w) ==
    /\ w \in Absent
    /\ TakeWord(w)
    /\ meta' = (meta \/ w \in Metas)
    /\ phase' = "failed"
    /\ UNCHANGED <<configout, pkgs, blds>>

Next ==
    \/ StartRound \/ EndRound
    \/ \E w \in Words : ExpandMeta(w) \/ WriteGroup(w) \/ WriteBuild(w) \/ FileMissing(w)

Spec == Init /\ [][Next]_vars

\* The script is one process that waits for nothing.
FairSpec == Spec /\ WF_vars(Next)

-------------------------------------------------------------------------------
\* What the selection stands for

Brought(E, Allowed) == UNION {Elements(metafile[m]) \cap Allowed : m \in E}

\* The words of S and those of Allowed that metas bring to them: what S and E
\* have, whichever set of metas E is that has all metas S and E bring.
StandsFor(S, Allowed) ==
    LET Expanded == {E \in SUBSET Metas : (S \cup Brought(E, Allowed)) \cap Metas \subseteq E}
    IN  {w \in Words : \A E \in Expanded : w \in S \cup Brought(E, Allowed)}

\* No meta stands for itself.
Acyclic == \A m \in Metas : m \notin StandsFor(Elements(metafile[m]), Words)

\* The words in which no other word occurs
Plain == {w \in Words : \A x \in Words \ {w} : w \notin WordsWith[x]}

Written == pkgs \cup blds

-------------------------------------------------------------------------------
\* Properties

\* Nothing is written that the selection does not stand for.  When the loop is
\* over, all of the selection is written, and what it stands for through
\* metas, however deep, but for words with another word inside.
SelectionExpanded ==
    /\ Written \subseteq StandsFor(Elements(selected), Words)
    /\ phase = "done" => StandsFor(Elements(selected), Plain) \subseteq Metas \cup Written

\* The loop ends if no meta stands for itself, whatever metas share.
ExpansionEnds == Acyclic ~> phase \in {"done", "failed"}
===============================================================================
