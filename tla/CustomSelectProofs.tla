--------------------------- MODULE CustomSelectProofs ---------------------------
(***************************************************************************)
(* Proofs about CustomSelect, for any words, names inside others, files of *)
(* metas (that may stand for each other and for themselves) and selections.*)
(*                                                                         *)
(* Sound: every word at hand is one the selection stands for.  Complete:   *)
(* with the metas that were expanded so far, a word they or the selection  *)
(* bring was written, is one of these metas, or is still to come: in the   *)
(* rest of this round, or in the next one if nothing else takes it out.  A *)
(* round without a meta leaves nothing for a next one.                     *)
(*                                                                         *)
(* Left measures what is to come: a round takes each of its metas out, and *)
(* one of them is brought by no other if none stands for itself.           *)
(***************************************************************************)
EXTENDS CustomSelect, OrdersProofs, SequenceTheorems

USE CustomSelectAssumption

-------------------------------------------------------------------------------
\* Lists of words

LEMMA HeadAndTail ==
    ASSUME NEW s \in Seq(Words), s # <<>>
    PROVE  /\ Head(s) \in Words
           /\ Tail(s) \in Seq(Words)
           /\ Elements(s) = {Head(s)} \cup Elements(Tail(s))
<1>1. /\ Len(s) \in Nat \ {0} /\ Head(s) = s[1] /\ Head(s) \in Words
      /\ Tail(s) \in Seq(Words) /\ Len(Tail(s)) = Len(s) - 1
      /\ \A i \in 1..Len(Tail(s)) : Tail(s)[i] = s[i + 1]
    BY HeadTailProperties
<1>2. ASSUME NEW i \in 1..Len(s) PROVE s[i] \in {Head(s)} \cup Elements(Tail(s))
  <2>1. CASE i = 1
      BY <1>1, <2>1
  <2>2. CASE i # 1
    <3>1. i - 1 \in 1..Len(Tail(s)) /\ s[i] = Tail(s)[i - 1]
        BY <1>1, <2>2
    <3> QED
        BY <3>1 DEF Elements
  <2> QED
      BY <2>1, <2>2
<1>3. ASSUME NEW i \in 1..Len(Tail(s)) PROVE Tail(s)[i] \in Elements(s)
  <2>1. i + 1 \in 1..Len(s) /\ Tail(s)[i] = s[i + 1]
      BY <1>1
  <2> QED
      BY <2>1 DEF Elements
<1>4. Head(s) \in Elements(s)
  <2>1. 1 \in 1..Len(s)
      BY <1>1
  <2> QED
      BY <1>1, <2>1 DEF Elements
<1> QED
    BY <1>1, <1>2, <1>3, <1>4 DEF Elements

LEMMA ElementsConcat ==
    ASSUME NEW s \in Seq(Words), NEW t \in Seq(Words)
    PROVE  s \o t \in Seq(Words) /\ Elements(s \o t) = Elements(s) \cup Elements(t)
<1>1. /\ s \o t \in Seq(Words) /\ Len(s \o t) = Len(s) + Len(t)
      /\ Len(s) \in Nat /\ Len(t) \in Nat
      /\ \A i \in 1..Len(s) + Len(t) :
            (s \o t)[i] = IF i <= Len(s) THEN s[i] ELSE t[i - Len(s)]
    BY ConcatProperties, LenProperties
<1>2. ASSUME NEW i \in 1..Len(s \o t) PROVE (s \o t)[i] \in Elements(s) \cup Elements(t)
  <2>1. CASE i <= Len(s)
    <3>1. i \in 1..Len(s) /\ (s \o t)[i] = s[i]
        BY <1>1, <2>1
    <3> QED
        BY <3>1 DEF Elements
  <2>2. CASE ~(i <= Len(s))
    <3>1. i - Len(s) \in 1..Len(t) /\ (s \o t)[i] = t[i - Len(s)]
        BY <1>1, <2>2
    <3> QED
        BY <3>1 DEF Elements
  <2> QED
      BY <2>1, <2>2
<1>3. ASSUME NEW i \in 1..Len(s) PROVE s[i] \in Elements(s \o t)
  <2>1. i \in 1..Len(s \o t) /\ (s \o t)[i] = s[i]
      BY <1>1
  <2> QED
      BY <2>1 DEF Elements
<1>4. ASSUME NEW i \in 1..Len(t) PROVE t[i] \in Elements(s \o t)
  <2>1. i + Len(s) \in 1..Len(s \o t) /\ (s \o t)[i + Len(s)] = t[i]
      BY <1>1
  <2> QED
      BY <2>1 DEF Elements
<1> QED
    BY <1>1, <1>2, <1>3, <1>4 DEF Elements

LEMMA TakenOutWords ==
    ASSUME NEW s \in Seq(Words), NEW w \in Words
    PROVE  /\ TakenOut(s, w) \in Seq(Words)
           /\ Elements(TakenOut(s, w)) = Elements(s) \ WordsWith[w]
           /\ w \in WordsWith[w]
<1>1. Without(s, WordsWith[w]) \in Seq(Words)
    BY WithoutLists
<1>2. Elements(Without(s, WordsWith[w])) = Elements(s) \ WordsWith[w]
    BY WithoutElements
<1> QED
    BY <1>1, <1>2 DEF TakenOut, CustomSelectAssumption

LEMMA ElementsEmpty == Elements(<<>>) = {}
BY DEF Elements

LEMMA ElementsWords ==
    ASSUME NEW s \in Seq(Words)
    PROVE  Elements(s) \subseteq Words
BY DEF Elements

-------------------------------------------------------------------------------
\* What metas bring

LEMMA BroughtMore ==
    ASSUME NEW E \in SUBSET Metas, NEW m \in Metas, NEW A
    PROVE  Brought(E \cup {m}, A) = Brought(E, A) \cup (Elements(metafile[m]) \cap A)
BY DEF Brought

\* What a meta brings that the selection stands for, the selection stands for.
LEMMA StandsForClosed ==
    ASSUME NEW S, NEW m \in Metas, metafile \in [Metas -> Seq(Words)],
           m \in StandsFor(S, Words)
    PROVE  Elements(metafile[m]) \subseteq StandsFor(S, Words)
<1>1. Elements(metafile[m]) \subseteq Words
    BY ElementsWords
<1>2. ASSUME NEW E \in SUBSET Metas, (S \cup Brought(E, Words)) \cap Metas \subseteq E
      PROVE  Elements(metafile[m]) \subseteq Brought(E, Words)
  <2>1. m \in S \cup Brought(E, Words)
      BY <1>2 DEF StandsFor
  <2>2. m \in E
      BY <1>2, <2>1
  <2> QED
      BY <1>1, <2>2 DEF Brought
<1> QED
    BY <1>1, <1>2 DEF StandsFor

LEMMA StandsForSelf ==
    ASSUME NEW S \in SUBSET Words, NEW A
    PROVE  S \subseteq StandsFor(S, A)
BY DEF StandsFor

-------------------------------------------------------------------------------
\* The inductive invariant

Types ==
    /\ metafile \in [Metas -> Seq(Words)]
    /\ selected \in Seq(Words)
    /\ configout \in Seq(Words)
    /\ round \in Seq(Words)
    /\ meta \in BOOLEAN
    /\ pkgs \subseteq Groups
    /\ blds \subseteq Builds
    /\ phase \in {"rounds", "words", "done", "failed"}
    /\ phase \in {"rounds", "done"} => round = <<>>

Sound == Elements(configout) \cup Elements(round) \cup Written \subseteq StandsFor(Elements(selected), Words)

\* The word w is still to come.
Awaits(w) ==
    \/ w \in Elements(round)
    \/ w \in Elements(configout) /\ (w \in Plain \/ phase = "rounds")

\* What the selection and the metas in E bring was worked off or is to come.
WorkedOff(E) ==
    \A w \in Elements(selected) \cup Brought(E, Plain) : w \in Written \cup E \/ Awaits(w)

Complete ==
    phase # "failed" =>
        /\ ~meta => Elements(configout) \subseteq Elements(round)
        /\ phase = "done" => ~meta
        /\ \E E \in SUBSET Metas : WorkedOff(E)

SelectInv == Types /\ Sound /\ Complete

\* Words that were at hand before are sound.
LEMMA SoundStays ==
    ASSUME Sound, metafile' = metafile, selected' = selected,
           Elements(configout') \cup Elements(round') \cup Written'
           \subseteq Elements(configout) \cup Elements(round) \cup Written
    PROVE  Sound'
<1>1. StandsFor(Elements(selected), Words)' = StandsFor(Elements(selected), Words)
    BY DEF StandsFor, Brought
<1> QED
    BY <1>1 DEF Sound

LEMMA InitSelectInv == Init => SelectInv
<1> SUFFICES ASSUME Init PROVE SelectInv
    OBVIOUS
<1>1. selected \in Seq(Words) /\ metafile \in [Metas -> Seq(Words)]
  <2>1. selected \in Seq(Words \ Absent)
      BY DEF Init, CustomSelectAssumption
  <2>2. \A i \in 1..Len(selected) : selected[i] \in Words
      BY <2>1
  <2>3. selected \in Seq(Words)
      BY <2>1, <2>2
  <2> QED
      BY <2>3 DEF Init, CustomSelectAssumption
<1>2. Types
    BY <1>1 DEF Init, Types
<1>3. Sound
  <2>1. Elements(configout) \subseteq StandsFor(Elements(selected), Words)
      BY <1>1, ElementsWords, StandsForSelf DEF Init
  <2> QED
      BY <2>1, ElementsEmpty DEF Init, Sound, Written
<1>4. WorkedOff({})
    BY DEF WorkedOff, Awaits, Brought, Init
<1>5. Complete
    BY <1>4 DEF Complete, Init
<1> QED
    BY <1>2, <1>3, <1>5 DEF SelectInv

-------------------------------------------------------------------------------
\* The rounds

LEMMA StartRoundSelectInv == SelectInv /\ StartRound => SelectInv'
<1> SUFFICES ASSUME SelectInv, StartRound PROVE SelectInv'
    OBVIOUS
<1> USE DEF StartRound
<1>1. Types'
    BY DEF SelectInv, Types
<1>2. Elements(round') = IF meta THEN Elements(configout) ELSE {}
    BY ElementsEmpty DEF SelectInv, Types
<1>3. Elements(round) = {}
    BY ElementsEmpty DEF SelectInv, Types
<1>4. Sound'
  <2>1. Elements(round') \subseteq Elements(configout)
      BY <1>2
  <2> QED
      BY <2>1, SoundStays DEF SelectInv, Written
<1>5. PICK E \in SUBSET Metas : WorkedOff(E)
    BY DEF SelectInv, Complete
<1>6. WorkedOff(E)'
  <2> SUFFICES ASSUME NEW w \in Elements(selected) \cup Brought(E, Plain), w \notin Written \cup E
               PROVE  Awaits(w)'
      BY DEF WorkedOff, Brought, Written, Plain
  <2>1. w \in Elements(configout)
      BY <1>3, <1>5 DEF WorkedOff, Awaits
  <2>2. meta
      BY <1>3, <2>1 DEF SelectInv, Complete
  <2> QED
      BY <1>2, <2>1, <2>2 DEF Awaits
<1>7. Complete'
    BY <1>2, <1>3, <1>6 DEF SelectInv, Complete, Types
<1> QED
    BY <1>1, <1>4, <1>7 DEF SelectInv

LEMMA EndRoundSelectInv == SelectInv /\ EndRound => SelectInv'
<1> SUFFICES ASSUME SelectInv, EndRound PROVE SelectInv'
    OBVIOUS
<1> USE DEF EndRound
<1>1. Types' /\ Sound'
    BY SoundStays DEF SelectInv, Types, Written
<1>2. PICK E \in SUBSET Metas : WorkedOff(E)
    BY DEF SelectInv, Complete
<1>3. WorkedOff(E)'
    BY <1>2 DEF WorkedOff, Awaits, Brought, Written, Plain
<1>4. Complete'
    BY <1>3 DEF SelectInv, Complete
<1> QED
    BY <1>1, <1>4 DEF SelectInv

-------------------------------------------------------------------------------
\* The words

\* What taking a word does, whatever the word is.
LEMMA TakeWordFacts ==
    ASSUME SelectInv, NEW w \in Words, TakeWord(w)
    PROVE  /\ w \in Elements(round) /\ w \in StandsFor(Elements(selected), Words)
           /\ round' \in Seq(Words)
           /\ Elements(round) = {w} \cup Elements(round')
           /\ metafile' = metafile /\ selected' = selected /\ phase = "words"
<1>1. /\ Head(round) \in Words /\ Tail(round) \in Seq(Words)
      /\ Elements(round) = {Head(round)} \cup Elements(Tail(round))
    BY HeadAndTail DEF SelectInv, Types, TakeWord
<1> QED
    BY <1>1 DEF TakeWord, TakenFrom, SelectInv, Sound

\* A word that was worked off is not missed, and takes no plain word with it.
LEMMA TakeWordWorkedOff ==
    ASSUME SelectInv, NEW w \in Words, TakeWord(w), phase' = phase,
           Elements(configout) \ WordsWith[w] \subseteq Elements(configout'),
           NEW E \in SUBSET Metas, WorkedOff(E), NEW E1 \in SUBSET Metas, E \subseteq E1,
           Written \subseteq Written', w \in Written' \cup E1,
           Brought(E1, Plain) \subseteq Brought(E, Plain) \cup (Elements(configout') \cap Plain)
    PROVE  WorkedOff(E1)'
<1>1. /\ Elements(round) = {w} \cup Elements(round')
      /\ metafile' = metafile /\ selected' = selected /\ phase = "words"
    BY TakeWordFacts
<1>2. \A x \in Plain : x # w => x \notin WordsWith[w]
    BY DEF Plain
<1> SUFFICES ASSUME NEW x \in Elements(selected) \cup Brought(E1, Plain), x \notin Written' \cup E1
             PROVE  Awaits(x)'
    BY <1>1 DEF WorkedOff, Brought, Plain
<1>3. x # w
    OBVIOUS
<1>4. CASE x \in Elements(selected) \cup Brought(E, Plain)
  <2>1. Awaits(x)
      BY <1>4 DEF WorkedOff
  <2> QED
      BY <1>1, <1>2, <1>3, <2>1 DEF Awaits, Plain
<1>5. CASE x \in Elements(configout') \cap Plain
    BY <1>5 DEF Awaits, Plain
<1> QED
    BY <1>4, <1>5

LEMMA ExpandMetaSelectInv ==
    ASSUME SelectInv, NEW w \in Words, ExpandMeta(w)
    PROVE  SelectInv'
<1> DEFINE S == StandsFor(Elements(selected), Words)
<1>1. TakeWord(w) /\ w \in Metas /\ meta' = TRUE /\ UNCHANGED <<pkgs, blds, phase>>
      /\ configout' = TakenOut(configout, w) \o metafile[w]
    BY DEF ExpandMeta
<1>2. /\ w \in S /\ round' \in Seq(Words) /\ Elements(round) = {w} \cup Elements(round')
      /\ metafile' = metafile /\ selected' = selected /\ phase = "words"
    BY <1>1, TakeWordFacts
<1>3. /\ configout' \in Seq(Words)
      /\ Elements(configout') = (Elements(configout) \ WordsWith[w]) \cup Elements(metafile[w])
  <2>1. configout \in Seq(Words) /\ metafile[w] \in Seq(Words)
      BY <1>1 DEF SelectInv, Types
  <2> QED
      BY <1>1, <2>1, TakenOutWords, ElementsConcat
<1>4. Types'
    BY <1>1, <1>2, <1>3 DEF SelectInv, Types
<1>5. Sound'
  <2>1. Elements(metafile[w]) \subseteq S
      BY <1>1, <1>2, StandsForClosed DEF SelectInv, Types
  <2>2. Elements(configout') \cup Elements(round') \cup Written' \subseteq S
      BY <1>1, <1>2, <1>3, <2>1 DEF SelectInv, Sound, Written
  <2>3. StandsFor(Elements(selected), Words)' = S
      BY <1>2 DEF StandsFor, Brought
  <2> QED
      BY <2>2, <2>3 DEF Sound
<1>6. Complete'
  <2>1. PICK E \in SUBSET Metas : WorkedOff(E)
      BY <1>2 DEF SelectInv, Complete
  <2>2. Brought(E \cup {w}, Plain) \subseteq Brought(E, Plain) \cup (Elements(configout') \cap Plain)
      BY <1>1, <1>3, BroughtMore
  <2>3. WorkedOff(E \cup {w})'
      BY <1>1, <1>2, <1>3, <2>1, <2>2, TakeWordWorkedOff DEF Written
  <2> QED
      BY <1>1, <1>2, <2>3 DEF Complete
<1> QED
    BY <1>4, <1>5, <1>6 DEF SelectInv

\* A group and a build are written and taken out; nothing is brought.
LEMMA WriteSelectInv ==
    ASSUME SelectInv, NEW w \in Words, WriteGroup(w) \/ WriteBuild(w)
    PROVE  SelectInv'
<1> DEFINE S == StandsFor(Elements(selected), Words)
<1>1. /\ TakeWord(w) /\ UNCHANGED <<meta, phase>>
      /\ configout' = TakenOut(configout, w)
      /\ Written' = Written \cup {w}
      /\ pkgs' \subseteq pkgs \cup Groups /\ blds' \subseteq blds \cup Builds
    BY DEF WriteGroup, WriteBuild, Written
<1>2. /\ w \in S /\ round' \in Seq(Words) /\ Elements(round) = {w} \cup Elements(round')
      /\ metafile' = metafile /\ selected' = selected /\ phase = "words"
    BY <1>1, TakeWordFacts
<1>3. /\ configout' \in Seq(Words) /\ Elements(configout') = Elements(configout) \ WordsWith[w]
      /\ w \in WordsWith[w]
    BY <1>1, TakenOutWords DEF SelectInv, Types
<1>4. Types'
    BY <1>1, <1>2, <1>3 DEF SelectInv, Types
<1>5. Sound'
  <2>1. Elements(configout') \cup Elements(round') \cup Written' \subseteq S
      BY <1>1, <1>2, <1>3 DEF SelectInv, Sound
  <2>2. StandsFor(Elements(selected), Words)' = S
      BY <1>2 DEF StandsFor, Brought
  <2> QED
      BY <2>1, <2>2 DEF Sound
<1>6. Complete'
  <2>1. PICK E \in SUBSET Metas : WorkedOff(E)
      BY <1>2 DEF SelectInv, Complete
  <2>2. WorkedOff(E)'
      BY <1>1, <1>2, <1>3, <2>1, TakeWordWorkedOff
  <2>3. ~meta' => Elements(configout') \subseteq Elements(round')
      BY <1>1, <1>2, <1>3 DEF SelectInv, Complete
  <2> QED
      BY <1>1, <1>2, <2>2, <2>3 DEF Complete
<1> QED
    BY <1>4, <1>5, <1>6 DEF SelectInv

LEMMA FileMissingSelectInv ==
    ASSUME SelectInv, NEW w \in Words, FileMissing(w)
    PROVE  SelectInv'
<1>1. TakeWord(w) /\ meta' \in BOOLEAN /\ phase' = "failed" /\ UNCHANGED <<configout, pkgs, blds>>
    BY DEF FileMissing, SelectInv, Types
<1>2. /\ round' \in Seq(Words) /\ Elements(round) = {w} \cup Elements(round')
      /\ metafile' = metafile /\ selected' = selected
    BY <1>1, TakeWordFacts
<1>3. Types' /\ Complete'
    BY <1>1, <1>2 DEF SelectInv, Types, Complete
<1>4. Sound'
  <2>1. Elements(round') \subseteq Elements(round)
      BY <1>2
  <2> QED
      BY <1>1, <1>2, <2>1, SoundStays DEF SelectInv, Written
<1> QED
    BY <1>3, <1>4 DEF SelectInv

LEMMA NextSelectInv == SelectInv /\ [Next]_vars => SelectInv'
<1> SUFFICES ASSUME SelectInv, [Next]_vars PROVE SelectInv'
    OBVIOUS
<1>1. CASE StartRound
    BY <1>1, StartRoundSelectInv
<1>2. CASE EndRound
    BY <1>2, EndRoundSelectInv
<1>3. ASSUME NEW w \in Words, ExpandMeta(w) PROVE SelectInv'
    BY <1>3, ExpandMetaSelectInv
<1>4. ASSUME NEW w \in Words, WriteGroup(w) \/ WriteBuild(w) PROVE SelectInv'
    BY <1>4, WriteSelectInv
<1>5. ASSUME NEW w \in Words, FileMissing(w) PROVE SelectInv'
    BY <1>5, FileMissingSelectInv
<1>6. CASE UNCHANGED vars
  <2>1. Types' /\ Sound'
      BY <1>6, SoundStays DEF vars, SelectInv, Types, Written
  <2>2. ASSUME NEW E, WorkedOff(E) PROVE WorkedOff(E)'
      BY <1>6, <2>2 DEF vars, WorkedOff, Awaits, Brought, Written, Plain
  <2>3. Complete'
      BY <1>6, <2>2 DEF vars, SelectInv, Complete
  <2> QED
      BY <2>1, <2>3 DEF SelectInv
<1> QED
    BY <1>1, <1>2, <1>3, <1>4, <1>5, <1>6 DEF Next

-------------------------------------------------------------------------------
\* The theorem

LEMMA SelectInvImpliesExpanded == SelectInv => SelectionExpanded
<1> SUFFICES ASSUME SelectInv, phase = "done"
             PROVE  StandsFor(Elements(selected), Plain) \subseteq Metas \cup Written
    BY DEF SelectInv, Sound, SelectionExpanded
<1>1. Elements(round) = {} /\ Elements(configout) = {}
    BY ElementsEmpty DEF SelectInv, Types, Complete
<1>2. PICK E \in SUBSET Metas : WorkedOff(E)
    BY DEF SelectInv, Complete
<1>3. Elements(selected) \cup Brought(E, Plain) \subseteq Written \cup E
    BY <1>1, <1>2 DEF WorkedOff, Awaits
<1>4. Written \cap Metas = {}
    BY DEF SelectInv, Types, Written, CustomSelectAssumption
<1>5. StandsFor(Elements(selected), Plain) \subseteq Elements(selected) \cup Brought(E, Plain)
    BY <1>3, <1>4 DEF StandsFor
<1> QED
    BY <1>3, <1>5

\* select-custom-packages.sh: nothing is written that the selection does not
\* stand for, and after the loop all it stands for is written, for any metas,
\* groups, builds and selections, but for words with another word inside.
THEOREM SelectionExpandedHolds == Spec => []SelectionExpanded
<1>1. Spec => []SelectInv
    BY InitSelectInv, NextSelectInv, PTL DEF Spec
<1> QED
    BY <1>1, SelectInvImpliesExpanded, PTL

-------------------------------------------------------------------------------
\* More of what metas bring

\* The least set that is closed under the contents of metas
LEMMA StandsForLeast ==
    ASSUME NEW S, NEW C \in SUBSET Words, S \cap Words \subseteq C,
           \A m \in C \cap Metas : Elements(metafile[m]) \cap Words \subseteq C
    PROVE  StandsFor(S, Words) \subseteq C
<1> DEFINE E == C \cap Metas
<1>1. Brought(E, Words) \subseteq C
    BY DEF Brought
<1>2. E \in SUBSET Metas /\ (S \cup Brought(E, Words)) \cap Metas \subseteq E
    BY <1>1 DEF Words
<1>3. \A w \in StandsFor(S, Words) : w \in Words /\ w \in S \cup Brought(E, Words)
    BY <1>2 DEF StandsFor
<1> QED
    BY <1>1, <1>3

LEMMA StandsForMonotone ==
    ASSUME NEW S, NEW T, S \subseteq T
    PROVE  StandsFor(S, Words) \subseteq StandsFor(T, Words)
<1> SUFFICES ASSUME NEW w \in StandsFor(S, Words), NEW E \in SUBSET Metas,
                    (T \cup Brought(E, Words)) \cap Metas \subseteq E
             PROVE  w \in T \cup Brought(E, Words)
    BY DEF StandsFor
<1>1. (S \cup Brought(E, Words)) \cap Metas \subseteq E
    OBVIOUS
<1>2. w \in S \cup Brought(E, Words)
    BY <1>1 DEF StandsFor
<1> QED
    BY <1>2

\* What a meta stands for, stands for all that the meta stands for.
LEMMA StandsForOfMeta ==
    ASSUME metafile \in [Metas -> Seq(Words)], NEW S, NEW m \in Metas, m \in StandsFor(S, Words)
    PROVE  StandsFor(Elements(metafile[m]), Words) \subseteq StandsFor(S, Words)
<1>1. StandsFor(S, Words) \in SUBSET Words
    BY DEF StandsFor
<1>2. \A n \in StandsFor(S, Words) \cap Metas : Elements(metafile[n]) \subseteq StandsFor(S, Words)
    BY StandsForClosed
<1> QED
    BY <1>1, <1>2, StandsForLeast

\* What metas bring together, one of them brings.
LEMMA StandsForBrought ==
    ASSUME metafile \in [Metas -> Seq(Words)], NEW M \in SUBSET Metas,
           NEW w \in StandsFor(Brought(M, Words), Words)
    PROVE  \E m \in M : w \in StandsFor(Elements(metafile[m]), Words)
<1> DEFINE C == UNION {StandsFor(Elements(metafile[m]), Words) : m \in M}
<1>1. C \in SUBSET Words
    BY DEF StandsFor
<1>2. Brought(M, Words) \subseteq C
  <2>1. ASSUME NEW m \in M PROVE Elements(metafile[m]) \subseteq C
    <3>1. Elements(metafile[m]) \in SUBSET Words
        BY ElementsWords
    <3> QED
        BY <3>1, StandsForSelf
  <2> QED
      BY <2>1 DEF Brought
<1>3. ASSUME NEW n \in C \cap Metas PROVE Elements(metafile[n]) \subseteq C
  <2>1. PICK m \in M : n \in StandsFor(Elements(metafile[m]), Words)
      OBVIOUS
  <2>2. Elements(metafile[n]) \subseteq StandsFor(Elements(metafile[m]), Words)
      BY <2>1, StandsForClosed
  <2> QED
      BY <2>2
<1> HIDE DEF C
<1>4. StandsFor(Brought(M, Words), Words) \subseteq C
    BY <1>1, <1>2, <1>3, StandsForLeast
<1> QED
    BY <1>4 DEF C

\* Of metas that do not stand for themselves, the one that stands for most is
\* brought by none of them.
LEMMA TopMeta ==
    ASSUME metafile \in [Metas -> Seq(Words)], Acyclic, IsFiniteSet(Metas),
           NEW M \in SUBSET Metas, M # {}
    PROVE  \E t \in M : t \notin StandsFor(Brought(M, Words), Words)
<1> DEFINE Stood(m) == Metas \cap StandsFor(Elements(metafile[m]), Words)
           k(m) == Cardinality(Metas) - Cardinality(Stood(m))
<1>1. \A m \in M : /\ IsFiniteSet(Stood(m)) /\ Cardinality(Stood(m)) \in Nat
                   /\ Cardinality(Stood(m)) <= Cardinality(Metas)
  <2> SUFFICES ASSUME NEW m \in M
               PROVE  /\ IsFiniteSet(Stood(m)) /\ Cardinality(Stood(m)) \in Nat
                      /\ Cardinality(Stood(m)) <= Cardinality(Metas)
      OBVIOUS
  <2>1. Stood(m) \in SUBSET Metas
      OBVIOUS
  <2> HIDE DEF Stood
  <2> QED
      BY <2>1, FS_Subset, FS_CardinalityType
<1>2. Cardinality(Metas) \in Nat
    BY FS_CardinalityType
<1> HIDE DEF Stood
<1> DEFINE K == {k(m) : m \in M}
<1>3. K \subseteq Nat /\ K # {}
    BY <1>1, <1>2
<1> HIDE DEF K
<1>4. PICK x \in K : \A y \in K : x <= y
    BY <1>3, FirstPlace
<1>5. PICK t \in M : x = k(t)
    BY <1>4 DEF K
<1>6. \A m \in M : Cardinality(Stood(m)) <= Cardinality(Stood(t))
  <2> SUFFICES ASSUME NEW m \in M PROVE Cardinality(Stood(m)) <= Cardinality(Stood(t))
      OBVIOUS
  <2>1. k(t) <= k(m)
      BY <1>4, <1>5 DEF K
  <2> QED
      BY <1>1, <1>2, <2>1
<1>7. ASSUME NEW m \in M, t \in StandsFor(Elements(metafile[m]), Words) PROVE FALSE
  <2>1. Stood(t) \subseteq Stood(m)
      BY <1>7, StandsForOfMeta DEF Stood
  <2>2. t \in Stood(m) /\ t \notin Stood(t)
      BY <1>7 DEF Stood, Acyclic
  <2>3. Cardinality(Stood(t)) < Cardinality(Stood(m))
    <3>1. Stood(t) # Stood(m)
        BY <2>2
    <3>2. /\ Cardinality(Stood(t)) <= Cardinality(Stood(m))
          /\ Cardinality(Stood(m)) # Cardinality(Stood(t))
        BY <1>1, <2>1, <3>1, FS_Subset
    <3> QED
        BY <1>1, <3>2
  <2> QED
      BY <1>1, <1>6, <2>3
<1> QED
    BY <1>7, StandsForBrought

-------------------------------------------------------------------------------
(* What is left: the metas that are still to come through others, the rounds *)
(* that there are if no meta comes, and the words of this round.             *)

\* What will be left to do when the round is over, at most
ToCome == Brought(Elements(round) \cap Metas, Words) \cup (Elements(configout) \ Elements(round))

MetasToCome == Metas \cap StandsFor(ToCome, Words)

Ended == phase \in {"done", "failed"}

MetasLeft == IF Ended THEN 0 ELSE Cardinality(MetasToCome)

RoundsLeft ==
    CASE Ended -> 0
      [] phase = "rounds" -> IF meta THEN 3 ELSE 1
      [] phase = "words" -> IF meta \/ Elements(round) \cap Metas # {} THEN 4 ELSE 2

Left == <<MetasLeft, RoundsLeft, Len(round), 0>>

LEMMA MetasToComeFinite ==
    ASSUME IsFiniteSet(Metas)
    PROVE  IsFiniteSet(MetasToCome) /\ Cardinality(MetasToCome) \in Nat
BY FS_Subset, FS_CardinalityType DEF MetasToCome

LEMMA LeftCounts ==
    ASSUME Types, IsFiniteSet(Metas)
    PROVE  Left \in Counts
<1>1. MetasLeft \in Nat
    BY MetasToComeFinite DEF MetasLeft
<1>2. RoundsLeft \in Nat
    BY DEF RoundsLeft, Ended, Types
<1>3. Len(round) \in Nat
    BY LenProperties DEF Types
<1> QED
    BY <1>1, <1>2, <1>3 DEF Left, Counts

\* With no more metas to come, something else that counts goes down.
LEMMA LeftBelow ==
    ASSUME IsFiniteSet(Metas), ~Ended, ~Ended', MetasToCome' \subseteq MetasToCome,
           \/ MetasToCome' # MetasToCome
           \/ RoundsLeft' < RoundsLeft
           \/ RoundsLeft' = RoundsLeft /\ Len(round') < Len(round)
    PROVE  Below(Left', Left)
<1>1. MetasLeft = Cardinality(MetasToCome) /\ MetasLeft' = Cardinality(MetasToCome')
    BY DEF MetasLeft
<1>2. IsFiniteSet(MetasToCome) /\ Cardinality(MetasToCome) \in Nat
    BY MetasToComeFinite
<1>3. /\ Cardinality(MetasToCome') \in Nat
      /\ Cardinality(MetasToCome') <= Cardinality(MetasToCome)
      /\ Cardinality(MetasToCome) = Cardinality(MetasToCome') => MetasToCome' = MetasToCome
    BY <1>2, FS_Subset, FS_CardinalityType
<1>4. MetasLeft' < MetasLeft \/ (MetasLeft' = MetasLeft /\ MetasToCome' = MetasToCome)
    BY <1>1, <1>2, <1>3
<1> QED
    BY <1>4 DEF Left, Below

\* The script ends.
LEMMA EndNears ==
    ASSUME Types, IsFiniteSet(Metas), ~Ended, Ended'
    PROVE  Below(Left', Left)
<1>1. MetasLeft' = 0 /\ RoundsLeft' = 0
    BY DEF MetasLeft, RoundsLeft, Ended
<1>2. MetasLeft \in Nat
    BY MetasToComeFinite DEF MetasLeft
<1>3. RoundsLeft > 0
    BY DEF RoundsLeft, Ended, Types
<1>4. MetasLeft' < MetasLeft \/ MetasLeft' = MetasLeft
    BY <1>1, <1>2
<1> QED
    BY <1>1, <1>3, <1>4 DEF Left, Below

\* A round takes a meta out for good, or has none.
LEMMA StartRoundNears ==
    ASSUME Types, Acyclic, IsFiniteSet(Metas), StartRound
    PROVE  Below(Left', Left)
<1> DEFINE M == Elements(configout) \cap Metas
<1>1. phase = "rounds" /\ round = <<>> /\ metafile' = metafile /\ configout' = configout
    BY DEF StartRound, Types
<1>2. CASE ~meta
    BY <1>1, <1>2, EndNears DEF StartRound, Ended
<1>3. CASE meta
  <2>1. round' = configout /\ phase' = "words" /\ meta' = FALSE
      BY <1>3 DEF StartRound
  <2>2. ToCome = Elements(configout)
      BY <1>1, ElementsEmpty DEF ToCome, Brought
  <2>3. ToCome' = Brought(M, Words)
      BY <1>1, <2>1 DEF ToCome, Brought
  <2>4. MetasToCome' = Metas \cap StandsFor(Brought(M, Words), Words)
      BY <1>1, <2>3 DEF MetasToCome, StandsFor, Brought
  <2>5. MetasToCome = Metas \cap StandsFor(Elements(configout), Words)
      BY <2>2 DEF MetasToCome
  <2>6. M \subseteq StandsFor(Elements(configout), Words)
      BY ElementsWords, StandsForSelf DEF Types
  <2>7. MetasToCome' \subseteq MetasToCome
    <3>1. ASSUME NEW w \in StandsFor(Brought(M, Words), Words)
          PROVE  w \in StandsFor(Elements(configout), Words)
      <4>1. PICK m \in M : w \in StandsFor(Elements(metafile[m]), Words)
          BY StandsForBrought DEF Types
      <4> QED
          BY <2>6, <4>1, StandsForOfMeta DEF Types
    <3> QED
        BY <2>4, <2>5, <3>1
  <2>8. CASE M = {}
    <3>1. RoundsLeft = 3
        BY <1>1, <1>3 DEF RoundsLeft, Ended
    <3>2. RoundsLeft' = 2
        BY <2>1, <2>8 DEF RoundsLeft, Ended
    <3> QED
        BY <1>1, <2>1, <2>7, <3>1, <3>2, LeftBelow DEF Ended
  <2>9. CASE M # {}
    <3>1. PICK t \in M : t \notin StandsFor(Brought(M, Words), Words)
        BY <2>9, TopMeta DEF Types
    <3>2. t \in MetasToCome /\ t \notin MetasToCome'
        BY <2>4, <2>5, <2>6, <3>1
    <3> QED
        BY <1>1, <2>1, <2>7, <3>2, LeftBelow DEF Ended
  <2> QED
      BY <2>8, <2>9
<1> QED
    BY <1>2, <1>3

LEMMA EndRoundNears ==
    ASSUME Types, IsFiniteSet(Metas), EndRound
    PROVE  Below(Left', Left)
<1>1. /\ phase = "words" /\ phase' = "rounds" /\ round = <<>>
      /\ UNCHANGED <<metafile, configout, round, meta>>
    BY DEF EndRound
<1>2. MetasToCome' = MetasToCome
    BY <1>1 DEF MetasToCome, ToCome, StandsFor, Brought
<1>3. Elements(round) \cap Metas = {}
    BY <1>1, ElementsEmpty
<1>4. RoundsLeft = (IF meta THEN 4 ELSE 2) /\ RoundsLeft' = (IF meta THEN 3 ELSE 1)
    BY <1>1, <1>3 DEF RoundsLeft, Ended
<1>5. RoundsLeft' < RoundsLeft
    BY <1>4
<1> QED
    BY <1>1, <1>2, <1>5, LeftBelow DEF Ended

\* A word is taken out, and brings its content if it is a meta.
LEMMA WordNears ==
    ASSUME Types, IsFiniteSet(Metas), NEW w \in Words, TakeWord(w), phase' = phase,
           Elements(configout') \subseteq
               (Elements(configout) \ {w})
               \cup (IF w \in Metas THEN Elements(metafile[w]) \cap Words ELSE {}),
           meta' = (meta \/ w \in Metas)
    PROVE  Below(Left', Left)
<1>1. /\ phase = "words" /\ round # <<>> /\ w = Head(round) /\ round' = Tail(round)
      /\ metafile' = metafile
    BY DEF TakeWord, TakenFrom
<1>2. Elements(round) = {w} \cup Elements(round')
    BY <1>1, HeadAndTail DEF Types
<1>3. Len(round') < Len(round)
  <2>1. Len(round) \in Nat /\ Len(round') = Len(round) - 1
      BY <1>1, HeadTailProperties, LenProperties DEF Types
  <2> QED
      BY <2>1
<1>4. ToCome' \subseteq ToCome
  <2>1. w \in Metas => Elements(metafile[w]) \cap Words \subseteq Brought(Elements(round) \cap Metas, Words)
      BY <1>2 DEF Brought
  <2>2. Elements(configout') \ Elements(round') \subseteq ToCome
      BY <1>2, <2>1 DEF ToCome
  <2>3. Brought(Elements(round) \cap Metas, Words)' \subseteq Brought(Elements(round) \cap Metas, Words)
      BY <1>1, <1>2 DEF Brought
  <2> QED
      BY <2>2, <2>3 DEF ToCome
<1>5. MetasToCome' \subseteq MetasToCome
  <2>1. MetasToCome' = Metas \cap StandsFor(ToCome', Words)
      BY <1>1 DEF MetasToCome, StandsFor, Brought
  <2> QED
      BY <1>4, <2>1, StandsForMonotone DEF MetasToCome
<1>6. RoundsLeft' <= RoundsLeft /\ RoundsLeft' \in Nat /\ RoundsLeft \in Nat
  <2>1. /\ RoundsLeft = IF meta \/ Elements(round) \cap Metas # {} THEN 4 ELSE 2
        /\ RoundsLeft' = IF meta' \/ Elements(round') \cap Metas # {} THEN 4 ELSE 2
      BY <1>1 DEF RoundsLeft, Ended
  <2>2. meta' \/ Elements(round') \cap Metas # {} => meta \/ Elements(round) \cap Metas # {}
      BY <1>2
  <2> QED
      BY <2>1, <2>2
<1>7. RoundsLeft' < RoundsLeft \/ RoundsLeft' = RoundsLeft
    BY <1>6
<1> QED
    BY <1>1, <1>3, <1>5, <1>7, LeftBelow DEF Ended

LEMMA ExpandMetaNears ==
    ASSUME Types, IsFiniteSet(Metas), NEW w \in Words, ExpandMeta(w)
    PROVE  Below(Left', Left)
<1>1. w \in Metas /\ metafile[w] \in Seq(Words) /\ configout \in Seq(Words)
    BY DEF ExpandMeta, Types
<1>2. Elements(metafile[w]) \subseteq Words
    BY <1>1, ElementsWords
<1>3. Elements(configout') = (Elements(configout) \ WordsWith[w]) \cup Elements(metafile[w])
    BY <1>1, TakenOutWords, ElementsConcat DEF ExpandMeta
<1>4. w \in WordsWith[w]
    BY <1>1, TakenOutWords
<1> QED
    BY <1>1, <1>2, <1>3, <1>4, WordNears DEF ExpandMeta

LEMMA WriteNears ==
    ASSUME Types, IsFiniteSet(Metas), NEW w \in Words, WriteGroup(w) \/ WriteBuild(w)
    PROVE  Below(Left', Left)
<1>1. TakeWord(w) /\ phase' = phase /\ meta' = meta /\ configout' = TakenOut(configout, w)
    BY DEF WriteGroup, WriteBuild
<1>2. w \notin Metas
    BY DEF WriteGroup, WriteBuild, CustomSelectAssumption
<1>3. Elements(configout') = Elements(configout) \ WordsWith[w] /\ w \in WordsWith[w]
    BY <1>1, TakenOutWords DEF Types
<1> QED
    BY <1>1, <1>2, <1>3, WordNears DEF Types

\* select-custom-packages.sh: each word that is worked off, and each round, brings
\* the loop nearer to its end if no meta stands for itself, for any finite set
\* of metas and whatever they share.
THEOREM ExpansionNearsEnd ==
    ASSUME IsFiniteSet(Metas)
    PROVE  Spec => [](Left \in Counts) /\ [][Acyclic => Below(Left', Left)]_vars
<1>1. Spec => []SelectInv
    BY InitSelectInv, NextSelectInv, PTL DEF Spec
<1>2. SelectInv => Left \in Counts
    BY LeftCounts DEF SelectInv
<1>3. ASSUME SelectInv, Next, Acyclic PROVE Below(Left', Left)
  <2>1. CASE StartRound
      BY <1>3, <2>1, StartRoundNears DEF SelectInv
  <2>2. CASE EndRound
      BY <1>3, <2>2, EndRoundNears DEF SelectInv
  <2>3. ASSUME NEW w \in Words, ExpandMeta(w) PROVE Below(Left', Left)
      BY <1>3, <2>3, ExpandMetaNears DEF SelectInv
  <2>4. ASSUME NEW w \in Words, WriteGroup(w) \/ WriteBuild(w) PROVE Below(Left', Left)
      BY <1>3, <2>4, WriteNears DEF SelectInv
  <2>5. ASSUME NEW w \in Words, FileMissing(w) PROVE Below(Left', Left)
      BY <1>3, <2>5, EndNears DEF SelectInv, FileMissing, TakeWord, Ended
  <2> QED
      BY <1>3, <2>1, <2>2, <2>3, <2>4, <2>5 DEF Next
<1>4. SelectInv /\ [Next]_vars => [Acyclic => Below(Left', Left)]_vars
    BY <1>3
<1> QED
    BY <1>1, <1>2, <1>4, PTL DEF Spec
===============================================================================
