---------------------------- MODULE PackageDBProofs ----------------------------
(***************************************************************************)
(* Proofs about PackageDB, for any archives, file trees, requests and      *)
(* number of faults.                                                       *)
(*                                                                         *)
(* TypeOK and Position are inductive together: Position says how far the   *)
(* running loop has come and what it has put on disk so far.  With them    *)
(* every step is a step of PackageStore or leaves it alone, and            *)
(* RecordedIntact follows from PackageStore's own guards.  Tracked and     *)
(* AtHand add what an upgrade relies on, Place and Progress what a command *)
(* has behind it, Accounts who owns each path while a removal is under way.*)
(***************************************************************************)
EXTENDS PackageDB, TLAPS

\* grep selects the line it is asked for: the path is a regular expression
\* that matches itself, as all are that have no "[" or other special sign.
PatternsSelectOwnLine == \A x \in Paths : x \in PatternHits[x]

\* Where the loops are and what they have done
Position ==
    /\ phase \in {"idle", "confirm", "next", "post"} => idx = 0
    /\ phase \in {"unpack", "record", "copy", "retire", "remove"} => todo # <<>>
    /\ phase = "unpack" =>
         /\ kind \in {"install", "upgrade"}
         /\ cur \notin recorded
         /\ ~Staged(cur)
         /\ idx <= Len(Listing[cur])
         /\ \A i \in 1..idx : Present(Listing[cur][i])
    /\ phase = "record" =>
         /\ kind \in {"install", "upgrade"}
         /\ cur \in recorded
         /\ idx = 0
         /\ Staged(cur) \/ \A i \in 1..Len(Listing[cur]) : Present(Listing[cur][i])
    /\ phase = "copy" =>
         /\ Staged(cur)
         /\ cur \in recorded
         /\ lines[cur] = Len(Listing[cur]) \/ cur \in torn
         /\ idx <= Len(Listing[cur])
         /\ \A i \in 1..idx : Present(Placed(cur, Listing[cur][i]))
    /\ phase = "retire" => kind = "upgrade" /\ olds = Superseded(cur)
    /\ phase = "remove" =>
         /\ victim \in recorded
         /\ kind \in {"remove", "upgrade"}
         /\ kind = "upgrade" => /\ cur \in Packages
                                /\ victim \notin olds
                                /\ olds \cup {victim} = Superseded(cur)
         /\ idx <= Len(Listing[victim])
    /\ \A p \in Packages : lines[p] <= Len(Listing[p])

IInv == TypeOK /\ Position

\* The facts about constants the step lemmas use
LEMMA ListingType ==
    ASSUME NEW p \in Packages
    PROVE  /\ Listing[p] \in Seq(Paths)
           /\ Len(Listing[p]) \in Nat
           /\ \A i \in 1..Len(Listing[p]) : Listing[p][i] \in Paths
BY PackagesAssumption

LEMMA InitIInv == Init => IInv
<1> SUFFICES ASSUME Init PROVE IInv
    OBVIOUS
<1>1. TypeOK
  <2>1. disk \in [Paths -> Packages \cup {None, Edited}]
      BY DEF Init
  <2>2. request \in Seq(Packages) /\ todo \in Seq(Packages)
      BY DEF Init
  <2>3. lines \in [Packages -> Nat]
      BY DEF Init
  <2>4. ops \in 0..MaxOps /\ faults \in 0..MaxFaults
      BY BoundsAssumption DEF Init
  <2> QED
      BY <2>1, <2>2, <2>3, <2>4 DEF Init, TypeOK, Kinds, Phases
<1>2. Position
    BY ListingType DEF Init, Position
<1> QED
    BY <1>1, <1>2 DEF IInv

\* One loop iteration further: the shared part of four actions
LEMMA NextPackageType ==
    ASSUME TypeOK, todo # <<>>, NextPackage
    PROVE  /\ phase' = "next"
           /\ todo' \in Seq(Packages)
           /\ cur' = None
           /\ victim' = None
           /\ idx' = 0
           /\ olds' = {}
           /\ UNCHANGED <<kind, request, exit>>
BY DEF TypeOK, NextPackage

-------------------------------------------------------------------------------
\* Steps that share their effect on the loops

USE PackagesAssumption, BoundsAssumption, ListingType
    DEF IInv, TypeOK, Phases, Kinds, durable, loop, work, history

LEMMA NextPackageIInv ==
    ASSUME IInv, todo # <<>>, NextPackage, UNCHANGED <<durable, ops>>,
           error' \in BOOLEAN, torn' \subseteq Packages, faults' \in 0..MaxFaults
    PROVE  IInv'
<1>1. TypeOK'
  <2>1. /\ phase' = "next" /\ todo' \in Seq(Packages) /\ cur' = None /\ victim' = None
        /\ idx' = 0 /\ olds' = {} /\ kind' = kind /\ request' = request /\ exit' = exit
      BY NextPackageType
  <2>2. disk' = disk /\ recorded' = recorded /\ lines' = lines /\ ops' = ops
      OBVIOUS
  <2> QED
      BY <2>1, <2>2
<1>2. Position'
  <2>1. phase' = "next" /\ idx' = 0
      BY NextPackageType
  <2>2. \A p \in Packages : lines'[p] <= Len(Listing[p])
      BY DEF Position
  <2> QED
      BY <2>1, <2>2 DEF Position
<1> QED
    BY <1>1, <1>2

LEMMA UpgradeAbortsIInv ==
    ASSUME IInv, UpgradeAborts, UNCHANGED <<durable, loop, victim, ops>>,
           torn' \subseteq Packages, faults' \in 0..MaxFaults
    PROVE  IInv'
<1>1. TypeOK'
    BY DEF UpgradeAborts
<1>2. Position'
    BY DEF UpgradeAborts, Position
<1> QED
    BY <1>1, <1>2

LEMMA PackageFailsIInv ==
    ASSUME IInv, todo # <<>>, PackageFails, UNCHANGED <<durable, ops>>,
           torn' \subseteq Packages, faults' \in 0..MaxFaults
    PROVE  IInv'
<1>1. CASE kind = "install" /\ NoteError /\ NextPackage
  <2>1. error' \in BOOLEAN
      BY <1>1 DEF NoteError
  <2> QED
      BY <1>1, <2>1, NextPackageIInv
<1>2. CASE kind = "upgrade" /\ UpgradeAborts /\ UNCHANGED <<loop, victim>>
    BY <1>2, UpgradeAbortsIInv
<1> QED
    BY <1>1, <1>2 DEF PackageFails

LEMMA UnsettledType == IInv => Unsettled \subseteq Packages
BY DEF Unsettled

-------------------------------------------------------------------------------
\* One lemma per action

\* The loop over old versions begins: another part several actions share
LEMMA FindOldIInv ==
    ASSUME IInv, NEW p \in Packages, FindOld(p), cur' = p, kind = "upgrade", todo # <<>>,
           UNCHANGED <<durable, loop, victim, idx, exit, ops>>,
           torn' \subseteq Packages, faults' \in 0..MaxFaults
    PROVE  IInv'
<1>1. phase' = "retire" /\ olds' = Superseded(p) /\ Superseded(cur)' = Superseded(p)
    BY DEF FindOld, Superseded, OldVersions
<1>2. TypeOK'
    BY <1>1 DEF Superseded, OldVersions
<1>3. Position'
    BY <1>1 DEF Position
<1> QED
    BY <1>2, <1>3

LEMMA SkipPackageIInv == ASSUME IInv, SkipPackage PROVE IInv'
BY NextPackageIInv DEF SkipPackage

LEMMA UpgradeEndsIInv == ASSUME IInv, UpgradeEnds PROVE IInv'
BY NextPackageIInv DEF UpgradeEnds, Position

LEMMA FetchFailsIInv == ASSUME IInv, FetchFails PROVE IInv'
BY PackageFailsIInv DEF FetchFails, Uninstalled

LEMMA WriteFailsIInv == ASSUME IInv, WriteFails PROVE IInv'
<1>1. todo # <<>>
    BY DEF WriteFails, Position
<1>2. torn' \subseteq Packages
    BY UnsettledType DEF WriteFails
<1>3. faults' \in 0..MaxFaults
    BY DEF WriteFails
<1> QED
    BY <1>1, <1>2, <1>3, PackageFailsIInv DEF WriteFails

LEMMA CrashIInv == ASSUME IInv, Crash PROVE IInv'
<1>1. TypeOK'
    BY UnsettledType DEF Crash
<1>2. Position'
    BY DEF Crash, Position
<1> QED
    BY <1>1, <1>2

LEMMA StartIInv ==
    ASSUME IInv, NEW k \in Kinds, NEW q \in Selections, Start(k, q)
    PROVE  IInv'
<1>1. q \in Seq(Packages)
    OBVIOUS
<1>2. request' \in Seq(Packages) /\ todo' \in Seq(Packages)
    BY <1>1 DEF Start
<1>3. ops' \in 0..MaxOps
    BY DEF Start
<1>4. TypeOK'
    BY <1>2, <1>3 DEF Start
<1>5. Position'
    BY DEF Start, Position
<1> QED
    BY <1>4, <1>5

LEMMA EditFileIInv ==
    ASSUME IInv, NEW x \in Paths, EditFile(x)
    PROVE  IInv'
<1>1. TypeOK'
    BY DEF EditFile
<1>2. Position'
    BY DEF EditFile, Position, Present, Staged, Placed
<1> QED
    BY <1>1, <1>2

LEMMA CopyPathIInv == ASSUME IInv, CopyPath PROVE IInv'
<1> DEFINE y == Placed(cur, Listing[cur][idx + 1])
<1>1. cur \in Packages /\ idx + 1 \in 1..Len(Listing[cur])
    BY DEF CopyPath
<1>2. y \in Paths
    BY <1>1, TreeAssumption DEF Placed
<1>3. disk' = [disk EXCEPT ![y] = cur] /\ idx' = idx + 1
    BY DEF CopyPath
<1>4. TypeOK'
    BY <1>1, <1>2, <1>3 DEF CopyPath
<1>5. \A i \in 1..idx' : Present(Placed(cur, Listing[cur][i]))'
  <2>1. SUFFICES ASSUME NEW i \in 1..(idx + 1)
                 PROVE  disk'[Placed(cur, Listing[cur][i])] # None
      BY <1>3 DEF CopyPath, Present, Placed
  <2>2. CASE i = idx + 1
      BY <1>1, <1>2, <1>3, <2>2
  <2>3. CASE i \in 1..idx
    <3>1. disk[Placed(cur, Listing[cur][i])] # None
        BY <2>3 DEF CopyPath, Position, Present
    <3>2. i \in 1..Len(Listing[cur])
        BY <1>1, <2>3
    <3>3. Placed(cur, Listing[cur][i]) \in Paths
        BY <1>1, <3>2, TreeAssumption DEF Placed
    <3> QED
        BY <1>1, <1>2, <1>3, <3>1, <3>3
  <2> QED
      BY <2>2, <2>3
<1>6. Position'
    BY <1>1, <1>3, <1>5 DEF CopyPath, Position, Staged
<1> QED
    BY <1>4, <1>6

LEMMA PackageInstalledIInv ==
    ASSUME IInv, phase = "record", PackageInstalled, UNCHANGED <<durable, error, ops>>,
           torn' \subseteq Packages, faults' \in 0..MaxFaults,
           lines[cur] = Len(Listing[cur]) \/ cur \in torn'
    PROVE  IInv'
<1>1. todo # <<>>
    BY DEF Position
<1>2. CASE kind = "install" /\ NextPackage
    BY <1>1, <1>2, NextPackageIInv
<1>3. CASE /\ kind = "upgrade" /\ FindOld(cur)
           /\ UNCHANGED <<kind, request, todo, cur, victim, idx, exit>>
    BY <1>1, <1>3, FindOldIInv
<1>4. CASE Staged(cur) /\ phase' = "copy" /\ UNCHANGED <<kind, request, todo, work, exit>>
  <2>1. TypeOK'
      BY <1>4
  <2>2. Position'
      BY <1>4 DEF Position, Staged
  <2> QED
      BY <2>1, <2>2
<1> QED
    BY <1>2, <1>3, <1>4 DEF PackageInstalled

LEMMA RecordEndsIInv == ASSUME IInv, RecordEnds PROVE IInv'
BY PackageInstalledIInv DEF RecordEnds

LEMMA ListCutShortIInv == ASSUME IInv, ListCutShort PROVE IInv'
<1>1. torn' \subseteq Packages /\ faults' \in 0..MaxFaults /\ cur \in torn'
    BY DEF ListCutShort
<1> QED
    BY <1>1, PackageInstalledIInv DEF ListCutShort

LEMMA RemoveEndsIInv == ASSUME IInv, RemoveEnds PROVE IInv'
<1>1. /\ recorded' = recorded \ {victim} /\ victim \in Packages
      /\ lines' \in [Packages -> Nat] /\ torn' \subseteq Packages
      /\ \A p \in Packages : lines'[p] <= Len(Listing[p])
      /\ UNCHANGED <<disk, error, ops, faults>>
    BY DEF RemoveEnds, DropList, Position
<1>2. CASE kind = "remove" /\ NextPackage
  <2>1. TypeOK'
      BY <1>1, <1>2, NextPackageType DEF RemoveEnds, NextPackage, Position
  <2>2. Position'
      BY <1>1, <1>2, NextPackageType DEF RemoveEnds, Position
  <2> QED
      BY <2>1, <2>2
<1>3. CASE /\ kind = "upgrade" /\ phase' = "retire" /\ victim' = None
           /\ UNCHANGED <<kind, request, todo, cur, idx, olds, exit>>
  <2>1. TypeOK'
      BY <1>1, <1>3 DEF RemoveEnds, Position
  <2>2. Superseded(cur)' = Superseded(cur) \ {victim}
      BY <1>1, <1>3 DEF Superseded, OldVersions
  <2>3. Position'
      BY <1>1, <1>3, <2>2 DEF RemoveEnds, Position
  <2> QED
      BY <2>1, <2>3
<1> QED
    BY <1>2, <1>3 DEF RemoveEnds

LEMMA ConfirmIInv == ASSUME IInv, Confirm PROVE IInv'
<1>1. TypeOK'
    BY DEF Confirm
<1>2. Position'
    BY DEF Confirm, Position
<1> QED
    BY <1>1, <1>2

LEMMA CancelIInv == ASSUME IInv, Cancel PROVE IInv'
<1>1. TypeOK'
    BY DEF Cancel
<1>2. Position'
    BY DEF Cancel, Position
<1> QED
    BY <1>1, <1>2

LEMMA UpgradeInstalledIInv == ASSUME IInv, UpgradeInstalled PROVE IInv'
BY FindOldIInv DEF UpgradeInstalled

LEMMA BeginRemoveIInv == ASSUME IInv, BeginRemove PROVE IInv'
<1>1. TypeOK'
    BY DEF BeginRemove
<1>2. Position'
    BY DEF BeginRemove, Position
<1> QED
    BY <1>1, <1>2

LEMMA LoopEndsIInv == ASSUME IInv, LoopEnds PROVE IInv'
<1>1. TypeOK'
    BY DEF LoopEnds
<1>2. Position'
    BY DEF LoopEnds, Position
<1> QED
    BY <1>1, <1>2

LEMMA PostInstallIInv == ASSUME IInv, PostInstall PROVE IInv'
<1>1. TypeOK'
    BY DEF PostInstall
<1>2. Position'
    BY DEF PostInstall, Position
<1> QED
    BY <1>1, <1>2

LEMMA FetchToRootIInv == ASSUME IInv, FetchToRoot PROVE IInv'
<1>1. TypeOK'
    BY DEF FetchToRoot, Uninstalled, Staged, Position
<1>2. Position'
    BY DEF FetchToRoot, Position, Uninstalled, Staged, Present
<1> QED
    BY <1>1, <1>2

LEMMA UnpackPathIInv == ASSUME IInv, UnpackPath PROVE IInv'
<1>1. TypeOK'
  <2>1. Listing[cur][idx + 1] \in Paths /\ cur \in Packages
      BY DEF UnpackPath
  <2>2. disk' \in [Paths -> Packages \cup {None, Edited}]
      BY <2>1 DEF UnpackPath
  <2> QED
      BY <2>2 DEF UnpackPath
<1>2. Position'
  <2>1. /\ phase = "unpack" /\ idx' = idx + 1 /\ idx' <= Len(Listing[cur])
        /\ UNCHANGED <<phase, recorded, lines, kind, todo, cur>>
      BY DEF UnpackPath
  <2>2. \A i \in 1..idx' : Present(Listing[cur][i])'
    <3>1. \A i \in 1..idx' : Listing[cur][i] \in Paths /\ (i = idx + 1 \/ i \in 1..idx)
        BY <2>1
    <3>2. \A x \in Paths : disk'[x] = IF x = Listing[cur][idx + 1] THEN cur ELSE disk[x]
        BY DEF UnpackPath
    <3> QED
        BY <2>1, <3>1, <3>2 DEF Position, Present
  <2> QED
      BY <2>1, <2>2 DEF Position, Staged
<1> QED
    BY <1>1, <1>2

LEMMA UnpackEndsIInv == ASSUME IInv, UnpackEnds PROVE IInv'
<1>1. TypeOK'
    BY DEF UnpackEnds, OpenRecord
<1>2. Position'
    BY DEF UnpackEnds, Position, OpenRecord, Staged, Present
<1> QED
    BY <1>1, <1>2

LEMMA FetchToStagingIInv == ASSUME IInv, FetchToStaging PROVE IInv'
<1>1. TypeOK'
    BY DEF FetchToStaging, OpenRecord, Uninstalled
<1>2. Position'
    BY DEF FetchToStaging, Position, OpenRecord, Uninstalled, Staged
<1> QED
    BY <1>1, <1>2

LEMMA RecordLineIInv == ASSUME IInv, RecordLine PROVE IInv'
<1>1. TypeOK'
    BY DEF RecordLine
<1>2. Position'
    BY DEF RecordLine, Position, Staged, Present
<1> QED
    BY <1>1, <1>2

LEMMA RetireOldIInv == ASSUME IInv, RetireOld PROVE IInv'
<1>1. TypeOK'
    BY DEF RetireOld, Superseded, OldVersions, Position
<1>2. Position'
    BY DEF RetireOld, Position, Superseded, OldVersions
<1> QED
    BY <1>1, <1>2

LEMMA CopyEndsIInv == ASSUME IInv, CopyEnds PROVE IInv'
<1>1. kind = "upgrade" /\ todo # <<>> /\ torn' \subseteq Packages
    BY DEF CopyEnds, Position, Staged
<1> QED
    BY <1>1, FindOldIInv DEF CopyEnds

LEMMA RemovePathIInv == ASSUME IInv, RemovePath PROVE IInv'
<1>1. disk' \in [Paths -> Packages \cup {None, Edited}]
    BY DEF RemovePath
<1>2. TypeOK'
    BY <1>1 DEF RemovePath
<1>3. Position'
    BY DEF RemovePath, Position, LastLine, Superseded, OldVersions
<1> QED
    BY <1>2, <1>3

LEMMA NextIInv == IInv /\ [Next]_vars => IInv'
<1> SUFFICES ASSUME IInv, [Next]_vars PROVE IInv'
    OBVIOUS
<1>1. CASE Step
    BY <1>1, SkipPackageIInv, UpgradeInstalledIInv, BeginRemoveIInv, LoopEndsIInv,
       PostInstallIInv, FetchToRootIInv, UnpackPathIInv, UnpackEndsIInv,
       FetchToStagingIInv, RecordLineIInv, RecordEndsIInv, CopyPathIInv,
       CopyEndsIInv, UpgradeEndsIInv, RetireOldIInv, RemovePathIInv, RemoveEndsIInv
       DEF Step
<1>2. CASE Environment
    BY <1>2, StartIInv, ConfirmIInv, CancelIInv, FetchFailsIInv, WriteFailsIInv,
       ListCutShortIInv, CrashIInv, EditFileIInv DEF Environment
<1>3. CASE UNCHANGED vars
  <2>1. TypeOK'
      BY <1>3 DEF vars
  <2>2. Position'
      BY <1>3 DEF vars, Position, Staged, Present, Placed, Superseded, OldVersions
  <2> QED
      BY <2>1, <2>2
<1> QED
    BY <1>1, <1>2, <1>3 DEF Next

LEMMA InvariantIInv == Spec => []IInv
BY InitIInv, NextIInv, PTL DEF Spec

\* Types and script positions, for every instance.
THEOREM TypeOKHolds == Spec => []TypeOK
BY InvariantIInv, PTL

-------------------------------------------------------------------------------
\* Every step is a step of PackageStore, or leaves it alone

StoreStep == [Store!Next]_(Store!storeVars)

LEMMA QuietStore ==
    ASSUME UNCHANGED durable, (torn \cup Unsettled)' = torn \cup Unsettled
    PROVE  StoreStep
<1>1. Installed' = Installed
    BY DEF Installed
<1> QED
    BY <1>1 DEF StoreStep, Store!storeVars, Present

LEMMA WriteStore ==
    ASSUME NEW x \in Paths, Installed' = Installed, disk \in [Paths -> Packages \cup {None, Edited}],
           NEW p \in Packages, disk' = [disk EXCEPT ![x] = p]
    PROVE  StoreStep
<1>1. {y \in Paths : Present(y)}' = {y \in Paths : Present(y)} \cup {x}
    BY DEF Present
<1>2. Store!Write(x)
    BY <1>1 DEF Store!Write
<1> QED
    BY <1>2 DEF StoreStep, Store!Next

LEMMA CommitStore ==
    ASSUME NEW p \in Packages, UNCHANGED disk,
           \A i \in 1..Len(Listing[p]) : Present(Listing[p][i]),
           Installed' = Installed \cup {p}
    PROVE  StoreStep
<1>1. Files(p) \subseteq {x \in Paths : Present(x)}
    BY DEF Files
<1>2. Store!Commit(p)
    BY <1>1 DEF Store!Commit, Present
<1> QED
    BY <1>2 DEF StoreStep, Store!Next

LEMMA RetireStore ==
    ASSUME NEW p \in Packages, UNCHANGED disk, Installed' = Installed \ {p}
    PROVE  StoreStep
<1>1. Store!Retire(p)
    BY DEF Store!Retire, Present
<1> QED
    BY <1>1 DEF StoreStep, Store!Next

LEMMA EraseStore ==
    ASSUME NEW x \in Paths, disk \in [Paths -> Packages \cup {None, Edited}],
           recorded \subseteq Packages, disk' = [disk EXCEPT ![x] = None],
           Installed' = Installed,
           \A p \in Installed : x \notin Files(p)
    PROVE  StoreStep
<1>1. {y \in Paths : Present(y)}' = {y \in Paths : Present(y)} \ {x}
    BY DEF Present
<1>2. Installed \subseteq Packages
    BY DEF Installed
<1>3. Store!Erase(x)
    BY <1>1, <1>2 DEF Store!Erase
<1> QED
    BY <1>3 DEF StoreStep, Store!Next

\* Where inst-pkg.sh's success leads
LEMMA InstalledPhase ==
    ASSUME phase = "record", PackageInstalled
    PROVE  /\ IF Staged(cur) THEN phase' = "copy" /\ cur' = cur ELSE phase' \in {"next", "retire"}
           /\ Unsettled = {cur}
           /\ Unsettled' = IF Staged(cur) THEN {cur} ELSE {}
<1>1. IF Staged(cur) THEN phase' = "copy" /\ cur' = cur ELSE phase' \in {"next", "retire"}
    BY DEF PackageInstalled, NextPackage, FindOld, Staged
<1> QED
    BY <1>1 DEF Unsettled

\* What is to be retired was found when the loop over old versions began.
LEMMA RetiredFound ==
    ASSUME IInv, RetireOld
    PROVE  /\ kind = "upgrade" /\ cur \in Packages
           /\ victim' \in Superseded(cur) /\ victim' \in recorded /\ victim' \in Packages
<1>1. olds = Superseded(cur) /\ kind = "upgrade" /\ cur \in Packages
    BY DEF RetireOld, Position
<1>2. victim' \in olds
    BY DEF RetireOld
<1> QED
    BY <1>1, <1>2 DEF Superseded, OldVersions

Quiet ==
    \/ \E k \in Kinds, q \in Selections : Start(k, q)
    \/ Confirm \/ Cancel \/ SkipPackage \/ UpgradeInstalled \/ LoopEnds
    \/ PostInstall \/ FetchFails \/ UpgradeEnds \/ WriteFails \/ ListCutShort \/ Crash

\* Starting, skipping, failing and ending change nothing a user may rely on:
\* a package a fault interrupts was unsettled before and is torn after.
LEMMA QuietFacts ==
    ASSUME IInv, Quiet
    PROVE  /\ UNCHANGED durable
           /\ (torn \cup Unsettled)' = torn \cup Unsettled
           /\ torn \subseteq torn'
<1>1. UNCHANGED durable /\ torn \subseteq torn'
    BY DEF Quiet, Start, Confirm, Cancel, SkipPackage, UpgradeInstalled, LoopEnds,
       PostInstall, FetchFails, UpgradeEnds, WriteFails, ListCutShort, Crash
<1>2. (torn \cup Unsettled)' = torn \cup Unsettled
  <2>1. CASE \/ \E k \in Kinds, q \in Selections : Start(k, q)
             \/ Confirm \/ Cancel \/ UpgradeInstalled \/ LoopEnds \/ PostInstall
      BY <2>1 DEF Start, Confirm, Cancel, UpgradeInstalled, FindOld, LoopEnds, PostInstall,
         Unsettled
  <2>2. CASE SkipPackage \/ UpgradeEnds
      BY <2>2 DEF SkipPackage, UpgradeEnds, NextPackage, Unsettled
  <2>3. CASE FetchFails
      BY <2>3 DEF FetchFails, Uninstalled, PackageFails, NextPackage, UpgradeAborts,
         Unsettled
  <2>4. CASE WriteFails
    <3>1. phase' \in {"idle", "next"}
        BY <2>4 DEF WriteFails, PackageFails, NextPackage, UpgradeAborts
    <3>2. torn' = torn \cup Unsettled
        BY <2>4 DEF WriteFails
    <3> QED
        BY <3>1, <3>2 DEF Unsettled
  <2>5. CASE Crash
    <3>1. phase' = "idle" /\ torn' = torn \cup Unsettled
        BY <2>5 DEF Crash
    <3> QED
        BY <3>1 DEF Unsettled
  <2>6. CASE ListCutShort
    <3>1. torn' = torn \cup {cur} /\ Unsettled = {cur} /\ Unsettled' \subseteq {cur}
        BY <2>6, InstalledPhase DEF ListCutShort
    <3> QED
        BY <3>1
  <2> QED
      BY <2>1, <2>2, <2>3, <2>4, <2>5, <2>6 DEF Quiet
<1> QED
    BY <1>1, <1>2

LEMMA QuietActions == ASSUME IInv, Quiet PROVE StoreStep
BY QuietFacts, QuietStore

LEMMA EditFileStore == ASSUME IInv, NEW x \in Paths, EditFile(x) PROVE StoreStep
<1>1. Installed' = Installed
    BY DEF EditFile, Installed, Unsettled
<1>2. {y \in Paths : Present(y)}' = {y \in Paths : Present(y)}
    BY DEF EditFile, Present
<1> QED
    BY <1>1, <1>2 DEF StoreStep, Store!storeVars

LEMMA UnpackStore == ASSUME IInv, UnpackPath \/ CopyPath PROVE StoreStep
<1>1. Installed' = Installed
    BY DEF UnpackPath, CopyPath, Installed, Unsettled
<1>2. cur \in Packages /\ idx + 1 \in 1..Len(Listing[cur])
    BY DEF UnpackPath, CopyPath
<1>3. \E x \in Paths : disk' = [disk EXCEPT ![x] = cur]
    BY <1>2, TreeAssumption DEF UnpackPath, CopyPath, Placed
<1> QED
    BY <1>1, <1>2, <1>3, WriteStore

\* While its list is open a package is unsettled.
LEMMA OpenRecordStore ==
    ASSUME IInv, UnpackEnds \/ FetchToRoot \/ FetchToStaging \/ RecordLine
    PROVE  StoreStep
<1>1. Installed' = Installed
  <2>1. CASE UnpackEnds
      BY <2>1 DEF UnpackEnds, OpenRecord, Installed, Unsettled
  <2>2. CASE FetchToRoot
      BY <2>2 DEF FetchToRoot, Uninstalled, Installed, Unsettled
  <2>3. CASE FetchToStaging
      BY <2>3 DEF FetchToStaging, Uninstalled, OpenRecord, Installed, Unsettled
  <2>4. CASE RecordLine
      BY <2>4 DEF RecordLine, Installed, Unsettled
  <2> QED
      BY <2>1, <2>2, <2>3, <2>4
<1>2. UNCHANGED disk
    BY DEF UnpackEnds, FetchToRoot, FetchToStaging, RecordLine
<1> QED
    BY <1>1, <1>2 DEF StoreStep, Store!storeVars, Present

\* The list is complete, and so are the files.
LEMMA RecordEndsStore == ASSUME IInv, RecordEnds PROVE StoreStep
<1>1. cur \in Packages /\ cur \in recorded /\ lines[cur] = Len(Listing[cur])
    BY DEF RecordEnds, Position
<1>2. UNCHANGED <<disk, recorded, lines>>
    BY DEF RecordEnds
<1>3. CASE Staged(cur)
  <2>1. Unsettled' = Unsettled /\ torn' = torn
      BY <1>3, InstalledPhase DEF RecordEnds
  <2>2. (torn \cup Unsettled)' = torn \cup Unsettled
      BY <2>1
  <2> QED
      BY <1>2, <2>2, QuietStore
<1>4. CASE ~Staged(cur)
  <2>1. torn' = torn \ {cur}
      BY <1>4 DEF RecordEnds
  <2>2. Unsettled = {cur} /\ Unsettled' = {}
      BY <1>4, InstalledPhase DEF RecordEnds
  <2>3. CASE cur \in StagedFiles
    <3>1. Installed' = Installed
        BY <1>2, <2>1, <2>2, <2>3 DEF Installed
    <3> QED
        BY <1>2, <3>1 DEF StoreStep, Store!storeVars, Present
  <2>4. CASE cur \notin StagedFiles
    <3>1. Installed' = Installed \cup {cur}
        BY <1>1, <1>2, <2>1, <2>2, <2>4 DEF Installed
    <3>2. \A i \in 1..Len(Listing[cur]) : Present(Listing[cur][i])
        BY <1>4 DEF RecordEnds, Position
    <3> QED
        BY <1>1, <1>2, <3>1, <3>2, CommitStore
  <2> QED
      BY <2>3, <2>4
<1> QED
    BY <1>3, <1>4

LEMMA CopyEndsStore == ASSUME IInv, CopyEnds PROVE StoreStep
<1>1. /\ cur \in Packages
      /\ cur \in recorded
      /\ lines[cur] = Len(Listing[cur]) \/ cur \in torn
      /\ idx = Len(Listing[cur])
      /\ \A i \in 1..idx : Present(Placed(cur, Listing[cur][i]))
    BY DEF CopyEnds, CopiedAll, Position
<1>2. /\ UNCHANGED <<disk, recorded, lines>>
      /\ torn' = IF lines[cur] = Len(Listing[cur]) THEN torn \ {cur} ELSE torn
    BY DEF CopyEnds
<1>3. Unsettled = {cur} /\ Unsettled' = {}
    BY DEF CopyEnds, FindOld, Unsettled
<1>4. CASE cur \in StagedFiles \/ lines[cur] # Len(Listing[cur])
  <2>1. Installed' = Installed
      BY <1>1, <1>2, <1>3, <1>4 DEF Installed
  <2> QED
      BY <1>2, <2>1 DEF StoreStep, Store!storeVars, Present
<1>5. CASE cur \notin StagedFiles /\ lines[cur] = Len(Listing[cur])
  <2>1. Installed' = Installed \cup {cur}
      BY <1>1, <1>2, <1>3, <1>5 DEF Installed
  <2>2. \A i \in 1..Len(Listing[cur]) : Present(Listing[cur][i])
      BY <1>1, <1>5 DEF Placed
  <2> QED
      BY <1>1, <1>2, <2>1, <2>2, CommitStore
<1> QED
    BY <1>4, <1>5

LEMMA BeginRemoveStore == ASSUME IInv, BeginRemove \/ RetireOld PROVE StoreStep
<1>1. UNCHANGED <<disk, recorded, lines, torn>>
    BY DEF BeginRemove, RetireOld
<1>2. victim' \in Packages
    BY RetiredFound DEF BeginRemove
<1>3. Unsettled = {} /\ Unsettled' = {victim'}
    BY DEF BeginRemove, RetireOld, Unsettled
<1>4. Installed' = Installed \ {victim'}
    BY <1>1, <1>3 DEF Installed
<1> QED
    BY <1>1, <1>2, <1>4, RetireStore

\* The heart of it: a path goes only when no other list has a line for it, and
\* an installed package's list has a line for each of its paths.
LEMMA RemovePathStore ==
    ASSUME IInv, PatternsSelectOwnLine, RemovePath
    PROVE  StoreStep
<1>1. UNCHANGED <<recorded, lines, torn, phase, victim, cur>>
    BY DEF RemovePath
<1>2. Installed' = Installed
    BY <1>1 DEF Installed, Unsettled
<1>3. CASE ListedElsewhere(LastLine) \/ HasChild(LastLine)
  <2>1. UNCHANGED disk
      BY <1>3 DEF RemovePath
  <2> QED
      BY <1>2, <2>1 DEF StoreStep, Store!storeVars, Present
<1>4. CASE ~(ListedElsewhere(LastLine) \/ HasChild(LastLine))
  <2>1. disk' = [disk EXCEPT ![LastLine] = None]
      BY <1>4 DEF RemovePath
  <2>2. LastLine \in Paths
    <3>1. idx \in 1..Len(Listing[victim])
        BY DEF RemovePath, Position
    <3> QED
        BY <3>1 DEF RemovePath, LastLine
  <2>3. ASSUME NEW p \in Installed
        PROVE  LastLine \notin Files(p)
    <3>1. p \in recorded \ {victim}
        BY DEF RemovePath, Installed, Unsettled
    <3>2. Files(p) = Lines(p)
        BY DEF Installed, Files, Lines
    <3>3. LastLine \in PatternHits[LastLine]
        BY <2>2 DEF PatternsSelectOwnLine
    <3> QED
        BY <1>4, <3>1, <3>2, <3>3 DEF ListedElsewhere
  <2> QED
      BY <1>2, <2>1, <2>2, <2>3, EraseStore
<1> QED
    BY <1>3, <1>4

LEMMA RemoveEndsStore == ASSUME IInv, RemoveEnds PROVE StoreStep
<1>1. UNCHANGED disk
    BY DEF RemoveEnds
<1>2. Unsettled = {victim} /\ Unsettled' = {}
    BY DEF RemoveEnds, Unsettled, NextPackage
<1>3. recorded' = recorded \ {victim} /\ lines' = [lines EXCEPT ![victim] = 0]
    BY DEF RemoveEnds, DropList
<1>4. torn' \ {victim} = torn \ {victim}
    BY DEF RemoveEnds
<1>5. Installed' = Installed
    BY <1>2, <1>3, <1>4 DEF Installed
<1> QED
    BY <1>1, <1>5 DEF StoreStep, Store!storeVars, Present

LEMMA NextStore ==
    ASSUME PatternsSelectOwnLine
    PROVE  IInv /\ [Next]_vars => StoreStep
<1> SUFFICES ASSUME IInv, [Next]_vars PROVE StoreStep
    OBVIOUS
<1>1. CASE Step
    BY <1>1, QuietActions, UnpackStore, OpenRecordStore, RecordEndsStore, CopyEndsStore,
       BeginRemoveStore, RemovePathStore, RemoveEndsStore DEF Step, Quiet
<1>2. CASE Environment
    BY <1>2, QuietActions, EditFileStore DEF Environment, Quiet
<1>3. CASE UNCHANGED vars
    BY <1>3, QuietStore DEF vars, Unsettled
<1> QED
    BY <1>1, <1>2, <1>3 DEF Next

\* The scripts implement the store, for every instance in which the recorded
\* paths are regular expressions that match themselves.
THEOREM ImplementsStoreHolds ==
    ASSUME PatternsSelectOwnLine
    PROVE  Spec => ImplementsStore
<1>1. Init => Store!Init
    BY DEF Init, Store!Init, Installed, Present
<1>2. IInv /\ [Next]_vars => [Store!Next]_(Store!storeVars)
    BY NextStore DEF StoreStep
<1> QED
    BY <1>1, <1>2, InvariantIInv, PTL DEF Spec, ImplementsStore, Store!Spec

\* The store's guards keep every installed package whole.
LEMMA StoreStepIntact ==
    ASSUME recorded \subseteq Packages, recorded' \subseteq Packages,
           RecordedIntact, StoreStep
    PROVE  RecordedIntact'
<1> DEFINE files == {x \in Paths : Present(x)}
<1>1. Installed \subseteq Packages /\ Installed' \subseteq Packages
    BY DEF Installed
<1>2. \A p \in Packages : Intact(p) <=> Files(p) \subseteq files
    BY DEF Intact, Files
<1>3. \A p \in Packages : Intact(p)' <=> Files(p) \subseteq files'
    BY DEF Intact, Files
<1>4. \A p \in Installed : Files(p) \subseteq files
    BY <1>1, <1>2 DEF RecordedIntact
<1>5. \A p \in Installed' : Files(p) \subseteq files'
    BY <1>1, <1>4 DEF StoreStep, Store!Next, Store!Write, Store!Erase, Store!Commit,
       Store!Retire, Store!storeVars
<1> QED
    BY <1>1, <1>3, <1>5 DEF RecordedIntact

\* No sequence of commands, crashes and failed writes costs an installed
\* package a file, for every instance as above.
THEOREM RecordedIntactHolds ==
    ASSUME PatternsSelectOwnLine
    PROVE  Spec => []RecordedIntact
<1>1. Init => RecordedIntact
    BY DEF Init, RecordedIntact, Installed
<1>2. IInv /\ IInv' /\ RecordedIntact /\ [Next]_vars => RecordedIntact'
    BY NextStore, StoreStepIntact
<1> QED
    BY <1>1, <1>2, InvariantIInv, PTL DEF Spec

-------------------------------------------------------------------------------
\* What an upgrade keeps

\* A list on disk is complete, or its package is known to be half done.
Tracked == \A p \in recorded : lines[p] = Len(Listing[p]) \/ p \in torn \cup Unsettled

LEMMA TrackedQuiet ==
    ASSUME Tracked, UNCHANGED <<recorded, lines>>,
           torn \cup Unsettled \subseteq (torn \cup Unsettled)'
    PROVE  Tracked'
BY DEF Tracked

LEMMA TrackedRecording ==
    ASSUME IInv, Tracked, UnpackEnds \/ FetchToRoot \/ FetchToStaging \/ RecordLine
    PROVE  Tracked'
<1>1. CASE UnpackEnds
    BY <1>1 DEF UnpackEnds, OpenRecord, Unsettled, Tracked
<1>2. CASE FetchToRoot
    BY <1>2 DEF FetchToRoot, Uninstalled, Unsettled, Tracked
<1>3. CASE FetchToStaging
    BY <1>3 DEF FetchToStaging, Uninstalled, OpenRecord, Unsettled, Tracked
<1>4. CASE RecordLine
    BY <1>4 DEF RecordLine, Unsettled, Tracked
<1> QED
    BY <1>1, <1>2, <1>3, <1>4

LEMMA TrackedRecorded ==
    ASSUME IInv, Tracked, RecordEnds \/ CopyEnds
    PROVE  Tracked'
<1>1. UNCHANGED <<recorded, lines>> /\ torn \ {cur} \subseteq torn' /\ Unsettled = {cur}
    BY DEF RecordEnds, CopyEnds, Unsettled
<1>2. lines[cur] = Len(Listing[cur]) \/ cur \in torn'
    BY DEF RecordEnds, CopyEnds, Position
<1> QED
    BY <1>1, <1>2 DEF Tracked

LEMMA TrackedRemoval ==
    ASSUME IInv, Tracked, BeginRemove \/ RetireOld \/ RemoveEnds
    PROVE  Tracked'
<1>1. CASE BeginRemove \/ RetireOld
  <2>1. UNCHANGED <<recorded, lines, torn>> /\ Unsettled = {}
      BY <1>1 DEF BeginRemove, RetireOld, Unsettled
  <2> QED
      BY <2>1 DEF Tracked
<1>2. CASE RemoveEnds
  <2>1. /\ recorded' = recorded \ {victim}
        /\ lines' = [lines EXCEPT ![victim] = 0]
        /\ torn \ {victim} \subseteq torn'
        /\ Unsettled = {victim}
      BY <1>2 DEF RemoveEnds, DropList, Unsettled
  <2> QED
      BY <2>1 DEF Tracked
<1> QED
    BY <1>1, <1>2

LEMMA TrackedNext == IInv /\ Tracked /\ [Next]_vars => Tracked'
<1> SUFFICES ASSUME IInv, Tracked, [Next]_vars PROVE Tracked'
    OBVIOUS
<1>1. CASE Quiet
    BY <1>1, QuietFacts, TrackedQuiet
<1>2. CASE UnpackPath \/ CopyPath \/ RemovePath \/ \E x \in Paths : EditFile(x)
  <2>1. UNCHANGED <<recorded, lines, torn, phase, cur, victim>>
      BY <1>2 DEF UnpackPath, CopyPath, RemovePath, EditFile
  <2>2. Unsettled' = Unsettled
      BY <2>1 DEF Unsettled
  <2> QED
      BY <2>1, <2>2, TrackedQuiet
<1>3. CASE UNCHANGED vars
    BY <1>3 DEF vars, Tracked, Unsettled
<1> QED
    BY <1>1, <1>2, <1>3, TrackedRecording, TrackedRecorded, TrackedRemoval
    DEF Next, Step, Environment, Quiet

\* What retires old versions has the list of the new one.
AtHand ==
    kind = "upgrade" /\ phase \in {"retire", "remove"} =>
        cur \in recorded /\ (phase = "remove" => victim # cur)

LEMMA AtHandNext == IInv /\ AtHand /\ [Next]_vars => AtHand'
<1> SUFFICES ASSUME IInv, AtHand, [Next]_vars PROVE AtHand'
    OBVIOUS
<1>1. CASE Quiet /\ ~ListCutShort
    BY <1>1 DEF Quiet, Start, Confirm, Cancel, SkipPackage, UpgradeInstalled, LoopEnds,
       PostInstall, FetchFails, UpgradeEnds, WriteFails, Crash, PackageFails, NextPackage,
       UpgradeAborts, FindOld, AtHand
<1>2. CASE UnpackPath \/ CopyPath \/ RemovePath \/ \E x \in Paths : EditFile(x)
    BY <1>2 DEF UnpackPath, CopyPath, RemovePath, EditFile, AtHand
<1>3. CASE UnpackEnds \/ FetchToRoot \/ FetchToStaging \/ RecordLine
    BY <1>3 DEF UnpackEnds, FetchToRoot, FetchToStaging, RecordLine, OpenRecord, AtHand
<1>4. CASE RecordEnds \/ CopyEnds \/ ListCutShort
    BY <1>4 DEF RecordEnds, CopyEnds, ListCutShort, PackageInstalled, FindOld, NextPackage,
       Position, AtHand
<1>5. CASE BeginRemove \/ RetireOld
    BY <1>5, RetiredFound DEF BeginRemove, RetireOld, Superseded, OldVersions, AtHand
<1>6. CASE RemoveEnds
    BY <1>6 DEF RemoveEnds, DropList, NextPackage, AtHand
<1>7. CASE UNCHANGED vars
    BY <1>7 DEF vars, AtHand
<1> QED
    BY <1>1, <1>2, <1>3, <1>4, <1>5, <1>6, <1>7 DEF Next, Step, Environment, Quiet

KInv == IInv /\ Tracked /\ AtHand

LEMMA InvariantKInv == Spec => []KInv
<1>1. Init => Tracked /\ AtHand
    BY DEF Init, Tracked, AtHand
<1> QED
    BY <1>1, InvariantIInv, TrackedNext, AtHandNext, PTL DEF Spec, KInv

\* No package brings a file under the name another of its files is renamed to.
NewNamesFree ==
    \A p \in StagedFiles : \A x \in Files(p) : DotNew[x] # x => DotNew[x] \notin Files(p)

LEMMA UpgradeInstallsFirst ==
    ASSUME KInv, [Next]_vars, kind = "upgrade"
    PROVE  InstallsFirst
<1>1. CASE phase = "remove"
  <2>1. cur \in recorded \ Unsettled
      BY <1>1 DEF KInv, AtHand, Unsettled
  <2> QED
      BY <2>1 DEF KInv, Tracked, InstallsFirst, Installed
<1>2. CASE phase # "remove"
  <2>1. recorded \subseteq recorded'
      BY <1>2 DEF Next, Step, Environment, Start, Confirm, Cancel, SkipPackage,
         UpgradeInstalled, LoopEnds, PostInstall, FetchFails, UpgradeEnds, WriteFails,
         ListCutShort, Crash, UnpackPath, CopyPath, RemovePath, EditFile, UnpackEnds, FetchToRoot,
         FetchToStaging, RecordLine, RecordEnds, CopyEnds, BeginRemove, RetireOld,
         RemoveEnds, OpenRecord, vars
  <2>2. \A x \in Paths : ~Loses(x)
    <3>1. CASE UnpackPath \/ CopyPath \/ \E x \in Paths : EditFile(x)
        BY <3>1, TreeAssumption
        DEF UnpackPath, CopyPath, EditFile, Loses, Present, Placed, KInv
    <3>2. CASE UNCHANGED disk
        BY <3>2 DEF Loses, Present
    <3>3. UnpackPath \/ CopyPath \/ (\E x \in Paths : EditFile(x)) \/ UNCHANGED disk
        BY <1>2 DEF Next, Step, Environment, Start, Confirm, Cancel, SkipPackage,
           UpgradeInstalled, LoopEnds, PostInstall, FetchFails, UpgradeEnds, WriteFails,
           ListCutShort, Crash, RemovePath, UnpackEnds, FetchToRoot, FetchToStaging, RecordLine,
           RecordEnds, CopyEnds, BeginRemove, RetireOld, RemoveEnds, vars
    <3> QED
        BY <3>1, <3>2, <3>3
  <2> QED
      BY <2>1, <2>2 DEF InstallsFirst
<1> QED
    BY <1>1, <1>2

LEMMA UpgradeEditsSurvive ==
    ASSUME PatternsSelectOwnLine, NewNamesFree, KInv, [Next]_vars, kind = "upgrade"
    PROVE  EditsSurvive
<1> SUFFICES ASSUME NEW x \in Paths, cur \in StagedFiles \ torn, x \in Files(cur),
                    disk[x] = Edited, DotNew[x] # x
             PROVE  disk'[x] = Edited
    BY DEF EditsSurvive
<1>1. cur \in Packages
    OBVIOUS
<1>2. CASE UnpackPath
    BY <1>2 DEF UnpackPath, KInv, Position, Staged
<1>3. CASE CopyPath
  <2>1. idx + 1 \in 1..Len(Listing[cur])
      BY <1>3 DEF CopyPath, KInv
  <2>2. Listing[cur][idx + 1] \in Files(cur) /\ Listing[cur][idx + 1] \in Paths
      BY <1>1, <2>1 DEF Files
  <2>3. Placed(cur, Listing[cur][idx + 1]) # x
      BY <2>2 DEF NewNamesFree, Placed
  <2> QED
      BY <1>3, <2>3 DEF CopyPath, KInv
<1>4. CASE RemovePath
  <2>1. cur \in recorded \ {victim} /\ lines[cur] = Len(Listing[cur])
    <3>1. phase = "remove" /\ Unsettled = {victim}
        BY <1>4 DEF RemovePath, Unsettled
    <3> QED
        BY <3>1 DEF KInv, AtHand, Tracked
  <2>2. x \in Lines(cur)
      BY <2>1 DEF Files, Lines
  <2>3. LastLine = x => ListedElsewhere(LastLine)
      BY <2>1, <2>2 DEF ListedElsewhere, PatternsSelectOwnLine
  <2> QED
      BY <1>4, <2>3 DEF RemovePath, KInv
<1>5. CASE \E y \in Paths : EditFile(y)
    BY <1>5 DEF EditFile, KInv
<1>6. UnpackPath \/ CopyPath \/ RemovePath \/ (\E y \in Paths : EditFile(y)) \/ UNCHANGED disk
    BY DEF Next, Step, Environment, Start, Confirm, Cancel, SkipPackage,
       UpgradeInstalled, LoopEnds, PostInstall, FetchFails, UpgradeEnds, WriteFails,
       ListCutShort, Crash, UnpackEnds, FetchToRoot, FetchToStaging, RecordLine, RecordEnds, CopyEnds,
       BeginRemove, RetireOld, RemoveEnds, vars
<1> QED
    BY <1>2, <1>3, <1>4, <1>5, <1>6

LEMMA UpgradeKernelsStay ==
    ASSUME KInv, [Next]_vars, kind = "upgrade"
    PROVE  KernelsStay
<1> SUFFICES ASSUME NEW k \in Kernels, k \in Installed
             PROVE  k \in Installed'
    BY DEF KernelsStay
<1>1. CASE Quiet
    BY <1>1, QuietFacts DEF KInv, Installed
<1>2. CASE UnpackPath \/ CopyPath \/ RemovePath \/ \E x \in Paths : EditFile(x)
    BY <1>2 DEF UnpackPath, CopyPath, RemovePath, EditFile, Installed, Unsettled
<1>3. CASE UnpackEnds \/ FetchToRoot \/ FetchToStaging \/ RecordLine
    BY <1>3 DEF UnpackEnds, FetchToRoot, FetchToStaging, RecordLine, Uninstalled, OpenRecord,
       Installed, Unsettled, KInv
<1>4. CASE RecordEnds \/ CopyEnds
  <2>1. Unsettled = {cur} /\ Unsettled' \subseteq {cur}
      BY <1>4, InstalledPhase DEF RecordEnds, CopyEnds, FindOld, Unsettled
  <2>2. UNCHANGED <<recorded, lines>> /\ torn' \subseteq torn
      BY <1>4 DEF RecordEnds, CopyEnds
  <2> QED
      BY <2>1, <2>2 DEF Installed
<1>5. CASE RetireOld
  <2>1. victim' \in Superseded(cur) /\ cur \in Packages
      BY <1>5, RetiredFound DEF KInv
  <2>2. cur \notin Kernels /\ NameOf[victim'] = NameOf[cur] /\ victim' \in Packages
      BY <2>1 DEF Superseded, OldVersions, KInv
  <2>3. k # victim'
      BY <2>1, <2>2
  <2>4. UNCHANGED <<recorded, lines, torn>> /\ Unsettled' = {victim'}
      BY <1>5 DEF RetireOld, Unsettled
  <2> QED
      BY <2>3, <2>4 DEF Installed
<1>6. CASE RemoveEnds
  <2>1. Unsettled = {victim} /\ Unsettled' = {}
      BY <1>6 DEF RemoveEnds, Unsettled, NextPackage
  <2>2. k # victim
      BY <2>1 DEF Installed
  <2> QED
      BY <1>6, <2>1, <2>2 DEF RemoveEnds, DropList, Installed, KInv
<1>7. CASE UNCHANGED vars
    BY <1>7 DEF vars, Installed, Unsettled
<1>8. ~BeginRemove
    BY DEF BeginRemove
<1> QED
    BY <1>1, <1>2, <1>3, <1>4, <1>5, <1>6, <1>7, <1>8
    DEF Next, Step, Environment, Quiet

\* An upgrade takes nothing before the new package is there, and neither edited
\* files nor kernels, for every instance whose paths are regular expressions
\* that match themselves and that renames no file over another of its package.
THEOREM UpgradeKeepsHolds ==
    ASSUME PatternsSelectOwnLine, NewNamesFree
    PROVE  Spec => UpgradeKeeps
<1>1. KInv /\ [Next]_vars =>
        [kind = "upgrade" => InstallsFirst /\ EditsSurvive /\ KernelsStay]_vars
    BY UpgradeInstallsFirst, UpgradeEditsSurvive, UpgradeKernelsStay
<1> QED
    BY <1>1, InvariantKInv, PTL DEF Spec, UpgradeKeeps

-------------------------------------------------------------------------------
\* What exit status 0 means

\* How much of its request the loop has behind it
Behind == Len(request) - Len(todo)

Working == {"unpack", "record", "copy", "retire", "remove"}

\* The loop is at Head(todo), and todo is what is left of the request.
Place ==
    /\ Len(todo) <= Len(request)
    /\ \A i \in 1..Len(todo) : todo[i] = request[Behind + i]
    /\ phase \in Working \ {"remove"} => cur = Head(todo)
    /\ phase = "remove" /\ kind = "remove" => victim = Head(todo)
    /\ phase = "remove" /\ kind = "upgrade" => cur = Head(todo) /\ NameOf[victim] = NameOf[cur]
    /\ phase = "post" => kind = "install" /\ ~error /\ todo = <<>>
    /\ phase = "idle" /\ exit = "ok" => todo = <<>> /\ (kind = "install" => ~error)

\* A package whose list is complete, or one of those that are excepted
Here(p) == p \in Installed \cup torn \cup StagedFiles

Upgraded(p) == Here(p) /\ (p \in Kernels \/ OldVersions(p) = {})

\* No package so far replaces the i-th of the request.
Latest(i) ==
    \A k \in (i + 1)..Behind :
        NameOf[request[k]] = NameOf[request[i]] => request[k] = request[i]

\* What has been done when the loop is where it is.  An upgrade at work on a
\* package takes what was said about other versions of it back.
Progress ==
    phase # "idle" \/ exit = "ok" =>
        /\ kind = "install" /\ ~error => \A i \in 1..Behind : Here(request[i])
        /\ kind = "remove" => \A i \in 1..Behind : request[i] \notin recorded
        /\ kind = "upgrade" =>
             \A i \in 1..Behind :
                 Latest(i) /\ (phase \in Working => NameOf[request[i]] # NameOf[cur])
                     => Upgraded(request[i])

LEMMA PlaceType ==
    ASSUME IInv, Place
    PROVE  /\ Behind \in Nat
           /\ \A i \in 1..Behind : request[i] \in Packages
           /\ Len(request) = Behind + Len(todo)
BY DEF Place, Behind

\* One iteration further, the package that was at the head is behind.
LEMMA NextPackagePlace ==
    ASSUME IInv, Place, todo # <<>>, NextPackage
    PROVE  /\ Place'
           /\ Behind' = Behind + 1
           /\ request[Behind + 1] = Head(todo)
           /\ UNCHANGED <<request, kind>>
           /\ phase' = "next"
<1>1. /\ phase' = "next" /\ todo' = Tail(todo) /\ request' = request /\ kind' = kind
    BY DEF NextPackage
<1>2. Len(todo) \in Nat /\ Len(todo) > 0 /\ Len(todo') = Len(todo) - 1
    BY <1>1
<1>3. Behind' = Behind + 1
    BY <1>1, <1>2, PlaceType DEF Behind
<1>4. Head(todo) = request[Behind + 1]
  <2>1. 1 \in 1..Len(todo) /\ Head(todo) = todo[1]
      BY <1>2
  <2> QED
      BY <2>1 DEF Place
<1>5. \A i \in 1..Len(todo') : todo'[i] = request[Behind + 1 + i]
  <2>1. SUFFICES ASSUME NEW i \in 1..Len(todo') PROVE todo'[i] = request[Behind + 1 + i]
      OBVIOUS
  <2>2. todo'[i] = todo[i + 1] /\ i + 1 \in 1..Len(todo)
      BY <1>1, <1>2
  <2>3. todo[i + 1] = request[Behind + (i + 1)]
      BY <2>2 DEF Place
  <2>4. Behind + (i + 1) = Behind + 1 + i
    <3>1. Behind \in Nat /\ i \in Nat
        BY PlaceType
    <3> HIDE DEF Behind
    <3> QED
        BY <3>1
  <2> QED
      BY <2>2, <2>3, <2>4
<1>6. Len(todo') <= Len(request')
    BY <1>1, <1>2 DEF Place
<1> QED
    BY <1>1, <1>3, <1>4, <1>5, <1>6 DEF Place, Working

LEMMA BehindStays == UNCHANGED <<request, todo>> => Behind' = Behind
BY DEF Behind

LEMMA PlaceNext == IInv /\ Place /\ [Next]_vars => Place'
<1> SUFFICES ASSUME IInv, Place, [Next]_vars PROVE Place'
    OBVIOUS
<1>1. CASE \E k \in Kinds, q \in Selections : Start(k, q)
  <2>1. PICK q \in Selections : request' = q /\ todo' = q /\ phase' = "confirm"
      BY <1>1 DEF Start
  <2>2. q \in Seq(Packages) /\ Behind' = 0
      BY <2>1 DEF Behind
  <2>3. Len(todo') <= Len(request') /\ \A i \in 1..Len(todo') : todo'[i] = request'[Behind' + i]
      BY <2>1, <2>2
  <2>4. phase' \notin Working /\ phase' # "post" /\ phase' # "idle"
      BY <2>1 DEF Working
  <2> QED
      BY <2>3, <2>4 DEF Place, Working
<1>2. CASE Confirm \/ Cancel \/ UpgradeInstalled \/ PostInstall \/ Crash \/ BeginRemove
  <2>1. UNCHANGED <<request, todo>>
      BY <1>2 DEF Confirm, Cancel, UpgradeInstalled, PostInstall, Crash, BeginRemove
  <2>2. Len(todo') <= Len(request') /\ \A i \in 1..Len(todo') : todo'[i] = request'[Behind' + i]
      BY <2>1, BehindStays DEF Place
  <2>3. CASE Confirm \/ Cancel \/ Crash
    <3>1. CASE Confirm
        BY <2>2, <3>1 DEF Confirm, Place, Working
    <3>2. CASE Cancel \/ Crash
      <4>1. phase' = "idle" /\ exit' = "failed"
          BY <3>2 DEF Cancel, Crash
      <4> QED
          BY <2>2, <4>1 DEF Place, Working
    <3> QED
        BY <2>3, <3>1, <3>2
  <2>4. CASE UpgradeInstalled \/ BeginRemove
    <3>1. kind' = kind /\ todo' = todo
        BY <2>4 DEF UpgradeInstalled, BeginRemove
    <3>2. \/ phase' = "retire" /\ cur' = Head(todo)
          \/ phase' = "remove" /\ victim' = Head(todo) /\ kind = "remove"
        BY <2>4 DEF UpgradeInstalled, FindOld, BeginRemove
    <3> QED
        BY <2>2, <3>1, <3>2 DEF Place, Working
  <2>5. CASE PostInstall
    <3>1. phase' = "idle" /\ todo' = <<>> /\ (kind' = "install" => ~error')
        BY <2>5 DEF PostInstall, Place
    <3> QED
        BY <2>2, <3>1 DEF Place, Working
  <2> QED
      BY <1>2, <2>3, <2>4, <2>5
<1>3. CASE LoopEnds
    BY <1>3 DEF LoopEnds, Place, Behind, Working
<1>4. CASE SkipPackage \/ UpgradeEnds
    BY <1>4, NextPackagePlace DEF SkipPackage, UpgradeEnds, Position
<1>5. CASE FetchFails \/ WriteFails
  <2>1. todo # <<>> /\ PackageFails
      BY <1>5 DEF FetchFails, Uninstalled, WriteFails, Position
  <2>2. CASE NextPackage
      BY <2>1, <2>2, NextPackagePlace
  <2>3. CASE UpgradeAborts /\ UNCHANGED <<loop, victim>>
      BY <2>3 DEF UpgradeAborts, Place, Behind, Working
  <2> QED
      BY <2>1, <2>2, <2>3 DEF PackageFails
<1>6. CASE FetchToRoot \/ FetchToStaging \/ UnpackEnds
  <2>1. UNCHANGED <<request, todo, kind, error>> /\ phase' \in {"unpack", "record"}
      BY <1>6 DEF FetchToRoot, FetchToStaging, UnpackEnds, OpenRecord
  <2>2. cur' = Head(todo)
      BY <1>6 DEF FetchToRoot, FetchToStaging, UnpackEnds, Place, Working
  <2>3. Behind' = Behind
      BY <2>1, BehindStays
  <2>4. Len(todo') <= Len(request') /\ \A i \in 1..Len(todo') : todo'[i] = request'[Behind' + i]
      BY <2>1, <2>3 DEF Place
  <2> QED
      BY <2>1, <2>2, <2>4 DEF Place, Working
<1>7. CASE UnpackPath \/ RecordLine \/ CopyPath \/ RemovePath \/ \E x \in Paths : EditFile(x)
  <2>1. UNCHANGED <<request, todo, phase, kind, cur, victim, error, exit>>
      BY <1>7 DEF UnpackPath, RecordLine, CopyPath, RemovePath, EditFile
  <2>2. Behind' = Behind
      BY <2>1, BehindStays
  <2> QED
      BY <2>1, <2>2 DEF Place, Working
<1>8. CASE RecordEnds \/ ListCutShort \/ RemoveEnds
  <2>1. todo # <<>>
      BY <1>8 DEF RecordEnds, ListCutShort, RemoveEnds, Position
  <2>2. CASE NextPackage
      BY <2>1, <2>2, NextPackagePlace
  <2>3. CASE ~NextPackage
    <3>1. UNCHANGED <<request, todo, kind, error>>
          /\ phase' \in {"copy", "retire"} /\ cur' = Head(todo)
        BY <1>8, <2>3 DEF RecordEnds, ListCutShort, PackageInstalled, FindOld, RemoveEnds,
           Place, Working
    <3> QED
        BY <3>1, BehindStays DEF Place, Working
  <2> QED
      BY <2>2, <2>3
<1>9. CASE CopyEnds \/ RetireOld
  <2>1. UNCHANGED <<request, todo, kind, error, cur>> /\ phase' \in {"retire", "remove"}
      BY <1>9 DEF CopyEnds, FindOld, RetireOld
  <2>2. kind = "upgrade" /\ cur = Head(todo)
      BY <1>9, RetiredFound DEF CopyEnds, RetireOld, Position, Place, Working, Staged
  <2>3. phase' = "remove" => NameOf[victim'] = NameOf[cur]
      BY <1>9, RetiredFound DEF CopyEnds, FindOld, Superseded, OldVersions
  <2>4. Len(todo') <= Len(request') /\ \A i \in 1..Len(todo') : todo'[i] = request'[Behind' + i]
      BY <2>1, BehindStays DEF Place
  <2> QED
      BY <2>1, <2>2, <2>3, <2>4 DEF Place, Working
<1>10. CASE UNCHANGED vars
    BY <1>10 DEF vars, Place, Behind
<1> QED
    BY <1>1, <1>2, <1>3, <1>4, <1>5, <1>6, <1>7, <1>8, <1>9, <1>10
    DEF Next, Step, Environment

\* Whatever happens to other packages, one that is here stays.
LEMMA HereStays ==
    ASSUME KInv, [Next]_vars, NEW p \in Packages, Here(p),
           phase = "remove" => p # victim,
           BeginRemove \/ RetireOld => p # victim'
    PROVE  Here(p)'
<1>1. CASE Quiet
    BY <1>1, QuietFacts DEF KInv, Installed, Here
<1>2. CASE UnpackPath \/ CopyPath \/ RemovePath \/ \E x \in Paths : EditFile(x)
    BY <1>2 DEF UnpackPath, CopyPath, RemovePath, EditFile, Installed, Unsettled, Here
<1>3. CASE UnpackEnds \/ FetchToRoot \/ FetchToStaging \/ RecordLine
    BY <1>3 DEF UnpackEnds, FetchToRoot, FetchToStaging, RecordLine, Uninstalled, OpenRecord,
       Installed, Unsettled, KInv, Here
<1>4. CASE RecordEnds \/ CopyEnds
  <2>1. cur \in recorded /\ UNCHANGED <<recorded, lines>> /\ Unsettled = {cur}
      BY <1>4 DEF RecordEnds, CopyEnds, Position, KInv, AtHand, Unsettled
  <2>2. \/ torn' = torn /\ Unsettled' \subseteq Unsettled
        \/ torn' = torn \ {cur} /\ Unsettled' = {} /\ lines[cur] = Len(Listing[cur])
      BY <1>4, InstalledPhase DEF RecordEnds, CopyEnds, FindOld, Unsettled
  <2> QED
      BY <2>1, <2>2 DEF Installed, Here
<1>5. CASE BeginRemove \/ RetireOld
  <2>1. UNCHANGED <<recorded, lines, torn>> /\ Unsettled' = {victim'}
      BY <1>5 DEF BeginRemove, RetireOld, Unsettled
  <2> QED
      BY <1>5, <2>1 DEF Installed, Here
<1>6. CASE RemoveEnds
  <2>1. p # victim /\ Unsettled = {victim} /\ Unsettled' = {}
      BY <1>6 DEF RemoveEnds, Unsettled, NextPackage
  <2> QED
      BY <1>6, <2>1 DEF RemoveEnds, DropList, Installed, KInv, Here
<1>7. CASE UNCHANGED vars
    BY <1>7 DEF vars, Installed, Unsettled, Here
<1> QED
    BY <1>1, <1>2, <1>3, <1>4, <1>5, <1>6, <1>7
    DEF Next, Step, Environment, Quiet

\* A package with a list is here when no step is at work on it.
LEMMA RecordedHere ==
    ASSUME KInv, NEW p \in recorded, p \notin Unsettled
    PROVE  Here(p)
BY DEF KInv, Tracked, Installed, Here

LEMMA UpgradedStays ==
    ASSUME KInv, [Next]_vars, NEW p \in Packages, Upgraded(p),
           phase = "remove" => p # victim,
           BeginRemove \/ RetireOld => p # victim',
           \A q \in recorded' \ recorded : NameOf[q] # NameOf[p]
    PROVE  Upgraded(p)'
BY HereStays DEF Upgraded, OldVersions

\* What is behind the loop stays done while the loop is at one package.
LEMMA ProgressStays ==
    ASSUME KInv, Place, Progress, [Next]_vars,
           UNCHANGED <<kind, request, todo>>,
           error => error',
           phase # "idle" \/ exit = "ok",
           kind = "install" => phase # "remove" /\ ~BeginRemove /\ ~RetireOld,
           kind = "remove" => recorded' \subseteq recorded,
           kind = "upgrade" =>
             /\ ~BeginRemove
             /\ phase \in Working => phase' \in Working /\ cur' = cur
             /\ RetireOld => NameOf[victim'] = NameOf[cur']
             /\ \/ phase' \in Working /\ recorded' \subseteq recorded \cup {cur'}
                \/ recorded' \subseteq recorded
    PROVE  Progress'
<1>0. Behind' = Behind /\ Behind \in Nat /\ \A i \in 1..Behind : request[i] \in Packages
    BY BehindStays, PlaceType DEF KInv
<1> HIDE DEF Behind
<1>1. kind = "install" /\ ~error' => \A i \in 1..Behind : Here(request[i])'
  <2> SUFFICES ASSUME kind = "install", ~error', NEW i \in 1..Behind
               PROVE  Here(request[i])'
      OBVIOUS
  <2>1. Here(request[i])
      BY DEF Progress
  <2>2. \A p \in Packages : Here(p) => Here(p)'
      BY HereStays
  <2> QED
      BY <1>0, <2>1, <2>2 DEF Here
<1>2. kind = "remove" => \A i \in 1..Behind : request[i] \notin recorded'
    BY DEF Progress
<1>3. ASSUME kind = "upgrade", NEW i \in 1..Behind, Latest(i),
             phase' \in Working => NameOf[request[i]] # NameOf[cur']
      PROVE  Upgraded(request[i])'
  <2>1. phase \in Working => NameOf[request[i]] # NameOf[cur]
      BY <1>3
  <2>2. Upgraded(request[i])
      BY <1>3, <2>1 DEF Progress
  <2>3. phase = "remove" => request[i] # victim
      BY <1>3, <2>1 DEF Place, Working
  <2>4. RetireOld => request[i] # victim'
      BY <1>3 DEF RetireOld, Working
  <2>5. \A q \in recorded' \ recorded : NameOf[q] # NameOf[request[i]]
      BY <1>3
  <2>6. ASSUME NEW p \in Packages, p = request[i] PROVE Upgraded(p)'
      BY <1>3, <2>2, <2>3, <2>4, <2>5, <2>6, UpgradedStays
  <2> QED
      BY <1>0, <2>6
<1>4. \A i : Latest(i)' = Latest(i)
    BY <1>0 DEF Latest
<1> QED
    BY <1>0, <1>1, <1>2, <1>3, <1>4 DEF Progress

\* A list that is passed over, or whose last line was written, is one more done.
LEMMA ProgressInstalled ==
    ASSUME KInv, Place, Progress, [Next]_vars, kind = "install", todo # <<>>, NextPackage,
           phase # "idle", phase # "remove", UNCHANGED error,
           \A p \in Packages : p = Head(todo) => Here(p)'
    PROVE  Progress'
<1>0. /\ Behind' = Behind + 1 /\ request[Behind + 1] = Head(todo)
      /\ UNCHANGED <<request, kind>> /\ phase' = "next"
      /\ Behind \in Nat /\ \A i \in 1..Behind : request[i] \in Packages
    BY NextPackagePlace, PlaceType DEF KInv
<1> HIDE DEF Behind
<1>1. ~BeginRemove /\ ~RetireOld
    BY <1>0 DEF BeginRemove, RetireOld
<1>2. \A p \in Packages : Here(p) => Here(p)'
    BY <1>1, HereStays
<1>3. ASSUME ~error', NEW i \in 1..Behind', NEW p \in Packages, p = request[i]
      PROVE  Here(p)'
  <2>1. CASE i = Behind + 1
      BY <1>0, <1>3, <2>1
  <2>2. CASE i \in 1..Behind
    <3>1. Here(request[i])
        BY <1>3, <2>2 DEF Progress
    <3> QED
        BY <1>2, <1>3, <3>1
  <2> QED
      BY <1>0, <1>3, <2>1, <2>2
<1>4. \A i \in 1..Behind' : request[i] \in Packages
  <2>1. Head(todo) \in Packages
      BY DEF KInv, IInv, TypeOK
  <2>2. \A i \in 1..Behind' : i = Behind + 1 \/ i \in 1..Behind
      BY <1>0
  <2> QED
      BY <1>0, <2>1, <2>2
<1>5. ~error' => \A i \in 1..Behind' : Here(request[i])'
    BY <1>0, <1>3, <1>4 DEF Here
<1> QED
    BY <1>0, <1>5 DEF Progress

LEMMA ProgressRemoved ==
    ASSUME KInv, Place, Progress, kind = "remove", todo # <<>>, NextPackage,
           phase # "idle", recorded' \subseteq recorded, Head(todo) \notin recorded'
    PROVE  Progress'
<1>0. /\ Behind' = Behind + 1 /\ request[Behind + 1] = Head(todo)
      /\ UNCHANGED <<request, kind>>
      /\ Behind \in Nat
    BY NextPackagePlace, PlaceType DEF KInv
<1> HIDE DEF Behind
<1>1. ASSUME NEW i \in 1..Behind' PROVE request'[i] \notin recorded'
  <2>1. CASE i = Behind + 1
      BY <1>0, <2>1
  <2>2. CASE i \in 1..Behind
      BY <1>0, <2>2 DEF Progress
  <2> QED
      BY <1>0, <1>1, <2>1, <2>2
<1> QED
    BY <1>0, <1>1 DEF Progress

\* When the last old version is gone, the upgraded package is the only one of
\* its name, and so are those before it that no version in between replaced.
LEMMA ProgressUpgraded ==
    ASSUME KInv, Place, Progress, UpgradeEnds
    PROVE  Progress'
<1>0. /\ phase = "retire" /\ kind = "upgrade" /\ cur = Head(todo) /\ todo # <<>>
      /\ cur \in recorded /\ NextPackage /\ Superseded(cur) = {}
    BY DEF UpgradeEnds, KInv, Position, Place, Working, AtHand
<1>1. /\ Behind' = Behind + 1 /\ request[Behind + 1] = cur
      /\ UNCHANGED <<request, kind>> /\ phase' = "next"
      /\ Behind \in Nat /\ \A i \in 1..Behind : request[i] \in Packages
    BY <1>0, NextPackagePlace, PlaceType DEF KInv
<1> HIDE DEF Behind
<1>2. UNCHANGED <<recorded, lines, torn>> /\ Unsettled = {} /\ Unsettled' = {}
    BY <1>0, <1>1 DEF UpgradeEnds, Unsettled
<1>3. Upgraded(cur)
    BY <1>0, <1>2, RecordedHere DEF Superseded, Upgraded
<1>4. \A p : Upgraded(p) => Upgraded(p)'
    BY <1>2 DEF Upgraded, Here, Installed, OldVersions
<1>5. ASSUME NEW i \in 1..Behind', Latest(i)' PROVE Upgraded(request[i])'
  <2>0. \A p : p = request[i] /\ Upgraded(p) => Upgraded(request[i])'
      BY <1>1, <1>4 DEF Upgraded, Here, OldVersions
  <2>1. CASE request[i] = cur
      BY <1>3, <2>0, <2>1
  <2>2. CASE request[i] # cur
    <3>1. i \in 1..Behind
        BY <1>1, <1>5, <2>2
    <3>2. Latest(i)
        BY <1>1, <1>5 DEF Latest
    <3>3. NameOf[request[i]] # NameOf[cur]
        BY <1>1, <1>5, <2>2, <3>1 DEF Latest
    <3>4. Upgraded(request[i])
        BY <1>0, <3>1, <3>2, <3>3 DEF Progress
    <3> QED
        BY <2>0, <3>4
  <2> QED
      BY <2>1, <2>2
<1> QED
    BY <1>0, <1>1, <1>5 DEF Progress

LEMMA ProgressFailed ==
    ASSUME KInv, kind \in {"install", "upgrade"}, PackageFails
    PROVE  Progress'
BY DEF PackageFails, NoteError, NextPackage, UpgradeAborts, Progress

LEMMA ProgressNext == KInv /\ Place /\ Progress /\ [Next]_vars => Progress'
<1> SUFFICES ASSUME KInv, Place, Progress, [Next]_vars PROVE Progress'
    OBVIOUS
<1>1. CASE \E k \in Kinds, q \in Selections : Start(k, q)
  <2>1. Behind' = 0
      BY <1>1, PackagesAssumption DEF Start, Behind
  <2> QED
      BY <2>1 DEF Progress
<1>2. CASE Cancel \/ Crash
  <2>1. phase' = "idle" /\ exit' = "failed"
      BY <1>2 DEF Cancel, Crash
  <2> QED
      BY <2>1 DEF Progress
<1>3. CASE FetchFails \/ WriteFails
  <2>1. PackageFails /\ kind \in {"install", "upgrade"}
      BY <1>3 DEF FetchFails, Uninstalled, WriteFails, KInv, Position, Staged
  <2> QED
      BY <2>1, ProgressFailed
<1>4. CASE SkipPackage
  <2>1. CASE kind = "install"
    <3>1. Head(todo) \in recorded /\ Unsettled = {} /\ Unsettled' = {}
          /\ UNCHANGED <<recorded, lines, torn>>
        BY <1>4, <2>1 DEF SkipPackage, NextPackage, Unsettled
    <3>2. Here(Head(todo))
        BY <3>1, RecordedHere
    <3>3. \A p : p = Head(todo) => Here(p)'
        BY <3>1, <3>2 DEF Here, Installed
    <3> QED
        BY <1>4, <2>1, <3>3, ProgressInstalled DEF SkipPackage
  <2>2. CASE kind = "remove"
      BY <1>4, <2>2, ProgressRemoved DEF SkipPackage
  <2> QED
      BY <1>4, <2>1, <2>2 DEF SkipPackage
<1>5. CASE UpgradeEnds
    BY <1>5, ProgressUpgraded
<1>6. CASE RecordEnds \/ ListCutShort
  <2>1. CASE kind = "install"
    <3>1. /\ UNCHANGED <<recorded, lines, error>> /\ Unsettled' = {}
          /\ cur = Head(todo) /\ cur \in recorded /\ todo # <<>> /\ phase = "record"
          /\ NextPackage
        BY <1>6, <2>1, InstalledPhase DEF RecordEnds, ListCutShort, PackageInstalled, Staged,
           KInv, Position, Place, Working
    <3>2. torn' = torn \cup {cur} \/ lines[cur] = Len(Listing[cur])
        BY <1>6 DEF RecordEnds, ListCutShort
    <3>3. \A p : p = Head(todo) => Here(p)'
        BY <3>1, <3>2 DEF Here, Installed
    <3> QED
        BY <2>1, <3>1, <3>3, ProgressInstalled
  <2>2. CASE kind # "install"
    <3>1. UNCHANGED <<recorded, kind, request, todo, error, cur>>
          /\ kind = "upgrade" /\ phase' \in Working /\ phase \in Working
        BY <1>6, <2>2 DEF RecordEnds, ListCutShort, PackageInstalled, FindOld, KInv, Position,
           Working, Staged
    <3>2. ~BeginRemove /\ ~RetireOld
        BY <1>6 DEF RecordEnds, ListCutShort, BeginRemove, RetireOld
    <3> QED
        BY <2>2, <3>1, <3>2, ProgressStays DEF Working
  <2> QED
      BY <2>1, <2>2
<1>7. CASE RemoveEnds
  <2>1. CASE kind = "remove"
    <3>1. recorded' = recorded \ {victim} /\ victim = Head(todo) /\ NextPackage /\ todo # <<>>
        BY <1>7, <2>1 DEF RemoveEnds, DropList, Place, KInv, Position
    <3> QED
        BY <1>7, <2>1, <3>1, ProgressRemoved DEF RemoveEnds
  <2>2. CASE kind # "remove"
    <3>1. UNCHANGED <<kind, request, todo, error, cur>> /\ recorded' \subseteq recorded
          /\ kind = "upgrade" /\ phase' \in Working /\ phase = "remove"
        BY <1>7, <2>2 DEF RemoveEnds, DropList, Working
    <3>2. ~BeginRemove /\ ~RetireOld
        BY <1>7 DEF RemoveEnds, BeginRemove, RetireOld
    <3> QED
        BY <3>1, <3>2, ProgressStays
  <2> QED
      BY <2>1, <2>2
<1>8. CASE UnpackEnds \/ FetchToRoot \/ FetchToStaging \/ RecordLine \/ UpgradeInstalled
  <2>1. UNCHANGED <<kind, request, todo, error>>
      BY <1>8 DEF UnpackEnds, FetchToRoot, FetchToStaging, RecordLine, UpgradeInstalled
  <2>2. /\ kind \in {"install", "upgrade"} /\ phase \in {"next", "unpack", "record"}
        /\ recorded' \subseteq recorded \cup {cur'}
        /\ phase' \in Working
        /\ phase \in Working => cur' = cur
      BY <1>8 DEF UnpackEnds, FetchToRoot, FetchToStaging, RecordLine, UpgradeInstalled,
         FindOld, OpenRecord, Uninstalled, KInv, Position, Working
  <2>3. ~BeginRemove /\ ~RetireOld
      BY <1>8 DEF UnpackEnds, FetchToRoot, FetchToStaging, RecordLine, UpgradeInstalled,
         OpenRecord, BeginRemove, RetireOld
  <2> QED
      BY <2>1, <2>2, <2>3, ProgressStays
<1>9. CASE UnpackPath \/ CopyPath \/ RemovePath \/ CopyEnds
  <2>1. UNCHANGED <<kind, request, todo, error, recorded, cur>> /\ phase \in Working
        /\ phase' \in Working
      BY <1>9 DEF UnpackPath, CopyPath, RemovePath, CopyEnds, FindOld, Working
  <2>2. ~BeginRemove /\ ~RetireOld
      BY <1>9 DEF UnpackPath, CopyPath, RemovePath, CopyEnds, BeginRemove, RetireOld
  <2>3. kind = "install" => phase # "remove"
      BY DEF KInv, Position
  <2>4. phase # "idle" \/ exit = "ok"
      BY <2>1 DEF Working
  <2> QED
      BY <2>1, <2>2, <2>3, <2>4, ProgressStays
<1>10. CASE Confirm \/ LoopEnds \/ PostInstall
  <2>1. UNCHANGED <<kind, request, todo, error, recorded>> /\ phase \in {"confirm", "next", "post"}
      BY <1>10 DEF Confirm, LoopEnds, PostInstall
  <2>2. ~BeginRemove /\ ~RetireOld
      BY <1>10 DEF Confirm, LoopEnds, PostInstall, BeginRemove, RetireOld
  <2> QED
      BY <2>1, <2>2, ProgressStays DEF Working
<1>11. CASE BeginRemove
  <2>1. UNCHANGED <<kind, request, todo, error, recorded>> /\ phase = "next" /\ kind = "remove"
      BY <1>11 DEF BeginRemove
  <2> QED
      BY <2>1, ProgressStays
<1>12. CASE RetireOld
  <2>1. UNCHANGED <<kind, request, todo, error, recorded, cur>> /\ phase = "retire"
        /\ phase' = "remove" /\ NameOf[victim'] = NameOf[cur] /\ kind = "upgrade"
      BY <1>12, RetiredFound DEF RetireOld, Superseded, OldVersions, KInv
  <2>2. ~BeginRemove
      BY <1>12 DEF RetireOld, BeginRemove
  <2> QED
      BY <2>1, <2>2, ProgressStays DEF Working
<1>13. CASE (\E x \in Paths : EditFile(x)) \/ UNCHANGED vars
  <2>1. UNCHANGED <<kind, request, todo, error, recorded, lines, torn, phase, cur, victim, exit>>
      BY <1>13 DEF EditFile, vars
  <2>2. Behind' = Behind
      BY <2>1, BehindStays
  <2>3. \A p : (Here(p) => Here(p)') /\ (Upgraded(p) => Upgraded(p)')
      BY <2>1 DEF Here, Installed, Unsettled, Upgraded, OldVersions
  <2> QED
      BY <2>1, <2>2, <2>3 DEF Progress, Latest, Here, Upgraded, OldVersions
<1> QED
    BY <1>1, <1>2, <1>3, <1>4, <1>5, <1>6, <1>7, <1>8, <1>9, <1>10, <1>11, <1>12, <1>13
    DEF Next, Step, Environment

SInv == KInv /\ Place /\ Progress

LEMMA InvariantSInv == Spec => []SInv
<1>1. Init => Place /\ Progress
    BY PackagesAssumption DEF Init, Place, Behind, Progress, Working
<1> QED
    BY <1>1, InvariantKInv, PlaceNext, ProgressNext, PTL DEF Spec, SInv, KInv

\* The whole request is behind a command that reports success, so its report is
\* true, whatever was on disk before and whatever failed on the way.
THEOREM SuccessMeansDoneHolds == Spec => []SuccessMeansDone
<1>1. SInv => SuccessMeansDone
  <2> SUFFICES ASSUME SInv, phase = "idle", exit = "ok" PROVE SuccessMeansDone
      BY DEF SuccessMeansDone
  <2>1. todo = <<>> /\ (kind = "install" => ~error) /\ Progress /\ kind \in Kinds
      BY DEF SInv, KInv, IInv, TypeOK, Place
  <2>2. Behind = Len(request)
      BY <2>1 DEF Behind, SInv, KInv, IInv, TypeOK
  <2>3. CASE kind = "install"
      BY <2>1, <2>2, <2>3 DEF Progress, Here, SuccessMeansDone
  <2>4. CASE kind = "remove"
      BY <2>1, <2>2, <2>4 DEF Progress, SuccessMeansDone
  <2>5. CASE kind = "upgrade"
    <3>1. ASSUME NEW p \in LastOfName PROVE Upgraded(p)
      <4>1. PICK i \in 1..Len(request) : p = request[i] /\ Latest(i)
          BY <2>2, <3>1 DEF LastOfName, Latest
      <4> QED
          BY <2>1, <2>2, <2>5, <4>1 DEF Progress, Working
    <3> QED
        BY <2>5, <3>1 DEF SuccessMeansDone, Upgraded, Here
  <2> QED
      BY <2>1, <2>3, <2>4, <2>5 DEF Kinds
<1> QED
    BY <1>1, InvariantSInv, PTL

-------------------------------------------------------------------------------
\* What a removal leaves behind

\* grep selects the line of the path itself and of no other, as it does when no
\* recorded path differs from this one only where this one has a "." or other
\* special sign.
PatternsExact == \A x \in Paths : PatternHits[x] = {x}

Removing == IF phase = "remove" THEN {victim} ELSE {}
Writing == IF phase \in {"unpack", "record", "copy"} THEN {cur} ELSE {}

\* Half done packages whose files are not to be gone when the removal ends
Remnants == IF phase = "remove" /\ lines[victim] = Len(Listing[victim])
              THEN torn \ {victim}
              ELSE torn

\* What accounts for a path: a removal's own list only in its part still unread
Accounted(x) ==
    \/ x \in NewTree
    \/ \E p \in recorded \ Removing : x \in Lines(p)
    \/ \E p \in Remnants \cup Writing : x \in Files(p)
    \/ phase = "remove" /\ \E i \in 1..idx : x = Listing[victim][i]

Accounts ==
    /\ \A x \in Paths : Present(x) => Accounted(x)
    /\ phase = "remove" => lines[victim] = Len(Listing[victim]) \/ victim \in torn

LEMMA NewTreeClosed ==
    /\ \A x \in Paths : DotNew[x] # x => DotNew[x] \in NewTree
    /\ \A x \in NewTree : x \in Paths /\ Parent[x] \in NewTree \cup {Root}
<1>1. ASSUME NEW x \in Paths, DotNew[x] # x PROVE DotNew[x] \in NewTree
  <2>1. DotNew[x] \in Paths /\ DotNew[x] \in DotNewPaths
      BY <1>1, TreeAssumption DEF DotNewPaths
  <2> QED
      BY <2>1 DEF NewTree
<1>2. ASSUME NEW x \in NewTree PROVE x \in Paths /\ Parent[x] \in NewTree \cup {Root}
  <2>1. x \in Paths /\ Parent[x] \in Paths \cup {Root}
      BY TreeAssumption DEF NewTree
  <2>2. ASSUME NEW S \in SUBSET Paths, DotNewPaths \subseteq S, WithParents(S)
        PROVE  Parent[x] \in S \cup {Root}
      BY <2>2 DEF NewTree, WithParents
  <2> QED
      BY <2>1, <2>2 DEF NewTree
<1> QED
    BY <1>1, <1>2

LEMMA ParentListed ==
    ASSUME NEW p \in Packages, NEW n \in Nat, n <= Len(Listing[p]), NEW x \in Paths,
           NEW i \in 1..n, Parent[Listing[p][i]] = x
    PROVE  \E j \in 1..(n - 1) : Listing[p][j] = x
<1>1. Len(Listing[p]) \in Nat /\ i \in 1..Len(Listing[p])
    BY ListingType
<1>2. Parent[Listing[p][i]] # Root
    BY TreeAssumption
<1>3. PICK j \in 1..(i - 1) : Listing[p][j] = Parent[Listing[p][i]]
    BY <1>1, <1>2, TreeAssumption
<1> QED
    BY <1>3

\* A directory with something in it is accounted for by what is in it.
LEMMA ParentAccounted ==
    ASSUME KInv, NEW x \in Paths, NEW y \in Paths, Parent[y] = x, Accounted(y)
    PROVE  \/ x \in NewTree
           \/ \E p \in recorded \ Removing : x \in Lines(p)
           \/ \E p \in Remnants \cup Writing : x \in Files(p)
           \/ phase = "remove" /\ \E i \in 1..(idx - 1) : x = Listing[victim][i]
<1>0. /\ recorded \subseteq Packages /\ Remnants \subseteq Packages /\ Writing \subseteq Packages
      /\ \A p \in Packages : lines[p] \in Nat /\ lines[p] <= Len(Listing[p])
      /\ phase = "remove" => victim \in Packages /\ idx \in Nat /\ idx <= Len(Listing[victim])
    BY DEF KInv, IInv, TypeOK, Position, Remnants, Writing
<1>1. CASE y \in NewTree
    BY <1>1, NewTreeClosed, TreeAssumption
<1>2. ASSUME NEW p \in recorded \ Removing, y \in Lines(p) PROVE x \in Lines(p)
  <2>1. PICK i \in 1..lines[p] : Listing[p][i] = y
      BY <1>2 DEF Lines
  <2>2. \E j \in 1..(lines[p] - 1) : Listing[p][j] = x
      BY <1>0, <2>1, ParentListed
  <2> QED
      BY <1>0, <2>2 DEF Lines
<1>3. ASSUME NEW p \in Remnants \cup Writing, y \in Files(p) PROVE x \in Files(p)
  <2>1. PICK i \in 1..Len(Listing[p]) : Listing[p][i] = y
      BY <1>3 DEF Files
  <2>2. \E j \in 1..(Len(Listing[p]) - 1) : Listing[p][j] = x
      BY <1>0, <2>1, ListingType, ParentListed
  <2> QED
      BY <1>0, <2>2, ListingType DEF Files
<1>4. ASSUME phase = "remove", NEW i \in 1..idx, y = Listing[victim][i]
      PROVE  \E j \in 1..(idx - 1) : x = Listing[victim][j]
    BY <1>0, <1>4, ParentListed
<1> QED
    BY <1>1, <1>2, <1>3, <1>4 DEF Accounted

LEMMA AccountsQuiet ==
    ASSUME KInv, Accounts, Quiet, ~ListCutShort
    PROVE  Accounts'
<1>1. phase' \notin {"unpack", "record", "copy", "remove"}
    BY DEF Quiet, Start, Confirm, Cancel, SkipPackage, UpgradeInstalled, LoopEnds,
       PostInstall, FetchFails, UpgradeEnds, WriteFails, Crash, PackageFails, NextPackage,
       UpgradeAborts, FindOld
<1>2. /\ UNCHANGED durable
      /\ torn' = torn \cup Unsettled
  <2>1. Unsettled' = {}
      BY <1>1 DEF Unsettled
  <2> QED
      BY <2>1, QuietFacts DEF KInv
<1>3. Removing' = {} /\ Writing' = {} /\ Remnants' = torn'
    BY <1>1 DEF Removing, Writing, Remnants
<1>4. Remnants \cup Writing \subseteq torn'
    BY <1>2 DEF Remnants, Writing, Unsettled
<1>5. ASSUME NEW x \in Paths, Present(x)', Accounted(x) PROVE Accounted(x)'
  <2>1. CASE phase = "remove" /\ \E i \in 1..idx : x = Listing[victim][i]
    <3>1. x \in Files(victim) /\ victim \in Unsettled
        BY <2>1, PackagesAssumption DEF KInv, IInv, TypeOK, Position, Files, Unsettled
    <3> QED
        BY <1>2, <1>3, <3>1 DEF Accounted, Files
  <2>2. CASE \E p \in recorded \ Removing : x \in Lines(p)
      BY <1>2, <1>3, <2>2 DEF durable, Accounted, Lines
  <2>3. CASE \E p \in Remnants \cup Writing : x \in Files(p)
      BY <1>3, <1>4, <2>3 DEF Accounted, Files
  <2> QED
      BY <1>5, <2>1, <2>2, <2>3 DEF Accounted
<1> QED
    BY <1>1, <1>2, <1>5 DEF Accounts, Present, durable

LEMMA AccountsWriting ==
    ASSUME KInv, Accounts,
           UnpackPath \/ UnpackEnds \/ FetchToRoot \/ FetchToStaging \/ RecordLine \/ CopyPath
    PROVE  Accounts'
<1>1. /\ phase' \in {"unpack", "record", "copy"} /\ phase # "remove"
      /\ torn' = torn /\ Writing' = {cur'} /\ Removing' = {} /\ Removing = {}
      /\ Remnants = torn /\ Remnants' = torn
      /\ Writing \subseteq {cur'}
  <2>1. /\ phase' \in {"unpack", "record", "copy"} /\ torn' = torn
        /\ \/ phase \in {"unpack", "record", "copy"} /\ cur' = cur
           \/ phase = "next"
    <3>1. CASE UnpackPath \/ RecordLine \/ CopyPath
        BY <3>1 DEF UnpackPath, RecordLine, CopyPath
    <3>2. CASE UnpackEnds \/ FetchToRoot \/ FetchToStaging
        BY <3>2 DEF UnpackEnds, FetchToRoot, FetchToStaging, Uninstalled, OpenRecord
    <3> QED
        BY <3>1, <3>2
  <2> QED
      BY <2>1 DEF Writing, Removing, Remnants
<1>2. recorded \subseteq recorded' /\ \A p \in recorded : lines'[p] \in {lines[p], lines[p] + 1}
    BY DEF UnpackPath, UnpackEnds, FetchToRoot, FetchToStaging, RecordLine, CopyPath,
       OpenRecord, Uninstalled, KInv, IInv, TypeOK, Position
<1>3. \A p \in recorded : Lines(p) \subseteq Lines(p)'
  <2>1. \A p \in recorded : lines[p] \in Nat
      BY DEF KInv, IInv, TypeOK
  <2> QED
      BY <1>2, <2>1 DEF Lines
<1>4. ASSUME NEW x \in Paths, Accounted(x) PROVE Accounted(x)'
    BY <1>1, <1>2, <1>3, <1>4 DEF Accounted, Files
<1>5. ASSUME NEW x \in Paths, Present(x)', ~Present(x) PROVE Accounted(x)'
  <2>1. CASE UnpackPath
    <3>1. x = Listing[cur][idx + 1] /\ cur' = cur /\ idx + 1 \in 1..Len(Listing[cur])
        BY <1>5, <2>1 DEF UnpackPath, Present, KInv, IInv, TypeOK
    <3> QED
        BY <1>1, <3>1 DEF Accounted, Files
  <2>2. CASE CopyPath
    <3>1. x = Placed(cur, Listing[cur][idx + 1]) /\ cur' = cur
          /\ idx + 1 \in 1..Len(Listing[cur]) /\ cur \in Packages
        BY <1>5, <2>2 DEF CopyPath, Present, KInv, IInv, TypeOK
    <3>2. x \in NewTree \/ x = Listing[cur][idx + 1]
        BY <3>1, ListingType, NewTreeClosed DEF Placed
    <3> QED
        BY <1>1, <3>1, <3>2 DEF Accounted, Files
  <2>3. CASE ~UnpackPath /\ ~CopyPath
      BY <1>5, <2>3 DEF UnpackEnds, FetchToRoot, FetchToStaging, RecordLine, OpenRecord,
         Present
  <2> QED
      BY <2>1, <2>2, <2>3
<1> QED
    BY <1>1, <1>4, <1>5 DEF Accounts

\* When its last line is written the list accounts for what the package has
\* brought, and a list that is cut short is known to be.
LEMMA AccountsRecorded ==
    ASSUME KInv, Accounts, RecordEnds \/ ListCutShort \/ CopyEnds
    PROVE  Accounts'
<1>1. /\ UNCHANGED durable /\ phase' # "remove" /\ phase \in {"record", "copy"}
      /\ torn \ {cur} \subseteq torn' /\ cur \in recorded
      /\ lines[cur] = Len(Listing[cur]) \/ cur \in torn' \cup Writing'
  <2>1. CASE RecordEnds \/ ListCutShort
      BY <2>1, InstalledPhase DEF RecordEnds, ListCutShort, Writing, KInv, Position
  <2>2. CASE CopyEnds
      BY <2>2 DEF CopyEnds, FindOld, KInv, Position
  <2> QED
      BY <2>1, <2>2
<1>2. Removing = {} /\ Removing' = {} /\ Remnants = torn /\ Remnants' = torn' /\ Writing = {cur}
    BY <1>1 DEF Removing, Remnants, Writing
<1>3. lines[cur] = Len(Listing[cur]) => Files(cur) = Lines(cur)
    BY DEF Files, Lines
<1>4. ASSUME NEW x \in Paths, Accounted(x) PROVE Accounted(x)'
  <2>1. \/ x \in NewTree
        \/ \E p \in recorded : x \in Lines(p)
        \/ \E p \in (torn \ {cur}) \cup ({cur} \cap (torn' \cup Writing')) : x \in Files(p)
    <3>1. ASSUME NEW p \in torn \cup {cur}, x \in Files(p), p = cur
          PROVE  x \in Lines(cur) \/ cur \in torn' \cup Writing'
        BY <1>1, <1>3, <3>1
    <3> QED
        BY <1>1, <1>2, <1>4, <3>1 DEF Accounted
  <2>2. \A p : Lines(p)' = Lines(p)
      BY <1>1 DEF Lines, durable
  <2>3. /\ (torn \ {cur}) \cup ({cur} \cap (torn' \cup Writing')) \subseteq (Remnants \cup Writing)'
        /\ (recorded \ Removing)' = recorded
      BY <1>1, <1>2 DEF durable
  <2> QED
      BY <2>1, <2>2, <2>3 DEF Accounted, Files
<1> QED
    BY <1>1, <1>4 DEF Accounts, Present, durable

LEMMA AccountsBegin ==
    ASSUME KInv, Accounts, BeginRemove \/ RetireOld
    PROVE  Accounts'
<1>1. /\ UNCHANGED <<disk, recorded, lines, torn>> /\ phase' = "remove"
      /\ phase \in {"next", "retire"} /\ victim' \in recorded /\ idx' = lines[victim']
    BY RetiredFound DEF BeginRemove, RetireOld, KInv
<1>2. Removing = {} /\ Removing' = {victim'} /\ Writing = {} /\ Writing' = {} /\ Remnants = torn
    BY <1>1 DEF Removing, Writing, Remnants
<1>3. lines[victim'] = Len(Listing[victim']) \/ victim' \in torn
    BY <1>1 DEF KInv, Tracked, Unsettled
<1>4. ASSUME NEW x \in Paths, Accounted(x) PROVE Accounted(x)'
  <2>1. ASSUME NEW p \in recorded, x \in Lines(p) PROVE Accounted(x)'
    <3>1. CASE p = victim'
        BY <1>1, <2>1, <3>1 DEF Lines, Accounted
    <3>2. CASE p # victim'
        BY <1>1, <1>2, <2>1, <3>2 DEF Lines, Accounted
    <3> QED
        BY <3>1, <3>2
  <2>2. ASSUME NEW p \in torn, x \in Files(p) PROVE Accounted(x)'
    <3>1. CASE p \in Remnants'
        BY <2>2, <3>1 DEF Accounted, Files
    <3>2. CASE p \notin Remnants'
      <4>1. p = victim' /\ lines[victim'] = Len(Listing[victim'])
          BY <1>1, <2>2, <3>2 DEF Remnants
      <4> QED
          BY <1>1, <2>2, <4>1 DEF Accounted, Files
    <3> QED
        BY <3>1, <3>2
  <2> QED
      BY <1>1, <1>2, <1>4, <2>1, <2>2 DEF Accounted
<1> QED
    BY <1>1, <1>3, <1>4 DEF Accounts, Present

\* A path the removal leaves is another list's, or a directory in use.
LEMMA AccountsRemovePath ==
    ASSUME KInv, Accounts, RemovePath, PatternsExact
    PROVE  Accounts'
<1>1. /\ UNCHANGED <<recorded, lines, torn, phase, cur, victim>> /\ phase = "remove"
      /\ idx' = idx - 1 /\ idx \in Nat /\ idx > 0
    BY DEF RemovePath, KInv, IInv, TypeOK
<1>2. UNCHANGED <<Removing, Writing, Remnants>>
    BY <1>1 DEF Removing, Writing, Remnants
<1>3. victim \in Packages /\ LastLine \in Paths
    BY <1>1, ListingType DEF KInv, IInv, TypeOK, Position, LastLine
<1>4. ASSUME NEW x \in Paths, Present(x)' PROVE Present(x)
    BY <1>4 DEF RemovePath, Present, KInv, IInv, TypeOK
<1>5. ASSUME NEW x \in Paths,
             \/ x \in NewTree
             \/ \E p \in recorded \ Removing : x \in Lines(p)
             \/ \E p \in Remnants \cup Writing : x \in Files(p)
             \/ \E i \in 1..(idx - 1) : x = Listing[victim][i]
      PROVE  Accounted(x)'
    BY <1>1, <1>2, <1>5 DEF Accounted, Lines, Files
<1>6. ASSUME NEW x \in Paths, x # LastLine, Accounted(x) PROVE Accounted(x)'
  <2>1. \A i \in 1..idx : i \in 1..(idx - 1) \/ i = idx
      BY <1>1
  <2> QED
      BY <1>5, <1>6, <2>1 DEF Accounted, LastLine
<1>7. ASSUME NEW x \in Paths, x = LastLine, Present(x)' PROVE Accounted(x)'
  <2>1. ListedElsewhere(x) \/ HasChild(x)
    <3>1. SUFFICES ASSUME ~ListedElsewhere(x), ~HasChild(x) PROVE FALSE
        OBVIOUS
    <3>2. disk' = [disk EXCEPT ![x] = None]
        BY <1>7, <3>1 DEF RemovePath
    <3> QED
        BY <1>7, <3>2 DEF KInv, IInv, TypeOK, Present
  <2>2. CASE ListedElsewhere(x)
    <3>1. PICK q \in recorded \ {victim} : x \in Lines(q)
        BY <2>2 DEF ListedElsewhere, PatternsExact
    <3> QED
        BY <1>1, <1>5, <3>1 DEF Removing
  <2>3. CASE HasChild(x)
    <3>1. PICK y \in Paths : Parent[y] = x /\ Present(y)
        BY <2>3 DEF HasChild
    <3>2. Accounted(y)
        BY <3>1 DEF Accounts
    <3> QED
        BY <1>5, <3>1, <3>2, ParentAccounted
  <2> QED
      BY <2>1, <2>2, <2>3
<1> QED
    BY <1>1, <1>4, <1>6, <1>7 DEF Accounts

LEMMA AccountsRemoveEnds ==
    ASSUME KInv, Accounts, RemoveEnds
    PROVE  Accounts'
<1>1. /\ disk' = disk /\ phase = "remove" /\ phase' # "remove" /\ idx = 0
      /\ phase' \notin {"unpack", "record", "copy"}
      /\ recorded' = recorded \ {victim} /\ torn' = Remnants
      /\ lines' = [lines EXCEPT ![victim] = 0]
    BY DEF RemoveEnds, DropList, NextPackage, Remnants
<1>2. Removing = {victim} /\ Removing' = {} /\ Writing = {} /\ Writing' = {} /\ Remnants' = Remnants
    BY <1>1 DEF Removing, Writing, Remnants
<1>3. \A p \in recorded \ {victim} : Lines(p)' = Lines(p)
    BY <1>1 DEF Lines, KInv, IInv, TypeOK
<1>4. ASSUME NEW x \in Paths, Accounted(x) PROVE Accounted(x)'
    BY <1>1, <1>2, <1>3, <1>4 DEF Accounted, Files
<1> QED
    BY <1>1, <1>4 DEF Accounts, Present

LEMMA AccountsNext ==
    ASSUME PatternsExact
    PROVE  KInv /\ Accounts /\ [Next]_vars => Accounts'
<1> SUFFICES ASSUME KInv, Accounts, [Next]_vars PROVE Accounts'
    OBVIOUS
<1>1. CASE (\E x \in Paths : EditFile(x)) \/ UNCHANGED vars
  <2>1. UNCHANGED <<recorded, lines, torn, phase, cur, victim, idx>>
      BY <1>1 DEF EditFile, vars, work
  <2>2. \A x \in Paths : Present(x)' => Present(x)
      BY <1>1 DEF EditFile, vars, Present, KInv, IInv, TypeOK
  <2>3. UNCHANGED <<Removing, Writing, Remnants>>
      BY <2>1 DEF Removing, Writing, Remnants
  <2>4. \A x \in Paths : Accounted(x) => Accounted(x)'
      BY <2>1, <2>3 DEF Accounted, Lines, Files
  <2> QED
      BY <2>1, <2>2, <2>4 DEF Accounts
<1>2. CASE Quiet /\ ~ListCutShort
    BY <1>2, AccountsQuiet
<1> QED
    BY <1>1, <1>2, AccountsWriting, AccountsRecorded, AccountsBegin, AccountsRemovePath,
       AccountsRemoveEnds DEF Next, Step, Environment, Quiet

\* Installing, removing and upgrading, interrupted anywhere, leave no path that
\* neither a list nor a package known to be half done accounts for, for every
\* instance whose patterns select no line but their own: the path named by a
\* list is left while something is in it, and then its content is accounted for.
THEOREM NoOrphansHolds ==
    ASSUME PatternsExact
    PROVE  Spec => []NoOrphans
<1>1. Init => Accounts
    BY DEF Init, Accounts, Present
<1>2. KInv /\ Accounts => NoOrphans
  <2> SUFFICES ASSUME KInv, Accounts, NEW x \in Paths, Present(x),
                      \A p \in recorded : x \notin Lines(p),
                      x \notin NewTree
               PROVE  \E p \in torn \cup Unsettled : x \in Files(p)
      BY DEF NoOrphans
  <2>1. Accounted(x)
      BY DEF Accounts
  <2>2. CASE \E p \in Remnants \cup Writing : x \in Files(p)
      BY <2>2 DEF Remnants, Writing, Unsettled
  <2>3. CASE phase = "remove" /\ \E i \in 1..idx : x = Listing[victim][i]
    <3>1. victim \in Packages /\ idx \in Nat /\ idx <= Len(Listing[victim])
        BY <2>3 DEF KInv, IInv, TypeOK, Position
    <3>2. PICK i \in 1..idx : x = Listing[victim][i]
        BY <2>3
    <3>3. i \in 1..Len(Listing[victim])
        BY <3>1, ListingType
    <3>4. x \in Files(victim) /\ victim \in Unsettled
        BY <2>3, <3>2, <3>3 DEF Files, Unsettled
    <3> QED
        BY <3>4
  <2> QED
      BY <2>1, <2>2, <2>3 DEF Accounted
<1> QED
    BY <1>1, <1>2, InvariantKInv, AccountsNext, PTL DEF Spec, KInv
=============================================================================
