------------------------------ MODULE ListsProofs ------------------------------
(***************************************************************************)
(* Proofs about Lists, for any lists, archives, names and sort order: the  *)
(* types, that an installed list file means installed packages, and what a *)
(* successful removal or install has done.                                 *)
(*                                                                         *)
(* Progress says what a command has done by where it is: what an install   *)
(* or upgrade has still to do is in "todo" and "files", and what a removal *)
(* has still to take is there too and in no other list.                    *)
(***************************************************************************)
EXTENDS Lists, SequenceTheorems, TLAPS

USE ListsAssumption DEF durable, command, history

-------------------------------------------------------------------------------
\* Sequences

LEMMA ElementsHeadTail ==
    ASSUME NEW S, NEW s \in Seq(S), s # <<>>
    PROVE  /\ Head(s) \in S
           /\ Tail(s) \in Seq(S)
           /\ Elements(s) = {Head(s)} \cup Elements(Tail(s))
<1>1. /\ Len(s) \in Nat \ {0} /\ Head(s) = s[1] /\ Head(s) \in S
      /\ Tail(s) \in Seq(S) /\ Len(Tail(s)) = Len(s) - 1
      /\ \A i \in 1..Len(Tail(s)) : Tail(s)[i] = s[i + 1]
    BY HeadTailProperties
<1>2. ASSUME NEW x \in Elements(s) PROVE x \in {Head(s)} \cup Elements(Tail(s))
  <2>1. PICK i \in 1..Len(s) : x = s[i]
      BY DEF Elements
  <2>2. CASE i = 1
      BY <1>1, <2>1, <2>2
  <2>3. CASE i # 1
    <3>1. i - 1 \in 1..Len(Tail(s)) /\ s[i] = Tail(s)[i - 1]
        BY <1>1, <2>3
    <3> QED
        BY <2>1, <3>1 DEF Elements
  <2> QED
      BY <2>2, <2>3
<1>3. ASSUME NEW x \in Elements(Tail(s)) PROVE x \in Elements(s)
  <2>1. PICK i \in 1..Len(Tail(s)) : x = Tail(s)[i]
      BY <1>3 DEF Elements
  <2>2. i + 1 \in 1..Len(s) /\ x = s[i + 1]
      BY <1>1, <2>1
  <2> QED
      BY <2>2 DEF Elements
<1>4. Head(s) \in Elements(s)
    BY <1>1 DEF Elements
<1> QED
    BY <1>1, <1>2, <1>3, <1>4

LEMMA ElementsEmpty == ASSUME NEW s, s = <<>> PROVE Elements(s) = {}
BY DEF Elements

LEMMA ElementsType == ASSUME NEW S, NEW s \in Seq(S) PROVE Elements(s) \subseteq S
BY DEF Elements

LEMMA RequestType ==
    ASSUME NEW r \in Seq(ListFile)
    PROVE  Contents(r) \subseteq Packages /\ Named(r) \subseteq ListNames
<1>1. Elements(r) \subseteq ListFile
    BY ElementsType
<1> QED
    BY <1>1 DEF Contents, Named, ListFile

LEMMA SortUniqueType ==
    ASSUME NEW S \in SUBSET Packages
    PROVE  SortUnique[S] \in Seq(Packages) /\ Elements(SortUnique[S]) = S
OBVIOUS

-------------------------------------------------------------------------------
\* What list-remove.sh works out from the installed lists

ReadFiles(names) ==
    [i \in 1..Len(names) |-> [list |-> names[i], packages |-> listed[names[i]]]]
Unused(names) == {p \in Contents(ReadFiles(names)) : ~Used(p, ReadFiles(names))}

LEMMA ReadFilesType ==
    ASSUME TypeOK, NEW names \in Seq(ListNames)
    PROVE  /\ ReadFiles(names) \in Seq(ListFile)
           /\ Unused(names) \in SUBSET Packages
<1>1. Len(names) \in Nat /\ \A i \in 1..Len(names) : names[i] \in ListNames
    BY LenProperties
<1>2. \A i \in 1..Len(names) : [list |-> names[i], packages |-> listed[names[i]]] \in ListFile
    BY <1>1 DEF ListFile, TypeOK
<1>3. ReadFiles(names) \in Seq(ListFile)
    BY <1>1, <1>2, IsASeq DEF ReadFiles
<1> QED
    BY <1>3, RequestType DEF Unused

-------------------------------------------------------------------------------
\* Types

LEMMA InitTypeOK == Init => TypeOK
<1> SUFFICES ASSUME Init PROVE TypeOK
    OBVIOUS
<1>1. request \in Seq(ListFile) /\ todo \in Seq(Packages) /\ files \in Seq(ListFile)
    BY DEF Init
<1>2. listed \in [ListNames -> SUBSET Packages] /\ \A l \in ListNames : listed[l] = {}
    BY DEF Init
<1>3. ops \in 0..MaxOps /\ faults \in 0..MaxFaults
    BY DEF Init
<1>4. /\ installed \subseteq Packages /\ filed \subseteq ListNames
      /\ replaced \subseteq Packages \ installed /\ torn \subseteq filed
    BY DEF Init
<1>5. /\ kind \in {"install", "remove", "upgrade"} /\ error \in BOOLEAN
      /\ phase \in {"idle", "confirm", "packages", "hooks", "copy", "delete"}
      /\ exit \in {"none", "ok", "failed"}
    BY DEF Init
<1> QED
    BY <1>1, <1>2, <1>3, <1>4, <1>5 DEF TypeOK

LEMMA BeginTypeOK ==
    ASSUME TypeOK, NEW k \in {"install", "remove", "upgrade"}, NEW r \in Seq(ListFile),
           NEW S \in SUBSET Packages, Begin(k, r, SortUnique[S])
    PROVE  TypeOK'
<1>1. /\ request' \in Seq(ListFile) /\ files' \in Seq(ListFile) /\ todo' \in Seq(Packages)
      /\ kind' \in {"install", "remove", "upgrade"}
    BY SortUniqueType DEF Begin
<1>2. ops' \in 0..MaxOps
    BY DEF Begin, TypeOK
<1>3. /\ error' = FALSE /\ phase' = "confirm" /\ exit' = "none"
      /\ UNCHANGED <<installed, filed, listed, replaced, torn, faults>>
    BY DEF Begin
<1> QED
    BY <1>1, <1>2, <1>3 DEF TypeOK

LEMMA StartTypeOK ==
    ASSUME TypeOK,
           \/ \E k \in {"install", "upgrade"}, r \in RepoRequests : StartFromRepo(k, r)
           \/ \E names \in InstRequests : StartRemove(names)
    PROVE  TypeOK'
<1>1. ASSUME NEW k \in {"install", "upgrade"}, NEW r \in RepoRequests, StartFromRepo(k, r)
      PROVE  TypeOK'
  <2>1. r \in Seq(ListFile)
    <3>1. r \in Seq(RepoFiles)
        OBVIOUS
    <3> QED
        BY <3>1
  <2>2. Contents(r) \in SUBSET Packages
      BY <2>1, RequestType
  <2> QED
      BY <1>1, <2>1, <2>2, BeginTypeOK DEF StartFromRepo
<1>2. ASSUME NEW names \in InstRequests, StartRemove(names)
      PROVE  TypeOK'
  <2>1. names \in Seq(ListNames)
      OBVIOUS
  <2>2. Begin("remove", ReadFiles(names), SortUnique[Unused(names)])
      BY <1>2 DEF StartRemove, ReadFiles, Unused
  <2> QED
      BY <2>1, <2>2, ReadFilesType, BeginTypeOK
<1> QED
    BY <1>1, <1>2

LEMMA QuietTypeOK ==
    ASSUME TypeOK, Confirm \/ Cancel \/ PackagesEnd \/ Hooks
                   \/ CopyEnds \/ DeleteEnds \/ Crash
    PROVE  TypeOK'
<1>1. CASE Confirm \/ Cancel
    BY <1>1 DEF Confirm, Cancel, Fails, TypeOK
<1>2. CASE PackagesEnd \/ Hooks
    BY <1>2 DEF PackagesEnd, Hooks, Fails, TypeOK
<1>3. CASE CopyEnds \/ DeleteEnds
    BY <1>3 DEF CopyEnds, DeleteEnds, Fails, TypeOK
<1>4. CASE Crash
    BY <1>4 DEF Crash, Fails, Leaving, TypeOK
<1> QED
    BY <1>1, <1>2, <1>3, <1>4

LEMMA PackageTypeOK ==
    ASSUME TypeOK,
           \/ InstallSkips \/ InstallNext \/ RemoveNext
           \/ UpgradeInstalls \/ UpgradeFails \/ UpgradeRetires \/ UpgradeNext
    PROVE  TypeOK'
<1>1. todo \in Seq(Packages) /\ todo # <<>>
    BY DEF InstallSkips, InstallNext, RemoveNext, UpgradeInstalls, UpgradeFails,
           UpgradeRetires, UpgradeNext, AtPackage, TypeOK
<1>2. Head(todo) \in Packages /\ Tail(todo) \in Seq(Packages)
    BY <1>1, ElementsHeadTail
<1>3. CASE InstallSkips \/ InstallNext
    BY <1>2, <1>3 DEF InstallSkips, InstallNext, InstallFails, NextPackage, Installs,
       NoteError, TypeOK
<1>4. CASE RemoveNext
    BY <1>2, <1>4 DEF RemoveNext, NextPackage, TypeOK
<1>5. CASE UpgradeInstalls \/ UpgradeFails
    BY <1>2, <1>5 DEF UpgradeInstalls, UpgradeFails, InstallFails, Installs, Fails, TypeOK
<1>6. CASE UpgradeNext
    BY <1>2, <1>6 DEF UpgradeNext, NextPackage, TypeOK
<1>7. CASE UpgradeRetires
  <2>1. PICK q \in Superseded(Head(todo)) :
            installed' = installed \ {q} /\ replaced' = replaced \cup {q}
      BY <1>7 DEF UpgradeRetires
  <2>2. q \in installed
      BY DEF Superseded
  <2> QED
      BY <1>7, <2>1, <2>2 DEF UpgradeRetires, TypeOK
<1> QED
    BY <1>3, <1>4, <1>5, <1>6, <1>7

LEMMA DirectTypeOK ==
    ASSUME TypeOK, NEW p \in Packages, DirectInstall(p) \/ DirectRemove(p)
    PROVE  TypeOK'
BY DEF DirectInstall, DirectRemove, Installs, TypeOK

LEMMA FilesTypeOK ==
    ASSUME TypeOK, CopyList \/ CopyFails \/ DeleteList
    PROVE  TypeOK'
<1>1. files \in Seq(ListFile) /\ files # <<>>
    BY DEF CopyList, CopyFails, DeleteList, TypeOK
<1>2. Head(files) \in ListFile /\ Tail(files) \in Seq(ListFile)
    BY <1>1, ElementsHeadTail
<1>3. Head(files).list \in ListNames /\ Head(files).packages \subseteq Packages
    BY <1>2 DEF ListFile
<1>4. CASE CopyList
    BY <1>2, <1>3, <1>4 DEF CopyList, FileUnderName, TypeOK
<1>5. CASE DeleteList
  <2>1. CASE Head(files).list \in filed
    <3> DEFINE n == Head(files).list
    <3>1. filed' = filed \ {n} /\ torn' = torn \ {n} /\ listed' = [listed EXCEPT ![n] = {}]
        BY <1>5, <2>1 DEF DeleteList
    <3>2. /\ files' = Tail(files)
          /\ UNCHANGED <<installed, kind, request, todo, error, phase, exit, replaced, ops, faults>>
        BY <1>5, <2>1 DEF DeleteList
    <3> HIDE DEF n
    <3>3. listed' \in [ListNames -> SUBSET Packages]
        BY <3>1 DEF TypeOK
    <3>4. \A l \in ListNames : l \notin filed' => listed'[l] = {}
        BY <3>1 DEF TypeOK
    <3> QED
        BY <1>2, <3>1, <3>2, <3>3, <3>4 DEF TypeOK
  <2>2. CASE Head(files).list \notin filed
      BY <1>5, <2>2 DEF DeleteList, Fails, Leaving, TypeOK
  <2> QED
      BY <2>1, <2>2
<1>6. CASE CopyFails
  <2>1. CASE UNCHANGED <<filed, listed, torn>>
      BY <1>6, <2>1 DEF CopyFails, Fails, TypeOK
  <2>2. CASE /\ \E part \in SUBSET Head(files).packages :
                   FileUnderName([Head(files) EXCEPT !.packages = part])
             /\ torn' = torn \ {Head(files).list}
    <3> DEFINE n == Head(files).list
    <3>1. PICK part \in SUBSET Head(files).packages :
              FileUnderName([Head(files) EXCEPT !.packages = part])
        BY <2>2
    <3>2. /\ filed' = filed \cup {n} /\ torn' = torn \ {n} /\ n \in ListNames
          /\ part \in SUBSET Packages /\ listed' = [listed EXCEPT ![n] = part]
        BY <1>2, <1>3, <2>2, <3>1 DEF FileUnderName, ListFile
    <3> HIDE DEF n
    <3>3. listed' \in [ListNames -> SUBSET Packages]
        BY <3>2 DEF TypeOK
    <3>4. \A l \in ListNames : l \notin filed' => listed'[l] = {}
        BY <3>2 DEF TypeOK
    <3> QED
        BY <1>6, <3>2, <3>3, <3>4 DEF CopyFails, Fails, TypeOK
  <2> QED
      BY <1>6, <2>1, <2>2 DEF CopyFails
<1> QED
    BY <1>4, <1>5, <1>6

LEMMA NextTypeOK == TypeOK /\ [Next]_vars => TypeOK'
<1> SUFFICES ASSUME TypeOK, [Next]_vars PROVE TypeOK'
    OBVIOUS
<1>1. CASE UNCHANGED vars
    BY <1>1 DEF vars, TypeOK
<1> QED
    BY <1>1, StartTypeOK, QuietTypeOK, PackageTypeOK, DirectTypeOK, FilesTypeOK
    DEF Next, Step, Environment

\* The variables of the list commands have their types, for every instance.
THEOREM TypeOKHolds == Spec => []TypeOK
BY InitTypeOK, NextTypeOK, PTL DEF Spec

-------------------------------------------------------------------------------
\* How far a command has come

Working == phase \in {"confirm", "packages"}

\* An upgrade may take away what it has installed before.
Had == IF kind = "install" THEN installed ELSE installed \cup replaced

\* What an install or upgrade does not have yet is still to do.
Filling ==
    kind # "remove" /\ Working /\ ~error
    => Contents(request) \subseteq Had \cup Elements(todo)

Filled ==
    kind # "remove" /\ phase \in {"hooks", "copy"}
    => Contents(request) \subseteq Had

\* The file of a list is one that the request has under this name.
Whole(l) == l \in filed /\ \E f \in Elements(request) : f.list = l /\ listed[l] = f.packages

\* The files an install has not copied whole are still to copy.
Copying ==
    kind = "install" /\ phase # "idle"
    => \A l \in Named(request) : l \in Named(files) \/ Whole(l)

\* What a removal has still to take is in no other list.
Sparing ==
    kind = "remove" /\ Working
    => \A l \in filed \ Named(request) : listed[l] \cap Elements(todo) = {}

\* What a removal does not take, another list has the name of.
Emptying ==
    kind = "remove" /\ Working
    => \A p \in Contents(request) \cap installed : p \in Elements(todo) \/ Used(p, request)

Emptied ==
    kind = "remove" /\ phase \in {"hooks", "delete"}
    => \A p \in Contents(request) \cap installed : Used(p, request)

\* The list files still to copy or to delete.
Filing ==
    /\ phase # "idle" => Elements(files) \subseteq Elements(request)
    /\ kind = "remove" /\ phase # "idle" => Named(request) \cap filed \subseteq Named(files)
    /\ phase = "copy" => kind # "remove"
    /\ phase = "delete" => kind # "install"
    /\ error => kind = "install"

Progress == Filling /\ Filled /\ Copying /\ Sparing /\ Emptying /\ Emptied /\ Filing

Inv == Progress /\ ListedInstalled /\ RemovalComplete /\ InstallComplete

LEMMA InitInv == Init => Inv
BY DEF Init, Inv, Progress, Filling, Filled, Copying, Had, Whole, Sparing, Emptying, Emptied,
       Filing, Working, ListedInstalled, RemovalComplete, InstallComplete

\* Nothing is running and the last exit status is not "ok".
LEMMA StoppedInv ==
    ASSUME phase' = "idle", exit' # "ok", ListedInstalled', error' => kind' = "install"
    PROVE  Inv'
BY DEF Inv, Progress, Filling, Filled, Copying, Had, Whole, Sparing, Emptying, Emptied, Filing,
       Working, RemovalComplete, InstallComplete

LEMMA StartRepoInv ==
    ASSUME TypeOK, Inv, NEW k \in {"install", "upgrade"}, NEW r \in RepoRequests,
           StartFromRepo(k, r)
    PROVE  Inv'
<1>1. r \in Seq(ListFile)
  <2>1. r \in Seq(RepoFiles)
      OBVIOUS
  <2> QED
      BY <2>1
<1>2. Elements(SortUnique[Contents(r)]) = Contents(r)
    BY <1>1, RequestType, SortUniqueType
<1>3. /\ kind' = k /\ request' = r /\ todo' = SortUnique[Contents(r)] /\ files' = r
      /\ error' = FALSE /\ phase' = "confirm" /\ exit' = "none" /\ phase = "idle"
      /\ UNCHANGED <<installed, filed, listed, replaced, torn>>
    BY DEF StartFromRepo, Begin
<1>4. ListedInstalled'
    BY <1>3 DEF Inv, ListedInstalled, Leaving
<1>5. Progress'
    BY <1>2, <1>3
    DEF Progress, Filling, Filled, Copying, Had, Whole, Sparing, Emptying, Emptied, Filing,
        Working
<1> QED
    BY <1>3, <1>4, <1>5 DEF Inv, RemovalComplete, InstallComplete

LEMMA StartRemoveInv ==
    ASSUME TypeOK, Inv, NEW names \in InstRequests, StartRemove(names)
    PROVE  Inv'
<1> DEFINE r == ReadFiles(names)
<1>1. r \in Seq(ListFile) /\ Unused(names) \in SUBSET Packages
  <2>1. names \in Seq(ListNames)
      OBVIOUS
  <2> QED
      BY <2>1, ReadFilesType
<1>2. Elements(SortUnique[Unused(names)]) = Unused(names)
    BY <1>1, SortUniqueType
<1>3. /\ kind' = "remove" /\ request' = r /\ todo' = SortUnique[Unused(names)] /\ files' = r
      /\ error' = FALSE /\ phase' = "confirm" /\ exit' = "none" /\ phase = "idle"
      /\ UNCHANGED <<installed, filed, listed, replaced, torn>>
    BY DEF StartRemove, Begin, ReadFiles, Unused
<1>4. ListedInstalled'
    BY <1>3 DEF Inv, ListedInstalled, Leaving
<1>5. \A p \in Unused(names) : \A l \in filed \ Named(r) : p \notin listed[l]
    BY <1>1 DEF Unused, Used
<1>6. \A p \in Contents(r) : p \in Unused(names) \/ Used(p, r)
    BY DEF Unused
<1> HIDE DEF r
<1>7. \A p : Used(p, request)' <=> Used(p, r)
    BY <1>3 DEF Used
<1>8. Progress'
    BY <1>2, <1>3, <1>5, <1>6, <1>7
    DEF Progress, Filling, Filled, Copying, Had, Whole, Sparing, Emptying, Emptied, Filing,
        Working
<1> QED
    BY <1>3, <1>4, <1>8 DEF Inv, RemovalComplete, InstallComplete

LEMMA DirectInv ==
    ASSUME TypeOK, Inv, NEW p \in Packages, DirectInstall(p) \/ DirectRemove(p)
    PROVE  Inv'
<1>1. phase' = "idle" /\ exit' # "ok" /\ error' = error /\ kind' = kind
    BY DEF DirectInstall, DirectRemove
<1>2. installed \cup replaced \subseteq installed' \cup replaced'
    BY DEF DirectInstall, DirectRemove, Installs
<1>3. UNCHANGED <<filed, listed, torn>> /\ phase = "idle"
    BY DEF DirectInstall, DirectRemove
<1>4. ListedInstalled'
    BY <1>1, <1>2, <1>3 DEF Inv, ListedInstalled, Leaving
<1> QED
    BY <1>1, <1>4, StoppedInv DEF Inv, Progress, Filing

LEMMA StopInv ==
    ASSUME TypeOK, Inv, Cancel \/ UpgradeFails \/ Crash
    PROVE  Inv'
<1>1. /\ phase' = "idle" /\ exit' # "ok"
      /\ UNCHANGED <<filed, listed, error, kind, request>>
      /\ installed \cup replaced \subseteq installed' \cup replaced'
    BY DEF Cancel, UpgradeFails, InstallFails, Installs, Crash, Fails
<1>2. Leaving' = {}
    BY <1>1 DEF Leaving
<1>3. filed \cap Leaving \subseteq torn'
    BY DEF Cancel, UpgradeFails, Crash, AtPackage, Leaving, Inv, Progress, Filing
<1>4. torn \subseteq torn'
    BY DEF Cancel, UpgradeFails, Crash
<1>5. ListedInstalled'
    BY <1>1, <1>2, <1>3, <1>4 DEF Inv, ListedInstalled
<1> QED
    BY <1>1, <1>5, StoppedInv DEF Inv, Progress, Filing

LEMMA ConfirmInv == ASSUME TypeOK, Inv, Confirm PROVE Inv'
<1>1. /\ phase = "confirm" /\ phase' = "packages"
      /\ UNCHANGED <<installed, filed, listed, kind, request, todo, files, error, exit,
                     replaced, torn>>
    BY DEF Confirm
<1>2. ListedInstalled'
    BY <1>1 DEF Inv, ListedInstalled, Leaving
<1>3. Progress'
    BY <1>1
    DEF Inv, Progress, Filling, Filled, Copying, Had, Whole, Sparing, Emptying, Emptied, Filing,
        Working, Used
<1> QED
    BY <1>1, <1>2, <1>3 DEF Inv, RemovalComplete, InstallComplete

\* The steps of package-install.sh and package-upgrade.sh: what leaves "todo"
\* is installed, or was replaced, or the error is noted.
LEMMA FillingInv ==
    ASSUME TypeOK, Inv,
           InstallSkips \/ InstallNext \/ UpgradeInstalls \/ UpgradeRetires \/ UpgradeNext
    PROVE  Inv'
<1>1. /\ phase = "packages" /\ phase' = "packages"
      /\ kind # "remove" /\ todo # <<>>
      /\ UNCHANGED <<filed, listed, kind, request, files, torn>>
    BY DEF InstallSkips, InstallNext, UpgradeInstalls, UpgradeRetires, UpgradeNext, AtPackage
<1>2. Elements(todo) = {Head(todo)} \cup Elements(Tail(todo))
    BY <1>1, ElementsHeadTail DEF TypeOK
<1>3. installed \cup replaced \subseteq installed' \cup replaced' /\ Had \subseteq Had'
    BY DEF InstallSkips, InstallNext, InstallFails, UpgradeInstalls, UpgradeRetires,
           UpgradeNext, Installs, AtPackage, Had
<1>4. error' => kind' = "install"
    BY <1>1 DEF Inv, Progress, Filing, InstallSkips, InstallNext, UpgradeInstalls,
                UpgradeRetires, UpgradeNext, AtPackage
<1>5. ListedInstalled'
    BY <1>1, <1>3 DEF Inv, ListedInstalled, Leaving
<1>6. Filling'
  <2> SUFFICES ASSUME ~error' PROVE Contents(request) \subseteq Had' \cup Elements(todo')
      BY <1>1 DEF Filling
  <2>1. ~error
      BY DEF InstallSkips, InstallNext, NoteError, UpgradeInstalls, UpgradeRetires, UpgradeNext
  <2>2. Contents(request) \subseteq Had \cup Elements(todo)
      BY <1>1, <2>1 DEF Inv, Progress, Filling, Working
  <2>3. \/ todo' = todo
        \/ todo' = Tail(todo) /\ Head(todo) \in installed'
      BY DEF InstallSkips, InstallNext, NoteError, Installs, NextPackage, UpgradeInstalls,
             UpgradeRetires, UpgradeNext
  <2> QED
      BY <1>1, <1>2, <1>3, <2>2, <2>3 DEF Had
<1>7. Copying'
    BY <1>1 DEF Inv, Progress, Copying, Whole
<1>8. Filing'
    BY <1>1, <1>4 DEF Inv, Progress, Filing
<1> QED
    BY <1>1, <1>5, <1>6, <1>7, <1>8
    DEF Inv, Progress, Filled, Sparing, Emptying, Emptied, RemovalComplete, InstallComplete

LEMMA RemoveNextInv == ASSUME TypeOK, Inv, RemoveNext PROVE Inv'
<1> DEFINE p == Head(todo)
<1>1. /\ phase = "packages" /\ phase' = "packages" /\ kind = "remove" /\ todo # <<>>
      /\ todo' = Tail(todo) /\ installed' = installed \ {p}
      /\ UNCHANGED <<filed, listed, kind, request, files, error, torn, replaced>>
    BY DEF RemoveNext, AtPackage, NextPackage
<1>2. Elements(todo) = {p} \cup Elements(todo')
    BY <1>1, ElementsHeadTail DEF TypeOK
<1>3. \A l \in filed \ Named(request) : listed[l] \cap Elements(todo) = {}
    BY <1>1 DEF Inv, Progress, Sparing, Working
<1>4. Leaving = Named(request) /\ Leaving' = Named(request)
    BY <1>1 DEF Leaving
<1>5. ListedInstalled'
    BY <1>1, <1>2, <1>3, <1>4 DEF Inv, ListedInstalled
<1>6. \A x : Used(x, request)' <=> Used(x, request)
    BY <1>1 DEF Used
<1>7. Emptying'
    BY <1>1, <1>2, <1>6 DEF Inv, Progress, Emptying, Working
<1>8. Sparing'
    BY <1>1, <1>2, <1>3 DEF Sparing
<1> QED
    BY <1>1, <1>5, <1>7, <1>8
    DEF Inv, Progress, Filling, Filled, Copying, Had, Whole, Emptied, Filing, RemovalComplete,
        InstallComplete

LEMMA PackagesEndInv == ASSUME TypeOK, Inv, PackagesEnd PROVE Inv'
<1>1. /\ phase = "packages" /\ Elements(todo) = {}
      /\ UNCHANGED <<installed, filed, listed, kind, request, todo, files, error, replaced, torn>>
    BY ElementsEmpty DEF PackagesEnd
<1>2. CASE kind = "install" /\ error
  <2>1. phase' = "idle" /\ exit' # "ok"
      BY <1>2 DEF PackagesEnd, Fails
  <2>2. ListedInstalled'
      BY <1>1, <1>2, <2>1 DEF Inv, ListedInstalled, Leaving
  <2> QED
      BY <1>1, <2>1, <2>2, StoppedInv DEF Inv, Progress, Filing
<1>3. CASE ~(kind = "install" /\ error)
  <2>1. phase' = "hooks" /\ ~error
      BY <1>3 DEF PackagesEnd, Inv, Progress, Filing
  <2>2. ListedInstalled'
      BY <1>1, <2>1 DEF Inv, ListedInstalled, Leaving
  <2>3. Filled'
      BY <1>1, <2>1 DEF Inv, Progress, Filling, Filled, Had, Working
  <2>4. Emptied'
      BY <1>1, <2>1 DEF Inv, Progress, Emptying, Emptied, Working, Used
  <2> QED
      BY <1>1, <2>1, <2>2, <2>3, <2>4
      DEF Inv, Progress, Filling, Copying, Had, Whole, Sparing, Emptying, Filing, Working,
          RemovalComplete, InstallComplete
<1> QED
    BY <1>2, <1>3

LEMMA HooksInv == ASSUME TypeOK, Inv, Hooks PROVE Inv'
<1>1. /\ phase = "hooks"
      /\ UNCHANGED <<installed, filed, listed, kind, request, todo, files, error, replaced, torn>>
    BY DEF Hooks
<1>2. CASE phase' = "idle"
  <2>1. exit' # "ok" /\ kind = "install"
      BY <1>2 DEF Hooks, Fails
  <2>2. ListedInstalled'
      BY <1>1, <2>1 DEF Inv, ListedInstalled, Leaving
  <2> QED
      BY <1>1, <1>2, <2>1, <2>2, StoppedInv DEF Inv, Progress, Filing
<1>3. CASE phase' = IF kind = "remove" THEN "delete" ELSE "copy"
  <2>1. ListedInstalled'
      BY <1>1, <1>3 DEF Inv, ListedInstalled, Leaving
  <2>2. Emptied' /\ Filled'
      BY <1>1, <1>3 DEF Inv, Progress, Emptied, Filled, Had, Used
  <2> QED
      BY <1>1, <1>3, <2>1, <2>2
      DEF Inv, Progress, Filling, Copying, Had, Whole, Sparing, Emptying, Filing, Working,
          RemovalComplete, InstallComplete
<1> QED
    BY <1>2, <1>3 DEF Hooks, Fails

LEMMA CopyListInv == ASSUME TypeOK, Inv, CopyList PROVE Inv'
<1> DEFINE f == Head(files)
<1>1. /\ phase = "copy" /\ phase' = "copy" /\ files # <<>> /\ files' = Tail(files)
      /\ filed' = filed \cup {f.list} /\ torn' = torn \ {f.list}
      /\ listed' = [listed EXCEPT ![f.list] = f.packages]
      /\ UNCHANGED <<installed, kind, request, todo, error, replaced>>
    BY DEF CopyList, FileUnderName
<1>2. kind # "remove"
    BY <1>1 DEF Inv, Progress, Filing
<1>3. f \in ListFile /\ Elements(files) = {f} \cup Elements(files')
    BY <1>1, ElementsHeadTail DEF TypeOK
<1>4. f.packages \subseteq installed \cup replaced
  <2>1. f \in Elements(request)
      BY <1>1, <1>3 DEF Inv, Progress, Filing
  <2>2. f.packages \subseteq Contents(request)
      BY <2>1 DEF Contents
  <2> QED
      BY <1>1, <1>2, <2>2 DEF Inv, Progress, Filled, Had
<1>5. ListedInstalled'
  <2> SUFFICES ASSUME NEW l \in filed', l \notin torn'
               PROVE  listed'[l] \subseteq installed \cup replaced
      BY <1>1 DEF ListedInstalled
  <2>1. l \in ListNames
      BY <1>1, <1>3 DEF TypeOK, ListFile
  <2>2. CASE l = f.list
      BY <1>1, <1>4, <2>1, <2>2 DEF TypeOK
  <2>3. CASE l # f.list
      BY <1>1, <1>2, <2>1, <2>3 DEF TypeOK, Inv, ListedInstalled, Leaving
  <2> QED
      BY <2>2, <2>3
<1>6. Filled'
    BY <1>1 DEF Inv, Progress, Filled, Had
<1>7. Filing'
    BY <1>1, <1>2, <1>3 DEF Inv, Progress, Filing
<1>8. Copying'
  <2> SUFFICES ASSUME kind = "install", NEW l \in Named(request), l \notin Named(files')
               PROVE  Whole(l)'
      BY <1>1 DEF Copying
  <2>1. CASE l = f.list
    <3>1. f \in Elements(request) /\ l \in ListNames
        BY <1>1, <1>3, <2>1 DEF Inv, Progress, Filing, ListFile
    <3> QED
        BY <1>1, <2>1, <3>1 DEF Whole, TypeOK
  <2>2. CASE l # f.list
    <3>1. Whole(l) /\ l \in filed
        BY <1>1, <1>3, <2>2 DEF Inv, Progress, Copying, Named, Whole
    <3> QED
        BY <1>1, <2>2, <3>1 DEF Whole, TypeOK
  <2> QED
      BY <2>1, <2>2
<1> QED
    BY <1>1, <1>2, <1>5, <1>6, <1>7, <1>8
    DEF Inv, Progress, Filling, Copying, Had, Whole, Sparing, Emptying, Emptied, Working,
        RemovalComplete, InstallComplete

\* The list file that is cut short is one whose packages are installed.
LEMMA CopyFailsInv == ASSUME TypeOK, Inv, CopyFails PROVE Inv'
<1> DEFINE f == Head(files)
<1>1. /\ phase = "copy" /\ files # <<>> /\ phase' = "idle" /\ exit' # "ok"
      /\ UNCHANGED <<installed, kind, request, error, replaced>>
    BY DEF CopyFails, Fails
<1>2. kind # "remove"
    BY <1>1 DEF Inv, Progress, Filing
<1>3. Leaving = {} /\ Leaving' = {}
    BY <1>1, <1>2 DEF Leaving
<1>4. f \in ListFile /\ f \in Elements(files)
    BY <1>1, ElementsHeadTail DEF TypeOK
<1>5. f.packages \subseteq installed \cup replaced
  <2>1. f.packages \subseteq Contents(request)
      BY <1>1, <1>4 DEF Inv, Progress, Filing, Contents
  <2> QED
      BY <1>1, <1>2, <2>1 DEF Inv, Progress, Filled, Had
<1>6. CASE UNCHANGED <<filed, listed, torn>>
  <2>1. ListedInstalled'
      BY <1>1, <1>3, <1>6 DEF Inv, ListedInstalled
  <2> QED
      BY <1>1, <2>1, StoppedInv DEF Inv, Progress, Filing
<1>7. ASSUME NEW part \in SUBSET f.packages, FileUnderName([f EXCEPT !.packages = part]),
             torn' = torn \ {f.list}
      PROVE  Inv'
  <2>1. filed' = filed \cup {f.list} /\ listed' = [listed EXCEPT ![f.list] = part]
      BY <1>4, <1>7 DEF FileUnderName, ListFile
  <2>2. ASSUME NEW l \in filed', l \notin torn' PROVE listed'[l] \subseteq installed \cup replaced
    <3>1. l \in ListNames
        BY <1>4, <2>1, <2>2 DEF TypeOK, ListFile
    <3>2. CASE l = f.list
        BY <1>5, <2>1, <3>1, <3>2 DEF TypeOK
    <3>3. CASE l # f.list
        BY <1>3, <1>7, <2>1, <2>2, <3>1, <3>3 DEF TypeOK, Inv, ListedInstalled
    <3> QED
        BY <3>2, <3>3
  <2>3. ListedInstalled'
      BY <1>1, <2>2 DEF ListedInstalled
  <2> QED
      BY <1>1, <2>3, StoppedInv DEF Inv, Progress, Filing
<1> QED
    BY <1>6, <1>7 DEF CopyFails

LEMMA CopyEndsInv == ASSUME TypeOK, Inv, CopyEnds PROVE Inv'
<1>1. /\ phase = "copy" /\ phase' = IF kind = "upgrade" THEN "delete" ELSE "idle"
      /\ phase' = "delete" => files' = request
      /\ files = <<>>
      /\ UNCHANGED <<installed, filed, listed, kind, request, todo, error, replaced, torn>>
    BY DEF CopyEnds
<1>2. kind # "remove"
    BY <1>1 DEF Inv, Progress, Filing
<1>3. ListedInstalled'
    BY <1>1, <1>2 DEF Inv, ListedInstalled, Leaving
<1>4. InstallComplete'
  <2> SUFFICES ASSUME kind = "install"
               PROVE  Contents(request) \subseteq installed /\ \A l \in Named(request) : Whole(l)
      BY <1>1 DEF InstallComplete, Whole
  <2>1. Named(files) = {}
      BY <1>1, ElementsEmpty DEF Named
  <2> QED
      BY <1>1, <2>1 DEF Inv, Progress, Filled, Had, Copying
<1>5. Progress'
  <2>1. kind \in {"install", "remove", "upgrade"}
      BY DEF TypeOK
  <2> QED
      BY <1>1, <1>2, <2>1
      DEF Inv, Progress, Filling, Filled, Copying, Sparing, Emptying, Emptied, Filing, Working
<1> QED
    BY <1>1, <1>2, <1>3, <1>4, <1>5 DEF Inv, RemovalComplete

LEMMA DeleteListInv == ASSUME TypeOK, Inv, DeleteList PROVE Inv'
<1> DEFINE n == Head(files).list
<1>1. /\ phase = "delete" /\ files # <<>>
      /\ UNCHANGED <<installed, kind, request, todo, error, replaced>>
    BY DEF DeleteList
<1>2. CASE n \in filed
  <2>1. /\ filed' = filed \ {n} /\ torn' = torn \ {n} /\ files' = Tail(files)
        /\ listed' = [listed EXCEPT ![n] = {}] /\ phase' = phase /\ exit' = exit
      BY <1>2 DEF DeleteList
  <2>2. Elements(files) = {Head(files)} \cup Elements(files') /\ Head(files) \in ListFile
      BY <1>1, <2>1, ElementsHeadTail DEF TypeOK
  <2>3. n \in Named(request) /\ Named(files) = {n} \cup Named(files')
    <3>1. Head(files) \in Elements(request)
        BY <1>1, <2>2 DEF Inv, Progress, Filing
    <3> QED
        BY <2>2, <3>1 DEF Named
  <2>4. \A l \in filed' : l \in filed /\ listed'[l] = listed[l]
      BY <2>1 DEF TypeOK
  <2>5. ListedInstalled'
      BY <1>1, <2>1, <2>4 DEF Inv, ListedInstalled, Leaving
  <2>6. \A p : Used(p, request) => Used(p, request)'
      BY <1>1, <2>1, <2>3, <2>4 DEF Used
  <2>7. Emptied'
      BY <1>1, <2>1, <2>6 DEF Inv, Progress, Emptied
  <2>8. Filing'
      BY <1>1, <2>1, <2>2, <2>3 DEF Inv, Progress, Filing
  <2>9. kind # "install"
      BY <1>1 DEF Inv, Progress, Filing
  <2> QED
      BY <1>1, <2>1, <2>5, <2>7, <2>8, <2>9
      DEF Inv, Progress, Filling, Filled, Copying, Sparing, Emptying, Working, RemovalComplete,
          InstallComplete
<1>3. CASE n \notin filed
  <2>1. /\ filed' = filed /\ listed' = listed /\ torn' = torn \cup (Leaving \cap filed)
        /\ phase' = "idle" /\ exit' # "ok"
      BY <1>3 DEF DeleteList, Fails
  <2>2. ListedInstalled'
      BY <1>1, <2>1 DEF Inv, ListedInstalled, Leaving
  <2> QED
      BY <1>1, <2>1, <2>2, StoppedInv DEF Inv, Progress, Filing
<1> QED
    BY <1>2, <1>3

LEMMA DeleteEndsInv == ASSUME TypeOK, Inv, DeleteEnds PROVE Inv'
<1>1. /\ phase = "delete" /\ phase' = "idle" /\ files = <<>>
      /\ UNCHANGED <<installed, filed, listed, kind, request, todo, files, error, replaced, torn>>
    BY DEF DeleteEnds
<1>2. kind = "remove" => Named(request) \cap filed = {}
  <2>1. Named(files) = {}
      BY <1>1, ElementsEmpty DEF Named
  <2> QED
      BY <1>1, <2>1 DEF Inv, Progress, Filing
<1>3. ListedInstalled'
    BY <1>1, <1>2 DEF Inv, ListedInstalled, Leaving
<1>4. RemovalComplete'
  <2>1. kind = "remove" => \A p \in Contents(request) \cap installed : Used(p, request)
      BY <1>1 DEF Inv, Progress, Emptied
  <2> QED
      BY <1>1, <1>2, <2>1 DEF RemovalComplete, Used
<1>5. kind # "install"
    BY <1>1 DEF Inv, Progress, Filing
<1> QED
    BY <1>1, <1>3, <1>4, <1>5
    DEF Inv, Progress, Filling, Filled, Copying, Sparing, Emptying, Emptied, Filing, Working,
        InstallComplete

LEMMA NextInv == TypeOK /\ Inv /\ [Next]_vars => Inv'
<1> SUFFICES ASSUME TypeOK, Inv, [Next]_vars PROVE Inv'
    OBVIOUS
<1>1. CASE UNCHANGED vars
  <2>1. \A p : Used(p, request)' <=> Used(p, request)
      BY <1>1 DEF vars, Used
  <2> QED
      BY <1>1, <2>1
      DEF vars, Inv, Progress, Filling, Filled, Copying, Had, Whole, Sparing, Emptying, Emptied,
          Filing, Working, ListedInstalled, RemovalComplete, InstallComplete, Leaving
<1> QED
    BY <1>1, StartRepoInv, StartRemoveInv, DirectInv, StopInv, ConfirmInv, FillingInv,
       RemoveNextInv, PackagesEndInv, HooksInv, CopyListInv, CopyFailsInv, CopyEndsInv,
       DeleteListInv, DeleteEndsInv
    DEF Next, Step, Environment

LEMMA InvHolds == Spec => []Inv
BY InitInv, NextInv, TypeOKHolds, PTL DEF Spec

\* An installed list file means installed packages, for every instance:
\* whatever the lists share and whichever command failed or was killed.
THEOREM ListedInstalledHolds == Spec => []ListedInstalled
<1>1. Inv => ListedInstalled
    BY DEF Inv
<1> QED
    BY <1>1, InvHolds, PTL

\* A removal that reports success has removed the list files and what no other
\* list has the name of, for every instance.
THEOREM RemovalCompleteHolds == Spec => []RemovalComplete
<1>1. Inv => RemovalComplete
    BY DEF Inv
<1> QED
    BY <1>1, InvHolds, PTL

\* An install that reports success has its packages installed and its list
\* files copied whole, for every instance.
THEOREM InstallCompleteHolds == Spec => []InstallComplete
<1>1. Inv => InstallComplete
    BY DEF Inv
<1> QED
    BY <1>1, InvHolds, PTL
=============================================================================
