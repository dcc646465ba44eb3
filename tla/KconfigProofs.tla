----------------------------- MODULE KconfigProofs -----------------------------
(***************************************************************************)
(* Proofs about ConfigFiles, MenuList, JumpTo and Menuconfig, the parts of *)
(* kconfiglib and menuconfig that do not depend on how values are          *)
(* evaluated.                                                              *)
(*                                                                         *)
(* For any symbols and values: a build is told of all that changed, and a  *)
(* killed save leaves a whole file.  For every terminal and every scroll   *)
(* offset: the selected entry of the main display is on the screen, and so *)
(* is the selected match of the jump-to dialog, which exists.  The text    *)
(* cursor of the dialog stays in the edit box.                             *)
(*                                                                         *)
(* For any operators of the Kconfig object that NodesKnown and FilesKnown  *)
(* describe: the interface implements both displays, the list it shows is  *)
(* that of the menu it is in, and it knows of changes not saved.           *)
(***************************************************************************)
EXTENDS ConfigFiles, Menuconfig, SequenceTheorems, WellFoundedInduction, TLAPS

-------------------------------------------------------------------------------
\* The files of the build

\* auto.conf and the build know all symbols.
FilesType == DOMAIN auto = DOMAIN output /\ DOMAIN built = DOMAIN output

\* What is compiled against other values than those of auto.conf is touched,
\* also when sync_deps has failed since, or auto.conf lost its line.
Recorded ==
    /\ synced => \A s \in DOMAIN output : auto[s] = output[s]
    /\ \A s \in DOMAIN output : built[s] \in {Unbuilt, auto[s]} \/ s \in touched \cup lost

SyncInv == FilesType /\ Recorded

LEMMA SyncStep == ASSUME SyncInv, SyncFiles PROVE SyncInv'
<1>0. lost' = (lost \cup LostLines) \ touched'
    BY DEF SyncFiles
<1>1. UNCHANGED <<output, built>>
    BY DEF SyncFiles
<1>2. CASE touched' = touched \cup StaleSymbols /\ auto' = output /\ synced' = TRUE
  <2>1. ASSUME NEW s \in DOMAIN output
        PROVE  built[s] \in {Unbuilt, output[s]} \/ s \in touched' \cup lost'
      BY <1>0, <1>2 DEF StaleSymbols, SyncInv, Recorded
  <2> QED
      BY <1>1, <1>2, <2>1 DEF SyncInv, FilesType, Recorded
<1>3. CASE touched \subseteq touched' /\ auto' = auto /\ synced' = FALSE
    BY <1>0, <1>1, <1>3 DEF SyncInv, FilesType, Recorded
<1>4. CASE touched' = touched \cup StaleSymbols /\ TornAuto /\ synced' = FALSE
  <2>1. ASSUME NEW s \in DOMAIN output
        PROVE  built[s] \in {Unbuilt, auto'[s]} \/ s \in touched' \cup lost'
    <3>1. CASE s \in StaleSymbols
        BY <1>4, <3>1
    <3>2. CASE s \notin StaleSymbols /\ auto'[s] = output[s]
        BY <1>0, <1>4, <3>2 DEF StaleSymbols, SyncInv, Recorded
    <3>3. CASE s \notin StaleSymbols /\ auto'[s] # output[s]
        BY <1>0, <3>3 DEF StaleSymbols, LostLines
    <3> QED
        BY <3>1, <3>2, <3>3
  <2> QED
      BY <1>1, <1>4, <2>1 DEF TornAuto, SyncInv, FilesType, Recorded
<1> QED
    BY <1>2, <1>3, <1>4 DEF SyncFiles

LEMMA BuildStep == ASSUME SyncInv, BuildFiles PROVE SyncInv'
<1>1. /\ synced
      /\ UNCHANGED <<output, auto, synced, lost, save_vars>>
    BY DEF BuildFiles, BuildSome
<1>2. PICK some \in SUBSET touched :
        /\ built' = [s \in DOMAIN output |->
               IF s \in some \/ built[s] = Unbuilt THEN output[s] ELSE built[s]]
        /\ touched' = touched \ some
    BY DEF BuildFiles, BuildSome
<1>3. ASSUME NEW s \in DOMAIN output 
      PROVE  built'[s] \in {Unbuilt, auto[s]} \/ s \in touched' \cup lost
    BY <1>1, <1>2 DEF SyncInv, Recorded
<1> QED
    BY <1>1, <1>2, <1>3 DEF SyncInv, FilesType, Recorded

LEMMA SyncInvStep == SyncInv /\ [FilesNext]_files_vars => SyncInv'
<1> SUFFICES ASSUME SyncInv, [FilesNext]_files_vars PROVE SyncInv'
    OBVIOUS
<1>1. CASE ChangeValues
    BY <1>1 DEF ChangeValues, SyncInv, FilesType, Recorded
<1>2. CASE SaveFile
    BY <1>2 DEF SaveFile, sync_vars, SyncInv, FilesType, Recorded
<1>3. CASE SaveFileKilled
    BY <1>3 DEF SaveFileKilled, SyncInv, FilesType, Recorded
<1>4. CASE UNCHANGED files_vars
    BY <1>4 DEF files_vars, sync_vars, SyncInv, FilesType, Recorded
<1> QED
    BY <1>1, <1>2, <1>3, <1>4, SyncStep, BuildStep DEF FilesNext

\* The build is told what changed, whatever the values were and however often
\* sync_deps failed (kconfiglib.py: sync_deps, which writes auto.conf last),
\* but for the symbols whose lines were lost by a call killed as it wrote it.
THEOREM SyncTouchesHolds == FilesSpec => []SyncTouches
<1>1. FilesInit => SyncInv
    BY DEF FilesInit, SyncInv, FilesType, Recorded
<1>2. SyncInv => SyncTouches
    BY DEF SyncInv, Recorded, SyncTouches
<1> QED
    BY <1>1, <1>2, SyncInvStep, PTL DEF FilesSpec

\* No file is cut short before a save is killed.
SaveInv == crashes \in Nat /\ (crashes = 0 => config.state \in {"absent", "whole"})

LEMMA SaveInvStep == SaveInv /\ [FilesNext]_files_vars => SaveInv'
<1> SUFFICES ASSUME SaveInv, [FilesNext]_files_vars PROVE SaveInv'
    OBVIOUS
<1>1. CASE SaveFile
    BY <1>1 DEF SaveFile, SaveInv
<1>2. CASE SaveFileKilled
    BY <1>2 DEF SaveFileKilled, SaveInv
<1>3. CASE ChangeValues \/ SyncFiles \/ BuildFiles \/ UNCHANGED files_vars
    BY <1>3 DEF ChangeValues, SyncFiles, BuildFiles, files_vars, save_vars, SaveInv
<1> QED
    BY <1>1, <1>2, <1>3 DEF FilesNext

\* A whole file stays on the disk when one save is killed (kconfiglib.py:
\* write_config, which renames the file before it opens the new one).
THEOREM SaveSafeHolds == FilesSpec => SaveSafe
<1> DEFINE Step == crashes' <= 1 /\ "whole" \in {config.state, old.state}
                     => "whole" \in {config'.state, old'.state}
<1>1. FilesInit => SaveInv
    BY DEF FilesInit, SaveInv
<1>2. SaveInv /\ [FilesNext]_files_vars => [Step]_files_vars
  <2> SUFFICES ASSUME SaveInv, FilesNext, crashes' <= 1, "whole" \in {config.state, old.state}
               PROVE  "whole" \in {config'.state, old'.state}
      OBVIOUS
  <2>1. CASE SaveFile
      BY <2>1 DEF SaveFile
  <2>2. CASE SaveFileKilled
    <3>1. crashes = 0
        BY <2>2 DEF SaveFileKilled, SaveInv
    <3>2. config.state = "absent" \/ config.state = "whole"
        BY <3>1 DEF SaveInv
    <3> QED
        BY <2>2, <3>2 DEF SaveFileKilled, SavedOld
  <2>3. CASE ChangeValues \/ SyncFiles \/ BuildFiles
      BY <2>3 DEF ChangeValues, SyncFiles, BuildFiles, save_vars
  <2> QED
      BY <2>1, <2>2, <2>3 DEF FilesNext
<1> QED
    BY <1>1, <1>2, SaveInvStep, PTL DEF FilesSpec, SaveSafe

-------------------------------------------------------------------------------
\* The main display: what each step of the arithmetic does with an entry that
\* is on the screen

SelPlaces == [sel : Nat, scroll : Nat]

LEMMA WindowHeightPos ==
    ASSUME NEW size \in Screens, NEW used \in Nat
    PROVE  WindowHeight(size, used) \in Nat \ {0}
BY ScrollAssumption DEF ScrollAssumption, WindowHeight, Larger

LEMMA SelectNextOnScreen ==
    ASSUME NEW n \in Nat \ {0}, NEW height \in Nat \ {0},
           NEW at \in SelPlaces, OnScreen(at, n, height)
    PROVE  /\ SelectNext(at, n, height) \in SelPlaces
           /\ OnScreen(SelectNext(at, n, height), n, height)
<1>1. ScrollOffset \in Nat
  BY ScrollAssumption DEF ScrollAssumption
<1>2. at.sel \in 0..n - 1 /\ at.scroll \in 0..at.sel /\ at.sel - at.scroll < height
  BY DEF OnScreen
<1>3. CASE at.sel >= n - 1
  BY <1>3 DEF SelectNext
<1>4. CASE /\ at.sel < n - 1
           /\ at.sel + 1 >= at.scroll + height - ScrollOffset
           /\ at.scroll < MaxScroll(n, height)
  <2>1. SelectNext(at, n, height) = At(at.sel + 1, at.scroll + 1)
    BY <1>2, <1>4 DEF SelectNext
  <2> QED
    BY <2>1, <1>2, <1>4 DEF OnScreen, At, SelPlaces
<1>5. CASE /\ at.sel < n - 1
           /\ ~ (/\ at.sel + 1 >= at.scroll + height - ScrollOffset
                 /\ at.scroll < MaxScroll(n, height))
  <2>1. SelectNext(at, n, height) = At(at.sel + 1, at.scroll)
    BY <1>2, <1>5 DEF SelectNext
  <2>2. at.sel + 1 - at.scroll < height
    BY <1>1, <1>2, <1>5 DEF MaxScroll, Larger
  <2> QED
    BY <2>1, <2>2, <1>2, <1>5 DEF OnScreen, At, SelPlaces
<1> QED
  BY <1>2, <1>3, <1>4, <1>5

LEMMA SelectPrevOnScreen ==
    ASSUME NEW n \in Nat \ {0}, NEW height \in Nat \ {0},
           NEW at \in SelPlaces, OnScreen(at, n, height)
    PROVE  /\ SelectPrev(at) \in SelPlaces
           /\ OnScreen(SelectPrev(at), n, height)
<1>1. ScrollOffset \in Nat
  BY ScrollAssumption DEF ScrollAssumption
<1>2. at.sel \in 0..n - 1 /\ at.scroll \in 0..at.sel /\ at.sel - at.scroll < height
  BY DEF OnScreen
<1>3. CASE at.sel <= 0
  BY <1>3 DEF SelectPrev
<1>4. CASE at.sel > 0 /\ at.sel - 1 < at.scroll + ScrollOffset
  <2>0. ~(at.sel <= 0)
    BY <1>2, <1>4
  <2>1. SelectPrev(at) = At(at.sel - 1, Larger(at.scroll - 1, 0))
    BY <1>4, <2>0 DEF SelectPrev
  <2>2. Larger(at.scroll - 1, 0) \in 0..at.sel - 1
    BY <1>2, <1>4 DEF Larger
  <2>3. at.sel - 1 - Larger(at.scroll - 1, 0) < height
    BY <1>2, <1>4 DEF Larger
  <2> QED
    BY <2>1, <2>2, <2>3, <1>2, <1>4 DEF OnScreen, At, SelPlaces
<1>5. CASE at.sel > 0 /\ ~(at.sel - 1 < at.scroll + ScrollOffset)
  <2>0. ~(at.sel <= 0)
    BY <1>2, <1>5
  <2>1. SelectPrev(at) = At(at.sel - 1, at.scroll)
    BY <1>5, <2>0 DEF SelectPrev
  <2> QED
    BY <2>1, <1>1, <1>2, <1>5 DEF OnScreen, At, SelPlaces
<1> QED
  BY <1>2, <1>3, <1>4, <1>5

LEMMA SelectLastOnScreen ==
    ASSUME NEW n \in Nat \ {0}, NEW height \in Nat \ {0}
    PROVE  /\ SelectLast(n, height) \in SelPlaces
           /\ OnScreen(SelectLast(n, height), n, height)
BY DEF SelectLast, MaxScroll, Larger, OnScreen, At, SelPlaces

LEMMA CenteredOnScreen ==
    ASSUME NEW n \in Nat \ {0}, NEW height \in Nat \ {0}, NEW sel \in 0..n - 1
    PROVE  /\ CenterVertically(sel, n, height) \in SelPlaces
           /\ OnScreen(CenterVertically(sel, n, height), n, height)
<1> DEFINE scroll == Smaller(Larger(sel - (height \div 2), 0), MaxScroll(n, height))
<1>1. height \div 2 \in Nat /\ height \div 2 < height
  OBVIOUS
<1>2. scroll \in 0..sel /\ sel - scroll < height
  BY <1>1 DEF Smaller, Larger, MaxScroll
<1>3. CenterVertically(sel, n, height) = At(sel, scroll)
  BY DEF CenterVertically
<1> QED
  BY <1>2, <1>3 DEF At, OnScreen, SelPlaces

LEMMA OnRowOnScreen ==
    ASSUME NEW n \in Nat \ {0}, NEW height \in Nat \ {0}, NEW sel \in 0..n - 1,
           NEW row \in 0..height - 1
    PROVE  /\ OnRow(sel, row) \in SelPlaces
           /\ OnScreen(OnRow(sel, row), n, height)
BY DEF OnRow, Larger, At, OnScreen, SelPlaces

\* A list that scrolls so that the selected entry is on the screen, wherever
\* the entry was.
LEMMA RescrollOnScreen ==
    ASSUME NEW n \in Nat \ {0}, NEW height \in Nat \ {0}, NEW at \in SelPlaces,
           at.sel \in 0..n - 1, at.scroll \in 0..at.sel
    PROVE  /\ Rescroll(at, height) \in SelPlaces
           /\ OnScreen(Rescroll(at, height), n, height)
BY DEF Rescroll, At, OnScreen, SelPlaces

-------------------------------------------------------------------------------
\* The strengthening: the window has a row, and the rows that are remembered
\* are rows.
ListInv ==
    /\ shown \in SomeNodes
    /\ Place \in SelPlaces
    /\ OnScreen(Place, Len(shown), menu_height)
    /\ menu_height \in Nat \ {0}
    /\ parent_screen_rows \in Seq(Nat)

LEMMA ListInvImpliesRowOnScreen == ListInv => RowOnScreen
BY DEF ListInv, RowOnScreen, SomeNodes

LEMMA SomeLen == ASSUME NEW s \in SomeNodes PROVE Len(s) \in Nat \ {0}
BY EmptySeq, LenProperties DEF SomeNodes

LEMMA MenuHeightPos ==
    ASSUME NEW size \in Screens, NEW help
    PROVE  MenuHeight(size, help) \in Nat \ {0}
<1>1. (IF help THEN ShowHelpHeight ELSE MainHelpHeight) + 3 \in Nat
  BY ScrollAssumption DEF ScrollAssumption
<1> QED
  BY <1>1, WindowHeightPos DEF MenuHeight

LEMMA InitListInv ==
    ASSUME NEW size \in Screens, shown \in SomeNodes, ListInit(shown, size)
    PROVE  ListInv
<1>1. menu_height \in Nat \ {0}
  BY MenuHeightPos DEF ListInit
<1>2. Place \in SelPlaces /\ OnScreen(Place, Len(shown), menu_height)
  <2>1. Place = [sel |-> 0, scroll |-> 0]
    BY DEF ListInit, Place, At
  <2>2. Len(shown) \in Nat \ {0}
    BY SomeLen
  <2> QED
    BY <1>1, <2>1, <2>2 DEF SelPlaces, OnScreen
<1>3. parent_screen_rows \in Seq(Nat)
  BY DEF ListInit
<1> QED
  BY <1>1, <1>2, <1>3 DEF ListInv

LEMMA GoToPlace ==
    ASSUME NEW at \in SelPlaces, GoTo(at)
    PROVE  Place' = at
BY DEF GoTo, Place, At, SelPlaces

\* A key that moves the selection on the screen
LEMMA MoveInv ==
    ASSUME ListInv, NEW at \in SelPlaces, OnScreen(at, Len(shown), menu_height), Move(at)
    PROVE  ListInv'
<1>1. Place' = at
  BY GoToPlace DEF Move
<1>2. UNCHANGED <<shown, menu_height, parent_screen_rows>>
  BY DEF Move
<1> QED
  BY <1>1, <1>2 DEF ListInv

NextOK(at) == at \in SelPlaces /\ OnScreen(at, Len(shown), menu_height)

LEMMA NextEntryOK ==
    ASSUME ListInv, NEW at, NextOK(at)
    PROVE  NextOK(NextEntry(at))
BY SomeLen, SelectNextOnScreen DEF ListInv, NextEntry, NextOK

LEMMA PrevEntryOK ==
    ASSUME ListInv, NEW at, NextOK(at)
    PROVE  NextOK(SelectPrev(at))
BY SomeLen, SelectPrevOnScreen DEF ListInv, NextOK

LEMMA MoveSelectionInv ==
    ASSUME ListInv, MoveSelection
    PROVE  ListInv'
<1>1. Len(shown) \in Nat \ {0} /\ menu_height \in Nat \ {0}
  BY SomeLen DEF ListInv
<1>2. NextOK(Place)
  BY DEF ListInv, NextOK
<1>3. ASSUME NEW at, NextOK(at), Move(at) PROVE ListInv'
  BY <1>3, MoveInv DEF NextOK
<1>4. CASE SelectNextEntry
  BY <1>2, <1>3, <1>4, NextEntryOK DEF SelectNextEntry
<1>5. CASE SelectPrevEntry
  BY <1>2, <1>3, <1>5, PrevEntryOK DEF SelectPrevEntry
<1>6. CASE PageDown
  <2> DEFINE p1 == NextEntry(Place)  p2 == NextEntry(p1)  p3 == NextEntry(p2)
             p4 == NextEntry(p3)  p5 == NextEntry(p4)  p6 == NextEntry(p5)
  <2>1. NextOK(p1)  BY <1>2, NextEntryOK
  <2> HIDE DEF p1
  <2>2. NextOK(p2)  BY <2>1, NextEntryOK
  <2> HIDE DEF p2
  <2>3. NextOK(p3)  BY <2>2, NextEntryOK
  <2> HIDE DEF p3
  <2>4. NextOK(p4)  BY <2>3, NextEntryOK
  <2> HIDE DEF p4
  <2>5. NextOK(p5)  BY <2>4, NextEntryOK
  <2> HIDE DEF p5
  <2>6. NextOK(p6)  BY <2>5, NextEntryOK
  <2>7. Move(p6)
    BY <1>6 DEF PageDown, Page, p1, p2, p3, p4, p5, p6
  <2> QED
    BY <2>6, <2>7, <1>3
<1>7. CASE PageUp
  <2> DEFINE p1 == SelectPrev(Place)  p2 == SelectPrev(p1)  p3 == SelectPrev(p2)
             p4 == SelectPrev(p3)  p5 == SelectPrev(p4)  p6 == SelectPrev(p5)
  <2>1. NextOK(p1)  BY <1>2, PrevEntryOK
  <2> HIDE DEF p1
  <2>2. NextOK(p2)  BY <2>1, PrevEntryOK
  <2> HIDE DEF p2
  <2>3. NextOK(p3)  BY <2>2, PrevEntryOK
  <2> HIDE DEF p3
  <2>4. NextOK(p4)  BY <2>3, PrevEntryOK
  <2> HIDE DEF p4
  <2>5. NextOK(p5)  BY <2>4, PrevEntryOK
  <2> HIDE DEF p5
  <2>6. NextOK(p6)  BY <2>5, PrevEntryOK
  <2>7. Move(p6)
    BY <1>7 DEF PageUp, Page, p1, p2, p3, p4, p5, p6
  <2> QED
    BY <2>6, <2>7, <1>3
<1>8. CASE SelectLastEntry
  BY <1>1, <1>3, <1>8, SelectLastOnScreen DEF SelectLastEntry, NextOK
<1>9. CASE SelectFirstEntry
  <2>1. NextOK(Top)
    BY <1>1 DEF Top, At, NextOK, SelPlaces, OnScreen
  <2> QED
    BY <2>1, <1>3, <1>9 DEF SelectFirstEntry
<1> QED
  BY <1>4, <1>5, <1>6, <1>7, <1>8, <1>9 DEF MoveSelection

LEMMA ResizeInv ==
    ASSUME ListInv, NEW size \in Screens, NEW help, ResizeMain(size, help)
    PROVE  ListInv'
<1>1. menu_height' \in Nat \ {0}
  BY MenuHeightPos DEF ResizeMain
<1>2. Len(shown) \in Nat \ {0}
  BY SomeLen DEF ListInv
<1>3. /\ Place \in SelPlaces
      /\ Place.sel \in 0..Len(shown) - 1 /\ Place.scroll \in 0..Place.sel
  BY DEF ListInv, OnScreen
<1>4. /\ Rescroll(Place, menu_height') \in SelPlaces
      /\ OnScreen(Rescroll(Place, menu_height'), Len(shown), menu_height')
  BY <1>1, <1>2, <1>3, RescrollOnScreen
<1>5. Place' = Rescroll(Place, menu_height')
  BY <1>4, GoToPlace DEF ResizeMain
<1>6. UNCHANGED <<shown, parent_screen_rows>>
  BY DEF ResizeMain
<1> QED
  BY <1>1, <1>4, <1>5, <1>6 DEF ListInv

\* Other nodes are displayed
LEMMA DisplayInv ==
    ASSUME ListInv, NEW nodes \in SomeNodes, NEW rows \in Seq(Nat), NEW at \in SelPlaces,
           OnScreen(at, Len(nodes), menu_height), Display(nodes, at, rows)
    PROVE  ListInv'
<1>1. Place' = at
  BY GoToPlace DEF Display
<1>2. shown' = nodes /\ parent_screen_rows' = rows /\ menu_height' = menu_height
  BY DEF Display
<1> QED
  BY <1>1, <1>2 DEF ListInv

LEMMA RowBounds == ListInv => Row \in 0..menu_height - 1
<1> SUFFICES ASSUME ListInv PROVE Row \in 0..menu_height - 1
  OBVIOUS
<1>1. /\ sel_node_i \in Nat /\ menu_scroll \in 0..sel_node_i
      /\ sel_node_i - menu_scroll < menu_height
      /\ menu_height \in Nat
  BY DEF ListInv, Place, At, SelPlaces, OnScreen
<1> QED
  BY <1>1 DEF Row

LEMMA EnterInv ==
    ASSUME ListInv, NEW nodes \in SomeNodes, NEW i \in 0..Len(nodes) - 1,
           EnterList(nodes, i)
    PROVE  ListInv'
<1>1. Len(nodes) \in Nat \ {0} /\ menu_height \in Nat \ {0}
  BY SomeLen DEF ListInv
<1>2. Append(parent_screen_rows, Row) \in Seq(Nat)
  BY RowBounds DEF ListInv
<1> QED
  BY <1>1, <1>2, CenteredOnScreen, DisplayInv DEF EnterList

LEMMA LeaveInv ==
    ASSUME ListInv, NEW nodes \in SomeNodes, NEW i \in 0..Len(nodes) - 1,
           LeaveList(nodes, i)
    PROVE  ListInv'
<1> DEFINE rows == parent_screen_rows
           at == LeaveAt(nodes, i, rows)
<1>1. Len(nodes) \in Nat \ {0} /\ menu_height \in Nat \ {0} /\ rows \in Seq(Nat)
  BY SomeLen DEF ListInv
<1>2. at \in SelPlaces /\ OnScreen(at, Len(nodes), menu_height)
  <2>1. CASE rows = <<>>
    BY <1>1, <2>1, CenteredOnScreen DEF LeaveAt
  <2>2. CASE rows # <<>>
    <3>1. rows[Len(rows)] \in Nat
      BY <1>1, <2>2
    <3>2. LeaveRow(rows, menu_height) \in 0..menu_height - 1
      BY <1>1, <3>1 DEF LeaveRow, Smaller
    <3> QED
      BY <1>1, <2>2, <3>2, OnRowOnScreen DEF LeaveAt
  <2> QED
    BY <2>1, <2>2
<1>3. WithoutLast(rows) \in Seq(Nat)
  <2>1. CASE rows = <<>>
    BY <1>1, <2>1 DEF WithoutLast
  <2>2. CASE rows # <<>>
    <3>1. Len(rows) \in Nat \ {0}
      BY <1>1, <2>2, EmptySeq, LenProperties
    <3>2. SubSeq(rows, 1, Len(rows) - 1) \in Seq(Nat)
      BY <1>1, <3>1, SubSeqProperties
    <3> QED
      BY <2>2, <3>2 DEF WithoutLast
  <2> QED
    BY <2>1, <2>2
<1>4. Display(nodes, at, WithoutLast(rows))
  BY DEF LeaveList
<1> HIDE DEF at, rows
<1> QED
  BY <1>2, <1>3, <1>4, DisplayInv

LEMMA UpdateInv ==
    ASSUME ListInv, NEW nodes \in SomeNodes, NEW i \in 0..Len(nodes) - 1,
           UpdateList(nodes, i)
    PROVE  ListInv'
<1>1. /\ Len(nodes) \in Nat \ {0} /\ menu_height \in Nat \ {0}
      /\ parent_screen_rows \in Seq(Nat)
  BY SomeLen DEF ListInv
<1> QED
  BY <1>1, RowBounds, OnRowOnScreen, DisplayInv DEF UpdateList

LEMMA JumpInv ==
    ASSUME ListInv, NEW nodes \in SomeNodes, NEW i \in 0..Len(nodes) - 1,
           NEW size \in Screens, JumpToList(nodes, i, size)
    PROVE  ListInv'
<1> DEFINE at == CenterVertically(i, Len(nodes), menu_height)
<1>1. Len(nodes) \in Nat \ {0} /\ menu_height \in Nat \ {0}
  BY SomeLen DEF ListInv
<1>2. menu_height' \in Nat \ {0}
  BY MenuHeightPos DEF JumpToList
<1>3. /\ at \in SelPlaces
      /\ at.sel \in 0..Len(nodes) - 1 /\ at.scroll \in 0..at.sel
  <2>1. at \in SelPlaces /\ OnScreen(at, Len(nodes), menu_height)
    BY <1>1, CenteredOnScreen
  <2> QED
    BY <2>1 DEF OnScreen
<1>4. GoTo(Rescroll(at, menu_height'))
  BY DEF JumpToList
<1> HIDE DEF at
<1>5. /\ Rescroll(at, menu_height') \in SelPlaces
      /\ OnScreen(Rescroll(at, menu_height'), Len(nodes), menu_height')
  BY <1>1, <1>2, <1>3, RescrollOnScreen
<1>6. Place' = Rescroll(at, menu_height')
  BY <1>4, <1>5, GoToPlace
<1>7. shown' = nodes /\ parent_screen_rows' = <<>>
  BY DEF JumpToList
<1>8. <<>> \in Seq(Nat)
  OBVIOUS
<1> QED
  BY <1>2, <1>5, <1>6, <1>7, <1>8 DEF ListInv

LEMMA ListNextInv ==
    ASSUME ListInv, [ListNext]_list_vars
    PROVE  ListInv'
<1>1. CASE MoveSelection
  BY <1>1, MoveSelectionInv
<1>2. CASE \E size \in Screens, help \in BOOLEAN : ResizeMain(size, help)
  BY <1>2, ResizeInv
<1>3. CASE /\ shown' \in SomeNodes
           /\ sel_node_i' \in 0..Len(shown') - 1
           /\ \/ EnterList(shown', sel_node_i')
              \/ LeaveList(shown', sel_node_i')
              \/ UpdateList(shown', sel_node_i')
              \/ \E size \in Screens : JumpToList(shown', sel_node_i', size)
  <2> DEFINE nodes == shown'  i == sel_node_i'
  <2>1. nodes \in SomeNodes /\ i \in 0..Len(nodes) - 1
    BY <1>3
  <2>2. CASE EnterList(nodes, i)
    BY <2>1, <2>2, EnterInv
  <2>3. CASE LeaveList(nodes, i)
    BY <2>1, <2>3, LeaveInv
  <2>4. CASE UpdateList(nodes, i)
    BY <2>1, <2>4, UpdateInv
  <2>5. CASE \E size \in Screens : JumpToList(nodes, i, size)
    BY <2>1, <2>5, JumpInv
  <2> QED
    BY <1>3, <2>2, <2>3, <2>4, <2>5
<1>4. CASE UNCHANGED list_vars
  BY <1>4 DEF list_vars, ListInv, Place
<1> QED
  BY <1>1, <1>2, <1>3, <1>4 DEF ListNext

LEMMA ListInvariant == ListSpec => []ListInv
<1>1. ListStart => ListInv
  BY InitListInv DEF ListStart
<1>2. ListInv /\ [ListNext]_list_vars => ListInv'
  BY ListNextInv
<1> QED
  BY <1>1, <1>2, PTL DEF ListSpec

-------------------------------------------------------------------------------
\* The theorem of the main display

\* Whatever is listed, and however menus are entered and left, values change
\* and the terminal is resized, the main display has a selected entry and
\* shows it on one of its rows (menuconfig.py: _enter_menu, _leave_menu,
\* _update_menu, _jump_to, _resize_main, _select_next_menu_entry and so on).
THEOREM SelectedOnScreen == ListSpec => []RowOnScreen
BY ListInvariant, ListInvImpliesRowOnScreen, PTL

-------------------------------------------------------------------------------
\* The jump-to dialog: the list of matches

AnyPlace == [sel : Int, scroll : Int]
AnyBox == {b \in [len : Nat, i : Nat, hscroll : Int] : b.i <= b.len}

LEMMA MatchesHeightPos ==
    ASSUME NEW size \in Screens
    PROVE  MatchesHeight(size) \in Nat \ {0} /\ size.width \in Nat
BY ScrollAssumption DEF ScrollAssumption, MatchesHeight, WindowHeight, Larger

\* A place in the list of matches that is on the screen, if anything matches.
Fits(at) ==
    /\ at \in AnyPlace
    /\ matches # <<>> => OnScreen(at, Len(matches), matches_height)

LEMMA FitsBounds ==
    ASSUME NEW at, Fits(at), matches # <<>>
    PROVE  at.sel \in 0..Len(matches) - 1 /\ at.scroll \in 0..at.sel
           /\ at.sel - at.scroll < matches_height
BY DEF Fits, OnScreen

MatchInv ==
    /\ matches \in Seq(Nat)
    /\ Fits(MatchPlace)
    /\ matches_height \in Nat \ {0}
    /\ edit_width \in Int
    /\ box \in AnyBox

LEMMA MatchInvImpliesMatchOnScreen == MatchInv => MatchOnScreen
BY DEF MatchInv, MatchOnScreen, Fits

LEMMA MatchesLen ==
    ASSUME MatchInv
    PROVE  Len(matches) \in Nat /\ (matches # <<>> => Len(matches) > 0)
BY EmptySeq, LenProperties DEF MatchInv

LEMMA NextMatchFits ==
    ASSUME MatchInv, NEW at, Fits(at)
    PROVE  Fits(NextMatch(at))
<1> DEFINE n == Len(matches)  height == matches_height  next == NextMatch(at)
<1>1. /\ n \in Nat /\ height \in Nat \ {0} /\ ScrollOffset \in Nat
      /\ at \in AnyPlace /\ at.sel \in Int /\ at.scroll \in Int
  BY MatchesLen, ScrollAssumption DEF MatchInv, ScrollAssumption, Fits, AnyPlace
<1>2. CASE at.sel = n - 1
  BY <1>2 DEF NextMatch, SelectNextMatch
<1>3. CASE /\ at.sel # n - 1
           /\ at.sel + 1 >= at.scroll + height - ScrollOffset
           /\ at.scroll < MaxScroll(n, height)
  <2>1. next = [sel |-> at.sel + 1, scroll |-> at.scroll + 1]
    BY <1>3 DEF NextMatch, SelectNextMatch, At
  <2>2. ASSUME matches # <<>> PROVE OnScreen(next, n, height)
    <3>1. /\ at.sel \in 0..n - 1 /\ at.scroll \in 0..at.sel
          /\ at.sel - at.scroll < height
      BY <2>2, FitsBounds
    <3> HIDE DEF next, n, height
    <3>2. /\ at.sel + 1 \in 0..n - 1 /\ at.scroll + 1 \in 0..at.sel + 1
          /\ at.sel + 1 - (at.scroll + 1) < height
      BY <1>1, <1>3, <3>1
    <3>3. next.sel = at.sel + 1 /\ next.scroll = at.scroll + 1
      BY <2>1
    <3> QED
      BY <1>1, <3>2, <3>3 DEF OnScreen
  <2> QED
    BY <1>1, <2>1, <2>2 DEF Fits, AnyPlace
<1>4. CASE /\ at.sel # n - 1
           /\ ~ (/\ at.sel + 1 >= at.scroll + height - ScrollOffset
                 /\ at.scroll < MaxScroll(n, height))
  <2>1. next = [sel |-> at.sel + 1, scroll |-> at.scroll]
    BY <1>4 DEF NextMatch, SelectNextMatch, At
  <2>2. ASSUME matches # <<>> PROVE OnScreen(next, n, height)
    <3>1. /\ at.sel \in 0..n - 1 /\ at.scroll \in 0..at.sel
          /\ at.sel - at.scroll < height
      BY <2>2, FitsBounds
    <3>2. at.sel + 1 - at.scroll < height
      BY <1>1, <1>4, <3>1 DEF MaxScroll, Larger
    <3> QED
      BY <1>1, <1>4, <2>1, <3>1, <3>2 DEF OnScreen
  <2> QED
    BY <1>1, <2>1, <2>2 DEF Fits, AnyPlace
<1> QED
  BY <1>2, <1>3, <1>4

LEMMA PrevMatchFits ==
    ASSUME MatchInv, NEW at, Fits(at)
    PROVE  Fits(SelectPrevMatch(at))
<1> DEFINE n == Len(matches)  height == matches_height  prev == SelectPrevMatch(at)
<1>1. /\ n \in Nat /\ height \in Nat \ {0} /\ ScrollOffset \in Nat
      /\ at \in AnyPlace /\ at.sel \in Int /\ at.scroll \in Int
  BY MatchesLen, ScrollAssumption DEF MatchInv, ScrollAssumption, Fits, AnyPlace
<1>2. CASE at.sel = 0
  BY <1>2 DEF SelectPrevMatch
<1>3. CASE at.sel # 0 /\ at.sel - 1 < at.scroll + ScrollOffset
  <2>1. prev = [sel |-> at.sel - 1, scroll |-> Larger(at.scroll - 1, 0)]
    BY <1>3 DEF SelectPrevMatch, At
  <2>2. ASSUME matches # <<>> PROVE OnScreen(prev, n, height)
    <3>1. /\ at.sel \in 0..n - 1 /\ at.scroll \in 0..at.sel
          /\ at.sel - at.scroll < height
      BY <2>2, FitsBounds
    <3> HIDE DEF prev, n, height
    <3>2. at.sel - 1 \in 0..n - 1
      BY <1>1, <1>3, <3>1
    <3>3. /\ Larger(at.scroll - 1, 0) \in 0..at.sel - 1
          /\ at.sel - 1 - Larger(at.scroll - 1, 0) < height
      BY <1>1, <1>3, <3>1 DEF Larger
    <3> QED
      BY <2>1, <3>2, <3>3 DEF OnScreen
  <2>3. Larger(at.scroll - 1, 0) \in Int
    BY <1>1 DEF Larger
  <2> QED
    BY <1>1, <2>1, <2>2, <2>3 DEF Fits, AnyPlace
<1>4. CASE at.sel # 0 /\ ~(at.sel - 1 < at.scroll + ScrollOffset)
  <2>1. prev = [sel |-> at.sel - 1, scroll |-> at.scroll]
    BY <1>4 DEF SelectPrevMatch, At
  <2>2. matches # <<>> => OnScreen(prev, n, height)
    BY <1>1, <1>4, <2>1, FitsBounds DEF OnScreen
  <2> QED
    BY <1>1, <2>1, <2>2 DEF Fits, AnyPlace
<1> QED
  BY <1>2, <1>3, <1>4

LEMMA MaxScrollBounds ==
    ASSUME NEW n \in Nat, NEW height \in Nat \ {0}
    PROVE  /\ MaxScroll(n, height) \in Nat
           /\ n > 0 => /\ MaxScroll(n, height) <= n - 1
                       /\ n - 1 - MaxScroll(n, height) < height
BY DEF MaxScroll, Larger

LEMMA LastMatchFits ==
    ASSUME MatchInv
    PROVE  Fits(SelectLast(Len(matches), matches_height))
<1>1. Len(matches) \in Nat /\ matches_height \in Nat \ {0}
  BY MatchesLen DEF MatchInv
<1>2. matches # <<>> => Len(matches) > 0
  BY MatchesLen
<1> DEFINE n == Len(matches)  height == matches_height
           scroll == MaxScroll(n, height)
<1>3. scroll \in Nat /\ (n > 0 => scroll <= n - 1 /\ n - 1 - scroll < height)
  BY <1>1, MaxScrollBounds
<1>4. SelectLast(n, height) = [sel |-> n - 1, scroll |-> scroll]
  BY DEF SelectLast, At
<1> HIDE DEF scroll
<1> QED
  BY <1>1, <1>2, <1>3, <1>4 DEF Fits, AnyPlace, OnScreen

LEMMA FirstMatchFits ==
    ASSUME MatchInv
    PROVE  Fits(Top)
<1>1. Len(matches) \in Nat /\ matches_height \in Nat \ {0}
  BY MatchesLen DEF MatchInv
<1>2. matches # <<>> => Len(matches) > 0
  BY MatchesLen
<1> QED
  BY <1>1, <1>2 DEF Fits, AnyPlace, Top, At, OnScreen

LEMMA MoveMatchInv ==
    ASSUME MatchInv, NEW at, Fits(at), MoveMatch(at)
    PROVE  MatchInv'
<1>1. MatchPlace' = at
  BY DEF MoveMatch, MatchPlace, At, Fits, AnyPlace
<1>2. UNCHANGED <<matches, matches_height, edit_width, box>>
  BY DEF MoveMatch
<1>3. Fits(MatchPlace)'
  BY <1>1, <1>2 DEF Fits
<1> QED
  BY <1>2, <1>3 DEF MatchInv

LEMMA MoveMatchSelectionInv ==
    ASSUME MatchInv, MoveMatchSelection
    PROVE  MatchInv'
<1>1. Fits(MatchPlace)
  BY DEF MatchInv
<1>2. CASE MoveMatch(NextMatch(MatchPlace))
  BY <1>1, <1>2, NextMatchFits, MoveMatchInv
<1>3. CASE MoveMatch(SelectPrevMatch(MatchPlace))
  BY <1>1, <1>3, PrevMatchFits, MoveMatchInv
<1>4. CASE MoveMatch(Page(NextMatch, MatchPlace))
  <2> DEFINE p1 == NextMatch(MatchPlace)  p2 == NextMatch(p1)  p3 == NextMatch(p2)
             p4 == NextMatch(p3)  p5 == NextMatch(p4)  p6 == NextMatch(p5)
  <2>1. Fits(p1)  BY <1>1, NextMatchFits
  <2> HIDE DEF p1
  <2>2. Fits(p2)  BY <2>1, NextMatchFits
  <2> HIDE DEF p2
  <2>3. Fits(p3)  BY <2>2, NextMatchFits
  <2> HIDE DEF p3
  <2>4. Fits(p4)  BY <2>3, NextMatchFits
  <2> HIDE DEF p4
  <2>5. Fits(p5)  BY <2>4, NextMatchFits
  <2> HIDE DEF p5
  <2>6. Fits(p6)  BY <2>5, NextMatchFits
  <2>7. MoveMatch(p6)
    BY <1>4 DEF Page, p1, p2, p3, p4, p5, p6
  <2> QED
    BY <2>6, <2>7, MoveMatchInv
<1>5. CASE MoveMatch(Page(SelectPrevMatch, MatchPlace))
  <2> DEFINE p1 == SelectPrevMatch(MatchPlace)  p2 == SelectPrevMatch(p1)
             p3 == SelectPrevMatch(p2)  p4 == SelectPrevMatch(p3)
             p5 == SelectPrevMatch(p4)  p6 == SelectPrevMatch(p5)
  <2>1. Fits(p1)  BY <1>1, PrevMatchFits
  <2> HIDE DEF p1
  <2>2. Fits(p2)  BY <2>1, PrevMatchFits
  <2> HIDE DEF p2
  <2>3. Fits(p3)  BY <2>2, PrevMatchFits
  <2> HIDE DEF p3
  <2>4. Fits(p4)  BY <2>3, PrevMatchFits
  <2> HIDE DEF p4
  <2>5. Fits(p5)  BY <2>4, PrevMatchFits
  <2> HIDE DEF p5
  <2>6. Fits(p6)  BY <2>5, PrevMatchFits
  <2>7. MoveMatch(p6)
    BY <1>5 DEF Page, p1, p2, p3, p4, p5, p6
  <2> QED
    BY <2>6, <2>7, MoveMatchInv
<1>6. CASE MoveMatch(SelectLast(Len(matches), matches_height))
  BY <1>6, LastMatchFits, MoveMatchInv
<1>7. CASE MoveMatch(Top)
  BY <1>7, FirstMatchFits, MoveMatchInv
<1> QED
  BY <1>2, <1>3, <1>4, <1>5, <1>6, <1>7 DEF MoveMatchSelection

-------------------------------------------------------------------------------
\* The jump-to dialog: the edit box

LEMMA TypedBox ==
    ASSUME NEW b \in AnyBox, NEW key \in EditKeys, NEW word \in 0..b.i
    PROVE  Typed(b, key, word) \in AnyBox
<1>1. /\ b = Box(b.len, b.i, b.hscroll)
      /\ b.len \in Nat /\ b.i \in Nat /\ b.hscroll \in Int /\ b.i <= b.len
  BY DEF AnyBox, Box
<1>2. ASSUME NEW len \in Nat, NEW i \in 0..len
      PROVE  Box(len, i, b.hscroll) \in AnyBox
  BY <1>1 DEF Box, AnyBox
<1>3. CASE key \in {"left", "right", "home", "end"}
  <2>1. \E i \in 0..b.len : Typed(b, key, word) = Box(b.len, i, b.hscroll)
    <3>1. CASE key = "left"
      <4>1. Typed(b, key, word) = Box(b.len, Larger(b.i - 1, 0), b.hscroll)
        BY <1>1, <3>1 DEF Typed, Box
      <4> QED
        BY <1>1, <4>1 DEF Larger
    <3>2. CASE key = "right"
      <4>1. Typed(b, key, word) = Box(b.len, Smaller(b.i + 1, b.len), b.hscroll)
        BY <1>1, <3>2 DEF Typed, Box
      <4> QED
        BY <1>1, <4>1 DEF Smaller
    <3>3. CASE key = "home"
      BY <1>1, <3>3 DEF Typed, Box
    <3>4. CASE key = "end"
      BY <1>1, <3>4 DEF Typed, Box
    <3> QED
      BY <1>3, <3>1, <3>2, <3>3, <3>4
  <2> QED
    BY <1>1, <1>2, <2>1
<1>4. CASE key = "backspace"
  <2>1. CASE b.i = 0
    BY <1>4, <2>1 DEF Typed
  <2>2. CASE b.i # 0
    <3>1. Typed(b, key, word) = Box(b.len - 1, b.i - 1, b.hscroll)
      BY <1>4, <2>2 DEF Typed
    <3> QED
      BY <1>1, <1>2, <2>2, <3>1
  <2> QED
    BY <2>1, <2>2
<1>5. CASE key = "delete"
  <2>1. CASE b.i = b.len
    BY <1>5, <2>1 DEF Typed
  <2>2. CASE b.i # b.len
    <3>1. Typed(b, key, word) = Box(b.len - 1, b.i, b.hscroll)
      BY <1>5, <2>2 DEF Typed
    <3> QED
      BY <1>1, <1>2, <2>2, <3>1
  <2> QED
    BY <2>1, <2>2
<1>6. CASE key = "word"
  <2>1. Typed(b, key, word) = Box(b.len - (b.i - word), word, b.hscroll)
    BY <1>6 DEF Typed
  <2> QED
    BY <1>1, <1>2, <2>1
<1>7. CASE key = "kill"
  <2>1. Typed(b, key, word) = Box(b.i, b.i, b.hscroll)
    BY <1>7 DEF Typed
  <2> QED
    BY <1>1, <1>2, <2>1
<1>8. CASE key = "clear"
  <2>1. Typed(b, key, word) = Box(b.len - b.i, 0, b.hscroll)
    BY <1>8 DEF Typed
  <2> QED
    BY <1>1, <1>2, <2>1
<1>9. CASE key = "insert"
  <2>1. Typed(b, key, word) = Box(b.len + 1, b.i + 1, b.hscroll)
    BY <1>9 DEF Typed
  <2> QED
    BY <1>1, <1>2, <2>1
<1> QED
  BY <1>3, <1>4, <1>5, <1>6, <1>7, <1>8, <1>9 DEF EditKeys

LEMMA ScrolledBox ==
    ASSUME NEW b \in AnyBox, NEW width \in Int
    PROVE  /\ ScrollBox(b, width) \in AnyBox
           /\ width > ScrollOffset => CursorShown(ScrollBox(b, width), width)
<1>1. /\ b.len \in Nat /\ b.i \in Nat /\ b.hscroll \in Int /\ b.i <= b.len
      /\ ScrollOffset \in Nat
  BY ScrollAssumption DEF AnyBox, ScrollAssumption
<1>2. ASSUME NEW h \in Int, ScrollBox(b, width) = Box(b.len, b.i, h),
             width > ScrollOffset => b.i - h \in 0..width - 1
      PROVE  /\ ScrollBox(b, width) \in AnyBox
             /\ width > ScrollOffset => CursorShown(ScrollBox(b, width), width)
  BY <1>1, <1>2 DEF Box, AnyBox, CursorShown
<1>3. CASE b.i < b.hscroll + ScrollOffset
  <2> DEFINE h == Larger(b.i - ScrollOffset, 0)
  <2>1. ScrollBox(b, width) = Box(b.len, b.i, h)
    BY <1>3 DEF ScrollBox
  <2>2. h \in Int /\ (width > ScrollOffset => b.i - h \in 0..width - 1)
    BY <1>1 DEF Larger
  <2> HIDE DEF h
  <2> QED
    BY <1>2, <2>1, <2>2
<1>4. CASE /\ ~(b.i < b.hscroll + ScrollOffset)
           /\ b.i >= b.hscroll + width - ScrollOffset
  <2> DEFINE h == Smaller(b.i - width + ScrollOffset + 1, Larger(b.len - width + 1, 0))
  <2>1. ScrollBox(b, width) = Box(b.len, b.i, h)
    BY <1>4 DEF ScrollBox
  <2>2. h \in Int /\ (width > ScrollOffset => b.i - h \in 0..width - 1)
    BY <1>1 DEF Smaller, Larger
  <2> HIDE DEF h
  <2> QED
    BY <1>2, <2>1, <2>2
<1>5. CASE /\ ~(b.i < b.hscroll + ScrollOffset)
           /\ ~(b.i >= b.hscroll + width - ScrollOffset)
  <2>1. ScrollBox(b, width) = b
    BY <1>5 DEF ScrollBox
  <2>2. b.i - b.hscroll \in 0..width - 1
    BY <1>1, <1>5
  <2> QED
    BY <2>1, <2>2 DEF CursorShown
<1> QED
  BY <1>3, <1>4, <1>5

-------------------------------------------------------------------------------
\* The steps of the dialog, and what each does to the box

BoxFollows == box' # box /\ edit_width' > ScrollOffset => CursorShown(box', edit_width')

LEMMA EmptyBox ==
    ASSUME NEW width \in Int, width > ScrollOffset
    PROVE  CursorShown(Box(0, 0, 0), width)
BY ScrollAssumption DEF ScrollAssumption, CursorShown, Box

LEMMA ResizeJumpInv ==
    ASSUME MatchInv, NEW size \in Screens, ResizeJump(size)
    PROVE  MatchInv' /\ BoxFollows
<1> DEFINE height == MatchesHeight(size)
           at == Rescroll(MatchPlace, height)
<1>1. /\ matches_height' = height /\ edit_width' = size.width - 2
      /\ UNCHANGED <<matches, box>>
  BY DEF ResizeJump
<1>2. height \in Nat \ {0} /\ edit_width' \in Int
  BY <1>1, MatchesHeightPos
<1>3. match_i' = at.sel /\ match_scroll' = at.scroll
  BY DEF ResizeJump
<1>4. /\ MatchPlace \in AnyPlace
      /\ MatchPlace.sel \in Int /\ MatchPlace.scroll \in Int
  BY DEF MatchInv, Fits, AnyPlace
<1>5. at \in AnyPlace /\ (matches # <<>> => OnScreen(at, Len(matches), height))
  <2>1. CASE MatchPlace.sel - MatchPlace.scroll >= height
    <3>1. at = [sel |-> MatchPlace.sel, scroll |-> MatchPlace.sel - height + 1]
      BY <2>1 DEF Rescroll, At
    <3>2. at \in AnyPlace
      BY <1>2, <1>4, <3>1 DEF AnyPlace
    <3>3. ASSUME matches # <<>> PROVE OnScreen(at, Len(matches), height)
      <4>1. /\ MatchPlace.sel \in 0..Len(matches) - 1
            /\ MatchPlace.scroll \in 0..MatchPlace.sel
        BY <3>3, FitsBounds DEF MatchInv
      <4> HIDE DEF height, at
      <4> QED
        BY <1>2, <2>1, <3>1, <4>1 DEF OnScreen
    <3> QED
      BY <3>2, <3>3
  <2>2. CASE ~(MatchPlace.sel - MatchPlace.scroll >= height)
    <3>1. at = MatchPlace
      BY <2>2 DEF Rescroll
    <3>2. ASSUME matches # <<>> PROVE OnScreen(MatchPlace, Len(matches), height)
      <4>1. /\ MatchPlace.sel \in 0..Len(matches) - 1
            /\ MatchPlace.scroll \in 0..MatchPlace.sel
        BY <3>2, FitsBounds DEF MatchInv
      <4> HIDE DEF height, at
      <4> QED
        BY <1>2, <1>4, <2>2, <4>1 DEF OnScreen
    <3> QED
      BY <1>4, <3>1, <3>2
  <2> QED
    BY <2>1, <2>2
<1> HIDE DEF at
<1>6. MatchPlace' = at
  BY <1>3, <1>5 DEF MatchPlace, At, AnyPlace
<1>7. Fits(MatchPlace)'
  BY <1>1, <1>5, <1>6 DEF Fits
<1> QED
  BY <1>1, <1>2, <1>7 DEF MatchInv, BoxFollows

\* When the list is new, its first match is selected.
LEMMA FirstOfNew ==
    ASSUME matches' \in Seq(Nat), match_i' = 0, match_scroll' = 0,
           matches_height' \in Nat \ {0}
    PROVE  Fits(MatchPlace)'
<1>1. MatchPlace' = [sel |-> 0, scroll |-> 0]
  BY DEF MatchPlace, At
<1>2. Len(matches') \in Nat /\ (matches' # <<>> => Len(matches') > 0)
  BY EmptySeq, LenProperties
<1> QED
  BY <1>1, <1>2 DEF Fits, AnyPlace, OnScreen

LEMMA OpenJumpInv ==
    ASSUME MatchInv, NEW size \in Screens, matches' \in Seq(Nat),
           OpenJump(matches', size)
    PROVE  MatchInv' /\ BoxFollows
<1>1. /\ match_i' = 0 /\ match_scroll' = 0 /\ box' = Box(0, 0, 0)
      /\ matches_height' \in Nat \ {0} /\ edit_width' \in Int
  BY MatchesHeightPos DEF OpenJump
<1>2. box' \in AnyBox
  BY <1>1 DEF Box, AnyBox
<1> QED
  BY <1>1, <1>2, FirstOfNew, EmptyBox DEF MatchInv, BoxFollows

LEMMA CloseJumpInv ==
    ASSUME MatchInv, CloseJump
    PROVE  MatchInv' /\ BoxFollows
<1>1. /\ matches' = <<>> /\ match_i' = 0 /\ match_scroll' = 0 /\ box' = Box(0, 0, 0)
      /\ matches_height' = 1 /\ edit_width' = 0
  BY DEF CloseJump
<1>2. box' \in AnyBox /\ matches' \in Seq(Nat)
  BY <1>1 DEF Box, AnyBox
<1>3. ~(edit_width' > ScrollOffset)
  BY <1>1, ScrollAssumption DEF ScrollAssumption
<1>4. MatchInv'
  BY <1>1, <1>2, FirstOfNew DEF MatchInv
<1> QED
  BY <1>3, <1>4 DEF BoxFollows

LEMMA EditSearchInv ==
    ASSUME MatchInv, NEW key \in EditKeys, NEW word \in 0..box.i, matches' \in Seq(Nat),
           EditSearch(key, word, matches')
    PROVE  MatchInv' /\ BoxFollows
<1>1. /\ box' = ScrollBox(Typed(box, key, word), edit_width)
      /\ UNCHANGED <<matches_height, edit_width>>
  BY DEF EditSearch, EditText
<1>2. Typed(box, key, word) \in AnyBox
  BY TypedBox DEF MatchInv
<1>3. /\ box' \in AnyBox
      /\ edit_width' > ScrollOffset => CursorShown(box', edit_width')
  BY <1>1, <1>2, ScrolledBox DEF MatchInv
<1>4. Fits(MatchPlace)'
  <2>1. CASE ChangesText(key, word)
    BY <1>1, <2>1, FirstOfNew DEF EditSearch, NewMatches, MatchInv
  <2>2. CASE ~ChangesText(key, word)
    <3>1. UNCHANGED <<matches, match_i, match_scroll, matches_height>>
      BY <1>1, <2>2 DEF EditSearch
    <3> QED
      BY <3>1 DEF MatchInv, Fits, MatchPlace
  <2> QED
    BY <2>1, <2>2
<1> QED
  BY <1>1, <1>3, <1>4 DEF MatchInv, BoxFollows

LEMMA JumpNextInv ==
    ASSUME MatchInv, [JumpNext]_jump_vars
    PROVE  MatchInv' /\ BoxFollows
<1>1. CASE MoveMatchSelection
  <2>1. box' = box
    BY <1>1 DEF MoveMatchSelection, MoveMatch
  <2> QED
    BY <1>1, <2>1, MoveMatchSelectionInv DEF BoxFollows
<1>2. CASE \E size \in Screens : ResizeJump(size)
  BY <1>2, ResizeJumpInv
<1>3. CASE /\ matches' \in Seq(Nat)
           /\ \/ \E size \in Screens : OpenJump(matches', size)
              \/ \E key \in EditKeys, word \in 0..box.i : EditSearch(key, word, matches')
  BY <1>3, OpenJumpInv, EditSearchInv
<1>4. CASE CloseJump
  BY <1>4, CloseJumpInv
<1>5. CASE UNCHANGED jump_vars
  BY <1>5 DEF jump_vars, MatchInv, Fits, MatchPlace, BoxFollows
<1> QED
  BY <1>1, <1>2, <1>3, <1>4, <1>5 DEF JumpNext

LEMMA JumpClosedInv == JumpClosed => MatchInv
<1> SUFFICES ASSUME JumpClosed PROVE MatchInv
  OBVIOUS
<1>1. box \in AnyBox
  BY DEF JumpClosed, Box, AnyBox
<1>2. Fits(MatchPlace)
  BY DEF JumpClosed, MatchPlace, At, Fits, AnyPlace
<1> QED
  BY <1>1, <1>2 DEF JumpClosed, MatchInv

LEMMA MatchInvariant == JumpSpec => []MatchInv
<1>1. MatchInv /\ [JumpNext]_jump_vars => MatchInv'
  BY JumpNextInv
<1> QED
  BY <1>1, JumpClosedInv, PTL DEF JumpSpec

-------------------------------------------------------------------------------
\* Whatever is typed, found and resized, a match is selected and highlighted
\* as long as there is one (menuconfig.py: _jump_to_dialog, whose selection
\* may leave the list, but only when the list is empty).
THEOREM SelectedMatchOnScreen == JumpSpec => []MatchOnScreen
BY MatchInvariant, MatchInvImpliesMatchOnScreen, PTL

\* Every key that changes the text or moves the cursor leaves the cursor in
\* the edit box, if the box is wider than the scroll offset (menuconfig.py:
\* _edit_text).
THEOREM CursorStaysInBox == JumpSpec => CursorInBox
<1>1. MatchInv /\ [JumpNext]_jump_vars => [BoxFollows]_jump_vars
  BY JumpNextInv
<1> QED
  BY <1>1, MatchInvariant, PTL DEF JumpSpec, CursorInBox, BoxFollows

-------------------------------------------------------------------------------
(* The whole interface of Menuconfig: it lists and searches as MenuList and  *)
(* JumpTo say.  What a key makes of the globals is followed through the      *)
(* functions it calls, each of which takes them and gives new ones.          *)

UIFields == {"kc", "cur_menu", "shown", "at", "rows", "show_all", "changed", "raised"}

\* What u lists is what its values and mode say, but for a list that is stale.
Current(u) ==
    \/ u.shown = shown_nodes(u.kc, u.cur_menu, u.show_all)
    \/ /\ u.show_all
       /\ u.shown = shown_nodes(u.kc, u.cur_menu, FALSE)
       /\ ToSet(u.shown) \cap ToSet(shown_nodes(u.kc, u.cur_menu, TRUE)) = {}

\* NodesKnown of the Kconfig object k
Known(k) ==
    /\ k.final = Trees[conf]
    /\ \A menu \in k.final.tree.menu, all \in BOOLEAN :
           shown_nodes(k, menu, all) \in Seq(NodesIn(k.final.tree))
    /\ \A n \in NodesIn(k.final.tree) \ {TopNode} : parent_menu(k, n) \in k.final.tree.menu
    /\ searchable(k) \in Seq(NodesIn(k.final.tree) \ {TopNode})
    /\ \A menu \in k.final.tree.menu : KindOf(k, menu) = "choice" =>
           LET sel == selection(k, ItemOf(k, menu)).v
           IN  sel = NoItem \/ k.final.nodes[sel] \in Seq(NodesIn(k.final.tree))

TreeNodes == NodesIn(Trees[conf].tree)
TreeMenus == Trees[conf].tree.menu
Lists == Seq(TreeNodes) \ {<<>>}

\* Globals that are in a menu, and those that also list it
InMenu(u) ==
    /\ DOMAIN u = UIFields
    /\ DOMAIN u.at = {"sel", "scroll"}
    /\ Known(u.kc)
    /\ u.cur_menu \in TreeMenus
    /\ u.show_all \in BOOLEAN

Ready(u) == InMenu(u) /\ u.shown \in Lists /\ Current(u)

Indices(u) == 0..Len(u.shown) - 1

\* How the list of u can follow from the list on the screen
Kept(u) == u.shown = shown /\ u.at = Place /\ u.rows = parent_screen_rows
Updated(u) ==
    \E i \in Indices(u) : u.at = OnRow(i, Row) /\ u.rows = parent_screen_rows
Entered(u) ==
    \E i \in Indices(u) : /\ u.at = CenterVertically(i, Len(u.shown), menu_height)
                          /\ u.rows = Append(parent_screen_rows, Row)
LeftMenu(u) ==
    \E i \in Indices(u) : /\ u.at = LeaveAt(u.shown, i, parent_screen_rows)
                          /\ u.rows = WithoutLast(parent_screen_rows)
Jumped(u) ==
    \E i \in Indices(u) : /\ u.at = CenterVertically(i, Len(u.shown), menu_height)
                          /\ u.rows = <<>>

LEMMA KnownNow == NodesKnown <=> Known(kc)
BY DEF NodesKnown, Known, NodesOfTree, Menus, Tree

LEMMA MenusAreNodes ==
    ASSUME conf \in DOMAIN Trees
    PROVE  /\ TreeNodes \subseteq Nat
           /\ TopNode \in TreeMenus
           /\ TreeMenus \subseteq TreeNodes
           /\ \A n \in TreeNodes :
                  Trees[conf].tree.kind[n] \in {"choice", "menu"} => n \in TreeMenus
BY TreesAssumption DEF TreesAssumption, TreeNodes, TreeMenus

\* What is known of the object of globals, in terms of the one menu tree
LEMMA KnownTree ==
    ASSUME NEW k, Known(k)
    PROVE  /\ \A menu \in TreeMenus, all \in BOOLEAN : shown_nodes(k, menu, all) \in Seq(TreeNodes)
           /\ \A n \in TreeNodes \ {TopNode} : parent_menu(k, n) \in TreeMenus
           /\ searchable(k) \in Seq(TreeNodes \ {TopNode})
           /\ \A menu : IsMenuconfig(k, menu) <=> menu \in TreeMenus
           /\ \A n : KindOf(k, n) = Trees[conf].tree.kind[n]
BY DEF Known, TreeNodes, TreeMenus, IsMenuconfig, KindOf, Tree

LEMMA IndexInList ==
    ASSUME NEW S, NEW nodes \in Seq(S), NEW n \in ToSet(nodes)
    PROVE  /\ IndexIn(nodes, n) \in 0..Len(nodes) - 1
           /\ nodes # <<>>
<1>1. PICK j \in DOMAIN nodes : nodes[j] = n
  BY DEF ToSet
<1>2. DOMAIN nodes = 1..Len(nodes) /\ Len(nodes) \in Nat
  BY LenProperties
<1>3. IndexIn(nodes, n) = (CHOOSE i \in DOMAIN nodes : nodes[i] = n) - 1
  BY DEF IndexIn
<1>4. (CHOOSE i \in DOMAIN nodes : nodes[i] = n) \in DOMAIN nodes
  BY <1>1
<1>5. IndexIn(nodes, n) \in 0..Len(nodes) - 1
  <2> DEFINE c == CHOOSE i \in DOMAIN nodes : nodes[i] = n
  <2>1. c \in 1..Len(nodes) /\ IndexIn(nodes, n) = c - 1
    BY <1>2, <1>3, <1>4
  <2> HIDE DEF c
  <2> QED
    BY <1>2, <2>1
<1>6. nodes # <<>>
  BY <1>1, <1>2, EmptySeq
<1> QED
  BY <1>5, <1>6

-------------------------------------------------------------------------------
\* Sets of places have a first and a last one.

NatLess == {ss \in Nat \X Nat : ss[1] < ss[2]}

LEMMA FirstPlace ==
    ASSUME NEW P, P \subseteq Nat, P # {}
    PROVE  Min(P) \in P
<1>1. IsWellFoundedOn(NatLess, Nat)
  BY NatLessThanWellFounded DEF OpToRel, NatLess
<1>2. PICK m \in P : \A n \in P : <<n, m>> \notin NatLess
  BY <1>1, WFMin
<1>3. ASSUME NEW n \in P PROVE m <= n
  <2>1. m \in Nat /\ n \in Nat /\ ~(n < m)
    BY <1>2 DEF NatLess
  <2> QED
    BY <2>1
<1> QED
  BY <1>2, <1>3 DEF Min

LEMMA LastPlace ==
    ASSUME NEW n \in Nat, NEW P, P \subseteq 1..n, P # {}
    PROVE  Max(P) \in P
<1> DEFINE Q == {n - p : p \in P}
<1>1. Q \subseteq Nat /\ Q # {}
  <2>1. ASSUME NEW p \in P PROVE n - p \in Nat
    BY p \in 1..n
  <2> QED
    BY <2>1
<1>2. IsWellFoundedOn(NatLess, Nat)
  BY NatLessThanWellFounded DEF OpToRel, NatLess
<1>3. PICK q \in Q : \A r \in Q : <<r, q>> \notin NatLess
  BY <1>1, <1>2, WFMin
<1>4. PICK m \in P : q = n - m
  OBVIOUS
<1>5. ASSUME NEW p \in P PROVE m >= p
  <2>1. n - p \in Q /\ n - p \in Nat /\ q \in Nat
    BY <1>1
  <2>2. ~(n - p < q)
    BY <1>3, <2>1 DEF NatLess
  <2> QED
    BY <1>4, <2>2
<1> QED
  BY <1>4, <1>5 DEF Max

-------------------------------------------------------------------------------
\* The functions of the interface

\* _select_selected_choice_sym gives an index of the list, if it is given one.
LEMMA ChoiceIndexIn ==
    ASSUME NEW k, Known(k), NEW menu \in TreeMenus, NEW nodes \in Seq(TreeNodes),
           NEW i \in 0..Len(nodes) - 1
    PROVE  ChoiceIndex(k, menu, nodes, i) \in 0..Len(nodes) - 1
<1> DEFINE sel == selection(k, ItemOf(k, menu)).v
           places == IF sel = NoItem THEN <<>> ELSE k.final.nodes[sel]
           listed == {j \in DOMAIN places : places[j] \in ToSet(nodes)}
<1>1. CASE KindOf(k, menu) # "choice"
  BY <1>1 DEF ChoiceIndex
<1>2. CASE KindOf(k, menu) = "choice" /\ listed = {}
  BY <1>2 DEF ChoiceIndex, IndexOfSymbol
<1>3. CASE KindOf(k, menu) = "choice" /\ listed # {}
  <2>1. places \in Seq(TreeNodes)
    <3>1. sel = NoItem \/ k.final.nodes[sel] \in Seq(TreeNodes)
      BY <1>3 DEF Known, TreeMenus, TreeNodes
    <3> QED
      BY <3>1
  <2>2. listed \subseteq Nat
    BY <2>1, LenProperties
  <2>3. Min(listed) \in listed
    BY <1>3, <2>2, FirstPlace
  <2>4. ChoiceIndex(k, menu, nodes, i) = IndexIn(nodes, places[Min(listed)])
    BY <1>3 DEF ChoiceIndex, IndexOfSymbol
  <2> QED
    BY <2>3, <2>4, IndexInList
<1> QED
  BY <1>1, <1>2, <1>3

\* _enter_menu
LEMMA EnterMenuListed ==
    ASSUME NEW u, Ready(u), Kept(u), NEW menu, CanEnter(u, menu)
    PROVE  Ready(EnterMenu(u, menu)) /\ Entered(EnterMenu(u, menu))
<1> DEFINE nodes == shown_nodes(u.kc, menu, u.show_all)
           i == ChoiceIndex(u.kc, menu, nodes, 0)
           w == EnterMenu(u, menu)
<1>1. Known(u.kc) /\ menu \in TreeMenus /\ nodes \in Lists
  BY KnownTree DEF Ready, InMenu, CanEnter, Lists
<1>2. i \in 0..Len(nodes) - 1
  <2>1. Len(nodes) \in Nat \ {0} /\ nodes \in Seq(TreeNodes)
    BY <1>1, EmptySeq, LenProperties DEF Lists
  <2> QED
    BY <1>1, <2>1, ChoiceIndexIn
<1>3. /\ w.kc = u.kc /\ w.cur_menu = menu /\ w.show_all = u.show_all /\ w.shown = nodes
      /\ DOMAIN w = UIFields
      /\ w.at = CenterVertically(i, Len(nodes), menu_height)
      /\ w.rows = Append(u.rows, RowOf(u))
  BY DEF EnterMenu, EnterListed, Ready, InMenu, UIFields
<1>4. RowOf(u) = Row
  BY DEF RowOf, Row, Kept, Place, At
<1>5. DOMAIN w.at = {"sel", "scroll"}
  BY <1>3 DEF CenterVertically, At
<1>6. Ready(w)
  BY <1>1, <1>3, <1>5 DEF Ready, InMenu, Current
<1>7. Entered(w)
  BY <1>2, <1>3, <1>4 DEF Entered, Indices, Kept
<1> QED
  BY <1>6, <1>7

\* _update_menu, when the list is that on the screen and anything else changed
LEMMA UpdateMenuListed ==
    ASSUME NEW u, InMenu(u), u.at = Place, u.rows = parent_screen_rows, ~UpdateMenu(u).raised
    PROVE  Ready(UpdateMenu(u)) /\ Updated(UpdateMenu(u))
<1> DEFINE nodes == shown_nodes(u.kc, u.cur_menu, u.show_all)
           i == IndexIn(nodes, SelNode(u))
           w == UpdateMenu(u)
<1>1. SelNode(u) \in ToSet(nodes)
  <2>1. CASE SelNode(u) \notin ToSet(nodes)
    <3>1. w = [u EXCEPT !.raised = TRUE] /\ "raised" \in DOMAIN u
      BY <2>1 DEF UpdateMenu, Relist, InMenu, UIFields
    <3>2. w.raised
      BY <3>1
    <3> QED
      BY <3>2
  <2> QED
    BY <2>1
<1>2. nodes \in Seq(TreeNodes)
  BY KnownTree DEF InMenu
<1>3. i \in 0..Len(nodes) - 1 /\ nodes \in Lists
  BY <1>1, <1>2, IndexInList DEF Lists
<1>4. w = [u EXCEPT !.shown = nodes, !.at = OnRow(i, RowOf(u))]
  BY <1>1 DEF UpdateMenu, Relist
<1>5. /\ w.kc = u.kc /\ w.cur_menu = u.cur_menu /\ w.show_all = u.show_all /\ w.shown = nodes
      /\ DOMAIN w = UIFields /\ w.rows = u.rows
      /\ w.at = OnRow(i, RowOf(u))
  BY <1>4 DEF InMenu, UIFields
<1>6. RowOf(u) = Row
  BY DEF RowOf, Row, Place, At
<1>7. DOMAIN w.at = {"sel", "scroll"}
  BY <1>5 DEF OnRow, At
<1>8. Ready(w)
  BY <1>3, <1>5, <1>7 DEF Ready, InMenu, Current
<1>9. Updated(w)
  BY <1>3, <1>5, <1>6 DEF Updated, Indices
<1> QED
  BY <1>8, <1>9

\* _leave_menu, from whatever is listed
LEMMA LeaveMenuListed ==
    ASSUME conf \in DOMAIN Trees, NEW u, InMenu(u), u.rows = parent_screen_rows,
           u.cur_menu # TopNode, ~LeaveMenu(u).raised
    PROVE  Ready(LeaveMenu(u)) /\ LeftMenu(LeaveMenu(u))
<1> DEFINE parent == parent_menu(u.kc, u.cur_menu)
           nodes == shown_nodes(u.kc, parent, u.show_all)
           i == IndexIn(nodes, u.cur_menu)
           w == LeaveMenu(u)
<1>1. u.cur_menu \in ToSet(nodes)
  <2>1. CASE u.cur_menu \notin ToSet(nodes)
    <3>1. w = [u EXCEPT !.raised = TRUE] /\ "raised" \in DOMAIN u
      BY <2>1 DEF LeaveMenu, LeaveTo, InMenu, UIFields
    <3>2. w.raised
      BY <3>1
    <3> QED
      BY <3>2
  <2> QED
    BY <2>1
<1>2. parent \in TreeMenus /\ nodes \in Seq(TreeNodes)
  BY KnownTree, MenusAreNodes DEF InMenu
<1>3. i \in 0..Len(nodes) - 1 /\ nodes \in Lists
  BY <1>1, <1>2, IndexInList DEF Lists
<1>4. w = [u EXCEPT !.cur_menu = parent, !.shown = nodes, !.rows = WithoutLast(u.rows),
                    !.at = LeaveAt(nodes, i, u.rows)]
  BY <1>1 DEF LeaveMenu, LeaveTo
<1>5. /\ w.kc = u.kc /\ w.cur_menu = parent /\ w.show_all = u.show_all /\ w.shown = nodes
      /\ DOMAIN w = UIFields /\ w.rows = WithoutLast(u.rows)
      /\ w.at = LeaveAt(nodes, i, u.rows)
  BY <1>4 DEF InMenu, UIFields
<1>6. DOMAIN w.at = {"sel", "scroll"}
  BY <1>5 DEF LeaveAt, CenterVertically, OnRow, At
<1>7. Ready(w)
  BY <1>2, <1>3, <1>5, <1>6 DEF Ready, InMenu, Current
<1>8. LeftMenu(w)
  BY <1>3, <1>5 DEF LeftMenu, Indices
<1> QED
  BY <1>7, <1>8

\* What a key can make of the globals, if the Kconfig object that it leaves is
\* known
Listed(u) == Ready(u) /\ (Kept(u) \/ Updated(u) \/ Entered(u) \/ LeftMenu(u))
Fine(u) == ~u.raised /\ Known(u.kc) => Listed(u)

LEMMA ReadyFields ==
    ASSUME NEW u, Ready(u)
    PROVE  DOMAIN u = UIFields
BY DEF Ready, InMenu

\* _set_val: nothing, or another value and then the list of the menu
LEMMA SetValListed ==
    ASSUME NEW u, Ready(u), Kept(u), ~u.raised, NEW i, NEW v,
           ~SetVal(u, i, v).raised, Known(SetVal(u, i, v).kc)
    PROVE  /\ Ready(SetVal(u, i, v)) /\ (Kept(SetVal(u, i, v)) \/ Updated(SetVal(u, i, v)))
           /\ SetVal(u, i, v).rows = parent_screen_rows
<1>1. CASE v = str_value(u.kc, i).v
  BY <1>1 DEF SetVal, Kept
<1>2. CASE v # str_value(u.kc, i).v
  <2> DEFINE k == uncached(set_value(u.kc, i, v))
             x == [u EXCEPT !.kc = k, !.changed = TRUE]
  <2>1. SetVal(u, i, v) = UpdateMenu(x)
    BY <1>2, ReadyFields DEF SetVal, UIFields
  <2>2. /\ DOMAIN x = UIFields /\ x.kc = k /\ x.at = u.at /\ x.rows = u.rows
        /\ x.cur_menu = u.cur_menu /\ x.show_all = u.show_all
    BY ReadyFields DEF UIFields
  <2>3. UpdateMenu(x).kc = x.kc
    BY <2>2 DEF UpdateMenu, Relist, UIFields
  <2>4. InMenu(x) /\ x.at = Place /\ x.rows = parent_screen_rows
    BY <2>1, <2>2, <2>3 DEF InMenu, Ready, Kept
  <2> HIDE DEF x
  <2>5. Ready(UpdateMenu(x)) /\ Updated(UpdateMenu(x))
    BY <2>1, <2>4, UpdateMenuListed
  <2> QED
    BY <2>1, <2>5 DEF Updated
<1> QED
  BY <1>1, <1>2

LEMMA LeaveMenuKeeps ==
    ASSUME NEW u
    PROVE  LeaveMenu(u).kc = u.kc
BY DEF LeaveMenu, LeaveTo

\* The end of _change_node, after nothing or a new list
LEMMA AfterChangeListed ==
    ASSUME conf \in DOMAIN Trees, NEW u, NEW n,
           ~u.raised /\ Known(u.kc) =>
               Ready(u) /\ (Kept(u) \/ Updated(u)) /\ u.rows = parent_screen_rows
    PROVE  Fine(AfterChange(u, n))
<1> SUFFICES ASSUME ~AfterChange(u, n).raised, Known(AfterChange(u, n).kc)
             PROVE  Listed(AfterChange(u, n))
  BY DEF Fine
<1>1. CASE AfterChange(u, n) = u
  BY <1>1 DEF Listed
<1>2. CASE /\ AfterChange(u, n) = LeaveMenu(u) /\ ~u.raised
  <2>1. Known(u.kc)
    BY <1>2, LeaveMenuKeeps
  <2>2. Ready(u) /\ u.rows = parent_screen_rows
    BY <1>2, <2>1
  <2>3. CASE u.cur_menu = TopNode
    BY <1>2, <2>1, <2>3 DEF LeaveMenu, Listed
  <2>4. CASE u.cur_menu # TopNode
    BY <1>2, <2>2, <2>4, LeaveMenuListed DEF Ready, Listed
  <2> QED
    BY <2>3, <2>4
<1> QED
  BY <1>1, <1>2 DEF AfterChange

\* _change_node
LEMMA ChangeNodeListed ==
    ASSUME conf \in DOMAIN Trees, NEW u, Ready(u), Kept(u), ~u.raised, NEW n, NEW typed
    PROVE  Fine(ChangeNode(u, n, typed))
<1> DEFINE v == IF HasText(u.kc, ItemOf(u.kc, n)) THEN typed ELSE next_value(u.kc, ItemOf(u.kc, n))
           i == ItemOf(u.kc, n)
           w == IF v = None THEN u ELSE SetVal(u, i, v)
<1> SUFFICES Fine(ChangeTo(u, n, v))
  BY DEF ChangeNode
<1>1. CASE v = NoValue \/ (v # None /\ check_raises(u.kc, i, v))
  <2>1. ChangeTo(u, n, v) = [u EXCEPT !.raised = TRUE] /\ "raised" \in DOMAIN u
    BY <1>1, ReadyFields DEF ChangeTo, UIFields
  <2>2. ChangeTo(u, n, v).raised
    BY <2>1
  <2> QED
    BY <2>2 DEF Fine
<1>2. CASE ~(v = NoValue \/ (v # None /\ check_raises(u.kc, i, v)))
  <2>1. ChangeTo(u, n, v) = AfterChange(w, n)
    BY <1>2 DEF ChangeTo
  <2>2. ~w.raised /\ Known(w.kc) =>
            Ready(w) /\ (Kept(w) \/ Updated(w)) /\ w.rows = parent_screen_rows
    BY SetValListed DEF Kept
  <2> HIDE DEF w
  <2> QED
    BY <2>1, <2>2, AfterChangeListed
<1> QED
  BY <1>1, <1>2

-------------------------------------------------------------------------------
\* _toggle_show_all

\* The list is as it was, or another one with a node of it on the same row.
Toggled(u, w) ==
    \/ w.shown = u.shown /\ w.at = u.at
    \/ \E i \in Indices(w) : w.at = OnRow(i, RowOf(u))

LEMMA ToggleListed ==
    ASSUME NEW u, Ready(u)
    PROVE  /\ Ready(ToggleShowAll(u)) /\ Toggled(u, ToggleShowAll(u))
           /\ ToggleShowAll(u).rows = u.rows /\ ToggleShowAll(u).raised = u.raised
           /\ ToggleShowAll(u).kc = u.kc /\ ToggleShowAll(u).cur_menu = u.cur_menu
<1> DEFINE nodes == shown_nodes(u.kc, u.cur_menu, ~u.show_all)
           stay == {j \in DOMAIN u.shown : u.shown[j] \in ToSet(nodes)}
           before == {j \in stay : j <= u.at.sel + 1}
           closest == IF before # {} THEN Max(before) ELSE Min(stay)
           i == IndexIn(nodes, u.shown[closest])
           w == ToggleShowAll(u)
<1>1. DOMAIN u = UIFields /\ u.show_all \in BOOLEAN /\ u.shown \in Lists
  BY DEF Ready, InMenu
<1>2. nodes \in Seq(TreeNodes)
  BY KnownTree DEF Ready, InMenu
<1>3. CASE stay = {}
  <2>1. w = [u EXCEPT !.show_all = TRUE]
    BY <1>3 DEF ToggleShowAll, SelectClosest
  <2>2. /\ DOMAIN w = UIFields /\ w.kc = u.kc /\ w.cur_menu = u.cur_menu
        /\ w.shown = u.shown /\ w.at = u.at /\ w.rows = u.rows /\ w.raised = u.raised
        /\ w.show_all = TRUE
    BY <1>1, <2>1 DEF UIFields
  <2>3. ToSet(u.shown) \cap ToSet(nodes) = {}
    BY <1>3 DEF ToSet
  <2>4. Current(w)
    <3>1. CASE u.show_all
      BY <2>2, <3>1 DEF Ready, Current
    <3>2. CASE ~u.show_all
      <4>1. nodes = shown_nodes(u.kc, u.cur_menu, TRUE)
        BY <3>2
      <4>2. u.shown = shown_nodes(u.kc, u.cur_menu, FALSE)
        BY <3>2, <1>1 DEF Ready, Current
      <4> QED
        BY <2>2, <2>3, <4>1, <4>2 DEF Current
    <3> QED
      BY <3>1, <3>2
  <2>5. Ready(w)
    BY <2>2, <2>4 DEF Ready, InMenu
  <2> QED
    BY <2>2, <2>5 DEF Toggled
<1>4. CASE stay # {}
  <2>1. closest \in stay
    <3>1. DOMAIN u.shown = 1..Len(u.shown) /\ Len(u.shown) \in Nat
      BY <1>1, LenProperties DEF Lists
    <3>2. stay \subseteq 1..Len(u.shown) /\ before \subseteq 1..Len(u.shown)
      BY <3>1
    <3>3. before # {} => Max(before) \in before
      BY <3>1, <3>2, LastPlace
    <3>4. stay \subseteq Nat
      BY <3>1, <3>2
    <3>5. Min(stay) \in stay
      BY <1>4, <3>4, FirstPlace
    <3> QED
      BY <3>3, <3>5
  <2> HIDE DEF closest
  <2>2. i \in 0..Len(nodes) - 1 /\ nodes \in Lists
    BY <1>2, <2>1, IndexInList DEF Lists
  <2>3. w = [u EXCEPT !.show_all = ~@, !.shown = nodes, !.at = OnRow(i, RowOf(u))]
    BY <1>4 DEF ToggleShowAll, SelectClosest, closest
  <2>4. /\ DOMAIN w = UIFields /\ w.kc = u.kc /\ w.cur_menu = u.cur_menu
        /\ w.shown = nodes /\ w.at = OnRow(i, RowOf(u)) /\ w.rows = u.rows
        /\ w.raised = u.raised /\ w.show_all = ~u.show_all
    BY <1>1, <2>3 DEF UIFields
  <2>5. DOMAIN w.at = {"sel", "scroll"} /\ w.show_all \in BOOLEAN
    BY <2>4 DEF OnRow, At
  <2>6. Ready(w)
    BY <2>2, <2>4, <2>5 DEF Ready, InMenu, Current
  <2>7. Toggled(u, w)
    BY <2>2, <2>4 DEF Toggled, Indices
  <2> QED
    BY <2>4, <2>6, <2>7
<1> QED
  BY <1>3, <1>4

\* The key that shows all
LEMMA ShowAllListed ==
    ASSUME NEW u, Ready(u), Kept(u)
    PROVE  Listed(ToggleShowAll(u))
<1> DEFINE w == ToggleShowAll(u)
<1>1. Ready(w) /\ Toggled(u, w) /\ w.rows = u.rows
  BY ToggleListed
<1> HIDE DEF w
<1>2. RowOf(u) = Row
  BY DEF RowOf, Row, Kept, Place, At
<1>3. Kept(w) \/ Updated(w)
  BY <1>1, <1>2 DEF Toggled, Kept, Updated
<1> QED
  BY <1>1, <1>3 DEF Listed, w

-------------------------------------------------------------------------------
\* _load_dialog

LEMMA LoadListed ==
    ASSUME NEW u, Ready(u), Kept(u), NEW k
    PROVE  Fine(LoadInto(u, k))
<1> DEFINE x == [u EXCEPT !.kc = uncached(k), !.changed = needs_save(k)]
           y == ShowGone(x)
<1> SUFFICES ASSUME ~LoadInto(u, k).raised, Known(LoadInto(u, k).kc)
             PROVE  Listed(LoadInto(u, k))
  BY DEF Fine
<1>1. LoadInto(u, k) = UpdateMenu(y)
  BY DEF LoadInto
<1>2. /\ DOMAIN x = UIFields /\ x.kc = uncached(k) /\ x.at = u.at /\ x.rows = u.rows
      /\ x.cur_menu = u.cur_menu /\ x.show_all = u.show_all
  BY ReadyFields DEF UIFields
<1> HIDE DEF x
<1>3. /\ DOMAIN y = UIFields /\ y.kc = x.kc /\ y.at = u.at /\ y.rows = u.rows
      /\ y.cur_menu = u.cur_menu /\ y.show_all \in BOOLEAN
  <2>1. u.show_all \in BOOLEAN
    BY DEF Ready, InMenu
  <2> QED
    BY <1>2, <2>1 DEF ShowGone, UIFields
<1>4. UpdateMenu(y).kc = y.kc
  BY <1>3 DEF UpdateMenu, Relist, UIFields
<1>5. InMenu(y) /\ y.at = Place /\ y.rows = parent_screen_rows
  BY <1>1, <1>3, <1>4 DEF InMenu, Ready, Kept
<1> HIDE DEF y
<1> QED
  BY <1>1, <1>5, UpdateMenuListed DEF Listed

-------------------------------------------------------------------------------
\* _jump_to

\* In the list of a menu that was jumped to, with a node selected
Landed(u) == Ready(u) /\ u.rows = <<>> /\ u.at.sel \in Indices(u)

LEMMA LandListed ==
    ASSUME NEW u, InMenu(u), NEW target, ~LandIn(u, target).raised
    PROVE  Landed(LandIn(u, target))
<1> DEFINE w == LandIn(u, target)
<1>1. PICK all \in BOOLEAN : w = Land(u, target, all, shown_nodes(u.kc, u.cur_menu, all))
  BY DEF LandIn
<1> DEFINE nodes == shown_nodes(u.kc, u.cur_menu, all)
           i == IndexIn(nodes, target)
<1>2. target \in ToSet(nodes)
  <2>1. CASE target \notin ToSet(nodes)
    <3>1. w = [u EXCEPT !.raised = TRUE] /\ "raised" \in DOMAIN u
      BY <1>1, <2>1 DEF Land, InMenu, UIFields
    <3>2. w.raised
      BY <3>1
    <3> QED
      BY <3>2
  <2> QED
    BY <2>1
<1>3. w = [u EXCEPT !.show_all = all, !.shown = nodes, !.rows = <<>>, !.at.sel = i]
  BY <1>1, <1>2 DEF Land
<1>4. nodes \in Seq(TreeNodes)
  BY KnownTree DEF InMenu
<1>5. i \in 0..Len(nodes) - 1 /\ nodes \in Lists
  BY <1>2, <1>4, IndexInList DEF Lists
<1> HIDE DEF i, nodes, w
<1>6. /\ w.kc = u.kc /\ w.cur_menu = u.cur_menu /\ w.show_all = all /\ w.shown = nodes
      /\ DOMAIN w = UIFields /\ w.rows = <<>>
      /\ w.at = [u.at EXCEPT !.sel = i]
  BY <1>3 DEF InMenu, UIFields
<1>7. DOMAIN w.at = {"sel", "scroll"} /\ w.at.sel = i
  BY <1>6 DEF InMenu
<1>8. Ready(w)
  BY <1>5, <1>6, <1>7 DEF Ready, InMenu, Current, nodes
<1> QED
  BY <1>5, <1>6, <1>7, <1>8 DEF Landed, Indices, w

LEMMA LandAtVisibleListed ==
    ASSUME NEW u, Landed(u), NEW showedAll
    PROVE  Landed(LandAtVisible(u, showedAll))
<1>1. CASE LandAtVisible(u, showedAll) = u
  BY <1>1
<1>2. CASE LandAtVisible(u, showedAll) = ToggleShowAll(u)
  <2> DEFINE w == ToggleShowAll(u)
  <2>1. Ready(w) /\ Toggled(u, w) /\ w.rows = <<>>
    BY ToggleListed DEF Landed
  <2> HIDE DEF w
  <2>2. \A i : OnRow(i, RowOf(u)).sel = i
    BY DEF OnRow, At
  <2>3. w.at.sel \in Indices(w)
    BY <2>1, <2>2 DEF Toggled, Landed, Indices
  <2> QED
    BY <1>2, <2>1, <2>3 DEF Landed, w
<1> QED
  BY <1>1, <1>2 DEF LandAtVisible

\* The node that is selected in the end is in the middle.
LEMMA CenteredListed ==
    ASSUME NEW u, Landed(u), NEW i \in Indices(u)
    PROVE  /\ Ready(Centered(u, i)) /\ Jumped(Centered(u, i))
           /\ Centered(u, i).raised = u.raised
<1> DEFINE w == Centered(u, i)
           at == CenterVertically(i, Len(u.shown), menu_height)
<1>1. DOMAIN at = {"sel", "scroll"}
  BY DEF CenterVertically, At
<1> HIDE DEF at
<1>2. /\ DOMAIN w = UIFields /\ w.kc = u.kc /\ w.cur_menu = u.cur_menu
      /\ w.shown = u.shown /\ w.at = at /\ w.rows = <<>>
      /\ w.show_all = u.show_all /\ w.raised = u.raised
  BY DEF Centered, Landed, Ready, InMenu, UIFields, at
<1>3. Ready(w)
  BY <1>1, <1>2 DEF Landed, Ready, InMenu, Current
<1>4. Jumped(w)
  BY <1>2 DEF Jumped, Indices, at
<1> QED
  BY <1>2, <1>3, <1>4

\* What was raised on the way stays raised.
LEMMA RaisedStays ==
    ASSUME NEW u, u.raised
    PROVE  /\ \A all : LandAtVisible(u, all).raised
           /\ CenteredOnSel(u).raised /\ JumpInto(u).raised
BY DEF LandAtVisible, ToggleShowAll, SelectClosest, CenteredOnSel, JumpInto, Centered

LEMMA JumpListed ==
    ASSUME conf \in DOMAIN Trees, NEW u, Ready(u), NEW node \in TreeNodes \ {TopNode},
           ~JumpToNode(u, node).raised
    PROVE  Ready(JumpToNode(u, node)) /\ Jumped(JumpToNode(u, node))
<1>1. CASE KindOf(u.kc, node) \in {"choice", "menu"} /\ ListOf(u.kc, node) # <<>>
  <2> DEFINE x == [u EXCEPT !.cur_menu = node]
             l == LandIn(x, Head(ListOf(u.kc, node)))
             v == LandAtVisible(l, u.show_all)
             w == JumpInto(v)
  <2>1. node \in TreeMenus
    BY <1>1, KnownTree, MenusAreNodes DEF Ready, InMenu
  <2>2. InMenu(x)
    BY <2>1 DEF Ready, InMenu, UIFields
  <2>3. JumpToNode(u, node) = w
    BY <1>1 DEF JumpToNode
  <2> HIDE DEF x
  <2>4. ~l.raised
    <3> HIDE DEF l
    <3>1. l.raised => w.raised
      BY RaisedStays
    <3> QED
      BY <2>3, <3>1
  <2>5. Landed(l)
    BY <2>2, <2>4, LandListed
  <2> HIDE DEF l
  <2>6. Landed(v)
    BY <2>5, LandAtVisibleListed
  <2> HIDE DEF v
  <2>7. ChoiceIndex(v.kc, v.cur_menu, v.shown, v.at.sel) \in Indices(v)
    BY <2>6, ChoiceIndexIn DEF Landed, Ready, InMenu, Lists, Indices
  <2> QED
    BY <2>3, <2>6, <2>7, CenteredListed DEF JumpInto
<1>2. CASE ~(KindOf(u.kc, node) \in {"choice", "menu"} /\ ListOf(u.kc, node) # <<>>)
  <2> DEFINE x == [u EXCEPT !.cur_menu = parent_menu(u.kc, node)]
             l == LandIn(x, node)
  <2>1. parent_menu(u.kc, node) \in TreeMenus
    BY KnownTree DEF Ready, InMenu
  <2>2. InMenu(x)
    BY <2>1 DEF Ready, InMenu, UIFields
  <2>3. JumpToNode(u, node) = CenteredOnSel(l)
    BY <1>2 DEF JumpToNode
  <2> HIDE DEF x
  <2>4. ~l.raised
    <3> HIDE DEF l
    <3> QED
      BY <2>3, RaisedStays
  <2>5. Landed(l)
    BY <2>2, <2>4, LandListed
  <2> HIDE DEF l
  <2> QED
    BY <2>3, <2>5, CenteredListed DEF CenteredOnSel, Landed
<1> QED
  BY <1>1, <1>2

-------------------------------------------------------------------------------
(* The inductive invariant of the interface: besides the windows, the menu   *)
(* that is displayed and the nodes that are found are in the tree, and the   *)
(* list is that of the menu, but for one that is stale.                      *)
MenuInv ==
    /\ conf \in DOMAIN Trees
    /\ screen \in Screens
    /\ cur_menu \in TreeMenus
    /\ show_all \in BOOLEAN
    /\ show_help \in BOOLEAN
    /\ shown \in Lists
    /\ shown = shown_nodes(kc, cur_menu, show_all) \/ ListStale
    /\ matches \in Seq(TreeNodes \ {TopNode})
    /\ ListInv
    /\ MatchInv

\* What both displays promise of a step
Displays == [ListNext]_list_vars /\ [JumpNext]_jump_vars

LEMMA ListsAreNodes ==
    ASSUME conf \in DOMAIN Trees
    PROVE  Lists \subseteq SomeNodes /\ Seq(TreeNodes \ {TopNode}) \subseteq Seq(Nat)
BY MenusAreNodes DEF Lists, SomeNodes

LEMMA UIReady ==
    ASSUME MenuInv, NodesKnown
    PROVE  Ready(UI) /\ Kept(UI)
BY KnownNow DEF MenuInv, UI, Ready, InMenu, Kept, Current, ListStale, UIFields, Place, At

LEMMA InitMenuInv == Init /\ NodesKnown => MenuInv /\ ListStart /\ JumpClosed
<1> SUFFICES ASSUME Init, NodesKnown PROVE MenuInv /\ ListStart /\ JumpClosed
  OBVIOUS
<1>1. conf \in DOMAIN Trees /\ screen \in Screens
  BY MenuconfigAssumption DEF Init, MenuconfigAssumption
<1>2. cur_menu = TopNode /\ cur_menu \in TreeMenus /\ show_all \in BOOLEAN
  BY <1>1, MenusAreNodes DEF Init
<1>3. shown = shown_nodes(kc, cur_menu, show_all) /\ shown # <<>>
  BY <1>2 DEF Init, ListInit
<1>4. shown \in Lists
  BY <1>2, <1>3, KnownNow, KnownTree DEF Lists
<1>5. shown \in SomeNodes
  BY <1>1, <1>4, ListsAreNodes
<1>6. ListInit(shown, screen)
  BY <1>2, <1>3 DEF Init
<1>7. ListStart /\ ListInv
  BY <1>1, <1>5, <1>6, InitListInv DEF ListStart
<1>8. JumpClosed /\ MatchInv
  BY JumpClosedInv DEF Init
<1>9. show_help \in BOOLEAN
  BY <1>6 DEF ListInit
<1>10. matches \in Seq(TreeNodes \ {TopNode})
  BY <1>8, EmptySeq DEF JumpClosed
<1> QED
  BY <1>1, <1>2, <1>3, <1>4, <1>7, <1>8, <1>9, <1>10 DEF MenuInv

\* The list of globals that a key leaves, as MenuList has it
LEMMA ListedStep ==
    ASSUME MenuInv, NEW u, Listed(u), shown' = u.shown, GoTo(u.at),
           parent_screen_rows' = u.rows, UNCHANGED <<menu_height, show_help>>
    PROVE  [ListNext]_list_vars
<1>1. u.shown \in SomeNodes
  BY ListsAreNodes DEF MenuInv, Listed, Ready
<1>2. CASE Kept(u)
  BY <1>2 DEF Kept, Place, At, GoTo, list_vars
<1>3. CASE Updated(u)
  <2>1. PICK i \in Indices(u) : u.at = OnRow(i, Row) /\ u.rows = parent_screen_rows
    BY <1>3 DEF Updated
  <2>2. sel_node_i' = i
    BY <2>1 DEF GoTo, OnRow, At
  <2>3. UpdateList(shown', sel_node_i')
    BY <2>1, <2>2 DEF UpdateList, Display
  <2> QED
    BY <1>1, <2>2, <2>3 DEF ListNext, Indices
<1>4. CASE Entered(u)
  <2>1. PICK i \in Indices(u) : /\ u.at = CenterVertically(i, Len(u.shown), menu_height)
                                /\ u.rows = Append(parent_screen_rows, Row)
    BY <1>4 DEF Entered
  <2>2. sel_node_i' = i
    BY <2>1 DEF GoTo, CenterVertically, At
  <2>3. EnterList(shown', sel_node_i')
    BY <2>1, <2>2 DEF EnterList, Display
  <2> QED
    BY <1>1, <2>2, <2>3 DEF ListNext, Indices
<1>5. CASE LeftMenu(u)
  <2>1. PICK i \in Indices(u) : /\ u.at = LeaveAt(u.shown, i, parent_screen_rows)
                                /\ u.rows = WithoutLast(parent_screen_rows)
    BY <1>5 DEF LeftMenu
  <2>2. sel_node_i' = i
    BY <2>1 DEF GoTo, LeaveAt, CenterVertically, OnRow, At
  <2>3. LeaveList(shown', sel_node_i')
    BY <2>1, <2>2 DEF LeaveList, Display
  <2> QED
    BY <1>1, <2>2, <2>3 DEF ListNext, Indices
<1> QED
  BY <1>2, <1>3, <1>4, <1>5 DEF Listed

\* A key of the main display that leaves the globals fine
LEMMA KeyStep ==
    ASSUME MenuInv, NodesKnown', NEW u, Fine(u), Become(u, menu_height),
           UNCHANGED <<conf, screen, jump_vars>>
    PROVE  MenuInv' /\ Displays
<1>1. [JumpNext]_jump_vars
  OBVIOUS
<1>2. MatchInv' /\ matches' = matches
  BY JumpNextInv DEF MenuInv, jump_vars
<1>3. CASE u.raised
  <2>1. UNCHANGED <<conf, kc, screen, cur_menu, show_all, list_vars>>
    BY <1>3 DEF Become
  <2>2. ListInv'
    BY <2>1, ListNextInv DEF MenuInv
  <2>3. MenuInv'
    BY <1>2, <2>1, <2>2 DEF MenuInv, TreeNodes, TreeMenus, Lists, ListStale, list_vars
  <2> QED
    BY <1>1, <2>1, <2>3 DEF Displays
<1>4. CASE ~u.raised
  <2>1. /\ kc' = u.kc /\ cur_menu' = u.cur_menu /\ show_all' = u.show_all
        /\ shown' = u.shown /\ GoTo(u.at) /\ parent_screen_rows' = u.rows
        /\ UNCHANGED <<menu_height, show_help>>
    BY <1>4 DEF Become
  <2>2. Known(u.kc)
    <3>1. Known(kc)'
      BY DEF NodesKnown, Known, NodesOfTree, Menus, Tree
    <3> QED
      BY <2>1, <3>1 DEF Known
  <2>3. Listed(u)
    BY <1>4, <2>2 DEF Fine
  <2>4. [ListNext]_list_vars
    BY <2>1, <2>3, ListedStep
  <2>5. ListInv'
    BY <2>4, ListNextInv DEF MenuInv
  <2>6. cur_menu' \in TreeMenus /\ shown' \in Lists /\ show_all' \in BOOLEAN
    BY <2>1, <2>3 DEF Listed, Ready, InMenu
  <2>7. shown' = shown_nodes(kc', cur_menu', show_all') \/ ListStale'
    BY <2>1, <2>3 DEF Listed, Ready, Current, ListStale
  <2>8. MenuInv'
    BY <1>2, <2>1, <2>5, <2>6, <2>7 DEF MenuInv, TreeNodes, TreeMenus, Lists
  <2> QED
    BY <1>1, <2>4, <2>8 DEF Displays
<1> QED
  BY <1>3, <1>4

\* A step that changes neither the values nor the menu
LEMMA SameMenuStep ==
    ASSUME MenuInv, UNCHANGED <<conf, kc, cur_menu, show_all, shown>>, screen' \in Screens,
           show_help' \in BOOLEAN, matches' \in Seq(TreeNodes \ {TopNode}), Displays
    PROVE  MenuInv'
<1>1. ListInv' /\ MatchInv'
  BY ListNextInv, JumpNextInv DEF MenuInv, Displays
<1> QED
  BY <1>1 DEF MenuInv, TreeNodes, TreeMenus, Lists, ListStale

-------------------------------------------------------------------------------
\* The keys of the main display

LEMMA MoveKeyStep ==
    ASSUME MenuInv, NodesKnown, MoveKey
    PROVE  MenuInv' /\ Displays
<1>1. [ListNext]_list_vars /\ [JumpNext]_jump_vars
  BY DEF MoveKey, ListNext
<1>2. UNCHANGED <<conf, kc, cur_menu, show_all, screen, matches>>
  BY DEF MoveKey, ui_vars, jump_vars
<1>3. UNCHANGED <<shown, show_help>>
  BY DEF MoveKey, MoveSelection, SelectNextEntry, SelectPrevEntry, PageDown, PageUp,
         SelectLastEntry, SelectFirstEntry, Move
<1> QED
  BY <1>1, <1>2, <1>3, SameMenuStep DEF MenuInv, Displays

\* Keys that end in _set_val, _change_node, _enter_menu, _leave_menu and so on
LEMMA KeyOf ==
    ASSUME MenuInv, NodesKnown', NEW u, Fine(u), Key(u)
    PROVE  MenuInv' /\ Displays
BY KeyStep DEF Key

LEMMA NotRaised ==
    ASSUME NodesKnown, MenuInv
    PROVE  ~UI.raised /\ UI.kc = kc /\ UI.cur_menu = cur_menu
BY DEF UI

LEMMA ChangeStep ==
    ASSUME MenuInv, NodesKnown, NodesKnown', NEW n, NEW typed, Key(ChangeNode(UI, n, typed))
    PROVE  MenuInv' /\ Displays
<1>1. Fine(ChangeNode(UI, n, typed))
  BY UIReady, NotRaised, ChangeNodeListed DEF MenuInv
<1> QED
  BY <1>1, KeyOf

LEMMA EnterStep ==
    ASSUME MenuInv, NodesKnown, NodesKnown', NEW menu, CanEnter(UI, menu),
           Key(EnterMenu(UI, menu))
    PROVE  MenuInv' /\ Displays
<1>1. Fine(EnterMenu(UI, menu))
  BY UIReady, EnterMenuListed DEF Fine, Listed
<1> QED
  BY <1>1, KeyOf

LEMMA SetTriStep ==
    ASSUME MenuInv, NodesKnown, NodesKnown', SetTri
    PROVE  MenuInv' /\ Displays
<1>1. PICK v : Key(SetVal(UI, ItemOf(kc, Selected), v))
  BY DEF SetTri
<1> DEFINE u == SetVal(UI, ItemOf(kc, Selected), v)
<1>2. Fine(u)
  BY UIReady, NotRaised, SetValListed DEF Fine, Listed
<1> HIDE DEF u
<1> QED
  BY <1>1, <1>2, KeyOf DEF u

LEMMA LeftStep ==
    ASSUME MenuInv, NodesKnown, NodesKnown', Left
    PROVE  MenuInv' /\ Displays
<1>1. UI.cur_menu # TopNode /\ Key(LeaveMenu(UI))
  BY NotRaised DEF Left
<1>2. Fine(LeaveMenu(UI))
  <2>1. InMenu(UI) /\ UI.rows = parent_screen_rows /\ conf \in DOMAIN Trees
    BY UIReady DEF Ready, Kept, MenuInv
  <2> QED
    BY <1>1, <2>1, LeaveMenuListed DEF Fine, Listed
<1> QED
  BY <1>1, <1>2, KeyOf

LEMMA ShowAllStep ==
    ASSUME MenuInv, NodesKnown, NodesKnown', ShowAll
    PROVE  MenuInv' /\ Displays
<1>1. Fine(ToggleShowAll(UI))
  BY UIReady, ShowAllListed DEF Fine
<1> QED
  BY <1>1, KeyOf DEF ShowAll

LEMMA LoadStep ==
    ASSUME MenuInv, NodesKnown, NodesKnown', Load
    PROVE  MenuInv' /\ Displays
<1>1. PICK f \in FileNames : Become(LoadInto(UI, Loaded(kc, files[f])), menu_height)
  BY DEF Load
<1> DEFINE u == LoadInto(UI, Loaded(kc, files[f]))
<1>2. Fine(u)
  BY UIReady, LoadListed
<1> HIDE DEF u
<1>3. Become(u, menu_height)
  BY <1>1 DEF u
<1> QED
  BY <1>2, <1>3, KeyStep DEF Load

\* Steps that leave the main display and the search as they are
LEMMA StillStep ==
    ASSUME MenuInv, UNCHANGED <<conf, kc, cur_menu, show_all, screen, list_vars, jump_vars>>
    PROVE  MenuInv' /\ Displays
<1>1. UNCHANGED <<shown, show_help, matches>>
  BY DEF list_vars, jump_vars
<1> QED
  BY <1>1, SameMenuStep DEF MenuInv, Displays

\* _resize_main
LEMMA ResizeMainStep ==
    ASSUME MenuInv, UNCHANGED <<conf, kc, cur_menu, show_all>>, screen' \in Screens,
           NEW help \in BOOLEAN, ResizeMain(screen', help),
           matches' \in Seq(TreeNodes \ {TopNode}), [JumpNext]_jump_vars
    PROVE  MenuInv' /\ Displays
<1>1. [ListNext]_list_vars
  BY DEF ListNext
<1>2. shown' = shown /\ show_help' \in BOOLEAN
  BY DEF ResizeMain
<1> QED
  BY <1>1, <1>2, SameMenuStep DEF MenuInv, Displays

LEMMA ResizeStep ==
    ASSUME MenuInv, Resize
    PROVE  MenuInv' /\ Displays
<1>1. screen' \in Screens
  BY MenuconfigAssumption DEF Resize, MenuconfigAssumption, MenuInv
<1>2. matches' = matches /\ UNCHANGED jump_vars
  BY DEF Resize, jump_vars
<1> QED
  BY <1>1, <1>2, ResizeMainStep DEF Resize, MenuInv

LEMMA ToggleHelpStep ==
    ASSUME MenuInv, ToggleHelp
    PROVE  MenuInv' /\ Displays
<1>1. UNCHANGED <<conf, kc, cur_menu, show_all, screen, matches, jump_vars>>
  BY DEF ToggleHelp, ui_vars, jump_vars
<1>2. PICK help \in BOOLEAN : help = ~show_help
  OBVIOUS
<1>3. ResizeMain(screen', help)
  BY <1>1, <1>2 DEF ToggleHelp
<1> QED
  BY <1>1, <1>2, <1>3, ResizeMainStep DEF MenuInv

LEMMA MainKeyStep ==
    ASSUME MenuInv, NodesKnown, NodesKnown', MainKey
    PROVE  MenuInv' /\ Displays
<1>1. CASE MoveKey  BY <1>1, MoveKeyStep
<1>2. CASE Space  BY <1>2, ChangeStep DEF Space
<1>3. CASE SpaceEnters  BY <1>3, EnterStep DEF SpaceEnters
<1>4. CASE Right  BY <1>4, EnterStep DEF Right
<1>5. CASE RightChanges  BY <1>5, ChangeStep DEF RightChanges
<1>6. CASE SetTri  BY <1>6, SetTriStep
<1>7. CASE Left  BY <1>7, LeftStep
<1>8. CASE ShowAll  BY <1>8, ShowAllStep
<1>9. CASE Load  BY <1>9, LoadStep
<1>10. CASE Save \/ SaveMin \/ Quit  BY <1>10, StillStep DEF Save, SaveMin, Quit
<1>11. CASE Resize  BY <1>11, ResizeStep
<1>12. CASE ToggleHelp  BY <1>12, ToggleHelpStep
<1> QED
  BY <1>1, <1>2, <1>3, <1>4, <1>5, <1>6, <1>7, <1>8, <1>9, <1>10, <1>11, <1>12 DEF MainKey

-------------------------------------------------------------------------------
\* The full-screen dialogs

\* Steps of a dialog over the main display
LEMMA CoveredStep ==
    ASSUME MenuInv, MenuCovered, screen' \in Screens,
           matches' \in Seq(TreeNodes \ {TopNode}), [JumpNext]_jump_vars
    PROVE  MenuInv' /\ Displays
<1>1. UNCHANGED <<conf, kc, cur_menu, show_all, shown, show_help>> /\ [ListNext]_list_vars
  BY DEF MenuCovered, SameMenu, list_vars
<1> QED
  BY <1>1, SameMenuStep DEF MenuInv, Displays

\* A dialog that is closed and uncovers the main display
LEMMA UncoveredStep ==
    ASSUME MenuInv, Uncovered, UNCHANGED screen,
           matches' \in Seq(TreeNodes \ {TopNode}), [JumpNext]_jump_vars
    PROVE  MenuInv' /\ Displays
<1>1. UNCHANGED <<conf, kc, cur_menu, show_all>> /\ ResizeMain(screen', show_help)
  BY DEF Uncovered, SameMenu
<1> QED
  BY <1>1, ResizeMainStep DEF MenuInv

LEMMA ResizedJump ==
    ASSUME MenuInv, NEW size \in Screens, ResizeJump(size)
    PROVE  matches' = matches /\ [JumpNext]_jump_vars
BY DEF ResizeJump, JumpNext

LEMMA ClosedJump ==
    ASSUME CloseJump
    PROVE  matches' \in Seq(TreeNodes \ {TopNode}) /\ [JumpNext]_jump_vars
BY EmptySeq DEF CloseJump, JumpNext

LEMMA InfoStep ==
    ASSUME MenuInv, OpenInfo \/ ResizeInfo \/ SearchInfo
    PROVE  MenuInv' /\ Displays
<1>1. MenuCovered /\ UNCHANGED jump_vars /\ matches' = matches
  BY DEF OpenInfo, ResizeInfo, SearchInfo, jump_vars
<1>2. screen' \in Screens
  BY MenuconfigAssumption DEF OpenInfo, ResizeInfo, SearchInfo, MenuconfigAssumption, MenuInv
<1> QED
  BY <1>1, <1>2, CoveredStep DEF MenuInv

LEMMA CloseInfoStep ==
    ASSUME MenuInv, CloseInfo
    PROVE  MenuInv' /\ Displays
<1>1. screen' = screen
  BY DEF CloseInfo
<1>2. CASE Uncovered /\ UNCHANGED jump_vars
  BY <1>1, <1>2, UncoveredStep DEF MenuInv, jump_vars
<1>3. CASE MenuCovered /\ ResizeJump(screen)
  BY <1>1, <1>3, ResizedJump, CoveredStep DEF MenuInv
<1> QED
  BY <1>2, <1>3 DEF CloseInfo

LEMMA OpenSearchStep ==
    ASSUME MenuInv, NodesKnown, OpenSearch
    PROVE  MenuInv' /\ Displays
<1>1. OpenJump(searchable(kc), screen) /\ MenuCovered /\ screen' = screen
  BY DEF OpenSearch
<1>2. matches' = searchable(kc)
  BY <1>1 DEF OpenJump
<1>3. matches' \in Seq(TreeNodes \ {TopNode})
  BY <1>2, KnownNow, KnownTree
<1>4. matches' \in Seq(Nat) /\ screen \in Screens
  BY <1>3, ListsAreNodes DEF MenuInv
<1>5. [JumpNext]_jump_vars
  BY <1>1, <1>2, <1>4 DEF JumpNext
<1> QED
  BY <1>1, <1>3, <1>5, CoveredStep DEF MenuInv

\* What a text matches
LEMMA FoundNodes ==
    ASSUME NodesKnown, NEW found \in SearchResults
    PROVE  found \in Seq(TreeNodes \ {TopNode})
<1>1. searchable(kc) \in Seq(TreeNodes \ {TopNode})
  BY KnownNow, KnownTree
<1>2. CASE found = searchable(kc)
  BY <1>1, <1>2
<1>3. CASE found = <<>>
  BY <1>3
<1>4. CASE \E n \in ToSet(searchable(kc)) : found = <<n>>
  <2>1. PICK n \in ToSet(searchable(kc)) : found = <<n>>
    BY <1>4
  <2>2. n \in TreeNodes \ {TopNode}
    BY <1>1 DEF ToSet
  <2> QED
    BY <2>1, <2>2
<1> QED
  BY <1>2, <1>3, <1>4 DEF SearchResults

LEMMA SearchStep ==
    ASSUME MenuInv, NodesKnown, Search
    PROVE  MenuInv' /\ Displays
<1>1. /\ matches \in Seq(TreeNodes \ {TopNode}) /\ screen' \in Screens /\ MenuCovered
  BY DEF MenuInv, Search
<1>2. PICK key \in EditKeys, word \in 0..box.i :
          \/ ~ChangesText(key, word) /\ EditSearch(key, word, matches)
          \/ ChangesText(key, word) /\ \E found \in SearchResults : EditSearch(key, word, found)
  BY DEF Search
<1>3. PICK found \in Seq(TreeNodes \ {TopNode}) :
          EditSearch(key, word, found) /\ (ChangesText(key, word) \/ found = matches)
  BY <1>1, <1>2, FoundNodes
<1>4. matches' = found
  BY <1>3 DEF EditSearch, NewMatches
<1>5. matches' \in Seq(Nat)
  BY <1>4, ListsAreNodes DEF MenuInv
<1>6. [JumpNext]_jump_vars
  BY <1>2, <1>3, <1>4, <1>5 DEF JumpNext
<1> QED
  BY <1>1, <1>4, <1>6, CoveredStep

LEMMA MoveMatchStep ==
    ASSUME MenuInv, MoveMatchKey
    PROVE  MenuInv' /\ Displays
<1>1. matches' = matches
  BY DEF MoveMatchKey, MoveMatchSelection, MoveMatch
<1>2. MenuCovered /\ screen' = screen /\ [JumpNext]_jump_vars
  BY DEF MoveMatchKey, JumpNext
<1> QED
  BY <1>1, <1>2, CoveredStep DEF MenuInv

LEMMA ResizeSearchStep ==
    ASSUME MenuInv, ResizeSearch
    PROVE  MenuInv' /\ Displays
<1>1. screen' \in Screens /\ MenuCovered /\ ResizeJump(screen')
  BY MenuconfigAssumption DEF ResizeSearch, MenuconfigAssumption, MenuInv
<1> QED
  BY <1>1, ResizedJump, CoveredStep DEF MenuInv

LEMMA CancelSearchStep ==
    ASSUME MenuInv, CancelSearch
    PROVE  MenuInv' /\ Displays
<1>1. CloseJump /\ screen' = screen /\ (Uncovered \/ MenuCovered)
  BY DEF CancelSearch
<1> QED
  BY <1>1, ClosedJump, CoveredStep, UncoveredStep DEF MenuInv

LEMMA JumpStep ==
    ASSUME MenuInv, NodesKnown, NodesKnown', Jump
    PROVE  MenuInv' /\ Displays
<1> DEFINE height == MenuHeight(screen, show_help)
           node == matches[match_i + 1]
           w == JumpToNode(UI, node)
           u == [w EXCEPT !.at = Rescroll(@, height)]
<1>1. /\ Become(u, height) /\ CloseJump /\ matches # <<>>
      /\ UNCHANGED <<conf, screen>>
  BY DEF Jump
<1>2. matches' \in Seq(TreeNodes \ {TopNode}) /\ [JumpNext]_jump_vars
  BY <1>1, ClosedJump
<1>3. MatchInv'
  BY <1>2, JumpNextInv DEF MenuInv
<1>4. node \in TreeNodes \ {TopNode}
  <2>1. match_i \in 0..Len(matches) - 1
    BY <1>1, MatchInvImpliesMatchOnScreen DEF MenuInv, MatchOnScreen, OnScreen, MatchPlace, At
  <2>2. matches \in Seq(TreeNodes \ {TopNode}) /\ Len(matches) \in Nat
    BY LenProperties DEF MenuInv
  <2> QED
    BY <2>1, <2>2
<1>5. u.raised = w.raised
  OBVIOUS
<1>6. CASE w.raised
  <2>1. UNCHANGED <<conf, kc, screen, cur_menu, show_all, list_vars>>
    BY <1>1, <1>5, <1>6 DEF Become
  <2>2. UNCHANGED <<shown, show_help>>
    BY <2>1 DEF list_vars
  <2> QED
    BY <1>2, <2>1, <2>2, SameMenuStep DEF MenuInv, Displays
<1>7. CASE ~w.raised
  <2>1. Ready(w) /\ Jumped(w)
    BY <1>4, <1>7, UIReady, JumpListed DEF MenuInv
  <2> HIDE DEF w
  <2>2. /\ u.kc = w.kc /\ u.cur_menu = w.cur_menu /\ u.shown = w.shown
        /\ u.rows = w.rows /\ u.show_all = w.show_all /\ u.at = Rescroll(w.at, height)
    BY <2>1, ReadyFields DEF UIFields
  <2> HIDE DEF u
  <2>3. /\ kc' = w.kc /\ cur_menu' = w.cur_menu /\ show_all' = w.show_all
        /\ shown' = w.shown /\ GoTo(Rescroll(w.at, height)) /\ parent_screen_rows' = w.rows
        /\ menu_height' = height /\ UNCHANGED show_help
    BY <1>1, <1>5, <1>7, <2>2 DEF Become
  <2>4. PICK i \in Indices(w) : /\ w.at = CenterVertically(i, Len(w.shown), menu_height)
                                /\ w.rows = <<>>
    BY <2>1 DEF Jumped
  <2>5. sel_node_i' = i
    BY <2>3, <2>4 DEF GoTo, Rescroll, CenterVertically, At
  <2>6. shown' \in SomeNodes
    BY <2>1, <2>3, ListsAreNodes DEF Ready, MenuInv
  <2>7. JumpToList(shown', sel_node_i', screen)
    BY <2>3, <2>4, <2>5 DEF JumpToList
  <2>8. [ListNext]_list_vars
    BY <2>3, <2>5, <2>6, <2>7 DEF ListNext, Indices, MenuInv
  <2>9. ListInv'
    BY <2>8, ListNextInv DEF MenuInv
  <2>10. cur_menu' \in TreeMenus /\ shown' \in Lists /\ show_all' \in BOOLEAN
    BY <2>1, <2>3 DEF Ready, InMenu
  <2>11. shown' = shown_nodes(kc', cur_menu', show_all') \/ ListStale'
    BY <2>1, <2>3 DEF Ready, Current, ListStale
  <2>12. MenuInv'
    BY <1>1, <1>2, <1>3, <2>3, <2>9, <2>10, <2>11 DEF MenuInv, TreeNodes, TreeMenus, Lists
  <2> QED
    BY <1>2, <2>8, <2>12 DEF Displays
<1> QED
  BY <1>6, <1>7

LEMMA DialogKeyStep ==
    ASSUME MenuInv, NodesKnown, NodesKnown', DialogKey
    PROVE  MenuInv' /\ Displays
<1>1. CASE OpenInfo \/ ResizeInfo \/ SearchInfo  BY <1>1, InfoStep
<1>2. CASE CloseInfo  BY <1>2, CloseInfoStep
<1>3. CASE OpenSearch  BY <1>3, OpenSearchStep
<1>4. CASE Search  BY <1>4, SearchStep
<1>5. CASE MoveMatchKey  BY <1>5, MoveMatchStep
<1>6. CASE ResizeSearch  BY <1>6, ResizeSearchStep
<1>7. CASE CancelSearch  BY <1>7, CancelSearchStep
<1>8. CASE Jump  BY <1>8, JumpStep
<1> QED
  BY <1>1, <1>2, <1>3, <1>4, <1>5, <1>6, <1>7, <1>8 DEF DialogKey

LEMMA MenuInvStep ==
    MenuInv /\ NodesKnown /\ NodesKnown' /\ [Next]_vars => MenuInv' /\ Displays
<1> SUFFICES ASSUME MenuInv, NodesKnown, NodesKnown', [Next]_vars PROVE MenuInv' /\ Displays
  OBVIOUS
<1>1. CASE MainKey  BY <1>1, MainKeyStep
<1>2. CASE DialogKey  BY <1>2, DialogKeyStep
<1>3. CASE UNCHANGED vars  BY <1>3, StillStep DEF vars, ui_vars
<1> QED
  BY <1>1, <1>2, <1>3 DEF Next

LEMMA MenuInvariant == Spec /\ []NodesKnown => []MenuInv
<1>1. Init /\ NodesKnown => MenuInv
  BY InitMenuInv
<1>2. MenuInv /\ NodesKnown /\ NodesKnown' /\ [Next]_vars => MenuInv'
  BY MenuInvStep
<1> QED
  BY <1>1, <1>2, PTL DEF Spec

-------------------------------------------------------------------------------
\* The theorems of the interface

\* Whatever the files, the values and the terminal, and whichever keys are
\* pressed: the main display and the search of the interface do what MenuList
\* and JumpTo say (menuconfig.py: the key loops of _menuconfig,
\* _jump_to_dialog and _info_dialog with all the functions that they call).
THEOREM ImplementsDisplaysHolds == Spec /\ []NodesKnown => ImplementsDisplays
<1>1. Init /\ NodesKnown => ListStart /\ JumpClosed
  BY InitMenuInv
<1>2. MenuInv /\ NodesKnown /\ NodesKnown' /\ [Next]_vars
          => [ListNext]_list_vars /\ [JumpNext]_jump_vars
  BY MenuInvStep DEF Displays
<1> QED
  BY <1>1, <1>2, MenuInvariant, PTL DEF Spec, ImplementsDisplays, ListSpec, JumpSpec

\* No key leaves an old list on the screen, except for show-all in a choice
\* that lists none of its nodes on the screen then (menuconfig.py:
\* _update_menu after _set_val and _load_dialog, _enter_menu, _leave_menu,
\* _jump_to; the exception is _toggle_show_all).
THEOREM ShownIsCurrentHolds == Spec /\ []NodesKnown => []ShownIsCurrent
<1>1. MenuInv => ShownIsCurrent
  BY DEF MenuInv, ShownIsCurrent
<1> QED
  BY <1>1, MenuInvariant, PTL

\* So an entry is selected and on the screen, and so is a match (menuconfig.py:
\* the same functions, now with the nodes that the menus and searches list).
THEOREM InterfaceOnScreen == Spec /\ []NodesKnown => [](RowOnScreen /\ MatchOnScreen)
<1>1. MenuInv => RowOnScreen /\ MatchOnScreen
  BY ListInvImpliesRowOnScreen, MatchInvImpliesMatchOnScreen DEF MenuInv
<1> QED
  BY <1>1, MenuInvariant, PTL

-------------------------------------------------------------------------------
(* The changed flag.  A key leaves the Kconfig object and the flag as they   *)
(* are, sets the flag, or loads a file.                                      *)

\* What the functions that were called on u leave of it
Flagged(u, w) ==
    \/ w.raised
    \/ w.changed = TRUE
    \/ w.kc = u.kc /\ w.changed = u.changed

HasFlag(u) == "changed" \in DOMAIN u /\ "raised" \in DOMAIN u

LEMMA UpdateMenuFlag ==
    ASSUME NEW u
    PROVE  /\ UpdateMenu(u).kc = u.kc /\ UpdateMenu(u).changed = u.changed
           /\ DOMAIN UpdateMenu(u) = DOMAIN u
BY DEF UpdateMenu, Relist

LEMMA LeaveMenuFlag ==
    ASSUME NEW u
    PROVE  LeaveMenu(u).kc = u.kc /\ LeaveMenu(u).changed = u.changed
BY DEF LeaveMenu, LeaveTo

LEMMA SetValFlag ==
    ASSUME NEW u, HasFlag(u), NEW i, NEW v
    PROVE  Flagged(u, SetVal(u, i, v))
<1>1. CASE v = str_value(u.kc, i).v
  BY <1>1 DEF SetVal, Flagged
<1>2. CASE v # str_value(u.kc, i).v
  <2> DEFINE x == [u EXCEPT !.kc = uncached(set_value(@, i, v)), !.changed = TRUE]
  <2>1. SetVal(u, i, v) = UpdateMenu(x)
    BY <1>2 DEF SetVal
  <2>2. x.changed = TRUE
    BY DEF HasFlag
  <2> HIDE DEF x
  <2> QED
    BY <2>1, <2>2, UpdateMenuFlag DEF Flagged
<1> QED
  BY <1>1, <1>2

LEMMA ChangeNodeFlag ==
    ASSUME NEW u, HasFlag(u), NEW n, NEW typed
    PROVE  Flagged(u, ChangeNode(u, n, typed))
<1> DEFINE v == IF HasText(u.kc, ItemOf(u.kc, n)) THEN typed ELSE next_value(u.kc, ItemOf(u.kc, n))
           w == IF v = None THEN u ELSE SetVal(u, ItemOf(u.kc, n), v)
           c == ChangeTo(u, n, v)
<1> SUFFICES Flagged(u, c)
  BY DEF ChangeNode
<1>1. CASE c = [u EXCEPT !.raised = TRUE]
  <2>1. c.raised
    BY <1>1 DEF HasFlag
  <2> HIDE DEF c
  <2> QED
    BY <2>1 DEF Flagged
<1>2. CASE c = AfterChange(w, n)
  <2>1. Flagged(u, w)
    BY SetValFlag DEF Flagged
  <2> HIDE DEF w
  <2>2. CASE c = w
    BY <2>1, <2>2
  <2>3. CASE c = LeaveMenu(w) /\ ~w.raised
    BY <2>1, <2>3, LeaveMenuFlag DEF Flagged
  <2> QED
    BY <1>2, <2>2, <2>3 DEF AfterChange
<1> QED
  BY <1>1, <1>2 DEF ChangeTo

LEMMA EnterMenuFlag ==
    ASSUME NEW u, NEW menu
    PROVE  Flagged(u, EnterMenu(u, menu))
BY DEF EnterMenu, EnterListed, Flagged

LEMMA ToggleFlag ==
    ASSUME NEW u
    PROVE  ToggleShowAll(u).kc = u.kc /\ ToggleShowAll(u).changed = u.changed
BY DEF ToggleShowAll, SelectClosest

LEMMA ShowGoneFlag ==
    ASSUME NEW u
    PROVE  ShowGone(u).kc = u.kc /\ ShowGone(u).changed = u.changed
BY DEF ShowGone

LEMMA LandInFlag ==
    ASSUME NEW u, NEW target
    PROVE  LandIn(u, target).kc = u.kc /\ LandIn(u, target).changed = u.changed
BY DEF LandIn, Land

LEMMA JumpFlag ==
    ASSUME NEW u, NEW node
    PROVE  JumpToNode(u, node).kc = u.kc /\ JumpToNode(u, node).changed = u.changed
<1>1. ASSUME NEW w, NEW i
      PROVE  Centered(w, i).kc = w.kc /\ Centered(w, i).changed = w.changed
  BY DEF Centered
<1>2. ASSUME NEW w, NEW all
      PROVE  LandAtVisible(w, all).kc = w.kc /\ LandAtVisible(w, all).changed = w.changed
  BY ToggleFlag DEF LandAtVisible
<1>3. ASSUME NEW menu, NEW target
      PROVE  /\ LandIn([u EXCEPT !.cur_menu = menu], target).kc = u.kc
             /\ LandIn([u EXCEPT !.cur_menu = menu], target).changed = u.changed
  <2> DEFINE x == [u EXCEPT !.cur_menu = menu]
  <2>1. x.kc = u.kc /\ x.changed = u.changed
    OBVIOUS
  <2> HIDE DEF x
  <2>2. LandIn(x, target).kc = u.kc /\ LandIn(x, target).changed = u.changed
    BY <2>1, LandInFlag
  <2> QED
    BY <2>2 DEF x
<1>4. CASE KindOf(u.kc, node) \in {"choice", "menu"} /\ ListOf(u.kc, node) # <<>>
  <2> DEFINE l == LandIn([u EXCEPT !.cur_menu = node], Head(ListOf(u.kc, node)))
             v == LandAtVisible(l, u.show_all)
  <2>1. JumpToNode(u, node) = JumpInto(v)
    BY <1>4 DEF JumpToNode
  <2>2. l.kc = u.kc /\ l.changed = u.changed
    BY <1>3
  <2> HIDE DEF l
  <2>3. v.kc = u.kc /\ v.changed = u.changed
    BY <1>2, <2>2
  <2> HIDE DEF v
  <2> QED
    BY <1>1, <2>1, <2>3 DEF JumpInto
<1>5. CASE ~(KindOf(u.kc, node) \in {"choice", "menu"} /\ ListOf(u.kc, node) # <<>>)
  <2> DEFINE l == LandIn([u EXCEPT !.cur_menu = parent_menu(u.kc, node)], node)
  <2>1. JumpToNode(u, node) = CenteredOnSel(l)
    BY <1>5 DEF JumpToNode
  <2>2. l.kc = u.kc /\ l.changed = u.changed
    BY <1>3
  <2> HIDE DEF l
  <2> QED
    BY <1>1, <2>1, <2>2 DEF CenteredOnSel
<1> QED
  BY <1>4, <1>5

-------------------------------------------------------------------------------
\* The files

\* A step that leaves the object, the flag and the files: what was known of
\* the unsaved values still is.
LEMMA FlaggedStep ==
    ASSUME UnsavedKnown, exit = "", NEW u, u.raised \/ u.changed = TRUE \/
               (u.kc = kc /\ u.changed = conf_changed),
           NEW height, Become(u, height), UNCHANGED <<conf_filename, files>>
    PROVE  UnsavedKnown'
<1>1. CASE u.raised
  BY <1>1, Zenon DEF Become, UnsavedKnown
<1>2. CASE ~u.raised /\ u.changed = TRUE
  <2>1. conf_changed' = TRUE /\ exit' = ""
    BY <1>2, Zenon DEF Become
  <2> QED
    BY <2>1 DEF UnsavedKnown
<1>3. CASE ~u.raised /\ u.kc = kc /\ u.changed = conf_changed
  <2>1. UNCHANGED <<kc, conf_changed, exit, conf_filename, files>>
    BY <1>3, Zenon DEF Become
  <2> QED
    BY <2>1, Zenon DEF UnsavedKnown, SavedIn, OnlyMinSaved
<1> QED
  BY <1>1, <1>2, <1>3

LEMMA UIFlag == HasFlag(UI) /\ UI.kc = kc /\ UI.changed = conf_changed
BY DEF HasFlag, UI

LEMMA KeyUnsaved ==
    ASSUME UnsavedKnown, exit = "", NEW u, Flagged(UI, u), Key(u)
    PROVE  UnsavedKnown'
BY FlaggedStep, UIFlag, Zenon DEF Key, Flagged

\* A file that was loaded and need not be saved has what is on the screen then.
LEMMA LoadUnsaved ==
    ASSUME FilesKnown, NodesKnown, NodesKnown', exit = "", Load
    PROVE  UnsavedKnown'
<1>1. PICK f \in FileNames :
          /\ files[f] # NoFile
          /\ Become(LoadInto(UI, Loaded(kc, files[f])), menu_height)
          /\ conf_filename' = f
  BY DEF Load
<1>2. files' = files /\ conf' = conf
  BY DEF Load
<1> DEFINE loaded == Loaded(kc, files[f])
           x == [UI EXCEPT !.kc = uncached(loaded), !.changed = needs_save(loaded)]
           u == LoadInto(UI, loaded)
<1>3. x.kc = uncached(loaded) /\ x.changed = needs_save(loaded)
  BY DEF UI
<1>4. u.kc = uncached(loaded) /\ u.changed = needs_save(loaded)
  <2>1. u = UpdateMenu(ShowGone(x))
    BY DEF LoadInto
  <2>2. ShowGone(x).kc = x.kc /\ ShowGone(x).changed = x.changed
    BY ShowGoneFlag
  <2> HIDE DEF x
  <2> QED
    BY <1>3, <2>1, <2>2, UpdateMenuFlag
<1>5. /\ values_of(uncached(loaded)) = values_of(Loaded(new_kconfig(kc.final), files[f]))
      /\ needs_save(loaded) \/
         ToSet(config_contents(uncached(loaded)).v) \subseteq ToSet(files[f])
  BY <1>1 DEF FilesKnown
<1> HIDE DEF u, loaded
<1>6. CASE u.raised
  BY <1>1, <1>6, Zenon DEF Become, UnsavedKnown, u, loaded
<1>7. CASE ~u.raised
  <2>1. kc' = uncached(loaded) /\ conf_changed' = needs_save(loaded) /\ exit' = ""
    BY <1>1, <1>4, <1>7, Zenon DEF Become, u, loaded
  <2>2. kc.final = kc'.final
    BY <1>2 DEF NodesKnown
  <2>3. ~needs_save(loaded) => SavedIn(files[conf_filename])'
    BY <1>1, <1>2, <1>5, <2>1, <2>2 DEF SavedIn, Loaded
  <2> QED
    BY <2>1, <2>3, Zenon DEF UnsavedKnown
<1> QED
  BY <1>6, <1>7

\* What was saved is in its file, which the interface then names.
LEMMA SavedUnsaved ==
    ASSUME FilesKnown, "save" \in Uses[conf], kc' = kc,
           files[conf_filename]' = config_contents(kc).v
    PROVE  UnsavedKnown'
<1>1. SavedIn(config_contents(kc).v)
  BY DEF FilesKnown
<1>2. SavedIn(files[conf_filename])'
  BY <1>1 DEF SavedIn
<1> QED
  BY <1>2 DEF UnsavedKnown

LEMMA UnsavedInit == Init /\ NodesKnown /\ FilesKnown => UnsavedKnown
<1> SUFFICES ASSUME Init, NodesKnown, FilesKnown, ~conf_changed
             PROVE  SavedIn(files[conf_filename])
  BY Zenon DEF UnsavedKnown, Init
<1> DEFINE lines == files[".config"]
           new == new_kconfig(Trees[conf])
           start == Started(new, lines)
<1>1. /\ conf_filename = ".config" /\ kc = uncached(start)
      /\ conf_changed = (lines = NoFile \/ needs_save(start))
  BY DEF Init
<1>2. lines # NoFile /\ ~needs_save(start)
  BY <1>1, Zenon
<1>3. start = Loaded(new, lines) /\ new = new_kconfig(kc.final)
  BY <1>2 DEF Started, NodesKnown
<1>4. /\ values_of(uncached(start)) = values_of(Loaded(new, lines))
      /\ needs_save(start) \/ ToSet(config_contents(uncached(start)).v) \subseteq ToSet(lines)
  BY <1>2, <1>3 DEF FilesKnown, FileNames
<1> HIDE DEF lines, new, start
<1>5. SavedIn(lines)
  BY <1>1, <1>2, <1>3, <1>4, Zenon DEF SavedIn
<1> QED
  BY <1>1, <1>5 DEF lines

\* Steps that leave the values, their file and the end of the interface alone,
\* or only end it
LEMMA StillUnsaved ==
    ASSUME UnsavedKnown, UNCHANGED <<kc, conf_changed, conf_filename>>,
           files[conf_filename]' = files[conf_filename],
           exit' = exit \/ (exit = "" /\ exit' = "unchanged") \/ (exit = "" /\ exit' = "not saved")
    PROVE  UnsavedKnown'
<1>1. /\ SavedIn(files[conf_filename])' = SavedIn(files[conf_filename])
      /\ OnlyMinSaved' = OnlyMinSaved
  BY DEF SavedIn, OnlyMinSaved
<1> QED
  BY <1>1, Zenon DEF UnsavedKnown

LEMMA SavingUnsaved ==
    ASSUME UnsavedKnown, FilesKnown, DOMAIN files = FileNames, conf_filename \in FileNames,
           Save \/ SaveMin \/ Quit
    PROVE  UnsavedKnown'
<1>1. kc' = kc /\ exit = "" /\ "save" \in Uses[conf]
  BY DEF Save, SaveMin, Quit, On
<1>2. CASE Save
  <2>1. PICK f \in FileNames :
            files' = [files EXCEPT ![f] = config_contents(kc).v] /\ conf_filename' = f
    BY <1>2 DEF Save
  <2>2. files[conf_filename]' = config_contents(kc).v
    BY <2>1
  <2> QED
    BY <1>1, <2>2, SavedUnsaved
<1>3. CASE SaveMin
  <2>1. PICK f \in FileNames : files' = [files EXCEPT ![f] = min_config_contents(kc).v]
    BY <1>3 DEF SaveMin
  <2>2. UNCHANGED <<kc, conf_changed, conf_filename, exit>>
    BY <1>3 DEF SaveMin
  <2>3. CASE f # conf_filename
    <3>1. files[conf_filename]' = files[conf_filename]
      BY <2>1, <2>2, <2>3
    <3> QED
      BY <2>2, <3>1, StillUnsaved
  <2>4. CASE f = conf_filename
    <3>1. OnlyMinSaved'
      BY <2>1, <2>2, <2>4 DEF OnlyMinSaved
    <3> QED
      BY <1>1, <2>2, <3>1 DEF UnsavedKnown
  <2> QED
    BY <2>3, <2>4
<1>4. CASE Quit /\ exit' = "saved"
  <2>1. files' = [files EXCEPT ![conf_filename] = config_contents(kc).v]
    BY <1>4 DEF Quit
  <2>2. conf_filename' = conf_filename
    BY <1>4 DEF Quit
  <2>3. files[conf_filename]' = config_contents(kc).v
    BY <2>1, <2>2
  <2> QED
    BY <1>1, <2>3, SavedUnsaved
<1>5. CASE Quit /\ exit' # "saved"
  <2>1. UNCHANGED <<kc, conf_changed, conf_filename, files>>
    BY <1>5 DEF Quit
  <2>2. exit' = "unchanged" \/ exit' = "not saved"
    BY <1>5 DEF Quit
  <2> QED
    BY <1>1, <2>1, <2>2, StillUnsaved
<1> QED
  BY <1>2, <1>3, <1>4, <1>5

LEMMA MainKeyUnsaved ==
    ASSUME UnsavedKnown, FilesKnown, NodesKnown, NodesKnown', DOMAIN files = FileNames,
           conf_filename \in FileNames, MainKey
    PROVE  UnsavedKnown'
<1>1. ASSUME NEW n, NEW typed, exit = "", Key(ChangeNode(UI, n, typed)) PROVE UnsavedKnown'
  BY <1>1, UIFlag, ChangeNodeFlag, KeyUnsaved
<1>2. ASSUME NEW menu, exit = "", Key(EnterMenu(UI, menu)) PROVE UnsavedKnown'
  BY <1>2, EnterMenuFlag, KeyUnsaved
<1>3. CASE Space \/ RightChanges
  BY <1>1, <1>3 DEF Space, RightChanges, On
<1>4. CASE SpaceEnters \/ Right
  BY <1>2, <1>4 DEF SpaceEnters, Right, On
<1>5. CASE SetTri
  <2>1. exit = "" /\ \E v : Key(SetVal(UI, ItemOf(kc, Selected), v))
    BY <1>5 DEF SetTri, On
  <2> QED
    BY <2>1, UIFlag, SetValFlag, KeyUnsaved
<1>6. CASE Left
  <2>1. exit = "" /\ Key(LeaveMenu(UI))
    BY <1>6 DEF Left, On
  <2> QED
    BY <2>1, LeaveMenuFlag, KeyUnsaved DEF Flagged
<1>7. CASE ShowAll
  <2>1. exit = "" /\ Key(ToggleShowAll(UI))
    BY <1>7 DEF ShowAll, On
  <2> QED
    BY <2>1, ToggleFlag, KeyUnsaved DEF Flagged
<1>8. CASE Load
  BY <1>8, LoadUnsaved DEF Load, On
<1>9. CASE Save \/ SaveMin \/ Quit
  BY <1>9, SavingUnsaved
<1>10. CASE MoveKey \/ Resize \/ ToggleHelp
  <2>1. UNCHANGED <<kc, conf_changed, conf_filename, files, exit>>
    BY <1>10 DEF MoveKey, Resize, ToggleHelp, ui_vars
  <2> QED
    BY <2>1, StillUnsaved
<1> QED
  BY <1>3, <1>4, <1>5, <1>6, <1>7, <1>8, <1>9, <1>10 DEF MainKey

LEMMA DialogKeyUnsaved ==
    ASSUME UnsavedKnown, DialogKey
    PROVE  UnsavedKnown'
<1>1. CASE Jump
  <2> DEFINE height == MenuHeight(screen, show_help)
             w == JumpToNode(UI, matches[match_i + 1])
             u == [w EXCEPT !.at = Rescroll(@, height)]
  <2>1. /\ exit = "" /\ Become(u, height)
        /\ UNCHANGED <<conf_filename, files>>
    BY <1>1 DEF Jump, In
  <2>2. w.kc = kc /\ w.changed = conf_changed
    BY JumpFlag, UIFlag
  <2> HIDE DEF w
  <2>3. u.kc = w.kc /\ u.changed = w.changed
    OBVIOUS
  <2> HIDE DEF u
  <2> QED
    BY <2>1, <2>2, <2>3, FlaggedStep
<1>2. CASE ~Jump
  <2>1. SameMenu
    BY <1>2 DEF DialogKey, OpenInfo, CloseInfo, ResizeInfo, OpenSearch, Search, MoveMatchKey,
                ResizeSearch, SearchInfo, CancelSearch, MenuCovered, Uncovered
  <2>2. UNCHANGED <<kc, conf_changed, conf_filename, files, exit>>
    BY <2>1 DEF SameMenu
  <2> QED
    BY <2>2, StillUnsaved
<1> QED
  BY <1>1, <1>2

\* The strengthening: there are two files, and one of them is named.
UnsavedInv == UnsavedKnown /\ DOMAIN files = FileNames /\ conf_filename \in FileNames

LEMMA FilesStep ==
    ASSUME DOMAIN files = FileNames, conf_filename \in FileNames, [Next]_vars
    PROVE  DOMAIN files' = FileNames /\ conf_filename' \in FileNames
<1>1. CASE Load \/ Save \/ SaveMin \/ Quit
  BY <1>1 DEF Load, Save, SaveMin, Quit
<1>2. CASE MoveKey \/ Space \/ SpaceEnters \/ Right \/ RightChanges \/ SetTri \/ Left
           \/ ShowAll \/ Resize \/ ToggleHelp
  <2>1. UNCHANGED <<files, conf_filename>>
    BY <1>2 DEF MoveKey, Space, SpaceEnters, Right, RightChanges, SetTri, Left, ShowAll, Resize,
                ToggleHelp, Key, ui_vars
  <2> QED
    BY <2>1
<1>3. CASE DialogKey
  <2>1. UNCHANGED <<files, conf_filename>>
    BY <1>3 DEF DialogKey, OpenInfo, CloseInfo, ResizeInfo, OpenSearch, Search, MoveMatchKey,
                ResizeSearch, SearchInfo, CancelSearch, Jump, MenuCovered, Uncovered, SameMenu
  <2> QED
    BY <2>1
<1>4. CASE UNCHANGED vars
  BY <1>4 DEF vars, ui_vars
<1> QED
  BY <1>1, <1>2, <1>3, <1>4 DEF Next, MainKey

LEMMA UnsavedStep ==
    UnsavedInv /\ NodesKnown /\ NodesKnown' /\ FilesKnown /\ [Next]_vars => UnsavedInv'
<1> SUFFICES ASSUME UnsavedInv, NodesKnown, NodesKnown', FilesKnown, [Next]_vars
             PROVE  UnsavedInv'
  OBVIOUS
<1>1. UnsavedKnown'
  <2>1. CASE MainKey  BY <2>1, MainKeyUnsaved DEF UnsavedInv
  <2>2. CASE DialogKey  BY <2>2, DialogKeyUnsaved DEF UnsavedInv
  <2>3. CASE UNCHANGED vars
    BY <2>3, StillUnsaved DEF UnsavedInv, vars, ui_vars
  <2> QED
    BY <2>1, <2>2, <2>3 DEF Next
<1> QED
  BY <1>1, FilesStep DEF UnsavedInv

\* The interface quits without asking, or after it saved, only when the file it
\* names has what is on the screen, whatever was changed, loaded and saved
\* before (menuconfig.py: _conf_changed in _set_val, _load_dialog, _needs_save,
\* _save_dialog and _quit_dialog).  Quitting without asking, it may also have
\* only the minimal configuration of it.  The library is assumed to save what
\* it loads (FilesKnown).
THEOREM UnsavedKnownHolds == Spec /\ []NodesKnown /\ []FilesKnown => []UnsavedKnown
<1>1. Init /\ NodesKnown /\ FilesKnown => UnsavedInv
  <2>1. Init => DOMAIN files = FileNames /\ conf_filename \in FileNames
    BY MenuconfigAssumption DEF Init, MenuconfigAssumption, FileNames
  <2> QED
    BY <2>1, UnsavedInit DEF UnsavedInv
<1>2. UnsavedInv => UnsavedKnown
  BY DEF UnsavedInv
<1> QED
  BY <1>1, <1>2, UnsavedStep, PTL DEF Spec
===============================================================================
