-------------------------------- MODULE MenuList --------------------------------
(***************************************************************************)
(* kconfiglib/menuconfig.py: the list of the main display, whatever is     *)
(* listed.  ListSpec is what the display promises: entries come and go as  *)
(* values change and menus are entered and left, and in all of it there is *)
(* a selected entry and it is on the screen.                               *)
(***************************************************************************)
EXTENDS Scroll, Sequences

VARIABLES
    shown,               \* _shown: the menu nodes that are listed
    sel_node_i,          \* _sel_node_i
    menu_scroll,         \* _menu_scroll
    parent_screen_rows,  \* _parent_screen_rows
    menu_height,         \* _height(_menu_win)
    show_help            \* _show_help

list_vars == <<shown, sel_node_i, menu_scroll, parent_screen_rows, menu_height, show_help>>

Place == At(sel_node_i, menu_scroll)
Row == sel_node_i - menu_scroll

MenuHeight(screen, help) ==
    WindowHeight(screen, (IF help THEN ShowHelpHeight ELSE MainHelpHeight) + 3)

ListInit(nodes, screen) ==
    /\ shown = nodes
    /\ sel_node_i = 0
    /\ menu_scroll = 0
    /\ parent_screen_rows = <<>>
    /\ menu_height = MenuHeight(screen, FALSE)
    /\ show_help = FALSE

GoTo(at) ==
    /\ sel_node_i' = at.sel
    /\ menu_scroll' = at.scroll

-------------------------------------------------------------------------------
\* Keys that move the selection

Move(at) ==
    /\ GoTo(at)
    /\ UNCHANGED <<shown, parent_screen_rows, menu_height, show_help>>

NextEntry(at) == SelectNext(at, Len(shown), menu_height)

SelectNextEntry == Move(NextEntry(Place))
SelectPrevEntry == Move(SelectPrev(Place))
PageDown == Move(Page(NextEntry, Place))
PageUp == Move(Page(SelectPrev, Place))
SelectLastEntry == Move(SelectLast(Len(shown), menu_height))
SelectFirstEntry == Move(Top)

MoveSelection ==
    \/ SelectNextEntry \/ SelectPrevEntry
    \/ PageDown \/ PageUp
    \/ SelectLastEntry \/ SelectFirstEntry

\* _resize_main, with the help window shown or not
ResizeMain(screen, help) ==
    /\ show_help' = help
    /\ menu_height' = MenuHeight(screen, help)
    /\ GoTo(Rescroll(Place, menu_height'))
    /\ UNCHANGED <<shown, parent_screen_rows>>

-------------------------------------------------------------------------------
\* What happens to the list when another menu is displayed, or the values
\* change.  i is the index of the entry that is selected in nodes.

Display(nodes, at, rows) ==
    /\ shown' = nodes
    /\ GoTo(at)
    /\ parent_screen_rows' = rows
    /\ UNCHANGED <<menu_height, show_help>>

\* _enter_menu; in a choice the selected symbol is in the middle.
EnterList(nodes, i) ==
    Display(nodes, CenterVertically(i, Len(nodes), menu_height),
            Append(parent_screen_rows, Row))

\* Mutant: the terminal may not have shrunk
LeaveRowKept(rows, height) == rows[Len(rows)]

\* The row the menu had when it was entered
LeaveRow(rows, height) == Smaller(rows[Len(rows)], height - 1)

LeaveAt(nodes, i, rows) ==
    IF rows = <<>> THEN CenterVertically(i, Len(nodes), menu_height)
    ELSE OnRow(i, LeaveRow(rows, menu_height))

WithoutLast(rows) == IF rows = <<>> THEN rows ELSE SubSeq(rows, 1, Len(rows) - 1)

\* _leave_menu
LeaveList(nodes, i) ==
    Display(nodes, LeaveAt(nodes, i, parent_screen_rows), WithoutLast(parent_screen_rows))

\* _update_menu and _toggle_show_all
UpdateList(nodes, i) == Display(nodes, OnRow(i, Row), parent_screen_rows)

\* _jump_to, then _resize_main when the dialog that covered the menu is closed
JumpToList(nodes, i, screen) ==
    /\ shown' = nodes
    /\ menu_height' = MenuHeight(screen, show_help)
    /\ GoTo(Rescroll(CenterVertically(i, Len(nodes), menu_height), menu_height'))
    /\ parent_screen_rows' = <<>>
    /\ UNCHANGED show_help

-------------------------------------------------------------------------------
\* The nodes that are listed, and the one that is selected, may be any.

SomeNodes == Seq(Nat) \ {<<>>}

ListNext ==
    \/ MoveSelection
    \/ \E screen \in Screens, help \in BOOLEAN : ResizeMain(screen, help)
    \/ /\ shown' \in SomeNodes
       /\ sel_node_i' \in 0..Len(shown') - 1
       /\ \/ EnterList(shown', sel_node_i')
          \/ LeaveList(shown', sel_node_i')
          \/ UpdateList(shown', sel_node_i')
          \/ \E screen \in Screens : JumpToList(shown', sel_node_i', screen)

ListStart == \E screen \in Screens : shown \in SomeNodes /\ ListInit(shown, screen)

ListSpec == ListStart /\ [][ListNext]_list_vars

-------------------------------------------------------------------------------
\* Properties

\* Whatever is entered, left, changed or resized, an entry is selected and it
\* is on a row of the menu window.
RowOnScreen ==
    /\ shown # <<>>
    /\ OnScreen(Place, Len(shown), menu_height)
===============================================================================
