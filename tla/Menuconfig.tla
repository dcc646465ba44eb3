------------------------------- MODULE Menuconfig -------------------------------
(***************************************************************************)
(* kconfiglib/menuconfig.py: the terminal interface.  One key is one       *)
(* action.  A dialog that floats over the main display is one action with  *)
(* what was answered in it: a resize while it is open resizes the main     *)
(* display, and a file that cannot be read or written leaves everything as *)
(* it was.  The full-screen dialogs, where the menu below does not follow  *)
(* the terminal, are a stack of their own.                                 *)
(*                                                                         *)
(* The values and what the menu shows of them come from the Kconfig object *)
(* kc, through operators that are constants here: in a run they are those  *)
(* of KconfigEval and MenuTree.                                            *)
(***************************************************************************)
EXTENDS KconfigNodes, MenuList, JumpTo

CONSTANTS
    \* KconfigEval: the attributes and functions of kconfiglib
    new_kconfig(_), str_value(_, _), values_of(_), selection(_, _), set_value(_, _, _),
    load_config(_, _, _), config_contents(_), min_config_contents(_),
    \* MenuTree: what the functions of menuconfig make of them
    uncached(_), parent_menu(_, _), shown_nodes(_, _, _), searchable(_),
    changeable(_, _), offered(_, _), is_y_mode_choice_sym(_, _), next_value(_, _),
    check_valid(_, _, _), check_raises(_, _, _), needs_save(_), limited_to_m(_, _),
    Trees,         \* the Kconfig files: [id -> what _init makes of them]
    Uses,          \* [id -> SUBSET Keys], bound: which keys are used on them
    Inputs,        \* what is typed for int and string symbols
    StoredFiles,   \* [id -> the contents that the files may have]
    Terminals,     \* [id -> SUBSET Screens]
    MaxText,       \* bound: the length of the search text
    MaxStray       \* bound: how far the selection goes in an empty list

Keys == {"move", "resize", "change", "tri", "menu", "load", "save", "jump", "type", "info",
         "all", "help"}
FileNames == {".config", "other"}   \* .config is standard_config_filename()
NoFile == <<[sym |-> NoItem, val |-> 0]>>   \* what no file contains

ASSUME MenuconfigAssumption ==
    /\ \A c \in DOMAIN Trees : Uses[c] \subseteq Keys /\ Terminals[c] \subseteq Screens
    /\ \A c \in DOMAIN Trees : \A f \in StoredFiles[c] : DOMAIN f = FileNames
    /\ {MaxText, MaxStray} \subseteq Nat

\* The nodes of a menu tree, and those that can be entered
NodesIn(t) == DOMAIN t.kind

ASSUME TreesAssumption ==
    \A c \in DOMAIN Trees : LET t == Trees[c].tree IN
        /\ NodesIn(t) \subseteq Nat
        /\ TopNode \in t.menu /\ t.menu \subseteq NodesIn(t)
        /\ {n \in NodesIn(t) : t.kind[n] \in {"choice", "menu"}} \subseteq t.menu

VARIABLES
    conf,          \* the Kconfig files that are used
    kc,            \* _kconf, without its caches
    cur_menu,      \* _cur_menu
    show_all,      \* _show_all
    conf_changed,  \* _conf_changed
    conf_filename, \* _conf_filename
    files,         \* [FileNames -> the lines of the file, or NoFile]
    screen,        \* the size of the terminal
    dialogs,       \* the full-screen dialogs that are open
    exit           \* "" while the interface runs, or how it ended

ui_vars == <<conf, kc, cur_menu, show_all, conf_changed, conf_filename, files, screen,
             dialogs, exit>>
vars == <<ui_vars, list_vars, jump_vars>>

\* The globals that the operations below read and write
UI == [kc |-> kc, cur_menu |-> cur_menu, shown |-> shown, at |-> Place,
       rows |-> parent_screen_rows, show_all |-> show_all, changed |-> conf_changed,
       raised |-> FALSE]

NodesOfTree == NodesIn(Tree(kc))
Menus == Tree(kc).menu

SelNode(u) == u.shown[u.at.sel + 1]
RowOf(u) == u.at.sel - u.at.scroll
Selected == SelNode(UI)

On(key) == exit = "" /\ dialogs = <<>> /\ key \in Uses[conf]

Loaded(k, lines) == load_config(k, lines, TRUE)

-------------------------------------------------------------------------------
\* menuconfig() and _init

Started(k, lines) == IF lines = NoFile THEN k ELSE Loaded(k, lines)

Init ==
    /\ conf \in DOMAIN Trees
    /\ files \in StoredFiles[conf]
    /\ conf_filename = ".config"
    /\ \E start \in {Started(new_kconfig(Trees[conf]), files[".config"])} :
          /\ kc = uncached(start)
          /\ conf_changed = (files[".config"] = NoFile \/ needs_save(start))
    /\ show_all = (shown_nodes(kc, TopNode, FALSE) = <<>>)
    /\ screen \in Terminals[conf]
    /\ ListInit(shown_nodes(kc, TopNode, show_all), screen)
    /\ shown # <<>>   \* otherwise the interface does not start
    /\ cur_menu = TopNode
    /\ dialogs = <<>>
    /\ exit = ""
    /\ JumpClosed

-------------------------------------------------------------------------------
\* The operations on the globals

\* _select_selected_choice_sym: the index of the selected symbol of the choice
\* that is entered, or i.
IndexOfSymbol(k, sel, nodes, i) ==
    LET places == IF sel = NoItem THEN <<>> ELSE k.final.nodes[sel]
        listed == {j \in DOMAIN places : places[j] \in ToSet(nodes)}
    IN  IF listed = {} THEN i ELSE IndexIn(nodes, places[Min(listed)])

ChoiceIndex(k, menu, nodes, i) ==
    IF KindOf(k, menu) # "choice" THEN i
    ELSE IndexOfSymbol(k, selection(k, ItemOf(k, menu)).v, nodes, i)

EnterListed(u, menu, nodes) ==
    [u EXCEPT !.cur_menu = menu, !.shown = nodes, !.rows = Append(@, RowOf(u)),
              !.at = CenterVertically(ChoiceIndex(u.kc, menu, nodes, 0),
                                      Len(nodes), menu_height)]

\* Mutant: the first entry of the menu is selected, the scroll stays
EnterMenuScrolled(u, menu) ==
    [EnterListed(u, menu, shown_nodes(u.kc, menu, u.show_all)) EXCEPT !.at = At(0, u.at.scroll)]

\* _enter_menu, of a menu that can be entered.  Where there is no selected
\* symbol to center, the first entry is selected and the scroll is 0.
CanEnter(u, menu) ==
    IsMenuconfig(u.kc, menu) /\ shown_nodes(u.kc, menu, u.show_all) # <<>>

EnterMenu(u, menu) == EnterListed(u, menu, shown_nodes(u.kc, menu, u.show_all))

\* Back to parent, which lists nodes.  The menu may not be one of them.
LeaveTo(u, parent, nodes, rows) ==
    IF u.cur_menu \notin ToSet(nodes) THEN [u EXCEPT !.raised = TRUE]
    ELSE [u EXCEPT !.cur_menu = parent, !.shown = nodes, !.rows = rows,
                   !.at = LeaveAt(nodes, IndexIn(nodes, u.cur_menu), u.rows)]

\* _leave_menu
LeaveMenu(u) ==
    IF u.cur_menu = TopNode THEN u
    ELSE LeaveTo(u, parent_menu(u.kc, u.cur_menu),
                 shown_nodes(u.kc, parent_menu(u.kc, u.cur_menu), u.show_all),
                 WithoutLast(u.rows))

Relist(u, nodes) ==
    IF SelNode(u) \notin ToSet(nodes) THEN [u EXCEPT !.raised = TRUE]
    ELSE [u EXCEPT !.shown = nodes, !.at = OnRow(IndexIn(nodes, SelNode(u)), RowOf(u))]

\* _update_menu
UpdateMenu(u) == Relist(u, shown_nodes(u.kc, u.cur_menu, u.show_all))

\* Mutant: what is listed is not looked up again
SetValListKept(u, i, v) ==
    IF v = str_value(u.kc, i).v THEN u
    ELSE [u EXCEPT !.kc = uncached(set_value(@, i, v)), !.changed = TRUE]

\* _set_val
SetVal(u, i, v) ==
    IF v = str_value(u.kc, i).v THEN u
    ELSE UpdateMenu([u EXCEPT !.kc = uncached(set_value(@, i, v)), !.changed = TRUE])

\* The end of _change_node: a choice is left once a symbol of it is selected.
AfterChange(u, n) ==
    IF /\ ~u.raised
       /\ is_y_mode_choice_sym(u.kc, ItemOf(u.kc, n))
       /\ ListOf(u.kc, n) = <<>>
    THEN LeaveMenu(u) ELSE u

\* _change_node, of a node that can be changed, with the value that was typed
\* for an int or string, or None when the dialog was canceled.
ChangeTo(u, n, v) ==
    IF v = NoValue \/ (v # None /\ check_raises(u.kc, ItemOf(u.kc, n), v))
    THEN [u EXCEPT !.raised = TRUE]
    ELSE AfterChange(IF v = None THEN u ELSE SetVal(u, ItemOf(u.kc, n), v), n)

ChangeNode(u, n, typed) ==
    ChangeTo(u, n, IF HasText(u.kc, ItemOf(u.kc, n)) THEN typed
                   ELSE next_value(u.kc, ItemOf(u.kc, n)))

\* What the dialog for the value of node n can return; texts that are not
\* valid are refused there.
Texts(u, n) ==
    IF ~IsItem(u.kc, n) \/ ~HasText(u.kc, ItemOf(u.kc, n)) THEN {None}
    ELSE {None} \cup {v \in Inputs : \/ check_valid(u.kc, ItemOf(u.kc, n), v)
                                     \/ check_raises(u.kc, ItemOf(u.kc, n), v)}

\* _toggle_show_all: the selected node, or the closest before it, or else the
\* closest after it, is selected; when none is left, all are shown.
SelectClosest(u, nodes) ==
    LET stay == {j \in DOMAIN u.shown : u.shown[j] \in ToSet(nodes)}
        before == {j \in stay : j <= u.at.sel + 1}
        closest == IF before # {} THEN Max(before) ELSE Min(stay)
    IN  IF stay = {} THEN [u EXCEPT !.show_all = TRUE]
        ELSE [u EXCEPT !.show_all = ~@, !.shown = nodes,
                       !.at = OnRow(IndexIn(nodes, u.shown[closest]), RowOf(u))]

ToggleShowAll(u) == SelectClosest(u, shown_nodes(u.kc, u.cur_menu, ~u.show_all))

(* _jump_to: into a menu or choice with entries, and to anything else in its *)
(* menu; all is shown when the node is not visible.                          *)
Land(u, target, all, nodes) ==
    IF target \notin ToSet(nodes) THEN [u EXCEPT !.raised = TRUE]
    ELSE [u EXCEPT !.show_all = all, !.shown = nodes, !.rows = <<>>,
                   !.at.sel = IndexIn(nodes, target)]

LandIn(u, target) ==
    IF u.show_all \/ target \notin ToSet(shown_nodes(u.kc, u.cur_menu, FALSE))
    THEN Land(u, target, TRUE, shown_nodes(u.kc, u.cur_menu, TRUE))
    ELSE Land(u, target, FALSE, shown_nodes(u.kc, u.cur_menu, FALSE))

\* In a menu that was jumped into, only what is visible is shown if possible.
LandAtVisible(u, showedAll) == IF u.show_all /\ ~showedAll THEN ToggleShowAll(u) ELSE u

Centered(u, i) == [u EXCEPT !.at = CenterVertically(i, Len(u.shown), menu_height)]

CenteredOnSel(u) == Centered(u, u.at.sel)

JumpInto(u) == Centered(u, ChoiceIndex(u.kc, u.cur_menu, u.shown, u.at.sel))

JumpToNode(u, node) ==
    IF KindOf(u.kc, node) \in {"choice", "menu"} /\ ListOf(u.kc, node) # <<>>
    THEN JumpInto(LandAtVisible(
             LandIn([u EXCEPT !.cur_menu = node], Head(ListOf(u.kc, node))), u.show_all))
    ELSE CenteredOnSel(LandIn([u EXCEPT !.cur_menu = parent_menu(u.kc, node)], node))

\* Mutant: all nodes are not shown when the selected one is gone
ShowGoneNot(u) == u

\* _load_dialog after a file was read: all nodes are shown when the selected
\* one is not visible any more.
ShowGone(u) ==
    [u EXCEPT !.show_all =
         @ \/ SelNode(u) \notin ToSet(shown_nodes(u.kc, u.cur_menu, u.show_all))]

LoadInto(u, k) ==
    UpdateMenu(ShowGone([u EXCEPT !.kc = uncached(k), !.changed = needs_save(k)]))

-------------------------------------------------------------------------------
\* The keys of the main display

\* The globals become those of u, in a window of that height; when an exception
\* was raised, the interface ends there.
Become(u, height) ==
    IF u.raised
    THEN /\ exit' = "raised"
         /\ UNCHANGED <<kc, cur_menu, show_all, conf_changed, list_vars>>
    ELSE /\ kc' = u.kc
         /\ cur_menu' = u.cur_menu
         /\ show_all' = u.show_all
         /\ conf_changed' = u.changed
         /\ shown' = u.shown
         /\ GoTo(u.at)
         /\ parent_screen_rows' = u.rows
         /\ menu_height' = height
         /\ UNCHANGED <<show_help, exit>>

Key(u) ==
    /\ Become(u, menu_height)
    /\ UNCHANGED <<conf, conf_filename, files, screen, dialogs, jump_vars>>

MoveKey == On("move") /\ MoveSelection /\ UNCHANGED <<ui_vars, jump_vars>>

\* Space, and Enter: change the node, or enter it.
Space ==
    /\ On("change")
    /\ \E typed \in Texts(UI, Selected) :
          /\ changeable(kc, Selected)
          /\ Key(ChangeNode(UI, Selected, typed))

SpaceEnters ==
    /\ On("change")
    /\ ~changeable(kc, Selected)
    /\ CanEnter(UI, Selected)
    /\ Key(EnterMenu(UI, Selected))

Right ==
    /\ On("menu")
    /\ CanEnter(UI, Selected)
    /\ Key(EnterMenu(UI, Selected))

RightChanges ==
    /\ On("change")
    /\ ~CanEnter(UI, Selected)
    /\ changeable(kc, Selected)
    /\ \E typed \in Texts(UI, Selected) : Key(ChangeNode(UI, Selected, typed))

\* n, m and y
SetTri ==
    /\ On("tri")
    /\ IsItem(kc, Selected)
    /\ \E v \in offered(kc, ItemOf(kc, Selected)) :
          Key(SetVal(UI, ItemOf(kc, Selected), v))

Left ==
    /\ On("menu")
    /\ cur_menu # TopNode
    /\ Key(LeaveMenu(UI))

ShowAll ==
    /\ On("all")
    /\ Key(ToggleShowAll(UI))

Load ==
    /\ On("load")
    /\ \E f \in FileNames :
          /\ files[f] # NoFile
          /\ Become(LoadInto(UI, Loaded(kc, files[f])), menu_height)
          /\ conf_filename' = f
    /\ UNCHANGED <<conf, files, screen, dialogs, jump_vars>>

\* s: write_config, and d: write_min_config
Save ==
    /\ On("save")
    /\ \E f \in FileNames :
          /\ files' = [files EXCEPT ![f] = config_contents(kc).v]
          /\ conf_filename' = f
    /\ conf_changed' = FALSE
    /\ UNCHANGED <<conf, kc, cur_menu, show_all, screen, dialogs, exit, list_vars, jump_vars>>

\* The minimal configuration may be saved to the file of the full one.
SaveMin ==
    /\ On("save")
    /\ \E f \in FileNames :
          files' = [files EXCEPT ![f] = min_config_contents(kc).v]
    /\ UNCHANGED <<conf, kc, cur_menu, show_all, conf_changed, conf_filename, screen, dialogs,
                   exit, list_vars, jump_vars>>

\* _quit_dialog: nothing to save, saved, or not saved.
Quit ==
    /\ On("save")
    /\ \/ /\ ~conf_changed
          /\ exit' = "unchanged"
          /\ UNCHANGED files
       \/ /\ conf_changed
          /\ exit' = "saved"
          /\ files' = [files EXCEPT ![conf_filename] = config_contents(kc).v]
       \/ /\ conf_changed
          /\ exit' = "not saved"
          /\ UNCHANGED files
    /\ UNCHANGED <<conf, kc, cur_menu, show_all, conf_changed, conf_filename, screen, dialogs,
                   list_vars, jump_vars>>

Resize ==
    /\ On("resize")
    /\ screen' \in Terminals[conf]
    /\ ResizeMain(screen', show_help)
    /\ UNCHANGED <<conf, kc, cur_menu, show_all, conf_changed, conf_filename, files, dialogs,
                   exit, jump_vars>>

ToggleHelp ==
    /\ On("help")
    /\ ResizeMain(screen, ~show_help)
    /\ UNCHANGED <<ui_vars, jump_vars>>

-------------------------------------------------------------------------------
(* The full-screen dialogs: information about a node, and the search.  Each  *)
(* can be opened from the other, but not a search from an information dialog *)
(* that was opened from a search.                                            *)

In(dialog) == exit = "" /\ dialogs # <<>> /\ Last(dialogs) = dialog

SameMenu == UNCHANGED <<conf, kc, cur_menu, show_all, conf_changed, conf_filename, files, exit>>
MenuCovered == SameMenu /\ UNCHANGED list_vars

\* The main display follows the terminal again.
Uncovered == SameMenu /\ ResizeMain(screen, show_help)

OpenInfo ==
    /\ On("info")
    /\ dialogs' = <<"info">>
    /\ MenuCovered
    /\ UNCHANGED <<screen, jump_vars>>

\* The information dialog, closed with ESC
CloseInfo ==
    /\ In("info")
    /\ dialogs' = Front(dialogs)
    /\ UNCHANGED screen
    /\ IF dialogs' = <<>> THEN Uncovered /\ UNCHANGED jump_vars
       ELSE MenuCovered /\ ResizeJump(screen)

ResizeInfo ==
    /\ In("info")
    /\ screen' \in Terminals[conf]
    /\ MenuCovered
    /\ UNCHANGED <<dialogs, jump_vars>>

OpenSearch ==
    /\ On("jump") \/ (In("info") /\ "jump" \in Uses[conf] \ ToSet(dialogs))
    /\ dialogs' = Append(dialogs, "jump")
    /\ OpenJump(searchable(kc), screen)
    /\ MenuCovered
    /\ UNCHANGED screen

\* Bounds: how long the text gets; it may match everything, one node, or nothing.
TextBound == IF "type" \in Uses[conf] THEN MaxText ELSE Smaller(MaxText, 1)
SearchResults ==
    {searchable(kc), <<>>} \cup {<<n>> : n \in ToSet(searchable(kc))}

Search ==
    /\ In("jump")
    /\ \E key \in EditKeys, word \in 0..box.i :
          /\ key = "word" \/ word = 0
          /\ Typed(box, key, word).len <= TextBound
          /\ IF ~ChangesText(key, word) THEN EditSearch(key, word, matches)
             ELSE \E found \in SearchResults :
                     /\ Typed(box, key, word).len = 0 => found = searchable(kc)
                     /\ EditSearch(key, word, found)
    /\ MenuCovered
    /\ UNCHANGED <<screen, dialogs>>

MoveMatchKey ==
    /\ In("jump")
    /\ matches = <<>> => match_i \in -MaxStray..MaxStray
    /\ MoveMatchSelection
    /\ MenuCovered
    /\ UNCHANGED <<screen, dialogs>>

ResizeSearch ==
    /\ In("jump")
    /\ screen' \in Terminals[conf]
    /\ ResizeJump(screen')
    /\ MenuCovered
    /\ UNCHANGED dialogs

\* Ctrl-F
SearchInfo ==
    /\ In("jump")
    /\ matches # <<>>
    /\ dialogs' = Append(dialogs, "info")
    /\ MenuCovered
    /\ UNCHANGED <<screen, jump_vars>>

CancelSearch ==
    /\ In("jump")
    /\ dialogs' = Front(dialogs)
    /\ CloseJump
    /\ UNCHANGED screen
    /\ IF dialogs' = <<>> THEN Uncovered ELSE MenuCovered

\* Enter jumps and closes all dialogs.
Jump ==
    /\ In("jump")
    /\ matches # <<>>
    /\ LET height == MenuHeight(screen, show_help) IN
       Become([JumpToNode(UI, matches[match_i + 1]) EXCEPT !.at = Rescroll(@, height)],
              height)
    /\ dialogs' = <<>>
    /\ CloseJump
    /\ UNCHANGED <<conf, conf_filename, files, screen>>

-------------------------------------------------------------------------------
MainKey ==
    \/ MoveKey \/ Space \/ SpaceEnters \/ Right \/ RightChanges \/ SetTri \/ Left
    \/ ShowAll \/ Load \/ Save \/ SaveMin \/ Quit \/ Resize \/ ToggleHelp

DialogKey ==
    \/ OpenInfo \/ CloseInfo \/ ResizeInfo
    \/ OpenSearch \/ Search \/ MoveMatchKey \/ ResizeSearch \/ SearchInfo
    \/ CancelSearch \/ Jump

Next == MainKey \/ DialogKey

Spec == Init /\ [][Next]_vars

-------------------------------------------------------------------------------
\* Properties.  RowOnScreen is that of MenuList, MatchOnScreen that of JumpTo.

\* The menu tree never changes, and what is listed, searched and left to is in
\* it, whatever was changed or loaded; so are the places of the selected symbol
\* of a choice.  The top node, which has no menu to leave to, is not searched.
NodesKnown ==
    /\ kc.final = Trees[conf]
    /\ \A menu \in Menus, all \in BOOLEAN : shown_nodes(kc, menu, all) \in Seq(NodesOfTree)
    /\ \A n \in NodesOfTree \ {TopNode} : parent_menu(kc, n) \in Menus
    /\ searchable(kc) \in Seq(NodesOfTree \ {TopNode})
    /\ \A menu \in Menus : KindOf(kc, menu) = "choice" =>
           LET sel == selection(kc, ItemOf(kc, menu)).v
           IN  sel = NoItem \/ kc.final.nodes[sel] \in Seq(NodesOfTree)

\* All nodes are to be listed and none of those on the screen is among them:
\* show-all was turned on in a named choice that lists its symbols where they
\* are visible, and would list them here.  The comment of menuconfig.py:1311
\* expects that only of an invisible menu in which show-all is turned off.
ListStale ==
    /\ show_all
    /\ shown = shown_nodes(kc, cur_menu, FALSE)
    /\ ToSet(shown) \cap ToSet(shown_nodes(kc, cur_menu, TRUE)) = {}

\* What is listed is what the values and the mode say should be listed: but for
\* that, no change of a value, file, mode or menu leaves an old list on the
\* screen.
ShownIsCurrent ==
    exit # "raised" => shown = shown_nodes(kc, cur_menu, show_all) \/ ListStale

\* Whatever the interface does with its nodes and values, its list and its
\* search scroll and select as MenuList and JumpTo say.
ImplementsDisplays == ListSpec /\ JumpSpec

\* No look-up of a node or value fails: the selected node is still listed
\* after every change, the menu one leaves is listed in its parent, and the
\* value that Space changes is one that is offered.  Excepted is a tristate
\* symbol whose prompt is limited to m while its default makes it y: y is not
\* offered, and menuconfig.py:1611 raises.  So is a list that is stale, which
\* the next change looks its selected node up in (menuconfig.py:1694).
NeverRaises ==
    exit = "raised" =>
        \/ IsItem(kc, Selected) /\ limited_to_m(kc, ItemOf(kc, Selected))
        \/ ListStale

\* A file with these lines has what is on the screen: each line that saving
\* would write, and the values, but for those of a symbol that m is the limit
\* for while it is y, which is saved as y and loaded as m.
SavedIn(lines) ==
    /\ lines # NoFile
    /\ ToSet(config_contents(kc).v) \subseteq ToSet(lines)
    /\ (\A s \in DOMAIN values_of(kc) : ~limited_to_m(kc, s)) =>
           values_of(Loaded(new_kconfig(kc.final), lines)) = values_of(kc)

\* The minimal configuration of what is on the screen was saved over the file
\* the interface names.
OnlyMinSaved == files[conf_filename] = min_config_contents(kc).v

\* When the interface would quit without asking, and when it has saved, the
\* file it names has what is on the screen.  Excepted is a file over which the
\* minimal configuration was saved while nothing was changed: quitting says "No
\* changes to save", and the lines that a save would write are not there
\* (menuconfig.py:903 does not look at which file was chosen).
UnsavedKnown ==
    /\ exit # "raised" /\ ~conf_changed => SavedIn(files[conf_filename]) \/ OnlyMinSaved
    /\ exit = "saved" => SavedIn(files[conf_filename])

\* What is saved can be loaded again; loading replaces all values; and what
\* has been loaded, and need not be saved, would be saved as it was.
FilesKnown ==
    /\ "save" \in Uses[conf] => SavedIn(config_contents(kc).v)
    /\ \A f \in FileNames : files[f] # NoFile =>
           \A k \in {kc, new_kconfig(kc.final)} :
               LET loaded == Loaded(k, files[f]) IN
               /\ values_of(uncached(loaded)) =
                      values_of(Loaded(new_kconfig(kc.final), files[f]))
               /\ needs_save(loaded) \/
                  ToSet(config_contents(uncached(loaded)).v) \subseteq ToSet(files[f])

\* What the interface relies on, of the library and of its own look-ups.
KconfigKnown == NodesKnown /\ FilesKnown
===============================================================================
