--------------------------------- MODULE JumpTo ---------------------------------
(***************************************************************************)
(* kconfiglib/menuconfig.py: _jump_to_dialog, an edit box for the search   *)
(* text over the list of the menu nodes that match it.  A text is its      *)
(* length here: what a text matches may be anything, except that the empty *)
(* text matches everything.                                                *)
(***************************************************************************)
EXTENDS Scroll, Sequences

VARIABLES
    matches,         \* the nodes that match
    match_i,         \* sel_node_i of the dialog
    match_scroll,    \* scroll
    matches_height,  \* _height(matches_win)
    edit_width,      \* _width(edit_box) - 2
    box              \* s, s_i and hscroll

jump_vars == <<matches, match_i, match_scroll, matches_height, edit_width, box>>

MatchPlace == At(match_i, match_scroll)

MatchesHeight(screen) == WindowHeight(screen, JumpHelpHeight + 4)

JumpClosed ==
    /\ matches = <<>>
    /\ match_i = 0
    /\ match_scroll = 0
    /\ matches_height = 1
    /\ edit_width = 0
    /\ box = Box(0, 0, 0)

\* The dialog opens with an empty text, which every node matches.
OpenJump(nodes, screen) ==
    /\ matches' = nodes
    /\ match_i' = 0
    /\ match_scroll' = 0
    /\ matches_height' = MatchesHeight(screen)
    /\ edit_width' = screen.width - 2
    /\ box' = Box(0, 0, 0)

CloseJump ==
    /\ matches' = <<>>
    /\ match_i' = 0
    /\ match_scroll' = 0
    /\ matches_height' = 1
    /\ edit_width' = 0
    /\ box' = Box(0, 0, 0)

MoveMatch(at) ==
    /\ match_i' = at.sel
    /\ match_scroll' = at.scroll
    /\ UNCHANGED <<matches, matches_height, edit_width, box>>

NextMatch(at) == SelectNextMatch(at, Len(matches), matches_height)

MoveMatchSelection ==
    \/ MoveMatch(NextMatch(MatchPlace))
    \/ MoveMatch(SelectPrevMatch(MatchPlace))
    \/ MoveMatch(Page(NextMatch, MatchPlace))
    \/ MoveMatch(Page(SelectPrevMatch, MatchPlace))
    \/ MoveMatch(SelectLast(Len(matches), matches_height))
    \/ MoveMatch(Top)

\* _resize_jump_to_dialog
ResizeJump(screen) ==
    /\ matches_height' = MatchesHeight(screen)
    /\ edit_width' = screen.width - 2
    /\ LET at == Rescroll(MatchPlace, matches_height') IN
       /\ match_i' = at.sel
       /\ match_scroll' = at.scroll
    /\ UNCHANGED <<matches, box>>

\* Mutant: the selection stays where it was in the list of before
NewMatchesKeep(nodes) ==
    /\ matches' = nodes
    /\ UNCHANGED <<match_i, match_scroll>>

\* A new text: its matches, and the first of them is selected.
NewMatches(nodes) ==
    /\ matches' = nodes
    /\ match_i' = 0
    /\ match_scroll' = 0

\* Whether the key changes the text; typing a character always does.
ChangesText(key, word) ==
    \/ key = "insert"
    \/ Typed(box, key, word).len # box.len

EditSearch(key, word, nodes) ==
    /\ word \in 0..box.i
    /\ box' = EditText(box, key, word, edit_width)
    /\ UNCHANGED <<matches_height, edit_width>>
    /\ IF ChangesText(key, word) THEN NewMatches(nodes)
       ELSE UNCHANGED <<matches, match_i, match_scroll>>

-------------------------------------------------------------------------------
JumpNext ==
    \/ MoveMatchSelection
    \/ \E screen \in Screens : ResizeJump(screen)
    \/ /\ matches' \in Seq(Nat)
       /\ \/ \E screen \in Screens : OpenJump(matches', screen)
          \/ \E key \in EditKeys, word \in 0..box.i : EditSearch(key, word, matches')
    \/ CloseJump

JumpSpec == JumpClosed /\ [][JumpNext]_jump_vars

-------------------------------------------------------------------------------
\* Properties

\* As long as something matches, the selected match exists and is on a row of
\* the window: what Enter jumps to is what is highlighted.
MatchOnScreen ==
    matches # <<>> => OnScreen(MatchPlace, Len(matches), matches_height)

\* Whatever is typed, the cursor is in the edit box afterwards, unless the
\* terminal is so narrow that the scroll offset is wider than the box.
CursorInBox ==
    [][ box' # box /\ edit_width' > ScrollOffset => CursorShown(box', edit_width') ]_jump_vars
===============================================================================
