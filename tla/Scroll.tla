--------------------------------- MODULE Scroll ---------------------------------
(***************************************************************************)
(* kconfiglib/menuconfig.py: the arithmetic of what scrolls, which the main*)
(* display and the jump-to dialog share: lists with a selected entry, and  *)
(* edit boxes with a cursor.                                               *)
(***************************************************************************)
EXTENDS Integers

CONSTANTS
    Screens,         \* the sizes a terminal can have
    ScrollOffset,    \* _SCROLL_OFFSET
    MainHelpHeight,  \* len(_MAIN_HELP_LINES)
    ShowHelpHeight,  \* _SHOW_HELP_HEIGHT
    JumpHelpHeight   \* len(_JUMP_TO_HELP_LINES)

ASSUME ScrollAssumption ==
    /\ Screens \subseteq [height : Nat, width : Nat]
    /\ {ScrollOffset, MainHelpHeight, ShowHelpHeight, JumpHelpHeight} \subseteq Nat

Smaller(a, b) == IF a < b THEN a ELSE b
Larger(a, b) == IF a < b THEN b ELSE a

\* The rows that are left for a list; one on a terminal that is too small.
WindowHeight(screen, used) == Larger(screen.height - used, 1)

-------------------------------------------------------------------------------
(* Where a list is: the index of the selected entry, and that of the entry   *)
(* on the top row.  n is the length of the list, height that of its window.  *)
At(sel, scroll) == [sel |-> sel, scroll |-> scroll]
Top == At(0, 0)

MaxScroll(n, height) == Larger(0, n - height)

\* The selected entry exists and is on a row of the window.
OnScreen(at, n, height) ==
    /\ at.sel \in 0..n - 1
    /\ at.scroll \in 0..at.sel
    /\ at.sel - at.scroll < height

\* _select_next_menu_entry
SelectNext(at, n, height) ==
    IF at.sel >= n - 1 THEN at
    ELSE IF /\ at.sel + 1 >= at.scroll + height - ScrollOffset
            /\ at.scroll < MaxScroll(n, height)
    THEN At(at.sel + 1, at.scroll + 1)
    ELSE At(at.sel + 1, at.scroll)

\* _select_prev_menu_entry
SelectPrev(at) ==
    IF at.sel <= 0 THEN at
    ELSE IF at.sel - 1 < at.scroll + ScrollOffset
    THEN At(at.sel - 1, Larger(at.scroll - 1, 0))
    ELSE At(at.sel - 1, at.scroll)

\* select_next_match and select_prev_match of the jump-to dialog.  They test
\* for the ends with = and so leave an empty list.
SelectNextMatch(at, n, height) ==
    IF at.sel = n - 1 THEN at
    ELSE IF /\ at.sel + 1 >= at.scroll + height - ScrollOffset
            /\ at.scroll < MaxScroll(n, height)
    THEN At(at.sel + 1, at.scroll + 1)
    ELSE At(at.sel + 1, at.scroll)

SelectPrevMatch(at) ==
    IF at.sel = 0 THEN at
    ELSE IF at.sel - 1 < at.scroll + ScrollOffset
    THEN At(at.sel - 1, Larger(at.scroll - 1, 0))
    ELSE At(at.sel - 1, at.scroll)

\* _PG_JUMP steps
Page(Step(_), at) == Step(Step(Step(Step(Step(Step(at))))))

\* _select_last_menu_entry
SelectLast(n, height) == At(n - 1, MaxScroll(n, height))

\* _center_vertically
CenterVertically(sel, n, height) ==
    At(sel, Smaller(Larger(sel - (height \div 2), 0), MaxScroll(n, height)))

\* The selected entry stays on its row, if the list is long enough.
OnRow(sel, row) == At(sel, Larger(sel - row, 0))

\* The end of _resize_main and _resize_jump_to_dialog
Rescroll(at, height) ==
    IF at.sel - at.scroll >= height THEN At(at.sel, at.sel - height + 1) ELSE at

-------------------------------------------------------------------------------
(* An edit box: the length of the text, the cursor and the first character   *)
(* that is shown.                                                            *)
Box(len, i, hscroll) == [len |-> len, i |-> i, hscroll |-> hscroll]

EditKeys == {"left", "right", "home", "end", "backspace", "delete", "word",
             "kill", "clear", "insert"}

\* The cursor is in the box.
CursorShown(box, width) == box.i - box.hscroll \in 0..width - 1

\* The text and the cursor after a key; word is where Ctrl-W finds the word.
Typed(box, key, word) ==
    CASE key = "left" -> [box EXCEPT !.i = Larger(@ - 1, 0)]
      [] key = "right" -> [box EXCEPT !.i = Smaller(@ + 1, box.len)]
      [] key = "home" -> [box EXCEPT !.i = 0]
      [] key = "end" -> [box EXCEPT !.i = box.len]
      [] key = "backspace" ->
           IF box.i = 0 THEN box ELSE Box(box.len - 1, box.i - 1, box.hscroll)
      [] key = "delete" ->
           IF box.i = box.len THEN box ELSE Box(box.len - 1, box.i, box.hscroll)
      [] key = "word" -> Box(box.len - (box.i - word), word, box.hscroll)
      [] key = "kill" -> Box(box.i, box.i, box.hscroll)
      [] key = "clear" -> Box(box.len - box.i, 0, box.hscroll)
      [] key = "insert" -> Box(box.len + 1, box.i + 1, box.hscroll)

\* The end of _edit_text: the cursor does not touch the edges of the box.
ScrollBox(box, width) ==
    IF box.i < box.hscroll + ScrollOffset
    THEN Box(box.len, box.i, Larger(box.i - ScrollOffset, 0))
    ELSE IF box.i >= box.hscroll + width - ScrollOffset
    THEN Box(box.len, box.i, Smaller(box.i - width + ScrollOffset + 1,
                                     Larger(box.len - width + 1, 0)))
    ELSE box

EditText(box, key, word, width) == ScrollBox(Typed(box, key, word), width)
===============================================================================
