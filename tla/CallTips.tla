------------------------------- MODULE CallTips --------------------------------
(***************************************************************************)
(* call_tips.py and call_tip_window.py: the window with the documentation  *)
(* of the function whose call is being typed.  CallTips follows the source *)
(* buffer with handlers that it connects while the tip is shown, and moves *)
(* the window by jobs for GTK's idle time; the window itself may be closed *)
(* with Escape, which CallTips is not told.  Offsets count characters from *)
(* 0, as GTK's do; the text is what HyperParser tells apart.               *)
(***************************************************************************)
EXTENDS Integers, Sequences, SequencesExt, FiniteSetsExt

CONSTANTS
  Pages,    \* what the user finds on other pages of the notebook
  MaxText   \* bound on the length of a text

Chars == {"(", ")", "x", "newline"}

VARIABLES
  sb,       \* the text of the current page
  insert,   \* and its insert mark
  tip,      \* CallTips: is_shown with the handlers connected, start_mark, end_mark
  win,      \* CallTipWindow: whether it is visible, where, was_dragged,
            \* keypress_handler_blocked, and how often the handler is blocked
  places,   \* a place_window waits for idle time
  shows     \* a show(True) waits for idle time

vars == <<sb, insert, tip, win, places, shows>>

NoTip == [is_shown |-> FALSE, start |-> 0, end |-> 0]

NoWhere == <<-1, -1>>

Init ==
  /\ sb = <<>> /\ insert = 0
  /\ tip = NoTip
  /\ win = [visible |-> FALSE, at |-> NoWhere, was_dragged |-> FALSE, flag |-> TRUE, blocks |-> 1]
  /\ places = FALSE /\ shows = FALSE

-------------------------------------------------------------------------------
(* Where things are *)

\* The bracket that closes the one at offset o, the length of the text if none does.
Depth(s, a, b) == Quantify(a .. b, LAMBDA i : s[i] = "(") - Quantify(a .. b, LAMBDA i : s[i] = ")")

Closer(s, o) ==
  LET closers == {c \in o + 1 .. Len(s) - 1 : Depth(s, o + 1, c + 1) = 0}
  IN  IF closers = {} THEN Len(s) ELSE CHOOSE c \in closers : \A d \in closers : c <= d

\* The brackets around the cursor, of which the last is the innermost.
Openers(s, index) == {o \in 0 .. index - 1 : s[o + 1] = "(" /\ Closer(s, o) >= index}

\* get_line() and the offset in the line.
Line(s, i) == Quantify(1 .. i, LAMBDA k : s[k] = "newline")

Column(s, i) == i - (CHOOSE k \in 0 .. i : (k = 0 \/ s[k] = "newline") /\ \A j \in k + 1 .. i : s[j] # "newline")

\* get_position(): under the opening bracket, or at the start of the cursor's line.
Position(s, start, index) ==
  IF Line(s, index) = Line(s, start - 1) THEN <<Line(s, start - 1), Column(s, start - 1)>>
  ELSE <<Line(s, index), 0>>

-------------------------------------------------------------------------------
(* The window *)

\* Mutations of the definitions that follow, each the mark of a plausible slip
\* in the code, have an underscore in their names and are used by no other
\* definition: TLC refutes a property with each of them.

\* The handler is blocked without a look at keypress_handler_blocked.
WindowHidden_blocks(w) ==
  [visible |-> FALSE, at |-> w.at, was_dragged |-> FALSE, flag |-> TRUE, blocks |-> w.blocks + 1]

\* CallTipWindow.hide()
WindowHidden(w) ==
  [visible |-> FALSE, at |-> w.at, was_dragged |-> FALSE, flag |-> TRUE,
   blocks |-> IF w.flag THEN w.blocks ELSE w.blocks + 1]

\* CallTipWindow.show()
WindowShown(w, at) ==
  [w EXCEPT !.visible = TRUE, !.at = at, !.flag = FALSE,
            !.blocks = IF @ = 0 THEN 0 ELSE @ - 1]

\* The window is moved although the user has dragged it.
MovedPerhaps_always(w, at) == [w EXCEPT !.at = at]

\* move_perhaps()
MovedPerhaps(w, at) == IF w.was_dragged THEN w ELSE [w EXCEPT !.at = at]

\* CallTips.hide()
Hide == tip' = NoTip /\ win' = IF tip.is_shown THEN WindowHidden(win) ELSE win

\* The window stays where it is while the cursor moves in the call.
HideIf_still(leaves, start, end) ==
  IF tip.is_shown /\ ~leaves
  THEN tip' = [tip EXCEPT !.start = start, !.end = end] /\ UNCHANGED <<win, places>>
  ELSE Hide /\ UNCHANGED places

\* A handler lets the tip be, with its marks at these offsets, or hides it.
HideIf(leaves, start, end) ==
  IF tip.is_shown /\ ~leaves
  THEN /\ tip' = [tip EXCEPT !.start = start, !.end = end]
       /\ places' = TRUE
       /\ UNCHANGED win
  ELSE Hide /\ UNCHANGED places

-------------------------------------------------------------------------------
(* CallTips *)

\* show(): what the parser finds, and what get_func_doc says, decide.
Show(is_auto) ==
  LET openers == Openers(sb, insert)
      opener  == Max(openers)
  IN  /\ UNCHANGED <<sb, insert, places>>
      /\ \/ UNCHANGED <<tip, win>>
         \/ /\ openers # {}
            /\ opener > 0
            /\ sb[opener] \in IF is_auto THEN {"x"} ELSE {"x", ")"}
            /\ tip' = [is_shown |-> TRUE, start |-> opener + 1, end |-> Closer(sb, opener)]
            /\ win' = WindowShown(IF tip.is_shown THEN WindowHidden(win) ELSE win,
                                  Position(sb, opener + 1, insert))

ShowNow == Show(FALSE) /\ UNCHANGED shows

\* on_sourceview_parenleft and autoparen_show_call_tip, when idle.
ShowIdle == shows /\ shows' = FALSE /\ Show(TRUE)

\* The key goes on to the buffer, the job comes later.
ParenLeft == shows' = TRUE /\ UNCHANGED <<sb, insert, tip, win, places>>

\* place_window()
PlaceWindow ==
  /\ places /\ places' = FALSE
  /\ win' = IF tip.is_shown THEN MovedPerhaps(win, Position(sb, tip.start, insert)) ELSE win
  /\ UNCHANGED <<sb, insert, tip, shows>>

\* on_mark_set: the cursor is moved.
MoveCursor(i) ==
  /\ i \in 0 .. Len(sb) /\ i # insert
  /\ insert' = i
  /\ HideIf(i < tip.start \/ i > tip.end, tip.start, tip.end)
  /\ UNCHANGED <<sb, shows>>

\* Only text before the call is looked at.
Insert_before(i, c) ==
  /\ i \in 0 .. Len(sb) /\ Len(sb) < MaxText
  /\ sb' = InsertAt(sb, i + 1, c)
  /\ insert' = IF insert >= i THEN insert + 1 ELSE insert
  /\ HideIf(c \in {"(", ")"} \/ i < tip.start,
            IF tip.start > i THEN tip.start + 1 ELSE tip.start,
            IF tip.end >= i THEN tip.end + 1 ELSE tip.end)
  /\ UNCHANGED shows

\* on_insert_text, before the buffer changes: a character at the cursor or
\* elsewhere.  A mark with left gravity stays before it.
Insert(i, c) ==
  /\ i \in 0 .. Len(sb) /\ Len(sb) < MaxText
  /\ sb' = InsertAt(sb, i + 1, c)
  /\ insert' = IF insert >= i THEN insert + 1 ELSE insert
  /\ HideIf(c \in {"(", ")"} \/ i < tip.start \/ i > tip.end,
            IF tip.start > i THEN tip.start + 1 ELSE tip.start,
            IF tip.end >= i THEN tip.end + 1 ELSE tip.end)
  /\ UNCHANGED shows

\* Where a mark is after the text from a to b is deleted.
AfterDelete(m, a, b) == IF m <= a THEN m ELSE IF m <= b THEN a ELSE m - (b - a)

\* Brackets in the deleted text are not looked at.
DeleteRange_brackets(a, b) ==
  /\ a \in 0 .. Len(sb) /\ b \in a + 1 .. Len(sb)
  /\ sb' = SubSeq(sb, 1, a) \o SubSeq(sb, b + 1, Len(sb))
  /\ insert' = AfterDelete(insert, a, b)
  /\ HideIf(a < tip.start \/ b > tip.end, AfterDelete(tip.start, a, b), AfterDelete(tip.end, a, b))
  /\ UNCHANGED shows

\* on_delete_range, before the buffer changes.
DeleteRange(a, b) ==
  /\ a \in 0 .. Len(sb) /\ b \in a + 1 .. Len(sb)
  /\ sb' = SubSeq(sb, 1, a) \o SubSeq(sb, b + 1, Len(sb))
  /\ insert' = AfterDelete(insert, a, b)
  /\ HideIf((\E i \in a + 1 .. b : sb[i] \in {"(", ")"}) \/ a < tip.start \/ b > tip.end,
            AfterDelete(tip.start, a, b), AfterDelete(tip.end, a, b))
  /\ UNCHANGED shows

\* on_focus_out and on_configure.
Leave == tip.is_shown /\ Hide /\ UNCHANGED <<sb, insert, places, shows>>

\* on_esc: the window's own, reached while its handler is not blocked.
Escape ==
  /\ win.blocks = 0
  /\ win' = WindowHidden(win)
  /\ UNCHANGED <<sb, insert, tip, places, shows>>

\* on_textview_event: the user drags the window.
Drag ==
  /\ win.visible /\ ~win.was_dragged
  /\ win' = [win EXCEPT !.was_dragged = TRUE, !.at = NoWhere]
  /\ UNCHANGED <<sb, insert, tip, places, shows>>

\* CallTips forgets to hide: only the window does.
SwitchTab_shown(page) ==
  /\ sb' = page /\ insert' \in 0 .. Len(page)
  /\ tip' = tip /\ win' = [WindowHidden(win) EXCEPT !.blocks = 1]
  /\ UNCHANGED <<places, shows>>

\* on_sv_changed of both: the handler on the new view is new, and blocked.
SwitchTab(page) ==
  /\ sb' = page /\ insert' \in 0 .. Len(page)
  /\ tip' = NoTip /\ win' = [WindowHidden(win) EXCEPT !.blocks = 1]
  /\ UNCHANGED <<places, shows>>

Next ==
  \/ ShowNow \/ ShowIdle \/ ParenLeft \/ PlaceWindow \/ Leave \/ Escape \/ Drag
  \/ \E i \in 0 .. MaxText : MoveCursor(i)
  \/ \E i \in 0 .. MaxText, c \in Chars : Insert(i, c)
  \/ \E a, b \in 0 .. MaxText : DeleteRange(a, b)
  \/ \E page \in Pages : SwitchTab(page)

Spec == Init /\ [][Next]_vars

-------------------------------------------------------------------------------
TypeOK ==
  /\ sb \in Seq(Chars) /\ Len(sb) <= MaxText /\ insert \in 0 .. Len(sb)
  /\ tip.start <= tip.end /\ tip.end <= Len(sb)
  /\ win.visible => tip.is_shown

\* The keys that scroll and close the tip are taken from the source view exactly
\* while the tip is visible, after any order of Escape, new tips and new tabs:
\* GTK counts how often a handler is blocked.
KeysWhileVisible == win.blocks = IF win.visible THEN 0 ELSE 1

\* A visible tip is about a call that the cursor is in: its bracket stands before
\* start_mark, and what is between the marks closes no more than it opens.
CursorIsInTheCall ==
  win.visible =>
    /\ tip.start > 0 /\ sb[tip.start] = "("
    /\ insert \in tip.start .. tip.end
    /\ tip.end = Closer(sb, tip.start - 1)

\* When GTK is idle a visible tip that was not dragged is where it belongs.
PlacedByTheCall ==
  win.visible /\ ~win.was_dragged /\ ~places => win.at = Position(sb, tip.start, insert)

\* "Move the window to x-y, unless it was already manually dragged": as long as
\* it is visible.
DraggedStays ==
  [][win.visible /\ win.was_dragged /\ win'.visible /\ win'.was_dragged => win'.at = win.at]_vars
===============================================================================
