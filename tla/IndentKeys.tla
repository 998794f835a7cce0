------------------------------ MODULE IndentKeys ------------------------------
(***************************************************************************)
(* The keys of the source view that change indentation: Tab, Shift-Tab,    *)
(* BackSpace and Home (on_sourceview_tab and the handlers after it).  A    *)
(* line is its leading spaces and the text after them, which is one        *)
(* character wide or, in a blank line, empty.                              *)
(***************************************************************************)
EXTENDS Integers, Sequences

CONSTANTS
  INDENT_WIDTH,
  LineTexts,   \* the sequences of texts of the lines
  MaxSpaces    \* bound: the leading spaces of a line

VARIABLES
  spaces,     \* the leading spaces of each line
  texts,      \* the text after them
  insert,     \* the insert mark, as line and column
  bound,      \* the other end of the selection, or the same place
  key,        \* the last key, with what it was about
  previous    \* spaces before the last key

vars == <<spaces, texts, insert, bound, key, previous>>

Lines == DOMAIN texts

LineEnd(l) == spaces[l] + (IF texts[l] = "" THEN 0 ELSE 1)

Before(a, b) == a[1] < b[1] \/ (a[1] = b[1] /\ a[2] <= b[2])

Selected == insert # bound

SelectedLines ==
  IF Before(insert, bound) THEN insert[1] .. bound[1] ELSE bound[1] .. insert[1]

Blank(l) == texts[l] = ""

Places(l) == {l} \X (0 .. LineEnd(l))

Init ==
  /\ texts \in LineTexts
  /\ spaces \in [Lines -> 0 .. MaxSpaces]
  /\ insert \in UNION {Places(l) : l \in Lines}
  /\ bound \in UNION {Places(l) : l \in Lines}
  /\ key = "none" /\ previous = spaces

Press(k) == key' = k /\ previous' = spaces /\ UNCHANGED texts

\* Mutations of the definitions that follow, each the mark of a plausible slip
\* in the code, have an underscore in their names and are used by no other
\* definition: TLC refutes a property with each of them.

\* A whole level is inserted, wherever the cursor is.
TabStop_level ==
  /\ ~Selected /\ insert[2] <= spaces[insert[1]]
  /\ spaces' = [spaces EXCEPT ![insert[1]] = @ + INDENT_WIDTH]
  /\ spaces'[insert[1]] <= MaxSpaces
  /\ insert' = <<insert[1], insert[2] + INDENT_WIDTH>> /\ bound' = insert'
  /\ Press("tab")

\* Tab in the indentation: forward to the next tab stop.
TabStop ==
  LET width == INDENT_WIDTH - (insert[2] % INDENT_WIDTH)
  IN  /\ ~Selected /\ insert[2] <= spaces[insert[1]]
      /\ spaces' = [spaces EXCEPT ![insert[1]] = @ + width]
      /\ spaces'[insert[1]] <= MaxSpaces
      /\ insert' = <<insert[1], insert[2] + width>> /\ bound' = insert'
      /\ Press("tab")

\* The lines of the selection are selected as a whole.
SelectLines(from, to) ==
  /\ insert' = <<from, 0>>
  /\ bound' = <<to, spaces'[to] + (IF texts[to] = "" THEN 0 ELSE 1)>>

First(S) == CHOOSE a \in S : \A b \in S : a <= b
Final(S) == CHOOSE a \in S : \A b \in S : a >= b

\* Lines that have text are indented to the next tab stop each.
TabLines_stop ==
  /\ Selected
  /\ spaces' = [l \in Lines |-> IF l \in SelectedLines
                                THEN spaces[l] + (INDENT_WIDTH - (spaces[l] % INDENT_WIDTH)) ELSE spaces[l]]
  /\ \A l \in Lines : spaces'[l] <= MaxSpaces
  /\ SelectLines(First(SelectedLines), Final(SelectedLines))
  /\ Press("indent")

\* Tab with a selection: all its lines, blank ones too, a level more.
TabLines ==
  /\ Selected
  /\ spaces' = [l \in Lines |-> IF l \in SelectedLines THEN spaces[l] + INDENT_WIDTH ELSE spaces[l]]
  /\ \A l \in Lines : spaces'[l] <= MaxSpaces
  /\ SelectLines(First(SelectedLines), Final(SelectedLines))
  /\ Press("indent")

\* Each line loses what it has.
ShiftTab_each ==
  /\ spaces' = [l \in Lines |-> IF l \in SelectedLines
                                THEN IF spaces[l] > INDENT_WIDTH THEN spaces[l] - INDENT_WIDTH ELSE 0
                                ELSE spaces[l]]
  /\ SelectLines(First(SelectedLines), Final(SelectedLines))
  /\ Press("unindent")

\* A blank line is not looked at by itself.
ShiftTab_blank ==
  /\ \A l \in SelectedLines : ~Blank(l) => spaces[l] >= INDENT_WIDTH
  /\ spaces' = [l \in Lines |-> IF l \in SelectedLines THEN spaces[l] - INDENT_WIDTH ELSE spaces[l]]
  /\ SelectLines(First(SelectedLines), Final(SelectedLines))
  /\ Press("unindent")

\* Shift-Tab: the lines of the selection, or that of the cursor, a level less, if each
\* that has text can; a blank line loses what it has.
ShiftTab ==
  /\ \A l \in SelectedLines : ~Blank(l) => spaces[l] >= INDENT_WIDTH
  /\ spaces' = [l \in Lines |-> IF l \in SelectedLines
                                THEN IF spaces[l] > INDENT_WIDTH THEN spaces[l] - INDENT_WIDTH ELSE 0
                                ELSE spaces[l]]
  /\ SelectLines(First(SelectedLines), Final(SelectedLines))
  /\ Press("unindent")

Beep ==
  /\ \E l \in SelectedLines : ~Blank(l) /\ spaces[l] < INDENT_WIDTH
  /\ Press("beep") /\ UNCHANGED <<spaces, insert, bound>>

\* BackSpace in the indentation: back to the last tab stop.  The handler does not look
\* at the selection.
BackSpace ==
  LET from == ((insert[2] - 1) \div INDENT_WIDTH) * INDENT_WIDTH
  IN  /\ insert[2] > 0 /\ insert[2] <= spaces[insert[1]]
      /\ spaces' = [spaces EXCEPT ![insert[1]] = @ - (insert[2] - from)]
      /\ insert' = <<insert[1], from>>
      /\ bound' = IF bound[1] # insert[1] \/ bound[2] <= from THEN bound
                  ELSE IF bound[2] >= insert[2] THEN <<bound[1], bound[2] - (insert[2] - from)>>
                  ELSE insert'
      /\ Press("backspace")

\* Home at the start of a line goes to its text; elsewhere GTK goes to the start.
Home ==
  /\ insert' = <<insert[1], IF insert[2] = 0 THEN spaces[insert[1]] ELSE 0>> /\ bound' = insert'
  /\ Press("home") /\ UNCHANGED spaces

Next == TabStop \/ TabLines \/ ShiftTab \/ Beep \/ BackSpace \/ Home

Spec == Init /\ [][Next]_vars

-------------------------------------------------------------------------------
TypeOK ==
  /\ spaces \in [Lines -> 0 .. MaxSpaces]
  /\ insert \in UNION {Places(l) : l \in Lines}
  /\ bound \in UNION {Places(l) : l \in Lines}

\* However many lines are indented or unindented at once, those with text keep their
\* places to each other: a key moves all of them as far, or none.
BlocksStayTogether ==
  [][key' \in {"indent", "unindent"} =>
       \A row, m \in SelectedLines :
         ~Blank(row) /\ ~Blank(m) => spaces'[row] - spaces[row] = spaces'[m] - spaces[m]]_vars

\* Shift-Tab after Tab leaves every line as it was, since the lines stay selected.
ShiftTabUndoesTab == [][key = "indent" /\ key' = "unindent" => spaces' = previous]_vars

\* BackSpace after Tab from a tab stop leaves the line as it was, and from elsewhere at
\* the tab stop before; Tab after BackSpace never leaves less than there was.
BackSpaceUndoesTab ==
  [][/\ key = "tab" /\ key' = "backspace" =>
          \A row \in Lines : spaces'[row] <= previous[row] /\ previous[row] - spaces'[row] < INDENT_WIDTH
     /\ key = "backspace" /\ key' = "tab" => \A row \in Lines : spaces'[row] >= previous[row]]_vars
===============================================================================
