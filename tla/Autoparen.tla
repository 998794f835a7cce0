------------------------------- MODULE Autoparen -------------------------------
(***************************************************************************)
(* autoparen.py: space after the name of something that can only be called *)
(* types parentheses.  While what is typed in them may still turn out to   *)
(* be an operator, two handlers watch the buffer, and when it does the     *)
(* parentheses are taken back.  The handlers run before the buffer is      *)
(* changed.  Offsets count from 0.                                         *)
(***************************************************************************)
EXTENDS Integers, Sequences, FiniteSets

CONSTANTS
  undo_strings,  \* what undoes the parentheses
  Operators,     \* what does not make sense at the beginning of an expression
  Names,         \* the characters that names and keywords are of
  Keywords,
  Others,        \* other characters that are typed
  TabTexts,      \* the texts of the tabs
  MaxLen         \* bound: the length of the text, but for four characters while it is watched

Chars == Names \cup Others \cup {"space"}

\* Mutations of the definitions that follow, each the mark of a plausible slip
\* in the code, have an underscore in their names and are used by no other
\* definition: TLC refutes a property with each of them.

\* One character less: off by one.
prefixes_short == UNION {{SubSeq(s, 1, m) : m \in 1 .. Len(s) - 2} : s \in undo_strings}

\* prefixes: of undo_strings, shorter than they.
prefixes == UNION {{SubSeq(s, 1, m) : m \in 1 .. Len(s) - 1} : s \in undo_strings}

VARIABLES
  text, insert,  \* the source buffer and the cursor
  mark,          \* the end of the expression that has parentheses, with left gravity
  watching,      \* whether the handlers are connected
  cur_prefix,
  plain,         \* ghost: while watching, the text if space had been a space, with what is not
                 \* taken back of the two quotes
  last           \* ghost: what just happened: "refused", the user deleted the parenthesis that was
                 \* added, or "undone", the parentheses were taken back

vars == <<text, insert, mark, watching, cur_prefix, plain, last>>

\* s with t put at offset p, and without what is from a to b.
Put(s, p, t) == SubSeq(s, 1, p) \o t \o SubSeq(s, p + 1, Len(s))

Cut(s, a, b) == SubSeq(s, 1, a) \o SubSeq(s, b + 1, Len(s))

\* Where marks go when w characters are put at p, or the text from a to b is cut.
Right(m, p, w) == IF m >= p THEN m + w ELSE m

Left(m, p, w) == IF m > p THEN m + w ELSE m

Closed(m, a, b) == IF m <= a THEN m ELSE IF m >= b THEN m - (b - a) ELSE a

Init ==
  /\ text \in TabTexts /\ insert = Len(text)
  /\ mark = 0 /\ watching = FALSE /\ cur_prefix = <<>>
  /\ plain = <<>> /\ last = "none"

\* The space is put after what was typed.
Undone_after ==
  LET open  == mark
      close == mark + Len(cur_prefix) + 1
  IN  Put(Cut(Cut(text, close, close + 1), open, open + 1), close - 1, <<"space">>)

\* The text without the parentheses, and with the space that was pressed.
Undone ==
  LET open  == mark
      close == mark + Len(cur_prefix) + 1
  IN  Put(Cut(Cut(text, close, close + 1), open, open + 1), open, <<"space">>)

\* Where that leaves the cursor, with what is typed at offset at.
InsertUndone(at) ==
  Right(Right(Closed(Closed(insert, at, at + 1), mark, mark + 1), mark, 1), at, 1)

\* on_insert_text() with one character, and the insertion.
InsertChar(at, c) ==
  LET here       == at = mark + Len(cur_prefix) + 1
      new_prefix == Append(cur_prefix, c)
      waits      == watching /\ here /\ new_prefix \in prefixes
      undoes     == watching /\ here /\ ~waits /\ new_prefix \in undo_strings
  IN  /\ text' = Put(IF undoes THEN Undone ELSE text, at, <<c>>)
      /\ insert' = IF undoes THEN InsertUndone(at) ELSE Right(insert, at, 1)
      /\ mark' = Left(mark, at, 1)
      /\ watching' = waits
      /\ cur_prefix' = IF waits THEN new_prefix ELSE cur_prefix
      /\ plain' = IF waits \/ undoes THEN Put(plain, at, <<c>>) ELSE <<>>
      /\ last' = IF undoes THEN "undone" ELSE "none"
      /\ Len(text') <= IF watching THEN MaxLen + 4 ELSE MaxLen

\* A character is typed, or dropped somewhere, or comes back by undo.
Type ==
  \E c \in Names \cup Others, at \in 0 .. Len(text) : InsertChar(at, c)

\* Several characters at once.
Paste ==
  /\ Len(text) + 2 <= MaxLen
  /\ \E c \in Chars, at \in 0 .. Len(text) :
       /\ text' = Put(text, at, <<c, c>>)
       /\ insert' = Right(insert, at, 2)
       /\ mark' = Left(mark, at, 2)
  /\ watching' = FALSE /\ last' = "none"
  /\ plain' = <<>> /\ UNCHANGED cur_prefix

\* Anything that is deleted in the parentheses is a character less of the prefix.
Delete_any ==
  \E a \in 0 .. Len(text) - 1 : \E b \in a + 1 .. Len(text) :
    LET backspace == watching /\ cur_prefix # <<>> /\ b = a + 1 /\ a > mark
    IN  /\ text' = Cut(text, a, b)
        /\ insert' = Closed(insert, a, b)
        /\ mark' = Closed(mark, a, b)
        /\ watching' = backspace
        /\ cur_prefix' = IF backspace THEN SubSeq(cur_prefix, 1, Len(cur_prefix) - 1) ELSE cur_prefix
        /\ plain' = IF backspace THEN Cut(plain, a, b) ELSE <<>>
        /\ last' = IF watching /\ cur_prefix = <<>> /\ a = mark /\ insert = b /\ b = a + 1 THEN "refused" ELSE "none"

\* A range is deleted: on_delete_range(), and the deletion.
Delete ==
  \E a \in 0 .. Len(text) - 1 : \E b \in a + 1 .. Len(text) :
    LET backspace == watching /\ cur_prefix # <<>> /\ a = mark + Len(cur_prefix) /\ b = a + 1
    IN  /\ text' = Cut(text, a, b)
        /\ insert' = Closed(insert, a, b)
        /\ mark' = Closed(mark, a, b)
        /\ watching' = backspace
        /\ cur_prefix' = IF backspace THEN SubSeq(cur_prefix, 1, Len(cur_prefix) - 1) ELSE cur_prefix
        /\ plain' = IF backspace THEN Cut(plain, a, b) ELSE <<>>
        /\ last' = IF watching /\ cur_prefix = <<>> /\ a = mark /\ insert = b /\ b = a + 1 THEN "refused" ELSE "none"

\* What is before the cursor is a name: the quick checks of add_parens().
MayCall ==
  LET start == CHOOSE j \in 0 .. insert : /\ \A h \in j + 1 .. insert : text[h] \in Names
                                          /\ j > 0 => text[j] \notin Names
  IN  insert > 0 /\ text[insert] \in Names /\ SubSeq(text, start + 1, insert) \notin Keywords

\* The mark is not looked at.
AddParens_again ==
  /\ MayCall
  /\ Len(text) <= MaxLen
  /\ text' = Put(text, insert, <<"(", ")">>) /\ insert' = insert + 1
  /\ mark' = insert
  /\ watching' = TRUE /\ cur_prefix' = <<>> /\ plain' = Put(text, insert, <<"space">>)
  /\ last' = "none"

\* add_parens() adds them.  The name expects a string because the subprocess says so
\* (quotes = "subp") or because it is in the user's list ("list"): then the buffer is
\* watched as if there were no quotes, and it is the first of them that would be deleted
\* for the closing parenthesis.
AddParens ==
  /\ mark # insert /\ MayCall /\ Len(text) <= MaxLen
  /\ \E quotes \in {"none", "subp", "list"} :
       LET what == IF quotes = "none" THEN <<"(", ")">> ELSE <<"(", "dq", "dq", ")">>
       IN  /\ text' = Put(text, insert, what)
           /\ insert' = insert + (IF quotes = "none" THEN 1 ELSE 2)
           /\ IF quotes # "subp"
              THEN /\ watching' = TRUE /\ cur_prefix' = <<>>
                   /\ plain' = Put(text, insert, IF quotes = "none" THEN <<"space">> ELSE <<"space", "dq", ")">>)
              ELSE watching' = FALSE /\ plain' = <<>> /\ UNCHANGED cur_prefix
  /\ mark' = insert
  /\ last' = "none"

\* It does not: the mark, the kind of the line, the parser or the subprocess says no.
\* Then the space is inserted.
PlainSpace == InsertChar(insert, "space")

Space == AddParens \/ PlainSpace

MoveCursor ==
  /\ insert' \in 0 .. Len(text) /\ insert' # insert
  /\ last' = "none"
  /\ UNCHANGED <<text, mark, watching, cur_prefix, plain>>

\* The mark of the old buffer is kept.
SwitchTab_mark ==
  /\ text' \in TabTexts /\ insert' = Len(text')
  /\ watching' = FALSE /\ last' = "none"
  /\ plain' = <<>> /\ UNCHANGED <<cur_prefix, mark>>

\* The handlers stay.
SwitchTab_watching ==
  /\ text' \in TabTexts /\ insert' = Len(text')
  /\ mark' = 0 /\ last' = "none"
  /\ UNCHANGED <<watching, cur_prefix, plain>>

\* on_sv_changed()
SwitchTab ==
  /\ text' \in TabTexts /\ insert' = Len(text')
  /\ mark' = 0 /\ watching' = FALSE /\ last' = "none"
  /\ plain' = <<>> /\ UNCHANGED cur_prefix

Next == Type \/ Paste \/ Delete \/ Space \/ MoveCursor \/ SwitchTab

Spec == Init /\ [][Next]_vars

-------------------------------------------------------------------------------
TypeOK ==
  /\ text \in Seq(Chars \cup {"(", ")", "dq"}) /\ Len(text) <= MaxLen + 4
  /\ insert \in 0 .. Len(text) /\ mark \in 0 .. Len(text)
  /\ watching \in BOOLEAN /\ last \in {"none", "refused", "undone"}
  /\ cur_prefix \in prefixes \cup {<<>>}

\* While the buffer is watched the parentheses are there, with the prefix in them and
\* nothing else, "Currently we have: obj(prefi|)", or nothing but the two quotes after it.
ParensAreThere ==
  watching =>
    \E closing \in {<<")">>, <<"dq", "dq", ")">>} :
      SubSeq(text, mark + 1, mark + Len(cur_prefix) + 1 + Len(closing)) = <<"(">> \o cur_prefix \o closing

\* Taking the parentheses back leaves exactly the text that would be there if they had
\* never been added, whatever was typed and deleted since; but where two quotes were added
\* with them, the second of these and the closing parenthesis stay.
UndoneAsTyped == last = "undone" => text = plain

\* "If the user removes the paren and presses space, we won't interfere another time."
RefusedIsRespected == [][last = "refused" /\ Space => text' = Put(text, insert, <<"space">>)]_vars

\* "If after adding parens one of these strings is typed, we remove the parens": as long
\* as what is typed may become something that does not make sense at the beginning of
\* an expression, the buffer is watched.
OperatorsAreUndone ==
  [][\A o \in Operators : \A m \in 1 .. Len(o) - 1 :
       watching /\ cur_prefix = SubSeq(o, 1, m - 1) /\ InsertChar(mark + m, o[m]) => watching']_vars
===============================================================================
