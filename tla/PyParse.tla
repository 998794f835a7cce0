-------------------------------- MODULE PyParse --------------------------------
(***************************************************************************)
(* pyparse.Parser: the structure of a text of Python code that may be in   *)
(* the middle of being typed.  _study1 finds the lines that start          *)
(* statements and why the last statement goes on, _study2 the brackets of  *)
(* the last interesting statement, with strings and comments as brackets.  *)
(* They are loops over characters and are modelled as such, a step a turn. *)
(* Offsets count from 0, as in the code.                                   *)
(***************************************************************************)
EXTENDS Integers, Sequences, SequencesExt, FiniteSetsExt

CONSTANT Texts  \* the texts to study

\* Characters.  x stands for what can be in an identifier.
Opening  == {"(", "[", "{"}
Closing  == {")", "]", "}"}
Quotes   == {"dq", "sq"}
White    == {"space", "newline"}
Special  == Opening \cup Closing \cup Quotes \cup {"#", "backslash"}

VARIABLES
  str,           \* the text, which ends with a newline
  pc,            \* what is being done
  i,             \* _study1: the offset of the next character
  level, lno, goodlines, firstlno,
  quote,         \* the quote that ends the string that is consumed, or <<>>
  continuation,  \* why the last statement goes on
  k,             \* _study2: the index in goodlines
  p, q,
  lastch, stack, bracketing

vars == <<str, pc, i, level, lno, goodlines, firstlno, quote, continuation, k, p, q, lastch, stack,
          bracketing>>

study1 == <<i, level, lno, goodlines, firstlno, quote, continuation>>

study2 == <<k, p, q, lastch, stack, bracketing>>

n == Len(str)

At(j) == str[j + 1]

\* str[a:b]
Slice(a, b) == SubSeq(str, a + 1, IF b < n THEN b ELSE n)

\* What nothing was studied of.
Fresh ==
  /\ i = 0 /\ level = 0 /\ lno = 0 /\ goodlines = <<0>> /\ firstlno = 0 /\ quote = <<>>
  /\ continuation = "none"
  /\ k = 0 /\ p = 0 /\ q = 0 /\ lastch = "" /\ stack = <<>> /\ bracketing = <<>>

\* set_str()
Init == str \in Texts /\ pc = "study1" /\ Fresh

-------------------------------------------------------------------------------
(* _study1 *)

\* Mutations of the definitions that follow, each the mark of a plausible slip
\* in the code, have an underscore in their names and are used by no other
\* definition: TLC refutes a property with each of them.

\* The character after a backslash is looked at once more.
CodeChar_escape ==
  LET c == At(i)
  IN  /\ pc = "study1" /\ i < n /\ quote = <<>> /\ c \notin Quotes
      /\ level' = IF c \in Opening THEN level + 1
                  ELSE IF c \in Closing /\ level > 0 THEN level - 1
                  ELSE level
      /\ i' = IF c = "#" THEN CHOOSE j \in i + 1 .. n - 1 :
                                At(j) = "newline" /\ \A h \in i + 1 .. j - 1 : At(h) # "newline"
              ELSE IF c = "backslash" THEN i + 1
              ELSE i + 1
      /\ lno' = IF c = "newline" \/ (c = "backslash" /\ At(i + 1) = "newline") THEN lno + 1 ELSE lno
      /\ goodlines' = IF c = "newline" /\ level = 0 THEN Append(goodlines, lno + 1) ELSE goodlines
      /\ continuation' = IF c = "backslash" /\ At(i + 1) = "newline" /\ i + 2 = n
                         THEN "backslash" ELSE continuation
      /\ UNCHANGED <<firstlno, quote>>
      /\ UNCHANGED <<str, pc>> /\ UNCHANGED study2

\* A character that does not open a string.
CodeChar ==
  LET c == At(i)
  IN  /\ pc = "study1" /\ i < n /\ quote = <<>> /\ c \notin Quotes
      /\ level' = IF c \in Opening THEN level + 1
                  ELSE IF c \in Closing /\ level > 0 THEN level - 1
                  ELSE level
      /\ i' = IF c = "#" THEN CHOOSE j \in i + 1 .. n - 1 :
                                At(j) = "newline" /\ \A h \in i + 1 .. j - 1 : At(h) # "newline"
              ELSE IF c = "backslash" THEN i + 2
              ELSE i + 1
      /\ lno' = IF c = "newline" \/ (c = "backslash" /\ At(i + 1) = "newline") THEN lno + 1 ELSE lno
      /\ goodlines' = IF c = "newline" /\ level = 0 THEN Append(goodlines, lno + 1) ELSE goodlines
      /\ continuation' = IF c = "backslash" /\ At(i + 1) = "newline" /\ i + 2 = n
                         THEN "backslash" ELSE continuation
      /\ UNCHANGED <<firstlno, quote>>
      /\ UNCHANGED <<str, pc>> /\ UNCHANGED study2

\* Three quotes are taken for an empty string and the start of another.
StringStart_single ==
  /\ pc = "study1" /\ i < n /\ quote = <<>> /\ At(i) \in Quotes
  /\ quote' = <<At(i)>>
  /\ i' = i + 1
  /\ firstlno' = lno
  /\ UNCHANGED <<str, pc, level, lno, goodlines, continuation>> /\ UNCHANGED study2

\* A string begins, with one quote or with three.
StringStart ==
  LET c     == At(i)
      three == Slice(i, i + 3) = <<c, c, c>>
  IN  /\ pc = "study1" /\ i < n /\ quote = <<>> /\ c \in Quotes
      /\ quote' = IF three THEN <<c, c, c>> ELSE <<c>>
      /\ i' = IF three THEN i + 3 ELSE i + 1
      /\ firstlno' = lno
      /\ UNCHANGED <<str, pc, level, lno, goodlines, continuation>> /\ UNCHANGED study2

\* A line is taken for a good one although a bracket is open.
StringChar_level ==
  LET c      == At(i)
      closes == Slice(i, i + Len(quote)) = quote
      breaks == ~closes /\ c = "newline" /\ Len(quote) = 1
  IN  /\ pc = "study1" /\ i < n /\ quote # <<>>
      /\ i' = IF closes THEN i + Len(quote) ELSE IF c = "backslash" THEN i + 2 ELSE i + 1
      /\ quote' = IF closes \/ breaks THEN <<>> ELSE quote
      /\ lno' = IF c = "newline" \/ (c = "backslash" /\ At(i + 1) = "newline") THEN lno + 1 ELSE lno
      /\ goodlines' = IF breaks THEN Append(goodlines, lno + 1) ELSE goodlines
      /\ UNCHANGED <<str, pc, level, firstlno, continuation>> /\ UNCHANGED study2

\* A character of a string.  A newline ends one with single quotes, which is then
\* not terminated.
StringChar ==
  LET c      == At(i)
      closes == Slice(i, i + Len(quote)) = quote
      breaks == ~closes /\ c = "newline" /\ Len(quote) = 1
  IN  /\ pc = "study1" /\ i < n /\ quote # <<>>
      /\ i' = IF closes THEN i + Len(quote) ELSE IF c = "backslash" THEN i + 2 ELSE i + 1
      /\ quote' = IF closes \/ breaks THEN <<>> ELSE quote
      /\ lno' = IF c = "newline" \/ (c = "backslash" /\ At(i + 1) = "newline") THEN lno + 1 ELSE lno
      /\ goodlines' = IF breaks /\ level = 0 THEN Append(goodlines, lno + 1) ELSE goodlines
      /\ UNCHANGED <<str, pc, level, firstlno, continuation>> /\ UNCHANGED study2

\* The end of _study1: a string takes precedence over a bracket, a bracket over a
\* backslash.  The number of the last line is a sentinel.
EndStudy1 ==
  /\ pc = "study1" /\ i = n
  /\ continuation' =
       IF quote # <<>> THEN IF lno - 1 = firstlno THEN "string first line" ELSE "string next lines"
       ELSE IF level > 0 THEN "bracket"
       ELSE continuation
  /\ goodlines' = IF Last(goodlines) # lno THEN Append(goodlines, lno) ELSE goodlines
  /\ pc' = "last statement"
  /\ k' = Len(goodlines') - 1 /\ p' = n
  /\ UNCHANGED <<str, i, level, lno, firstlno, quote, q, lastch, stack, bracketing>>

-------------------------------------------------------------------------------
(* _study2 *)

\* str.rfind('\n', 0, j - 1) + 1
LineStart(j) == Max({0} \cup {h \in 1 .. j - 1 : At(h - 1) = "newline"})

\* What p is after it was moved back some lines.
Back(lines, from) == LET b[m \in 0 .. lines] == IF m = 0 THEN from ELSE LineStart(b[m - 1]) IN b[lines]

\* _junkre: a blank line or a comment that does not indent.
Junk(j) ==
  LET first == CHOOSE h \in j .. n : (h = n \/ At(h) # "space") /\ \A g \in j .. h - 1 : At(g) = "space"
  IN  first < n /\ \/ At(first) = "newline"
                   \/ At(first) = "#" /\ At(first + 1) \notin White

\* A statement is taken to be one line.
StatementBack_line ==
  /\ pc = "last statement" /\ k > 0
  /\ q' = p
  /\ p' = Back(1, p)
  /\ IF Junk(p')
     THEN k' = k - 1 /\ UNCHANGED <<pc, bracketing>>
     ELSE pc' = "statement" /\ bracketing' = << <<p', 0>> >> /\ UNCHANGED k
  /\ UNCHANGED <<str, lastch, stack>> /\ UNCHANGED study1

\* A turn of the loop over the statements, from the last one.
StatementBack ==
  /\ pc = "last statement" /\ k > 0
  /\ q' = p
  /\ p' = Back(goodlines[k + 1] - goodlines[k], p)
  /\ IF Junk(p')
     THEN k' = k - 1 /\ UNCHANGED <<pc, bracketing>>
     ELSE pc' = "statement" /\ bracketing' = << <<p', 0>> >> /\ UNCHANGED k
  /\ UNCHANGED <<str, lastch, stack>> /\ UNCHANGED study1

\* Nothing but junk.
NoStatement ==
  /\ pc = "last statement" /\ k = 0
  /\ q' = p
  /\ pc' = "statement" /\ bracketing' = << <<p, 0>> >>
  /\ UNCHANGED <<str, k, p, lastch, stack>> /\ UNCHANGED study1

\* The statement is analyzed: p moves to q.  stmt_start is bracketing[1][1],
\* stmt_end is q.

\* _chew_ordinaryre, as far as q.
Chew ==
  LET newp == CHOOSE h \in p .. q : (h = q \/ At(h) \in Special) /\ \A g \in p .. h - 1 : At(g) \notin Special
      last == {h \in p .. newp - 1 : At(h) \notin White}
  IN  /\ pc = "statement" /\ p < q /\ newp > p
      /\ p' = newp
      /\ lastch' = IF last = {} THEN lastch ELSE At(Max(last))
      /\ UNCHANGED <<str, pc, k, q, stack, bracketing>> /\ UNCHANGED study1

Open ==
  /\ pc = "statement" /\ p < q /\ At(p) \in Opening
  /\ stack' = Append(stack, p)
  /\ bracketing' = Append(bracketing, <<p, Len(stack')>>)
  /\ lastch' = At(p) /\ p' = p + 1
  /\ UNCHANGED <<str, pc, k, q>> /\ UNCHANGED study1

\* The entry of a closing bracket is for the bracket itself.
Close_at ==
  /\ pc = "statement" /\ p < q /\ At(p) \in Closing
  /\ stack' = IF stack = <<>> THEN stack ELSE Front(stack)
  /\ lastch' = At(p) /\ p' = p + 1
  /\ bracketing' = Append(bracketing, <<p, Len(stack')>>)
  /\ UNCHANGED <<str, pc, k, q>> /\ UNCHANGED study1

Close ==
  /\ pc = "statement" /\ p < q /\ At(p) \in Closing
  /\ stack' = IF stack = <<>> THEN stack ELSE Front(stack)
  /\ lastch' = At(p) /\ p' = p + 1
  /\ bracketing' = Append(bracketing, <<p', Len(stack')>>)
  /\ UNCHANGED <<str, pc, k, q>> /\ UNCHANGED study1

\* A newline does not end a string with single quotes.
StringEnd_newline(a, b) ==
  LET c     == At(a)
      three == a + 3 <= b /\ Slice(a, a + 3) = <<c, c, c>>
      w     == IF three THEN 3 ELSE 1
      end[j \in a + w .. b + 2] ==
        IF j >= b THEN b
        ELSE IF At(j) = "backslash" THEN IF j + 1 < b THEN end[j + 2] ELSE j
        ELSE IF j + w <= b /\ \A h \in j .. j + w - 1 : At(h) = c THEN j + w
        ELSE end[j + 1]
  IN  end[a + w]

\* _match_stringre(str, a, b).end(): after the closing quote, or as far as an
\* unterminated string goes.
StringEnd(a, b) ==
  LET c     == At(a)
      three == a + 3 <= b /\ Slice(a, a + 3) = <<c, c, c>>
      w     == IF three THEN 3 ELSE 1
      end[j \in a + w .. b + 2] ==
        IF j >= b THEN b
        ELSE IF At(j) = "backslash" THEN IF j + 1 < b THEN end[j + 2] ELSE j
        ELSE IF j + w <= b /\ \A h \in j .. j + w - 1 : At(h) = c THEN j + w
        ELSE IF At(j) = "newline" /\ ~three THEN j
        ELSE end[j + 1]
  IN  end[a + w]

ConsumeString ==
  /\ pc = "statement" /\ p < q /\ At(p) \in Quotes
  /\ lastch' = At(p)
  /\ p' = StringEnd(p, q)
  /\ bracketing' = bracketing \o << <<p, Len(stack) + 1>>, <<p', Len(stack)>> >>
  /\ UNCHANGED <<str, pc, k, q, stack>> /\ UNCHANGED study1

\* A comment and the newline that ends it.
ConsumeComment ==
  /\ pc = "statement" /\ p < q /\ At(p) = "#"
  /\ p' = 1 + CHOOSE h \in p .. q - 1 : At(h) = "newline" /\ \A g \in p .. h - 1 : At(g) # "newline"
  /\ bracketing' = bracketing \o << <<p, Len(stack) + 1>>, <<p', Len(stack)>> >>
  /\ UNCHANGED <<str, pc, k, q, lastch, stack>> /\ UNCHANGED study1

Backslash ==
  /\ pc = "statement" /\ p < q /\ At(p) = "backslash"
  /\ lastch' = IF At(p + 1) # "newline" THEN "escaped" ELSE lastch
  /\ p' = p + 2
  /\ UNCHANGED <<str, pc, k, q, stack, bracketing>> /\ UNCHANGED study1

EndStudy2 ==
  /\ pc = "statement" /\ p >= q
  /\ pc' = "studied"
  /\ UNCHANGED str /\ UNCHANGED study1 /\ UNCHANGED study2

Next ==
  \/ CodeChar \/ StringStart \/ StringChar \/ EndStudy1
  \/ StatementBack \/ NoStatement
  \/ Chew \/ Open \/ Close \/ ConsumeString \/ ConsumeComment \/ Backslash \/ EndStudy2

Spec == Init /\ [][Next]_vars

-------------------------------------------------------------------------------
(* What the code is, character by character *)

\* What each character is in: code, a comment, or a string with one or three
\* quotes; skip counts the characters that follow an escape or a triple quote.
Lex ==
  LET three(j, c) == j + 3 <= n /\ \A h \in j .. j + 2 : At(h) = c
      lex[j \in 0 .. n] ==
        IF j = 0 THEN [in |-> "code", q |-> "", w |-> 0, skip |-> 0]
        ELSE LET s == lex[j - 1]
                 c == At(j - 1)
             IN  CASE s.skip > 0 -> IF s.in = "end" /\ s.skip = 1
                                    THEN [in |-> "code", q |-> "", w |-> 0, skip |-> 0]
                                    ELSE [s EXCEPT !.skip = @ - 1]
                   [] s.skip = 0 /\ s.in = "code" ->
                        IF c \in Quotes
                        THEN IF three(j - 1, c) THEN [in |-> "string", q |-> c, w |-> 3, skip |-> 2]
                             ELSE [in |-> "string", q |-> c, w |-> 1, skip |-> 0]
                        ELSE IF c = "#" THEN [s EXCEPT !.in = "comment"]
                        ELSE IF c = "backslash" THEN [s EXCEPT !.skip = 1]
                        ELSE s
                   [] s.skip = 0 /\ s.in = "comment" ->
                        IF c = "newline" THEN [s EXCEPT !.in = "code"] ELSE s
                   [] s.skip = 0 /\ s.in = "string" ->
                        IF c = "backslash" THEN [s EXCEPT !.skip = 1]
                        ELSE IF s.w = 1 /\ c \in {s.q, "newline"}
                             THEN [in |-> "code", q |-> "", w |-> 0, skip |-> 0]
                        ELSE IF s.w = 3 /\ three(j - 1, s.q) THEN [s EXCEPT !.in = "end", !.skip = 2]
                        ELSE s
  IN  lex

InCode(lex, j) == lex[j].in = "code" /\ lex[j].skip = 0

\* How many brackets are open before each character.
Depths(lex) ==
  LET d[j \in 0 .. n] ==
        IF j = 0 THEN 0
        ELSE IF ~InCode(lex, j - 1) THEN d[j - 1]
        ELSE IF At(j - 1) \in Opening THEN d[j - 1] + 1
        ELSE IF At(j - 1) \in Closing /\ d[j - 1] > 0 THEN d[j - 1] - 1
        ELSE d[j - 1]
  IN  d

\* The offsets at which statements start: after a newline that ends one.
Starts(lex, d) ==
  {0} \cup {j \in 1 .. n : /\ At(j - 1) = "newline" /\ d[j] = 0
                           /\ lex[j - 1].skip = 0 /\ lex[j].in = "code"}

LineNumber(j) == Quantify(1 .. j, LAMBDA h : str[h] = "newline")

\* The assertions of the code, in the order in which it has them: no text, however
\* broken, makes one fail.
AssertionsHold ==
  /\ pc = "study1" /\ i < n /\ At(i) = "backslash" => i + 1 < n
  /\ pc = "study1" /\ i < n /\ quote = <<>> /\ At(i) = "#" => \E j \in i + 1 .. n - 1 : At(j) = "newline"
  /\ pc = "study1" /\ i = n =>
       ((quote # <<>> \/ level > 0 \/ continuation # "none") <=> Last(goodlines) # lno)
  /\ pc = "last statement" /\ k > 0 => p > 0
  /\ pc = "last statement" /\ k = 0 => p = 0
  /\ pc = "statement" /\ p < q /\ At(p) = "#" => \E h \in p .. q - 1 : At(h) = "newline"
  /\ pc = "statement" /\ p < q /\ At(p) = "backslash" => p + 1 < q
  /\ i <= n /\ p <= n

\* The lines that start statements, and why the last one goes on, are those that
\* reading the text character by character shows.
LinesAreGood ==
  pc = "last statement" /\ p = n =>
    LET lex == Lex
        d   == Depths(lex)
    IN  /\ ToSet(goodlines) = {LineNumber(j) : j \in Starts(lex, d)} \cup {LineNumber(n)}
        /\ continuation =
             IF lex[n].in = "string"
             THEN LET start == Max({j \in 0 .. n - 1 : lex[j].in = "code"})
                  IN  IF LineNumber(n) = LineNumber(start) + 1 THEN "string first line"
                      ELSE "string next lines"
             ELSE IF d[n] > 0 THEN "bracket"
             ELSE IF lex[n - 1].skip > 0 THEN "backslash"
             ELSE "none"

\* The statement that is analyzed is the last one that is not junk.
LastStatement ==
  pc = "studied" =>
    LET lex == Lex
        S   == Starts(lex, Depths(lex))
        I   == {j \in S \ {n} : ~Junk(j)}
    IN  IF I = {} THEN q = 0
        ELSE /\ bracketing[1][1] = Max(I)
             /\ q = Min({j \in S \cup {n} : j > Max(I)})

\* The bracketing tells for every character of the statement how many brackets it
\* is in, its own included, with strings and comments as brackets.  The newline
\* that breaks a string off is not in it.
BracketingIsRight ==
  pc = "studied" =>
    LET lex   == Lex
        d     == Depths(lex)
        opens(j) == InCode(lex, j) /\ At(j) \in Quotes \cup {"#"} \cup Opening
        breaks(j) == lex[j].in = "string" /\ lex[j].w = 1 /\ lex[j].skip = 0 /\ At(j) = "newline"
        depth(j) == d[j] + (IF (lex[j].in # "code" /\ ~breaks(j)) \/ opens(j) THEN 1 ELSE 0)
        told(j) == bracketing[Max({b \in DOMAIN bracketing : bracketing[b][1] <= j})][2]
    IN  \A j \in bracketing[1][1] .. q - 1 : told(j) = depth(j)
===============================================================================
