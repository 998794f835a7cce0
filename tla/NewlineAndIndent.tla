---------------------------- MODULE NewlineAndIndent ----------------------------
(***************************************************************************)
(* newline_and_indent.py: Enter breaks the line at the cursor and indents  *)
(* the new one as what pyparse finds before the cursor asks for.  Tabs are *)
(* left out: DreamPie indents with spaces.  Each of the keywords that end  *)
(* a block is the character "return".                                      *)
(***************************************************************************)
EXTENDS PyParse

CONSTANT INDENT_WIDTH

VARIABLES
  before,  \* the text before the cursor
  indent   \* the indentation of the line of the cursor, then that of the new one

nvars == <<vars, before, indent>>

\* How many characters, of those from a, are spaces.
Spaces(s, a) ==
  (CHOOSE b \in a .. Len(s) + 1 : (b = Len(s) + 1 \/ s[b] # "space") /\ \A c \in a .. b - 1 : s[c] = "space") - a

NInit ==
  /\ before \in Texts /\ indent = 0
  /\ str = <<>> /\ pc = "enter" /\ Fresh

\* Where the line of the cursor starts.
CursorLine == 1 + Max({0} \cup {j \in DOMAIN before : before[j] = "newline"})

\* The cursor is in or at the indentation: it is copied.
CopyIndent ==
  /\ pc = "enter" /\ CursorLine + Spaces(before, CursorLine) > Len(before)
  /\ indent' = Spaces(before, CursorLine)
  /\ pc' = "done"
  /\ UNCHANGED <<str, before>> /\ UNCHANGED study1 /\ UNCHANGED study2

\* The white space around the cursor is deleted, and what is before is parsed.
NewLine ==
  LET last == Max({j \in DOMAIN before : before[j] # "space"})
  IN  /\ pc = "enter" /\ CursorLine + Spaces(before, CursorLine) <= Len(before)
      /\ indent' = Spaces(before, CursorLine)
      /\ str' = Append(SubSeq(before, 1, last), "newline")
      /\ pc' = "study1"
      /\ UNCHANGED before /\ UNCHANGED study1 /\ UNCHANGED study2

Study == Next /\ UNCHANGED <<before, indent>>

\* Mutations of the definitions that follow, each the mark of a plausible slip
\* in the code, have an underscore in their names and are used by no other
\* definition: TLC refutes a property with each of them.

\* Only a level more than the line of the bracket.
BracketIndent_item ==
  LET j == Last(stack)
  IN  Spaces(str, LineStart(j + 1) + 1) + INDENT_WIDTH

\* compute_bracket_indent(): line up with the first item after the last open bracket,
\* else a level more than its line.
BracketIndent ==
  LET j       == Last(stack)
      lines   == {j + 1} \cup {h \in j + 2 .. n - 1 : At(h - 1) = "newline"}
      item(h) == h + Spaces(str, h + 1)
      Items   == {h \in lines : item(h) < n /\ At(item(h)) \notin {"newline", "#", "backslash"}}
      first   == Min(Items)
  IN  IF Items = {} THEN Spaces(str, LineStart(j + 1) + 1) + INDENT_WIDTH
      ELSE item(first) - (IF first = j + 1 THEN LineStart(j + 1) ELSE first)

\* A comparison is taken for an assignment.
BackslashIndent_eq ==
  LET start     == bracketing[1][1]
      text      == start + Spaces(str, start + 1)
      endpos    == 1 + Min({h \in text .. n - 1 : At(h) = "newline"})
      E         == {h \in text .. endpos - 2 : At(h) = "="}
      chunk     == Min({h \in text .. n - 1 : At(h) \in White})
  IN  (IF E = {} THEN chunk ELSE Min(E) + 1) - start + 1

\* compute_backslash_indent(): beyond the = of an assignment that something follows,
\* else beyond the first chunk of the line.  level counts brackets, of any kind.
BackslashIndent ==
  LET start     == bracketing[1][1]
      text      == start + Spaces(str, start + 1)
      endpos    == 1 + Min({h \in text .. n - 1 : At(h) = "newline"})
      assign(h) == At(h) = "=" /\ (h = 0 \/ At(h - 1) # "=") /\ At(h + 1) # "="
      scan[h \in text .. endpos] ==  \* the state of the loop when it comes to h
        IF h = text THEN [level |-> 0, next |-> text, found |-> n, stop |-> FALSE]
        ELSE LET s == scan[h - 1]
                 c == At(h - 1)
             IN  CASE s.stop \/ s.next # h - 1 -> s
                   [] c \in Opening -> [s EXCEPT !.level = @ + 1, !.next = h]
                   [] c \in Closing -> [s EXCEPT !.level = IF @ > 0 THEN @ - 1 ELSE 0, !.next = h]
                   [] c \in Quotes -> [s EXCEPT !.next = StringEnd(h - 1, endpos)]
                   [] c = "#" -> [s EXCEPT !.stop = TRUE]
                   [] s.level = 0 /\ assign(h - 1) -> [s EXCEPT !.found = h, !.stop = TRUE]
                   [] OTHER -> [s EXCEPT !.next = h]
      f         == scan[endpos].found
      last      == f < n /\ LET g == f + Spaces(str, f + 1) IN At(g) \in {"backslash", "newline"}
      chunk     == Min({h \in text .. n - 1 : At(h) \in White})
  IN  (IF f = n \/ last THEN chunk ELSE f) - start + 1

\* A new statement is indented from the line of the cursor.
StatementIndent_line ==
  IF lastch = ":" THEN (indent \div INDENT_WIDTH + 1) * INDENT_WIDTH ELSE indent

\* _closere
BlockCloser ==
  LET first == CHOOSE h \in bracketing[1][1] .. n : /\ h = n \/ At(h) \notin White
                                                    /\ \A g \in bracketing[1][1] .. h - 1 : At(g) \in White
  IN  first < n /\ At(first) = "return" /\ At(first + 1) \notin {"x", "return"}

\* A new statement: as the last one, a level more after a colon, a level less after
\* one that ends its block.
StatementIndent ==
  LET base == IF bracketing[1][1] < q THEN Spaces(SubSeq(str, 1, q), bracketing[1][1] + 1) ELSE 0
  IN  IF lastch = ":" THEN (base \div INDENT_WIDTH + 1) * INDENT_WIDTH
      ELSE IF BlockCloser THEN Max({((base - 1) \div INDENT_WIDTH) * INDENT_WIDTH, 0})
      ELSE base

\* The lines of the last statement so far.
StatementLines == Last(goodlines) - goodlines[Len(goodlines) - 1]

Indent ==
  /\ pc = "studied"
  /\ indent' = CASE continuation = "string first line" -> 0
                 [] continuation = "string next lines" -> indent
                 [] continuation = "bracket" -> BracketIndent
                 [] continuation = "backslash" -> IF StatementLines > 1 THEN indent ELSE BackslashIndent
                 [] continuation = "none" -> StatementIndent
  /\ pc' = "done"
  /\ UNCHANGED <<str, before>> /\ UNCHANGED study1 /\ UNCHANGED study2

NNext == CopyIndent \/ NewLine \/ Study \/ Indent

NSpec == NInit /\ [][NNext]_nvars

-------------------------------------------------------------------------------
Indented == pc = "done" /\ str # <<>>

\* The column of an offset.
Column(j) == j - LineStart(j + 1)

\* Characters of code that are not white space.
CodeAt(lex, A) == {j \in A : InCode(lex, j) /\ At(j) \notin White \cup {"#"}}

\* A new statement goes to the block of the one before it, or, exactly after a colon
\* that is neither in a string nor in a comment, into a block of its own.  Blank lines
\* and comments between do not matter.  A statement that ends a block goes out of it.
BlocksAreKept ==
  Indented /\ continuation = "none" =>
    LET lex    == Lex
        I      == {j \in Starts(lex, Depths(lex)) \ {n} : ~Junk(j)}
        first  == Max(I)
        base   == Spaces(str, first + 1)
        code   == CodeAt(lex, first .. n - 1)
        opens  == code # {} /\ At(Max(code)) = ":"
        closes == At(first + base) = "return" /\ At(first + base + 1) \notin {"x", "return"}
    IN  IF I = {} THEN indent = 0
        ELSE /\ opens <=> indent > base
             /\ ~opens => (indent < base <=> closes /\ base > 0)
             /\ indent # base => indent % INDENT_WIDTH = 0 /\ indent - base \in -INDENT_WIDTH .. INDENT_WIDTH

\* In brackets, the new line lines up with the first item of the innermost one, in
\* whichever line that is, and without one it is indented from the line of the bracket.
ItemsLineUp ==
  Indented /\ continuation = "bracket" /\ (\A j \in 0 .. n - 2 : At(j) = "backslash" => At(j + 1) = "newline") =>
    LET lex   == Lex
        d     == Depths(lex)
        open  == Max({j \in 0 .. n - 1 : InCode(lex, j) /\ At(j) \in Opening /\ d[j + 1] = d[n]
                                         /\ \A h \in j + 1 .. n : d[h] >= d[n]})
        Items == CodeAt(lex, open + 1 .. n - 1) \ {j \in 0 .. n - 1 : At(j) = "backslash"}
    IN  indent = IF Items = {} THEN Spaces(str, LineStart(open + 1) + 1) + INDENT_WIDTH
                 ELSE Column(Min(Items))

\* After a backslash the second line of a statement is right of the place at which the
\* first one has its text, and right of its = if it is an assignment.
ContinuationIsRight ==
  Indented /\ continuation = "backslash" /\ (\A j \in 0 .. n - 2 : At(j) = "backslash" => At(j + 1) = "newline") =>
    LET lex    == Lex
        d      == Depths(lex)
        start  == bracketing[1][1]
        text   == start + Spaces(str, start + 1)
        assign == {j \in text .. n - 3 : /\ InCode(lex, j) /\ At(j) = "=" /\ d[j] = d[start]
                                         /\ At(j + 1) # "=" /\ (j = 0 \/ At(j - 1) # "=")}
    IN  LineNumber(n) = LineNumber(start) + 1 =>
          /\ indent > text - start
          /\ assign # {} /\ (\E j \in Min(assign) + 1 .. n - 3 : At(j) # "space") =>
               indent = Column(Min(assign)) + 2
          /\ \E j \in text .. n - 1 : Column(j) = indent - 1
===============================================================================
