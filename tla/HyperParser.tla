------------------------------ MODULE HyperParser ------------------------------
(***************************************************************************)
(* hyper_parser.py: what is around an index in a text, found from the      *)
(* bracketing of the last statement that pyparse has.  The text that is    *)
(* studied is the one given and a space and a newline.                     *)
(***************************************************************************)
EXTENDS PyParse

VARIABLE index  \* the index given, between characters of the text

hvars == <<vars, index>>

\* __init__()
HInit == Init /\ index \in 0 .. n - 2

HNext == Next /\ UNCHANGED index

HSpec == HInit /\ [][HNext]_hvars

-------------------------------------------------------------------------------
(* The queries, when the text is studied *)

Brackets == Len(bracketing)

Pos(b) == bracketing[b][1]

Level(b) == bracketing[b][2]

\* isopener: these always correspond to a character of the text.
IsOpener(b) == b > 1 /\ Level(b) > Level(b - 1)

\* Mutations of the definitions that follow, each the mark of a plausible slip
\* in the code, have an underscore in their names and are used by no other
\* definition: TLC refutes a property with each of them.

\* A bracket that closes at the index still counts.
IndexBracket_closed(at) == Max({1} \cup {b \in 1 .. Brackets : \A c \in 2 .. b : Pos(c) < at})

\* set_index(): the rightmost bracket to which the index belongs.
IndexBracket(at) ==
  LET b == Max({1} \cup {b \in 1 .. Brackets : \A c \in 2 .. b : Pos(c) < at})
  IN  IF b < Brackets /\ Pos(b + 1) = at /\ ~IsOpener(b + 1) THEN b + 1 ELSE b

\* is_in_string() and is_in_code()
IsInString(at) == LET b == IndexBracket(at) IN IsOpener(b) /\ At(Pos(b)) \in Quotes

IsInCode(at) == LET b == IndexBracket(at) IN IsOpener(b) => At(Pos(b)) \notin Quotes \cup {"#"}

Nowhere == -1

\* The level of the bracket that was passed is not remembered.
Surrounding_level(at, openers) ==
  LET l      == Level(IndexBracket(at))
      Before == {b \in 1 .. IndexBracket(at) : IsOpener(b) /\ At(Pos(b)) \in openers /\ Level(b) <= l}
      before == Max(Before)
      After  == {a \in IndexBracket(at) + 1 .. Brackets : Level(a) < Level(before)}
  IN  IF Before = {} THEN <<Nowhere, Nowhere>>
      ELSE <<Pos(before), IF After = {} THEN Nowhere ELSE Pos(Min(After)) - 1>>

\* get_surrounding_brackets(): to the left, a bracket that is no deeper than all that
\* was passed on the way; to the right, the first entry that is less deep.
Surrounding(at, openers) ==
  LET start    == IndexBracket(at)
      passed(b) == Min({Level(c) : c \in b + 1 .. start} \cup {Level(start)})
      Before   == {b \in 1 .. start : IsOpener(b) /\ At(Pos(b)) \in openers /\ Level(b) <= passed(b)}
      before   == Max(Before)
      After    == {a \in start + 1 .. Brackets : Level(a) < Level(before)}
  IN  IF Before = {} THEN <<Nowhere, Nowhere>>
      ELSE <<Pos(before), IF After = {} THEN Nowhere ELSE Pos(Min(After)) - 1>>

\* _eat_identifier(): how many characters before at, not before limit, are an
\* identifier.
EatIdentifier(limit, at) ==
  at - (CHOOSE j \in 0 .. at : /\ j = at \/ (j >= limit /\ \A h \in j .. at - 1 : At(h) = "x")
                               /\ j <= limit \/ At(j - 1) # "x")

\* Eat white space, comments and, unless one was eaten, a dot.
EatWhite(s) ==
  LET room(t) == t.pos > t.limit
      eat[m \in 0 .. 2 * n] ==
        IF m = 0 THEN s
        ELSE LET t == eat[m - 1]
             IN  IF room(t) /\ At(t.pos - 1) \in White \cup {"backslash"} THEN [t EXCEPT !.pos = @ - 1]
                 ELSE IF ~t.postdot /\ room(t) /\ At(t.pos - 1) = "."
                      THEN [t EXCEPT !.pos = @ - 1, !.postdot = TRUE]
                 ELSE IF t.pos = t.limit /\ t.b > 1 /\ At(Pos(t.b - 1)) = "#"
                      THEN [t EXCEPT !.b = @ - 2, !.limit = Pos(t.b - 2), !.pos = Pos(t.b - 1)]
                 ELSE t
  IN  eat[2 * n]

\* The bracket that the closing one at limit closes: the entry before it.
Opener(b) == Max({c \in 1 .. b : c = 1 \/ Level(c - 1) <= Level(b)})

\* A name is eaten after another without a dot.
EatPart_dot(s0) ==
  LET s   == EatWhite(s0)
      ret == EatIdentifier(s.limit, s.pos)
  IN  IF ret > 0
      THEN [s EXCEPT !.pos = @ - ret, !.last = s.pos - ret, !.postdot = TRUE]
      ELSE [s EXCEPT !.done = TRUE]

\* A turn of the loop of get_expression().
EatPart(s0) ==
  LET s   == EatWhite(s0)
      ret == EatIdentifier(s.limit, s.pos)
      o   == Opener(s.b)
  IN  IF ~s.postdot THEN [s EXCEPT !.done = TRUE]
      ELSE IF ret > 0
      THEN [s EXCEPT !.pos = @ - ret, !.last = s.pos - ret, !.postdot = FALSE]
      ELSE IF s.pos = s.limit /\ Pos(o) # s.limit
      THEN [s EXCEPT !.pos = Pos(o), !.last = Pos(o), !.b = o - 1, !.limit = Pos(o - 1),
                     !.done = At(Pos(o)) \notin {"(", "["}]
      ELSE [s EXCEPT !.done = TRUE]

\* get_expression(): the offset at which the expression that ends at the index begins.
Expression(at) ==
  LET s[m \in 0 .. n + 1] ==
        IF m = 0 THEN [b |-> IndexBracket(at), limit |-> Pos(IndexBracket(at)), pos |-> at, last |-> at,
                       postdot |-> TRUE, done |-> FALSE]
        ELSE LET t == s[m - 1] IN IF t.done THEN t ELSE EatPart(t)
  IN  s[n + 1].last

-------------------------------------------------------------------------------
\* The index is in the last statement, as the docstring of set_index asks, or in
\* white space that follows it.
Precondition == bracketing[1][1] <= index

Ready == pc = "studied" /\ Precondition /\ \A j \in q .. index - 1 : At(j) # "#"

\* An index is in a string or a comment exactly if reading the text character by
\* character shows it, whatever quotes and escapes there are.  Where a newline breaks
\* a string off, the end of the line is not in it.
CodeOrString ==
  Ready => LET s       == Lex[index]
               breaks  == s.in = "string" /\ s.w = 1 /\ s.skip = 0 /\ At(index) = "newline"
           IN  /\ IsInCode(index) <=> s.in = "code" \/ breaks
               /\ IsInString(index) <=> s.in \in {"string", "end"} /\ ~breaks

\* The brackets that are open before the index, innermost last.
OpenBrackets(lex) ==
  LET o[j \in 0 .. index] ==
        IF j = 0 THEN <<>>
        ELSE IF ~InCode(lex, j - 1) THEN o[j - 1]
        ELSE IF At(j - 1) \in Opening THEN Append(o[j - 1], j - 1)
        ELSE IF At(j - 1) \in Closing /\ o[j - 1] # <<>> THEN Front(o[j - 1])
        ELSE o[j - 1]
  IN  o[index]

\* The surrounding brackets are the innermost open one of the kind that was asked
\* for, and the place where as many brackets are closed.
BracketsSurround ==
  Ready =>
    LET lex   == Lex
        d     == Depths(lex)
        o     == OpenBrackets(lex)
        Opened == {b \in DOMAIN o : At(o[b]) = "("}
        m     == Max(Opened)
        After == {j \in index .. q - 1 : InCode(lex, j) /\ At(j) \in Closing /\ d[j + 1] < m}
    IN  Surrounding(index, {"("}) =
          IF Opened = {} THEN <<Nowhere, Nowhere>>
          ELSE <<o[m], IF After = {} THEN Nowhere ELSE Min(After)>>

\* An expression has its brackets in pairs, nothing but names, dots and white space
\* outside them, a dot before every name but the first, and is not a part of a longer
\* name.
ExpressionIsWhole ==
  Ready /\ IsInCode(index) =>
    LET lex   == Lex
        d     == Depths(lex)
        start == Expression(index)
    IN  start < index =>
          /\ \A j \in start .. index : d[j] >= d[start]
          /\ d[start] = d[index]
          /\ \A j \in start .. index - 1 :
               d[j] = d[start] /\ InCode(lex, j) =>
                 At(j) \in {"x", ".", "backslash", "#"} \cup White \cup Opening \cup Quotes
          /\ \A j \in start + 1 .. index - 1 :
               d[j] = d[start] /\ InCode(lex, j) /\ At(j) = "x" /\ At(j - 1) # "x" =>
                 At(Max({g \in start .. j - 1 : InCode(lex, g) /\ At(g) \notin White \cup {"backslash", "#"}})) = "."
          /\ At(start) = "x" => start = 0 \/ At(start - 1) # "x" \/ ~InCode(lex, start - 1)
          /\ At(start) \in {"x"} \cup Opening \cup Quotes
===============================================================================
