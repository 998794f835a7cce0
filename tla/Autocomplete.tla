------------------------------ MODULE Autocomplete ------------------------------
(***************************************************************************)
(* autocomplete.py, up to the list: what is to be completed at the end of  *)
(* a text that may be in the middle of anything, and which expression the  *)
(* subprocess is asked to evaluate for it.  The index of the parser is the *)
(* cursor, and the text that is studied is what is before it.              *)
(***************************************************************************)
EXTENDS HyperParser

VARIABLES
  is_auto,  \* whether the user typed something, or asked for completions
  raw,      \* whether an x before a string is an r
  asked     \* what is completed

avars == <<hvars, is_auto, raw, asked>>

Nothing == [kind |-> "nothing"]

AInit ==
  /\ Init /\ index = n - 2
  /\ is_auto \in BOOLEAN /\ raw \in BOOLEAN
  /\ raw => \E j \in 2 .. Len(str) : str[j - 1] = "x" /\ str[j] = "dq"
  /\ asked = [kind |-> "not asked"]

Study == HNext /\ UNCHANGED <<is_auto, raw, asked>>

\* What is completed: the prefix starts at offset prefix, and the subprocess evaluates
\* what is between from and to.
Completion(kind, prefix, from, to) == [kind |-> kind, prefix |-> prefix, from |-> from, to |-> to]

\* The character before the cursor, or "" at the start.
LastChar == IF index = 0 THEN "" ELSE At(index - 1)

\* Whether there is a call in what is between from and to.
HasCall(from, to) == \E j \in from .. to - 1 : At(j) = "("

\* Where the identifier characters before offset at start.
IdStart(at) == CHOOSE j \in 0 .. at : /\ \A h \in j .. at - 1 : At(h) = "x"
                                      /\ j > 0 => At(j - 1) # "x"

\* Mutations of the definitions that follow, each the mark of a plausible slip
\* in the code, have an underscore in their names and are used by no other
\* definition: TLC refutes a property with each of them.

\* The argument names of what a call returns are wanted.
Arguments_call(i0) ==
  LET before == {j \in 0 .. i0 - 1 : At(j) \notin White}
      opener == Surrounding(index, {"("})[1]
  IN  /\ before # {} /\ At(Max(before)) \in {",", "("}
      /\ opener # Nowhere /\ opener # 0
      /\ Expression(opener) < opener

\* Argument names are completed too: after a comma or a parenthesis of a call of
\* something that has no call itself.
Arguments(i0) ==
  LET before == {j \in 0 .. i0 - 1 : At(j) \notin White}
      opener == Surrounding(index, {"("})[1]
  IN  /\ before # {} /\ At(Max(before)) \in {",", "("}
      /\ opener # Nowhere /\ opener # 0
      /\ Expression(opener) < opener /\ ~HasCall(Expression(opener), opener)

\* Only the last name before the dot is evaluated.
Attributes_name ==
  LET i0   == IdStart(index)
      what == IdStart(i0 - 1)
  IN  IF is_auto /\ LastChar # "." THEN Nothing
      ELSE IF i0 > 0 /\ At(i0 - 1) = "."
      THEN IF what = i0 - 1 \/ (is_auto /\ HasCall(what, i0 - 1)) THEN Nothing
           ELSE Completion("attributes", i0, what, i0 - 1)
      ELSE Completion("names", i0, i0, i0)

\* _complete_attributes()
Attributes ==
  LET i0   == IdStart(index)
      what == Expression(i0 - 1)
  IN  IF is_auto /\ LastChar # "." THEN Nothing
      ELSE IF i0 > 0 /\ At(i0 - 1) = "."
      THEN IF what = i0 - 1 \/ (is_auto /\ HasCall(what, i0 - 1)) THEN Nothing
           ELSE Completion("attributes", i0, what, i0 - 1)
      ELSE IF Arguments(i0)
      THEN LET opener == Surrounding(index, {"("})[1]
           IN  Completion("arguments", i0, Expression(opener), opener)
      ELSE Completion("names", i0, i0, i0)

\* Every backslash is taken for a separator.
IsBackslashChar_any(j) == At(j) = "backslash"

\* _is_backslash_char(): an odd number of backslashes before it.
IsBackslashChar(j) ==
  LET first == CHOOSE h \in 0 .. j : /\ \A g \in h .. j : At(g) = "backslash"
                                     /\ h > 0 => At(h - 1) # "backslash"
  IN  (j - first) % 2 = 1

\* _complete_filenames(), with the entry of the bracketing that the index belongs to.
FilenamesAt(b) ==
  LET start == Pos(b) + 1
      three == start + 2 <= index /\ At(start) = At(start - 1) /\ At(start + 1) = At(start - 1)
      israw == raw /\ start > 1 /\ At(start - 2) = "x"
      Seps  == {j \in 0 .. index - 1 : At(j) \in {"/", "backslash"}}
      sep   == Max(Seps)
  IN  IF \/ is_auto /\ LastChar \notin {"/", "backslash"}
         \/ three
         \/ is_auto /\ LastChar = "backslash" /\ ~israw /\ ~IsBackslashChar(index - 1)
      THEN Nothing
      ELSE IF Seps = {} \/ sep < start THEN Completion("filenames", start, start, start)
      ELSE IF At(sep) = "backslash" /\ ~israw /\ ~IsBackslashChar(sep) THEN Nothing
      ELSE Completion("filenames", sep + 1, start, sep + 1)

Filenames == FilenamesAt(IndexBracket(index))

\* The parser is left at the bracket.
DictKeys_index ==
  LET opener == Surrounding(index, {"["})[1]
      what   == Expression(opener)
  IN  IF opener = Nowhere \/ (is_auto /\ LastChar # "[") THEN Nothing
      ELSE IF what = opener
      THEN IF IsInCode(index) THEN Attributes ELSE FilenamesAt(IndexBracket(opener))
      ELSE IF is_auto /\ HasCall(what, opener) THEN Nothing
      ELSE Completion("keys", opener + 1, what, opener)

\* _complete_dict_keys(), up to the question: a bracket with nothing to index before it is a
\* list. (The closing bracket that the answers get is in the lists of AutocompleteWindow.)
DictKeys ==
  LET opener == Surrounding(index, {"["})[1]
      what   == Expression(opener)
  IN  IF opener = Nowhere \/ (is_auto /\ LastChar # "[") THEN Nothing
      ELSE IF what = opener THEN IF IsInCode(index) THEN Attributes ELSE Filenames
      ELSE IF is_auto /\ HasCall(what, opener) THEN Nothing
      ELSE Completion("keys", opener + 1, what, opener)

\* The line, without its indentation.
LineText ==
  LET start == LineStart(index + 1)
      first == CHOOSE j \in start .. index : /\ j = index \/ At(j) # "space"
                                             /\ \A h \in start .. j - 1 : At(h) = "space"
  IN  first

\* _complete_modules(): the prefix is the last component, the rest says of what.
Modules ==
  LET i0   == IdStart(index)
      from == CHOOSE j \in 0 .. i0 - 1 : /\ \A h \in j .. i0 - 2 : At(h) \in {"x", "."}
                                         /\ j > 0 => At(j - 1) \notin {"x", "."}
  IN  IF is_auto /\ LastChar # "." THEN Nothing
      ELSE IF i0 > 0 /\ At(i0 - 1) = "." THEN Completion("modules", i0, from, i0 - 1)
      ELSE Completion("modules", i0, i0, i0)

\* _complete_module_members()
Members == IF is_auto THEN Nothing ELSE Completion("members", IdStart(index), LineText, LineText)

\* How many words the line has, an x appended to it.
LineWords ==
  1 + Cardinality({j \in LineText .. index - 1 : At(j) = "space" /\ At(j - 1) # "space"})

InCodeCompletion ==
  LET Starting(w) == LineText + 1 < index /\ At(LineText) = w /\ At(LineText + 1) = "space"
  IN  IF Starting("import") THEN Modules
      ELSE IF Starting("from")
      THEN IF LineWords = 3 THEN Completion("import", IdStart(index), index, index)
           ELSE IF ~\E j \in LineText + 1 .. index - 2 : /\ At(j - 1) = "space" /\ At(j) = "import"
                                                         /\ At(j + 1) = "space"
                THEN Modules
           ELSE Members
      ELSE IF LastChar = "[" THEN DictKeys
      ELSE Attributes

InStringCompletion ==
  LET start == Pos(IndexBracket(index))
  IN  IF start > 0 /\ At(start - 1) = "[" THEN DictKeys ELSE Filenames

\* show_completions(), as far as the subprocess.
ShowCompletions ==
  /\ pc = "studied"
  /\ pc' = "asked"
  /\ asked' = IF IsInCode(index) THEN InCodeCompletion
              ELSE IF IsInString(index) THEN InStringCompletion
              ELSE Nothing
  /\ UNCHANGED <<str, index, is_auto, raw>> /\ UNCHANGED study1 /\ UNCHANGED study2

ANext == Study \/ ShowCompletions

ASpec == AInit /\ [][ANext]_avars

-------------------------------------------------------------------------------
Asked == pc = "asked" /\ asked # Nothing

\* "Don't evaluate expressions which may contain a function call": nothing that is typed
\* makes the subprocess call a function, and for argument names nothing at all does.
NoCallUnasked ==
  Asked /\ (is_auto \/ asked.kind = "arguments") => ~HasCall(asked.from, asked.to)

\* What is evaluated is a whole expression: its brackets are in pairs, it does not begin
\* with an attribute, and it ends where the dot or the bracket is that the cursor is after.
WholeIsEvaluated ==
  Asked /\ asked.kind \in {"attributes", "keys", "arguments"} =>
    LET lex == Lex
        d   == Depths(lex)
    IN  /\ asked.from < asked.to
        /\ lex[asked.from].in = "code" /\ lex[asked.to].in = "code"
        /\ d[asked.from] = d[asked.to] /\ \A j \in asked.from .. asked.to : d[j] >= d[asked.to]
        /\ At(asked.to) = (IF asked.kind = "attributes" THEN "." ELSE IF asked.kind = "keys" THEN "[" ELSE "(")
        /\ asked.kind # "attributes" => d[asked.to] < d[index]
        /\ asked.from > 1 /\ At(asked.from) = "x" /\ InCode(lex, asked.from - 2) =>
             Slice(asked.from - 2, asked.from) # <<"x", ".">>

\* A file name is completed only in a string with single quotes, from its start or from a
\* separator, and no part of an escape is taken for a part of the name.
NameIsInString ==
  Asked /\ asked.kind = "filenames" =>
    LET lex == Lex
    IN  /\ \A j \in asked.from .. index : lex[j].in = "string" /\ lex[j].w = 1
        /\ At(asked.from - 1) = lex[index].q
        /\ \A j \in asked.prefix .. index - 1 : At(j) \notin {"/", "backslash"}
        /\ ~raw => lex[asked.prefix].skip = 0
===============================================================================
