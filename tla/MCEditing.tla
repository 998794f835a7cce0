------------------------------ MODULE MCEditing ------------------------------
(***************************************************************************)
(* What DreamPie makes of what is typed, and how it helps.  Of a text in   *)
(* the middle of being typed: its structure (PyParse), what is around the  *)
(* cursor (HyperParser), what is to be completed (Autocomplete) and how    *)
(* far a new line is indented (NewlineAndIndent); every text of some       *)
(* lengths over some characters is tried, with characters chosen for each  *)
(* question.  Then the search in the list of completions and the window    *)
(* that shows it (AutocompleteWindow), what Editing takes from CallTips,   *)
(* Autoparen and IndentKeys, and the ordered dictionaries of the           *)
(* configuration (OrderedDict).  A behaviour exercises one part and leaves *)
(* the others as they start.                                               *)
(***************************************************************************)
EXTENDS Editing

CONSTANT None

VARIABLES
  part,  \* the part that this behaviour exercises
  str, parsePc, i, level, lno, goodlines, firstlno, quote, continuation,
  k, p, q, lastch, stack, bracketing,
  index, is_auto, raw, asked,
  before, indent,
  tab, texts, cursor, listWin, handlers, raised,
  self

parseVars == <<str, parsePc, i, level, lno, goodlines, firstlno, quote, continuation,
               k, p, q, lastch, stack, bracketing>>
completeVars == <<is_auto, raw, asked>>
enterVars == <<before, indent>>
textVars == <<parseVars, index, completeVars, enterVars>>
listVars == <<tab, texts, cursor, listWin, handlers, raised>>
tipVars == <<sb, tipInsert, tip, tipWin, places, shows>>
parenVars == <<source, sourceInsert, mark, watching, cur_prefix, plain, last>>
indentVars == <<spaces, lineTexts, insert, bound, key, previous>>
typingVars == <<listVars, tipVars, parenVars, indentVars, self>>
allVars == <<part, vars, textVars, typingVars>>

TextParts == {"statements", "strings", "expressions", "calls", "names", "blocks", "lines"}
Parts == TextParts \cup {"search", "list", "keys", "tabs", "tips", "parens", "indent", "dict"}

-----------------------------------------------------------------------------
\* The texts of at most m characters of a set.
UpTo(m, Alphabet) == UNION {[1 .. len -> Alphabet] : len \in 0 .. m}

\* With the newline that ends a text, and with what HyperParser adds.
Ended(Strings) == {Append(s, "newline") : s \in Strings}
Added(Strings) == {s \o <<"space", "newline">> : s \in Strings}

\* A keyword has white space around it.
Proper(s) ==
  \A j \in DOMAIN s : s[j] \in {"import", "from"} =>
    /\ j > 1 => s[j - 1] \in {"space", "newline"}
    /\ j < Len(s) => s[j + 1] \in {"space", "newline"}

Statements == UpTo(5, {"x", "space", "newline", "(", ")", "dq", "backslash", "#"})
Strings == UpTo(7, {"newline", "dq", "backslash", "#"})
Expressions ==
  UpTo(4, {"x", ".", "newline", "(", ")", "[", "dq", "#"})
  \cup UpTo(5, {"x", "newline", "(", ")", "#"}) \cup UpTo(5, {"x", ".", "(", "[", "dq"})
Calls ==
  UpTo(4, {"x", ".", "(", ")", "[", "]", ",", "dq", "newline"})
  \cup UpTo(5, {"x", ".", "(", ")", "[", ","})
Names ==
  {s \in UpTo(4, {"x", ".", "[", "dq", "/", "backslash", "import", "from", "space"})
           \cup UpTo(5, {"x", ".", "dq", "/", "backslash", "import", "from", "space"}) : Proper(s)}
Blocks == UpTo(5, {"x", "space", "newline", ":", "return", "#", "dq"})
Lines ==
  UpTo(5, {"x", "space", "newline", "(", ")", "=", "backslash"})
  \cup UpTo(6, {"x", "space", "newline", "=", "backslash"})

P == INSTANCE PyParse WITH pc <- parsePc, Texts <- Ended(Statements)
S == INSTANCE PyParse WITH pc <- parsePc, Texts <- Ended(Strings)
H == INSTANCE HyperParser WITH pc <- parsePc, Texts <- Added(Expressions)
C == INSTANCE Autocomplete WITH pc <- parsePc, Texts <- Added(Calls)
N == INSTANCE Autocomplete WITH pc <- parsePc, Texts <- Added(Names)
B == INSTANCE NewlineAndIndent WITH pc <- parsePc, Texts <- Blocks, INDENT_WIDTH <- 2
E == INSTANCE NewlineAndIndent WITH pc <- parsePc, Texts <- Lines, INDENT_WIDTH <- 2

\* In one tab without regard to case; with keys that are out of order with their
\* brackets; or in two tabs, with a character that is not ASCII.
Lowered == [c \in {"a", "A", "b", "0", "1", "]", "e-acute"} |-> IF c = "A" THEN "a" ELSE c]
Codes == [c \in DOMAIN Lowered |->
            CASE c = "0" -> 48 [] c = "1" -> 49 [] c = "A" -> 65 [] c = "]" -> 93
              [] c = "a" -> 97 [] c = "b" -> 98 [] c = "e-acute" -> 233]
W == INSTANCE AutocompleteWindow WITH
  Tabs <- {"t1"}, Chars <- {"a", "A", "b"}, Lower <- Lowered, Code <- Codes, NonAscii <- {},
  CaseInsen <- TRUE, Public <- <<<<"A">>, <<"a", "b">>>>, Private <- <<<<"a", "b", "a">>>>,
  MaxText <- 3, MaxHandlers <- 2, text <- texts, win <- listWin
K == INSTANCE AutocompleteWindow WITH
  Tabs <- {"t1"}, Chars <- {"0", "1", "]"}, Lower <- Lowered, Code <- Codes, NonAscii <- {},
  CaseInsen <- FALSE, Public <- <<<<"0", "]">>, <<"1", "]">>, <<"1", "0", "]">>>>, Private <- <<>>,
  MaxText <- 3, MaxHandlers <- 1, text <- texts, win <- listWin
V == INSTANCE AutocompleteWindow WITH
  Tabs <- {"t1", "t2"}, Chars <- {"a", "e-acute"}, Lower <- Lowered, Code <- Codes,
  NonAscii <- {"e-acute"}, CaseInsen <- FALSE,
  Public <- <<<<"a">>, <<"a", "e-acute">>>>, Private <- <<>>,
  MaxText <- 2, MaxHandlers <- 1, text <- texts, win <- listWin

\* On another page, a call in another.
MCCallPages == {<<>>, <<"x", "(", "x", "(">>}

\* An undo string that is a keyword and a space, and one of a single character.
MCUndoStrings == {<<"i", "space">>, <<"=">>}
MCKeywords == {<<"i">>}
MCParenTexts == {<<>>, <<"s">>}

\* Three lines, of which some are blank.
MCLineTexts == [1 .. 3 -> {"", "x"}]

\* Positions from the start of the dictionary.
O == INSTANCE OrderedDict WITH
  Keys <- {1, 2, 3}, Values <- {"u", "v"}, Offsets <- 0 .. 2, MaxItems <- 3

-----------------------------------------------------------------------------
NotAsked == is_auto = FALSE /\ raw = FALSE /\ asked = C!Nothing
NotEntered == before = <<>> /\ indent = 0

TextInit ==
  CASE part = "statements" -> P!Init /\ index = 0 /\ NotAsked /\ NotEntered
    [] part = "strings" -> S!Init /\ index = 0 /\ NotAsked /\ NotEntered
    [] part = "expressions" -> H!HInit /\ NotAsked /\ NotEntered
    [] part = "calls" -> C!AInit /\ NotEntered
    [] part = "names" -> N!AInit /\ NotEntered
    [] part = "blocks" -> B!NInit /\ index = 0 /\ NotAsked
    [] part = "lines" -> E!NInit /\ index = 0 /\ NotAsked
    [] OTHER -> /\ str = <<>> /\ parsePc = "none" /\ B!Fresh /\ index = 0
                /\ NotAsked /\ NotEntered

MCInit ==
  /\ part \in Parts
  /\ TextInit
  /\ IF part = "search"
     THEN Init
     ELSE L = <<>> /\ prefix = <<>> /\ l = 0 /\ r = 0 /\ start = 0 /\ end = 0 /\ pc = "done"
  /\ CASE part = "tabs" -> V!Init [] part = "keys" -> K!Init [] OTHER -> W!Init
  /\ Tips!Init
  /\ Parens!Init /\ (part = "parens" \/ source = <<>>)
  /\ IF part = "indent"
     THEN Indent!Init
     ELSE /\ lineTexts = <<"", "", "">> /\ spaces = <<0, 0, 0>> /\ insert = <<1, 0>>
          /\ bound = <<1, 0>> /\ key = "none" /\ previous = spaces
  /\ O!Init /\ (part = "dict" \/ ~self.strict)

MCNext ==
  \/ part \in {"statements", "strings"} /\ P!Next
     /\ UNCHANGED <<part, vars, index, completeVars, enterVars, typingVars>>
  \/ part = "expressions" /\ H!HNext
     /\ UNCHANGED <<part, vars, completeVars, enterVars, typingVars>>
  \/ part \in {"calls", "names"} /\ C!ANext
     /\ UNCHANGED <<part, vars, enterVars, typingVars>>
  \/ part \in {"blocks", "lines"} /\ B!NNext
     /\ UNCHANGED <<part, vars, index, completeVars, typingVars>>
  \/ part = "search" /\ Next
     /\ UNCHANGED <<part, textVars, listVars, tipVars, parenVars, indentVars, self>>
  \/ part = "list" /\ W!Next
     /\ UNCHANGED <<part, textVars, vars, tipVars, parenVars, indentVars, self>>
  \/ part = "keys" /\ K!Next
     /\ UNCHANGED <<part, textVars, vars, tipVars, parenVars, indentVars, self>>
  \/ part = "tabs" /\ V!Next
     /\ UNCHANGED <<part, textVars, vars, tipVars, parenVars, indentVars, self>>
  \/ part = "tips" /\ Tips!Next
     /\ UNCHANGED <<part, textVars, vars, listVars, parenVars, indentVars, self>>
  \/ part = "parens" /\ Parens!Next
     /\ UNCHANGED <<part, textVars, vars, listVars, tipVars, indentVars, self>>
  \/ part = "indent" /\ Indent!Next
     /\ UNCHANGED <<part, textVars, vars, listVars, tipVars, parenVars, self>>
  \/ part = "dict" /\ O!Next
     /\ UNCHANGED <<part, textVars, vars, listVars, tipVars, parenVars, indentVars>>

MCSpec == MCInit /\ [][MCNext]_allVars /\ Fairness

-----------------------------------------------------------------------------
\* PyParse: no text makes an assertion of the parser fail; the good lines are those on
\* which statements start; the statement that is studied is the last one, and the
\* bracketing is that of the text.  HyperParser: an index is in code or in a string as the
\* text has it, the surrounding brackets are the innermost of their kind, and the
\* expression before the cursor is a whole one.  Autocomplete: nothing is called because
\* something was typed, what is evaluated is a whole expression, and a file name is completed
\* only in a string.  NewlineAndIndent: a new statement is in the block of the one before,
\* or in its own; items in brackets line up; a statement that goes on is indented more than
\* it starts.  AutocompleteWindow: the rows are those that fit what is typed, of a list that
\* is in order, and the keys are taken exactly while the list is shown.
StructureIsRight ==
  /\ part = "statements" => P!AssertionsHold /\ P!LastStatement
  /\ part \in {"statements", "strings"} => P!LinesAreGood /\ P!BracketingIsRight
  /\ part = "expressions" => H!CodeOrString /\ H!BracketsSurround /\ H!ExpressionIsWhole
  /\ part = "calls" => C!NoCallUnasked
  /\ part \in {"calls", "names"} => C!WholeIsEvaluated /\ C!NameIsInString
  /\ part = "blocks" => B!BlocksAreKept
  /\ part = "lines" => B!ItemsLineUp /\ B!ContinuationIsRight
  /\ part = "list" => W!TypeOK /\ W!RowsFitText
  /\ part = "keys" => K!TypeOK /\ K!RowsFitText
  /\ part = "tabs" => V!TypeOK /\ V!RowsFitText
  /\ part \in {"list", "keys", "tabs"} => W!KeysFollowList

\* OrderedDict: the sequence and the dictionary have the same keys; what changes the
\* order keeps the values; an item that is set is where it was set; setting a slice is
\* setting it in a list, and undone by setting what was there; and a strict dictionary
\* changes nothing else.
DictIsRight ==
  part = "dict" =>
    /\ O!KeysAgree /\ O!ReorderKeepsValues /\ O!ItemIsAtPosition
    /\ O!SlicesAreSet /\ O!StrictKeepsTheRest /\ O!SliceIsPutBack

\* The list of completions.  Both searches end; to choose a completion completes the word;
\* the list is closed by a character exactly if nothing fits with it; and backspace opens
\* the list again.
ListIsRight ==
  /\ Terminates
  /\ W!CompletesWord /\ K!CompletesWord
  /\ W!ClosesWithNone /\ K!ClosesWithNone
  /\ W!ReopensList /\ K!ReopensList /\ V!ReopensList
=============================================================================
