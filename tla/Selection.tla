------------------------------ MODULE Selection --------------------------------
(***************************************************************************)
(* selection.py: which of Copy and Interrupt, that share Ctrl-C, is        *)
(* enabled (Init, Next), and the commands in the text view: how            *)
(* write_command() writes them, and which of those in the selection are    *)
(* taken by Copy Commands Only (CopyInit, Turn), and by history.py to the  *)
(* source buffer.                                                          *)
(*                                                                         *)
(* The selections of the text buffer and of the source buffers are GTK's;  *)
(* Selection is told by 'mark-set' when a mark is moved, and not when a    *)
(* deletion lets the two ends of a selection meet.  The commands are found *)
(* by going from one place where tags change to the next: there a text is  *)
(* the sequence of the tags of its characters, an iterator an offset from  *)
(* 0, a prompt one character, and no character is a space, which strip()   *)
(* would take from the ends of a command.                                  *)
(***************************************************************************)
EXTENDS Integers, Sequences, SequencesExt, FiniteSetsExt

CONSTANTS
  Tabs,
  None,
  MaxText,  \* bound on the length of the text with commands
  Commands  \* commands that are written: the lengths of their lines, with the newlines
            \* between, their tokens to highlight, and of each line its depth and kind

TextBuffers == Tabs \cup {"text"}

VARIABLES
  selection,              \* the buffers in which something is selected
  tab,                    \* the page that is shown
  focus,                  \* the view that has the focus: "text" or "source"
  handler,                \* the source buffer whose mark-set goes to on_mark_set
  sourcebuffer,           \* the source buffer that Selection looks at
  is_something_selected,
  menu,                   \* the menu items that are sensitive
  silent,                 \* what happened since the last mark-set that was not told
  command,                \* the command that was written, if the text is of one
  tags,                   \* get_commands_only: the text
  sel_start, sel_end,
  it, r, reached_end

ConstantsFit ==
  /\ MaxText \in Nat
  /\ Commands \subseteq
       [lens : Seq(Nat \ {0}),
        highs : Seq([sline : Nat \ {0}, scol : Nat, eline : Nat \ {0}, ecol : Nat]),
        rows : Seq([depth : Nat, kind : {"plain", "def", "other"}])]
  /\ \A c \in Commands : c.lens # <<>>

vars == <<selection, tab, focus, handler, sourcebuffer, is_something_selected, menu, silent>>

copyVars == <<command, tags, sel_start, sel_end, it, r, reached_end>>

Init ==
  /\ selection = {} /\ tab \in Tabs /\ focus = "source"
  /\ handler = tab /\ sourcebuffer = tab
  /\ is_something_selected = None
  /\ menu = {"cut", "copy", "copy_commands_only", "interrupt"}
  /\ silent = {}

\* on_is_something_selected_changed
Sensitive(selected) == IF selected THEN {"cut", "copy", "copy_commands_only"} ELSE {"interrupt"}

\* Mutations of the definitions that follow, each the mark of a plausible slip
\* in the code, have an underscore in their names and are used by no other
\* definition: TLC refutes a property with each of them.

\* Only the buffer that the signal is from is looked at.
MarkSet_one(b, sel, view) ==
  IF b \in {"text", handler}
  THEN LET selected == b \in sel
       IN  /\ is_something_selected' = selected
           /\ menu' = IF is_something_selected = None \/ selected # is_something_selected
                      THEN Sensitive(selected) ELSE menu
           /\ silent' = {}
  ELSE UNCHANGED <<is_something_selected, menu, silent>>

\* on_mark_set, when a mark of buffer b was set and the selections are sel.
MarkSet(b, sel, view) ==
  IF b \in {"text", handler}
  THEN LET selected == "text" \in sel \/ view \in sel
       IN  /\ is_something_selected' = selected
           /\ menu' = IF is_something_selected = None \/ selected # is_something_selected
                      THEN Sensitive(selected) ELSE menu
           /\ silent' = {}
  ELSE UNCHANGED <<is_something_selected, menu, silent>>

\* The buffer of the focused view.
Focused == IF focus = "text" THEN "text" ELSE tab

\* The user selects or moves the cursor in the focused view; find() and the
\* history commands do in the text view.
SetMarks(b, selects) ==
  /\ b \in {Focused, "text"}
  /\ selection' = IF selects THEN selection \cup {b} ELSE selection \ {b}
  /\ MarkSet(b, selection', sourcebuffer)
  /\ UNCHANGED <<tab, focus, handler, sourcebuffer>>

\* Text is deleted with the selection in it: by a key in the source view, by the
\* program in either.
DeleteSelected(b) ==
  /\ b \in selection \cap {tab, "text"}
  /\ selection' = selection \ {b}
  /\ silent' = silent \cup {"deleted"}
  /\ UNCHANGED <<tab, focus, handler, sourcebuffer, is_something_selected, menu>>

\* on_textview_focus_in and on_sourceview_focus_in clear the other's selection by
\* moving a mark.
FocusIn(view) ==
  /\ focus' = view
  /\ LET b == IF view = "text" THEN sourcebuffer ELSE "text"
     IN  selection' = selection \ {b} /\ MarkSet(b, selection', sourcebuffer)
  /\ UNCHANGED <<tab, handler, sourcebuffer>>

\* The handler stays with the first buffer.
SwitchTab_handler(t) ==
  /\ t # tab /\ tab' = t /\ sourcebuffer' = t
  /\ IF focus = "source"
     THEN selection' = selection \ {"text"} /\ MarkSet("text", selection', t)
     ELSE UNCHANGED <<selection, is_something_selected, menu>> /\ silent' = silent \cup {"switched"}
  /\ UNCHANGED <<handler, focus>>

\* on_sv_changed; if the focus was in the source view, GTK gives it to the new
\* one, which clears the selection of the text buffer.
SwitchTab(t) ==
  /\ t # tab /\ tab' = t /\ handler' = t /\ sourcebuffer' = t
  /\ IF focus = "source"
     THEN selection' = selection \ {"text"} /\ MarkSet("text", selection', t)
     ELSE UNCHANGED <<selection, is_something_selected, menu>> /\ silent' = silent \cup {"switched"}
  /\ UNCHANGED focus

Next ==
  \/ \E b \in TextBuffers, selects \in BOOLEAN : SetMarks(b, selects)
  \/ \E b \in TextBuffers : DeleteSelected(b)
  \/ \E view \in {"text", "source"} : FocusIn(view)
  \/ \E t \in Tabs : SwitchTab(t)

Spec == Init /\ [][Next]_vars

-------------------------------------------------------------------------------
(* write_command.py *)

\* The tokens of tokenize that tell where definitions are, of the lines up to one.  A plain
\* line begins with none of them: it is blank, a comment or the rest of a statement.
Tokens(rows) ==
  LET Many(typ, n, i) == IF n > 0 THEN [j \in 1 .. n |-> [typ |-> typ, line |-> i]] ELSE <<>>
      \* At the end all is dedented.
      Depth(i) == IF i > Len(rows) THEN 0 ELSE rows[i].depth
      at[i \in 0 .. Len(rows) + 1] ==
        IF i = 0 THEN [depth |-> 0, seq |-> <<>>]
        ELSE LET t == at[i - 1] IN
             IF i <= Len(rows) /\ rows[i].kind = "plain" THEN t
             ELSE [depth |-> Depth(i),
                   seq |-> t.seq \o Many("INDENT", Depth(i) - t.depth, i) \o Many("DEDENT", t.depth - Depth(i), i)
                           \o (IF i <= Len(rows) /\ rows[i].kind = "def" THEN Many("def", 1, i) ELSE <<>>)]
  IN  at[Len(rows) + 1].seq

\* Mutations of the definitions that follow, each the mark of a plausible slip in the
\* code, have an underscore in their names and are used by no other definition: TLC
\* refutes a property with each of them.

\* The blocks in a definition are forgotten.
DefsLines_nested(rows) ==
  LET tokens == Tokens(rows)
      seen[k \in 0 .. Len(tokens)] ==
        IF k = 0 THEN [depth |-> 0, def |-> -2, first |-> 0, hidden |-> {}]
        ELSE LET s == seen[k - 1]
                 t == tokens[k]
             IN  CASE s.depth > 0 /\ t.typ = "DEDENT" ->
                        [s EXCEPT !.depth = 0, !.hidden = @ \cup s.first .. t.line - 1]
                   [] s.depth = 0 /\ t.typ = "def" -> [s EXCEPT !.def = t.line]
                   [] s.depth = 0 /\ t.typ = "INDENT" /\ t.line = s.def + 1 ->
                        [s EXCEPT !.depth = 1, !.first = t.line]
                   [] OTHER -> s
  IN  seen[Len(tokens)].hidden

\* get_defs_lines(): the lines that are hidden with the definitions.
DefsLines(rows) ==
  LET tokens == Tokens(rows)
      seen[k \in 0 .. Len(tokens)] ==
        IF k = 0 THEN [depth |-> 0, def |-> -2, first |-> 0, hidden |-> {}]
        ELSE LET s == seen[k - 1]
                 t == tokens[k]
             IN  CASE s.depth > 0 /\ t.typ = "INDENT" -> [s EXCEPT !.depth = @ + 1]
                   [] s.depth > 1 /\ t.typ = "DEDENT" -> [s EXCEPT !.depth = @ - 1]
                   [] s.depth = 1 /\ t.typ = "DEDENT" ->
                        [s EXCEPT !.depth = 0, !.hidden = @ \cup s.first .. t.line - 1]
                   [] s.depth = 0 /\ t.typ = "def" -> [s EXCEPT !.def = t.line]
                   [] s.depth = 0 /\ t.typ = "INDENT" /\ t.line = s.def + 1 ->
                        [s EXCEPT !.depth = 1, !.first = t.line]
                   [] OTHER -> s
  IN  seen[Len(tokens)].hidden

Total(lens) == FoldLeft(+, 0, lens)

\* A character that is written: its place in the command, 0 if it is of none, and its tags.
Write(of, marks) == <<[of |-> of, tags |-> marks]>>

\* The end of a highlight is looked for on the line where it begins.
WriteTurn_line(c, s) ==
  LET high == c.highs[s.high]
      WriteTo(col, marks) ==
        [s EXCEPT !.col = col,
                  !.out = @ \o [j \in 1 .. col - s.col |->
                                  [of |-> Total(SubSeq(c.lens, 1, s.line - 1)) + s.col + j,
                                   tags |-> {"command"} \cup s.defs \cup marks]]]
  IN  CASE ~s.in_high /\ high.sline = s.line -> [WriteTo(high.scol, {}) EXCEPT !.in_high = TRUE]
        [] ~s.in_high /\ high.sline # s.line -> WriteTo(c.lens[s.line], {})
        [] s.in_high /\ high.eline = high.sline ->
             [WriteTo(high.ecol, {"token"}) EXCEPT !.in_high = FALSE, !.high = @ + 1]
        [] s.in_high /\ high.eline # high.sline ->
             [WriteTo(c.lens[s.line], {"token"}) EXCEPT !.in_high = FALSE, !.high = @ + 1]

\* A turn of the loop in a line: up to the next highlight or from it on, to where it ends,
\* or to the end of the line.
WriteTurn(c, s) ==
  LET high == c.highs[s.high]
      WriteTo(col, marks) ==
        [s EXCEPT !.col = col,
                  !.out = @ \o [j \in 1 .. col - s.col |->
                                  [of |-> Total(SubSeq(c.lens, 1, s.line - 1)) + s.col + j,
                                   tags |-> {"command"} \cup s.defs \cup marks]]]
  IN  CASE ~s.in_high /\ high.sline = s.line -> [WriteTo(high.scol, {}) EXCEPT !.in_high = TRUE]
        [] ~s.in_high /\ high.sline # s.line -> WriteTo(c.lens[s.line], {})
        [] s.in_high /\ high.eline = s.line ->
             [WriteTo(high.ecol, {"token"}) EXCEPT !.in_high = FALSE, !.high = @ + 1]
        [] s.in_high /\ high.eline # s.line -> WriteTo(c.lens[s.line], {"token"})

\* The prompts of the lines but the first are hidden with them.
BeginLine(hidden, s) ==
  LET line == s.line + 1
      defs == IF line \in hidden THEN {"defs"} ELSE {}
      prompt == IF line = 1 THEN <<>> ELSE Write(0, {"command", "prompt"} \cup defs)
  IN  [s EXCEPT !.line = line, !.col = 0, !.defs = defs, !.out = @ \o prompt]

WriteOn(c, hidden, s) ==
  CASE s.line > 0 /\ s.col < c.lens[s.line] -> WriteTurn(c, s)
    [] s.line = 0 \/ (s.col >= c.lens[s.line] /\ s.line < Len(c.lens)) -> BeginLine(hidden, s)
    [] OTHER -> s

\* write_command(), behind the prompt.  A highlight behind the last line spares the end of
\* their list.
WriteCommand(written) ==
  LET lines == Len(written.lens)
      behind == [sline |-> lines + 1, scol |-> 0, eline |-> lines + 1, ecol |-> 0]
      c == [written EXCEPT !.highs = Append(@, behind)]
      hidden == DefsLines(c.rows)
      start == [line |-> 0, col |-> 0, in_high |-> FALSE, high |-> 1, defs |-> {},
                out |-> Write(0, {"command", "prompt"})]
      \* A line takes two turns, to begin and to end it, and a highlight two more.
      turns == 2 * (lines + Len(c.highs))
      after[k \in 0 .. turns] == IF k = 0 THEN start ELSE WriteOn(c, hidden, after[k - 1])
  IN  after[turns].out \o Write(Total(c.lens) + 1, {"command"}) \o Write(0, {"sep"})

-------------------------------------------------------------------------------
\* get_commands_only, while nothing else runs.
Tags == {{}, {"command"}, {"command", "prompt"}, {"stdout"}}

CopyInit ==
  /\ \/ command = None /\ tags \in UNION {[1 .. n -> Tags] : n \in 1 .. MaxText}
     \/ command \in Commands /\ LET cells == WriteCommand(command) IN tags = [i \in DOMAIN cells |-> cells[i].tags]
  /\ sel_start \in 0 .. Len(tags) - 1 /\ sel_end \in sel_start + 1 .. Len(tags)
  /\ it = sel_start /\ r = <<>> /\ reached_end = FALSE

\* forward_to_tag_toggle(None): the next offset at which a tag begins or ends, the
\* end of the text at last.
Toggle(i) ==
  CHOOSE j \in i + 1 .. Len(tags) :
    /\ j = Len(tags) \/ tags[j + 1] # tags[j]
    /\ \A k \in i + 1 .. j - 1 : tags[k + 1] = tags[k]

\* The end of the selection is seen only when it is passed.
Turn_past ==
  LET i == Toggle(it)
      e == i > sel_end
  IN  /\ ~reached_end /\ it < Len(tags)
      /\ reached_end' = (e \/ i = Len(tags))
      /\ it' = IF e THEN sel_end ELSE i
      /\ r' = IF "command" \in tags[it + 1] /\ "prompt" \notin tags[it + 1]
              THEN r \o [k \in 1 .. i - it |-> it + k] ELSE r
      /\ UNCHANGED <<command, tags, sel_start, sel_end>>

\* The loop goes on at the end of the text.
Turn_strict ==
  LET i == IF it = Len(tags) THEN it ELSE Toggle(it)
  IN  /\ ~reached_end
      /\ reached_end' = (i > sel_end)
      /\ it' = i
      /\ UNCHANGED <<command, tags, sel_start, sel_end, r>>

\* A turn of the loop.  The text of r is told by its offsets.
Turn ==
  LET i  == Toggle(it)
      e  == i >= sel_end
      it2 == IF e THEN sel_end ELSE i
  IN  /\ ~reached_end
      /\ reached_end' = e
      /\ it' = it2
      /\ r' = IF "command" \in tags[it + 1] /\ "prompt" \notin tags[it + 1]
              THEN r \o [k \in 1 .. it2 - it |-> it + k] ELSE r
      /\ UNCHANGED <<command, tags, sel_start, sel_end>>

CopySpec == CopyInit /\ [][Turn]_copyVars

\* The loop is not interrupted.
Fairness == WF_copyVars(Turn)

-------------------------------------------------------------------------------
(* history.py: the commands of the text view *)

\* has_tag, begins_tag and ends_tag of GtkTextIter, and its two ways to go on.
HasTag(i, t) == i < Len(tags) /\ t \in tags[i + 1]
EndsTag(i, t) == i > 0 /\ t \in tags[i] /\ ~HasTag(i, t)
BeginsTag(i, t) == HasTag(i, t) /\ (i = 0 \/ t \notin tags[i])
Toggles(t) == {i \in 0 .. Len(tags) : BeginsTag(i, t) \/ EndsTag(i, t)}
ForwardTo(i, t) == Min({Len(tags)} \cup {j \in Toggles(t) : j > i})
BackwardTo(i, t) == Max({0} \cup {j \in Toggles(t) : j < i})

Places(a, b) == [k \in 1 .. b - a |-> a + k]

\* The prompts but the first are taken along.
iter_get_command_prompts(i, only_first_line) ==
  LET begin == IF BeginsTag(i, "command") THEN i ELSE BackwardTo(i, "command")
      first == IF HasTag(begin, "prompt") THEN ForwardTo(begin, "prompt") ELSE begin
  IN  Places(first, ForwardTo(begin, "command"))

\* iter_get_command(): the places of the command's characters.
iter_get_command(i, only_first_line) ==
  LET begin == IF BeginsTag(i, "command") THEN i ELSE BackwardTo(i, "command")
      end == ForwardTo(begin, "command")
      first == IF HasTag(begin, "prompt") THEN ForwardTo(begin, "prompt") ELSE begin
      from[j \in 0 .. Len(tags)] ==
        LET next == ForwardTo(j, "prompt")
            again == ForwardTo(next, "prompt")
        IN  CASE next >= end -> Places(j, ForwardTo(j, "command"))
              [] only_first_line \/ again >= end -> Places(j, next)
              [] OTHER -> Places(j, next) \o from[again]
  IN  IF first >= end THEN <<>> ELSE from[first]

\* The selection begins in the middle of a command: it is left out.
copy_to_sourceview_begun ==
  LET from[i \in 0 .. Len(tags)] ==
        LET j == ForwardTo(i, "command") IN
        IF j >= sel_end THEN <<>>
        ELSE <<iter_get_command(j, FALSE)>> \o from[ForwardTo(j, "command")]
  IN  from[IF HasTag(sel_start, "command") THEN ForwardTo(sel_start, "command") ELSE sel_start]

\* copy_to_sourceview(), with a selection: what is appended to the source, command by command.
copy_to_sourceview ==
  LET from[i \in 0 .. Len(tags)] ==
        LET j == ForwardTo(i, "command") IN
        IF j >= sel_end THEN <<>>
        ELSE <<iter_get_command(j, FALSE)>> \o from[ForwardTo(j, "command")]
  IN  IF HasTag(sel_start, "command") \/ EndsTag(sel_start, "command")
      THEN <<iter_get_command(sel_start, FALSE)>>
           \o from[IF EndsTag(sel_start, "command") THEN sel_start ELSE ForwardTo(sel_start, "command")]
      ELSE from[sel_start]

\* history_up() and history_down(), when the text view has the focus.
CursorUp(i) == LET j == BackwardTo(i, "command") IN IF EndsTag(j, "command") THEN BackwardTo(j, "command") ELSE j
\* It goes to the end of the command.
CursorDown_end(i) == ForwardTo(i, "command")
CursorDown(i) == LET j == ForwardTo(i, "command") IN IF EndsTag(j, "command") THEN ForwardTo(j, "command") ELSE j

-------------------------------------------------------------------------------
SomethingSelected == "text" \in selection \/ tab \in selection

\* Unless something was deleted or another tab shown in silence, Ctrl-C does what
\* the selections that the user sees call for: also those in tabs that were left
\* and come back.
CtrlCIsRight ==
  is_something_selected # None /\ silent = {} => menu = Sensitive(SomethingSelected)

IsOfCommand(i) == "command" \in tags[i] /\ "prompt" \notin tags[i]

\* The text "which has the COMMAND tag, doesn't have the PROMPT tag, and is
\* selected": every character of it, in order, and none else.
AllCommands ==
  reached_end =>
    /\ {r[k] : k \in DOMAIN r} = {i \in sel_start + 1 .. sel_end : IsOfCommand(i)}
    /\ \A k \in 1 .. Len(r) - 1 : r[k] < r[k + 1]

\* The places from which a command goes on without a break, and where it ends.
Regions ==
  {region \in Toggles("command") \X Toggles("command") :
     BeginsTag(region[1], "command") /\ region[2] = ForwardTo(region[1], "command")}
CommandOf(region) == SelectSeq(Places(region[1], region[2]), LAMBDA i : "prompt" \notin tags[i])

\* "Copy all commands which intersect with the selection", or which it begins at the end
\* of: each of them whole and without its prompts, in their order, and nothing of others.
CopiesWhole ==
  LET met == {x \in Regions : x[2] >= sel_start /\ x[1] < sel_end}
  IN  copy_to_sourceview =
        [k \in 1 .. Cardinality(met) |->
           CommandOf(CHOOSE x \in met : Cardinality({y \in met : y[1] < x[1]}) = k - 1)]

\* The keys that go up and down in the text view go from command to command, whether they
\* begin inside of one or between two.
KeysFindCommands ==
  \A i \in 0 .. Len(tags) :
    LET begins == {x[1] : x \in Regions}
    IN  /\ CursorUp(i) = Max({0} \cup {b \in begins : b < i})
        /\ CursorDown(i) = Min({Len(tags)} \cup {b \in begins : b > i})

\* The lines in the body of a definition that begins right below its header.
InDefinition(rows, i) ==
  \E d \in 1 .. i - 1 :
    /\ rows[d].kind = "def" /\ rows[d + 1].kind # "plain" /\ rows[d + 1].depth > rows[d].depth
    /\ \A j \in d + 1 .. i : rows[j].kind = "plain" \/ rows[j].depth > rows[d].depth

Highlighted(c, line, col) ==
  \E k \in DOMAIN c.highs :
    LET h == c.highs[k] IN
    /\ h.sline < line \/ (h.sline = line /\ h.scol <= col)
    /\ line < h.eline \/ (line = h.eline /\ col < h.ecol)

\* A command that is written comes back when it is recalled: it is all there, in order, with
\* a newline at its end, whatever is highlighted in it.  What is highlighted are the tokens,
\* over several lines if need be, and what is hidden are the bodies of the definitions, with
\* the prompts of their lines.
WrittenIsRecalled ==
  command # None =>
    LET cells == WriteCommand(command)
        read == iter_get_command(0, FALSE)
        length == Total(command.lens)
        Line(p) == Cardinality({q \in 1 .. p : "prompt" \in tags[q]})
        Col(p) == cells[p].of - 1 - Total(SubSeq(command.lens, 1, Line(p) - 1))
    IN  /\ [k \in DOMAIN read |-> cells[read[k]].of] = [k \in 1 .. length + 1 |-> k]
        /\ Len(iter_get_command(0, TRUE)) = command.lens[1] + (IF Len(command.lens) = 1 THEN 1 ELSE 0)
        /\ \A p \in 1 .. Len(tags) - 2 :
             /\ "token" \in tags[p] <=> cells[p].of > 0 /\ Highlighted(command, Line(p), Col(p))
             /\ "defs" \in tags[p] <=> InDefinition(command.rows, Line(p))

\* The loop ends, also for a selection that ends with the text.
Ends == <>reached_end
===============================================================================
