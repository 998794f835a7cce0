-------------------------------- MODULE Window ---------------------------------
(***************************************************************************)
(* What the main window shows and what its menus and timers do: scrolling  *)
(* (VAdjToBottom, which this module extends), the status bar (StatusBar),  *)
(* folding (Folding), the tabs of the source box (Tabs), the check for     *)
(* updates (UpdateCheck), the output of a section (Output), the selection  *)
(* (Selection) and the themes of the configuration (Themes); what must     *)
(* always be true of them; and the proofs, for every value of their        *)
(* constants.                                                              *)
(***************************************************************************)
EXTENDS VAdjToBottom, Sequences, SequencesExt, FiniteSetTheorems, SequenceTheorems,
        WellFoundedInduction, TLAPS

CONSTANTS
  None,                                 \* of several modules
  Buffers, Ids, Timeout, MaxTimers,     \* of StatusBar
  SectionLines, MaxSections, NumLines,  \* of Folding
  Helpers, PageTexts, MaxPages,         \* of Tabs
  Times, Unset,                         \* of UpdateCheck
  Chars, BreakLen, MaxStream,           \* of Output
  CopyTabs,                             \* of Selection
  ThemeNames, Bracketed, Padded, Stripped, Cut,
  Colors, DEFAULT, Elements, NewElements, Dark, NewThemes  \* of Themes

VARIABLES
  part,  \* the part that this behaviour exercises
  sourcebuffer, bar, statusId, connected, timers, age,
  sections, lastUnfolded, executing, userUnfolded, stale,
  pages, current, pageTexts, sourceview, show_tabs, reopen_tab_data, sensitive, opener, before,
  thread, is_git, cur_time, latest, _is_git, _latest_name, _latest_time, _cur_time,
  idle, running, status, menu, report,
  text, addedNewline, wasSomethingWritten, isCr, outputExecuting, stream, cut, raised,
  selection, tab, focus, handler, selectionBuffer, is_something_selected, copyMenu, silent,
  command, tags, sel_start, sel_end, it, r, reached_end,
  newer, pc, file, config, themes, store, rows, cursor, cur_theme, seen

Bar == INSTANCE StatusBar
Folds == INSTANCE Folding WITH MaxLines <- SectionLines
Notebook == INSTANCE Tabs WITH Texts <- PageTexts, text <- pageTexts
Check == INSTANCE UpdateCheck

Out == INSTANCE Output WITH executing <- outputExecuting

\* Commands of some lines: with one or two tokens to highlight, or with definitions.
Line(depth, kind) == [depth |-> depth, kind |-> kind]
Plain(n) == [i \in 1 .. n |-> Line(0, "other")]
High(sline, scol, eline, ecol) == [sline |-> sline, scol |-> scol, eline |-> eline, ecol |-> ecol]
LineLengths == {<<1>>, <<3>>, <<2, 2>>, <<3, 1>>, <<2, 1, 2>>}
\* A token ends before the newline of its last line.
HighsOf(lens) ==
  {h \in {High(a, b, c, d) : a, c \in 1 .. Len(lens), b, d \in 0 .. 3} :
     LET Room(line) == IF line = Len(lens) THEN lens[line] ELSE lens[line] - 1 IN
     /\ h.scol < Room(h.sline) /\ 0 < h.ecol /\ h.ecol <= Room(h.eline)
     /\ h.sline < h.eline \/ (h.sline = h.eline /\ h.scol < h.ecol)}
Precedes(g, h) == g.eline < h.sline \/ (g.eline = h.sline /\ g.ecol <= h.scol)
HighlightsOf(lens) ==
  {<<>>} \cup {<<h>> : h \in HighsOf(lens)}
  \cup {gh \in HighsOf(lens) \X HighsOf(lens) : Precedes(gh[1], gh[2])}
\* Only a definition or another statement has a deeper line below it.
RowsOf(n) ==
  {shape \in [1 .. n -> {Line(0, "plain")}
                        \cup {Line(d, k) : d \in 0 .. 2, k \in {"def", "other"}}] :
     /\ shape[1].kind # "plain" /\ shape[n].kind # "plain" /\ shape[1].depth = 0
     /\ \A i, j \in 1 .. n :
          i < j /\ shape[i].kind # "plain" /\ shape[j].kind # "plain"
            /\ (\A k \in i + 1 .. j - 1 : shape[k].kind = "plain")
          => shape[j].depth <= shape[i].depth + 1}
WrittenCommands ==
  UNION {{[lens |-> lens, highs |-> highs, rows |-> Plain(Len(lens))] :
            highs \in HighlightsOf(lens)} : lens \in LineLengths}
  \cup {[lens |-> [i \in DOMAIN shape |-> 1], highs |-> <<>>, rows |-> shape] :
           shape \in UNION {RowsOf(n) : n \in 2 .. 4}}

Copying == INSTANCE Selection WITH
  Tabs <- CopyTabs, MaxText <- 4, Commands <- WrittenCommands,
  sourcebuffer <- selectionBuffer, menu <- copyMenu
Looks == INSTANCE Themes WITH
  Names <- ThemeNames, Unset <- None

ASSUME BarAssumption == Bar!ConstantsFit
ASSUME FoldsAssumption == Folds!ConstantsFit
ASSUME NotebookAssumption == Notebook!ConstantsFit
ASSUME CheckAssumption == Check!ConstantsFit
ASSUME OutputAssumption == Out!ConstantsFit
ASSUME CopyingAssumption == Copying!ConstantsFit
ASSUME ThemesAssumption == Looks!ConstantsFit

-----------------------------------------------------------------------------
outputVars == <<text, addedNewline, wasSomethingWritten, isCr, outputExecuting, stream, cut, raised>>
foldingVars == <<sections, lastUnfolded, executing, userUnfolded, stale>>
selectionVars ==
  <<selection, tab, focus, handler, selectionBuffer, is_something_selected, copyMenu, silent>>
commandsVars == <<command, tags, sel_start, sel_end, it, r, reached_end>>
barVars == <<sourcebuffer, bar, statusId, connected, timers, age>>
tabsVars == <<pages, current, pageTexts, sourceview, show_tabs, reopen_tab_data, sensitive,
              opener, before>>
themesVars == <<newer, pc, file, config, themes, store, rows, cursor, cur_theme, seen>>
updateVars == <<thread, is_git, cur_time, latest, _is_git, _latest_name, _latest_time,
                _cur_time, idle, running, status, menu, report>>
allVars == <<part, vars, outputVars, foldingVars, selectionVars, commandsVars, barVars,
             tabsVars, themesVars, updateVars>>

Parts == {"scroll", "output", "discard", "folding", "selection", "commands", "bar",
          "tabs", "themes", "update"}

-----------------------------------------------------------------------------
AllInit ==
  /\ part \in Parts
  /\ Init /\ Out!Init /\ Folds!Init /\ Copying!Init /\ Bar!Init /\ Notebook!Init
  /\ Looks!Init /\ Check!Init
  /\ IF part = "commands"
     THEN Copying!CopyInit
     ELSE /\ command = None /\ tags = <<{}>> /\ sel_start = 0 /\ sel_end = 1 /\ it = 1
          /\ r = <<>> /\ reached_end = TRUE
  /\ part = "selection" \/ tab = CHOOSE t \in CopyTabs : TRUE
  /\ part = "bar" \/ sourcebuffer = CHOOSE b \in Buffers : TRUE
  /\ part = "update" \/ (is_git = FALSE /\ cur_time = 1 /\ latest = 1)

AllNext ==
  \/ part = "scroll" /\ Next
     /\ UNCHANGED <<part, outputVars, foldingVars, selectionVars, commandsVars, barVars, tabsVars,
                    themesVars, updateVars>>
  \/ part = "output" /\ Out!Writing
     /\ UNCHANGED <<part, vars, foldingVars, selectionVars, commandsVars, barVars, tabsVars,
                    themesVars, updateVars>>
  \/ part = "discard" /\ Out!Next
     /\ UNCHANGED <<part, vars, foldingVars, selectionVars, commandsVars, barVars, tabsVars,
                    themesVars, updateVars>>
  \/ part = "folding" /\ Folds!Next
     /\ UNCHANGED <<part, vars, outputVars, selectionVars, commandsVars, barVars, tabsVars,
                    themesVars, updateVars>>
  \/ part = "selection" /\ Copying!Next
     /\ UNCHANGED <<part, vars, outputVars, foldingVars, commandsVars, barVars, tabsVars,
                    themesVars, updateVars>>
  \/ part = "commands" /\ Copying!Turn
     /\ UNCHANGED <<part, vars, outputVars, foldingVars, selectionVars, barVars, tabsVars,
                    themesVars, updateVars>>
  \/ part = "bar" /\ Bar!Next
     /\ UNCHANGED <<part, vars, outputVars, foldingVars, selectionVars, commandsVars, tabsVars,
                    themesVars, updateVars>>
  \/ part = "tabs" /\ Notebook!Next
     /\ UNCHANGED <<part, vars, outputVars, foldingVars, selectionVars, commandsVars, barVars,
                    themesVars, updateVars>>
  \/ part = "themes" /\ Looks!Next
     /\ UNCHANGED <<part, vars, outputVars, foldingVars, selectionVars, commandsVars, barVars,
                    tabsVars, updateVars>>
  \/ part = "update" /\ Check!Next
     /\ UNCHANGED <<part, vars, outputVars, foldingVars, selectionVars, commandsVars, barVars,
                    tabsVars, themesVars>>

\* They share no state, so TLC checks them side by side: a behaviour exercises one part and
\* leaves the others as they start.  A part that is not exercised is where none of its fair
\* steps is enabled.
AllSpec ==
  /\ AllInit /\ [][AllNext]_allVars
  /\ Fairness /\ Copying!Fairness /\ Check!Fairness

-----------------------------------------------------------------------------
\* The state is of the types that the modules give.  StatusBar: there is one message, which
\* changes of the current tab clear, and which does not stay longer than its time.  Folding:
\* the message of a folded section tells the number of its lines, long output is folded when
\* the code is done, and what the user unfolded stays so.  Tabs: the parts of the window work
\* on the current tab.  UpdateCheck: the user is told of an update only if there is one.
WindowIsRight ==
  /\ Bar!TypeOK /\ Bar!OneMessage /\ Bar!ConnectedToCurrent /\ Bar!GoesAway
  /\ Folds!TypeOK /\ Folds!MessageIsTrue /\ Folds!LongIsFolded /\ Folds!UnfoldedStays
  /\ Notebook!TypeOK /\ Notebook!HelpersAgree
  /\ Check!NoticeIsTrue

\* Tabs: a tab is reopened where it was, as it was, and closing a tab returns to the one
\* that it was opened from.  UpdateCheck: it is the main loop that tells the user, and a bug
\* report says how DreamPie stands.  Output: a result begins on a line of its own.
WindowActsRight ==
  /\ Notebook!ReopenedInPlace /\ Notebook!TemporaryTabReturns
  /\ Check!NoticeInMainLoop /\ Check!ReportIsRight
  /\ Out!ResultOnNewLine

\* Output: the text view shows what the stream says, ends with a newline and has no line
\* that is too long.  Selection: Ctrl-C copies what is selected, or else interrupts, and of
\* what is selected all that is of commands is copied, and nothing else.
TextIsRight ==
  /\ Out!TypeOK /\ Out!EndsWithNewline /\ Out!LinesAreBroken
  /\ part = "output" => Out!ShowsStream
  /\ Copying!CtrlCIsRight /\ Copying!AllCommands

\* Selection: the commands that the selection meets are copied whole, the keys find them, and
\* what is written of a command is recalled.  The text and its selection do not change while
\* they are copied, so what is said of these alone is looked at once.
CommandsAreRight ==
  /\ part = "commands" /\ it = sel_start => Copying!CopiesWhole
  /\ part = "commands" /\ it = 0 /\ sel_end = 1
       => Copying!KeysFindCommands /\ Copying!WrittenIsRecalled

\* Themes: what the dialog shows is what its dictionaries have, the file has the themes
\* that the user made, and every theme has all the elements.
ThemesAreRight == Looks!DialogAgrees /\ Looks!ThemesAreTheUsers /\ Looks!ThemesAreComplete

\* UpdateCheck: the user is told of an update.
UserIsTold == Check!UpdateIsTold

-----------------------------------------------------------------------------
(* ScrollIsRight is inductive as it stands. *)

\* on_changed, called with any value and bottom: if the wish to see the end is not met, a
\* scroll is scheduled afterwards, and it is pending.
LEMMA OnChangedSchedules ==
  ASSUME NEW v \in Nat, NEW b \in Nat, NEW w \in BOOLEAN,
         scheduled \in BOOLEAN, pending \in Nat, ScheduledIsPending, OnChanged(v, b, w)
  PROVE  /\ scheduled' \in BOOLEAN /\ pending' \in Nat
         /\ ScheduledIsPending'
         /\ w /\ v # b => scheduled'
<1>1. CASE w /\ v # b /\ ~scheduled
  <2>1. scheduled' = TRUE
    BY <1>1 DEF OnChanged
  <2>2. pending' = pending + 1
    BY <1>1 DEF OnChanged
  <2>3. pending' \in Nat /\ pending' > 0
    BY <2>2
  <2>4. QED BY <2>1, <2>3 DEF ScheduledIsPending
<1>2. CASE ~(w /\ v # b /\ ~scheduled)
  BY <1>2 DEF OnChanged, ScheduledIsPending
<1>3. QED BY <1>1, <1>2

\* scroll_to_bottom, called from an idle call or directly, leaves nothing to follow.
LEMMA ScrollFollows ==
  ASSUME TypeOK, ScrollToBottom, pending' \in Nat
  PROVE  ScrollIsRight'
<1>1. value \in Nat /\ bottom \in Nat /\ bottom \in Heights /\ lastValue = value
      /\ wants \in BOOLEAN
  BY BoundsAssumption DEF TypeOK, Heights
<1>2. scheduled' = FALSE /\ value' = bottom /\ bottom' = bottom
  BY DEF ScrollToBottom
<1>3. lastValue' = value' /\ wants' \in BOOLEAN
  <2>1. CASE bottom = value
    BY <1>1, <1>2, <2>1 DEF ScrollToBottom
  <2>2. CASE bottom # value
    BY <1>1, <1>2, <2>2 DEF ScrollToBottom, OnValueChanged
  <2>3. QED BY <2>1, <2>2
<1>4. value' \in 0 .. bottom'
  BY <1>1, <1>2
<1>5. QED
  BY <1>1, <1>2, <1>3, <1>4 DEF ScrollIsRight, TypeOK, ScheduledIsPending, WillFollow, Heights

\* Every step keeps it: growth and shrinkage by what on_changed does, a scroll of the user
\* because a move downwards that falls short of the end began short of it.
LEMMA ScrollStep == ScrollIsRight /\ [Next]_vars => ScrollIsRight'
<1> SUFFICES ASSUME ScrollIsRight, [Next]_vars
             PROVE  ScrollIsRight'
  OBVIOUS
<1>1. TypeOK /\ ScheduledIsPending /\ WillFollow
  BY DEF ScrollIsRight
<1>2. /\ bottom \in Nat /\ value \in Nat /\ value <= bottom /\ bottom <= MaxBottom
         /\ MaxBottom \in Nat
      /\ lastValue = value /\ wants \in BOOLEAN /\ scheduled \in BOOLEAN /\ pending \in Nat
  BY <1>1, BoundsAssumption DEF TypeOK, Heights
<1>3. CASE Grow
  <2>1. /\ bottom' \in Nat /\ bottom < bottom' /\ bottom' <= MaxBottom
        /\ value' = value /\ lastValue' = lastValue /\ wants' = wants
        /\ OnChanged(value, bottom', wants)
    BY <1>2, <1>3 DEF Grow
  <2>2. /\ scheduled' \in BOOLEAN /\ pending' \in Nat /\ ScheduledIsPending'
        /\ wants /\ value # bottom' => scheduled'
    BY <1>1, <1>2, <2>1, OnChangedSchedules
  <2>3. QED
    BY <1>2, <2>1, <2>2 DEF ScrollIsRight, TypeOK, WillFollow, Heights
<1>4. CASE Shrink
  <2>1. /\ bottom' \in Nat /\ bottom' < bottom
        /\ value' = IF value > bottom' THEN bottom' ELSE value
        /\ OnChanged(value, bottom', wants) \/ OnChanged(value', bottom', wants')
    BY <1>2, <1>4 DEF Shrink
  <2>2. CASE value > bottom'
    <3>1. value' = bottom' /\ value' # value
      BY <1>2, <2>1, <2>2
    <3>2. OnValueChanged(value', bottom')
      BY <1>4, <3>1 DEF Shrink
    <3>3. lastValue' = value' /\ wants' \in BOOLEAN
      BY <3>2 DEF OnValueChanged
    <3>4. scheduled' \in BOOLEAN /\ pending' \in Nat /\ ScheduledIsPending'
      <4>1. CASE OnChanged(value, bottom', wants)
        BY <1>1, <1>2, <2>1, <4>1, OnChangedSchedules
      <4>2. CASE OnChanged(value', bottom', wants')
        BY <1>1, <1>2, <2>1, <3>1, <3>3, <4>2, OnChangedSchedules
      <4>3. QED BY <2>1, <4>1, <4>2
    <3>5. QED
      BY <1>2, <2>1, <3>1, <3>3, <3>4 DEF ScrollIsRight, TypeOK, WillFollow, Heights
  <2>3. CASE ~(value > bottom')
    <3>1. value' = value /\ value <= bottom'
      BY <1>2, <2>1, <2>3
    <3>2. lastValue' = lastValue /\ wants' = wants
      BY <1>4, <3>1 DEF Shrink
    <3>3. /\ scheduled' \in BOOLEAN /\ pending' \in Nat /\ ScheduledIsPending'
          /\ wants /\ value # bottom' => scheduled'
      BY <1>1, <1>2, <2>1, <3>1, <3>2, OnChangedSchedules
    <3>4. QED
      BY <1>2, <2>1, <3>1, <3>2, <3>3 DEF ScrollIsRight, TypeOK, WillFollow, Heights
  <2>4. QED BY <2>2, <2>3
<1>5. CASE UserScrolls
  <2>1. /\ value' \in Nat /\ value' <= bottom /\ value' # value
        /\ bottom' = bottom /\ scheduled' = scheduled /\ pending' = pending
    BY <1>2, <1>5 DEF UserScrolls
  <2>2. /\ wants' = (value' = bottom \/ (wants /\ value' >= lastValue))
        /\ lastValue' = value'
    BY <1>5 DEF UserScrolls, OnValueChanged
  <2>3. wants' \in BOOLEAN
    BY <2>2
  <2>4. wants' /\ value' # bottom' => scheduled'
    <3>1. SUFFICES ASSUME wants', value' # bottom' PROVE scheduled'
      OBVIOUS
    <3>2. wants /\ value' >= lastValue
      BY <2>1, <2>2, <3>1
    <3>3. value # bottom
      BY <1>2, <2>1, <3>1, <3>2
    <3>4. QED BY <1>1, <2>1, <3>2, <3>3 DEF WillFollow
  <2>5. QED
    BY <1>1, <1>2, <2>1, <2>2, <2>3, <2>4
       DEF ScrollIsRight, TypeOK, WillFollow, ScheduledIsPending, Heights
<1>6. CASE ScrollNow
  BY <1>1, <1>2, <1>6, ScrollFollows DEF ScrollNow
<1>7. CASE ScrollWhenIdle
  <2>1. ScrollToBottom /\ pending' \in Nat
    BY <1>2, <1>7 DEF ScrollWhenIdle
  <2>2. QED BY <1>1, <2>1, ScrollFollows
<1>8. CASE UNCHANGED vars
  BY <1>1, <1>8 DEF vars, ScrollIsRight, TypeOK, ScheduledIsPending, WillFollow
<1>9. QED BY <1>3, <1>4, <1>5, <1>6, <1>7, <1>8 DEF Next

\* vadj_to_bottom.py, for every height of the text and any number of idle calls: a user who
\* wants to see the end and does not has a scroll scheduled, and what is scheduled is pending.
THEOREM ScrollRight == Spec => []ScrollIsRight
<1>1. Init => ScrollIsRight
  <2>1. SUFFICES ASSUME Init PROVE ScrollIsRight
    OBVIOUS
  <2>2. /\ value = 0 /\ bottom = 0 /\ lastValue = 0 /\ wants = TRUE /\ scheduled = FALSE
        /\ pending = 0 /\ MaxBottom \in Nat
    BY <2>1, BoundsAssumption DEF Init
  <2>3. bottom \in Heights /\ value \in 0 .. bottom
    BY <2>2 DEF Heights
  <2>4. wants \in BOOLEAN /\ scheduled \in BOOLEAN
    BY <2>2
  <2>5. TypeOK
    BY <2>2, <2>3, <2>4 DEF TypeOK
  <2>6. QED BY <2>2, <2>5 DEF ScrollIsRight, ScheduledIsPending, WillFollow
<1>2. QED BY <1>1, ScrollStep, PTL DEF Spec

-----------------------------------------------------------------------------
\* What a step may read.
BarIInv == Bar!TypeOK /\ Bar!OneMessage /\ Bar!ConnectedToCurrent /\ Bar!GoesAway

\* The invariant when the window opens.
LEMMA BarInit == ASSUME Bar!ConstantsFit, Bar!Init PROVE BarIInv
BY DEF Bar!ConstantsFit, Bar!Init, BarIInv, Bar!TypeOK, Bar!OneMessage, Bar!ConnectedToCurrent,
       Bar!GoesAway

\* No step of the status bar breaks it.
LEMMA BarStep == ASSUME Bar!ConstantsFit, BarIInv, [Bar!Next]_Bar!vars PROVE BarIInv'
<1> USE DEF BarIInv, Bar!TypeOK, Bar!OneMessage, Bar!ConnectedToCurrent, Bar!GoesAway,
    Bar!ConstantsFit
<1>1. CASE Bar!SetStatus
  BY <1>1 DEF Bar!SetStatus
<1>2. CASE Bar!ContentsChanged
  BY <1>2 DEF Bar!ContentsChanged, Bar!ClearStatus
<1>3. CASE \E b \in Buffers : Bar!OnSvChanged(b)
  BY <1>3 DEF Bar!OnSvChanged, Bar!ClearIfShown, Bar!ClearStatus
<1>4. CASE Bar!OnTimeout
  BY <1>4 DEF Bar!OnTimeout, Bar!ClearIfShown, Bar!ClearStatus
<1>5. CASE Bar!Second
  BY <1>5 DEF Bar!Second
<1>6. CASE UNCHANGED Bar!vars
  BY <1>6 DEF Bar!vars
<1> QED BY <1>1, <1>2, <1>3, <1>4, <1>5, <1>6 DEF Bar!Next

\* There is one message at a time, only the current buffer can clear it, and it is cleared
\* when its time is over, however many messages are set and buffers switched meanwhile.
THEOREM MessagesGoAway ==
  Bar!Spec => [](Bar!TypeOK /\ Bar!OneMessage /\ Bar!ConnectedToCurrent /\ Bar!GoesAway)
<1>1. Bar!Init => BarIInv
  BY BarInit, BarAssumption
<1>2. BarIInv /\ [Bar!Next]_Bar!vars => BarIInv'
  BY BarStep, BarAssumption
<1>3. BarIInv => Bar!TypeOK /\ Bar!OneMessage /\ Bar!ConnectedToCurrent /\ Bar!GoesAway
  BY DEF BarIInv
<1> QED BY <1>1, <1>2, <1>3, PTL DEF Bar!Spec

-----------------------------------------------------------------------------
\* What a section is.
Sections ==
  [typ : {"output", "command"}, lines : 0 .. SectionLines, typed : 0 .. SectionLines,
   folded : BOOLEAN, told : 0 .. SectionLines]

IsSection(s) == s \in Sections /\ s.typed <= s.lines

\* The message of a section tells what is hidden, or it is one of the folded ones in w.
Told(s, i, w) == (i \in w /\ s.folded) \/ (i \notin w
    /\ s.told = IF s.folded THEN s.lines - 1 ELSE 0)

\* The message of a section tells what is hidden, wherever it is.
IsTold(s) == s.told = IF s.folded THEN s.lines - 1 ELSE 0

\* What is said of the section i with the marks l and u; the first, of a long one.
Long(s, i, u) == s.typ = "output" /\ s.lines >= NumLines => s.folded \/ i \in u
Marked(s, i, l, u) == (i \in u => ~s.folded) /\ (i = l => s.folded \/ i \in u)

\* The mark is at the last section that the user unfolded, or at one that is folded.
FoldsIInv ==
  /\ executing \in BOOLEAN
  /\ sections \in Seq(Sections) /\ Len(sections) > 0
  /\ \A i \in 1 .. Len(sections) :
       /\ IsSection(sections[i]) /\ Told(sections[i], i, stale)
       /\ Long(sections[i], i, userUnfolded)
       /\ Marked(sections[i], i, lastUnfolded, userUnfolded)
  /\ lastUnfolded \in 0 .. Len(sections) /\ userUnfolded \subseteq 1 .. lastUnfolded
  /\ stale \subseteq 1 .. Len(sections)

\* A new section is as it should be, whatever the marks above it.
LEMMA NewSection ==
  ASSUME Folds!ConstantsFit, NEW typ \in {"output", "command"}, NEW n \in 0 .. SectionLines,
         typ = "output" => n = 0
  PROVE  /\ IsSection(Folds!Section(typ, n)) /\ IsTold(Folds!Section(typ, n))
         /\ \A i, l, u : i # l /\ ~(i \in u) =>
              Long(Folds!Section(typ, n), i, u) /\ Marked(Folds!Section(typ, n), i, l, u)
BY DEF Folds!ConstantsFit, IsSection, Sections, IsTold, Long, Marked, Folds!Section

\* The only section of a window that is new, or whose history was discarded.
LEMMA FirstSection ==
  ASSUME Folds!ConstantsFit, NEW ss, ss = << Folds!Section("output", 0) >>
  PROVE  /\ ss \in Seq(Sections) /\ Len(ss) = 1
         /\ IsSection(ss[1]) /\ Told(ss[1], 1, {}) /\ Long(ss[1], 1, {}) /\ Marked(ss[1], 1, 0, {})
<1> DEFINE o == Folds!Section("output", 0)
<1>1. IsSection(o) /\ Told(o, 1, {}) /\ Long(o, 1, {}) /\ Marked(o, 1, 0, {})
  <2>1. /\ IsSection(o) /\ IsTold(o)
        /\ \A i, l, u : i # l /\ ~(i \in u) => Long(o, i, u) /\ Marked(o, i, l, u)
    BY NewSection DEF Folds!ConstantsFit
  <2> HIDE DEF o
  <2> QED
    BY <2>1 DEF Told, IsTold
<1>2. o \in Sections
  BY <1>1 DEF IsSection
<1>3. ss = <<o>>
  OBVIOUS
<1> HIDE DEF o
<1>4. ss \in Seq(Sections) /\ Len(ss) = 1 /\ ss[1] = o
  BY <1>2, <1>3
<1> QED
  BY <1>1, <1>4

\* The invariant of a new window.
LEMMA FoldsInit == ASSUME Folds!ConstantsFit, Folds!Init PROVE FoldsIInv
<1>1. sections = << Folds!Section("output", 0) >> /\ lastUnfolded = 0 /\ executing = FALSE
      /\ userUnfolded = {} /\ stale = {}
  BY DEF Folds!Init
<1>2. /\ sections \in Seq(Sections) /\ Len(sections) = 1 /\ IsSection(sections[1])
      /\ Told(sections[1], 1, {})
      /\ Long(sections[1], 1, {}) /\ Marked(sections[1], 1, 0, {})
  BY <1>1, FirstSection
<1>3. \A i \in 1 .. Len(sections) : i = 1
  BY <1>2
<1>4. Len(sections) > 0 /\ 0 \in 0 .. Len(sections)
  BY <1>2
<1> QED
  BY <1>1, <1>2, <1>3, <1>4 DEF FoldsIInv

\* What folding and unfolding make of a section.
LEMMA FoldedSection ==
  ASSUME Folds!ConstantsFit, NEW s, IsSection(s), s.lines > 0
  PROVE  /\ IsSection(Folds!Fold(s)) /\ IsTold(Folds!Fold(s)) /\ Folds!Fold(s).folded
         /\ IsSection(Folds!Unfold(s)) /\ IsTold(Folds!Unfold(s)) /\ ~Folds!Unfold(s).folded
         /\ Folds!Unfold(s).typ = s.typ /\ Folds!Unfold(s).lines = s.lines
<1>1. s \in [typ : {"output", "command"}, lines : 0 .. SectionLines, typed : 0 .. SectionLines,
             folded : BOOLEAN, told : 0 .. SectionLines]
  BY DEF IsSection, Sections
<1>2. Folds!Fold(s) \in [typ : {s.typ}, lines : {s.lines}, typed : {s.typed},
                        folded : {TRUE}, told : {s.lines - 1}]
  BY <1>1 DEF Folds!Fold
<1>3. Folds!Unfold(s) \in [typ : {s.typ}, lines : {s.lines}, typed : {s.typed},
                          folded : {FALSE}, told : {0}]
  BY <1>1 DEF Folds!Unfold
<1>4. s.lines - 1 \in 0 .. SectionLines /\ 0 \in 0 .. SectionLines /\ s.typed <= s.lines
  BY <1>1 DEF Folds!ConstantsFit, IsSection
<1>5. IsSection(Folds!Fold(s)) /\ IsTold(Folds!Fold(s)) /\ Folds!Fold(s).folded
  BY <1>1, <1>2, <1>4 DEF IsSection, Sections, IsTold
<1> QED
  BY <1>1, <1>3, <1>4, <1>5 DEF IsSection, Sections, IsTold

\* What autofold is given: the section i may be long, and its message old.
Written(ss, i) ==
  /\ ss \in Seq(Sections) /\ i \in 1 .. Len(ss)
  /\ \A j \in 1 .. Len(ss) :
       /\ IsSection(ss[j]) /\ Marked(ss[j], j, lastUnfolded, userUnfolded)
       /\ j # i => Told(ss[j], j, stale) /\ Long(ss[j], j, userUnfolded)
  /\ ss[i].lines > 0 /\ (ss[i].folded \/ ss[i].told = 0)
  /\ lastUnfolded \in 0 .. i /\ userUnfolded \subseteq 1 .. lastUnfolded
  /\ stale \subseteq 1 .. Len(ss)

\* Autofolding what was written restores what is said of all sections.
LEMMA AutofoldKeeps ==
  ASSUME Folds!ConstantsFit, NEW ss, NEW i, Written(ss, i),
         Folds!Autofold(ss, i), executing' \in BOOLEAN, UNCHANGED userUnfolded,
         stale' = stale \ {i}
  PROVE  FoldsIInv'
<1>1. PICK s :
       /\ sections' = [ss EXCEPT ![i] = s]
       /\ \/ /\ s = Folds!Fold(Folds!Unfold(ss[i])) /\ ss[i].folded
             /\ lastUnfolded' = Folds!MarkAfterUnfold(i)
          \/ /\ s = Folds!Fold(ss[i]) /\ ~ss[i].folded /\ i # lastUnfolded /\ UNCHANGED lastUnfolded
          \/ /\ s = ss[i] /\ ~ss[i].folded /\ (i = lastUnfolded \/ ss[i].lines < NumLines)
             /\ UNCHANGED lastUnfolded
  BY DEF Folds!Autofold, Written
<1>2. /\ IsSection(ss[i]) /\ i \in 1 .. Len(ss) /\ lastUnfolded \in 0 .. i
      /\ Marked(ss[i], i, lastUnfolded, userUnfolded) /\ userUnfolded \subseteq 1 .. lastUnfolded
      /\ ss[i].lines > 0 /\ (ss[i].folded \/ ss[i].told = 0) /\ Len(ss) \in Nat
  BY DEF Written
<1>3. /\ IsSection(s) /\ IsTold(s) /\ (s = ss[i] \/ s.folded)
      /\ s.folded \/ i = lastUnfolded \/ s.lines < NumLines
  BY <1>1, <1>2, FoldedSection DEF IsTold
<1>4. /\ lastUnfolded' \in {lastUnfolded, i} /\ lastUnfolded' >= lastUnfolded
      /\ lastUnfolded' # lastUnfolded => lastUnfolded' = i
      /\ lastUnfolded' \in 0 .. i
  BY <1>1, <1>2 DEF Folds!MarkAfterUnfold
<1>5. i \notin userUnfolded \/ (~ss[i].folded /\ s = ss[i])
  BY <1>1, <1>2 DEF Marked
<1>6. Marked(s, i, lastUnfolded', userUnfolded) /\ Long(s, i, userUnfolded)
  <2>1. s.folded => i \notin userUnfolded
    BY <1>2, <1>3, <1>5 DEF Marked
  <2>2. i = lastUnfolded' => s.folded \/ i \in userUnfolded
    BY <1>1, <1>2, <1>3 DEF Marked
  <2>3. s.folded \/ i \in userUnfolded \/ s.lines < NumLines
    BY <1>2, <1>3 DEF Marked
  <2>4. s.lines \in Nat /\ NumLines \in Nat
    BY <1>3 DEF IsSection, Sections, Folds!ConstantsFit
  <2>5. s.lines < NumLines => ~(s.lines >= NumLines)
    BY <2>4
  <2> QED
    BY <2>1, <2>2, <2>3, <2>5 DEF Marked, Long
<1>7. /\ sections' \in Seq(Sections) /\ Len(sections') = Len(ss) /\ sections'[i] = s
      /\ \A j \in 1 .. Len(ss) : j # i => sections'[j] = ss[j]
  BY <1>1, <1>2, <1>3 DEF Written, IsSection
<1>8. \A j \in 1 .. Len(ss) : j # i => Marked(ss[j], j, lastUnfolded', userUnfolded)
  BY <1>4 DEF Written, Marked
<1>9. /\ Told(s, i, stale') /\ stale' \subseteq 1 .. Len(ss)
      /\ \A j \in 1 .. Len(ss) : j # i => Told(ss[j], j, stale')
  BY <1>3 DEF Written, Told, IsTold
<1>10. \A j \in 1 .. Len(ss) :
         /\ IsSection(sections'[j]) /\ Told(sections'[j], j, stale')
         /\ Long(sections'[j], j, userUnfolded')
         /\ Marked(sections'[j], j, lastUnfolded', userUnfolded')
  BY <1>3, <1>6, <1>7, <1>8, <1>9 DEF Written
<1>11. /\ Len(sections') \in Nat /\ Len(sections') > 0 /\ i \in 1 .. Len(sections')
       /\ lastUnfolded' \in 0 .. Len(sections') /\ userUnfolded' \subseteq 1 .. lastUnfolded'
       /\ stale' \subseteq 1 .. Len(sections')
  BY <1>2, <1>4, <1>7, <1>9
<1>12. \A j \in 1 .. Len(sections') :
         /\ IsSection(sections'[j]) /\ Told(sections'[j], j, stale')
         /\ Long(sections'[j], j, userUnfolded')
         /\ Marked(sections'[j], j, lastUnfolded', userUnfolded')
  BY <1>7, <1>10
<1> QED
  BY <1>7, <1>11, <1>12 DEF FoldsIInv

\* Folding or unfolding one section.
LEMMA FoldOne ==
  ASSUME Folds!ConstantsFit, FoldsIInv, NEW i \in 1 .. Len(sections), sections[i].lines > 0,
         Folds!FoldSection(i) \/ Folds!UnfoldSection(i), ~sections[i].folded
             => sections[i].lines > 1
  PROVE  FoldsIInv'
<1>1. /\ IsSection(sections[i]) /\ sections \in Seq(Sections) /\ Len(sections) > 0
      /\ lastUnfolded \in 0 .. Len(sections) /\ userUnfolded \subseteq 1 .. lastUnfolded
      /\ executing \in BOOLEAN
      /\ Marked(sections[i], i, lastUnfolded, userUnfolded)
  BY DEF FoldsIInv
<1>2. PICK s :
       /\ sections' = [sections EXCEPT ![i] = s] /\ UNCHANGED executing
       /\ \/ /\ s = Folds!Fold(sections[i]) /\ UNCHANGED lastUnfolded
             /\ userUnfolded' = userUnfolded \ {i}
          \/ /\ s = Folds!Unfold(sections[i]) /\ lastUnfolded' = Folds!MarkAfterUnfold(i)
             /\ userUnfolded' = userUnfolded \cup {i}
  BY DEF Folds!FoldSection, Folds!UnfoldSection
<1>3. IsSection(s) /\ IsTold(s) /\ (s.folded <=> userUnfolded' = userUnfolded \ {i})
  BY <1>1, <1>2, FoldedSection
<1>4. /\ lastUnfolded' \in {lastUnfolded, i} /\ lastUnfolded' >= lastUnfolded
      /\ lastUnfolded' \in 0 .. Len(sections)
      /\ userUnfolded' \subseteq 1 .. lastUnfolded'
      /\ lastUnfolded' # lastUnfolded => lastUnfolded' = i
  <2>1. lastUnfolded' = lastUnfolded \/ lastUnfolded' = IF i > lastUnfolded THEN i ELSE lastUnfolded
    BY <1>2 DEF Folds!MarkAfterUnfold
  <2>2. /\ lastUnfolded' \in {lastUnfolded, i} /\ lastUnfolded' >= lastUnfolded
        /\ lastUnfolded' # lastUnfolded => lastUnfolded' = i
        /\ lastUnfolded' = lastUnfolded \/ lastUnfolded' >= i
    BY <1>1, <2>1
  <2>3. i \in userUnfolded' => i \in userUnfolded \/ lastUnfolded' >= i
    BY <1>1, <1>2 DEF Folds!MarkAfterUnfold
  <2>4. userUnfolded' \subseteq userUnfolded \cup {i}
    BY <1>2
  <2>5. \A j \in userUnfolded' : j \in 1 .. lastUnfolded'
    BY <1>1, <2>2, <2>3, <2>4
  <2> QED
    BY <1>1, <2>2, <2>5
<1>5. Marked(s, i, lastUnfolded', userUnfolded') /\ Long(s, i, userUnfolded')
  BY <1>1, <1>2, <1>3, FoldedSection DEF Marked, Long
<1>6. /\ sections' \in Seq(Sections) /\ Len(sections') = Len(sections) /\ sections'[i] = s
      /\ \A j \in 1 .. Len(sections) : j # i => sections'[j] = sections[j]
  BY <1>1, <1>2, <1>3 DEF IsSection
<1>7. \A j \in 1 .. Len(sections) : j # i =>
        /\ Marked(sections[j], j, lastUnfolded', userUnfolded')
        /\ Long(sections[j], j, userUnfolded')
  BY <1>2, <1>4 DEF FoldsIInv, Marked, Long
<1>8. /\ Told(s, i, stale') /\ stale' \subseteq 1 .. Len(sections)
      /\ \A j \in 1 .. Len(sections) : j # i => Told(sections[j], j, stale')
  <2>1. stale' = stale \ {i}
    BY DEF Folds!FoldSection, Folds!UnfoldSection
  <2> QED
    BY <1>3, <2>1 DEF FoldsIInv, Told, IsTold
<1> QED
  BY <1>1, <1>2, <1>3, <1>4, <1>5, <1>6, <1>7, <1>8 DEF FoldsIInv

\* Code, output and input are written into the sections there are, or into new ones.
LEMMA FoldsExecute == ASSUME Folds!ConstantsFit, FoldsIInv, Folds!Execute PROVE FoldsIInv'
<1>1. PICK n \in 1 .. SectionLines :
        sections' = sections \o << Folds!Section("command", n), Folds!Section("output", 0) >>
  BY DEF Folds!Execute
<1>2. /\ executing' = TRUE /\ UNCHANGED <<lastUnfolded, userUnfolded, stale>>
  BY DEF Folds!Execute
<1>3. /\ sections \in Seq(Sections) /\ Len(sections) > 0
      /\ lastUnfolded \in 0 .. Len(sections) /\ userUnfolded \subseteq 1 .. lastUnfolded
      /\ stale \subseteq 1 .. Len(sections)
  BY DEF FoldsIInv
<1> DEFINE l == Len(sections)
           c == Folds!Section("command", n)
           o == Folds!Section("output", 0)
<1>4. /\ IsSection(c) /\ Told(c, l + 1, stale) /\ Long(c, l + 1, userUnfolded)
      /\ Marked(c, l + 1, lastUnfolded, userUnfolded)
      /\ IsSection(o) /\ Told(o, l + 2, stale) /\ Long(o, l + 2, userUnfolded)
      /\ Marked(o, l + 2, lastUnfolded, userUnfolded)
  <2>1. n \in 0 .. SectionLines /\ 0 \in 0 .. SectionLines
    BY DEF Folds!ConstantsFit
  <2>2. \A i \in {l + 1, l + 2} : i # lastUnfolded /\ i \notin userUnfolded /\ i \notin stale
    BY <1>3
  <2>3. /\ IsSection(c) /\ IsTold(c)
        /\ \A i, k, u : i # k /\ ~(i \in u) => Long(c, i, u) /\ Marked(c, i, k, u)
    BY <2>1, NewSection
  <2>4. /\ IsSection(o) /\ IsTold(o)
        /\ \A i, k, u : i # k /\ ~(i \in u) => Long(o, i, u) /\ Marked(o, i, k, u)
    BY <2>1, NewSection
  <2> HIDE DEF c, o
  <2> QED
    BY <2>2, <2>3, <2>4 DEF Told, IsTold
<1>5. c \in Sections /\ o \in Sections
  BY <1>4 DEF IsSection
<1> HIDE DEF c, o
<1>6. /\ sections' \in Seq(Sections) /\ Len(sections') = l + 2
      /\ \A i \in 1 .. l : sections'[i] = sections[i]
      /\ sections'[l + 1] = c /\ sections'[l + 2] = o
  <2>1. sections' = sections \o <<c, o>>
    BY <1>1 DEF c, o
  <2> QED BY <2>1, <1>3, <1>5
<1>7. \A i \in 1 .. l + 2 : i \in 1 .. l \/ i = l + 1 \/ i = l + 2
  BY <1>3
<1>8. \A i \in 1 .. l + 2 :
        /\ IsSection(sections'[i]) /\ Told(sections'[i], i, stale)
        /\ Long(sections'[i], i, userUnfolded)
        /\ Marked(sections'[i], i, lastUnfolded, userUnfolded)
  BY <1>4, <1>6, <1>7 DEF FoldsIInv
<1>9. stale' \subseteq 1 .. Len(sections') /\ lastUnfolded' \in 0 .. Len(sections')
  BY <1>2, <1>3, <1>6
<1> QED
  BY <1>2, <1>3, <1>6, <1>8, <1>9 DEF FoldsIInv

\* Output grows in the last section.
LEMMA FoldsWriteOutput == ASSUME Folds!ConstantsFit, FoldsIInv, Folds!WriteOutput PROVE FoldsIInv'
<1> DEFINE i == Len(sections)
<1>1. PICK n \in 0 .. SectionLines - sections[i].lines :
        sections[i].lines + n > 0 /\ Folds!Autofold([sections EXCEPT ![i].lines = @ + n], i)
  BY DEF Folds!WriteOutput
<1> DEFINE ss == [sections EXCEPT ![i].lines = @ + n]
<1>2. executing' \in BOOLEAN /\ UNCHANGED userUnfolded /\ stale' = stale \ {i}
  BY DEF Folds!WriteOutput, FoldsIInv
<1>3. sections \in Seq(Sections) /\ i \in 1 .. Len(sections)
  BY DEF FoldsIInv
<1>4. /\ IsSection(sections[i]) /\ Told(sections[i], i, stale) /\ stale \subseteq 1 .. i
      /\ Marked(sections[i], i, lastUnfolded, userUnfolded)
  BY <1>3 DEF FoldsIInv
<1>5. ss[i] \in
        [typ : {sections[i].typ}, lines : {sections[i].lines + n}, typed : {sections[i].typed},
         folded : {sections[i].folded}, told : {sections[i].told}]
  BY <1>3, <1>4 DEF IsSection, Sections
<1>6. IsSection(ss[i]) /\ ss[i].lines > 0 /\ (ss[i].folded \/ ss[i].told = 0)
      /\ Marked(ss[i], i, lastUnfolded, userUnfolded)
  BY <1>1, <1>4, <1>5 DEF IsSection, Sections, Told, Marked, Folds!ConstantsFit
<1>7. ss \in Seq(Sections) /\ Len(ss) = Len(sections)
      /\ \A j \in 1 .. Len(sections) : j # i => ss[j] = sections[j]
  BY <1>3, <1>6 DEF IsSection
<1>8. Written(ss, i)
  <2> HIDE DEF ss
  <2> QED
    BY <1>3, <1>6, <1>7 DEF Written, FoldsIInv
<1>9. Folds!Autofold(ss, i)
  BY <1>1
<1> HIDE DEF ss, i
<1> QED
  BY <1>2, <1>8, <1>9, AutofoldKeeps

\* Input ends the last section, and a new one begins.
LEMMA FoldsSendStdin == ASSUME Folds!ConstantsFit, FoldsIInv, Folds!SendStdin PROVE FoldsIInv'
<1> DEFINE i == Len(sections)
<1>1. PICK n \in 1 .. SectionLines - sections[i].lines :
        Folds!Autofold(Append([sections EXCEPT ![i] = [sections[i] EXCEPT !.lines = @ + n,
            !.typed = n]],
                              Folds!Section("output", 0)), i)
  BY DEF Folds!SendStdin
<1> DEFINE t == [sections[i] EXCEPT !.lines = @ + n, !.typed = n]
           tt == [sections EXCEPT ![i] = t]
           o == Folds!Section("output", 0)
           ss == Append(tt, o)
<1>2. executing' \in BOOLEAN /\ UNCHANGED userUnfolded /\ stale' = stale \ {i}
  BY DEF Folds!SendStdin, FoldsIInv
<1>3. sections \in Seq(Sections) /\ i \in 1 .. Len(sections)
  BY DEF FoldsIInv
<1>4. /\ IsSection(sections[i]) /\ Told(sections[i], i, stale) /\ stale \subseteq 1 .. i
      /\ Marked(sections[i], i, lastUnfolded, userUnfolded)
  BY <1>3 DEF FoldsIInv
<1>5. t \in
        [typ : {sections[i].typ}, lines : {sections[i].lines + n}, typed : {n},
         folded : {sections[i].folded}, told : {sections[i].told}]
  BY <1>3, <1>4 DEF IsSection, Sections
<1>6. IsSection(t) /\ t.lines > 0 /\ (t.folded \/ t.told = 0)
      /\ Marked(t, i, lastUnfolded, userUnfolded)
  BY <1>1, <1>4, <1>5 DEF IsSection, Sections, Told, Marked, Folds!ConstantsFit
<1> HIDE DEF t
<1>7. tt[i] = t /\ tt \in Seq(Sections) /\ Len(tt) = Len(sections)
      /\ \A j \in 1 .. Len(sections) : j # i => tt[j] = sections[j]
  BY <1>3, <1>6 DEF IsSection
<1>8. /\ IsSection(o) /\ Told(o, i + 1, stale) /\ Long(o, i + 1, userUnfolded)
      /\ Marked(o, i + 1, lastUnfolded, userUnfolded)
  <2>1. i + 1 # lastUnfolded /\ i + 1 \notin userUnfolded /\ i + 1 \notin stale
    BY <1>3 DEF FoldsIInv
  <2>2. /\ IsSection(o) /\ IsTold(o)
        /\ \A j, k, u : j # k /\ ~(j \in u) => Long(o, j, u) /\ Marked(o, j, k, u)
    BY NewSection DEF Folds!ConstantsFit
  <2> HIDE DEF o
  <2> QED
    BY <2>1, <2>2 DEF Told, IsTold
<1> HIDE DEF tt, o
<1>9. /\ ss \in Seq(Sections) /\ Len(ss) = i + 1 /\ ss[i] = tt[i] /\ ss[i + 1] = o
      /\ \A j \in 1 .. i + 1 : j # i => j = i + 1 \/ (j \in 1 .. i /\ ss[j] = sections[j])
  BY <1>3, <1>7, <1>8 DEF IsSection
<1>10. Written(ss, i)
  <2> HIDE DEF ss
  <2> QED
    BY <1>3, <1>6, <1>7, <1>8, <1>9 DEF Written, FoldsIInv
<1>11. Folds!Autofold(ss, i)
  BY <1>1 DEF t, tt, o
<1> HIDE DEF ss, i
<1> QED
  BY <1>2, <1>10, <1>11, AutofoldKeeps

\* Input that comes back is taken from several sections at once.
LEMMA FoldsFinish == ASSUME Folds!ConstantsFit, FoldsIInv, Folds!Finish PROVE FoldsIInv'
<1>1. PICK taken \in Folds!TakenBack :
       /\ sections' = [i \in DOMAIN sections |->
                         [sections[i] EXCEPT !.lines = @ - taken[i], !.typed = @ - taken[i]]]
       /\ stale' = stale \cup {i \in DOMAIN sections : sections[i].folded /\ taken[i] > 0}
  BY DEF Folds!Finish
<1>2. executing' = FALSE /\ UNCHANGED <<lastUnfolded, userUnfolded>>
  BY DEF Folds!Finish
<1>3. sections \in Seq(Sections) /\ Len(sections) > 0 /\ DOMAIN sections = 1 .. Len(sections)
  BY DEF FoldsIInv
<1>5. ASSUME NEW i \in 1 .. Len(sections)
      PROVE  /\ IsSection(sections'[i]) /\ Told(sections'[i], i, stale')
             /\ Long(sections'[i], i, userUnfolded)
             /\ Marked(sections'[i], i, lastUnfolded, userUnfolded)
  <2>1. /\ IsSection(sections[i]) /\ Told(sections[i], i, stale)
        /\ Long(sections[i], i, userUnfolded)
        /\ Marked(sections[i], i, lastUnfolded, userUnfolded)
    BY DEF FoldsIInv
  <2>2. taken[i] \in 0 .. sections[i].typed
    BY <1>3 DEF Folds!TakenBack, IsSection
  <2>3. sections'[i] \in
         [typ : {sections[i].typ}, lines : {sections[i].lines - taken[i]},
          typed : {sections[i].typed - taken[i]}, folded : {sections[i].folded},
              told : {sections[i].told}]
    BY <1>1, <1>3, <2>1 DEF IsSection, Sections
  <2> QED
    <3>1. /\ sections[i].lines \in 0 .. SectionLines /\ sections[i].typed \in 0 .. SectionLines
          /\ sections[i].typed <= sections[i].lines
      BY <2>1 DEF IsSection, Sections
    <3>2. /\ sections[i].lines - taken[i] \in 0 .. sections[i].lines
          /\ sections[i].typed - taken[i] \in 0 .. sections[i].lines - taken[i]
      BY <2>2, <3>1
    <3>3. IsSection(sections'[i])
      BY <2>1, <2>3, <3>1, <3>2 DEF IsSection, Sections, Folds!ConstantsFit
    <3>4. Told(sections'[i], i, stale')
      <4>1. i \in stale' <=> i \in stale \/ (sections[i].folded /\ taken[i] > 0)
        BY <1>1, <1>3
      <4>2. sections'[i].folded = sections[i].folded /\ sections'[i].told = sections[i].told
        BY <2>3
      <4>3. ~(taken[i] > 0) => sections'[i].lines = sections[i].lines
        BY <2>2, <2>3, <3>1
      <4> QED
        BY <2>1, <4>1, <4>2, <4>3 DEF Told
    <3>5. Long(sections'[i], i, userUnfolded)
      BY <2>1, <2>3, <3>1, <3>2 DEF Long, Folds!ConstantsFit
    <3>6. Marked(sections'[i], i, lastUnfolded, userUnfolded)
      BY <2>1, <2>3 DEF Marked
    <3> QED
      BY <3>3, <3>4, <3>5, <3>6
<1>6. sections' \in Seq(Sections) /\ Len(sections') = Len(sections)
  <2>1. sections' = [i \in 1 .. Len(sections) |-> sections'[i]]
    BY <1>1, <1>3
  <2>2. \A i \in 1 .. Len(sections) : sections'[i] \in Sections
    BY <1>5 DEF IsSection
  <2> QED
    BY <1>3, <2>1, <2>2
<1>7. stale' \subseteq 1 .. Len(sections)
  BY <1>1, <1>3 DEF FoldsIInv
<1> QED
  BY <1>2, <1>3, <1>5, <1>6, <1>7 DEF FoldsIInv

\* No step breaks the invariant.
LEMMA FoldsStep == ASSUME Folds!ConstantsFit, FoldsIInv, [Folds!Next]_Folds!vars PROVE FoldsIInv'
<1>0. DOMAIN sections = 1 .. Len(sections)
      /\ \A i \in 1 .. Len(sections) : sections[i].lines \in Nat
  BY DEF FoldsIInv, IsSection, Sections
<1>1. CASE Folds!ClickSection
  BY <1>0, <1>1, FoldOne DEF Folds!ClickSection, Folds!Foldable, Folds!Folded
<1>2. CASE Folds!FoldLast
  BY <1>0, <1>2, FoldOne DEF Folds!FoldLast, Folds!IsLast, Folds!Foldable
<1>3. CASE Folds!UnfoldLast
  BY <1>0, <1>3, FoldOne DEF Folds!UnfoldLast, Folds!IsLast, Folds!Folded
<1>4. CASE Folds!Discard
  BY <1>4, FirstSection DEF Folds!Discard, FoldsIInv
<1>5. CASE UNCHANGED Folds!vars
  BY <1>5 DEF Folds!vars, FoldsIInv
<1> QED
  BY <1>1, <1>2, <1>3, <1>4, <1>5, FoldsExecute, FoldsWriteOutput, FoldsSendStdin, FoldsFinish
     DEF Folds!Next

\* Output that is long is folded unless the user unfolded it, the program never folds what the
\* user unfolded, and a message tells the number of the lines hidden, unless input that was
\* not read was taken from under it.
THEOREM FoldsRight ==
  Folds!Spec =>
    [](Folds!TypeOK /\ Folds!LongIsFolded /\ Folds!UnfoldedStays /\ Folds!MessageIsTrue)
<1>1. Folds!Init => FoldsIInv
  BY FoldsInit, FoldsAssumption
<1>2. FoldsIInv /\ [Folds!Next]_Folds!vars => FoldsIInv'
  BY FoldsStep, FoldsAssumption
<1>3. FoldsIInv => Folds!TypeOK
  BY DEF FoldsIInv, Sections, Folds!TypeOK
<1>4. FoldsIInv => Folds!LongIsFolded /\ Folds!UnfoldedStays /\ Folds!MessageIsTrue
  BY DEF FoldsIInv, Folds!LongIsFolded, Folds!UnfoldedStays, Folds!MessageIsTrue, Long, Marked, Told
<1> QED
  BY <1>1, <1>2, <1>3, <1>4, PTL DEF Folds!Spec

-----------------------------------------------------------------------------
\* The sequence t is s with e inserted at i.
Inserted(t, s, i, e) ==
  /\ Len(t) = Len(s) + 1
  /\ \A j \in 1 .. Len(s) + 1 : t[j] = IF j < i THEN s[j] ELSE IF j = i THEN e ELSE s[j - 1]

\* Inserting a page moves those from its place on.
LEMMA InsertAtMoves ==
  ASSUME NEW S, NEW s \in Seq(S), NEW i \in 1 .. Len(s) + 1, NEW e \in S
  PROVE  Notebook!InsertAt(s, i, e) \in Seq(S) /\ Inserted(Notebook!InsertAt(s, i, e), s, i, e)
<1> DEFINE a == SubSeq(s, 1, i - 1)
           b == SubSeq(s, i, Len(s))
<1>1. a \in Seq(S) /\ Len(a) = i - 1 /\ \A j \in 1 .. i - 1 : a[j] = s[j]
  OBVIOUS
<1>2. b \in Seq(S) /\ Len(b) = Len(s) - i + 1 /\ \A j \in 1 .. Len(s) - i + 1 : b[j] = s[i + j - 1]
  OBVIOUS
<1> HIDE DEF a, b
<1>3. /\ a \o <<e>> \in Seq(S) /\ Len(a \o <<e>>) = i
      /\ \A j \in 1 .. i : (a \o <<e>>)[j] = IF j < i THEN s[j] ELSE e
  BY <1>1
<1> DEFINE c == a \o <<e>>
<1> HIDE DEF c
<1>4. c \in Seq(S) /\ Len(c) = i /\ \A j \in 1 .. i : c[j] = IF j < i THEN s[j] ELSE e
  BY <1>3 DEF c
<1>0. c \in Seq(S) /\ b \in Seq(S) /\ Len(c) = i /\ Len(b) = Len(s) - i + 1 /\ i \in Nat
      /\ Len(s) \in Nat
  BY <1>2, <1>4
<1>5. c \o b \in Seq(S) /\ Len(c \o b) = Len(s) + 1
  BY <1>0
<1>6. \A j \in 1 .. Len(s) + 1 : (c \o b)[j] = IF j <= i THEN c[j] ELSE b[j - i]
  BY <1>0
<1>7. \A j \in 1 .. Len(s) + 1 : (c \o b)[j] = IF j < i THEN s[j] ELSE IF j = i THEN e ELSE s[j - 1]
  <2> TAKE j \in 1 .. Len(s) + 1
  <2>1. CASE j <= i
    BY <1>4, <1>6, <2>1
  <2>2. CASE ~(j <= i)
    <3>1. j - i \in 1 .. Len(s) - i + 1 /\ i + (j - i) - 1 = j - 1
      BY <2>2
    <3>2. b[j - i] = s[j - 1]
      BY <1>2, <3>1
    <3>3. (c \o b)[j] = b[j - i] /\ ~(j < i) /\ j # i
      BY <1>0, <1>6, <2>2
    <3> QED
      BY <3>2, <3>3
  <2> QED
    BY <2>1, <2>2
<1> QED
  BY <1>5, <1>7 DEF Notebook!InsertAt, Inserted, a, b, c

\* The sequence t is s without what it has at i.
Removed(t, s, i) ==
  /\ Len(t) = Len(s) - 1
  /\ \A j \in 1 .. Len(s) - 1 : t[j] = IF j < i THEN s[j] ELSE s[j + 1]

\* Removing a page moves those after it back.
LEMMA RemoveAtMoves ==
  ASSUME NEW S, NEW s \in Seq(S), NEW i \in 1 .. Len(s)
  PROVE  Notebook!RemoveAt(s, i) \in Seq(S) /\ Removed(Notebook!RemoveAt(s, i), s, i)
<1> DEFINE a == SubSeq(s, 1, i - 1)
           b == SubSeq(s, i + 1, Len(s))
<1>1. a \in Seq(S) /\ Len(a) = i - 1 /\ \A j \in 1 .. i - 1 : a[j] = s[j]
  OBVIOUS
<1>2. b \in Seq(S) /\ Len(b) = Len(s) - i /\ \A j \in 1 .. Len(s) - i : b[j] = s[i + j]
  OBVIOUS
<1> HIDE DEF a, b
<1>0. a \in Seq(S) /\ b \in Seq(S) /\ Len(a) = i - 1 /\ Len(b) = Len(s) - i /\ i \in Nat
      /\ Len(s) \in Nat
  BY <1>1, <1>2
<1>3. /\ a \o b \in Seq(S) /\ Len(a \o b) = Len(s) - 1
      /\ \A j \in 1 .. Len(s) - 1 : (a \o b)[j] = IF j <= i - 1 THEN a[j] ELSE b[j - (i - 1)]
  BY <1>0
<1>4. \A j \in 1 .. Len(s) - 1 : (a \o b)[j] = IF j < i THEN s[j] ELSE s[j + 1]
  <2> TAKE j \in 1 .. Len(s) - 1
  <2>1. CASE j < i
    BY <1>1, <1>3, <2>1
  <2>2. CASE ~(j < i)
    <3>1. j - (i - 1) \in 1 .. Len(s) - i /\ i + (j - (i - 1)) = j + 1
      BY <2>2
    <3>2. b[j - (i - 1)] = s[j + 1]
      BY <1>2, <3>1
    <3>3. (a \o b)[j] = b[j - (i - 1)]
      BY <1>0, <1>3, <2>2
    <3> QED
      BY <2>2, <3>2, <3>3
  <2> QED
    BY <2>1, <2>2
<1> QED
  BY <1>3, <1>4 DEF Notebook!RemoveAt, Removed, a, b

\* The pages and what is in them.
PagesOK ==
  /\ pageTexts \in Seq(PageTexts) /\ Len(pageTexts) <= MaxPages
  /\ pages \in Seq(1 .. Len(pageTexts)) /\ Notebook!IsInjective(pages)
  /\ current \in 0 .. Len(pages) - 1 /\ show_tabs = (Len(pages) > 1)
  /\ Notebook!HelpersAgree

\* Ctrl-T made the current page to the right of where it was pressed.
OpenerIsLeft == opener # None => current > 0 /\ pages[current] = opener

\* The tabs are those that were left when the one that can be reopened was closed.
RestIsLeft ==
  sensitive =>
    /\ reopen_tab_data = [index |-> before.at, text |-> before.text] /\ before.text \in PageTexts
    /\ before.tabs \in Seq(1 .. Len(pageTexts)) /\ before.at + 1 \in 1 .. Len(before.tabs)
    /\ before.at \in Int /\ pages = Notebook!RemoveAt(before.tabs, before.at + 1)

TabsIInv == PagesOK /\ OpenerIsLeft /\ RestIsLeft

\* The invariant with one page.
LEMMA TabsInit == ASSUME Notebook!ConstantsFit, Notebook!Init PROVE TabsIInv
<1>1. /\ pages = <<1>> /\ current = 0 /\ pageTexts = << "" >> /\ sourceview = [h \in Helpers |-> 1]
      /\ show_tabs = FALSE /\ sensitive = FALSE /\ opener = None
  BY DEF Notebook!Init
<1>2. /\ pageTexts \in Seq(PageTexts) /\ Len(pageTexts) = 1
      /\ pages \in Seq({1}) /\ Len(pages) = 1 /\ pages[1] = 1 /\ 1 .. 1 = {1}
  <2>1. 1 .. 1 = {1}
    OBVIOUS
  <2>2. << "" >> \in Seq(PageTexts) /\ Len(<< "" >>) = 1
    <3>1. \A t \in PageTexts : <<t>> \in Seq(PageTexts) /\ Len(<<t>>) = 1
      OBVIOUS
    <3>2. "" \in PageTexts
      BY DEF Notebook!ConstantsFit
    <3> QED
      BY <3>1, <3>2, Zenon
  <2>3. <<1>> \in Seq({1}) /\ Len(<<1>>) = 1
    OBVIOUS
  <2> QED
    BY <1>1, <2>1, <2>2, <2>3
<1>3. Len(pageTexts) <= MaxPages
  <2>1. MaxPages \in Nat \ {0}
    BY DEF Notebook!ConstantsFit
  <2> QED
    BY <1>2, <2>1
<1>4. Notebook!IsInjective(pages)
  BY <1>2 DEF Notebook!IsInjective
<1>5. Notebook!HelpersAgree
  <2>1. pages[0 + 1] = 1
    BY <1>2
  <2> QED
    BY <1>1, <2>1 DEF Notebook!HelpersAgree, Notebook!Page
<1>6. current \in 0 .. Len(pages) - 1 /\ show_tabs = (Len(pages) > 1)
  <2>1. 0 \in 0 .. 1 - 1 /\ (1 > 1) = FALSE
    OBVIOUS
  <2>2. current = 0 /\ show_tabs = FALSE /\ Len(pages) = 1
    BY <1>1, <1>2
  <2> QED
    BY <2>1, <2>2, Zenon
<1>7. pages \in Seq(1 .. Len(pageTexts))
  BY <1>2
<1> QED
  BY <1>1, <1>2, <1>3, <1>4, <1>5, <1>6, <1>7 DEF TabsIInv, PagesOK, OpenerIsLeft, RestIsLeft

\* A tab is made: the new page is current, and the others keep their order.
LEMMA CreateKeeps ==
  ASSUME TabsIInv, NEW i \in 0 .. Len(pages), NEW t \in PageTexts,
         Notebook!CreateSourcebufferview(i, t), show_tabs' = TRUE, Notebook!ConstantsFit
  PROVE  /\ PagesOK' /\ current' = i /\ pages' = Notebook!InsertAt(pages, i + 1, Len(pageTexts) + 1)
         /\ pages'[i + 1] = Len(pageTexts) + 1 /\ pageTexts'[Len(pageTexts) + 1] = t
         /\ Len(pages') = Len(pages) + 1
         /\ \A j \in 1 .. Len(pages) + 1 :
              pages'[j] = IF j < i + 1 THEN pages[j] ELSE IF j = i + 1 THEN Len(pageTexts) + 1 ELSE pages[j - 1]
<1> DEFINE n == Len(pageTexts) + 1
<1>1. /\ Len(pageTexts) < MaxPages /\ pages' = Notebook!InsertAt(pages, i + 1, n)
      /\ pageTexts' = Append(pageTexts, t) /\ current' = i
      /\ sourceview' = [h \in Helpers |-> pages'[i + 1]]
  BY DEF Notebook!CreateSourcebufferview, Notebook!SwitchPage
<1>2. /\ pageTexts \in Seq(PageTexts) /\ pages \in Seq(1 .. Len(pageTexts))
         /\ Len(pageTexts) \in Nat
      /\ Len(pages) \in Nat /\ current \in 0 .. Len(pages) - 1
  BY DEF TabsIInv, PagesOK
<1>3. pages \in Seq(1 .. n) /\ n \in 1 .. n /\ i + 1 \in 1 .. Len(pages) + 1
  BY <1>2
<1>4. /\ pages' \in Seq(1 .. n) /\ Len(pages') = Len(pages) + 1
      /\ \A j \in 1 .. Len(pages) + 1 :
           pages'[j] = IF j < i + 1 THEN pages[j] ELSE IF j = i + 1 THEN n ELSE pages[j - 1]
  <2> DEFINE P == 1 .. n
             k == i + 1
  <2>1. pages \in Seq(P) /\ n \in P /\ k \in 1 .. Len(pages) + 1
    BY <1>3
  <2> HIDE DEF n, P, k
  <2>2. Notebook!InsertAt(pages, k, n) \in Seq(P)
        /\ Inserted(Notebook!InsertAt(pages, k, n), pages, k, n)
    BY <2>1, InsertAtMoves
  <2> QED
    BY <1>1, <2>2 DEF Inserted, P, k
<1>5. pageTexts' \in Seq(PageTexts) /\ Len(pageTexts') = n /\ pageTexts'[n] = t
  BY <1>1, <1>2
<1>6. Len(pageTexts') <= MaxPages
  <2>1. MaxPages \in Nat
    BY DEF Notebook!ConstantsFit
  <2>2. \A k \in Nat : k < MaxPages => k + 1 <= MaxPages
    BY <2>1
  <2> QED
    BY <1>1, <1>2, <1>5, <2>2
<1>7. pages'[i + 1] = n
  BY <1>3, <1>4
<1>8. Notebook!HelpersAgree'
  BY <1>1 DEF Notebook!HelpersAgree, Notebook!Page
<1>9. Notebook!IsInjective(pages')
  <2>1. \A j \in 1 .. Len(pages) : pages[j] \in 1 .. Len(pageTexts)
    BY <1>2
  <2>2. \A j, k \in 1 .. Len(pages) : pages[j] = pages[k] => j = k
    BY <1>2 DEF TabsIInv, PagesOK, Notebook!IsInjective
  <2>3. ASSUME NEW j \in 1 .. Len(pages) + 1, NEW k \in 1 .. Len(pages) + 1, pages'[j] = pages'[k]
        PROVE  j = k
    <3> DEFINE From(x) == IF x < i + 1 THEN x ELSE x - 1
    <3>1. \A x \in 1 .. Len(pages) + 1 : x # i + 1
          => From(x) \in 1 .. Len(pages) /\ pages'[x] = pages[From(x)]
      <4> TAKE x \in 1 .. Len(pages) + 1
      <4> HAVE x # i + 1
      <4>1. i \in Nat /\ i <= Len(pages) /\ Len(pages) \in Nat
        BY <1>2
      <4>2. From(x) \in 1 .. Len(pages)
        BY <4>1
      <4>3. pages'[x] = IF x < i + 1 THEN pages[x] ELSE pages[x - 1]
        BY <1>4
      <4> QED
        BY <4>2, <4>3
    <3>2. \A x \in 1 .. Len(pages) + 1 : x # i + 1 => pages'[x] # n
      <4>1. \A x \in 1 .. Len(pages) : pages[x] # n
        <5>1. \A y \in 1 .. Len(pageTexts) : y # Len(pageTexts) + 1
          BY <1>2
        <5> QED
          BY <2>1, <5>1
      <4> HIDE DEF From, n
      <4> QED
        BY <3>1, <4>1
    <3>3. CASE j = i + 1 \/ k = i + 1
      BY <1>7, <2>3, <3>2, <3>3
    <3>4. CASE j # i + 1 /\ k # i + 1
      <4>1. From(j) = From(k)
        BY <2>2, <2>3, <3>1, <3>4
      <4> QED
        BY <1>2, <3>4, <4>1
    <3> QED
      BY <3>3, <3>4
  <2>4. DOMAIN pages' = 1 .. Len(pages) + 1
    BY <1>2, <1>4
  <2> QED
    BY <2>3, <2>4 DEF Notebook!IsInjective
<1>10. current' \in 0 .. Len(pages') - 1 /\ show_tabs' = (Len(pages') > 1)
  <2>1. Len(pages) \in Nat /\ Len(pages) > 0 /\ Len(pages') = Len(pages) + 1 /\ current' = i
    BY <1>1, <1>2, <1>4
  <2>2. current' \in 0 .. Len(pages') - 1
    BY <2>1
  <2>3. Len(pages') > 1
    BY <2>1
  <2> QED
    BY <2>2, <2>3
<1> QED
  BY <1>1, <1>4, <1>5, <1>6, <1>7, <1>8, <1>9, <1>10 DEF PagesOK

\* A new tab comes after the current one.
LEMMA NewTabKeeps == ASSUME Notebook!ConstantsFit, TabsIInv, Notebook!NewTab PROVE TabsIInv'
<1>1. /\ Notebook!CreateSourcebufferview(current + 1, "") /\ show_tabs' = TRUE /\ sensitive' = FALSE
      /\ opener' = pages[current + 1]
  BY DEF Notebook!NewTab, Notebook!Page
<1>2. current + 1 \in 0 .. Len(pages) /\ current \in Nat /\ current + 1 \in 1 .. Len(pages)
      /\ Len(pages) \in Nat
  BY DEF TabsIInv, PagesOK
<1>3. /\ PagesOK' /\ current' = current + 1
      /\ \A j \in 1 .. Len(pages) + 1 :
           pages'[j] = IF j < current + 1 + 1 THEN pages[j] ELSE IF j = current + 1 + 1 THEN Len(pageTexts) + 1 ELSE pages[j - 1]
  BY <1>1, <1>2, CreateKeeps DEF Notebook!ConstantsFit
<1>4. pages'[current'] = pages[current + 1] /\ current' > 0
  BY <1>2, <1>3
<1> QED
  BY <1>1, <1>3, <1>4 DEF TabsIInv, OpenerIsLeft, RestIsLeft

\* A tab is reopened at its place, among the same tabs.
LEMMA ReopenKeeps ==
  ASSUME Notebook!ConstantsFit, TabsIInv, Notebook!ReopenTab
  PROVE  /\ TabsIInv' /\ current' = before.at
         /\ pages' = [before.tabs EXCEPT ![current' + 1] = pages'[current' + 1]]
         /\ pageTexts'[pages'[current' + 1]] = before.text
<1>1. /\ sensitive /\ Notebook!CreateSourcebufferview(reopen_tab_data.index, reopen_tab_data.text)
      /\ show_tabs' = TRUE /\ sensitive' = FALSE /\ opener' = None
  BY DEF Notebook!ReopenTab
<1> DEFINE at == before.at
           tabs == before.tabs
<1>2. /\ reopen_tab_data.index = at /\ reopen_tab_data.text = before.text
         /\ before.text \in PageTexts
      /\ tabs \in Seq(1 .. Len(pageTexts)) /\ at + 1 \in 1 .. Len(tabs) /\ at \in Int
      /\ pages = Notebook!RemoveAt(tabs, at + 1)
  BY <1>1 DEF TabsIInv, RestIsLeft
<1> HIDE DEF at, tabs
<1>3. /\ Len(pages) = Len(tabs) - 1
      /\ \A j \in 1 .. Len(tabs) - 1 : pages[j] = IF j < at + 1 THEN tabs[j] ELSE tabs[j + 1]
  <2>1. Removed(pages, tabs, at + 1)
    BY <1>2, RemoveAtMoves
  <2> QED
    BY <2>1 DEF Removed
<1>4. at \in 0 .. Len(pages) /\ Len(tabs) \in Nat
  BY <1>2, <1>3
<1>5. /\ PagesOK' /\ current' = at /\ pages'[at + 1] = Len(pageTexts) + 1
      /\ pageTexts'[Len(pageTexts) + 1] = before.text /\ Len(pages') = Len(pages) + 1
      /\ \A j \in 1 .. Len(pages) + 1 :
           pages'[j] = IF j < at + 1 THEN pages[j] ELSE IF j = at + 1 THEN Len(pageTexts) + 1 ELSE pages[j - 1]
  BY <1>1, <1>2, <1>4, CreateKeeps
<1>6. \A j \in 1 .. Len(tabs) : j # at + 1 => pages'[j] = tabs[j]
  <2> TAKE j \in 1 .. Len(tabs)
  <2> HAVE j # at + 1
  <2>1. CASE j < at + 1
    <3>1. j \in 1 .. Len(tabs) - 1 /\ j \in 1 .. Len(pages) + 1
      BY <1>2, <1>3, <2>1
    <3>2. pages[j] = tabs[j]
      BY <1>3, <2>1, <3>1
    <3>3. pages'[j] = pages[j]
      BY <1>5, <2>1, <3>1
    <3> QED
      BY <3>2, <3>3
  <2>2. CASE j > at + 1
    <3>1. j - 1 \in 1 .. Len(tabs) - 1 /\ ~(j - 1 < at + 1) /\ (j - 1) + 1 = j
          /\ j \in 1 .. Len(pages) + 1
          /\ ~(j < at + 1)
      BY <1>2, <1>3, <2>2
    <3>2. pages[j - 1] = tabs[j]
      BY <1>3, <3>1
    <3>3. pages'[j] = pages[j - 1]
      BY <1>5, <2>2, <3>1
    <3> QED
      BY <3>2, <3>3
  <2> QED
    BY <1>2, <2>1, <2>2
<1>7. pages' = [tabs EXCEPT ![at + 1] = pages'[at + 1]]
  <2>1. pages' \in Seq(1 .. Len(pageTexts')) /\ Len(pages') = Len(tabs)
    BY <1>3, <1>4, <1>5 DEF PagesOK
  <2>2. DOMAIN pages' = DOMAIN tabs /\ DOMAIN tabs = 1 .. Len(tabs)
    BY <1>2, <2>1
  <2>3. pages' = [j \in 1 .. Len(tabs) |-> pages'[j]]
    BY <2>1
  <2>4. [tabs EXCEPT ![at + 1] = pages'[at + 1]] = [j \in 1 .. Len(tabs) |-> IF j = at + 1 THEN pages'[at + 1] ELSE tabs[j]]
    BY <1>2, <2>2
  <2> QED
    BY <1>6, <2>3, <2>4
<1> QED
  BY <1>1, <1>5, <1>7 DEF TabsIInv, OpenerIsLeft, RestIsLeft, at, tabs

\* A tab is closed: the one to its left is shown, or else the first of the others.
LEMMA CloseKeeps ==
  ASSUME Notebook!ConstantsFit, TabsIInv, Notebook!CloseTab
  PROVE  TabsIInv' /\ (opener # None => pages'[current' + 1] = opener)
<1> DEFINE what == pageTexts[sourceview["DreamPie"]]
<1>1. /\ pages \in Seq(1 .. Len(pageTexts)) /\ Len(pages) \in Nat /\ current \in 0 .. Len(pages) - 1
      /\ Len(pages) > 1 /\ pageTexts \in Seq(PageTexts) /\ Len(pageTexts) \in Nat
      /\ show_tabs = (Len(pages) > 1)
  <2>1. Len(pages) > 1
    BY DEF Notebook!CloseTab
  <2>2. /\ pages \in Seq(1 .. Len(pageTexts)) /\ current \in 0 .. Len(pages) - 1
        /\ pageTexts \in Seq(PageTexts) /\ show_tabs = (Len(pages) > 1)
    BY DEF TabsIInv, PagesOK
  <2> QED
    BY <2>1, <2>2
<1>2. /\ pages' = Notebook!RemoveAt(pages, current + 1) /\ pageTexts' = pageTexts
      /\ show_tabs' = IF Len(pages') = 1 THEN FALSE ELSE show_tabs
      /\ sourceview' = [h \in Helpers |-> pages[Notebook!NewPage + 1]]
      /\ current' = IF current < Notebook!NewPage THEN Notebook!NewPage - 1 ELSE Notebook!NewPage
      /\ opener' = None
  BY DEF Notebook!CloseTab, Notebook!Page
<1>3. /\ what # "" => /\ reopen_tab_data' = [index |-> current, text |-> what]
                      /\ before' = [tabs |-> pages, at |-> current, text |-> what]
      /\ sensitive' = (what # "")
  BY DEF Notebook!CloseTab
<1>4. what \in PageTexts
  <2>1. sourceview["DreamPie"] = pages[current + 1]
    BY DEF TabsIInv, PagesOK, Notebook!ConstantsFit, Notebook!HelpersAgree, Notebook!Page
  <2>2. current + 1 \in 1 .. Len(pages)
    BY <1>1
  <2>3. pages[current + 1] \in 1 .. Len(pageTexts)
    BY <1>1, <2>2
  <2> QED
    BY <1>1, <2>1, <2>3
<1> HIDE DEF what
<1>5. /\ pages' \in Seq(1 .. Len(pageTexts)) /\ Len(pages') = Len(pages) - 1
      /\ \A j \in 1 .. Len(pages) - 1 : pages'[j] = IF j < current + 1 THEN pages[j] ELSE pages[j + 1]
  <2> DEFINE P == 1 .. Len(pageTexts)
             k == current + 1
  <2>1. pages \in Seq(P) /\ k \in 1 .. Len(pages)
    BY <1>1
  <2> HIDE DEF P, k
  <2>2. Notebook!RemoveAt(pages, k) \in Seq(P) /\ Removed(Notebook!RemoveAt(pages, k), pages, k)
    BY <2>1, RemoveAtMoves
  <2> QED
    BY <1>2, <2>2 DEF Removed, P, k
<1>6. current' \in 0 .. Len(pages') - 1 /\ pages'[current' + 1] = pages[Notebook!NewPage + 1]
      /\ (opener # None => pages'[current' + 1] = opener)
  <2>6. CASE current = 0
    <3>1. Notebook!NewPage = 1 /\ current' = 0 /\ 1 \in 1 .. Len(pages) - 1 /\ ~(1 < current + 1)
      BY <1>1, <1>2, <2>6 DEF Notebook!NewPage
    <3>2. pages'[1] = pages[1 + 1]
      BY <1>5, <3>1
    <3>3. current' \in 0 .. Len(pages') - 1
      BY <1>1, <1>5, <3>1
    <3>4. pages'[current' + 1] = pages[Notebook!NewPage + 1]
      BY <3>1, <3>2
    <3>5. opener = None
      BY <2>6 DEF TabsIInv, OpenerIsLeft
    <3> QED
      BY <3>3, <3>4, <3>5
  <2>7. CASE current # 0
    <3>1. /\ Notebook!NewPage = current - 1 /\ current' = current - 1
          /\ current \in 1 .. Len(pages) - 1 /\ current < current + 1
      BY <1>1, <1>2, <2>7 DEF Notebook!NewPage
    <3>2. pages'[current] = pages[current]
      BY <1>5, <3>1
    <3>3. current' \in 0 .. Len(pages') - 1
      BY <1>1, <1>5, <3>1
    <3>4. current' + 1 = current /\ Notebook!NewPage + 1 = current
      BY <1>1, <3>1
    <3>5. opener # None => pages[current] = opener
      BY DEF TabsIInv, OpenerIsLeft
    <3> QED
      BY <3>2, <3>3, <3>4, <3>5
  <2> QED
    BY <2>6, <2>7
<1>8. Notebook!IsInjective(pages')
  <2>1. \A j, k \in 1 .. Len(pages) : pages[j] = pages[k] => j = k
    BY <1>1 DEF TabsIInv, PagesOK, Notebook!IsInjective
  <2> DEFINE From(x) == IF x < current + 1 THEN x ELSE x + 1
  <2>2. \A x \in 1 .. Len(pages) - 1 : From(x) \in 1 .. Len(pages) /\ pages'[x] = pages[From(x)]
    <3> TAKE x \in 1 .. Len(pages) - 1
    <3>1. From(x) \in 1 .. Len(pages)
      BY <1>1
    <3>2. pages'[x] = IF x < current + 1 THEN pages[x] ELSE pages[x + 1]
      BY <1>5
    <3> QED
      BY <3>1, <3>2
  <2>3. ASSUME NEW j \in 1 .. Len(pages) - 1, NEW k \in 1 .. Len(pages) - 1, pages'[j] = pages'[k]
        PROVE  j = k
    <3>1. From(j) = From(k)
      <4> HIDE DEF From
      <4> QED
        BY <2>1, <2>2, <2>3
    <3> QED
      BY <1>1, <3>1
  <2>4. DOMAIN pages' = 1 .. Len(pages) - 1
    BY <1>1, <1>5
  <2> QED
    BY <2>3, <2>4 DEF Notebook!IsInjective
<1>9. Notebook!HelpersAgree'
  BY <1>2, <1>6 DEF Notebook!HelpersAgree, Notebook!Page
<1>10. show_tabs' = (Len(pages') > 1)
  <2>1. show_tabs = TRUE
    BY <1>1
  <2>2. Len(pages) \in Nat /\ Len(pages) > 1 /\ Len(pages') = Len(pages) - 1
    BY <1>1, <1>5
  <2>3. (Len(pages') > 1) = (Len(pages') # 1)
    <3>1. Len(pages') \in Nat \ {0}
      BY <2>2
    <3>2. \A n \in Nat \ {0} : (n > 1) = (n # 1)
      OBVIOUS
    <3> QED
      BY <3>1, <3>2, Zenon
  <2>4. CASE Len(pages') = 1
    BY <1>2, <2>3, <2>4, Zenon
  <2>5. CASE Len(pages') # 1
    BY <1>2, <2>1, <2>3, <2>5, Zenon
  <2> QED
    BY <2>4, <2>5
<1>11. RestIsLeft'
  <2> SUFFICES ASSUME sensitive' PROVE RestIsLeft'
    BY DEF RestIsLeft
  <2>1. /\ reopen_tab_data' = [index |-> current, text |-> what]
        /\ before' = [tabs |-> pages, at |-> current, text |-> what]
    BY <1>3
  <2>2. current + 1 \in 1 .. Len(pages) /\ current \in Int
    BY <1>1
  <2> QED
    BY <1>1, <1>2, <1>4, <2>1, <2>2 DEF RestIsLeft
<1> QED
  BY <1>1, <1>2, <1>5, <1>6, <1>8, <1>9, <1>10, <1>11 DEF TabsIInv, PagesOK, OpenerIsLeft

\* Another tab is shown, or something is typed.
LEMMA SwitchOrEditKeeps ==
  ASSUME Notebook!ConstantsFit, TabsIInv,
         (\E i \in 0 .. MaxPages - 1 : Notebook!Switch(i))
             \/ (\E t \in PageTexts : Notebook!Edit(t))
  PROVE  TabsIInv'
<1>1. ASSUME NEW i \in 0 .. MaxPages - 1, Notebook!Switch(i) PROVE TabsIInv'
  <2>1. /\ i \in 0 .. Len(pages) - 1 /\ current' = i
           /\ sourceview' = [h \in Helpers |-> pages[i + 1]]
        /\ opener' = None
        /\ UNCHANGED <<pages, pageTexts, show_tabs, reopen_tab_data, sensitive, before>>
    BY <1>1 DEF Notebook!Switch, Notebook!SwitchPage
  <2>2. Notebook!HelpersAgree'
    BY <2>1 DEF Notebook!HelpersAgree, Notebook!Page
  <2> QED
    BY <2>1, <2>2 DEF TabsIInv, PagesOK, OpenerIsLeft, RestIsLeft, Notebook!IsInjective
<1>2. ASSUME NEW t \in PageTexts, Notebook!Edit(t) PROVE TabsIInv'
  <2>1. /\ pageTexts' = [pageTexts EXCEPT ![sourceview["DreamPie"]] = t]
        /\ UNCHANGED <<pages, current, sourceview, show_tabs, reopen_tab_data, sensitive, opener,
           before>>
    BY <1>2 DEF Notebook!Edit
  <2>2. pageTexts \in Seq(PageTexts)
    BY DEF TabsIInv, PagesOK
  <2>3. pageTexts' \in Seq(PageTexts) /\ Len(pageTexts') = Len(pageTexts)
    <3> DEFINE view == sourceview["DreamPie"]
               n == Len(pageTexts)
    <3>1. pageTexts \in [1 .. n -> PageTexts] /\ n \in Nat
      BY <2>2
    <3> HIDE DEF view, n
    <3>2. [pageTexts EXCEPT ![view] = t] \in [1 .. n -> PageTexts]
      BY <3>1
    <3>3. \A s \in [1 .. n -> PageTexts] : s \in Seq(PageTexts) /\ Len(s) = n
      BY <3>1
    <3> QED
      BY <2>1, <3>2, <3>3 DEF view, n
  <2>4. Notebook!HelpersAgree'
    BY <2>1 DEF TabsIInv, PagesOK, Notebook!HelpersAgree, Notebook!Page
  <2> QED
    BY <2>1, <2>3, <2>4 DEF TabsIInv, PagesOK, OpenerIsLeft, RestIsLeft, Notebook!IsInjective
<1> QED
  BY <1>1, <1>2

\* No step breaks the invariant.
LEMMA TabsStep ==
  ASSUME Notebook!ConstantsFit, TabsIInv, [Notebook!Next]_Notebook!vars
  PROVE TabsIInv'
<1>1. CASE UNCHANGED Notebook!vars
  BY <1>1 DEF Notebook!vars, TabsIInv, PagesOK, OpenerIsLeft, RestIsLeft, Notebook!IsInjective,
     Notebook!HelpersAgree, Notebook!Page
<1> QED
  BY <1>1, NewTabKeeps, ReopenKeeps, CloseKeeps, SwitchOrEditKeeps DEF Notebook!Next

\* All parts of the window work on the current page; closing the tab that Ctrl-T opened goes
\* back to where it was pressed; and a reopened tab is where it was, among the same others,
\* with the same text.
THEOREM TabsRight ==
  Notebook!Spec =>
           [](Notebook!TypeOK /\ Notebook!HelpersAgree) /\ Notebook!TemporaryTabReturns
               /\ Notebook!ReopenedInPlace
<1>1. Notebook!Init => TabsIInv
  BY TabsInit, NotebookAssumption
<1>2. TabsIInv /\ [Notebook!Next]_Notebook!vars => TabsIInv'
  BY TabsStep, NotebookAssumption
<1>3. TabsIInv => Notebook!TypeOK /\ Notebook!HelpersAgree
  <2> SUFFICES ASSUME TabsIInv PROVE Notebook!TypeOK /\ Notebook!HelpersAgree
    OBVIOUS
  <2>1. /\ pageTexts \in Seq(PageTexts) /\ Len(pageTexts) <= MaxPages
        /\ pages \in Seq(1 .. Len(pageTexts)) /\ Notebook!IsInjective(pages)
        /\ current \in 0 .. Len(pages) - 1 /\ show_tabs = (Len(pages) > 1)
    BY DEF TabsIInv, PagesOK
  <2>2. /\ \A v \in DOMAIN pageTexts : pageTexts[v] \in PageTexts
        /\ \A i \in DOMAIN pages : pages[i] \in DOMAIN pageTexts
    BY <2>1
  <2>3. sensitive => reopen_tab_data.index \in 0 .. Len(pages)
    <3> SUFFICES ASSUME sensitive PROVE reopen_tab_data.index \in 0 .. Len(pages)
      OBVIOUS
    <3> DEFINE tabs == before.tabs
               k == before.at + 1
    <3>1. /\ reopen_tab_data.index = before.at /\ before.at \in Int
          /\ tabs \in Seq(1 .. Len(pageTexts)) /\ k \in 1 .. Len(tabs)
          /\ pages = Notebook!RemoveAt(tabs, k)
      BY DEF TabsIInv, RestIsLeft
    <3>2. Removed(pages, tabs, k)
      <4> HIDE DEF tabs, k
      <4> QED
        BY <3>1, RemoveAtMoves
    <3>3. Len(pages) = Len(tabs) - 1 /\ Len(tabs) \in Nat
      BY <3>1, <3>2 DEF Removed
    <3> HIDE DEF tabs
    <3> QED
      BY <3>1, <3>3
  <2> QED
    BY <2>1, <2>2, <2>3 DEF TabsIInv, PagesOK, Notebook!TypeOK
<1>4. TabsIInv /\ [Notebook!Next]_Notebook!vars =>
        [Notebook!CloseTab /\ opener # None => pages'[current' + 1] = opener]_Notebook!vars
  BY CloseKeeps, NotebookAssumption
<1>5. TabsIInv /\ [Notebook!Next]_Notebook!vars =>
        [Notebook!ReopenTab => /\ current' = before.at
                               /\ pages' = [before.tabs EXCEPT ![current' + 1] = pages'[current' + 1]]
                               /\ pageTexts'[pages'[current' + 1]] = before.text]_Notebook!vars
  BY ReopenKeeps, NotebookAssumption
<1> QED
  BY <1>1, <1>2, <1>3, <1>4, <1>5, PTL
     DEF Notebook!Spec, Notebook!TemporaryTabReturns, Notebook!ReopenedInPlace

-----------------------------------------------------------------------------
\* What the thread has written where it is; nobody is told before it has compared, and
\* whatever comes out while the server is asked comes before.
CheckIInv ==
  /\ cur_time \in Times /\ latest \in Times /\ status \in BOOLEAN /\ menu \in BOOLEAN
     /\ idle \in BOOLEAN
  /\ thread \in {"_latest_name", "_latest_time", "_cur_time", "compare"} => _is_git = is_git
  /\ thread \in {"_cur_time", "compare"} => _latest_time = latest
  /\ thread = "compare" => _cur_time = cur_time
  /\ idle \/ status => thread = "ended" /\ latest > cur_time
  /\ menu => status /\ ~is_git

\* The invariant before the thread runs.
LEMMA CheckInit == ASSUME Check!ConstantsFit, Check!Init PROVE CheckIInv
BY DEF Check!ConstantsFit, Check!Init, CheckIInv

\* No step of the thread, of the main loop or of the user breaks it.
LEMMA CheckStep == ASSUME Check!ConstantsFit, CheckIInv, [Check!Next]_Check!vars PROVE CheckIInv'
<1> USE DEF CheckIInv, Check!ConstantsFit, Check!globals, Check!shown
<1>1. CASE Check!Fetched \/ Check!FetchFails \/ Check!Released
  BY <1>1 DEF Check!Fetched, Check!FetchFails, Check!Released
<1>2. CASE Check!SetIsGit
  BY <1>2 DEF Check!SetIsGit
<1>3. CASE Check!SetLatestName
  BY <1>3 DEF Check!SetLatestName
<1>4. CASE Check!SetLatestTime
  BY <1>4 DEF Check!SetLatestTime
<1>5. CASE Check!SetCurTime
  BY <1>5 DEF Check!SetCurTime
<1>6. CASE Check!Compare
  BY <1>6 DEF Check!Compare
<1>7. CASE Check!on_update_available
  BY <1>7 DEF Check!on_update_available
<1>8. CASE Check!BugReport \/ Check!CloseReport
  BY <1>8 DEF Check!BugReport, Check!CloseReport
<1>9. CASE Check!Quit
  BY <1>9 DEF Check!Quit
<1>10. CASE UNCHANGED Check!vars
  BY <1>10 DEF Check!vars
<1> QED
  BY <1>1, <1>2, <1>3, <1>4, <1>5, <1>6, <1>7, <1>8, <1>9, <1>10 DEF Check!Next

\* The main loop alone tells the user of an update, only if there is one, and the bug report
\* says how this DreamPie stands.
THEOREM NoticeRight ==
  Check!Spec => []Check!NoticeIsTrue /\ Check!NoticeInMainLoop /\ Check!ReportIsRight
<1>1. Check!Init => CheckIInv
  BY CheckInit, CheckAssumption
<1>2. CheckIInv /\ [Check!Next]_Check!vars => CheckIInv'
  BY CheckStep, CheckAssumption
<1>3. CheckIInv => Check!NoticeIsTrue
  BY DEF CheckIInv, Check!NoticeIsTrue
<1> DEFINE InMainLoop == status' # status \/ menu' # menu => running /\ thread' = thread
           IsRight == thread = "compare" /\ report = "closed" /\ report' # "closed" =>
                        report' = IF latest > cur_time
                                  THEN IF is_git THEN "pull" ELSE "download"
                                  ELSE IF is_git THEN "none" ELSE "clone"
<1>4. [Check!Next]_Check!vars => [InMainLoop]_Check!vars
  <2> SUFFICES ASSUME Check!Next, status' # status \/ menu' # menu PROVE running /\ thread' = thread
    OBVIOUS
  <2>1. CASE Check!on_update_available
    BY <2>1 DEF Check!on_update_available
  <2> QED
    BY <2>1
       DEF Check!Next, Check!shown, Check!Fetched, Check!FetchFails, Check!Released, Check!SetIsGit,
           Check!SetLatestName, Check!SetLatestTime, Check!SetCurTime, Check!Compare,
           Check!BugReport, Check!CloseReport, Check!Quit
<1>5. CheckIInv /\ [Check!Next]_Check!vars => [IsRight]_Check!vars
  <2> SUFFICES ASSUME CheckIInv, Check!Next, thread = "compare",
                      report = "closed", report' # "closed"
               PROVE  report' = IF latest > cur_time
                                THEN IF is_git THEN "pull" ELSE "download"
                                ELSE IF is_git THEN "none" ELSE "clone"
    OBVIOUS
  <2>1. report' = Check!get_update_message
    BY DEF Check!Next, Check!shown, Check!Fetched, Check!FetchFails, Check!Released, Check!SetIsGit,
       Check!SetLatestName, Check!SetLatestTime, Check!SetCurTime, Check!Compare, Check!BugReport,
       Check!CloseReport, Check!Quit, Check!on_update_available
  <2>2. /\ latest \in Int /\ cur_time \in Int /\ latest # Unset
        /\ _latest_time = latest /\ _cur_time = cur_time /\ _is_git = is_git
    BY CheckAssumption DEF CheckIInv, Check!ConstantsFit
  <2> QED
    BY <2>1, <2>2 DEF Check!get_update_message
<1> QED
  BY <1>1, <1>2, <1>3, <1>4, <1>5, PTL DEF Check!Spec, Check!NoticeInMainLoop, Check!ReportIsRight

-----------------------------------------------------------------------------
\* A function, which a record of options is too.
IsMap(f) == f = [x \in DOMAIN f |-> f[x]]

\* The options of a theme n are those of all the elements, or, where no defaults come with
\* it, of those of the older version.
Completed(options, n, new) ==
  /\ IsMap(options) /\ \A e \in DOMAIN options : options[e] # Cut
  /\ \/ DOMAIN options = Looks!tag_desc(new)
     \/ n \notin Looks!DefaultThemes(new) /\ DOMAIN options = Looks!tag_desc(FALSE)

\* What the parser may have, and the file if it can be read.
IsConfig(c) ==
  /\ c = [current |-> c.current, sections |-> c.sections]
  /\ DOMAIN c.sections \subseteq ThemeNames
  /\ \A n \in Looks!get_theme_names(c) : IsMap(c.sections[n].options)

\* A configuration that was read by a version, with its themes, none of which lacks anything.
IsRead(c, new) ==
  /\ c = [current |-> c.current, sections |-> c.sections]
  /\ DOMAIN c.sections \subseteq ThemeNames /\ Looks!DefaultThemes(new) \subseteq DOMAIN c.sections
  /\ c.current \in Looks!get_theme_names(c)
  /\ \A n \in Looks!get_theme_names(c) : Completed(c.sections[n].options, n, new)

\* The dialog: each row has a dictionary of its own, with all the elements.
DialogOK ==
  /\ rows = DOMAIN themes /\ cursor \in rows /\ cur_theme = themes[cursor]
  /\ DOMAIN themes \subseteq ThemeNames /\ IsInjective(themes)
  /\ \A n \in DOMAIN themes :
       /\ themes[n] \in ThemeNames /\ themes[n] \in DOMAIN store
       /\ IsMap(store[themes[n]]) /\ DOMAIN store[themes[n]] = Looks!tag_desc(newer)
       /\ \A e \in DOMAIN store[themes[n]] : store[themes[n]][e] # Cut

\* If the user has them, the themes are those that were seen: in memory; and in the file, once
\* it is read again by whatever version is there then, if their names are.
LooksIInv ==
  /\ newer \in BOOLEAN /\ pc \in {"off", "starting", "saving", "running", "dialog"}
  /\ pc # "off" => IsConfig(config) /\ Looks!DefaultThemes(newer) \subseteq DOMAIN config.sections
  /\ pc # "off" /\ seen # None => IsRead(config, newer) /\ Looks!ThemesOf(config) = seen
  /\ pc \in {"running", "dialog"} => file = config /\ Looks!HasAll(config, config.current)
  /\ pc = "dialog" => DialogOK
  /\ pc = "off" => file = Looks!Unreadable \/ IsConfig(file)
  /\ pc = "off" /\ seen # None =>
       /\ file # Looks!Unreadable
       /\ Looks!Kept(file) =>
            /\ IsRead(Looks!Loaded(newer, file), newer)
            /\ Looks!ThemesOf(Looks!Loaded(newer, file)) = seen
       /\ newer \/ file = Looks!Empty \/ IsRead(file, FALSE)

\* What put over the defaults has them all stays as it is.
LEMMA OverAll ==
  ASSUME NEW f, NEW g, IsMap(f), DOMAIN g \subseteq DOMAIN f
  PROVE  Looks!Over(f, g) = f
<1>1. Looks!Over(f, g) = [x \in DOMAIN f |-> f[x]]
  BY DEF Looks!Over
<1> QED
  BY <1>1 DEF IsMap

\* Two configurations are the same to the user.
LEMMA SameThemes ==
  ASSUME NEW c, NEW d, c.current = d.current,
         Looks!get_theme_names(c) = Looks!get_theme_names(d),
         \A n \in Looks!get_theme_names(c) : c.sections[n].options = d.sections[n].options
  PROVE  Looks!ThemesOf(c) = Looks!ThemesOf(d)
BY DEF Looks!ThemesOf

\* What is read: the defaults of a theme that the file has not; a theme of the file as it is, if
\* there are no defaults for it, or else over them.
LEMMA LoadedIs ==
  ASSUME NEW new \in BOOLEAN, NEW f
  PROVE  LET c == Looks!Loaded(new, f)
             d == Looks!DefaultThemes(new)
             read == DOMAIN f.sections \ Bracketed
         IN  /\ c = [current |-> c.current, sections |-> c.sections]
             /\ c.current = IF f.current = None THEN Dark
                            ELSE IF f.current \in Padded THEN Stripped ELSE f.current
             /\ DOMAIN c.sections = d \cup read
             /\ Looks!get_theme_names(c) = (Looks!get_theme_names(f) \ Bracketed) \cup (d \ read)
             /\ \A n \in d \ read : c.sections[n].options = Looks!DefaultColors(new)
             /\ \A n \in read \ d : c.sections[n].options = f.sections[n].options
             /\ \A n \in read \cap d :
                  c.sections[n].options = Looks!Over(f.sections[n].options, Looks!DefaultColors(new))
<1> DEFINE c == Looks!Loaded(new, f)
           d == Looks!DefaultThemes(new)
           o == Looks!DefaultColors(new)
           read == DOMAIN f.sections \ Bracketed
           name == IF f.current = None THEN Dark ELSE IF f.current \in Padded THEN Stripped ELSE f.current
<1>1. c = [current |-> name,
           sections |-> [n \in d \cup read |->
             IF n \notin read THEN [active |-> TRUE, options |-> o]
             ELSE IF n \notin d THEN f.sections[n]
             ELSE [active |-> f.sections[n].active,
                   options |-> Looks!Over(f.sections[n].options, o)]]]
  BY DEF Looks!Loaded, Looks!default_config
<1>2. /\ c.current = name
      /\ c.sections = [n \in d \cup read |->
             IF n \notin read THEN [active |-> TRUE, options |-> o]
             ELSE IF n \notin d THEN f.sections[n]
             ELSE [active |-> f.sections[n].active,
                   options |-> Looks!Over(f.sections[n].options, o)]]
  BY <1>1
<1>3. c = [current |-> c.current, sections |-> c.sections]
  BY <1>1, <1>2
<1> HIDE DEF c, d, o, name
<1>4. DOMAIN c.sections = d \cup read
  BY <1>2
<1>5. \A n \in d \ read : c.sections[n] = [active |-> TRUE, options |-> o]
  BY <1>2
<1>6. \A n \in read \ d : c.sections[n] = f.sections[n]
  BY <1>2
<1>7. \A n \in read \cap d :
        c.sections[n] = [active |-> f.sections[n].active,
                         options |-> Looks!Over(f.sections[n].options, o)]
  BY <1>2
<1>8. Looks!get_theme_names(c) = (Looks!get_theme_names(f) \ Bracketed) \cup (d \ read)
  <2>1. \A n \in d \ read : c.sections[n].active = TRUE
    BY <1>5
  <2>2. \A n \in read \ d : c.sections[n].active = f.sections[n].active
    BY <1>6
  <2>3. ASSUME NEW n \in read \cap d
        PROVE  c.sections[n].active = f.sections[n].active
    <3> DEFINE a == f.sections[n].active
               v == Looks!Over(f.sections[n].options, o)
    <3>1. c.sections[n] = [active |-> a, options |-> v]
      BY <1>7
    <3> HIDE DEF a, v
    <3>2. c.sections[n].active = a
      BY <3>1
    <3> QED
      BY <3>2 DEF a
  <2> QED
    BY <1>4, <2>1, <2>2, <2>3 DEF Looks!get_theme_names
<1> QED
  BY <1>2, <1>3, <1>4, <1>5, <1>6, <1>7, <1>8 DEF c, d, o, name

\* The defaults have all the elements.
LEMMA DefaultsHaveAll ==
  ASSUME NEW new \in BOOLEAN
  PROVE  /\ IsMap(Looks!DefaultColors(new)) /\ DOMAIN Looks!DefaultColors(new) = Looks!tag_desc(new)
         /\ Looks!DefaultThemes(new) \subseteq ThemeNames /\ Dark \in Looks!DefaultThemes(new)
         /\ Looks!DefaultThemes(FALSE) \subseteq Looks!DefaultThemes(new)
         /\ Looks!tag_desc(FALSE) \subseteq Looks!tag_desc(new)
         /\ Looks!DefaultThemes(new) \cap Bracketed = {}
         /\ \A e \in Looks!tag_desc(new) : Looks!DefaultColors(new)[e] # Cut
<1>1. (CHOOSE c \in Colors : TRUE) \in Colors /\ Cut \notin Colors /\ Cut # None
  BY ThemesAssumption DEF Looks!ConstantsFit
<1>2. /\ IsMap(Looks!DefaultColors(new)) /\ DOMAIN Looks!DefaultColors(new) = Looks!tag_desc(new)
      /\ \A e \in Looks!tag_desc(new) : Looks!DefaultColors(new)[e] # Cut
  BY <1>1 DEF Looks!DefaultColors, IsMap
<1> QED
  BY <1>2, ThemesAssumption DEF Looks!DefaultThemes, Looks!tag_desc, Looks!ConstantsFit

\* What is read can be read again.
LEMMA LoadedIsConfig ==
  ASSUME NEW new \in BOOLEAN, NEW f, IsConfig(f)
  PROVE  LET c == Looks!Loaded(new, f) IN
         IsConfig(c) /\ Looks!DefaultThemes(new) \subseteq DOMAIN c.sections
<1> DEFINE c == Looks!Loaded(new, f)
           d == Looks!DefaultThemes(new)
           o == Looks!DefaultColors(new)
           read == DOMAIN f.sections \ Bracketed
<1>1. /\ c = [current |-> c.current, sections |-> c.sections]
      /\ DOMAIN c.sections = d \cup read
      /\ Looks!get_theme_names(c) = (Looks!get_theme_names(f) \ Bracketed) \cup (d \ read)
      /\ \A n \in d \ read : c.sections[n].options = o
      /\ \A n \in read \ d : c.sections[n].options = f.sections[n].options
      /\ \A n \in read \cap d : c.sections[n].options = Looks!Over(f.sections[n].options, o)
  BY LoadedIs
<1>2. IsMap(o) /\ d \subseteq ThemeNames
  BY DefaultsHaveAll
<1>3. /\ Looks!get_theme_names(f) \subseteq DOMAIN f.sections /\ DOMAIN f.sections \subseteq ThemeNames
      /\ \A n \in Looks!get_theme_names(f) : IsMap(f.sections[n].options)
  BY DEF IsConfig, Looks!get_theme_names
<1>4. \A n \in read \cap d : IsMap(Looks!Over(f.sections[n].options, o))
  BY DEF Looks!Over, IsMap
<1> HIDE DEF c, d, o
<1>5. \A n \in Looks!get_theme_names(c) : IsMap(c.sections[n].options)
  BY <1>1, <1>2, <1>3, <1>4
<1>6. IsConfig(c) /\ d \subseteq DOMAIN c.sections
  BY <1>1, <1>2, <1>3, <1>5 DEF IsConfig
<1> QED
  BY <1>6 DEF c, d

\* A file that is empty has nothing, and can be read.
LEMMA EmptyIsConfig == IsConfig(Looks!Empty)
<1>1. Looks!Empty = [current |-> None, sections |-> <<>>]
  BY DEF Looks!Empty
<1>2. DOMAIN Looks!Empty.sections = {} /\ Looks!get_theme_names(Looks!Empty) = {}
  BY DEF Looks!Empty, Looks!get_theme_names
<1> QED
  BY <1>1, <1>2 DEF IsConfig

\* What can be read is not what raises.
LEMMA ConfigIsRead ==
  ASSUME NEW c, IsConfig(c)
  PROVE  c # Looks!Unreadable
<1>1. DOMAIN Looks!Unreadable.sections = {Cut}
  BY DEF Looks!Unreadable
<1>2. Cut \notin ThemeNames
  BY ThemesAssumption DEF Looks!ConstantsFit
<1> QED
  BY <1>1, <1>2 DEF IsConfig

\* A first start, or one after a crash.
LEMMA ReadEmpty ==
  ASSUME NEW new \in BOOLEAN
  PROVE  LET c == Looks!Loaded(new, Looks!Empty) IN
         /\ IsRead(c, new) /\ Looks!ThemesOf(c) = Looks!ThemesOf(Looks!default_config(new))
<1> DEFINE c == Looks!Loaded(new, Looks!Empty)
           d == Looks!default_config(new)
<1>1. DOMAIN Looks!Empty.sections = {} /\ Looks!Empty.current = None
      /\ Looks!get_theme_names(Looks!Empty) = {}
  BY DEF Looks!Empty, Looks!get_theme_names
<1>2. /\ c = [current |-> c.current, sections |-> c.sections] /\ c.current = Dark
      /\ DOMAIN c.sections = Looks!DefaultThemes(new)
      /\ Looks!get_theme_names(c) = Looks!DefaultThemes(new)
      /\ \A n \in Looks!DefaultThemes(new) : c.sections[n].options = Looks!DefaultColors(new)
  <2> HIDE DEF c
  <2>1. c = Looks!Loaded(new, Looks!Empty)
    BY DEF c
  <2>2. /\ c = [current |-> c.current, sections |-> c.sections]
        /\ Looks!Empty.current = None => c.current = Dark
        /\ DOMAIN c.sections = Looks!DefaultThemes(new) \cup (DOMAIN Looks!Empty.sections \ Bracketed)
        /\ Looks!get_theme_names(c) =
             (Looks!get_theme_names(Looks!Empty) \ Bracketed)
             \cup (Looks!DefaultThemes(new) \ (DOMAIN Looks!Empty.sections \ Bracketed))
        /\ \A n \in Looks!DefaultThemes(new) \ (DOMAIN Looks!Empty.sections \ Bracketed) :
             c.sections[n].options = Looks!DefaultColors(new)
    BY <2>1, LoadedIs
  <2> QED
    BY <1>1, <2>2
<1>3. /\ d.current = Dark /\ Looks!get_theme_names(d) = Looks!DefaultThemes(new)
      /\ \A n \in Looks!DefaultThemes(new) : d.sections[n].options = Looks!DefaultColors(new)
  BY DEF Looks!default_config, Looks!get_theme_names
<1> HIDE DEF c, d
<1>4. Looks!ThemesOf(c) = Looks!ThemesOf(d)
  BY <1>2, <1>3, SameThemes
<1>5. IsRead(c, new)
  BY <1>2, DefaultsHaveAll DEF IsRead, Completed
<1> QED
  BY <1>4, <1>5 DEF c, d

\* The same version reads what it has written.
LEMMA ReadAgain ==
  ASSUME NEW new \in BOOLEAN, NEW f, IsRead(f, new), Looks!Kept(f)
  PROVE  LET c == Looks!Loaded(new, f) IN
         IsRead(c, new) /\ Looks!ThemesOf(c) = Looks!ThemesOf(f)
<1> DEFINE c == Looks!Loaded(new, f)
           read == DOMAIN f.sections \ Bracketed
<1>1. f.current \in ThemeNames /\ f.current # None /\ Looks!get_theme_names(f) \subseteq DOMAIN f.sections
  BY ThemesAssumption DEF IsRead, Looks!get_theme_names, Looks!ConstantsFit
<1>2. /\ c = [current |-> c.current, sections |-> c.sections] /\ c.current = f.current
      /\ DOMAIN c.sections = read /\ Looks!get_theme_names(f) \subseteq read
      /\ Looks!get_theme_names(c) = Looks!get_theme_names(f)
  <2>1. Looks!DefaultThemes(new) \subseteq read
    BY DefaultsHaveAll DEF IsRead
  <2>2. /\ c = [current |-> c.current, sections |-> c.sections]
        /\ c.current = IF f.current = None THEN Dark
                       ELSE IF f.current \in Padded THEN Stripped ELSE f.current
        /\ DOMAIN c.sections = Looks!DefaultThemes(new) \cup read
        /\ Looks!get_theme_names(c) =
             (Looks!get_theme_names(f) \ Bracketed) \cup (Looks!DefaultThemes(new) \ read)
    BY LoadedIs
  <2>3. f.current \notin Padded /\ Looks!get_theme_names(f) \cap Bracketed = {}
    BY DEF Looks!Kept
  <2> HIDE DEF c
  <2> QED
    BY <1>1, <2>1, <2>2, <2>3
<1>3. ASSUME NEW n \in Looks!get_theme_names(f)
      PROVE  c.sections[n].options = f.sections[n].options
  <2>1. CASE n \in Looks!DefaultThemes(new)
    <3>1. /\ IsMap(f.sections[n].options) /\ DOMAIN f.sections[n].options = Looks!tag_desc(new)
          /\ n \in read
      BY <1>1, <1>2, <1>3, <2>1, DefaultsHaveAll DEF IsRead, Completed
    <3>2. Looks!Over(f.sections[n].options, Looks!DefaultColors(new)) = f.sections[n].options
      BY <3>1, OverAll, DefaultsHaveAll
    <3> QED
      BY <2>1, <3>1, <3>2, LoadedIs
  <2>2. CASE n \notin Looks!DefaultThemes(new)
    BY <1>1, <1>2, <1>3, <2>2, LoadedIs
  <2> QED
    BY <2>1, <2>2
<1> HIDE DEF c
<1>4. Looks!ThemesOf(c) = Looks!ThemesOf(f)
  BY <1>2, <1>3, SameThemes
<1>5. IsRead(c, new)
  BY <1>2, <1>3, DefaultsHaveAll DEF IsRead
<1> QED
  BY <1>4, <1>5 DEF c

\* A newer version reads what the older one has written: what the user has is what Upgrade says.
LEMMA ReadByNewer ==
  ASSUME NEW f, IsRead(f, FALSE), Looks!Kept(f), NEW c, c = Looks!Loaded(TRUE, f)
  PROVE  /\ IsRead(c, TRUE) /\ c.current = f.current
         /\ Looks!get_theme_names(c) =
              Looks!get_theme_names(f) \cup (Looks!DefaultThemes(TRUE) \ DOMAIN f.sections)
         /\ \A n \in Looks!get_theme_names(c) : c.sections[n].options =
              IF n \notin DOMAIN f.sections THEN Looks!DefaultColors(TRUE)
              ELSE IF n \in Looks!DefaultThemes(TRUE)
                   THEN Looks!Over(f.sections[n].options, Looks!DefaultColors(TRUE))
                   ELSE f.sections[n].options
<1> DEFINE d == Looks!DefaultThemes(TRUE)
           read == DOMAIN f.sections \ Bracketed
<1>0. /\ c = [current |-> c.current, sections |-> c.sections]
      /\ c.current = IF f.current = None THEN Dark
                     ELSE IF f.current \in Padded THEN Stripped ELSE f.current
      /\ DOMAIN c.sections = d \cup read
      /\ Looks!get_theme_names(c) = (Looks!get_theme_names(f) \ Bracketed) \cup (d \ read)
      /\ \A n \in d \ read : c.sections[n].options = Looks!DefaultColors(TRUE)
      /\ \A n \in read \ d : c.sections[n].options = f.sections[n].options
      /\ \A n \in read \cap d :
           c.sections[n].options = Looks!Over(f.sections[n].options, Looks!DefaultColors(TRUE))
  <2> DEFINE e == Looks!Loaded(TRUE, f)
  <2>1. /\ e = [current |-> e.current, sections |-> e.sections]
        /\ e.current = IF f.current = None THEN Dark
                       ELSE IF f.current \in Padded THEN Stripped ELSE f.current
        /\ DOMAIN e.sections = d \cup read
        /\ Looks!get_theme_names(e) = (Looks!get_theme_names(f) \ Bracketed) \cup (d \ read)
        /\ \A n \in d \ read : e.sections[n].options = Looks!DefaultColors(TRUE)
        /\ \A n \in read \ d : e.sections[n].options = f.sections[n].options
        /\ \A n \in read \cap d :
             e.sections[n].options = Looks!Over(f.sections[n].options, Looks!DefaultColors(TRUE))
    BY LoadedIs
  <2> HIDE DEF e
  <2>2. c = e
    BY DEF e
  <2> QED
    BY <2>1, <2>2, Zenon
<1>1. /\ f.current \in ThemeNames /\ f.current # None
      /\ Looks!get_theme_names(f) \subseteq DOMAIN f.sections
  BY ThemesAssumption DEF IsRead, Looks!get_theme_names, Looks!ConstantsFit
<1>2. /\ c = [current |-> c.current, sections |-> c.sections]
      /\ c.current = f.current
      /\ DOMAIN c.sections = d \cup read
      /\ Looks!get_theme_names(c) = Looks!get_theme_names(f) \cup (d \ DOMAIN f.sections)
      /\ Looks!get_theme_names(f) \subseteq read /\ d \cap Bracketed = {}
  <2>2. f.current \notin Padded /\ Looks!get_theme_names(f) \cap Bracketed = {}
    BY DEF Looks!Kept
  <2>3. d \cap Bracketed = {}
    BY DefaultsHaveAll
  <2> QED
    BY <1>0, <1>1, <2>2, <2>3
<1>3. \A n \in d \ read : c.sections[n].options = Looks!DefaultColors(TRUE)
  BY <1>0
<1>4. \A n \in read \ d : c.sections[n].options = f.sections[n].options
  BY <1>0
<1>5. \A n \in read \cap d :
        c.sections[n].options = Looks!Over(f.sections[n].options, Looks!DefaultColors(TRUE))
  BY <1>0
<1>6. d \subseteq ThemeNames /\ Looks!tag_desc(FALSE) \subseteq Looks!tag_desc(TRUE)
      /\ DOMAIN Looks!DefaultColors(TRUE) = Looks!tag_desc(TRUE)
      /\ IsMap(Looks!DefaultColors(TRUE)) /\ Looks!DefaultThemes(FALSE) \subseteq d
      /\ \A e \in Looks!tag_desc(TRUE) : Looks!DefaultColors(TRUE)[e] # Cut
  BY DefaultsHaveAll
<1>7. ASSUME NEW n \in Looks!get_theme_names(c)
      PROVE  Completed(c.sections[n].options, n, TRUE)
  <2>1. CASE n \notin DOMAIN f.sections
    <3>1. c.sections[n].options = Looks!DefaultColors(TRUE)
      BY <1>1, <1>2, <1>3, <1>7, <2>1
    <3> QED
      BY <1>6, <3>1 DEF Completed
  <2>2. CASE n \in read \ d
    <3>1. n \in Looks!get_theme_names(f) /\ n \notin Looks!DefaultThemes(FALSE)
      BY <1>2, <1>6, <1>7, <2>2
    <3>2. Completed(f.sections[n].options, n, FALSE) /\ c.sections[n].options = f.sections[n].options
      BY <1>4, <2>2, <3>1 DEF IsRead
    <3> QED
      BY <2>2, <3>1, <3>2 DEF Completed
  <2>3. CASE n \in read \cap d
    <3>1. n \in Looks!get_theme_names(f)
      BY <1>2, <1>7, <2>3
    <3>2. DOMAIN f.sections[n].options = Looks!tag_desc(FALSE)
          /\ \A e \in Looks!tag_desc(FALSE) : f.sections[n].options[e] # Cut
      BY <3>1 DEF IsRead, Completed
    <3>3. c.sections[n].options = Looks!Over(f.sections[n].options, Looks!DefaultColors(TRUE))
      BY <1>5, <2>3
    <3>4. /\ DOMAIN c.sections[n].options = Looks!tag_desc(TRUE) /\ IsMap(c.sections[n].options)
          /\ \A e \in Looks!tag_desc(TRUE) : c.sections[n].options[e] # Cut
      BY <1>6, <3>2, <3>3 DEF Looks!Over, IsMap
    <3> QED
      BY <3>4 DEF Completed
  <2> QED
    BY <1>2, <1>7, <2>1, <2>2, <2>3
<1>8. IsRead(c, TRUE)
  BY <1>1, <1>2, <1>6, <1>7 DEF IsRead
<1>9. \A n \in Looks!get_theme_names(c) : c.sections[n].options =
        IF n \notin DOMAIN f.sections THEN Looks!DefaultColors(TRUE)
        ELSE IF n \in d THEN Looks!Over(f.sections[n].options, Looks!DefaultColors(TRUE))
             ELSE f.sections[n].options
  BY <1>1, <1>2, <1>3, <1>4, <1>5
<1> QED
  BY <1>1, <1>2, <1>8, <1>9

\* The themes that there are first, and those after an upgrade before any was saved.
LEMMA LooksInit == Looks!Init => LooksIInv
<1> SUFFICES ASSUME Looks!Init PROVE LooksIInv
  OBVIOUS
<1>1. newer = FALSE /\ pc = "off" /\ file = Looks!Empty
      /\ seen = Looks!ThemesOf(Looks!default_config(FALSE))
  BY DEF Looks!Init
<1>2. IsRead(Looks!Loaded(newer, file), newer) /\ Looks!ThemesOf(Looks!Loaded(newer, file)) = seen
  BY <1>1, ReadEmpty
<1>3. IsConfig(file) /\ file # Looks!Unreadable
  BY <1>1, EmptyIsConfig, ConfigIsRead
<1> QED
  BY <1>1, <1>2, <1>3 DEF LooksIInv

\* What is left of a file that is being written can be read, or not its last line.
LEMMA PrefixIsConfig ==
  ASSUME NEW c, IsConfig(c), NEW f \in Looks!Prefixes(c), f # Looks!Unreadable
  PROVE  IsConfig(f)
<1>1. CASE f = Looks!Empty \/ f = c
  BY <1>1, EmptyIsConfig
<1>2. ASSUME NEW name, f = [current |-> name, sections |-> <<>>]
      PROVE  IsConfig(f)
  <2>1. DOMAIN f.sections = {} /\ Looks!get_theme_names(f) = {}
    BY <1>2 DEF Looks!get_theme_names
  <2> QED
    BY <1>2, <2>1 DEF IsConfig
<1>3. ASSUME NEW whole \in SUBSET DOMAIN c.sections, NEW n \in DOMAIN c.sections,
             NEW b \in Looks!Beginnings(c.sections[n]),
             f = Looks!Prefix(c, whole, n, b)
      PROVE  IsConfig(f)
  <2>1. /\ f = [current |-> f.current, sections |-> f.sections]
        /\ DOMAIN f.sections = whole \cup {n} /\ f.sections[n] = b
        /\ \A m \in whole \ {n} : f.sections[m] = c.sections[m]
    BY <1>3 DEF Looks!Prefix
  <2>2. b.active = TRUE => IsMap(b.options)
    <3>1. CASE b = [active |-> Cut, options |-> <<>>]
      BY <3>1, ThemesAssumption DEF Looks!ConstantsFit
    <3> DEFINE colors == Colors \cup {Cut}
               lasts == {None} \cup DOMAIN c.sections[n].options
               parts == SUBSET DOMAIN c.sections[n].options
               B(some, last, color) == Looks!Beginning(c.sections[n], some, last, color)
    <3>2. ASSUME NEW some, NEW last, NEW color PROVE IsMap(B(some, last, color).options)
      <4> DEFINE options == [e \in some |-> IF e = last THEN color ELSE c.sections[n].options[e]]
      <4>1. B(some, last, color).options = options
        BY DEF Looks!Beginning
      <4>2. IsMap(options)
        BY DEF IsMap
      <4> QED
        BY <4>1, <4>2
    <3>3. b \in {[active |-> Cut, options |-> <<>>]}
               \cup UNION {{B(some, last, color) : some \in parts, color \in colors} : last \in lasts}
      BY DEF Looks!Beginnings
    <3> HIDE DEF parts, colors, lasts, B
    <3>4. \/ b = [active |-> Cut, options |-> <<>>]
          \/ \E some \in parts, last \in lasts, color \in colors : b = B(some, last, color)
      BY <3>3
    <3> QED
      BY <3>1, <3>2, <3>4
  <2>3. \A m \in Looks!get_theme_names(f) : IsMap(f.sections[m].options)
    <3> SUFFICES ASSUME NEW m \in Looks!get_theme_names(f) PROVE IsMap(f.sections[m].options)
      OBVIOUS
    <3>1. m \in whole \cup {n} /\ f.sections[m].active = TRUE
      BY <2>1 DEF Looks!get_theme_names
    <3>2. CASE m = n
      BY <2>1, <2>2, <3>1, <3>2
    <3>3. CASE m # n
      <4>1. f.sections[m] = c.sections[m] /\ m \in DOMAIN c.sections
        BY <2>1, <3>1, <3>3
      <4>2. m \in Looks!get_theme_names(c)
        BY <3>1, <4>1 DEF Looks!get_theme_names
      <4> QED
        BY <4>1, <4>2 DEF IsConfig
    <3> QED
      BY <3>2, <3>3
  <2> QED
    BY <2>1, <2>3 DEF IsConfig
<1> QED
  <2>1. CASE f \in {[current |-> name, sections |-> <<>>] : name \in ThemeNames \cup {Cut}}
    BY <1>2, <2>1
  <2>2. CASE \E n \in DOMAIN c.sections :
                f \in {Looks!Prefix(c, whole, n, b) :
                        whole \in SUBSET DOMAIN c.sections, b \in Looks!Beginnings(c.sections[n])}
    BY <1>3, <2>2
  <2> QED
    BY <1>1, <2>1, <2>2 DEF Looks!Prefixes

\* What is written is read again as it was, if its names are; a crash leaves any beginning of it,
\* and the defaults if that is empty.
LEMMA LooksStarts ==
  ASSUME LooksIInv, Looks!Start \/ Looks!Written \/ Looks!Crash \/ Looks!Quit
  PROVE  LooksIInv'
<1>1. CASE Looks!Start
  <2>1. /\ pc = "off" /\ file # Looks!Unreadable /\ pc' = "starting" /\ config' = Looks!Loaded(newer, file)
        /\ seen' = (IF Looks!Kept(file) THEN seen ELSE None) /\ newer' = newer
    BY <1>1 DEF Looks!Start
  <2>2. IsConfig(file) /\ newer \in BOOLEAN
    BY <2>1 DEF LooksIInv
  <2>3. IsConfig(config') /\ Looks!DefaultThemes(newer) \subseteq DOMAIN config'.sections
    BY <2>1, <2>2, LoadedIsConfig
  <2>4. seen' # None => IsRead(config', newer) /\ Looks!ThemesOf(config') = seen'
    BY <2>1 DEF LooksIInv
  <2> QED
    BY <2>1, <2>2, <2>3, <2>4 DEF LooksIInv
<1>2. CASE Looks!Written /\ pc' = "running"
  BY <1>2 DEF LooksIInv, Looks!Written, Looks!HasAll
<1>3. ASSUME pc # "off", pc' = "off", file' = config, newer' = newer, seen' = seen
      PROVE  LooksIInv'
  <2>1. IsConfig(config) /\ newer \in BOOLEAN
    BY <1>3 DEF LooksIInv
  <2>2. config # Looks!Unreadable
    BY <2>1, ConfigIsRead
  <2> QED
    BY <1>3, <2>1, <2>2, ReadAgain DEF LooksIInv
<1>4. CASE Looks!Crash
  <2>1. PICK f \in Looks!Prefixes(config) :
          /\ file' = f
          /\ seen' = IF f = Looks!Empty THEN Looks!ThemesOf(Looks!default_config(newer))
                     ELSE IF f = config THEN seen ELSE None
    BY <1>4 DEF Looks!Crash
  <2>2. /\ pc' = "off" /\ pc \in {"starting", "saving"} /\ newer' = newer
    BY <1>4 DEF Looks!Crash
  <2>3. newer \in BOOLEAN /\ IsConfig(config)
    BY <2>2 DEF LooksIInv
  <2>4. CASE f = Looks!Empty
    <3>1. /\ IsRead(Looks!Loaded(newer, file'), newer)
          /\ Looks!ThemesOf(Looks!Loaded(newer, file')) = seen'
      BY <2>1, <2>3, <2>4, ReadEmpty
    <3> QED
      BY <2>1, <2>2, <2>3, <2>4, <3>1, EmptyIsConfig, ConfigIsRead DEF LooksIInv
  <2>5. CASE f # Looks!Empty /\ f = config
    BY <1>3, <2>1, <2>2, <2>5
  <2>6. CASE f # Looks!Empty /\ f # config
    BY <2>1, <2>2, <2>3, <2>6, PrefixIsConfig DEF LooksIInv
  <2> QED
    BY <2>4, <2>5, <2>6
<1>5. CASE Looks!Quit
  <2>1. pc = "running" /\ pc' = "off" /\ file' = file /\ newer' = newer /\ seen' = seen
    BY <1>5 DEF Looks!Quit
  <2>2. file = config
    BY <2>1 DEF LooksIInv
  <2> QED
    BY <1>3, <2>1, <2>2
<1>6. CASE Looks!Written /\ pc' # "running"
  <2>1. /\ pc' = "off" /\ pc \in {"starting", "saving"} /\ file' = config /\ newer' = newer
        /\ seen' = seen
    BY <1>6 DEF Looks!Written
  <2> QED
    BY <1>3, <2>1
<1> QED
  BY <1>1, <1>2, <1>4, <1>5, <1>6

\* The newer version will read the themes that the user had, with the new elements and themes.
LEMMA LooksUpgrade == ASSUME LooksIInv, Looks!Upgrade PROVE LooksIInv'
<1> DEFINE c == Looks!Loaded(TRUE, file)
           d == Looks!DefaultThemes(TRUE)
           names == DOMAIN seen.themes
           colors == Looks!DefaultColors(TRUE)
           old == [n \in names |-> IF n \in d THEN Looks!Over(seen.themes[n], colors)
                                   ELSE seen.themes[n]]
           new == [n \in NewThemes \ (DOMAIN file.sections \ names) |-> colors]
<1>0. CASE seen = None \/ ~Looks!Kept(file)
  <2>1. /\ pc = "off" /\ newer = FALSE /\ newer' = TRUE /\ pc' = pc /\ file' = file
        /\ seen = None => seen' = None
    BY DEF Looks!Upgrade, LooksIInv
  <2> QED
    BY <1>0, <2>1 DEF LooksIInv
<1> SUFFICES ASSUME seen # None, Looks!Kept(file) PROVE LooksIInv'
  BY <1>0
<1>1. /\ pc = "off" /\ newer = FALSE /\ newer' = TRUE /\ pc' = pc /\ file' = file
      /\ seen' = [current |-> seen.current, themes |-> Looks!Over(old, new)]
  BY DEF Looks!Upgrade, LooksIInv
<1>2. Looks!ThemesOf(Looks!Loaded(FALSE, file)) = seen
  BY <1>1 DEF LooksIInv
<1>5. file = Looks!Empty \/ IsRead(file, FALSE)
  BY <1>1 DEF LooksIInv
<1>3. d = {Dark} \cup NewThemes /\ Looks!DefaultThemes(FALSE) = {Dark}
  BY DEF Looks!DefaultThemes
<1>4. IsRead(c, TRUE) /\ Looks!ThemesOf(c) = seen'
  <2>1. CASE file = Looks!Empty
    <3>1. seen = Looks!ThemesOf(Looks!default_config(FALSE))
      BY <1>2, <2>1, ReadEmpty
    <3>2. IsRead(c, TRUE) /\ Looks!ThemesOf(c) = Looks!ThemesOf(Looks!default_config(TRUE))
      BY <2>1, ReadEmpty
    <3>3. /\ seen.current = Dark /\ names = {Dark}
          /\ seen.themes[Dark] = Looks!DefaultColors(FALSE)
      BY <3>1, <1>3 DEF Looks!ThemesOf, Looks!default_config, Looks!get_theme_names
    <3>4. Looks!Over(Looks!DefaultColors(FALSE), colors) = colors
      BY DEF Looks!Over, Looks!DefaultColors, Looks!tag_desc
    <3>5. DOMAIN file.sections = {}
      BY <2>1 DEF Looks!Empty
    <3>6. Looks!Over(old, new) = [n \in d |-> colors]
      <4>1. Looks!Over(seen.themes[Dark], colors) = colors
        BY <3>3, <3>4
      <4>2. old = [n \in {Dark} |-> colors] /\ new = [n \in NewThemes |-> colors]
        BY <1>3, <3>3, <3>5, <4>1
      <4> HIDE DEF old, new, colors
      <4> QED
        BY <1>3, <4>2 DEF Looks!Over
    <3>7. Looks!ThemesOf(Looks!default_config(TRUE)) = [current |-> Dark, themes |-> [n \in d |-> colors]]
      BY DEF Looks!ThemesOf, Looks!default_config, Looks!get_theme_names
    <3> QED
      BY <1>1, <3>2, <3>3, <3>6, <3>7
  <2>2. CASE IsRead(file, FALSE)
    <3>1. seen = Looks!ThemesOf(file)
      BY <1>2, <2>2, ReadAgain
    <3>2. /\ seen.current = file.current /\ names = Looks!get_theme_names(file)
          /\ \A n \in names : seen.themes[n] = file.sections[n].options
      BY <3>1 DEF Looks!ThemesOf
    <3>3. /\ IsRead(c, TRUE) /\ c.current = file.current
          /\ Looks!get_theme_names(c) = names \cup (d \ DOMAIN file.sections)
          /\ \A n \in Looks!get_theme_names(c) : c.sections[n].options =
               IF n \notin DOMAIN file.sections THEN colors
               ELSE IF n \in d THEN Looks!Over(file.sections[n].options, colors)
                    ELSE file.sections[n].options
      BY <2>2, <3>2, ReadByNewer
    <3>4. names \subseteq DOMAIN file.sections /\ Dark \in DOMAIN file.sections
      BY <1>3, <2>2, <3>2 DEF IsRead, Looks!get_theme_names
    <3> HIDE DEF c, colors, names, d
    <3>5. DOMAIN Looks!Over(old, new) = Looks!get_theme_names(c)
      BY <1>3, <3>3, <3>4 DEF Looks!Over
    <3>6. \A n \in Looks!get_theme_names(c) : Looks!Over(old, new)[n] = c.sections[n].options
      BY <1>3, <3>2, <3>3, <3>4 DEF Looks!Over
    <3>7. Looks!Over(old, new) = [n \in Looks!get_theme_names(c) |-> c.sections[n].options]
      BY <3>5, <3>6 DEF Looks!Over
    <3> QED
      BY <1>1, <3>2, <3>3, <3>7 DEF Looks!ThemesOf
  <2> HIDE DEF c
  <2> QED
    BY <1>5, <2>1, <2>2, Zenon
<1> QED
  BY <1>1, <1>4 DEF LooksIInv

\* What is done in the dialog leaves the configuration as it is.
LEMMA InDialog ==
  ASSUME LooksIInv, pc = "dialog", pc' = pc, DialogOK',
         newer' = newer, file' = file, config' = config, seen' = seen
  PROVE  LooksIInv'
BY DEF LooksIInv, Looks!HasAll

\* The dialog shows up with the themes as they are.
LEMMA LooksOpen == ASSUME LooksIInv, Looks!Open PROVE LooksIInv'
<1> DEFINE names == Looks!get_theme_names(config)
<1>1. /\ pc = "running" /\ pc' = "dialog" /\ newer' = newer /\ file' = file /\ config' = config
      /\ seen' = seen
      /\ \A n \in names : /\ DOMAIN config.sections[n].options = Looks!tag_desc(newer)
                          /\ \A e \in DOMAIN config.sections[n].options :
                               config.sections[n].options[e] # Cut
      /\ themes' = [n \in names |-> n] /\ store' = [n \in names |-> config.sections[n].options]
      /\ rows' = names /\ cursor' = config.current /\ cur_theme' = config.current
  BY DEF Looks!Open, Looks!HasAll, Looks!Range
<1>2. IsConfig(config) /\ Looks!HasAll(config, config.current)
  BY <1>1 DEF LooksIInv
<1>3. /\ config.current \in names /\ names \subseteq ThemeNames
      /\ \A n \in names : IsMap(config.sections[n].options)
  BY <1>2 DEF IsConfig, Looks!HasAll, Looks!get_theme_names
<1> HIDE DEF names
<1>4. IsInjective(themes')
  BY <1>1 DEF IsInjective
<1>5. \A n \in names : /\ themes'[n] = n /\ n \in DOMAIN store'
                       /\ store'[n] = config.sections[n].options
  BY <1>1
<1>6. DOMAIN themes' = names
  BY <1>1
<1>7. DialogOK'
  BY <1>1, <1>3, <1>4, <1>5, <1>6 DEF DialogOK
<1> QED
  BY <1>1, <1>7 DEF LooksIInv, Looks!HasAll

\* A colour is of the theme that is seen.
LEMMA LooksChange ==
  ASSUME LooksIInv, NEW e \in Looks!tag_desc(newer), NEW c \in Colors \cup {None},
         Looks!ChangeElement(e, c)
  PROVE  LooksIInv'
<1>1. /\ pc = "dialog" /\ pc' = pc /\ newer' = newer /\ file' = file /\ config' = config
      /\ seen' = seen /\ themes' = themes /\ rows' = rows /\ cursor' = cursor
      /\ cur_theme' = cur_theme
      /\ store' = [store EXCEPT ![cur_theme] = [store[cur_theme] EXCEPT ![e] = c]]
  BY DEF Looks!ChangeElement
<1>2. DialogOK
  BY <1>1 DEF LooksIInv
<1>3. DOMAIN store' = DOMAIN store
  BY <1>1
<1>4. ASSUME NEW n \in DOMAIN themes
      PROVE  /\ IsMap(store'[themes[n]]) /\ DOMAIN store'[themes[n]] = Looks!tag_desc(newer)
             /\ \A a \in DOMAIN store'[themes[n]] : store'[themes[n]][a] # Cut
  <2>1. /\ themes[n] \in DOMAIN store /\ IsMap(store[themes[n]])
        /\ DOMAIN store[themes[n]] = Looks!tag_desc(newer)
        /\ \A a \in DOMAIN store[themes[n]] : store[themes[n]][a] # Cut
    BY <1>2 DEF DialogOK
  <2>4. c # Cut
    BY ThemesAssumption DEF Looks!ConstantsFit
  <2>2. CASE themes[n] = cur_theme
    <3>1. store'[themes[n]] = [store[themes[n]] EXCEPT ![e] = c]
      BY <1>1, <2>1, <2>2
    <3> QED
      BY <2>1, <2>4, <3>1 DEF IsMap
  <2>3. CASE themes[n] # cur_theme
    <3>1. store'[themes[n]] = store[themes[n]]
      BY <1>1, <2>1, <2>3
    <3> QED
      BY <2>1, <3>1
  <2> QED
    BY <2>2, <2>3
<1>5. DialogOK'
  BY <1>1, <1>2, <1>3, <1>4 DEF DialogOK
<1> QED
  BY <1>1, <1>5, InDialog

\* The cursor goes to another row.
LEMMA LooksSelect ==
  ASSUME LooksIInv, NEW n \in ThemeNames, Looks!on_themes_trv_cursor_changed(n)
  PROVE  LooksIInv'
<1>1. /\ pc = "dialog" /\ pc' = pc /\ newer' = newer /\ file' = file /\ config' = config
      /\ seen' = seen /\ themes' = themes /\ rows' = rows /\ store' = store
      /\ n \in rows /\ cursor' = n /\ cur_theme' = themes[n]
  BY DEF Looks!on_themes_trv_cursor_changed
<1>2. DialogOK
  BY <1>1 DEF LooksIInv
<1>3. DialogOK'
  BY <1>1, <1>2 DEF DialogOK
<1> QED
  BY <1>1, <1>3, InDialog

\* There is a dictionary that is not in use, when a name is.
LEMMA NewDictionary ==
  ASSUME DialogOK, NEW n \in ThemeNames, n \notin DOMAIN themes
  PROVE  \E i \in ThemeNames : i \notin Range(themes)
<1>1. IsFiniteSet(ThemeNames)
  BY ThemesAssumption DEF Looks!ConstantsFit, Looks!IsFiniteSet, IsFiniteSet
<1>2. DOMAIN themes \subseteq ThemeNames \ {n}
  BY DEF DialogOK
<1>3. IsFiniteSet(DOMAIN themes) /\ Cardinality(DOMAIN themes) <= Cardinality(ThemeNames \ {n})
  <2>1. IsFiniteSet(ThemeNames \ {n})
    BY <1>1, FS_RemoveElement
  <2> QED
    BY <1>2, <2>1, FS_Subset
<1>4. Cardinality(ThemeNames \ {n}) = Cardinality(ThemeNames) - 1
  BY <1>1, FS_RemoveElement
<1>5. Cardinality(ThemeNames) \in Nat
  BY <1>1, FS_CardinalityType
<1> SUFFICES ASSUME ThemeNames \subseteq Range(themes) PROVE FALSE
  OBVIOUS
<1>6. Range(themes) \subseteq ThemeNames
  BY DEF DialogOK, Range
<1>7. ThemeNames = {themes[m] : m \in DOMAIN themes}
  BY <1>6 DEF Range
<1>8. Cardinality(ThemeNames) <= Cardinality(DOMAIN themes)
  <2> DEFINE f == [m \in DOMAIN themes |-> themes[m]]
  <2>1. f \in Surjection(DOMAIN themes, ThemeNames)
    BY <1>7 DEF Surjection
  <2> HIDE DEF f
  <2> QED
    BY <1>3, <2>1, FS_Surjection
<1>9. Cardinality(DOMAIN themes) \in Nat
  BY <1>3, FS_CardinalityType
<1> QED
  BY <1>3, <1>4, <1>5, <1>8, <1>9

\* The copy has a dictionary of its own.
LEMMA LooksCopy ==
  ASSUME LooksIInv, NEW n \in ThemeNames, Looks!on_copy_theme_btn_clicked(n)
  PROVE  LooksIInv'
<1> DEFINE i == CHOOSE i \in ThemeNames : i \notin Range(themes)
<1>1. /\ pc = "dialog" /\ pc' = pc /\ newer' = newer /\ file' = file /\ config' = config
      /\ seen' = seen /\ n \notin DOMAIN themes
      /\ themes' = [m \in DOMAIN themes \cup {n} |-> IF m = n THEN i ELSE themes[m]]
      /\ store' = [j \in DOMAIN store \cup {i} |-> store[IF j = i THEN themes[cursor] ELSE j]]
      /\ rows' = rows \cup {n} /\ cursor' = n /\ cur_theme' = themes'[n]
  BY DEF Looks!on_copy_theme_btn_clicked, Looks!Range, Range
<1>2. DialogOK
  BY <1>1 DEF LooksIInv
<1>3. i \in ThemeNames /\ i \notin Range(themes)
  BY <1>1, <1>2, NewDictionary
<1> HIDE DEF i
<1>4. /\ DOMAIN themes' = DOMAIN themes \cup {n} /\ themes'[n] = i
      /\ \A m \in DOMAIN themes : themes'[m] = themes[m]
  BY <1>1
<1>5. /\ store'[i] = store[themes[cursor]] /\ DOMAIN store' = DOMAIN store \cup {i}
      /\ \A m \in DOMAIN themes : store'[themes[m]] = store[themes[m]]
  <2>1. \A m \in DOMAIN themes : themes[m] # i /\ themes[m] \in DOMAIN store
    BY <1>2, <1>3 DEF DialogOK, Range
  <2> QED
    BY <1>1, <2>1
<1>6. IsInjective(themes')
  <2>1. \A a, b \in DOMAIN themes : themes[a] = themes[b] => a = b
    BY <1>2 DEF DialogOK, IsInjective
  <2>2. \A a \in DOMAIN themes : themes[a] # i
    BY <1>3 DEF Range
  <2> QED
    BY <1>4, <2>1, <2>2 DEF IsInjective
<1>7. /\ rows = DOMAIN themes /\ cursor \in DOMAIN themes /\ DOMAIN themes \subseteq ThemeNames
      /\ \A m \in DOMAIN themes :
           /\ themes[m] \in ThemeNames /\ themes[m] \in DOMAIN store
           /\ IsMap(store[themes[m]]) /\ DOMAIN store[themes[m]] = Looks!tag_desc(newer)
           /\ \A a \in DOMAIN store[themes[m]] : store[themes[m]][a] # Cut
  BY <1>2 DEF DialogOK
<1>8. \A m \in DOMAIN themes' :
        /\ themes'[m] \in ThemeNames /\ themes'[m] \in DOMAIN store'
        /\ IsMap(store'[themes'[m]]) /\ DOMAIN store'[themes'[m]] = Looks!tag_desc(newer')
        /\ \A a \in DOMAIN store'[themes'[m]] : store'[themes'[m]][a] # Cut
  BY <1>1, <1>3, <1>4, <1>5, <1>7
<1>9. DialogOK'
  BY <1>1, <1>4, <1>6, <1>7, <1>8 DEF DialogOK
<1> QED
  BY <1>1, <1>9, InDialog

\* Of the dictionaries, those of the other rows stay.
LEMMA LooksDelete ==
  ASSUME LooksIInv, NEW n \in ThemeNames, Looks!delete_theme(n)
  PROVE  LooksIInv'
<1> DEFINE others == DOMAIN themes \ {cursor}
<1>1. /\ pc = "dialog" /\ pc' = pc /\ newer' = newer /\ file' = file /\ config' = config
      /\ seen' = seen /\ n \in rows \ {cursor}
      /\ themes' = [m \in others |-> themes[m]]
      /\ store' = [j \in Range(themes') |-> store[j]]
      /\ rows' = rows \ {cursor} /\ cursor' = n /\ cur_theme' = themes'[n]
  BY DEF Looks!delete_theme, Looks!Range, Range, Looks!Restrict
<1>2. DialogOK
  BY <1>1 DEF LooksIInv
<1>3. DOMAIN themes' = others /\ \A m \in others : themes'[m] = themes[m]
  BY <1>1
<1>4. \A m \in others : themes'[m] \in DOMAIN store' /\ store'[themes'[m]] = store[themes[m]]
  BY <1>1, <1>3 DEF Range
<1>5. IsInjective(themes')
  BY <1>2, <1>3 DEF DialogOK, IsInjective
<1>6. DialogOK'
  BY <1>1, <1>2, <1>3, <1>4, <1>5 DEF DialogOK
<1> QED
  BY <1>1, <1>6, InDialog

\* The row has the same dictionary with another name.
LEMMA LooksRename ==
  ASSUME LooksIInv, NEW n \in ThemeNames, Looks!on_theme_renamed(n)
  PROVE  LooksIInv'
<1> DEFINE others == DOMAIN themes \ {cursor}
<1>1. /\ pc = "dialog" /\ pc' = pc /\ newer' = newer /\ file' = file /\ config' = config
      /\ seen' = seen /\ n \notin rows
      /\ themes' = [m \in others \cup {n} |-> themes[IF m = n THEN cursor ELSE m]]
      /\ rows' = (rows \ {cursor}) \cup {n} /\ cursor' = n /\ store' = store
      /\ cur_theme' = cur_theme
  BY DEF Looks!on_theme_renamed
<1>2. DialogOK
  BY <1>1 DEF LooksIInv
<1>3. rows = DOMAIN themes /\ cursor \in DOMAIN themes /\ cur_theme = themes[cursor]
  BY <1>2 DEF DialogOK
<1>4. /\ DOMAIN themes' = others \cup {n} /\ themes'[n] = themes[cursor]
      /\ \A m \in others : themes'[m] = themes[m]
  BY <1>1, <1>3
<1>5. IsInjective(themes')
  <2>1. \A a, b \in DOMAIN themes : themes[a] = themes[b] => a = b
    BY <1>2 DEF DialogOK, IsInjective
  <2> QED
    BY <1>3, <1>4, <2>1 DEF IsInjective
<1>6. \A m \in DOMAIN themes' :
        /\ themes'[m] \in ThemeNames /\ themes'[m] \in DOMAIN store
        /\ IsMap(store[themes'[m]]) /\ DOMAIN store[themes'[m]] = Looks!tag_desc(newer)
        /\ \A a \in DOMAIN store[themes'[m]] : store[themes'[m]][a] # Cut
  BY <1>2, <1>3, <1>4 DEF DialogOK
<1>7. DOMAIN themes' \subseteq ThemeNames
  BY <1>2, <1>4 DEF DialogOK
<1>8. DialogOK'
  BY <1>1, <1>3, <1>4, <1>5, <1>6, <1>7 DEF DialogOK
<1> QED
  BY <1>1, <1>8, InDialog

\* The dialog goes away and nothing has changed.
LEMMA LooksCancel == ASSUME LooksIInv, Looks!Cancel PROVE LooksIInv'
BY DEF LooksIInv, Looks!Cancel, Looks!HasAll

\* What the dialog showed is what the configuration then says.
LEMMA LooksOk == ASSUME LooksIInv, Looks!Ok PROVE LooksIInv'
<1> DEFINE removed == Looks!remove_themes(config).sections
           names == Looks!get_theme_names(config')
<1>1. /\ pc = "dialog" /\ pc' = "saving" /\ newer' = newer
      /\ seen' = [current |-> cursor, themes |-> [n \in rows |-> store[themes[n]]]]
  BY DEF Looks!Ok
<1>2. /\ IsConfig(config) /\ Looks!DefaultThemes(newer) \subseteq DOMAIN config.sections
      /\ DialogOK /\ newer \in BOOLEAN
  BY <1>1 DEF LooksIInv
<1>3. /\ rows = DOMAIN themes /\ cursor \in DOMAIN themes /\ cur_theme = themes[cursor]
      /\ DOMAIN themes \subseteq ThemeNames
  BY <1>2 DEF DialogOK
<1>4. (CHOOSE n \in DOMAIN themes : themes[n] = cur_theme) = cursor
  <2>1. \A n \in DOMAIN themes : themes[n] = cur_theme => n = cursor
    BY <1>2, <1>3 DEF DialogOK, IsInjective
  <2> QED
    BY <1>3, <2>1
<1>5. /\ DOMAIN removed = DOMAIN config.sections
      /\ \A n \in DOMAIN removed : removed[n].active # TRUE
  <2>1. config = [current |-> config.current, sections |-> config.sections]
    BY <1>2 DEF IsConfig
  <2>2. removed = [n \in DOMAIN config.sections |->
                     IF config.sections[n].active = TRUE THEN [active |-> FALSE, options |-> <<>>]
                     ELSE config.sections[n]]
    BY <2>1 DEF Looks!remove_themes
  <2> HIDE DEF removed
  <2> QED
    BY <2>2
<1>6. config' = [current |-> cursor,
                 sections |-> Looks!Over([n \in DOMAIN themes |->
                   [active |-> TRUE,
                    options |-> [e \in Looks!tag_desc(newer) |-> store[themes[n]][e]]]], removed)]
  <2> DEFINE shown == [n \in DOMAIN themes |->
                         [active |-> TRUE,
                          options |-> [e \in Looks!tag_desc(newer) |-> store[themes[n]][e]]]]
             c == Looks!remove_themes(config)
  <2>1. config = [current |-> config.current, sections |-> config.sections]
    BY <1>2 DEF IsConfig
  <2>2. c = [current |-> config.current, sections |-> c.sections]
    <3> DEFINE s == [n \in DOMAIN config.sections |->
                      IF config.sections[n].active = TRUE THEN [active |-> FALSE, options |-> <<>>]
                      ELSE config.sections[n]]
    <3>1. c = [config EXCEPT !.sections = s]
      BY DEF Looks!remove_themes
    <3> HIDE DEF s, c
    <3> QED
      BY <2>1, <3>1
  <2>3. config' = [[c EXCEPT !.sections = Looks!Over(shown, c.sections)] EXCEPT !.current = cursor]
    BY <1>4 DEF Looks!Ok, Looks!set_themes, Looks!Restrict
  <2> HIDE DEF c, shown
  <2>4. config' = [current |-> cursor, sections |-> Looks!Over(shown, c.sections)]
    BY <2>2, <2>3
  <2> QED
    BY <2>4 DEF c, shown
<1> HIDE DEF removed
<1>7. \A n \in DOMAIN themes :
        [e \in Looks!tag_desc(newer) |-> store[themes[n]][e]] = store[themes[n]]
  BY <1>2 DEF DialogOK, IsMap
<1>8. /\ DOMAIN config'.sections = DOMAIN themes \cup DOMAIN removed /\ config'.current = cursor
      /\ \A n \in DOMAIN themes : config'.sections[n] = [active |-> TRUE, options |-> store[themes[n]]]
      /\ \A n \in DOMAIN removed \ DOMAIN themes : config'.sections[n] = removed[n]
      /\ config' = [current |-> config'.current, sections |-> config'.sections]
  BY <1>6, <1>7 DEF Looks!Over
<1>9. ASSUME NEW n \in DOMAIN themes
      PROVE  config'.sections[n].active /\ config'.sections[n].options = store[themes[n]]
  <2> DEFINE options == store[themes[n]]
             section == config'.sections[n]
  <2>1. section = [active |-> TRUE, options |-> options]
    BY <1>8
  <2> HIDE DEF options, section
  <2>2. section.active = TRUE /\ section.options = options
    BY <2>1
  <2> QED
    BY <2>2 DEF options, section
<1>10. names = DOMAIN themes
  BY <1>5, <1>8, <1>9 DEF Looks!get_theme_names
<1> HIDE DEF names
<1>11. Looks!ThemesOf(config') = seen'
  BY <1>1, <1>3, <1>8, <1>9, <1>10 DEF Looks!ThemesOf, names
<1>12. \A n \in DOMAIN themes : Completed(config'.sections[n].options, n, newer)
  <2> SUFFICES ASSUME NEW n \in DOMAIN themes PROVE Completed(config'.sections[n].options, n, newer)
    OBVIOUS
  <2>1. config'.sections[n].options = store[themes[n]]
    BY <1>9
  <2>2. /\ IsMap(store[themes[n]]) /\ DOMAIN store[themes[n]] = Looks!tag_desc(newer)
        /\ \A e \in DOMAIN store[themes[n]] : store[themes[n]][e] # Cut
    BY <1>2 DEF DialogOK
  <2> QED
    BY <2>1, <2>2 DEF Completed
<1>13. IsRead(config', newer)
  BY <1>2, <1>3, <1>5, <1>8, <1>10, <1>12 DEF IsRead, IsConfig, names
<1>14. IsConfig(config') /\ Looks!DefaultThemes(newer) \subseteq DOMAIN config'.sections
  BY <1>13 DEF IsConfig, IsRead, Completed
<1> QED
  BY <1>1, <1>2, <1>11, <1>13, <1>14 DEF LooksIInv

\* Each step keeps it.
LEMMA LooksStep == ASSUME LooksIInv, [Looks!Next]_Looks!vars PROVE LooksIInv'
<1>1. CASE Looks!Start \/ Looks!Written \/ Looks!Crash \/ Looks!Quit
  BY <1>1, LooksStarts
<1>2. CASE Looks!Upgrade
  BY <1>2, LooksUpgrade
<1>3. CASE Looks!Open \/ Looks!Cancel \/ Looks!Ok
  BY <1>3, LooksOpen, LooksCancel, LooksOk
<1>4. ASSUME NEW e \in Looks!tag_desc(newer), NEW c \in Colors \cup {None},
             Looks!ChangeElement(e, c)
      PROVE  LooksIInv'
  BY <1>4, LooksChange
<1>5. ASSUME NEW n \in ThemeNames,
             \/ Looks!on_themes_trv_cursor_changed(n) \/ Looks!on_copy_theme_btn_clicked(n)
             \/ Looks!delete_theme(n) \/ Looks!on_theme_renamed(n)
      PROVE  LooksIInv'
  BY <1>5, LooksSelect, LooksCopy, LooksDelete, LooksRename
<1>6. CASE UNCHANGED Looks!vars
  BY <1>6 DEF LooksIInv, DialogOK, Looks!HasAll, Looks!vars, Looks!dialog
<1> QED
  BY <1>1, <1>2, <1>3, <1>4, <1>5, <1>6 DEF Looks!Next

\* Whatever the user does to the themes, and however often DreamPie is started again, or a newer
\* version of it, they are the ones that were seen last, with all that is read from them, but
\* after a stop amid the writing of the file or a name that is not read as it is written.
THEOREM ThemesRight == Looks!Spec => []ThemesAreRight
<1>1. LooksIInv => ThemesAreRight
  <2> SUFFICES ASSUME LooksIInv PROVE ThemesAreRight
    OBVIOUS
  <2>1. Looks!DialogAgrees
    BY DEF LooksIInv, DialogOK, Looks!DialogAgrees, Looks!IsInjective, IsInjective
  <2>2. Looks!ThemesAreTheUsers
    BY DEF LooksIInv, Looks!ThemesAreTheUsers
  <2>3. Looks!ThemesAreComplete
    <3>1. ASSUME pc # "off", seen # None
          PROVE  /\ config.current \in Looks!get_theme_names(config)
                 /\ \A n \in Looks!get_theme_names(config) :
                      \/ Looks!HasAll(config, n)
                      \/ /\ n \notin Looks!DefaultThemes(newer)
                         /\ DOMAIN config.sections[n].options = Looks!tag_desc(FALSE)
      BY <3>1 DEF LooksIInv, IsRead, Completed, Looks!HasAll, Looks!Range
    <3> QED
      BY <3>1 DEF LooksIInv, Looks!ThemesAreComplete
  <2> QED
    BY <2>1, <2>2, <2>3 DEF ThemesAreRight
<1> QED
  BY <1>1, LooksInit, LooksStep, PTL DEF Looks!Spec

-----------------------------------------------------------------------------
(* The output of a section. *)

\* A set of numbers has a least one.
LEMMA Least ==
  ASSUME NEW T \in SUBSET Nat, T # {}
  PROVE \E x \in T : \A y \in T : x <= y
<1> DEFINE R == {ss \in Nat \X Nat : ss[1] < ss[2]}
<1>1. IsWellFoundedOn(R, Nat)
  BY NatLessThanWellFounded DEF OpToRel
<1>2. PICK x \in T : \A y \in T : ~(<<y, x>> \in R)
  BY <1>1, WFMin
<1>3. \A y \in T : y \in Nat /\ x \in Nat /\ ~(y < x)
  BY <1>2
<1>4. QED BY <1>3

\* What holds of 0 and goes on from each number to the next holds of all.
LEMMA UpTo ==
  ASSUME NEW n \in Nat, NEW T, 0 \in T, \A i \in 0 .. n - 1 : i \in T => i + 1 \in T
  PROVE  0 .. n \subseteq T
<1> SUFFICES ASSUME ~(0 .. n \subseteq T) PROVE FALSE
  OBVIOUS
<1> DEFINE U == (0 .. n) \ T
<1>1. U \in SUBSET Nat /\ U # {}
  OBVIOUS
<1>2. PICK x \in U : \A y \in U : x <= y
  BY <1>1, Least, Zenon
<1>3. x \in 1 .. n
  BY <1>2
<1>4. x - 1 \in 0 .. n - 1 /\ (x - 1) + 1 = x
  BY <1>3
<1>5. x - 1 \in T
  BY <1>2, <1>4
<1> QED
  BY <1>2, <1>4, <1>5

\* What each turn of a loop over some data makes of what the turn before it left.
TurnByTurn(h, S, base, step, n) ==
  h \in [0 .. n -> S] /\ h[0] = base /\ \A i \in 1 .. n : h[i] = step[i][h[i - 1]]

\* A loop can take any number of turns.
LEMMA Turns ==
  ASSUME NEW S, NEW base \in S, NEW n \in Nat, NEW step \in [1 .. n -> [S -> S]]
  PROVE  \E h : TurnByTurn(h, S, base, step, n)
<1> DEFINE Good(m) == \E h \in [0 .. m -> S] : h[0] = base /\ \A i \in 1 .. m : h[i] = step[i][h[i - 1]]
           T == {m \in Nat : Good(m)}
<1>1. 0 \in T
  <2> DEFINE g == [i \in 0 .. 0 |-> base]
  <2>1. g \in [0 .. 0 -> S] /\ g[0] = base /\ \A i \in 1 .. 0 : g[i] = step[i][g[i - 1]]
    OBVIOUS
  <2> HIDE DEF g
  <2>2. Good(0)
    BY <2>1
  <2> HIDE DEF Good
  <2> QED
    BY <2>2
<1>2. ASSUME NEW m \in 0 .. n - 1, m \in T PROVE m + 1 \in T
  <2>1. PICK h \in [0 .. m -> S] : h[0] = base /\ \A i \in 1 .. m : h[i] = step[i][h[i - 1]]
    BY <1>2
  <2> DEFINE g == [i \in 0 .. m + 1 |-> IF i = m + 1 THEN step[m + 1][h[m]] ELSE h[i]]
  <2>2. h[m] \in S /\ step[m + 1][h[m]] \in S
    <3>1. m \in 0 .. m /\ m + 1 \in 1 .. n
      OBVIOUS
    <3> QED
      BY <2>1, <3>1
  <2>3. g \in [0 .. m + 1 -> S]
    BY <2>2
  <2>4. g[0] = base /\ \A i \in 1 .. m + 1 : g[i] = step[i][g[i - 1]]
    BY <2>1
  <2> HIDE DEF g
  <2>5. Good(m + 1)
    BY <2>3, <2>4
  <2> HIDE DEF Good
  <2> QED
    BY <2>5
<1> HIDE DEF T
<1>3. 0 .. n \subseteq T
  BY <1>1, <1>2, UpTo
<1>4. Good(n)
  BY <1>3 DEF T
<1> QED
  BY <1>4 DEF TurnByTurn

\* Inside is the loop of InEscape.
LEMMA InsideTurns ==
  ASSUME NEW D, Len(D) \in Nat
  PROVE  /\ Out!Inside(D) \in [0 .. Len(D) -> BOOLEAN] /\ Out!Inside(D)[0] = FALSE
         /\ \A i \in 1 .. Len(D) : Out!Inside(D)[i] = Out!InEscape(Out!Inside(D)[i - 1], D[i])
<1> DEFINE N == Len(D)
           step == [i \in 1 .. N |-> [x \in BOOLEAN |-> Out!InEscape(x, D[i])]]
           Is(g) == g = [i \in 0 .. N |-> IF i = 0 THEN FALSE ELSE Out!InEscape(g[i - 1], D[i])]
           h == CHOOSE g : Is(g)
<1>1. N \in Nat /\ \A i \in 1 .. N, x \in BOOLEAN : Out!InEscape(x, D[i]) \in BOOLEAN
  BY DEF Out!InEscape
<1> HIDE DEF N
<1>2. PICK f : TurnByTurn(f, BOOLEAN, FALSE, step, N)
  <2>1. step \in [1 .. N -> [BOOLEAN -> BOOLEAN]]
    BY <1>1
  <2> HIDE DEF step
  <2>2. FALSE \in BOOLEAN
    OBVIOUS
  <2> QED
    BY <1>1, <2>1, <2>2, Turns, Zenon
<1>3. f \in [0 .. N -> BOOLEAN] /\ f[0] = FALSE /\ \A i \in 1 .. N : f[i] = step[i][f[i - 1]]
  BY <1>2, Zenon DEF TurnByTurn
<1>4. \A i \in 1 .. N : f[i] = Out!InEscape(f[i - 1], D[i])
  <2> SUFFICES ASSUME NEW i \in 1 .. N PROVE f[i] = Out!InEscape(f[i - 1], D[i])
    OBVIOUS
  <2>1. i - 1 \in 0 .. N
    BY <1>1
  <2>2. f[i - 1] \in BOOLEAN
    BY <1>3, <2>1
  <2> QED
    BY <1>3, <2>2
<1>5. Is(h)
  <2>1. \A i \in 0 .. N : i = 0 \/ i \in 1 .. N
    BY <1>1
  <2>2. \A i \in 0 .. N : f[i] = IF i = 0 THEN FALSE ELSE Out!InEscape(f[i - 1], D[i])
    BY <1>3, <1>4, <2>1
  <2>3. Is(f)
    BY <1>3, <2>2
  <2> HIDE DEF Is
  <2> QED
    BY <2>3
<1>6. \A i \in 0 .. N : h[i] = IF i = 0 THEN FALSE ELSE Out!InEscape(h[i - 1], D[i])
  <2> HIDE DEF h
  <2> QED
    BY <1>5
<1>7. h = [i \in 0 .. N |-> h[i]]
  <2> HIDE DEF h
  <2> QED
    BY <1>5
<1>8. Out!Inside(D) = h
  BY DEF Out!Inside, N
<1> HIDE DEF h, Is
<1>9. h[0] = FALSE /\ \A i \in 1 .. N : h[i] = Out!InEscape(h[i - 1], D[i])
  <2>1. 0 \in 0 .. N /\ \A i \in 1 .. N : i \in 0 .. N /\ i # 0
    BY <1>1
  <2> QED
    BY <1>6, <2>1, Zenon
<1>10. \A i \in 0 .. N : h[i] \in BOOLEAN
  <2> SUFFICES ASSUME NEW i \in 0 .. N PROVE h[i] \in BOOLEAN
    OBVIOUS
  <2>1. i = 0 \/ i \in 1 .. N
    BY <1>1
  <2> QED
    BY <1>9, <2>1 DEF Out!InEscape
<1> QED
  BY <1>7, <1>8, <1>9, <1>10 DEF N

\* What is marked is as long as what it is of, and no escape that ends is left in it.
LEMMA MarkedTyped ==
  ASSUME NEW D \in Seq({"a", "n", "r", "e", "["})
  PROVE  /\ Out!Marked(D) \in Seq({"a", "n", "r", "e"}) /\ Len(Out!Marked(D)) = Len(D)
         /\ Out!EndsInside(D) \in BOOLEAN
         /\ \A i \in 1 .. Len(D) :
              Out!Marked(D)[i] =
                IF (Out!Inside(D)[i - 1] \/ Out!Inside(D)[i]) /\ \E j \in i .. Len(D) : ~Out!Inside(D)[j]
                THEN "e" ELSE IF D[i] = "[" THEN "a" ELSE D[i]
<1> DEFINE N == Len(D)
           m == Out!Marked(D)
<1>1. N \in Nat /\ \A i \in 1 .. N : D[i] \in {"a", "n", "r", "e", "["}
  OBVIOUS
<1>2. PICK in : in = Out!Inside(D)
  OBVIOUS
<1>3. in \in [0 .. N -> BOOLEAN]
  BY <1>1, <1>2, InsideTurns
<1>4. m = [i \in 1 .. N |->
             IF (in[i - 1] \/ in[i]) /\ \E j \in i .. N : ~in[j] THEN "e"
             ELSE IF D[i] = "[" THEN "a" ELSE D[i]]
  BY <1>2 DEF Out!Marked
<1>5. Out!EndsInside(D) \in BOOLEAN
  <2>1. Out!EndsInside(D) = in[N]
    BY <1>2 DEF Out!EndsInside
  <2>2. N \in 0 .. N
    BY <1>1
  <2> QED
    BY <1>3, <2>1, <2>2
<1> HIDE DEF m, N
<1>6. \A i \in 1 .. N : m[i] \in {"a", "n", "r", "e"}
  BY <1>1, <1>4
<1>7. m \in [1 .. N -> {"a", "n", "r", "e"}]
  BY <1>4, <1>6
<1>8. m \in Seq({"a", "n", "r", "e"}) /\ Len(m) = N
  BY <1>1, <1>7
<1> QED
  BY <1>2, <1>4, <1>5, <1>8 DEF m, N

\* After a string that cuts no escape, one goes on as it would alone.
LEMMA InsideJoins ==
  ASSUME NEW s \in Seq({"a", "n", "r", "e", "["}), NEW D \in Seq({"a", "n", "r", "e", "["}),
         ~Out!EndsInside(s)
  PROVE  /\ \A i \in 0 .. Len(s) : Out!Inside(s \o D)[i] = Out!Inside(s)[i]
         /\ \A i \in 0 .. Len(D) : Out!Inside(s \o D)[Len(s) + i] = Out!Inside(D)[i]
         /\ Out!EndsInside(s \o D) = Out!EndsInside(D)
<1> DEFINE m == Len(s)
           n == Len(D)
           v == s \o D
<1>1. /\ m \in Nat /\ n \in Nat /\ Len(v) = m + n
      /\ \A i \in 1 .. m : v[i] = s[i]
      /\ \A i \in 1 .. n : v[m + i] = D[i]
  OBVIOUS
<1>2. PICK x, y, z : x = Out!Inside(s) /\ y = Out!Inside(D) /\ z = Out!Inside(v)
  OBVIOUS
<1>3. /\ x \in [0 .. m -> BOOLEAN]
      /\ x[0] = FALSE /\ \A i \in 1 .. m : x[i] = Out!InEscape(x[i - 1], s[i])
      /\ y[0] = FALSE /\ \A i \in 1 .. n : y[i] = Out!InEscape(y[i - 1], D[i])
  BY <1>1, <1>2, InsideTurns
<1>4. z[0] = FALSE /\ \A i \in 1 .. m + n : z[i] = Out!InEscape(z[i - 1], v[i])
  <2>1. Len(v) \in Nat
    BY <1>1
  <2> HIDE DEF v
  <2> QED
    BY <1>1, <1>2, <2>1, InsideTurns
<1>5. ~x[m]
  BY <1>2 DEF Out!EndsInside
<1>6. Out!EndsInside(v) = z[m + n] /\ Out!EndsInside(D) = y[n]
  BY <1>1, <1>2 DEF Out!EndsInside
<1> HIDE DEF m, n, v
<1> DEFINE P == {i \in 0 .. m : z[i] = x[i]}
<1>7. 0 .. m \subseteq P
  <2>1. 0 \in P
    <3>1. 0 \in 0 .. m
      BY <1>1
    <3> QED
      BY <1>3, <1>4, <3>1, Zenon
  <2>2. ASSUME NEW i \in 0 .. m - 1, i \in P PROVE i + 1 \in P
    <3>1. i + 1 \in 1 .. m /\ i + 1 \in 1 .. m + n /\ (i + 1) - 1 = i /\ i + 1 \in 0 .. m
      BY <1>1
    <3>2. /\ z[i + 1] = Out!InEscape(z[(i + 1) - 1], v[i + 1]) /\ x[i + 1] = Out!InEscape(x[(i + 1) - 1], s[i + 1])
          /\ v[i + 1] = s[i + 1]
      BY <1>1, <1>3, <1>4, <3>1
    <3> QED
      BY <2>2, <3>1, <3>2
  <2> HIDE DEF P
  <2> QED
    BY <1>1, <2>1, <2>2, UpTo
<1> DEFINE Q == {i \in 0 .. n : z[m + i] = y[i]}
<1>8. 0 .. n \subseteq Q
  <2>1. 0 \in Q
    <3>1. m \in 0 .. m /\ m + 0 = m /\ 0 \in 0 .. n
      BY <1>1
    <3>2. z[m] = x[m] /\ x[m] \in BOOLEAN
      BY <1>3, <1>7, <3>1, Zenon
    <3>3. z[m + 0] = FALSE
      BY <1>5, <3>1, <3>2, Zenon
    <3> QED
      BY <1>3, <3>1, <3>3, Zenon
  <2>2. ASSUME NEW i \in 0 .. n - 1, i \in Q PROVE i + 1 \in Q
    <3>1. /\ i + 1 \in 1 .. n /\ m + (i + 1) \in 1 .. m + n /\ (m + (i + 1)) - 1 = m + i
          /\ (i + 1) - 1 = i /\ i + 1 \in 0 .. n
      <4>1. m \in Nat /\ n \in Nat /\ i \in 0 .. n - 1
        BY <1>1
      <4> HIDE DEF Q
      <4> QED
        BY <4>1
    <3>2. /\ z[m + (i + 1)] = Out!InEscape(z[(m + (i + 1)) - 1], v[m + (i + 1)])
          /\ y[i + 1] = Out!InEscape(y[(i + 1) - 1], D[i + 1])
          /\ v[m + (i + 1)] = D[i + 1]
      BY <1>1, <1>3, <1>4, <3>1
    <3>3. z[m + i] = y[i]
      BY <2>2
    <3> QED
      BY <3>1, <3>2, <3>3
  <2> HIDE DEF P, Q
  <2> QED
    BY <1>1, <2>1, <2>2, UpTo
<1>9. Out!EndsInside(v) = Out!EndsInside(D)
  <2>1. n \in 0 .. n
    BY <1>1
  <2>2. z[m + n] = y[n]
    BY <1>8, <2>1
  <2> QED
    BY <1>6, <2>2
<1> QED
  BY <1>2, <1>7, <1>8, <1>9 DEF m, n, v

\* So what is marked of both is what is marked of each.
LEMMA MarkedJoins ==
  ASSUME NEW s \in Seq({"a", "n", "r", "e", "["}), NEW D \in Seq({"a", "n", "r", "e", "["}),
         ~Out!EndsInside(s)
  PROVE  Out!Marked(s \o D) = Out!Marked(s) \o Out!Marked(D)
<1> DEFINE A == {"a", "n", "r", "e", "["}
           B == {"a", "n", "r", "e"}
           v == s \o D
           m == Len(s)
           n == Len(D)
<1>1. /\ m \in Nat /\ n \in Nat /\ v \in Seq(A) /\ Len(v) = m + n
      /\ \A i \in 1 .. m : v[i] = s[i]
      /\ \A i \in 1 .. n : v[m + i] = D[i]
  OBVIOUS
<1>2. PICK x, y, z : x = Out!Inside(s) /\ y = Out!Inside(D) /\ z = Out!Inside(v)
  OBVIOUS
<1>3. /\ \A i \in 0 .. m : z[i] = x[i]
      /\ \A i \in 0 .. n : z[m + i] = y[i]
      /\ ~x[m]
  BY <1>2, InsideJoins DEF Out!EndsInside
<1>4. PICK p, q, u : p = Out!Marked(s) /\ q = Out!Marked(D) /\ u = Out!Marked(v)
  OBVIOUS
<1>5. /\ p \in Seq(B) /\ Len(p) = m /\ q \in Seq(B) /\ Len(q) = n
      /\ \A i \in 1 .. m : p[i] = IF (x[i - 1] \/ x[i]) /\ \E j \in i .. m : ~x[j]
                                 THEN "e" ELSE IF s[i] = "[" THEN "a" ELSE s[i]
      /\ \A i \in 1 .. n : q[i] = IF (y[i - 1] \/ y[i]) /\ \E j \in i .. n : ~y[j]
                                 THEN "e" ELSE IF D[i] = "[" THEN "a" ELSE D[i]
  BY <1>2, <1>4, MarkedTyped
<1>6. /\ u \in Seq(B) /\ Len(u) = m + n
      /\ \A i \in 1 .. m + n : u[i] = IF (z[i - 1] \/ z[i]) /\ \E j \in i .. m + n : ~z[j]
                                     THEN "e" ELSE IF v[i] = "[" THEN "a" ELSE v[i]
  <2>1. v \in Seq({"a", "n", "r", "e", "["}) /\ Len(v) = m + n
    BY <1>1
  <2> HIDE DEF v, m, n
  <2>2. /\ u \in Seq(B) /\ Len(u) = Len(v)
        /\ \A i \in 1 .. Len(v) : u[i] = IF (z[i - 1] \/ z[i]) /\ \E j \in i .. Len(v) : ~z[j]
                                       THEN "e" ELSE IF v[i] = "[" THEN "a" ELSE v[i]
    BY <1>2, <1>4, <2>1, MarkedTyped
  <2> QED
    BY <2>1, <2>2
<1> HIDE DEF v, m, n
<1>7. \A i \in 1 .. m : u[i] = p[i]
  <2> SUFFICES ASSUME NEW i \in 1 .. m PROVE u[i] = p[i]
    OBVIOUS
  <2>1. /\ i \in 1 .. m + n /\ i - 1 \in 0 .. m /\ i \in 0 .. m /\ m \in i .. m /\ m \in i .. m + n
        /\ m \in 0 .. m
    BY <1>1
  <2>2. z[i - 1] = x[i - 1] /\ z[i] = x[i] /\ ~z[m] /\ ~x[m] /\ v[i] = s[i]
    BY <1>1, <1>3, <2>1
  <2> QED
    BY <1>5, <1>6, <2>1, <2>2
<1>8. \A i \in 1 .. n : u[m + i] = q[i]
  <2> SUFFICES ASSUME NEW i \in 1 .. n PROVE u[m + i] = q[i]
    OBVIOUS
  <2>1. m + i \in 1 .. m + n /\ i - 1 \in 0 .. n /\ i \in 0 .. n /\ (m + i) - 1 = m + (i - 1)
    BY <1>1
  <2>2. z[(m + i) - 1] = y[i - 1] /\ z[m + i] = y[i] /\ v[m + i] = D[i]
    BY <1>1, <1>3, <2>1
  <2>3. (\E j \in m + i .. m + n : ~z[j]) <=> \E j \in i .. n : ~y[j]
    <3>1. ASSUME NEW j \in m + i .. m + n, ~z[j] PROVE \E k \in i .. n : ~y[k]
      <4>1. j - m \in i .. n /\ j - m \in 0 .. n /\ m + (j - m) = j
        BY <1>1
      <4>2. z[m + (j - m)] = y[j - m]
        BY <1>3, <4>1
      <4> QED
        BY <3>1, <4>1, <4>2
    <3>2. ASSUME NEW j \in i .. n, ~y[j] PROVE \E k \in m + i .. m + n : ~z[k]
      <4>1. m + j \in m + i .. m + n /\ j \in 0 .. n
        BY <1>1
      <4>2. z[m + j] = y[j]
        BY <1>3, <4>1
      <4> QED
        BY <3>2, <4>1, <4>2
    <3> QED
      BY <3>1, <3>2
  <2>4. u[m + i] = IF (z[(m + i) - 1] \/ z[m + i]) /\ \E j \in m + i .. m + n : ~z[j]
                   THEN "e" ELSE IF v[m + i] = "[" THEN "a" ELSE v[m + i]
    BY <1>6, <2>1
  <2> QED
    BY <1>5, <2>2, <2>3, <2>4
<1> DEFINE w == p \o q
<1>9. /\ w \in Seq(B) /\ Len(w) = m + n
      /\ \A i \in 1 .. m : w[i] = p[i]
      /\ \A i \in 1 .. n : w[m + i] = q[i]
  <2>1. p \in Seq(B) /\ q \in Seq(B) /\ Len(p) = m /\ Len(q) = n
    BY <1>5
  <2> HIDE DEF B, w
  <2>2. /\ w \in Seq(B) /\ Len(w) = Len(p) + Len(q)
        /\ \A i \in 1 .. Len(p) + Len(q) : w[i] = IF i <= Len(p) THEN p[i] ELSE q[i - Len(p)]
    BY <2>1, ConcatProperties DEF w
  <2>3. \A i \in 1 .. n : m + i \in 1 .. m + n /\ ~(m + i <= m) /\ (m + i) - m = i
    BY <1>1
  <2>4. \A i \in 1 .. m : i \in 1 .. m + n /\ i <= m
    BY <1>1
  <2> QED
    BY <2>1, <2>2, <2>3, <2>4
<1> HIDE DEF w, B
<1>10. \A i \in 1 .. Len(u) : u[i] = w[i]
  <2> SUFFICES ASSUME NEW i \in 1 .. m + n PROVE u[i] = w[i]
    BY <1>6
  <2>1. CASE i \in 1 .. m
    BY <1>7, <1>9, <2>1
  <2>2. CASE i \notin 1 .. m
    <3>1. i - m \in 1 .. n /\ m + (i - m) = i
      BY <1>1, <2>2
    <3>2. u[m + (i - m)] = q[i - m] /\ w[m + (i - m)] = q[i - m]
      BY <1>8, <1>9, <3>1
    <3> QED
      BY <3>1, <3>2
  <2> QED
    BY <2>1, <2>2
<1>11. u = w
  BY <1>6, <1>9, <1>10, SeqEqual
<1> QED
  BY <1>4, <1>11 DEF v, w

\* Where no escape begins, there is nothing to mark.
LEMMA MarkedPlain ==
  ASSUME NEW D \in Seq({"a", "n"}) PROVE Out!Marked(D) = D
<1> DEFINE n == Len(D)
           C == {"a", "n", "r", "e", "["}
           m == Out!Marked(D)
<1>1. n \in Nat /\ D \in Seq(C) /\ \A i \in 1 .. n : D[i] \in {"a", "n"}
  <2>1. {"a", "n"} \subseteq C
    OBVIOUS
  <2> HIDE DEF C
  <2>2. Seq({"a", "n"}) \subseteq Seq(C)
    BY <2>1
  <2> QED
    BY <2>2
<1>2. PICK in : in = Out!Inside(D)
  OBVIOUS
<1>3. in[0] = FALSE /\ \A i \in 1 .. n : in[i] = Out!InEscape(in[i - 1], D[i])
  BY <1>1, <1>2, InsideTurns
<1>4. /\ m \in Seq({"a", "n", "r", "e"}) /\ Len(m) = n
      /\ \A i \in 1 .. n : m[i] = IF (in[i - 1] \/ in[i]) /\ \E j \in i .. n : ~in[j]
                                 THEN "e" ELSE IF D[i] = "[" THEN "a" ELSE D[i]
  BY <1>1, <1>2, MarkedTyped
<1> DEFINE Q == {i \in 0 .. n : in[i] = FALSE}
<1> HIDE DEF m
<1>5. 0 .. n \subseteq Q
  <2>1. 0 \in Q
    BY <1>1, <1>3
  <2>2. ASSUME NEW i \in 0 .. n - 1, i \in Q PROVE i + 1 \in Q
    <3>1. i + 1 \in 1 .. n /\ (i + 1) - 1 = i /\ i + 1 \in 0 .. n
      BY <1>1
    <3>2. in[i + 1] = Out!InEscape(in[i], D[i + 1]) /\ D[i + 1] \in {"a", "n"}
      BY <1>1, <1>3, <3>1
    <3> QED
      BY <2>2, <3>1, <3>2 DEF Out!InEscape
  <2> HIDE DEF Q, n
  <2> QED
    BY <1>1, <2>1, <2>2, UpTo
<1>6. \A i \in 1 .. Len(m) : m[i] = D[i]
  <2> SUFFICES ASSUME NEW i \in 1 .. n PROVE m[i] = D[i]
    BY <1>4
  <2>1. i - 1 \in 0 .. n /\ i \in 0 .. n
    BY <1>1
  <2>2. in[i - 1] = FALSE /\ in[i] = FALSE
    BY <1>5, <2>1
  <2>3. D[i] # "["
    BY <1>1
  <2> QED
    BY <1>4, <2>2, <2>3
<1>7. D \in Seq({"a", "n", "r", "e"}) /\ Len(D) = Len(m)
  <2> DEFINE B == {"a", "n", "r", "e"}
  <2>1. {"a", "n"} \subseteq B
    OBVIOUS
  <2> HIDE DEF B
  <2>2. Seq({"a", "n"}) \subseteq Seq(B)
    BY <2>1
  <2> QED
    BY <1>4, <2>2 DEF B
<1>8. m = D
  BY <1>4, <1>6, <1>7, SeqEqual
<1> QED
  BY <1>8 DEF m

\* What Cleaned makes of data, turn by turn.
CleanStays(S, D) == <<>> \in S /\ Len(D) \in Nat /\ \A i \in 1 .. Len(D), x \in S : Out!Clean(x, D, i) \in S

\* Cleaned is the loop of Clean.
LEMMA CleanTurns ==
  ASSUME NEW S, NEW D, CleanStays(S, D)
  PROVE  \E h \in [0 .. Len(D) -> S] :
           /\ h[0] = <<>> /\ \A i \in 1 .. Len(D) : h[i] = Out!Clean(h[i - 1], D, i)
           /\ Out!Cleaned(D) = h[Len(D)]
<1> DEFINE N == Len(D)
           step == [i \in 1 .. N |-> [x \in S |-> Out!Clean(x, D, i)]]
           Is(g) == g = [i \in 0 .. N |-> IF i = 0 THEN <<>> ELSE Out!Clean(g[i - 1], D, i)]
           h == CHOOSE g : Is(g)
<1>1. <<>> \in S /\ N \in Nat /\ \A i \in 1 .. N, x \in S : Out!Clean(x, D, i) \in S
  BY DEF CleanStays
<1> HIDE DEF N
<1>2. PICK f : TurnByTurn(f, S, <<>>, step, N)
  <2>1. step \in [1 .. N -> [S -> S]]
    BY <1>1
  <2> HIDE DEF step
  <2> QED
    BY <1>1, <2>1, Turns, Zenon
<1>3. f \in [0 .. N -> S] /\ f[0] = <<>> /\ \A i \in 1 .. N : f[i] = step[i][f[i - 1]]
  BY <1>2, Zenon DEF TurnByTurn
<1>4. \A i \in 1 .. N : f[i] = Out!Clean(f[i - 1], D, i)
  <2> SUFFICES ASSUME NEW i \in 1 .. N PROVE f[i] = Out!Clean(f[i - 1], D, i)
    OBVIOUS
  <2>1. i - 1 \in 0 .. N
    BY <1>1
  <2>2. f[i - 1] \in S
    BY <1>3, <2>1
  <2> QED
    BY <1>3, <2>2
<1>5. Is(h)
  <2>1. \A i \in 0 .. N : i = 0 \/ i \in 1 .. N
    BY <1>1
  <2>2. \A i \in 0 .. N : f[i] = IF i = 0 THEN <<>> ELSE Out!Clean(f[i - 1], D, i)
    BY <1>3, <1>4, <2>1
  <2>3. Is(f)
    BY <1>3, <2>2
  <2> HIDE DEF Is
  <2> QED
    BY <2>3
<1>6. \A i \in 0 .. N : h[i] = IF i = 0 THEN <<>> ELSE Out!Clean(h[i - 1], D, i)
  <2> HIDE DEF h
  <2> QED
    BY <1>5
<1>7. h = [i \in 0 .. N |-> h[i]]
  <2> HIDE DEF h
  <2> QED
    BY <1>5
<1>8. Out!Cleaned(D) = h[N]
  BY DEF Out!Cleaned, N
<1> HIDE DEF h, Is
<1>9. h \in [0 .. N -> S]
  <2> DEFINE Q == {i \in 0 .. N : h[i] \in S}
  <2>1. 0 \in Q
    BY <1>1, <1>6
  <2>2. ASSUME NEW i \in 0 .. N - 1, i \in Q PROVE i + 1 \in Q
    <3>1. i + 1 \in 1 .. N /\ i + 1 \in 0 .. N /\ (i + 1) - 1 = i /\ i + 1 # 0
      BY <1>1
    <3>2. h[i + 1] = IF i + 1 = 0 THEN <<>> ELSE Out!Clean(h[(i + 1) - 1], D, i + 1)
      BY <1>6, <3>1
    <3>3. Out!Clean(h[i], D, i + 1) \in S
      BY <1>1, <2>2, <3>1
    <3> QED
      BY <3>1, <3>2, <3>3
  <2> HIDE DEF Q
  <2>3. 0 .. N \subseteq Q
    BY <1>1, <2>1, <2>2, UpTo
  <2>4. \A i \in 0 .. N : h[i] \in S
    BY <2>3 DEF Q
  <2> QED
    BY <1>7, <2>4
<1>10. h[0] = <<>> /\ \A i \in 1 .. N : h[i] = Out!Clean(h[i - 1], D, i)
  BY <1>1, <1>6
<1> QED
  BY <1>8, <1>9, <1>10 DEF N

\* What Displayed makes of data, turn by turn.
DisplayStays(S, D) == <<>> \in S /\ Len(D) \in Nat /\ \A i \in 1 .. Len(D), x \in S : Out!Display(x, D[i]) \in S

\* Displayed is the loop of Display.
LEMMA DisplayTurns ==
  ASSUME NEW S, NEW D, DisplayStays(S, D)
  PROVE  \E h \in [0 .. Len(D) -> S] :
           /\ h[0] = <<>> /\ \A i \in 1 .. Len(D) : h[i] = Out!Display(h[i - 1], D[i])
           /\ Out!Displayed(D) = h[Len(D)]
<1> DEFINE N == Len(D)
           step == [i \in 1 .. N |-> [x \in S |-> Out!Display(x, D[i])]]
           Is(g) == g = [i \in 0 .. N |-> IF i = 0 THEN <<>> ELSE Out!Display(g[i - 1], D[i])]
           h == CHOOSE g : Is(g)
<1>1. <<>> \in S /\ N \in Nat /\ \A i \in 1 .. N, x \in S : Out!Display(x, D[i]) \in S
  BY DEF DisplayStays
<1> HIDE DEF N
<1>2. PICK f : TurnByTurn(f, S, <<>>, step, N)
  <2>1. step \in [1 .. N -> [S -> S]]
    BY <1>1
  <2> HIDE DEF step
  <2> QED
    BY <1>1, <2>1, Turns, Zenon
<1>3. f \in [0 .. N -> S] /\ f[0] = <<>> /\ \A i \in 1 .. N : f[i] = step[i][f[i - 1]]
  BY <1>2, Zenon DEF TurnByTurn
<1>4. \A i \in 1 .. N : f[i] = Out!Display(f[i - 1], D[i])
  <2> SUFFICES ASSUME NEW i \in 1 .. N PROVE f[i] = Out!Display(f[i - 1], D[i])
    OBVIOUS
  <2>1. i - 1 \in 0 .. N
    BY <1>1
  <2>2. f[i - 1] \in S
    BY <1>3, <2>1
  <2> QED
    BY <1>3, <2>2
<1>5. Is(h)
  <2>1. \A i \in 0 .. N : i = 0 \/ i \in 1 .. N
    BY <1>1
  <2>2. \A i \in 0 .. N : f[i] = IF i = 0 THEN <<>> ELSE Out!Display(f[i - 1], D[i])
    BY <1>3, <1>4, <2>1
  <2>3. Is(f)
    BY <1>3, <2>2
  <2> HIDE DEF Is
  <2> QED
    BY <2>3
<1>6. \A i \in 0 .. N : h[i] = IF i = 0 THEN <<>> ELSE Out!Display(h[i - 1], D[i])
  <2> HIDE DEF h
  <2> QED
    BY <1>5
<1>7. h = [i \in 0 .. N |-> h[i]]
  <2> HIDE DEF h
  <2> QED
    BY <1>5
<1>8. Out!Displayed(D) = h[N]
  BY DEF Out!Displayed, N
<1> HIDE DEF h, Is
<1>9. h \in [0 .. N -> S]
  <2> DEFINE Q == {i \in 0 .. N : h[i] \in S}
  <2>1. 0 \in Q
    BY <1>1, <1>6
  <2>2. ASSUME NEW i \in 0 .. N - 1, i \in Q PROVE i + 1 \in Q
    <3>1. i + 1 \in 1 .. N /\ i + 1 \in 0 .. N /\ (i + 1) - 1 = i /\ i + 1 # 0
      BY <1>1
    <3>2. h[i + 1] = IF i + 1 = 0 THEN <<>> ELSE Out!Display(h[(i + 1) - 1], D[i + 1])
      BY <1>6, <3>1
    <3>3. Out!Display(h[i], D[i + 1]) \in S
      BY <1>1, <2>2, <3>1
    <3> QED
      BY <3>1, <3>2, <3>3
  <2> HIDE DEF Q
  <2>3. 0 .. N \subseteq Q
    BY <1>1, <2>1, <2>2, UpTo
  <2>4. \A i \in 0 .. N : h[i] \in S
    BY <2>3 DEF Q
  <2> QED
    BY <1>7, <2>4
<1>10. h[0] = <<>> /\ \A i \in 1 .. N : h[i] = Out!Display(h[i - 1], D[i])
  BY <1>1, <1>6
<1> QED
  BY <1>8, <1>9, <1>10 DEF N

\* What Broken makes of data that follow a text, turn by turn.
BreakStays(S, base, D) == base \in S /\ Len(D) \in Nat /\ \A i \in 1 .. Len(D), x \in S : Out!Break(x, D[i]) \in S

\* Broken is the loop of Break.
LEMMA BreakTurns ==
  ASSUME NEW S, NEW base, NEW D, BreakStays(S, base, D)
  PROVE  \E h \in [0 .. Len(D) -> S] :
           /\ h[0] = base /\ \A i \in 1 .. Len(D) : h[i] = Out!Break(h[i - 1], D[i])
           /\ Out!Broken(base, D) = h[Len(D)]
<1> DEFINE N == Len(D)
           step == [i \in 1 .. N |-> [x \in S |-> Out!Break(x, D[i])]]
           Is(g) == g = [i \in 0 .. N |-> IF i = 0 THEN base ELSE Out!Break(g[i - 1], D[i])]
           h == CHOOSE g : Is(g)
<1>1. base \in S /\ N \in Nat /\ \A i \in 1 .. N, x \in S : Out!Break(x, D[i]) \in S
  BY DEF BreakStays
<1> HIDE DEF N
<1>2. PICK f : TurnByTurn(f, S, base, step, N)
  <2>1. step \in [1 .. N -> [S -> S]]
    BY <1>1
  <2> HIDE DEF step
  <2> QED
    BY <1>1, <2>1, Turns, Zenon
<1>3. f \in [0 .. N -> S] /\ f[0] = base /\ \A i \in 1 .. N : f[i] = step[i][f[i - 1]]
  BY <1>2, Zenon DEF TurnByTurn
<1>4. \A i \in 1 .. N : f[i] = Out!Break(f[i - 1], D[i])
  <2> SUFFICES ASSUME NEW i \in 1 .. N PROVE f[i] = Out!Break(f[i - 1], D[i])
    OBVIOUS
  <2>1. i - 1 \in 0 .. N
    BY <1>1
  <2>2. f[i - 1] \in S
    BY <1>3, <2>1
  <2> QED
    BY <1>3, <2>2
<1>5. Is(h)
  <2>1. \A i \in 0 .. N : i = 0 \/ i \in 1 .. N
    BY <1>1
  <2>2. \A i \in 0 .. N : f[i] = IF i = 0 THEN base ELSE Out!Break(f[i - 1], D[i])
    BY <1>3, <1>4, <2>1
  <2>3. Is(f)
    BY <1>3, <2>2
  <2> HIDE DEF Is
  <2> QED
    BY <2>3
<1>6. \A i \in 0 .. N : h[i] = IF i = 0 THEN base ELSE Out!Break(h[i - 1], D[i])
  <2> HIDE DEF h
  <2> QED
    BY <1>5
<1>7. h = [i \in 0 .. N |-> h[i]]
  <2> HIDE DEF h
  <2> QED
    BY <1>5
<1>8. Out!Broken(base, D) = h[N]
  BY DEF Out!Broken, N
<1> HIDE DEF h, Is
<1>9. h \in [0 .. N -> S]
  <2> DEFINE Q == {i \in 0 .. N : h[i] \in S}
  <2>1. 0 \in Q
    BY <1>1, <1>6
  <2>2. ASSUME NEW i \in 0 .. N - 1, i \in Q PROVE i + 1 \in Q
    <3>1. i + 1 \in 1 .. N /\ i + 1 \in 0 .. N /\ (i + 1) - 1 = i /\ i + 1 # 0
      BY <1>1
    <3>2. h[i + 1] = IF i + 1 = 0 THEN base ELSE Out!Break(h[(i + 1) - 1], D[i + 1])
      BY <1>6, <3>1
    <3>3. Out!Break(h[i], D[i + 1]) \in S
      BY <1>1, <2>2, <3>1
    <3> QED
      BY <3>1, <3>2, <3>3
  <2> HIDE DEF Q
  <2>3. 0 .. N \subseteq Q
    BY <1>1, <2>1, <2>2, UpTo
  <2>4. \A i \in 0 .. N : h[i] \in S
    BY <2>3 DEF Q
  <2> QED
    BY <1>7, <2>4
<1>10. h[0] = base /\ \A i \in 1 .. N : h[i] = Out!Break(h[i - 1], D[i])
  BY <1>1, <1>6
<1> QED
  BY <1>8, <1>9, <1>10 DEF N
\* What the last place of some characters is.
IsLastPlace(p, s, cs) ==
  /\ p \in 0 .. Len(s)
  /\ p > 0 => s[p] \in cs
  /\ \A j \in p + 1 .. Len(s) : s[j] \notin cs

\* There is one.
LEMMA HasLastPlace ==
  ASSUME NEW s, Len(s) \in Nat, NEW cs
  PROVE  IsLastPlace(Out!LastPlace(s, cs), s, cs)
<1> DEFINE LastIs(p, m) == p \in 0 .. m /\ (p > 0 => s[p] \in cs) /\ \A j \in p + 1 .. m : s[j] \notin cs
           Q == {m \in 0 .. Len(s) : \E p : LastIs(p, m)}
<1>1. 0 \in Q
  <2>1. LastIs(0, 0)
    OBVIOUS
  <2> HIDE DEF LastIs
  <2> QED
    BY <2>1
<1>2. ASSUME NEW m \in 0 .. Len(s) - 1, m \in Q PROVE m + 1 \in Q
  <2>1. PICK p : LastIs(p, m)
    BY <1>2
  <2>2. CASE s[m + 1] \in cs
    <3>1. LastIs(m + 1, m + 1)
      BY <2>2
    <3> HIDE DEF LastIs
    <3> QED
      BY <3>1
  <2>3. CASE s[m + 1] \notin cs
    <3>1. LastIs(p, m + 1)
      BY <2>1, <2>3
    <3> HIDE DEF LastIs
    <3> QED
      BY <3>1
  <2> QED
    BY <2>2, <2>3
<1> HIDE DEF Q
<1>3. 0 .. Len(s) \subseteq Q
  BY <1>1, <1>2, UpTo
<1>4. \E p : LastIs(p, Len(s))
  BY <1>3 DEF Q
<1>5. \E p \in 0 .. Len(s) : (p > 0 => s[p] \in cs) /\ \A j \in p + 1 .. Len(s) : s[j] \notin cs
  BY <1>4
<1> QED
  BY <1>5 DEF Out!LastPlace, IsLastPlace

\* There is only one.
LEMMA OneLastPlace ==
  ASSUME NEW s, Len(s) \in Nat, NEW cs, NEW p, IsLastPlace(p, s, cs)
  PROVE  Out!LastPlace(s, cs) = p
<1> DEFINE q == Out!LastPlace(s, cs)
<1>1. IsLastPlace(q, s, cs)
  BY HasLastPlace
<1> HIDE DEF q
<1>2. p \in 0 .. Len(s) /\ q \in 0 .. Len(s)
  BY <1>1 DEF IsLastPlace
<1>3. ~(p < q)
  <2> SUFFICES ASSUME p < q PROVE FALSE
    OBVIOUS
  <2>1. q \in p + 1 .. Len(s) /\ q > 0
    BY <1>2
  <2> QED
    BY <1>1, <2>1 DEF IsLastPlace
<1>4. ~(q < p)
  <2> SUFFICES ASSUME q < p PROVE FALSE
    OBVIOUS
  <2>1. p \in q + 1 .. Len(s) /\ p > 0
    BY <1>2
  <2> QED
    BY <1>1, <2>1 DEF IsLastPlace
<1>5. q = p
  BY <1>2, <1>3, <1>4
<1> QED
  BY <1>5 DEF q

-----------------------------------------------------------------------------
\* A text of a section, no line of which is too long.
RunsFit(w) ==
  \A i, j \in 1 .. Len(w) : (i <= j /\ \A k \in i .. j : w[k] = "a") => j - i < BreakLen
Texts == {w \in Seq({"a", "n", "b"}) : RunsFit(w)}

\* So is what is left when its end is deleted.
LEMMA TextCut ==
  ASSUME NEW w \in Texts, NEW m \in 0 .. Len(w)
  PROVE  /\ SubSeq(w, 1, m) \in Texts /\ Len(SubSeq(w, 1, m)) = m
         /\ \A i \in 1 .. m : SubSeq(w, 1, m)[i] = w[i]
<1> DEFINE v == SubSeq(w, 1, m)
<1>1. w \in Seq({"a", "n", "b"}) /\ RunsFit(w) /\ Len(w) \in Nat
  BY DEF Texts
<1>2. v \in Seq({"a", "n", "b"}) /\ Len(v) = m /\ \A i \in 1 .. m : v[i] = w[i]
  BY <1>1
<1> HIDE DEF v
<1>3. RunsFit(v)
  <2> SUFFICES ASSUME NEW i \in 1 .. m, NEW j \in 1 .. m, i <= j, \A k \in i .. j : v[k] = "a"
               PROVE  j - i < BreakLen
    BY <1>2 DEF RunsFit
  <2>1. \A k \in i .. j : k \in 1 .. m
    OBVIOUS
  <2>2. \A k \in i .. j : w[k] = "a"
    BY <1>2, <2>1
  <2>3. i \in 1 .. Len(w) /\ j \in 1 .. Len(w)
    BY <1>1
  <2> QED
    BY <1>1, <2>2, <2>3 DEF RunsFit
<1>4. v \in Texts
  BY <1>2, <1>3 DEF Texts
<1> QED
  BY <1>2, <1>4 DEF v

\* The column is never beyond the length of a line.
LEMMA ColFits ==
  ASSUME Out!ConstantsFit, NEW w \in Texts PROVE Out!Col(w) \in 0 .. BreakLen
<1> DEFINE p == Out!LastPlace(w, {"n", "b"})
<1>1. w \in Seq({"a", "n", "b"}) /\ RunsFit(w) /\ Len(w) \in Nat
  BY DEF Texts
<1>2. IsLastPlace(p, w, {"n", "b"})
  BY <1>1, HasLastPlace
<1> HIDE DEF p
<1>3. p \in 0 .. Len(w) /\ \A j \in p + 1 .. Len(w) : w[j] \notin {"n", "b"}
  BY <1>2 DEF IsLastPlace
<1>4. \A j \in p + 1 .. Len(w) : w[j] = "a"
  <2> SUFFICES ASSUME NEW j \in p + 1 .. Len(w) PROVE w[j] = "a"
    OBVIOUS
  <2>1. j \in 1 .. Len(w)
    BY <1>3
  <2> QED
    BY <1>1, <1>3, <2>1
<1>5. Len(w) - p <= BreakLen
  <2>1. CASE p = Len(w)
    BY <1>1, <2>1 DEF Out!ConstantsFit
  <2>2. CASE p < Len(w)
    <3>1. p + 1 \in 1 .. Len(w) /\ Len(w) \in 1 .. Len(w) /\ p + 1 <= Len(w)
      BY <1>1, <1>3, <2>2
    <3>2. Len(w) - (p + 1) < BreakLen
      BY <1>1, <1>4, <3>1 DEF RunsFit
    <3> QED
      BY <1>1, <1>3, <3>2 DEF Out!ConstantsFit
  <2> QED
    BY <1>1, <1>3, <2>1, <2>2
<1> QED
  BY <1>1, <1>3, <1>5 DEF Out!Col, p, Out!ConstantsFit

\* A character may be added if it does not make a line too long.
LEMMA TextGrows ==
  ASSUME Out!ConstantsFit, NEW w \in Texts, NEW c \in {"a", "n", "b"}, c = "a" => Out!Col(w) # BreakLen
  PROVE  /\ Append(w, c) \in Texts /\ Len(Append(w, c)) = Len(w) + 1
         /\ \A i \in 1 .. Len(w) : Append(w, c)[i] = w[i]
         /\ Append(w, c)[Len(w) + 1] = c
<1> DEFINE v == Append(w, c)
           p == Out!LastPlace(w, {"n", "b"})
           m == Len(w)
<1>1. w \in Seq({"a", "n", "b"}) /\ RunsFit(w) /\ m \in Nat /\ BreakLen \in Nat /\ BreakLen > 0
  BY DEF Texts, Out!ConstantsFit
<1>2. /\ v \in Seq({"a", "n", "b"}) /\ Len(v) = m + 1 /\ \A i \in 1 .. m : v[i] = w[i]
      /\ v[m + 1] = c
  BY <1>1
<1>3. IsLastPlace(p, w, {"n", "b"}) /\ Out!Col(w) = m - p /\ Out!Col(w) \in 0 .. BreakLen
  BY <1>1, HasLastPlace, ColFits DEF Out!Col
<1>4. p \in 0 .. m /\ (p > 0 => w[p] \in {"n", "b"})
  BY <1>3 DEF IsLastPlace
<1> HIDE DEF v, p, m
<1>5. RunsFit(v)
  <2> SUFFICES ASSUME NEW i \in 1 .. m + 1, NEW j \in 1 .. m + 1, i <= j,
                      \A k \in i .. j : v[k] = "a"
               PROVE  j - i < BreakLen
    BY <1>2 DEF RunsFit
  <2>1. CASE j <= m
    <3>1. i \in 1 .. m /\ j \in 1 .. m /\ \A k \in i .. j : k \in 1 .. m
      BY <1>1, <2>1
    <3>2. \A k \in i .. j : w[k] = "a"
      BY <1>2, <3>1
    <3> QED
      BY <1>1, <3>1, <3>2 DEF RunsFit, m
  <2>2. CASE j = m + 1
    <3>1. j \in i .. j
      OBVIOUS
    <3>2. c = "a"
      BY <1>2, <2>2, <3>1
    <3>3. ~(i <= p)
      <4> SUFFICES ASSUME i <= p PROVE FALSE
        OBVIOUS
      <4>1. p \in i .. j /\ p \in 1 .. m /\ p > 0
        BY <1>1, <1>4, <2>2
      <4>2. w[p] = "a"
        BY <1>2, <4>1
      <4> QED
        BY <1>4, <4>1, <4>2
    <3>4. m - p < BreakLen
      BY <1>1, <1>3, <1>4, <3>2
    <3> QED
      BY <1>1, <1>4, <2>2, <3>3, <3>4
  <2> QED
    BY <1>1, <2>1, <2>2
<1>6. v \in Texts
  BY <1>2, <1>5 DEF Texts
<1> QED
  BY <1>2, <1>6 DEF v, m

\* addbreaks keeps lines from being too long, one character after the other.
LEMMA BreakFits ==
  ASSUME Out!ConstantsFit, NEW w \in Texts, NEW c \in {"a", "n"}
  PROVE  LET v == Out!Break(w, c) IN
         v \in Texts /\ Len(v) > 0 /\ v[Len(v)] = c
<1>1. w \in Seq({"a", "n", "b"}) /\ Len(w) \in Nat
  BY DEF Texts
<1>2. CASE c # "n" /\ Out!Col(w) = BreakLen
  <2> DEFINE u == Append(w, "b")
             v == Append(u, c)
  <2>1. u \in Texts /\ Len(u) = Len(w) + 1 /\ u[Len(w) + 1] = "b"
    BY TextGrows
  <2>2. u \in Seq({"a", "n", "b"})
    BY <2>1 DEF Texts
  <2> HIDE DEF u
  <2>3. IsLastPlace(Len(w) + 1, u, {"n", "b"})
    BY <1>1, <2>1 DEF IsLastPlace
  <2>4. Out!Col(u) = 0
    <3>1. Out!LastPlace(u, {"n", "b"}) = Len(w) + 1
      BY <1>1, <2>1, <2>3, OneLastPlace
    <3> QED
      BY <1>1, <2>1, <3>1 DEF Out!Col
  <2>5. v \in Texts /\ Len(v) = Len(u) + 1 /\ v[Len(u) + 1] = c
    BY <2>1, <2>4, TextGrows DEF Out!ConstantsFit
  <2>6. w \o <<"b", c>> = v
    BY <1>1 DEF u
  <2>7. Out!Break(w, c) = v
    BY <1>2, <2>6 DEF Out!Break
  <2> HIDE DEF v
  <2> QED
    BY <1>1, <2>1, <2>5, <2>7
<1>3. CASE ~(c # "n" /\ Out!Col(w) = BreakLen)
  <2> DEFINE v == Append(w, c)
  <2>1. v \in Texts /\ Len(v) = Len(w) + 1 /\ v[Len(w) + 1] = c
    BY <1>3, TextGrows
  <2>2. Out!Break(w, c) = v
    BY <1>3 DEF Out!Break
  <2> HIDE DEF v
  <2> QED
    BY <1>1, <2>1, <2>2
<1> QED
  BY <1>2, <1>3

\* And so over all of the data, with whose last character the text then ends.
LEMMA BrokenFits ==
  ASSUME Out!ConstantsFit, NEW w \in Texts, NEW D \in Seq({"a", "n"})
  PROVE  /\ Out!Broken(w, D) \in Texts
         /\ D = <<>> => Out!Broken(w, D) = w
         /\ D # <<>> => LET v == Out!Broken(w, D) IN Len(v) > 0 /\ v[Len(v)] = D[Len(D)]
<1> DEFINE N == Len(D)
<1>1. N \in Nat /\ \A i \in 1 .. N : D[i] \in {"a", "n"}
  OBVIOUS
<1>2. BreakStays(Texts, w, D)
  BY <1>1, BreakFits DEF BreakStays
<1>3. PICK h \in [0 .. Len(D) -> Texts] :
        /\ h[0] = w /\ \A i \in 1 .. Len(D) : h[i] = Out!Break(h[i - 1], D[i])
        /\ Out!Broken(w, D) = h[Len(D)]
  BY <1>2, BreakTurns
<1> HIDE DEF N
<1>4. Out!Broken(w, D) \in Texts
  <2>1. Len(D) \in 0 .. Len(D)
    BY <1>1 DEF N
  <2> QED
    BY <1>3, <2>1
<1>5. D = <<>> => Out!Broken(w, D) = w
  BY <1>3
<1>6. ASSUME D # <<>>
      PROVE  LET v == Out!Broken(w, D) IN Len(v) > 0 /\ v[Len(v)] = D[Len(D)]
  <2>1. Len(D) \in 1 .. Len(D) /\ Len(D) - 1 \in 0 .. Len(D)
    BY <1>6
  <2>2. h[Len(D) - 1] \in Texts /\ D[Len(D)] \in {"a", "n"}
    BY <1>1, <1>3, <2>1 DEF N
  <2>3. Out!Broken(w, D) = Out!Break(h[Len(D) - 1], D[Len(D)])
    BY <1>3, <2>1
  <2> QED
    BY <2>2, <2>3, BreakFits
<1> QED
  BY <1>4, <1>5, <1>6
\* A loop that cleans characters goes over texts without escapes and NULs.
LEMMA CleanHolds ==
  ASSUME NEW D \in Seq({"a", "n", "r", "e"})
  PROVE  CleanStays(Seq({"a", "n", "r"}), D)
<1> DEFINE S == Seq({"a", "n", "r"})
<1>1. <<>> \in S /\ Len(D) \in Nat
  OBVIOUS
<1>2. ASSUME NEW i \in 1 .. Len(D), NEW x \in S PROVE Out!Clean(x, D, i) \in S
  <2>1. D[i] \in {"a", "n", "r", "e"}
    OBVIOUS
  <2>2. CASE D[i] = "e" \/ Out!OfNewline(D, i)
    BY <2>2 DEF Out!Clean
  <2>3. CASE ~(D[i] = "e" \/ Out!OfNewline(D, i))
    <3>1. D[i] \in {"a", "n", "r"}
      BY <2>1, <2>3
    <3>2. Append(x, D[i]) \in S
      BY <3>1
    <3> QED
      BY <2>3, <3>2 DEF Out!Clean
  <2> QED
    BY <2>2, <2>3
<1> HIDE DEF S
<1>3. CleanStays(S, D)
  BY <1>1, <1>2 DEF CleanStays
<1> QED
  BY <1>3 DEF S

\* Escapes and NULs are not left in what is cleaned.
LEMMA CleanedTyped ==
  ASSUME NEW D \in Seq({"a", "n", "r", "e"})
  PROVE  Out!Cleaned(D) \in Seq({"a", "n", "r"})
<1> DEFINE S == Seq({"a", "n", "r"})
<1>1. CleanStays(S, D)
  BY CleanHolds
<1> HIDE DEF S
<1>2. PICK h \in [0 .. Len(D) -> S] :
        /\ h[0] = <<>> /\ \A i \in 1 .. Len(D) : h[i] = Out!Clean(h[i - 1], D, i)
        /\ Out!Cleaned(D) = h[Len(D)]
  BY <1>1, CleanTurns
<1>3. Len(D) \in 0 .. Len(D)
  OBVIOUS
<1> QED
  BY <1>2, <1>3 DEF S

\* A loop that displays characters goes over texts without carriage returns.
LEMMA DisplayHolds ==
  ASSUME NEW D \in Seq({"a", "n", "r"})
  PROVE  DisplayStays(Seq({"a", "n"}), D)
<1> DEFINE S == Seq({"a", "n"})
<1>1. <<>> \in S /\ Len(D) \in Nat
  OBVIOUS
<1>2. ASSUME NEW i \in 1 .. Len(D), NEW x \in S PROVE Out!Display(x, D[i]) \in S
  <2>1. D[i] \in {"a", "n", "r"}
    OBVIOUS
  <2>2. CASE D[i] = "r"
    <3>1. Len(x) \in Nat
      OBVIOUS
    <3>2. Out!LastPlace(x, {"n"}) \in 0 .. Len(x)
      BY <3>1, HasLastPlace DEF IsLastPlace
    <3>3. Out!LastLineDeleted(x) \in S
      BY <3>1, <3>2 DEF Out!LastLineDeleted
    <3> QED
      BY <2>2, <3>3 DEF Out!Display
  <2>3. CASE D[i] # "r"
    <3>1. D[i] \in {"a", "n"}
      BY <2>1, <2>3
    <3>2. Append(x, D[i]) \in S
      BY <3>1
    <3> QED
      BY <2>3, <3>2 DEF Out!Display
  <2> QED
    BY <2>2, <2>3
<1> HIDE DEF S
<1>3. DisplayStays(S, D)
  BY <1>1, <1>2 DEF DisplayStays
<1> QED
  BY <1>3 DEF S

\* No carriage return is left in what is displayed.
LEMMA DisplayedTyped ==
  ASSUME NEW D \in Seq({"a", "n", "r"})
  PROVE  Out!Displayed(D) \in Seq({"a", "n"})
<1> DEFINE S == Seq({"a", "n"})
<1>1. DisplayStays(S, D)
  BY DisplayHolds
<1> HIDE DEF S
<1>2. PICK h \in [0 .. Len(D) -> S] :
        /\ h[0] = <<>> /\ \A i \in 1 .. Len(D) : h[i] = Out!Display(h[i - 1], D[i])
        /\ Out!Displayed(D) = h[Len(D)]
  BY <1>1, DisplayTurns
<1>3. Len(D) \in 0 .. Len(D)
  OBVIOUS
<1> QED
  BY <1>2, <1>3 DEF S

\* What is kept of a text when its last line is deleted: nothing, or lines that ended.
LEMMA KeptLines ==
  ASSUME NEW w \in Texts
  PROVE  LET v == Out!LastLineDeleted(w) IN
         v \in Texts /\ (Len(v) > 0 => v[Len(v)] = "n")
<1> DEFINE p == Out!LastPlace(w, {"n"})
           v == Out!LastLineDeleted(w)
<1>1. Len(w) \in Nat
  BY DEF Texts
<1>2. p \in 0 .. Len(w) /\ (p > 0 => w[p] = "n")
  <2>1. IsLastPlace(p, w, {"n"})
    BY <1>1, HasLastPlace
  <2> QED
    BY <2>1 DEF IsLastPlace
<1> HIDE DEF p
<1>3. v = SubSeq(w, 1, p)
  BY DEF Out!LastLineDeleted, p
<1> HIDE DEF v
<1>4. v \in Texts /\ Len(v) = p /\ \A i \in 1 .. p : v[i] = w[i]
  BY <1>2, <1>3, TextCut
<1>5. Len(v) > 0 => v[Len(v)] = "n"
  BY <1>1, <1>2, <1>4
<1> QED
  BY <1>4, <1>5 DEF v

-----------------------------------------------------------------------------
\* A section with nothing in its stream has no text, and the text is of lines that fit.
OutIInv ==
  /\ Out!TypeOK /\ text \in Texts
  /\ stream = <<>> => text = <<>>
  /\ Out!EndsWithNewline

\* The streams of a section are of these characters.
LEMMA StreamsTyped ==
  ASSUME Out!ConstantsFit PROVE Seq(Chars) \subseteq Seq({"a", "n", "r", "e", "["})
<1> DEFINE A == {"a", "n", "r", "e", "["}
<1>1. Chars \subseteq A
  BY DEF Out!ConstantsFit
<1> HIDE DEF A
<1>2. Seq(Chars) \subseteq Seq(A)
  BY <1>1
<1> QED
  BY <1>2 DEF A

\* What is added to the stream is of its characters.
LEMMA DataTyped ==
  ASSUME Out!ConstantsFit, addedNewline \in BOOLEAN, NEW chunk \in Seq(Chars), chunk # <<>>, NEW b \in BOOLEAN
  PROVE  Out!Data(chunk, b) \in Seq(Chars) /\ Len(Out!Data(chunk, b)) > 0
<1>1. Len(chunk) > 0 /\ Len(chunk) \in Nat /\ "n" \in Chars
  BY DEF Out!ConstantsFit
<1>2. <<"n">> \o chunk \in Seq(Chars) /\ Len(<<"n">> \o chunk) = 1 + Len(chunk)
  BY <1>1
<1> QED
  BY <1>1, <1>2 DEF Out!Data

\* What is there without the section's own newline is a text.
LEMMA OwnTyped ==
  ASSUME OutIInv
  PROVE  /\ Out!Own \in Texts
         /\ addedNewline \/ Out!Own = text
<1>1. CASE addedNewline /\ text # <<>>
  <2>1. Len(text) \in Nat /\ Len(text) > 0
    BY <1>1 DEF OutIInv, Texts
  <2>2. SubSeq(text, 1, Len(text) - 1) \in Texts
    BY <2>1, TextCut DEF OutIInv
  <2>3. Out!Own = SubSeq(text, 1, Len(text) - 1)
    BY <1>1 DEF Out!Own, Out!Front
  <2> QED
    BY <1>1, <2>2, <2>3
<1>2. CASE ~(addedNewline /\ text # <<>>)
  BY <1>2 DEF Out!Own, OutIInv, Out!TypeOK
<1> QED
  BY <1>1, <1>2

\* write() leaves a text of lines that fit, that ends with a newline unless it raised.
LEMMA WriteKeeps ==
  ASSUME Out!ConstantsFit, OutIInv, outputExecuting' \in BOOLEAN,
         NEW chunk \in Seq(Chars), chunk # <<>>, NEW b \in BOOLEAN, Out!Write(chunk, b)
  PROVE  OutIInv'
<1> DEFINE data == Out!Cleaned(Out!Marked(Out!Data(chunk, b)))
           d == IF Out!Ends(data, "r") THEN Out!Front(data) ELSE data
           own == Out!Own
<1>1. /\ Out!Data(chunk, b) \in Seq(Chars) /\ Len(Out!Data(chunk, b)) > 0
      /\ addedNewline \in BOOLEAN /\ wasSomethingWritten \in BOOLEAN /\ isCr \in BOOLEAN
      /\ stream \in Seq(Chars) /\ raised \subseteq {"newline", "tag"} /\ text \in Texts
      /\ own \in Texts
  BY DataTyped, OwnTyped DEF OutIInv, Out!TypeOK
<1>2. /\ stream' = stream \o Out!Data(chunk, b) /\ cut' \in BOOLEAN
      /\ IF addedNewline /\ text = <<>> THEN Out!RaiseFirst
         ELSE IF Out!Overwrites(d) /\ own = <<>> THEN Out!Raise(d)
         ELSE Out!Insert(d, IF Out!Overwrites(d) THEN Out!LastLineDeleted(own) ELSE own,
                         Out!Ends(data, "r"))
  BY DEF Out!Write
<1>3. stream' \in Seq(Chars) /\ stream' # <<>>
  <2>1. stream' \in Seq(Chars) /\ Len(stream') = Len(stream) + Len(Out!Data(chunk, b))
    BY <1>1, <1>2
  <2>2. Len(stream') # 0
    BY <1>1, <2>1
  <2> QED
    BY <2>1, <2>2
<1>4. d \in Seq({"a", "n", "r"})
  <2>1. Out!Marked(Out!Data(chunk, b)) \in Seq({"a", "n", "r", "e"})
    BY <1>1, StreamsTyped, MarkedTyped
  <2>2. data \in Seq({"a", "n", "r"})
    BY <2>1, CleanedTyped
  <2> HIDE DEF data
  <2>3. ASSUME data # <<>> PROVE Out!Front(data) \in Seq({"a", "n", "r"})
    BY <2>2, <2>3 DEF Out!Front
  <2> QED
    BY <2>2, <2>3 DEF Out!Ends
<1> HIDE DEF d, data, own
<1>5. text \in Seq({"a", "n", "b"})
  BY <1>1 DEF Texts
<1>6. CASE Out!RaiseFirst
  BY <1>1, <1>2, <1>3, <1>5, <1>6 DEF Out!RaiseFirst, OutIInv, Out!TypeOK, Out!EndsWithNewline
<1>7. CASE Out!Raise(d)
  <2>1. text' = own /\ addedNewline' = FALSE /\ isCr' \in BOOLEAN /\ wasSomethingWritten' \in BOOLEAN
        /\ raised' \subseteq {"newline", "tag"} /\ raised' # {}
    BY <1>1, <1>7 DEF Out!Raise, own
  <2>2. text' \in Seq({"a", "n", "b"})
    BY <1>1, <2>1 DEF Texts
  <2> QED
    BY <1>1, <1>2, <1>3, <2>1, <2>2 DEF OutIInv, Out!TypeOK, Out!EndsWithNewline
<1>8. CASE Out!Insert(d, IF Out!Overwrites(d) THEN Out!LastLineDeleted(own) ELSE own, Out!Ends(data, "r"))
  <2>1. PICK kept \in Texts :
          /\ kept = IF Out!Overwrites(d) THEN Out!LastLineDeleted(own) ELSE own
          /\ Out!Insert(d, kept, Out!Ends(data, "r"))
    BY <1>1, <1>8, KeptLines
  <2> DEFINE shown == Out!Displayed(d)
             w == Out!Broken(kept, shown)
  <2>2. shown \in Seq({"a", "n"})
    BY <1>4, DisplayedTyped
  <2>3. /\ addedNewline' = ~Out!Ends(shown, "n")
        /\ text' = w \o IF addedNewline' THEN <<"n">> ELSE <<>>
        /\ isCr' = Out!Ends(data, "r") /\ wasSomethingWritten' = TRUE /\ raised' = raised
    BY <2>1 DEF Out!Insert
  <2> HIDE DEF shown
  <2>4. /\ w \in Texts
        /\ shown = <<>> => w = kept
        /\ shown # <<>> => Len(w) > 0 /\ w[Len(w)] = shown[Len(shown)]
    BY <2>2, BrokenFits
  <2> HIDE DEF w
  <2>5. Len(w) \in Nat /\ w \in Seq({"a", "n", "b"})
    BY <2>4 DEF Texts
  <2>6. text' \in Texts /\ Len(text') > 0 /\ text'[Len(text')] = "n"
    <3>1. CASE Out!Ends(shown, "n")
      <4>1. text' = w /\ shown # <<>> /\ shown[Len(shown)] = "n"
        <5>1. text' = w \o <<>>
          BY <2>3, <3>1
        <5>2. w \o <<>> = w
          BY <2>5
        <5> QED
          BY <3>1, <5>1, <5>2 DEF Out!Ends, Out!Last
      <4> QED
        BY <2>4, <4>1
    <3>2. CASE ~Out!Ends(shown, "n")
      <4>1. text' = Append(w, "n")
        <5>1. text' = w \o <<"n">>
          BY <2>3, <3>2
        <5>2. w \o <<"n">> = Append(w, "n")
          BY <2>5
        <5> QED
          BY <5>1, <5>2
      <4>2. Append(w, "n") \in Texts /\ Len(Append(w, "n")) = Len(w) + 1
            /\ Append(w, "n")[Len(w) + 1] = "n"
        BY <2>4, TextGrows
      <4> QED
        BY <2>5, <4>1, <4>2
    <3> QED
      BY <3>1, <3>2
  <2>7. text' \in Seq({"a", "n", "b"})
    BY <2>6 DEF Texts
  <2>8. Out!EndsWithNewline'
    BY <2>6, <2>7 DEF Out!EndsWithNewline, Out!Ends, Out!Last
  <2>9. {addedNewline', wasSomethingWritten', isCr'} \subseteq BOOLEAN
    BY <2>3 DEF Out!Ends
  <2> QED
    BY <1>1, <1>2, <1>3, <2>3, <2>6, <2>7, <2>8, <2>9 DEF OutIInv, Out!TypeOK
<1> QED
  BY <1>2, <1>6, <1>7, <1>8

\* A section begins empty.
LEMMA NothingFits == <<>> \in Texts /\ <<>> \in Seq({"a", "n", "b"}) /\ <<>> \in Seq(Chars)
<1>1. RunsFit(<<>>)
  BY DEF RunsFit
<1>2. <<>> \in Seq({"a", "n", "b"}) /\ <<>> \in Seq(Chars)
  OBVIOUS
<1> QED
  BY <1>1, <1>2 DEF Texts

\* A new window has an empty section.
LEMMA OutInit == ASSUME Out!ConstantsFit, Out!Init PROVE OutIInv
<1>1. /\ text = <<>> /\ addedNewline = FALSE /\ wasSomethingWritten = FALSE /\ isCr = FALSE
      /\ outputExecuting = FALSE /\ stream = <<>> /\ cut = FALSE /\ raised = {}
  BY DEF Out!Init
<1> QED
  BY <1>1, NothingFits DEF OutIInv, Out!TypeOK, Out!EndsWithNewline

\* What is written, and discarded, keeps it.
LEMMA OutStep == ASSUME Out!ConstantsFit, OutIInv, [Out!Next]_Out!vars PROVE OutIInv'
<1>1. CASE Out!WriteChunk
  <2>1. PICK chunk \in Out!BoundedSeq(Chars, MaxStream - Len(stream)) \ {<<>>} : Out!Write(chunk, FALSE)
    BY <1>1 DEF Out!WriteChunk
  <2>2. chunk \in Seq(Chars)
    <3>1. PICK m \in 0 .. MaxStream - Len(stream) : chunk \in [1 .. m -> Chars]
      BY DEF Out!BoundedSeq, Out!SeqOf
    <3> QED
      BY <3>1
  <2> QED
    BY <1>1, <2>1, <2>2, WriteKeeps DEF Out!WriteChunk, OutIInv, Out!TypeOK
<1>2. CASE Out!WriteResult
  <2>1. <<"a", "n">> \in Seq(Chars) /\ <<"a", "n">> # <<>>
    BY DEF Out!ConstantsFit
  <2> QED
    BY <1>2, <2>1, WriteKeeps DEF Out!WriteResult
<1>3. CASE Out!StartNewSection
  <2>1. /\ text' = <<>> /\ addedNewline' = FALSE /\ wasSomethingWritten' = FALSE /\ isCr' = FALSE
        /\ outputExecuting' = TRUE /\ stream' = <<>> /\ cut' = FALSE /\ raised' = {}
    BY <1>3 DEF Out!StartNewSection
  <2> QED
    BY <2>1, NothingFits DEF OutIInv, Out!TypeOK, Out!EndsWithNewline
<1>4. CASE Out!Discard
  <2>1. /\ text' = <<>> /\ stream' = <<>> /\ cut' = FALSE
        /\ UNCHANGED <<addedNewline, wasSomethingWritten, isCr, outputExecuting, raised>>
    BY <1>4 DEF Out!Discard
  <2> QED
    BY <2>1, NothingFits DEF OutIInv, Out!TypeOK, Out!EndsWithNewline
<1>5. CASE UNCHANGED Out!vars
  BY <1>5 DEF Out!vars, OutIInv, Out!TypeOK, Out!EndsWithNewline, Out!Ends, Out!Last
<1>6. CASE Out!SendStdin
  <2>1. PICK line \in {<<"n">>, <<"a", "n">>} :
          (Out!Write(line, FALSE) /\ UNCHANGED outputExecuting) \/ Out!StartNewSection
    BY <1>6 DEF Out!SendStdin
  <2>2. line \in Seq(Chars) /\ line # <<>>
    <3>1. <<"n">> \in Seq(Chars) /\ <<"a", "n">> \in Seq(Chars) /\ <<"n">> # <<>> /\ <<"a", "n">> # <<>>
      BY DEF Out!ConstantsFit
    <3>2. CASE line = <<"n">>
      BY <3>1, <3>2
    <3>3. CASE line = <<"a", "n">>
      BY <3>1, <3>3
    <3> QED
      BY <2>1, <3>2, <3>3
  <2> QED
    BY <1>3, <2>1, <2>2, WriteKeeps DEF OutIInv, Out!TypeOK
<1> QED
  BY <1>1, <1>2, <1>3, <1>4, <1>5, <1>6 DEF Out!Next, Out!Writing
-----------------------------------------------------------------------------
\* The first characters of a string, one more.
LEMMA OneMore ==
  ASSUME NEW S, NEW D \in Seq(S), NEW i \in 1 .. Len(D)
  PROVE  Append(SubSeq(D, 1, i - 1), D[i]) = SubSeq(D, 1, i)
<1> DEFINE u == SubSeq(D, 1, i - 1)
           v == SubSeq(D, 1, i)
<1>1. /\ u \in Seq(S) /\ Len(u) = i - 1 /\ \A k \in 1 .. i - 1 : u[k] = D[k]
      /\ v \in Seq(S) /\ Len(v) = i /\ \A k \in 1 .. i : v[k] = D[k]
  OBVIOUS
<1> HIDE DEF u, v
<1>2. Append(u, D[i]) \in Seq(S) /\ Len(Append(u, D[i])) = i
      /\ \A k \in 1 .. i : Append(u, D[i])[k] = D[k]
  BY <1>1
<1>3. Append(u, D[i]) = v
  BY <1>1, <1>2, SeqEqual
<1> QED
  BY <1>3 DEF u, v

\* What is added one after the other is all of it.
LEMMA AllAppended ==
  ASSUME NEW S, NEW D \in Seq(S), NEW h, h[0] = <<>>,
         \A i \in 1 .. Len(D) : h[i] = Append(h[i - 1], D[i])
  PROVE  h[Len(D)] = D
<1> DEFINE Q == {i \in 0 .. Len(D) : h[i] = SubSeq(D, 1, i)}
<1>1. Len(D) \in Nat
  OBVIOUS
<1>2. 0 \in Q
  <2>1. SubSeq(D, 1, 0) = <<>>
    OBVIOUS
  <2>2. h[0] = SubSeq(D, 1, 0)
    BY <2>1, Zenon
  <2>3. 0 \in 0 .. Len(D)
    BY <1>1
  <2> QED
    BY <2>2, <2>3, Zenon
<1>3. ASSUME NEW i \in 0 .. Len(D) - 1, i \in Q PROVE i + 1 \in Q
  <2>1. i + 1 \in 1 .. Len(D) /\ (i + 1) - 1 = i
    BY <1>1
  <2>2. h[i + 1] = Append(h[i], D[i + 1])
    BY <2>1
  <2>3. Append(SubSeq(D, 1, (i + 1) - 1), D[i + 1]) = SubSeq(D, 1, i + 1)
    BY <2>1, OneMore
  <2>4. h[i] = SubSeq(D, 1, i)
    BY <1>3, Zenon
  <2>5. h[i + 1] = SubSeq(D, 1, i + 1)
    BY <2>1, <2>2, <2>3, <2>4, Zenon
  <2>6. i + 1 \in 0 .. Len(D)
    BY <2>1
  <2> QED
    BY <2>5, <2>6, Zenon
<1> HIDE DEF Q
<1>4. 0 .. Len(D) \subseteq Q
  BY <1>1, <1>2, <1>3, UpTo
<1>5. h[Len(D)] = SubSeq(D, 1, Len(D))
  BY <1>1, <1>4 DEF Q
<1>6. SubSeq(D, 1, Len(D)) = D
  BY <1>1, SeqEqual
<1> QED
  BY <1>5, <1>6

\* What has only shown characters and newlines is clean.
LEMMA PlainIsClean ==
  ASSUME NEW D \in Seq({"a", "n"}) PROVE Out!Cleaned(D) = D
<1>1. \A i \in 1 .. Len(D) : ~(D[i] = "e" \/ Out!OfNewline(D, i))
  <2>1. \A i \in 1 .. Len(D) : D[i] \in {"a", "n"}
    OBVIOUS
  <2> QED
    BY <2>1 DEF Out!OfNewline
<1>2. \A x : \A i \in 1 .. Len(D) : Out!Clean(x, D, i) = Append(x, D[i])
  BY <1>1 DEF Out!Clean
<1>3. CleanStays(Seq({"a", "n"}), D)
  <2>1. <<>> \in Seq({"a", "n"}) /\ Len(D) \in Nat
    OBVIOUS
  <2>2. \A i \in 1 .. Len(D), x \in Seq({"a", "n"}) : Append(x, D[i]) \in Seq({"a", "n"})
    OBVIOUS
  <2> QED
    BY <1>2, <2>1, <2>2 DEF CleanStays
<1>4. PICK h \in [0 .. Len(D) -> Seq({"a", "n"})] :
        /\ h[0] = <<>> /\ \A i \in 1 .. Len(D) : h[i] = Out!Clean(h[i - 1], D, i)
        /\ Out!Cleaned(D) = h[Len(D)]
  BY <1>3, CleanTurns
<1>5. \A i \in 1 .. Len(D) : h[i] = Append(h[i - 1], D[i])
  BY <1>2, <1>4
<1>6. h[Len(D)] = D
  BY <1>4, <1>5, AllAppended
<1> QED
  BY <1>4, <1>6

\* So is what is displayed of it.
LEMMA PlainIsDisplayed ==
  ASSUME NEW D \in Seq({"a", "n"}) PROVE Out!Displayed(D) = D
<1>1. \A i \in 1 .. Len(D) : D[i] # "r"
  <2>1. \A i \in 1 .. Len(D) : D[i] \in {"a", "n"}
    OBVIOUS
  <2> QED
    BY <2>1
<1>2. \A x : \A i \in 1 .. Len(D) : Out!Display(x, D[i]) = Append(x, D[i])
  BY <1>1 DEF Out!Display
<1>3. DisplayStays(Seq({"a", "n"}), D)
  <2>1. <<>> \in Seq({"a", "n"}) /\ Len(D) \in Nat
    OBVIOUS
  <2>2. \A i \in 1 .. Len(D), x \in Seq({"a", "n"}) : Append(x, D[i]) \in Seq({"a", "n"})
    OBVIOUS
  <2> QED
    BY <1>2, <2>1, <2>2 DEF DisplayStays
<1>4. PICK h \in [0 .. Len(D) -> Seq({"a", "n"})] :
        /\ h[0] = <<>> /\ \A i \in 1 .. Len(D) : h[i] = Out!Display(h[i - 1], D[i])
        /\ Out!Displayed(D) = h[Len(D)]
  BY <1>3, DisplayTurns
<1>5. \A i \in 1 .. Len(D) : h[i] = Append(h[i - 1], D[i])
  BY <1>2, <1>4
<1>6. h[Len(D)] = D
  BY <1>4, <1>5, AllAppended
<1> QED
  BY <1>4, <1>6

\* At the beginning of a line the column is 0.
LEMMA ColAtStart ==
  ASSUME NEW w \in Texts, Len(w) > 0 => w[Len(w)] \in {"n", "b"} PROVE Out!Col(w) = 0
<1>1. Len(w) \in Nat
  BY DEF Texts
<1>2. IsLastPlace(Len(w), w, {"n", "b"})
  BY <1>1 DEF IsLastPlace
<1>3. Out!LastPlace(w, {"n", "b"}) = Len(w)
  BY <1>1, <1>2, OneLastPlace
<1> QED
  BY <1>1, <1>3 DEF Out!Col

\* A line of one character follows a line that ended, and ends.
LEMMA LineBroken ==
  ASSUME Out!ConstantsFit, NEW w \in Texts, Len(w) > 0 => w[Len(w)] = "n"
  PROVE  Out!Broken(w, <<"a", "n">>) = Append(Append(w, "a"), "n")
<1> DEFINE D == <<"a", "n">>
<1>1. D \in Seq({"a", "n"}) /\ Len(D) = 2 /\ D[1] = "a" /\ D[2] = "n"
  OBVIOUS
<1> HIDE DEF D
<1>2. BreakStays(Texts, w, D)
  <2>1. \A i \in 1 .. Len(D) : D[i] \in {"a", "n"}
    BY <1>1
  <2> QED
    BY <1>1, <2>1, BreakFits DEF BreakStays
<1>3. PICK h \in [0 .. Len(D) -> Texts] :
        /\ h[0] = w /\ \A i \in 1 .. Len(D) : h[i] = Out!Break(h[i - 1], D[i])
        /\ Out!Broken(w, D) = h[Len(D)]
  BY <1>2, BreakTurns
<1>4. h[1] = Out!Break(w, "a") /\ h[2] = Out!Break(h[1], "n") /\ Out!Broken(w, D) = h[2]
  <2>1. 1 \in 1 .. Len(D) /\ 2 \in 1 .. Len(D) /\ 1 - 1 = 0 /\ 2 - 1 = 1
    BY <1>1
  <2>2. h[1] = Out!Break(h[1 - 1], D[1]) /\ h[2] = Out!Break(h[2 - 1], D[2])
    BY <1>3, <2>1
  <2> QED
    BY <1>1, <1>3, <2>1, <2>2
<1>5. Out!Break(w, "a") = Append(w, "a")
  <2>1. Out!Col(w) # BreakLen
    BY ColAtStart DEF Out!ConstantsFit
  <2> QED
    BY <2>1 DEF Out!Break
<1>6. \A v : Out!Break(v, "n") = Append(v, "n")
  BY DEF Out!Break
<1> QED
  BY <1>4, <1>5, <1>6 DEF D

\* The same after a newline.
LEMMA NewLineBroken ==
  ASSUME Out!ConstantsFit, NEW w \in Texts
  PROVE  Out!Broken(w, <<"n", "a", "n">>) = Append(Append(Append(w, "n"), "a"), "n")
<1> DEFINE D == <<"n", "a", "n">>
           v == Append(w, "n")
<1>1. D \in Seq({"a", "n"}) /\ Len(D) = 3 /\ D[1] = "n" /\ D[2] = "a" /\ D[3] = "n"
  OBVIOUS
<1> HIDE DEF D
<1>2. BreakStays(Texts, w, D)
  <2>1. \A i \in 1 .. Len(D) : D[i] \in {"a", "n"}
    BY <1>1
  <2> QED
    BY <1>1, <2>1, BreakFits DEF BreakStays
<1>3. PICK h \in [0 .. Len(D) -> Texts] :
        /\ h[0] = w /\ \A i \in 1 .. Len(D) : h[i] = Out!Break(h[i - 1], D[i])
        /\ Out!Broken(w, D) = h[Len(D)]
  BY <1>2, BreakTurns
<1>4. /\ h[1] = Out!Break(w, "n") /\ h[2] = Out!Break(h[1], "a") /\ h[3] = Out!Break(h[2], "n")
      /\ Out!Broken(w, D) = h[3]
  <2>1. /\ 1 \in 1 .. Len(D) /\ 2 \in 1 .. Len(D) /\ 3 \in 1 .. Len(D)
        /\ 1 - 1 = 0 /\ 2 - 1 = 1 /\ 3 - 1 = 2
    BY <1>1
  <2>2. /\ h[1] = Out!Break(h[1 - 1], D[1]) /\ h[2] = Out!Break(h[2 - 1], D[2])
        /\ h[3] = Out!Break(h[3 - 1], D[3])
    BY <1>3, <2>1
  <2> QED
    BY <1>1, <1>3, <2>1, <2>2
<1>5. v \in Texts /\ Len(v) > 0 /\ v[Len(v)] = "n"
  <2>1. Len(w) \in Nat
    BY DEF Texts
  <2> QED
    BY <2>1, TextGrows
<1> HIDE DEF v
<1>6. Out!Break(v, "a") = Append(v, "a")
  <2>1. Out!Col(v) # BreakLen
    BY <1>5, ColAtStart DEF Out!ConstantsFit
  <2> QED
    BY <2>1 DEF Out!Break
<1>7. \A x : Out!Break(x, "n") = Append(x, "n")
  BY DEF Out!Break
<1> QED
  BY <1>4, <1>6, <1>7 DEF D, v

\* A result begins on a line of its own.
LEMMA ResultStep ==
  ASSUME Out!ConstantsFit, OutIInv, Out!WriteResult, raised' = {}
  PROVE  Len(text') = 2 \/ text'[Len(text') - 2] = "n"
<1> DEFINE chunk == <<"a", "n">>
           D == Out!Data(chunk, TRUE)
           own == Out!Own
           kept == IF Out!Overwrites(D) THEN Out!LastLineDeleted(own) ELSE own
<1>1. Out!Write(chunk, TRUE) /\ addedNewline \in BOOLEAN
  BY DEF Out!WriteResult, OutIInv, Out!TypeOK
<1>2. \/ addedNewline /\ D = <<"n", "a", "n">>
      \/ ~addedNewline /\ D = <<"a", "n">>
  <2>1. CASE addedNewline
    <3>1. D = <<"n">> \o <<"a", "n">>
      BY <2>1 DEF Out!Data
    <3> DEFINE u == <<"n">> \o <<"a", "n">>
               v == <<"n", "a", "n">>
    <3>2. /\ u \in Seq({"a", "n"}) /\ Len(u) = 3 /\ u[1] = "n" /\ u[2] = "a" /\ u[3] = "n"
          /\ v \in Seq({"a", "n"}) /\ Len(v) = 3 /\ v[1] = "n" /\ v[2] = "a" /\ v[3] = "n"
      OBVIOUS
    <3> HIDE DEF D, u, v
    <3>3. \A i \in 1 .. Len(u) : u[i] = v[i]
      BY <3>2
    <3>4. u = v
      BY <3>2, <3>3, SeqEqual
    <3>5. D = v
      BY <3>1, <3>4 DEF u
    <3> QED
      BY <2>1, <3>5 DEF v
  <2>2. CASE ~addedNewline
    BY <2>2 DEF Out!Data
  <2> QED
    BY <2>1, <2>2
<1> HIDE DEF D
<1>3. D \in Seq({"a", "n"}) /\ Len(D) > 0 /\ D[Len(D)] = "n"
  <2>1. CASE D = <<"n", "a", "n">>
    BY <2>1
  <2>2. CASE D = <<"a", "n">>
    BY <2>2
  <2> QED
    BY <1>2, <2>1, <2>2
<1>4. Out!Cleaned(Out!Marked(D)) = D /\ Out!Displayed(D) = D
  BY <1>3, MarkedPlain, PlainIsClean, PlainIsDisplayed
<1>5. ~Out!Ends(D, "r") /\ Out!Ends(D, "n")
  <2>1. D # <<>>
    BY <1>3
  <2> QED
    BY <1>3, <2>1 DEF Out!Ends, Out!Last
<1>6. own \in Texts /\ (addedNewline \/ own = text)
  BY OwnTyped
<1>7. /\ IF addedNewline /\ text = <<>> THEN Out!RaiseFirst
         ELSE IF Out!Overwrites(D) /\ own = <<>> THEN Out!Raise(D)
         ELSE Out!Insert(D, kept, FALSE)
  <2>1. Out!Ends(D, "r") = FALSE
    BY <1>5 DEF Out!Ends
  <2> HIDE DEF chunk
  <2> QED
    BY <1>1, <1>4, <1>5, <2>1 DEF Out!Write, D
<1> HIDE DEF chunk, own
<1>8. ~Out!RaiseFirst /\ ~Out!Raise(D)
  BY DEF Out!RaiseFirst, Out!Raise
<1>9. Out!Insert(D, kept, FALSE) /\ ~(addedNewline /\ text = <<>>)
  BY <1>7, <1>8
<1>10. raised = {} /\ text' = Out!Broken(kept, D)
  <2> HIDE DEF kept
  <2>1. /\ addedNewline' = ~Out!Ends(D, "n") /\ UNCHANGED raised
        /\ text' = Out!Broken(kept, D) \o IF addedNewline' THEN <<"n">> ELSE <<>>
    BY <1>4, <1>9 DEF Out!Insert
  <2>2. kept \in Texts
    BY <1>6, KeptLines DEF kept
  <2>3. Out!Broken(kept, D) \in Texts
    BY <1>3, <2>2, BrokenFits
  <2>4. Out!Broken(kept, D) \o <<>> = Out!Broken(kept, D)
    BY <2>3 DEF Texts
  <2> QED
    BY <1>5, <2>1, <2>4
<1>11. kept \in Texts
  BY <1>6, KeptLines
<1>12. CASE addedNewline
  <2>1. D = <<"n", "a", "n">>
    BY <1>2, <1>12
  <2> HIDE DEF kept
  <2>2. Out!Broken(kept, D) = Append(Append(Append(kept, "n"), "a"), "n")
    BY <1>11, <2>1, NewLineBroken
  <2>3. kept \in Seq({"a", "n", "b"}) /\ Len(kept) \in Nat
    BY <1>11 DEF Texts
  <2>4. Len(text') = Len(kept) + 3 /\ text'[Len(kept) + 1] = "n"
    BY <1>10, <2>2, <2>3
  <2> QED
    BY <2>3, <2>4
<1>13. CASE ~addedNewline
  <2>1. D = <<"a", "n">>
    BY <1>2, <1>13
  <2>2. own = text /\ text \in Texts
    BY <1>6, <1>13
  <2>3. Len(text) > 0 => text[Len(text)] = "n"
    BY <1>10 DEF OutIInv, Out!EndsWithNewline, Out!Ends, Out!Last
  <2>4. Len(kept) > 0 => kept[Len(kept)] = "n"
    BY <2>2, <2>3, KeptLines
  <2> HIDE DEF kept
  <2>5. Out!Broken(kept, D) = Append(Append(kept, "a"), "n")
    BY <1>11, <2>1, <2>4, LineBroken
  <2>6. kept \in Seq({"a", "n", "b"}) /\ Len(kept) \in Nat
    BY <1>11 DEF Texts
  <2>7. Len(text') = Len(kept) + 2 /\ \A i \in 1 .. Len(kept) : text'[i] = kept[i]
    BY <1>10, <2>5, <2>6
  <2>8. CASE Len(kept) = 0
    BY <2>7, <2>8
  <2>9. CASE Len(kept) > 0
    <3>1. Len(kept) \in 1 .. Len(kept) /\ Len(text') - 2 = Len(kept)
      BY <2>6, <2>7, <2>9
    <3> QED
      BY <2>4, <2>7, <2>9, <3>1
  <2> QED
    BY <2>6, <2>8, <2>9
<1> QED
  BY <1>1, <1>12, <1>13
-----------------------------------------------------------------------------
\* What Unbroken makes of a text, turn by turn.
KeepStays(S, D) == <<>> \in S /\ Len(D) \in Nat /\ \A i \in 1 .. Len(D), x \in S : Out!KeepUnlessBreak(x, D[i]) \in S

\* Unbroken is the loop of KeepUnlessBreak.
LEMMA KeepTurns ==
  ASSUME NEW S, NEW D, KeepStays(S, D)
  PROVE  \E h \in [0 .. Len(D) -> S] :
           /\ h[0] = <<>> /\ \A i \in 1 .. Len(D) : h[i] = Out!KeepUnlessBreak(h[i - 1], D[i])
           /\ Out!Unbroken(D) = h[Len(D)]
<1> DEFINE N == Len(D)
           step == [i \in 1 .. N |-> [x \in S |-> Out!KeepUnlessBreak(x, D[i])]]
           Is(g) == g = [i \in 0 .. N |-> IF i = 0 THEN <<>> ELSE Out!KeepUnlessBreak(g[i - 1], D[i])]
           h == CHOOSE g : Is(g)
<1>1. <<>> \in S /\ N \in Nat /\ \A i \in 1 .. N, x \in S : Out!KeepUnlessBreak(x, D[i]) \in S
  BY DEF KeepStays
<1> HIDE DEF N
<1>2. PICK f : TurnByTurn(f, S, <<>>, step, N)
  <2>1. step \in [1 .. N -> [S -> S]]
    BY <1>1
  <2> HIDE DEF step
  <2> QED
    BY <1>1, <2>1, Turns, Zenon
<1>3. f \in [0 .. N -> S] /\ f[0] = <<>> /\ \A i \in 1 .. N : f[i] = step[i][f[i - 1]]
  BY <1>2, Zenon DEF TurnByTurn
<1>4. \A i \in 1 .. N : f[i] = Out!KeepUnlessBreak(f[i - 1], D[i])
  <2> SUFFICES ASSUME NEW i \in 1 .. N PROVE f[i] = Out!KeepUnlessBreak(f[i - 1], D[i])
    OBVIOUS
  <2>1. i - 1 \in 0 .. N
    BY <1>1
  <2>2. f[i - 1] \in S
    BY <1>3, <2>1
  <2> QED
    BY <1>3, <2>2
<1>5. Is(h)
  <2>1. \A i \in 0 .. N : i = 0 \/ i \in 1 .. N
    BY <1>1
  <2>2. \A i \in 0 .. N : f[i] = IF i = 0 THEN <<>> ELSE Out!KeepUnlessBreak(f[i - 1], D[i])
    BY <1>3, <1>4, <2>1
  <2>3. Is(f)
    BY <1>3, <2>2
  <2> HIDE DEF Is
  <2> QED
    BY <2>3
<1>6. \A i \in 0 .. N : h[i] = IF i = 0 THEN <<>> ELSE Out!KeepUnlessBreak(h[i - 1], D[i])
  <2> HIDE DEF h
  <2> QED
    BY <1>5
<1>7. h = [i \in 0 .. N |-> h[i]]
  <2> HIDE DEF h
  <2> QED
    BY <1>5
<1>8. Out!Unbroken(D) = h[N]
  BY DEF Out!Unbroken, N
<1> HIDE DEF h, Is
<1>9. h \in [0 .. N -> S]
  <2> DEFINE Q == {i \in 0 .. N : h[i] \in S}
  <2>1. 0 \in Q
    BY <1>1, <1>6
  <2>2. ASSUME NEW i \in 0 .. N - 1, i \in Q PROVE i + 1 \in Q
    <3>1. i + 1 \in 1 .. N /\ i + 1 \in 0 .. N /\ (i + 1) - 1 = i /\ i + 1 # 0
      BY <1>1
    <3>2. h[i + 1] = IF i + 1 = 0 THEN <<>> ELSE Out!KeepUnlessBreak(h[(i + 1) - 1], D[i + 1])
      BY <1>6, <3>1
    <3>3. Out!KeepUnlessBreak(h[i], D[i + 1]) \in S
      BY <1>1, <2>2, <3>1
    <3> QED
      BY <3>1, <3>2, <3>3
  <2> HIDE DEF Q
  <2>3. 0 .. N \subseteq Q
    BY <1>1, <2>1, <2>2, UpTo
  <2>4. \A i \in 0 .. N : h[i] \in S
    BY <2>3 DEF Q
  <2> QED
    BY <1>7, <2>4
<1>10. h[0] = <<>> /\ \A i \in 1 .. N : h[i] = Out!KeepUnlessBreak(h[i - 1], D[i])
  BY <1>1, <1>6
<1> QED
  BY <1>8, <1>9, <1>10 DEF N

\* What the rules make of a stream, turn by turn.
PutStays(S, D) == [shown |-> <<>>, cr |-> FALSE] \in S /\ Len(D) \in Nat /\ \A i \in 1 .. Len(D), x \in S : Out!Put(x, D[i]) \in S

\* Screen is the loop of Put.
LEMMA PutTurns ==
  ASSUME NEW S, NEW D, PutStays(S, D)
  PROVE  \E h \in [0 .. Len(D) -> S] :
           /\ h[0] = [shown |-> <<>>, cr |-> FALSE] /\ \A i \in 1 .. Len(D) : h[i] = Out!Put(h[i - 1], D[i])
           /\ Out!Screen(D) = h[Len(D)]
<1> DEFINE N == Len(D)
           step == [i \in 1 .. N |-> [x \in S |-> Out!Put(x, D[i])]]
           Is(g) == g = [i \in 0 .. N |-> IF i = 0 THEN [shown |-> <<>>, cr |-> FALSE] ELSE Out!Put(g[i - 1], D[i])]
           h == CHOOSE g : Is(g)
<1>1. [shown |-> <<>>, cr |-> FALSE] \in S /\ N \in Nat /\ \A i \in 1 .. N, x \in S : Out!Put(x, D[i]) \in S
  BY DEF PutStays
<1> HIDE DEF N
<1>2. PICK f : TurnByTurn(f, S, [shown |-> <<>>, cr |-> FALSE], step, N)
  <2>1. step \in [1 .. N -> [S -> S]]
    BY <1>1
  <2> HIDE DEF step
  <2> QED
    BY <1>1, <2>1, Turns, Zenon
<1>3. f \in [0 .. N -> S] /\ f[0] = [shown |-> <<>>, cr |-> FALSE] /\ \A i \in 1 .. N : f[i] = step[i][f[i - 1]]
  BY <1>2, Zenon DEF TurnByTurn
<1>4. \A i \in 1 .. N : f[i] = Out!Put(f[i - 1], D[i])
  <2> SUFFICES ASSUME NEW i \in 1 .. N PROVE f[i] = Out!Put(f[i - 1], D[i])
    OBVIOUS
  <2>1. i - 1 \in 0 .. N
    BY <1>1
  <2>2. f[i - 1] \in S
    BY <1>3, <2>1
  <2> QED
    BY <1>3, <2>2
<1>5. Is(h)
  <2>1. \A i \in 0 .. N : i = 0 \/ i \in 1 .. N
    BY <1>1
  <2>2. \A i \in 0 .. N : f[i] = IF i = 0 THEN [shown |-> <<>>, cr |-> FALSE] ELSE Out!Put(f[i - 1], D[i])
    BY <1>3, <1>4, <2>1
  <2>3. Is(f)
    BY <1>3, <2>2
  <2> HIDE DEF Is
  <2> QED
    BY <2>3
<1>6. \A i \in 0 .. N : h[i] = IF i = 0 THEN [shown |-> <<>>, cr |-> FALSE] ELSE Out!Put(h[i - 1], D[i])
  <2> HIDE DEF h
  <2> QED
    BY <1>5
<1>7. h = [i \in 0 .. N |-> h[i]]
  <2> HIDE DEF h
  <2> QED
    BY <1>5
<1>8. Out!Screen(D) = h[N]
  BY DEF Out!Screen, N
<1> HIDE DEF h, Is
<1>9. h \in [0 .. N -> S]
  <2> DEFINE Q == {i \in 0 .. N : h[i] \in S}
  <2>1. 0 \in Q
    BY <1>1, <1>6
  <2>2. ASSUME NEW i \in 0 .. N - 1, i \in Q PROVE i + 1 \in Q
    <3>1. i + 1 \in 1 .. N /\ i + 1 \in 0 .. N /\ (i + 1) - 1 = i /\ i + 1 # 0
      BY <1>1
    <3>2. h[i + 1] = IF i + 1 = 0 THEN [shown |-> <<>>, cr |-> FALSE] ELSE Out!Put(h[(i + 1) - 1], D[i + 1])
      BY <1>6, <3>1
    <3>3. Out!Put(h[i], D[i + 1]) \in S
      BY <1>1, <2>2, <3>1
    <3> QED
      BY <3>1, <3>2, <3>3
  <2> HIDE DEF Q
  <2>3. 0 .. N \subseteq Q
    BY <1>1, <2>1, <2>2, UpTo
  <2>4. \A i \in 0 .. N : h[i] \in S
    BY <2>3 DEF Q
  <2> QED
    BY <1>7, <2>4
<1>10. h[0] = [shown |-> <<>>, cr |-> FALSE] /\ \A i \in 1 .. N : h[i] = Out!Put(h[i - 1], D[i])
  BY <1>1, <1>6
<1> QED
  BY <1>8, <1>9, <1>10 DEF N

\* One more character takes one more turn.
LEMMA DisplayMore ==
  ASSUME NEW S, NEW A, NEW D \in Seq(A), NEW c \in A,
         DisplayStays(S, D), DisplayStays(S, Append(D, c))
  PROVE  /\ Out!Displayed(Append(D, c)) = Out!Display(Out!Displayed(D), c) /\ Out!Displayed(D) \in S
<1> DEFINE N == Len(D)
           E == Append(D, c)
<1>1. N \in Nat /\ Len(E) = N + 1 /\ E[N + 1] = c /\ \A i \in 1 .. N : E[i] = D[i]
  OBVIOUS
<1>2. PICK h \in [0 .. Len(D) -> S] :
        /\ h[0] = <<>> /\ \A i \in 1 .. Len(D) : h[i] = Out!Display(h[i - 1], D[i])
        /\ Out!Displayed(D) = h[Len(D)]
  BY DisplayTurns
<1> HIDE DEF E
<1>3. PICK g \in [0 .. Len(E) -> S] :
        /\ g[0] = <<>> /\ \A i \in 1 .. Len(E) : g[i] = Out!Display(g[i - 1], E[i])
        /\ Out!Displayed(E) = g[Len(E)]
  <2>1. DisplayStays(S, E)
    BY DEF E
  <2> QED
    BY <2>1, DisplayTurns
<1> HIDE DEF N
<1> DEFINE Q == {i \in 0 .. N : g[i] = h[i]}
<1>4. 0 \in Q
  BY <1>1, <1>2, <1>3
<1>5. ASSUME NEW i \in 0 .. N - 1, i \in Q PROVE i + 1 \in Q
  <2>1. i + 1 \in 1 .. N /\ i + 1 \in 1 .. Len(E) /\ (i + 1) - 1 = i /\ i + 1 \in 0 .. N
    BY <1>1
  <2>2. h[i + 1] = Out!Display(h[i], D[i + 1]) /\ g[i + 1] = Out!Display(g[i], E[i + 1])
    BY <1>2, <1>3, <2>1 DEF N
  <2> QED
    BY <1>1, <1>5, <2>1, <2>2
<1> HIDE DEF Q
<1>6. 0 .. N \subseteq Q
  BY <1>1, <1>4, <1>5, UpTo
<1>7. g[N] = h[N]
  BY <1>1, <1>6 DEF Q
<1>8. N + 1 \in 1 .. Len(E) /\ (N + 1) - 1 = N
  BY <1>1
<1>9. g[N + 1] = Out!Display(g[N], c)
  BY <1>1, <1>3, <1>8
<1>10. Out!Displayed(E) = Out!Display(Out!Displayed(D), c)
  BY <1>1, <1>2, <1>3, <1>7, <1>9 DEF N
<1>11. N \in 0 .. N
  BY <1>1
<1>12. Out!Displayed(D) \in S
  BY <1>2, <1>11 DEF N
<1> QED
  BY <1>10, <1>12 DEF E

\* One more character takes one more turn.
LEMMA BreakMore ==
  ASSUME NEW S, NEW base, NEW A, NEW D \in Seq(A), NEW c \in A,
         BreakStays(S, base, D), BreakStays(S, base, Append(D, c))
  PROVE  /\ Out!Broken(base, Append(D, c)) = Out!Break(Out!Broken(base, D), c) /\ Out!Broken(base, D) \in S
<1> DEFINE N == Len(D)
           E == Append(D, c)
<1>1. N \in Nat /\ Len(E) = N + 1 /\ E[N + 1] = c /\ \A i \in 1 .. N : E[i] = D[i]
  OBVIOUS
<1>2. PICK h \in [0 .. Len(D) -> S] :
        /\ h[0] = base /\ \A i \in 1 .. Len(D) : h[i] = Out!Break(h[i - 1], D[i])
        /\ Out!Broken(base, D) = h[Len(D)]
  BY BreakTurns
<1> HIDE DEF E
<1>3. PICK g \in [0 .. Len(E) -> S] :
        /\ g[0] = base /\ \A i \in 1 .. Len(E) : g[i] = Out!Break(g[i - 1], E[i])
        /\ Out!Broken(base, E) = g[Len(E)]
  <2>1. BreakStays(S, base, E)
    BY DEF E
  <2> QED
    BY <2>1, BreakTurns
<1> HIDE DEF N
<1> DEFINE Q == {i \in 0 .. N : g[i] = h[i]}
<1>4. 0 \in Q
  BY <1>1, <1>2, <1>3
<1>5. ASSUME NEW i \in 0 .. N - 1, i \in Q PROVE i + 1 \in Q
  <2>1. i + 1 \in 1 .. N /\ i + 1 \in 1 .. Len(E) /\ (i + 1) - 1 = i /\ i + 1 \in 0 .. N
    BY <1>1
  <2>2. h[i + 1] = Out!Break(h[i], D[i + 1]) /\ g[i + 1] = Out!Break(g[i], E[i + 1])
    BY <1>2, <1>3, <2>1 DEF N
  <2> QED
    BY <1>1, <1>5, <2>1, <2>2
<1> HIDE DEF Q
<1>6. 0 .. N \subseteq Q
  BY <1>1, <1>4, <1>5, UpTo
<1>7. g[N] = h[N]
  BY <1>1, <1>6 DEF Q
<1>8. N + 1 \in 1 .. Len(E) /\ (N + 1) - 1 = N
  BY <1>1
<1>9. g[N + 1] = Out!Break(g[N], c)
  BY <1>1, <1>3, <1>8
<1>10. Out!Broken(base, E) = Out!Break(Out!Broken(base, D), c)
  BY <1>1, <1>2, <1>3, <1>7, <1>9 DEF N
<1>11. N \in 0 .. N
  BY <1>1
<1>12. Out!Broken(base, D) \in S
  BY <1>2, <1>11 DEF N
<1> QED
  BY <1>10, <1>12 DEF E

\* One more character takes one more turn.
LEMMA KeepMore ==
  ASSUME NEW S, NEW A, NEW D \in Seq(A), NEW c \in A,
         KeepStays(S, D), KeepStays(S, Append(D, c))
  PROVE  /\ Out!Unbroken(Append(D, c)) = Out!KeepUnlessBreak(Out!Unbroken(D), c) /\ Out!Unbroken(D) \in S
<1> DEFINE N == Len(D)
           E == Append(D, c)
<1>1. N \in Nat /\ Len(E) = N + 1 /\ E[N + 1] = c /\ \A i \in 1 .. N : E[i] = D[i]
  OBVIOUS
<1>2. PICK h \in [0 .. Len(D) -> S] :
        /\ h[0] = <<>> /\ \A i \in 1 .. Len(D) : h[i] = Out!KeepUnlessBreak(h[i - 1], D[i])
        /\ Out!Unbroken(D) = h[Len(D)]
  BY KeepTurns
<1> HIDE DEF E
<1>3. PICK g \in [0 .. Len(E) -> S] :
        /\ g[0] = <<>> /\ \A i \in 1 .. Len(E) : g[i] = Out!KeepUnlessBreak(g[i - 1], E[i])
        /\ Out!Unbroken(E) = g[Len(E)]
  <2>1. KeepStays(S, E)
    BY DEF E
  <2> QED
    BY <2>1, KeepTurns
<1> HIDE DEF N
<1> DEFINE Q == {i \in 0 .. N : g[i] = h[i]}
<1>4. 0 \in Q
  BY <1>1, <1>2, <1>3
<1>5. ASSUME NEW i \in 0 .. N - 1, i \in Q PROVE i + 1 \in Q
  <2>1. i + 1 \in 1 .. N /\ i + 1 \in 1 .. Len(E) /\ (i + 1) - 1 = i /\ i + 1 \in 0 .. N
    BY <1>1
  <2>2. h[i + 1] = Out!KeepUnlessBreak(h[i], D[i + 1]) /\ g[i + 1] = Out!KeepUnlessBreak(g[i], E[i + 1])
    BY <1>2, <1>3, <2>1 DEF N
  <2> QED
    BY <1>1, <1>5, <2>1, <2>2
<1> HIDE DEF Q
<1>6. 0 .. N \subseteq Q
  BY <1>1, <1>4, <1>5, UpTo
<1>7. g[N] = h[N]
  BY <1>1, <1>6 DEF Q
<1>8. N + 1 \in 1 .. Len(E) /\ (N + 1) - 1 = N
  BY <1>1
<1>9. g[N + 1] = Out!KeepUnlessBreak(g[N], c)
  BY <1>1, <1>3, <1>8
<1>10. Out!Unbroken(E) = Out!KeepUnlessBreak(Out!Unbroken(D), c)
  BY <1>1, <1>2, <1>3, <1>7, <1>9 DEF N
<1>11. N \in 0 .. N
  BY <1>1
<1>12. Out!Unbroken(D) \in S
  BY <1>2, <1>11 DEF N
<1> QED
  BY <1>10, <1>12 DEF E

\* One more character takes one more turn.
LEMMA PutMore ==
  ASSUME NEW S, NEW A, NEW D \in Seq(A), NEW c \in A,
         PutStays(S, D), PutStays(S, Append(D, c))
  PROVE  /\ Out!Screen(Append(D, c)) = Out!Put(Out!Screen(D), c) /\ Out!Screen(D) \in S
<1> DEFINE N == Len(D)
           E == Append(D, c)
<1>1. N \in Nat /\ Len(E) = N + 1 /\ E[N + 1] = c /\ \A i \in 1 .. N : E[i] = D[i]
  OBVIOUS
<1>2. PICK h \in [0 .. Len(D) -> S] :
        /\ h[0] = [shown |-> <<>>, cr |-> FALSE] /\ \A i \in 1 .. Len(D) : h[i] = Out!Put(h[i - 1], D[i])
        /\ Out!Screen(D) = h[Len(D)]
  BY PutTurns
<1> HIDE DEF E
<1>3. PICK g \in [0 .. Len(E) -> S] :
        /\ g[0] = [shown |-> <<>>, cr |-> FALSE] /\ \A i \in 1 .. Len(E) : g[i] = Out!Put(g[i - 1], E[i])
        /\ Out!Screen(E) = g[Len(E)]
  <2>1. PutStays(S, E)
    BY DEF E
  <2> QED
    BY <2>1, PutTurns
<1> HIDE DEF N
<1> DEFINE Q == {i \in 0 .. N : g[i] = h[i]}
<1>4. 0 \in Q
  BY <1>1, <1>2, <1>3
<1>5. ASSUME NEW i \in 0 .. N - 1, i \in Q PROVE i + 1 \in Q
  <2>1. i + 1 \in 1 .. N /\ i + 1 \in 1 .. Len(E) /\ (i + 1) - 1 = i /\ i + 1 \in 0 .. N
    BY <1>1
  <2>2. h[i + 1] = Out!Put(h[i], D[i + 1]) /\ g[i + 1] = Out!Put(g[i], E[i + 1])
    BY <1>2, <1>3, <2>1 DEF N
  <2> QED
    BY <1>1, <1>5, <2>1, <2>2
<1> HIDE DEF Q
<1>6. 0 .. N \subseteq Q
  BY <1>1, <1>4, <1>5, UpTo
<1>7. g[N] = h[N]
  BY <1>1, <1>6 DEF Q
<1>8. N + 1 \in 1 .. Len(E) /\ (N + 1) - 1 = N
  BY <1>1
<1>9. g[N + 1] = Out!Put(g[N], c)
  BY <1>1, <1>3, <1>8
<1>10. Out!Screen(E) = Out!Put(Out!Screen(D), c)
  BY <1>1, <1>2, <1>3, <1>7, <1>9 DEF N
<1>11. N \in 0 .. N
  BY <1>1
<1>12. Out!Screen(D) \in S
  BY <1>2, <1>11 DEF N
<1> QED
  BY <1>10, <1>12 DEF E
-----------------------------------------------------------------------------
\* What holds of the empty sequence, and still holds with one more element, holds of all.
LEMMA Appending ==
  ASSUME NEW A, NEW T, <<>> \in T, \A s \in Seq(A), c \in A : s \in T => Append(s, c) \in T
  PROVE  Seq(A) \subseteq T
<1> SUFFICES ASSUME NEW D \in Seq(A) PROVE D \in T
  OBVIOUS
<1> DEFINE Q == {i \in 0 .. Len(D) : SubSeq(D, 1, i) \in T}
<1>1. Len(D) \in Nat
  OBVIOUS
<1>2. 0 \in Q
  <2>1. SubSeq(D, 1, 0) = <<>>
    OBVIOUS
  <2>2. SubSeq(D, 1, 0) \in T
    BY <2>1, Zenon
  <2>3. 0 \in 0 .. Len(D)
    BY <1>1
  <2> QED
    BY <2>2, <2>3, Zenon
<1>3. ASSUME NEW i \in 0 .. Len(D) - 1, i \in Q PROVE i + 1 \in Q
  <2>1. i + 1 \in 1 .. Len(D) /\ (i + 1) - 1 = i /\ i + 1 \in 0 .. Len(D)
    BY <1>1
  <2>2. D[i + 1] \in A /\ SubSeq(D, 1, i) \in Seq(A)
    BY <1>1, <2>1
  <2>3. Append(SubSeq(D, 1, (i + 1) - 1), D[i + 1]) = SubSeq(D, 1, i + 1)
    BY <2>1, OneMore
  <2>4. SubSeq(D, 1, i) \in T
    BY <1>3, Zenon
  <2>5. Append(SubSeq(D, 1, i), D[i + 1]) \in T
    BY <2>2, <2>4, Zenon
  <2>6. SubSeq(D, 1, i + 1) \in T
    BY <2>1, <2>3, <2>5, Zenon
  <2> QED
    BY <2>1, <2>6, Zenon
<1> HIDE DEF Q
<1>4. 0 .. Len(D) \subseteq Q
  BY <1>1, <1>2, <1>3, UpTo
<1>5. SubSeq(D, 1, Len(D)) \in T
  BY <1>1, <1>4 DEF Q
<1>6. SubSeq(D, 1, Len(D)) = D
  BY <1>1, SeqEqual
<1> QED
  BY <1>5, <1>6

\* The loops over the characters of a section end where they should.
LEMMA DisplayedMore ==
  ASSUME NEW D \in Seq({"a", "n", "r"}), NEW c \in {"a", "n", "r"}
  PROVE  /\ Out!Displayed(Append(D, c)) = Out!Display(Out!Displayed(D), c)
         /\ Out!Displayed(D) \in Seq({"a", "n"})
<1> DEFINE S == Seq({"a", "n"})
<1>1. Append(D, c) \in Seq({"a", "n", "r"})
  OBVIOUS
<1>2. DisplayStays(S, D) /\ DisplayStays(S, Append(D, c))
  BY <1>1, DisplayHolds
<1> HIDE DEF S
<1> QED
  BY <1>2, DisplayMore DEF S

\* Of nothing, nothing is displayed.
LEMMA NothingDisplayed == Out!Displayed(<<>>) = <<>>
<1>1. <<>> \in Seq({"a", "n"})
  OBVIOUS
<1> QED
  BY <1>1, PlainIsDisplayed

\* With a character more, what is left without the breaks has it too, unless it is a break.
LEMMA UnbrokenMore ==
  ASSUME NEW D \in Seq({"a", "n", "b"}), NEW c \in {"a", "n", "b"}
  PROVE  /\ Out!Unbroken(Append(D, c)) = Out!KeepUnlessBreak(Out!Unbroken(D), c)
         /\ Out!Unbroken(D) \in Seq({"a", "n"})
<1> DEFINE S == Seq({"a", "n"})
<1>1. ASSUME NEW E \in Seq({"a", "n", "b"}) PROVE KeepStays(S, E)
  <2>1. <<>> \in S /\ Len(E) \in Nat
    OBVIOUS
  <2>2. ASSUME NEW i \in 1 .. Len(E), NEW x \in S PROVE Out!KeepUnlessBreak(x, E[i]) \in S
    <3>1. E[i] \in {"a", "n", "b"}
      OBVIOUS
    <3>2. CASE E[i] = "b"
      BY <3>2 DEF Out!KeepUnlessBreak
    <3>3. CASE E[i] # "b"
      <4>1. E[i] \in {"a", "n"}
        BY <3>1, <3>3
      <4>2. Append(x, E[i]) \in S
        BY <4>1
      <4> QED
        BY <3>3, <4>2 DEF Out!KeepUnlessBreak
    <3> QED
      BY <3>2, <3>3
  <2> HIDE DEF S
  <2> QED
    BY <2>1, <2>2 DEF KeepStays
<1>2. Append(D, c) \in Seq({"a", "n", "b"})
  OBVIOUS
<1> HIDE DEF S
<1>3. KeepStays(S, D) /\ KeepStays(S, Append(D, c))
  BY <1>1, <1>2
<1> QED
  BY <1>3, KeepMore DEF S

\* Of nothing, nothing is left.
LEMMA NothingUnbroken == Out!Unbroken(<<>>) = <<>>
<1>1. KeepStays({<<>>}, <<>>)
  BY DEF KeepStays
<1>2. \E h \in [0 .. Len(<<>>) -> {<<>>}] :
        /\ h[0] = <<>> /\ \A i \in 1 .. Len(<<>>) : h[i] = Out!KeepUnlessBreak(h[i - 1], <<>>[i])
        /\ Out!Unbroken(<<>>) = h[Len(<<>>)]
  BY <1>1, KeepTurns
<1> QED
  BY <1>2

\* What a section can show, and whether a carriage return waits for what follows it.
Screens == [shown : Seq({"a", "n"}), cr : BOOLEAN]

\* The end of the text at its last newline.
LEMMA LastLineMore ==
  ASSUME NEW A, NEW s \in Seq(A), NEW c \in A
  PROVE  Out!LastLineDeleted(Append(s, c)) = IF c = "n" THEN Append(s, c) ELSE Out!LastLineDeleted(s)
<1> DEFINE v == Append(s, c)
           p == Out!LastPlace(s, {"n"})
<1>1. Len(s) \in Nat /\ v \in Seq(A) /\ Len(v) = Len(s) + 1 /\ v[Len(s) + 1] = c
      /\ \A i \in 1 .. Len(s) : v[i] = s[i]
  OBVIOUS
<1> HIDE DEF v
<1>2. CASE c = "n"
  <2>1. IsLastPlace(Len(v), v, {"n"})
    BY <1>1, <1>2 DEF IsLastPlace
  <2>2. Out!LastPlace(v, {"n"}) = Len(v)
    BY <1>1, <2>1, OneLastPlace
  <2>3. SubSeq(v, 1, Len(v)) = v
    BY <1>1, SeqEqual
  <2> QED
    BY <1>2, <2>2, <2>3 DEF Out!LastLineDeleted, v
<1>3. CASE c # "n"
  <2>1. IsLastPlace(p, s, {"n"})
    BY <1>1, HasLastPlace
  <2> HIDE DEF p
  <2>2. IsLastPlace(p, v, {"n"})
    BY <1>1, <1>3, <2>1 DEF IsLastPlace
  <2>3. Out!LastPlace(v, {"n"}) = p
    BY <1>1, <2>2, OneLastPlace
  <2>4. p \in 0 .. Len(s)
    BY <2>1 DEF IsLastPlace
  <2>5. SubSeq(v, 1, p) = SubSeq(s, 1, p)
    BY <1>1, <2>4, SeqEqual
  <2> QED
    BY <1>3, <2>3, <2>5 DEF Out!LastLineDeleted, v, p
<1> QED
  BY <1>2, <1>3

\* There is no last line to delete.
LEMMA NoLastLine == Out!LastLineDeleted(<<>>) = <<>>
<1>1. Len(<<>>) = 0
  OBVIOUS
<1>2. IsLastPlace(0, <<>>, {"n"})
  BY <1>1 DEF IsLastPlace
<1>3. Out!LastPlace(<<>>, {"n"}) = 0
  BY <1>1, <1>2, OneLastPlace
<1>4. SubSeq(<<>>, 1, 0) = <<>>
  OBVIOUS
<1> QED
  BY <1>3, <1>4 DEF Out!LastLineDeleted

\* What is appended to two sequences is appended to the second.
LEMMA OneMoreOfBoth ==
  ASSUME NEW A, NEW g \in Seq(A), NEW s \in Seq(A), NEW c \in A
  PROVE  g \o s \in Seq(A) /\ g \o Append(s, c) = Append(g \o s, c)
  OBVIOUS

\* Without its last line, a text is a sequence of the same characters.
LEMMA LastLineTyped ==
  ASSUME NEW A, NEW s \in Seq(A) PROVE Out!LastLineDeleted(s) \in Seq(A)
<1>1. Len(s) \in Nat
  OBVIOUS
<1>2. Out!LastPlace(s, {"n"}) \in 0 .. Len(s)
  BY <1>1, HasLastPlace DEF IsLastPlace
<1> QED
  BY <1>1, <1>2 DEF Out!LastLineDeleted

\* Deleting the last line twice is deleting it once.
LEMMA LastLineTwice ==
  ASSUME NEW A, NEW s \in Seq(A)
  PROVE  Out!LastLineDeleted(Out!LastLineDeleted(s)) = Out!LastLineDeleted(s)
<1> DEFINE T == {x \in Seq(A) : Out!LastLineDeleted(Out!LastLineDeleted(x)) = Out!LastLineDeleted(x)}
<1>1. <<>> \in T
  <2>1. <<>> \in Seq(A)
    OBVIOUS
  <2> QED
    BY <2>1, NoLastLine
<1>2. ASSUME NEW x \in Seq(A), NEW c \in A, x \in T PROVE Append(x, c) \in T
  <2>1. Append(x, c) \in Seq(A)
    OBVIOUS
  <2>2. Out!LastLineDeleted(Append(x, c)) = IF c = "n" THEN Append(x, c) ELSE Out!LastLineDeleted(x)
    BY LastLineMore
  <2> QED
    BY <1>2, <2>1, <2>2
<1> HIDE DEF T
<1>3. s \in T
  BY <1>1, <1>2, Appending
<1> QED
  BY <1>3 DEF T

\* What is shown of a text does not depend on when its last line is deleted.
LEMMA LastLineUnbroken ==
  ASSUME NEW s \in Seq({"a", "n", "b"})
  PROVE  Out!Unbroken(Out!LastLineDeleted(s)) = Out!LastLineDeleted(Out!Unbroken(s))
<1> DEFINE A == {"a", "n", "b"}
           T == {x \in Seq(A) : Out!Unbroken(Out!LastLineDeleted(x)) = Out!LastLineDeleted(Out!Unbroken(x))}
<1>1. <<>> \in T
  <2>1. <<>> \in Seq(A)
    OBVIOUS
  <2> QED
    BY <2>1, NoLastLine, NothingUnbroken
<1>2. ASSUME NEW x \in Seq(A), NEW c \in A, x \in T PROVE Append(x, c) \in T
  <2>1. Append(x, c) \in Seq(A)
    OBVIOUS
  <2>2. Out!LastLineDeleted(Append(x, c)) = IF c = "n" THEN Append(x, c) ELSE Out!LastLineDeleted(x)
    BY LastLineMore
  <2>3. /\ Out!Unbroken(Append(x, c)) = IF c = "b" THEN Out!Unbroken(x) ELSE Append(Out!Unbroken(x), c)
        /\ Out!Unbroken(x) \in Seq({"a", "n"})
    BY UnbrokenMore DEF Out!KeepUnlessBreak
  <2>4. CASE c = "b"
    BY <1>2, <2>1, <2>2, <2>3, <2>4
  <2>5. CASE c # "b"
    <3>1. c \in {"a", "n"}
      BY <2>5
    <3>2. Out!LastLineDeleted(Append(Out!Unbroken(x), c)) =
            IF c = "n" THEN Append(Out!Unbroken(x), c) ELSE Out!LastLineDeleted(Out!Unbroken(x))
      BY <2>3, <3>1, LastLineMore
    <3> QED
      BY <1>2, <2>1, <2>2, <2>3, <2>5, <3>2
  <2> QED
    BY <2>4, <2>5
<1>3. s \in Seq(A)
  OBVIOUS
<1> HIDE DEF T, A
<1>4. s \in T
  BY <1>1, <1>2, <1>3, Appending
<1> QED
  BY <1>4 DEF T

\* A character that is added, with or without a break, is all that is added to what is shown.
LEMMA BreakUnbroken ==
  ASSUME NEW s \in Seq({"a", "n", "b"}), NEW c \in {"a", "n"}
  PROVE  Out!Unbroken(Out!Break(s, c)) = Append(Out!Unbroken(s), c)
<1>1. ASSUME NEW x \in Seq({"a", "n", "b"}) PROVE Out!Unbroken(Append(x, c)) = Append(Out!Unbroken(x), c)
  BY UnbrokenMore DEF Out!KeepUnlessBreak
<1>2. Out!Unbroken(Append(s, "b")) = Out!Unbroken(s)
  BY UnbrokenMore DEF Out!KeepUnlessBreak
<1>3. CASE c # "n" /\ Out!Col(s) = BreakLen
  <2>1. Out!Break(s, c) = Append(Append(s, "b"), c)
    <3>1. s \o <<"b", c>> = Append(Append(s, "b"), c)
      OBVIOUS
    <3> QED
      BY <1>3, <3>1 DEF Out!Break
  <2>2. Append(s, "b") \in Seq({"a", "n", "b"})
    OBVIOUS
  <2> QED
    BY <1>1, <1>2, <2>1, <2>2
<1>4. CASE ~(c # "n" /\ Out!Col(s) = BreakLen)
  BY <1>1, <1>4 DEF Out!Break
<1> QED
  BY <1>3, <1>4

\* So the breaks of long lines are all that addbreaks adds to the data.
LEMMA BrokenUnbroken ==
  ASSUME Out!ConstantsFit, NEW w \in Texts, NEW D \in Seq({"a", "n"})
  PROVE  Out!Unbroken(Out!Broken(w, D)) = Out!Unbroken(w) \o D
<1> DEFINE A == {"a", "n"}
           T == {x \in Seq(A) : Out!Unbroken(Out!Broken(w, x)) = Out!Unbroken(w) \o x}
<1>1. w \in Seq({"a", "n", "b"}) /\ Out!Unbroken(w) \in Seq(A)
  <2>1. w \in Seq({"a", "n", "b"})
    BY DEF Texts
  <2> QED
    BY <2>1, UnbrokenMore
<1>2. <<>> \in T
  <2>1. <<>> \in Seq(A)
    OBVIOUS
  <2>2. Out!Broken(w, <<>>) = w
    BY <2>1, BrokenFits
  <2>3. Out!Unbroken(w) \o <<>> = Out!Unbroken(w)
    BY <1>1
  <2> QED
    BY <2>1, <2>2, <2>3
<1>3. ASSUME NEW x \in Seq(A), NEW c \in A, x \in T PROVE Append(x, c) \in T
  <2>1. Append(x, c) \in Seq(A)
    OBVIOUS
  <2>2. ASSUME NEW E \in Seq(A) PROVE BreakStays(Texts, w, E)
    <3>1. Len(E) \in Nat /\ \A i \in 1 .. Len(E) : E[i] \in A
      OBVIOUS
    <3> QED
      BY <3>1, BreakFits DEF BreakStays
  <2>3. Out!Broken(w, Append(x, c)) = Out!Break(Out!Broken(w, x), c) /\ Out!Broken(w, x) \in Texts
    <3>1. BreakStays(Texts, w, x) /\ BreakStays(Texts, w, Append(x, c))
      BY <2>1, <2>2
    <3> QED
      BY <3>1, BreakMore
  <2>4. Out!Broken(w, x) \in Seq({"a", "n", "b"})
    BY <2>3 DEF Texts
  <2>5. Out!Unbroken(Out!Broken(w, Append(x, c))) = Append(Out!Unbroken(w) \o x, c)
    BY <1>3, <2>3, <2>4, BreakUnbroken
  <2>6. Append(Out!Unbroken(w) \o x, c) = Out!Unbroken(w) \o Append(x, c)
    <3>1. \A g \in Seq(A) : g \o Append(x, c) = Append(g \o x, c)
      BY OneMoreOfBoth
    <3> QED
      BY <1>1, <3>1
  <2> QED
    BY <2>1, <2>5, <2>6
<1>4. D \in Seq(A)
  OBVIOUS
<1> HIDE DEF T, A
<1>5. D \in T
  BY <1>2, <1>3, <1>4, Appending
<1> QED
  BY <1>5 DEF T

-----------------------------------------------------------------------------
\* Is there a newline in a string?
HasNewline(s) == \E i \in 1 .. Len(s) : s[i] = "n"
\* Is there a carriage return on its first line?
GoesBack(s) == \E i \in 1 .. Len(s) : s[i] = "r" /\ \A j \in 1 .. i : s[j] # "n"

\* With a character more, there is a newline if there was one or this is one.
LEMMA NewlineMore ==
  ASSUME NEW A, NEW s \in Seq(A), NEW c \in A
  PROVE  HasNewline(Append(s, c)) <=> HasNewline(s) \/ c = "n"
<1> DEFINE v == Append(s, c)
<1>1. Len(s) \in Nat /\ Len(v) = Len(s) + 1 /\ v[Len(s) + 1] = c /\ \A i \in 1 .. Len(s) : v[i] = s[i]
  OBVIOUS
<1> HIDE DEF v
<1>2. HasNewline(v) => HasNewline(s) \/ c = "n"
  BY <1>1 DEF HasNewline
<1>3. HasNewline(s) => HasNewline(v)
  BY <1>1 DEF HasNewline
<1>4. c = "n" => HasNewline(v)
  BY <1>1 DEF HasNewline
<1> QED
  BY <1>2, <1>3, <1>4 DEF v

\* A return more goes back on the first line, if there was no newline before it.
LEMMA GoesBackMore ==
  ASSUME NEW A, NEW s \in Seq(A), NEW c \in A
  PROVE  GoesBack(Append(s, c)) <=> GoesBack(s) \/ (c = "r" /\ ~HasNewline(s))
<1> DEFINE v == Append(s, c)
<1>1. Len(s) \in Nat /\ Len(v) = Len(s) + 1 /\ v[Len(s) + 1] = c /\ \A i \in 1 .. Len(s) : v[i] = s[i]
  OBVIOUS
<1> HIDE DEF v
<1>2. ASSUME NEW i \in 1 .. Len(v), v[i] = "r" /\ \A j \in 1 .. i : v[j] # "n"
      PROVE  GoesBack(s) \/ (c = "r" /\ ~HasNewline(s))
  <2>1. CASE i \in 1 .. Len(s)
    <3>1. \A j \in 1 .. i : j \in 1 .. Len(s)
      BY <1>1, <2>1
    <3>2. s[i] = "r" /\ \A j \in 1 .. i : s[j] # "n"
      BY <1>1, <1>2, <2>1, <3>1
    <3> QED
      BY <2>1, <3>2 DEF GoesBack
  <2>2. CASE i = Len(s) + 1
    <3>1. \A j \in 1 .. Len(s) : j \in 1 .. i
      BY <1>1, <2>2
    <3>2. \A j \in 1 .. Len(s) : s[j] # "n"
      BY <1>1, <1>2, <3>1
    <3> QED
      BY <1>1, <1>2, <2>2, <3>2 DEF HasNewline
  <2> QED
    BY <1>1, <2>1, <2>2
<1>3. GoesBack(v) => GoesBack(s) \/ (c = "r" /\ ~HasNewline(s))
  BY <1>2 DEF GoesBack
<1>4. ASSUME NEW i \in 1 .. Len(s), s[i] = "r" /\ \A j \in 1 .. i : s[j] # "n" PROVE GoesBack(v)
  <2>1. \A j \in 1 .. i : j \in 1 .. Len(s)
    BY <1>1
  <2>2. v[i] = "r" /\ \A j \in 1 .. i : v[j] # "n"
    BY <1>1, <1>4, <2>1
  <2>3. i \in 1 .. Len(v)
    BY <1>1
  <2> QED
    BY <2>2, <2>3 DEF GoesBack
<1>5. ASSUME c = "r", ~HasNewline(s) PROVE GoesBack(v)
  <2>1. \A j \in 1 .. Len(s) + 1 : v[j] # "n"
    BY <1>1, <1>5 DEF HasNewline
  <2>2. Len(s) + 1 \in 1 .. Len(v)
    BY <1>1
  <2> QED
    BY <1>1, <1>5, <2>1, <2>2 DEF GoesBack
<1>6. GoesBack(s) => GoesBack(v)
  BY <1>4 DEF GoesBack
<1> QED
  BY <1>3, <1>5, <1>6 DEF v

\* Nothing has neither.
LEMMA NothingInNothing == ~HasNewline(<<>>) /\ ~GoesBack(<<>>)
  BY DEF HasNewline, GoesBack

\* A line that is deleted has no newline.
LEMMA LastLineHasNone ==
  ASSUME NEW A, NEW s \in Seq(A)
  PROVE  /\ HasNewline(Out!LastLineDeleted(s)) <=> HasNewline(s)
         /\ ~HasNewline(s) => Out!LastLineDeleted(s) = <<>>
<1> DEFINE Fits(x) == /\ HasNewline(Out!LastLineDeleted(x)) <=> HasNewline(x)
                      /\ ~HasNewline(x) => Out!LastLineDeleted(x) = <<>>
           T == {x \in Seq(A) : Fits(x)}
<1>1. <<>> \in T
  <2>1. <<>> \in Seq(A)
    OBVIOUS
  <2> QED
    BY <2>1, NoLastLine, NothingInNothing
<1>2. ASSUME NEW x \in Seq(A), NEW c \in A, x \in T PROVE Append(x, c) \in T
  <2>1. Append(x, c) \in Seq(A)
    OBVIOUS
  <2>2. Out!LastLineDeleted(Append(x, c)) = IF c = "n" THEN Append(x, c) ELSE Out!LastLineDeleted(x)
    BY LastLineMore
  <2>3. HasNewline(Append(x, c)) <=> HasNewline(x) \/ c = "n"
    BY NewlineMore
  <2>4. Fits(x)
    BY <1>2
  <2>5. Fits(Append(x, c))
    BY <2>2, <2>3, <2>4
  <2> HIDE DEF Fits
  <2> QED
    BY <2>1, <2>5
<1> HIDE DEF T
<1>3. s \in T
  BY <1>1, <1>2, Appending
<1> QED
  BY <1>3 DEF T

\* Displaying takes no newline away.
LEMMA NewlinesDisplayed ==
  ASSUME NEW s \in Seq({"a", "n", "r"})
  PROVE  HasNewline(Out!Displayed(s)) <=> HasNewline(s)
<1> DEFINE A == {"a", "n", "r"}
           Fits(x) == HasNewline(Out!Displayed(x)) <=> HasNewline(x)
           T == {x \in Seq(A) : Fits(x)}
<1>1. <<>> \in T
  <2>1. <<>> \in Seq(A)
    OBVIOUS
  <2> QED
    BY <2>1, NothingDisplayed
<1>2. ASSUME NEW x \in Seq(A), NEW c \in A, x \in T PROVE Append(x, c) \in T
  <2>1. Append(x, c) \in Seq(A)
    OBVIOUS
  <2>2. /\ Out!Displayed(Append(x, c)) = Out!Display(Out!Displayed(x), c)
        /\ Out!Displayed(x) \in Seq({"a", "n"})
    BY DisplayedMore
  <2>3. HasNewline(Append(x, c)) <=> HasNewline(x) \/ c = "n"
    BY NewlineMore
  <2>4. Fits(x)
    BY <1>2
  <2>5. CASE c = "r"
    <3>1. HasNewline(Out!LastLineDeleted(Out!Displayed(x))) <=> HasNewline(Out!Displayed(x))
      BY <2>2, LastLineHasNone
    <3>2. Fits(Append(x, c))
      BY <2>2, <2>3, <2>4, <2>5, <3>1 DEF Out!Display
    <3> HIDE DEF Fits
    <3> QED
      BY <2>1, <3>2
  <2>6. CASE c # "r"
    <3>1. c \in {"a", "n"}
      BY <2>6
    <3>2. HasNewline(Append(Out!Displayed(x), c)) <=> HasNewline(Out!Displayed(x)) \/ c = "n"
      BY <2>2, <3>1, NewlineMore
    <3>3. Fits(Append(x, c))
      BY <2>2, <2>3, <2>4, <2>6, <3>2 DEF Out!Display
    <3> HIDE DEF Fits
    <3> QED
      BY <2>1, <3>3
  <2> QED
    BY <2>5, <2>6
<1>3. s \in Seq(A)
  OBVIOUS
<1> HIDE DEF T, A
<1>4. s \in T
  BY <1>1, <1>2, <1>3, Appending
<1> QED
  BY <1>4 DEF T

\* The last line of a text is that of its end, if there is a newline in it.
LEMMA LastLineOfBoth ==
  ASSUME NEW A, NEW g \in Seq(A), NEW s \in Seq(A)
  PROVE  Out!LastLineDeleted(g \o s) =
           IF HasNewline(s) THEN g \o Out!LastLineDeleted(s) ELSE Out!LastLineDeleted(g)
<1> DEFINE Fits(x) == Out!LastLineDeleted(g \o x) =
                        IF HasNewline(x) THEN g \o Out!LastLineDeleted(x) ELSE Out!LastLineDeleted(g)
           T == {x \in Seq(A) : Fits(x)}
<1>1. <<>> \in T
  <2>1. <<>> \in Seq(A) /\ g \o <<>> = g
    OBVIOUS
  <2> QED
    BY <2>1, NothingInNothing
<1>2. ASSUME NEW x \in Seq(A), NEW c \in A, x \in T PROVE Append(x, c) \in T
  <2>1. Append(x, c) \in Seq(A) /\ g \o x \in Seq(A) /\ g \o Append(x, c) = Append(g \o x, c)
    OBVIOUS
  <2>2. Out!LastLineDeleted(Append(x, c)) = IF c = "n" THEN Append(x, c) ELSE Out!LastLineDeleted(x)
    BY LastLineMore
  <2>3. Out!LastLineDeleted(Append(g \o x, c)) =
          IF c = "n" THEN Append(g \o x, c) ELSE Out!LastLineDeleted(g \o x)
    BY <2>1, LastLineMore
  <2>4. HasNewline(Append(x, c)) <=> HasNewline(x) \/ c = "n"
    BY NewlineMore
  <2>5. Fits(x)
    BY <1>2
  <2>6. Fits(Append(x, c))
    BY <2>1, <2>2, <2>3, <2>4, <2>5
  <2> HIDE DEF Fits
  <2> QED
    BY <2>1, <2>6
<1> HIDE DEF T
<1>3. s \in T
  BY <1>1, <1>2, Appending
<1> QED
  BY <1>3 DEF T

-----------------------------------------------------------------------------
\* Do data overwrite the line that a section ended with, if a carriage return was waiting?
GoesOver(y, back) == (back /\ y # <<>> /\ ~Out!Starts(y, "n")) \/ GoesBack(y)
\* What is kept of what was shown, and what is shown with the data.
KeptOf(y, back, g) == IF GoesOver(y, back) THEN Out!LastLineDeleted(g) ELSE g
ShownOf(y, back, g) == KeptOf(y, back, g) \o Out!Displayed(y)

\* What is shown is of characters and newlines.
LEMMA ShownTyped ==
  ASSUME NEW g \in Seq({"a", "n"}), NEW back, NEW y \in Seq({"a", "n", "r"})
  PROVE  /\ KeptOf(y, back, g) \in Seq({"a", "n"}) /\ Out!Displayed(y) \in Seq({"a", "n"})
         /\ ShownOf(y, back, g) \in Seq({"a", "n"})
<1>1. Out!LastLineDeleted(g) \in Seq({"a", "n"})
  BY LastLineTyped
<1>2. KeptOf(y, back, g) \in Seq({"a", "n"})
  BY <1>1 DEF KeptOf
<1>3. Out!Displayed(y) \in Seq({"a", "n"})
  BY DisplayedTyped
<1> QED
  BY <1>2, <1>3 DEF ShownOf

\* How a text with one character more starts.
LEMMA StartsMore ==
  ASSUME NEW A, NEW y \in Seq(A), NEW c \in A
  PROVE  /\ Append(y, c) # <<>>
         /\ Out!Starts(Append(y, c), "n") <=> IF y = <<>> THEN c = "n" ELSE Out!Starts(y, "n")
<1>1. Append(y, c) # <<>> /\ Head(Append(y, c)) = Append(y, c)[1]
  OBVIOUS
<1>2. CASE y = <<>>
  <2>1. Append(y, c)[1] = c
    BY <1>2
  <2> QED
    BY <1>1, <1>2, <2>1 DEF Out!Starts
<1>3. CASE y # <<>>
  <2>1. Append(y, c)[1] = y[1] /\ Head(y) = y[1]
    BY <1>3
  <2> QED
    BY <1>1, <1>3, <2>1 DEF Out!Starts
<1> QED
  BY <1>2, <1>3

\* A newline, wherever it is, overwrites nothing.
LEMMA NewlineShown ==
  ASSUME NEW g \in Seq({"a", "n"}), NEW back \in BOOLEAN, NEW y \in Seq({"a", "n", "r"})
  PROVE  ShownOf(Append(y, "n"), back, g) = Append(ShownOf(y, back, g), "n")
<1> DEFINE z == Append(y, "n")
<1>1. GoesBack(z) <=> GoesBack(y)
  BY GoesBackMore
<1>2. /\ z # <<>>
      /\ Out!Starts(z, "n") <=> IF y = <<>> THEN TRUE ELSE Out!Starts(y, "n")
  BY StartsMore
<1>3. Out!Displayed(z) = Append(Out!Displayed(y), "n")
  BY DisplayedMore DEF Out!Display
<1> HIDE DEF z
<1>4. GoesOver(z, back) <=> GoesOver(y, back)
  BY <1>1, <1>2 DEF GoesOver
<1>5. KeptOf(z, back, g) = KeptOf(y, back, g)
  BY <1>4 DEF KeptOf
<1>6. KeptOf(y, back, g) \o Append(Out!Displayed(y), "n") = Append(KeptOf(y, back, g) \o Out!Displayed(y), "n")
  BY ShownTyped, OneMoreOfBoth
<1> QED
  BY <1>3, <1>5, <1>6 DEF ShownOf, z

\* Nor does a character that follows another one.
LEMMA CharacterShown ==
  ASSUME NEW g \in Seq({"a", "n"}), NEW back \in BOOLEAN, NEW y \in Seq({"a", "n", "r"}),
         back => y # <<>>
  PROVE  ShownOf(Append(y, "a"), back, g) = Append(ShownOf(y, back, g), "a")
<1> DEFINE z == Append(y, "a")
<1>1. GoesBack(z) <=> GoesBack(y)
  BY GoesBackMore
<1>2. /\ z # <<>>
      /\ Out!Starts(z, "n") <=> IF y = <<>> THEN FALSE ELSE Out!Starts(y, "n")
  BY StartsMore
<1>3. Out!Displayed(z) = Append(Out!Displayed(y), "a")
  BY DisplayedMore DEF Out!Display
<1> HIDE DEF z
<1>4. GoesOver(z, back) <=> GoesOver(y, back)
  BY <1>1, <1>2 DEF GoesOver
<1>5. KeptOf(z, back, g) = KeptOf(y, back, g)
  BY <1>4 DEF KeptOf
<1>6. KeptOf(y, back, g) \o Append(Out!Displayed(y), "a") = Append(KeptOf(y, back, g) \o Out!Displayed(y), "a")
  BY ShownTyped, OneMoreOfBoth
<1> QED
  BY <1>3, <1>5, <1>6 DEF ShownOf, z

\* The first one does, after a carriage return that waited.
LEMMA FirstShown ==
  ASSUME NEW g \in Seq({"a", "n"})
  PROVE  /\ ShownOf(Append(<<>>, "a"), TRUE, g) = Append(Out!LastLineDeleted(g), "a")
         /\ \A back \in BOOLEAN : ShownOf(<<>>, back, g) = g
<1> DEFINE y == <<>>
           z == Append(y, "a")
<1>1. y \in Seq({"a", "n", "r"}) /\ ~GoesBack(y) /\ Out!Displayed(y) = <<>>
  BY NothingInNothing, NothingDisplayed
<1>2. z # <<>> /\ ~Out!Starts(z, "n")
  <2>1. z # <<>> /\ Head(z) = "a"
    OBVIOUS
  <2> HIDE DEF z
  <2> QED
    BY <2>1 DEF Out!Starts
<1>3. Out!Displayed(z) = Append(<<>>, "a")
  <2>1. Out!Displayed(z) = Out!Display(Out!Displayed(y), "a")
    BY <1>1, DisplayedMore
  <2> HIDE DEF z
  <2> QED
    BY <1>1, <2>1 DEF Out!Display
<1>4. KeptOf(z, TRUE, g) = Out!LastLineDeleted(g)
  <2> HIDE DEF z
  <2> QED
    BY <1>2 DEF KeptOf, GoesOver
<1>5. Out!LastLineDeleted(g) \o Append(<<>>, "a") = Append(Out!LastLineDeleted(g), "a")
  <2>1. Out!LastLineDeleted(g) \in Seq({"a", "n"})
    BY LastLineTyped
  <2> QED
    BY <2>1
<1>6. \A back \in BOOLEAN : ShownOf(y, back, g) = g
  <2>1. \A back \in BOOLEAN : KeptOf(y, back, g) = g
    BY <1>1 DEF KeptOf, GoesOver
  <2>2. g \o <<>> = g
    OBVIOUS
  <2> QED
    BY <1>1, <2>1, <2>2 DEF ShownOf
<1> QED
  BY <1>3, <1>4, <1>5, <1>6 DEF ShownOf

\* And so does one that follows a carriage return.
LEMMA OverwriterShown ==
  ASSUME NEW g \in Seq({"a", "n"}), NEW back \in BOOLEAN, NEW y \in Seq({"a", "n", "r"})
  PROVE  ShownOf(Append(Append(y, "r"), "a"), back, g) =
           Append(Out!LastLineDeleted(ShownOf(y, back, g)), "a")
<1> DEFINE u == Append(y, "r")
           z == Append(u, "a")
           kept == KeptOf(y, back, g)
           shown == Out!Displayed(y)
<1>1. u \in Seq({"a", "n", "r"}) /\ u # <<>>
  OBVIOUS
<1>2. GoesBack(u) <=> GoesBack(y) \/ ~HasNewline(y)
  BY GoesBackMore
<1>3. Out!Displayed(u) = Out!LastLineDeleted(shown)
  BY DisplayedMore DEF Out!Display
<1>4. HasNewline(shown) <=> HasNewline(y)
  BY NewlinesDisplayed
<1>5. kept \in Seq({"a", "n"}) /\ shown \in Seq({"a", "n"}) /\ Out!LastLineDeleted(shown) \in Seq({"a", "n"})
      /\ Out!LastLineDeleted(g) \in Seq({"a", "n"})
  BY ShownTyped, LastLineTyped
<1>6. Out!Starts(u, "n") <=> IF y = <<>> THEN FALSE ELSE Out!Starts(y, "n")
  BY StartsMore
<1>7. ShownOf(z, back, g) = Append(ShownOf(u, back, g), "a")
  BY <1>1, CharacterShown
<1>8. ShownOf(y, back, g) = kept \o shown
  BY DEF ShownOf
<1> HIDE DEF u, shown
<1>9. CASE HasNewline(y)
  <2>1. y # <<>>
    BY <1>9, NothingInNothing
  <2>2. GoesOver(u, back) <=> GoesOver(y, back)
    BY <1>1, <1>2, <1>6, <1>9, <2>1 DEF GoesOver
  <2>3. ShownOf(u, back, g) = kept \o Out!LastLineDeleted(shown)
    BY <1>3, <2>2 DEF ShownOf, KeptOf
  <2>4. Out!LastLineDeleted(kept \o shown) = kept \o Out!LastLineDeleted(shown)
    <3> HIDE DEF kept
    <3> QED
      BY <1>4, <1>5, <1>9, LastLineOfBoth
  <2> QED
    BY <1>7, <1>8, <2>3, <2>4 DEF u
<1>10. CASE ~HasNewline(y)
  <2>1. GoesOver(u, back)
    BY <1>2, <1>10 DEF GoesOver
  <2>2. Out!LastLineDeleted(shown) = <<>>
    BY <1>4, <1>5, <1>10, LastLineHasNone
  <2>3. Out!LastLineDeleted(g) \o <<>> = Out!LastLineDeleted(g)
    BY <1>5
  <2>4. ShownOf(u, back, g) = Out!LastLineDeleted(g)
    BY <1>3, <2>1, <2>2, <2>3 DEF ShownOf, KeptOf
  <2>5. Out!LastLineDeleted(kept) = Out!LastLineDeleted(g)
    BY LastLineTwice DEF KeptOf
  <2>6. Out!LastLineDeleted(kept \o shown) = Out!LastLineDeleted(g)
    <3> HIDE DEF kept
    <3> QED
      BY <1>4, <1>5, <1>10, <2>5, LastLineOfBoth
  <2> QED
    BY <1>7, <1>8, <2>4, <2>6 DEF u
<1> QED
  BY <1>9, <1>10

-----------------------------------------------------------------------------
\* One more character on the screen.
LEMMA ScreenMore ==
  ASSUME NEW D \in Seq({"a", "n", "r", "e"}), NEW c \in {"a", "n", "r", "e"}
  PROVE  Out!Screen(Append(D, c)) = Out!Put(Out!Screen(D), c) /\ Out!Screen(D) \in Screens
<1>1. ASSUME NEW E \in Seq({"a", "n", "r", "e"}) PROVE PutStays(Screens, E)
  <2>1. [shown |-> <<>>, cr |-> FALSE] \in Screens /\ Len(E) \in Nat
    BY DEF Screens
  <2>2. ASSUME NEW i \in 1 .. Len(E), NEW t \in Screens PROVE Out!Put(t, E[i]) \in Screens
    <3>1. E[i] \in {"a", "n", "r", "e"}
      OBVIOUS
    <3>2. t.shown \in Seq({"a", "n"}) /\ Out!LastLineDeleted(t.shown) \in Seq({"a", "n"})
      BY LastLineTyped DEF Screens
    <3>3. t.cr \in BOOLEAN /\ [t EXCEPT !.cr = TRUE] \in Screens
      BY DEF Screens
    <3>4. ASSUME NEW q \in Seq({"a", "n"}), NEW c1 \in {"a", "n"}
          PROVE  [shown |-> Append(q, c1), cr |-> FALSE] \in Screens
      BY DEF Screens
    <3>5. CASE E[i] = "n"
      BY <3>2, <3>4, <3>5 DEF Out!Put
    <3>6. CASE E[i] = "r"
      BY <3>3, <3>6 DEF Out!Put
    <3>7. CASE E[i] = "e"
      BY <3>7 DEF Out!Put
    <3>8. CASE E[i] = "a"
      BY <3>2, <3>3, <3>4, <3>8 DEF Out!Put
    <3> QED
      BY <3>1, <3>5, <3>6, <3>7, <3>8
  <2> QED
    BY <2>1, <2>2 DEF PutStays
<1>2. Append(D, c) \in Seq({"a", "n", "r", "e"})
  OBVIOUS
<1>3. PutStays(Screens, D) /\ PutStays(Screens, Append(D, c))
  BY <1>1, <1>2
<1> QED
  BY <1>3, PutMore

\* Nothing is shown of nothing.
LEMMA NothingOnScreen == Out!Screen(<<>>) = [shown |-> <<>>, cr |-> FALSE]
<1> DEFINE t0 == [shown |-> <<>>, cr |-> FALSE]
<1>1. PutStays({t0}, <<>>)
  BY DEF PutStays
<1> HIDE DEF t0
<1>2. \E h \in [0 .. Len(<<>>) -> {t0}] :
        /\ h[0] = [shown |-> <<>>, cr |-> FALSE]
        /\ \A i \in 1 .. Len(<<>>) : h[i] = Out!Put(h[i - 1], <<>>[i])
        /\ Out!Screen(<<>>) = h[Len(<<>>)]
  BY <1>1, PutTurns
<1> QED
  BY <1>2

\* The cleaned data so far and the screen so far agree: the data but for a last
\* carriage return are what is shown, and that one waits on the screen.
Agrees(x, t, D, i, back, g, y, waits) ==
  /\ x = IF waits THEN Append(y, "r") ELSE y
  /\ ~Out!Ends(y, "r")
  /\ t.shown = ShownOf(y, back, g)
  /\ t.cr <=> waits \/ (i > 0 /\ Out!OfNewline(D, i)) \/ (i = 0 /\ back)
  /\ waits => i > 0 /\ D[i] = "r" /\ ~Out!OfNewline(D, i)
  /\ back /\ i > 0 => y # <<>>
  /\ i = 0 => y = <<>>
  /\ i > 0 \/ g # <<>> => t.shown # <<>>

\* What a character is added to is not empty.
LEMMA OneAtLeast ==
  /\ \A s \in Seq({"a", "n"}), c \in {"a", "n"} : Append(s, c) # <<>>
  /\ \A s \in Seq({"a", "n", "r"}), c \in {"a", "n", "r"} :
       Append(s, c) # <<>> /\ Append(s, c) \in Seq({"a", "n", "r"})
  OBVIOUS

\* A text ends with what was appended to it.
LEMMA EndsMore ==
  ASSUME NEW A, NEW y \in Seq(A), NEW c \in A
  PROVE  /\ Out!Ends(Append(y, c), "r") <=> c = "r"
         /\ Out!Front(Append(y, c)) = y
<1> DEFINE z == Append(y, c)
<1>1. z # <<>> /\ Len(z) = Len(y) + 1 /\ z[Len(z)] = c /\ z \in Seq(A)
  OBVIOUS
<1>2. SubSeq(z, 1, Len(z) - 1) = y
  <2>1. Len(y) \in Nat /\ \A i \in 1 .. Len(y) : z[i] = y[i]
    OBVIOUS
  <2> HIDE DEF z
  <2> QED
    BY <1>1, <2>1, SeqEqual
<1> HIDE DEF z
<1>3. Out!Ends(z, "r") <=> c = "r"
  BY <1>1 DEF Out!Ends, Out!Last
<1>4. Out!Front(z) = y
  BY <1>2 DEF Out!Front
<1> QED
  BY <1>3, <1>4 DEF z

Agree(x, t, D, i, back, g) ==
  \E y \in Seq({"a", "n", "r"}), waits \in BOOLEAN : Agrees(x, t, D, i, back, g, y, waits)

\* In a regular stream, what follows a carriage return is shown, as is its first character.
RegularAt(D, i, back, g) ==
  (i > 0 /\ D[i] = "r") \/ (i = 0 /\ (back \/ g = <<>>)) => D[i + 1] \in {"a", "n"}

\* They still agree after one more character.
LEMMA AgreeMore ==
  ASSUME NEW D \in Seq({"a", "n", "r", "e"}), NEW i \in 0 .. Len(D) - 1,
         NEW back \in BOOLEAN, NEW g \in Seq({"a", "n"}), NEW x, NEW t \in Screens,
         Agree(x, t, D, i, back, g), RegularAt(D, i, back, g)
  PROVE  Agree(Out!Clean(x, D, i + 1), Out!Put(t, D[i + 1]), D, i + 1, back, g)
<1>0. PICK y \in Seq({"a", "n", "r"}), waits \in BOOLEAN : Agrees(x, t, D, i, back, g, y, waits)
  BY DEF Agree
<1> DEFINE c == D[i + 1]
           u == Out!Clean(x, D, i + 1)
           s == Out!Put(t, c)
<1>1. /\ Len(D) \in Nat /\ i \in Nat /\ i + 1 \in 1 .. Len(D) /\ i + 1 # 0 /\ i + 1 > 0
      /\ c \in {"a", "n", "r", "e"} /\ (i > 0 => i < Len(D))
  OBVIOUS
<1>2. /\ t.shown \in Seq({"a", "n"}) /\ t.cr \in BOOLEAN
      /\ Out!LastLineDeleted(t.shown) \in Seq({"a", "n"})
  BY LastLineTyped DEF Screens
<1>3. /\ x = IF waits THEN Append(y, "r") ELSE y
      /\ ~Out!Ends(y, "r")
      /\ t.shown = ShownOf(y, back, g)
      /\ t.cr <=> waits \/ (i > 0 /\ Out!OfNewline(D, i)) \/ (i = 0 /\ back)
      /\ waits => i > 0 /\ D[i] = "r" /\ ~Out!OfNewline(D, i)
      /\ back /\ i > 0 => y # <<>>
      /\ i = 0 => y = <<>>
      /\ i > 0 \/ g # <<>> => t.shown # <<>>
  BY <1>0 DEF Agrees
<1>4. i > 0 => (Out!OfNewline(D, i) <=> D[i] = "r" /\ c = "n")
  BY <1>1 DEF Out!OfNewline
<1>5. Out!OfNewline(D, i + 1) => c = "r"
  BY DEF Out!OfNewline
<1>6. u = IF c = "e" \/ Out!OfNewline(D, i + 1) THEN x ELSE Append(x, c)
  BY DEF Out!Clean
<1>7. s = CASE c = "n" -> [shown |-> Append(t.shown, c), cr |-> FALSE]
            [] c = "r" -> [t EXCEPT !.cr = TRUE]
            [] c = "e" -> t
            [] c = "a" -> [shown |-> Append(IF t.cr THEN Out!LastLineDeleted(t.shown) ELSE t.shown, c),
                           cr |-> FALSE]
  BY DEF Out!Put
<1>8. i > 0 /\ D[i] = "r" => c \in {"a", "n"}
  BY DEF RegularAt
<1>9. i = 0 /\ (back \/ g = <<>>) => c \in {"a", "n"}
  BY DEF RegularAt
<1> HIDE DEF c, u, s
<1>10. SUFFICES \E z \in Seq({"a", "n", "r"}), p \in BOOLEAN : Agrees(u, s, D, i + 1, back, g, z, p)
  BY DEF Agree, u, s, c
<1>11. CASE c = "e" \/ c = "r"
  <2>1. ~waits /\ x = y /\ ~t.cr
    BY <1>1, <1>3, <1>4, <1>8, <1>9, <1>11
  <2>2. s.shown = t.shown /\ (s.cr <=> c = "r")
    BY <1>2, <1>7, <1>11, <2>1 DEF Screens
  <2>3. s.shown # <<>> /\ (back => y # <<>>)
    BY <1>1, <1>3, <1>9, <1>11, <2>2
  <2>4. CASE c = "e" \/ Out!OfNewline(D, i + 1)
    <3>1. u = y /\ (s.cr <=> Out!OfNewline(D, i + 1))
      BY <1>5, <1>6, <2>1, <2>2, <2>4
    <3>2. Agrees(u, s, D, i + 1, back, g, y, FALSE)
      BY <1>1, <1>3, <2>2, <2>3, <3>1 DEF Agrees
    <3> QED
      BY <3>2
  <2>5. CASE c = "r" /\ ~Out!OfNewline(D, i + 1)
    <3>1. u = Append(y, "r") /\ s.cr
      BY <1>6, <2>1, <2>2, <2>5
    <3>2. Agrees(u, s, D, i + 1, back, g, y, TRUE)
      BY <1>1, <1>3, <2>2, <2>3, <2>5, <3>1 DEF Agrees, c
    <3> QED
      BY <3>2
  <2> QED
    BY <1>11, <2>4, <2>5
<1>12. CASE c = "n"
  <2> DEFINE z == Append(y, "n")
  <2>1. ~waits /\ x = y
    BY <1>3, <1>4, <1>12
  <2>2. u = z /\ ~Out!OfNewline(D, i + 1)
    BY <1>5, <1>6, <1>12, <2>1
  <2>3. s.shown = Append(t.shown, "n") /\ s.cr = FALSE
    BY <1>7, <1>12
  <2>4. s.shown = ShownOf(z, back, g)
    BY <1>3, <2>3, NewlineShown
  <2>5. z \in Seq({"a", "n", "r"}) /\ z # <<>> /\ ~Out!Ends(z, "r")
    <3>1. z \in Seq({"a", "n", "r"}) /\ z # <<>>
      BY OneAtLeast
    <3>2. Out!Ends(z, "r") <=> "n" = "r"
      BY EndsMore
    <3> HIDE DEF z
    <3> QED
      BY <3>1, <3>2
  <2>6. s.shown # <<>>
    <3>1. Append(t.shown, "n") # <<>>
      BY <1>2, OneAtLeast
    <3> QED
      BY <2>3, <3>1
  <2> HIDE DEF z
  <2>7. Agrees(u, s, D, i + 1, back, g, z, FALSE)
    BY <1>1, <2>2, <2>3, <2>4, <2>5, <2>6 DEF Agrees
  <2> QED
    BY <2>5, <2>7
<1>13. CASE c = "a"
  <2>1. ~Out!OfNewline(D, i + 1) /\ u = Append(x, "a")
    BY <1>5, <1>6, <1>13
  <2>2. s.shown = Append(IF t.cr THEN Out!LastLineDeleted(t.shown) ELSE t.shown, "a") /\ s.cr = FALSE
    BY <1>7, <1>13
  <2>3. u \in Seq({"a", "n", "r"}) /\ u # <<>> /\ ~Out!Ends(u, "r")
    <3>1. x \in Seq({"a", "n", "r"})
      BY <1>3
    <3> QED
      BY <2>1, <3>1, EndsMore
  <2>4. s.shown # <<>>
    <3>1. \A q \in Seq({"a", "n"}) : Append(q, "a") # <<>>
      BY OneAtLeast
    <3> QED
      BY <1>2, <2>2, <3>1
  <2>5. s.shown = ShownOf(u, back, g)
    <3>1. CASE waits
      <4>1. u = Append(Append(y, "r"), "a") /\ t.cr
        BY <1>3, <2>1, <3>1
      <4> QED
        BY <1>3, <2>2, <4>1, OverwriterShown
    <3>2. CASE ~waits /\ i = 0 /\ back
      <4>1. u = Append(<<>>, "a") /\ t.cr /\ back = TRUE /\ y = <<>>
        BY <1>3, <2>1, <3>2
      <4>2. t.shown = g
        BY <1>3, <4>1, FirstShown
      <4> QED
        BY <2>2, <4>1, <4>2, FirstShown
    <3>3. CASE ~waits /\ ~(i = 0 /\ back)
      <4>1. ~t.cr /\ u = Append(y, "a") /\ (back => y # <<>>)
        BY <1>1, <1>3, <1>4, <1>13, <2>1, <3>3
      <4> QED
        BY <1>3, <2>2, <4>1, CharacterShown
    <3> QED
      BY <3>1, <3>2, <3>3
  <2>6. Agrees(u, s, D, i + 1, back, g, u, FALSE)
    BY <1>1, <2>1, <2>2, <2>3, <2>4, <2>5 DEF Agrees
  <2> QED
    BY <2>3, <2>6
<1> QED
  BY <1>1, <1>11, <1>12, <1>13

\* Cleaned, the data are shown after what the screen shows.
LEMMA DataAgrees ==
  ASSUME NEW D \in Seq({"a", "n", "r", "e"}), NEW s \in Seq({"a", "n", "r", "e"}),
         NEW back \in BOOLEAN, NEW g \in Seq({"a", "n"}),
         Out!Screen(s).shown = g, Out!Screen(s).cr = back,
         \A i \in 1 .. Len(D) - 1 : D[i] = "r" => D[i + 1] \in {"a", "n"},
         Len(D) > 0, (back \/ g = <<>>) => D[1] \in {"a", "n"}
  PROVE  Agree(Out!Cleaned(D), Out!Screen(s \o D), D, Len(D), back, g)
<1> DEFINE A == {"a", "n", "r", "e"}
           Now(i) == Out!Screen(s \o SubSeq(D, 1, i))
<1>1. Len(D) \in Nat /\ s \in Seq(A) /\ D \in Seq(A)
  OBVIOUS
<1>2. CleanStays(Seq({"a", "n", "r"}), D)
  BY CleanHolds
<1>3. PICK h \in [0 .. Len(D) -> Seq({"a", "n", "r"})] :
        /\ h[0] = <<>> /\ \A i \in 1 .. Len(D) : h[i] = Out!Clean(h[i - 1], D, i)
        /\ Out!Cleaned(D) = h[Len(D)]
  BY <1>2, CleanTurns
<1> DEFINE Good(i) == Agree(h[i], Now(i), D, i, back, g)
           Q == {i \in 0 .. Len(D) : Good(i)}
<1>4. 0 \in Q
  <2>1. s \o SubSeq(D, 1, 0) = s
    <3>1. SubSeq(D, 1, 0) = <<>>
      OBVIOUS
    <3>2. s \o <<>> = s
      OBVIOUS
    <3> QED
      BY <3>1, <3>2
  <2>2. <<>> \in Seq({"a", "n", "r"}) /\ ~Out!Ends(<<>>, "r")
    BY DEF Out!Ends
  <2>3. ShownOf(<<>>, back, g) = g
    BY FirstShown
  <2>4. Now(0).shown = g /\ Now(0).cr = back
    BY <2>1
  <2> HIDE DEF Now
  <2>5. Agrees(h[0], Now(0), D, 0, back, g, <<>>, FALSE)
    BY <1>3, <2>2, <2>3, <2>4 DEF Agrees
  <2>6. Agree(h[0], Now(0), D, 0, back, g)
    BY <2>2, <2>5 DEF Agree
  <2>7. 0 \in 0 .. Len(D)
    BY <1>1
  <2> QED
    BY <2>6, <2>7
<1>5. ASSUME NEW i \in 0 .. Len(D) - 1, i \in Q PROVE i + 1 \in Q
  <2>1. Agree(h[i], Now(i), D, i, back, g)
    BY <1>5
  <2>2. i + 1 \in 1 .. Len(D) /\ (i + 1) - 1 = i /\ i + 1 \in 0 .. Len(D)
    <3>1. Len(D) \in Nat
      BY <1>1
    <3> QED
      BY <3>1
  <2>3. D[i + 1] \in A /\ SubSeq(D, 1, i) \in Seq(A)
    BY <1>1, <2>2
  <2>4. SubSeq(D, 1, i + 1) = Append(SubSeq(D, 1, i), D[i + 1])
    <3>1. Append(SubSeq(D, 1, (i + 1) - 1), D[i + 1]) = SubSeq(D, 1, i + 1)
      BY <2>2, OneMore
    <3> QED
      BY <2>2, <3>1
  <2>5. /\ s \o SubSeq(D, 1, i) \in Seq(A)
        /\ s \o Append(SubSeq(D, 1, i), D[i + 1]) = Append(s \o SubSeq(D, 1, i), D[i + 1])
    <3> DEFINE v == SubSeq(D, 1, i)
    <3>1. v \in Seq(A)
      BY <2>3
    <3> HIDE DEF v, A
    <3>2. s \o v \in Seq(A) /\ s \o Append(v, D[i + 1]) = Append(s \o v, D[i + 1])
      BY <1>1, <2>3, <3>1, OneMoreOfBoth
    <3> QED
      BY <3>2 DEF v
  <2>6. Now(i + 1) = Out!Put(Now(i), D[i + 1]) /\ Now(i) \in Screens
    <3>1. /\ Out!Screen(Append(s \o SubSeq(D, 1, i), D[i + 1])) = Out!Put(Now(i), D[i + 1])
          /\ Now(i) \in Screens
      BY <2>3, <2>5, ScreenMore
    <3> QED
      BY <2>4, <2>5, <3>1
  <2>7. h[i + 1] = Out!Clean(h[i], D, i + 1)
    BY <1>3, <2>2
  <2> HIDE DEF Now
  <2>8. RegularAt(D, i, back, g)
    BY <1>1 DEF RegularAt
  <2>9. Agree(Out!Clean(h[i], D, i + 1), Out!Put(Now(i), D[i + 1]), D, i + 1, back, g)
    BY <2>1, <2>6, <2>8, AgreeMore
  <2>10. Good(i + 1)
    BY <2>6, <2>7, <2>9
  <2> HIDE DEF Good
  <2> QED
    BY <2>2, <2>10
<1> HIDE DEF Q, Good, Now
<1>6. 0 .. Len(D) \subseteq Q
  BY <1>1, <1>4, <1>5, UpTo
<1>7. Good(Len(D))
  BY <1>1, <1>6 DEF Q
<1>8. Now(Len(D)) = Out!Screen(s \o D)
  <2>1. SubSeq(D, 1, Len(D)) = D
    BY <1>1, SeqEqual
  <2> QED
    BY <2>1 DEF Now
<1> QED
  BY <1>3, <1>7, <1>8 DEF Good

\* What a regular stream says of what it is made of.
LEMMA RegularParts ==
  ASSUME NEW s \in Seq({"a", "n", "r", "e"}), NEW D \in Seq({"a", "n", "r", "e"}), Len(D) > 0,
         Out!Regular(s \o D)
  PROVE  /\ s = <<>> \/ Out!Regular(s)
         /\ \A i \in 1 .. Len(D) - 1 : D[i] = "r" => D[i + 1] \in {"a", "n"}
         /\ s = <<>> \/ Out!Ends(s, "r") => D[1] \in {"a", "n"}
<1> DEFINE v == s \o D
           n == Len(s)
<1>1. /\ n \in Nat /\ Len(D) \in Nat /\ Len(v) = n + Len(D) /\ v # <<>> /\ Head(v) = v[1]
      /\ \A i \in 1 .. n : v[i] = s[i]
      /\ \A i \in 1 .. Len(D) : v[n + i] = D[i]
  OBVIOUS
<1>2. /\ \A i \in 1 .. Len(v) - 1 : v[i] = "r" => v[i + 1] \in {"a", "n"}
      /\ v[1] \in {"a", "n"}
  BY <1>1 DEF Out!Regular, Out!Starts
<1>3. s # <<>> => n > 0 /\ Head(s) = s[1]
  OBVIOUS
<1>4. s = <<>> => n = 0
  OBVIOUS
<1>5. Out!Ends(s, "r") => n > 0 /\ s[n] = "r"
  BY <1>3 DEF Out!Ends, Out!Last
<1> HIDE DEF v, n
<1>6. \A i \in 1 .. Len(D) - 1 : D[i] = "r" => D[i + 1] \in {"a", "n"}
  <2> SUFFICES ASSUME NEW i \in 1 .. Len(D) - 1, D[i] = "r" PROVE D[i + 1] \in {"a", "n"}
    OBVIOUS
  <2>1. n + i \in 1 .. Len(v) - 1 /\ i \in 1 .. Len(D) /\ i + 1 \in 1 .. Len(D)
    BY <1>1
  <2>2. v[n + i] = D[i] /\ v[n + (i + 1)] = D[i + 1] /\ n + (i + 1) = (n + i) + 1
    BY <1>1, <2>1
  <2> QED
    BY <1>2, <2>1, <2>2
<1>7. ASSUME s # <<>> PROVE Out!Regular(s)
  <2>1. \A i \in 1 .. n - 1 : s[i] = "r" => s[i + 1] \in {"a", "n"}
    <3> SUFFICES ASSUME NEW i \in 1 .. n - 1, s[i] = "r" PROVE s[i + 1] \in {"a", "n"}
      OBVIOUS
    <3>1. i \in 1 .. Len(v) - 1 /\ i \in 1 .. n /\ i + 1 \in 1 .. n
      BY <1>1
    <3> QED
      BY <1>1, <1>2, <3>1
  <2>2. s[1] \in {"a", "n"}
    <3>1. 1 \in 1 .. n
      BY <1>1, <1>3, <1>7
    <3> QED
      BY <1>1, <1>2, <3>1
  <2> QED
    BY <1>3, <1>7, <2>1, <2>2 DEF Out!Regular, Out!Starts, n
<1>8. ASSUME s = <<>> \/ Out!Ends(s, "r") PROVE D[1] \in {"a", "n"}
  <2>1. 1 \in 1 .. Len(D) /\ v[n + 1] = D[1]
    BY <1>1
  <2>2. CASE s = <<>>
    <3>1. n + 1 = 1
      BY <1>4, <2>2
    <3> QED
      BY <1>2, <2>1, <3>1
  <2>3. CASE Out!Ends(s, "r")
    <3>1. n \in 1 .. n /\ n \in 1 .. Len(v) - 1 /\ s[n] = "r"
      BY <1>1, <1>5, <2>3
    <3> QED
      BY <1>1, <1>2, <2>1, <3>1
  <2> QED
    BY <1>8, <2>2, <2>3
<1> QED
  BY <1>6, <1>7, <1>8

-----------------------------------------------------------------------------
\* While a section is written and no escape is cut, what it has shown is what its stream says,
\* a carriage return that waits is the last of it, and nothing was raised.
StreamShown ==
  /\ stream = <<>> => ~addedNewline /\ ~wasSomethingWritten /\ ~isCr /\ raised = {}
  /\ ~cut => ~Out!EndsInside(stream)
  /\ Out!Regular(Out!Marked(stream)) /\ ~cut =>
       /\ raised = {} /\ wasSomethingWritten
       /\ Out!Unbroken(Out!Own) = Out!Screen(Out!Marked(stream)).shown
       /\ Out!Screen(Out!Marked(stream)).shown # <<>>
       /\ isCr = Out!Screen(Out!Marked(stream)).cr
       /\ isCr => Out!Ends(Out!Marked(stream), "r")

\* What is the section's own after data are inserted is the data, broken, after what was kept.
LEMMA InsertedIsOwn ==
  ASSUME NEW d, NEW kept, NEW b, Out!Insert(d, kept, b),
         Out!Broken(kept, Out!Displayed(d)) \in Seq({"a", "n", "b"})
  PROVE  Out!Own' = Out!Broken(kept, Out!Displayed(d))
<1> DEFINE shown == Out!Displayed(d)
<1>1. PICK w : w = Out!Broken(kept, shown)
  OBVIOUS
<1>2. /\ addedNewline' = ~Out!Ends(shown, "n")
      /\ text' = w \o IF addedNewline' THEN <<"n">> ELSE <<>>
  BY <1>1 DEF Out!Insert
<1> HIDE DEF shown
<1>3. w \in Seq({"a", "n", "b"})
  BY <1>1 DEF shown
<1>4. CASE addedNewline'
  <2>1. text' = Append(w, "n")
    <3>1. text' = w \o <<"n">>
      BY <1>2, <1>4
    <3>2. w \o <<"n">> = Append(w, "n")
      BY <1>3
    <3> QED
      BY <3>1, <3>2
  <2>2. Append(w, "n") # <<>> /\ Out!Front(Append(w, "n")) = w
    BY <1>3, EndsMore, StartsMore
  <2>3. Out!Own' = IF addedNewline' /\ text' # <<>> THEN Out!Front(text') ELSE text'
    BY DEF Out!Own, Out!Front
  <2> QED
    BY <1>1, <1>4, <2>1, <2>2, <2>3 DEF shown
<1>5. CASE ~addedNewline'
  <2>1. text' = w
    <3>1. text' = w \o <<>>
      BY <1>2, <1>5
    <3>2. w \o <<>> = w
      BY <1>3
    <3> QED
      BY <3>1, <3>2
  <2> QED
    BY <1>1, <1>5, <2>1 DEF Out!Own, shown
<1> QED
  BY <1>4, <1>5

\* write() shows what the stream says, wherever it was cut but in an escape.
LEMMA WriteShows ==
  ASSUME Out!ConstantsFit, OutIInv, StreamShown,
         NEW chunk \in Seq(Chars), chunk # <<>>, NEW b \in BOOLEAN, Out!Write(chunk, b)
  PROVE  StreamShown'
<1> DEFINE E == Out!Data(chunk, b)
           D == Out!Marked(E)
           was == Out!Marked(stream)
           data == Out!Cleaned(D)
           d == IF Out!Ends(data, "r") THEN Out!Front(data) ELSE data
           own == Out!Own
           kept == IF Out!Overwrites(d) THEN Out!LastLineDeleted(own) ELSE own
           g == Out!Screen(was).shown
           A == {"a", "n", "r", "e"}
           C == {"a", "n", "r", "e", "["}
<1>0. /\ E \in Seq(C) /\ Len(E) > 0 /\ stream \in Seq(C)
      /\ addedNewline \in BOOLEAN /\ wasSomethingWritten \in BOOLEAN /\ isCr \in BOOLEAN
      /\ own \in Texts /\ cut \in BOOLEAN
  <2>1. E \in Seq(Chars) /\ Len(E) > 0 /\ stream \in Seq(Chars) /\ cut \in BOOLEAN
        /\ addedNewline \in BOOLEAN /\ wasSomethingWritten \in BOOLEAN /\ isCr \in BOOLEAN
    BY DataTyped DEF OutIInv, Out!TypeOK
  <2> HIDE DEF E
  <2> QED
    BY <2>1, StreamsTyped, OwnTyped
<1>2. /\ stream' = stream \o E /\ cut' = (cut \/ Out!EndsInside(E))
      /\ IF addedNewline /\ text = <<>> THEN Out!RaiseFirst
         ELSE IF Out!Overwrites(d) /\ own = <<>> THEN Out!Raise(d)
         ELSE Out!Insert(d, kept, Out!Ends(data, "r"))
  BY DEF Out!Write
<1> HIDE DEF E
<1>1. /\ D \in Seq(A) /\ Len(D) > 0 /\ was \in Seq(A) /\ (was = <<>> <=> stream = <<>>)
      /\ addedNewline \in BOOLEAN /\ wasSomethingWritten \in BOOLEAN /\ isCr \in BOOLEAN
      /\ own \in Texts
  <2>1. D \in Seq(A) /\ Len(D) = Len(E) /\ was \in Seq(A) /\ Len(was) = Len(stream)
    BY <1>0, MarkedTyped
  <2> HIDE DEF D, was
  <2>2. was = <<>> <=> stream = <<>>
    BY <1>0, <2>1
  <2> QED
    BY <1>0, <2>1, <2>2
<1> HIDE DEF D
<1>3. stream' # <<>>
  <2>1. Len(stream \o E) # 0
    BY <1>0
  <2> QED
    BY <1>2, <2>1
<1>a. ASSUME ~cut' PROVE ~Out!EndsInside(stream') /\ Out!Marked(stream') = was \o D /\ ~cut
  <2>1. ~cut /\ ~Out!EndsInside(E) /\ ~Out!EndsInside(stream)
    BY <1>2, <1>a DEF StreamShown
  <2>2. Out!Marked(stream \o E) = was \o D
    BY <1>0, <2>1, MarkedJoins DEF D
  <2>3. Out!EndsInside(stream \o E) = Out!EndsInside(E)
    BY <1>0, <2>1, InsideJoins
  <2>4. stream' = stream \o E
    BY <1>2
  <2> HIDE DEF was
  <2> QED
    BY <2>1, <2>2, <2>3, <2>4
<1>4. SUFFICES ASSUME Out!Regular(was \o D), ~cut
               PROVE  /\ raised' = {} /\ wasSomethingWritten'
                      /\ Out!Unbroken(Out!Own') = Out!Screen(was \o D).shown
                      /\ Out!Screen(was \o D).shown # <<>>
                      /\ isCr' = Out!Screen(was \o D).cr
                      /\ isCr' => Out!Ends(was \o D, "r")
  <2> HIDE DEF was
  <2> SUFFICES ASSUME ~cut', Out!Regular(Out!Marked(stream'))
               PROVE  /\ raised' = {} /\ wasSomethingWritten'
                      /\ Out!Unbroken(Out!Own') = Out!Screen(Out!Marked(stream')).shown
                      /\ Out!Screen(Out!Marked(stream')).shown # <<>>
                      /\ isCr' = Out!Screen(Out!Marked(stream')).cr
                      /\ isCr' => Out!Ends(Out!Marked(stream'), "r")
    BY <1>3, <1>a DEF StreamShown
  <2> QED
    BY <1>a, <1>4
<1>5. /\ was = <<>> \/ Out!Regular(was)
      /\ \A i \in 1 .. Len(D) - 1 : D[i] = "r" => D[i + 1] \in {"a", "n"}
      /\ was = <<>> \/ Out!Ends(was, "r") => D[1] \in {"a", "n"}
  <2> HIDE DEF was
  <2> QED
    BY <1>1, <1>4, RegularParts
<1>6. /\ g \in Seq({"a", "n"}) /\ Out!Screen(was).cr = isCr /\ Out!Unbroken(own) = g
      /\ raised = {} /\ (was = <<>> => ~wasSomethingWritten /\ g = <<>> /\ ~addedNewline)
      /\ (was # <<>> => wasSomethingWritten /\ g # <<>>)
      /\ (isCr => Out!Ends(was, "r"))
  <2>1. CASE was = <<>>
    <3>0. stream = <<>>
      BY <1>1, <2>1
    <3>1. text = <<>> /\ own = <<>>
      BY <3>0 DEF OutIInv, Out!Own
    <3> HIDE DEF own, was
    <3>2. Out!Screen(was) = [shown |-> <<>>, cr |-> FALSE]
      BY <2>1, NothingOnScreen
    <3>3. ~addedNewline /\ ~wasSomethingWritten /\ ~isCr /\ raised = {}
      BY <3>0 DEF StreamShown
    <3>4. g = <<>> /\ Out!Screen(was).cr = FALSE /\ <<>> \in Seq({"a", "n"})
      BY <3>2
    <3> QED
      BY <1>1, <2>1, <3>1, <3>3, <3>4, NothingUnbroken
  <2>2. CASE was # <<>>
    <3>1. Out!Regular(was)
      BY <1>5, <2>2
    <3>2. Out!Screen(was) \in Screens
      BY <1>1, ScreenMore
    <3> QED
      BY <1>4, <2>2, <3>1, <3>2 DEF StreamShown, Screens
  <2> QED
    BY <2>1, <2>2
<1> HIDE DEF was
<1>7. D[1] \in {"a", "n"} \/ ~(isCr \/ g = <<>>)
  BY <1>5, <1>6
<1>8. Agree(data, Out!Screen(was \o D), D, Len(D), isCr, g)
  <2> HIDE DEF data, g
  <2>1. Out!Screen(was).shown = g
    BY DEF g
  <2> QED
    BY <1>1, <1>5, <1>6, <1>7, <2>1, DataAgrees DEF data
<1>9. PICK y \in Seq({"a", "n", "r"}), p \in BOOLEAN :
        Agrees(data, Out!Screen(was \o D), D, Len(D), isCr, g, y, p)
  BY <1>8 DEF Agree
<1>10. PICK t : t = Out!Screen(was \o D)
  OBVIOUS
<1>11. /\ data = IF p THEN Append(y, "r") ELSE y
       /\ ~Out!Ends(y, "r")
       /\ t.shown = ShownOf(y, isCr, g) /\ t.shown # <<>>
       /\ t.cr <=> p
       /\ p => D[Len(D)] = "r"
       /\ isCr => y # <<>>
  <2> HIDE DEF data, g
  <2>1. Len(D) > 0 /\ Len(D) \in Nat /\ ~Out!OfNewline(D, Len(D))
    <3>1. Len(D) \in Nat
      BY <1>1
    <3> QED
      BY <1>1, <3>1 DEF Out!OfNewline
  <2> QED
    BY <1>9, <1>10, <2>1 DEF Agrees
<1>12. d = y /\ (Out!Ends(data, "r") <=> p) /\ Out!Ends(data, "r") \in BOOLEAN
  <2> HIDE DEF data
  <2>1. Out!Ends(Append(y, "r"), "r") /\ Out!Front(Append(y, "r")) = y
    BY EndsMore
  <2> QED
    BY <1>11, <2>1 DEF Out!Ends
<1> HIDE DEF data, d, g
<1>13. Out!Overwrites(y) <=> GoesOver(y, isCr) /\ wasSomethingWritten
  BY <1>11 DEF Out!Overwrites, GoesOver, GoesBack
<1>14. ~(addedNewline /\ text = <<>>)
  BY <1>1, <1>6 DEF OutIInv, Out!EndsWithNewline, Out!Ends
<1>15. ~(Out!Overwrites(d) /\ own = <<>>)
  <2> HIDE DEF own
  <2> QED
    BY <1>6, <1>12, <1>13, NothingUnbroken
<1>16. Out!Insert(d, kept, Out!Ends(data, "r"))
  BY <1>2, <1>14, <1>15
<1>17. kept \in Texts /\ Out!Unbroken(kept) = KeptOf(y, isCr, g)
  <2> HIDE DEF own
  <2>1. own \in Seq({"a", "n", "b"})
    BY <1>1 DEF Texts
  <2>2. CASE Out!Overwrites(d)
    <3>1. kept \in Texts
      BY <1>1, <2>2, KeptLines
    <3>2. Out!Unbroken(kept) = Out!LastLineDeleted(g)
      BY <1>6, <2>1, <2>2, LastLineUnbroken
    <3> HIDE DEF kept
    <3> QED
      BY <1>12, <1>13, <2>2, <3>1, <3>2 DEF KeptOf
  <2>3. CASE ~Out!Overwrites(d)
    <3>1. kept \in Texts /\ Out!Unbroken(kept) = g
      BY <1>1, <1>6, <2>3
    <3>2. GoesOver(y, isCr) => g = <<>>
      BY <1>6, <1>12, <1>13, <2>3
    <3> HIDE DEF kept
    <3> QED
      BY <3>1, <3>2, NoLastLine DEF KeptOf
  <2> QED
    BY <2>2, <2>3
<1> HIDE DEF kept
<1>18. /\ Out!Broken(kept, Out!Displayed(d)) \in Texts
       /\ Out!Unbroken(Out!Broken(kept, Out!Displayed(d))) = ShownOf(y, isCr, g)
  <2>1. Out!Displayed(y) \in Seq({"a", "n"})
    BY DisplayedTyped
  <2> QED
    BY <1>12, <1>17, <2>1, BrokenFits, BrokenUnbroken DEF ShownOf
<1>19. Out!Own' = Out!Broken(kept, Out!Displayed(d))
  BY <1>16, <1>18, InsertedIsOwn DEF Texts
<1>20. isCr' = Out!Ends(data, "r") /\ wasSomethingWritten' = TRUE /\ raised' = raised
  BY <1>16 DEF Out!Insert
<1>21. p => Out!Ends(was \o D, "r")
  <2>1. /\ was \o D # <<>> /\ Len(was \o D) = Len(was) + Len(D)
        /\ (was \o D)[Len(was) + Len(D)] = D[Len(D)]
    BY <1>1
  <2> QED
    BY <1>11, <2>1 DEF Out!Ends, Out!Last
<1>22. t \in Screens
  <2>1. was \o D \in Seq({"a", "n", "r", "e"})
    BY <1>1
  <2> QED
    BY <1>10, <2>1, ScreenMore
<1> QED
  BY <1>6, <1>10, <1>11, <1>12, <1>18, <1>19, <1>20, <1>21, <1>22 DEF Screens

\* In nothing there is no escape, and nothing is shown of it.
LEMMA NothingMarked == ~Out!EndsInside(<<>>) /\ ~Out!Regular(Out!Marked(<<>>))
<1>1. <<>> \in Seq({"a", "n"}) /\ Len(<<>>) = 0
  OBVIOUS
<1>2. Out!Marked(<<>>) = <<>>
  BY <1>1, MarkedPlain
<1>3. Out!Inside(<<>>)[0] = FALSE
  BY <1>1, InsideTurns
<1>4. ~Out!Regular(<<>>)
  BY DEF Out!Regular, Out!Starts
<1>5. ~Out!EndsInside(<<>>)
  BY <1>1, <1>3 DEF Out!EndsInside
<1> QED
  BY <1>2, <1>4, <1>5

\* A new window shows an empty stream.
LEMMA StreamInit == ASSUME Out!Init PROVE StreamShown
<1>1. /\ stream = <<>> /\ cut = FALSE /\ addedNewline = FALSE /\ wasSomethingWritten = FALSE
      /\ isCr = FALSE /\ raised = {}
  BY DEF Out!Init
<1> QED
  BY <1>1, NothingMarked DEF StreamShown

\* Whatever is written, the section shows its stream.
LEMMA StreamStep == ASSUME Out!ConstantsFit, OutIInv, StreamShown, [Out!Writing]_Out!vars PROVE StreamShown'
<1>1. CASE Out!WriteChunk
  <2>1. PICK chunk \in Out!BoundedSeq(Chars, MaxStream - Len(stream)) \ {<<>>} : Out!Write(chunk, FALSE)
    BY <1>1 DEF Out!WriteChunk
  <2>2. chunk \in Seq(Chars)
    <3>1. PICK m \in 0 .. MaxStream - Len(stream) : chunk \in [1 .. m -> Chars]
      BY DEF Out!BoundedSeq, Out!SeqOf
    <3> QED
      BY <3>1
  <2> QED
    BY <2>1, <2>2, WriteShows
<1>2. CASE Out!WriteResult
  <2>1. <<"a", "n">> \in Seq(Chars) /\ <<"a", "n">> # <<>>
    BY DEF Out!ConstantsFit
  <2> QED
    BY <1>2, <2>1, WriteShows DEF Out!WriteResult
<1>3. CASE Out!StartNewSection
  <2>1. /\ addedNewline' = FALSE /\ wasSomethingWritten' = FALSE /\ isCr' = FALSE
        /\ stream' = <<>> /\ cut' = FALSE /\ raised' = {}
    BY <1>3 DEF Out!StartNewSection
  <2> QED
    BY <2>1, NothingMarked DEF StreamShown
<1>4. CASE UNCHANGED Out!vars
  BY <1>4 DEF Out!vars, StreamShown, Out!Own
<1>5. CASE Out!SendStdin
  <2>1. PICK line \in {<<"n">>, <<"a", "n">>} : Out!Write(line, FALSE) \/ Out!StartNewSection
    BY <1>5 DEF Out!SendStdin
  <2>2. line \in Seq(Chars) /\ line # <<>>
    <3>1. <<"n">> \in Seq(Chars) /\ <<"a", "n">> \in Seq(Chars) /\ <<"n">> # <<>> /\ <<"a", "n">> # <<>>
      BY DEF Out!ConstantsFit
    <3>2. CASE line = <<"n">>
      BY <3>1, <3>2
    <3>3. CASE line = <<"a", "n">>
      BY <3>1, <3>3
    <3> QED
      BY <2>1, <3>2, <3>3
  <2> QED
    BY <1>3, <2>1, <2>2, WriteShows
<1> QED
  BY <1>1, <1>2, <1>3, <1>4, <1>5 DEF Out!Writing

\* A text of lines that fit has no line that is too long.
LEMMA LinesFit == ASSUME OutIInv PROVE Out!LinesAreBroken
  BY DEF OutIInv, Texts, RunsFit, Out!LinesAreBroken
\* output.py, for every way to cut what is written and to discard it: the text is of lines
\* that fit and ends with a newline, and a result begins on a line of its own.
THEOREM OutputRight ==
  Out!Spec => [](Out!TypeOK /\ Out!EndsWithNewline /\ Out!LinesAreBroken) /\ Out!ResultOnNewLine
<1>1. Out!Init => OutIInv
  BY OutputAssumption, OutInit
<1>2. OutIInv /\ [Out!Next]_Out!vars => OutIInv'
  BY OutputAssumption, OutStep
<1>3. OutIInv => Out!TypeOK /\ Out!EndsWithNewline /\ Out!LinesAreBroken
  BY LinesFit DEF OutIInv
<1>4. OutIInv => (Out!WriteResult /\ raised' = {} => (Len(text') = 2 \/ text'[Len(text') - 2] = "n"))
  BY OutputAssumption, ResultStep
<1>5. Out!Spec => []OutIInv
  BY <1>1, <1>2, PTL DEF Out!Spec
<1>6. OutIInv => [Out!WriteResult /\ raised' = {} =>
                    (Len(text') = 2 \/ text'[Len(text') - 2] = "n")]_Out!vars
  BY <1>4
<1>7. Out!Spec => Out!ResultOnNewLine
  BY <1>5, <1>6, PTL DEF Out!ResultOnNewLine
<1>8. Out!Spec => [](Out!TypeOK /\ Out!EndsWithNewline /\ Out!LinesAreBroken)
  BY <1>3, <1>5, PTL
<1> QED
  BY <1>7, <1>8

\* As long as its history is not discarded, a section shows what the stream says, for every
\* stream that does not return twice or begin with a return, and however it was cut but within
\* an escape.
THEOREM StreamIsShown ==
  Out!Init /\ [][Out!Writing]_Out!vars =>
    [](Out!Regular(Out!Marked(stream)) /\ ~cut => raised = {}) /\ []Out!ShowsStream
<1> DEFINE I == OutIInv /\ StreamShown
<1>1. Out!Init => I
  BY OutputAssumption, OutInit, StreamInit
<1>2. I /\ [Out!Writing]_Out!vars => I'
  <2> SUFFICES ASSUME OutIInv, StreamShown, [Out!Writing]_Out!vars PROVE OutIInv' /\ StreamShown'
    OBVIOUS
  <2>1. [Out!Next]_Out!vars
    BY DEF Out!Next
  <2> QED
    BY <2>1, OutputAssumption, OutStep, StreamStep
<1>3. I => (Out!Regular(Out!Marked(stream)) /\ ~cut => raised = {}) /\ Out!ShowsStream
  BY DEF StreamShown, Out!ShowsStream
<1> HIDE DEF I
<1> QED
  BY <1>1, <1>2, <1>3, PTL
-----------------------------------------------------------------------------
\* The source buffer that is looked at is that of the tab, the menu is as the last
\* mark-set that was looked at left it, and that one saw the selections as they are
\* unless something changed in silence.
SelectionIInv ==
  /\ handler = tab /\ selectionBuffer = tab
  /\ is_something_selected # None => copyMenu = Copying!Sensitive(is_something_selected)
  /\ is_something_selected # None /\ silent = {} => is_something_selected = Copying!SomethingSelected

\* Nothing is selected yet.
LEMMA SelectionInit == ASSUME Copying!Init PROVE SelectionIInv
  BY DEF Copying!Init, SelectionIInv

\* Each signal keeps it.
LEMMA SelectionStep == ASSUME SelectionIInv, [Copying!Next]_Copying!vars PROVE SelectionIInv'
<1>1. CASE \E b \in Copying!TextBuffers, selects \in BOOLEAN : Copying!SetMarks(b, selects)
  BY <1>1 DEF Copying!SetMarks, Copying!Focused, Copying!MarkSet, SelectionIInv,
              Copying!SomethingSelected
<1>2. CASE \E b \in Copying!TextBuffers : Copying!DeleteSelected(b)
  BY <1>2 DEF Copying!DeleteSelected, SelectionIInv
<1>3. CASE \E view \in {"text", "source"} : Copying!FocusIn(view)
  BY <1>3 DEF Copying!FocusIn, Copying!MarkSet, SelectionIInv, Copying!SomethingSelected
<1>4. CASE \E t \in CopyTabs : Copying!SwitchTab(t)
  <2>1. PICK t \in CopyTabs : Copying!SwitchTab(t)
    BY <1>4
  <2>2. tab' = t /\ handler' = t /\ selectionBuffer' = t
    BY <2>1 DEF Copying!SwitchTab
  <2>3. CASE focus = "source"
    BY <2>1, <2>2, <2>3 DEF Copying!SwitchTab, Copying!MarkSet, SelectionIInv,
                            Copying!SomethingSelected
  <2>4. CASE focus # "source"
    <3>1. silent' # {} /\ UNCHANGED <<is_something_selected, copyMenu>>
      BY <2>1, <2>4 DEF Copying!SwitchTab
    <3> QED
      BY <2>2, <3>1 DEF SelectionIInv
  <2> QED
    BY <2>3, <2>4
<1>5. CASE UNCHANGED Copying!vars
  BY <1>5 DEF Copying!vars, SelectionIInv, Copying!SomethingSelected
<1> QED
  BY <1>1, <1>2, <1>3, <1>4, <1>5 DEF Copying!Next

-----------------------------------------------------------------------------
\* The text from one place where tags change to the next has the same tags.
LEMMA ToggleIsNext ==
  ASSUME Len(tags) \in Nat, NEW i \in Nat, i < Len(tags)
  PROVE  /\ Copying!Toggle(i) \in i + 1 .. Len(tags)
         /\ \A k \in i + 1 .. Copying!Toggle(i) : tags[k] = tags[i + 1]
<1> DEFINE n == Len(tags)
           Changes(j) == j = n \/ tags[j + 1] # tags[j]
           T == {j \in i + 1 .. n : Changes(j)}
<1>1. T \in SUBSET Nat /\ T # {}
  OBVIOUS
<1>2. PICK j \in T : \A k \in T : j <= k
  BY <1>1, Least, Zenon
<1> HIDE DEF n
<1>3. j \in i + 1 .. n /\ Changes(j)
  BY <1>2
<1>4. \A k \in i + 1 .. j - 1 : tags[k + 1] = tags[k]
  <2> SUFFICES ASSUME NEW k \in i + 1 .. j - 1, ~(tags[k + 1] = tags[k]) PROVE FALSE
    OBVIOUS
  <2>1. k \in i + 1 .. n
    BY <1>3 DEF n
  <2>2. k \in T
    BY <2>1
  <2> QED
    BY <1>2, <1>3, <2>2
<1> HIDE DEF T
<1>5. \E jj \in i + 1 .. n :
        /\ jj = n \/ tags[jj + 1] # tags[jj]
        /\ \A k \in i + 1 .. jj - 1 : tags[k + 1] = tags[k]
  BY <1>3, <1>4
<1>6. PICK t : t = Copying!Toggle(i)
  OBVIOUS
<1>7. t \in i + 1 .. n /\ \A k \in i + 1 .. t - 1 : tags[k + 1] = tags[k]
  BY <1>5, <1>6 DEF Copying!Toggle, n
<1>8. n \in Nat
  BY DEF n
<1> DEFINE Q == {m \in 0 .. t - (i + 1) : tags[i + 1 + m] = tags[i + 1]}
<1>9. t - (i + 1) \in Nat /\ 0 \in Q
  BY <1>7, <1>8
<1>10. ASSUME NEW m \in 0 .. (t - (i + 1)) - 1, m \in Q PROVE m + 1 \in Q
  <2>1. i + 1 + m \in i + 1 .. t - 1 /\ i + 1 + (m + 1) = (i + 1 + m) + 1 /\ m + 1 \in 0 .. t - (i + 1)
    BY <1>7, <1>8
  <2> QED
    BY <1>7, <1>10, <2>1
<1> HIDE DEF Q
<1>11. 0 .. t - (i + 1) \subseteq Q
  BY <1>9, <1>10, UpTo
<1>12. \A k \in i + 1 .. t : tags[k] = tags[i + 1]
  <2> SUFFICES ASSUME NEW k \in i + 1 .. t PROVE tags[k] = tags[i + 1]
    OBVIOUS
  <2>1. k - (i + 1) \in 0 .. t - (i + 1) /\ i + 1 + (k - (i + 1)) = k
    BY <1>7, <1>8
  <2> QED
    BY <1>11, <2>1 DEF Q
<1> QED
  BY <1>6, <1>7, <1>12 DEF n

\* What was taken is what there is of commands from the beginning of the selection on.
Taken(q, ts, from, to) ==
  /\ q \in Seq(Nat)
  /\ \A k \in 1 .. Len(q) : q[k] \in from + 1 .. to /\ "command" \in ts[q[k]] /\ "prompt" \notin ts[q[k]]
  /\ \A i \in from + 1 .. to : "command" \in ts[i] /\ "prompt" \notin ts[i] => \E k \in 1 .. Len(q) : q[k] = i
  /\ \A k \in 1 .. Len(q) - 1 : q[k] < q[k + 1]

CopyIInv ==
  /\ Len(tags) \in Nat /\ sel_start \in Nat /\ sel_end \in sel_start + 1 .. Len(tags)
  /\ it \in sel_start .. sel_end /\ (reached_end <=> it = sel_end)
  /\ Taken(r, tags, sel_start, it)

\* It goes on with places that are all of commands.
LEMMA TakenMore ==
  ASSUME NEW ts, NEW from \in Nat, NEW to \in Nat, from <= to, NEW next \in Nat, to <= next,
         NEW q, Taken(q, ts, from, to),
         \A i \in to + 1 .. next : "command" \in ts[i] /\ "prompt" \notin ts[i]
  PROVE  Taken(q \o [k \in 1 .. next - to |-> to + k], ts, from, next)
<1> DEFINE w == [k \in 1 .. next - to |-> to + k]
           v == q \o w
<1>1. w \in Seq(Nat) /\ Len(w) = next - to /\ \A k \in 1 .. next - to : w[k] = to + k
  OBVIOUS
<1>2. /\ q \in Seq(Nat) /\ Len(q) \in Nat
      /\ \A k \in 1 .. Len(q) : q[k] \in from + 1 .. to /\ "command" \in ts[q[k]] /\ "prompt" \notin ts[q[k]]
      /\ \A i \in from + 1 .. to : "command" \in ts[i] /\ "prompt" \notin ts[i] => \E k \in 1 .. Len(q) : q[k] = i
      /\ \A k \in 1 .. Len(q) - 1 : q[k] < q[k + 1]
  BY DEF Taken
<1> HIDE DEF w
<1>3. /\ v \in Seq(Nat) /\ Len(v) = Len(q) + (next - to)
      /\ \A k \in 1 .. Len(q) : v[k] = q[k]
      /\ \A k \in 1 .. next - to : v[Len(q) + k] = to + k
  <2>1. /\ v \in Seq(Nat) /\ Len(v) = Len(q) + Len(w)
        /\ \A k \in 1 .. Len(q) + Len(w) : v[k] = IF k <= Len(q) THEN q[k] ELSE w[k - Len(q)]
    <3>1. q \in Seq(Nat) /\ w \in Seq(Nat)
      BY <1>1, <1>2
    <3> QED
      BY ONLY <3>1, ConcatProperties, Zenon
  <2> HIDE DEF v
  <2>2. next - to \in Nat
    OBVIOUS
  <2>3. ASSUME NEW k \in 1 .. Len(q) PROVE v[k] = q[k]
    <3>1. k \in 1 .. Len(q) + Len(w) /\ k <= Len(q)
      BY <1>1, <1>2, <2>2
    <3> QED
      BY <2>1, <3>1
  <2>4. ASSUME NEW k \in 1 .. next - to PROVE v[Len(q) + k] = to + k
    <3>1. Len(q) + k \in 1 .. Len(q) + Len(w) /\ ~ (Len(q) + k <= Len(q)) /\ (Len(q) + k) - Len(q) = k
      BY <1>1, <1>2, <2>2
    <3>2. v[Len(q) + k] = w[(Len(q) + k) - Len(q)]
      BY <2>1, <3>1, Zenon
    <3> QED
      BY <1>1, <3>1, <3>2
  <2> QED
    BY <1>1, <2>1, <2>3, <2>4
<1> HIDE DEF v
<1>4. \A k \in 1 .. Len(v) : k \in 1 .. Len(q) \/ (k - Len(q) \in 1 .. next - to /\ v[k] = to + (k - Len(q)))
  <2> SUFFICES ASSUME NEW k \in 1 .. Len(v), k \notin 1 .. Len(q)
               PROVE  k - Len(q) \in 1 .. next - to /\ v[k] = to + (k - Len(q))
    OBVIOUS
  <2>1. k - Len(q) \in 1 .. next - to /\ Len(q) + (k - Len(q)) = k
    BY <1>2, <1>3
  <2> QED
    BY <1>3, <2>1
<1>5. ASSUME NEW k \in 1 .. Len(v)
      PROVE  v[k] \in from + 1 .. next /\ "command" \in ts[v[k]] /\ "prompt" \notin ts[v[k]]
  <2>1. CASE k \in 1 .. Len(q)
    BY <1>2, <1>3, <2>1
  <2>2. CASE k \notin 1 .. Len(q)
    <3>1. k - Len(q) \in 1 .. next - to /\ v[k] = to + (k - Len(q))
      BY <1>4, <2>2
    <3>2. v[k] \in to + 1 .. next
      BY <3>1
    <3> QED
      BY <3>2
  <2> QED
    BY <2>1, <2>2
<1>6. ASSUME NEW i \in from + 1 .. next, "command" \in ts[i] /\ "prompt" \notin ts[i]
      PROVE  \E k \in 1 .. Len(v) : v[k] = i
  <2>1. CASE i <= to
    <3>1. PICK k \in 1 .. Len(q) : q[k] = i
      BY <1>2, <1>6, <2>1
    <3>2. k \in 1 .. Len(v) /\ v[k] = i
      BY <1>2, <1>3, <3>1
    <3> QED
      BY <3>2
  <2>2. CASE i > to
    <3>1. i - to \in 1 .. next - to /\ to + (i - to) = i
      BY <2>2
    <3>2. PICK k \in 1 .. next - to : to + k = i
      BY <3>1
    <3>3. v[Len(q) + k] = i
      BY <1>3, <3>2
    <3>4. Len(q) + k \in 1 .. Len(v)
      BY <1>2, <1>3
    <3> QED
      BY <3>3, <3>4
  <2> QED
    BY <2>1, <2>2
<1>7. ASSUME NEW k \in 1 .. Len(v) - 1 PROVE v[k] < v[k + 1]
  <2>1. k \in 1 .. Len(v) /\ k + 1 \in 1 .. Len(v) /\ Len(v) \in Nat
    BY <1>2, <1>3
  <2>2. CASE k + 1 \in 1 .. Len(q)
    <3>1. k \in 1 .. Len(q) - 1 /\ k \in 1 .. Len(q)
      BY <1>2, <2>2
    <3> QED
      BY <1>2, <1>3, <2>2, <3>1
  <2>3. CASE k + 1 \notin 1 .. Len(q)
    <3>1. v[k + 1] = to + ((k + 1) - Len(q)) /\ (k + 1) - Len(q) \in 1 .. next - to
      BY <1>4, <2>1, <2>3
    <3>2. CASE k \in 1 .. Len(q)
      <4>1. v[k] \in from + 1 .. to
        BY <1>2, <1>3, <3>2
      <4> QED
        BY <3>1, <4>1
    <3>3. CASE k \notin 1 .. Len(q)
      <4>1. v[k] = to + (k - Len(q)) /\ k - Len(q) \in 1 .. next - to
        BY <1>4, <2>1, <3>3
      <4> QED
        BY <1>2, <3>1, <4>1
    <3> QED
      BY <3>2, <3>3
  <2> QED
    BY <2>2, <2>3
<1>8. Taken(v, ts, from, next)
  BY <1>3, <1>5, <1>6, <1>7 DEF Taken
<1> QED
  BY <1>8 DEF v, w

\* And with places that are of none.
LEMMA TakenNone ==
  ASSUME NEW ts, NEW from \in Nat, NEW to \in Nat, from <= to, NEW next \in Nat, to <= next,
         NEW q, Taken(q, ts, from, to),
         \A i \in to + 1 .. next : ~("command" \in ts[i] /\ "prompt" \notin ts[i])
  PROVE  Taken(q, ts, from, next)
  BY DEF Taken

\* A turn of the loop takes what there is of commands up to the next place where tags change.
LEMMA TurnKeeps == ASSUME CopyIInv, Copying!Turn PROVE CopyIInv'
<1> DEFINE i == Copying!Toggle(it)
           next == IF i >= sel_end THEN sel_end ELSE i
<1>1. /\ Len(tags) \in Nat /\ sel_start \in Nat /\ sel_end \in sel_start + 1 .. Len(tags)
      /\ it \in sel_start .. sel_end /\ (reached_end <=> it = sel_end)
      /\ Taken(r, tags, sel_start, it)
  BY DEF CopyIInv
<1>2. /\ ~reached_end /\ reached_end' = (i >= sel_end) /\ it' = next
      /\ r' = IF "command" \in tags[it + 1] /\ "prompt" \notin tags[it + 1]
              THEN r \o [k \in 1 .. next - it |-> it + k] ELSE r
      /\ UNCHANGED <<command, tags, sel_start, sel_end>>
  BY DEF Copying!Turn
<1>3. it \in Nat /\ it < sel_end /\ it < Len(tags) /\ sel_end \in Nat
  BY <1>1, <1>2
<1>4. i \in it + 1 .. Len(tags) /\ \A k \in it + 1 .. i : tags[k] = tags[it + 1]
  BY <1>1, <1>3, ToggleIsNext
<1> HIDE DEF i
<1>5. /\ next \in it + 1 .. sel_end /\ next \in Nat /\ next <= i /\ i \in Nat /\ sel_start <= it
      /\ (i >= sel_end <=> next = sel_end)
  BY <1>1, <1>3, <1>4
<1> HIDE DEF next
<1>6. \A k \in it + 1 .. next : tags[k] = tags[it + 1]
  BY <1>3, <1>4, <1>5
<1>7. Taken(r', tags, sel_start, next)
  <2>1. CASE "command" \in tags[it + 1] /\ "prompt" \notin tags[it + 1]
    <3>1. \A k \in it + 1 .. next : "command" \in tags[k] /\ "prompt" \notin tags[k]
      BY <1>6, <2>1
    <3>2. Taken(r \o [k \in 1 .. next - it |-> it + k], tags, sel_start, next)
      <4>1. /\ sel_start \in Nat /\ it \in Nat /\ sel_start <= it /\ next \in Nat /\ it <= next
            /\ Taken(r, tags, sel_start, it)
        BY <1>1, <1>3, <1>5
      <4> QED
        BY <3>1, <4>1, TakenMore
    <3> QED
      BY <1>2, <2>1, <3>2
  <2>2. CASE ~("command" \in tags[it + 1] /\ "prompt" \notin tags[it + 1])
    <3>1. \A k \in it + 1 .. next : ~("command" \in tags[k] /\ "prompt" \notin tags[k])
      BY <1>6, <2>2
    <3>2. Taken(r, tags, sel_start, next)
      BY <1>1, <1>3, <1>5, <3>1, TakenNone
    <3> QED
      BY <1>2, <2>2, <3>2
  <2> QED
    BY <2>1, <2>2
<1>8. reached_end' <=> it' = sel_end'
  BY <1>2, <1>5
<1>9. it' \in sel_start' .. sel_end'
  BY <1>1, <1>2, <1>3, <1>5
<1>10. Taken(r', tags', sel_start', it')
  BY <1>2, <1>7
<1> QED
  BY <1>1, <1>2, <1>8, <1>9, <1>10 DEF CopyIInv

\* So does each step.
LEMMA CopyStep == ASSUME CopyIInv, [Copying!Turn]_Copying!copyVars PROVE CopyIInv'
<1>1. CASE Copying!Turn
  BY <1>1, TurnKeeps
<1>2. CASE UNCHANGED Copying!copyVars
  BY <1>2 DEF Copying!copyVars, CopyIInv
<1> QED
  BY <1>1, <1>2

\* At the end, all of it is taken.
LEMMA CopyIsAll == ASSUME CopyIInv PROVE Copying!AllCommands
<1> SUFFICES ASSUME reached_end
             PROVE  /\ {r[k] : k \in DOMAIN r} = {i \in sel_start + 1 .. sel_end : Copying!IsOfCommand(i)}
                    /\ \A k \in 1 .. Len(r) - 1 : r[k] < r[k + 1]
  BY DEF Copying!AllCommands
<1>1. it = sel_end /\ Taken(r, tags, sel_start, sel_end)
  BY DEF CopyIInv
<1>2. DOMAIN r = 1 .. Len(r)
  BY <1>1 DEF Taken
<1> QED
  BY <1>1, <1>2 DEF Taken, Copying!IsOfCommand

-----------------------------------------------------------------------------
\* The cells that write_command() writes for lines of these lengths.
CellsOf(lens) ==
  LET Offsets == {0, Copying!Total(lens) + 1}
                 \cup {Copying!Total(SubSeq(lens, 1, l - 1)) + a + j : l \in Nat, a \in Nat, j \in Nat}
  IN  [of : Offsets, tags : SUBSET {"command", "prompt", "sep", "token", "defs"}]

\* What its loop keeps: the place where it is, the highlight that comes next or that it is in,
\* and what it has written.
Writers(c) ==
  {x \in [line : 0 .. Len(c.lens), col : Nat, in_high : BOOLEAN, high : 1 .. Len(c.highs),
          defs : SUBSET {"defs"}, out : Seq(CellsOf(c.lens))] :
     x.in_high => x.high < Len(c.highs)}

\* A command with a highlight behind its last line.
IsWritten(c) ==
  /\ c.lens \in Seq(Nat \ {0}) /\ Len(c.lens) > 0
  /\ c.highs \in Seq([sline : Nat \ {0}, scol : Nat, eline : Nat \ {0}, ecol : Nat])
  /\ Len(c.highs) > 0 /\ c.highs[Len(c.highs)].sline = Len(c.lens) + 1

\* A function on so many numbers is a sequence, an empty one if there are none.
LEMMA NumbersFirst == ASSUME NEW C, NEW m \in Int, NEW f \in [1 .. m -> C] PROVE f \in Seq(C)
<1>1. CASE m >= 0
  BY <1>1
<1>2. CASE m < 0
  <2>1. 1 .. m = 1 .. 0
    BY <1>2
  <2>2. f \in [1 .. 0 -> C]
    BY <2>1
  <2> QED
    BY <2>2
<1> QED
  BY <1>1, <1>2

\* What is written of a line up to a column.
LEMMA WrittenTo ==
  ASSUME NEW c, IsWritten(c), NEW s \in Writers(c), s.line > 0, NEW col \in Nat,
         NEW marks \in SUBSET {"token"}
  PROVE  [s EXCEPT !.col = col,
                   !.out = @ \o [j \in 1 .. col - s.col |->
                                   [of |-> Copying!Total(SubSeq(c.lens, 1, s.line - 1)) + s.col + j,
                                    tags |-> {"command"} \cup s.defs \cup marks]]] \in Writers(c)
<1> DEFINE f == [j \in 1 .. col - s.col |->
                   [of |-> Copying!Total(SubSeq(c.lens, 1, s.line - 1)) + s.col + j,
                    tags |-> {"command"} \cup s.defs \cup marks]]
           C == CellsOf(c.lens)
<1>1. /\ s \in [line : 0 .. Len(c.lens), col : Nat, in_high : BOOLEAN, high : 1 .. Len(c.highs),
                defs : SUBSET {"defs"}, out : Seq(C)]
      /\ s.in_high => s.high < Len(c.highs)
  BY DEF Writers
<1>2. s.line \in Nat /\ s.col \in Nat /\ s.defs \subseteq {"defs"} /\ s.out \in Seq(C)
  BY <1>1 DEF IsWritten
<1>3. ASSUME NEW j \in 1 .. col - s.col
      PROVE  [of |-> Copying!Total(SubSeq(c.lens, 1, s.line - 1)) + s.col + j,
              tags |-> {"command"} \cup s.defs \cup marks] \in C
  <2>1. j \in Nat
    BY <1>2
  <2>2. {"command"} \cup s.defs \cup marks \subseteq {"command", "prompt", "sep", "token", "defs"}
    BY <1>2
  <2> QED
    BY <1>2, <2>1, <2>2 DEF CellsOf
<1> HIDE DEF C
<1>4. f \in [1 .. col - s.col -> C]
  BY <1>3
<1> HIDE DEF f
<1>5. f \in Seq(C)
  BY <1>2, <1>4, NumbersFirst
<1>6. s.out \o f \in Seq(C)
  BY <1>2, <1>5
<1>7. [s EXCEPT !.col = col, !.out = @ \o f] \in Writers(c)
  BY <1>1, <1>6 DEF Writers, C
<1> QED
  BY <1>7 DEF f

\* A turn in a line.
LEMMA WriteTurnTyped ==
  ASSUME NEW c, IsWritten(c), NEW s \in Writers(c), s.line > 0
  PROVE  Copying!WriteTurn(c, s) \in Writers(c)
<1> DEFINE h == c.highs[s.high]
           To(col, marks) ==
             [s EXCEPT !.col = col,
                       !.out = @ \o [j \in 1 .. col - s.col |->
                                       [of |-> Copying!Total(SubSeq(c.lens, 1, s.line - 1)) + s.col + j,
                                        tags |-> {"command"} \cup s.defs \cup marks]]]
<1>1. /\ s.line \in 1 .. Len(c.lens) /\ s.in_high \in BOOLEAN /\ s.high \in 1 .. Len(c.highs)
      /\ s.in_high => s.high < Len(c.highs)
      /\ Len(c.highs) \in Nat
  <2>1. /\ s \in [line : 0 .. Len(c.lens), col : Nat, in_high : BOOLEAN, high : 1 .. Len(c.highs),
                  defs : SUBSET {"defs"}, out : Seq(CellsOf(c.lens))]
        /\ s.in_high => s.high < Len(c.highs)
    BY DEF Writers
  <2>2. Len(c.highs) \in Nat /\ Len(c.lens) \in Nat
    BY DEF IsWritten
  <2>3. s.line \in 0 .. Len(c.lens) /\ s.in_high \in BOOLEAN /\ s.high \in 1 .. Len(c.highs)
    BY <2>1
  <2> QED
    BY <2>1, <2>2, <2>3
<1>2. h.scol \in Nat /\ h.ecol \in Nat /\ c.lens[s.line] \in Nat
  <2>1. h \in [sline : Nat \ {0}, scol : Nat, eline : Nat \ {0}, ecol : Nat]
    <3> DEFINE Highs == [sline : Nat \ {0}, scol : Nat, eline : Nat \ {0}, ecol : Nat]
    <3>1. c.highs \in Seq(Highs)
      BY DEF IsWritten
    <3> HIDE DEF Highs
    <3>2. h \in Highs
      BY <1>1, <3>1
    <3> QED
      BY <3>2 DEF Highs
  <2>2. c.lens[s.line] \in Nat \ {0}
    BY <1>1 DEF IsWritten
  <2> QED
    BY <2>1, <2>2
<1>3. \A col \in Nat, marks \in SUBSET {"token"} : To(col, marks) \in Writers(c) /\ To(col, marks).in_high = s.in_high
        /\ To(col, marks).high = s.high
  <2>1. ASSUME NEW col \in Nat, NEW marks \in SUBSET {"token"} PROVE To(col, marks) \in Writers(c)
    BY WrittenTo
  <2>2. ASSUME NEW col, NEW marks PROVE To(col, marks).in_high = s.in_high /\ To(col, marks).high = s.high
    BY DEF Writers
  <2> HIDE DEF To
  <2> QED
    BY <2>1, <2>2
<1>4. Copying!WriteTurn(c, s) =
        CASE ~s.in_high /\ h.sline = s.line -> [To(h.scol, {}) EXCEPT !.in_high = TRUE]
          [] ~s.in_high /\ h.sline # s.line -> To(c.lens[s.line], {})
          [] s.in_high /\ h.eline = s.line ->
               [To(h.ecol, {"token"}) EXCEPT !.in_high = FALSE, !.high = @ + 1]
          [] s.in_high /\ h.eline # s.line -> To(c.lens[s.line], {"token"})
  BY DEF Copying!WriteTurn
<1> HIDE DEF To
<1>5. CASE ~s.in_high /\ h.sline = s.line
  <2>1. s.high # Len(c.highs)
    BY <1>1, <1>5 DEF IsWritten
  <2>2. s.high < Len(c.highs)
    BY <1>1, <2>1
  <2>3. PICK t : t = To(h.scol, {})
    OBVIOUS
  <2>4. t \in Writers(c) /\ t.high = s.high
    BY <1>2, <1>3, <2>3
  <2>5. [t EXCEPT !.in_high = TRUE] \in Writers(c)
    BY <2>2, <2>4 DEF Writers
  <2>6. Copying!WriteTurn(c, s) = [t EXCEPT !.in_high = TRUE]
    BY <1>4, <1>5, <2>3
  <2> QED
    BY <2>5, <2>6
<1>6. CASE ~s.in_high /\ h.sline # s.line
  BY <1>2, <1>3, <1>4, <1>6
<1>7. CASE s.in_high /\ h.eline = s.line
  <2>1. PICK t : t = To(h.ecol, {"token"})
    OBVIOUS
  <2>2. t \in Writers(c) /\ t.high = s.high
    BY <1>2, <1>3, <2>1
  <2>3. s.high + 1 \in 1 .. Len(c.highs)
    BY <1>1, <1>7
  <2>4. [t EXCEPT !.in_high = FALSE, !.high = @ + 1] \in Writers(c)
    BY <2>2, <2>3 DEF Writers
  <2>5. Copying!WriteTurn(c, s) = [t EXCEPT !.in_high = FALSE, !.high = @ + 1]
    BY <1>4, <1>7, <2>1
  <2> QED
    BY <2>4, <2>5
<1>8. CASE s.in_high /\ h.eline # s.line
  BY <1>2, <1>3, <1>4, <1>8
<1> QED
  BY <1>1, <1>5, <1>6, <1>7, <1>8

\* A cell is written.
LEMMA OneWritten ==
  ASSUME NEW lens, NEW of, of \in {0, Copying!Total(lens) + 1},
         NEW marks \in SUBSET {"command", "prompt", "sep", "token", "defs"}
  PROVE  Copying!Write(of, marks) \in Seq(CellsOf(lens))
<1>1. [of |-> of, tags |-> marks] \in CellsOf(lens)
  BY DEF CellsOf
<1> QED
  BY <1>1 DEF Copying!Write

\* A turn of the loop, in a line or to the next.
LEMMA WriteOnTyped ==
  ASSUME NEW c, IsWritten(c), NEW s \in Writers(c), NEW hidden
  PROVE  Copying!WriteOn(c, hidden, s) \in Writers(c)
<1>1. CASE s.line > 0 /\ s.col < c.lens[s.line]
  <2>1. Copying!WriteOn(c, hidden, s) = Copying!WriteTurn(c, s)
    <3>1. s.line \in 0 .. Len(c.lens) /\ s.col \in Nat
      BY DEF Writers
    <3>2. Len(c.lens) \in Nat /\ c.lens \in Seq(Nat \ {0})
      BY DEF IsWritten
    <3>3. s.line \in 1 .. Len(c.lens)
      BY <1>1, <3>1, <3>2
    <3>4. c.lens[s.line] \in Nat
      BY <3>2, <3>3
    <3> HIDE DEF Copying!WriteTurn
    <3>5. ~(s.line = 0 \/ (s.col >= c.lens[s.line] /\ s.line < Len(c.lens)))
      BY <1>1, <3>1, <3>3, <3>4
    <3> QED
      BY <1>1, <3>5 DEF Copying!WriteOn
  <2>2. Copying!WriteTurn(c, s) \in Writers(c)
    BY <1>1, WriteTurnTyped
  <2> QED
    BY <2>1, <2>2
<1>2. CASE ~(s.line > 0 /\ s.col < c.lens[s.line]) /\ (s.line = 0 \/ (s.col >= c.lens[s.line] /\ s.line < Len(c.lens)))
  <2> DEFINE line == s.line + 1
             C == CellsOf(c.lens)
  <2>1. /\ s \in [line : 0 .. Len(c.lens), col : Nat, in_high : BOOLEAN, high : 1 .. Len(c.highs),
                  defs : SUBSET {"defs"}, out : Seq(C)]
        /\ s.in_high => s.high < Len(c.highs)
    BY DEF Writers
  <2>2. line \in 0 .. Len(c.lens) /\ s.out \in Seq(C)
    <3>1. Len(c.lens) \in Nat /\ Len(c.lens) > 0
      BY DEF IsWritten
    <3>2. s.line \in 0 .. Len(c.lens) /\ s.out \in Seq(C)
      BY <2>1
    <3> QED
      BY <1>2, <3>1, <3>2
  <2>3. PICK defs \in SUBSET {"defs"} : defs = IF line \in hidden THEN {"defs"} ELSE {}
    OBVIOUS
  <2>4. PICK prompt : prompt = IF line = 1 THEN <<>> ELSE Copying!Write(0, {"command", "prompt"} \cup defs)
    OBVIOUS
  <2>5. prompt \in Seq(C)
    <3>1. {"command", "prompt"} \cup defs \subseteq {"command", "prompt", "sep", "token", "defs"}
      OBVIOUS
    <3>2. Copying!Write(0, {"command", "prompt"} \cup defs) \in Seq(C)
      BY <3>1, OneWritten
    <3> HIDE DEF C
    <3> QED
      BY <2>4, <3>2
  <2>6. Copying!WriteOn(c, hidden, s) =
          [s EXCEPT !.line = line, !.col = 0, !.defs = defs, !.out = @ \o prompt]
    BY <1>2, <2>3, <2>4 DEF Copying!WriteOn, Copying!BeginLine
  <2> HIDE DEF line, C
  <2>7. s.out \o prompt \in Seq(C)
    BY <2>2, <2>5
  <2>8. [s EXCEPT !.line = line, !.col = 0, !.defs = defs, !.out = @ \o prompt] \in Writers(c)
    BY <2>1, <2>2, <2>7 DEF Writers, C
  <2> QED
    BY <2>6, <2>8
<1>3. CASE ~(s.line > 0 /\ s.col < c.lens[s.line]) /\ ~(s.line = 0 \/ (s.col >= c.lens[s.line] /\ s.line < Len(c.lens)))
  BY <1>3 DEF Copying!WriteOn
<1> QED
  BY <1>1, <1>2, <1>3

\* What WriteCommand makes of a command, turn by turn.
WriteStays(S, c, hidden, start, n) ==
  start \in S /\ n \in Nat /\ \A x \in S : Copying!WriteOn(c, hidden, x) \in S

Writes(h, c, hidden, start, n) ==
  h = [k \in 0 .. n |-> IF k = 0 THEN start ELSE Copying!WriteOn(c, hidden, h[k - 1])]

\* The loop takes its turns, and ends where it may be.
LEMMA WriteTurns ==
  ASSUME NEW S, NEW c, NEW hidden, NEW start, NEW n, WriteStays(S, c, hidden, start, n)
  PROVE  /\ \E h : Writes(h, c, hidden, start, n)
         /\ \A h : Writes(h, c, hidden, start, n) => h[n] \in S
<1> DEFINE step == [k \in 1 .. n |-> [x \in S |-> Copying!WriteOn(c, hidden, x)]]
<1>1. start \in S /\ n \in Nat /\ \A x \in S : Copying!WriteOn(c, hidden, x) \in S
  BY DEF WriteStays
<1>2. PICK f : TurnByTurn(f, S, start, step, n)
  <2>1. step \in [1 .. n -> [S -> S]]
    BY <1>1
  <2> HIDE DEF step
  <2> QED
    BY <1>1, <2>1, Turns, Zenon
<1>3. f \in [0 .. n -> S] /\ f[0] = start /\ \A k \in 1 .. n : f[k] = step[k][f[k - 1]]
  BY <1>2, Zenon DEF TurnByTurn
<1>4. \A k \in 1 .. n : f[k] = Copying!WriteOn(c, hidden, f[k - 1])
  <2> SUFFICES ASSUME NEW k \in 1 .. n PROVE f[k] = Copying!WriteOn(c, hidden, f[k - 1])
    OBVIOUS
  <2>1. k - 1 \in 0 .. n
    BY <1>1
  <2>2. f[k - 1] \in S
    BY <1>3, <2>1
  <2> QED
    BY <1>3, <2>2
<1>5. Writes(f, c, hidden, start, n)
  <2>1. \A k \in 0 .. n : k = 0 \/ k \in 1 .. n
    BY <1>1
  <2>2. \A k \in 0 .. n : f[k] = IF k = 0 THEN start ELSE Copying!WriteOn(c, hidden, f[k - 1])
    BY <1>3, <1>4, <2>1
  <2> QED
    BY <1>3, <2>2 DEF Writes
<1>6. ASSUME NEW h, Writes(h, c, hidden, start, n) PROVE h[n] \in S
  <2> DEFINE Q == {k \in 0 .. n : h[k] \in S}
  <2>1. \A k \in 0 .. n : h[k] = IF k = 0 THEN start ELSE Copying!WriteOn(c, hidden, h[k - 1])
    BY <1>6 DEF Writes
  <2>2. 0 \in Q
    BY <1>1, <2>1
  <2>3. ASSUME NEW k \in 0 .. n - 1, k \in Q PROVE k + 1 \in Q
    <3>1. k + 1 \in 0 .. n /\ (k + 1) - 1 = k /\ k + 1 # 0
      BY <1>1
    <3>2. h[k + 1] = IF k + 1 = 0 THEN start ELSE Copying!WriteOn(c, hidden, h[(k + 1) - 1])
      BY <2>1, <3>1
    <3>3. Copying!WriteOn(c, hidden, h[k]) \in S
      BY <1>1, <2>3
    <3> QED
      BY <3>1, <3>2, <3>3
  <2> HIDE DEF Q
  <2>4. 0 .. n \subseteq Q
    BY <1>1, <2>2, <2>3, UpTo
  <2>5. n \in 0 .. n
    BY <1>1
  <2> QED
    BY <2>4, <2>5 DEF Q
<1> QED
  BY <1>5, <1>6

\* A command is written as a sequence of cells.
LEMMA WriteCommandTyped ==
  ASSUME Copying!ConstantsFit, NEW written \in WrittenCommands
  PROVE  Copying!WriteCommand(written) \in Seq(CellsOf(written.lens))
<1> DEFINE lines == Len(written.lens)
           behind == [sline |-> lines + 1, scol |-> 0, eline |-> lines + 1, ecol |-> 0]
           c == [written EXCEPT !.highs = Append(@, behind)]
           hidden == Copying!DefsLines(c.rows)
           start == [line |-> 0, col |-> 0, in_high |-> FALSE, high |-> 1, defs |-> {},
                     out |-> Copying!Write(0, {"command", "prompt"})]
           turns == 2 * (lines + Len(c.highs))
           Highs == [sline : Nat \ {0}, scol : Nat, eline : Nat \ {0}, ecol : Nat]
           h == CHOOSE g : Writes(g, c, hidden, start, turns)
           C == CellsOf(written.lens)
<1>1. written \in [lens : Seq(Nat \ {0}), highs : Seq(Highs),
                   rows : Seq([depth : Nat, kind : {"plain", "def", "other"}])]
      /\ written.lens # <<>>
  BY DEF Copying!ConstantsFit
<1> HIDE DEF Highs
<1>2. written.lens \in Seq(Nat \ {0}) /\ written.highs \in Seq(Highs) /\ lines \in Nat /\ lines > 0
  BY <1>1
<1> HIDE DEF lines
<1>3. behind \in Highs /\ behind.sline = lines + 1
  BY <1>2 DEF Highs
<1> HIDE DEF behind
<1>4. c.lens = written.lens /\ c.highs = Append(written.highs, behind)
  BY <1>1
<1> HIDE DEF c
<1>5. c.highs \in Seq(Highs) /\ Len(c.highs) \in Nat /\ Len(c.highs) > 0 /\ c.highs[Len(c.highs)] = behind
  BY <1>2, <1>3, <1>4
<1>6. IsWritten(c)
  BY <1>2, <1>3, <1>4, <1>5 DEF IsWritten, Highs, lines
<1>7. start \in Writers(c)
  <2>1. PICK out : out = Copying!Write(0, {"command", "prompt"})
    OBVIOUS
  <2>2. out \in Seq(CellsOf(c.lens))
    BY <2>1, OneWritten
  <2>3. 1 \in 1 .. Len(c.highs) /\ 0 \in 0 .. Len(c.lens)
    BY <1>2, <1>4, <1>5 DEF lines
  <2>4. [line |-> 0, col |-> 0, in_high |-> FALSE, high |-> 1, defs |-> {}, out |-> out] \in Writers(c)
    BY <2>2, <2>3 DEF Writers
  <2> QED
    BY <2>1, <2>4
<1> HIDE DEF hidden
<1>8. \A x \in Writers(c) : Copying!WriteOn(c, hidden, x) \in Writers(c)
  BY <1>6, WriteOnTyped
<1>9. turns \in Nat
  BY <1>2, <1>5
<1>10. Copying!WriteCommand(written) =
         h[turns].out \o Copying!Write(Copying!Total(c.lens) + 1, {"command"}) \o Copying!Write(0, {"sep"})
  BY DEF Copying!WriteCommand, Writes, c, hidden, behind, lines
<1> HIDE DEF start, turns
<1>11. WriteStays(Writers(c), c, hidden, start, turns)
  BY <1>7, <1>8, <1>9 DEF WriteStays
<1>12. /\ \E g : Writes(g, c, hidden, start, turns)
       /\ \A g : Writes(g, c, hidden, start, turns) => g[turns] \in Writers(c)
  BY <1>11, WriteTurns
<1>13. h[turns] \in Writers(c)
  <2>1. Writes(h, c, hidden, start, turns)
    BY <1>12
  <2> HIDE DEF h
  <2> QED
    BY <1>12, <2>1
<1> HIDE DEF h
<1>14. h[turns].out \in Seq(C)
  BY <1>4, <1>13 DEF Writers
<1>15. Copying!Write(Copying!Total(c.lens) + 1, {"command"}) \in Seq(C) /\ Copying!Write(0, {"sep"}) \in Seq(C)
  BY <1>4, OneWritten
<1> HIDE DEF C
<1>16. h[turns].out \o Copying!Write(Copying!Total(c.lens) + 1, {"command"}) \o Copying!Write(0, {"sep"}) \in Seq(C)
  BY <1>14, <1>15
<1> QED
  BY <1>10, <1>16 DEF C

\* It begins with a selection of which nothing is taken yet, whatever the text is.
LEMMA CopyInit == ASSUME Copying!ConstantsFit, Copying!CopyInit PROVE CopyIInv
<1>1. Len(tags) \in Nat
  <2>1. CASE tags \in UNION {[1 .. n -> Copying!Tags] : n \in 1 .. 4}
    <3>1. PICK n \in 1 .. 4 : tags \in [1 .. n -> Copying!Tags]
      BY <2>1
    <3> QED
      BY <3>1
  <2>2. CASE /\ command \in WrittenCommands
             /\ LET cells == Copying!WriteCommand(command) IN tags = [i \in DOMAIN cells |-> cells[i].tags]
    <3>1. PICK cells : cells = Copying!WriteCommand(command)
      OBVIOUS
    <3>2. cells \in Seq(CellsOf(command.lens))
      BY <2>2, <3>1, WriteCommandTyped
    <3>3. tags = [i \in 1 .. Len(cells) |-> cells[i].tags] /\ Len(cells) \in Nat
      BY <2>2, <3>1, <3>2
    <3> QED
      BY <3>3
  <2> QED
    BY <2>1, <2>2 DEF Copying!CopyInit
<1>2. /\ sel_start \in 0 .. Len(tags) - 1 /\ sel_end \in sel_start + 1 .. Len(tags)
      /\ it = sel_start /\ r = <<>> /\ reached_end = FALSE
  BY DEF Copying!CopyInit
<1>3. Taken(r, tags, sel_start, it)
  BY <1>1, <1>2 DEF Taken
<1> QED
  BY <1>1, <1>2, <1>3 DEF CopyIInv

\* Ctrl-C is for copying when something is selected, and for interrupting when nothing is.
LEMMA SelectionIsRight == ASSUME SelectionIInv PROVE Copying!CtrlCIsRight
  BY DEF SelectionIInv, Copying!CtrlCIsRight

\* selection.py, for any number of tabs: unless something changed in silence, Ctrl-C copies
\* when something is selected, and interrupts when nothing is.
THEOREM CtrlCRight == Copying!Spec => []Copying!CtrlCIsRight
BY SelectionInit, SelectionStep, SelectionIsRight, PTL DEF Copying!Spec

\* Of every text and every selection in it, all that is of commands is copied, in order, and
\* nothing else; among the texts are those that write_command() writes.
THEOREM CommandsCopied == Copying!CopySpec => []Copying!AllCommands
<1>1. Copying!CopyInit => CopyIInv
  BY CopyingAssumption, CopyInit
<1> QED
  BY <1>1, CopyStep, CopyIsAll, PTL DEF Copying!CopySpec


-----------------------------------------------------------------------------
\* The parts of the window, each by its own specification.
PartsSpec ==
  Bar!Spec /\ Folds!Spec /\ Notebook!Spec /\ Check!Spec /\ Looks!Spec /\ Out!Spec

\* However they run side by side, what WindowIsRight says is always true.
THEOREM WindowRight == PartsSpec => []WindowIsRight
BY MessagesGoAway, FoldsRight, TabsRight, NoticeRight, PTL DEF PartsSpec, WindowIsRight

\* And each of their steps is as WindowActsRight says.
THEOREM WindowActs == PartsSpec => WindowActsRight
BY TabsRight, NoticeRight, OutputRight, PTL DEF PartsSpec, WindowActsRight

-----------------------------------------------------------------------------
\* Side by side, each part does what its own specification says.
LEMMA EachPart == AllSpec => Spec /\ PartsSpec
<1>1. AllInit => /\ Init /\ Bar!Init /\ Folds!Init /\ Notebook!Init /\ Check!Init /\ Looks!Init
                 /\ Out!Init
  BY DEF AllInit
<1>2. [AllNext]_allVars => [Next]_vars
  BY DEF AllNext, allVars
<1>3. [AllNext]_allVars => [Bar!Next]_Bar!vars
  BY DEF AllNext, allVars, barVars, Bar!vars
<1>4. [AllNext]_allVars => [Folds!Next]_Folds!vars
  BY DEF AllNext, allVars, foldingVars, Folds!vars
<1>5. [AllNext]_allVars => [Notebook!Next]_Notebook!vars
  BY DEF AllNext, allVars, tabsVars, Notebook!vars
<1>6. [AllNext]_allVars => [Check!Next]_Check!vars
  BY DEF AllNext, allVars, updateVars, Check!vars, Check!globals, Check!shown
<1>7. [AllNext]_allVars => [Looks!Next]_Looks!vars
  BY DEF AllNext, allVars, themesVars, Looks!vars, Looks!dialog
<1>8. [AllNext]_allVars => [Out!Next]_Out!vars
  BY DEF AllNext, allVars, outputVars, Out!vars, Out!Next
<1> QED
  BY <1>1, <1>2, <1>3, <1>4, <1>5, <1>6, <1>7, <1>8, PTL
     DEF AllSpec, Spec, PartsSpec, Bar!Spec, Folds!Spec, Notebook!Spec, Check!Spec, Looks!Spec, Out!Spec

\* The invariants of the text view, where each part of it runs or stays as it starts: a stream
\* is shown as long as nothing discards it.
TextIInv ==
  /\ OutIInv /\ (part = "output" => StreamShown)
  /\ SelectionIInv /\ CopyIInv

\* What the text view shows, and what is copied from it, is right in all of the behaviours
\* that TLC explores, whatever the constants.
THEOREM TextRight == AllSpec => []TextIsRight
<1>1. AllInit => TextIInv
  <2> SUFFICES ASSUME AllInit PROVE TextIInv
    OBVIOUS
  <2>1. Out!Init /\ Copying!Init
    BY DEF AllInit
  <2>2. CopyIInv
    <3>1. CASE part = "commands"
      BY <3>1, CopyingAssumption, CopyInit DEF AllInit
    <3>2. CASE part # "commands"
      <4>1. /\ tags = <<{}>> /\ sel_start = 0 /\ sel_end = 1 /\ it = 1
            /\ r = <<>> /\ reached_end = TRUE
        BY <3>2 DEF AllInit
      <4>2. Len(tags) = 1 /\ tags[1] = {}
        BY <4>1
      <4>3. Taken(r, tags, 0, 1)
        BY <4>1, <4>2 DEF Taken
      <4> QED
        BY <4>1, <4>2, <4>3 DEF CopyIInv
    <3> QED
      BY <3>1, <3>2
  <2> QED
    BY <2>1, <2>2, OutputAssumption, OutInit, StreamInit, SelectionInit DEF TextIInv
<1>2. TextIInv /\ [AllNext]_allVars => TextIInv'
  <2> SUFFICES ASSUME TextIInv, [AllNext]_allVars PROVE TextIInv'
    OBVIOUS
  <2>1. [Out!Next]_Out!vars
    BY DEF AllNext, allVars, outputVars, Out!vars, Out!Next
  <2>2. part' = part /\ (part = "output" => [Out!Writing]_Out!vars)
    BY DEF AllNext, allVars, outputVars, Out!vars
  <2>3. [Copying!Next]_Copying!vars
    BY DEF AllNext, allVars, selectionVars, Copying!vars
  <2>4. [Copying!Turn]_Copying!copyVars
    BY DEF AllNext, allVars, commandsVars, Copying!copyVars
  <2>5. OutIInv /\ (part = "output" => StreamShown) /\ SelectionIInv /\ CopyIInv
    BY DEF TextIInv
  <2>6. OutIInv'
    BY <2>1, <2>5, OutputAssumption, OutStep
  <2>7. part' = "output" => StreamShown'
    BY <2>2, <2>5, OutputAssumption, StreamStep
  <2>8. SelectionIInv'
    BY <2>3, <2>5, SelectionStep
  <2>9. CopyIInv'
    BY <2>4, <2>5, CopyStep
  <2> QED
    BY <2>6, <2>7, <2>8, <2>9 DEF TextIInv
<1>3. TextIInv => TextIsRight
  <2> SUFFICES ASSUME TextIInv PROVE TextIsRight
    OBVIOUS
  <2>1. OutIInv /\ (part = "output" => StreamShown) /\ SelectionIInv /\ CopyIInv
    BY DEF TextIInv
  <2>2. Out!TypeOK /\ Out!EndsWithNewline /\ Out!LinesAreBroken
    BY <2>1, LinesFit DEF OutIInv
  <2>3. part = "output" => Out!ShowsStream
    BY <2>1 DEF StreamShown, Out!ShowsStream
  <2> QED
    BY <2>1, <2>2, <2>3, SelectionIsRight, CopyIsAll DEF TextIsRight
<1> QED
  BY <1>1, <1>2, <1>3, PTL DEF AllSpec

\* So all of it is true of the behaviours that TLC explores, whatever the constants.
THEOREM AllRight ==
  AllSpec => [](ScrollIsRight /\ WindowIsRight /\ ThemesAreRight /\ TextIsRight) /\ WindowActsRight
<1>1. PartsSpec => []ThemesAreRight
  BY ThemesRight DEF PartsSpec
<1> QED
  BY <1>1, EachPart, ScrollRight, WindowRight, WindowActs, TextRight, PTL
===============================================================================
