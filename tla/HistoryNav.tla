------------------------------ MODULE HistoryNav ------------------------------
(***************************************************************************)
(* History.history_up and history_down (gui/history.py) in the editor: the *)
(* search walks a mark over the commands of the text view and keeps, for   *)
(* each hash, how many commands it has walked over, so as not to show a    *)
(* command twice.                                                          *)
(*                                                                         *)
(* A command stands for its region of the text view; regions that hold     *)
(* nothing but a prompt match no prefix and are left out.  Matches[p] is   *)
(* the set of commands whose first line begins with p and that are long    *)
(* enough to be recalled.                                                  *)
(***************************************************************************)
EXTENDS Integers, Sequences, FiniteSets, FiniteSetsExt, Functions

CONSTANTS
  Texts,      \* what the source buffer may hold, stripped
  OneLine,    \* the texts of one line
  Blank,      \* the empty text
  Matches,    \* the commands that each one-line text is a prefix of
  Hash,       \* hash_cmd of each text
  Files,      \* the commands of the history files that may be loaded
  LeaveCode,  \* the option leave-code: executing does not clear the editor
  MaxHist     \* bound on the commands in the text view, and on the counts at a load

\* A command is recalled by a text of one line; the files hold no empty command.
ASSUME CommandsAssumption ==
  /\ Blank \in OneLine /\ OneLine \subseteq Texts /\ Matches \in [OneLine -> SUBSET Texts]
  /\ Hash = [t \in Texts |-> Hash[t]] /\ Files \subseteq Texts \ {Blank}
  /\ LeaveCode \in BOOLEAN /\ MaxHist \in Nat

VARIABLES
  hist,      \* the commands in the text view, oldest first
  text,      \* the contents of the source buffer
  prefix,    \* hist_prefix
  searching, \* not sb_changed
  mark,      \* hist_mark: the command it stands before
  atText,    \* something that is no command lies between the two
  count      \* hist_count

vars == <<hist, text, prefix, searching, mark, atText, count>>

\* hist_mark at the end: what is written goes before it, and not before a mark that
\* stands behind the last command but before the last prompt.
End == MaxHist + 2

TypeOK ==
  /\ hist \in Seq(Texts \ {Blank}) /\ Len(hist) <= MaxHist
  /\ text \in Texts /\ prefix \in OneLine
  /\ searching \in BOOLEAN
  /\ mark \in 1 .. End /\ (mark = End \/ mark <= Len(hist) + 1) /\ atText \in BOOLEAN
  /\ DOMAIN count \subseteq Range(Hash)
  /\ \A h \in DOMAIN count : count[h] \in Int

\* Mutations of the definitions that follow, each the mark of a plausible slip
\* in the code, have an underscore in their names and are used by no other
\* definition: TLC refutes a property with each of them.

NoCount == [h \in {} |-> 0]

Init ==
  /\ hist = <<>> /\ text = Blank /\ prefix = Blank
  /\ searching = FALSE /\ mark = End /\ atText = FALSE /\ count = NoCount

\* What hist_count holds of a hash, 0 if nothing.
Count(c, h) == IF h \in DOMAIN c THEN c[h] ELSE 0

\* The places of a set with commands of hash h.
Of(h, places) == {i \in places : Hash[hist[i]] = h}

\* hist_count after each place of a set has added n to its hash.
Counted(c, places, n) ==
  [h \in DOMAIN c \cup {Hash[hist[i]] : i \in places} |->
     Count(c, h) + n * Cardinality(Of(h, places))]

\* The matching commands behind a mark, and those from it on.
Behind(m, p) == {i \in 1 .. Len(hist) : i < m /\ hist[i] \in Matches[p]}
Ahead(m, p) == {i \in 1 .. Len(hist) : m <= i /\ hist[i] \in Matches[p]}

\* The user types, or a sourceview command changes the text.
EditSource(t) ==
  /\ t # text
  /\ text' = t /\ searching' = FALSE
  /\ UNCHANGED <<hist, prefix, mark, atText, count>>

\* The switched-to tab's text goes on with the old tab's search.
SwitchTab_goesOn(t) ==
  /\ text' = t
  /\ UNCHANGED <<hist, prefix, searching, mark, atText, count>>

\* Another tab: _on_sv_changed ends the search.
SwitchTab(t) ==
  /\ text' = t /\ searching' = FALSE
  /\ UNCHANGED <<hist, prefix, mark, atText, count>>

\* The source is executed or sent as stdin: its text is written to the text
\* view and, without leave-code, deleted from the editor.
Execute ==
  /\ text # Blank /\ Len(hist) < MaxHist
  /\ hist' = Append(hist, text)
  /\ IF LeaveCode THEN UNCHANGED <<text, searching>>
                  ELSE text' = Blank /\ searching' = FALSE
  /\ UNCHANGED <<prefix, mark, atText, count>>

\* The search begun at this call, or the one in progress.
UpPrefix == IF searching THEN prefix ELSE text
UpMark == IF searching THEN mark ELSE End
\* The counts of the last search are kept.
UpCount_kept == count
UpCount == IF searching THEN count ELSE NoCount

\* The counts of the walk up to a place: it stops where a hash is met first.
UpStops ==
  LET Walk == Behind(UpMark, UpPrefix) IN
  {i \in Walk : Count(UpCount, Hash[hist[i]])
                + Cardinality(Of(Hash[hist[i]], {j \in Walk : j >= i})) = 1}

\* history_up: a multi-line text cannot be a prefix, and at the start of the
\* text view there is nothing above; both beep.
HistoryUp ==
  /\ searching \/ text \in OneLine
  /\ prefix' = UpPrefix /\ searching' = TRUE
  /\ LET stop == IF UpStops = {} THEN 0 ELSE Max(UpStops)
         walked == {i \in Behind(UpMark, UpPrefix) : i >= stop}
     IN  /\ text' = IF UpStops = {} THEN text ELSE hist[stop]
         /\ mark' = Min(walked \cup {UpMark})
         /\ atText' = (searching /\ atText /\ walked = {})
         /\ count' = Counted(UpCount, walked, 1)
  /\ UNCHANGED hist

\* The walk down does not begin where no command does.
DownWalk == IF atText THEN {} ELSE Ahead(mark, prefix)

\* The places of the walk down where a hash has been walked over just once.
DownStops ==
  {i \in DownWalk : Count(count, Hash[hist[i]])
                - Cardinality(Of(Hash[hist[i]], {j \in DownWalk : j < i})) = 1}

\* The first such place, the one shown now, is not passed over.
DownTo_notPassed == IF DownStops = {} THEN End ELSE Min(DownStops)

\* Where the walk ends: the second such place, the first being the one shown.
DownTo == IF Cardinality(DownStops) < 2
            THEN End ELSE Min(DownStops \ {Min(DownStops)})

\* history_down.  Past the last stop the prefix is put back, which ends the
\* search unless it changes nothing: an empty text set to an empty prefix.
HistoryDown ==
  /\ searching
  /\ LET walked == {i \in DownWalk : i < DownTo} IN
       /\ count' = Counted(count, walked, -1)
       /\ IF DownTo = End
            THEN /\ text' = prefix
                 /\ searching' = (text = Blank /\ prefix = Blank)
                 /\ mark' = Max(walked \cup {mark})
            ELSE /\ text' = hist[DownTo]
                 /\ mark' = DownTo
                 /\ UNCHANGED searching
  /\ UNCHANGED <<hist, prefix, atText>>

\* A mark among the deleted commands is not looked at.
DiscardSessions_unclamped(k) ==
  /\ hist' = SubSeq(hist, k + 1, Len(hist))
  /\ mark' = IF mark = End THEN End ELSE mark - k
  /\ UNCHANGED <<text, prefix, searching, atText, count>>

\* on_discard_history, previous sessions: the oldest k commands are deleted
\* from the text view, and a mark among them ends up at its start.
DiscardSessions(k) ==
  /\ hist' = SubSeq(hist, k + 1, Len(hist))
  /\ IF mark = End \/ mark > k
       THEN mark' = (IF mark = End THEN End ELSE mark - k) /\ UNCHANGED atText
       ELSE mark' = 1 /\ atText' = TRUE
  /\ UNCHANGED <<text, prefix, searching, count>>

\* on_discard_history, everything: a message takes the place of all but the last
\* prompt, and the mark goes behind it.
DiscardAll ==
  /\ hist' = <<>>
  /\ mark' = (IF mark = End THEN End ELSE 1) /\ atText' = FALSE
  /\ UNCHANGED <<text, prefix, searching, count>>

\* HistPersist.load of a file with one command: it goes before everything.
LoadHistory(c) ==
  /\ Len(hist) < MaxHist /\ \A h \in DOMAIN count : count[h] < MaxHist
  /\ hist' = <<c>> \o hist
  /\ mark' = IF mark = End THEN End ELSE mark + 1
  /\ UNCHANGED <<text, prefix, searching, atText, count>>

Next ==
  \/ \E t \in Texts : EditSource(t) \/ SwitchTab(t)
  \/ Execute \/ HistoryUp \/ HistoryDown
  \/ \E k \in 1 .. Len(hist) : DiscardSessions(k)
  \/ DiscardAll
  \/ \E c \in Files : LoadHistory(c)

Spec == Init /\ [][Next]_vars

-----------------------------------------------------------------------------
\* history_down looks every command it walks over up in hist_count, and finds
\* it there: no command from the mark on is new to the search, even if commands
\* were executed since.
WalkedIsCounted ==
  searching => \A i \in Ahead(mark, prefix) : Hash[hist[i]] \in DOMAIN count

\* Nothing is walked over by a search whose mark is at the end; once it is not, the
\* editor's text is not new to the search either, and a source that is executed and
\* left in the editor is found counted when it is walked over.
TextIsCounted ==
  searching => IF mark = End THEN DOMAIN count = {}
                             ELSE text = Blank \/ Hash[text] \in DOMAIN count

\* While a search goes on the editor shows the prefix or a command that begins
\* with it: what is executed is never the leftover of another search.
ShowsAMatch == searching => text = prefix \/ text \in Matches[prefix]

\* What holds while commands are recalled, with the types of the state.
RecallIsRight == TypeOK /\ WalkedIsCounted /\ TextIsCounted /\ ShowsAMatch

\* The walk of the mark and the counts implement a cursor in the list of
\* distinct commands: up and down pass each one once, in order, and down undoes
\* up, as long as no file is loaded into a search whose place was discarded.
\* The cursor's position is the number of hashes from the mark on.
Position == IF searching
              THEN Cardinality({Hash[hist[i]] : i \in DownWalk}) ELSE 0
Cursor == INSTANCE HistoryCursor WITH pos <- Position

\* And each key press that changes anything moves the cursor as it says: none is
\* spent on a command that was already shown.
KeysMoveCursor == [][(HistoryUp => Cursor!Up) /\ (HistoryDown => Cursor!Down)]_vars

\* The cursor is implemented, by every step and by the keys in particular.
CursorSpec == Cursor!Spec /\ KeysMoveCursor
=============================================================================
