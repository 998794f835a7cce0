-------------------------- MODULE AutocompleteWindow ---------------------------
(***************************************************************************)
(* gui/autocomplete_window.py: the completion list that follows the text   *)
(* between a mark and the cursor, and opens again when the character that  *)
(* closed it is deleted; and the part of Autocomplete.show_completions     *)
(* that opens it.  The window's state is a record, and each method is the  *)
(* function from it, the text and the cursor to the state it leaves.       *)
(*                                                                         *)
(* The lists are in the order in which they are given, and that need not   *)
(* be the order of the search: keys are sorted before a bracket is         *)
(* appended to them, file names before a quote or a separator.             *)
(*                                                                         *)
(* GTK calls the handlers of a signal in the order of their connection, a  *)
(* handler that is disconnected meanwhile not at all, and one connected    *)
(* meanwhile not before the next time.                                     *)
(***************************************************************************)
EXTENDS Integers, Sequences, SequencesExt, FiniteSets, TLC

CONSTANTS
  Tabs,
  None,       \* no tab, no prefix
  Chars,
  Lower,      \* the lower case of each character
  Code,       \* and its number
  NonAscii,   \* the characters that are more than a byte in UTF-8
  CaseInsen,  \* is_case_insen of the lists
  Public,     \* the list of completions that are offered, each a sequence of characters
  Private,    \* the list of those that are offered when none of the others fits
  MaxText,    \* bound on the length of a text
  MaxHandlers \* bound on the after-hide handlers

VARIABLES
  tab,      \* the current page
  text,     \* the text of each tab's source buffer
  cursor,   \* and the offset of its insert mark
  win,      \* the AutocompleteWindow
  handlers, \* the connected on_changed_after_hide handlers, oldest first
  raised    \* did a handler raise an exception

vars == <<tab, text, cursor, win, handlers, raised>>

Texts == BoundedSeq(Chars, MaxText)
Words == ToSet(Public \o Private)

Hidden == [shown |-> FALSE, blocked |-> TRUE, connected |-> None, mark |-> 0,
           list |-> <<>>, private |-> <<>>, showingPrivate |-> FALSE, prefix |-> None, rows |-> <<>>]

TypeOK ==
  /\ tab \in Tabs
  /\ text \in [Tabs -> Seq(Chars)] /\ \A t \in Tabs : cursor[t] \in 0 .. Len(text[t])
  /\ DOMAIN win = DOMAIN Hidden /\ {win.shown, win.blocked, win.showingPrivate} \subseteq BOOLEAN
  /\ win.connected \in Tabs \cup {None} /\ win.mark \in 0 .. MaxText
  /\ ToSet(win.list \o win.private \o win.rows) \subseteq Words
  /\ \A i \in 1 .. Len(handlers) :
       /\ handlers[i].tab \in Tabs /\ handlers[i].expected \in Seq(Chars) /\ handlers[i].startLen \in Nat
       /\ ToSet(handlers[i].public \o handlers[i].private) \subseteq Words
  /\ raised \in BOOLEAN

Init ==
  /\ tab \in Tabs /\ text = [t \in Tabs |-> <<>>] /\ cursor = [t \in Tabs |-> 0]
  /\ win = Hidden /\ handlers = <<>> /\ raised = FALSE

\* What lists are searched for.
Key(s) == IF CaseInsen THEN [i \in 1 .. Len(s) |-> Lower[s[i]]] ELSE s

Smaller(a, b) == IF a < b THEN a ELSE b

Less(a, b) ==
  \E k \in 1 .. Len(b) :
    /\ k <= Len(a) + 1 /\ SubSeq(a, 1, k - 1) = SubSeq(b, 1, k - 1)
    /\ k <= Len(a) => Code[a[k]] < Code[b[k]]

\* list.sort() with the key, which is stable.
InOrder(list) == SortSeq(list, LAMBDA v, w : Less(Key(v), Key(w)))

IsInOrder(list) == \A j \in 2 .. Len(list) : ~Less(Key(list[j]), Key(list[j - 1]))

Fits(w, prefix) == IsPrefix(Key(prefix), Key(w))

Fitting(words, prefix) == {w \in words : Fits(w, prefix)}

\* The first search of find_prefix_range.
SearchStart(list, prefix) ==
  LET p == Key(prefix)
      From[l, r \in 0 .. Len(list)] ==
        LET m == (l + r) \div 2
            k == Key(list[m + 1])
        IN IF l >= r THEN l ELSE IF k = p THEN m ELSE IF Less(k, p) THEN From[m + 1, r] ELSE From[l, m]
  IN From[0, Len(list)]

\* And the second.
SearchEnd(list, prefix) ==
  LET p == Key(prefix)
      From[l, r \in 0 .. Len(list)] ==
        LET m == (l + r) \div 2
            k == Key(list[m + 1])
        IN IF l >= r THEN l
           ELSE IF Less(p, SubSeq(k, 1, Smaller(Len(k), Len(p)))) THEN From[l, m] ELSE From[m + 1, r]
  IN From[0, Len(list)]

\* What is found: the words of a list that begin with the prefix, if it is in order.
Found(list, prefix) == SubSeq(list, SearchStart(list, prefix) + 1, SearchEnd(list, prefix))

Between(s, from, to) == SubSeq(s, from + 1, to)

\* Mutations of the definitions that follow, each the mark of a plausible slip
\* in the code, have an underscore in their names and are used by no other
\* definition: TLC refutes a property with each of them.

\* hide with the signal handlers left connected.
Hide_connected(w) == [Hidden EXCEPT !.connected = w.connected]

\* hide
Hide(w) == Hidden

\* on_changed_after_hide gets the list after the private words were merged.
Reopening_merged(w, all) == [public |-> all, private |-> <<>>]

\* The lists are read when hide has cleared them.
Reopening_cleared(w, all) == [public |-> all, private |-> <<None>>]

\* The lists to open again: those the window had when it could still choose.
Reopening(w, all) ==
  IF w.showingPrivate THEN [public |-> w.list, private |-> <<>>]
                      ELSE [public |-> w.list, private |-> w.private]

\* The merged list is left as it is.
All_unsorted(w, prefix) ==
  IF w.showingPrivate \/ Found(w.list, prefix) # <<>> THEN w.list ELSE w.list \o w.private

\* cur_list: with the private words, and in order, once no public one is found.
All(w, prefix) ==
  IF w.showingPrivate \/ Found(w.list, prefix) # <<>> THEN w.list ELSE InOrder(w.list \o w.private)

\* The handler that update_list connects when a character before the cursor closes the list.
\* isField tells whether a handler's id is in changed_after_hide_handler; at,
\* the cursor, and rows, what was shown before a character was typed, are not
\* in the code.
Handler(w, t, s, c, prefix, again) ==
  [tab |-> t, expected |-> SubSeq(s, 1, c - 1) \o SubSeq(s, c + 1, Len(s)),
   public |-> again.public, private |-> again.private,
   startLen |-> Len(prefix) - 1, isField |-> TRUE,
   rows |-> IF w.prefix = Front(prefix) THEN w.rows ELSE <<>>, at |-> c]

\* The end of update_list: there are rows, or nothing is shown.  Characters before
\* the cursor's last one that fit make the list worth opening again.
Listed(w, t, s, c, prefix, all, rows) ==
  IF rows # <<>>
  THEN [win |-> [w EXCEPT !.list = all, !.showingPrivate = @ \/ Found(w.list, prefix) = <<>>,
                          !.prefix = prefix, !.rows = rows],
        new |-> <<>>]
  ELSE [win |-> Hide(w),
        new |-> IF prefix # <<>> /\ Found(all, Front(prefix)) # <<>>
                THEN <<Handler(w, t, s, c, prefix, Reopening(w, all))>> ELSE <<>>]

\* update_list: the window, and the handler it connects if any.
UpdateList(w, t, s, c) ==
  LET prefix == Between(s, w.mark, c)
      FromAll(all) == Listed(w, t, s, c, prefix, all, Found(all, prefix))
  IN IF ~w.shown \/ prefix = w.prefix THEN [win |-> w, new |-> <<>>] ELSE FromAll(All(w, prefix))

\* After that.
Updated(st, listed) == [st EXCEPT !.win = listed.win, !.handlers = @ \o listed.new]

\* show that leaves changed_after_hide_handler connected.
Forget_kept(hs, t) == hs

\* show disconnects changed_after_hide_handler from the current buffer, where
\* it may not be, and forgets it.
Forget(hs, t) ==
  LET Kept == SelectSeq(hs, LAMBDA h : ~(h.isField /\ h.tab = t))
  IN [i \in 1 .. Len(Kept) |-> [Kept[i] EXCEPT !.isField = FALSE]]

\* show, and update_list at its end; backward_chars stops at the start.
Show(t, s, c, public, private, startLen) ==
  LET from == IF startLen > c THEN 0 ELSE c - startLen
  IN UpdateList([Hidden EXCEPT !.shown = TRUE, !.blocked = FALSE, !.connected = t,
                               !.mark = from, !.list = public, !.private = private],
                t, s, c)

\* on_changed_after_hide for one of the handlers: a handler whose id is no
\* longer remembered raises an exception, as there is none to disconnect.  The
\* bytes of the text are compared with the expected characters, which are never
\* the same when there is one that is more than a byte.
AfterHide(st, h, s, c) ==
  IF \A i \in 1 .. Len(st.handlers) : ~st.handlers[i].isField
    THEN [st EXCEPT !.raised = TRUE]
    ELSE LET stopped == [st EXCEPT !.handlers = Forget(@, h.tab)]
         IN IF s = h.expected /\ ToSet(s) \cap NonAscii = {}
              THEN Updated(stopped, Show(h.tab, s, c, h.public, h.private, h.startLen))
              ELSE stopped

\* The on_changed_after_hide handlers of a tab.
AfterHides(st, t, s, c) ==
  FoldLeft(LAMBDA acc, h : IF h \in ToSet(acc.handlers) THEN AfterHide(acc, h, s, c) ELSE acc,
           st, SelectSeq(st.handlers, LAMBDA h : h.tab = t))

\* The signal 'changed' of a tab, with the text and the cursor after the change.
Changed(st, t, s, c) ==
  LET OnChanged(after) == IF st.win.connected = t THEN Updated(after, UpdateList(st.win, t, s, c)) ELSE after
  IN OnChanged(AfterHides(st, t, s, c))

State == [win |-> win, handlers |-> handlers, raised |-> raised]

Becomes(st) ==
  /\ Len(st.handlers) <= MaxHandlers
  /\ win' = st.win /\ handlers' = st.handlers /\ raised' = st.raised

\* insert-text: an insertion before the mark hides the list.
Inserting(st, t, c) == IF st.win.connected = t /\ c < st.win.mark THEN [st EXCEPT !.win = Hide(@)] ELSE st

\* A text is inserted at the cursor.
Insert(s) ==
  LET new == SubSeq(text[tab], 1, cursor[tab]) \o s \o SubSeq(text[tab], cursor[tab] + 1, Len(text[tab])) IN
  /\ Len(new) <= MaxText
  /\ text' = [text EXCEPT ![tab] = new]
  /\ cursor' = [cursor EXCEPT ![tab] = @ + Len(s)]

Type(ch) ==
  /\ Insert(<<ch>>)
  /\ Becomes(Changed(Inserting(State, tab, cursor[tab]), tab, text'[tab], cursor'[tab]))
  /\ UNCHANGED tab

\* delete-range that does not look at the mark.
Deleting_anywhere(st, t, from) == st

\* delete-range: a deletion from before the mark hides the list.
Deleting(st, t, from) == Inserting(st, t, from)

Backspace ==
  /\ cursor[tab] > 0
  /\ text' = [text EXCEPT ![tab] = SubSeq(@, 1, cursor[tab] - 1) \o SubSeq(@, cursor[tab] + 1, Len(@))]
  /\ cursor' = [cursor EXCEPT ![tab] = @ - 1]
  /\ Becomes(Changed(Deleting(State, tab, cursor'[tab]), tab, text'[tab], cursor'[tab]))
  /\ UNCHANGED tab

\* The whole text is replaced: a command is recalled, the source executed.
SetText(s) ==
  /\ s # text[tab]
  /\ text' = [text EXCEPT ![tab] = s] /\ cursor' = [cursor EXCEPT ![tab] = Len(s)]
  /\ LET Filled(st) == IF s = <<>> THEN st ELSE Changed(Inserting(st, tab, 0), tab, s, Len(s))
     IN Becomes(Filled(IF text[tab] = <<>> THEN State ELSE Changed(Deleting(State, tab, 0), tab, <<>>, 0)))
  /\ UNCHANGED tab

\* on_mark_set
MoveCursor(c) ==
  /\ c # cursor[tab]
  /\ cursor' = [cursor EXCEPT ![tab] = c]
  /\ Becomes(IF win.connected # tab THEN State
             ELSE IF c < win.mark THEN [State EXCEPT !.win = Hide(@)]
             ELSE Updated(State, UpdateList(win, tab, text[tab], c)))
  /\ UNCHANGED <<tab, text>>

\* Escape, the loss of the focus, a move of the window: hide.
Dismiss ==
  /\ win.shown
  /\ win' = Hide(win)
  /\ UNCHANGED <<tab, text, cursor, handlers, raised>>

\* show on a list with some word that fits, as show_completions makes sure.
Open(st, t, s, c, startLen) ==
  Updated([st EXCEPT !.handlers = Forget(@, t)], Show(t, s, c, Public, Private, startLen))

\* How many characters the first and the last of the words have in common.
Common(words) == Len(LongestCommonPrefix({Key(words[1]), Key(words[Len(words)])}))

\* show_completions on the word of startLen characters before the cursor,
\* with complete = False.
ShowCompletions(startLen) ==
  LET prefix == Between(text[tab], cursor[tab] - startLen, cursor[tab]) IN
  /\ startLen <= cursor[tab] /\ Found(InOrder(Public \o Private), prefix) # <<>>
  /\ Becomes(Open(State, tab, text[tab], cursor[tab], startLen))
  /\ UNCHANGED <<tab, text, cursor>>

\* With complete = True; if a single word fits it is inserted, and a list is
\* shown only if there is something to complete after it.
CompleteText(startLen) ==
  LET prefix == Between(text[tab], cursor[tab] - startLen, cursor[tab])
      Completed(st, found, more) ==
        IF Len(found) = 1
        THEN Becomes(st) \/ Becomes(Open(st, tab, text'[tab], cursor'[tab], 0))
        ELSE Becomes(Open(st, tab, text'[tab], cursor'[tab], startLen + Len(more)))
      CompletedBy(found, more) ==
        /\ Insert(more)
        /\ Completed(IF more = <<>> THEN State ELSE Changed(State, tab, text'[tab], cursor'[tab]), found, more)
      Of(found) == found # <<>> /\ CompletedBy(found, Between(found[1], startLen, Common(found)))
  IN /\ startLen <= cursor[tab] /\ Of(Found(InOrder(Public \o Private), prefix))
     /\ UNCHANGED tab

\* complete that inserts the whole row after the prefix.
Complete_whole(w) ==
  /\ win.shown /\ w \in ToSet(win.rows)
  /\ Insert(w)
  /\ Becomes(Changed([State EXCEPT !.win = Hide(@)], tab, text'[tab], cursor'[tab]))
  /\ UNCHANGED tab

\* complete the selected row, and on_complete, which may find more to complete
\* after it.  The row is any: the arrow keys and the mouse select it.
Complete(w) ==
  /\ win.shown /\ w \in ToSet(win.rows)
  /\ Insert(Between(w, Len(win.prefix), Len(w)))
  /\ LET hidden == [State EXCEPT !.win = Hide(@)]
         Completed(st) == Becomes(st) \/ Becomes(Open(st, tab, text'[tab], cursor'[tab], 0))
     IN Completed(IF Len(w) = Len(win.prefix) THEN hidden ELSE Changed(hidden, tab, text'[tab], cursor'[tab]))
  /\ UNCHANGED tab

\* tab with more than one row: what they have in common is inserted, as it was
\* searched for.
TabKey ==
  /\ win.shown /\ Len(win.rows) > 1
  /\ LET more == Between(Key(win.rows[1]), Len(win.prefix), Common(win.rows)) IN
       /\ more # <<>> /\ Insert(more)
       /\ Becomes(Changed(Inserting(State, tab, cursor[tab]), tab, text'[tab], cursor'[tab]))
  /\ UNCHANGED tab

\* on_sv_changed: the after-hide handler stays with the old buffer.
SwitchTab(t) ==
  /\ t # tab /\ tab' = t
  /\ win' = Hide(win)
  /\ UNCHANGED <<text, cursor, handlers, raised>>

Next ==
  \/ \E ch \in Chars : Type(ch)
  \/ Backspace \/ Dismiss \/ TabKey
  \/ \E s \in Texts : SetText(s)
  \/ \E c \in 0 .. Len(text[tab]) : MoveCursor(c)
  \/ \E n \in 0 .. MaxText : ShowCompletions(n) \/ CompleteText(n)
  \/ \E w \in Words : Complete(w)
  \/ \E t \in Tabs : SwitchTab(t)

Spec == Init /\ [][Next]_vars
-----------------------------------------------------------------------------

\* A list that is shown has rows, for what stands between the mark and the
\* cursor of the current tab: some begin with it, and all that do and no others
\* are rows if the list is in order, which it is once the private words are in it.
RowsFitText ==
  win.shown =>
    /\ win.mark <= cursor[tab] /\ win.prefix = Between(text[tab], win.mark, cursor[tab])
    /\ Fitting(ToSet(win.rows), win.prefix) # {}
    /\ IsInOrder(win.list) => win.rows = SelectSeq(win.list, LAMBDA w : Fits(w, win.prefix))
    /\ win.showingPrivate => IsInOrder(win.list)

\* The keys go to the list exactly while it is shown, and then it listens to
\* the current tab's buffer.
KeysFollowList ==
  /\ win.blocked = ~win.shown
  /\ win.connected = IF win.shown THEN tab ELSE None

\* Completing a row that begins with what stands before the cursor makes of it
\* that completion, and leaves the rest of the text as it was.
CompletesWord ==
  [][\A w \in ToSet(win.rows) : Fits(w, win.prefix) /\ Complete(w) =>
       /\ Key(Between(text'[tab], win.mark, cursor'[tab])) = Key(w)
       /\ SubSeq(text'[tab], 1, win.mark) = SubSeq(text[tab], 1, win.mark)
       /\ SubSeq(text'[tab], cursor'[tab] + 1, Len(text'[tab]))
            = SubSeq(text[tab], cursor[tab] + 1, Len(text[tab]))]_vars

\* The character that is typed closes the list exactly if no completion that was
\* offered, public or private, begins with what is then before the cursor,
\* whatever the order of the list.
ClosesWithNone ==
  [][\A ch \in Chars : win.shown /\ handlers = <<>> /\ Type(ch) =>
       win'.shown = (Fitting(ToSet(win.list \o win.private), Append(win.prefix, ch)) # {})]_vars

\* 'If it is deleted, this method opens the list again': the backspace after a
\* character that closed the list shows the rows that were there before it, if
\* the text is all ASCII.
ReopensList ==
  [][\A h \in ToSet(handlers) :
         /\ h.isField /\ h.tab = tab /\ h.at = cursor[tab] /\ h.rows # <<>> /\ Backspace
         /\ ToSet(text'[tab]) \cap NonAscii = {}
       => win'.shown /\ win'.rows = h.rows]_vars
=============================================================================
