------------------------------- MODULE Folding --------------------------------
(***************************************************************************)
(* Folding of output and code sections (gui/folding.py) together with what *)
(* changes the sections under it: code that is executed, output, typed     *)
(* input, input that comes back unread, discarded history                  *)
(* (gui/__init__.py).  A section is counted in lines; a folded one has a   *)
(* message after it that tells how many of them are hidden.                *)
(***************************************************************************)
EXTENDS Integers, Sequences

CONSTANTS
  MaxLines,     \* bound on the lines of a section
  MaxSections,  \* bound on the number of sections
  NumLines      \* autofold-numlines

\* All that the theorems ask of the constants.
ConstantsFit == MaxLines \in Nat /\ MaxSections \in Nat /\ NumLines \in Nat \ {0}

VARIABLES
  sections,       \* the sections of the text buffer, from the top
  lastUnfolded,   \* the section that last_unfolded_mark is at the start of, 0 if none
  executing,      \* is_executing
  userUnfolded,   \* the sections that the user unfolded, for the properties
  stale           \* those that input was taken back from under their messages, likewise

vars == <<sections, lastUnfolded, executing, userUnfolded, stale>>

\* typ is that of the tag; typed counts the lines of input within the section;
\* told is the number of lines in the fold message, 0 if there is no message.
Section(typ, lines) == [typ |-> typ, lines |-> lines, typed |-> 0, folded |-> FALSE, told |-> 0]

Folded(s) == s.folded

\* get_section_status(): too short to fold is neither folded nor unfolded.
Foldable(s) == ~s.folded /\ s.lines > 1

TypeOK ==
  /\ sections \in Seq([typ : {"output", "command"}, lines : 0 .. MaxLines, typed : 0 .. MaxLines,
                       folded : BOOLEAN, told : 0 .. MaxLines])
  /\ lastUnfolded \in 0 .. Len(sections) /\ userUnfolded \cup stale \subseteq DOMAIN sections
  /\ executing \in BOOLEAN

Init ==
  /\ sections = << Section("output", 0) >> /\ lastUnfolded = 0
  /\ executing = FALSE /\ userUnfolded = {} /\ stale = {}

\* Mutations of the definitions that follow, each the mark of a plausible slip
\* in the code, have an underscore in their names and are used by no other
\* definition: TLC refutes a property with each of them.

\* fold(): what is not on the first line is hidden, and counted in the message.
Fold(s) == [s EXCEPT !.folded = TRUE, !.told = s.lines - 1]

Unfold(s) == [s EXCEPT !.folded = FALSE, !.told = 0]

\* The mark follows each section that is unfolded.
MarkAfterUnfold_last(i) == i

\* unfold() moves the mark down only.
MarkAfterUnfold(i) == IF i > lastUnfolded THEN i ELSE lastUnfolded

\* A folded section stays as it is.
Autofold_once(ss, i) ==
  IF ss[i].folded \/ i = lastUnfolded \/ ss[i].lines < NumLines
  THEN sections' = ss /\ UNCHANGED lastUnfolded
  ELSE sections' = [ss EXCEPT ![i] = Fold(@)] /\ UNCHANGED lastUnfolded

\* A section of just as many lines is not folded.
Autofold_more(ss, i) ==
  \/ ss[i].folded /\ sections' = [ss EXCEPT ![i] = Fold(Unfold(@))] /\ lastUnfolded' = MarkAfterUnfold(i)
  \/ ~ss[i].folded /\ i # lastUnfolded /\ ss[i].lines > NumLines
     /\ sections' = [ss EXCEPT ![i] = Fold(@)] /\ UNCHANGED lastUnfolded
  \/ ~ss[i].folded /\ (i = lastUnfolded \/ ss[i].lines <= NumLines)
     /\ sections' = ss /\ UNCHANGED lastUnfolded

\* The mark is not looked at.
Autofold_always(ss, i) ==
  \/ ss[i].folded /\ sections' = [ss EXCEPT ![i] = Fold(Unfold(@))] /\ lastUnfolded' = MarkAfterUnfold(i)
  \/ ~ss[i].folded /\ ss[i].lines >= NumLines
     /\ sections' = [ss EXCEPT ![i] = Fold(@)] /\ UNCHANGED lastUnfolded
  \/ ~ss[i].folded /\ ss[i].lines < NumLines /\ sections' = ss /\ UNCHANGED lastUnfolded

\* autofold(), for the section that was just written.
Autofold(ss, i) ==
  \/ /\ ss[i].folded
     /\ sections' = [ss EXCEPT ![i] = Fold(Unfold(@))] /\ lastUnfolded' = MarkAfterUnfold(i)
  \/ /\ ~ss[i].folded /\ i # lastUnfolded /\ ss[i].lines >= NumLines
     /\ sections' = [ss EXCEPT ![i] = Fold(@)] /\ UNCHANGED lastUnfolded
  \/ /\ ~ss[i].folded /\ (i = lastUnfolded \/ ss[i].lines < NumLines)
     /\ sections' = ss /\ UNCHANGED lastUnfolded

\* execute_source(): the code, then a new section for its output.
Execute ==
  /\ ~executing /\ executing' = TRUE
  /\ Len(sections) + 2 <= MaxSections
  /\ \E n \in 1 .. MaxLines :
       sections' = sections \o << Section("command", n), Section("output", 0) >>
  /\ UNCHANGED <<lastUnfolded, userUnfolded, stale>>

\* write_output(): the output mark is in the last section.  Lines are added, or
\* the last one is overwritten.  A thread may write after the result came.
WriteOutput ==
  LET i == Len(sections)
  IN  /\ \E n \in 0 .. MaxLines - sections[i].lines :
           /\ sections[i].lines + n > 0
           /\ Autofold([sections EXCEPT ![i].lines = @ + n], i)
      /\ stale' = stale \ {i}
      /\ UNCHANGED <<executing, userUnfolded>>

\* send_stdin(): what is typed ends the section.
SendStdin ==
  LET i == Len(sections)
  IN  /\ executing /\ Len(sections) < MaxSections
      /\ \E n \in 1 .. MaxLines - sections[i].lines :
           Autofold(Append([sections EXCEPT ![i] = [sections[i] EXCEPT !.lines = @ + n, !.typed = n]],
                         Section("output", 0)), i)
      /\ stale' = stale \ {i}
      /\ UNCHANGED <<executing, userUnfolded>>

\* How many lines can be deleted from each section: of what was typed in this run, the
\* lines from some place on, which were not read.
TakenBack ==
  {taken \in [DOMAIN sections -> 0 .. MaxLines] :
     \A i \in DOMAIN sections :
       /\ taken[i] <= sections[i].typed
       /\ taken[i] > 0 =>
            /\ \A j \in i .. Len(sections) : sections[j].typ = "output"
            /\ \A j \in i + 1 .. Len(sections) : taken[j] = sections[j].typed}

\* on_object_recv and handle_rem_stdin: what was typed last and not read is
\* deleted from the sections, with no look at their messages.
Finish ==
  /\ executing /\ executing' = FALSE
  /\ \E taken \in TakenBack :
       /\ sections' = [i \in DOMAIN sections |->
                         [sections[i] EXCEPT !.lines = @ - taken[i], !.typed = @ - taken[i]]]
       /\ stale' = stale \cup {i \in DOMAIN sections : sections[i].folded /\ taken[i] > 0}
  /\ UNCHANGED <<lastUnfolded, userUnfolded>>

\* The user folds the section i, from its menu or as the last one.
FoldSection(i) ==
  /\ sections' = [sections EXCEPT ![i] = Fold(@)]
  /\ userUnfolded' = userUnfolded \ {i} /\ stale' = stale \ {i}
  /\ UNCHANGED <<lastUnfolded, executing>>

\* The user unfolds it, by a double-click too.
UnfoldSection(i) ==
  /\ sections' = [sections EXCEPT ![i] = Unfold(@)]
  /\ lastUnfolded' = MarkAfterUnfold(i)
  /\ userUnfolded' = userUnfolded \cup {i} /\ stale' = stale \ {i}
  /\ UNCHANGED executing

\* on_section_menu_activate, on_double_click: a section with no text is not found.
ClickSection ==
  \E i \in DOMAIN sections :
    \/ Foldable(sections[i]) /\ FoldSection(i)
    \/ Folded(sections[i]) /\ sections[i].lines > 0 /\ UnfoldSection(i)

\* The search goes up from the end of the buffer.
IsLast(i, S) == i \in S /\ \A j \in S : j <= i

\* fold_last()
FoldLast ==
  \E i \in DOMAIN sections :
    /\ IsLast(i, {j \in DOMAIN sections : sections[j].typ = "output" /\ Foldable(sections[j])})
    /\ FoldSection(i)

\* unfold_last()
UnfoldLast ==
  \E i \in DOMAIN sections :
    /\ IsLast(i, {j \in DOMAIN sections :
                    sections[j].typ = "output" /\ Folded(sections[j]) /\ sections[j].lines > 0})
    /\ UnfoldSection(i)

\* on_discard_history, of all the history; last_unfolded_mark comes to the start
\* of the buffer, where a message is.
Discard ==
  /\ ~executing
  /\ sections' = << Section("output", 0) >> /\ lastUnfolded' = 0
  /\ userUnfolded' = {} /\ stale' = {}
  /\ UNCHANGED executing

Next ==
  \/ Execute \/ WriteOutput \/ SendStdin \/ Finish
  \/ ClickSection \/ FoldLast \/ UnfoldLast \/ Discard

Spec == Init /\ [][Next]_vars

-------------------------------------------------------------------------------
\* The message after a folded section tells how many lines the user does not see,
\* also when the section goes on growing under it; it is only input that the code left
\* unread that is taken away without a look at the message.
MessageIsTrue ==
  \A i \in DOMAIN sections \ stale :
    sections[i].told = IF sections[i].folded THEN sections[i].lines - 1 ELSE 0

\* "If there are enough lines in an output section, it gets automatically
\* collapsed" (tags.py): one that is not was unfolded by the user.
LongIsFolded ==
  \A i \in DOMAIN sections :
    (sections[i].typ = "output" /\ sections[i].lines >= NumLines)
      => (sections[i].folded \/ i \in userUnfolded)

\* A section that the user unfolded is never folded by the program, whatever is
\* written to it and whatever was unfolded in the meantime: one mark is enough.
UnfoldedStays == \A i \in userUnfolded : ~sections[i].folded
===============================================================================
