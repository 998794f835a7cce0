--------------------------------- MODULE Tabs ----------------------------------
(***************************************************************************)
(* The pages of the notebook, each with a source view, and the parts of    *)
(* the program that work on the source view of the current page: they      *)
(* learn of a change from the functions in sv_changed, called in turn.     *)
(* GTK's notebook is modelled by what it does: positions count from 0.     *)
(***************************************************************************)
EXTENDS Integers, Sequences, SequencesExt

CONSTANTS
  Helpers,   \* the parts that have a function in sv_changed
  Texts,     \* what may be typed
  None,
  MaxPages   \* bound on the pages opened in a run

\* All that the theorems ask of the constants.
ConstantsFit ==
  "DreamPie" \in Helpers /\ "" \in Texts /\ None \notin Nat /\ MaxPages \in Nat \ {0}

VARIABLES
  pages,            \* the source views in the order of their tabs
  current,          \* the position of the current page
  text,             \* what is in each source view that was ever made
  sourceview,       \* the source view that each helper works on
  show_tabs,
  reopen_tab_data,  \* position and text of the tab that can be reopened
  sensitive,        \* menuitem_reopen_tab
  opener,           \* the page whose Ctrl-T made the current one, with no other
                    \* step between tabs since
  before            \* the tabs before the last one with text was closed

vars == <<pages, current, text, sourceview, show_tabs, reopen_tab_data, sensitive, opener, before>>

NoTab == [index |-> None, text |-> None]

Page(i) == pages[i + 1]

\* __init__: one page.
Init ==
  /\ pages = <<1>> /\ current = 0 /\ text = << "" >>
  /\ sourceview = [h \in Helpers |-> 1]
  /\ show_tabs = FALSE /\ reopen_tab_data = NoTab /\ sensitive = FALSE /\ opener = None /\ before = <<>>

\* Mutations of the definitions that follow, each the mark of a plausible slip
\* in the code, have an underscore in their names and are used by no other
\* definition: TLC refutes a property with each of them.

\* The function gets the position in the notebook as it was.
SwitchPage_late(order, i) ==
  /\ current' = i
  /\ sourceview' = [h \in Helpers |-> IF i + 1 \in DOMAIN pages THEN pages[i + 1] ELSE pages[1]]

\* on_notebook_switch_page: every helper gets the new source view.
SwitchPage(order, i) ==
  /\ current' = i
  /\ sourceview' = [h \in Helpers |-> order[i + 1]]

\* Typing, or running what was typed.
Edit(t) ==
  /\ text' = [text EXCEPT ![sourceview["DreamPie"]] = t]
  /\ UNCHANGED <<pages, current, sourceview, show_tabs, reopen_tab_data, sensitive, opener, before>>

\* create_sourcebufferview: the page is inserted and made current.
CreateSourcebufferview(index, t) ==
  LET order == InsertAt(pages, index + 1, Len(text) + 1)
  IN  /\ Len(text) < MaxPages
      /\ pages' = order
      /\ text' = Append(text, t)
      /\ SwitchPage(order, index)

\* The old data stay.
NewTab_reopen ==
  /\ CreateSourcebufferview(current + 1, "")
  /\ show_tabs' = TRUE
  /\ opener' = Page(current)
  /\ UNCHANGED <<reopen_tab_data, sensitive, before>>

\* new_tab
NewTab ==
  /\ CreateSourcebufferview(current + 1, "")
  /\ show_tabs' = TRUE
  /\ reopen_tab_data' = NoTab /\ sensitive' = FALSE
  /\ opener' = Page(current)
  /\ UNCHANGED before

\* on_reopen_tab: new_tab, and the text set.
ReopenTab ==
  /\ sensitive
  /\ CreateSourcebufferview(reopen_tab_data.index, reopen_tab_data.text)
  /\ show_tabs' = TRUE
  /\ reopen_tab_data' = NoTab /\ sensitive' = FALSE
  /\ opener' = None
  /\ UNCHANGED before

\* The tab to the right becomes current.
NewPage_right == IF current < Len(pages) - 1 THEN current + 1 ELSE current - 1

\* The page that is shown after the current one is closed.
NewPage == IF current > 0 THEN current - 1 ELSE 1

\* Tabs stay shown when one page is left.
CloseTab_shown ==
  LET t == text[sourceview["DreamPie"]]
      i == NewPage
  IN  /\ Len(pages) > 1
      /\ reopen_tab_data' = IF t # "" THEN [index |-> current, text |-> t] ELSE NoTab
      /\ sensitive' = (t # "")
      /\ pages' = RemoveAt(pages, current + 1)
      /\ current' = IF current < i THEN i - 1 ELSE i
      /\ sourceview' = [h \in Helpers |-> Page(i)]
      /\ show_tabs' = show_tabs
      /\ opener' = None
      /\ before' = IF t # "" THEN [tabs |-> pages, at |-> current, text |-> t] ELSE <<>>
      /\ UNCHANGED text

\* close_current_tab: another page is shown, then the page is removed, and the
\* positions after it move.
CloseTab ==
  LET t == text[sourceview["DreamPie"]]
      i == NewPage
  IN  /\ Len(pages) > 1
      /\ reopen_tab_data' = IF t # "" THEN [index |-> current, text |-> t] ELSE NoTab
      /\ sensitive' = (t # "")
      /\ pages' = RemoveAt(pages, current + 1)
      /\ current' = IF current < i THEN i - 1 ELSE i
      /\ sourceview' = [h \in Helpers |-> Page(i)]
      /\ show_tabs' = IF Len(pages') = 1 THEN FALSE ELSE show_tabs
      /\ opener' = None
      /\ before' = IF t # "" THEN [tabs |-> pages, at |-> current, text |-> t] ELSE <<>>
      /\ UNCHANGED text

\* on_prev_tab, on_next_tab or a click on a tab.
Switch(i) ==
  /\ i \in 0 .. Len(pages) - 1 /\ i # current
  /\ SwitchPage(pages, i)
  /\ opener' = None
  /\ UNCHANGED <<pages, text, show_tabs, reopen_tab_data, sensitive, before>>

Next ==
  \/ \E t \in Texts : Edit(t)
  \/ NewTab \/ ReopenTab \/ CloseTab
  \/ \E i \in 0 .. MaxPages - 1 : Switch(i)

Spec == Init /\ [][Next]_vars

-------------------------------------------------------------------------------
TypeOK ==
  /\ Len(text) <= MaxPages /\ \A v \in DOMAIN text : text[v] \in Texts
  /\ IsInjective(pages) /\ \A i \in DOMAIN pages : pages[i] \in DOMAIN text
  /\ current \in 0 .. Len(pages) - 1
  /\ show_tabs = (Len(pages) > 1)
  /\ sensitive => reopen_tab_data.index \in 0 .. Len(pages)

\* Every part of the program works on the source view that the user sees:
\* "assert self.sourceview is not scrolledwin.get_child()" in close_current_tab
\* can not fail, and no part is left with a view that was closed.
HelpersAgree == \A h \in Helpers : sourceview[h] = Page(current)

\* "Just press Ctrl-T, run the import, and press Ctrl-W to close the temporary
\* tab": the user is back where Ctrl-T was pressed.
TemporaryTabReturns ==
  [][CloseTab /\ opener # None => pages'[current' + 1] = opener]_vars

\* A tab is reopened where it was, among the tabs it was among, with the text
\* that it had, whatever the user did since it was closed.
ReopenedInPlace ==
  [][ReopenTab => /\ current' = before.at
                  /\ pages' = [before.tabs EXCEPT ![current' + 1] = pages'[current' + 1]]
                  /\ text'[pages'[current' + 1]] = before.text]_vars
===============================================================================
