----------------------------- MODULE HistPersist ------------------------------
(***************************************************************************)
(* Saving, loading and discarding the session's history, and quitting with *)
(* it unsaved: gui/hist_persist.py, the dialogs of gui/file_dialogs.py and *)
(* DreamPie.quit and on_discard_history.  A history is the set of its      *)
(* items; output goes on coming while a dialog is open.  The process may   *)
(* die at any time, within a save too.                                     *)
(***************************************************************************)
EXTENDS Integers

CONSTANTS
  Files,         \* file names
  InitialFiles,  \* what they may hold when the first session begins
  Absent,        \* the file does not exist
  None,          \* no file name
  MaxItems       \* bound on the items; the last is written in no session

Items == 1 .. MaxItems

\* What a file may hold: a history, perhaps cut short; nothing with a <body>; a
\* page without the "DreamPie Format" meta tag; a history with markup that
\* Parser refuses.
Kinds == {"history", "nobody", "alien", "broken"}
File(k, s) == [kind |-> k, items |-> s]
Contents == {c \in [kind : Kinds, items : SUBSET Items] : c.kind \in {"nobody", "alien"} => c.items = {}}

\* All that the theorems ask of the constants.
ConstantsFit ==
  /\ None \notin Files /\ MaxItems \in Nat \ {0}
  /\ InitialFiles \subseteq [Files -> Contents \cup {Absent}]

VARIABLES
  pc,         \* "main", the dialog that is open, "gone" after quit, "dead"
  target,     \* the file chosen in the save dialog
  fromQuit,   \* was the save dialog opened by quit()
  hist,       \* the items of the text view
  modified,   \* the text buffer's modified flag
  filename,
  title,      \* the file name and the star of the window's title
  files,
  askOnQuit,  \* the option ask-on-quit
  nextItem,   \* the next item to be written
  failed      \* did a write fail since the last save, for the properties

editVars == <<hist, modified, filename, title, nextItem>>
vars == <<pc, target, fromQuit, files, askOnQuit, failed, editVars>>

Dialogs == {"saveChooser", "replace", "openChooser", "discard", "quit"}

TypeOK ==
  /\ pc \in {"main", "gone", "dead"} \cup Dialogs
  /\ target \in Files \cup {None} /\ fromQuit \in BOOLEAN
  /\ hist \subseteq Items /\ nextItem \in 1 .. MaxItems
  /\ modified \in BOOLEAN /\ askOnQuit \in BOOLEAN
  /\ filename \in Files \cup {None}
  /\ title \in [name : Files \cup {None}, star : BOOLEAN]
  /\ files \in [Files -> Contents \cup {Absent}]
  /\ failed \in BOOLEAN

\* update_title
Title(fn, mod) == [name |-> fn, star |-> mod /\ fn # None]

\* A session begins with its welcome text, which counts as a modification.
Init ==
  /\ pc = "main" /\ target = None /\ fromQuit = FALSE
  /\ hist = {} /\ modified = TRUE
  /\ filename = None /\ title = Title(None, FALSE)
  /\ files \in InitialFiles /\ askOnQuit = TRUE /\ nextItem = 1 /\ failed = FALSE

\* Mutations of the definitions that follow, each the mark of a plausible slip
\* in the code, have an underscore in their names and are used by no other
\* definition: TLC refutes a property with each of them.

\* A change of the modified flag that no title tells.
TitleAfter_silent(mod, fn) == title

\* The title after the modified flag became mod, with fn the file name then:
\* 'modified-changed' is signalled only if it changed.
TitleAfter(mod, fn) == IF mod # modified /\ fn # None THEN Title(fn, mod) ELSE title

\* Something is written to the text view.
Output ==
  /\ pc \notin {"gone", "dead"} /\ nextItem < MaxItems
  /\ hist' = hist \cup {nextItem} /\ nextItem' = nextItem + 1
  /\ modified' = TRUE /\ title' = TitleAfter(TRUE, filename)
  /\ UNCHANGED <<pc, target, fromQuit, filename, files, askOnQuit, failed>>

\* What a save that does not come to its end leaves of the file.
CutShort == {File("nobody", {})} \cup {File("history", s) : s \in SUBSET hist}

\* save_filename that renames the history before it has written it.
SaveFails_renamed(f) ==
  /\ \E c \in CutShort \cup {files[f]} : files' = [files EXCEPT ![f] = c]
  /\ failed' = TRUE
  /\ modified' = FALSE /\ filename' = f /\ title' = Title(f, FALSE)
  /\ UNCHANGED <<hist, nextItem>>

\* save_filename raises IOError, in open() or after it has emptied the file.
SaveFails(f) ==
  /\ \E c \in CutShort \cup {files[f]} : files' = [files EXCEPT ![f] = c]
  /\ failed' = TRUE
  /\ UNCHANGED editVars

\* save_filename that writes the items and no markup.
Saves_raw(f) ==
  /\ files' = [files EXCEPT ![f] = File("items", hist)] /\ failed' = FALSE
  /\ filename' = f
  /\ modified' = FALSE /\ title' = TitleAfter(FALSE, f)
  /\ UNCHANGED <<hist, nextItem>>

\* save_filename
Saves(f) ==
  /\ files' = [files EXCEPT ![f] = File("history", hist)] /\ failed' = FALSE
  /\ filename' = f
  /\ modified' = FALSE /\ title' = TitleAfter(FALSE, f)
  /\ UNCHANGED <<hist, nextItem>>

\* HistPersist.save with a file name.
Save ==
  /\ pc = "main" /\ filename # None
  /\ Saves(filename) \/ SaveFails(filename)
  /\ UNCHANGED <<pc, target, fromQuit, askOnQuit>>

\* HistPersist.save without one, and save_as: the dialog is shown.
SaveAs ==
  /\ pc = "main"
  /\ pc' = "saveChooser" /\ fromQuit' = FALSE
  /\ UNCHANGED <<target, files, askOnQuit, failed, editVars>>

\* save_filename called by save_dialog: an IOError gives another chance, and
\* a save that quit() asked for is followed by the end.
DialogSaves(f) ==
  \/ Saves(f) /\ pc' = (IF fromQuit THEN "gone" ELSE "main") /\ fromQuit' = FALSE
  \/ SaveFails(f) /\ pc' = "saveChooser" /\ UNCHANGED fromQuit

ChooseNew(f) ==
  /\ pc = "saveChooser" /\ files[f] = Absent
  /\ DialogSaves(f)
  /\ UNCHANGED <<target, askOnQuit>>

\* The file exists: 'Do you want to replace it?'
ChooseExisting(f) ==
  /\ pc = "saveChooser" /\ files[f] # Absent
  /\ pc' = "replace" /\ target' = f
  /\ UNCHANGED <<fromQuit, files, askOnQuit, failed, editVars>>

Replace ==
  /\ pc = "replace"
  /\ DialogSaves(target) /\ target' = None
  /\ UNCHANGED askOnQuit

\* Escape or the window's close button gives RESPONSE_DELETE_EVENT, and only
\* RESPONSE_CANCEL is taken for a no.
CloseQuestion ==
  /\ pc = "replace"
  /\ DialogSaves(target) /\ target' = None
  /\ UNCHANGED askOnQuit

DontReplace ==
  /\ pc = "replace" /\ pc' = "saveChooser" /\ target' = None
  /\ UNCHANGED <<fromQuit, files, askOnQuit, failed, editVars>>

CancelDialog ==
  /\ pc \in {"saveChooser", "openChooser", "discard", "quit"} /\ pc' = "main"
  /\ fromQuit' = FALSE
  /\ UNCHANGED <<target, files, askOnQuit, failed, editVars>>

\* Parser inserts items of a file before the session's, which leaves the
\* history as if it were saved.
Inserted_unmodified(s) == hist' = hist \cup s /\ modified' = FALSE

\* Parser inserts items of a file before the session's.
Inserted(s) == hist' = hist \cup s /\ modified' = (modified \/ s # {})

\* What Parser inserts of a file: it may refuse it at any place.
Parsed(c) == IF c.kind = "broken" THEN SUBSET c.items ELSE {c.items}

\* load_filename that takes the name before the file is parsed.
Loads_nameFirst(f) ==
  /\ files[f] # Absent
  /\ \E s \in Parsed(files[f]) : Inserted(s)
  /\ filename' = f /\ title' = Title(f, modified')
  /\ UNCHANGED nextItem

\* load_filename.  A LoadError leaves what was inserted, and the old name.
Loads(f) ==
  /\ files[f] # Absent
  /\ \E s \in Parsed(files[f]) : Inserted(s)
  /\ IF files[f].kind \in {"history", "nobody"}
       THEN filename' = f /\ title' = Title(f, modified')
       ELSE filename' = filename /\ title' = TitleAfter(modified', filename)
  /\ UNCHANGED nextItem

Load ==
  /\ pc = "main" /\ pc' = "openChooser"
  /\ UNCHANGED <<target, fromQuit, files, askOnQuit, failed, editVars>>

\* A file is chosen in the dialog or in the list of recent files.
LoadFile(f) ==
  /\ pc \in {"main", "openChooser"} /\ pc' = "main"
  /\ Loads(f)
  /\ UNCHANGED <<target, fromQuit, files, askOnQuit, failed>>

AskDiscard ==
  /\ pc = "main" /\ pc' = "discard"
  /\ UNCHANGED <<target, fromQuit, files, askOnQuit, failed, editVars>>

\* on_discard_history that keeps the file name.
Discard_keepsName(gone, marked) ==
  /\ pc = "discard" /\ pc' = "main"
  /\ hist' = hist \ gone /\ modified' = (modified \/ marked \/ gone # {}) /\ title' = TitleAfter(modified', filename)
  /\ UNCHANGED <<target, fromQuit, filename, files, askOnQuit, failed, nextItem>>

\* on_discard_history: the items before the last command, or before the last
\* session, go; in the first case a line is inserted that says so.
Discard(gone, marked) ==
  /\ pc = "discard" /\ pc' = "main"
  /\ hist' = hist \ gone
  /\ modified' = (modified \/ marked \/ gone # {})
  /\ filename' = None /\ title' = Title(None, FALSE)
  /\ UNCHANGED <<target, fromQuit, files, askOnQuit, failed, nextItem>>

\* quit that asks only if the history was never saved.
Quit_unsaved ==
  /\ pc = "main"
  /\ pc' = IF modified /\ filename = None /\ askOnQuit THEN "quit" ELSE "gone"
  /\ UNCHANGED <<target, fromQuit, files, askOnQuit, failed, editVars>>

\* quit
Quit ==
  /\ pc = "main"
  /\ pc' = IF modified /\ (filename # None \/ askOnQuit) THEN "quit" ELSE "gone"
  /\ UNCHANGED <<target, fromQuit, files, askOnQuit, failed, editVars>>

\* 'Close without saving', perhaps with 'Don't ask me again' if it was never
\* saved.
QuitDiscards ==
  /\ pc = "quit" /\ pc' = "gone"
  /\ askOnQuit' \in {askOnQuit, askOnQuit /\ filename # None}
  /\ UNCHANGED <<target, fromQuit, files, failed, editVars>>

\* 'Save': an IOError of a save without a dialog ends quit().
QuitSaves ==
  /\ pc = "quit" /\ filename # None
  /\ \/ Saves(filename) /\ pc' = "gone"
     \/ SaveFails(filename) /\ pc' = "main"
  /\ UNCHANGED <<target, fromQuit, askOnQuit>>

QuitSavesAs ==
  /\ pc = "quit" /\ filename = None
  /\ pc' = "saveChooser" /\ fromQuit' = TRUE
  /\ UNCHANGED <<target, files, askOnQuit, failed, editVars>>

\* The process is killed, the machine stops: within a save, or elsewhere.
Dies ==
  /\ pc # "gone" /\ pc' = "dead" /\ target' = None /\ fromQuit' = FALSE
  /\ \/ UNCHANGED files
     \/ \E c \in CutShort, f \in Files \cap {filename, target} :
          /\ pc \in {"main", "replace", "quit"} /\ f = IF pc = "replace" THEN target ELSE filename
          /\ files' = [files EXCEPT ![f] = c]
     \/ \E c \in CutShort, f \in Files :
          /\ pc = "saveChooser" /\ files[f] = Absent
          /\ files' = [files EXCEPT ![f] = c]
  /\ UNCHANGED <<askOnQuit, failed, editVars>>

\* DreamPie is started again: the files and the options are what was left.
Start ==
  /\ pc \in {"gone", "dead"} /\ pc' = "main"
  /\ hist' = {} /\ modified' = TRUE /\ filename' = None /\ title' = Title(None, FALSE)
  /\ UNCHANGED <<target, fromQuit, files, askOnQuit, failed, nextItem>>

UserActs ==
  \/ Save \/ SaveAs \/ Replace \/ CloseQuestion \/ DontReplace \/ CancelDialog \/ Load \/ AskDiscard
  \/ Quit \/ QuitDiscards \/ QuitSaves \/ QuitSavesAs
  \/ \E f \in Files : ChooseNew(f) \/ ChooseExisting(f) \/ LoadFile(f)
  \/ \E gone \in SUBSET hist, marked \in BOOLEAN : Discard(gone, marked)

Next == Output \/ UserActs \/ Dies \/ Start

Spec == Init /\ [][Next]_vars
-----------------------------------------------------------------------------
Holds(f) == IF files[f] = Absent THEN {} ELSE files[f].items

\* Some file holds the history as it is.
Saved == \E f \in Files : files[f] = File("history", hist)

\* A history that has a file name contains all that the file holds, also after
\* other files were loaded, failed loads and discards: saving it again, which
\* asks nothing, drops nothing.
FileInHistory == filename # None => Holds(filename) \subseteq hist

\* The title has a star exactly if the history has a file and differs from it.
StarTellsModified == title.star = (modified /\ filename # None)

\* A history that is not marked as modified is in a file, unless a write failed since it
\* was saved.
UnmodifiedIsSaved == ~modified /\ pc # "dead" /\ ~failed => Saved

\* 'If you don't save, your history will be lost': it is lost only if the user
\* closes without saving, or had said not to be asked and never saved it.
KeepsHistory == pc' = "gone" /\ ~QuitDiscards => Saved' \/ (filename = None /\ ~askOnQuit)

\* So it is, unless a write failed since the last save.
QuitKeepsHistory == [][failed' \/ KeepsHistory]_vars

\* A file changes only into the whole history that is shown, or, when the save
\* is cut short, into something with none but its items.
FilesHoldParts ==
  [][\A f \in Files : files'[f] # files[f] =>
       \/ files'[f] = File("history", hist)
       \/ files'[f] \in CutShort /\ (pc' = "dead" \/ modified' = modified)]_vars
=============================================================================
