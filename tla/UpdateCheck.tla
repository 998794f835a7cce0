------------------------------ MODULE UpdateCheck ------------------------------
(***************************************************************************)
(* update_check.py, and what bug_report.py tells of it: a daemon thread    *)
(* asks the server for the latest release or commit, writes what it learns *)
(* into globals one after the other, and if there is an update has the     *)
(* main loop tell the user.  Meanwhile the user may open the bug report,   *)
(* which reads the globals, or quit.                                       *)
(***************************************************************************)
EXTENDS Integers

CONSTANTS
  Times,  \* of releases and commits
  Unset   \* None: as Python 2 compares it, less than every number

\* All that the theorems ask of the constants.
ConstantsFit == Times \subseteq Int /\ Unset \notin Times

VARIABLES
  thread,    \* where update_check_in_thread is
  is_git, cur_time,
  latest,    \* the time of what the server has
  _is_git, _latest_name, _latest_time, _cur_time,  \* the globals of bug_report.py
  idle,      \* is on_update_available waiting for the main loop
  running,   \* the main loop
  status,    \* has the status bar told of the update
  menu,      \* does the Help menu have Get New Version
  report     \* what the bug report says: "none", "pull", "download", "clone", or not opened

globals == <<_is_git, _latest_name, _latest_time, _cur_time>>
shown == <<status, menu, report>>
vars == <<thread, is_git, cur_time, latest, globals, idle, running, shown>>

\* get_commit_details() gives a time, or DreamPie is a release.
Init ==
  /\ thread = "fetch" /\ is_git \in BOOLEAN /\ cur_time \in Times /\ latest \in Times
  /\ _is_git = FALSE /\ _latest_name = FALSE /\ _latest_time = Unset /\ _cur_time = Unset
  /\ idle = FALSE /\ running = TRUE
  /\ status = FALSE /\ menu = FALSE /\ report = "closed"

\* The server is not there, or its answer is no use.
FetchFails ==
  /\ thread = "fetch" /\ thread' = "ended"
  /\ UNCHANGED <<is_git, cur_time, latest, globals, idle, running, shown>>

Fetched ==
  /\ thread = "fetch" /\ thread' = "_is_git"
  /\ UNCHANGED <<is_git, cur_time, latest, globals, idle, running, shown>>

\* A release or a commit comes out while the server is asked.
Released ==
  /\ thread = "fetch" /\ latest' \in {t \in Times : t > latest}
  /\ UNCHANGED <<thread, is_git, cur_time, globals, idle, running, shown>>

\* set_update_info: four assignments.
SetIsGit ==
  /\ thread = "_is_git" /\ thread' = "_latest_name"
  /\ _is_git' = is_git
  /\ UNCHANGED <<is_git, cur_time, latest, _latest_name, _latest_time, _cur_time, idle, running, shown>>

SetLatestName ==
  /\ thread = "_latest_name" /\ thread' = "_latest_time"
  /\ _latest_name' = ~is_git
  /\ UNCHANGED <<is_git, cur_time, latest, _is_git, _latest_time, _cur_time, idle, running, shown>>

SetLatestTime ==
  /\ thread = "_latest_time" /\ thread' = "_cur_time"
  /\ _latest_time' = latest
  /\ UNCHANGED <<is_git, cur_time, latest, _is_git, _latest_name, _cur_time, idle, running, shown>>

SetCurTime ==
  /\ thread = "_cur_time" /\ thread' = "compare"
  /\ _cur_time' = cur_time
  /\ UNCHANGED <<is_git, cur_time, latest, _is_git, _latest_name, _latest_time, idle, running, shown>>

\* Mutations of the definitions that follow, each the mark of a plausible slip
\* in the code, have an underscore and a word at the end of their names and are
\* used by no other definition: TLC refutes a property with each of them.

\* The update is told of in the thread.
Compare_call ==
  /\ thread = "compare" /\ thread' = "ended"
  /\ status' = (latest > cur_time) /\ menu' = (latest > cur_time /\ ~is_git)
  /\ UNCHANGED <<is_git, cur_time, latest, globals, idle, running, report>>

\* The comparison is the other way round.
Compare_less ==
  /\ thread = "compare" /\ thread' = "ended"
  /\ idle' = (latest < cur_time)
  /\ UNCHANGED <<is_git, cur_time, latest, globals, running, shown>>

\* "Call in main thread"
Compare ==
  /\ thread = "compare" /\ thread' = "ended"
  /\ idle' = (latest > cur_time)
  /\ UNCHANGED <<is_git, cur_time, latest, globals, running, shown>>

on_update_available ==
  /\ idle /\ running /\ idle' = FALSE
  /\ status' = TRUE /\ menu' = ~is_git
  /\ UNCHANGED <<thread, is_git, cur_time, latest, globals, running, report>>

\* Without the comparison for a commit that is the latest.
get_update_message_pull ==
  CASE _latest_time = Unset -> "none"
    [] _latest_time # Unset /\ _latest_time > _cur_time /\ _is_git -> "pull"
    [] _latest_time # Unset /\ _latest_time > _cur_time /\ ~_is_git -> "download"
    [] OTHER -> "clone"

get_update_message ==
  CASE _latest_time = Unset -> "none"
    [] _latest_time # Unset /\ _latest_time <= _cur_time /\ _is_git -> "none"
    [] _latest_time # Unset /\ _latest_time > _cur_time /\ _is_git -> "pull"
    [] _latest_time # Unset /\ _latest_time > _cur_time /\ ~_is_git -> "download"
    [] OTHER -> "clone"

BugReport ==
  /\ running /\ report = "closed" /\ report' = get_update_message
  /\ UNCHANGED <<thread, is_git, cur_time, latest, globals, idle, running, status, menu>>

CloseReport ==
  /\ running /\ report # "closed" /\ report' = "closed"
  /\ UNCHANGED <<thread, is_git, cur_time, latest, globals, idle, running, status, menu>>

\* The thread is a daemon: it ends with the main loop, between any two steps.
Quit ==
  /\ running /\ running' = FALSE /\ thread' \in {thread, "ended"}
  /\ report' = "closed"
  /\ UNCHANGED <<is_git, cur_time, latest, globals, idle, status, menu>>

Next ==
  \/ Fetched \/ FetchFails \/ Released
  \/ SetIsGit \/ SetLatestName \/ SetLatestTime \/ SetCurTime \/ Compare
  \/ on_update_available \/ BugReport \/ CloseReport \/ Quit

\* The thread and the main loop go on; the server answers in the end, or not.
Fairness ==
  /\ WF_vars(SetIsGit \/ SetLatestName \/ SetLatestTime \/ SetCurTime \/ Compare)
  /\ WF_vars(on_update_available)

Spec == Init /\ [][Next]_vars /\ Fairness

-------------------------------------------------------------------------------
\* The user is told of an update only if there is one, by the main loop, and the
\* menu is for releases.
NoticeIsTrue ==
  /\ status => latest > cur_time
  /\ menu => status /\ ~is_git

\* The notice comes from the main loop, never after it has ended.
NoticeInMainLoop == [][status' # status \/ menu' # menu => running /\ thread' = thread]_vars

\* Once the thread has what it knows in the globals, the bug report that is opened
\* says how DreamPie stands.
ReportIsRight ==
  [][thread = "compare" /\ report = "closed" /\ report' # "closed" =>
       report' = IF latest > cur_time
                 THEN IF is_git THEN "pull" ELSE "download"
                 ELSE IF is_git THEN "none" ELSE "clone"]_vars

\* "If so, on_update_available(is_git, latest_name, latest_time) will be called"
\* (update_check): when the server has answered and DreamPie goes on.
UpdateIsTold == thread = "_is_git" /\ latest > cur_time ~> status \/ ~running
===============================================================================
