------------------------------ MODULE RpcSession ------------------------------
(***************************************************************************)
(* The RPC session between DreamPie's GUI process and the Python           *)
(* subprocess that runs the user's code.                                   *)
(*                                                                         *)
(* The GUI side is the class DreamPie (gui/__init__.py) and the            *)
(* SubprocessHandler it owns: a single-threaded GTK main loop whose        *)
(* handlers make blocking and half-second RPC calls, and a 10 ms poller    *)
(* (_manage_subp) that notices a dead subprocess and takes the objects     *)
(* that arrive while no call is in progress.  The subprocess side is       *)
(* Subprocess.loop (subprocess/__init__.py): one request at a time, with   *)
(* GUI callbacks of the user's program ("idle jobs") in between.  The two  *)
(* share nothing but a socket, here one FIFO in each direction.            *)
(*                                                                         *)
(* A request is the name of the function called and a reply is the name of *)
(* the function it answers; execute has two, exec_ok (or exec_bad, or none *)
(* when compiling raised) and, after exec_ok, the result of the run.       *)
(***************************************************************************)
EXTENDS Naturals, Sequences

CONSTANT MaxUnclaimed  \* no new half-second call once this many are unclaimed

ASSUME MaxUnclaimedAssumption == MaxUnclaimed \in Nat \ {0}

VARIABLES
  \* The GUI process
  gui,           \* where its only thread is
  call,          \* the function of the current (or last) RPC call
  handler,       \* what made that call
  todo,          \* the blocking calls the handler still has to make
  nUnclaimed,    \* _n_unclaimed_results
  isExecuting,   \* is_executing
  isTerminating, \* is_terminating
  poller,        \* is _manage_subp still a timeout source of the main loop
  popen,         \* _popen is not None
  dialogs,       \* the open "could not run initialization code" dialogs
  raised,        \* the exception that ended the last handler, "none" if none
  \* The subprocess
  sub,           \* where it is, or how far its death has got
  idlePaused,    \* idle_paused
  \* The socket
  toSub, toGui

guiVars == <<gui, call, handler, todo, nUnclaimed, isExecuting,
             isTerminating, poller, popen, dialogs, raised>>
subVars == <<sub, idlePaused>>
vars == <<guiVars, subVars, toSub, toGui>>

-----------------------------------------------------------------------------
\* Mutations of the definitions that follow, each the mark of a plausible slip
\* in the code, have an underscore in their names and are used by no other
\* definition: TLC refutes a property with each of them.

\* RPC functions.  "query" stands for the completion, call tip and autoparen
\* queries, all made through call_subp_catch and alike to the protocol.
ConfigFns == {"get_subprocess_info", "set_reshist_size", "set_pprint",
              "set_matplotlib_ia"}
BlockingFns == ConfigFns \cup {"execute"}
\* execute called through call_subp_noblock.
TimedFns_execute == {"query", "is_incomplete", "pause_idle", "clear_reshist", "execute"}
TimedFns == {"query", "is_incomplete", "pause_idle", "clear_reshist"}
Fns == BlockingFns \cup TimedFns \cup {"resume_idle"}

\* What loop() sends back first for a request, and what a run sends at its end.
FirstReplies(fn) == IF fn = "execute" THEN {"exec_ok", "exec_bad", "none"}
                                      ELSE {fn}
RunReplies == {"result", "none"}
Replies == (Fns \ {"execute"}) \cup {"exec_ok", "exec_bad", "none", "result"}

Alive == {"top", "gui", "exec"}      \* still attached to the socket
Dying == {"closing"}                 \* socket closed, process not gone yet
Exited == {"zombie", "reaped"}       \* poll() returns a code

ConfigScript == <<"set_reshist_size", "set_pprint", "set_matplotlib_ia">>
InitCodes == {<<>>, <<"execute">>}   \* init-code is empty or not

\* What runs a handler: the constructor, on_subp_terminated, on_preferences, or
\* one of the editor's commands.
Handlers == {"startup", "restart", "prefs", "editor"}

TypeOK ==
  /\ gui \in {"loop", "polled", "drain", "wait", "quit", "crashed"}
  /\ call \in Fns
  /\ handler \in Handlers
  /\ todo \in Seq(BlockingFns)
  /\ nUnclaimed \in 0 .. MaxUnclaimed + 1
  /\ isExecuting \in BOOLEAN /\ isTerminating \in BOOLEAN
  /\ poller \in BOOLEAN /\ popen \in BOOLEAN
  /\ dialogs \in Seq({"startup", "restart"})
  /\ raised \in {"none", "AssertionError", "IOError", "OSError",
                 "StartError", "TypeError", "ValueError"}
  /\ sub \in Alive \cup Dying \cup Exited
  /\ idlePaused \in BOOLEAN
  /\ toSub \in Seq(Fns)
  /\ toGui \in Seq(Replies)

\* DreamPie.__init__ once subp.start() has returned: the first call is made
\* by the constructor, before gtk.main.
Init ==
  /\ gui = "wait" /\ call = "get_subprocess_info" /\ handler = "startup"
  /\ \E code \in InitCodes : todo = ConfigScript \o code
  /\ nUnclaimed = 0 /\ isExecuting = FALSE /\ isTerminating = FALSE
  /\ poller = TRUE /\ popen = TRUE /\ dialogs = <<>> /\ raised = "none"
  /\ sub = "top" /\ idlePaused = FALSE
  /\ toSub = <<"get_subprocess_info">> /\ toGui = <<>>

-----------------------------------------------------------------------------
\* Building blocks of the GUI's steps.

\* send_object: what is written to a dead peer's socket is lost.  (The error,
\* if any, shows at the recv that follows.)
Sent(fn) == IF sub \in Alive THEN Append(toSub, fn) ELSE toSub

\* No draining of unclaimed results.
Enter_noDrain(fn) == call' = fn /\ gui' = "wait" /\ toSub' = Sent(fn)

\* The start of call_subp and call_subp_noblock, their assertion having held:
\* with unclaimed results, go and drain them; otherwise send and wait.
Enter(fn) ==
  /\ call' = fn
  /\ IF nUnclaimed = 0
       THEN gui' = "wait" /\ toSub' = Sent(fn)
       ELSE gui' = "drain" /\ toSub' = toSub

\* An exception leaves the running handler.  In a GTK handler it is shown and
\* the loop goes on; in the constructor it ends the program; in _manage_subp
\* it stops PyGObject from ever calling the poller again.
Abort(exc) ==
  /\ raised' = exc
  /\ gui' = IF handler = "startup" THEN "crashed" ELSE "loop"
  /\ poller' = (poller /\ handler # "restart")
  /\ todo' = <<>>

\* The handler is over.
Finish == gui' = "loop" /\ UNCHANGED <<poller, raised, todo>>

\* A request that timed out is not counted.
TimedOut_uncounted(late) ==
  /\ Finish
  /\ IF call = "pause_idle"
       THEN toSub' = Sent("resume_idle") /\ nUnclaimed' = nUnclaimed + 1
       ELSE toSub' = toSub /\ nUnclaimed' = nUnclaimed

\* The resume_idle is sent and its reply is not counted.
TimedOut_resumeUncounted(late) ==
  /\ Finish
  /\ toSub' = IF call = "pause_idle" THEN Sent("resume_idle") ELSE toSub
  /\ nUnclaimed' = nUnclaimed + late

\* execute_source does not resume what it failed to pause.
TimedOut_noResume(late) ==
  /\ Finish
  /\ toSub' = toSub
  /\ nUnclaimed' = nUnclaimed + late

\* TimeoutError reaches the handler, after `late` more replies became due.
\* execute_source answers a pause_idle that timed out with a resume_idle.
TimedOut(late) ==
  /\ Finish
  /\ IF call = "pause_idle"
       THEN /\ toSub' = Sent("resume_idle")
            /\ nUnclaimed' = nUnclaimed + late + 1
       ELSE /\ toSub' = toSub
            /\ nUnclaimed' = nUnclaimed + late

-----------------------------------------------------------------------------
\* The user's commands.  A modal dialog, a closed window or a handler in
\* progress leaves no way to give one.
UserTurn == gui = "loop" /\ dialogs = <<>> /\ ~isTerminating

\* A handler makes its first call; without a subprocess send_object raises.
Begin(fn, h) ==
  /\ handler' = h
  /\ IF popen
       THEN Enter(fn) /\ raised' = "none"
       ELSE /\ raised' = "ValueError"
            /\ UNCHANGED <<gui, call, toSub>>

\* The assertion at the head of call_subp and call_subp_noblock fails.
AssertionFails(h) ==
  /\ handler' = h /\ raised' = "AssertionError"
  /\ UNCHANGED <<gui, call, toSub>>

\* A half-second call made by the editor when no code is executing.
EditorCall(fn) ==
  /\ UserTurn /\ ~isExecuting
  /\ nUnclaimed < MaxUnclaimed
  /\ Begin(fn, "editor")
  /\ UNCHANGED <<todo, nUnclaimed, isExecuting, isTerminating, poller, popen,
                 dialogs, subVars, toGui>>

\* Completions, call tips, autoparen: call_subp_catch.
Query == EditorCall("query")
\* Return on a one-line source asks whether the line is complete.
PressReturn == EditorCall("is_incomplete")
\* Ctrl+Enter: execute_source.
ExecuteSource == EditorCall("pause_idle")

\* clear_reshist is sent even while code is executing.
ClearReshist_unasserted ==
  /\ UserTurn
  /\ nUnclaimed < MaxUnclaimed
  /\ Begin("clear_reshist", "editor")
  /\ UNCHANGED <<todo, nUnclaimed, isExecuting, isTerminating, poller, popen,
                 dialogs, subVars, toGui>>

\* The menu's "clear result history" does not look at is_executing.
ClearReshist ==
  /\ UserTurn
  /\ nUnclaimed < MaxUnclaimed
  /\ IF isExecuting THEN AssertionFails("editor")
                    ELSE Begin("clear_reshist", "editor")
  /\ UNCHANGED <<todo, nUnclaimed, isExecuting, isTerminating, poller, popen,
                 dialogs, subVars, toGui>>

\* configure_subp goes ahead even while code is executing.
Preferences_unasserted ==
  /\ UserTurn /\ popen
  /\ Begin(Head(ConfigScript), "prefs")
  /\ todo' = Tail(ConfigScript)
  /\ UNCHANGED <<nUnclaimed, isExecuting, isTerminating, poller, popen,
                 dialogs, subVars, toGui>>

\* OK in the preferences dialog: configure_subp, whatever is_executing is.
Preferences ==
  /\ UserTurn
  /\ IF isExecuting
       THEN AssertionFails("prefs") /\ todo' = <<>>
       ELSE /\ Begin(Head(ConfigScript), "prefs")
            /\ todo' = IF popen THEN Tail(ConfigScript) ELSE <<>>
  /\ UNCHANGED <<nUnclaimed, isExecuting, isTerminating, poller, popen,
                 dialogs, subVars, toGui>>

\* SubprocessHandler.kill: the process is reaped within a second, or is sent
\* a SIGKILL and dies by itself.  Once it is reaped os.kill finds no process.
Kill ==
  IF ~popen
    THEN raised' = "ValueError" /\ UNCHANGED <<sub, toSub>>
    ELSE IF sub = "reaped"
      THEN raised' = "OSError" /\ UNCHANGED <<sub, toSub>>
      ELSE /\ raised' = "none"
           /\ sub' \in IF sub = "zombie" THEN {"reaped"}
                                        ELSE {"closing", "reaped"}
           /\ toSub' = <<>>

RestartSubprocess ==
  /\ UserTurn
  /\ Kill
  /\ UNCHANGED <<gui, call, handler, todo, nUnclaimed, isExecuting,
                 isTerminating, poller, popen, dialogs, idlePaused, toGui>>

\* quit(), once the user has agreed: an exception in kill() comes before
\* gtk.main_quit().
Quit ==
  /\ UserTurn
  /\ isTerminating' = TRUE
  /\ Kill
  /\ gui' = IF raised' = "none" THEN "quit" ELSE "loop"
  /\ UNCHANGED <<call, handler, todo, nUnclaimed, isExecuting, poller, popen,
                 dialogs, idlePaused, toGui>>

CloseDialog ==
  /\ gui = "loop" /\ dialogs # <<>>
  /\ dialogs' = SubSeq(dialogs, 1, Len(dialogs) - 1)
  /\ UNCHANGED <<gui, call, handler, todo, nUnclaimed, isExecuting,
                 isTerminating, poller, popen, raised, subVars, toSub, toGui>>

-----------------------------------------------------------------------------
\* Inside call_subp and call_subp_noblock.

\* select() says the socket has nothing to read, and half a second passes.
NothingToRead == toGui = <<>> /\ sub \in Alive
\* recv() returns the empty string: the peer is gone and all is read.
AtEof == toGui = <<>> /\ sub \notin Alive

\* One unclaimed result is received; the loop tests the counter again.
DrainRecv ==
  /\ gui = "drain" /\ toGui # <<>>
  /\ toGui' = Tail(toGui)
  /\ UNCHANGED <<guiVars, subVars, toSub>>

\* The half second passes before the request could be sent.
DrainTimeout ==
  /\ gui = "drain" /\ call \in TimedFns /\ NothingToRead
  /\ TimedOut(0)
  /\ UNCHANGED <<call, handler, isExecuting, isTerminating, popen, dialogs,
                 subVars, toGui>>

\* The half second passes with the request sent: its reply is now unclaimed.
WaitTimeout ==
  /\ gui = "wait" /\ call \in TimedFns /\ NothingToRead
  /\ TimedOut(1)
  /\ UNCHANGED <<call, handler, isExecuting, isTerminating, popen, dialogs,
                 subVars, toGui>>

\* recv_object raises IOError: the subprocess died during the call.
CallEof ==
  /\ gui \in {"drain", "wait"} /\ AtEof
  /\ Abort("IOError")
  /\ UNCHANGED <<call, handler, nUnclaimed, isExecuting, isTerminating, popen,
                 dialogs, subVars, toSub, toGui>>

-----------------------------------------------------------------------------
\* The reply to the call in progress.

Received(fns) ==
  /\ gui = "wait" /\ call \in fns /\ toGui # <<>>
  /\ toGui' = Tail(toGui)
  /\ UNCHANGED <<handler, nUnclaimed, isTerminating, popen, subVars>>

\* A query's value goes to the editor, clear_reshist's to nobody.
QueryAnswered ==
  /\ Received({"query", "clear_reshist"})
  /\ Finish
  /\ UNCHANGED <<call, isExecuting, dialogs, toSub>>

\* on_sourceview_return: an incomplete line gets a newline.
LineIncomplete ==
  /\ Received({"is_incomplete"})
  /\ Finish
  /\ UNCHANGED <<call, isExecuting, dialogs, toSub>>

\* on_sourceview_return goes on to execute_source, which goes on to execute
\* once idle jobs are paused.
LineComplete ==
  /\ Received({"is_incomplete"})
  /\ Enter("pause_idle")
  /\ UNCHANGED <<isExecuting, todo, poller, raised, dialogs>>

IdleIsPaused ==
  /\ Received({"pause_idle"})
  /\ Enter("execute")
  /\ UNCHANGED <<isExecuting, todo, poller, raised, dialogs>>

\* configure_subp and the constructor go from one blocking call to the next,
\* and a session's last one is the execute of run_init_code.
Configured ==
  /\ Received(ConfigFns)
  /\ IF todo = <<>>
       THEN Finish /\ UNCHANGED <<call, toSub>>
       ELSE Enter(Head(todo)) /\ todo' = Tail(todo) /\ UNCHANGED <<poller, raised>>
  /\ UNCHANGED <<isExecuting, dialogs>>

\* execute's first reply.  A syntax error in the init code opens a dialog, and
\* the None sent for an exception in execute cannot be unpacked.
CodeAccepted ==
  /\ Received({"execute"}) /\ Head(toGui) = "exec_ok"
  /\ Finish
  /\ isExecuting' = TRUE
  /\ UNCHANGED <<call, dialogs, toSub>>

CodeRejected ==
  /\ Received({"execute"}) /\ Head(toGui) = "exec_bad"
  /\ Finish
  /\ dialogs' = IF handler \in {"startup", "restart"}
                  THEN Append(dialogs, handler) ELSE dialogs
  /\ UNCHANGED <<call, isExecuting, toSub>>

ExecuteFailed ==
  /\ Received({"execute"}) /\ Head(toGui) = "none"
  /\ Abort("TypeError")
  /\ UNCHANGED <<call, isExecuting, dialogs, toSub>>

-----------------------------------------------------------------------------
\* The poller.  A main loop nested in a dialog runs it too, unless the dialog
\* was opened by the poller itself.
PollerTurn ==
  /\ gui = "loop" /\ poller
  /\ \A i \in 1 .. Len(dialogs) : dialogs[i] # "restart"

\* popen.poll() returns a code while quitting: no new subprocess.
PollExitQuitting ==
  /\ PollerTurn /\ popen /\ sub \in Exited /\ isTerminating
  /\ popen' = FALSE /\ toSub' = <<>> /\ toGui' = <<>>
  /\ UNCHANGED <<gui, call, handler, todo, nUnclaimed, isExecuting,
                 isTerminating, poller, dialogs, raised, subVars>>

\* popen.poll() returns a code and start() raises: on_subp_terminated ends
\* there, and with it the poller.
PollExitStartFails ==
  /\ PollerTurn /\ popen /\ sub \in Exited /\ ~isTerminating
  /\ popen' = FALSE /\ toSub' = <<>> /\ toGui' = <<>>
  /\ nUnclaimed' = 0
  /\ poller' = FALSE /\ raised' = "StartError"
  /\ UNCHANGED <<gui, call, handler, todo, isExecuting, isTerminating, dialogs,
                 subVars>>

\* The counter of the dead session is carried over.
PollExitRestarts_keepsUnclaimed ==
  /\ PollerTurn /\ popen /\ sub \in Exited /\ ~isTerminating
  /\ sub' = "top" /\ idlePaused' = FALSE
  /\ isExecuting' = FALSE
  /\ handler' = "restart" /\ gui' = "wait" /\ call' = Head(ConfigScript)
  /\ \E code \in InitCodes : todo' = Tail(ConfigScript) \o code
  /\ toSub' = <<Head(ConfigScript)>> /\ toGui' = <<>>
  /\ UNCHANGED <<nUnclaimed, isTerminating, poller, popen, dialogs, raised>>

\* A new subprocess is started while quitting, too.
PollExitRestarts_quitting ==
  /\ PollerTurn /\ popen /\ sub \in Exited
  /\ sub' = "top" /\ idlePaused' = FALSE
  /\ nUnclaimed' = 0 /\ isExecuting' = FALSE
  /\ handler' = "restart" /\ gui' = "wait" /\ call' = Head(ConfigScript)
  /\ \E code \in InitCodes : todo' = Tail(ConfigScript) \o code
  /\ toSub' = <<Head(ConfigScript)>> /\ toGui' = <<>>
  /\ UNCHANGED <<isTerminating, poller, popen, dialogs, raised>>

\* popen.poll() returns a code and a new subprocess is started over a new
\* socket, configured, and given the init code.
PollExitRestarts ==
  /\ PollerTurn /\ popen /\ sub \in Exited /\ ~isTerminating
  /\ sub' = "top" /\ idlePaused' = FALSE
  /\ nUnclaimed' = 0 /\ isExecuting' = FALSE
  /\ handler' = "restart" /\ gui' = "wait" /\ call' = Head(ConfigScript)
  /\ \E code \in InitCodes : todo' = Tail(ConfigScript) \o code
  /\ toSub' = <<Head(ConfigScript)>> /\ toGui' = <<>>
  /\ UNCHANGED <<isTerminating, poller, popen, dialogs, raised>>

\* popen.poll() returns None; the socket is looked at later in the same round.
PollAlive ==
  /\ PollerTurn /\ popen /\ sub \notin Exited
  /\ gui' = "polled"
  /\ UNCHANGED <<call, handler, todo, nUnclaimed, isExecuting, isTerminating,
                 poller, popen, dialogs, raised, subVars, toSub, toGui>>

\* The socket has nothing to read, or IOError is forgiven because the process
\* has exited by now.
PollNothing ==
  /\ gui = "polled" /\ toGui = <<>> /\ sub \notin Dying
  /\ gui' = "loop"
  /\ UNCHANGED <<call, handler, todo, nUnclaimed, isExecuting, isTerminating,
                 poller, popen, dialogs, raised, subVars, toSub, toGui>>

\* End of file, and a second later the process is still there: re-raised.
PollEof ==
  /\ gui = "polled" /\ toGui = <<>> /\ sub \in Dying
  /\ gui' = "loop" /\ poller' = FALSE /\ raised' = "IOError"
  /\ UNCHANGED <<call, handler, todo, nUnclaimed, isExecuting, isTerminating,
                 popen, dialogs, subVars, toSub, toGui>>

\* Every object is taken for an unclaimed one.
PollUnclaimed_always ==
  /\ gui = "polled" /\ toGui # <<>>
  /\ gui' = "loop" /\ toGui' = Tail(toGui)
  /\ nUnclaimed' = nUnclaimed - 1
  /\ UNCHANGED <<call, handler, todo, isExecuting, isTerminating, poller, popen,
                 dialogs, raised, subVars, toSub>>

\* on_object_recv: a reply somebody gave up on.
PollUnclaimed ==
  /\ gui = "polled" /\ toGui # <<>> /\ nUnclaimed > 0
  /\ gui' = "loop" /\ toGui' = Tail(toGui)
  /\ nUnclaimed' = nUnclaimed - 1
  /\ UNCHANGED <<call, handler, todo, isExecuting, isTerminating, poller, popen,
                 dialogs, raised, subVars, toSub>>

\* on_object_recv: the result of the run, its assertion holding.  The None
\* sent when execute raised after the run cannot be unpacked.
PollResult ==
  /\ gui = "polled" /\ toGui # <<>> /\ nUnclaimed = 0 /\ isExecuting
  /\ gui' = "loop" /\ toGui' = Tail(toGui)
  /\ IF Head(toGui) = "none"
       THEN poller' = FALSE /\ raised' = "TypeError" /\ UNCHANGED isExecuting
       ELSE isExecuting' = FALSE /\ UNCHANGED <<poller, raised>>
  /\ UNCHANGED <<call, handler, todo, nUnclaimed, isTerminating, popen, dialogs,
                 subVars, toSub>>

-----------------------------------------------------------------------------
\* The subprocess.

\* handle_gui_events: no request is waiting, so the user's toolkit, if there
\* is one, runs callbacks for a while - or for as long as they like.
RunIdleJobs ==
  /\ sub = "top" /\ ~idlePaused /\ toSub = <<>>
  /\ sub' = "gui"
  /\ UNCHANGED <<guiVars, idlePaused, toSub, toGui>>

IdleJobsReturn ==
  /\ sub = "gui"
  /\ sub' = "top"
  /\ UNCHANGED <<guiVars, idlePaused, toSub, toGui>>

\* execute forgets to take the pause back.
idlePausedAfter_executeKeeps(fn) ==
  CASE fn = "pause_idle" -> TRUE
    [] fn = "resume_idle" -> FALSE
    [] OTHER -> idlePaused

\* idle_paused after the function has run.
idlePausedAfter(fn) ==
  CASE fn = "pause_idle" -> TRUE
    [] fn \in {"resume_idle", "execute"} -> FALSE
    [] OTHER -> idlePaused

\* loop() answers nothing when the function raised.
Handle_silent ==
  /\ sub = "top" /\ toSub # <<>>
  /\ toSub' = Tail(toSub)
  /\ \E r \in FirstReplies(Head(toSub)) :
       /\ toGui' = IF r = "none" THEN toGui ELSE Append(toGui, r)
       /\ sub' = IF r = "exec_ok" THEN "exec" ELSE "top"
  /\ idlePaused' = idlePausedAfter(Head(toSub))
  /\ UNCHANGED guiVars

\* The next request is served: its first reply is sent, and execute, once it
\* has said exec_ok, goes on to run the code.
Handle ==
  /\ sub = "top" /\ toSub # <<>>
  /\ toSub' = Tail(toSub)
  /\ \E r \in FirstReplies(Head(toSub)) :
       /\ toGui' = Append(toGui, r)
       /\ sub' = IF r = "exec_ok" THEN "exec" ELSE "top"
  /\ idlePaused' = idlePausedAfter(Head(toSub))
  /\ UNCHANGED guiVars

\* A run that loop()'s except clause ends sends nothing.
RunEnds_silent ==
  /\ sub = "exec"
  /\ \E r \in RunReplies :
       toGui' = IF r = "none" THEN toGui ELSE Append(toGui, r)
  /\ sub' = "top"
  /\ UNCHANGED <<guiVars, idlePaused, toSub>>

\* The user's code ends, one way or another; None when execute then raises.
RunEnds ==
  /\ sub = "exec"
  /\ \E r \in RunReplies : toGui' = Append(toGui, r)
  /\ sub' = "top"
  /\ UNCHANGED <<guiVars, idlePaused, toSub>>

\* The process starts to die, by its own code or by a signal from outside:
\* the kernel closes its socket, and drops what it had sent if it left
\* requests unread.
Dies ==
  /\ sub \in Alive
  /\ sub' = "closing" /\ toSub' = <<>>
  /\ \/ toGui' = toGui
     \/ toSub # <<>> /\ toGui' = <<>>
  /\ UNCHANGED <<guiVars, idlePaused>>

Exits ==
  /\ sub = "closing"
  /\ sub' = "zombie"
  /\ UNCHANGED <<guiVars, idlePaused, toSub, toGui>>

-----------------------------------------------------------------------------
UserStep == \/ Query \/ PressReturn \/ ExecuteSource \/ ClearReshist
            \/ Preferences \/ RestartSubprocess \/ Quit \/ CloseDialog
CallStep == \/ DrainRecv \/ DrainTimeout \/ WaitTimeout \/ CallEof
            \/ QueryAnswered \/ LineIncomplete \/ LineComplete \/ IdleIsPaused
            \/ Configured \/ CodeAccepted \/ CodeRejected \/ ExecuteFailed
PollStep == \/ PollExitQuitting \/ PollExitStartFails \/ PollExitRestarts
            \/ PollAlive \/ PollNothing \/ PollEof \/ PollUnclaimed \/ PollResult
SubStep == RunIdleJobs \/ IdleJobsReturn \/ Handle \/ RunEnds
ProcessStep == Dies \/ Exits

Next == UserStep \/ CallStep \/ PollStep \/ SubStep \/ ProcessStep

Spec == Init /\ [][Next]_vars

\* Fairness.  Each process keeps taking its own steps: the GUI's thread returns
\* from recv and from select; its main loop calls the poller whenever the 10 ms
\* are over, so no stream of handlers keeps it out for ever (strong fairness);
\* the subprocess serves its socket; a process that is dying dies.  RunsEnd adds
\* what only the user's program can promise: its runs and its callbacks return.
GuiFairness == WF_vars(CallStep) /\ SF_vars(PollStep)
SubFairness == WF_vars(Handle) /\ WF_vars(Exits)
RunsEnd == WF_vars(RunEnds) /\ WF_vars(IdleJobsReturn)

FairSpec == Spec /\ GuiFairness /\ SubFairness /\ RunsEnd

-----------------------------------------------------------------------------
\* Safety.

Outstanding == Len(toGui) + Len(toSub)

\* While a call waits for its reply, whatever arrives first is a reply of the
\* function it called: a late answer to an abandoned call is never taken for
\* the answer to a later one (call_subp, call_subp_noblock).
OwnReplyFirst ==
  gui = "wait" /\ toGui # <<>> => Head(toGui) \in FirstReplies(call)

\* on_object_recv's assertion: an object that the poller finds when nothing is
\* unclaimed is the result of a run the GUI knows to be executing.
ResultIsExpected ==
  /\ gui \in {"loop", "polled"} /\ popen /\ toGui # <<>> /\ nUnclaimed = 0
    => isExecuting /\ Head(toGui) \in RunReplies

\* "We can't let the execute function run and ignore the result": user code is
\* only ever requested or run by a GUI that waits for it or shows it as
\* executing, so no source runs behind the user's back after a time-out.
RunIsOwned ==
  popen /\ (sub = "exec" \/ \E i \in 1 .. Len(toSub) : toSub[i] = "execute")
    => isExecuting \/ (gui = "wait" /\ call = "execute")

\* pause_idle is followed by execute or resume_idle: idle jobs are paused only
\* while execute_source is still going on, or with the resume on its way.
PauseIsFollowed ==
  popen /\ sub \in Alive /\ idlePaused
    => \/ gui = "wait" /\ call \in {"pause_idle", "execute"}
       \/ \E i \in 1 .. Len(toSub) : toSub[i] = "resume_idle"

\* Every late reply is provided for: between handlers, no more replies are
\* outstanding than _n_unclaimed_results says, so the counter cannot reach zero
\* with a late reply still to come.
LateRepliesCounted ==
  gui \in {"loop", "polled"} /\ popen /\ ~isExecuting
    => Outstanding <= nUnclaimed

\* While code executes the socket carries at most its result, and nothing is
\* unclaimed that could swallow it.
ExecutingIsExclusive ==
  isExecuting /\ popen =>
    /\ nUnclaimed = 0 /\ toSub = <<>>
    /\ Len(toGui) <= 1
    /\ sub = "exec" => toGui = <<>>

\* The inductive invariant behind them, in named parts.

\* What can be late: the half-second calls and the resume_idle after one.
LateFns == TimedFns \cup {"resume_idle"}

\* A call in progress has a subprocess to talk to, no code is executing, and it
\* has sent its request exactly when nothing is unclaimed.
CallShape ==
  /\ gui \in {"wait", "drain"} => popen /\ ~isExecuting
  /\ gui = "wait" => nUnclaimed = 0
  /\ gui = "drain" => nUnclaimed > 0
  /\ gui = "drain" /\ call \in TimedFns => nUnclaimed < MaxUnclaimed

\* No request lives on in a dead process, and no socket without a process.
DeadShape ==
  /\ sub \notin Alive => toSub = <<>>
  /\ ~popen => sub \in Exited /\ toGui = <<>>

\* A waiting call is at one of three stages: requested, answered, or (execute)
\* answered and already run to its end.
WaitShape ==
  gui = "wait" =>
    \/ toGui = <<>> /\ (sub \in Alive => toSub = <<call>> /\ sub # "exec")
    \/ toSub = <<>> /\ \E r \in FirstReplies(call) :
         toGui = <<r>> /\ (sub \in Alive => (sub = "exec" <=> r = "exec_ok"))
    \/ toSub = <<>> /\ call = "execute" /\ sub # "exec" /\ \E r \in RunReplies :
         toGui = <<"exec_ok", r>>

\* While code executes there is its result to come and nothing else.
ExecShape ==
  isExecuting =>
    /\ nUnclaimed = 0 /\ toSub = <<>>
    /\ toGui = <<>> \/ (sub # "exec" /\ \E r \in RunReplies : toGui = <<r>>)

\* Otherwise only late calls are on the socket, no more than were counted.
IdleShape ==
  gui # "wait" /\ ~isExecuting =>
    /\ sub # "exec"
    /\ toSub \in Seq(LateFns) /\ toGui \in Seq(LateFns)
    /\ Len(toGui) + Len(toSub) <= nUnclaimed

\* Every pause is taken back by something behind it.
PauseShape ==
  sub \in Alive =>
    /\ idlePaused =>
         \/ gui = "wait" /\ call = "pause_idle" /\ toSub = <<>>
         \/ gui = "wait" /\ call = "execute" /\ toSub = <<"execute">>
         \/ \E i \in 1 .. Len(toSub) : toSub[i] = "resume_idle"
    /\ gui # "wait" =>
         \A i \in 1 .. Len(toSub) : toSub[i] = "pause_idle" =>
           \E j \in 1 .. Len(toSub) : i < j /\ toSub[j] = "resume_idle"

IInv == /\ TypeOK /\ CallShape /\ DeadShape /\ WaitShape
        /\ ExecShape /\ IdleShape /\ PauseShape

\* Actions.

\* The result of a run is received once, by the poller's report that ends
\* is_executing: it is never drained, nor discarded as an unclaimed reply.
ResultIsReported ==
  [][toGui # <<>> /\ Head(toGui) = "result" /\ toGui' = Tail(toGui)
       => sub \in Exited \/ (isExecuting /\ ~isExecuting')]_vars

\* Once the user has quit no subprocess is left behind, and none is started, also
\* if killing it failed and the main loop goes on.
QuitLeavesNone == isTerminating => sub \notin Alive

\* Liveness.

\* A request that was sent is answered, times out or fails: no RPC call keeps
\* the GUI in its wait if the user's program returns from its callbacks.  And the
\* callbacks that were paused for it are resumed.
WaitEnds ==
  /\ gui = "wait" ~> gui # "wait"
  /\ idlePaused ~> ~idlePaused \/ sub \notin Alive

\* A run's end reaches the prompt: code that executes stops executing, or its
\* process is replaced, unless the poller is lost or the user quits.
RunIsReported == isExecuting ~> ~isExecuting \/ ~poller \/ isTerminating

\* What DreamPie says of itself and does not do.

\* "Make an RPC call, blocking until an answer is received": with a responsive
\* subprocess the answer does come.
BlockedCallReturns == gui = "drain" ~> gui # "drain"

\* "assert not self.is_executing": no handler makes a call while code executes.
NoCallWhileExecuting == raised # "AssertionError"

\* "Kill the subprocess. If the event loop continues, will start another one":
\* a process that is gone is noticed and another one is started (or cannot be).
KilledIsReplaced ==
  popen /\ sub \notin Alive
    ~> \/ ~popen \/ sub \in Alive
       \/ gui \in {"quit", "crashed"} \/ dialogs # <<>>
=============================================================================
