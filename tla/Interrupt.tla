------------------------------ MODULE Interrupt -------------------------------
(***************************************************************************)
(* Interrupting the user's program: the GUI's Interrupt command            *)
(* (on_interrupt in gui/__init__.py) sends SIGINT, and the subprocess      *)
(* unmasks the signal around the user's code and masks it again            *)
(* (unmask_sigint, mask_sigint, execute and user_code in                   *)
(* subprocess/__init__.py).                                                *)
(*                                                                         *)
(* A signal that is not ignored is noted by the interpreter at once        *)
(* (tripped) and becomes a KeyboardInterrupt before the next thing that    *)
(* the interpreter does, so each pc below is a place at which a            *)
(* KeyboardInterrupt is told apart by who catches it.                      *)
(***************************************************************************)
CONSTANTS
  CanMask,  \* can_mask_sigint(): SIGINT can be ignored on this platform
  Toolkits  \* the GUI toolkits that the user's program may have loaded

ASSUME CanMaskAssumption == CanMask \in BOOLEAN
ASSUME ToolkitsAssumption == Toolkits \subseteq {"gtk", "qt4"}

VARIABLES
  isExecuting, \* the GUI's is_executing
  answer,      \* the result of the run on its way to the GUI
  pc,          \* where the subprocess is
  handler,     \* what it does with SIGINT
  tripped,     \* a KeyboardInterrupt is due
  excepted,    \* an exception is on its way out of the user's code
  ran,         \* the code of this run came to its end
  stored,      \* the result of this run was stored in the history
  slipped,     \* a KeyboardInterrupt was raised between mask and code
  asked        \* whether the user's code that runs was asked to be interrupted, or has
               \* caught it since

vars == <<isExecuting, answer, pc, handler, tripped, excepted, ran, stored, slipped, asked>>
runVars == <<ran, stored, slipped>>

\* The places in execute(), in order, and in the idle jobs.
ExecPcs == {"start", "unmasked", "user", "finally", "except", "else", "report"}
IdlePcs == {"idleUnmasked", "idle", "idleExcept", "idleFinally", "qtIdle"}
Pcs == {"loop", "dead"} \cup ExecPcs \cup IdlePcs
UserPcs == {"user", "idle", "qtIdle"}

TypeOK ==
  /\ isExecuting \in BOOLEAN /\ answer \in {"none", "success", "exception"}
  /\ pc \in Pcs /\ handler \in {"ignore", "default"}
  /\ tripped \in BOOLEAN /\ excepted \in BOOLEAN
  /\ ran \in BOOLEAN /\ stored \in BOOLEAN /\ slipped \in BOOLEAN
  /\ asked \in {"no", "yes", "caught"}

-----------------------------------------------------------------------------
\* Mutations of the definitions that follow, each the mark of a plausible slip
\* in the code, have an underscore in their names and are used by no other
\* definition: TLC refutes a property with each of them.

\* unmask_sigint and mask_sigint do nothing where SIGINT cannot be ignored.
MaskSigint == handler' = IF CanMask THEN "ignore" ELSE "default"
UnmaskSigint == handler' = "default"

\* Subprocess.__init__ masks SIGINT before the GUI gets its first answer.
Init ==
  /\ isExecuting = FALSE /\ answer = "none" /\ pc = "loop"
  /\ handler = (IF CanMask THEN "ignore" ELSE "default")
  /\ tripped = FALSE /\ excepted = FALSE
  /\ ran = FALSE /\ stored = FALSE /\ slipped = FALSE /\ asked = "no"

\* An uncaught KeyboardInterrupt ends the subprocess; loop() catches only
\* Exception.
Killed ==
  /\ pc' = "dead" /\ tripped' = FALSE /\ excepted' = FALSE /\ asked' = "no"
  /\ UNCHANGED <<isExecuting, answer, handler, runVars>>

\* The interpreter's next step at a place, if no KeyboardInterrupt is due.
At(place) == pc = place /\ ~tripped
\* A KeyboardInterrupt at a place.
Raised(place) == pc = place /\ tripped

-----------------------------------------------------------------------------
\* The GUI.

Signal ==
  /\ tripped' = (tripped \/ handler = "default")
  /\ asked' = IF pc \in UserPcs THEN "yes" ELSE asked
  /\ UNCHANGED <<isExecuting, answer, pc, handler, excepted, runVars>>

\* on_interrupt; elsewhere it says that no command is being executed.
OnInterrupt == pc # "dead" /\ (CanMask \/ isExecuting) /\ Signal

\* execute_source, to where it knows that the source compiled.  The GUI waits
\* for that answer, so that nothing interrupts it.
ExecuteSource ==
  /\ ~isExecuting /\ At("loop")
  /\ isExecuting' = TRUE /\ pc' = "start"
  /\ ran' = FALSE /\ stored' = FALSE
  /\ UNCHANGED <<asked, answer, handler, tripped, excepted, slipped>>

\* on_object_recv: the prompt is back.
OnObjectRecv ==
  /\ answer # "none"
  /\ answer' = "none" /\ isExecuting' = FALSE
  /\ UNCHANGED <<asked, pc, handler, tripped, excepted, runVars>>

\* on_subp_terminated: another subprocess, once what it had sent is gone.
OnSubpTerminated ==
  /\ pc = "dead"
  /\ isExecuting' = FALSE /\ answer' = "none" /\ pc' = "loop"
  /\ handler' = (IF CanMask THEN "ignore" ELSE "default")
  /\ tripped' = FALSE /\ excepted' = FALSE
  /\ ran' = FALSE /\ stored' = FALSE /\ slipped' = FALSE /\ asked' = "no"

-----------------------------------------------------------------------------
\* execute(), once it has yielded (True, None).

\* SIGINT stays masked.
UnmaskForRun_not ==
  /\ At("start") /\ pc' = "unmasked"
  /\ UNCHANGED <<asked, isExecuting, answer, handler, tripped, excepted, runVars>>

UnmaskForRun ==
  /\ At("start") /\ UnmaskSigint /\ pc' = "unmasked"
  /\ UNCHANGED <<asked, isExecuting, answer, tripped, excepted, runVars>>

EnterCode ==
  /\ At("unmasked") /\ pc' = "user"
  /\ UNCHANGED <<asked, isExecuting, answer, handler, tripped, excepted, runVars>>

\* The code, the flushing and the repr of its result end, or raise.
CodeEnds ==
  /\ At("user") /\ pc' = "finally"
  /\ \/ excepted' = FALSE /\ ran' = TRUE
     \/ excepted' = TRUE /\ ran' = FALSE
  /\ asked' = "no"
  /\ UNCHANGED <<isExecuting, answer, handler, tripped, stored, slipped>>

\* The code, or a callback, catches the KeyboardInterrupt and goes on; or the toolkit prints
\* it and does.
InterruptCaught ==
  /\ \E place \in UserPcs : Raised(place)
  /\ tripped' = FALSE /\ asked' = "caught"
  /\ UNCHANGED <<isExecuting, answer, pc, handler, excepted, runVars>>

CodeInterrupted ==
  /\ Raised("user") /\ pc' = "finally" /\ excepted' = TRUE /\ tripped' = FALSE
  /\ asked' = "no"
  /\ UNCHANGED <<isExecuting, answer, handler, runVars>>

\* The mask is left as it was after an exception.
MaskAfterRun_onSuccess ==
  /\ At("finally")
  /\ IF excepted THEN handler' = handler /\ slipped' = slipped
                 ELSE MaskSigint /\ slipped' = FALSE
  /\ pc' = IF excepted THEN "except" ELSE "else"
  /\ UNCHANGED <<asked, isExecuting, answer, tripped, excepted, ran, stored>>

\* finally: mask_sigint()
MaskAfterRun ==
  /\ At("finally") /\ MaskSigint
  /\ pc' = IF excepted THEN "except" ELSE "else"
  /\ slipped' = FALSE
  /\ UNCHANGED <<asked, isExecuting, answer, tripped, excepted, ran, stored>>

\* unmask_sigint() is outside the try whose finally masks, and a
\* KeyboardInterrupt within the finally clause keeps it from masking; both end
\* in the except clause with SIGINT unmasked.
MaskMissed ==
  /\ Raised("unmasked") \/ Raised("finally")
  /\ pc' = "except" /\ excepted' = TRUE /\ tripped' = FALSE /\ slipped' = TRUE
  /\ UNCHANGED <<asked, isExecuting, answer, handler, ran, stored>>

ExceptionCaught ==
  /\ At("except") /\ pc' = "report"
  /\ UNCHANGED <<asked, isExecuting, answer, handler, tripped, excepted, runVars>>

StoreResult ==
  /\ At("else") /\ pc' = "report" /\ stored' = TRUE
  /\ UNCHANGED <<asked, isExecuting, answer, handler, tripped, excepted, ran, slipped>>

\* is_success is set before the code has run.
SendResult_optimistic ==
  /\ At("report") /\ pc' = "loop" /\ excepted' = FALSE /\ answer' = "success"
  /\ UNCHANGED <<asked, isExecuting, handler, tripped, runVars>>

\* The answer of a failed run is not an exception but None.
SendResult_raw ==
  /\ At("report") /\ pc' = "loop" /\ excepted' = FALSE
  /\ answer' = IF excepted THEN "None" ELSE "success"
  /\ UNCHANGED <<asked, isExecuting, handler, tripped, runVars>>

\* The rest of stdin is read and the result sent.
SendResult ==
  /\ At("report") /\ pc' = "loop" /\ excepted' = FALSE
  /\ answer' = IF excepted THEN "exception" ELSE "success"
  /\ UNCHANGED <<asked, isExecuting, handler, tripped, runVars>>

-----------------------------------------------------------------------------
\* handle_gui_events, while no request has come.

IdleJob ==
  /\ At("loop")
  /\ \/ "gtk" \in Toolkits /\ pc' = "idleUnmasked" /\ UnmaskSigint
     \/ "qt4" \in Toolkits /\ pc' = "qtIdle" /\ handler' = handler
  /\ UNCHANGED <<asked, isExecuting, answer, tripped, excepted, runVars>>

EnterCallbacks ==
  /\ At("idleUnmasked") /\ pc' = "idle"
  /\ UNCHANGED <<asked, isExecuting, answer, handler, tripped, excepted, runVars>>

CallbacksEnd ==
  /\ At("idle") /\ pc' = "idleFinally"
  /\ asked' = "no"
  /\ UNCHANGED <<isExecuting, answer, handler, tripped, excepted, runVars>>

CallbacksInterrupted ==
  /\ Raised("idle") /\ pc' = "idleExcept" /\ tripped' = FALSE
  /\ asked' = "no"
  /\ UNCHANGED <<isExecuting, answer, handler, excepted, runVars>>

\* sys.excepthook
ReportInterrupt ==
  /\ At("idleExcept") /\ pc' = "idleFinally"
  /\ UNCHANGED <<asked, isExecuting, answer, handler, tripped, excepted, runVars>>

\* user_code has no finally clause.
MaskAfterCallbacks_missing ==
  /\ At("idleFinally") /\ pc' = "loop"
  /\ UNCHANGED <<asked, isExecuting, answer, handler, tripped, excepted, runVars>>

MaskAfterCallbacks ==
  /\ At("idleFinally") /\ MaskSigint /\ pc' = "loop" /\ slipped' = FALSE
  /\ UNCHANGED <<asked, isExecuting, answer, tripped, excepted, ran, stored>>

\* Qt4Handler runs the callbacks with SIGINT as it is.
QtCallbacksEnd ==
  /\ At("qtIdle") /\ pc' = "loop"
  /\ asked' = "no"
  /\ UNCHANGED <<isExecuting, answer, handler, tripped, excepted, runVars>>

\* A KeyboardInterrupt where nobody catches it: in the loop, outside the try
\* of execute() or in its except and else clauses; in user_code before it
\* yields (which contextlib turns into a RuntimeError), in its except and
\* finally clauses.
KilledBySignal ==
  /\ \E place \in (Pcs \ {"dead", "unmasked", "user", "finally", "idle"}) : Raised(place)
  /\ Killed

-----------------------------------------------------------------------------
GuiStep == OnInterrupt \/ ExecuteSource \/ OnObjectRecv \/ OnSubpTerminated

\* What the subprocess does by itself.
SubprocessStep ==
  \/ UnmaskForRun \/ EnterCode \/ InterruptCaught \/ CodeInterrupted \/ MaskAfterRun \/ MaskMissed
  \/ ExceptionCaught \/ StoreResult \/ SendResult
  \/ EnterCallbacks \/ CallbacksInterrupted \/ ReportInterrupt \/ MaskAfterCallbacks
  \/ KilledBySignal

\* What the user's program decides.
UserStep == CodeEnds \/ CallbacksEnd \/ QtCallbacksEnd

Next == GuiStep \/ SubprocessStep \/ UserStep \/ IdleJob

Spec == Init /\ [][Next]_vars

\* Python gets on with it and the GUI polls; nothing is assumed of the user's
\* code, which may catch any KeyboardInterrupt, nor of the user.
Fairness ==
  WF_vars(SubprocessStep) /\ WF_vars(OnObjectRecv) /\ WF_vars(OnSubpTerminated)

FairSpec == Spec /\ Fairness

-----------------------------------------------------------------------------
\* A run is reported as a success only if its code came to its end and its
\* result was stored, and as a failure only if nothing was stored, wherever
\* between the code and the report the signals came (execute).
ReportIsTrue ==
  /\ answer = "success" => ran /\ stored
  /\ answer = "exception" => ~stored

\* Out of user code SIGINT is only ever left unmasked by a KeyboardInterrupt
\* that slipped between masking and the code (execute, user_code).
UnmaskedBySlip ==
  (CanMask /\ handler = "default" /\ pc \in {"loop", "start", "except", "else", "report", "qtIdle"})
    => slipped

\* Unless one slipped before, a SIGINT can end the subprocess only in the few
\* steps around an idle job's callbacks: never during a run, nor between runs.
RunSurvivesInterrupt ==
  [][(CanMask /\ pc' = "dead" /\ pc # "dead") => slipped \/ pc \in IdlePcs \ {"idle"}]_vars

\* Interrupting code that would run for ever brings the prompt back (on_interrupt, execute),
\* and interrupting a callback that would ends it, "to break GUI code executed when idle"
\* (unmask_sigint's comment), unless the code itself catches what is raised in it: then it has
\* got it, of each time that it was asked.  Qt runs its callbacks with SIGINT masked, at
\* "qtIdle".
InterruptEndsRun ==
  /\ (pc = "user" /\ asked = "yes") ~> (~isExecuting \/ asked = "caught")
  /\ (pc = "idle" /\ asked = "yes") ~> (pc # "idle" \/ asked = "caught")

=============================================================================
