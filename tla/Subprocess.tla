------------------------------ MODULE Subprocess ------------------------------
(***************************************************************************)
(* What lies between the GUI and the subprocess besides the calls: SIGINT  *)
(* (Interrupt, which this module extends), the standard streams (Console)  *)
(* and the stream of objects (ObjectStream); what must always be true of   *)
(* them, and the proofs, for every value of their constants.               *)
(***************************************************************************)
EXTENDS Interrupt, Integers, Sequences, SequencesExt, SequenceTheorems,
        WellFoundedInduction, TLAPS

CONSTANTS
  MaxRuns, MaxLines, OutCap, InCap,  \* of Console
  Sizes, Base, Room, MaxSent         \* of ObjectStream

VARIABLES
  part,  \* the part that this behaviour exercises
  gui, executing, run, sub, left, outPipe, shown, sock, lines, toWrite, inPipe,
  ahead, textview, sourcebox, typedIn, readBy, late, buffered, discarded, failed,
  sent, whole, unsent, wire, open, length_str, parts, got, streamFailed

Pipes == INSTANCE Console
Stream == INSTANCE ObjectStream WITH failed <- streamFailed

ASSUME PipesAssumption == Pipes!ConstantsFit
ASSUME StreamAssumption == Stream!SizesFit

-----------------------------------------------------------------------------
consoleVars == <<gui, executing, run, sub, left, outPipe, shown, sock, lines, toWrite, inPipe,
                 ahead, textview, sourcebox, typedIn, readBy, late, buffered, discarded, failed>>
streamVars == <<sent, whole, unsent, wire, open, length_str, parts, got, streamFailed>>
allVars == <<part, vars, consoleVars, streamVars>>

Parts == {"interrupt", "console", "stream"}

\* They share no state, so TLC checks them side by side: a behaviour exercises one part and
\* leaves the others as they start, which keeps the states a sum and not a product.
AllInit ==
  /\ part \in Parts
  /\ Init /\ Pipes!Init /\ Stream!Init
  /\ part = "console" \/ ~buffered

AllNext ==
  \/ part = "interrupt" /\ Next /\ UNCHANGED <<part, consoleVars, streamVars>>
  \/ part = "console" /\ Pipes!Next /\ UNCHANGED <<part, vars, streamVars>>
  \/ part = "stream" /\ Stream!Next /\ UNCHANGED <<part, vars, consoleVars>>

\* Interrupt and ObjectStream begin where none of their fair steps is enabled, so
\* their fairness asks nothing of the other parts; the GUI of Console polls from the
\* start.
AllSpec ==
  /\ AllInit /\ [][AllNext]_allVars
  /\ Fairness /\ Stream!Fairness
  /\ part = "console" => Pipes!Fairness

-----------------------------------------------------------------------------
\* Interrupt: the state is of the types that the module gives; a run is reported as what it
\* was, wherever the signals came; and only a KeyboardInterrupt between the mask and the code
\* leaves SIGINT unmasked out of user code.
SignalsAreRight == TypeOK /\ ReportIsTrue /\ UnmaskedBySlip

\* Console: the state is of the types that the module gives; no typed line is lost, and none
\* is both read and given back; a line is read by the code it was typed for; the text view
\* shows as input what was typed and did not come back; and output is shown at most a pipe's
\* worth of commands late.
ConsoleIsRight ==
  /\ Pipes!TypeOK /\ Pipes!EachLineInOnePlace /\ Pipes!ReadInItsRun
  /\ Pipes!TextviewShowsRead /\ Pipes!OutputLag

\* ObjectStream: the stream implements the abstract queue of objects, ObjectQueue, and never
\* mixes the bytes of two.
StreamIsQueue == Stream!ImplementsQueue /\ [](Stream!TypeOK /\ Stream!PartsAreOfOne)

\* Interrupt: a run that is interrupted ends, unless its code catches that.  Console: a result is shown, however much output
\* there is, and only a full pipe, or the end of the code, holds up the GUI that writes.
\* ObjectStream: what was sent in whole arrives, or its receiver learns of the death
\* of the sender.
RunsEnd ==
  /\ InterruptEndsRun
  /\ part = "console" => Pipes!ResultIsShown
  /\ [](part = "console" => Pipes!StuckIfFull)
  /\ Stream!ArrivesOrFails

-----------------------------------------------------------------------------
\* The inductive invariant: what each place means for the run's record, and
\* where SIGINT may be unmasked.
RunRecord ==
  /\ pc \in ExecPcs => isExecuting /\ answer = "none"
  /\ answer # "none" => isExecuting
  /\ pc \in {"start", "unmasked", "user", "finally", "except", "else"} => ~stored
  /\ pc = "finally" /\ ~excepted => ran
  /\ pc = "except" => excepted
  /\ pc = "else" => ran /\ ~excepted
  /\ pc = "report" => IF excepted THEN ~stored ELSE ran /\ stored

SignalState ==
  /\ handler = "ignore" => ~tripped
  /\ CanMask /\ handler = "default" /\ ~slipped =>
       pc \in {"unmasked", "user", "finally", "dead"} \cup (IdlePcs \ {"qtIdle"})

SignalIInv == TypeOK /\ RunRecord /\ SignalState /\ ReportIsTrue

-----------------------------------------------------------------------------
(***************************************************************************)
(* Proofs of the safety properties of Interrupt, on platforms that can     *)
(* mask SIGINT and on those that cannot, whatever the toolkits loaded.     *)
(***************************************************************************)
USE CanMaskAssumption, ToolkitsAssumption

-----------------------------------------------------------------------------
(* Each part of the inductive invariant is preserved by every step.        *)

LEMMA SignalInit == Init => SignalIInv
BY DEF Init, SignalIInv, TypeOK, RunRecord, SignalState, ReportIsTrue, Pcs, ExecPcs, IdlePcs

LEMMA TypeOKStep == SignalIInv /\ [Next]_vars => TypeOK'
<1> SUFFICES ASSUME SignalIInv, [Next]_vars PROVE TypeOK'
  OBVIOUS
<1> USE DEF SignalIInv, TypeOK, Pcs, ExecPcs, IdlePcs, runVars, At, Raised
<1>1. CASE OnInterrupt
  BY <1>1 DEF OnInterrupt, Signal
<1>2. CASE ExecuteSource
  BY <1>2 DEF ExecuteSource
<1>3. CASE OnObjectRecv
  BY <1>3 DEF OnObjectRecv
<1>4. CASE OnSubpTerminated
  BY <1>4 DEF OnSubpTerminated
<1>5. CASE UnmaskForRun
  BY <1>5 DEF UnmaskForRun, UnmaskSigint
<1>6. CASE EnterCode
  BY <1>6 DEF EnterCode
<1>7. CASE CodeEnds
  BY <1>7 DEF CodeEnds
<1>8. CASE InterruptCaught \/ CodeInterrupted
  BY <1>8 DEF InterruptCaught, UserPcs, CodeInterrupted
<1>9. CASE MaskAfterRun
  BY <1>9 DEF MaskAfterRun, MaskSigint
<1>10. CASE MaskMissed
  BY <1>10 DEF MaskMissed
<1>11. CASE ExceptionCaught
  BY <1>11 DEF ExceptionCaught
<1>12. CASE StoreResult
  BY <1>12 DEF StoreResult
<1>13. CASE SendResult
  BY <1>13 DEF SendResult
<1>14. CASE IdleJob
  BY <1>14 DEF IdleJob, UnmaskSigint
<1>15. CASE EnterCallbacks
  BY <1>15 DEF EnterCallbacks
<1>16. CASE CallbacksEnd
  BY <1>16 DEF CallbacksEnd
<1>17. CASE CallbacksInterrupted
  BY <1>17 DEF CallbacksInterrupted
<1>18. CASE ReportInterrupt
  BY <1>18 DEF ReportInterrupt
<1>19. CASE MaskAfterCallbacks
  BY <1>19 DEF MaskAfterCallbacks, MaskSigint
<1>20. CASE QtCallbacksEnd
  BY <1>20 DEF QtCallbacksEnd
<1>21. CASE KilledBySignal
  BY <1>21 DEF KilledBySignal, Killed
<1>22. CASE UNCHANGED vars
  BY <1>22 DEF vars
<1> QED BY <1>1, <1>2, <1>3, <1>4, <1>5, <1>6, <1>7, <1>8, <1>9, <1>10, <1>11, <1>12, <1>13, <1>14,
    <1>15, <1>16, <1>17, <1>18, <1>19, <1>20, <1>21, <1>22
  DEF Next, GuiStep, SubprocessStep, UserStep

LEMMA RunRecordStep == SignalIInv /\ [Next]_vars => RunRecord'
<1> SUFFICES ASSUME SignalIInv, [Next]_vars PROVE RunRecord'
  OBVIOUS
<1> USE DEF SignalIInv, TypeOK, RunRecord, ExecPcs, IdlePcs, runVars, At, Raised
<1>1. CASE OnInterrupt
  BY <1>1 DEF OnInterrupt, Signal
<1>2. CASE ExecuteSource
  BY <1>2 DEF ExecuteSource
<1>3. CASE OnObjectRecv
  BY <1>3 DEF OnObjectRecv
<1>4. CASE OnSubpTerminated
  BY <1>4 DEF OnSubpTerminated
<1>5. CASE UnmaskForRun
  BY <1>5 DEF UnmaskForRun, UnmaskSigint
<1>6. CASE EnterCode
  BY <1>6 DEF EnterCode
<1>7. CASE CodeEnds
  BY <1>7 DEF CodeEnds
<1>8. CASE InterruptCaught \/ CodeInterrupted
  BY <1>8 DEF InterruptCaught, UserPcs, CodeInterrupted
<1>9. CASE MaskAfterRun
  BY <1>9 DEF MaskAfterRun, MaskSigint
<1>10. CASE MaskMissed
  BY <1>10 DEF MaskMissed
<1>11. CASE ExceptionCaught
  BY <1>11 DEF ExceptionCaught
<1>12. CASE StoreResult
  BY <1>12 DEF StoreResult
<1>13. CASE SendResult
  BY <1>13 DEF SendResult
<1>14. CASE IdleJob
  BY <1>14 DEF IdleJob, UnmaskSigint
<1>15. CASE EnterCallbacks
  BY <1>15 DEF EnterCallbacks
<1>16. CASE CallbacksEnd
  BY <1>16 DEF CallbacksEnd
<1>17. CASE CallbacksInterrupted
  BY <1>17 DEF CallbacksInterrupted
<1>18. CASE ReportInterrupt
  BY <1>18 DEF ReportInterrupt
<1>19. CASE MaskAfterCallbacks
  BY <1>19 DEF MaskAfterCallbacks, MaskSigint
<1>20. CASE QtCallbacksEnd
  BY <1>20 DEF QtCallbacksEnd
<1>21. CASE KilledBySignal
  BY <1>21 DEF KilledBySignal, Killed
<1>22. CASE UNCHANGED vars
  BY <1>22 DEF vars
<1> QED BY <1>1, <1>2, <1>3, <1>4, <1>5, <1>6, <1>7, <1>8, <1>9, <1>10, <1>11, <1>12, <1>13, <1>14,
    <1>15, <1>16, <1>17, <1>18, <1>19, <1>20, <1>21, <1>22
  DEF Next, GuiStep, SubprocessStep, UserStep

LEMMA SignalStateStep == SignalIInv /\ [Next]_vars => SignalState'
<1> SUFFICES ASSUME SignalIInv, [Next]_vars PROVE SignalState'
  OBVIOUS
<1> USE DEF SignalIInv, TypeOK, SignalState, IdlePcs, runVars, At, Raised
<1>1. CASE OnInterrupt
  BY <1>1 DEF OnInterrupt, Signal
<1>2. CASE ExecuteSource
  BY <1>2 DEF ExecuteSource
<1>3. CASE OnObjectRecv
  BY <1>3 DEF OnObjectRecv
<1>4. CASE OnSubpTerminated
  BY <1>4 DEF OnSubpTerminated
<1>5. CASE UnmaskForRun
  BY <1>5 DEF UnmaskForRun, UnmaskSigint
<1>6. CASE EnterCode
  BY <1>6 DEF EnterCode
<1>7. CASE CodeEnds
  BY <1>7 DEF CodeEnds
<1>8. CASE InterruptCaught \/ CodeInterrupted
  BY <1>8 DEF InterruptCaught, UserPcs, CodeInterrupted
<1>9. CASE MaskAfterRun
  BY <1>9 DEF MaskAfterRun, MaskSigint
<1>10. CASE MaskMissed
  BY <1>10 DEF MaskMissed
<1>11. CASE ExceptionCaught
  BY <1>11 DEF ExceptionCaught
<1>12. CASE StoreResult
  BY <1>12 DEF StoreResult
<1>13. CASE SendResult
  BY <1>13 DEF SendResult
<1>14. CASE IdleJob
  BY <1>14 DEF IdleJob, UnmaskSigint
<1>15. CASE EnterCallbacks
  BY <1>15 DEF EnterCallbacks
<1>16. CASE CallbacksEnd
  BY <1>16 DEF CallbacksEnd
<1>17. CASE CallbacksInterrupted
  BY <1>17 DEF CallbacksInterrupted
<1>18. CASE ReportInterrupt
  BY <1>18 DEF ReportInterrupt
<1>19. CASE MaskAfterCallbacks
  BY <1>19 DEF MaskAfterCallbacks, MaskSigint
<1>20. CASE QtCallbacksEnd
  BY <1>20 DEF QtCallbacksEnd
<1>21. CASE KilledBySignal
  BY <1>21 DEF KilledBySignal, Killed
<1>22. CASE UNCHANGED vars
  BY <1>22 DEF vars
<1> QED BY <1>1, <1>2, <1>3, <1>4, <1>5, <1>6, <1>7, <1>8, <1>9, <1>10, <1>11, <1>12, <1>13, <1>14,
    <1>15, <1>16, <1>17, <1>18, <1>19, <1>20, <1>21, <1>22
  DEF Next, GuiStep, SubprocessStep, UserStep

LEMMA ReportIsTrueStep == SignalIInv /\ [Next]_vars => ReportIsTrue'
<1> SUFFICES ASSUME SignalIInv, [Next]_vars PROVE ReportIsTrue'
  OBVIOUS
<1> USE DEF SignalIInv, TypeOK, RunRecord, ReportIsTrue, ExecPcs, runVars, At, Raised
<1>1. CASE OnInterrupt
  BY <1>1 DEF OnInterrupt, Signal
<1>2. CASE ExecuteSource
  BY <1>2 DEF ExecuteSource
<1>3. CASE OnObjectRecv
  BY <1>3 DEF OnObjectRecv
<1>4. CASE OnSubpTerminated
  BY <1>4 DEF OnSubpTerminated
<1>5. CASE UnmaskForRun
  BY <1>5 DEF UnmaskForRun, UnmaskSigint
<1>6. CASE EnterCode
  BY <1>6 DEF EnterCode
<1>7. CASE CodeEnds
  BY <1>7 DEF CodeEnds
<1>8. CASE InterruptCaught \/ CodeInterrupted
  BY <1>8 DEF InterruptCaught, UserPcs, CodeInterrupted
<1>9. CASE MaskAfterRun
  BY <1>9 DEF MaskAfterRun, MaskSigint
<1>10. CASE MaskMissed
  BY <1>10 DEF MaskMissed
<1>11. CASE ExceptionCaught
  BY <1>11 DEF ExceptionCaught
<1>12. CASE StoreResult
  BY <1>12 DEF StoreResult
<1>13. CASE SendResult
  BY <1>13 DEF SendResult
<1>14. CASE IdleJob
  BY <1>14 DEF IdleJob, UnmaskSigint
<1>15. CASE EnterCallbacks
  BY <1>15 DEF EnterCallbacks
<1>16. CASE CallbacksEnd
  BY <1>16 DEF CallbacksEnd
<1>17. CASE CallbacksInterrupted
  BY <1>17 DEF CallbacksInterrupted
<1>18. CASE ReportInterrupt
  BY <1>18 DEF ReportInterrupt
<1>19. CASE MaskAfterCallbacks
  BY <1>19 DEF MaskAfterCallbacks, MaskSigint
<1>20. CASE QtCallbacksEnd
  BY <1>20 DEF QtCallbacksEnd
<1>21. CASE KilledBySignal
  BY <1>21 DEF KilledBySignal, Killed
<1>22. CASE UNCHANGED vars
  BY <1>22 DEF vars
<1> QED BY <1>1, <1>2, <1>3, <1>4, <1>5, <1>6, <1>7, <1>8, <1>9, <1>10, <1>11, <1>12, <1>13, <1>14,
    <1>15, <1>16, <1>17, <1>18, <1>19, <1>20, <1>21, <1>22
  DEF Next, GuiStep, SubprocessStep, UserStep

\* The inductive invariant holds of every reachable state.
THEOREM SignalsInductive == Spec => []SignalIInv
<1>1. SignalIInv /\ [Next]_vars => SignalIInv'
  BY TypeOKStep, RunRecordStep, SignalStateStep, ReportIsTrueStep DEF SignalIInv
<1> QED BY SignalInit, <1>1, PTL DEF Spec

-----------------------------------------------------------------------------
(* The properties that the runs check.                                     *)

\* What execute() reports to the GUI is true of the run, and only a KeyboardInterrupt between
\* the mask and the code leaves SIGINT unmasked out of user code.
THEOREM SignalsRight == Spec => []SignalsAreRight
<1>1. SignalIInv => TypeOK /\ ReportIsTrue
  BY DEF SignalIInv
<1>2. SignalIInv => UnmaskedBySlip
  BY DEF SignalIInv, SignalState, UnmaskedBySlip, TypeOK, IdlePcs
<1>3. SignalIInv => SignalsAreRight
  BY <1>1, <1>2 DEF SignalsAreRight
<1> QED BY SignalsInductive, <1>3, PTL

\* A step that ends the subprocess is the KeyboardInterrupt of an unmasked SIGINT.
LEMMA DeathStep ==
  SignalIInv /\ Next /\ pc' = "dead" /\ pc # "dead" => KilledBySignal
BY DEF Next, GuiStep, SubprocessStep, UserStep, OnInterrupt, Signal, ExecuteSource,
       OnObjectRecv, OnSubpTerminated, UnmaskForRun, EnterCode, CodeEnds,
       InterruptCaught, CodeInterrupted, MaskAfterRun, MaskMissed, ExceptionCaught, StoreResult,
       SendResult, IdleJob, EnterCallbacks, CallbacksEnd, CallbacksInterrupted,
       ReportInterrupt, MaskAfterCallbacks, QtCallbacksEnd

\* No run is ended by the first SIGINT, nor is the subprocess between runs
\* (RunSurvivesInterrupt).
THEOREM RunSurvives == Spec => RunSurvivesInterrupt
<1> DEFINE Survives ==
      (CanMask /\ pc' = "dead" /\ pc # "dead") => slipped \/ pc \in IdlePcs \ {"idle"}
<1>1. SignalIInv /\ [Next]_vars => [Survives]_vars
  <2> SUFFICES ASSUME SignalIInv, Next, CanMask, pc' = "dead", pc # "dead", ~slipped
               PROVE pc \in IdlePcs \ {"idle"}
    OBVIOUS
  <2>1. KilledBySignal
    BY DeathStep
  <2>2. tripped /\ pc \notin {"dead", "unmasked", "user", "finally", "idle"}
    BY <2>1 DEF KilledBySignal, Raised
  <2>3. handler = "default"
    BY <2>2 DEF SignalIInv, SignalState, TypeOK
  <2> QED BY <2>2, <2>3 DEF SignalIInv, SignalState, IdlePcs
<1> QED BY SignalsInductive, <1>1, PTL DEF Spec, RunSurvivesInterrupt

-----------------------------------------------------------------------------
\* Without code that runs, the subprocess waits and no result is on its way.
PipesControl ==
  /\ executing \in BOOLEAN /\ run \in Nat
  /\ sub # "waits" => executing /\ run > 0 /\ sock = <<>>
  /\ sock # <<>> => executing
  /\ sock = <<>> \/ \E rem : sock = << rem >>
  /\ sub # "returns" => left = <<>>

\* The piece at k of the pipe was written fewer commands ago than the pipe has places for
\* it to go through, and one more while a poll has still to take a piece from the pipe.
PipesLag ==
  /\ outPipe \in Seq(Nat) /\ Len(outPipe) <= OutCap
  /\ \A k \in 1 .. Len(outPipe) :
       run - outPipe[k] <= IF executing /\ gui # "socket" THEN OutCap - k + 1 ELSE OutCap - k
  /\ Pipes!OutputLag

\* No step breaks it.
LEMMA ControlStep ==
  ASSUME PipesControl, [Pipes!Next]_Pipes!vars PROVE PipesControl'
<1> USE DEF PipesControl, Pipes!guiVars, Pipes!subVars
<1>1. CASE Pipes!Execute
  BY <1>1 DEF Pipes!Execute
<1>2. CASE Pipes!SendStdin
  BY <1>2 DEF Pipes!SendStdin
<1>3. CASE Pipes!GoOnWriting
  BY <1>3 DEF Pipes!GoOnWriting
<1>4. CASE Pipes!PollOutput
  BY <1>4 DEF Pipes!PollOutput
<1>5. CASE Pipes!PollSocket
  <2>1. sock' = <<>> \/ (sock' = sock /\ sock = <<>>)
    BY <1>5 DEF Pipes!PollSocket, Pipes!ShowResult
  <2>2. executing' \in BOOLEAN /\ UNCHANGED <<run, sub, left>> /\ (sub # "waits" => executing')
    BY <1>5 DEF Pipes!PollSocket, Pipes!ShowResult
  <2> QED
    BY <2>1, <2>2
<1>6. CASE Pipes!Discard
  BY <1>6 DEF Pipes!Discard
<1>7. CASE Pipes!BeginWrite \/ Pipes!WritePiece \/ Pipes!ReadLine
  BY <1>7 DEF Pipes!BeginWrite, Pipes!WritePiece, Pipes!ReadLine
<1>8. CASE Pipes!Drain
  BY <1>8 DEF Pipes!Drain
<1>9. CASE Pipes!Return
  BY <1>9 DEF Pipes!Return
<1>10. CASE UNCHANGED Pipes!vars
  BY <1>10 DEF Pipes!vars
<1> QED
  BY <1>1, <1>2, <1>3, <1>4, <1>5, <1>6, <1>7, <1>8, <1>9, <1>10
     DEF Pipes!Next, Pipes!GuiStep, Pipes!SubStep

\* Each piece gets on in the pipe by as many places as there are commands.
LEMMA LagStep ==
  ASSUME Pipes!ConstantsFit, PipesControl, PipesLag, [Pipes!Next]_Pipes!vars PROVE PipesLag'
<1> USE DEF Pipes!OutputLag, Pipes!guiVars, Pipes!subVars
<1>0. /\ executing \in BOOLEAN /\ run \in Nat /\ OutCap \in Nat \ {0}
      /\ outPipe \in Seq(Nat) /\ Len(outPipe) <= OutCap
      /\ \A k \in 1 .. Len(outPipe) : outPipe[k] \in Nat
  BY DEF Pipes!ConstantsFit, PipesControl, PipesLag
<1>1. CASE Pipes!Execute
  BY <1>0, <1>1 DEF Pipes!Execute, PipesLag
<1>2. CASE Pipes!SendStdin \/ Pipes!GoOnWriting \/ Pipes!Discard
  <2>1. gui # "socket" /\ gui' # "socket" /\ UNCHANGED <<executing, run, outPipe, shown>>
    BY <1>2 DEF Pipes!SendStdin, Pipes!GoOnWriting, Pipes!Discard, Pipes!WriteTo
  <2> QED
    BY <2>1 DEF PipesLag
<1>3. CASE Pipes!PollOutput
  <2>1. gui # "socket" /\ gui' = "socket" /\ UNCHANGED <<executing, run>>
    BY <1>3 DEF Pipes!PollOutput
  <2>2. CASE outPipe = <<>>
    BY <1>0, <1>3, <2>1, <2>2 DEF Pipes!PollOutput, PipesLag
  <2>3. CASE outPipe # <<>>
    <3>1. outPipe' = Tail(outPipe) /\ shown' = [of |-> outPipe[1], section |-> run]
      BY <1>3, <2>3 DEF Pipes!PollOutput
    <3>2. /\ outPipe' \in Seq(Nat) /\ Len(outPipe') = Len(outPipe) - 1 /\ Len(outPipe) > 0
          /\ \A k \in 1 .. Len(outPipe) - 1 : outPipe'[k] = outPipe[k + 1]
      BY <1>0, <2>3, <3>1
    <3>3. \A k \in 1 .. Len(outPipe) : run - outPipe[k] <= OutCap - k + 1
      BY <1>0 DEF PipesLag
    <3>4. shown'.section - shown'.of <= OutCap
      BY <1>0, <3>1, <3>2, <3>3
    <3>6. ASSUME NEW k \in 1 .. Len(outPipe) - 1 PROVE run - outPipe'[k] <= OutCap - k
      <4>1. k + 1 \in 1 .. Len(outPipe) /\ outPipe'[k] = outPipe[k + 1]
        BY <1>0, <3>2
      <4>2. outPipe[k + 1] \in Nat /\ run - outPipe[k + 1] <= OutCap - (k + 1) + 1
        BY <1>0, <3>3, <4>1
      <4> QED
        BY <1>0, <4>1, <4>2
    <3>5. \A k \in 1 .. Len(outPipe') : run - outPipe'[k] <= OutCap - k
      BY <3>2, <3>6
    <3> QED
      BY <1>0, <2>1, <3>2, <3>4, <3>5 DEF PipesLag
  <2> QED
    BY <2>2, <2>3
<1>4. CASE Pipes!PollSocket
  <2>1. gui = "socket" /\ UNCHANGED <<run, outPipe, shown>> /\ executing' \in BOOLEAN
    BY <1>0, <1>4 DEF Pipes!PollSocket, Pipes!ShowResult
  <2>2. \A k \in 1 .. Len(outPipe) : run - outPipe[k] <= OutCap - k /\ OutCap - k <= OutCap - k + 1
    BY <1>0, <2>1 DEF PipesLag
  <2>3. \A k \in 1 .. Len(outPipe) : run - outPipe[k] <= OutCap - k + 1
    BY <1>0, <2>2
  <2> QED
    BY <2>1, <2>2, <2>3 DEF PipesLag
<1>5. CASE Pipes!BeginWrite \/ Pipes!ReadLine \/ Pipes!Drain \/ Pipes!Return \/ UNCHANGED Pipes!vars
  <2>1. UNCHANGED <<gui, executing, run, outPipe, shown>>
    BY <1>5 DEF Pipes!BeginWrite, Pipes!ReadLine, Pipes!Drain, Pipes!Return, Pipes!vars
  <2> QED
    BY <2>1 DEF PipesLag
<1>6. CASE Pipes!WritePiece
  <2>1. outPipe' = Append(outPipe, run) /\ UNCHANGED <<gui, executing, run, shown>>
        /\ Len(outPipe) < OutCap
    BY <1>6 DEF Pipes!WritePiece
  <2>2. /\ outPipe' \in Seq(Nat) /\ Len(outPipe') = Len(outPipe) + 1
        /\ \A k \in 1 .. Len(outPipe) : outPipe'[k] = outPipe[k]
        /\ outPipe'[Len(outPipe) + 1] = run
    BY <1>0, <2>1
  <2>3. \A k \in 1 .. Len(outPipe') : k \in 1 .. Len(outPipe)
        \/ (k = Len(outPipe) + 1 /\ k <= OutCap)
    BY <1>0, <2>1, <2>2
  <2>4. \A k \in 1 .. Len(outPipe') : k = Len(outPipe) + 1 =>
          run - outPipe'[k] <= OutCap - k /\ run - outPipe'[k] <= OutCap - k + 1
    BY <1>0, <2>2, <2>3
  <2> QED
    BY <1>0, <2>1, <2>2, <2>3, <2>4 DEF PipesLag
<1> QED
  BY <1>1, <1>2, <1>3, <1>4, <1>5, <1>6 DEF Pipes!Next, Pipes!GuiStep, Pipes!SubStep

-----------------------------------------------------------------------------
LinesIn(s) == {s[i] : i \in 1 .. Len(s)}
Distinct(s) == \A i, j \in 1 .. Len(s) : s[i] = s[j] => i = j
IsLines(s) == s \in Seq(Nat) /\ Distinct(s)

\* Cut in two, distinct lines are apart.
LEMMA CutLines ==
  ASSUME NEW s, IsLines(s), NEW n \in 0 .. Len(s)
  PROVE  /\ IsLines(SubSeq(s, 1, n)) /\ IsLines(SubSeq(s, n + 1, Len(s)))
         /\ LinesIn(SubSeq(s, 1, n)) \cup LinesIn(SubSeq(s, n + 1, Len(s))) = LinesIn(s)
         /\ LinesIn(SubSeq(s, 1, n)) \cap LinesIn(SubSeq(s, n + 1, Len(s))) = {}
<1> DEFINE p == SubSeq(s, 1, n)
           q == SubSeq(s, n + 1, Len(s))
<1>0. s \in Seq(Nat) /\ Distinct(s) /\ Len(s) \in Nat
  BY DEF IsLines
<1>1. p \in Seq(Nat) /\ Len(p) = n /\ \A i \in 1 .. n : p[i] = s[i]
  BY <1>0
<1>2. q \in Seq(Nat) /\ Len(q) = Len(s) - n /\ \A i \in 1 .. Len(s) - n : q[i] = s[n + i]
  BY <1>0
<1> HIDE DEF p, q
<1>3. IsLines(p)
  BY <1>0, <1>1 DEF IsLines, Distinct
<1>4. IsLines(q)
  <2>1. \A i \in 1 .. Len(s) - n : n + i \in 1 .. Len(s)
    BY <1>0
  <2>2. ASSUME NEW i \in 1 .. Len(s) - n, NEW j \in 1 .. Len(s) - n, q[i] = q[j] PROVE i = j
    <3>1. s[n + i] = s[n + j]
      BY <1>2, <2>2
    <3>2. n + i = n + j
      BY <1>0, <2>1, <3>1 DEF Distinct
    <3> QED
      BY <3>2
  <2> QED
    BY <1>2, <2>2 DEF IsLines, Distinct
<1>5. LinesIn(p) \cap LinesIn(q) = {}
  <2>1. ASSUME NEW i \in 1 .. n, NEW j \in 1 .. Len(s) - n PROVE p[i] # q[j]
    <3>1. i \in 1 .. Len(s) /\ n + j \in 1 .. Len(s) /\ i # n + j
      BY <1>0
    <3> QED
      BY <1>0, <1>1, <1>2, <3>1 DEF Distinct
  <2> QED
    BY <1>1, <1>2, <2>1 DEF LinesIn
<1>6. LinesIn(p) \cup LinesIn(q) = LinesIn(s)
  <2>1. LinesIn(p) \subseteq LinesIn(s)
    BY <1>0, <1>1 DEF LinesIn
  <2>2. LinesIn(q) \subseteq LinesIn(s)
    <3>1. \A i \in 1 .. Len(s) - n : n + i \in 1 .. Len(s)
      BY <1>0
    <3> QED
      BY <1>2, <3>1 DEF LinesIn
  <2>3. ASSUME NEW i \in 1 .. Len(s) PROVE s[i] \in LinesIn(p) \cup LinesIn(q)
    <3>1. CASE i <= n
      BY <1>0, <1>1, <3>1 DEF LinesIn
    <3>2. CASE i > n
      <4>1. i - n \in 1 .. Len(s) - n /\ n + (i - n) = i
        BY <1>0, <3>2
      <4> QED
        BY <1>2, <4>1 DEF LinesIn
    <3> QED
      BY <1>0, <3>1, <3>2
  <2> QED
    BY <2>1, <2>2, <2>3 DEF LinesIn
<1> QED
  BY <1>3, <1>4, <1>5, <1>6 DEF p, q

\* Put together, lines that are apart are distinct.
LEMMA JoinLines ==
  ASSUME NEW s, IsLines(s), NEW t, IsLines(t), LinesIn(s) \cap LinesIn(t) = {}
  PROVE  /\ IsLines(s \o t) /\ LinesIn(s \o t) = LinesIn(s) \cup LinesIn(t)
<1>0. s \in Seq(Nat) /\ Distinct(s) /\ t \in Seq(Nat) /\ Distinct(t) /\ Len(s) \in Nat
      /\ Len(t) \in Nat
  BY DEF IsLines
<1> DEFINE u == s \o t
<1>1. /\ u \in Seq(Nat) /\ Len(u) = Len(s) + Len(t)
      /\ \A i \in 1 .. Len(s) : u[i] = s[i]
      /\ \A i \in 1 .. Len(t) : u[Len(s) + i] = t[i]
  BY <1>0
<1> HIDE DEF u
<1>2. \A i \in 1 .. Len(u) :
        i \in 1 .. Len(s) \/ (i - Len(s) \in 1 .. Len(t) /\ i = Len(s) + (i - Len(s)))
  BY <1>0, <1>1
<1>3. \A i \in 1 .. Len(u) :
        \/ i \in 1 .. Len(s) /\ u[i] = s[i]
        \/ i - Len(s) \in 1 .. Len(t) /\ u[i] = t[i - Len(s)]
  BY <1>1, <1>2
<1>4. \A i \in 1 .. Len(s), j \in 1 .. Len(t) : s[i] # t[j]
  BY DEF LinesIn
<1>5. Distinct(u)
  <2> SUFFICES ASSUME NEW i \in 1 .. Len(u), NEW j \in 1 .. Len(u), u[i] = u[j] PROVE i = j
    BY DEF Distinct
  <2>1. CASE i \in 1 .. Len(s) /\ j \in 1 .. Len(s)
    BY <1>0, <1>1, <2>1 DEF Distinct
  <2>2. CASE i - Len(s) \in 1 .. Len(t) /\ j - Len(s) \in 1 .. Len(t)
    <3>1. t[i - Len(s)] = t[j - Len(s)]
      <4>1. \A k \in 1 .. Len(u) : k = Len(s) + (k - Len(s))
        BY <1>0, <1>1
      <4>2. u[i] = t[i - Len(s)] /\ u[j] = t[j - Len(s)]
        BY <1>1, <2>2, <4>1
      <4> QED
        BY <4>2
    <3>2. i - Len(s) = j - Len(s)
      BY <1>0, <2>2, <3>1 DEF Distinct
    <3> QED
      BY <1>0, <1>1, <3>2
  <2> QED
    BY <1>3, <1>4, <2>1, <2>2
<1>6. LinesIn(u) \subseteq LinesIn(s) \cup LinesIn(t)
  BY <1>3 DEF LinesIn
<1>7. LinesIn(s) \subseteq LinesIn(u)
  BY <1>0, <1>1 DEF LinesIn
<1>8. LinesIn(t) \subseteq LinesIn(u)
  <2>1. \A i \in 1 .. Len(t) : Len(s) + i \in 1 .. Len(u)
    BY <1>0, <1>1
  <2> QED
    BY <1>1, <2>1 DEF LinesIn
<1> QED
  BY <1>1, <1>5, <1>6, <1>7, <1>8 DEF u, IsLines

\* Without its head, a line is gone.
LEMMA TailLines ==
  ASSUME NEW s, IsLines(s), s # <<>>
  PROVE  /\ IsLines(Tail(s)) /\ LinesIn(Tail(s)) = LinesIn(s) \ {Head(s)} /\ Head(s) \in LinesIn(s)
<1>0. s \in Seq(Nat) /\ Len(s) \in Nat /\ Len(s) > 0
  BY DEF IsLines
<1> DEFINE t == Tail(s)
<1>1. /\ t \in Seq(Nat) /\ Len(t) = Len(s) - 1 /\ Head(s) = s[1]
      /\ \A i \in 1 .. Len(s) - 1 : t[i] = s[i + 1]
  BY <1>0
<1> HIDE DEF t
<1>2. \A i \in 1 .. Len(s) - 1 : i + 1 \in 1 .. Len(s) /\ i + 1 # 1
  BY <1>0
<1>3. ASSUME NEW i \in 1 .. Len(s) - 1, NEW j \in 1 .. Len(s) - 1, t[i] = t[j] PROVE i = j
  <2>1. s[i + 1] = s[j + 1]
    BY <1>1, <1>3
  <2>2. i + 1 = j + 1
    BY <1>2, <2>1 DEF IsLines, Distinct
  <2> QED
    BY <2>2
<1>4. IsLines(t)
  BY <1>1, <1>3 DEF IsLines, Distinct
<1>5. Head(s) \in LinesIn(s) /\ Head(s) \notin LinesIn(t)
  <2>1. 1 \in 1 .. Len(s)
    BY <1>0
  <2> QED
    <3>1. \A i \in 1 .. Len(s) - 1 : s[i + 1] # s[1]
      BY <1>2, <2>1 DEF IsLines, Distinct
    <3>2. s[1] \in LinesIn(s)
      BY <2>1 DEF LinesIn
    <3> QED
      BY <1>1, <3>1, <3>2 DEF LinesIn
<1>6. LinesIn(t) \subseteq LinesIn(s)
  BY <1>1, <1>2 DEF LinesIn
<1>7. ASSUME NEW i \in 1 .. Len(s), i # 1 PROVE s[i] \in LinesIn(t)
  <2>1. i - 1 \in 1 .. Len(s) - 1 /\ (i - 1) + 1 = i
    BY <1>0, <1>7
  <2>2. t[i - 1] = s[i]
    BY <1>1, <2>1
  <2> QED
    BY <1>1, <2>1, <2>2 DEF LinesIn
<1>8. LinesIn(s) \subseteq LinesIn(t) \cup {Head(s)}
  BY <1>1, <1>7 DEF LinesIn
<1> QED
  BY <1>4, <1>5, <1>6, <1>8 DEF t

-----------------------------------------------------------------------------
\* The lines that were left when the code ended, and those that were read.
Returning == IF sock = <<>> THEN left ELSE Head(sock)
Read == {l \in 1 .. lines : readBy[l] # 0}

\* The sets partition the lines.
Partition(L, W, P, A, B, R, S) ==
  /\ W \cup P \cup A \cup B \cup R \cup S = L
  /\ W \cap (P \cup A \cup B \cup R \cup S) = {} /\ P \cap (A \cup B \cup R \cup S) = {}
  /\ A \cap (B \cup R \cup S) = {} /\ B \cap (R \cup S) = {} /\ R \cap S = {}

PipesPlaces ==
  /\ lines \in Nat /\ readBy \in Seq(Nat) /\ Len(readBy) = lines
  /\ IsLines(toWrite) /\ IsLines(inPipe) /\ IsLines(ahead) /\ Len(inPipe) <= InCap
  /\ Returning \in Seq(Nat)
  /\ gui # "writing" => toWrite = <<>>
  /\ Partition(1 .. lines, LinesIn(toWrite), LinesIn(inPipe), LinesIn(ahead),
               LinesIn(Returning), Read, sourcebox)

\* The elements of two sequences in one.
LEMMA Concatenated ==
  ASSUME NEW S, NEW s \in Seq(S), NEW t \in Seq(S)
  PROVE  /\ s \o t \in Seq(S) /\ Len(s \o t) = Len(s) + Len(t)
         /\ \A i \in 1 .. Len(s) : (s \o t)[i] = s[i]
         /\ \A i \in 1 .. Len(t) : (s \o t)[Len(s) + i] = t[i]
OBVIOUS

\* Nothing holds no lines.
LEMMA NoLines == LinesIn(<<>>) = {} /\ IsLines(<<>>)
BY DEF LinesIn, IsLines, Distinct

\* What is written goes from the one to the other.
LEMMA WriteMoves ==
  ASSUME Pipes!ConstantsFit, IsLines(inPipe), Len(inPipe) <= InCap, NEW ls, IsLines(ls),
         LinesIn(inPipe) \cap LinesIn(ls) = {}, Pipes!WriteTo(inPipe, ls)
  PROVE  /\ IsLines(inPipe') /\ IsLines(toWrite') /\ Len(inPipe') <= InCap
         /\ gui' # "writing" => toWrite' = <<>>
         /\ LinesIn(toWrite') \cup LinesIn(inPipe') = LinesIn(inPipe) \cup LinesIn(ls)
         /\ LinesIn(toWrite') \cap LinesIn(inPipe') = {}
<1> DEFINE room == InCap - Len(inPipe)
           n == IF Len(ls) < room THEN Len(ls) ELSE room
           p == SubSeq(ls, 1, n)
           q == SubSeq(ls, n + 1, Len(ls))
<1>1. inPipe' = inPipe \o p /\ toWrite' = q /\ gui' = IF n = Len(ls) THEN "loop" ELSE "writing"
  BY DEF Pipes!WriteTo
<1>2. inPipe \in Seq(Nat) /\ ls \in Seq(Nat) /\ Len(inPipe) \in Nat /\ Len(ls) \in Nat
      /\ InCap \in Nat
  BY DEF IsLines, Pipes!ConstantsFit
<1>3. n \in 0 .. Len(ls) /\ Len(inPipe) + n <= InCap
  BY <1>2
<1> HIDE DEF n
<1>4. n = Len(ls) => q = <<>>
  <2>1. q \in Seq(Nat) /\ Len(q) = Len(ls) - n
    BY <1>2, <1>3
  <2> HIDE DEF q
  <2> QED
    BY <1>2, <2>1
<1>5. Len(p) = n /\ p \in Seq(Nat)
  BY <1>2, <1>3
<1> HIDE DEF p, q
<1>6. /\ IsLines(p) /\ IsLines(q) /\ LinesIn(p) \cup LinesIn(q) = LinesIn(ls)
      /\ LinesIn(p) \cap LinesIn(q) = {}
  BY <1>3, CutLines DEF p, q
<1>7. IsLines(inPipe \o p) /\ LinesIn(inPipe \o p) = LinesIn(inPipe) \cup LinesIn(p)
  <2>1. LinesIn(inPipe) \cap LinesIn(p) = {}
    BY <1>6
  <2> QED
    BY <1>6, <2>1, JoinLines
<1>8. Len(inPipe \o p) = Len(inPipe) + n
  <2>1. Len(inPipe \o p) = Len(inPipe) + Len(p)
    BY <1>2, <1>5, Concatenated
  <2> QED
    BY <1>5, <2>1
<1>9. gui' # "writing" => toWrite' = <<>>
  BY <1>1, <1>4
<1> QED
  BY <1>1, <1>3, <1>6, <1>7, <1>8, <1>9

\* New lines go to the pipe, and what it has no room for is to be written.
LEMMA PlacesSend ==
  ASSUME Pipes!ConstantsFit, PipesControl, PipesPlaces, Pipes!SendStdin PROVE PipesPlaces'
<1>1. PICK n \in 1 .. MaxLines - lines :
        /\ lines' = lines + n
        /\ readBy' = readBy \o [i \in 1 .. n |-> 0]
        /\ Pipes!WriteTo(inPipe, [i \in 1 .. n |-> lines + i])
  BY DEF Pipes!SendStdin
<1>2. toWrite = <<>> /\ UNCHANGED <<left, sock, ahead, sourcebox>>
  BY DEF Pipes!SendStdin, PipesPlaces
<1> DEFINE ls == [i \in 1 .. n |-> lines + i]
           zs == [i \in 1 .. n |-> 0]
<1>3. lines \in Nat /\ n \in Nat /\ readBy \in Seq(Nat) /\ Len(readBy) = lines
  BY DEF PipesPlaces, Pipes!ConstantsFit
<1>4. IsLines(ls) /\ LinesIn(ls) = lines + 1 .. lines + n
  <2>1. ls \in Seq(Nat) /\ Len(ls) = n /\ \A i \in 1 .. n : ls[i] = lines + i
    BY <1>3
  <2> HIDE DEF ls
  <2>2. Distinct(ls)
    BY <1>3, <2>1 DEF Distinct
  <2>3. LinesIn(ls) \subseteq lines + 1 .. lines + n
    BY <1>3, <2>1 DEF LinesIn
  <2>4. ASSUME NEW l \in lines + 1 .. lines + n PROVE l \in LinesIn(ls)
    <3>1. l - lines \in 1 .. n /\ l = lines + (l - lines)
      BY <1>3
    <3> QED
      BY <2>1, <3>1 DEF LinesIn
  <2> QED
    BY <2>1, <2>2, <2>3, <2>4 DEF IsLines
<1> HIDE DEF ls
<1>5. /\ readBy' \in Seq(Nat) /\ Len(readBy') = lines'
      /\ \A l \in 1 .. lines : readBy'[l] = readBy[l]
      /\ \A l \in lines + 1 .. lines + n : readBy'[l] = 0
  <2>1. zs \in Seq(Nat) /\ Len(zs) = n /\ \A i \in 1 .. n : zs[i] = 0
    BY <1>3
  <2>2. readBy' = readBy \o zs
    BY <1>1
  <2> HIDE DEF zs
  <2>3. \A l \in lines + 1 .. lines + n : l - lines \in 1 .. n /\ l = lines + (l - lines)
    BY <1>3
  <2>4. /\ readBy' \in Seq(Nat) /\ Len(readBy') = lines + n
        /\ \A i \in 1 .. n : readBy'[lines + i] = zs[i]
        /\ \A l \in 1 .. lines : readBy'[l] = readBy[l]
    <3>1. /\ readBy \o zs \in Seq(Nat) /\ Len(readBy \o zs) = Len(readBy) + Len(zs)
          /\ \A i \in 1 .. Len(zs) : (readBy \o zs)[Len(readBy) + i] = zs[i]
          /\ \A l \in 1 .. Len(readBy) : (readBy \o zs)[l] = readBy[l]
      <4>1. readBy \in Seq(Nat) /\ zs \in Seq(Nat)
        BY <1>3, <2>1
      <4> QED
        BY <4>1, Concatenated
    <3> QED
      BY <1>3, <2>1, <2>2, <3>1
  <2>5. \A l \in lines + 1 .. lines + n : readBy'[l] = 0
    BY <2>1, <2>3, <2>4
  <2> QED
    BY <1>1, <2>4, <2>5
<1>6. Read' = Read
  <2>1. \A l \in 1 .. lines' : l \in 1 .. lines \/ l \in lines + 1 .. lines + n
    BY <1>1, <1>3
  <2>2. \A l \in 1 .. lines : l \in 1 .. lines'
    BY <1>1, <1>3
  <2> QED
    BY <1>5, <2>1, <2>2 DEF Read
<1>7. LinesIn(inPipe) \cap LinesIn(ls) = {}
      /\ 1 .. lines' = (1 .. lines) \cup (lines + 1 .. lines + n)
      /\ (1 .. lines) \cap (lines + 1 .. lines + n) = {}
  <2>1. 1 .. lines' = (1 .. lines) \cup (lines + 1 .. lines + n)
        /\ (1 .. lines) \cap (lines + 1 .. lines + n) = {}
    BY <1>1, <1>3
  <2>2. LinesIn(inPipe) \subseteq 1 .. lines
    BY DEF PipesPlaces, Partition
  <2> QED
    BY <1>4, <2>1, <2>2
<1>8. /\ IsLines(inPipe') /\ IsLines(toWrite') /\ Len(inPipe') <= InCap
      /\ gui' # "writing" => toWrite' = <<>>
      /\ LinesIn(toWrite') \cup LinesIn(inPipe') = LinesIn(inPipe) \cup LinesIn(ls)
      /\ LinesIn(toWrite') \cap LinesIn(inPipe') = {}
  BY <1>1, <1>4, <1>7, WriteMoves DEF PipesPlaces, ls
<1>9. Returning' = Returning
  BY <1>2 DEF Returning
<1>10. Partition(1 .. lines', LinesIn(toWrite'), LinesIn(inPipe'), LinesIn(ahead),
                 LinesIn(Returning), Read, sourcebox)
  BY <1>2, <1>4, <1>7, <1>8, NoLines DEF PipesPlaces, Partition
<1>11. lines' \in Nat
  BY <1>1, <1>3
<1> QED
  BY <1>2, <1>5, <1>6, <1>8, <1>9, <1>10, <1>11 DEF PipesPlaces

\* More of them go to the pipe.
LEMMA PlacesWrite ==
  ASSUME Pipes!ConstantsFit, PipesControl, PipesPlaces, Pipes!GoOnWriting PROVE PipesPlaces'
<1>1. Pipes!WriteTo(inPipe, toWrite) /\ UNCHANGED <<lines, left, sock, ahead, sourcebox, readBy>>
  BY DEF Pipes!GoOnWriting
<1>2. LinesIn(inPipe) \cap LinesIn(toWrite) = {}
  BY DEF PipesPlaces, Partition
<1>3. /\ IsLines(inPipe') /\ IsLines(toWrite') /\ Len(inPipe') <= InCap
      /\ gui' # "writing" => toWrite' = <<>>
      /\ LinesIn(toWrite') \cup LinesIn(inPipe') = LinesIn(inPipe) \cup LinesIn(toWrite)
      /\ LinesIn(toWrite') \cap LinesIn(inPipe') = {}
  BY <1>1, <1>2, WriteMoves DEF PipesPlaces
<1>4. Returning' = Returning /\ Read' = Read
  BY <1>1 DEF Returning, Read
<1>5. Partition(1 .. lines, LinesIn(toWrite'), LinesIn(inPipe'), LinesIn(ahead),
                LinesIn(Returning), Read, sourcebox)
  BY <1>3 DEF PipesPlaces, Partition
<1> QED
  BY <1>1, <1>3, <1>4, <1>5 DEF PipesPlaces

\* What comes back is in the source box.
LEMMA PlacesPoll ==
  ASSUME Pipes!ConstantsFit, PipesControl, PipesPlaces, Pipes!PollSocket PROVE PipesPlaces'
<1>1. UNCHANGED <<left, lines, toWrite, inPipe, ahead, readBy>> /\ gui = "socket" /\ gui' = "loop"
  BY DEF Pipes!PollSocket, Pipes!subVars
<1>2. Read' = Read /\ toWrite = <<>>
  BY <1>1 DEF Read, PipesPlaces
<1>3. CASE sock = <<>>
  <2>1. UNCHANGED <<sock, sourcebox>>
    BY <1>3 DEF Pipes!PollSocket
  <2>2. Returning' = Returning
    BY <1>1, <2>1 DEF Returning
  <2> QED
    BY <1>1, <1>2, <2>1, <2>2 DEF PipesPlaces
<1>4. CASE sock # <<>>
  <2>1. PICK rem : sock = << rem >>
    BY <1>4 DEF PipesControl
  <2>2. sourcebox' = sourcebox \cup Pipes!ToSet(rem) /\ sock' = <<>>
    BY <1>4, <2>1 DEF Pipes!PollSocket, Pipes!ShowResult
  <2>3. left = <<>>
    BY <1>4 DEF PipesControl
  <2>4. Returning = rem /\ Returning' = <<>>
    BY <1>1, <1>4, <2>1, <2>2, <2>3 DEF Returning
  <2>5. Pipes!ToSet(rem) = LinesIn(rem)
    <3>1. DOMAIN rem = 1 .. Len(rem)
      BY <2>4 DEF PipesPlaces
    <3> QED
      BY <3>1 DEF Pipes!ToSet, LinesIn
  <2>7. <<>> \in Seq(Nat)
    OBVIOUS
  <2>6. Partition(1 .. lines, LinesIn(toWrite), LinesIn(inPipe), LinesIn(ahead), LinesIn(<<>>),
                  Read, sourcebox')
    BY <2>2, <2>4, <2>5, NoLines DEF PipesPlaces, Partition
  <2> QED
    BY <1>1, <1>2, <2>4, <2>6, <2>7 DEF PipesPlaces
<1> QED
  BY <1>3, <1>4

\* A line is read; it may take all others out of the pipe.
LEMMA PlacesRead ==
  ASSUME Pipes!ConstantsFit, PipesControl, PipesPlaces, Pipes!ReadLine PROVE PipesPlaces'
<1> DEFINE h == Head(IF ahead # <<>> THEN ahead ELSE inPipe)
<1>1. UNCHANGED <<gui, left, sock, lines, toWrite, sourcebox, run>>
      /\ readBy' = [readBy EXCEPT ![h] = run]
  BY DEF Pipes!ReadLine, Pipes!guiVars
<1>2. run > 0 /\ run \in Nat
  BY DEF Pipes!ReadLine, PipesControl
<1>3. /\ IsLines(ahead') /\ IsLines(inPipe') /\ Len(inPipe') <= InCap
      /\ LinesIn(ahead') \cup LinesIn(inPipe') = (LinesIn(ahead) \cup LinesIn(inPipe)) \ {h}
      /\ LinesIn(ahead') \cap LinesIn(inPipe') = {} /\ h \in LinesIn(ahead) \cup LinesIn(inPipe)
  <2>1. IsLines(ahead) /\ IsLines(inPipe) /\ Len(inPipe) <= InCap
        /\ LinesIn(inPipe) \cap LinesIn(ahead) = {}
    BY DEF PipesPlaces, Partition
  <2>2. CASE ahead # <<>>
    <3>1. ahead' = Tail(ahead) /\ inPipe' = inPipe /\ h = Head(ahead)
      BY <2>2 DEF Pipes!ReadLine
    <3> QED
      BY <2>1, <2>2, <3>1, TailLines
  <2>3. CASE ahead = <<>> /\ buffered
    <3>1. ahead' = Tail(inPipe) /\ inPipe' = <<>> /\ h = Head(inPipe) /\ inPipe # <<>>
      BY <2>3 DEF Pipes!ReadLine
    <3>2. Len(inPipe') <= InCap
      BY <3>1 DEF Pipes!ConstantsFit
    <3> QED
      BY <2>1, <2>3, <3>1, <3>2, TailLines, NoLines
  <2>4. CASE ahead = <<>> /\ ~buffered
    <3>1. ahead' = <<>> /\ inPipe' = Tail(inPipe) /\ h = Head(inPipe) /\ inPipe # <<>>
      BY <2>4 DEF Pipes!ReadLine
    <3>2. Len(Tail(inPipe)) <= InCap
      BY <2>1, <3>1 DEF Pipes!ConstantsFit, IsLines
    <3> QED
      BY <2>1, <2>4, <3>1, <3>2, TailLines, NoLines
  <2> QED
    BY <2>2, <2>3, <2>4
<1> HIDE DEF h
<1>4. h \in 1 .. lines /\ readBy \in Seq(Nat) /\ Len(readBy) = lines
  BY <1>3 DEF PipesPlaces, Partition
<1>5. readBy' \in Seq(Nat) /\ Len(readBy') = lines
  BY <1>1, <1>2, <1>4
<1>6. Read' = Read \cup {h}
  BY <1>1, <1>2, <1>4 DEF Read
<1>7. Returning' = Returning
  BY <1>1 DEF Returning
<1>8. Partition(1 .. lines, LinesIn(toWrite), LinesIn(inPipe'), LinesIn(ahead'), LinesIn(Returning),
                Read \cup {h}, sourcebox)
  BY <1>3 DEF PipesPlaces, Partition
<1> QED
  BY <1>1, <1>3, <1>5, <1>6, <1>7, <1>8 DEF PipesPlaces

\* What was left comes back.
LEMMA PlacesDrain ==
  ASSUME Pipes!ConstantsFit, PipesControl, PipesPlaces, Pipes!Drain PROVE PipesPlaces'
<1>1. /\ UNCHANGED <<gui, sock, lines, toWrite, sourcebox, ahead, readBy>>
      /\ left' = inPipe /\ inPipe' = <<>>
  BY DEF Pipes!Drain, Pipes!guiVars
<1>2. sock = <<>> /\ left = <<>>
  BY DEF Pipes!Drain, PipesControl
<1>3. Returning = <<>> /\ Returning' = inPipe /\ Read' = Read
  BY <1>1, <1>2 DEF Returning, Read
<1>4. Partition(1 .. lines, LinesIn(toWrite), LinesIn(<<>>), LinesIn(ahead), LinesIn(inPipe),
                Read, sourcebox)
  BY <1>3, NoLines DEF PipesPlaces, Partition
<1>5. Len(<<>>) <= InCap /\ inPipe \in Seq(Nat)
  BY DEF Pipes!ConstantsFit, PipesPlaces, IsLines
<1> QED
  BY <1>1, <1>3, <1>4, <1>5, NoLines DEF PipesPlaces

\* Every line keeps having one place.
LEMMA PlacesStep ==
  ASSUME Pipes!ConstantsFit, PipesControl, PipesPlaces, [Pipes!Next]_Pipes!vars PROVE PipesPlaces'
<1>1. CASE Pipes!Return
  <2>1. UNCHANGED <<gui, lines, toWrite, inPipe, sourcebox, ahead, readBy>>
        /\ sock = <<>> /\ sock' = << left >>
    BY <1>1 DEF Pipes!Return, Pipes!guiVars, PipesControl
  <2>2. Returning' = Returning /\ Read' = Read
    BY <2>1 DEF Returning, Read
  <2> QED
    BY <2>1, <2>2 DEF PipesPlaces
<1>2. CASE Pipes!Execute \/ Pipes!PollOutput \/ Pipes!Discard
           \/ Pipes!BeginWrite \/ Pipes!WritePiece \/ UNCHANGED Pipes!vars
  <2>1. UNCHANGED <<lines, toWrite, inPipe, sourcebox, ahead, readBy, left, sock>>
        /\ ((gui # "writing" /\ gui' # "writing") \/ gui' = gui)
    BY <1>2 DEF Pipes!Execute, Pipes!PollOutput, Pipes!Discard, Pipes!BeginWrite, Pipes!WritePiece,
                Pipes!vars, Pipes!guiVars, Pipes!subVars
  <2>2. Returning' = Returning /\ Read' = Read
    BY <2>1 DEF Returning, Read
  <2> QED
    BY <2>1, <2>2 DEF PipesPlaces
<1> QED
  BY <1>1, <1>2, PlacesSend, PlacesWrite, PlacesPoll, PlacesRead, PlacesDrain
     DEF Pipes!Next, Pipes!GuiStep, Pipes!SubStep

\* The three invariants before the first command.
LEMMA PipesInit ==
  ASSUME Pipes!ConstantsFit, Pipes!Init
  PROVE PipesControl /\ PipesLag /\ PipesPlaces
<1>1. /\ gui = "loop" /\ executing = FALSE /\ run = 0 /\ sub = "waits" /\ left = <<>>
      /\ outPipe = <<>> /\ shown = [of |-> 0, section |-> 0] /\ sock = <<>>
      /\ lines = 0 /\ toWrite = <<>> /\ inPipe = <<>> /\ ahead = <<>>
      /\ sourcebox = {} /\ readBy = <<>>
  BY DEF Pipes!Init
<1>2. PipesControl
  BY <1>1 DEF PipesControl
<1>3. PipesLag
  BY <1>1 DEF PipesLag, Pipes!ConstantsFit, Pipes!OutputLag
<1>4. PipesPlaces
  <2>1. Returning = <<>> /\ Read = {}
    BY <1>1 DEF Returning, Read
  <2>2. Partition(1 .. 0, {}, {}, {}, {}, {}, {})
    BY DEF Partition
  <2>3. Len(<<>>) = 0 /\ <<>> \in Seq(Nat) /\ 0 <= InCap
    BY DEF Pipes!ConstantsFit
  <2> QED
    BY <1>1, <2>1, <2>2, <2>3, NoLines DEF PipesPlaces
<1> QED
  BY <1>2, <1>3, <1>4

\* The one place of a line is the flag that is set.
LEMMA PlacesAreOne == ASSUME PipesControl, PipesPlaces PROVE Pipes!EachLineInOnePlace
<1> SUFFICES ASSUME NEW l \in Pipes!Lines
             PROVE  LET flags == << Pipes!Contains(toWrite, l), Pipes!Contains(inPipe, l),
                                    Pipes!Contains(ahead, l), readBy[l] # 0,
                                    Pipes!Contains(left, l),
                                    \E i \in DOMAIN sock : Pipes!Contains(sock[i], l),
                                    l \in sourcebox >>
                    IN  \E place \in DOMAIN flags : \A i \in DOMAIN flags : flags[i] <=> i = place
  BY DEF Pipes!EachLineInOnePlace
<1> DEFINE flags == << Pipes!Contains(toWrite, l), Pipes!Contains(inPipe, l),
                       Pipes!Contains(ahead, l), readBy[l] # 0, Pipes!Contains(left, l),
                       \E i \in DOMAIN sock : Pipes!Contains(sock[i], l), l \in sourcebox >>
<1>1. l \in 1 .. lines
  BY DEF Pipes!Lines
<1>2. /\ Pipes!Contains(toWrite, l) <=> l \in LinesIn(toWrite)
      /\ Pipes!Contains(inPipe, l) <=> l \in LinesIn(inPipe)
      /\ Pipes!Contains(ahead, l) <=> l \in LinesIn(ahead)
      /\ Pipes!Contains(left, l) <=> l \in LinesIn(left)
      /\ readBy[l] # 0 <=> l \in Read
  BY <1>1 DEF Pipes!Contains, LinesIn, Read
<1>3. (\E i \in DOMAIN sock : Pipes!Contains(sock[i], l))
      <=> sock # <<>> /\ l \in LinesIn(Head(sock))
  <2>1. CASE sock = <<>>
    BY <2>1
  <2>2. CASE sock # <<>>
    <3>1. PICK rem : sock = << rem >>
      BY <2>2 DEF PipesControl
    <3> QED
      BY <2>2, <3>1 DEF Pipes!Contains, LinesIn
  <2> QED
    BY <2>1, <2>2
<1>4. l \in LinesIn(Returning) <=> (sock = <<>> /\ l \in LinesIn(left))
      \/ (sock # <<>> /\ l \in LinesIn(Head(sock)))
  BY DEF Returning
<1>5. sock # <<>> => ~(l \in LinesIn(left))
  BY NoLines DEF PipesControl
<1> DEFINE W == l \in LinesIn(toWrite)
           P == l \in LinesIn(inPipe)
           A == l \in LinesIn(ahead)
           R == l \in Read
           E == l \in LinesIn(left)
           K == sock # <<>> /\ l \in LinesIn(Head(sock))
           S == l \in sourcebox
<1>6. /\ W \/ P \/ A \/ R \/ E \/ K \/ S
      /\ W => ~P /\ ~A /\ ~R /\ ~E /\ ~K /\ ~S
      /\ P => ~A /\ ~R /\ ~E /\ ~K /\ ~S
      /\ A => ~R /\ ~E /\ ~K /\ ~S
      /\ R => ~E /\ ~K /\ ~S
      /\ E => ~K /\ ~S
      /\ K => ~S
  BY <1>1, <1>4, <1>5 DEF PipesPlaces, Partition
<1>7. /\ (flags[1] <=> W) /\ (flags[2] <=> P) /\ (flags[3] <=> A) /\ (flags[4] <=> R)
      /\ (flags[5] <=> E) /\ (flags[6] <=> K) /\ (flags[7] <=> S)
  BY <1>2, <1>3
<1>8. DOMAIN flags = 1 .. 7
  OBVIOUS
<1> HIDE DEF flags, W, P, A, R, E, K, S
<1>9. \E k \in 1 .. 7 : \A i \in 1 .. 7 : flags[i] <=> i = k
  <2>1. \A i \in 1 .. 7 : i = 1 \/ i = 2 \/ i = 3 \/ i = 4 \/ i = 5 \/ i = 6 \/ i = 7
    OBVIOUS
  <2> QED
    BY <1>6, <1>7, <2>1
<1> QED
  BY <1>8, <1>9 DEF flags

-----------------------------------------------------------------------------
\* As long as no line was late, what is still to be read was typed for the code that runs.
PipesRuns ==
  /\ typedIn \in Seq(Nat) /\ Len(typedIn) = lines /\ late \in BOOLEAN
  /\ ~buffered => ahead = <<>>
  /\ ~late =>
       /\ sub # "runs" /\ sub # "writes" => inPipe = <<>>
       /\ \A l \in LinesIn(inPipe) \cup LinesIn(toWrite) : typedIn[l] = run
       /\ Pipes!ReadInItsRun

\* A line that is not late is written while the code runs.
LEMMA WrittenInTime ==
  ASSUME Pipes!ConstantsFit, inPipe = <<>>, NEW ls \in Seq(Nat), ls # <<>>, sub # "runs",
         sub # "writes",
         Pipes!WriteTo(inPipe, ls)
  PROVE  late'
<1> DEFINE room == InCap - Len(inPipe)
           n == IF Len(ls) < room THEN Len(ls) ELSE room
<1>1. late' = (late \/ (sub # "runs" /\ sub # "writes" /\ n > 0))
  BY DEF Pipes!WriteTo
<1>2. Len(ls) \in Nat /\ Len(ls) > 0 /\ room = InCap /\ InCap > 0
  BY DEF Pipes!ConstantsFit
<1>3. n > 0
  BY <1>2
<1> QED
  BY <1>1, <1>3

\* Once a line was late, it is too late.
LEMMA LateStays ==
  ASSUME late \in BOOLEAN, NEW ls, Pipes!WriteTo(inPipe, ls)
  PROVE  late' \in BOOLEAN /\ (~late' => ~late)
BY DEF Pipes!WriteTo

\* What is typed while code runs is typed for it.
LEMMA RunsSend ==
  ASSUME Pipes!ConstantsFit, PipesControl, PipesPlaces, PipesRuns, Pipes!SendStdin PROVE PipesRuns'
<1>1. PICK n \in 1 .. MaxLines - lines :
        /\ lines' = lines + n
        /\ typedIn' = typedIn \o [i \in 1 .. n |-> run]
        /\ readBy' = readBy \o [i \in 1 .. n |-> 0]
        /\ Pipes!WriteTo(inPipe, [i \in 1 .. n |-> lines + i])
  BY DEF Pipes!SendStdin
<1>2. toWrite = <<>> /\ UNCHANGED <<ahead, sub, run, buffered>> /\ run \in Nat
  BY DEF Pipes!SendStdin, PipesPlaces, PipesControl
<1> DEFINE ls == [i \in 1 .. n |-> lines + i]
           rs == [i \in 1 .. n |-> run]
           zs == [i \in 1 .. n |-> 0]
<1>3. /\ lines \in Nat /\ n \in Nat \ {0} /\ readBy \in Seq(Nat) /\ Len(readBy) = lines
      /\ typedIn \in Seq(Nat) /\ Len(typedIn) = lines
  BY DEF PipesPlaces, Pipes!ConstantsFit, PipesRuns
<1>4. /\ ls \in Seq(Nat) /\ Len(ls) = n /\ \A i \in 1 .. n : ls[i] = lines + i
      /\ rs \in Seq(Nat) /\ Len(rs) = n /\ \A i \in 1 .. n : rs[i] = run
      /\ zs \in Seq(Nat) /\ Len(zs) = n /\ \A i \in 1 .. n : zs[i] = 0
  BY <1>2, <1>3
<1>5. typedIn' = typedIn \o rs /\ readBy' = readBy \o zs /\ Pipes!WriteTo(inPipe, ls)
  BY <1>1
<1> HIDE DEF ls, rs, zs
<1>6. /\ typedIn \o rs \in Seq(Nat) /\ Len(typedIn \o rs) = Len(typedIn) + Len(rs)
      /\ \A i \in 1 .. Len(rs) : (typedIn \o rs)[Len(typedIn) + i] = rs[i]
      /\ \A l \in 1 .. Len(typedIn) : (typedIn \o rs)[l] = typedIn[l]
  <2>1. typedIn \in Seq(Nat) /\ rs \in Seq(Nat)
    BY <1>3, <1>4
  <2> QED
    BY <2>1, Concatenated
<1>7. /\ readBy \o zs \in Seq(Nat) /\ Len(readBy \o zs) = Len(readBy) + Len(zs)
      /\ \A i \in 1 .. Len(zs) : (readBy \o zs)[Len(readBy) + i] = zs[i]
      /\ \A l \in 1 .. Len(readBy) : (readBy \o zs)[l] = readBy[l]
  <2>1. readBy \in Seq(Nat) /\ zs \in Seq(Nat)
    BY <1>3, <1>4
  <2> QED
    BY <2>1, Concatenated
<1>8. /\ typedIn' \in Seq(Nat) /\ Len(typedIn') = lines'
      /\ \A l \in 1 .. lines : typedIn'[l] = typedIn[l] /\ readBy'[l] = readBy[l]
      /\ \A i \in 1 .. n : typedIn'[lines + i] = run /\ readBy'[lines + i] = 0
  BY <1>1, <1>3, <1>4, <1>5, <1>6, <1>7
<1>9. \A l \in 1 .. lines' : l \in 1 .. lines \/ (l - lines \in 1 .. n /\ l = lines + (l - lines))
  BY <1>1, <1>3
<1>10. \A l \in 1 .. lines' : l \in 1 .. lines \/ (typedIn'[l] = run /\ readBy'[l] = 0)
  BY <1>8, <1>9
<1>11. LinesIn(inPipe') \cup LinesIn(toWrite') = LinesIn(inPipe) \cup LinesIn(ls)
  <2>1. IsLines(ls)
    <3>1. Distinct(ls)
      BY <1>3, <1>4 DEF Distinct
    <3> QED
      BY <1>4, <3>1 DEF IsLines
  <2>2. LinesIn(inPipe) \subseteq 1 .. lines
    BY DEF PipesPlaces, Partition
  <2>3. \A i \in 1 .. n : lines + i \notin 1 .. lines
    BY <1>3
  <2>4. LinesIn(inPipe) \cap LinesIn(ls) = {}
    BY <1>4, <2>2, <2>3 DEF LinesIn
  <2> QED
    BY <1>5, <2>1, <2>4, WriteMoves DEF PipesPlaces
<1>12. late' \in BOOLEAN /\ (~late' => ~late)
  BY <1>5, LateStays DEF PipesRuns
<1>13. ASSUME ~late' PROVE sub' # "runs" /\ sub' # "writes" => inPipe' = <<>>
  <2>1. ls # <<>>
    BY <1>3, <1>4
  <2>2. ~(inPipe = <<>> /\ sub # "runs" /\ sub # "writes")
    BY <1>4, <1>5, <1>13, <2>1, WrittenInTime
  <2> QED
    BY <1>2, <1>12, <1>13, <2>2 DEF PipesRuns
<1>14. ASSUME ~late' PROVE \A l \in LinesIn(inPipe') \cup LinesIn(toWrite') : typedIn'[l] = run'
  <2>1. \A l \in LinesIn(ls) : typedIn'[l] = run
    <3>1. \A i \in 1 .. n : typedIn'[ls[i]] = run
      BY <1>4, <1>8
    <3>2. Len(ls) = n
      BY <1>4
    <3> QED
      BY <3>1, <3>2 DEF LinesIn
  <2>2. LinesIn(inPipe) \subseteq 1 .. lines
    BY DEF PipesPlaces, Partition
  <2>3. \A l \in LinesIn(inPipe) : typedIn[l] = run
    BY <1>12, <1>14 DEF PipesRuns
  <2> QED
    BY <1>2, <1>8, <1>11, <2>1, <2>2, <2>3
<1>15. ASSUME ~late' PROVE Pipes!ReadInItsRun'
  <2> SUFFICES ASSUME ~buffered' PROVE Pipes!ReadInItsRun'
    BY DEF Pipes!ReadInItsRun
  <2>1. \A l \in 1 .. lines : readBy[l] \in {0, typedIn[l]}
    BY <1>2, <1>12, <1>15 DEF PipesRuns, Pipes!ReadInItsRun, Pipes!Lines
  <2> QED
    BY <1>8, <1>10, <2>1 DEF Pipes!ReadInItsRun, Pipes!Lines
<1> QED
  BY <1>2, <1>8, <1>12, <1>13, <1>14, <1>15 DEF PipesRuns

\* The rest of it is written in time.
LEMMA RunsWrite ==
  ASSUME Pipes!ConstantsFit, PipesControl, PipesPlaces, PipesRuns, Pipes!GoOnWriting
  PROVE  PipesRuns'
<1>1. /\ Pipes!WriteTo(inPipe, toWrite) /\ UNCHANGED <<lines, ahead, readBy, typedIn, sub, run,
         buffered>>
  BY DEF Pipes!GoOnWriting
<1>2. LinesIn(inPipe') \cup LinesIn(toWrite') = LinesIn(inPipe) \cup LinesIn(toWrite)
  BY <1>1, WriteMoves DEF PipesPlaces, Partition
<1>3. late' \in BOOLEAN /\ (~late' => ~late)
  BY <1>1, LateStays DEF PipesRuns
<1>4. ASSUME ~late' PROVE sub' # "runs" /\ sub' # "writes" => inPipe' = <<>>
  <2>1. CASE toWrite = <<>>
    <3>1. LinesIn(inPipe') \subseteq LinesIn(inPipe)
      BY <1>2, <2>1, NoLines
    <3>2. sub # "runs" /\ sub # "writes" => LinesIn(inPipe') = {}
      BY <1>3, <1>4, <3>1, NoLines DEF PipesRuns
    <3>3. IsLines(inPipe')
      BY <1>1, WriteMoves DEF PipesPlaces, Partition
    <3>4. LinesIn(inPipe') = {} => inPipe' = <<>>
      BY <3>3 DEF IsLines, LinesIn
    <3> QED
      BY <1>1, <3>2, <3>4
  <2>2. CASE toWrite # <<>>
    <3>1. ~(inPipe = <<>> /\ sub # "runs" /\ sub # "writes")
      BY <1>1, <1>4, <2>2, WrittenInTime DEF PipesPlaces, IsLines
    <3> QED
      BY <1>1, <1>3, <1>4, <3>1 DEF PipesRuns
  <2> QED
    BY <2>1, <2>2
<1>5. ~late' => Pipes!ReadInItsRun'
  BY <1>1, <1>3 DEF PipesRuns, Pipes!ReadInItsRun, Pipes!Lines
<1> QED
  BY <1>1, <1>2, <1>3, <1>4, <1>5 DEF PipesRuns

\* The code reads what was typed for it.
LEMMA RunsRead ==
  ASSUME Pipes!ConstantsFit, PipesControl, PipesPlaces, PipesRuns, Pipes!ReadLine
  PROVE  PipesRuns'
<1>1. /\ UNCHANGED <<toWrite, lines, typedIn, late, sub, run, buffered>> /\ sub = "runs"
  BY DEF Pipes!ReadLine
<1>2. CASE ~buffered
  <2>1. /\ ahead' = <<>> /\ inPipe' = Tail(inPipe) /\ inPipe # <<>>
        /\ readBy' = [readBy EXCEPT ![Head(inPipe)] = run]
    BY <1>2 DEF Pipes!ReadLine, PipesRuns
  <2>2. LinesIn(Tail(inPipe)) = LinesIn(inPipe) \ {Head(inPipe)} /\ Head(inPipe) \in LinesIn(inPipe)
    BY <2>1, TailLines DEF PipesPlaces
  <2>3. Head(inPipe) \in 1 .. lines /\ readBy \in Seq(Nat) /\ Len(readBy) = lines
    BY <2>2 DEF PipesPlaces, Partition
  <2>4. ASSUME ~late PROVE Pipes!ReadInItsRun'
    <3>1. typedIn[Head(inPipe)] = run
      BY <2>2, <2>4 DEF PipesRuns
    <3>2. \A l \in 1 .. lines : readBy[l] \in {0, typedIn[l]}
      BY <1>2, <2>4 DEF PipesRuns, Pipes!ReadInItsRun, Pipes!Lines
    <3>3. \A l \in 1 .. lines : readBy'[l] = IF l = Head(inPipe) THEN run ELSE readBy[l]
      BY <2>1, <2>3
    <3> QED
      BY <1>1, <3>1, <3>2, <3>3 DEF Pipes!ReadInItsRun, Pipes!Lines
  <2> QED
    BY <1>1, <2>1, <2>2, <2>4 DEF PipesRuns
<1>3. CASE buffered
  <2>1. inPipe' = <<>> \/ inPipe' = inPipe
    BY <1>3 DEF Pipes!ReadLine
  <2>2. buffered' /\ Pipes!ReadInItsRun'
    BY <1>1, <1>3 DEF Pipes!ReadInItsRun
  <2> QED
    BY <1>1, <1>3, <2>1, <2>2, NoLines DEF PipesRuns
<1> QED
  BY <1>2, <1>3

\* No step breaks the invariant.
LEMMA RunsStep ==
  ASSUME Pipes!ConstantsFit, PipesControl, PipesPlaces, PipesRuns,
         [Pipes!Next]_Pipes!vars
  PROVE  PipesRuns'
<1>1. CASE Pipes!Execute
  <2>1. /\ UNCHANGED <<toWrite, inPipe, lines, typedIn, late, ahead, readBy, buffered>>
        /\ sub = "waits" /\ sub' = "runs" /\ toWrite = <<>>
    BY <1>1 DEF Pipes!Execute, PipesPlaces
  <2>2. ~late => LinesIn(inPipe) \cup LinesIn(toWrite) = {}
    BY <2>1, NoLines DEF PipesRuns
  <2>3. Pipes!ReadInItsRun' = Pipes!ReadInItsRun
    BY <2>1 DEF Pipes!ReadInItsRun, Pipes!Lines
  <2> QED
    BY <2>1, <2>2, <2>3 DEF PipesRuns
<1>2. CASE Pipes!Drain
  <2>1. /\ UNCHANGED <<toWrite, lines, typedIn, late, ahead, readBy, run, buffered>>
           /\ inPipe' = <<>>
    BY <1>2 DEF Pipes!Drain, Pipes!guiVars
  <2>2. Pipes!ReadInItsRun' = Pipes!ReadInItsRun
    BY <2>1 DEF Pipes!ReadInItsRun, Pipes!Lines
  <2> QED
    BY <2>1, <2>2, NoLines DEF PipesRuns
<1>3. CASE Pipes!PollOutput \/ Pipes!PollSocket \/ Pipes!Discard \/ Pipes!BeginWrite
           \/ Pipes!WritePiece
           \/ Pipes!Return \/ UNCHANGED Pipes!vars
  <2>1. /\ UNCHANGED <<toWrite, inPipe, lines, typedIn, late, ahead, readBy, run, buffered>>
        /\ (sub' # "runs" /\ sub' # "writes" => sub # "runs" /\ sub # "writes")
    BY <1>3 DEF Pipes!PollOutput, Pipes!PollSocket, Pipes!Discard, Pipes!BeginWrite,
                Pipes!WritePiece, Pipes!Return, Pipes!vars, Pipes!guiVars, Pipes!subVars
  <2>2. Pipes!ReadInItsRun' = Pipes!ReadInItsRun
    BY <2>1 DEF Pipes!ReadInItsRun, Pipes!Lines
  <2> QED
    BY <2>1, <2>2 DEF PipesRuns
<1> QED
  BY <1>1, <1>2, <1>3, RunsSend, RunsWrite, RunsRead
     DEF Pipes!Next, Pipes!GuiStep, Pipes!SubStep

\* Nothing was typed yet.
LEMMA RunsInit == ASSUME Pipes!Init PROVE PipesRuns
<1>1. /\ inPipe = <<>> /\ toWrite = <<>> /\ ahead = <<>> /\ lines = 0 /\ typedIn = <<>>
         /\ late = FALSE
  BY DEF Pipes!Init
<1>2. Pipes!ReadInItsRun
  BY <1>1 DEF Pipes!ReadInItsRun, Pipes!Lines
<1>3. LinesIn(inPipe) \cup LinesIn(toWrite) = {}
  BY <1>1, NoLines
<1>4. typedIn \in Seq(Nat) /\ Len(typedIn) = lines
  BY <1>1
<1> QED
  BY <1>1, <1>2, <1>3, <1>4 DEF PipesRuns

-----------------------------------------------------------------------------
\* What the types need besides: runs and lines keep to their bounds, every line was typed for
\* one of the runs, and if read, read by one of them.
PipesTypes ==
  /\ gui \in {"loop", "socket", "writing"} /\ sub \in {"waits", "runs", "writes", "returns"}
  /\ failed \in BOOLEAN /\ buffered \in BOOLEAN /\ discarded \in BOOLEAN
  /\ run \in 0 .. MaxRuns /\ lines \in 0 .. MaxLines
  /\ executing => run > 0
  /\ \A l \in 1 .. lines : typedIn[l] \in 1 .. run /\ readBy[l] \in 0 .. run

\* What is typed is typed for the code that runs.
LEMMA TypesSend ==
  ASSUME Pipes!ConstantsFit, PipesPlaces, PipesRuns, PipesTypes, Pipes!SendStdin
  PROVE  PipesTypes'
<1>1. PICK n \in 1 .. MaxLines - lines :
        /\ lines' = lines + n
        /\ typedIn' = typedIn \o [i \in 1 .. n |-> run]
        /\ readBy' = readBy \o [i \in 1 .. n |-> 0]
        /\ Pipes!WriteTo(inPipe, [i \in 1 .. n |-> lines + i])
  BY DEF Pipes!SendStdin
<1>2. /\ UNCHANGED <<executing, run, sub, failed, buffered, discarded>> /\ executing
      /\ run \in 1 .. MaxRuns /\ lines \in 0 .. MaxLines /\ MaxLines \in Nat /\ MaxRuns \in Nat
  BY DEF Pipes!SendStdin, PipesTypes, Pipes!ConstantsFit
<1> DEFINE rs == [i \in 1 .. n |-> run]
           zs == [i \in 1 .. n |-> 0]
<1>3. /\ n \in Nat \ {0} /\ readBy \in Seq(Nat) /\ Len(readBy) = lines
      /\ typedIn \in Seq(Nat) /\ Len(typedIn) = lines
  BY <1>2 DEF PipesPlaces, PipesRuns
<1>4. /\ rs \in Seq(Nat) /\ Len(rs) = n /\ \A i \in 1 .. n : rs[i] = run
      /\ zs \in Seq(Nat) /\ Len(zs) = n /\ \A i \in 1 .. n : zs[i] = 0
  BY <1>2, <1>3
<1>5. typedIn' = typedIn \o rs /\ readBy' = readBy \o zs
  BY <1>1
<1> HIDE DEF rs, zs
<1>6. /\ \A i \in 1 .. Len(rs) : (typedIn \o rs)[Len(typedIn) + i] = rs[i]
      /\ \A l \in 1 .. Len(typedIn) : (typedIn \o rs)[l] = typedIn[l]
      /\ \A i \in 1 .. Len(zs) : (readBy \o zs)[Len(readBy) + i] = zs[i]
      /\ \A l \in 1 .. Len(readBy) : (readBy \o zs)[l] = readBy[l]
  <2>1. typedIn \in Seq(Nat) /\ rs \in Seq(Nat) /\ readBy \in Seq(Nat) /\ zs \in Seq(Nat)
    BY <1>3, <1>4
  <2> QED
    BY <2>1, Concatenated
<1>7. /\ \A l \in 1 .. lines : typedIn'[l] = typedIn[l] /\ readBy'[l] = readBy[l]
      /\ \A i \in 1 .. n : typedIn'[lines + i] = run /\ readBy'[lines + i] = 0
  BY <1>3, <1>4, <1>5, <1>6
<1>8. lines' \in 0 .. MaxLines
  BY <1>1, <1>2
<1>9. \A l \in 1 .. lines' : l \in 1 .. lines \/ (l - lines \in 1 .. n /\ l = lines + (l - lines))
  BY <1>1, <1>2, <1>3
<1>10. \A l \in 1 .. lines' : typedIn'[l] \in 1 .. run' /\ readBy'[l] \in 0 .. run'
  <2>1. \A l \in 1 .. lines : typedIn'[l] \in 1 .. run /\ readBy'[l] \in 0 .. run
    BY <1>7 DEF PipesTypes
  <2>2. \A i \in 1 .. n : typedIn'[lines + i] \in 1 .. run /\ readBy'[lines + i] \in 0 .. run
    BY <1>2, <1>7
  <2> QED
    BY <1>2, <1>9, <2>1, <2>2
<1>11. gui' \in {"loop", "socket", "writing"}
  BY <1>1 DEF Pipes!WriteTo
<1> QED
  BY <1>2, <1>8, <1>10, <1>11 DEF PipesTypes

\* No step breaks the types.
LEMMA TypesStep ==
  ASSUME Pipes!ConstantsFit, PipesControl, PipesPlaces, PipesRuns, PipesTypes,
         [Pipes!Next]_Pipes!vars
  PROVE  PipesTypes'
<1>1. CASE Pipes!Execute
  <2>1. /\ UNCHANGED <<gui, lines, typedIn, readBy, failed, buffered, discarded>>
        /\ sub' = "runs" /\ run < MaxRuns /\ run' = run + 1
    BY <1>1 DEF Pipes!Execute
  <2>2. run \in 0 .. MaxRuns /\ MaxRuns \in Nat
    BY DEF PipesTypes, Pipes!ConstantsFit
  <2>3. run' \in 0 .. MaxRuns /\ run' > 0 /\ 1 .. run \subseteq 1 .. run'
        /\ 0 .. run \subseteq 0 .. run'
    BY <2>1, <2>2
  <2> QED
    BY <2>1, <2>3 DEF PipesTypes
<1>2. CASE Pipes!GoOnWriting
  <2>1. UNCHANGED <<executing, run, sub, lines, typedIn, readBy, failed, buffered, discarded>>
    BY <1>2 DEF Pipes!GoOnWriting
  <2>2. gui' \in {"loop", "socket", "writing"}
    BY <1>2 DEF Pipes!GoOnWriting, Pipes!WriteTo
  <2> QED
    BY <2>1, <2>2 DEF PipesTypes
<1>3. CASE Pipes!PollOutput \/ Pipes!PollSocket \/ Pipes!Discard
  <2>1. UNCHANGED <<run, sub, lines, typedIn, readBy, buffered>> /\ (executing' => executing)
    BY <1>3 DEF Pipes!PollOutput, Pipes!PollSocket, Pipes!Discard, Pipes!subVars, Pipes!ShowResult
  <2>2. gui' \in {"loop", "socket", "writing"} /\ discarded' \in BOOLEAN
    BY <1>3 DEF Pipes!PollOutput, Pipes!PollSocket, Pipes!Discard, PipesTypes
  <2>3. failed' \in BOOLEAN
    BY <1>3 DEF Pipes!PollOutput, Pipes!PollSocket, Pipes!Discard, Pipes!ShowResult, PipesTypes
  <2> QED
    BY <2>1, <2>2, <2>3 DEF PipesTypes
<1>4. CASE Pipes!ReadLine
  <2> DEFINE h == Head(IF ahead # <<>> THEN ahead ELSE inPipe)
  <2>1. /\ UNCHANGED <<gui, executing, sub, run, lines, typedIn, failed, buffered, discarded>>
        /\ readBy' = [readBy EXCEPT ![h] = run]
    BY <1>4 DEF Pipes!ReadLine, Pipes!guiVars
  <2> HIDE DEF h
  <2>2. run \in 0 .. run /\ readBy \in Seq(Nat) /\ Len(readBy) = lines
    BY DEF PipesTypes, PipesPlaces
  <2>3. \A l \in 1 .. lines : readBy'[l] \in {run, readBy[l]}
    BY <2>1, <2>2
  <2>4. \A l \in 1 .. lines : readBy'[l] \in 0 .. run /\ typedIn[l] \in 1 .. run
    BY <2>2, <2>3 DEF PipesTypes
  <2> QED
    BY <2>1, <2>4 DEF PipesTypes
<1>5. CASE Pipes!BeginWrite \/ Pipes!WritePiece \/ Pipes!Drain \/ Pipes!Return
           \/ UNCHANGED Pipes!vars
  <2>1. UNCHANGED <<gui, executing, run, lines, typedIn, readBy, failed, buffered, discarded>>
    BY <1>5 DEF Pipes!BeginWrite, Pipes!WritePiece, Pipes!Drain, Pipes!Return, Pipes!vars,
                Pipes!guiVars, Pipes!subVars
  <2>2. sub' \in {"waits", "runs", "writes", "returns"}
    BY <1>5 DEF Pipes!BeginWrite, Pipes!WritePiece, Pipes!Drain, Pipes!Return, Pipes!vars,
                Pipes!subVars, PipesTypes
  <2> QED
    BY <2>1, <2>2 DEF PipesTypes
<1> QED
  BY <1>1, <1>2, <1>3, <1>4, <1>5, TypesSend DEF Pipes!Next, Pipes!GuiStep, Pipes!SubStep

\* The types that the module gives.
LEMMA TypesFollow ==
  ASSUME PipesControl, PipesLag, PipesPlaces, PipesRuns, PipesTypes PROVE Pipes!TypeOK
<1>1. /\ typedIn \in Seq(Nat) /\ Len(typedIn) = lines /\ readBy \in Seq(Nat) /\ Len(readBy) = lines
      /\ lines \in Nat /\ run \in Nat
      /\ \A l \in 1 .. lines : typedIn[l] \in 1 .. run /\ readBy[l] \in 0 .. run
  BY DEF PipesControl, PipesPlaces, PipesRuns, PipesTypes
<1>2. typedIn \in Seq(1 .. run) /\ readBy \in [Pipes!Lines -> 0 .. run]
  BY <1>1 DEF Pipes!Lines
<1>3. sourcebox \subseteq Pipes!Lines /\ LinesIn(Returning) \subseteq Pipes!Lines
  BY DEF PipesPlaces, Partition, Pipes!Lines
<1>4. left \in Seq(Pipes!Lines)
  <2>1. CASE sock = <<>>
    <3>1. Returning = left /\ left \in Seq(Nat)
      BY <2>1 DEF Returning, PipesPlaces
    <3>2. \A i \in 1 .. Len(left) : left[i] \in Pipes!Lines
      BY <1>3, <3>1 DEF LinesIn
    <3> QED
      BY <3>1, <3>2
  <2>2. CASE sock # <<>>
    <3>1. left = <<>>
      BY <2>2 DEF PipesControl
    <3> QED
      BY <3>1
  <2> QED
    BY <2>1, <2>2
<1>5. Len(sock) <= 1
  <2>1. CASE sock = <<>>
    BY <2>1
  <2>2. CASE \E rem : sock = << rem >>
    <3>1. PICK rem : sock = << rem >>
      BY <2>2
    <3>2. Len(sock) = 1
      BY <3>1
    <3> QED
      BY <3>2
  <2> QED
    BY <2>1, <2>2 DEF PipesControl
<1> QED
  BY <1>2, <1>3, <1>4, <1>5
     DEF PipesControl, PipesLag, PipesPlaces, PipesRuns, PipesTypes, Pipes!TypeOK

-----------------------------------------------------------------------------
\* A set of numbers has a least one.
LEMMA Least ==
  ASSUME NEW T \in SUBSET Nat, T # {}
  PROVE \E x \in T : \A y \in T : x <= y
<1> DEFINE R == {ss \in Nat \X Nat : ss[1] < ss[2]}
<1>1. IsWellFoundedOn(R, Nat)
  BY NatLessThanWellFounded DEF OpToRel
<1>2. PICK x \in T : \A y \in T : ~(<<y, x>> \in R)
  BY <1>1, WFMin
<1>3. \A y \in T : y \in Nat /\ x \in Nat /\ ~(y < x)
  BY <1>2
<1>4. QED BY <1>3

\* What holds of 0 and goes on from each number to the next holds of all.
LEMMA UpTo ==
  ASSUME NEW n \in Nat, NEW T, 0 \in T, \A i \in 0 .. n - 1 : i \in T => i + 1 \in T
  PROVE  0 .. n \subseteq T
<1> SUFFICES ASSUME ~(0 .. n \subseteq T) PROVE FALSE
  OBVIOUS
<1> DEFINE U == (0 .. n) \ T
<1>1. U \in SUBSET Nat /\ U # {}
  OBVIOUS
<1>2. PICK x \in U : \A y \in U : x <= y
  BY <1>1, Least, Zenon
<1>3. x \in 1 .. n
  BY <1>2
<1>4. x - 1 \in 0 .. n - 1 /\ (x - 1) + 1 = x
  BY <1>3
<1>5. x - 1 \in T
  BY <1>2, <1>4
<1> QED
  BY <1>2, <1>4, <1>5

\* What each turn of a loop makes of what the turn before it left.
TurnByTurn(f, S, base, step, n) ==
  f \in [0 .. n -> S] /\ f[0] = base /\ \A i \in 1 .. n : f[i] = step[f[i - 1]]

\* A loop can take any number of turns.
LEMMA Turns ==
  ASSUME NEW S, NEW base \in S, NEW step \in [S -> S], NEW n \in Nat
  PROVE  \E f : TurnByTurn(f, S, base, step, n)
<1> DEFINE Good(m) == \E f \in [0 .. m -> S] : f[0] = base /\ \A i \in 1 .. m : f[i] = step[f[i - 1]]
           T == {m \in Nat : Good(m)}
<1>1. 0 \in T
  <2> DEFINE g == [i \in 0 .. 0 |-> base]
  <2>1. g \in [0 .. 0 -> S] /\ g[0] = base /\ \A i \in 1 .. 0 : g[i] = step[g[i - 1]]
    OBVIOUS
  <2> HIDE DEF g
  <2>2. Good(0)
    BY <2>1
  <2> HIDE DEF Good
  <2> QED
    BY <2>2
<1>2. ASSUME NEW m \in 0 .. n - 1, m \in T PROVE m + 1 \in T
  <2>1. PICK f \in [0 .. m -> S] : f[0] = base /\ \A i \in 1 .. m : f[i] = step[f[i - 1]]
    BY <1>2
  <2> DEFINE g == [i \in 0 .. m + 1 |-> IF i = m + 1 THEN step[f[m]] ELSE f[i]]
  <2>2. f[m] \in S /\ step[f[m]] \in S
    OBVIOUS
  <2>3. g \in [0 .. m + 1 -> S]
    BY <2>2
  <2>4. g[0] = base /\ \A i \in 1 .. m + 1 : g[i] = step[g[i - 1]]
    BY <2>1
  <2> HIDE DEF g
  <2>5. Good(m + 1)
    BY <2>3, <2>4
  <2> HIDE DEF Good
  <2> QED
    BY <2>5
<1> HIDE DEF T
<1>3. 0 .. n \subseteq T
  BY <1>1, <1>2, UpTo
<1>4. Good(n)
  BY <1>3 DEF T
<1> QED
  BY <1>4 DEF TurnByTurn

-----------------------------------------------------------------------------
\* A view shows the lines of a set: each region has lines that follow each other, and so do
\* the regions.
ViewOf(view, X) ==
  /\ view \in Seq(Seq(Nat))
  /\ \A k \in 1 .. Len(view) :
       Len(view[k]) > 0 /\ \A i \in 1 .. Len(view[k]) : view[k][i] = view[k][1] + i - 1
  /\ \A j \in 1 .. Len(view), k \in 1 .. Len(view) : j < k => view[j][Len(view[j])] < view[k][1]
  /\ \A l : l \in X <=> \E k \in 1 .. Len(view) : l \in LinesIn(view[k])

\* If its last line is known, so is the last region.
LEMMA LastRegion ==
  ASSUME NEW view, NEW X, ViewOf(view, X), NEW t \in X, \A l \in X : l > 0 /\ l <= t
  PROVE  LET cur == view[Len(view)] IN
         /\ Len(view) > 0 /\ cur \in Seq(Nat) /\ Len(cur) \in 1 .. t
         /\ \A i \in 1 .. Len(cur) : cur[i] = t - Len(cur) + i
<1> DEFINE K == Len(view)
           cur == view[Len(view)]
<1>1. K \in Nat /\ \A k \in 1 .. K : view[k] \in Seq(Nat) /\ Len(view[k]) \in Nat /\ Len(view[k]) > 0
  BY DEF ViewOf
<1>2. \A k \in 1 .. K : \A i \in 1 .. Len(view[k]) : view[k][i] \in Nat /\ view[k][i] = view[k][1] + i - 1
                                                  /\ view[k][i] \in X
  BY <1>1 DEF ViewOf, LinesIn
<1>3. PICK k \in 1 .. K : t \in LinesIn(view[k])
  BY DEF ViewOf
<1>4. PICK i \in 1 .. Len(view[k]) : view[k][i] = t
  BY <1>3 DEF LinesIn
<1>5. K \in 1 .. K /\ K > 0
  BY <1>1, <1>3
<1>6. \A x \in 1 .. K : 1 \in 1 .. Len(view[x]) /\ Len(view[x]) \in 1 .. Len(view[x])
  BY <1>1
<1>7. t \in Nat
  BY <1>2, <1>4
<1>8. \A x \in 1 .. K : view[x][1] \in Nat /\ view[x][1] <= t
  BY <1>2, <1>6
<1>9. k = K
  <2> SUFFICES ASSUME k < K PROVE FALSE
    BY <1>1
  <2>1. view[k][Len(view[k])] < view[K][1]
    BY <1>5 DEF ViewOf
  <2>2. view[k][Len(view[k])] = view[k][1] + Len(view[k]) - 1 /\ t = view[k][1] + i - 1
    BY <1>2, <1>4, <1>6
  <2>3. view[K][1] \in Nat /\ view[K][1] <= t /\ view[k][1] \in Nat /\ Len(view[k]) \in Nat
    BY <1>1, <1>5, <1>8
  <2> QED
    BY <1>7, <2>1, <2>2, <2>3
<1>10. view[k][1] + Len(view[k]) - 1 = t
  <2>1. view[k][Len(view[k])] = view[k][1] + Len(view[k]) - 1 /\ t = view[k][1] + i - 1
        /\ view[k][Len(view[k])] <= t
    BY <1>2, <1>4, <1>6
  <2> QED
    BY <1>1, <1>7, <1>8, <2>1
<1>11. \A x \in 1 .. Len(view[k]) : view[k][x] = t - Len(view[k]) + x
  <2>1. view[k][1] \in Nat /\ Len(view[k]) \in Nat
    BY <1>1, <1>8
  <2>2. ASSUME NEW x \in 1 .. Len(view[k]) PROVE view[k][x] = t - Len(view[k]) + x
    <3>1. view[k][x] = view[k][1] + x - 1
      BY <1>2
    <3>2. x \in Nat
      BY <2>1
    <3>3. \A p, m, y \in Nat : p + m - 1 = t => p + y - 1 = t - m + y
      BY <1>7
    <3> QED
      BY <1>10, <2>1, <3>1, <3>2, <3>3, Zenon
  <2> QED
    BY <2>2
<1>12. view[k][1] > 0
  BY <1>2, <1>6
<1>13. Len(view[k]) \in 1 .. t
  BY <1>1, <1>7, <1>8, <1>10, <1>12
<1> QED
  BY <1>1, <1>5, <1>9, <1>11, <1>13

\* Without the end of its last region, a view shows the lines before.
LEMMA ShorterView ==
  ASSUME NEW view, NEW X, ViewOf(view, X), NEW t \in X, \A l \in X : l > 0 /\ l <= t,
         NEW n \in 1 .. Len(view[Len(view)]), NEW w,
         \/ n = Len(view[Len(view)]) /\ w = SubSeq(view, 1, Len(view) - 1)
         \/ /\ n < Len(view[Len(view)])
            /\ w = SubSeq(view, 1, Len(view) - 1)
                     \o << SubSeq(view[Len(view)], 1, Len(view[Len(view)]) - n) >>
  PROVE  /\ ViewOf(w, X \cap (1 .. t - n))
         /\ n = Len(view[Len(view)]) => Len(w) = Len(view) - 1
<1> DEFINE K == Len(view)
           cur == view[K]
           c == Len(cur)
           rest == SubSeq(cur, 1, c - n)
           start == SubSeq(view, 1, K - 1)
<1>1. /\ K \in Nat /\ K > 0 /\ cur \in Seq(Nat) /\ c \in 1 .. t /\ t \in Nat
      /\ \A i \in 1 .. c : cur[i] = t - c + i
  <2>1. K \in Nat
    BY DEF ViewOf
  <2>2. \A k \in 1 .. K : view[k] \in Seq(Nat)
    BY DEF ViewOf
  <2>3. t \in Nat
    <3>1. PICK k \in 1 .. K : t \in LinesIn(view[k])
      BY DEF ViewOf
    <3> QED
      BY <2>2, <3>1 DEF LinesIn
  <2> QED
    BY <2>1, <2>3, LastRegion
<1>0. K = Len(view) /\ cur = view[K] /\ c = Len(cur)
  OBVIOUS
<1>5. n \in Nat /\ n > 0 /\ n <= c /\ (n = c \/ n < c)
  BY <1>1
<1>4. (n = c => w = start) /\ (n # c => w = start \o << rest >>)
  <2>1. CASE n = c
    <3>1. ~(n < c)
      BY <1>5, <2>1
    <3> QED
      BY <2>1, <3>1, Zenon
  <2>2. CASE n < c
    <3>1. n # c
      BY <1>5, <2>2
    <3> QED
      BY <2>2, <3>1, Zenon
  <2> QED
    BY <1>5, <2>1, <2>2
<1> HIDE DEF K, cur, c
<1>2. /\ rest \in Seq(Nat) /\ Len(rest) = c - n /\ c - n \in Nat
      /\ \A i \in 1 .. c - n : rest[i] = t - c + i
  <2>1. cur \in Seq(Nat) /\ c = Len(cur) /\ c \in Nat /\ n \in Nat /\ n <= c
    BY <1>0, <1>1, <1>5
  <2>2. c - n \in Nat /\ c - n <= Len(cur) /\ \A i \in 1 .. c - n : i \in 1 .. c
    BY <2>1
  <2>3. rest \in Seq(Nat) /\ Len(rest) = c - n /\ \A i \in 1 .. c - n : rest[i] = cur[i]
    BY <2>1, <2>2
  <2> HIDE DEF rest
  <2> QED
    BY <1>1, <2>2, <2>3
<1>3. /\ start \in Seq(Seq(Nat)) /\ Len(start) = K - 1 /\ \A k \in 1 .. K - 1 : start[k] = view[k]
  BY <1>0, <1>1 DEF ViewOf
<1>6. /\ w \in Seq(Seq(Nat)) /\ \A k \in 1 .. K - 1 : w[k] = view[k]
      /\ Len(w) = IF n = c THEN K - 1 ELSE K
      /\ n # c => w[K] = rest
  <2> HIDE DEF rest, start
  <2>1. CASE n = c
    BY <1>3, <1>4, <2>1
  <2>2. CASE n # c
    <3>1. << rest >> \in Seq(Seq(Nat)) /\ Len(<< rest >>) = 1 /\ << rest >>[1] = rest
      BY <1>2
    <3>2. /\ start \o << rest >> \in Seq(Seq(Nat))
          /\ Len(start \o << rest >>) = Len(start) + Len(<< rest >>)
          /\ \A k \in 1 .. Len(start) : (start \o << rest >>)[k] = start[k]
          /\ \A k \in 1 .. Len(<< rest >>) : (start \o << rest >>)[Len(start) + k] = << rest >>[k]
      <4>1. start \in Seq(Seq(Nat)) /\ << rest >> \in Seq(Seq(Nat))
        BY <1>3, <3>1
      <4> QED
        BY <4>1, Concatenated
    <3>6. w \in Seq(Seq(Nat))
      BY <1>4, <2>2, <3>2, Zenon
    <3>7. Len(w) = Len(start) + Len(<< rest >>)
      BY <1>4, <2>2, <3>2, Zenon
    <3>3. Len(w) = K /\ w \in Seq(Seq(Nat))
      BY <1>1, <1>3, <3>1, <3>6, <3>7
    <3>4. \A k \in 1 .. K - 1 : w[k] = view[k]
      BY <1>3, <1>4, <2>2, <3>2
    <3>5. w[K] = rest
      <4>1. Len(start) + 1 = K /\ 1 \in 1 .. Len(<< rest >>)
        BY <1>1, <1>3, <3>1
      <4>2. (start \o << rest >>)[Len(start) + 1] = rest
        BY <3>1, <3>2, <4>1
      <4> QED
        BY <1>4, <2>2, <4>1, <4>2
    <3> QED
      BY <2>2, <3>3, <3>4, <3>5
  <2> QED
    BY <2>1, <2>2
<1> HIDE DEF rest, start
<1>7. \A k \in 1 .. K :
        /\ Len(view[k]) \in Nat /\ Len(view[k]) > 0
        /\ \A i \in 1 .. Len(view[k]) : view[k][i] \in Nat /\ view[k][i] = view[k][1] + i - 1
  <2>1. \A k \in 1 .. K : view[k] \in Seq(Nat)
    BY <1>0 DEF ViewOf
  <2>2. \A k \in 1 .. K : \A i \in 1 .. Len(view[k]) : view[k][i] \in Nat
    <3> SUFFICES ASSUME NEW k \in 1 .. K, NEW i \in 1 .. Len(view[k]) PROVE view[k][i] \in Nat
      OBVIOUS
    <3>1. view[k] \in Seq(Nat)
      BY <2>1
    <3> QED
      BY <3>1
  <2>3. \A k \in 1 .. K :
          Len(view[k]) > 0 /\ \A i \in 1 .. Len(view[k]) : view[k][i] = view[k][1] + i - 1
    BY <1>0 DEF ViewOf
  <2> QED
    BY <2>1, <2>2, <2>3
<1>8. \A k \in 1 .. Len(w) : (k \in 1 .. K - 1 /\ w[k] = view[k]) \/ (k = K /\ n # c /\ w[k] = rest)
  <2>1. CASE n = c
    BY <1>1, <1>6, <2>1
  <2>2. CASE n # c
    <3>1. Len(w) = K
      BY <1>6, <2>2
    <3>2. \A k \in 1 .. Len(w) : k \in 1 .. K - 1 \/ k = K
      BY <1>1, <3>1
    <3> QED
      BY <1>6, <2>2, <3>2
  <2> QED
    BY <2>1, <2>2
<1>9. \A k \in 1 .. K - 1 : k \in 1 .. K /\ view[k][Len(view[k])] < t - c + 1
  <2>1. cur[1] = t - c + 1
    BY <1>1
  <2>2. K \in 1 .. K
    BY <1>1
  <2>3. \A j \in 1 .. K : j < K => view[j][Len(view[j])] < cur[1]
    BY <1>0, <2>2 DEF ViewOf
  <2>4. \A k \in 1 .. K - 1 : k \in 1 .. K /\ k < K
    BY <1>1
  <2> QED
    BY <2>1, <2>3, <2>4
<1>10. \A k \in 1 .. Len(w) :
         Len(w[k]) > 0 /\ \A i \in 1 .. Len(w[k]) : w[k][i] = w[k][1] + i - 1
  <2> SUFFICES ASSUME NEW k \in 1 .. Len(w)
               PROVE  Len(w[k]) > 0 /\ \A i \in 1 .. Len(w[k]) : w[k][i] = w[k][1] + i - 1
    OBVIOUS
  <2>1. CASE k \in 1 .. K - 1 /\ w[k] = view[k]
    BY <1>7, <1>9, <2>1
  <2>2. CASE k = K /\ n # c /\ w[k] = rest
    <3>1. c - n > 0 /\ 1 \in 1 .. c - n
      BY <1>1, <1>5, <2>2
    <3>2. rest[1] = t - c + 1
      BY <1>2, <3>1
    <3>3. \A i \in 1 .. c - n : rest[i] = rest[1] + i - 1
      BY <1>1, <1>2, <3>2
    <3> QED
      BY <1>2, <2>2, <3>1, <3>3
  <2> QED
    BY <1>8, <2>1, <2>2
<1>11. \A j \in 1 .. Len(w), k \in 1 .. Len(w) : j < k => w[j][Len(w[j])] < w[k][1]
  <2> SUFFICES ASSUME NEW j \in 1 .. Len(w), NEW k \in 1 .. Len(w), j < k
               PROVE  w[j][Len(w[j])] < w[k][1]
    OBVIOUS
  <2>1. j \in 1 .. K - 1 /\ w[j] = view[j]
    BY <1>1, <1>6, <1>8
  <2>2. CASE k \in 1 .. K - 1 /\ w[k] = view[k]
    BY <1>0, <1>9, <2>1, <2>2 DEF ViewOf
  <2>3. CASE k = K /\ n # c /\ w[k] = rest
    <3>1. rest[1] = t - c + 1
      BY <1>1, <1>2, <1>5, <2>3
    <3> QED
      BY <1>9, <2>1, <2>3, <3>1
  <2> QED
    BY <1>8, <2>2, <2>3
<1>12. ASSUME NEW k \in 1 .. K - 1, NEW l \in LinesIn(view[k]) PROVE l \in Nat /\ l <= t - c
  <2>1. PICK i \in 1 .. Len(view[k]) : l = view[k][i]
    BY DEF LinesIn
  <2>2. k \in 1 .. K /\ Len(view[k]) \in 1 .. Len(view[k])
    BY <1>7, <1>9
  <2>3. /\ l \in Nat /\ l = view[k][1] + i - 1 /\ Len(view[k]) \in Nat
        /\ view[k][Len(view[k])] = view[k][1] + Len(view[k]) - 1
        /\ view[k][1] \in Nat /\ view[k][Len(view[k])] < t - c + 1
    <3>1. l \in Nat /\ l = view[k][1] + i - 1 /\ Len(view[k]) \in Nat
      BY <1>7, <2>1, <2>2
    <3>2. view[k][Len(view[k])] = view[k][1] + Len(view[k]) - 1
      BY <1>7, <2>2
    <3>3. 1 \in 1 .. Len(view[k]) /\ view[k][Len(view[k])] < t - c + 1
      BY <1>7, <1>9, <2>2
    <3>4. view[k][1] \in Nat
      BY <1>7, <2>2, <3>3
    <3> QED
      BY <3>1, <3>2, <3>3, <3>4
  <2> QED
    BY <1>1, <2>3
<1>13. \A l : l \in LinesIn(cur) <=> l \in t - c + 1 .. t
  <2> HIDE DEF cur, K
  <2>1. ASSUME NEW l \in LinesIn(cur) PROVE l \in t - c + 1 .. t
    <3>1. PICK i \in 1 .. c : l = cur[i]
      BY <1>0, <2>1 DEF LinesIn
    <3>2. l = t - c + i
      BY <1>1, <3>1
    <3> QED
      BY <1>1, <3>2
  <2>2. ASSUME NEW l \in t - c + 1 .. t PROVE l \in LinesIn(cur)
    <3>1. l - (t - c) \in 1 .. c /\ t - c + (l - (t - c)) = l
      BY <1>1
    <3>2. cur[l - (t - c)] = l
      BY <1>1, <3>1
    <3> QED
      BY <1>0, <3>1, <3>2 DEF LinesIn
  <2> QED
    BY <2>1, <2>2
<1>14. n # c => \A l : l \in LinesIn(rest) <=> l \in t - c + 1 .. t - n
  <2>1. ASSUME NEW l \in LinesIn(rest) PROVE l \in t - c + 1 .. t - n
    <3>1. PICK i \in 1 .. c - n : l = rest[i]
      BY <1>2, <2>1 DEF LinesIn
    <3>2. l = t - c + i
      BY <1>2, <3>1
    <3> QED
      BY <1>1, <1>5, <3>2
  <2>2. ASSUME NEW l \in t - c + 1 .. t - n PROVE l \in LinesIn(rest)
    <3>1. l - (t - c) \in 1 .. c - n /\ t - c + (l - (t - c)) = l
      BY <1>1, <1>5
    <3> QED
      BY <1>2, <3>1 DEF LinesIn
  <2> QED
    BY <2>1, <2>2
<1>15. \A l : l \in X <=> (\E k \in 1 .. K - 1 : l \in LinesIn(view[k])) \/ l \in LinesIn(cur)
  <2>1. \A k \in 1 .. K : k \in 1 .. K - 1 \/ k = K
    BY <1>1
  <2>2. K \in 1 .. K /\ \A k \in 1 .. K - 1 : k \in 1 .. K
    BY <1>1
  <2> QED
    BY <1>0, <2>1, <2>2 DEF ViewOf
<1>16. \A l : l \in X \cap (1 .. t - n) <=> \E k \in 1 .. Len(w) : l \in LinesIn(w[k])
  <2> SUFFICES ASSUME NEW l
               PROVE l \in X \cap (1 .. t - n) <=> \E k \in 1 .. Len(w) : l \in LinesIn(w[k])
    OBVIOUS
  <2>1. ASSUME l \in X \cap (1 .. t - n) PROVE \E k \in 1 .. Len(w) : l \in LinesIn(w[k])
    <3>1. CASE \E k \in 1 .. K - 1 : l \in LinesIn(view[k])
      <4>1. PICK k \in 1 .. K - 1 : l \in LinesIn(view[k])
        BY <3>1
      <4>2. k \in 1 .. Len(w) /\ w[k] = view[k]
        BY <1>1, <1>6
      <4> QED
        BY <4>1, <4>2
    <3>2. CASE l \in LinesIn(cur)
      <4>1. l \in t - c + 1 .. t /\ l \in 1 .. t - n
        BY <1>13, <2>1, <3>2
      <4>2. n # c /\ l \in t - c + 1 .. t - n
        BY <1>1, <1>5, <4>1
      <4>3. K \in 1 .. Len(w) /\ w[K] = rest
        BY <1>1, <1>6, <4>2
      <4> QED
        BY <1>14, <4>2, <4>3
    <3> QED
      BY <1>15, <2>1, <3>1, <3>2
  <2>2. ASSUME NEW k \in 1 .. Len(w), l \in LinesIn(w[k]) PROVE l \in X \cap (1 .. t - n)
    <3>1. CASE k \in 1 .. K - 1 /\ w[k] = view[k]
      <4>1. l \in X
        BY <1>15, <2>2, <3>1
      <4>2. l \in Nat /\ l <= t - c /\ l > 0
        BY <1>12, <2>2, <3>1, <4>1
      <4> QED
        BY <1>1, <1>5, <4>1, <4>2
    <3>2. CASE k = K /\ n # c /\ w[k] = rest
      <4>1. l \in t - c + 1 .. t - n
        BY <1>14, <2>2, <3>2
      <4>2. l \in t - c + 1 .. t /\ l \in 1 .. t - n
        BY <1>1, <1>5, <4>1
      <4>3. l \in X
        BY <1>13, <1>15, <4>2
      <4> QED
        BY <4>2, <4>3
    <3> QED
      BY <1>8, <2>2, <3>1, <3>2
  <2> QED
    BY <2>1, <2>2
<1>17. ViewOf(w, X \cap (1 .. t - n))
  BY <1>6, <1>10, <1>11, <1>16 DEF ViewOf
<1>18. n = Len(view[Len(view)]) => Len(w) = Len(view) - 1
  BY <1>0, <1>6
<1> QED
  BY <1>17, <1>18

\* What came back are the last lines of the view, and there are some; what a turn then leaves.
ViewEnds(view, X, a, rem) ==
  /\ ViewOf(view, X) /\ a \in Nat /\ rem \in Seq(Nat) /\ rem # <<>>
  /\ \A i \in 1 .. Len(rem) : rem[i] = a + i /\ a + i \in X
  /\ \A l \in X : l > 0 /\ l <= a + Len(rem)

TurnLeft(s, view, X, a, rem) ==
  /\ s.on = TRUE /\ s.rem \in Seq(Nat) /\ Len(s.rem) < Len(rem)
  /\ \A i \in 1 .. Len(s.rem) : s.rem[i] = a + i
  /\ ViewOf(s.view, X \cap (1 .. a + Len(s.rem)))
  /\ s.rem # <<>> => Len(s.view) = Len(view) - 1

\* A turn of handle_rem_stdin takes the last of the lines out of both, and leaves some only
\* if it took a whole region.
LEMMA TurnTakes ==
  ASSUME NEW view, NEW X, NEW a, NEW rem, ViewEnds(view, X, a, rem), NEW s,
         s = Pipes!TakeRegion([view |-> view, rem |-> rem, on |-> TRUE])
  PROVE  TurnLeft(s, view, X, a, rem)
<1> DEFINE cur == view[Len(view)]
           c == Len(cur)
           r == Len(rem)
           n == IF c < r THEN c ELSE r
           t == a + r
<1>0. /\ ViewOf(view, X) /\ a \in Nat /\ rem \in Seq(Nat) /\ rem # <<>>
      /\ \A i \in 1 .. Len(rem) : rem[i] = a + i /\ a + i \in X
      /\ \A l \in X : l > 0 /\ l <= a + Len(rem)
  BY DEF ViewEnds
<1>1. r \in Nat /\ r > 0 /\ t \in X
  <2>1. r \in Nat /\ r > 0
    BY <1>0
  <2>2. r \in 1 .. r
    BY <2>1
  <2> QED
    BY <1>0, <2>1, <2>2
<1>2. /\ Len(view) > 0 /\ cur \in Seq(Nat) /\ c \in 1 .. t
      /\ \A i \in 1 .. c : cur[i] = t - c + i
  BY <1>0, <1>1, LastRegion
<1>3. Pipes!Last(view) = cur /\ Pipes!Front(view) = SubSeq(view, 1, Len(view) - 1) /\ view # <<>>
  <2>1. view # <<>>
    BY <1>2
  <2> QED
    BY <2>1 DEF Pipes!Last, Pipes!Front
<1>4. n \in 1 .. c /\ n \in 1 .. r /\ c \in Nat /\ t \in Nat /\ t = a + r
  BY <1>0, <1>1, <1>2
<1> HIDE DEF t
<1>5. SubSeq(cur, c - n + 1, c) = SubSeq(rem, r - n + 1, r)
  <2> DEFINE u == SubSeq(cur, c - n + 1, c)
             v == SubSeq(rem, r - n + 1, r)
  <2> HIDE DEF n
  <2>1. u \in Seq(Nat) /\ Len(u) = n /\ \A i \in 1 .. n : u[i] = cur[c - n + i]
    <3> HIDE DEF cur
    <3> QED BY <1>2, <1>4
  <2>2. v \in Seq(Nat) /\ Len(v) = n /\ \A i \in 1 .. n : v[i] = rem[r - n + i]
    BY <1>0, <1>1, <1>4
  <2> HIDE DEF u, v, cur, c
  <2>3. \A i \in 1 .. n : c - n + i \in 1 .. c /\ r - n + i \in 1 .. r
    BY <1>4
  <2>4. \A i \in 1 .. n : u[i] = v[i]
    <3> SUFFICES ASSUME NEW i \in 1 .. n PROVE u[i] = v[i]
      OBVIOUS
    <3>1. u[i] = t - c + (c - n + i) /\ v[i] = a + (r - n + i)
      BY <1>0, <1>2, <2>1, <2>2, <2>3
    <3> QED
      BY <1>0, <1>1, <1>4, <3>1
  <2>5. u = v
    BY <2>1, <2>2, <2>4, SeqEqual
  <2> QED
    BY <2>5 DEF u, v, cur, c
<1>6. s = [view |-> Pipes!Front(view) \o IF n = c THEN <<>> ELSE << SubSeq(cur, 1, c - n) >>,
           rem  |-> SubSeq(rem, 1, r - n), on |-> TRUE]
  <2> HIDE DEF n
  <2>1. ~(rem = <<>> \/ ~TRUE \/ view = <<>>)
    BY <1>0, <1>3
  <2>2. [view |-> view, rem |-> rem, on |-> TRUE].view = view
        /\ [view |-> view, rem |-> rem, on |-> TRUE].rem = rem
        /\ [view |-> view, rem |-> rem, on |-> TRUE].on = TRUE
    OBVIOUS
  <2> QED
    BY <1>3, <1>5, <2>1, <2>2, Zenon DEF Pipes!TakeRegion, n
<1> DEFINE w == Pipes!Front(view) \o IF n = c THEN <<>> ELSE << SubSeq(cur, 1, c - n) >>
           q == SubSeq(rem, 1, r - n)
<1> HIDE DEF n, w, q
<1>7. s.view = w /\ s.rem = q /\ s.on = TRUE
  <2>1. s = [view |-> w, rem |-> q, on |-> TRUE]
    BY <1>6, Zenon DEF w, q
  <2> QED
    BY <2>1
<1> USE DEF w, q
<1>8. q \in Seq(Nat) /\ Len(q) = r - n /\ \A i \in 1 .. r - n : q[i] = a + i
  <2>1. r - n \in Nat /\ \A i \in 1 .. r - n : i \in 1 .. r
    BY <1>0, <1>1, <1>4
  <2>2. rem \in Seq(Nat) /\ r = Len(rem) /\ n \in 1 .. r
    BY <1>0, <1>4
  <2>3. q \in Seq(Nat) /\ Len(q) = r - n
    BY <2>1, <2>2
  <2>4. \A i \in 1 .. r - n : q[i] = rem[i]
    BY <2>1, <2>2
  <2> HIDE DEF q
  <2> QED
    BY <1>0, <2>1, <2>3, <2>4
<1>9. /\ ViewOf(w, X \cap (1 .. t - n))
      /\ n = c => Len(w) = Len(view) - 1
  <2>1. \/ n = c /\ w = SubSeq(view, 1, Len(view) - 1)
        \/ /\ n < c
           /\ w = SubSeq(view, 1, Len(view) - 1) \o << SubSeq(cur, 1, c - n) >>
    <3> HIDE DEF cur, c
    <3>1. CASE n = c
      <4>1. SubSeq(view, 1, Len(view) - 1) \in Seq(Seq(Nat))
        BY <1>0, <1>2 DEF ViewOf
      <4>2. SubSeq(view, 1, Len(view) - 1) \o <<>> = SubSeq(view, 1, Len(view) - 1)
        BY <4>1
      <4> QED
        BY <1>3, <3>1, <4>2
    <3>2. CASE n < c
      <4>1. n # c
        BY <1>4, <3>2
      <4> QED
        BY <1>3, <3>2, <4>1
    <3>3. n = c \/ n < c
      BY <1>4
    <3> QED
      BY <3>1, <3>2, <3>3, Zenon
  <2>2. \A l \in X : l > 0 /\ l <= t
    BY <1>0, <1>4
  <2> HIDE DEF w
  <2> QED
    BY <1>0, <1>1, <1>4, <2>1, <2>2, ShorterView
<1>10. t - n = a + (r - n) /\ r - n < r /\ (r - n # 0 => n = c)
  BY <1>0, <1>1, <1>4 DEF n
<1> HIDE DEF w, q, c
<1>11. q # <<>> => r - n # 0
  BY <1>8
<1> QED
  BY <1>7, <1>8, <1>9, <1>10, <1>11 DEF TurnLeft

\* What is between two turns.
Turn(L) == [view : Seq(Seq(L)), rem : Seq(Nat), on : BOOLEAN]

\* A turn leaves what is of the same types.
LEMMA TurnTyped ==
  ASSUME NEW L, NEW was \in Turn(L) PROVE Pipes!TakeRegion(was) \in Turn(L)
<1> DEFINE cur == Pipes!Last(was.view)
           n == IF Len(cur) < Len(was.rem) THEN Len(cur) ELSE Len(was.rem)
           rest == SubSeq(cur, 1, Len(cur) - n)
           start == Pipes!Front(was.view)
           q == SubSeq(was.rem, 1, Len(was.rem) - n)
<1>1. was.view \in Seq(Seq(L)) /\ was.rem \in Seq(Nat) /\ was.on \in BOOLEAN
  BY DEF Turn
<1>2. CASE was.rem = <<>> \/ ~was.on \/ was.view = <<>>
  BY <1>2, Zenon DEF Pipes!TakeRegion
<1>3. CASE ~(was.rem = <<>> \/ ~was.on \/ was.view = <<>>)
  <2>1. cur \in Seq(L) /\ start \in Seq(Seq(L))
    BY <1>1, <1>3 DEF Pipes!Last, Pipes!Front
  <2> HIDE DEF cur, start
  <2>2. n \in Nat /\ n <= Len(cur) /\ n <= Len(was.rem) /\ Len(cur) \in Nat /\ Len(was.rem) \in Nat
    BY <1>1, <2>1
  <2> HIDE DEF n
  <2>3. rest \in Seq(L)
    <3>1. Len(cur) - n \in 0 .. Len(cur)
      BY <2>2
    <3> QED
      BY <2>1, <3>1
  <2>4. q \in Seq(Nat)
    <3>1. Len(was.rem) - n \in 0 .. Len(was.rem)
      BY <2>2
    <3> QED
      BY <1>1, <3>1
  <2> HIDE DEF rest, q
  <2>5. start \o <<>> \in Seq(Seq(L)) /\ start \o << rest >> \in Seq(Seq(L))
    BY <2>1, <2>3
  <2>6. [was EXCEPT !.on = FALSE] \in Turn(L)
    BY DEF Turn
  <2>7. [view |-> start \o IF n = Len(cur) THEN <<>> ELSE << rest >>, rem |-> q, on |-> TRUE] \in Turn(L)
    BY <2>4, <2>5 DEF Turn
  <2>8. Pipes!TakeRegion(was) \in
          { [was EXCEPT !.on = FALSE],
            [view |-> start \o IF n = Len(cur) THEN <<>> ELSE << rest >>, rem |-> q, on |-> TRUE] }
    BY <1>3, Zenon DEF Pipes!TakeRegion, cur, n, rest, start, q
  <2> QED
    BY <2>6, <2>7, <2>8
<1> QED
  BY <1>2, <1>3

\* What the loop leaves is what its turns make, as many as there are regions.
LEMMA TurnsTaken ==
  ASSUME NEW L, NEW view \in Seq(Seq(L)), NEW rem \in Seq(Nat)
  PROVE  \E f \in [0 .. Len(view) -> Turn(L)] :
           /\ f[0] = [view |-> view, rem |-> rem, on |-> TRUE]
           /\ \A i \in 1 .. Len(view) : f[i] = Pipes!TakeRegion(f[i - 1])
           /\ f[Len(view)] = Pipes!TakenOut(view, rem)
<1> DEFINE base == [view |-> view, rem |-> rem, on |-> TRUE]
           step == [was \in Turn(L) |-> Pipes!TakeRegion(was)]
           N == Len(view)
           Is(g) == g = [i \in 0 .. N |-> IF i = 0 THEN base ELSE Pipes!TakeRegion(g[i - 1])]
           h == CHOOSE g : Is(g)
<1>1. base \in Turn(L) /\ step \in [Turn(L) -> Turn(L)] /\ N \in Nat
  <2>1. base \in Turn(L)
    BY DEF Turn
  <2> QED
    BY <2>1, TurnTyped
<1>2. PICK f \in [0 .. N -> Turn(L)] : f[0] = base /\ \A i \in 1 .. N : f[i] = step[f[i - 1]]
  <2> HIDE DEF base, step, N
  <2>1. \E f : TurnByTurn(f, Turn(L), base, step, N)
    BY <1>1, Turns, Zenon
  <2> QED
    BY <2>1 DEF TurnByTurn
<1> HIDE DEF base
<1>3. \A i \in 1 .. N : f[i] = Pipes!TakeRegion(f[i - 1])
  <2> SUFFICES ASSUME NEW i \in 1 .. N PROVE f[i] = Pipes!TakeRegion(f[i - 1])
    OBVIOUS
  <2>1. i - 1 \in 0 .. N
    BY <1>1
  <2>2. f[i - 1] \in Turn(L)
    BY <2>1
  <2> QED
    BY <1>2, <2>2
<1> HIDE DEF N
<1>4. Is(f)
  <2>1. \A i \in 0 .. N : i = 0 \/ i \in 1 .. N
    BY <1>1
  <2>2. \A i \in 0 .. N : f[i] = IF i = 0 THEN base ELSE Pipes!TakeRegion(f[i - 1])
    BY <1>2, <1>3, <2>1
  <2> QED
    BY <2>2
<1>5. Is(h)
  <2> HIDE DEF Is
  <2> QED
    BY <1>4
<1>6. h \in [0 .. N -> Turn(L)]
  <2>1. h = [i \in 0 .. N |-> IF i = 0 THEN base ELSE Pipes!TakeRegion(h[i - 1])]
    BY <1>5
  <2> HIDE DEF h
  <2> DEFINE T == {i \in 0 .. N : h[i] = f[i]}
  <2>2. \A i \in 0 .. N : h[i] = IF i = 0 THEN base ELSE Pipes!TakeRegion(h[i - 1])
    BY <2>1
  <2>3. 0 \in T
    BY <1>1, <1>2, <2>2
  <2>4. ASSUME NEW i \in 0 .. N - 1, i \in T PROVE i + 1 \in T
    <3>1. i + 1 \in 1 .. N /\ i + 1 \in 0 .. N /\ (i + 1) - 1 = i /\ i + 1 # 0
      BY <1>1
    <3>2. h[i + 1] = Pipes!TakeRegion(h[i])
      BY <2>2, <3>1
    <3>3. f[i + 1] = Pipes!TakeRegion(f[i])
      BY <1>3, <3>1
    <3> QED
      BY <2>4, <3>1, <3>2, <3>3
  <2> HIDE DEF T
  <2>5. 0 .. N \subseteq T
    BY <1>1, <2>3, <2>4, UpTo
  <2>6. \A i \in 0 .. N : h[i] = f[i]
    BY <2>5 DEF T
  <2>7. h = [i \in 0 .. N |-> h[i]]
    BY <2>1
  <2> QED
    BY <2>6, <2>7
<1>7. /\ h[0] = base
      /\ \A i \in 1 .. N : h[i] = Pipes!TakeRegion(h[i - 1])
  <2>1. h = [i \in 0 .. N |-> IF i = 0 THEN base ELSE Pipes!TakeRegion(h[i - 1])]
    BY <1>5
  <2> HIDE DEF h
  <2> QED
    BY <1>1, <2>1
<1>8. Pipes!TakenOut(view, rem) = h[N]
  BY DEF Pipes!TakenOut, base, N
<1> QED
  BY <1>6, <1>7, <1>8 DEF base, N

\* If what came back are the last lines of the view, the loop takes all of them.
LEMMA AllTaken ==
  ASSUME NEW L, NEW view \in Seq(Seq(L)), NEW rem \in Seq(Nat), NEW a \in Nat, NEW X,
         ViewOf(view, X), \A i \in 1 .. Len(rem) : rem[i] = a + i /\ a + i \in X,
         \A l \in X : l > 0 /\ l <= a + Len(rem)
  PROVE  LET out == Pipes!TakenOut(view, rem) IN
         out.rem = <<>> /\ ViewOf(out.view, X \cap (1 .. a))
<1> DEFINE N == Len(view)
           Left(s, i) == /\ s.on = TRUE /\ s.rem \in Seq(Nat) /\ Len(s.rem) <= Len(rem)
                         /\ \A j \in 1 .. Len(s.rem) : s.rem[j] = a + j
                         /\ ViewOf(s.view, X \cap (1 .. a + Len(s.rem)))
                         /\ s.rem # <<>> => Len(s.view) = N - i
<1>1. PICK f \in [0 .. N -> Turn(L)] :
        /\ f[0] = [view |-> view, rem |-> rem, on |-> TRUE]
        /\ \A i \in 1 .. N : f[i] = Pipes!TakeRegion(f[i - 1])
        /\ f[N] = Pipes!TakenOut(view, rem)
  BY TurnsTaken
<1>2. N \in Nat /\ Len(rem) \in Nat
  OBVIOUS
<1>3. Left(f[0], 0)
  <2>1. f[0].view = view /\ f[0].rem = rem /\ f[0].on = TRUE
    BY <1>1
  <2>2. \A l : l \in X <=> l \in X \cap (1 .. a + Len(rem))
    <3> SUFFICES ASSUME NEW l \in X PROVE l \in 1 .. a + Len(rem)
      OBVIOUS
    <3>1. l \in Nat
      <4>1. PICK k \in 1 .. N : l \in LinesIn(view[k])
        BY DEF ViewOf
      <4>2. view[k] \in Seq(Nat)
        BY DEF ViewOf
      <4> QED
        BY <4>1, <4>2 DEF LinesIn
    <3> QED
      BY <1>2, <3>1
  <2>3. X = X \cap (1 .. a + Len(rem))
    BY <2>2
  <2>4. ViewOf(view, X \cap (1 .. a + Len(rem)))
    BY <2>3
  <2> QED
    BY <1>2, <2>1, <2>4
<1>4. ASSUME NEW i \in 0 .. N - 1, Left(f[i], i) PROVE Left(f[i + 1], i + 1)
  <2>1. i \in 0 .. N /\ i + 1 \in 1 .. N /\ (i + 1) - 1 = i
    BY <1>2
  <2>2. f[i] \in Turn(L) /\ f[i + 1] = Pipes!TakeRegion(f[i])
    BY <1>1, <2>1
  <2> DEFINE v == f[i].view
             q == f[i].rem
             Y == X \cap (1 .. a + Len(q))
             s == f[i + 1]
  <2>3. f[i] = [view |-> v, rem |-> q, on |-> TRUE]
    BY <1>4, <2>2 DEF Turn
  <2>4. /\ q \in Seq(Nat) /\ Len(q) <= Len(rem) /\ \A j \in 1 .. Len(q) : q[j] = a + j
        /\ ViewOf(v, Y) /\ (q # <<>> => Len(v) = N - i) /\ Len(q) \in Nat
    BY <1>4
  <2>5. CASE q = <<>>
    <3>1. s = f[i]
      BY <2>2, <2>3, <2>5, Zenon DEF Pipes!TakeRegion
    <3> QED
      BY <1>4, <2>5, <3>1
  <2>6. CASE q # <<>>
    <3> HIDE DEF Left, N, v, q, s
    <3>1. \A j \in 1 .. Len(q) : q[j] = a + j /\ a + j \in Y
      <4>1. \A j \in 1 .. Len(q) : j \in 1 .. Len(rem) /\ a + j \in 1 .. a + Len(q)
        BY <1>2, <2>4
      <4>2. \A j \in 1 .. Len(q) : a + j \in X
        BY <4>1
      <4> QED
        BY <2>4, <4>1, <4>2
    <3>2. \A l \in Y : l > 0 /\ l <= a + Len(q)
      BY <2>4
    <3>3. s = Pipes!TakeRegion([view |-> v, rem |-> q, on |-> TRUE])
      BY <2>2, <2>3, Zenon DEF s
    <3> HIDE DEF Y
    <3>9. ViewEnds(v, Y, a, q)
      BY <2>4, <2>6, <3>1, <3>2 DEF ViewEnds
    <3>10. TurnLeft(s, v, Y, a, q)
      BY <3>3, <3>9, TurnTakes, Zenon
    <3>4. /\ s.on = TRUE /\ s.rem \in Seq(Nat) /\ Len(s.rem) < Len(q)
          /\ \A j \in 1 .. Len(s.rem) : s.rem[j] = a + j
          /\ ViewOf(s.view, Y \cap (1 .. a + Len(s.rem)))
          /\ s.rem # <<>> => Len(s.view) = Len(v) - 1
      BY <3>10 DEF TurnLeft
    <3>5. Len(s.rem) \in Nat
      BY <3>4
    <3>6. Y \cap (1 .. a + Len(s.rem)) = X \cap (1 .. a + Len(s.rem))
      <4>1. 1 .. a + Len(s.rem) \subseteq 1 .. a + Len(q)
        BY <2>4, <3>4, <3>5
      <4> QED
        BY <4>1 DEF Y
    <3>7. Len(s.rem) <= Len(rem)
      BY <1>2, <2>4, <3>4, <3>5
    <3>8. s.rem # <<>> => Len(s.view) = N - (i + 1)
      <4>1. i \in Nat /\ N \in Nat
        BY <1>2
      <4>2. Len(v) = N - i
        BY <2>4, <2>6, Zenon
      <4>3. s.rem # <<>> => Len(s.view) = Len(v) - 1
        BY <3>4, Zenon
      <4>4. Len(v) - 1 = N - (i + 1)
        BY <4>1, <4>2
      <4> QED
        BY <4>3, <4>4, Zenon
    <3> QED
      BY <3>4, <3>6, <3>7, <3>8 DEF Left, s
  <2> QED
    BY <2>5, <2>6
<1> DEFINE T == {i \in 0 .. N : Left(f[i], i)}
<1> HIDE DEF Left, N
<1>5. 0 .. N \subseteq T
  <2>1. 0 \in T
    BY <1>2, <1>3
  <2>2. ASSUME NEW i \in 0 .. N - 1, i \in T PROVE i + 1 \in T
    <3>1. i + 1 \in 0 .. N
      BY <1>2
    <3> QED
      BY <1>4, <2>2, <3>1
  <2> HIDE DEF T
  <2> QED
    BY <1>2, <2>1, <2>2, UpTo
<1>6. Left(f[N], N)
  BY <1>2, <1>5
<1> DEFINE out == f[N]
<1>7. /\ out.rem \in Seq(Nat) /\ ViewOf(out.view, X \cap (1 .. a + Len(out.rem)))
      /\ Len(out.rem) \in Nat /\ Len(out.rem) <= Len(rem)
      /\ out.rem # <<>> => Len(out.view) = 0
  BY <1>2, <1>6 DEF Left
<1> HIDE DEF out
<1>8. out.rem = <<>>
  <2> SUFFICES ASSUME out.rem # <<>> PROVE FALSE
    OBVIOUS
  <2>1. Len(out.rem) > 0 /\ Len(out.rem) \in 1 .. Len(rem)
    BY <1>2, <1>7
  <2>2. a + Len(out.rem) \in X \cap (1 .. a + Len(out.rem))
    BY <2>1
  <2>3. \E k \in 1 .. Len(out.view) : a + Len(out.rem) \in LinesIn(out.view[k])
    BY <1>7, <2>2 DEF ViewOf
  <2> QED
    BY <1>7, <2>3
<1>9. Len(out.rem) = 0 /\ a + 0 = a
  BY <1>8
<1> QED
  BY <1>1, <1>7, <1>8, <1>9 DEF out, N

\* What is typed is a region of its own.
LEMMA RegionAdded ==
  ASSUME NEW view, NEW X, ViewOf(view, X), NEW z \in Nat, \A l \in X : l <= z,
         NEW n \in Nat \ {0}, NEW ls \in Seq(Nat), Len(ls) = n, \A i \in 1 .. n : ls[i] = z + i
  PROVE  ViewOf(Append(view, ls), X \cup (z + 1 .. z + n))
<1> DEFINE w == Append(view, ls)
           K == Len(view)
<1>1. /\ K \in Nat /\ w \in Seq(Seq(Nat)) /\ Len(w) = K + 1
      /\ \A k \in 1 .. K : w[k] = view[k] 
      /\ w[K + 1] = ls
  BY DEF ViewOf
<1>2. \A k \in 1 .. K : Len(view[k]) \in Nat /\ Len(view[k]) > 0 /\ view[k] \in Seq(Nat)
  BY DEF ViewOf
<1>0. K = Len(view)
  OBVIOUS
<1> HIDE DEF w, K
<1>3. \A k \in 1 .. Len(w) : k \in 1 .. K \/ k = K + 1
  BY <1>1
<1>4. \A l : l \in LinesIn(ls) <=> l \in z + 1 .. z + n
  <2>1. ASSUME NEW l \in z + 1 .. z + n PROVE l \in LinesIn(ls)
    <3>1. l - z \in 1 .. n /\ z + (l - z) = l
      OBVIOUS
    <3>2. ls[l - z] = l
      BY <3>1
    <3> QED
      BY <3>1, <3>2 DEF LinesIn
  <2>2. ASSUME NEW l \in LinesIn(ls) PROVE l \in z + 1 .. z + n
    <3>1. PICK i \in 1 .. n : l = ls[i]
      BY <2>2 DEF LinesIn
    <3>2. l = z + i
      BY <3>1
    <3> QED
      BY <3>2
  <2> QED
    BY <2>1, <2>2
<1>5. \A k \in 1 .. Len(w) : Len(w[k]) > 0 /\ \A i \in 1 .. Len(w[k]) : w[k][i] = w[k][1] + i - 1
  <2> SUFFICES ASSUME NEW k \in 1 .. Len(w)
               PROVE  Len(w[k]) > 0 /\ \A i \in 1 .. Len(w[k]) : w[k][i] = w[k][1] + i - 1
    OBVIOUS
  <2>1. CASE k \in 1 .. K
    <3>1. Len(view[k]) > 0 /\ \A i \in 1 .. Len(view[k]) : view[k][i] = view[k][1] + i - 1
      BY <1>0, <2>1 DEF ViewOf
    <3> QED
      BY <1>1, <2>1, <3>1
  <2>2. CASE k = K + 1
    <3>1. ls[1] = z + 1
      OBVIOUS
    <3>2. \A i \in 1 .. n : ls[i] = ls[1] + i - 1
      BY <3>1
    <3> QED
      BY <1>1, <2>2, <3>2
  <2> QED
    BY <1>3, <2>1, <2>2
<1>6. \A k \in 1 .. K : view[k][Len(view[k])] < z + 1
  <2> SUFFICES ASSUME NEW k \in 1 .. K PROVE view[k][Len(view[k])] < z + 1
    OBVIOUS
  <2>1. Len(view[k]) \in 1 .. Len(view[k])
    BY <1>2
  <2>2. view[k][Len(view[k])] \in X /\ view[k][Len(view[k])] \in Nat
    BY <1>0, <1>2, <2>1 DEF ViewOf, LinesIn
  <2> QED
    BY <2>2
<1>7. \A j \in 1 .. Len(w), k \in 1 .. Len(w) : j < k => w[j][Len(w[j])] < w[k][1]
  <2> SUFFICES ASSUME NEW j \in 1 .. Len(w), NEW k \in 1 .. Len(w), j < k
               PROVE  w[j][Len(w[j])] < w[k][1]
    OBVIOUS
  <2>1. j \in 1 .. K /\ w[j] = view[j]
    BY <1>1
  <2>2. CASE k \in 1 .. K
    BY <1>0, <1>1, <2>1, <2>2 DEF ViewOf
  <2>3. CASE k = K + 1
    <3>1. w[k][1] = z + 1
      BY <1>1, <2>3
    <3> QED
      BY <1>6, <2>1, <3>1
  <2> QED
    BY <1>3, <2>2, <2>3
<1>8. \A l : l \in X \cup (z + 1 .. z + n) <=> \E k \in 1 .. Len(w) : l \in LinesIn(w[k])
  <2>1. \A l : l \in X <=> \E k \in 1 .. K : l \in LinesIn(w[k])
    <3>1. \A l : l \in X <=> \E k \in 1 .. K : l \in LinesIn(view[k])
      BY <1>0 DEF ViewOf
    <3> QED
      BY <1>1, <3>1
  <2>2. \A l : l \in z + 1 .. z + n <=> l \in LinesIn(w[K + 1])
    BY <1>1, <1>4
  <2>3. K + 1 \in 1 .. Len(w) /\ \A k \in 1 .. K : k \in 1 .. Len(w)
    BY <1>1
  <2> QED
    BY <1>3, <2>1, <2>2, <2>3
<1> QED
  BY <1>1, <1>5, <1>7, <1>8 DEF ViewOf, w

-----------------------------------------------------------------------------
\* Lines that follow each other, from the one after a line.
FollowFrom(s, z) == \A i \in 1 .. Len(s) : s[i] = z + i

\* What is to be read or written yet, or was left, are the last lines that were typed, in
\* their order.
PipesLast ==
  /\ FollowFrom(toWrite, lines - Len(toWrite))
  /\ FollowFrom(inPipe, lines - Len(toWrite) - Len(inPipe))
  /\ FollowFrom(Returning, lines - Len(toWrite) - Len(inPipe) - Len(Returning))

\* The text view shows what did not come back, and what comes back is found there.
PipesView ==
  /\ textview \in Seq(Seq(1 .. lines))
  /\ ~late /\ ~discarded => ViewOf(textview, (1 .. lines) \ sourcebox) /\ ~failed

\* Lines that are written go on to follow each other.
LEMMA LastWrites ==
  ASSUME Pipes!ConstantsFit, inPipe \in Seq(Nat), Len(inPipe) <= InCap, NEW ls \in Seq(Nat),
         NEW z \in Nat, Len(ls) <= z, Pipes!WriteTo(inPipe, ls), FollowFrom(ls, z - Len(ls)),
         FollowFrom(inPipe, z - Len(ls) - Len(inPipe))
  PROVE  /\ FollowFrom(toWrite', z - Len(toWrite'))
         /\ FollowFrom(inPipe', z - Len(toWrite') - Len(inPipe'))
         /\ Len(toWrite') + Len(inPipe') = Len(ls) + Len(inPipe)
<1> DEFINE room == InCap - Len(inPipe)
           n == IF Len(ls) < room THEN Len(ls) ELSE room
           p == SubSeq(ls, 1, n)
           q == SubSeq(ls, n + 1, Len(ls))
           P == Len(inPipe)
           W == Len(ls)
<1>1. inPipe' = inPipe \o p /\ toWrite' = q
  BY DEF Pipes!WriteTo
<1>2. P \in Nat /\ W \in Nat /\ InCap \in Nat
  BY DEF Pipes!ConstantsFit
<1>3. n \in 0 .. W
  BY <1>2
<1> HIDE DEF n
<1>4. /\ p \in Seq(Nat) /\ Len(p) = n /\ \A i \in 1 .. n : p[i] = ls[i]
      /\ q \in Seq(Nat) /\ Len(q) = W - n /\ \A i \in 1 .. W - n : q[i] = ls[n + i]
  <2>1. p \in Seq(Nat) /\ Len(p) = n /\ \A i \in 1 .. n : p[i] = ls[i]
    BY <1>2, <1>3
  <2>2. q \in Seq(Nat) /\ Len(q) = W - n /\ \A i \in 1 .. W - n : q[i] = ls[n + i]
    BY <1>2, <1>3
  <2> QED
    BY <2>1, <2>2
<1> HIDE DEF p, q
<1>5. /\ Len(inPipe \o p) = P + n
      /\ \A i \in 1 .. P : (inPipe \o p)[i] = inPipe[i]
      /\ \A i \in 1 .. n : (inPipe \o p)[P + i] = p[i]
  <2>1. /\ Len(inPipe \o p) = Len(inPipe) + Len(p)
        /\ \A i \in 1 .. Len(inPipe) : (inPipe \o p)[i] = inPipe[i]
        /\ \A i \in 1 .. Len(p) : (inPipe \o p)[Len(inPipe) + i] = p[i]
    <3>1. inPipe \in Seq(Nat) /\ p \in Seq(Nat)
      BY <1>4
    <3> QED
      BY <3>1, Concatenated
  <2> QED
    BY <1>4, <2>1
<1>6. /\ \A i \in 1 .. W : ls[i] = z - W + i
      /\ \A i \in 1 .. P : inPipe[i] = z - W - P + i
  BY DEF FollowFrom
<1>7. Len(toWrite') = W - n /\ Len(inPipe') = P + n
  BY <1>1, <1>4, <1>5
<1> HIDE DEF W, P
<1>8. FollowFrom(toWrite', z - Len(toWrite'))
  <2>1. \A i \in 1 .. W - n : toWrite'[i] = ls[n + i] /\ n + i \in 1 .. W
    BY <1>1, <1>2, <1>3, <1>4
  <2>2. \A i \in 1 .. W - n : toWrite'[i] = z - W + (n + i)
    BY <1>6, <2>1
  <2>3. \A i \in 1 .. W - n : toWrite'[i] = z - (W - n) + i
    BY <1>2, <1>3, <2>2
  <2> QED
    BY <1>7, <2>3 DEF FollowFrom
<1>9. FollowFrom(inPipe', z - Len(toWrite') - Len(inPipe'))
  <2>1. \A i \in 1 .. P : inPipe'[i] = z - W - P + i
    BY <1>1, <1>5, <1>6
  <2>2. ASSUME NEW i \in 1 .. n PROVE inPipe'[P + i] = z - W + i
    <3>1. i \in 1 .. W
      BY <1>2, <1>3
    <3>2. inPipe'[P + i] = p[i] /\ p[i] = ls[i]
      BY <1>1, <1>4, <1>5
    <3>3. ls[i] = z - W + i
      BY <1>6, <3>1
    <3> QED
      BY <3>2, <3>3
  <2>3. ASSUME NEW i \in 1 .. P + n PROVE inPipe'[i] = z - (W - n) - (P + n) + i
    <3>1. z - (W - n) - (P + n) + i = z - W - P + i
      BY <1>2, <1>3
    <3>2. CASE i <= P
      BY <1>2, <2>1, <3>1, <3>2
    <3>3. CASE i > P
      <4>1. i - P \in 1 .. n /\ P + (i - P) = i
        BY <1>2, <1>3, <3>3
      <4>2. inPipe'[i] = z - W + (i - P)
        BY <2>2, <4>1
      <4>3. z - W + (i - P) = z - W - P + i
        BY <1>2, <1>3
      <4> QED
        BY <3>1, <4>2, <4>3
    <3>4. i \in Nat
      BY <1>2, <1>3
    <3> QED
      BY <1>2, <3>2, <3>3, <3>4
  <2> QED
    BY <1>7, <2>3 DEF FollowFrom
<1>10. Len(toWrite') + Len(inPipe') = Len(ls) + Len(inPipe)
  <2>1. Len(toWrite') + Len(inPipe') = W + P
    BY <1>2, <1>3, <1>7
  <2> QED
    BY <2>1 DEF W, P
<1> QED
  BY <1>8, <1>9, <1>10

\* The lines that are unread are no more than were typed.
LEMMA LastFit ==
  ASSUME PipesPlaces, PipesLast
  PROVE  /\ {toWrite, inPipe, Returning} \subseteq Seq(Nat) /\ Len(toWrite) \in Nat
         /\ Len(inPipe) \in Nat /\ Len(Returning) \in Nat /\ lines \in Nat
         /\ Len(toWrite) <= lines /\ Len(toWrite) + Len(inPipe) <= lines
         /\ Len(toWrite) + Len(inPipe) + Len(Returning) <= lines
<1> DEFINE W == Len(toWrite)
           P == Len(inPipe)
           R == Len(Returning)
<1>1. /\ {toWrite, inPipe, Returning} \subseteq Seq(Nat) /\ lines \in Nat /\ W \in Nat
      /\ P \in Nat /\ R \in Nat
  BY DEF PipesPlaces, IsLines
<1>2. \A s \in {toWrite, inPipe, Returning} : LinesIn(s) \subseteq 1 .. lines
  BY DEF PipesPlaces, Partition
<1>3. \A s \in {toWrite, inPipe, Returning} : Len(s) > 0 => s[1] \in 1 .. lines
  <2> SUFFICES ASSUME NEW s \in {toWrite, inPipe, Returning}, Len(s) > 0 PROVE s[1] \in 1 .. lines
    OBVIOUS
  <2>1. 1 \in 1 .. Len(s)
    BY <1>1
  <2> QED
    BY <1>2, <2>1 DEF LinesIn
<1>4. /\ W > 0 => toWrite[1] = lines - W + 1
      /\ P > 0 => inPipe[1] = lines - W - P + 1
      /\ R > 0 => Returning[1] = lines - W - P - R + 1
  <2>1. /\ W > 0 => 1 \in 1 .. W
        /\ P > 0 => 1 \in 1 .. P
        /\ R > 0 => 1 \in 1 .. R
    BY <1>1
  <2> QED
    BY <2>1 DEF PipesLast, FollowFrom
<1>5. /\ W > 0 => toWrite[1] \in 1 .. lines
      /\ P > 0 => inPipe[1] \in 1 .. lines
      /\ R > 0 => Returning[1] \in 1 .. lines
  BY <1>3
<1> HIDE DEF W, P, R
<1>6. W <= lines
  BY <1>1, <1>4, <1>5
<1>7. W + P <= lines
  BY <1>1, <1>4, <1>5, <1>6
<1>8. W + P + R <= lines
  BY <1>1, <1>4, <1>5, <1>7
<1> QED
  BY <1>1, <1>6, <1>7, <1>8 DEF W, P, R

\* What is left does not depend on how a sum is divided.
LEMMA OtherParts ==
  ASSUME NEW z \in Int, NEW a \in Int, NEW b \in Int, NEW c \in Int, NEW d \in Int, NEW r \in Int,
         a + b = c + d
  PROVE  z - a - b - r = z - c - d - r
  OBVIOUS

\* What is added to both sides is not left.
LEMMA SameSum ==
  ASSUME NEW y \in Int, NEW z \in Int, NEW n \in Int, NEW a \in Int, NEW b \in Int, NEW c \in Int,
         NEW d \in Int, NEW q \in Int, NEW r \in Int,
         y = z + n, a + b = n + d, c = 0, q = r
  PROVE  y - a - b - q = z - c - d - r
  OBVIOUS

\* No step changes the order of the lines.
LEMMA LastStep ==
  ASSUME Pipes!ConstantsFit, PipesControl, PipesPlaces, PipesLast, [Pipes!Next]_Pipes!vars
  PROVE  PipesLast'
<1>0. /\ toWrite \in Seq(Nat) /\ inPipe \in Seq(Nat) /\ Returning \in Seq(Nat)
      /\ Len(toWrite) \in Nat /\ Len(inPipe) \in Nat /\ Len(Returning) \in Nat /\ lines \in Nat
      /\ Len(toWrite) <= lines /\ Len(inPipe) <= InCap
  BY LastFit DEF PipesPlaces
<1>1. CASE Pipes!SendStdin
  <2>1. PICK n \in 1 .. MaxLines - lines :
          lines' = lines + n /\ Pipes!WriteTo(inPipe, [i \in 1 .. n |-> lines + i])
    BY <1>1 DEF Pipes!SendStdin
  <2> DEFINE ls == [i \in 1 .. n |-> lines + i]
  <2>2. ls \in Seq(Nat) /\ Len(ls) = n /\ n \in Nat /\ \A i \in 1 .. n : ls[i] = lines + i
    BY <1>0
  <2>3. Pipes!WriteTo(inPipe, ls)
    BY <2>1
  <2> HIDE DEF ls
  <2>4. Len(toWrite) = 0 /\ UNCHANGED <<left, sock>>
    BY <1>1 DEF Pipes!SendStdin, PipesPlaces
  <2>5. FollowFrom(ls, lines' - Len(ls)) /\ FollowFrom(inPipe, lines' - Len(ls) - Len(inPipe))
    <3>1. lines' - Len(ls) = lines - Len(toWrite) /\ lines' - Len(ls) = lines
      BY <1>0, <2>1, <2>2, <2>4
    <3> QED
      BY <2>2, <3>1 DEF PipesLast, FollowFrom
  <2>6. lines' \in Nat /\ Len(ls) <= lines'
    BY <1>0, <2>1, <2>2
  <2>7. /\ FollowFrom(toWrite', lines' - Len(toWrite'))
        /\ FollowFrom(inPipe', lines' - Len(toWrite') - Len(inPipe'))
        /\ Len(toWrite') + Len(inPipe') = Len(ls) + Len(inPipe)
    BY <1>0, <2>2, <2>3, <2>5, <2>6, LastWrites
  <2>8. Returning' = Returning
    BY <2>4 DEF Returning
  <2>9. Len(toWrite') \in Nat /\ Len(inPipe') \in Nat
    <3>1. toWrite' \in Seq(Nat) /\ inPipe' \in Seq(Nat)
      BY <1>1, PlacesSend DEF PipesPlaces, IsLines
    <3> QED
      BY <3>1
  <2>10. lines' - Len(toWrite') - Len(inPipe') - Len(Returning')
           = lines - Len(toWrite) - Len(inPipe) - Len(Returning)
    <3>1. /\ Len(toWrite') + Len(inPipe') = n + Len(inPipe)
          /\ Len(toWrite') \in Int /\ Len(inPipe') \in Int /\ Len(inPipe) \in Int
          /\ Len(Returning) \in Int /\ lines \in Int /\ n \in Int
      BY <1>0, <2>2, <2>7, <2>9
    <3>2. /\ lines' = lines + n /\ lines' \in Int /\ Len(toWrite) \in Int /\ Len(toWrite) = 0
          /\ Len(Returning') = Len(Returning) /\ Len(Returning') \in Int
      BY <1>0, <2>1, <2>4, <2>6, <2>8
    <3> QED
      BY <3>1, <3>2, SameSum
  <2> QED
    BY <2>7, <2>8, <2>10 DEF PipesLast
<1>2. CASE Pipes!GoOnWriting
  <2>1. Pipes!WriteTo(inPipe, toWrite) /\ UNCHANGED <<left, sock, lines>>
    BY <1>2 DEF Pipes!GoOnWriting
  <2>2. /\ FollowFrom(toWrite', lines - Len(toWrite'))
        /\ FollowFrom(inPipe', lines - Len(toWrite') - Len(inPipe'))
        /\ Len(toWrite') + Len(inPipe') = Len(toWrite) + Len(inPipe)
    BY <1>0, <2>1, LastWrites DEF PipesLast
  <2>3. Returning' = Returning
    BY <2>1 DEF Returning
  <2>4. Len(toWrite') \in Nat /\ Len(inPipe') \in Nat
    <3>1. toWrite' \in Seq(Nat) /\ inPipe' \in Seq(Nat)
      BY <1>2, PlacesWrite DEF PipesPlaces, IsLines
    <3> QED
      BY <3>1
  <2>5. lines - Len(toWrite') - Len(inPipe') - Len(Returning)
           = lines - Len(toWrite) - Len(inPipe) - Len(Returning)
    <3>1. /\ Len(toWrite') + Len(inPipe') = Len(toWrite) + Len(inPipe)
          /\ Len(toWrite') \in Int /\ Len(inPipe') \in Int /\ Len(toWrite) \in Int
          /\ Len(inPipe) \in Int /\ Len(Returning) \in Int /\ lines \in Int
      BY <1>0, <2>2, <2>4
    <3> QED
      BY <3>1, OtherParts
  <2> QED
    BY <2>1, <2>2, <2>3, <2>5 DEF PipesLast
<1>3. CASE Pipes!PollSocket
  <2>1. UNCHANGED <<left, lines, toWrite, inPipe>>
    BY <1>3 DEF Pipes!PollSocket, Pipes!subVars
  <2>2. Returning' = Returning \/ Returning' = <<>>
    <3>1. CASE sock = <<>>
      BY <1>3, <2>1, <3>1 DEF Pipes!PollSocket, Returning
    <3>2. CASE sock # <<>>
      <4>1. left = <<>> /\ \E rem : sock = << rem >>
        BY <3>2 DEF PipesControl
      <4>2. sock' = <<>>
        BY <1>3, <3>2, <4>1 DEF Pipes!PollSocket, Pipes!ShowResult
      <4> QED
        BY <2>1, <4>1, <4>2 DEF Returning
    <3> QED
      BY <3>1, <3>2
  <2> QED
    BY <2>1, <2>2 DEF PipesLast, FollowFrom
<1>4. CASE Pipes!ReadLine
  <2>1. UNCHANGED <<left, sock, lines, toWrite>> /\ sub = "runs"
    BY <1>4 DEF Pipes!ReadLine, Pipes!guiVars
  <2>2. Returning = <<>> /\ Returning' = <<>>
    BY <2>1 DEF Returning, PipesControl
  <2>3. inPipe' = inPipe \/ inPipe' = <<>> \/ (inPipe # <<>> /\ inPipe' = Tail(inPipe))
    BY <1>4 DEF Pipes!ReadLine
  <2>4. FollowFrom(inPipe', lines - Len(toWrite) - Len(inPipe'))
    <3>1. CASE inPipe' = inPipe \/ inPipe' = <<>>
      BY <3>1 DEF PipesLast, FollowFrom
    <3>2. CASE inPipe # <<>> /\ inPipe' = Tail(inPipe)
      <4>1. /\ Len(inPipe') = Len(inPipe) - 1
            /\ \A i \in 1 .. Len(inPipe) - 1 : inPipe'[i] = inPipe[i + 1]
        BY <1>0, <3>2
      <4>2. \A i \in 1 .. Len(inPipe) - 1 : i + 1 \in 1 .. Len(inPipe)
        BY <1>0
      <4>3. \A i \in 1 .. Len(inPipe) - 1 :
              inPipe'[i] = lines - Len(toWrite) - Len(inPipe) + (i + 1)
        BY <4>1, <4>2 DEF PipesLast, FollowFrom
      <4>4. \A i \in 1 .. Len(inPipe) - 1 :
              lines - Len(toWrite) - Len(inPipe) + (i + 1)
                = lines - Len(toWrite) - (Len(inPipe) - 1) + i
        BY <1>0
      <4> QED
        BY <4>1, <4>3, <4>4 DEF FollowFrom
    <3> QED
      BY <2>3, <3>1, <3>2
  <2> QED
    BY <2>1, <2>2, <2>4 DEF PipesLast, FollowFrom
<1>5. CASE Pipes!Drain
  <2>1. UNCHANGED <<sock, lines, toWrite>> /\ left' = inPipe /\ inPipe' = <<>> /\ sub = "runs"
    BY <1>5 DEF Pipes!Drain, Pipes!guiVars
  <2>2. Returning = <<>> /\ Returning' = inPipe
    <3>1. left = <<>> /\ sock = <<>>
      BY <2>1 DEF PipesControl
    <3> QED
      BY <2>1, <3>1 DEF Returning
  <2>3. lines - Len(toWrite) - 0 - Len(inPipe) = lines - Len(toWrite) - Len(inPipe)
    BY <1>0
  <2>4. Len(inPipe') = 0
    BY <2>1
  <2> QED
    BY <2>1, <2>2, <2>3, <2>4 DEF PipesLast, FollowFrom
<1>6. CASE Pipes!Return
  <2>1. UNCHANGED <<lines, toWrite, inPipe>> /\ sock = <<>> /\ sock' = << left >>
    BY <1>6 DEF Pipes!Return, Pipes!guiVars, PipesControl
  <2>2. Returning' = Returning
    BY <2>1 DEF Returning
  <2> QED
    BY <2>1, <2>2 DEF PipesLast
<1>7. CASE Pipes!Execute \/ Pipes!PollOutput \/ Pipes!Discard
           \/ Pipes!BeginWrite \/ Pipes!WritePiece \/ UNCHANGED Pipes!vars
  <2>1. UNCHANGED <<lines, toWrite, inPipe, left, sock>>
    BY <1>7 DEF Pipes!Execute, Pipes!PollOutput, Pipes!Discard, Pipes!BeginWrite, Pipes!WritePiece,
                Pipes!vars, Pipes!guiVars, Pipes!subVars
  <2>2. Returning' = Returning
    BY <2>1 DEF Returning
  <2> QED
    BY <2>1, <2>2 DEF PipesLast
<1> QED
  BY <1>1, <1>2, <1>3, <1>4, <1>5, <1>6, <1>7 DEF Pipes!Next, Pipes!GuiStep, Pipes!SubStep

\* A line that is typed is shown.
LEMMA ViewSend ==
  ASSUME Pipes!ConstantsFit, PipesPlaces, PipesRuns, PipesView, Pipes!SendStdin PROVE PipesView'
<1>1. PICK n \in 1 .. MaxLines - lines :
        /\ lines' = lines + n
        /\ textview' = Append(textview, [i \in 1 .. n |-> lines + i])
        /\ Pipes!WriteTo(inPipe, [i \in 1 .. n |-> lines + i])
  BY DEF Pipes!SendStdin
<1> DEFINE ls == [i \in 1 .. n |-> lines + i]
<1>2. UNCHANGED <<sourcebox, failed, discarded>> /\ lines \in Nat /\ n \in Nat \ {0}
  BY DEF Pipes!SendStdin, PipesPlaces, Pipes!ConstantsFit
<1>3. ls \in Seq(1 .. lines + n) /\ ls \in Seq(Nat) /\ Len(ls) = n /\ \A i \in 1 .. n : ls[i] = lines + i
  BY <1>2
<1>4. textview' = Append(textview, ls) /\ Pipes!WriteTo(inPipe, ls)
  BY <1>1
<1> HIDE DEF ls
<1>5. ~late' => ~late
  BY <1>3, <1>4, LateStays DEF PipesRuns
<1>6. textview' \in Seq(Seq(1 .. lines'))
  <2>1. textview \in Seq(Seq(1 .. lines + n))
    <3>1. 1 .. lines \subseteq 1 .. lines + n
      BY <1>2
    <3> DEFINE A == 1 .. lines
               B == 1 .. lines + n
    <3> HIDE DEF A, B
    <3>2. A \subseteq B /\ textview \in Seq(Seq(A))
      BY <3>1 DEF A, B, PipesView
    <3>3. Seq(A) \subseteq Seq(B)
      BY <3>2
    <3>4. textview \in Seq(Seq(B))
      BY <3>2, <3>3
    <3> QED
      BY <3>4 DEF B
  <2> QED
    BY <1>1, <1>3, <1>4, <2>1
<1>7. ASSUME ~late', ~discarded' PROVE ViewOf(textview', (1 .. lines') \ sourcebox') /\ ~failed'
  <2>1. ViewOf(textview, (1 .. lines) \ sourcebox) /\ ~failed
    BY <1>2, <1>5, <1>7 DEF PipesView
  <2>2. \A l \in (1 .. lines) \ sourcebox : l <= lines
    BY <1>2
  <2>3. ViewOf(textview', ((1 .. lines) \ sourcebox) \cup (lines + 1 .. lines + n))
    BY <1>2, <1>3, <1>4, <2>1, <2>2, RegionAdded
  <2>4. ((1 .. lines) \ sourcebox) \cup (lines + 1 .. lines + n) = (1 .. lines') \ sourcebox'
    <3>1. sourcebox \subseteq 1 .. lines
      BY DEF PipesPlaces, Partition
    <3>2. /\ 1 .. lines' = (1 .. lines) \cup (lines + 1 .. lines + n)
          /\ (1 .. lines) \cap (lines + 1 .. lines + n) = {}
      BY <1>1, <1>2
    <3> QED
      BY <1>2, <3>1, <3>2
  <2> QED
    BY <1>2, <2>1, <2>3, <2>4
<1> QED
  BY <1>6, <1>7 DEF PipesView

\* What comes back is not shown any more, and all the rest is.
LEMMA ViewShow ==
  ASSUME PipesControl, PipesPlaces, PipesRuns, PipesLast, PipesView, PipesTypes,
         Pipes!PollSocket, sock # <<>>
  PROVE  PipesView'
<1>1. PICK rem : sock = << rem >>
  BY DEF PipesControl
<1> DEFINE out == Pipes!TakenOut(textview, rem)
<1>2. /\ UNCHANGED <<lines, late, discarded, toWrite, inPipe>> /\ gui = "socket"
      /\ sourcebox' = sourcebox \cup Pipes!ToSet(rem) /\ textview' = out.view
      /\ failed' = (failed \/ (rem # <<>> /\ out.on /\ out.rem # <<>>))
  BY <1>1 DEF Pipes!PollSocket, Pipes!ShowResult
<1> HIDE DEF out
<1>3. /\ Returning = rem /\ toWrite = <<>> /\ sub = "waits" /\ rem \in Seq(Nat) /\ lines \in Nat
  BY <1>1, <1>2 DEF Returning, PipesPlaces, PipesControl
<1>4. out.view \in Seq(Seq(1 .. lines))
  <2> DEFINE L == 1 .. lines
  <2>1. textview \in Seq(Seq(L))
    BY DEF PipesView
  <2> HIDE DEF L
  <2>2. \E f \in [0 .. Len(textview) -> Turn(L)] : f[Len(textview)] = out
    BY <1>3, <2>1, TurnsTaken DEF out
  <2>3. Len(textview) \in 0 .. Len(textview)
    BY <2>1
  <2>4. out \in Turn(L)
    BY <2>2, <2>3
  <2> QED
    BY <2>4 DEF L, Turn
<1>5. ASSUME ~late', ~discarded' PROVE ViewOf(textview', (1 .. lines') \ sourcebox') /\ ~failed'
  <2>1. ViewOf(textview, (1 .. lines) \ sourcebox) /\ ~failed /\ inPipe = <<>>
    BY <1>2, <1>3, <1>5 DEF PipesView, PipesRuns
  <2> DEFINE a == lines - Len(rem)
             X == (1 .. lines) \ sourcebox
  <2>2. Len(toWrite) = 0 /\ Len(inPipe) = 0 /\ Len(rem) \in Nat
    BY <1>3, <2>1
  <2>3. a \in Nat /\ a + Len(rem) = lines
    BY <1>3, <2>2, LastFit
  <2>4. FollowFrom(rem, a)
    <3>1. lines - 0 - 0 - Len(rem) = a
      BY <1>3, <2>2
    <3> QED
      BY <1>3, <2>2, <3>1 DEF PipesLast
  <2> HIDE DEF a
  <2>5. LinesIn(rem) \subseteq X
    BY <1>3 DEF PipesPlaces, Partition
  <2>6. \A i \in 1 .. Len(rem) : rem[i] = a + i /\ a + i \in X
    BY <2>4, <2>5 DEF FollowFrom, LinesIn
  <2>7. \A l \in X : l > 0 /\ l <= a + Len(rem)
    BY <1>3, <2>3
  <2>8. out.rem = <<>> /\ ViewOf(out.view, X \cap (1 .. a))
    <3> DEFINE L == 1 .. lines
    <3>1. textview \in Seq(Seq(L))
      BY DEF PipesView
    <3> HIDE DEF L
    <3>2. ViewOf(textview, X)
      BY <2>1
    <3> HIDE DEF X
    <3> QED
      BY <1>3, <2>3, <2>6, <2>7, <3>1, <3>2, AllTaken DEF out
  <2>9. X \cap (1 .. a) = (1 .. lines') \ sourcebox'
    <3>1. Pipes!ToSet(rem) = LinesIn(rem)
      <4>1. DOMAIN rem = 1 .. Len(rem)
        BY <1>3
      <4> QED
        BY <4>1 DEF Pipes!ToSet, LinesIn
    <3>2. \A l : l \in LinesIn(rem) <=> l \in a + 1 .. lines
      <4>1. ASSUME NEW l \in LinesIn(rem) PROVE l \in a + 1 .. lines
        <5>1. PICK i \in 1 .. Len(rem) : l = rem[i]
          BY <4>1 DEF LinesIn
        <5>2. l = a + i
          BY <2>6, <5>1
        <5> QED
          BY <2>2, <2>3, <5>2
      <4>2. ASSUME NEW l \in a + 1 .. lines PROVE l \in LinesIn(rem)
        <5>1. l - a \in 1 .. Len(rem) /\ a + (l - a) = l
          BY <1>3, <2>2, <2>3
        <5>2. rem[l - a] = l
          BY <2>6, <5>1
        <5> QED
          BY <5>1, <5>2 DEF LinesIn
      <4> QED
        BY <4>1, <4>2
    <3>3. 1 .. lines = (1 .. a) \cup (a + 1 .. lines) /\ (1 .. a) \cap (a + 1 .. lines) = {}
      BY <1>3, <2>2, <2>3
    <3>4. LinesIn(rem) = a + 1 .. lines
      BY <3>2
    <3> QED
      BY <1>2, <3>1, <3>3, <3>4
  <2> QED
    BY <1>2, <2>1, <2>8, <2>9
<1> QED
  BY <1>2, <1>4, <1>5 DEF PipesView

\* No step lets the text view show what came back, or hide what did not.
LEMMA ViewStep ==
  ASSUME Pipes!ConstantsFit, PipesControl, PipesPlaces, PipesRuns, PipesLast, PipesView,
         PipesTypes, [Pipes!Next]_Pipes!vars
  PROVE  PipesView'
<1>1. CASE Pipes!PollSocket /\ sock = <<>>
  BY <1>1 DEF Pipes!PollSocket, PipesView
<1>2. CASE Pipes!GoOnWriting
  <2>1. UNCHANGED <<lines, textview, sourcebox, failed, discarded>> /\ (~late' => ~late)
    BY <1>2, LateStays DEF Pipes!GoOnWriting, PipesRuns
  <2> QED
    BY <2>1 DEF PipesView
<1>3. CASE Pipes!Discard
  <2>1. UNCHANGED lines /\ textview' = <<>> /\ discarded'
    BY <1>3 DEF Pipes!Discard
  <2>2. <<>> \in Seq(Seq(1 .. lines))
    OBVIOUS
  <2> QED
    BY <2>1, <2>2 DEF PipesView
<1>4. CASE Pipes!Execute \/ Pipes!PollOutput \/ Pipes!BeginWrite \/ Pipes!WritePiece
           \/ Pipes!ReadLine \/ Pipes!Drain \/ Pipes!Return \/ UNCHANGED Pipes!vars
  <2>1. UNCHANGED <<lines, late, textview, sourcebox, failed, discarded>>
    BY <1>4 DEF Pipes!Execute, Pipes!PollOutput, Pipes!BeginWrite, Pipes!WritePiece, Pipes!ReadLine,
                Pipes!Drain, Pipes!Return, Pipes!vars, Pipes!guiVars, Pipes!subVars
  <2> QED
    BY <2>1 DEF PipesView
<1> QED
  BY <1>1, <1>2, <1>3, <1>4, ViewSend, ViewShow DEF Pipes!Next, Pipes!GuiStep, Pipes!SubStep

\* Nothing was typed, and nothing is shown.
LEMMA ViewInit == ASSUME Pipes!Init PROVE PipesLast /\ PipesView
<1>1. /\ lines = 0 /\ toWrite = <<>> /\ inPipe = <<>> /\ left = <<>> /\ sock = <<>>
      /\ textview = <<>> /\ sourcebox = {} /\ failed = FALSE
  BY DEF Pipes!Init
<1>2. \A z : FollowFrom(<<>>, z)
  BY DEF FollowFrom
<1>3. ViewOf(<<>>, {}) /\ <<>> \in Seq(Seq(1 .. 0)) /\ (1 .. 0) \ {} = {}
  BY DEF ViewOf
<1> QED
  BY <1>1, <1>2, <1>3 DEF PipesLast, PipesView, Returning

\* That is what the text view is to show.
LEMMA ViewFollows == ASSUME PipesView PROVE Pipes!TextviewShowsRead
<1>1. textview \in Seq(Seq(Pipes!Lines))
  BY DEF PipesView, Pipes!Lines
<1>2. ASSUME ~late, ~discarded
      PROVE  /\ ~failed
             /\ \A l \in Pipes!Lines :
                  (\E k \in DOMAIN textview : Pipes!Contains(textview[k], l)) <=> l \notin sourcebox
  <2>1. ViewOf(textview, (1 .. lines) \ sourcebox) /\ ~failed
    BY <1>2 DEF PipesView
  <2>2. DOMAIN textview = 1 .. Len(textview)
    BY <1>1
  <2>3. \A k, l : Pipes!Contains(textview[k], l) <=> l \in LinesIn(textview[k])
    BY DEF Pipes!Contains, LinesIn
  <2>4. \A l \in 1 .. lines :
          l \notin sourcebox <=> \E k \in 1 .. Len(textview) : l \in LinesIn(textview[k])
    BY <2>1 DEF ViewOf
  <2> QED
    BY <2>1, <2>2, <2>3, <2>4 DEF Pipes!Lines
<1> QED
  BY <1>1, <1>2 DEF Pipes!TextviewShowsRead

-----------------------------------------------------------------------------
\* All of the invariant.
PipesIInv ==
  /\ PipesControl /\ PipesLag /\ PipesPlaces /\ PipesRuns /\ PipesTypes /\ PipesLast /\ PipesView

\* It is true before the first command.
LEMMA PipesIInvInit == Pipes!Init => PipesIInv
<1> SUFFICES ASSUME Pipes!Init PROVE PipesIInv
  OBVIOUS
<1>1. PipesTypes
  <2>1. /\ gui = "loop" /\ sub = "waits" /\ failed = FALSE /\ buffered \in BOOLEAN
        /\ discarded = FALSE /\ run = 0 /\ lines = 0 /\ executing = FALSE
    BY DEF Pipes!Init
  <2>2. 0 \in 0 .. MaxRuns /\ 0 \in 0 .. MaxLines
    BY PipesAssumption DEF Pipes!ConstantsFit
  <2>3. 1 .. lines = {}
    BY <2>1
  <2> QED
    BY <2>1, <2>2, <2>3 DEF PipesTypes
<1> QED
  BY <1>1, PipesInit, RunsInit, ViewInit, PipesAssumption DEF PipesIInv

\* No step breaks it.
LEMMA PipesIInvStep == PipesIInv /\ [Pipes!Next]_Pipes!vars => PipesIInv'
BY ControlStep, LagStep, PlacesStep, RunsStep, TypesStep, LastStep, ViewStep, PipesAssumption
   DEF PipesIInv

\* No typed line is lost, and none is both read and given back; a line is read by the code it
\* was typed for, unless it was written after the standard input was drained, or the
\* interpreter reads ahead; the text view shows what was typed and did not come back, unless a
\* line was late or the history was discarded; output is at most a pipe's worth of commands late.
THEOREM ConsoleRight == Pipes!Spec => []ConsoleIsRight
<1>1. PipesIInv => ConsoleIsRight
  <2>1. PipesIInv => Pipes!TypeOK
    BY TypesFollow DEF PipesIInv
  <2>2. PipesIInv => Pipes!EachLineInOnePlace /\ Pipes!OutputLag
    BY PlacesAreOne DEF PipesIInv, PipesLag
  <2>3. PipesIInv => Pipes!ReadInItsRun
    BY DEF PipesIInv, PipesRuns, Pipes!ReadInItsRun
  <2>4. PipesIInv => Pipes!TextviewShowsRead
    BY ViewFollows DEF PipesIInv
  <2> QED
    BY <2>1, <2>2, <2>3, <2>4 DEF ConsoleIsRight
<1> QED
  BY <1>1, PipesIInvInit, PipesIInvStep, PTL DEF Pipes!Spec

-----------------------------------------------------------------------------
\* What arrives is what was sent, in its order, and the bytes of two objects are never mixed.
THEOREM StreamRight == Stream!Spec => StreamIsQueue
BY Stream!StreamImplementsQueue, Stream!StreamIsRight, StreamAssumption, PTL DEF StreamIsQueue

-----------------------------------------------------------------------------
\* Side by side, each part does what its own specification says.
LEMMA EachPart == AllSpec => Spec /\ Pipes!Spec /\ Stream!Spec
<1>1. AllInit => Init /\ Pipes!Init /\ Stream!Init
  BY DEF AllInit
<1>2. [AllNext]_allVars => [Next]_vars
  BY DEF AllNext, allVars
<1>3. [AllNext]_allVars => [Pipes!Next]_Pipes!vars
  BY DEF AllNext, allVars, consoleVars, Pipes!vars, Pipes!guiVars, Pipes!subVars
<1>4. [AllNext]_allVars => [Stream!Next]_Stream!vars
  BY DEF AllNext, allVars, streamVars, Stream!vars
<1> QED
  BY <1>1, <1>2, <1>3, <1>4, PTL DEF AllSpec, Spec, Pipes!Spec, Stream!Spec

\* So all of it is true of the behaviours that TLC explores, whatever the constants.
THEOREM AllRight ==
  AllSpec => [](SignalsAreRight /\ ConsoleIsRight) /\ RunSurvivesInterrupt /\ StreamIsQueue
BY EachPart, SignalsRight, RunSurvives, ConsoleRight, StreamRight, PTL
===============================================================================
