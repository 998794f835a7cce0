------------------------------ MODULE StatusBar ------------------------------
(***************************************************************************)
(* gui/status_bar.py: messages that go away when the source buffer changes *)
(* or after a while.  Each message starts a timer; no timer is cancelled,  *)
(* because timeout_handle is never assigned.  Time passes in seconds, and  *)
(* a timer that is due is served before the next second.                   *)
(***************************************************************************)
EXTENDS Integers

CONSTANTS
  Buffers,    \* the source buffers of the tabs
  Ids,        \* message ids that gtk.Statusbar.push may return
  None,       \* no message id
  Timeout,    \* how long a message may stay, 10 seconds in the code
  MaxTimers   \* bound on the messages set within one second

\* All that the theorems ask of the constants.
ConstantsFit == None \notin Ids /\ Timeout \in Nat \ {0} /\ MaxTimers \in Nat

VARIABLES
  sourcebuffer,  \* the buffer of the current page
  bar,           \* the messages in the status bar
  statusId,      \* sourcebuffer_status_id
  connected,     \* the buffers that on_sourcebuffer_changed is connected to
  timers,        \* timers[s] timers are due in s seconds
  age            \* for how long the last message has been shown

vars == <<sourcebuffer, bar, statusId, connected, timers, age>>

TypeOK ==
  /\ sourcebuffer \in Buffers
  /\ bar \subseteq Ids /\ statusId \in Ids \cup {None}
  /\ connected \subseteq Buffers
  /\ timers \in [0 .. Timeout -> Nat]
  /\ age \in Nat

Init ==
  /\ sourcebuffer \in Buffers
  /\ bar = {} /\ statusId = None /\ connected = {}
  /\ timers = [s \in 0 .. Timeout |-> 0] /\ age = 0

\* Mutations of the definitions that follow, each the mark of a plausible slip
\* in the code, have an underscore in their names and are used by no other
\* definition: TLC refutes a property with each of them.

\* clear_status with the handler left connected.
ClearStatus_connected == bar' = bar \ {statusId} /\ statusId' = None /\ UNCHANGED connected

\* clear_status: the handler is disconnected from the buffer that is current
\* at the call.
ClearStatus ==
  /\ bar' = bar \ {statusId} /\ statusId' = None
  /\ connected' = connected \ {sourcebuffer}

ClearIfShown == IF statusId = None THEN UNCHANGED <<bar, statusId, connected>> ELSE ClearStatus

\* set_status that starts no timer where one is running.
SetStatus_oneTimer ==
  LET old == IF statusId = None THEN bar ELSE bar \ {statusId} IN
  \E id \in Ids \ old :
    /\ bar' = old \cup {id} /\ statusId' = id
    /\ connected' = connected \cup {sourcebuffer}
    /\ timers' = IF \E s \in 0 .. Timeout : timers[s] > 0 THEN timers
                 ELSE [timers EXCEPT ![Timeout] = @ + 1]
    /\ age' = 0 /\ UNCHANGED sourcebuffer

\* set_status that leaves the message it replaces in the bar.
SetStatus_onTop ==
  \E id \in Ids \ bar :
    /\ bar' = bar \cup {id} /\ statusId' = id
    /\ connected' = connected \cup {sourcebuffer}
    /\ timers' = [timers EXCEPT ![Timeout] = @ + 1]
    /\ age' = 0 /\ UNCHANGED sourcebuffer

SetStatus ==
  LET old == IF statusId = None THEN bar ELSE bar \ {statusId} IN
  \E id \in Ids \ old :
    /\ timers[Timeout] < MaxTimers
    /\ bar' = old \cup {id} /\ statusId' = id
    /\ connected' = connected \cup {sourcebuffer}
    /\ timers' = [timers EXCEPT ![Timeout] = @ + 1]
    /\ age' = 0 /\ UNCHANGED sourcebuffer

\* The user types, or a command changes the text of the current page.
ContentsChanged ==
  /\ IF sourcebuffer \in connected THEN ClearStatus ELSE UNCHANGED <<bar, statusId, connected>>
  /\ UNCHANGED <<sourcebuffer, timers, age>>

\* on_sv_changed that clears after it took the new buffer.
OnSvChanged_late(b) ==
  /\ sourcebuffer' = b
  /\ bar' = bar \ {statusId} /\ statusId' = None /\ connected' = connected \ {b}
  /\ UNCHANGED <<timers, age>>

\* Another tab is shown.
OnSvChanged(b) ==
  /\ b # sourcebuffer
  /\ ClearIfShown
  /\ sourcebuffer' = b
  /\ UNCHANGED <<timers, age>>

\* A timer whose source is removed by its callback and by its return value.
OnTimeout_twice ==
  /\ timers[0] > 0
  /\ ClearIfShown
  /\ timers' = [timers EXCEPT ![0] = @ - 2]
  /\ UNCHANGED <<sourcebuffer, age>>

\* A timer of any message, the current one or not.
OnTimeout ==
  /\ timers[0] > 0
  /\ ClearIfShown
  /\ timers' = [timers EXCEPT ![0] = @ - 1]
  /\ UNCHANGED <<sourcebuffer, age>>

Second ==
  /\ timers[0] = 0
  /\ timers' = [s \in 0 .. Timeout |-> IF s = Timeout THEN 0 ELSE timers[s + 1]]
  /\ age' = IF statusId = None THEN 0 ELSE age + 1
  /\ UNCHANGED <<sourcebuffer, bar, statusId, connected>>

Next == SetStatus \/ ContentsChanged \/ (\E b \in Buffers : OnSvChanged(b)) \/ OnTimeout \/ Second

Spec == Init /\ [][Next]_vars
-----------------------------------------------------------------------------

\* The bar holds the message whose id is remembered and no other: whatever the
\* order of messages, edits, tabs and timers, none is left behind.
OneMessage == bar = IF statusId = None THEN {} ELSE {statusId}

\* While a message is shown the handler that removes it is connected to the
\* buffer of the current page, once, and to no buffer when there is none: a
\* 'changed' signal never reaches clear_status without a message.
ConnectedToCurrent == connected = IF statusId = None THEN {} ELSE {sourcebuffer}

\* A message has a timer of its own that is due when it has been shown for
\* Timeout seconds, so none is shown for longer.
GoesAway == statusId # None => age <= Timeout /\ timers[Timeout - age] > 0
=============================================================================
