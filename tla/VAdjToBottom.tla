----------------------------- MODULE VAdjToBottom -----------------------------
(***************************************************************************)
(* gui/vadj_to_bottom.py: the view of the session follows its end as long  *)
(* as the user has not scrolled up.  A vertical adjustment is its value    *)
(* and its greatest value, bottom (upper - page_size).                     *)
(***************************************************************************)
EXTENDS Integers

CONSTANTS
  MaxBottom,  \* bound on the height of the text, less that of the page
  MaxPending  \* bound on the idle calls that wait

ASSUME BoundsAssumption == MaxBottom \in Nat /\ MaxPending \in Nat \ {0}

VARIABLES
  value,      \* vadj.value
  bottom,     \* vadj.upper - vadj.page_size
  lastValue,  \* last_value
  wants,      \* user_wants_bottom
  scheduled,  \* is_scroll_scheduled
  pending     \* the idle calls of scroll_to_bottom that have not run

vars == <<value, bottom, lastValue, wants, scheduled, pending>>

Heights == 0 .. MaxBottom

TypeOK ==
  /\ bottom \in Heights /\ value \in 0 .. bottom
  /\ lastValue = value
  /\ wants \in BOOLEAN /\ scheduled \in BOOLEAN
  /\ pending \in Nat

Init ==
  /\ value = 0 /\ bottom = 0 /\ lastValue = 0
  /\ wants = TRUE /\ scheduled = FALSE /\ pending = 0

\* Mutations of the definitions that follow, each the mark of a plausible slip
\* in the code, have an underscore in their names and are used by no other
\* definition: TLC refutes a property with each of them.

\* on_value_changed that remembers the value only when it is the greatest.
OnValueChanged_atBottom(v, b) ==
  /\ wants' = (v = b \/ (wants /\ v >= lastValue))
  /\ lastValue' = IF v = b THEN v ELSE lastValue

\* on_value_changed that takes a move downwards as a wish to see the end.
OnValueChanged_downwards(v, b) ==
  /\ wants' = (v = b \/ v > lastValue \/ (wants /\ v >= lastValue))
  /\ lastValue' = v

\* on_value_changed: only a move upwards says that the user looks elsewhere.
OnValueChanged(v, b) ==
  /\ wants' = (v = b \/ (wants /\ v >= lastValue))
  /\ lastValue' = v

\* on_changed, with the value, bottom and wish it finds.
OnChanged(v, b, w) ==
  /\ scheduled' = (scheduled \/ (w /\ v # b))
  /\ pending' = IF ~scheduled /\ w /\ v # b THEN pending + 1 ELSE pending

\* Text was added, unfolded, or the window made lower.
Grow ==
  /\ pending < MaxPending
  /\ bottom' \in bottom + 1 .. MaxBottom
  /\ OnChanged(value, bottom', wants)
  /\ UNCHANGED <<value, lastValue, wants>>

\* Text was discarded or folded, or the window made higher.  GTK moves a value
\* that is now too great to the bottom; it signals 'changed' before or after.
Shrink ==
  /\ pending < MaxPending
  /\ bottom' \in 0 .. bottom - 1
  /\ value' = IF value > bottom' THEN bottom' ELSE value
  /\ IF value' = value THEN UNCHANGED <<wants, lastValue>> ELSE OnValueChanged(value', bottom')
  /\ OnChanged(value, bottom', wants) \/ OnChanged(value', bottom', wants')

UserScrolls ==
  /\ value' \in 0 .. bottom
  /\ value' # value
  /\ OnValueChanged(value', bottom)
  /\ UNCHANGED <<bottom, scheduled, pending>>

\* scroll_to_bottom that leaves the flag.
ScrollToBottom_flagged ==
  /\ value' = bottom
  /\ IF value' = value THEN UNCHANGED <<wants, lastValue>> ELSE OnValueChanged(value', bottom)
  /\ UNCHANGED <<bottom, scheduled>>

\* scroll_to_bottom; set_value signals only a value that is new.
ScrollToBottom ==
  /\ scheduled' = FALSE
  /\ value' = bottom
  /\ IF value' = value THEN UNCHANGED <<wants, lastValue>> ELSE OnValueChanged(value', bottom)
  /\ UNCHANGED bottom

\* execute_source, send_stdin and on_subp_terminated call it directly: an idle
\* call that was scheduled stays, and is_scroll_scheduled no longer says so.
ScrollNow == ScrollToBottom /\ UNCHANGED pending

ScrollWhenIdle == pending > 0 /\ ScrollToBottom /\ pending' = pending - 1

Next == Grow \/ Shrink \/ UserScrolls \/ ScrollNow \/ ScrollWhenIdle

Spec == Init /\ [][Next]_vars

\* The main loop becomes idle again.
Fairness == WF_vars(ScrollWhenIdle)

FairSpec == Spec /\ Fairness
-----------------------------------------------------------------------------

\* A scroll that on_changed leaves to an idle call has one that is yet to run.
ScheduledIsPending == scheduled => pending > 0

\* Whenever the user wants to see the end and does not, a scroll is scheduled:
\* no change of the text and no scroll is missed.
WillFollow == wants /\ value # bottom => scheduled

\* What holds while text is added and the user scrolls, with the types of the state.
ScrollIsRight == TypeOK /\ ScheduledIsPending /\ WillFollow

\* The end is shown again unless the user scrolls up.
FollowsText == wants ~> (value = bottom \/ ~wants)
===============================================================================
