----------------------------- MODULE ResultWindow -----------------------------
(***************************************************************************)
(* What the result history promises: results are numbered from 0 on, and   *)
(* the names _i of the last `cap` numbers hold their results, except those *)
(* that the user took away.                                                *)
(***************************************************************************)
EXTENDS Naturals

CONSTANT Caps  \* the capacities it may be given

VARIABLES
  kept,   \* the numbers i such that _i holds result number i
  next,   \* the number of the next result
  cap     \* how many results are remembered

windowVars == <<kept, next, cap>>

Init == kept = {} /\ next = 0 /\ cap = 0

\* A new result enters and the ones older than the last cap leave.
Remember ==
  /\ cap > 0
  /\ next' = next + 1
  /\ kept' = {i \in kept \cup {next} : i + cap >= next + 1}
  /\ cap' = cap

\* Another capacity: the results beyond it leave at once, none comes back.
Resize(n) ==
  /\ cap' = n
  /\ kept' = {i \in kept : i + n >= next}
  /\ next' = next

\* All results leave; the numbering goes on.
Clear == kept' = {} /\ UNCHANGED <<next, cap>>

\* The user deletes or rebinds some of the names.
Forget == kept' \subseteq kept /\ UNCHANGED <<next, cap>>

Next == Remember \/ (\E n \in Caps : Resize(n)) \/ Clear \/ Forget

Spec == Init /\ [][Next]_windowVars
=============================================================================
