------------------------------ MODULE ObjectQueue ------------------------------
(***************************************************************************)
(* What objectstream.py promises: objects arrive whole, each once and in   *)
(* the order in which they were sent, and when the connection ends no      *)
(* object that was sent in whole is missing.                               *)
(***************************************************************************)
EXTENDS Integers, Sequences

VARIABLES
  sent,    \* the objects whose sending was begun
  whole,   \* how many of them were sent in whole
  got,     \* the objects that were received
  failed   \* the receiver was told that the connection has ended

vars == <<sent, whole, got, failed>>

Init == sent = <<>> /\ whole = 0 /\ got = <<>> /\ failed = FALSE

Begin(obj) ==
  /\ whole = Len(sent)
  /\ sent' = Append(sent, obj)
  /\ UNCHANGED <<whole, got, failed>>

End == whole < Len(sent) /\ whole' = whole + 1 /\ UNCHANGED <<sent, got, failed>>

Receive ==
  /\ ~failed /\ Len(got) < whole
  /\ got' = Append(got, sent[Len(got) + 1])
  /\ UNCHANGED <<sent, whole, failed>>

Fail == ~failed /\ Len(got) = whole /\ failed' = TRUE /\ UNCHANGED <<sent, whole, got>>

Next == (\E obj \in {sent'[i] : i \in DOMAIN sent'} : Begin(obj)) \/ End \/ Receive \/ Fail

Spec == Init /\ [][Next]_vars
===============================================================================
