----------------------------- MODULE HistoryCursor -----------------------------
(***************************************************************************)
(* What recalling earlier commands promises: a cursor in the list of the   *)
(* distinct commands that begin with what had been typed, latest first.    *)
(* Position 0 is the typed prefix itself.                                  *)
(***************************************************************************)
EXTENDS Naturals, Sequences, FiniteSets

CONSTANTS
  Texts,    \* what the editor may hold
  OneLine,  \* the texts of one line, which alone can be a prefix
  Matches,  \* Matches[p] is the set of commands that begin with p
  Blank,    \* the empty editor
  Hash      \* commands of one hash are taken to be the same

VARIABLES
  hist,      \* the commands of the session, oldest first
  text,      \* what the editor holds
  prefix,    \* what had been typed when the search began
  searching, \* is the editor's text the work of the search
  pos        \* the position in the list

cursorVars == <<hist, text, prefix, searching, pos>>

\* The places of the commands that the list holds: the last of each hash.
Places(h, p) ==
  {i \in 1 .. Len(h) :
     /\ h[i] \in Matches[p]
     /\ \A j \in i + 1 .. Len(h) : h[j] \in Matches[p] => Hash[h[j]] # Hash[h[i]]}

\* The n-th entry of the list, latest first.
Entry(h, p, n) ==
  h[CHOOSE i \in Places(h, p) : Cardinality({j \in Places(h, p) : j >= i}) = n]

Init == /\ hist = <<>> /\ text = Blank /\ prefix = Blank
        /\ searching = FALSE /\ pos = 0

\* Whatever else changes the editor's text or shows another editor ends the
\* search.
Edit == \E t \in Texts : text' = t /\ searching' = FALSE /\ pos' = 0
                         /\ UNCHANGED <<hist, prefix>>

Execute == /\ hist' = Append(hist, text)
           /\ text' = Blank /\ searching' = FALSE /\ pos' = 0
           /\ UNCHANGED prefix

Up ==
  /\ searching \/ text \in OneLine
  /\ searching' = TRUE
  /\ prefix' = IF searching THEN prefix ELSE text
  /\ LET n == IF searching THEN pos + 1 ELSE 1 IN
       IF n <= Cardinality(Places(hist, prefix'))
         THEN pos' = n /\ text' = Entry(hist, prefix', n)
         ELSE pos' = n - 1 /\ text' = text
  /\ UNCHANGED hist

Down ==
  /\ searching
  /\ IF pos > 1
       THEN pos' = pos - 1 /\ text' = Entry(hist, prefix, pos - 1) /\ searching' = TRUE
       ELSE pos' = 0 /\ text' = prefix /\ searching' \in BOOLEAN
  /\ UNCHANGED <<hist, prefix>>

\* The oldest commands go.  The cursor keeps its place if the search had not
\* come as far as them, and stands before the first entry otherwise.
Discard ==
  /\ \E k \in 0 .. Len(hist) : hist' = SubSeq(hist, k + 1, Len(hist))
  /\ pos' \in {0, pos} /\ pos' <= Cardinality(Places(hist', prefix))
  /\ UNCHANGED <<text, prefix, searching>>

Next == Edit \/ Execute \/ Up \/ Down \/ Discard

Spec == Init /\ [][Next]_cursorVars
=============================================================================
