-------------------------------- MODULE Editing --------------------------------
(***************************************************************************)
(* What helps with typing, with proofs that it is right.  First the search *)
(* in the list of completions, find_prefix_range                           *)
(* (gui/autocomplete_window.py): two binary searches in a sorted list of   *)
(* words for those that begin with a prefix, a word being a sequence of    *)
(* numbers, the code points of its characters.  Then the keys that indent  *)
(* (IndentKeys), automatic parentheses (Autoparen) and call tips           *)
(* (CallTips), each for any value of its constants.                        *)
(***************************************************************************)
EXTENDS Integers, Sequences, SequencesExt, FiniteSetTheorems,
        SequenceTheorems, WellFoundedInduction, TLAPS

CONSTANTS
  Letters,      \* code points
  MaxWord,      \* bound on the length of the words
  MaxList       \* bound on the length of the list

ASSUME LettersAssumption == Letters \subseteq Nat /\ MaxWord \in Nat /\ MaxList \in Nat

Words == BoundedSeq(Letters, MaxWord)

\* The order of strings.
Less(u, v) ==
  \/ IsStrictPrefix(u, v)
  \/ \E i \in 1 .. Len(u) : i <= Len(v) /\ u[i] < v[i] /\ \A j \in 1 .. i - 1 : u[j] = v[j]

\* A word may occur more than once.
Sorted(s) == \A i, j \in 1 .. Len(s) : i < j => Less(s[i], s[j]) \/ s[i] = s[j]

VARIABLES
  L, prefix,  \* the arguments
  l, r,       \* the interval that is searched, from 0
  start, end, \* what the searches found
  pc          \* "start", "end", "done"

vars == <<L, prefix, l, r, start, end, pc>>

\* The word at an index of the list, from 0.
At(i) == L[i + 1]

\* L[i][:len(prefix)]
First(i) == IF Len(At(i)) <= Len(prefix) THEN At(i) ELSE SubSeq(At(i), 1, Len(prefix))

Fits(i) == First(i) = prefix

TypeOK ==
  /\ l \in 0 .. Len(L) /\ r \in l .. Len(L)
  /\ {start, end} \subseteq 0 .. Len(L)
  /\ pc \in {"start", "end", "done"}

Init ==
  /\ L \in {s \in BoundedSeq(Words, MaxList) : Sorted(s)} /\ prefix \in Words
  /\ l = 0 /\ r = Len(L) /\ start = 0 /\ end = 0 /\ pc = "start"

\* Mutations of the definitions that follow, each the mark of a plausible slip
\* in the code, have an underscore in their names and are used by no other
\* definition: TLC refutes a property with each of them.

Middle == (l + r) \div 2

\* The interval is halved without the middle being left out.
SearchStart_kept ==
  /\ pc = "start" /\ r > l
  /\ IF At(Middle) = prefix THEN l' = Middle /\ r' = Middle
     ELSE IF Less(At(Middle), prefix) THEN l' = Middle /\ r' = r
     ELSE l' = l /\ r' = Middle
  /\ UNCHANGED <<L, prefix, start, end, pc>>

\* The interval ends before the middle.
SearchStart_before ==
  /\ pc = "start" /\ r > l
  /\ IF At(Middle) = prefix THEN l' = Middle /\ r' = Middle
     ELSE IF Less(At(Middle), prefix) THEN l' = Middle + 1 /\ r' = r
     ELSE l' = l /\ r' = Middle - 1
  /\ UNCHANGED <<L, prefix, start, end, pc>>

SearchStart ==
  /\ pc = "start" /\ r > l
  /\ IF At(Middle) = prefix THEN l' = Middle /\ r' = Middle
     ELSE IF Less(At(Middle), prefix) THEN l' = Middle + 1 /\ r' = r
     ELSE l' = l /\ r' = Middle
  /\ UNCHANGED <<L, prefix, start, end, pc>>

StartFound ==
  /\ pc = "start" /\ r = l
  /\ start' = l /\ l' = 0 /\ r' = Len(L) /\ pc' = "end"
  /\ UNCHANGED <<L, prefix, end>>

\* The whole word is compared with the prefix.
SearchEnd_whole ==
  /\ pc = "end" /\ r > l
  /\ IF Less(prefix, At(Middle)) THEN l' = l /\ r' = Middle ELSE l' = Middle + 1 /\ r' = r
  /\ UNCHANGED <<L, prefix, start, end, pc>>

SearchEnd ==
  /\ pc = "end" /\ r > l
  /\ IF Less(prefix, First(Middle))
       THEN l' = l /\ r' = Middle ELSE l' = Middle + 1 /\ r' = r
  /\ UNCHANGED <<L, prefix, start, end, pc>>

EndFound ==
  /\ pc = "end" /\ r = l
  /\ end' = l /\ pc' = "done"
  /\ UNCHANGED <<L, prefix, l, r, start>>

Next == SearchStart \/ StartFound \/ SearchEnd \/ EndFound

\* The searches are not interrupted.
Fairness == WF_vars(Next)

Spec == Init /\ [][Next]_vars /\ Fairness
-----------------------------------------------------------------------------

\* 'Find the range in the list L which begins with prefix': the words from
\* start to end, and no others, begin with it, where the prefix itself is not twice
\* in the list.
RangeIsExact ==
  pc = "done" /\ (\A i, j \in 0 .. Len(L) - 1 : At(i) = prefix /\ At(j) = prefix => i = j) =>
    \A i \in 0 .. Len(L) - 1 : Fits(i) <=> start <= i /\ i < end

\* Where it is, the range may leave out words that are equal to the prefix, and never
\* all of them.
RangeIsNearlyExact ==
  pc = "done" => \A i \in 0 .. Len(L) - 1 :
    /\ start <= i /\ i < end => Fits(i)
    /\ Fits(i) => \E j \in start .. end - 1 : At(j) = At(i)

\* What the searches find, with the types of the state.
RangeIsRight == TypeOK /\ RangeIsExact /\ RangeIsNearlyExact

\* Both searches end.
Terminates == <>(pc = "done")

-----------------------------------------------------------------------------
(***************************************************************************)
(* For all words and lists of any length: RangeIsRight.  What the searches *)
(* keep is that the words before l are too small and those from r on are   *)
(* too great: by themselves in the first, by what they begin with in the   *)
(* second, whose order is that of the list because it is coarser.          *)
(***************************************************************************)

\* The words differ at place i first, where one that has ended is less.
DifferAt(u, v, i) ==
  /\ i \in 1 .. Len(u) + 1 /\ i <= Len(v)
  /\ \A j \in 1 .. i - 1 : u[j] = v[j]
  /\ i <= Len(u) => u[i] < v[i]

\* A word is less than another if and only if there is such a place.
LEMMA LessDiffers ==
  ASSUME NEW u \in Seq(Nat), NEW v \in Seq(Nat)
  PROVE  Less(u, v) <=> \E i \in Nat : DifferAt(u, v, i)
<1>0. Len(u) \in Nat /\ Len(v) \in Nat
  OBVIOUS
<1>1. ASSUME IsStrictPrefix(u, v) PROVE DifferAt(u, v, Len(u) + 1)
  <2>1. Len(u) <= Len(v) /\ SubSeq(u, 1, Len(u)) = SubSeq(v, 1, Len(u)) /\ u # v
    BY <1>1 DEF IsStrictPrefix, IsPrefix
  <2>2. \A j \in 1 .. Len(u) : u[j] = v[j]
    <3> TAKE j \in 1 .. Len(u)
    <3>1. SubSeq(u, 1, Len(u))[j] = u[j]
      BY <1>0
    <3>2. SubSeq(v, 1, Len(u))[j] = v[j]
      BY <1>0, <2>1
    <3> QED
      BY <2>1, <3>1, <3>2
  <2>3. Len(u) # Len(v)
    BY <1>0, <2>1, <2>2, SeqEqual
  <2> QED
    BY <1>0, <2>1, <2>2, <2>3 DEF DifferAt
<1>2. ASSUME NEW i \in 1 .. Len(u), i <= Len(v), u[i] < v[i], \A j \in 1 .. i - 1 : u[j] = v[j]
      PROVE  DifferAt(u, v, i)
  BY <1>0, <1>2 DEF DifferAt
<1>3. ASSUME NEW i \in Nat, DifferAt(u, v, i) PROVE Less(u, v)
  <2>1. CASE i <= Len(u)
    <3>1. i \in 1 .. Len(u) /\ i <= Len(v) /\ u[i] < v[i] /\ \A j \in 1 .. i - 1 : u[j] = v[j]
      BY <1>0, <1>3, <2>1 DEF DifferAt
    <3> QED
      BY <3>1 DEF Less
  <2>2. CASE ~(i <= Len(u))
    <3>1. i = Len(u) + 1 /\ Len(u) < Len(v) /\ \A j \in 1 .. Len(u) : u[j] = v[j]
      BY <1>0, <1>3, <2>2 DEF DifferAt
    <3>2. SubSeq(u, 1, Len(u)) = SubSeq(v, 1, Len(u))
      BY <1>0, <3>1
    <3> QED
      BY <1>0, <3>1, <3>2 DEF Less, IsStrictPrefix, IsPrefix
  <2> QED
    BY <2>1, <2>2
<1>4. ASSUME Less(u, v) PROVE \E i \in Nat : DifferAt(u, v, i)
  <2>1. CASE IsStrictPrefix(u, v)
    BY <1>0, <1>1, <2>1
  <2>2. CASE \E i \in 1 .. Len(u) : i <= Len(v) /\ u[i] < v[i] /\ \A j \in 1 .. i - 1 : u[j] = v[j]
    BY <1>0, <1>2, <2>2
  <2> QED
    BY <1>4, <2>1, <2>2 DEF Less
<1> QED
  BY <1>3, <1>4

\* No word is less than itself.
LEMMA LessIrreflexive == ASSUME NEW u \in Seq(Nat) PROVE ~Less(u, u)
<1>1. ASSUME NEW i \in Nat, DifferAt(u, u, i) PROVE FALSE
  <2>1. i \in 1 .. Len(u) /\ u[i] < u[i]
    BY <1>1 DEF DifferAt
  <2>2. u[i] \in Nat
    BY <2>1
  <2> QED
    BY <2>1, <2>2
<1> QED
  BY <1>1, LessDiffers

\* The order is transitive.
LEMMA LessTransitive ==
  ASSUME NEW u \in Seq(Nat), NEW v \in Seq(Nat), NEW w \in Seq(Nat), Less(u, v), Less(v, w)
  PROVE  Less(u, w)
<1>1. PICK i \in Nat : DifferAt(u, v, i)
  BY LessDiffers
<1>2. PICK k \in Nat : DifferAt(v, w, k)
  BY LessDiffers
<1>3. Len(u) \in Nat /\ Len(v) \in Nat /\ Len(w) \in Nat
  OBVIOUS
<1>4. /\ i \in 1 .. Len(u) + 1 /\ i <= Len(v) /\ (\A j \in 1 .. i - 1 : u[j] = v[j])
      /\ (i <= Len(u) => u[i] < v[i])
  BY <1>1 DEF DifferAt
<1>5. /\ k \in 1 .. Len(v) + 1 /\ k <= Len(w) /\ (\A j \in 1 .. k - 1 : v[j] = w[j])
      /\ (k <= Len(v) => v[k] < w[k])
  BY <1>2 DEF DifferAt
<1>6. CASE i < k
  <2>1. \A j \in 1 .. i - 1 : u[j] = w[j]
    BY <1>3, <1>4, <1>5, <1>6
  <2>2. v[i] = w[i]
    BY <1>3, <1>4, <1>5, <1>6
  <2>3. DifferAt(u, w, i)
    BY <1>3, <1>4, <1>5, <1>6, <2>1, <2>2 DEF DifferAt
  <2> QED
    BY <2>3, LessDiffers
<1>7. CASE i = k
  <2>1. \A j \in 1 .. i - 1 : u[j] = w[j]
    BY <1>3, <1>4, <1>5, <1>7
  <2>2. i <= Len(u) => u[i] < w[i]
    <3> HAVE i <= Len(u)
    <3>1. u[i] \in Nat /\ v[i] \in Nat /\ w[i] \in Nat
      BY <1>3, <1>4, <1>5, <1>7
    <3>2. u[i] < v[i] /\ v[i] < w[i]
      BY <1>4, <1>5, <1>7
    <3> QED
      BY <3>1, <3>2
  <2>3. DifferAt(u, w, i)
    BY <1>4, <1>5, <1>7, <2>1, <2>2 DEF DifferAt
  <2> QED
    BY <2>3, LessDiffers
<1>8. CASE k < i
  <2>1. \A j \in 1 .. k - 1 : u[j] = w[j]
    BY <1>3, <1>4, <1>5, <1>8
  <2>2. k \in 1 .. Len(u) /\ u[k] = v[k] /\ v[k] < w[k]
    BY <1>3, <1>4, <1>5, <1>8
  <2>3. DifferAt(u, w, k)
    BY <1>3, <1>5, <2>1, <2>2 DEF DifferAt
  <2> QED
    BY <2>3, LessDiffers
<1> QED
  BY <1>3, <1>4, <1>5, <1>6, <1>7, <1>8

\* A set of places that is not empty has a first one.
LEMMA FirstOf ==
  ASSUME NEW n \in Nat, NEW S \in SUBSET (1 .. n), S # {}
  PROVE  \E x \in S : \A y \in S : x <= y
<1> DEFINE UpTo(x) == {y \in S : y <= x}
           T == {UpTo(x) : x \in S}
           R == StrictSubsetOrdering(1 .. n)
<1>1. FiniteSubsetsOf(1 .. n) = SUBSET (1 .. n)
  <2>1. IsFiniteSet(1 .. n)
    BY FS_Interval
  <2> QED
    BY <2>1, FS_FiniteSubsetsOfFinite
<1>2. IsWellFoundedOn(R, SUBSET (1 .. n))
  BY <1>1, FS_StrictSubsetOrderingWellFounded
<1>3. T \subseteq SUBSET (1 .. n) /\ T # {} /\ \A y \in S : y \in Nat
  <2>1. \A y \in S : y \in Nat
    OBVIOUS
  <2> QED
    BY <2>1
<1>4. PICK t \in T : \A u \in T : ~(<<u, t>> \in R)
  <2> HIDE DEF T, R
  <2> QED
    BY <1>2, <1>3, WFMin
<1>5. PICK x \in S : t = UpTo(x)
  OBVIOUS
<1>6. ASSUME NEW y \in S, y < x PROVE FALSE
  <2>1. UpTo(y) \subseteq UpTo(x)
    <3>1. \A z \in S : z <= y => z <= x
      BY <1>3, <1>6
    <3> QED
      BY <3>1
  <2>2. x \in UpTo(x) /\ x \notin UpTo(y)
    BY <1>3, <1>6
  <2>3. <<UpTo(y), UpTo(x)>> \in R
    BY <2>1, <2>2 DEF StrictSubsetOrdering
  <2> QED
    BY <1>4, <1>5, <2>3
<1>7. \A y \in S : x <= y
  BY <1>3, <1>6
<1> QED
  BY <1>7

\* Of two words that are not equal one is less than the other.
LEMMA LessTotal ==
  ASSUME NEW u \in Seq(Nat), NEW v \in Seq(Nat)
  PROVE  Less(u, v) \/ u = v \/ Less(v, u)
<1> DEFINE Same(k) == k <= Len(u) /\ k <= Len(v) /\ u[k] = v[k]
           D == {k \in 1 .. Len(u) + 1 : ~Same(k)}
<1>1. Len(u) \in Nat /\ Len(v) \in Nat
  OBVIOUS
<1>2. Len(u) + 1 \in D /\ D \in SUBSET (1 .. Len(u) + 1)
  BY <1>1
<1>3. PICK k \in D : \A y \in D : k <= y
  <2> HIDE DEF D
  <2>1. Len(u) + 1 \in Nat
    BY <1>1
  <2> QED
    BY <1>2, <2>1, FirstOf
<1>4. k \in 1 .. Len(u) + 1 /\ ~Same(k)
  OBVIOUS
<1>5. \A j \in 1 .. k - 1 : j <= Len(u) /\ j <= Len(v) /\ u[j] = v[j]
  <2> TAKE j \in 1 .. k - 1
  <2>1. j \in 1 .. Len(u) + 1 /\ ~(k <= j)
    BY <1>1, <1>4
  <2>2. j \notin D
    BY <1>3, <2>1
  <2> QED
    BY <2>1, <2>2
<1>6. CASE k <= Len(u) /\ k <= Len(v)
  <2>1. u[k] \in Nat /\ v[k] \in Nat /\ u[k] # v[k]
    BY <1>1, <1>4, <1>6
  <2>2. DifferAt(u, v, k) \/ DifferAt(v, u, k)
    BY <1>1, <1>4, <1>5, <1>6, <2>1 DEF DifferAt
  <2> QED
    BY <1>4, <2>2, LessDiffers
<1>7. CASE ~(k <= Len(v))
  <2>1. k <= Len(v) + 1
    <3>1. CASE k = 1
      BY <1>1, <3>1
    <3>2. CASE k # 1
      <4>1. k - 1 \in 1 .. k - 1
        BY <1>1, <1>4, <3>2
      <4> QED
        BY <1>1, <1>4, <1>5, <4>1
    <3> QED
      BY <3>1, <3>2
  <2>2. CASE k <= Len(u)
    <3>1. DifferAt(v, u, k)
      BY <1>1, <1>4, <1>5, <1>7, <2>1, <2>2 DEF DifferAt
    <3> QED
      BY <1>4, <3>1, LessDiffers
  <2>3. CASE ~(k <= Len(u))
    <3>1. Len(u) = Len(v) /\ \A j \in 1 .. Len(u) : u[j] = v[j]
      BY <1>1, <1>4, <1>5, <1>7, <2>1, <2>3
    <3> QED
      BY <3>1, SeqEqual
  <2> QED
    BY <2>2, <2>3
<1>8. CASE ~(k <= Len(u)) /\ k <= Len(v)
  <2>1. DifferAt(u, v, k)
    BY <1>1, <1>4, <1>5, <1>8 DEF DifferAt
  <2> QED
    BY <1>4, <2>1, LessDiffers
<1> QED
  BY <1>6, <1>7, <1>8

-----------------------------------------------------------------------------
\* What a word begins with: as many of its characters as the prefix has.
Cut(w, n) == IF Len(w) <= n THEN w ELSE SubSeq(w, 1, n)

LEMMA CutType ==
  ASSUME NEW w \in Seq(Nat), NEW n \in Nat
  PROVE  /\ Cut(w, n) \in Seq(Nat) /\ Len(Cut(w, n)) = IF Len(w) <= n THEN Len(w) ELSE n
         /\ \A j \in 1 .. Len(Cut(w, n)) : Cut(w, n)[j] = w[j]
<1>1. CASE Len(w) <= n
  BY <1>1 DEF Cut
<1>2. CASE ~(Len(w) <= n)
  <2>1. Cut(w, n) = SubSeq(w, 1, n)
    BY <1>2 DEF Cut
  <2>2. SubSeq(w, 1, n) \in Seq(Nat) /\ Len(SubSeq(w, 1, n)) = n
        /\ \A j \in 1 .. n : SubSeq(w, 1, n)[j] = w[j]
    BY <1>2
  <2> QED
    BY <1>2, <2>1, <2>2
<1> QED
  BY <1>1, <1>2

\* The order of what words begin with is coarser than that of the words.
LEMMA CutKeepsOrder ==
  ASSUME NEW u \in Seq(Nat), NEW v \in Seq(Nat), NEW n \in Nat, Less(u, v)
  PROVE  Less(Cut(u, n), Cut(v, n)) \/ Cut(u, n) = Cut(v, n)
<1> DEFINE U == Cut(u, n)
           V == Cut(v, n)
<1>1. PICK i \in Nat : DifferAt(u, v, i)
  BY LessDiffers
<1>2. /\ i \in 1 .. Len(u) + 1 /\ i <= Len(v) /\ (\A j \in 1 .. i - 1 : u[j] = v[j])
      /\ (i <= Len(u) => u[i] < v[i])
  BY <1>1 DEF DifferAt
<1>3. /\ U \in Seq(Nat) /\ Len(U) = (IF Len(u) <= n THEN Len(u) ELSE n)
      /\ V \in Seq(Nat) /\ Len(V) = (IF Len(v) <= n THEN Len(v) ELSE n)
      /\ (\A j \in 1 .. Len(U) : U[j] = u[j]) /\ (\A j \in 1 .. Len(V) : V[j] = v[j])
  BY CutType
<1>4. Len(u) \in Nat /\ Len(v) \in Nat /\ Len(U) \in Nat /\ Len(V) \in Nat
  BY <1>3
<1> HIDE DEF U, V
<1>5. CASE i <= n
  <2>1. i \in 1 .. Len(U) + 1 /\ i <= Len(V) /\ (i <= Len(U) => i <= Len(u))
    BY <1>2, <1>3, <1>4, <1>5
  <2>2. \A j \in 1 .. i - 1 : U[j] = V[j]
    <3> TAKE j \in 1 .. i - 1
    <3>1. j \in 1 .. Len(U) /\ j \in 1 .. Len(V)
      BY <1>4, <2>1
    <3> QED
      BY <1>2, <1>3, <3>1
  <2>3. i <= Len(U) => U[i] < V[i]
    <3> HAVE i <= Len(U)
    <3>1. i \in 1 .. Len(U) /\ i \in 1 .. Len(V) /\ i <= Len(u)
      BY <1>4, <2>1
    <3> QED
      BY <1>2, <1>3, <3>1
  <2>4. DifferAt(U, V, i)
    BY <2>1, <2>2, <2>3 DEF DifferAt
  <2> QED
    BY <1>3, <2>4, LessDiffers DEF U, V
<1>6. CASE ~(i <= n)
  <2>1. Len(U) = n /\ Len(V) = n
    BY <1>2, <1>3, <1>4, <1>6
  <2>2. \A j \in 1 .. Len(U) : U[j] = V[j]
    <3> TAKE j \in 1 .. Len(U)
    <3>1. j \in 1 .. i - 1 /\ j \in 1 .. Len(V)
      BY <1>4, <1>6, <2>1
    <3> QED
      BY <1>2, <1>3, <3>1
  <2>3. U = V
    BY <1>3, <2>1, <2>2, SeqEqual
  <2> QED
    BY <2>3 DEF U, V
<1> QED
  BY <1>5, <1>6

\* A word is less than the prefix if and only if what it begins with is.
LEMMA CutBelow ==
  ASSUME NEW w \in Seq(Nat), NEW p \in Seq(Nat)
  PROVE  Less(w, p) <=> Less(Cut(w, Len(p)), p)
<1> DEFINE W == Cut(w, Len(p))
<1>1. Len(p) \in Nat /\ Len(w) \in Nat
  OBVIOUS
<1>2. /\ W \in Seq(Nat) /\ Len(W) = (IF Len(w) <= Len(p) THEN Len(w) ELSE Len(p))
      /\ \A j \in 1 .. Len(W) : W[j] = w[j]
  BY <1>1, CutType
<1> HIDE DEF W
<1>3. ASSUME NEW i \in Nat PROVE DifferAt(w, p, i) <=> DifferAt(W, p, i)
  <2>1. CASE i \in 1 .. Len(p)
    <3>1. (i \in 1 .. Len(w) + 1 <=> i \in 1 .. Len(W) + 1) /\ (i <= Len(w) <=> i <= Len(W))
      BY <1>1, <1>2, <2>1
    <3>2. CASE i \in 1 .. Len(w) + 1
      <4>1. \A j \in 1 .. i - 1 : W[j] = w[j]
        BY <1>1, <1>2, <2>1, <3>2
      <4>2. i <= Len(W) => W[i] = w[i]
        BY <1>1, <1>2, <2>1
      <4>3. (i <= Len(w) => w[i] < p[i]) <=> (i <= Len(W) => W[i] < p[i])
        BY <3>1, <4>2
      <4>4. (\A j \in 1 .. i - 1 : w[j] = p[j]) <=> (\A j \in 1 .. i - 1 : W[j] = p[j])
        BY <4>1
      <4> QED
        BY <3>1, <4>3, <4>4 DEF DifferAt
    <3>3. CASE i \notin 1 .. Len(w) + 1
      BY <3>1, <3>3 DEF DifferAt
    <3> QED
      BY <3>2, <3>3
  <2>2. CASE i \notin 1 .. Len(p)
    BY <1>1, <2>2 DEF DifferAt
  <2> QED
    BY <2>1, <2>2
<1>4. Less(w, p) <=> \E i \in Nat : DifferAt(w, p, i)
  BY LessDiffers
<1>5. Less(W, p) <=> \E i \in Nat : DifferAt(W, p, i)
  BY <1>2, LessDiffers
<1> QED
  BY <1>3, <1>4, <1>5 DEF W

-----------------------------------------------------------------------------
\* The arguments are a sorted list of words and a word.
ArgsTyped == L \in Seq(Seq(Nat)) /\ prefix \in Seq(Nat) /\ Sorted(L)

Places == 0 .. Len(L) - 1

\* The words before a place are too small, except that they may be equal to the prefix
\* if the word at the place is too; those from another on are not too small.
SmallBefore(k) == \A i \in Places : i < k => Less(At(i), prefix) \/ (At(i) = prefix /\ k \in Places /\ At(k) = prefix)
NotSmallFrom(k) == \A i \in Places : k <= i => ~Less(At(i), prefix)

\* What the words before a place begin with is not too great, and from another on it is.
NotGreatBefore(k) == \A i \in Places : i < k => ~Less(prefix, First(i))
GreatFrom(k) == \A i \in Places : k <= i => Less(prefix, First(i))

\* What the searches have found out.
Searched ==
  /\ pc = "start" => /\ NotSmallFrom(r) /\ (r > l => \A i \in Places : i < l => Less(At(i), prefix))
                     /\ (r = l => SmallBefore(l))
  /\ pc \in {"end", "done"} => SmallBefore(start) /\ NotSmallFrom(start)
  /\ pc = "end" => NotGreatBefore(l) /\ GreatFrom(r)
  /\ pc = "done" => NotGreatBefore(end) /\ GreatFrom(end)

IInv == TypeOK /\ ArgsTyped /\ Searched

\* The words of the list, and what they begin with, are in order.
LEMMA InOrder ==
  ASSUME ArgsTyped, NEW i \in Places, NEW k \in Places, i <= k
  PROVE  /\ At(i) \in Seq(Nat) /\ At(k) \in Seq(Nat) /\ (Less(At(i), At(k)) \/ At(i) = At(k))
         /\ First(i) \in Seq(Nat) /\ First(k) \in Seq(Nat)
         /\ Less(First(i), First(k)) \/ First(i) = First(k)
<1>1. Len(L) \in Nat /\ i + 1 \in 1 .. Len(L) /\ k + 1 \in 1 .. Len(L) /\ i + 1 <= k + 1
  BY DEF ArgsTyped, Places
<1>2. At(i) \in Seq(Nat) /\ At(k) \in Seq(Nat) /\ Len(prefix) \in Nat
  BY <1>1 DEF ArgsTyped, At
<1>3. Less(At(i), At(k)) \/ At(i) = At(k)
  <2>1. CASE i = k
    BY <2>1
  <2>2. CASE i # k
    <3>1. i + 1 < k + 1
      <4>1. i \in Int /\ k \in Int /\ i # k /\ i <= k
        BY <2>2 DEF Places
      <4> QED
        BY <4>1
    <3> QED
      BY <1>1, <3>1 DEF ArgsTyped, Sorted, At
  <2> QED
    BY <2>1, <2>2
<1>4. First(i) = Cut(At(i), Len(prefix)) /\ First(k) = Cut(At(k), Len(prefix))
  BY DEF First, Cut
<1>5. First(i) \in Seq(Nat) /\ First(k) \in Seq(Nat)
  BY <1>2, <1>4, CutType
<1>6. Less(First(i), First(k)) \/ First(i) = First(k)
  BY <1>2, <1>3, <1>4, CutKeepsOrder
<1> QED
  BY <1>2, <1>3, <1>5, <1>6

\* The middle is between the ends of the interval.
LEMMA MiddleType ==
  ASSUME TypeOK, ArgsTyped, r > l
  PROVE  Middle \in Places /\ l <= Middle /\ Middle < r /\ Middle \in Nat
<1>1. Len(L) \in Nat
  BY DEF ArgsTyped
<1>2. l \in Nat /\ r \in Nat /\ r <= Len(L)
  BY <1>1 DEF TypeOK
<1>3. Middle \in Nat /\ l <= Middle /\ Middle < r
  BY <1>2 DEF Middle
<1> QED
  BY <1>1, <1>2, <1>3 DEF Places

\* A step that keeps the list and the prefix keeps what the words are like.
LEMMA ListKept ==
  ASSUME UNCHANGED <<L, prefix>>
  PROVE  /\ Places' = Places /\ ArgsTyped' = ArgsTyped
         /\ \A i : Less(At(i), prefix)' = Less(At(i), prefix)
         /\ \A i : (At(i) = prefix)' = (At(i) = prefix)
         /\ \A i : Less(prefix, First(i))' = Less(prefix, First(i))
<1>1. Places' = Places
  BY DEF Places
<1>2. ArgsTyped' = ArgsTyped
  <2>1. L' = L /\ prefix' = prefix
    OBVIOUS
  <2>2. Sorted(L)' = Sorted(L)
    BY <2>1 DEF Sorted, Less
  <2> QED
    BY <2>1, <2>2 DEF ArgsTyped
<1>3. \A i : At(i)' = At(i) /\ First(i)' = First(i)
  BY DEF At, First
<1>4. \A i : Less(At(i), prefix)' = Less(At(i), prefix)
  BY <1>3 DEF Less
<1>5. \A i : Less(prefix, First(i))' = Less(prefix, First(i))
  BY <1>3 DEF Less
<1> QED
  BY <1>1, <1>2, <1>3, <1>4, <1>5

\* Both searches begin with the whole list.
LEMMA InitIInv == Init => IInv
<1> SUFFICES ASSUME Init PROVE IInv
  OBVIOUS
<1>1. ASSUME NEW S, NEW n \in Nat PROVE BoundedSeq(S, n) \subseteq Seq(S)
  BY DEF BoundedSeq, SeqOf
<1>2. MaxWord \in Nat /\ MaxList \in Nat /\ Letters \subseteq Nat
  BY LettersAssumption
<1>3. Words \subseteq Seq(Nat)
  <2>1. Words \subseteq Seq(Letters)
    BY <1>1, <1>2 DEF Words
  <2>2. ASSUME NEW w \in Seq(Letters) PROVE w \in Seq(Nat)
    <3>1. \A i \in 1 .. Len(w) : w[i] \in Letters
      OBVIOUS
    <3>2. Len(w) \in Nat /\ w = [i \in 1 .. Len(w) |-> w[i]]
      BY SeqDef
    <3>3. \A i \in 1 .. Len(w) : w[i] \in Nat
      BY <1>2, <3>1
    <3>4. [i \in 1 .. Len(w) |-> w[i]] \in Seq(Nat)
      BY <3>2, <3>3
    <3> QED
      BY <3>2, <3>4
  <2> QED
    BY <2>1, <2>2
<1>4. L \in Seq(Seq(Nat)) /\ Sorted(L) /\ prefix \in Seq(Nat)
  <2>1. L \in Seq(Words)
    BY <1>1, <1>2 DEF Init
  <2>2. Seq(Words) \subseteq Seq(Seq(Nat))
    BY <1>3
  <2> QED
    BY <1>3, <2>1, <2>2 DEF Init
<1>5. ArgsTyped /\ Len(L) \in Nat
  BY <1>4 DEF ArgsTyped
<1>6. l = 0 /\ r = Len(L) /\ start = 0 /\ end = 0 /\ pc = "start"
  BY DEF Init
<1>7. TypeOK
  BY <1>5, <1>6 DEF TypeOK
<1>8. Searched
  <2>1. \A i \in Places : ~(i < l) /\ ~(r <= i)
    BY <1>5, <1>6 DEF Places
  <2> QED
    BY <1>6, <2>1 DEF Searched, SmallBefore, NotSmallFrom
<1> QED
  BY <1>5, <1>7, <1>8 DEF IInv

\* The first search halves the interval.
LEMMA SearchStartKeeps == ASSUME IInv, SearchStart PROVE IInv'
<1>1. TypeOK /\ ArgsTyped /\ Searched /\ pc = "start" /\ r > l
  BY DEF IInv, SearchStart
<1>2. UNCHANGED <<L, prefix, start, end, pc>>
  BY DEF SearchStart
<1>3. Middle \in Places /\ l <= Middle /\ Middle < r /\ Middle \in Nat
  BY <1>1, MiddleType
<1>4. /\ NotSmallFrom(r) /\ (\A i \in Places : i < l => Less(At(i), prefix))
      /\ l \in Nat /\ r \in Nat /\ Len(L) \in Nat /\ r <= Len(L) /\ prefix \in Seq(Nat)
      /\ Places \subseteq Nat
  BY <1>1 DEF Searched, TypeOK, ArgsTyped, Places
<1>5. /\ ArgsTyped' /\ Places' = Places
      /\ \A i : Less(At(i), prefix)' = Less(At(i), prefix)
      /\ \A i : (At(i) = prefix)' = (At(i) = prefix)
  BY <1>1, <1>2, ListKept
<1>6. CASE At(Middle) = prefix
  <2>1. l' = Middle /\ r' = Middle
    BY <1>6 DEF SearchStart
  <2>2. TypeOK'
    BY <1>1, <1>2, <1>3, <1>4, <2>1 DEF TypeOK
  <2>3. SmallBefore(Middle)
    BY <1>1, <1>3, <1>4, <1>6, InOrder DEF SmallBefore
  <2>4. ASSUME NEW i \in Places, Middle <= i PROVE ~Less(At(i), prefix)
    <3>1. At(i) \in Seq(Nat) /\ (Less(prefix, At(i)) \/ prefix = At(i))
      BY <1>1, <1>3, <1>6, <2>4, InOrder
    <3> QED
      BY <1>4, <3>1, LessTransitive, LessIrreflexive
  <2>5. Searched'
    <3>1. SmallBefore(l)'
      BY <1>5, <2>1, <2>3 DEF SmallBefore
    <3>2. NotSmallFrom(r)'
      BY <1>5, <2>1, <2>4 DEF NotSmallFrom
    <3>3. pc' = "start" /\ r' = l' /\ ~(r' > l')
      BY <1>1, <1>2, <1>3, <2>1
    <3> QED
      BY <3>1, <3>2, <3>3 DEF Searched
  <2> QED
    BY <1>5, <2>2, <2>5 DEF IInv
<1>7. CASE At(Middle) # prefix /\ Less(At(Middle), prefix)
  <2>1. l' = Middle + 1 /\ r' = r
    BY <1>7 DEF SearchStart
  <2>2. TypeOK'
    BY <1>1, <1>2, <1>3, <1>4, <2>1 DEF TypeOK
  <2>3. ASSUME NEW i \in Places, i < Middle + 1 PROVE Less(At(i), prefix)
    <3>1. i <= Middle
      BY <1>3, <1>4, <2>3
    <3>2. At(i) \in Seq(Nat) /\ At(Middle) \in Seq(Nat)
          /\ (Less(At(i), At(Middle)) \/ At(i) = At(Middle))
      BY <1>1, <1>3, <3>1, InOrder
    <3> QED
      BY <1>4, <1>7, <3>2, LessTransitive
  <2>4. Searched'
    <3>1. NotSmallFrom(r)' /\ \A i \in Places' : i < l' => Less(At(i), prefix)'
      BY <1>4, <1>5, <2>1, <2>3 DEF NotSmallFrom
    <3>2. SmallBefore(l)'
      BY <3>1 DEF SmallBefore
    <3>3. pc' = "start"
      BY <1>1, <1>2
    <3> QED
      BY <3>1, <3>2, <3>3 DEF Searched
  <2> QED
    BY <1>5, <2>2, <2>4 DEF IInv
<1>8. CASE At(Middle) # prefix /\ ~Less(At(Middle), prefix)
  <2>1. l' = l /\ r' = Middle
    BY <1>8 DEF SearchStart
  <2>2. TypeOK'
    BY <1>1, <1>2, <1>3, <1>4, <2>1 DEF TypeOK
  <2>3. ASSUME NEW i \in Places, Middle <= i PROVE ~Less(At(i), prefix)
    <3>1. At(i) \in Seq(Nat) /\ At(Middle) \in Seq(Nat)
          /\ (Less(At(Middle), At(i)) \/ At(i) = At(Middle))
      BY <1>1, <1>3, <2>3, InOrder
    <3> QED
      BY <1>4, <1>8, <3>1, LessTransitive
  <2>4. Searched'
    <3>1. NotSmallFrom(r)' /\ \A i \in Places' : i < l' => Less(At(i), prefix)'
      BY <1>4, <1>5, <2>1, <2>3 DEF NotSmallFrom
    <3>2. SmallBefore(l)'
      BY <3>1 DEF SmallBefore
    <3>3. pc' = "start"
      BY <1>1, <1>2
    <3> QED
      BY <3>1, <3>2, <3>3 DEF Searched
  <2> QED
    BY <1>5, <2>2, <2>4 DEF IInv
<1> QED
  BY <1>6, <1>7, <1>8

\* The first search ends, and the second begins with the whole list.
LEMMA StartFoundKeeps == ASSUME IInv, StartFound PROVE IInv'
<1>1. TypeOK /\ ArgsTyped /\ Searched
  BY DEF IInv
<1>2. /\ pc = "start" /\ r = l /\ start' = l /\ l' = 0 /\ r' = Len(L) /\ pc' = "end"
      /\ UNCHANGED <<L, prefix, end>>
  BY DEF StartFound
<1>3. Len(L) \in Nat /\ l \in 0 .. Len(L) /\ end \in 0 .. Len(L)
  BY <1>1 DEF ArgsTyped, TypeOK
<1>4. TypeOK'
  BY <1>2, <1>3 DEF TypeOK
<1>5. ArgsTyped' /\ Places' = Places
  BY <1>1, <1>2, ListKept
<1>6. SmallBefore(l) /\ NotSmallFrom(l)
  BY <1>1, <1>2 DEF Searched
<1>7. SmallBefore(start)' /\ NotSmallFrom(start)'
  BY <1>2, <1>6, ListKept DEF SmallBefore, NotSmallFrom
<1>8. NotGreatBefore(l)' /\ GreatFrom(r)'
  <2>1. \A i \in Places' : ~(i < l') /\ ~(r' <= i)
    BY <1>2, <1>3, <1>5 DEF Places
  <2> QED
    BY <2>1 DEF NotGreatBefore, GreatFrom
<1> QED
  BY <1>2, <1>4, <1>5, <1>7, <1>8 DEF IInv, Searched

\* The second search halves the interval.
LEMMA SearchEndKeeps == ASSUME IInv, SearchEnd PROVE IInv'
<1>1. TypeOK /\ ArgsTyped /\ Searched /\ pc = "end" /\ r > l
  BY DEF IInv, SearchEnd
<1>2. UNCHANGED <<L, prefix, start, end, pc>>
  BY DEF SearchEnd
<1>3. Middle \in Places /\ l <= Middle /\ Middle < r /\ Middle \in Nat
  BY <1>1, MiddleType
<1>4. /\ NotGreatBefore(l) /\ GreatFrom(r) /\ SmallBefore(start) /\ NotSmallFrom(start)
      /\ l \in Nat /\ r \in Nat /\ Len(L) \in Nat /\ r <= Len(L) /\ prefix \in Seq(Nat)
      /\ Places \subseteq Nat
  BY <1>1 DEF Searched, TypeOK, ArgsTyped, Places
<1>5. ArgsTyped' /\ SmallBefore(start)' /\ NotSmallFrom(start)'
  BY <1>1, <1>2, <1>4, ListKept DEF SmallBefore, NotSmallFrom
<1>6. CASE Less(prefix, First(Middle))
  <2>1. l' = l /\ r' = Middle
    BY <1>6 DEF SearchEnd
  <2>2. TypeOK'
    BY <1>1, <1>2, <1>3, <1>4, <2>1 DEF TypeOK
  <2>3. ASSUME NEW i \in Places, Middle <= i PROVE Less(prefix, First(i))
    <3>1. First(i) \in Seq(Nat) /\ First(Middle) \in Seq(Nat)
          /\ (Less(First(Middle), First(i)) \/ First(Middle) = First(i))
      BY <1>1, <1>3, <2>3, InOrder
    <3> QED
      BY <1>4, <1>6, <3>1, LessTransitive
  <2>4. NotGreatBefore(l)' /\ GreatFrom(r)'
    BY <1>2, <1>4, <2>1, <2>3, ListKept DEF NotGreatBefore, GreatFrom
  <2> QED
    BY <1>1, <1>2, <1>5, <2>2, <2>4 DEF IInv, Searched
<1>7. CASE ~Less(prefix, First(Middle))
  <2>1. l' = Middle + 1 /\ r' = r
    BY <1>7 DEF SearchEnd
  <2>2. TypeOK'
    BY <1>1, <1>2, <1>3, <1>4, <2>1 DEF TypeOK
  <2>3. ASSUME NEW i \in Places, i < Middle + 1 PROVE ~Less(prefix, First(i))
    <3>1. i <= Middle
      BY <1>3, <1>4, <2>3
    <3>2. First(i) \in Seq(Nat) /\ First(Middle) \in Seq(Nat)
          /\ (Less(First(i), First(Middle)) \/ First(i) = First(Middle))
      BY <1>1, <1>3, <3>1, InOrder
    <3> QED
      BY <1>4, <1>7, <3>2, LessTransitive
  <2>4. NotGreatBefore(l)' /\ GreatFrom(r)'
    BY <1>2, <1>4, <2>1, <2>3, ListKept DEF NotGreatBefore, GreatFrom
  <2> QED
    BY <1>1, <1>2, <1>5, <2>2, <2>4 DEF IInv, Searched
<1> QED
  BY <1>6, <1>7

\* The second search ends.
LEMMA EndFoundKeeps == ASSUME IInv, EndFound PROVE IInv'
<1>1. TypeOK /\ ArgsTyped /\ Searched
  BY DEF IInv
<1>2. /\ pc = "end" /\ r = l /\ end' = l /\ pc' = "done"
      /\ UNCHANGED <<L, prefix, l, r, start>>
  BY DEF EndFound
<1>3. TypeOK'
  BY <1>1, <1>2 DEF TypeOK
<1>4. ArgsTyped'
  BY <1>1, <1>2, ListKept
<1>5. SmallBefore(start) /\ NotSmallFrom(start) /\ NotGreatBefore(l) /\ GreatFrom(l)
  BY <1>1, <1>2 DEF Searched
<1>6. (SmallBefore(start) /\ NotSmallFrom(start) /\ NotGreatBefore(end) /\ GreatFrom(end))'
  BY <1>2, <1>5, ListKept DEF SmallBefore, NotSmallFrom, NotGreatBefore, GreatFrom
<1> QED
  BY <1>2, <1>3, <1>4, <1>6 DEF IInv, Searched

\* What was found out makes the range that is returned the right one.
LEMMA RangeFollows == IInv => RangeIsRight
<1> SUFFICES ASSUME IInv, pc = "done" PROVE RangeIsExact /\ RangeIsNearlyExact
  BY DEF IInv, RangeIsRight, RangeIsExact, RangeIsNearlyExact
<1>1. /\ SmallBefore(start) /\ NotSmallFrom(start) /\ NotGreatBefore(end) /\ GreatFrom(end)
      /\ start \in Nat /\ end \in Nat /\ Places \subseteq Nat /\ prefix \in Seq(Nat)
      /\ Places = 0 .. Len(L) - 1
  BY DEF IInv, Searched, TypeOK, ArgsTyped, Places
<1>2. ASSUME NEW i \in Places
      PROVE  At(i) \in Seq(Nat) /\ First(i) \in Seq(Nat) /\ (Less(At(i), prefix) <=> Less(First(i), prefix))
  <2>1. i <= i
    BY <1>1
  <2>2. At(i) \in Seq(Nat) /\ First(i) \in Seq(Nat)
    BY <2>1, InOrder DEF IInv
  <2>3. First(i) = Cut(At(i), Len(prefix))
    BY DEF First, Cut
  <2> QED
    BY <1>1, <2>2, <2>3, CutBelow
<1>3. ASSUME NEW i \in Places, start <= i, i < end PROVE Fits(i)
  <2>1. ~Less(First(i), prefix) /\ ~Less(prefix, First(i))
    BY <1>1, <1>2, <1>3 DEF NotSmallFrom, NotGreatBefore
  <2> QED
    BY <1>1, <1>2, <2>1, LessTotal DEF Fits
<1>4. ASSUME NEW i \in Places, Fits(i)
      PROVE  i < end /\ (start <= i \/ (At(i) = prefix /\ start \in Places /\ At(start) = prefix))
  <2>1. ~Less(prefix, First(i)) /\ ~Less(First(i), prefix)
    BY <1>1, <1>4, LessIrreflexive DEF Fits
  <2>2. i < end
    BY <1>1, <2>1 DEF GreatFrom
  <2>3. ~Less(At(i), prefix)
    BY <1>2, <2>1
  <2> QED
    BY <1>1, <2>2, <2>3 DEF SmallBefore
<1>5. ASSUME NEW k \in Places, At(k) = prefix PROVE Fits(k)
  BY <1>1, <1>5 DEF Fits, First
<1>6. RangeIsExact
  <2> SUFFICES ASSUME \A i, j \in Places : At(i) = prefix /\ At(j) = prefix => i = j,
                      NEW i \in Places
               PROVE  Fits(i) <=> start <= i /\ i < end
    BY <1>1 DEF RangeIsExact
  <2> QED
    BY <1>1, <1>3, <1>4
<1>7. RangeIsNearlyExact
  <2> SUFFICES ASSUME NEW i \in Places, Fits(i)
               PROVE  \E j \in start .. end - 1 : At(j) = At(i)
    BY <1>1, <1>3 DEF RangeIsNearlyExact
  <2>1. CASE start <= i
    <3>1. i \in start .. end - 1
      BY <1>1, <1>4, <2>1
    <3> QED
      BY <3>1
  <2>2. CASE ~(start <= i)
    <3>1. At(i) = prefix /\ start \in Places /\ At(start) = prefix
      BY <1>4, <2>2
    <3>2. start < end
      BY <1>4, <1>5, <3>1
    <3>3. start \in start .. end - 1
      BY <1>1, <3>2
    <3> QED
      BY <3>1, <3>3
  <2> QED
    BY <2>1, <2>2
<1> QED
  BY <1>6, <1>7

\* In a sorted list of any length find_prefix_range finds the words that begin with the
\* prefix, and no others; if the prefix itself is more than once in the list it may leave
\* some of its occurrences out, but not all.
THEOREM RangeRight == Spec => []RangeIsRight
<1>1. Init => IInv
  BY InitIInv
<1>2. IInv /\ [Next]_vars => IInv'
  <2> SUFFICES ASSUME IInv, [Next]_vars PROVE IInv'
    OBVIOUS
  <2>1. CASE UNCHANGED vars
    <3>1. UNCHANGED <<L, prefix, l, r, start, end, pc>>
      BY <2>1 DEF vars
    <3> QED
      BY <3>1, ListKept DEF IInv, TypeOK, Searched, SmallBefore, NotSmallFrom, NotGreatBefore, GreatFrom
  <2> QED
    BY <2>1, SearchStartKeeps, StartFoundKeeps, SearchEndKeeps, EndFoundKeeps DEF Next
<1>3. IInv => RangeIsRight
  BY RangeFollows
<1> QED
  BY <1>1, <1>2, <1>3, PTL DEF Spec

-----------------------------------------------------------------------------
(* What the user types in, and with what help *)

CONSTANTS
  IndentWidth, LineTexts, MaxSpaces,                           \* of IndentKeys
  UndoStrings, Operators, NameChars, Keywords, OtherChars,
  ParenTexts, MaxParenText,                                    \* of Autoparen
  CallPages, MaxCallText                                       \* of CallTips

VARIABLES
  spaces, lineTexts, insert, bound, key, previous,
  source, sourceInsert, mark, watching, cur_prefix, plain, last,
  sb, tipInsert, tip, tipWin, places, shows

Indent == INSTANCE IndentKeys WITH INDENT_WIDTH <- IndentWidth, texts <- lineTexts

\* The names that are typed are callable or not, and expect a string or not.
Parens == INSTANCE Autoparen WITH
  undo_strings <- UndoStrings, Names <- NameChars, Others <- OtherChars, TabTexts <- ParenTexts,
  MaxLen <- MaxParenText, text <- source, insert <- sourceInsert

Tips == INSTANCE CallTips WITH
  Pages <- CallPages, MaxText <- MaxCallText, insert <- tipInsert, win <- tipWin

ASSUME IndentAssumption ==
  IndentWidth \in Nat \ {0} /\ MaxSpaces \in Nat /\ LineTexts \subseteq Seq(STRING)

\* Operators are among the strings that undo the parentheses.
ASSUME ParensAssumption ==
  /\ MaxParenText \in Nat
  /\ UndoStrings \subseteq Seq(Parens!Chars) /\ Operators \subseteq UndoStrings
  /\ ParenTexts \subseteq Seq(Parens!Chars) /\ \A t \in ParenTexts : Len(t) <= MaxParenText

ASSUME TipsAssumption ==
  /\ MaxCallText \in Nat
  /\ CallPages \subseteq Seq(Tips!Chars) /\ \A page \in CallPages : Len(page) <= MaxCallText

\* The source views, whatever is typed in them.
TypingSpec == Tips!Spec /\ Parens!Spec /\ Indent!Spec

\* CallTips: keys are taken exactly while the call tip is visible, the cursor is in the call
\* that is shown, and the call tip is by its call.  Autoparen: the parentheses that may be
\* undone are there, and after they are undone, the text is what was typed.  The state is of
\* the types that the modules give.
HelpIsRight ==
  /\ Tips!TypeOK /\ Parens!TypeOK /\ Indent!TypeOK
  /\ Tips!KeysWhileVisible /\ Tips!CursorIsInTheCall /\ Tips!PlacedByTheCall
  /\ Parens!ParensAreThere /\ Parens!UndoneAsTyped

\* What keys do.  IndentKeys: lines that are indented together keep their relative
\* indentation; Shift-Tab and BackSpace undo Tab.  Autoparen: an operator after them
\* undoes the parentheses, and if they were deleted they are not added again.
\* CallTips: a call tip that was dragged stays.
KeysAreRight ==
  /\ Indent!BlocksStayTogether /\ Indent!ShiftTabUndoesTab /\ Indent!BackSpaceUndoesTab
  /\ Parens!OperatorsAreUndone /\ Parens!RefusedIsRespected
  /\ Tips!DraggedStays

-----------------------------------------------------------------------------
(* The keys that indent *)

\* A column is a tab stop when whole levels lead to it.
AtStop(column) == \E level \in Nat : column = level * IndentWidth

\* What the columns of the last tab stop and of the next one have to do with a column.
LEMMA TabStops ==
  ASSUME NEW c \in Nat
  PROVE  /\ IndentWidth - (c % IndentWidth) \in 1 .. IndentWidth
         /\ AtStop(c + (IndentWidth - (c % IndentWidth)))
         /\ AtStop(c) => c % IndentWidth = 0
<1>0. IndentWidth \in Nat /\ IndentWidth > 0
  BY IndentAssumption
<1>1. c % IndentWidth \in 0 .. IndentWidth - 1
  BY <1>0
<1>2. c \div IndentWidth \in Nat /\ c = (c \div IndentWidth) * IndentWidth + (c % IndentWidth)
  BY <1>0, Z3
<1>3. c + (IndentWidth - (c % IndentWidth)) = (c \div IndentWidth + 1) * IndentWidth
  <2>1. \A q \in Nat : (q + 1) * IndentWidth = q * IndentWidth + IndentWidth
    BY <1>0, Z3
  <2>2. \A q \in Nat : q * IndentWidth \in Nat
    BY <1>0, Z3
  <2> QED
    BY <1>0, <1>1, <1>2, <2>1, <2>2
<1>4. ASSUME NEW level \in Nat, c = level * IndentWidth PROVE c % IndentWidth = 0
  BY <1>0, <1>4, Z3
<1>5. AtStop(c + (IndentWidth - (c % IndentWidth)))
  <2> c \div IndentWidth + 1 \in Nat
    BY <1>2
  <2> QED
    BY <1>3 DEF AtStop
<1>6. AtStop(c) => c % IndentWidth = 0
  BY <1>4 DEF AtStop
<1>7. IndentWidth - (c % IndentWidth) \in 1 .. IndentWidth
  BY <1>0, <1>1
<1> QED
  BY <1>5, <1>6, <1>7

\* The last tab stop before a column: from a tab stop it is a level away.
Stop(c) == ((c - 1) \div IndentWidth) * IndentWidth

\* It is less than a level before the column.
LEMMA LastStop ==
  ASSUME NEW c \in Nat, c > 0
  PROVE  /\ Stop(c) \in Nat /\ Stop(c) < c /\ c - Stop(c) \in 1 .. IndentWidth
         /\ AtStop(Stop(c))
         /\ AtStop(c) => c - Stop(c) = IndentWidth
<1> DEFINE q == (c - 1) \div IndentWidth
           m == (c - 1) % IndentWidth
<1>0. IndentWidth \in Nat /\ IndentWidth > 0 /\ c - 1 \in Nat
  BY IndentAssumption
<1>1. m \in 0 .. IndentWidth - 1
  BY <1>0
<1>2. q \in Nat /\ c - 1 = q * IndentWidth + m
  BY <1>0, Z3
<1>3. Stop(c) = q * IndentWidth /\ Stop(c) \in Nat
  <2>1. q * IndentWidth \in Nat
    BY <1>0, <1>2, Z3
  <2> QED
    BY <2>1 DEF Stop
<1>4. ASSUME NEW level \in Nat, c = level * IndentWidth PROVE c - Stop(c) = IndentWidth
  <2>0. c - q * IndentWidth = m + 1
    BY <1>0, <1>1, <1>2
  <2> HIDE DEF q, m
  <2>1. (level - q) * IndentWidth = m + 1
    BY <1>0, <1>1, <1>2, <1>4, <2>0, Z3
  <2>2. level - q > 0
    BY <1>0, <1>1, <1>2, <1>4, <2>1, Z3
  <2>3. level - q < 2
    BY <1>0, <1>1, <1>2, <1>4, <2>1, Z3
  <2>4. level = q + 1
    BY <1>2, <2>2, <2>3
  <2>5. m + 1 = IndentWidth
    BY <1>0, <1>1, <1>2, <2>1, <2>4, Z3
  <2> QED
    BY <1>0, <1>1, <1>2, <1>3, <2>5
<1>5. AtStop(Stop(c))
  BY <1>2, <1>3 DEF AtStop
<1>6. AtStop(c) => c - Stop(c) = IndentWidth
  BY <1>4 DEF AtStop
<1> HIDE DEF q, m
<1>7. Stop(c) < c /\ c - Stop(c) \in 1 .. IndentWidth
  <2>1. c - Stop(c) = m + 1
    BY <1>0, <1>1, <1>2, <1>3
  <2> QED
    BY <1>0, <1>1, <1>3, <2>1
<1> QED
  BY <1>3, <1>5, <1>6, <1>7

-----------------------------------------------------------------------------
\* The first and the last number of an interval.
LEMMA EndsOf ==
  ASSUME NEW a \in Int, NEW b \in Int, a <= b
  PROVE  Indent!First(a .. b) = a /\ Indent!Final(a .. b) = b
<1> DEFINE S == a .. b
<1>1. S \subseteq Int /\ a \in S /\ \A c \in S : a <= c
  OBVIOUS
<1>2. b \in S /\ \A c \in S : b >= c
  OBVIOUS
<1> HIDE DEF S
<1>3. Indent!First(S) \in S /\ \A c \in S : Indent!First(S) <= c
  BY <1>1 DEF Indent!First
<1>4. Indent!Final(S) \in S /\ \A c \in S : Indent!Final(S) >= c
  BY <1>2 DEF Indent!Final
<1>5. \A x, y \in Int : x <= y /\ y <= x => x = y
  OBVIOUS
<1>6. Indent!First(S) = a
  BY <1>1, <1>3, <1>5
<1>7. Indent!Final(S) = b
  BY <1>1, <1>2, <1>4, <1>5
<1> QED
  BY <1>6, <1>7 DEF S

\* A place of the text: a line and a column up to its end.
IsPlace(p) ==
  \E line \in Indent!Lines, column \in Nat : p = <<line, column>> /\ column <= Indent!LineEnd(line)

\* The lines are numbered, and have their ends after their spaces.
LEMMA LinesType ==
  ASSUME lineTexts \in LineTexts, spaces \in [Indent!Lines -> 0 .. MaxSpaces]
  PROVE  /\ Indent!Lines \subseteq Nat
         /\ \A a, b \in Indent!Lines : a .. b \subseteq Indent!Lines
         /\ \A line \in Indent!Lines :
              /\ spaces[line] \in Nat /\ spaces[line] <= MaxSpaces
              /\ Indent!LineEnd(line) \in Nat /\ spaces[line] <= Indent!LineEnd(line)
<1>1. PICK n \in Nat : Indent!Lines = 1 .. n
  <2>1. lineTexts \in Seq(STRING)
    BY IndentAssumption
  <2> QED
    BY <2>1, LenProperties DEF Indent!Lines
<1>2. Indent!Lines \subseteq Nat /\ \A a, b \in Indent!Lines : a .. b \subseteq Indent!Lines
  BY <1>1
<1>3. ASSUME NEW line \in Indent!Lines
      PROVE  /\ spaces[line] \in Nat /\ spaces[line] <= MaxSpaces
             /\ Indent!LineEnd(line) \in Nat /\ spaces[line] <= Indent!LineEnd(line)
  <2>1. spaces[line] \in 0 .. MaxSpaces
    OBVIOUS
  <2>2. spaces[line] \in Nat /\ spaces[line] <= MaxSpaces
    BY <2>1, IndentAssumption
  <2>3. Indent!LineEnd(line) = spaces[line] \/ Indent!LineEnd(line) = spaces[line] + 1
    <3> DEFINE e == IF lineTexts[line] = "" THEN 0 ELSE 1
    <3>1. e = 0 \/ e = 1
      BY Zenon
    <3>2. Indent!LineEnd(line) = spaces[line] + e
      BY Zenon DEF Indent!LineEnd
    <3> HIDE DEF e
    <3> QED
      BY <2>2, <3>1, <3>2
  <2> QED
    BY <2>2, <2>3
<1> QED
  BY <1>2, <1>3

\* The lines have their spaces, and the marks are in the text.
Placed ==
  /\ lineTexts \in LineTexts
  /\ spaces \in [Indent!Lines -> 0 .. MaxSpaces]
  /\ IsPlace(insert) /\ IsPlace(bound)

\* What TypeOK says of the marks.
LEMMA PlacesType ==
  ASSUME lineTexts \in LineTexts, spaces \in [Indent!Lines -> 0 .. MaxSpaces]
  PROVE  \A p : p \in UNION {Indent!Places(line) : line \in Indent!Lines} <=> IsPlace(p)
<1>1. \A line \in Indent!Lines : Indent!LineEnd(line) \in Nat
  BY LinesType
<1>2. ASSUME NEW p, NEW line \in Indent!Lines, p \in Indent!Places(line) PROVE IsPlace(p)
  <2>1. PICK column \in 0 .. Indent!LineEnd(line) : p = <<line, column>>
    BY <1>2 DEF Indent!Places
  <2> QED
    BY <1>1, <2>1 DEF IsPlace
<1>3. ASSUME NEW p, IsPlace(p) PROVE \E line \in Indent!Lines : p \in Indent!Places(line)
  <2>1. PICK line \in Indent!Lines, column \in Nat : p = <<line, column>> /\ column <= Indent!LineEnd(line)
    BY <1>3 DEF IsPlace
  <2>2. column \in 0 .. Indent!LineEnd(line)
    BY <1>1, <2>1
  <2> QED
    BY <2>1, <2>2 DEF Indent!Places
<1> QED
  BY <1>2, <1>3

\* The lines that are selected are those from one mark to the other.
LEMMA SelectionType ==
  ASSUME Placed
  PROVE  \E from, to \in Indent!Lines :
           /\ from <= to /\ Indent!SelectedLines = from .. to
           /\ Indent!First(Indent!SelectedLines) = from /\ Indent!Final(Indent!SelectedLines) = to
<1>1. PICK line \in Indent!Lines, column \in Nat : insert = <<line, column>>
  BY DEF Placed, IsPlace
<1>2. PICK other \in Indent!Lines, far \in Nat : bound = <<other, far>>
  BY DEF Placed, IsPlace
<1>3. line \in Nat /\ other \in Nat
  BY LinesType DEF Placed
<1>4. insert[1] = line /\ insert[2] = column /\ bound[1] = other /\ bound[2] = far
  BY <1>1, <1>2
<1>5. CASE Indent!Before(insert, bound)
  <2>1. line <= other
    BY <1>3, <1>4, <1>5 DEF Indent!Before
  <2>2. Indent!SelectedLines = line .. other
    BY <1>4, <1>5 DEF Indent!SelectedLines
  <2> QED
    BY <1>3, <2>1, <2>2, EndsOf
<1>6. CASE ~Indent!Before(insert, bound)
  <2>1. other <= line
    BY <1>3, <1>4, <1>6 DEF Indent!Before
  <2>2. Indent!SelectedLines = other .. line
    BY <1>4, <1>6 DEF Indent!SelectedLines
  <2> QED
    BY <1>3, <2>1, <2>2, EndsOf
<1> QED
  BY <1>5, <1>6

-----------------------------------------------------------------------------
\* What holds between two keys: after Tab the cursor is at a tab stop, which is what
\* BackSpace goes back from; after BackSpace too, which Tab goes on from; and lines that
\* were indented together are still those that are selected.
IndentIInv ==
  /\ Placed
  /\ previous \in [Indent!Lines -> 0 .. MaxSpaces]
  /\ key = "indent" =>
       spaces = [row \in Indent!Lines |-> IF row \in Indent!SelectedLines THEN previous[row] + IndentWidth
                                        ELSE previous[row]]
  /\ key = "tab" =>
       /\ AtStop(insert[2])
       /\ \E width \in 1 .. IndentWidth : spaces = [previous EXCEPT ![insert[1]] = @ + width]
  /\ key = "backspace" =>
       /\ AtStop(insert[2])
       /\ \E width \in 1 .. IndentWidth : previous = [spaces EXCEPT ![insert[1]] = @ + width]


\* A line keeps its text, so its end moves with its spaces.
LEMMA EndMoves ==
  ASSUME UNCHANGED lineTexts, NEW line \in Indent!Lines
  PROVE  \E room \in 0 .. 1 :
           Indent!LineEnd(line) = spaces[line] + room /\ Indent!LineEnd(line)' = spaces'[line] + room
<1> DEFINE room == IF lineTexts[line] = "" THEN 0 ELSE 1
<1>1. room \in 0 .. 1
  <2>1. room = 0 \/ room = 1
    BY Zenon
  <2> QED
    BY <2>1
<1>2. Indent!LineEnd(line) = spaces[line] + room /\ Indent!LineEnd(line)' = spaces'[line] + room
  BY Zenon DEF Indent!LineEnd
<1> QED
  BY <1>1, <1>2

\* What a key that selects the lines of the selection leaves, if the lines have their spaces.
LEMMA LinesSelected ==
  ASSUME Placed, UNCHANGED lineTexts, spaces' \in [Indent!Lines -> 0 .. MaxSpaces],
         Indent!SelectLines(Indent!First(Indent!SelectedLines), Indent!Final(Indent!SelectedLines))
  PROVE  Placed' /\ Indent!SelectedLines' = Indent!SelectedLines
<1>1. PICK from, to \in Indent!Lines :
        /\ from <= to /\ Indent!SelectedLines = from .. to
        /\ Indent!First(Indent!SelectedLines) = from /\ Indent!Final(Indent!SelectedLines) = to
  BY SelectionType
<1>2. Indent!Lines' = Indent!Lines
  BY DEF Indent!Lines
<1>3. from \in Nat /\ to \in Nat
  BY LinesType DEF Placed
<1>4. insert' = <<from, 0>> /\ bound' = <<to, Indent!LineEnd(to)'>>
  BY <1>1, Zenon DEF Indent!SelectLines, Indent!LineEnd
<1>5. PICK room \in 0 .. 1 : Indent!LineEnd(to)' = spaces'[to] + room
  BY EndMoves
<1>6. PICK chars \in 0 .. 1 : Indent!LineEnd(from)' = spaces'[from] + chars
  BY EndMoves
<1>7. spaces'[to] \in Nat /\ spaces'[from] \in Nat
  BY IndentAssumption
<1>8. IsPlace(insert)' /\ IsPlace(bound)'
  <2>1. Indent!LineEnd(to)' \in Nat /\ Indent!LineEnd(from)' \in Nat
    BY <1>5, <1>6, <1>7
  <2> QED
    BY <1>2, <1>4, <2>1 DEF IsPlace
<1>9. Indent!SelectedLines' = from .. to
  <2>1. insert'[1] = from /\ insert'[2] = 0 /\ bound'[1] = to /\ bound'[2] = Indent!LineEnd(to)'
    BY <1>4
  <2>2. Indent!LineEnd(to)' \in Nat
    BY <1>5, <1>7
  <2>3. Indent!Before(insert, bound)'
    BY <1>1, <1>3, <2>1, <2>2 DEF Indent!Before
  <2> QED
    BY <2>1, <2>3 DEF Indent!SelectedLines
<1> QED
  BY <1>1, <1>2, <1>8, <1>9 DEF Placed

\* The marks' lines and columns.
LEMMA MarksType ==
  ASSUME Placed
  PROVE  /\ insert = <<insert[1], insert[2]>> /\ insert[1] \in Indent!Lines
         /\ insert[2] \in Nat /\ insert[2] <= Indent!LineEnd(insert[1])
         /\ bound = <<bound[1], bound[2]>> /\ bound[1] \in Indent!Lines
         /\ bound[2] \in Nat /\ bound[2] <= Indent!LineEnd(bound[1])
<1>1. PICK line \in Indent!Lines, column \in Nat :
        insert = <<line, column>> /\ column <= Indent!LineEnd(line)
  BY DEF Placed, IsPlace
<1>2. PICK other \in Indent!Lines, far \in Nat :
        bound = <<other, far>> /\ far <= Indent!LineEnd(other)
  BY DEF Placed, IsPlace
<1> QED
  BY <1>1, <1>2

\* After a key in the line of the cursor the text is of the same lines.
LEMMA LineChanges ==
  ASSUME Placed, UNCHANGED lineTexts, NEW line \in Indent!Lines, NEW n \in 0 .. MaxSpaces,
         spaces' = [spaces EXCEPT ![line] = n]
  PROVE  /\ Indent!Lines' = Indent!Lines
         /\ spaces' \in [Indent!Lines -> 0 .. MaxSpaces] /\ spaces'[line] = n
         /\ \A other \in Indent!Lines \ {line} :
              spaces'[other] = spaces[other] /\ Indent!LineEnd(other)' = Indent!LineEnd(other)
<1>1. Indent!Lines' = Indent!Lines
  BY DEF Indent!Lines
<1>2. spaces \in [Indent!Lines -> 0 .. MaxSpaces]
  BY DEF Placed
<1>3. spaces' \in [Indent!Lines -> 0 .. MaxSpaces] /\ spaces'[line] = n
      /\ \A other \in Indent!Lines \ {line} : spaces'[other] = spaces[other]
  BY <1>2
<1>4. ASSUME NEW other \in Indent!Lines \ {line} PROVE Indent!LineEnd(other)' = Indent!LineEnd(other)
  <2>1. PICK room \in 0 .. 1 : Indent!LineEnd(other) = spaces[other] + room
                               /\ Indent!LineEnd(other)' = spaces'[other] + room
    BY EndMoves
  <2> QED
    BY <1>3, <2>1
<1> QED
  BY <1>1, <1>3, <1>4

\* Tab, Shift-Tab, BackSpace and Home keep the invariant.
LEMMA TabStopKeeps == ASSUME IndentIInv, Indent!TabStop PROVE IndentIInv'
<1>0. PICK line \in Indent!Lines : insert[1] = line
  BY MarksType DEF IndentIInv
<1> DEFINE width == IndentWidth - (insert[2] % IndentWidth)
           n == spaces[line] + width
<1>1. Placed
  BY DEF IndentIInv
<1>2. line \in Indent!Lines /\ insert[2] \in Nat /\ spaces[line] \in Nat /\ spaces[line] <= MaxSpaces
  BY <1>1, MarksType, LinesType DEF Placed
<1>3. width \in 1 .. IndentWidth /\ AtStop(insert[2] + width)
  BY <1>2, TabStops
<1>4. /\ insert[2] <= spaces[line] /\ spaces' = [spaces EXCEPT ![line] = n]
      /\ spaces'[line] <= MaxSpaces
      /\ insert' = <<line, insert[2] + width>> /\ bound' = insert'
      /\ key' = "tab" /\ previous' = spaces /\ lineTexts' = lineTexts
  BY <1>0 DEF Indent!TabStop, Indent!Press
<1> HIDE DEF width
<1>5. IndentWidth \in Nat /\ MaxSpaces \in Nat
  BY IndentAssumption
<1>6. spaces'[line] = n
  BY <1>1, <1>2, <1>4 DEF Placed
<1>7. n \in 0 .. MaxSpaces
  BY <1>2, <1>3, <1>4, <1>5, <1>6
<1>8. /\ Indent!Lines' = Indent!Lines
      /\ spaces' \in [Indent!Lines -> 0 .. MaxSpaces]
  BY <1>1, <1>2, <1>4, <1>7, LineChanges
<1>9. IsPlace(insert)' /\ IsPlace(bound)'
  <2>1. PICK room \in 0 .. 1 : Indent!LineEnd(line)' = n + room
    BY <1>2, <1>4, <1>6, EndMoves
  <2>2. insert[2] + width \in Nat /\ insert[2] + width <= Indent!LineEnd(line)'
    BY <1>2, <1>3, <1>4, <1>5, <2>1
  <2>3. \E row \in Indent!Lines', c \in Nat : insert' = <<row, c>> /\ c <= Indent!LineEnd(row)'
    BY <1>2, <1>4, <1>8, <2>2
  <2> QED
    BY <1>4, <2>3 DEF IsPlace
<1>10. Placed'
  BY <1>1, <1>4, <1>8, <1>9 DEF Placed
<1>11. AtStop(insert[2])'
  BY <1>3, <1>4 DEF AtStop
<1>12. spaces' = [previous' EXCEPT ![insert'[1]] = @ + width]
  BY <1>4
<1>13. previous' \in [Indent!Lines' -> 0 .. MaxSpaces]
  BY <1>1, <1>4, <1>8 DEF Placed
<1> QED
  BY <1>3, <1>4, <1>10, <1>11, <1>12, <1>13 DEF IndentIInv

\* Tab on a selection.
LEMMA TabLinesKeeps == ASSUME IndentIInv, Indent!TabLines PROVE IndentIInv'
<1>1. Placed
  BY DEF IndentIInv
<1>2. /\ spaces' = [row \in Indent!Lines |-> IF row \in Indent!SelectedLines THEN spaces[row] + IndentWidth
                                           ELSE spaces[row]]
      /\ \A row \in Indent!Lines : spaces'[row] <= MaxSpaces
      /\ Indent!SelectLines(Indent!First(Indent!SelectedLines), Indent!Final(Indent!SelectedLines))
      /\ key' = "indent" /\ previous' = spaces /\ lineTexts' = lineTexts
  BY DEF Indent!TabLines, Indent!Press
<1>3. spaces' \in [Indent!Lines -> 0 .. MaxSpaces]
  <2>1. \A row \in Indent!Lines : spaces[row] \in Nat
    BY <1>1, LinesType DEF Placed
  <2>2. \A row \in Indent!Lines : spaces'[row] \in 0 .. MaxSpaces
    BY <1>2, <2>1, IndentAssumption
  <2> QED
    BY <1>2, <2>2
<1>4. Placed' /\ Indent!SelectedLines' = Indent!SelectedLines
  BY <1>1, <1>2, <1>3, LinesSelected
<1>5. Indent!Lines' = Indent!Lines
  BY <1>2 DEF Indent!Lines
<1>6. previous' \in [Indent!Lines' -> 0 .. MaxSpaces]
  BY <1>1, <1>2, <1>5 DEF Placed
<1>7. spaces' = [row \in Indent!Lines' |-> IF row \in Indent!SelectedLines' THEN previous'[row] + IndentWidth
                                         ELSE previous'[row]]
  BY <1>2, <1>4, <1>5
<1> QED
  BY <1>2, <1>4, <1>6, <1>7 DEF IndentIInv

\* Shift-Tab.
LEMMA ShiftTabKeeps == ASSUME IndentIInv, Indent!ShiftTab PROVE IndentIInv'
<1>1. Placed
  BY DEF IndentIInv
<1>2. /\ spaces' = [row \in Indent!Lines |-> IF row \in Indent!SelectedLines
                      THEN IF spaces[row] > IndentWidth THEN spaces[row] - IndentWidth ELSE 0
                      ELSE spaces[row]]
      /\ Indent!SelectLines(Indent!First(Indent!SelectedLines), Indent!Final(Indent!SelectedLines))
      /\ key' = "unindent" /\ previous' = spaces /\ lineTexts' = lineTexts
  BY DEF Indent!ShiftTab, Indent!Press
<1>3. spaces' \in [Indent!Lines -> 0 .. MaxSpaces]
  <2>1. \A row \in Indent!Lines : spaces[row] \in Nat /\ spaces[row] <= MaxSpaces
    BY <1>1, LinesType DEF Placed
  <2>2. \A row \in Indent!Lines : spaces'[row] \in 0 .. MaxSpaces
    BY <1>2, <2>1, IndentAssumption
  <2> QED
    BY <1>2, <2>2
<1>4. Placed'
  BY <1>1, <1>2, <1>3, LinesSelected
<1>5. Indent!Lines' = Indent!Lines
  BY <1>2 DEF Indent!Lines
<1>6. previous' \in [Indent!Lines' -> 0 .. MaxSpaces]
  BY <1>1, <1>2, <1>5 DEF Placed
<1> QED
  BY <1>2, <1>4, <1>6 DEF IndentIInv

\* BackSpace.
LEMMA BackSpaceKeeps == ASSUME IndentIInv, Indent!BackSpace PROVE IndentIInv'
<1>0. PICK line \in Indent!Lines : insert[1] = line
  BY MarksType DEF IndentIInv
<1> DEFINE from == Stop(insert[2])
           width == insert[2] - from
           n == spaces[line] - width
<1>1. Placed
  BY DEF IndentIInv
<1>2. line \in Indent!Lines /\ insert[2] \in Nat /\ spaces[line] \in Nat /\ spaces[line] <= MaxSpaces
      /\ bound = <<bound[1], bound[2]>> /\ bound[1] \in Indent!Lines
      /\ bound[2] \in Nat /\ bound[2] <= Indent!LineEnd(bound[1])
  BY <1>1, MarksType, LinesType DEF Placed
<1>3. /\ insert[2] > 0 /\ insert[2] <= spaces[line]
      /\ spaces' = [spaces EXCEPT ![line] = n]
      /\ insert' = <<line, from>>
      /\ bound' = IF bound[1] # line \/ bound[2] <= from THEN bound
                  ELSE IF bound[2] >= insert[2] THEN <<bound[1], bound[2] - width>> ELSE insert'
      /\ key' = "backspace" /\ previous' = spaces /\ lineTexts' = lineTexts
  BY <1>0 DEF Indent!BackSpace, Indent!Press, Stop
<1>4. from \in Nat /\ from < insert[2] /\ width \in 1 .. IndentWidth /\ AtStop(from)
  BY <1>2, <1>3, LastStop
<1> HIDE DEF from
<1>5. IndentWidth \in Nat /\ MaxSpaces \in Nat
  BY IndentAssumption
<1>6. width \in Nat /\ width > 0 /\ width <= spaces[line]
  BY <1>2, <1>3, <1>4, <1>5
<1>7. n \in 0 .. MaxSpaces
  BY <1>2, <1>5, <1>6
<1>8. /\ Indent!Lines' = Indent!Lines
      /\ spaces' \in [Indent!Lines -> 0 .. MaxSpaces] /\ spaces'[line] = n
      /\ \A other \in Indent!Lines \ {line} : Indent!LineEnd(other)' = Indent!LineEnd(other)
  BY <1>1, <1>2, <1>3, <1>7, LineChanges
<1>9. PICK room \in 0 .. 1 : Indent!LineEnd(line) = spaces[line] + room /\ Indent!LineEnd(line)' = n + room
  BY <1>2, <1>3, <1>8, EndMoves
<1>10. from <= Indent!LineEnd(line)'
  BY <1>2, <1>3, <1>4, <1>7, <1>9
<1>11. IsPlace(insert)'
  <2>1. \E row \in Indent!Lines', c \in Nat : insert' = <<row, c>> /\ c <= Indent!LineEnd(row)'
    BY <1>2, <1>3, <1>4, <1>8, <1>10
  <2> QED
    BY <2>1 DEF IsPlace
<1>12. IsPlace(bound)'
  <2>1. CASE bound[1] # line
    <3>1. \E row \in Indent!Lines', c \in Nat : bound' = <<row, c>> /\ c <= Indent!LineEnd(row)'
      <4>1. PICK other \in Indent!Lines \ {line} : bound[1] = other
        BY <1>2, <2>1
      <4>2. bound' = <<other, bound[2]>> /\ bound[2] <= Indent!LineEnd(other)'
        BY <1>2, <1>3, <1>8, <4>1
      <4> QED
        BY <1>2, <1>8, <4>2
    <3> QED
      BY <3>1 DEF IsPlace
  <2>2. CASE bound[1] = line /\ bound[2] <= from
    <3>1. bound' = <<line, bound[2]>> /\ bound[2] <= Indent!LineEnd(line)'
      <4>1. bound' = <<line, bound[2]>>
        BY <1>2, <1>3, <2>2
      <4>2. Indent!LineEnd(line)' \in Nat
        BY <1>7, <1>9
      <4> QED
        BY <1>2, <1>4, <1>10, <2>2, <4>1, <4>2
    <3>2. \E row \in Indent!Lines', c \in Nat : bound' = <<row, c>> /\ c <= Indent!LineEnd(row)'
      BY <1>2, <1>8, <3>1
    <3> QED
      BY <3>2 DEF IsPlace
  <2>3. CASE bound[1] = line /\ ~(bound[2] <= from) /\ bound[2] >= insert[2]
    <3>1. bound' = <<line, bound[2] - width>>
      BY <1>3, <2>3
    <3>2. bound[2] <= spaces[line] + room
      BY <1>2, <1>9, <2>3
    <3>3. bound[2] - width \in Nat /\ bound[2] - width <= Indent!LineEnd(line)'
      BY <1>2, <1>4, <1>6, <1>9, <2>3, <3>2
    <3>4. \E row \in Indent!Lines', c \in Nat : bound' = <<row, c>> /\ c <= Indent!LineEnd(row)'
      BY <1>2, <1>8, <3>1, <3>3
    <3> QED
      BY <3>4 DEF IsPlace
  <2>4. CASE bound[1] = line /\ ~(bound[2] <= from) /\ ~(bound[2] >= insert[2])
    <3>1. bound' = insert'
      BY <1>3, <2>4
    <3> QED
      BY <1>11, <3>1 DEF IsPlace
  <2> QED
    BY <2>1, <2>2, <2>3, <2>4
<1>13. Placed'
  BY <1>1, <1>3, <1>8, <1>11, <1>12 DEF Placed
<1>14. AtStop(insert[2])'
  BY <1>3, <1>4 DEF AtStop
<1>15. previous' = [spaces' EXCEPT ![insert'[1]] = @ + width]
  <2>1. spaces \in [Indent!Lines -> 0 .. MaxSpaces]
    BY <1>1 DEF Placed
  <2>2. spaces[line] = n + width
    BY <1>2, <1>6
  <2>3. insert'[1] = line
    BY <1>3
  <2> HIDE DEF n, width
  <2>4. spaces = [spaces' EXCEPT ![line] = @ + width]
    BY <1>2, <1>3, <2>1, <2>2
  <2> QED
    BY <1>3, <2>3, <2>4
<1>16. previous' \in [Indent!Lines' -> 0 .. MaxSpaces]
  BY <1>1, <1>3, <1>8 DEF Placed
<1> QED
  BY <1>3, <1>4, <1>13, <1>14, <1>15, <1>16 DEF IndentIInv

\* Home.
LEMMA HomeKeeps == ASSUME IndentIInv, Indent!Home PROVE IndentIInv'
<1>1. Placed
  BY DEF IndentIInv
<1>2. /\ insert' = <<insert[1], IF insert[2] = 0 THEN spaces[insert[1]] ELSE 0>> /\ bound' = insert'
      /\ key' = "home" /\ previous' = spaces /\ lineTexts' = lineTexts /\ spaces' = spaces
  BY DEF Indent!Home, Indent!Press
<1>3. Indent!Lines' = Indent!Lines
  BY <1>2 DEF Indent!Lines
<1>4. insert[1] \in Indent!Lines
  BY <1>1, MarksType
<1>5. Indent!LineEnd(insert[1])' = Indent!LineEnd(insert[1])
  BY <1>2, Zenon DEF Indent!LineEnd
<1>6. spaces[insert[1]] \in Nat /\ spaces[insert[1]] <= Indent!LineEnd(insert[1])
      /\ 0 <= Indent!LineEnd(insert[1])
  BY <1>1, <1>4, LinesType DEF Placed
<1>7. IsPlace(insert)' /\ IsPlace(bound)'
  <2>1. PICK column \in Nat : insert' = <<insert[1], column>> /\ column <= Indent!LineEnd(insert[1])
    BY <1>2, <1>6
  <2>2. \E line \in Indent!Lines', c \in Nat : insert' = <<line, c>> /\ c <= Indent!LineEnd(line)'
    BY <1>3, <1>4, <1>5, <2>1
  <2> QED
    BY <1>2, <2>2 DEF IsPlace
<1>8. Placed'
  BY <1>1, <1>2, <1>3, <1>7 DEF Placed
<1>9. previous' \in [Indent!Lines' -> 0 .. MaxSpaces]
  BY <1>1, <1>2, <1>3 DEF Placed
<1> QED
  BY <1>2, <1>8, <1>9 DEF IndentIInv

\* A key that does nothing.
LEMMA BeepKeeps == ASSUME IndentIInv, Indent!Beep PROVE IndentIInv'
<1>1. Placed
  BY DEF IndentIInv
<1>2. /\ key' = "beep" /\ previous' = spaces /\ UNCHANGED <<lineTexts, spaces, insert, bound>>
  BY DEF Indent!Beep, Indent!Press
<1>3. Placed' /\ Indent!Lines' = Indent!Lines
  BY <1>1, <1>2 DEF Placed, IsPlace, Indent!Lines, Indent!LineEnd
<1>4. previous' \in [Indent!Lines' -> 0 .. MaxSpaces]
  BY <1>1, <1>2, <1>3 DEF Placed
<1> QED
  BY <1>2, <1>3, <1>4 DEF IndentIInv

\* The invariant holds at the start, and every step keeps it.
LEMMA IndentInit == Indent!Init => IndentIInv
<1> SUFFICES ASSUME Indent!Init PROVE IndentIInv
  OBVIOUS
<1>1. /\ lineTexts \in LineTexts /\ spaces \in [Indent!Lines -> 0 .. MaxSpaces]
      /\ insert \in UNION {Indent!Places(row) : row \in Indent!Lines}
      /\ bound \in UNION {Indent!Places(row) : row \in Indent!Lines}
      /\ key = "none" /\ previous = spaces
  BY DEF Indent!Init
<1>2. Placed
  BY <1>1, PlacesType DEF Placed
<1> QED
  BY <1>1, <1>2 DEF IndentIInv

\* Every step keeps it.
LEMMA IndentStep == IndentIInv /\ [Indent!Next]_(Indent!vars) => IndentIInv'
<1> SUFFICES ASSUME IndentIInv, [Indent!Next]_(Indent!vars) PROVE IndentIInv'
  OBVIOUS
<1>1. CASE UNCHANGED Indent!vars
  <2>1. UNCHANGED <<spaces, lineTexts, insert, bound, key, previous>>
    BY <1>1 DEF Indent!vars
  <2> QED
    BY <2>1 DEF IndentIInv, Placed, IsPlace, Indent!Lines, Indent!LineEnd, Indent!SelectedLines, Indent!Before
<1> QED
  BY <1>1, TabStopKeeps, TabLinesKeeps, ShiftTabKeeps, BeepKeeps, BackSpaceKeeps, HomeKeeps DEF Indent!Next

\* The invariant is more than the types.
LEMMA IndentTypeOK == IndentIInv => Indent!TypeOK
  BY PlacesType DEF IndentIInv, Placed, Indent!TypeOK

\* Selected lines that are not blank are moved by the same width: one that has less than that
\* loses the selection instead.
LEMMA BlocksStay ==
  ASSUME IndentIInv, Indent!Next, key' \in {"indent", "unindent"},
         NEW row \in Indent!SelectedLines, NEW m \in Indent!SelectedLines,
         ~Indent!Blank(row), ~Indent!Blank(m)
  PROVE  spaces'[row] - spaces[row] = spaces'[m] - spaces[m]
<1>0. Placed
  BY DEF IndentIInv
<1>1. row \in Indent!Lines /\ m \in Indent!Lines
  BY <1>0, SelectionType, LinesType DEF Placed
<1>2. spaces[row] \in Nat /\ spaces[m] \in Nat /\ IndentWidth \in Nat
  BY <1>0, <1>1, LinesType, IndentAssumption DEF Placed
<1>3. CASE Indent!TabLines
  <2>1. spaces' = [n \in Indent!Lines |-> IF n \in Indent!SelectedLines THEN spaces[n] + IndentWidth
                                          ELSE spaces[n]]
    BY <1>3 DEF Indent!TabLines
  <2> QED
    BY <1>1, <1>2, <2>1
<1>4. CASE Indent!ShiftTab
  <2>1. /\ \A n \in Indent!SelectedLines : ~Indent!Blank(n) => spaces[n] >= IndentWidth
        /\ spaces' = [n \in Indent!Lines |-> IF n \in Indent!SelectedLines
                        THEN IF spaces[n] > IndentWidth THEN spaces[n] - IndentWidth ELSE 0
                        ELSE spaces[n]]
    BY <1>4 DEF Indent!ShiftTab
  <2>2. spaces[row] >= IndentWidth /\ spaces[m] >= IndentWidth
    BY <2>1
  <2> QED
    BY <1>1, <1>2, <2>1, <2>2
<1> QED
  BY <1>3, <1>4 DEF Indent!Next, Indent!TabStop, Indent!Beep, Indent!BackSpace, Indent!Home, Indent!Press

\* Shift-Tab takes back from the lines what Tab gave them.
LEMMA ShiftTabUndoes ==
  ASSUME IndentIInv, Indent!Next, key = "indent", key' = "unindent"
  PROVE  spaces' = previous
<1>0. Placed /\ previous \in [Indent!Lines -> 0 .. MaxSpaces]
  BY DEF IndentIInv
<1>1. Indent!ShiftTab
  BY DEF Indent!Next, Indent!TabStop, Indent!TabLines, Indent!Beep, Indent!BackSpace, Indent!Home, Indent!Press
<1>2. spaces' = [n \in Indent!Lines |-> IF n \in Indent!SelectedLines
                        THEN IF spaces[n] > IndentWidth THEN spaces[n] - IndentWidth ELSE 0
                        ELSE spaces[n]]
  BY <1>1 DEF Indent!ShiftTab
<1>3. spaces = [n \in Indent!Lines |-> IF n \in Indent!SelectedLines THEN previous[n] + IndentWidth
                                       ELSE previous[n]]
  BY DEF IndentIInv
<1>4. IndentWidth \in Nat /\ IndentWidth > 0 /\ \A n \in Indent!Lines : previous[n] \in Nat
  BY <1>0, IndentAssumption
<1>5. \A n \in Indent!Lines : spaces'[n] = previous[n]
  BY <1>2, <1>3, <1>4
<1> QED
  BY <1>0, <1>2, <1>5

\* BackSpace takes back what Tab gave, and Tab gives back what it took.
LEMMA BackSpaceUndoes ==
  ASSUME IndentIInv, Indent!Next
  PROVE  /\ key = "tab" /\ key' = "backspace" =>
              \A row \in Indent!Lines : spaces'[row] <= previous[row] /\ previous[row] - spaces'[row] < IndentWidth
         /\ key = "backspace" /\ key' = "tab" => \A row \in Indent!Lines : spaces'[row] >= previous[row]
<1> DEFINE line == insert[1]
<1>0. Placed /\ previous \in [Indent!Lines -> 0 .. MaxSpaces] /\ spaces \in [Indent!Lines -> 0 .. MaxSpaces]
  BY DEF IndentIInv, Placed
<1>1. IndentWidth \in Nat /\ IndentWidth > 0 /\ insert[2] \in Nat /\ insert[1] \in Indent!Lines
      /\ \A n \in Indent!Lines : previous[n] \in Nat /\ spaces[n] \in Nat
  BY <1>0, MarksType, IndentAssumption
<1>2. ASSUME key = "tab", key' = "backspace", NEW row \in Indent!Lines
      PROVE  spaces'[row] <= previous[row] /\ previous[row] - spaces'[row] < IndentWidth
  <2>1. Indent!BackSpace
    BY <1>2 DEF Indent!Next, Indent!TabStop, Indent!TabLines, Indent!Beep, Indent!ShiftTab, Indent!Home, Indent!Press
  <2>2. PICK width \in 1 .. IndentWidth : spaces = [previous EXCEPT ![line] = @ + width]
    BY <1>2 DEF IndentIInv
  <2>3. insert[2] > 0 /\ AtStop(insert[2])
        /\ spaces' = [spaces EXCEPT ![line] = @ - (insert[2] - Stop(insert[2]))]
    BY <1>2, <2>1 DEF IndentIInv, Indent!BackSpace, Stop
  <2>4. insert[2] - Stop(insert[2]) = IndentWidth
    BY <1>1, <2>3, LastStop
  <2>5. width \in Nat /\ width > 0 /\ width <= IndentWidth
    BY <1>1, <2>2
  <2> HIDE DEF line
  <2>6. spaces' = [spaces EXCEPT ![line] = @ - IndentWidth]
    BY <2>3, <2>4
  <2>7. CASE row = line
    BY <1>0, <1>1, <1>2, <2>2, <2>5, <2>6, <2>7
  <2>8. CASE row # line
    BY <1>0, <1>1, <1>2, <2>2, <2>6, <2>8
  <2> QED
    BY <2>7, <2>8
<1>3. ASSUME key = "backspace", key' = "tab", NEW row \in Indent!Lines
      PROVE  spaces'[row] >= previous[row]
  <2>1. Indent!TabStop
    BY <1>3 DEF Indent!Next, Indent!BackSpace, Indent!TabLines, Indent!Beep, Indent!ShiftTab, Indent!Home, Indent!Press
  <2>2. PICK width \in 1 .. IndentWidth : previous = [spaces EXCEPT ![line] = @ + width]
    BY <1>3 DEF IndentIInv
  <2>3. AtStop(insert[2]) /\ spaces' = [spaces EXCEPT ![line] = @ + (IndentWidth - (insert[2] % IndentWidth))]
    BY <1>3, <2>1 DEF IndentIInv, Indent!TabStop
  <2>4. insert[2] % IndentWidth = 0
    BY <1>1, <2>3, TabStops
  <2>5. width \in Nat /\ width > 0 /\ width <= IndentWidth
    BY <1>1, <2>2
  <2> HIDE DEF line
  <2>6. spaces' = [spaces EXCEPT ![line] = @ + IndentWidth]
    <3>1. IndentWidth - (insert[2] % IndentWidth) = IndentWidth
      BY <1>1, <2>4
    <3> QED
      BY <2>3, <3>1
  <2>7. CASE row = line
    BY <1>0, <1>1, <1>3, <2>2, <2>5, <2>6, <2>7
  <2>8. CASE row # line
    BY <1>0, <1>1, <1>3, <2>2, <2>6, <2>8
  <2> QED
    BY <2>7, <2>8
<1> QED
  BY <1>2, <1>3

\* The three properties of the keys, of any step from a state of the invariant.
LEMMA IndentKeysRight ==
  IndentIInv /\ [Indent!Next]_(Indent!vars) =>
    /\ [key' \in {"indent", "unindent"} =>
          \A row, m \in Indent!SelectedLines :
            ~Indent!Blank(row) /\ ~Indent!Blank(m) => spaces'[row] - spaces[row] = spaces'[m] - spaces[m]]_(Indent!vars)
    /\ [key = "indent" /\ key' = "unindent" => spaces' = previous]_(Indent!vars)
    /\ [/\ key = "tab" /\ key' = "backspace" =>
              \A row \in Indent!Lines : spaces'[row] <= previous[row] /\ previous[row] - spaces'[row] < IndentWidth
        /\ key = "backspace" /\ key' = "tab" =>
              \A row \in Indent!Lines : spaces'[row] >= previous[row]]_(Indent!vars)
<1> SUFFICES ASSUME IndentIInv, Indent!Next
             PROVE  /\ key' \in {"indent", "unindent"} =>
                         \A row, m \in Indent!SelectedLines :
                           ~Indent!Blank(row) /\ ~Indent!Blank(m) => spaces'[row] - spaces[row] = spaces'[m] - spaces[m]
                    /\ key = "indent" /\ key' = "unindent" => spaces' = previous
                    /\ key = "tab" /\ key' = "backspace" =>
                         \A row \in Indent!Lines : spaces'[row] <= previous[row] /\ previous[row] - spaces'[row] < IndentWidth
                    /\ key = "backspace" /\ key' = "tab" =>
                         \A row \in Indent!Lines : spaces'[row] >= previous[row]
  BY DEF Indent!vars
<1> QED
  BY BlocksStay, ShiftTabUndoes, BackSpaceUndoes

\* For any texts and width of indentation: lines that are indented together keep their
\* relative indentation, and Shift-Tab and BackSpace undo Tab.
THEOREM IndentRight ==
  Indent!Spec => /\ []Indent!TypeOK
                 /\ Indent!BlocksStayTogether /\ Indent!ShiftTabUndoesTab /\ Indent!BackSpaceUndoesTab
<1>1. Indent!Spec => []IndentIInv
  BY IndentInit, IndentStep, PTL DEF Indent!Spec
<1>2. Indent!Spec => []Indent!TypeOK
  BY <1>1, IndentTypeOK, PTL
<1>3. Indent!Spec => Indent!ShiftTabUndoesTab
  BY <1>1, IndentKeysRight, PTL DEF Indent!Spec, Indent!ShiftTabUndoesTab
<1>4. Indent!Spec => Indent!BlocksStayTogether
  BY <1>1, IndentKeysRight, PTL DEF Indent!Spec, Indent!BlocksStayTogether
<1>5. Indent!Spec => Indent!BackSpaceUndoesTab
  BY <1>1, IndentKeysRight, PTL DEF Indent!Spec, Indent!BackSpaceUndoesTab
<1> QED
  BY <1>2, <1>3, <1>4, <1>5

-----------------------------------------------------------------------------
(* Automatic parentheses *)

Symbols == Parens!Chars \cup {"(", ")", "dq"}

\* What a text is after some of another is put in it.
LEMMA PutIs ==
  ASSUME NEW S, NEW t \in Seq(S), NEW p \in 0 .. Len(t), NEW w \in Seq(S)
  PROVE  /\ Parens!Put(t, p, w) \in Seq(S) /\ Len(Parens!Put(t, p, w)) = Len(t) + Len(w)
         /\ \A n \in 1 .. Len(t) + Len(w) : Parens!Put(t, p, w)[n] =
              IF n <= p THEN t[n] ELSE IF n <= p + Len(w) THEN w[n - p] ELSE t[n - Len(w)]
<1> DEFINE a == SubSeq(t, 1, p)
           b == SubSeq(t, p + 1, Len(t))
<1>1. a \in Seq(S) /\ Len(a) = p /\ \A n \in 1 .. p : a[n] = t[n]
  BY SubSeqProperties
<1>2. b \in Seq(S) /\ Len(b) = Len(t) - p /\ \A n \in 1 .. Len(t) - p : b[n] = t[p + n]
  BY SubSeqProperties
<1> HIDE DEF a, b
<1>0. Len(t) \in Nat /\ Len(w) \in Nat /\ p \in Nat /\ p <= Len(t)
  BY LenProperties
<1>3. a \o w \in Seq(S) /\ Len(a \o w) = p + Len(w)
      /\ \A n \in 1 .. p + Len(w) : (a \o w)[n] = IF n <= p THEN a[n] ELSE w[n - p]
  <2>1. a \in Seq(S) /\ Len(a) = p
    BY <1>1
  <2> QED
    BY <2>1, ConcatProperties
<1>4. (a \o w) \o b \in Seq(S) /\ Len((a \o w) \o b) = Len(t) + Len(w)
      /\ \A n \in 1 .. Len(t) + Len(w) :
           ((a \o w) \o b)[n] = IF n <= p + Len(w) THEN (a \o w)[n] ELSE b[n - (p + Len(w))]
  <2> DEFINE v == a \o w
  <2>1. v \in Seq(S) /\ Len(v) = p + Len(w) /\ b \in Seq(S) /\ Len(b) = Len(t) - p
    BY <1>2, <1>3
  <2> HIDE DEF v
  <2>2. Len(v) + Len(b) = Len(t) + Len(w)
    BY <1>0, <2>1
  <2>3. v \o b \in Seq(S) /\ Len(v \o b) = Len(t) + Len(w)
        /\ \A n \in 1 .. Len(t) + Len(w) : (v \o b)[n] = IF n <= p + Len(w) THEN v[n] ELSE b[n - (p + Len(w))]
    <3>1. v \o b \in Seq(S) /\ Len(v \o b) = Len(v) + Len(b)
          /\ \A n \in 1 .. Len(v) + Len(b) : (v \o b)[n] = IF n <= Len(v) THEN v[n] ELSE b[n - Len(v)]
      BY <2>1, ConcatProperties
    <3> QED
      BY <2>1, <2>2, <3>1, Zenon
  <2> QED
    BY <2>3 DEF v
<1>5. Parens!Put(t, p, w) = (a \o w) \o b
  BY DEF Parens!Put, a, b
<1>6. ASSUME NEW n \in 1 .. Len(t) + Len(w)
      PROVE  ((a \o w) \o b)[n] = IF n <= p THEN t[n] ELSE IF n <= p + Len(w) THEN w[n - p] ELSE t[n - Len(w)]
  <2>1. CASE n <= p
    BY <1>0, <1>1, <1>3, <1>4, <2>1
  <2>2. CASE ~(n <= p) /\ n <= p + Len(w)
    BY <1>0, <1>3, <1>4, <2>2
  <2>3. CASE ~(n <= p + Len(w))
    <3>1. n - (p + Len(w)) \in 1 .. Len(t) - p /\ p + (n - (p + Len(w))) = n - Len(w) /\ ~(n <= p)
      BY <1>0, <2>3
    <3> QED
      BY <1>2, <1>4, <2>3, <3>1
  <2> QED
    BY <2>1, <2>2, <2>3
<1> QED
  BY <1>4, <1>5, <1>6

\* What a text is after a part of it is taken out.
LEMMA CutIs ==
  ASSUME NEW S, NEW t \in Seq(S), NEW a \in 0 .. Len(t), NEW b \in a .. Len(t)
  PROVE  /\ Parens!Cut(t, a, b) \in Seq(S) /\ Len(Parens!Cut(t, a, b)) = Len(t) - (b - a)
         /\ \A n \in 1 .. Len(t) - (b - a) : Parens!Cut(t, a, b)[n] = IF n <= a THEN t[n] ELSE t[n + (b - a)]
<1> DEFINE u == SubSeq(t, 1, a)
           w == SubSeq(t, b + 1, Len(t))
<1>1. u \in Seq(S) /\ Len(u) = a /\ \A n \in 1 .. a : u[n] = t[n]
  BY SubSeqProperties
<1>2. w \in Seq(S) /\ Len(w) = Len(t) - b /\ \A n \in 1 .. Len(t) - b : w[n] = t[b + n]
  BY SubSeqProperties
<1> HIDE DEF u, w
<1>0. Len(t) \in Nat /\ a \in Nat /\ b \in Nat /\ a <= b /\ b <= Len(t)
  BY LenProperties
<1>3. u \o w \in Seq(S) /\ Len(u \o w) = a + (Len(t) - b)
      /\ \A n \in 1 .. a + (Len(t) - b) : (u \o w)[n] = IF n <= a THEN u[n] ELSE w[n - a]
  <2>1. u \in Seq(S) /\ Len(u) = a /\ w \in Seq(S) /\ Len(w) = Len(t) - b
    BY <1>1, <1>2
  <2> QED
    <3>1. u \o w \in Seq(S) /\ Len(u \o w) = Len(u) + Len(w)
          /\ \A n \in 1 .. Len(u) + Len(w) : (u \o w)[n] = IF n <= Len(u) THEN u[n] ELSE w[n - Len(u)]
      BY <2>1, ConcatProperties
    <3> QED
      BY <2>1, <3>1, Zenon
<1>4. Parens!Cut(t, a, b) = u \o w
  BY DEF Parens!Cut, u, w
<1>5. a + (Len(t) - b) = Len(t) - (b - a)
  BY <1>0
<1>6. ASSUME NEW n \in 1 .. Len(t) - (b - a)
      PROVE  (u \o w)[n] = IF n <= a THEN t[n] ELSE t[n + (b - a)]
  <2>1. CASE n <= a
    BY <1>0, <1>1, <1>3, <1>5, <2>1
  <2>2. CASE ~(n <= a)
    <3>1. n - a \in 1 .. Len(t) - b /\ b + (n - a) = n + (b - a)
      BY <1>0, <2>2
    <3> QED
      BY <1>2, <1>3, <1>5, <2>2, <3>1
  <2> QED
    BY <2>1, <2>2
<1> QED
  BY <1>3, <1>4, <1>5, <1>6

\* With one character.
LEMMA PutOne ==
  ASSUME NEW S, NEW t \in Seq(S), NEW p \in 0 .. Len(t), NEW c \in S
  PROVE  /\ Parens!Put(t, p, <<c>>) \in Seq(S) /\ Len(Parens!Put(t, p, <<c>>)) = Len(t) + 1
         /\ \A n \in 1 .. Len(t) + 1 : Parens!Put(t, p, <<c>>)[n] =
              IF n <= p THEN t[n] ELSE IF n = p + 1 THEN c ELSE t[n - 1]
<1> DEFINE w == <<c>>
           put == Parens!Put(t, p, w)
<1>1. w \in Seq(S) /\ Len(w) = 1 /\ w[1] = c
  OBVIOUS
<1>2. Len(t) \in Nat /\ p \in Nat /\ p <= Len(t)
  BY LenProperties
<1> HIDE DEF w
<1>3. put \in Seq(S) /\ Len(put) = Len(t) + Len(w)
      /\ \A n \in 1 .. Len(t) + Len(w) : put[n] =
           IF n <= p THEN t[n] ELSE IF n <= p + Len(w) THEN w[n - p] ELSE t[n - Len(w)]
  BY <1>1, PutIs
<1> HIDE DEF put
<1>4. put \in Seq(S) /\ Len(put) = Len(t) + 1
      /\ \A n \in 1 .. Len(t) + 1 : put[n] = IF n <= p THEN t[n] ELSE IF n <= p + 1 THEN w[n - p] ELSE t[n - 1]
  BY <1>1, <1>3, Zenon
<1>5. ASSUME NEW n \in 1 .. Len(t) + 1
      PROVE  put[n] = IF n <= p THEN t[n] ELSE IF n = p + 1 THEN c ELSE t[n - 1]
  <2>1. CASE n <= p
    BY <1>4, <2>1
  <2>2. CASE n = p + 1
    <3>1. n - p = 1 /\ ~(n <= p) /\ n <= p + 1
      BY <1>2, <2>2
    <3> QED
      BY <1>1, <1>4, <2>2, <3>1
  <2>3. CASE n > p + 1
    <3>1. ~(n <= p) /\ ~(n <= p + 1) /\ n # p + 1
      BY <1>2, <2>3
    <3> QED
      BY <1>4, <3>1
  <2> QED
    BY <1>2, <2>1, <2>2, <2>3
<1> QED
  BY <1>4, <1>5 DEF put, w

\* The same of a single character.
LEMMA CutOne ==
  ASSUME NEW S, NEW t \in Seq(S), NEW a \in 0 .. Len(t) - 1
  PROVE  /\ Parens!Cut(t, a, a + 1) \in Seq(S) /\ Len(Parens!Cut(t, a, a + 1)) = Len(t) - 1
         /\ \A n \in 1 .. Len(t) - 1 : Parens!Cut(t, a, a + 1)[n] = IF n <= a THEN t[n] ELSE t[n + 1]
<1> DEFINE b == a + 1
           cut == Parens!Cut(t, a, b)
<1>1. Len(t) \in Nat
  BY LenProperties
<1>2. a \in 0 .. Len(t) /\ b \in a .. Len(t) /\ b - a = 1
  BY <1>1
<1> HIDE DEF b
<1>3. cut \in Seq(S) /\ Len(cut) = Len(t) - (b - a)
      /\ \A n \in 1 .. Len(t) - (b - a) : cut[n] = IF n <= a THEN t[n] ELSE t[n + (b - a)]
  BY <1>2, CutIs
<1> HIDE DEF cut
<1>4. cut \in Seq(S) /\ Len(cut) = Len(t) - 1
      /\ \A n \in 1 .. Len(t) - 1 : cut[n] = IF n <= a THEN t[n] ELSE t[n + 1]
  BY <1>2, <1>3, Zenon
<1> QED
  BY <1>4 DEF cut, b

-----------------------------------------------------------------------------
\* What the parentheses are made of: types.
ParensTyped ==
  /\ source \in Seq(Symbols) /\ Len(source) <= MaxParenText + 4
  /\ sourceInsert \in 0 .. Len(source) /\ mark \in 0 .. Len(source)
  /\ watching \in BOOLEAN /\ last \in {"none", "refused", "undone"}
  /\ cur_prefix \in Parens!prefixes \cup {<<>>}

\* There is what may stand after the prefix: the parenthesis, with or without the quotes.
ClosingAt(s, n) ==
  /\ n <= Len(s)
  /\ s[n] # ")" => n + 2 <= Len(s) /\ s[n] = "dq" /\ s[n + 1] = "dq" /\ s[n + 2] = ")"

\* While the buffer is watched: the parentheses are around the prefix, and the text if they
\* had not been added is the rest, with a space for the first and nothing for the character
\* after the prefix.
Watched ==
  /\ source[mark + 1] = "(" /\ ClosingAt(source, mark + Len(cur_prefix) + 2)
  /\ \A n \in 1 .. Len(cur_prefix) : source[mark + 1 + n] = cur_prefix[n]
  /\ plain \in Seq(Symbols) /\ Len(plain) = Len(source) - 1
  /\ \A n \in 1 .. Len(source) - 1 :
       plain[n] = IF n = mark + 1 THEN "space"
                  ELSE IF n <= mark + Len(cur_prefix) + 1 THEN source[n] ELSE source[n + 1]

ParensIInv ==
  /\ ParensTyped
  /\ watching => Watched
  /\ last = "undone" => source = plain
  /\ last = "refused" => mark = sourceInsert /\ ~watching

\* What cur_prefix may be: the start of an undo string.
LEMMA PrefixType ==
  ASSUME NEW pre \in Parens!prefixes \cup {<<>>}
  PROVE  /\ pre \in Seq(Parens!Chars) /\ Len(pre) \in Nat
         /\ pre # <<>> => /\ Len(pre) > 0
                         /\ SubSeq(pre, 1, Len(pre) - 1) \in Parens!prefixes \cup {<<>>}
                         /\ Len(SubSeq(pre, 1, Len(pre) - 1)) = Len(pre) - 1
                         /\ \A n \in 1 .. Len(pre) - 1 : SubSeq(pre, 1, Len(pre) - 1)[n] = pre[n]
<1>1. CASE pre = <<>>
  BY <1>1
<1>2. CASE pre \in Parens!prefixes
  <2>0. PICK s \in UndoStrings : pre \in {SubSeq(s, 1, m) : m \in 1 .. Len(s) - 1}
    BY <1>2 DEF Parens!prefixes
  <2>1. PICK m \in 1 .. Len(s) - 1 : pre = SubSeq(s, 1, m)
    BY <2>0
  <2>2. s \in Seq(Parens!Chars) /\ Len(s) \in Nat
    BY ParensAssumption
  <2>3. pre \in Seq(Parens!Chars) /\ Len(pre) = m /\ \A n \in 1 .. m : pre[n] = s[n]
    BY <2>1, <2>2, SubSeqProperties
  <2>4. m \in Nat /\ m > 0 /\ m - 1 \in Int
    BY <2>2
  <2> DEFINE less == SubSeq(pre, 1, m - 1)
             short == SubSeq(s, 1, m - 1)
  <2>5. less \in Seq(Parens!Chars) /\ Len(less) = m - 1 /\ \A n \in 1 .. m - 1 : less[n] = pre[n]
    BY <2>3, <2>4, SubSeqProperties
  <2>6. short \in Seq(Parens!Chars) /\ Len(short) = m - 1 /\ \A n \in 1 .. m - 1 : short[n] = s[n]
    BY <2>2, <2>4, SubSeqProperties
  <2>7. less = short
    <3> HIDE DEF less, short
    <3>1. \A n \in 1 .. Len(less) : less[n] = short[n]
      BY <2>3, <2>4, <2>5, <2>6
    <3> QED
      BY <2>5, <2>6, <3>1, SeqEqual
  <2>8. less \in Parens!prefixes \cup {<<>>}
    <3>1. CASE m = 1
      <4>1. less = <<>>
        BY <3>1, SubSeqEmpty
      <4> QED
        BY <4>1
    <3>2. CASE m # 1
      <4>1. m - 1 \in 1 .. Len(s) - 1
        BY <2>2, <3>2
      <4> QED
        BY <2>7, <4>1 DEF Parens!prefixes
    <3> QED
      BY <3>1, <3>2
  <2> QED
    BY <2>3, <2>4, <2>5, <2>8
<1> QED
  BY <1>1, <1>2

\* The numbers.
LEMMA ParensNumbers ==
  ASSUME ParensTyped
  PROVE  /\ source \in Seq(Symbols) /\ Len(source) \in Nat /\ mark \in Nat /\ sourceInsert \in Nat
         /\ mark <= Len(source) /\ sourceInsert <= Len(source)
         /\ Len(cur_prefix) \in Nat /\ cur_prefix \in Seq(Parens!Chars)
<1>1. source \in Seq(Symbols) /\ mark \in 0 .. Len(source) /\ sourceInsert \in 0 .. Len(source)
      /\ cur_prefix \in Parens!prefixes \cup {<<>>}
  BY DEF ParensTyped
<1>2. Len(source) \in Nat
  BY <1>1, LenProperties
<1> QED
  BY <1>1, <1>2, PrefixType

\* With the parentheses around the prefix, undoing them gives the text without them.
LEMMA UndoneIs ==
  ASSUME ParensTyped, Watched
  PROVE  Parens!Undone = plain
<1> DEFINE close == mark + Len(cur_prefix) + 1
           once == Parens!Cut(source, close, close + 1)
           twice == Parens!Cut(once, mark, mark + 1)
           back == Parens!Put(twice, mark, <<"space">>)
           N == Len(source)
<1>1. source \in Seq(Symbols) /\ N \in Nat /\ mark \in Nat /\ Len(cur_prefix) \in Nat
  BY ParensNumbers
<1>2. close + 1 <= N /\ close \in Nat /\ mark < close
  BY <1>1 DEF Watched, ClosingAt
<1> HIDE DEF N, close
<1>3. once \in Seq(Symbols) /\ Len(once) = N - 1
      /\ \A n \in 1 .. N - 1 : once[n] = IF n <= close THEN source[n] ELSE source[n + 1]
  <2>1. close \in 0 .. Len(source) - 1
    BY <1>1, <1>2 DEF N
  <2> QED
    BY <1>1, <2>1, CutOne DEF N
<1> HIDE DEF once
<1>4. twice \in Seq(Symbols) /\ Len(twice) = N - 2
      /\ \A n \in 1 .. N - 2 : twice[n] = IF n <= mark THEN once[n] ELSE once[n + 1]
  <2>1. mark \in 0 .. Len(once) - 1 /\ Len(once) - 1 = N - 2
    BY <1>1, <1>2, <1>3
  <2>2. once \in Seq(Symbols)
    BY <1>3
  <2>3. twice \in Seq(Symbols) /\ Len(twice) = Len(once) - 1
        /\ \A n \in 1 .. Len(once) - 1 : twice[n] = IF n <= mark THEN once[n] ELSE once[n + 1]
    BY <2>1, <2>2, CutOne
  <2> HIDE DEF twice
  <2> QED
    BY <2>1, <2>3, Zenon
<1> HIDE DEF twice
<1>5. "space" \in Symbols
  BY DEF Symbols, Parens!Chars
<1>6. back \in Seq(Symbols) /\ Len(back) = N - 1
      /\ \A n \in 1 .. N - 1 : back[n] = IF n <= mark THEN twice[n] ELSE IF n = mark + 1 THEN "space" ELSE twice[n - 1]
  <2>1. mark \in 0 .. Len(twice) /\ Len(twice) + 1 = N - 1
    BY <1>1, <1>2, <1>4
  <2>2. back \in Seq(Symbols) /\ Len(back) = Len(twice) + 1
        /\ \A n \in 1 .. Len(twice) + 1 :
             back[n] = IF n <= mark THEN twice[n] ELSE IF n = mark + 1 THEN "space" ELSE twice[n - 1]
    BY <1>4, <1>5, <2>1, PutOne
  <2> HIDE DEF back
  <2> QED
    BY <2>1, <2>2, Zenon
<1> HIDE DEF back
<1>7. plain \in Seq(Symbols) /\ Len(plain) = N - 1
      /\ \A n \in 1 .. N - 1 : plain[n] = IF n = mark + 1 THEN "space" ELSE IF n <= close THEN source[n] ELSE source[n + 1]
  BY DEF Watched, N, close
<1>8. ASSUME NEW n \in 1 .. N - 1 PROVE back[n] = plain[n]
  <2>1. CASE n <= mark
    <3>1. n \in 1 .. N - 2 /\ n # mark + 1 /\ n <= close
      BY <1>1, <1>2, <2>1
    <3> QED
      BY <1>3, <1>4, <1>6, <1>7, <2>1, <3>1
  <2>2. CASE n = mark + 1
    <3>1. ~(n <= mark)
      BY <1>1, <2>2
    <3> QED
      BY <1>6, <1>7, <2>2, <3>1
  <2>3. CASE n > mark + 1
    <3>1. n - 1 \in 1 .. N - 2 /\ ~(n <= mark) /\ ~(n - 1 <= mark) /\ n # mark + 1 /\ (n - 1) + 1 = n
      BY <1>1, <1>2, <2>3
    <3>2. back[n] = once[n]
      BY <1>4, <1>6, <3>1
    <3> QED
      BY <1>3, <1>7, <3>1, <3>2
  <2> QED
    BY <1>1, <2>1, <2>2, <2>3
<1>9. back = plain
  <2>1. \A n \in 1 .. Len(back) : back[n] = plain[n]
    BY <1>6, <1>8
  <2>2. back \in Seq(Symbols) /\ plain \in Seq(Symbols) /\ Len(back) = Len(plain)
    BY <1>6, <1>7
  <2> QED
    BY <2>1, <2>2, SeqEqual
<1> QED
  BY <1>9, Zenon DEF Parens!Undone, back, twice, once, close

\* A character of the prefix is put after the others, or taken from their end.
LEMMA WatchedInsert ==
  ASSUME ParensTyped, Watched, NEW c \in Parens!Chars,
         source' = Parens!Put(source, mark + Len(cur_prefix) + 1, <<c>>), mark' = mark,
         cur_prefix' = Append(cur_prefix, c),
         plain' = Parens!Put(plain, mark + Len(cur_prefix) + 1, <<c>>)
  PROVE  Watched'
<1> DEFINE at == mark + Len(cur_prefix) + 1
           N == Len(source)
           k == Len(cur_prefix)
<1>1. source \in Seq(Symbols) /\ N \in Nat /\ mark \in Nat /\ k \in Nat /\ cur_prefix \in Seq(Parens!Chars)
  BY ParensNumbers
<1>2. /\ at + 1 <= N /\ source[mark + 1] = "(" /\ ClosingAt(source, at + 1)
      /\ \A n \in 1 .. k : source[mark + 1 + n] = cur_prefix[n]
      /\ plain \in Seq(Symbols) /\ Len(plain) = N - 1
      /\ \A n \in 1 .. N - 1 :
           plain[n] = IF n = mark + 1 THEN "space" ELSE IF n <= at THEN source[n] ELSE source[n + 1]
  <2>1. mark + Len(cur_prefix) + 2 = at + 1
    BY <1>1
  <2>2. ClosingAt(source, at + 1)
    BY <2>1 DEF Watched
  <2>3. at + 1 <= N
    BY <2>2 DEF ClosingAt
  <2> QED
    BY <2>2, <2>3 DEF Watched
<1>3. at = mark + k + 1
  OBVIOUS
<1>4. source' = Parens!Put(source, at, <<c>>) /\ plain' = Parens!Put(plain, at, <<c>>)
  OBVIOUS
<1> HIDE DEF N, k, at
<1>5. c \in Symbols /\ at \in 0 .. N /\ at \in 0 .. N - 1 /\ (N - 1) + 1 = N
  BY <1>1, <1>2, <1>3 DEF Symbols
<1>6. source' \in Seq(Symbols) /\ Len(source') = N + 1
      /\ \A n \in 1 .. N + 1 : source'[n] = IF n <= at THEN source[n] ELSE IF n = at + 1 THEN c ELSE source[n - 1]
  <2> DEFINE put == Parens!Put(source, at, <<c>>)
  <2>1. put \in Seq(Symbols) /\ Len(put) = N + 1
        /\ \A n \in 1 .. N + 1 : put[n] = IF n <= at THEN source[n] ELSE IF n = at + 1 THEN c ELSE source[n - 1]
    <3>1. source \in Seq(Symbols) /\ c \in Symbols /\ at \in 0 .. Len(source)
      BY <1>1, <1>5 DEF N
    <3>2. put \in Seq(Symbols) /\ Len(put) = Len(source) + 1
          /\ \A n \in 1 .. Len(source) + 1 :
               put[n] = IF n <= at THEN source[n] ELSE IF n = at + 1 THEN c ELSE source[n - 1]
      BY <3>1, PutOne
    <3> HIDE DEF put
    <3> QED
      BY <3>2, Zenon DEF N
  <2>2. source' = put
    BY <1>4
  <2> HIDE DEF put
  <2> QED
    BY <2>1, <2>2
<1>7. plain' \in Seq(Symbols) /\ Len(plain') = N
      /\ \A n \in 1 .. N : plain'[n] = IF n <= at THEN plain[n] ELSE IF n = at + 1 THEN c ELSE plain[n - 1]
  <2> DEFINE put == Parens!Put(plain, at, <<c>>)
  <2>0. at \in 0 .. Len(plain)
    BY <1>2, <1>5
  <2>1. put \in Seq(Symbols) /\ Len(put) = Len(plain) + 1
        /\ \A n \in 1 .. Len(plain) + 1 :
             put[n] = IF n <= at THEN plain[n] ELSE IF n = at + 1 THEN c ELSE plain[n - 1]
    BY <1>2, <1>5, <2>0, PutOne
  <2>2. plain' = put
    BY <1>4
  <2>3. Len(plain) + 1 = N
    BY <1>2, <1>5
  <2> HIDE DEF put
  <2> QED
    BY <2>1, <2>2, <2>3, Zenon
<1>8. Len(cur_prefix') = k + 1 /\ cur_prefix'[k + 1] = c /\ \A n \in 1 .. k : cur_prefix'[n] = cur_prefix[n]
  BY <1>1, AppendProperties DEF k
<1>9. mark' + Len(cur_prefix') + 2 = at + 2 /\ mark' + Len(cur_prefix') + 1 = at + 1
  BY <1>1, <1>3, <1>8
<1>10. at + 2 <= Len(source')
  BY <1>1, <1>2, <1>3, <1>6
<1>11. source'[mark' + 1] = "(" /\ ClosingAt(source', at + 2)
  <2>1. mark + 1 \in 1 .. N + 1 /\ mark + 1 <= at
    BY <1>1, <1>2, <1>3
  <2>2. ASSUME NEW n \in Nat, at + 2 <= n, n <= N + 1 PROVE source'[n] = source[n - 1]
    <3>1. n \in 1 .. N + 1 /\ ~(n <= at) /\ n # at + 1
      BY <1>1, <1>3, <2>2
    <3> QED
      BY <1>6, <3>1
  <2>3. ClosingAt(source', at + 2)
    <3>1. /\ at + 2 \in Nat /\ (at + 2) - 1 = at + 1 /\ (at + 2) + 1 \in Nat /\ ((at + 2) + 1) - 1 = (at + 1) + 1
          /\ (at + 2) + 2 \in Nat /\ ((at + 2) + 2) - 1 = (at + 1) + 2 /\ at + 2 <= N + 1
          /\ at + 2 <= at + 2 /\ at + 2 <= (at + 2) + 1 /\ at + 2 <= (at + 2) + 2
      BY <1>1, <1>2, <1>3
    <3>2. source'[at + 2] = source[at + 1]
      BY <2>2, <3>1
    <3>3. ASSUME (at + 1) + 2 <= N
          PROVE  /\ (at + 2) + 2 <= N + 1
                 /\ source'[(at + 2) + 1] = source[(at + 1) + 1] /\ source'[(at + 2) + 2] = source[(at + 1) + 2]
      <4>1. (at + 2) + 2 <= N + 1 /\ (at + 2) + 1 <= N + 1
        BY <1>1, <1>3, <3>3
      <4> QED
        BY <2>2, <3>1, <4>1
    <3> QED
      BY <1>2, <1>6, <3>1, <3>2, <3>3 DEF ClosingAt, N
  <2> QED
    BY <1>2, <1>6, <2>1, <2>3
<1>12. ASSUME NEW n \in 1 .. k + 1 PROVE source'[mark' + 1 + n] = cur_prefix'[n]
  <2>1. CASE n = k + 1
    <3>1. mark + 1 + n = at + 1 /\ at + 1 \in 1 .. N + 1 /\ ~(at + 1 <= at)
      BY <1>1, <1>2, <1>3, <2>1
    <3> QED
      BY <1>6, <1>8, <2>1, <3>1
  <2>2. CASE n # k + 1
    <3>1. n \in 1 .. k /\ mark + 1 + n \in 1 .. N + 1 /\ mark + 1 + n <= at
      BY <1>1, <1>2, <1>3, <2>2
    <3> QED
      BY <1>2, <1>6, <1>8, <3>1
  <2> QED
    BY <2>1, <2>2
<1>13. ASSUME NEW n \in 1 .. N
       PROVE  plain'[n] = IF n = mark' + 1 THEN "space" ELSE IF n <= at + 1 THEN source'[n] ELSE source'[n + 1]
  <2>1. CASE n <= at
    <3>1. n \in 1 .. N - 1 /\ n <= at + 1 /\ n \in 1 .. N + 1
      BY <1>1, <1>2, <1>3, <2>1
    <3> QED
      BY <1>2, <1>6, <1>7, <2>1, <3>1
  <2>2. CASE n = at + 1
    <3>1. ~(n <= at) /\ n # mark + 1 /\ n <= at + 1 /\ n \in 1 .. N + 1
      BY <1>1, <1>2, <1>3, <2>2
    <3> QED
      BY <1>6, <1>7, <2>2, <3>1
  <2>3. CASE n > at + 1
    <3>1. /\ n - 1 \in 1 .. N - 1 /\ ~(n <= at) /\ n # at + 1 /\ n # mark + 1 /\ ~(n <= at + 1)
          /\ ~(n - 1 <= at) /\ n - 1 # mark + 1 /\ (n - 1) + 1 = n
          /\ n + 1 \in 1 .. N + 1 /\ ~(n + 1 <= at) /\ n + 1 # at + 1 /\ (n + 1) - 1 = n
      BY <1>1, <1>2, <1>3, <2>3
    <3>2. plain'[n] = source[n]
      BY <1>2, <1>7, <3>1
    <3>3. source'[n + 1] = source[n]
      BY <1>6, <3>1
    <3> QED
      BY <3>1, <3>2, <3>3
  <2> QED
    BY <1>1, <1>3, <2>1, <2>2, <2>3
<1>14. Len(plain') = Len(source') - 1 /\ Len(source') - 1 = N
  BY <1>1, <1>6, <1>7
<1> QED
  BY <1>7, <1>8, <1>9, <1>10, <1>11, <1>12, <1>13, <1>14, Zenon DEF Watched

\* The same of a character that is taken from the end.
LEMMA WatchedDelete ==
  ASSUME ParensTyped, Watched, cur_prefix # <<>>,
         source' = Parens!Cut(source, mark + Len(cur_prefix), mark + Len(cur_prefix) + 1), mark' = mark,
         cur_prefix' = SubSeq(cur_prefix, 1, Len(cur_prefix) - 1),
         plain' = Parens!Cut(plain, mark + Len(cur_prefix), mark + Len(cur_prefix) + 1)
  PROVE  Watched'
<1> DEFINE at == mark + Len(cur_prefix)
           N == Len(source)
           k == Len(cur_prefix)
<1>1. source \in Seq(Symbols) /\ N \in Nat /\ mark \in Nat /\ k \in Nat /\ k > 0
  BY ParensNumbers, PrefixType DEF ParensTyped
<1>2. /\ at + 2 <= N /\ source[mark + 1] = "(" /\ ClosingAt(source, at + 2)
      /\ \A n \in 1 .. k : source[mark + 1 + n] = cur_prefix[n]
      /\ plain \in Seq(Symbols) /\ Len(plain) = N - 1
      /\ \A n \in 1 .. N - 1 :
           plain[n] = IF n = mark + 1 THEN "space" ELSE IF n <= at + 1 THEN source[n] ELSE source[n + 1]
  BY Zenon DEF Watched, ClosingAt
<1>3. at = mark + k
  OBVIOUS
<1>4. source' = Parens!Cut(source, at, at + 1) /\ plain' = Parens!Cut(plain, at, at + 1)
  OBVIOUS
<1>5. Len(cur_prefix') = k - 1 /\ \A n \in 1 .. k - 1 : cur_prefix'[n] = cur_prefix[n]
  BY PrefixType DEF ParensTyped
<1> HIDE DEF N, k, at
<1>6. source' \in Seq(Symbols) /\ Len(source') = N - 1
      /\ \A n \in 1 .. N - 1 : source'[n] = IF n <= at THEN source[n] ELSE source[n + 1]
  <2>1. at \in 0 .. N - 1
    BY <1>1, <1>2, <1>3
  <2> QED
    BY <1>1, <1>4, <2>1, CutOne DEF N
<1>7. plain' \in Seq(Symbols) /\ Len(plain') = N - 2
      /\ \A n \in 1 .. N - 2 : plain'[n] = IF n <= at THEN plain[n] ELSE plain[n + 1]
  <2>1. at \in 0 .. Len(plain) - 1 /\ Len(plain) - 1 = N - 2
    BY <1>1, <1>2, <1>3
  <2>2. plain' \in Seq(Symbols) /\ Len(plain') = Len(plain) - 1
        /\ \A n \in 1 .. Len(plain) - 1 : plain'[n] = IF n <= at THEN plain[n] ELSE plain[n + 1]
    <3> DEFINE cut == Parens!Cut(plain, at, at + 1)
    <3>1. cut \in Seq(Symbols) /\ Len(cut) = Len(plain) - 1
          /\ \A n \in 1 .. Len(plain) - 1 : cut[n] = IF n <= at THEN plain[n] ELSE plain[n + 1]
      BY <1>2, <2>1, CutOne
    <3>2. plain' = cut
      BY <1>4
    <3> HIDE DEF cut
    <3> QED
      BY <3>1, <3>2, Zenon
  <2> QED
    BY <2>1, <2>2, Zenon
<1>9. mark' + Len(cur_prefix') + 2 = at + 1 /\ mark' + Len(cur_prefix') + 1 = at
  <2>1. Len(cur_prefix') = k - 1 /\ mark' = mark
    BY <1>5
  <2> QED
    <3> DEFINE kk == Len(cur_prefix')
    <3>1. kk = k - 1 /\ mark' = mark
      BY <2>1
    <3> HIDE DEF kk
    <3>2. mark' + kk + 2 = at + 1 /\ mark' + kk + 1 = at
      BY <1>1, <1>3, <3>1
    <3> QED
      BY <3>2, Zenon DEF kk
<1>10. at + 1 <= Len(source')
  BY <1>1, <1>2, <1>3, <1>6
<1>11. source'[mark' + 1] = "(" /\ ClosingAt(source', at + 1)
  <2>1. mark + 1 \in 1 .. N - 1 /\ mark + 1 <= at
    BY <1>1, <1>2, <1>3
  <2>2. ASSUME NEW n \in Nat, at + 1 <= n, n <= N - 1 PROVE source'[n] = source[n + 1]
    <3>1. n \in 1 .. N - 1 /\ ~(n <= at)
      BY <1>1, <1>3, <2>2
    <3> QED
      BY <1>6, <3>1
  <2>3. ClosingAt(source', at + 1)
    <3>1. /\ at + 1 \in Nat /\ (at + 1) + 1 = at + 2 /\ ((at + 1) + 1) + 1 = (at + 2) + 1
          /\ (at + 1) + 1 \in Nat /\ (at + 1) + 2 \in Nat /\ ((at + 1) + 2) + 1 = (at + 2) + 2 /\ at + 1 <= N - 1
          /\ at + 1 <= at + 1 /\ at + 1 <= (at + 1) + 1 /\ at + 1 <= (at + 1) + 2
      BY <1>1, <1>2, <1>3
    <3>2. source'[at + 1] = source[at + 2]
      BY <2>2, <3>1
    <3>3. ASSUME (at + 2) + 2 <= N
          PROVE  /\ (at + 1) + 2 <= N - 1
                 /\ source'[(at + 1) + 1] = source[(at + 2) + 1] /\ source'[(at + 1) + 2] = source[(at + 2) + 2]
      <4>1. (at + 1) + 2 <= N - 1 /\ (at + 1) + 1 <= N - 1
        BY <1>1, <1>3, <3>3
      <4> QED
        BY <2>2, <3>1, <4>1
    <3> QED
      BY <1>2, <1>6, <3>1, <3>2, <3>3 DEF ClosingAt, N
  <2> QED
    BY <1>2, <1>6, <2>1, <2>3
<1>12. ASSUME NEW n \in 1 .. k - 1 PROVE source'[mark' + 1 + n] = cur_prefix'[n]
  <2>1. n \in 1 .. k /\ mark + 1 + n \in 1 .. N - 1 /\ mark + 1 + n <= at
    BY <1>1, <1>2, <1>3
  <2> QED
    BY <1>2, <1>5, <1>6, <2>1
<1>13. ASSUME NEW n \in 1 .. N - 2
       PROVE  plain'[n] = IF n = mark' + 1 THEN "space" ELSE IF n <= at THEN source'[n] ELSE source'[n + 1]
  <2>1. CASE n <= at
    <3>1. n \in 1 .. N - 1 /\ n <= at + 1
      BY <1>1, <1>2, <1>3, <2>1
    <3> QED
      BY <1>2, <1>6, <1>7, <2>1, <3>1
  <2>2. CASE n > at
    <3>1. /\ n + 1 \in 1 .. N - 1 /\ ~(n <= at) /\ n # mark + 1
          /\ ~(n + 1 <= at + 1) /\ n + 1 # mark + 1 /\ ~(n + 1 <= at)
      BY <1>1, <1>2, <1>3, <2>2
    <3>2. plain'[n] = source[n + 1 + 1]
      BY <1>2, <1>7, <3>1
    <3>3. source'[n + 1] = source[n + 1 + 1]
      BY <1>6, <3>1
    <3> QED
      BY <3>1, <3>2, <3>3
  <2> QED
    BY <1>1, <1>3, <2>1, <2>2
<1>14. Len(plain') = Len(source') - 1 /\ Len(source') - 1 = N - 2
  BY <1>1, <1>6, <1>7
<1> QED
  BY <1>5, <1>7, <1>9, <1>10, <1>11, <1>12, <1>13, <1>14, Zenon DEF Watched

\* A character is put somewhere.
LEMMA InsertCharKeeps ==
  ASSUME ParensIInv, NEW c \in Parens!Chars, NEW at \in 0 .. Len(source), Parens!InsertChar(at, c)
  PROVE  ParensIInv'
<1> DEFINE here == at = mark + Len(cur_prefix) + 1
           new_prefix == Append(cur_prefix, c)
           waits == watching /\ here /\ new_prefix \in Parens!prefixes
           undoes == watching /\ here /\ ~waits /\ new_prefix \in UndoStrings
<1>1. /\ source' = Parens!Put(IF undoes THEN Parens!Undone ELSE source, at, <<c>>)
      /\ sourceInsert' = IF undoes THEN Parens!InsertUndone(at) ELSE Parens!Right(sourceInsert, at, 1)
      /\ mark' = Parens!Left(mark, at, 1)
      /\ watching' = waits
      /\ cur_prefix' = IF waits THEN new_prefix ELSE cur_prefix
      /\ plain' = IF waits \/ undoes THEN Parens!Put(plain, at, <<c>>) ELSE <<>>
      /\ last' = IF undoes THEN "undone" ELSE "none"
      /\ Len(source') <= MaxParenText + 4
  BY ParensAssumption DEF Parens!InsertChar
<1>2. ParensTyped /\ (watching => Watched)
  BY DEF ParensIInv
<1>3. source \in Seq(Symbols) /\ Len(source) \in Nat /\ mark \in Nat /\ sourceInsert \in Nat
      /\ mark <= Len(source) /\ sourceInsert <= Len(source) /\ Len(cur_prefix) \in Nat
      /\ at \in Nat /\ at <= Len(source)
  BY <1>2, ParensNumbers
<1>4. c \in Symbols
  BY DEF Symbols
<1>5. CASE waits
  <2>1. source' = Parens!Put(source, at, <<c>>) /\ last' = "none" /\ watching' = TRUE
        /\ cur_prefix' = new_prefix /\ plain' = Parens!Put(plain, at, <<c>>)
        /\ sourceInsert' = Parens!Right(sourceInsert, at, 1)
    BY <1>1, <1>5, Zenon
  <2>2. here /\ new_prefix \in Parens!prefixes /\ Watched
    BY <1>2, <1>5, Zenon
  <2>3. mark' = mark
    BY <1>1, <1>3, <2>2 DEF Parens!Left
  <2>4. source' \in Seq(Symbols) /\ Len(source') = Len(source) + 1
    <3>1. source \in Seq(Symbols) /\ at \in 0 .. Len(source) /\ c \in Symbols
      BY <1>3, <1>4
    <3>2. Parens!Put(source, at, <<c>>) \in Seq(Symbols) /\ Len(Parens!Put(source, at, <<c>>)) = Len(source) + 1
      BY <3>1, PutOne
    <3> QED
      BY <2>1, <3>2
  <2>5. sourceInsert' \in 0 .. Len(source') /\ mark' \in 0 .. Len(source')
    BY <1>3, <2>1, <2>3, <2>4 DEF Parens!Right
  <2>6. ParensTyped'
    BY <1>1, <2>1, <2>2, <2>4, <2>5 DEF ParensTyped
  <2>7. Watched'
    BY <1>2, <2>1, <2>2, <2>3, WatchedInsert
  <2> QED
    BY <2>1, <2>6, <2>7 DEF ParensIInv
<1>6. CASE undoes
  <2>1. source' = Parens!Put(Parens!Undone, at, <<c>>) /\ last' = "undone" /\ watching' = FALSE
        /\ cur_prefix' = cur_prefix /\ plain' = Parens!Put(plain, at, <<c>>)
        /\ sourceInsert' = Parens!InsertUndone(at)
    BY <1>1, <1>6, Zenon
  <2>2. here /\ Watched
    BY <1>2, <1>6, Zenon
  <2>3. Parens!Undone = plain
    BY <1>2, <2>2, UndoneIs
  <2>4. plain \in Seq(Symbols) /\ Len(plain) = Len(source) - 1 /\ at + 1 <= Len(source) /\ mark < at
    BY <1>3, <2>2 DEF Watched, ClosingAt
  <2>5. source' \in Seq(Symbols) /\ Len(source') = Len(source)
    <3>1. at \in 0 .. Len(plain)
      BY <1>3, <2>4
    <3>2. source' \in Seq(Symbols) /\ Len(source') = Len(plain) + 1
      BY <1>4, <2>1, <2>3, <2>4, <3>1, PutOne
    <3> QED
      BY <1>3, <2>4, <3>2
  <2>6. mark' = mark
    BY <1>1, <1>3, <2>4 DEF Parens!Left
  <2>7. sourceInsert' \in 0 .. Len(source')
    BY <1>3, <2>1, <2>4, <2>5 DEF Parens!InsertUndone, Parens!Right, Parens!Closed
  <2>8. ParensTyped'
    BY <1>1, <1>2, <1>3, <2>1, <2>5, <2>6, <2>7 DEF ParensTyped
  <2> QED
    BY <2>1, <2>3, <2>8 DEF ParensIInv
<1>7. CASE ~waits /\ ~undoes
  <2>1. source' = Parens!Put(source, at, <<c>>) /\ last' = "none" /\ watching' = FALSE
        /\ cur_prefix' = cur_prefix /\ sourceInsert' = Parens!Right(sourceInsert, at, 1)
    BY <1>1, <1>7, Zenon
  <2>2. source' \in Seq(Symbols) /\ Len(source') = Len(source) + 1
    <3>1. source \in Seq(Symbols) /\ at \in 0 .. Len(source) /\ c \in Symbols
      BY <1>3, <1>4
    <3>2. Parens!Put(source, at, <<c>>) \in Seq(Symbols) /\ Len(Parens!Put(source, at, <<c>>)) = Len(source) + 1
      BY <3>1, PutOne
    <3> QED
      BY <2>1, <3>2
  <2>3. sourceInsert' \in 0 .. Len(source') /\ mark' \in 0 .. Len(source')
    BY <1>1, <1>3, <2>1, <2>2 DEF Parens!Right, Parens!Left
  <2>4. ParensTyped'
    BY <1>1, <1>2, <2>1, <2>2, <2>3 DEF ParensTyped
  <2> QED
    BY <2>1, <2>4 DEF ParensIInv
<1> QED
  BY <1>5, <1>6, <1>7, Zenon

\* Several characters at once.
LEMMA PasteKeeps == ASSUME ParensIInv, Parens!Paste PROVE ParensIInv'
<1>1. PICK c \in Parens!Chars, at \in 0 .. Len(source) :
        /\ source' = Parens!Put(source, at, <<c, c>>)
        /\ sourceInsert' = Parens!Right(sourceInsert, at, 2)
        /\ mark' = Parens!Left(mark, at, 2)
  BY DEF Parens!Paste
<1>2. watching' = FALSE /\ last' = "none" /\ cur_prefix' = cur_prefix /\ Len(source) + 2 <= MaxParenText
  BY DEF Parens!Paste
<1>3. ParensTyped
  BY DEF ParensIInv
<1>4. source \in Seq(Symbols) /\ Len(source) \in Nat /\ mark \in Nat /\ sourceInsert \in Nat
      /\ mark <= Len(source) /\ sourceInsert <= Len(source)
  BY <1>3, ParensNumbers
<1>5. source' \in Seq(Symbols) /\ Len(source') = Len(source) + 2
  <2> DEFINE w == <<c, c>>
  <2>1. w \in Seq(Symbols) /\ Len(w) = 2
    BY DEF Symbols
  <2>2. source' = Parens!Put(source, at, w)
    BY <1>1
  <2> HIDE DEF w
  <2> QED
    <3>1. Len(Parens!Put(source, at, w)) = Len(source) + Len(w) /\ Parens!Put(source, at, w) \in Seq(Symbols)
      <4>1. source \in Seq(Symbols) /\ w \in Seq(Symbols)
        BY <1>4, <2>1
      <4> QED
        BY <4>1, PutIs
    <3> QED
      BY <2>1, <2>2, <3>1
<1>6. sourceInsert' \in 0 .. Len(source') /\ mark' \in 0 .. Len(source')
  BY <1>1, <1>4, <1>5 DEF Parens!Right, Parens!Left
<1>7. Len(source') <= MaxParenText + 4
  BY <1>2, <1>4, <1>5, ParensAssumption
<1>8. ParensTyped'
  BY <1>2, <1>3, <1>5, <1>6, <1>7 DEF ParensTyped
<1> QED
  BY <1>2, <1>8 DEF ParensIInv

\* A deleted character, or a parenthesis, ends the watch or shortens the prefix.
LEMMA DeleteKeeps == ASSUME ParensIInv, Parens!Delete PROVE ParensIInv'
<1>0. PICK a \in 0 .. Len(source) - 1 : \E b \in a + 1 .. Len(source) :
        LET backspace == watching /\ cur_prefix # <<>> /\ a = mark + Len(cur_prefix) /\ b = a + 1
        IN  /\ source' = Parens!Cut(source, a, b)
            /\ sourceInsert' = Parens!Closed(sourceInsert, a, b)
            /\ mark' = Parens!Closed(mark, a, b)
            /\ watching' = backspace
            /\ cur_prefix' = IF backspace THEN SubSeq(cur_prefix, 1, Len(cur_prefix) - 1) ELSE cur_prefix
            /\ plain' = IF backspace THEN Parens!Cut(plain, a, b) ELSE <<>>
            /\ last' = IF watching /\ cur_prefix = <<>> /\ a = mark /\ sourceInsert = b /\ b = a + 1
                       THEN "refused" ELSE "none"
  BY DEF Parens!Delete
<1>1. PICK b \in a + 1 .. Len(source) :
        LET backspace == watching /\ cur_prefix # <<>> /\ a = mark + Len(cur_prefix) /\ b = a + 1
        IN  /\ source' = Parens!Cut(source, a, b)
            /\ sourceInsert' = Parens!Closed(sourceInsert, a, b)
            /\ mark' = Parens!Closed(mark, a, b)
            /\ watching' = backspace
            /\ cur_prefix' = IF backspace THEN SubSeq(cur_prefix, 1, Len(cur_prefix) - 1) ELSE cur_prefix
            /\ plain' = IF backspace THEN Parens!Cut(plain, a, b) ELSE <<>>
            /\ last' = IF watching /\ cur_prefix = <<>> /\ a = mark /\ sourceInsert = b /\ b = a + 1
                       THEN "refused" ELSE "none"
  BY <1>0
<1> DEFINE backspace == watching /\ cur_prefix # <<>> /\ a = mark + Len(cur_prefix) /\ b = a + 1
           refuses == watching /\ cur_prefix = <<>> /\ a = mark /\ sourceInsert = b /\ b = a + 1
<1>2. /\ source' = Parens!Cut(source, a, b)
      /\ sourceInsert' = Parens!Closed(sourceInsert, a, b)
      /\ mark' = Parens!Closed(mark, a, b)
      /\ watching' = backspace
      /\ cur_prefix' = IF backspace THEN SubSeq(cur_prefix, 1, Len(cur_prefix) - 1) ELSE cur_prefix
      /\ plain' = IF backspace THEN Parens!Cut(plain, a, b) ELSE <<>>
      /\ last' = IF refuses THEN "refused" ELSE "none"
  BY <1>1, Zenon
<1>3. ParensTyped /\ (watching => Watched)
  BY DEF ParensIInv
<1>4. source \in Seq(Symbols) /\ Len(source) \in Nat /\ mark \in Nat /\ sourceInsert \in Nat
      /\ mark <= Len(source) /\ sourceInsert <= Len(source) /\ Len(cur_prefix) \in Nat
      /\ a \in Nat /\ b \in Nat /\ a < b /\ b <= Len(source)
  BY <1>3, ParensNumbers
<1>5. source' \in Seq(Symbols) /\ Len(source') = Len(source) - (b - a)
  <2>1. a \in 0 .. Len(source) /\ b \in a .. Len(source)
    BY <1>4
  <2> QED
    BY <1>2, <1>4, <2>1, CutIs
<1>6. sourceInsert' \in 0 .. Len(source') /\ mark' \in 0 .. Len(source')
  BY <1>2, <1>4, <1>5 DEF Parens!Closed
<1>7. cur_prefix' \in Parens!prefixes \cup {<<>>}
  <2>1. cur_prefix \in Parens!prefixes \cup {<<>>}
    BY <1>3 DEF ParensTyped
  <2>2. CASE backspace
    BY <1>2, <2>1, <2>2, PrefixType
  <2>3. CASE ~backspace
    <3>1. cur_prefix' = cur_prefix
      BY <1>2, <2>3, Zenon
    <3> QED
      BY <2>1, <3>1
  <2> QED
    BY <2>2, <2>3
<1>8. last' \in {"none", "refused", "undone"} /\ last' # "undone"
  BY <1>2
<1>9. watching' \in BOOLEAN
  BY <1>2, <1>3, Zenon DEF ParensTyped
<1>10. Len(source') <= MaxParenText + 4
  <2>1. Len(source) <= MaxParenText + 4 /\ MaxParenText \in Nat
    BY <1>3, ParensAssumption DEF ParensTyped
  <2> QED
    BY <1>4, <1>5, <2>1
<1>11. ParensTyped'
  BY <1>5, <1>6, <1>7, <1>8, <1>9, <1>10 DEF ParensTyped
<1>12. ASSUME watching' PROVE Watched'
  <2>1. backspace
    BY <1>2, <1>12, Zenon
  <2>2. /\ source' = Parens!Cut(source, a, b)
        /\ cur_prefix' = SubSeq(cur_prefix, 1, Len(cur_prefix) - 1)
        /\ plain' = Parens!Cut(plain, a, b)
        /\ a = mark + Len(cur_prefix) /\ b = mark + Len(cur_prefix) + 1
        /\ cur_prefix # <<>> /\ Watched
    BY <1>2, <1>3, <2>1, Zenon
  <2>3. mark' = mark
    BY <1>2, <1>4, <2>2 DEF Parens!Closed
  <2> QED
    BY <1>3, <2>2, <2>3, WatchedDelete
<1>13. ASSUME last' = "refused" PROVE mark' = sourceInsert' /\ ~watching'
  <2>1. refuses
    <3>1. CASE refuses
      BY <3>1
    <3>2. CASE ~refuses
      <4>1. last' = "none"
        BY <1>2, <3>2, Zenon
      <4> QED
        BY <1>13, <4>1
    <3> QED
      BY <3>1, <3>2
  <2>2. ~backspace
    BY <2>1, Zenon
  <2>3. mark' = sourceInsert'
    BY <1>2, <1>4, <2>1 DEF Parens!Closed
  <2> QED
    BY <1>2, <2>2, <2>3, Zenon
<1> QED
  BY <1>8, <1>11, <1>12, <1>13 DEF ParensIInv

\* add_parens().
LEMMA AddParensKeeps == ASSUME ParensIInv, Parens!AddParens PROVE ParensIInv'
<1>1. PICK quotes \in {"none", "subp", "list"} :
        LET what == IF quotes = "none" THEN <<"(", ")">> ELSE <<"(", "dq", "dq", ")">>
        IN  /\ source' = Parens!Put(source, sourceInsert, what)
            /\ sourceInsert' = sourceInsert + (IF quotes = "none" THEN 1 ELSE 2)
            /\ IF quotes # "subp"
               THEN /\ watching' = TRUE /\ cur_prefix' = <<>>
                    /\ plain' = Parens!Put(source, sourceInsert,
                                           IF quotes = "none" THEN <<"space">> ELSE <<"space", "dq", ")">>)
               ELSE watching' = FALSE /\ plain' = <<>> /\ UNCHANGED cur_prefix
  BY DEF Parens!AddParens
<1>2. mark' = sourceInsert /\ last' = "none"
  BY DEF Parens!AddParens
<1>3. ParensTyped
  BY DEF ParensIInv
<1> DEFINE N == Len(source)
           i == sourceInsert
<1>4. source \in Seq(Symbols) /\ N \in Nat /\ i \in Nat /\ i <= N
  BY <1>3, ParensNumbers
<1>5. i \in 0 .. Len(source)
  BY <1>4
<1>0. N <= MaxParenText /\ MaxParenText \in Nat
  BY ParensAssumption DEF Parens!AddParens
<1>6. CASE quotes = "none"
  <2> DEFINE w == <<"(", ")">>
  <2>1. /\ source' = Parens!Put(source, sourceInsert, w)
        /\ sourceInsert' = sourceInsert + 1
        /\ watching' = TRUE /\ cur_prefix' = <<>> /\ plain' = Parens!Put(source, sourceInsert, <<"space">>)
    BY <1>1, <1>6
  <2>2. w \in Seq(Symbols) /\ Len(w) = 2 /\ w[1] = "(" /\ w[2] = ")"
    BY DEF Symbols
  <2> HIDE DEF w, N, i
  <2>3. source' \in Seq(Symbols) /\ Len(source') = N + 2
        /\ \A n \in 1 .. N + 2 : source'[n] = IF n <= i THEN source[n] ELSE IF n <= i + 2 THEN w[n - i] ELSE source[n - 2]
    <3>1. source' \in Seq(Symbols) /\ Len(source') = N + Len(w)
          /\ \A n \in 1 .. N + Len(w) :
               source'[n] = IF n <= i THEN source[n] ELSE IF n <= i + Len(w) THEN w[n - i] ELSE source[n - Len(w)]
      <4> DEFINE put == Parens!Put(source, sourceInsert, w)
      <4>1. put \in Seq(Symbols) /\ Len(put) = Len(source) + Len(w)
            /\ \A n \in 1 .. Len(source) + Len(w) :
                 put[n] = IF n <= sourceInsert THEN source[n]
                          ELSE IF n <= sourceInsert + Len(w) THEN w[n - sourceInsert] ELSE source[n - Len(w)]
        <5>1. source \in Seq(Symbols) /\ w \in Seq(Symbols) /\ sourceInsert \in 0 .. Len(source)
          BY <1>4, <1>5, <2>2 DEF i
        <5> QED
          BY <5>1, PutIs
      <4>2. source' = put
        BY <2>1
      <4> HIDE DEF put
      <4> QED
        BY <4>1, <4>2, Zenon DEF N, i
    <3> QED
      BY <2>2, <3>1, Zenon
  <2>4. "space" \in Symbols
    BY DEF Symbols, Parens!Chars
  <2>5. plain' \in Seq(Symbols) /\ Len(plain') = N + 1
        /\ \A n \in 1 .. N + 1 : plain'[n] = IF n <= i THEN source[n] ELSE IF n = i + 1 THEN "space" ELSE source[n - 1]
    BY <1>4, <1>5, <2>1, <2>4, PutOne DEF N, i
  <2>6. mark' = i /\ Len(cur_prefix') = 0 /\ mark' + Len(cur_prefix') + 2 = i + 2 /\ mark' + Len(cur_prefix') + 1 = i + 1
    BY <1>2, <1>4, <2>1 DEF i
  <2>7. source'[i + 1] = "(" /\ ClosingAt(source', i + 2)
    <3>1. /\ i + 1 \in 1 .. N + 2 /\ ~(i + 1 <= i) /\ i + 1 <= i + 2 /\ (i + 1) - i = 1
          /\ i + 2 \in 1 .. N + 2 /\ ~(i + 2 <= i) /\ i + 2 <= i + 2 /\ (i + 2) - i = 2
      BY <1>4
    <3> QED
      BY <2>2, <2>3, <3>1 DEF ClosingAt
  <2>8. ASSUME NEW n \in 1 .. N + 1
        PROVE  plain'[n] = IF n = i + 1 THEN "space" ELSE IF n <= i + 1 THEN source'[n] ELSE source'[n + 1]
    <3>1. CASE n <= i
      <4>1. n \in 1 .. N + 2 /\ n # i + 1 /\ n <= i + 1
        BY <1>4, <3>1
      <4> QED
        BY <2>3, <2>5, <3>1, <4>1
    <3>2. CASE n = i + 1
      <4>1. ~(n <= i)
        BY <1>4, <3>2
      <4> QED
        BY <2>5, <3>2, <4>1
    <3>3. CASE n > i + 1
      <4>1. /\ ~(n <= i) /\ n # i + 1 /\ ~(n <= i + 1)
            /\ n + 1 \in 1 .. N + 2 /\ ~(n + 1 <= i) /\ ~(n + 1 <= i + 2) /\ (n + 1) - 2 = n - 1
        BY <1>4, <3>3
      <4> QED
        BY <2>3, <2>5, <4>1
    <3> QED
      BY <1>4, <3>1, <3>2, <3>3
  <2>9. Len(source') - 1 = N + 1
    BY <1>4, <2>3
  <2>10. \A n \in 1 .. Len(cur_prefix') : source'[mark' + 1 + n] = cur_prefix'[n]
    BY <2>6
  <2>11. Watched'
    BY <2>5, <2>6, <2>7, <2>8, <2>9, <2>10, Zenon DEF Watched
  <2>12. sourceInsert' \in 0 .. Len(source') /\ mark' \in 0 .. Len(source')
    BY <1>4, <2>1, <2>3, <2>6 DEF i
  <2>13. Len(source') <= MaxParenText + 4
    BY <1>0, <1>4, <2>3
  <2>14. ParensTyped'
    BY <1>2, <2>1, <2>3, <2>12, <2>13 DEF ParensTyped
  <2> QED
    BY <1>2, <2>11, <2>14 DEF ParensIInv
<1>7. CASE quotes = "subp"
  <2> DEFINE w == <<"(", "dq", "dq", ")">>
  <2>1. /\ source' = Parens!Put(source, sourceInsert, w)
        /\ sourceInsert' = sourceInsert + 2
        /\ watching' = FALSE /\ cur_prefix' = cur_prefix
    BY <1>1, <1>7
  <2>2. w \in Seq(Symbols) /\ Len(w) = 4
    BY DEF Symbols
  <2> HIDE DEF w
  <2>3. source' \in Seq(Symbols) /\ Len(source') = N + 4
    <3>1. Parens!Put(source, sourceInsert, w) \in Seq(Symbols)
          /\ Len(Parens!Put(source, sourceInsert, w)) = Len(source) + Len(w)
      <4>1. source \in Seq(Symbols) /\ w \in Seq(Symbols) /\ sourceInsert \in 0 .. Len(source)
        BY <1>4, <1>5, <2>2
      <4> QED
        BY <4>1, PutIs
    <3> QED
      BY <2>1, <2>2, <3>1
  <2>4. sourceInsert' \in 0 .. Len(source') /\ mark' \in 0 .. Len(source')
    BY <1>2, <1>4, <2>1, <2>3
  <2>5. Len(source') <= MaxParenText + 4
    BY <1>0, <2>3
  <2>6. ParensTyped'
    BY <1>2, <1>3, <2>1, <2>3, <2>4, <2>5 DEF ParensTyped
  <2> QED
    BY <1>2, <2>1, <2>6 DEF ParensIInv
<1>8. CASE quotes = "list"
  <2> DEFINE w == <<"(", "dq", "dq", ")">>
             v == <<"space", "dq", ")">>
  <2>1. /\ source' = Parens!Put(source, sourceInsert, w)
        /\ sourceInsert' = sourceInsert + 2
        /\ watching' = TRUE /\ cur_prefix' = <<>> /\ plain' = Parens!Put(source, sourceInsert, v)
    BY <1>1, <1>8
  <2>2. /\ w \in Seq(Symbols) /\ Len(w) = 4 /\ w[1] = "(" /\ w[2] = "dq" /\ w[3] = "dq" /\ w[4] = ")"
        /\ v \in Seq(Symbols) /\ Len(v) = 3 /\ v[1] = "space" /\ v[2] = "dq" /\ v[3] = ")"
    BY DEF Symbols, Parens!Chars
  <2>3. source \in Seq(Symbols) /\ sourceInsert \in 0 .. Len(source)
    BY <1>4, <1>5
  <2> HIDE DEF w, v, N, i
  <2>4. source' \in Seq(Symbols) /\ Len(source') = N + 4
        /\ \A n \in 1 .. N + 4 : source'[n] = IF n <= i THEN source[n] ELSE IF n <= i + 4 THEN w[n - i] ELSE source[n - 4]
    <3> DEFINE put == Parens!Put(source, sourceInsert, w)
    <3>1. put \in Seq(Symbols) /\ Len(put) = Len(source) + Len(w)
          /\ \A n \in 1 .. Len(source) + Len(w) :
               put[n] = IF n <= sourceInsert THEN source[n]
                        ELSE IF n <= sourceInsert + Len(w) THEN w[n - sourceInsert] ELSE source[n - Len(w)]
      BY <2>2, <2>3, PutIs
    <3>2. source' = put
      BY <2>1
    <3> HIDE DEF put
    <3> QED
      BY <2>2, <3>1, <3>2, Zenon DEF N, i
  <2>5. plain' \in Seq(Symbols) /\ Len(plain') = N + 3
        /\ \A n \in 1 .. N + 3 : plain'[n] = IF n <= i THEN source[n] ELSE IF n <= i + 3 THEN v[n - i] ELSE source[n - 3]
    <3> DEFINE put == Parens!Put(source, sourceInsert, v)
    <3>1. put \in Seq(Symbols) /\ Len(put) = Len(source) + Len(v)
          /\ \A n \in 1 .. Len(source) + Len(v) :
               put[n] = IF n <= sourceInsert THEN source[n]
                        ELSE IF n <= sourceInsert + Len(v) THEN v[n - sourceInsert] ELSE source[n - Len(v)]
      BY <2>2, <2>3, PutIs
    <3>2. plain' = put
      BY <2>1
    <3> HIDE DEF put
    <3> QED
      BY <2>2, <3>1, <3>2, Zenon DEF N, i
  <2>6. mark' = i /\ Len(cur_prefix') = 0 /\ mark' + Len(cur_prefix') + 2 = i + 2 /\ mark' + Len(cur_prefix') + 1 = i + 1
    BY <1>2, <1>4, <2>1 DEF i
  <2>7. /\ source'[i + 1] = "(" /\ source'[i + 2] = "dq" /\ source'[i + 3] = "dq" /\ source'[i + 4] = ")"
        /\ \A n \in i + 5 .. N + 4 : source'[n] = source[n - 4]
    <3>1. /\ i + 1 \in 1 .. N + 4 /\ ~(i + 1 <= i) /\ i + 1 <= i + 4 /\ (i + 1) - i = 1
          /\ i + 2 \in 1 .. N + 4 /\ ~(i + 2 <= i) /\ i + 2 <= i + 4 /\ (i + 2) - i = 2
          /\ i + 3 \in 1 .. N + 4 /\ ~(i + 3 <= i) /\ i + 3 <= i + 4 /\ (i + 3) - i = 3
          /\ i + 4 \in 1 .. N + 4 /\ ~(i + 4 <= i) /\ i + 4 <= i + 4 /\ (i + 4) - i = 4
      BY <1>4
    <3>2. \A n \in i + 5 .. N + 4 : n \in 1 .. N + 4 /\ ~(n <= i) /\ ~(n <= i + 4)
      BY <1>4
    <3> QED
      BY <2>2, <2>4, <3>1, <3>2
  <2>8. /\ plain'[i + 2] = "dq" /\ plain'[i + 3] = ")" /\ plain'[i + 1] = "space"
        /\ \A n \in i + 4 .. N + 3 : plain'[n] = source[n - 3]
    <3>1. /\ i + 1 \in 1 .. N + 3 /\ ~(i + 1 <= i) /\ i + 1 <= i + 3 /\ (i + 1) - i = 1
          /\ i + 2 \in 1 .. N + 3 /\ ~(i + 2 <= i) /\ i + 2 <= i + 3 /\ (i + 2) - i = 2
          /\ i + 3 \in 1 .. N + 3 /\ ~(i + 3 <= i) /\ i + 3 <= i + 3 /\ (i + 3) - i = 3
      BY <1>4
    <3>2. \A n \in i + 4 .. N + 3 : n \in 1 .. N + 3 /\ ~(n <= i) /\ ~(n <= i + 3)
      BY <1>4
    <3> QED
      BY <2>2, <2>5, <3>1, <3>2
  <2>9. ASSUME NEW n \in 1 .. N + 3
        PROVE  plain'[n] = IF n = i + 1 THEN "space" ELSE IF n <= i + 1 THEN source'[n] ELSE source'[n + 1]
    <3>1. CASE n <= i
      <4>1. n \in 1 .. N + 4 /\ n # i + 1 /\ n <= i + 1
        BY <1>4, <3>1
      <4> QED
        BY <2>4, <2>5, <3>1, <4>1
    <3>2. CASE n = i + 1
      BY <2>8, <3>2
    <3>3. CASE n = i + 2
      <4>1. n # i + 1 /\ ~(n <= i + 1) /\ n + 1 = i + 3
        BY <1>4, <3>3
      <4> QED
        BY <2>7, <2>8, <3>3, <4>1
    <3>4. CASE n = i + 3
      <4>1. n # i + 1 /\ ~(n <= i + 1) /\ n + 1 = i + 4
        BY <1>4, <3>4
      <4> QED
        BY <2>7, <2>8, <3>4, <4>1
    <3>5. CASE n > i + 3
      <4>1. /\ n \in i + 4 .. N + 3 /\ n # i + 1 /\ ~(n <= i + 1)
            /\ n + 1 \in i + 5 .. N + 4 /\ (n + 1) - 4 = n - 3
        BY <1>4, <3>5
      <4>2. plain'[n] = source[n - 3] /\ source'[n + 1] = source[(n + 1) - 4]
        BY <2>7, <2>8, <4>1, Zenon
      <4> QED
        BY <4>1, <4>2
    <3> QED
      BY <1>4, <3>1, <3>2, <3>3, <3>4, <3>5
  <2>10. Len(source') - 1 = N + 3 /\ ClosingAt(source', i + 2)
    BY <1>4, <2>4, <2>7 DEF ClosingAt
  <2>11. \A n \in 1 .. Len(cur_prefix') : source'[mark' + 1 + n] = cur_prefix'[n]
    BY <2>6
  <2>12. Watched'
    BY <2>5, <2>6, <2>7, <2>9, <2>10, <2>11, Zenon DEF Watched
  <2>13. sourceInsert' \in 0 .. Len(source') /\ mark' \in 0 .. Len(source')
    BY <1>4, <2>1, <2>4, <2>6 DEF i
  <2>14. Len(source') <= MaxParenText + 4
    BY <1>0, <1>4, <2>4
  <2>15. ParensTyped'
    BY <1>2, <2>1, <2>4, <2>13, <2>14 DEF ParensTyped
  <2> QED
    BY <1>2, <2>12, <2>15 DEF ParensIInv
<1> QED
  BY <1>6, <1>7, <1>8

\* To move the cursor changes nothing that is watched.
LEMMA MoveCursorKeeps == ASSUME ParensIInv, Parens!MoveCursor PROVE ParensIInv'
<1>1. sourceInsert' \in 0 .. Len(source) /\ last' = "none"
      /\ UNCHANGED <<source, mark, watching, cur_prefix, plain>>
  BY DEF Parens!MoveCursor
<1>2. ParensTyped'
  BY <1>1 DEF ParensIInv, ParensTyped
<1>3. watching' => Watched'
  BY <1>1 DEF ParensIInv, Watched
<1> QED
  BY <1>1, <1>2, <1>3 DEF ParensIInv

\* On another page nothing is watched.
LEMMA SwitchTabKeeps == ASSUME ParensIInv, Parens!SwitchTab PROVE ParensIInv'
<1>1. source' \in ParenTexts /\ sourceInsert' = Len(source') /\ mark' = 0 /\ watching' = FALSE
      /\ last' = "none" /\ cur_prefix' = cur_prefix
  BY DEF Parens!SwitchTab
<1>2. source' \in Seq(Symbols) /\ Len(source') <= MaxParenText + 4 /\ Len(source') \in Nat
  BY <1>1, ParensAssumption DEF Symbols
<1>3. ParensTyped'
  <2>1. 0 \in 0 .. Len(source') /\ Len(source') \in 0 .. Len(source')
    BY <1>2
  <2>2. cur_prefix' \in Parens!prefixes \cup {<<>>}
    BY <1>1 DEF ParensIInv, ParensTyped
  <2> QED
    BY <1>1, <1>2, <2>1, <2>2 DEF ParensTyped
<1> QED
  BY <1>1, <1>3 DEF ParensIInv

\* The invariant holds at the start.
LEMMA ParensInit == Parens!Init => ParensIInv
<1> SUFFICES ASSUME Parens!Init PROVE ParensIInv
  OBVIOUS
<1>1. source \in ParenTexts /\ sourceInsert = Len(source) /\ mark = 0 /\ watching = FALSE
      /\ last = "none" /\ cur_prefix = <<>>
  BY DEF Parens!Init
<1>2. source \in Seq(Symbols) /\ Len(source) <= MaxParenText + 4 /\ Len(source) \in Nat
  BY <1>1, ParensAssumption DEF Symbols
<1>3. ParensTyped
  <2>1. 0 \in 0 .. Len(source) /\ Len(source) \in 0 .. Len(source)
    BY <1>2
  <2> QED
    BY <1>1, <1>2, <2>1 DEF ParensTyped
<1> QED
  BY <1>1, <1>3 DEF ParensIInv

\* Every step keeps it.
LEMMA ParensStep == ParensIInv /\ [Parens!Next]_(Parens!vars) => ParensIInv'
<1> SUFFICES ASSUME ParensIInv, [Parens!Next]_(Parens!vars) PROVE ParensIInv'
  OBVIOUS
<1>0. sourceInsert \in 0 .. Len(source)
  BY DEF ParensIInv, ParensTyped
<1>1. CASE Parens!Type
  <2>1. PICK c \in NameChars \cup OtherChars, at \in 0 .. Len(source) : Parens!InsertChar(at, c)
    BY <1>1 DEF Parens!Type
  <2>2. c \in Parens!Chars
    BY DEF Parens!Chars
  <2> QED
    BY <2>1, <2>2, InsertCharKeeps
<1>2. CASE Parens!Space
  <2>1. "space" \in Parens!Chars
    BY DEF Parens!Chars
  <2> QED
    BY <1>0, <1>2, <2>1, InsertCharKeeps, AddParensKeeps DEF Parens!Space, Parens!PlainSpace
<1>3. CASE UNCHANGED Parens!vars
  <2>1. UNCHANGED <<source, sourceInsert, mark, watching, cur_prefix, plain, last>>
    BY <1>3 DEF Parens!vars
  <2> QED
    BY <2>1 DEF ParensIInv, ParensTyped, Watched
<1> QED
  BY <1>1, <1>2, <1>3, PasteKeeps, DeleteKeeps, MoveCursorKeeps, SwitchTabKeeps DEF Parens!Next

\* After offset m a text has the characters of another.
HasAfter(text, m, x) == \A n \in 1 .. Len(x) : text[m + n] = x[n]

\* After it, it has those of three texts, one after the other.
InARow(text, m, x, y, z) ==
  /\ {text, x, y, z} \subseteq Seq(Symbols)
  /\ m \in Nat /\ Len(x) > 0 /\ m + Len(x) + Len(y) + Len(z) <= Len(text)
  /\ HasAfter(text, m, x) /\ HasAfter(text, m + Len(x), y) /\ HasAfter(text, m + Len(x) + Len(y), z)

\* Then a part of it is the three.
IsThree(text, m, x, y, z) == SubSeq(text, m + 1, m + Len(x) + Len(y) + Len(z)) = x \o y \o z

LEMMA ThreeInARow ==
  ASSUME NEW text \in Seq(Symbols), NEW m \in Nat, NEW x \in Seq(Symbols), NEW y \in Seq(Symbols),
         NEW z \in Seq(Symbols), InARow(text, m, x, y, z)
  PROVE  IsThree(text, m, x, y, z)
<1> DEFINE i == Len(x)
           j == Len(y)
           k == Len(z)
           begin == x \o y
           whole == begin \o z
           a == m + 1
           b == m + i + j + k
           part == SubSeq(text, a, b)
<1>0. text \in Seq(Symbols) /\ x \in Seq(Symbols) /\ y \in Seq(Symbols) /\ z \in Seq(Symbols) /\ m \in Nat
  BY DEF InARow
<1>1. i \in Nat /\ j \in Nat /\ k \in Nat /\ i > 0 /\ b <= Len(text) /\ Len(text) \in Nat /\ b \in Int /\ a \in Int
  BY <1>0 DEF InARow
<1>2. /\ \A n \in 1 .. i : text[m + n] = x[n]
      /\ \A n \in 1 .. j : text[m + i + n] = y[n]
      /\ \A n \in 1 .. k : text[m + i + j + n] = z[n]
  BY DEF InARow, HasAfter
<1>3. begin \in Seq(Symbols) /\ Len(begin) = i + j
      /\ \A n \in 1 .. i + j : begin[n] = IF n <= i THEN x[n] ELSE y[n - i]
  BY <1>0, ConcatProperties
<1> HIDE DEF begin
<1>4. whole \in Seq(Symbols) /\ Len(whole) = i + j + k
      /\ \A n \in 1 .. i + j + k : whole[n] = IF n <= i + j THEN begin[n] ELSE z[n - (i + j)]
  <2>1. whole \in Seq(Symbols) /\ Len(whole) = Len(begin) + Len(z)
        /\ \A n \in 1 .. Len(begin) + Len(z) : whole[n] = IF n <= Len(begin) THEN begin[n] ELSE z[n - Len(begin)]
    BY <1>0, <1>3, ConcatProperties
  <2> HIDE DEF whole
  <2> QED
    BY <1>3, <2>1, Zenon
<1>5. part \in Seq(Symbols) /\ Len(part) = i + j + k /\ \A n \in 1 .. i + j + k : part[n] = text[m + n]
  <2>1. a <= b /\ b - a + 1 = i + j + k
    BY <1>0, <1>1
  <2>2. \A n \in a .. b : text[n] \in Symbols
    BY <1>0, <1>1
  <2>3. \A n \in 1 .. i + j + k : a + n - 1 = m + n
    BY <1>0, <1>1
  <2>4. part = SubSeq(text, a, b)
    OBVIOUS
  <2> HIDE DEF a, b, i, j, k, part
  <2>5. part \in Seq(Symbols) /\ Len(part) = (IF a <= b THEN b - a + 1 ELSE 0)
        /\ \A n \in 1 .. b - a + 1 : part[n] = text[a + n - 1]
    BY <1>1, <2>1, <2>2, <2>4, SubSeqProperties
  <2>6. part \in Seq(Symbols) /\ Len(part) = i + j + k /\ \A n \in 1 .. i + j + k : part[n] = text[a + n - 1]
    BY <2>1, <2>5, Zenon
  <2> QED
    BY <2>3, <2>6, Zenon
<1> HIDE DEF whole, part, i, j, k
<1>6. ASSUME NEW n \in 1 .. i + j + k PROVE part[n] = whole[n]
  <2>1. CASE n <= i
    <3>1. n \in 1 .. i /\ n \in 1 .. i + j /\ n <= i + j
      BY <1>1, <2>1
    <3> QED
      BY <1>2, <1>3, <1>4, <1>5, <2>1, <3>1
  <2>2. CASE ~(n <= i) /\ n <= i + j
    <3>1. n \in 1 .. i + j /\ n - i \in 1 .. j /\ m + i + (n - i) = m + n
      BY <1>0, <1>1, <2>2
    <3>2. part[n] = y[n - i]
      BY <1>2, <1>5, <3>1
    <3>3. whole[n] = y[n - i]
      BY <1>3, <1>4, <2>2, <3>1
    <3> QED
      BY <3>2, <3>3
  <2>3. CASE ~(n <= i + j)
    <3>1. n - (i + j) \in 1 .. k /\ m + i + j + (n - (i + j)) = m + n
      BY <1>0, <1>1, <2>3
    <3>2. part[n] = z[n - (i + j)]
      BY <1>2, <1>5, <3>1
    <3>3. whole[n] = z[n - (i + j)]
      BY <1>4, <2>3
    <3> QED
      BY <3>2, <3>3
  <2> QED
    BY <2>1, <2>2, <2>3
<1>7. part = whole
  <2>1. \A n \in 1 .. Len(part) : part[n] = whole[n]
    BY <1>5, <1>6
  <2> QED
    BY <1>4, <1>5, <2>1, SeqEqual
<1> QED
  BY <1>7 DEF part, whole, begin, i, j, k, IsThree

\* The invariant says what the properties say.
LEMMA ParensMean ==
  ParensIInv => /\ Parens!TypeOK /\ Parens!ParensAreThere /\ Parens!UndoneAsTyped
<1> SUFFICES ASSUME ParensIInv PROVE Parens!TypeOK /\ Parens!ParensAreThere /\ Parens!UndoneAsTyped
  OBVIOUS
<1>1. ParensTyped /\ (watching => Watched) /\ (last = "undone" => source = plain)
  BY DEF ParensIInv
<1>2. Parens!TypeOK
  BY <1>1 DEF ParensTyped, Parens!TypeOK, Symbols
<1>3. Parens!UndoneAsTyped
  BY <1>1 DEF Parens!UndoneAsTyped
<1>4. ASSUME watching
      PROVE  \E closing \in {<<")">>, <<"dq", "dq", ")">>} :
               SubSeq(source, mark + 1, mark + Len(cur_prefix) + 1 + Len(closing)) = <<"(">> \o cur_prefix \o closing
  <2> DEFINE k == Len(cur_prefix)
             open == <<"(">>
             short == <<")">>
             long == <<"dq", "dq", ")">>
  <2>1. source \in Seq(Symbols) /\ Len(source) \in Nat /\ mark \in Nat /\ k \in Nat
        /\ cur_prefix \in Seq(Symbols)
    BY <1>1, ParensNumbers DEF Symbols
  <2>2. open \in Seq(Symbols) /\ Len(open) = 1 /\ open[1] = "("
        /\ short \in Seq(Symbols) /\ Len(short) = 1 /\ short[1] = ")"
        /\ long \in Seq(Symbols) /\ Len(long) = 3 /\ long[1] = "dq" /\ long[2] = "dq" /\ long[3] = ")"
    BY DEF Symbols
  <2>3. source[mark + 1] = "(" /\ ClosingAt(source, mark + k + 2)
        /\ \A n \in 1 .. k : source[mark + 1 + n] = cur_prefix[n]
    BY <1>1, <1>4 DEF Watched
  <2> HIDE DEF open, short, long
  <2>4. ASSUME NEW close \in Seq(Symbols), mark + 1 + k + Len(close) <= Len(source),
               \A n \in 1 .. Len(close) : source[mark + 1 + k + n] = close[n]
        PROVE  SubSeq(source, mark + 1, mark + k + 1 + Len(close)) = open \o cur_prefix \o close
    <3>1. \A n \in 1 .. Len(open) : n = 1
      BY <2>2
    <3>2. HasAfter(source, mark, open)
      BY <2>2, <2>3, <3>1 DEF HasAfter
    <3>3. HasAfter(source, mark + Len(open), cur_prefix) /\ HasAfter(source, mark + Len(open) + k, close)
      BY <2>2, <2>3, <2>4 DEF HasAfter
    <3>4. mark + Len(open) + k + Len(close) <= Len(source)
      BY <2>2, <2>4
    <3>5. SubSeq(source, mark + 1, mark + Len(open) + k + Len(close)) = open \o cur_prefix \o close
      <4>1. InARow(source, mark, open, cur_prefix, close)
        BY <2>1, <2>2, <3>2, <3>3, <3>4 DEF InARow
      <4>2. IsThree(source, mark, open, cur_prefix, close)
        BY <2>1, <2>2, <4>1, ThreeInARow
      <4> QED
        BY <4>2 DEF IsThree
    <3>6. mark + Len(open) + k + Len(close) = mark + k + 1 + Len(close)
      BY <2>1, <2>2
    <3> QED
      BY <3>5, <3>6
  <2> HIDE DEF k
  <2>5. CASE source[mark + k + 2] = ")"
    <3>1. mark + 1 + k + Len(short) <= Len(source)
      BY <2>1, <2>2, <2>3 DEF ClosingAt
    <3>2. \A n \in 1 .. Len(short) : n = 1 /\ mark + 1 + k + n = mark + k + 2
      BY <2>1, <2>2
    <3>3. \A n \in 1 .. Len(short) : source[mark + 1 + k + n] = short[n]
      BY <2>2, <2>5, <3>2
    <3>4. SubSeq(source, mark + 1, mark + k + 1 + Len(short)) = open \o cur_prefix \o short
      BY <2>2, <2>4, <3>1, <3>3
    <3> QED
      BY <3>4, Zenon DEF k, open, short
  <2>6. CASE source[mark + k + 2] # ")"
    <3>1. (mark + k + 2) + 1 = mark + k + 3 /\ (mark + k + 2) + 2 = mark + k + 4
      BY <2>1
    <3>2. /\ mark + k + 4 <= Len(source) /\ source[mark + k + 2] = "dq"
          /\ source[mark + k + 3] = "dq" /\ source[mark + k + 4] = ")"
      BY <2>3, <2>6, <3>1 DEF ClosingAt
    <3>3. mark + 1 + k + Len(long) <= Len(source)
      BY <2>1, <2>2, <3>2
    <3>4. \A n \in 1 .. Len(long) : \/ n = 1 /\ mark + 1 + k + n = mark + k + 2
                                    \/ n = 2 /\ mark + 1 + k + n = mark + k + 3
                                    \/ n = 3 /\ mark + 1 + k + n = mark + k + 4
      BY <2>1, <2>2
    <3>5. \A n \in 1 .. Len(long) : source[mark + 1 + k + n] = long[n]
      BY <2>2, <3>2, <3>4
    <3>6. SubSeq(source, mark + 1, mark + k + 1 + Len(long)) = open \o cur_prefix \o long
      BY <2>2, <2>4, <3>3, <3>5
    <3> QED
      BY <3>6, Zenon DEF k, open, long
  <2> QED
    BY <2>5, <2>6
<1>5. Parens!ParensAreThere
  BY <1>4 DEF Parens!ParensAreThere
<1> QED
  BY <1>2, <1>3, <1>5

\* After the parentheses were deleted, a space is only a space.
LEMMA RefusedStep ==
  ParensIInv /\ [Parens!Next]_(Parens!vars) =>
    [last = "refused" /\ Parens!Space => source' = Parens!Put(source, sourceInsert, <<"space">>)]_(Parens!vars)
<1> SUFFICES ASSUME ParensIInv, last = "refused", Parens!Space
             PROVE  source' = Parens!Put(source, sourceInsert, <<"space">>)
  OBVIOUS
<1>1. mark = sourceInsert /\ ~watching
  BY DEF ParensIInv
<1>2. ~Parens!AddParens
  BY <1>1 DEF Parens!AddParens
<1>3. Parens!InsertChar(sourceInsert, "space")
  BY <1>2 DEF Parens!Space, Parens!PlainSpace
<1> QED
  BY <1>1, <1>3 DEF Parens!InsertChar

\* The next character of an operator, typed after those before it, is watched.
LEMMA OperatorsStep ==
  ASSUME NEW o \in Operators, NEW m \in 1 .. Len(o) - 1,
         watching, cur_prefix = SubSeq(o, 1, m - 1), Parens!InsertChar(mark + m, o[m]), ParensTyped
  PROVE  watching'
<1>1. o \in UndoStrings /\ o \in Seq(Parens!Chars) /\ Len(o) \in Nat
  BY ParensAssumption
<1>2. m \in Nat /\ m > 0 /\ m <= Len(o) /\ mark \in Nat
  BY <1>1 DEF ParensTyped
<1>3. cur_prefix \in Seq(Parens!Chars) /\ Len(cur_prefix) = m - 1
      /\ \A n \in 1 .. m - 1 : cur_prefix[n] = o[n]
  <2> DEFINE k == m - 1
  <2>1. k \in Nat /\ \A n \in 1 .. k : o[n] \in Parens!Chars
    BY <1>1, <1>2
  <2> HIDE DEF k
  <2>2. SubSeq(o, 1, k) \in Seq(Parens!Chars) /\ Len(SubSeq(o, 1, k)) = (IF 1 <= k THEN k - 1 + 1 ELSE 0)
        /\ \A n \in 1 .. k - 1 + 1 : SubSeq(o, 1, k)[n] = o[1 + n - 1]
    BY <2>1, SubSeqProperties
  <2>3. SubSeq(o, 1, k) \in Seq(Parens!Chars) /\ Len(SubSeq(o, 1, k)) = k
        /\ \A n \in 1 .. k : SubSeq(o, 1, k)[n] = o[n]
    BY <2>1, <2>2
  <2> QED
    BY <2>3 DEF k
<1>4. o[m] \in Parens!Chars
  BY <1>1, <1>2
<1> DEFINE new == Append(cur_prefix, o[m])
           begin == SubSeq(o, 1, m)
<1>5. new \in Seq(Parens!Chars) /\ Len(new) = m /\ \A n \in 1 .. m : new[n] = o[n]
  <2>1. new \in Seq(Parens!Chars) /\ Len(new) = Len(cur_prefix) + 1
        /\ (\A n \in 1 .. Len(cur_prefix) : new[n] = cur_prefix[n]) /\ new[Len(cur_prefix) + 1] = o[m]
    BY <1>3, <1>4, AppendProperties
  <2> HIDE DEF new
  <2>2. Len(cur_prefix) + 1 = m
    BY <1>2, <1>3
  <2>3. \A n \in 1 .. m : n = m \/ n \in 1 .. m - 1
    BY <1>2
  <2> QED
    BY <1>3, <2>1, <2>2, <2>3
<1>6. begin \in Seq(Parens!Chars) /\ Len(begin) = m /\ \A n \in 1 .. m : begin[n] = o[n]
  BY <1>1, <1>2, SubSeqProperties
<1>7. new = begin
  <2> HIDE DEF new, begin
  <2>1. \A n \in 1 .. Len(new) : new[n] = begin[n]
    BY <1>5, <1>6
  <2> QED
    BY <1>5, <1>6, <2>1, SeqEqual
<1>8. new \in Parens!prefixes
  BY <1>1, <1>7 DEF Parens!prefixes
<1>9. mark + m = mark + Len(cur_prefix) + 1
  <2> DEFINE k == Len(cur_prefix)
  <2>1. k = m - 1
    BY <1>3
  <2> HIDE DEF k
  <2>2. mark + m = mark + k + 1
    BY <1>2, <2>1
  <2> QED
    BY <2>2 DEF k
<1> HIDE DEF new, begin
<1>10. watching' = (watching /\ mark + m = mark + Len(cur_prefix) + 1 /\ new \in Parens!prefixes)
  BY DEF Parens!InsertChar, new
<1> QED
  BY <1>8, <1>9, <1>10, Zenon

\* For any undo strings and texts: the parentheses that may be undone are
\* there, undone they leave the text that was typed, an operator undoes them, and what was
\* refused is not added again.
THEOREM ParensRight ==
  Parens!Spec => /\ [](Parens!TypeOK /\ Parens!ParensAreThere /\ Parens!UndoneAsTyped)
                 /\ Parens!RefusedIsRespected /\ Parens!OperatorsAreUndone
<1>1. Parens!Spec => []ParensIInv
  BY ParensInit, ParensStep, PTL DEF Parens!Spec
<1>2. ParensIInv /\ [Parens!Next]_(Parens!vars) =>
        [\A o \in Operators : \A m \in 1 .. Len(o) - 1 :
           watching /\ cur_prefix = SubSeq(o, 1, m - 1) /\ Parens!InsertChar(mark + m, o[m]) => watching']_(Parens!vars)
  BY OperatorsStep DEF ParensIInv
<1> QED
  BY <1>1, <1>2, ParensMean, RefusedStep, PTL DEF Parens!Spec, Parens!RefusedIsRespected, Parens!OperatorsAreUndone

-----------------------------------------------------------------------------
(* Call tips *)

\* The two names of the cardinality are of one operator.
LEMMA Same == ASSUME NEW S PROVE Tips!Cardinality(S) = Cardinality(S)
  BY DEF Tips!Cardinality, Cardinality

Count(s, a, b, c) == Cardinality({n \in a .. b : s[n] = c})

\* The depth counts the opening brackets and the closing ones.
LEMMA DepthIs == ASSUME NEW s, NEW a, NEW b PROVE Tips!Depth(s, a, b) = Count(s, a, b, "(") - Count(s, a, b, ")")
  BY Same DEF Tips!Depth, Tips!Quantify, Count

\* How often a character is in a part of a text.
LEMMA CountType ==
  ASSUME NEW s, NEW a \in Int, NEW b \in Int, NEW c
  PROVE  IsFiniteSet({n \in a .. b : s[n] = c}) /\ Count(s, a, b, c) \in Nat
<1>1. IsFiniteSet(a .. b)
  BY FS_Interval
<1>2. {n \in a .. b : s[n] = c} \in SUBSET (a .. b)
  OBVIOUS
<1>3. IsFiniteSet({n \in a .. b : s[n] = c})
  BY <1>1, <1>2, FS_Subset
<1> QED
  BY <1>3, FS_CardinalityType DEF Count

\* A part is two parts,
LEMMA CountSplit ==
  ASSUME NEW s, NEW a \in Int, NEW m \in Int, NEW b \in Int, a <= m + 1, m <= b, NEW c
  PROVE  Count(s, a, b, c) = Count(s, a, m, c) + Count(s, m + 1, b, c)
<1> DEFINE A == {n \in a .. m : s[n] = c}
           B == {n \in m + 1 .. b : s[n] = c}
           C == {n \in a .. b : s[n] = c}
<1>1. C = A \cup B /\ A \cap B = {}
  OBVIOUS
<1>2. IsFiniteSet(A) /\ IsFiniteSet(B) /\ Cardinality(A) \in Nat /\ Cardinality(B) \in Nat
  <2>1. m + 1 \in Int
    OBVIOUS
  <2>2. IsFiniteSet(A) /\ Count(s, a, m, c) \in Nat
    BY CountType, Zenon
  <2>3. IsFiniteSet(B) /\ Count(s, m + 1, b, c) \in Nat
    BY <2>1, CountType, Zenon
  <2> QED
    BY <2>2, <2>3, Zenon DEF Count
<1> HIDE DEF A, B, C
<1>3. Cardinality(A \cup B) = Cardinality(A) + Cardinality(B) - Cardinality(A \cap B)
  BY <1>2, FS_Union
<1>4. Cardinality(A \cap B) = 0
  BY <1>1, FS_EmptySet
<1>5. Cardinality(C) = Cardinality(A) + Cardinality(B)
  BY <1>1, <1>2, <1>3, <1>4
<1> QED
  BY <1>5 DEF Count, A, B, C

\* may be elsewhere in another text,
LEMMA CountMoved ==
  ASSUME NEW s, NEW t, NEW a \in Int, NEW b \in Int, NEW w \in Int, NEW c,
         \A n \in a .. b : t[n + w] = s[n]
  PROVE  Count(t, a + w, b + w, c) = Count(s, a, b, c)
<1> DEFINE A == {n \in a .. b : s[n] = c}
           B == {n \in a + w .. b + w : t[n] = c}
           f == [n \in A |-> n + w]
<1>1. IsFiniteSet(A) /\ Count(s, a, b, c) \in Nat
  BY CountType, Zenon
<1>2. f \in [A -> B]
  OBVIOUS
<1>3. \A x, y \in A : f[x] = f[y] => x = y
  OBVIOUS
<1>4. \A y \in B : \E x \in A : f[x] = y
  <2> SUFFICES ASSUME NEW y \in B PROVE \E x \in A : f[x] = y
    OBVIOUS
  <2>1. y - w \in a .. b /\ (y - w) + w = y
    OBVIOUS
  <2>2. t[(y - w) + w] = s[y - w]
    BY <2>1
  <2>3. y - w \in A /\ f[y - w] = y
    BY <2>1, <2>2
  <2> QED
    BY <2>3
<1>5. ExistsBijection(A, B)
  <2>1. f \in Bijection(A, B)
    BY <1>2, <1>3, <1>4 DEF Bijection, Injection, Surjection, IsInjective
  <2> QED
    BY <2>1 DEF ExistsBijection
<1>6. Cardinality(B) = Cardinality(A)
  BY <1>1, <1>5, FS_Bijection
<1> QED
  BY <1>6 DEF Count

\* may be without the character,
LEMMA CountNone ==
  ASSUME NEW s, NEW a \in Int, NEW b \in Int, NEW c, \A n \in a .. b : s[n] # c
  PROVE  Count(s, a, b, c) = 0
<1>1. {n \in a .. b : s[n] = c} = {}
  OBVIOUS
<1> QED
  BY <1>1, FS_EmptySet DEF Count

\* or be the character itself.
LEMMA CountOne ==
  ASSUME NEW s, NEW a \in Int
  PROVE  Count(s, a, a, s[a]) = 1
<1>1. {n \in a .. a : s[n] = s[a]} = {a}
  OBVIOUS
<1>2. Cardinality({a}) = 1
  BY FS_Singleton
<1> QED
  BY <1>1, <1>2 DEF Count

-----------------------------------------------------------------------------
\* The depth changes with what is between, and moves with the text.
LEMMA DepthType ==
  ASSUME NEW s, NEW a \in Int, NEW b \in Int
  PROVE  Tips!Depth(s, a, b) \in Int
<1>1. Count(s, a, b, "(") \in Nat /\ Count(s, a, b, ")") \in Nat
  BY CountType
<1> QED
  BY <1>1, DepthIs

\* The depth of two parts is that of both;
LEMMA DepthSplit ==
  ASSUME NEW s, NEW a \in Int, NEW m \in Int, NEW b \in Int, a <= m + 1, m <= b
  PROVE  Tips!Depth(s, a, b) = Tips!Depth(s, a, m) + Tips!Depth(s, m + 1, b)
<1>1. m + 1 \in Int
  OBVIOUS
<1>2. /\ Count(s, a, b, "(") = Count(s, a, m, "(") + Count(s, m + 1, b, "(")
      /\ Count(s, a, m, "(") \in Nat /\ Count(s, m + 1, b, "(") \in Nat
  <2>1. Count(s, a, m, "(") \in Nat /\ Count(s, m + 1, b, "(") \in Nat
    BY <1>1, CountType
  <2>2. Count(s, a, b, "(") = Count(s, a, m, "(") + Count(s, m + 1, b, "(")
    BY CountSplit
  <2> QED
    BY <2>1, <2>2
<1>3. /\ Count(s, a, b, ")") = Count(s, a, m, ")") + Count(s, m + 1, b, ")")
      /\ Count(s, a, m, ")") \in Nat /\ Count(s, m + 1, b, ")") \in Nat
  <2>1. Count(s, a, m, ")") \in Nat /\ Count(s, m + 1, b, ")") \in Nat
    BY <1>1, CountType
  <2>2. Count(s, a, b, ")") = Count(s, a, m, ")") + Count(s, m + 1, b, ")")
    BY CountSplit
  <2> QED
    BY <2>1, <2>2
<1> QED
  BY <1>2, <1>3, DepthIs

\* The part from a to b of one text is in the other d characters on.
IsMoved(s, t, a, b, d) == \A n \in a .. b : t[n + d] = s[n]

\* a part has the depth of the same part elsewhere,
LEMMA DepthMoved ==
  ASSUME NEW s, NEW t, NEW a \in Int, NEW b \in Int, NEW d \in Int, IsMoved(s, t, a, b, d),
         NEW from, NEW to, from = a + d, to = b + d
  PROVE  Tips!Depth(t, from, to) = Tips!Depth(s, a, b)
<1>1. \A n \in a .. b : t[n + d] = s[n]
  BY DEF IsMoved
<1>2. \A c : Count(t, a + d, b + d, c) = Count(s, a, b, c)
  BY <1>1, CountMoved
<1> QED
  BY <1>2, DepthIs

\* or in another text;
LEMMA DepthSame ==
  ASSUME NEW s, NEW t, NEW a, NEW b, \A n \in a .. b : t[n] = s[n]
  PROVE  Tips!Depth(t, a, b) = Tips!Depth(s, a, b)
<1>1. \A c : {n \in a .. b : t[n] = c} = {n \in a .. b : s[n] = c}
  OBVIOUS
<1> QED
  BY <1>1, DepthIs DEF Count

\* without brackets it is nothing,
LEMMA DepthNone ==
  ASSUME NEW s, NEW a \in Int, NEW b \in Int, \A n \in a .. b : s[n] \notin {"(", ")"}
  PROVE  Tips!Depth(s, a, b) = 0
<1>1. Count(s, a, b, "(") = 0 /\ Count(s, a, b, ")") = 0
  BY CountNone
<1> QED
  BY <1>1, DepthIs

\* and an opening bracket makes it one.
LEMMA DepthOne ==
  ASSUME NEW s, NEW a \in Int, s[a] = "("
  PROVE  Tips!Depth(s, a, a) = 1
<1>1. Count(s, a, a, "(") = 1
  BY CountOne
<1>2. Count(s, a, a, ")") = 0
  BY CountNone
<1> QED
  BY <1>1, <1>2, DepthIs

\* Offset x is where the bracket at place p of the text is closed, or the end of the text.
Closes(s, p, x) ==
  /\ x \in p .. Len(s)
  /\ x < Len(s) => Tips!Depth(s, p, x + 1) = 0
  /\ \A c \in p .. x - 1 : Tips!Depth(s, p, c + 1) # 0

\* A set of numbers has a least one.
LEMMA Least ==
  ASSUME NEW T \in SUBSET Nat, T # {}
  PROVE \E x \in T : \A y \in T : x <= y
<1> DEFINE R == {ss \in Nat \X Nat : ss[1] < ss[2]}
<1>1. IsWellFoundedOn(R, Nat)
  BY NatLessThanWellFounded DEF OpToRel
<1>2. PICK x \in T : \A y \in T : ~(<<y, x>> \in R)
  BY <1>1, WFMin
<1>3. \A y \in T : y \in Nat /\ x \in Nat /\ ~(y < x)
  BY <1>2
<1>4. QED BY <1>3

\* Closer() finds where a bracket is closed,
LEMMA CloserIs ==
  ASSUME NEW s \in Seq(Tips!Chars), NEW o \in Nat, o < Len(s)
  PROVE  Closes(s, o + 1, Tips!Closer(s, o))
<1> DEFINE C == {c \in o + 1 .. Len(s) - 1 : Tips!Depth(s, o + 1, c + 1) = 0}
           x == Tips!Closer(s, o)
<1>1. Len(s) \in Nat
  BY LenProperties
<1>2. x = IF C = {} THEN Len(s) ELSE CHOOSE c \in C : \A d \in C : c <= d
  BY DEF Tips!Closer
<1>3. CASE C = {}
  <2>1. x = Len(s)
    BY <1>2, <1>3
  <2>2. \A c \in o + 1 .. Len(s) - 1 : Tips!Depth(s, o + 1, c + 1) # 0
    BY <1>3
  <2> HIDE DEF x
  <2> QED
    BY <1>1, <2>1, <2>2 DEF Closes, x
<1>4. CASE C # {}
  <2>1. C \in SUBSET Nat
    BY <1>1
  <2> HIDE DEF C
  <2>2. \E c \in C : \A d \in C : c <= d
    BY <1>4, <2>1, Least
  <2>3. x \in C /\ \A d \in C : x <= d
    BY <1>2, <1>4, <2>2
  <2> HIDE DEF x
  <2>4. x \in o + 1 .. Len(s) - 1 /\ Tips!Depth(s, o + 1, x + 1) = 0
    BY <2>3 DEF C
  <2>5. ASSUME NEW c \in o + 1 .. x - 1, Tips!Depth(s, o + 1, c + 1) = 0 PROVE FALSE
    <3>1. c \in C
      BY <1>1, <2>4, <2>5 DEF C
    <3> QED
      BY <2>3, <2>4, <3>1
  <2>6. Closes(s, o + 1, x)
    BY <1>1, <2>4, <2>5 DEF Closes
  <2> QED
    BY <2>6 DEF x
<1> QED
  BY <1>3, <1>4

\* and there is one such place.
LEMMA ClosesOnce ==
  ASSUME NEW s, Len(s) \in Nat, NEW p \in Nat, NEW x, NEW y, Closes(s, p, x), Closes(s, p, y)
  PROVE  x = y
<1>1. x \in Nat /\ y \in Nat /\ p <= x /\ p <= y /\ x <= Len(s) /\ y <= Len(s)
  BY DEF Closes
<1>2. ~(x < y)
  <2> SUFFICES ASSUME x < y PROVE FALSE
    OBVIOUS
  <2>1. x < Len(s) /\ x \in p .. y - 1
    BY <1>1
  <2> QED
    BY <2>1 DEF Closes
<1>3. ~(y < x)
  <2> SUFFICES ASSUME y < x PROVE FALSE
    OBVIOUS
  <2>1. y < Len(s) /\ y \in p .. x - 1
    BY <1>1
  <2> QED
    BY <2>1 DEF Closes
<1> QED
  BY <1>1, <1>2, <1>3

\* After the opening bracket at p, and what follows it to i, the w characters of s, none of
\* them a bracket, give place to v others in t: what is behind is d characters on.
GivesPlace(s, t, p, i, w, v, d) ==
  /\ s \in Seq(Tips!Chars) /\ t \in Seq(Tips!Chars) /\ p \in Nat /\ i \in Nat /\ w \in Nat /\ v \in Nat
  /\ d = v - w /\ Len(t) = Len(s) + d
  /\ 0 < p /\ p <= i /\ p <= Len(s) /\ s[p] = "(" /\ i + w <= Tips!Closer(s, p - 1)
  /\ \A n \in 1 .. i : t[n] = s[n]
  /\ IsMoved(s, t, i + w + 1, Len(s), d)
  /\ \A n \in i + 1 .. i + w : s[n] \notin {"(", ")"}
  /\ \A n \in i + 1 .. i + v : t[n] \notin {"(", ")"}

\* The bracket that closes moves with the text.
LEMMA CloserMoves ==
  ASSUME NEW s, NEW t, NEW p, NEW i, NEW w, NEW v, NEW d, GivesPlace(s, t, p, i, w, v, d)
  PROVE  Tips!Closer(t, p - 1) = Tips!Closer(s, p - 1) + d
<1> DEFINE j == i + w + 1
<1>0. /\ s \in Seq(Tips!Chars) /\ t \in Seq(Tips!Chars) /\ p \in Nat /\ i \in Nat /\ w \in Nat /\ v \in Nat
      /\ d = v - w /\ Len(t) = Len(s) + d /\ j = i + w + 1
      /\ 0 < p /\ p <= i /\ p <= Len(s)
  BY DEF GivesPlace
<1>a. s[p] = "(" /\ i + w <= Tips!Closer(s, p - 1)
  BY DEF GivesPlace
<1>b. \A n \in 1 .. i : t[n] = s[n]
  BY DEF GivesPlace
<1>c. IsMoved(s, t, j, Len(s), d)
  BY DEF GivesPlace
<1>d. /\ \A n \in i + 1 .. i + w : s[n] \notin {"(", ")"}
      /\ \A n \in i + 1 .. i + v : t[n] \notin {"(", ")"}
  BY DEF GivesPlace
<1> HIDE DEF j
<1> USE <1>0
<1> DEFINE x == Tips!Closer(s, p - 1)
           y == x + d
<1>1. Len(s) \in Nat /\ Len(t) \in Nat
  BY LenProperties
<1>2. Closes(s, p, x)
  <2>1. p - 1 \in Nat /\ p - 1 < Len(s) /\ (p - 1) + 1 = p
    BY <1>1
  <2>2. Closes(s, (p - 1) + 1, x)
    BY <2>1, CloserIs
  <2> QED
    BY <2>1, <2>2
<1>3. i + w <= x
  BY <1>a
<1> HIDE DEF x
<1>4. /\ x \in Nat /\ p <= x /\ x <= Len(s)
      /\ x < Len(s) => Tips!Depth(s, p, x + 1) = 0
      /\ \A c \in p .. x - 1 : Tips!Depth(s, p, c + 1) # 0
  BY <1>2 DEF Closes
<1>5. y \in Nat /\ p <= y /\ y <= Len(t) /\ i + v <= y /\ (y < Len(t) <=> x < Len(s))
  BY <1>1, <1>3, <1>4
<1>6. \A e \in p .. i : Tips!Depth(t, p, e) = Tips!Depth(s, p, e)
  <2> SUFFICES ASSUME NEW e \in p .. i PROVE Tips!Depth(t, p, e) = Tips!Depth(s, p, e)
    OBVIOUS
  <2>1. \A n \in p .. e : t[n] = s[n]
    BY <1>b
  <2> QED
    BY <2>1, DepthSame
<1>7. \A e \in i .. i + v : Tips!Depth(t, p, e) = Tips!Depth(s, p, i)
  <2> SUFFICES ASSUME NEW e \in i .. i + v PROVE Tips!Depth(t, p, e) = Tips!Depth(s, p, i)
    OBVIOUS
  <2>1. Tips!Depth(t, p, e) = Tips!Depth(t, p, i) + Tips!Depth(t, i + 1, e)
    BY DepthSplit
  <2>2. Tips!Depth(t, i + 1, e) = 0
    <3>1. \A n \in i + 1 .. e : t[n] \notin {"(", ")"}
      BY <1>d
    <3> QED
      BY <3>1, DepthNone
  <2>3. Tips!Depth(t, p, i) = Tips!Depth(s, p, i) /\ Tips!Depth(s, p, i) \in Int
    BY <1>6, DepthType
  <2> QED
    BY <2>1, <2>2, <2>3
<1>8. Tips!Depth(s, p, i + w) = Tips!Depth(s, p, i)
  <2>1. Tips!Depth(s, p, i + w) = Tips!Depth(s, p, i) + Tips!Depth(s, i + 1, i + w)
    BY DepthSplit
  <2>2. Tips!Depth(s, i + 1, i + w) = 0
    BY <1>d, DepthNone
  <2>3. Tips!Depth(s, p, i) \in Int
    BY DepthType
  <2> QED
    BY <2>1, <2>2, <2>3
<1>9. \A e \in i + w .. Len(s) : Tips!Depth(t, p, e + d) = Tips!Depth(s, p, e)
  <2> SUFFICES ASSUME NEW e \in i + w .. Len(s) PROVE Tips!Depth(t, p, e + d) = Tips!Depth(s, p, e)
    OBVIOUS
  <2> DEFINE m == i + w
             mm == i + v
             ee == e + d
             k == mm + 1
  <2>0. j \in Int /\ e \in Int /\ d \in Int /\ e <= Len(s) /\ k = j + d /\ ee = e + d /\ m + 1 = j
    OBVIOUS
  <2>1. Tips!Depth(s, p, e) = Tips!Depth(s, p, m) + Tips!Depth(s, j, e)
    BY DepthSplit
  <2>2. Tips!Depth(t, p, ee) = Tips!Depth(t, p, mm) + Tips!Depth(t, k, ee)
    BY DepthSplit
  <2> HIDE DEF m, mm, ee, k
  <2>3. Tips!Depth(t, k, ee) = Tips!Depth(s, j, e)
    <3>1. IsMoved(s, t, j, e, d)
      <4>1. \A n \in j .. Len(s) : t[n + d] = s[n]
        BY <1>c DEF IsMoved
      <4>2. \A n \in j .. e : t[n + d] = s[n]
        BY <1>1, <2>0, <4>1
      <4> QED
        BY <4>2 DEF IsMoved
    <3> QED
      BY <2>0, <3>1, DepthMoved
  <2>4. Tips!Depth(t, p, mm) = Tips!Depth(s, p, m)
    BY <1>7, <1>8 DEF m, mm
  <2>5. Tips!Depth(t, p, ee) = Tips!Depth(s, p, e)
    BY <2>1, <2>2, <2>3, <2>4
  <2> QED
    BY <2>5 DEF ee
<1>10. Tips!Depth(s, p, i) # 0
  <2>1. CASE i = p
    BY <1>a, <2>1, DepthOne
  <2>2. CASE i # p
    <3>1. i - 1 \in p .. x - 1 /\ (i - 1) + 1 = i
      BY <1>3, <1>4, <2>2
    <3> QED
      BY <1>4, <3>1
  <2> QED
    BY <2>1, <2>2
<1>11. ASSUME NEW c \in p .. y - 1 PROVE Tips!Depth(t, p, c + 1) # 0
  <2>1. CASE c + 1 <= i
    <3>1. c + 1 \in p .. i /\ c \in p .. x - 1
      BY <1>3, <1>4, <2>1
    <3> QED
      BY <1>4, <1>6, <3>1
  <2>2. CASE i <= c + 1 /\ c + 1 <= i + v
    <3>1. c + 1 \in i .. i + v
      BY <1>5, <2>2
    <3> QED
      BY <1>7, <1>10, <3>1
  <2>3. CASE i + v < c + 1
    <3> DEFINE back == c - d
    <3>1. back \in p .. x - 1 /\ back + 1 \in i + w .. Len(s) /\ (back + 1) + d = c + 1
      BY <1>1, <1>3, <1>4, <1>5, <2>3
    <3> HIDE DEF back
    <3> QED
      BY <1>4, <1>9, <3>1
  <2> QED
    BY <1>5, <2>1, <2>2, <2>3
<1>12. ASSUME y < Len(t) PROVE Tips!Depth(t, p, y + 1) = 0
  <2>1. x < Len(s) /\ x + 1 \in i + w .. Len(s) /\ (x + 1) + d = y + 1
    BY <1>1, <1>3, <1>4, <1>5, <1>12
  <2> QED
    BY <1>4, <1>9, <2>1
<1> HIDE DEF y
<1>16. p - 1 \in Nat /\ p - 1 < Len(t) /\ (p - 1) + 1 = p
  BY <1>1, <1>5
<1>13. Closes(t, p, y)
  <2>1. y \in p .. Len(t)
    BY <1>1, <1>5
  <2> QED
    BY <1>11, <1>12, <2>1 DEF Closes
<1>14. Closes(t, p, Tips!Closer(t, p - 1))
  <2>1. Closes(t, (p - 1) + 1, Tips!Closer(t, p - 1))
    BY <1>16, CloserIs
  <2> QED
    BY <1>16, <2>1
<1>15. Tips!Closer(t, p - 1) = y
  BY <1>1, <1>13, <1>14, ClosesOnce
<1> QED
  BY <1>15 DEF x, y
-----------------------------------------------------------------------------
\* A window whose handler is blocked once exactly while it is hidden.
WindowFits(w) ==
  /\ w \in [visible : BOOLEAN, at : {w.at}, was_dragged : BOOLEAN, flag : BOOLEAN, blocks : Nat]
  /\ w.flag = ~w.visible
  /\ w.blocks = IF w.visible THEN 0 ELSE 1

\* The call that the cursor at i is in, from its opening bracket before a to b.
IsCall(s, i, a, b) == a > 0 /\ s[a] = "(" /\ a <= i /\ i <= b /\ b = Tips!Closer(s, a - 1)

\* The text and the cursor are of their types.
PageTyped == sb \in Seq(Tips!Chars) /\ Len(sb) <= MaxCallText /\ tipInsert \in 0 .. Len(sb) /\ places \in BOOLEAN

\* What holds always: the window is blocked as it should be, and a visible one has a call.
TipsIInv ==
  /\ PageTyped
  /\ tip \in [is_shown : BOOLEAN, start : Nat, end : Nat] /\ tip.start <= tip.end /\ tip.end <= Len(sb)
  /\ WindowFits(tipWin)
  /\ tipWin.visible => tip.is_shown /\ IsCall(sb, tipInsert, tip.start, tip.end)
  /\ Tips!PlacedByTheCall

\* Hiding, showing and moving keep a window so.
LEMMA HiddenIs ==
  ASSUME NEW w, WindowFits(w)
  PROVE  /\ WindowFits(Tips!WindowHidden(w))
         /\ ~Tips!WindowHidden(w).visible /\ ~Tips!WindowHidden(w).was_dragged
<1>1. w.flag \in BOOLEAN /\ w.blocks \in Nat /\ w.visible \in BOOLEAN /\ w.flag = ~w.visible
      /\ w.blocks = IF w.visible THEN 0 ELSE 1
  BY DEF WindowFits
<1>2. (IF w.flag THEN w.blocks ELSE w.blocks + 1) = 1
  <2>1. CASE w.visible
    <3>1. ~w.flag /\ w.blocks = 0
      BY <1>1, <2>1, Zenon
    <3>2. (IF w.flag THEN w.blocks ELSE w.blocks + 1) = w.blocks + 1
      BY <3>1, Zenon
    <3> QED
      BY <3>1, <3>2
  <2>2. CASE ~w.visible
    BY <1>1, <2>2
  <2> QED
    BY <2>1, <2>2
<1> DEFINE h == Tips!WindowHidden(w)
<1>3. h = [visible |-> FALSE, at |-> w.at, was_dragged |-> FALSE, flag |-> TRUE, blocks |-> 1]
  BY <1>2, Zenon DEF Tips!WindowHidden
<1> HIDE DEF h
<1>4. h.visible = FALSE /\ h.at = w.at /\ h.was_dragged = FALSE /\ h.flag = TRUE /\ h.blocks = 1
  BY <1>3
<1>5. h \in [visible : BOOLEAN, at : {w.at}, was_dragged : BOOLEAN, flag : BOOLEAN, blocks : Nat]
  BY <1>3
<1>6. WindowFits(h)
  BY <1>4, <1>5 DEF WindowFits
<1> QED
  BY <1>4, <1>6 DEF h

\* To show it blocks the handler once less.
LEMMA ShownIs ==
  ASSUME NEW w, WindowFits(w), ~w.visible, NEW at
  PROVE  /\ WindowFits(Tips!WindowShown(w, at))
         /\ Tips!WindowShown(w, at).visible /\ Tips!WindowShown(w, at).at = at
         /\ Tips!WindowShown(w, at).was_dragged = w.was_dragged
<1>1. w.blocks = 1
  BY DEF WindowFits
<1>2. (IF w.blocks = 0 THEN 0 ELSE w.blocks - 1) = 0
  BY <1>1
<1> DEFINE h == Tips!WindowShown(w, at)
<1>3. h = [w EXCEPT !.visible = TRUE, !.at = at, !.flag = FALSE, !.blocks = 0]
  BY <1>2 DEF Tips!WindowShown
<1> HIDE DEF h
<1>4. w \in [visible : BOOLEAN, at : {w.at}, was_dragged : BOOLEAN, flag : BOOLEAN, blocks : Nat]
  BY DEF WindowFits
<1>5. h.visible = TRUE /\ h.at = at /\ h.was_dragged = w.was_dragged /\ h.flag = FALSE /\ h.blocks = 0
  BY <1>3, <1>4
<1>6. h \in [visible : BOOLEAN, at : {at}, was_dragged : BOOLEAN, flag : BOOLEAN, blocks : Nat]
  BY <1>3, <1>4
<1>7. WindowFits(h)
  BY <1>5, <1>6 DEF WindowFits
<1> QED
  BY <1>5, <1>7 DEF h

\* To move it changes where it is, unless it was dragged.
LEMMA MovedIs ==
  ASSUME NEW w, WindowFits(w), NEW at
  PROVE  /\ WindowFits(Tips!MovedPerhaps(w, at))
         /\ Tips!MovedPerhaps(w, at).visible = w.visible
         /\ Tips!MovedPerhaps(w, at).was_dragged = w.was_dragged
         /\ ~w.was_dragged => Tips!MovedPerhaps(w, at).at = at
  BY DEF WindowFits, Tips!MovedPerhaps

\* A handler hides the tip, or lets it be around the call it was around.
LEMMA TipHides ==
  ASSUME TipsIInv, Tips!Hide, PageTyped'
  PROVE  TipsIInv' /\ ~tipWin'.visible
<1>1. tip' = [is_shown |-> FALSE, start |-> 0, end |-> 0] /\ Len(sb') \in Nat
  BY LenProperties DEF Tips!Hide, Tips!NoTip, PageTyped
<1>2. WindowFits(tipWin') /\ ~tipWin'.visible
  <2>1. CASE tip.is_shown
    BY <2>1, HiddenIs DEF TipsIInv, Tips!Hide
  <2>2. CASE ~tip.is_shown
    BY <2>2 DEF TipsIInv, Tips!Hide
  <2> QED
    BY <2>1, <2>2
<1>3. WindowFits(tipWin)'
  BY <1>2
<1> QED
  BY <1>1, <1>2, <1>3 DEF TipsIInv, Tips!PlacedByTheCall

\* It lets the tip be.
LEMMA TipStays ==
  ASSUME TipsIInv, NEW a \in Nat, NEW b \in Nat, a <= b, b <= Len(sb)', tip.is_shown,
         tip' = [tip EXCEPT !.start = a, !.end = b], tipWin' = tipWin, places', PageTyped',
         tipWin.visible => IsCall(sb', tipInsert', a, b)
  PROVE  TipsIInv'
<1>1. tip' \in [is_shown : BOOLEAN, start : Nat, end : Nat] /\ tip'.is_shown /\ tip'.start = a /\ tip'.end = b
  BY DEF TipsIInv
<1>2. WindowFits(tipWin)'
  BY DEF TipsIInv
<1>3. Tips!PlacedByTheCall'
  BY DEF Tips!PlacedByTheCall
<1> QED
  BY <1>1, <1>2, <1>3 DEF TipsIInv

-----------------------------------------------------------------------------
(* The actions *)

\* The innermost bracket around the cursor is one of the brackets around it.
LEMMA InnermostIs ==
  ASSUME NEW S \in SUBSET Nat, NEW m \in Nat, S \subseteq 0 .. m, S # {}
  PROVE  Tips!Max(S) \in S
<1> DEFINE T == {m - o : o \in S}
<1>1. T \in SUBSET Nat /\ T # {}
  <2>1. \A o \in S : m - o \in Nat
    OBVIOUS
  <2>2. PICK o : o \in S
    OBVIOUS
  <2>3. m - o \in T
    BY <2>2
  <2> QED
    BY <2>1, <2>3
<1>2. PICK x \in T : \A y \in T : x <= y
  <2> HIDE DEF T
  <2> QED
    BY <1>1, Least
<1>3. m - x \in S
  BY <1>2
<1>4. \A o \in S : m - x >= o
  <2> SUFFICES ASSUME NEW o \in S PROVE m - x >= o
    OBVIOUS
  <2>1. m - o \in T /\ m \in Nat /\ o \in Nat
    OBVIOUS
  <2>2. x <= m - o /\ x \in Nat
    BY <1>1, <1>2, <2>1
  <2> QED
    BY <2>1, <2>2
<1> QED
  BY <1>3, <1>4 DEF Tips!Max

\* A tip that is shown is about the innermost call around the cursor, and placed by it; one that
\* was dragged is hidden first.
LEMMA TipAfterShow ==
  ASSUME TipsIInv, NEW is_auto, Tips!Show(is_auto)
  PROVE  TipsIInv' /\ (tipWin.visible /\ tipWin.was_dragged /\ tipWin'.visible /\ tipWin'.was_dragged => tipWin'.at = tipWin.at)
<1> DEFINE openers == Tips!Openers(sb, tipInsert)
           opener == Tips!Max(openers)
           at == Tips!Position(sb, opener + 1, tipInsert)
           w == IF tip.is_shown THEN Tips!WindowHidden(tipWin) ELSE tipWin
<1>1. PageTyped /\ WindowFits(tipWin) /\ (tipWin.visible => tip.is_shown)
  BY DEF TipsIInv
<1>2. UNCHANGED <<sb, tipInsert, places>>
  BY DEF Tips!Show
<1>3. PageTyped'
  BY <1>1, <1>2 DEF PageTyped
<1>4. CASE UNCHANGED <<tip, tipWin>>
  <2>1. TipsIInv'
    <3>1. WindowFits(tipWin)'
      BY <1>1, <1>4
    <3>2. Tips!PlacedByTheCall'
      BY <1>2, <1>4 DEF TipsIInv, Tips!PlacedByTheCall
    <3> QED
      BY <1>2, <1>3, <1>4, <3>1, <3>2 DEF TipsIInv
  <2> QED
    BY <1>4, <2>1
<1>5. CASE ~UNCHANGED <<tip, tipWin>>
  <2>1. openers # {} /\ opener > 0 /\ tipWin' = Tips!WindowShown(w, at)
        /\ tip' = [is_shown |-> TRUE, start |-> opener + 1, end |-> Tips!Closer(sb, opener)]
    BY <1>5 DEF Tips!Show
  <2>2. opener \in openers
    <3>1. openers \subseteq 0 .. tipInsert /\ tipInsert \in Nat /\ openers \in SUBSET Nat
      BY <1>1 DEF PageTyped, Tips!Openers
    <3> HIDE DEF openers
    <3> QED
      BY <2>1, <3>1, InnermostIs
  <2>3. opener \in 0 .. tipInsert - 1 /\ sb[opener + 1] = "(" /\ Tips!Closer(sb, opener) >= tipInsert
    BY <2>2 DEF Tips!Openers
  <2>4. opener \in Nat /\ opener + 1 <= tipInsert /\ tipInsert <= Len(sb) /\ opener < Len(sb) /\ Len(sb) \in Nat
    BY <1>1, <2>3, LenProperties DEF PageTyped
  <2>5. WindowFits(w) /\ ~w.visible /\ (tipWin.visible => ~w.was_dragged)
    BY <1>1, HiddenIs
  <2>6. WindowFits(tipWin') /\ tipWin'.visible /\ tipWin'.at = at /\ tipWin'.was_dragged = w.was_dragged
    <3> HIDE DEF at, w
    <3> QED
      BY <2>1, <2>5, ShownIs
  <2>7. WindowFits(tipWin)'
    BY <2>6
  <2>8. Closes(sb, opener + 1, Tips!Closer(sb, opener))
    <3> HIDE DEF opener
    <3> QED
      BY <1>1, <2>4, CloserIs DEF PageTyped
  <2>9. tip'.is_shown /\ tip'.start = opener + 1 /\ tip'.end = Tips!Closer(sb, opener)
    BY <2>1
  <2> HIDE DEF opener, openers
  <2>10. Tips!Closer(sb, opener) \in Nat /\ opener + 1 <= Tips!Closer(sb, opener) /\ Tips!Closer(sb, opener) <= Len(sb)
    BY <2>4, <2>8 DEF Closes
  <2>11. tip' \in [is_shown : BOOLEAN, start : Nat, end : Nat]
    BY <2>1, <2>4, <2>10
  <2>12. (opener + 1) - 1 = opener
    BY <2>4
  <2>13. IsCall(sb, tipInsert, tip.start, tip.end)'
    BY <1>2, <2>3, <2>4, <2>9, <2>10, <2>12 DEF IsCall
  <2>14. Tips!PlacedByTheCall'
    BY <1>2, <2>6, <2>9 DEF Tips!PlacedByTheCall
  <2>15. TipsIInv'
    BY <1>2, <1>3, <2>4, <2>7, <2>9, <2>10, <2>11, <2>13, <2>14 DEF TipsIInv
  <2> QED
    BY <2>5, <2>6, <2>15
<1> QED
  BY <1>4, <1>5

\* The window is moved, when nobody has dragged it, where the call is.
LEMMA TipAfterPlace ==
  ASSUME TipsIInv, Tips!PlaceWindow
  PROVE  TipsIInv' /\ (tipWin.visible /\ tipWin.was_dragged /\ tipWin'.visible /\ tipWin'.was_dragged => tipWin'.at = tipWin.at)
<1> DEFINE at == Tips!Position(sb, tip.start, tipInsert)
<1>1. /\ PageTyped /\ WindowFits(tipWin)
      /\ tip \in [is_shown : BOOLEAN, start : Nat, end : Nat] /\ tip.start <= tip.end /\ tip.end <= Len(sb)
      /\ (tipWin.visible => tip.is_shown /\ IsCall(sb, tipInsert, tip.start, tip.end))
  BY DEF TipsIInv
<1>2. UNCHANGED <<sb, tipInsert, tip>> /\ ~places' /\ places' \in BOOLEAN
  BY DEF Tips!PlaceWindow
<1>3. tipWin' = IF tip.is_shown THEN Tips!MovedPerhaps(tipWin, at) ELSE tipWin
  BY DEF Tips!PlaceWindow
<1>4. PageTyped'
  BY <1>1, <1>2 DEF PageTyped
<1>5. /\ WindowFits(tipWin') /\ tipWin'.visible = tipWin.visible /\ tipWin'.was_dragged = tipWin.was_dragged
      /\ (tipWin.visible /\ ~tipWin.was_dragged => tipWin'.at = at)
      /\ (tipWin.was_dragged => tipWin' = tipWin)
  <2> HIDE DEF at
  <2>1. tipWin.was_dragged => Tips!MovedPerhaps(tipWin, at) = tipWin
    BY DEF Tips!MovedPerhaps
  <2> QED
    BY <1>1, <1>3, <2>1, MovedIs
<1>6. WindowFits(tipWin)'
  BY <1>5
<1>7. Tips!PlacedByTheCall'
  BY <1>2, <1>5 DEF Tips!PlacedByTheCall
<1>8. TipsIInv'
  BY <1>1, <1>2, <1>4, <1>5, <1>6, <1>7 DEF TipsIInv
<1> QED
  BY <1>5, <1>8

\* The cursor that leaves the call hides the tip.
LEMMA TipAfterMove ==
  ASSUME TipsIInv, NEW i, Tips!MoveCursor(i)
  PROVE  TipsIInv'
<1> DEFINE leaves == i < tip.start \/ i > tip.end
<1>1. /\ PageTyped /\ tip \in [is_shown : BOOLEAN, start : Nat, end : Nat]
      /\ tip.start <= tip.end /\ tip.end <= Len(sb)
      /\ (tipWin.visible => tip.is_shown /\ IsCall(sb, tipInsert, tip.start, tip.end))
  BY DEF TipsIInv
<1>2. i \in 0 .. Len(sb) /\ tipInsert' = i /\ sb' = sb /\ Tips!HideIf(leaves, tip.start, tip.end)
  BY DEF Tips!MoveCursor
<1>3. PageTyped'
  BY <1>1, <1>2 DEF PageTyped, Tips!HideIf
<1>4. CASE tip.is_shown /\ ~leaves
  <2>1. tip' = [tip EXCEPT !.start = tip.start, !.end = tip.end] /\ places' = TRUE /\ tipWin' = tipWin
    BY <1>2, <1>4 DEF Tips!HideIf
  <2>2. tipWin.visible => IsCall(sb', tipInsert', tip.start, tip.end)
    BY <1>1, <1>2, <1>4 DEF IsCall, PageTyped
  <2>3. tip.start \in Nat /\ tip.end \in Nat /\ tip.end <= Len(sb')
    BY <1>1, <1>2
  <2>4. tip.is_shown /\ places'
    BY <1>4, <2>1
  <2> QED
    BY <1>1, <1>3, <2>1, <2>2, <2>3, <2>4, TipStays, Zenon
<1>5. CASE ~(tip.is_shown /\ ~leaves)
  <2>1. Tips!Hide
    BY <1>2, <1>5 DEF Tips!HideIf
  <2> QED
    BY <1>3, <2>1, TipHides
<1> QED
  BY <1>4, <1>5

\* Text t is s with the character c at offset i.
IsPut(s, t, i, c) ==
  /\ t \in Seq(Tips!Chars) /\ Len(t) = Len(s) + 1
  /\ \A n \in 1 .. Len(s) + 1 : t[n] = IF n <= i THEN s[n] ELSE IF n = i + 1 THEN c ELSE s[n - 1]

\* What is typed is in the text.
LEMMA InsertAtIs ==
  ASSUME NEW s \in Seq(Tips!Chars), NEW i \in 0 .. Len(s), NEW c \in Tips!Chars
  PROVE  IsPut(s, Tips!InsertAt(s, i + 1, c), i, c)
<1> DEFINE put == Parens!Put(s, i, <<c>>)
<1>1. (i + 1) - 1 = i
  OBVIOUS
<1>2. Tips!InsertAt(s, i + 1, c) = put
  BY <1>1 DEF Tips!InsertAt, Parens!Put
<1>3. put \in Seq(Tips!Chars) /\ Len(put) = Len(s) + 1
      /\ \A n \in 1 .. Len(s) + 1 : put[n] = IF n <= i THEN s[n] ELSE IF n = i + 1 THEN c ELSE s[n - 1]
  BY PutOne
<1> HIDE DEF put
<1> QED
  BY <1>2, <1>3, Zenon DEF IsPut

\* What is typed in the call, without brackets, makes it longer.
LEMMA TipAfterInsert ==
  ASSUME TipsIInv, NEW i, NEW c \in Tips!Chars, Tips!Insert(i, c)
  PROVE  TipsIInv'
<1> DEFINE leaves == c \in {"(", ")"} \/ i < tip.start \/ i > tip.end
<1>1. /\ sb \in Seq(Tips!Chars) /\ Len(sb) <= MaxCallText /\ tipInsert \in 0 .. Len(sb) /\ places \in BOOLEAN
      /\ tip \in [is_shown : BOOLEAN, start : Nat, end : Nat]
      /\ tip.start <= tip.end /\ tip.end <= Len(sb)
      /\ (tipWin.visible => tip.is_shown /\ IsCall(sb, tipInsert, tip.start, tip.end))
  BY DEF TipsIInv, PageTyped
<1>2. /\ i \in 0 .. Len(sb) /\ Len(sb) < MaxCallText /\ Len(sb) \in Nat /\ MaxCallText \in Nat
      /\ tipInsert' = IF tipInsert >= i THEN tipInsert + 1 ELSE tipInsert
  BY <1>1, TipsAssumption, LenProperties DEF Tips!Insert
<1>3. Tips!HideIf(leaves, IF tip.start > i THEN tip.start + 1 ELSE tip.start,
                          IF tip.end >= i THEN tip.end + 1 ELSE tip.end)
  BY DEF Tips!Insert
<1>4. sb' \in Seq(Tips!Chars) /\ Len(sb') = Len(sb) + 1
      /\ \A n \in 1 .. Len(sb) + 1 : sb'[n] = IF n <= i THEN sb[n] ELSE IF n = i + 1 THEN c ELSE sb[n - 1]
  <2>1. IsPut(sb, sb', i, c)
    BY <1>1, <1>2, InsertAtIs DEF Tips!Insert
  <2> QED
    BY <2>1 DEF IsPut
<1>5. PageTyped'
  <2>1. places' \in BOOLEAN
    BY <1>1, <1>3 DEF Tips!HideIf
  <2>2. tipInsert' \in 0 .. Len(sb') /\ Len(sb') <= MaxCallText
    BY <1>1, <1>2, <1>4
  <2> QED
    BY <1>4, <2>1, <2>2 DEF PageTyped
<1>6. CASE tip.is_shown /\ ~leaves
  <2>1. c \notin {"(", ")"} /\ tip.start <= i /\ i <= tip.end /\ tip.start \in Nat /\ tip.end \in Nat /\ i \in Nat
    BY <1>1, <1>2, <1>6
  <2>2. (IF tip.start > i THEN tip.start + 1 ELSE tip.start) = tip.start
        /\ (IF tip.end >= i THEN tip.end + 1 ELSE tip.end) = tip.end + 1
    BY <2>1
  <2>3. tip' = [tip EXCEPT !.start = tip.start, !.end = tip.end + 1] /\ places' = TRUE /\ tipWin' = tipWin
    BY <1>3, <1>6, <2>2, Zenon DEF Tips!HideIf
  <2>4. ASSUME tipWin.visible PROVE IsCall(sb', tipInsert', tip.start, tip.end + 1)
    <3>1. tip.start > 0 /\ sb[tip.start] = "(" /\ tip.start <= tipInsert /\ tipInsert <= tip.end
          /\ tip.end = Tips!Closer(sb, tip.start - 1)
      BY <1>1, <2>4 DEF IsCall
    <3>2. Tips!Closer(sb', tip.start - 1) = tip.end + 1
      <4> DEFINE p == tip.start
                 t == sb'
                 w == 0
                 v == 1
                 d == 1
      <4>1. /\ p \in Nat /\ i \in Nat /\ w \in Nat /\ v \in Nat /\ d = v - w
            /\ 0 < p /\ p <= i /\ sb[p] = "(" /\ i + w <= Tips!Closer(sb, p - 1) /\ p <= Len(sb)
        BY <1>1, <2>1, <3>1
      <4>2. sb \in Seq(Tips!Chars) /\ t \in Seq(Tips!Chars) /\ Len(t) = Len(sb) + d
            /\ \A n \in 1 .. i : t[n] = sb[n]
        BY <1>1, <1>2, <1>4
      <4>3. IsMoved(sb, t, i + w + 1, Len(sb), d)
        BY <1>2, <1>4, <2>1 DEF IsMoved
      <4>4. /\ \A n \in i + 1 .. i + w : sb[n] \notin {"(", ")"}
            /\ \A n \in i + 1 .. i + v : t[n] \notin {"(", ")"}
        BY <1>2, <1>4, <2>1
      <4>5. d = 1 /\ Tips!Closer(sb, p - 1) = tip.end
        BY <3>1
      <4> HIDE DEF p, t, w, v, d
      <4>7. GivesPlace(sb, t, p, i, w, v, d)
        BY <4>1, <4>2, <4>3, <4>4, Zenon DEF GivesPlace
      <4>6. Tips!Closer(t, p - 1) = Tips!Closer(sb, p - 1) + d
        BY <4>7, CloserMoves
      <4> QED
        BY <4>5, <4>6 DEF p, t
    <3>3. sb'[tip.start] = "("
      BY <1>1, <1>4, <2>1, <3>1
    <3>4. tip.start <= tipInsert' /\ tipInsert' <= tip.end + 1
      BY <1>1, <1>2, <2>1, <3>1
    <3> QED
      BY <3>1, <3>2, <3>3, <3>4 DEF IsCall
  <2>5. tip.start <= tip.end + 1 /\ tip.end + 1 <= Len(sb)' /\ tip.end + 1 \in Nat /\ tip.is_shown /\ places'
    BY <1>1, <1>2, <1>4, <1>6, <2>1, <2>3
  <2> DEFINE b == tip.end + 1
  <2>6. /\ b \in Nat /\ tip.start <= b /\ b <= Len(sb)' /\ tip' = [tip EXCEPT !.start = tip.start, !.end = b]
        /\ tipWin' = tipWin /\ (tipWin.visible => IsCall(sb', tipInsert', tip.start, b))
    BY <2>3, <2>4, <2>5
  <2> HIDE DEF b
  <2> QED
    BY <1>5, <2>1, <2>5, <2>6, TipStays, Zenon
<1>7. CASE ~(tip.is_shown /\ ~leaves)
  <2>1. Tips!Hide
    BY <1>3, <1>7 DEF Tips!HideIf
  <2> QED
    BY <1>5, <2>1, TipHides
<1> QED
  BY <1>6, <1>7

\* What is deleted in the call, without brackets, makes it shorter.
LEMMA TipAfterDelete ==
  ASSUME TipsIInv, NEW a, NEW b, Tips!DeleteRange(a, b)
  PROVE  TipsIInv'
<1> DEFINE leaves == (\E i \in a + 1 .. b : sb[i] \in {"(", ")"}) \/ a < tip.start \/ b > tip.end
<1>1. /\ sb \in Seq(Tips!Chars) /\ Len(sb) <= MaxCallText /\ tipInsert \in 0 .. Len(sb) /\ places \in BOOLEAN
      /\ tip \in [is_shown : BOOLEAN, start : Nat, end : Nat]
      /\ tip.start <= tip.end /\ tip.end <= Len(sb)
      /\ (tipWin.visible => tip.is_shown /\ IsCall(sb, tipInsert, tip.start, tip.end))
  BY DEF TipsIInv, PageTyped
<1>2. /\ a \in 0 .. Len(sb) /\ b \in a + 1 .. Len(sb) /\ Len(sb) \in Nat /\ MaxCallText \in Nat
      /\ tipInsert' = Tips!AfterDelete(tipInsert, a, b)
  BY <1>1, TipsAssumption, LenProperties DEF Tips!DeleteRange
<1>3. Tips!HideIf(leaves, Tips!AfterDelete(tip.start, a, b), Tips!AfterDelete(tip.end, a, b))
  BY DEF Tips!DeleteRange
<1>4. sb' \in Seq(Tips!Chars) /\ Len(sb') = Len(sb) - (b - a)
      /\ \A n \in 1 .. Len(sb) - (b - a) : sb'[n] = IF n <= a THEN sb[n] ELSE sb[n + (b - a)]
  <2> DEFINE cut == Parens!Cut(sb, a, b)
  <2>1. sb' = cut
    BY DEF Tips!DeleteRange, Parens!Cut
  <2>2. sb \in Seq(Tips!Chars) /\ a \in 0 .. Len(sb) /\ b \in a .. Len(sb)
    BY <1>1, <1>2
  <2>3. cut \in Seq(Tips!Chars) /\ Len(cut) = Len(sb) - (b - a)
        /\ \A n \in 1 .. Len(sb) - (b - a) : cut[n] = IF n <= a THEN sb[n] ELSE sb[n + (b - a)]
    BY <2>2, CutIs, Zenon
  <2> HIDE DEF cut
  <2> QED
    BY <2>1, <2>3, Zenon
<1>5. PageTyped'
  <2>1. places' \in BOOLEAN
    BY <1>1, <1>3 DEF Tips!HideIf
  <2>2. tipInsert' \in 0 .. Len(sb') /\ Len(sb') <= MaxCallText
    BY <1>1, <1>2, <1>4 DEF Tips!AfterDelete
  <2> QED
    BY <1>4, <2>1, <2>2 DEF PageTyped
<1>6. CASE tip.is_shown /\ ~leaves
  <2>1. /\ \A n \in a + 1 .. b : sb[n] \notin {"(", ")"}
        /\ tip.start <= a /\ b <= tip.end /\ tip.start \in Nat /\ tip.end \in Nat
        /\ a \in Nat /\ b \in Nat /\ a < b
    BY <1>1, <1>2, <1>6
  <2>2. Tips!AfterDelete(tip.start, a, b) = tip.start /\ Tips!AfterDelete(tip.end, a, b) = tip.end - (b - a)
    BY <2>1 DEF Tips!AfterDelete
  <2>3. tip' = [tip EXCEPT !.start = tip.start, !.end = tip.end - (b - a)] /\ places' = TRUE /\ tipWin' = tipWin
    BY <1>3, <1>6, <2>2, Zenon DEF Tips!HideIf
  <2>4. ASSUME tipWin.visible PROVE IsCall(sb', tipInsert', tip.start, tip.end - (b - a))
    <3>1. tip.start > 0 /\ sb[tip.start] = "(" /\ tip.start <= tipInsert /\ tipInsert <= tip.end
          /\ tip.end = Tips!Closer(sb, tip.start - 1)
      BY <1>1, <2>4 DEF IsCall
    <3>2. Tips!Closer(sb', tip.start - 1) = tip.end - (b - a)
      <4> DEFINE p == tip.start
                 t == sb'
                 w == b - a
                 v == 0
                 d == v - w
      <4>1. /\ p \in Nat /\ a \in Nat /\ w \in Nat /\ v \in Nat /\ d = v - w
            /\ 0 < p /\ p <= a /\ sb[p] = "(" /\ a + w <= Tips!Closer(sb, p - 1) /\ p <= Len(sb)
        BY <1>1, <2>1, <3>1
      <4>2. sb \in Seq(Tips!Chars) /\ t \in Seq(Tips!Chars) /\ Len(t) = Len(sb) + d
            /\ \A n \in 1 .. a : t[n] = sb[n]
        BY <1>1, <1>2, <1>4, <2>1
      <4>3. IsMoved(sb, t, a + w + 1, Len(sb), d)
        BY <1>2, <1>4, <2>1 DEF IsMoved
      <4>4. /\ \A n \in a + 1 .. a + w : sb[n] \notin {"(", ")"}
            /\ \A n \in a + 1 .. a + v : t[n] \notin {"(", ")"}
        BY <1>2, <2>1
      <4>5. d = - (b - a) /\ Tips!Closer(sb, p - 1) = tip.end
        BY <2>1, <3>1
      <4> HIDE DEF p, t, w, v, d
      <4>7. GivesPlace(sb, t, p, a, w, v, d)
        BY <4>1, <4>2, <4>3, <4>4, Zenon DEF GivesPlace
      <4>6. Tips!Closer(t, p - 1) = Tips!Closer(sb, p - 1) + d
        BY <4>7, CloserMoves
      <4> QED
        BY <2>1, <4>5, <4>6 DEF p, t
    <3>3. sb'[tip.start] = "("
      <4>1. tip.start \in 1 .. Len(sb) - (b - a) /\ tip.start <= a
        BY <1>1, <1>2, <2>1, <3>1
      <4> QED
        BY <1>4, <3>1, <4>1
    <3>4. tip.start <= tipInsert' /\ tipInsert' <= tip.end - (b - a)
      BY <1>1, <1>2, <2>1, <3>1 DEF Tips!AfterDelete
    <3>5. tip.start <= tip.end - (b - a)
      BY <2>1
    <3> QED
      BY <3>1, <3>2, <3>3, <3>4 DEF IsCall
  <2> DEFINE e == tip.end - (b - a)
  <2>5. /\ e \in Nat /\ tip.start <= e /\ e <= Len(sb)' /\ tip' = [tip EXCEPT !.start = tip.start, !.end = e]
        /\ tipWin' = tipWin /\ (tipWin.visible => IsCall(sb', tipInsert', tip.start, e))
    <3>1. e \in Nat /\ tip.start <= e /\ e <= Len(sb)'
      BY <1>1, <1>2, <1>4, <2>1
    <3> QED
      BY <2>3, <2>4, <3>1
  <2>6. tip.is_shown /\ places'
    BY <1>6, <2>3
  <2> HIDE DEF e
  <2> QED
    BY <1>5, <2>1, <2>5, <2>6, TipStays, Zenon
<1>7. CASE ~(tip.is_shown /\ ~leaves)
  <2>1. Tips!Hide
    BY <1>3, <1>7 DEF Tips!HideIf
  <2> QED
    BY <1>5, <2>1, TipHides
<1> QED
  BY <1>6, <1>7

\* The window is closed or dragged by the user, or hidden with its tab.
LEMMA TipAfterEscape == ASSUME TipsIInv, Tips!Escape PROVE TipsIInv' /\ ~tipWin'.visible
<1>1. WindowFits(tipWin') /\ ~tipWin'.visible
  BY HiddenIs DEF TipsIInv, Tips!Escape
<1>2. WindowFits(tipWin)'
  BY <1>1
<1>3. UNCHANGED <<sb, tipInsert, tip, places>>
  BY DEF Tips!Escape
<1> QED
  BY <1>1, <1>2, <1>3 DEF TipsIInv, PageTyped, Tips!PlacedByTheCall

\* The user drags the window.
LEMMA TipAfterDrag ==
  ASSUME TipsIInv, Tips!Drag
  PROVE  TipsIInv' /\ ~tipWin.was_dragged
<1>1. WindowFits(tipWin) /\ tipWin.visible /\ ~tipWin.was_dragged
      /\ tipWin' = [tipWin EXCEPT !.was_dragged = TRUE, !.at = Tips!NoWhere]
  BY DEF TipsIInv, Tips!Drag
<1>2. WindowFits(tipWin)' /\ tipWin'.visible /\ tipWin'.was_dragged
  BY <1>1 DEF WindowFits
<1>3. UNCHANGED <<sb, tipInsert, tip, places>>
  BY DEF Tips!Drag
<1> QED
  BY <1>1, <1>2, <1>3 DEF TipsIInv, PageTyped, Tips!PlacedByTheCall

\* On another page the tip is hidden.
LEMMA TipAfterSwitch ==
  ASSUME TipsIInv, NEW page \in CallPages, Tips!SwitchTab(page)
  PROVE  TipsIInv' /\ ~tipWin'.visible
<1> DEFINE w == Tips!WindowHidden(tipWin)
<1>1. WindowFits(w) /\ ~w.visible
  BY HiddenIs DEF TipsIInv
<1>2. tipWin' = [w EXCEPT !.blocks = 1]
  BY DEF Tips!SwitchTab
<1> HIDE DEF w
<1>3. w \in [visible : BOOLEAN, at : {w.at}, was_dragged : BOOLEAN, flag : BOOLEAN, blocks : Nat] /\ w.blocks = 1
  BY <1>1 DEF WindowFits
<1>4. tipWin' = w
  BY <1>2, <1>3
<1>5. WindowFits(tipWin)' /\ ~tipWin'.visible
  BY <1>1, <1>4
<1>6. sb' = page /\ tipInsert' \in 0 .. Len(page) /\ places' = places
      /\ tip' = [is_shown |-> FALSE, start |-> 0, end |-> 0]
  BY DEF Tips!SwitchTab, Tips!NoTip
<1>7. PageTyped' /\ Len(sb') \in Nat
  <2>1. page \in Seq(Tips!Chars) /\ Len(page) <= MaxCallText /\ Len(page) \in Nat
    BY TipsAssumption, LenProperties
  <2> QED
    BY <1>6, <2>1 DEF TipsIInv, PageTyped
<1> QED
  BY <1>5, <1>6, <1>7 DEF TipsIInv, Tips!PlacedByTheCall

\* The invariant holds at the start.
LEMMA TipsInit == Tips!Init => TipsIInv
<1> SUFFICES ASSUME Tips!Init PROVE TipsIInv
  OBVIOUS
<1>1. sb = <<>> /\ tipInsert = 0 /\ places = FALSE /\ tip = [is_shown |-> FALSE, start |-> 0, end |-> 0]
      /\ tipWin = [visible |-> FALSE, at |-> Tips!NoWhere, was_dragged |-> FALSE, flag |-> TRUE, blocks |-> 1]
  BY DEF Tips!Init, Tips!NoTip
<1>2. PageTyped
  <2>1. sb \in Seq(Tips!Chars) /\ Len(sb) = 0 /\ MaxCallText \in Nat
    BY <1>1, TipsAssumption
  <2>2. tipInsert = 0 /\ places \in BOOLEAN
    BY <1>1
  <2> QED
    BY <2>1, <2>2 DEF PageTyped
<1>3. WindowFits(tipWin) /\ ~tipWin.visible
  BY <1>1 DEF WindowFits
<1>4. tip \in [is_shown : BOOLEAN, start : Nat, end : Nat] /\ tip.start <= tip.end /\ tip.end <= Len(sb)
  BY <1>1
<1> QED
  BY <1>2, <1>3, <1>4 DEF TipsIInv, Tips!PlacedByTheCall

\* A dragged window is where it was.
WindowStays == tipWin.visible /\ tipWin.was_dragged /\ tipWin'.visible /\ tipWin'.was_dragged => tipWin'.at = tipWin.at

\* Every step keeps it, and leaves a dragged window where it is.
LEMMA TipsStep == TipsIInv /\ [Tips!Next]_(Tips!vars) => TipsIInv' /\ WindowStays
<1> SUFFICES ASSUME TipsIInv, [Tips!Next]_(Tips!vars) PROVE TipsIInv' /\ WindowStays
  OBVIOUS
<1>1. CASE Tips!ShowNow \/ Tips!ShowIdle
  BY <1>1, TipAfterShow DEF Tips!ShowNow, Tips!ShowIdle, WindowStays
<1>2. CASE Tips!PlaceWindow
  BY <1>2, TipAfterPlace DEF WindowStays
<1>3. CASE Tips!Leave
  <2>1. PageTyped'
    BY <1>3 DEF Tips!Leave, TipsIInv, PageTyped
  <2> QED
    BY <1>3, <2>1, TipHides DEF Tips!Leave, WindowStays
<1>4. CASE Tips!Escape
  BY <1>4, TipAfterEscape DEF WindowStays
<1>5. CASE Tips!Drag
  BY <1>5, TipAfterDrag DEF WindowStays
<1>6. CASE \E page \in CallPages : Tips!SwitchTab(page)
  BY <1>6, TipAfterSwitch DEF WindowStays
<1>7. CASE \E i \in 0 .. MaxCallText : Tips!MoveCursor(i)
  <2>1. PICK i : Tips!MoveCursor(i)
    BY <1>7
  <2>2. WindowStays
    <3>1. PageTyped'
      BY <2>1 DEF Tips!MoveCursor, Tips!HideIf, TipsIInv, PageTyped
    <3> QED
      BY <2>1, <3>1, TipHides DEF Tips!MoveCursor, Tips!HideIf, WindowStays
  <2> QED
    BY <2>1, <2>2, TipAfterMove
<1>8. CASE \E i \in 0 .. MaxCallText, c \in Tips!Chars : Tips!Insert(i, c)
  <2>1. PICK i \in 0 .. MaxCallText, c \in Tips!Chars : Tips!Insert(i, c)
    BY <1>8
  <2>2. TipsIInv'
    BY <2>1, TipAfterInsert
  <2>3. WindowStays
    <3>1. PageTyped'
      BY <2>2 DEF TipsIInv
    <3> QED
      BY <2>1, <3>1, TipHides DEF Tips!Insert, Tips!HideIf, WindowStays
  <2> QED
    BY <2>2, <2>3
<1>9. CASE \E a, b \in 0 .. MaxCallText : Tips!DeleteRange(a, b)
  <2>1. PICK a, b : Tips!DeleteRange(a, b)
    BY <1>9
  <2>2. TipsIInv'
    BY <2>1, TipAfterDelete
  <2>3. WindowStays
    <3>1. PageTyped'
      BY <2>2 DEF TipsIInv
    <3> QED
      BY <2>1, <3>1, TipHides DEF Tips!DeleteRange, Tips!HideIf, WindowStays
  <2> QED
    BY <2>2, <2>3
<1>10. CASE Tips!ParenLeft \/ UNCHANGED Tips!vars
  <2>1. UNCHANGED <<sb, tipInsert, tip, tipWin, places>>
    BY <1>10 DEF Tips!ParenLeft, Tips!vars
  <2>2. WindowFits(tipWin)' /\ Tips!PlacedByTheCall'
    BY <2>1 DEF TipsIInv, Tips!PlacedByTheCall
  <2> QED
    BY <2>1, <2>2 DEF TipsIInv, PageTyped, WindowStays
<1> QED
  BY <1>1, <1>2, <1>3, <1>4, <1>5, <1>6, <1>7, <1>8, <1>9, <1>10 DEF Tips!Next

\* The invariant says what the properties say.
LEMMA TipsMean == TipsIInv => Tips!TypeOK /\ Tips!KeysWhileVisible /\ Tips!CursorIsInTheCall /\ Tips!PlacedByTheCall
<1> SUFFICES ASSUME TipsIInv PROVE Tips!TypeOK /\ Tips!KeysWhileVisible /\ Tips!CursorIsInTheCall /\ Tips!PlacedByTheCall
  OBVIOUS
<1>1. Tips!TypeOK
  BY DEF TipsIInv, PageTyped, Tips!TypeOK
<1>2. Tips!KeysWhileVisible
  BY DEF TipsIInv, WindowFits, Tips!KeysWhileVisible
<1>3. ASSUME tipWin.visible
      PROVE  /\ tip.start > 0 /\ sb[tip.start] = "(" /\ tipInsert \in tip.start .. tip.end
             /\ tip.end = Tips!Closer(sb, tip.start - 1)
  BY <1>3 DEF TipsIInv, PageTyped, IsCall
<1>4. Tips!CursorIsInTheCall
  BY <1>3 DEF Tips!CursorIsInTheCall
<1> QED
  BY <1>1, <1>2, <1>4 DEF TipsIInv

\* For any pages and texts: keys are taken exactly while the tip is visible, the cursor is in the
\* call that is shown, the tip is by its call, and one that was dragged stays.
THEOREM TipsRight ==
  Tips!Spec => /\ [](Tips!TypeOK /\ Tips!KeysWhileVisible /\ Tips!CursorIsInTheCall /\ Tips!PlacedByTheCall)
               /\ Tips!DraggedStays
<1>1. Tips!Spec => []TipsIInv
  BY TipsInit, TipsStep, PTL DEF Tips!Spec
<1>2. TipsIInv /\ [Tips!Next]_(Tips!vars) =>
        [tipWin.visible /\ tipWin.was_dragged /\ tipWin'.visible /\ tipWin'.was_dragged => tipWin'.at = tipWin.at]_(Tips!vars)
  BY TipsStep DEF WindowStays
<1> QED
  BY <1>1, <1>2, TipsMean, PTL DEF Tips!Spec, Tips!DraggedStays

-----------------------------------------------------------------------------
\* For any texts, widths and strings: call tips and automatic parentheses are as HelpIsRight
\* says, whatever is typed in the source view, in any order with moving the cursor, Escape,
\* deleting, dragging the tip and changing tabs.
THEOREM HelpRight == TypingSpec => []HelpIsRight
<1>1. Tips!Spec => [](Tips!TypeOK /\ Tips!KeysWhileVisible /\ Tips!CursorIsInTheCall /\ Tips!PlacedByTheCall)
  BY TipsRight
<1>2. Parens!Spec => [](Parens!TypeOK /\ Parens!ParensAreThere /\ Parens!UndoneAsTyped)
  BY ParensRight
<1>3. Indent!Spec => []Indent!TypeOK
  BY IndentRight
<1>4. /\ Tips!TypeOK /\ Tips!KeysWhileVisible /\ Tips!CursorIsInTheCall /\ Tips!PlacedByTheCall
      /\ Parens!TypeOK /\ Parens!ParensAreThere /\ Parens!UndoneAsTyped /\ Indent!TypeOK
      => HelpIsRight
  BY DEF HelpIsRight
<1> QED
  BY <1>1, <1>2, <1>3, <1>4, PTL DEF TypingSpec

\* And the keys do what KeysAreRight says, from every state that is reached.
THEOREM KeysRight == TypingSpec => KeysAreRight
<1>1. Tips!Spec => Tips!DraggedStays
  BY TipsRight
<1>2. Parens!Spec => Parens!RefusedIsRespected /\ Parens!OperatorsAreUndone
  BY ParensRight
<1>3. Indent!Spec => Indent!BlocksStayTogether /\ Indent!ShiftTabUndoesTab /\ Indent!BackSpaceUndoesTab
  BY IndentRight
<1> QED
  BY <1>1, <1>2, <1>3 DEF TypingSpec, KeysAreRight
=============================================================================
