---------------------------- MODULE ResultHistory ----------------------------
(***************************************************************************)
(* The result history of the subprocess (subprocess/__init__.py): the      *)
(* values of executed expressions are bound to _, __ and ___ and, numbered,*)
(* to _0, _1, ... in the user's own namespace, where the user may rebind   *)
(* or delete any of those names.                                           *)
(***************************************************************************)
EXTENDS Integers, TLAPS

CONSTANTS
  Results,     \* what store_in_reshist binds: the values of expressions
  UserObjects, \* what the user binds to such a name by hand
  NoObject,    \* what an unbound name holds
  Sizes,       \* the values of reshist_size the GUI may set
  MaxResults   \* bound on the numbers given out

ASSUME SizesAssumption == Sizes \subseteq Nat
ASSUME MaxResultsAssumption == MaxResults \in Nat
ASSUME ObjectsAssumption ==
  /\ Results \cap UserObjects = {}
  /\ NoObject \notin Results \cup UserObjects

VARIABLES
  locs,     \* the numbered names that are bound, and to what
  under,    \* what _, __ and ___ are bound to
  counter,  \* reshist_counter
  size,     \* reshist_size
  shown     \* the result each number was reported with

vars == <<locs, under, counter, size, shown>>

Objects == Results \cup UserObjects
Names == 0 .. MaxResults  \* _0, _1, ...

TypeOK ==
  /\ DOMAIN locs \subseteq Names
  /\ \A i \in DOMAIN locs : locs[i] \in Objects
  /\ under \in [1 .. 3 -> Objects \cup {NoObject}]
  /\ counter \in 0 .. MaxResults
  /\ size \in Sizes \cup {0}
  /\ DOMAIN shown = 0 .. counter - 1
  /\ \A i \in DOMAIN shown : shown[i] \in Results

\* Mutations of the definitions that follow, each the mark of a plausible slip
\* in the code, have an underscore in their names and are used by no other
\* definition: TLC refutes a property with each of them.

EmptyMap == [i \in {} |-> NoObject]

Init ==
  /\ locs = EmptyMap /\ under = [k \in 1 .. 3 |-> NoObject]
  /\ counter = 0 /\ size = 0 /\ shown = EmptyMap

\* locs.pop('_i', None) for every i of a set.
Popped(map, S) == [i \in DOMAIN map \ S |-> map[i]]

Bound(map, i, v) == [j \in DOMAIN map \cup {i} |-> IF j = i THEN v ELSE map[j]]

\* _ moves to __ and __ to ___, those that are bound.
Shifted(r) ==
  [k \in 1 .. 3 |-> IF k = 1 THEN r
                    ELSE IF under[k - 1] # NoObject THEN under[k - 1] ELSE under[k]]

\* The name that leaves the window is the size-th before the new one.
\* Off by one: the name that is just inside goes.
Stored_offByOne(r) == Popped(Bound(locs, counter, r), {counter + 1 - size})
\* The counter is advanced before the value is bound.
Stored_late(r) == Popped(Bound(locs, counter + 1, r), {counter - size})
Stored(r) == Popped(Bound(locs, counter, r), {counter - size})

\* store_in_reshist, for a result that is not None.
StoreInReshist(r) ==
  /\ under' = Shifted(r)
  /\ IF size = 0
       THEN UNCHANGED <<locs, counter, shown>>
       ELSE /\ counter < MaxResults
            /\ locs' = Stored(r)
            /\ shown' = Bound(shown, counter, r)
            /\ counter' = counter + 1
  /\ UNCHANGED size

\* range(counter-size, counter-newSize)
\* The names at the wrong end of the window.
Surplus_newest(newSize) == {i \in Names : counter - (size - newSize) <= i /\ i < counter}
Surplus(newSize) == {i \in Names : counter - size <= i /\ i < counter - newSize}

SetReshistSize(newSize) ==
  /\ locs' = IF newSize < size THEN Popped(locs, Surplus(newSize)) ELSE locs
  /\ size' = newSize
  /\ UNCHANGED <<under, counter, shown>>

\* Clearing the history starts the numbering over.
ClearReshist_restarts ==
  /\ locs' = Popped(locs, Surplus(0))
  /\ counter' = 0
  /\ UNCHANGED <<under, size, shown>>

\* clear_reshist: all of the window, range(counter-size, counter).
ClearReshist ==
  /\ locs' = Popped(locs, Surplus(0))
  /\ UNCHANGED <<under, counter, size, shown>>

\* The user's code: _i = v, del _i, and the same with _, __ and ___.
UserBinds(i, v) ==
  /\ locs' = Bound(locs, i, v)
  /\ UNCHANGED <<under, counter, size, shown>>

UserDeletes(i) ==
  /\ i \in DOMAIN locs
  /\ locs' = Popped(locs, {i})
  /\ UNCHANGED <<under, counter, size, shown>>

UserSetsUnder(k, v) ==
  /\ under' = [under EXCEPT ![k] = v]
  /\ UNCHANGED <<locs, counter, size, shown>>

Next ==
  \/ \E r \in Results : StoreInReshist(r)
  \/ \E n \in Sizes : SetReshistSize(n)
  \/ ClearReshist
  \/ \E i \in Names, v \in UserObjects : UserBinds(i, v)
  \/ \E i \in Names : UserDeletes(i)
  \/ \E k \in 1 .. 3, v \in UserObjects \cup {NoObject} : UserSetsUnder(k, v)

Spec == Init /\ [][Next]_vars

-----------------------------------------------------------------------------
\* The numbers whose names hold a result.
Kept == {i \in DOMAIN locs : locs[i] \in Results}

\* Every number that was printed next to a result, and whose name holds a
\* result at all, names that very result.
NumbersAreTrue == \A i \in Kept : i < counter /\ locs[i] = shown[i]

\* The history never keeps alive a result older than the last reshist_size.
WindowIsBounded == \A i \in Kept : counter - size <= i

\* The subprocess's bookkeeping implements the sliding window: although each
\* call removes only the names it computes, no result outlives the window and
\* none inside it is dropped, through any sequence of resizes and clears.
Window == INSTANCE ResultWindow
            WITH Caps <- Sizes, kept <- Kept, next <- counter, cap <- size
WindowSpec == Window!Spec

-----------------------------------------------------------------------------
(***************************************************************************)
(* For every set of results, of objects of the user's and of sizes: the    *)
(* types of ResultHistory, its bound on what is kept alive, the truth of   *)
(* the numbers, and that it implements ResultWindow.                       *)
(***************************************************************************)
IInv == TypeOK /\ NumbersAreTrue /\ WindowIsBounded

USE SizesAssumption, MaxResultsAssumption, ObjectsAssumption

\* The numbers whose names hold a result in any assignment of the names.
KeptIn(map) == {i \in DOMAIN map : map[i] \in Results}

\* Popping names takes them, and nothing else, out of the kept ones.
LEMMA KeptAfterPop ==
  ASSUME NEW map, NEW S
  PROVE  KeptIn(Popped(map, S)) = KeptIn(map) \ S
BY DEF KeptIn, Popped

\* Binding a name to a result adds it to the kept ones.
LEMMA KeptAfterResult ==
  ASSUME NEW map, NEW i, NEW r \in Results
  PROVE  KeptIn(Bound(map, i, r)) = KeptIn(map) \cup {i}
BY DEF KeptIn, Bound

\* Binding a name to an object of the user's takes it from the kept ones.
LEMMA KeptAfterUser ==
  ASSUME NEW map, NEW i, NEW v \in UserObjects
  PROVE  KeptIn(Bound(map, i, v)) = KeptIn(map) \ {i}
BY DEF KeptIn, Bound

\* Initially nothing is bound.
LEMMA InitInductive == Init => IInv
BY DEF Init, IInv, TypeOK, NumbersAreTrue, WindowIsBounded, Kept, EmptyMap, Names, Objects

\* Types are preserved by every step.
LEMMA TypeStep == TypeOK /\ [Next]_vars => TypeOK'
<1> SUFFICES ASSUME TypeOK, [Next]_vars PROVE TypeOK'
  OBVIOUS
<1> USE DEF TypeOK, Names, Objects
<1>1. ASSUME NEW r \in Results, StoreInReshist(r) PROVE TypeOK'
  <2>1. under' \in [1 .. 3 -> Results \cup UserObjects \cup {NoObject}]
    BY <1>1 DEF StoreInReshist, Shifted
  <2>2. CASE size = 0
    BY <1>1, <2>1, <2>2 DEF StoreInReshist
  <2>3. CASE size # 0
    <3>1. counter < MaxResults /\ counter' = counter + 1 /\ size' = size
      BY <1>1, <2>3 DEF StoreInReshist
    <3>2. shown' = Bound(shown, counter, r) /\ locs' = Popped(Bound(locs, counter, r), {counter - size})
      BY <1>1, <2>3 DEF StoreInReshist, Stored
    <3>3. DOMAIN shown' = 0 .. counter' - 1
      BY <3>1, <3>2 DEF Bound
    <3>4. \A i \in DOMAIN shown' : shown'[i] \in Results
      BY <3>2 DEF Bound
    <3>5. DOMAIN locs' \subseteq 0 .. MaxResults
      BY <3>1, <3>2 DEF Bound, Popped
    <3>6. \A i \in DOMAIN locs' : locs'[i] \in Results \cup UserObjects
      BY <3>2 DEF Bound, Popped
    <3> QED BY <2>1, <3>1, <3>3, <3>4, <3>5, <3>6
  <2> QED BY <2>2, <2>3
<1>2. ASSUME NEW n \in Sizes, SetReshistSize(n) PROVE TypeOK'
  BY <1>2 DEF SetReshistSize, Popped
<1>3. ASSUME ClearReshist PROVE TypeOK'
  BY <1>3 DEF ClearReshist, Popped
<1>4. ASSUME NEW i \in Names, NEW v \in UserObjects, UserBinds(i, v) PROVE TypeOK'
  BY <1>4 DEF UserBinds, Bound
<1>5. ASSUME NEW i \in Names, UserDeletes(i) PROVE TypeOK'
  BY <1>5 DEF UserDeletes, Popped
<1>6. ASSUME NEW k \in 1 .. 3, NEW v \in UserObjects \cup {NoObject}, UserSetsUnder(k, v)
      PROVE  TypeOK'
  BY <1>6 DEF UserSetsUnder
<1>7. CASE UNCHANGED vars
  BY <1>7 DEF vars
<1> QED BY <1>1, <1>2, <1>3, <1>4, <1>5, <1>6, <1>7 DEF Next

\* What each kind of step does to the kept names, the numbering and the size:
\* it is a step of the sliding window, or none.
LEMMA WindowStep ==
  IInv /\ [Next]_vars => [Window!Next]_(Window!windowVars)
<1> SUFFICES ASSUME IInv, [Next]_vars
             PROVE  Window!Next \/ UNCHANGED <<Kept, counter, size>>
  BY DEF Window!windowVars
<1> USE DEF IInv, TypeOK, Names
<1>0. Kept = KeptIn(locs) /\ Kept' = KeptIn(locs') /\ Kept \subseteq 0 .. MaxResults
  BY DEF Kept, KeptIn
<1>b. \A i \in Kept : i < counter /\ counter - size <= i
  BY DEF WindowIsBounded, NumbersAreTrue
<1>1. ASSUME NEW r \in Results, StoreInReshist(r)
      PROVE  Window!Next \/ UNCHANGED <<Kept, counter, size>>
  <2>1. CASE size = 0
    BY <1>1, <2>1 DEF StoreInReshist, Kept
  <2>2. CASE size # 0
    <3>1. counter' = counter + 1 /\ size' = size
      BY <1>1, <2>2 DEF StoreInReshist
    <3>2. locs' = Popped(Bound(locs, counter, r), {counter - size})
      BY <1>1, <2>2 DEF StoreInReshist, Stored
    <3>3. Kept' = (Kept \cup {counter}) \ {counter - size}
      BY <1>0, <3>2, KeptAfterPop, KeptAfterResult
    <3>4. Kept' = {i \in Kept \cup {counter} : i + size >= counter + 1}
      BY <3>3, <1>0, <1>b, <2>2
    <3>5. Window!Remember
      BY <3>1, <3>4, <2>2 DEF Window!Remember
    <3> QED BY <3>5 DEF Window!Next
  <2> QED BY <2>1, <2>2
<1>2. ASSUME NEW n \in Sizes, SetReshistSize(n)
      PROVE  Window!Next \/ UNCHANGED <<Kept, counter, size>>
  <2>1. CASE n < size
    <3>1. Kept' = Kept \ Surplus(n)
      BY <1>0, <1>2, <2>1, KeptAfterPop DEF SetReshistSize
    <3>2. Kept' = {i \in Kept : i + n >= counter}
      BY <3>1, <1>0, <1>b, <2>1 DEF Surplus
    <3>3. Window!Resize(n)
      BY <3>2, <1>2 DEF SetReshistSize, Window!Resize
    <3> QED BY <3>3 DEF Window!Next
  <2>2. CASE ~(n < size)
    <3>1. Kept' = Kept
      BY <1>0, <1>2, <2>2 DEF SetReshistSize
    <3>2. Kept' = {i \in Kept : i + n >= counter}
      BY <3>1, <1>0, <1>b, <2>2
    <3>3. Window!Resize(n)
      BY <3>2, <1>2 DEF SetReshistSize, Window!Resize
    <3> QED BY <3>3 DEF Window!Next
  <2> QED BY <2>1, <2>2
<1>3. ASSUME ClearReshist
      PROVE  Window!Next \/ UNCHANGED <<Kept, counter, size>>
  <2>1. Kept' = Kept \ Surplus(0)
    BY <1>0, <1>3, KeptAfterPop DEF ClearReshist
  <2>2. Kept' = {}
    BY <2>1, <1>0, <1>b DEF Surplus
  <2>3. Window!Clear
    BY <2>2, <1>3 DEF ClearReshist, Window!Clear
  <2> QED BY <2>3 DEF Window!Next
<1>4. ASSUME NEW i \in Names, NEW v \in UserObjects, UserBinds(i, v)
      PROVE  Window!Next \/ UNCHANGED <<Kept, counter, size>>
  <2>1. Kept' = Kept \ {i}
    BY <1>0, <1>4, KeptAfterUser DEF UserBinds
  <2>2. Window!Forget
    BY <2>1, <1>4 DEF UserBinds, Window!Forget
  <2> QED BY <2>2 DEF Window!Next
<1>5. ASSUME NEW i \in Names, UserDeletes(i)
      PROVE  Window!Next \/ UNCHANGED <<Kept, counter, size>>
  <2>1. Kept' = Kept \ {i}
    BY <1>0, <1>5, KeptAfterPop DEF UserDeletes
  <2>2. Window!Forget
    BY <2>1, <1>5 DEF UserDeletes, Window!Forget
  <2> QED BY <2>2 DEF Window!Next
<1>6. ASSUME NEW k \in 1 .. 3, NEW v \in UserObjects \cup {NoObject}, UserSetsUnder(k, v)
      PROVE  UNCHANGED <<Kept, counter, size>>
  BY <1>6 DEF UserSetsUnder, Kept
<1>7. CASE UNCHANGED vars
  BY <1>7 DEF vars, Kept
<1> QED BY <1>1, <1>2, <1>3, <1>4, <1>5, <1>6, <1>7 DEF Next

\* A step of the window keeps it within its bounds: what it keeps is a part of
\* what was there, or the newest, and lies within the capacity.
LEMMA BoundedStep ==
  IInv /\ [Next]_vars => WindowIsBounded'
<1> SUFFICES ASSUME IInv, [Next]_vars PROVE WindowIsBounded'
  OBVIOUS
<1>1. CASE UNCHANGED <<Kept, counter, size>>
  BY <1>1 DEF IInv, WindowIsBounded
<1>2. CASE Window!Next
  <2>1. Kept \subseteq Nat /\ counter \in Nat /\ size \in Nat
    BY DEF IInv, TypeOK, Kept, Names
  <2>2. CASE Window!Remember
    BY <2>1, <2>2 DEF Window!Remember, WindowIsBounded
  <2>3. ASSUME NEW n \in Sizes, Window!Resize(n) PROVE WindowIsBounded'
    BY <2>1, <2>3 DEF Window!Resize, WindowIsBounded
  <2>4. CASE Window!Clear
    BY <2>4 DEF Window!Clear, WindowIsBounded
  <2>5. CASE Window!Forget
    BY <2>5 DEF Window!Forget, WindowIsBounded, IInv
  <2> QED BY <1>2, <2>2, <2>3, <2>4, <2>5 DEF Window!Next
<1> QED BY <1>1, <1>2, WindowStep DEF Window!windowVars

\* The numbers stay true: the only step that binds a result to a name also
\* gives out that name's number, and no other step binds one.
LEMMA NumbersStep ==
  IInv /\ [Next]_vars => NumbersAreTrue'
<1> SUFFICES ASSUME IInv, [Next]_vars PROVE NumbersAreTrue'
  OBVIOUS
<1> USE DEF IInv, TypeOK, Names, NumbersAreTrue, Kept
<1>1. ASSUME NEW r \in Results, StoreInReshist(r) PROVE NumbersAreTrue'
  <2>1. CASE size = 0
    BY <1>1, <2>1 DEF StoreInReshist
  <2>2. CASE size # 0
    <3>1. counter' = counter + 1 /\ shown' = Bound(shown, counter, r)
      BY <1>1, <2>2 DEF StoreInReshist
    <3>2. locs' = Popped(Bound(locs, counter, r), {counter - size})
      BY <1>1, <2>2 DEF StoreInReshist, Stored
    <3> QED BY <3>1, <3>2 DEF Bound, Popped
  <2> QED BY <2>1, <2>2
<1>2. ASSUME NEW n \in Sizes, SetReshistSize(n) PROVE NumbersAreTrue'
  BY <1>2 DEF SetReshistSize, Popped
<1>3. ASSUME ClearReshist PROVE NumbersAreTrue'
  BY <1>3 DEF ClearReshist, Popped
<1>4. ASSUME NEW i \in Names, NEW v \in UserObjects, UserBinds(i, v) PROVE NumbersAreTrue'
  BY <1>4 DEF UserBinds, Bound
<1>5. ASSUME NEW i \in Names, UserDeletes(i) PROVE NumbersAreTrue'
  BY <1>5 DEF UserDeletes, Popped
<1>6. ASSUME NEW k \in 1 .. 3, NEW v \in UserObjects \cup {NoObject}, UserSetsUnder(k, v)
      PROVE  NumbersAreTrue'
  BY <1>6 DEF UserSetsUnder
<1>7. CASE UNCHANGED vars
  BY <1>7 DEF vars
<1> QED BY <1>1, <1>2, <1>3, <1>4, <1>5, <1>6, <1>7 DEF Next

LEMMA StepInductive == IInv /\ [Next]_vars => IInv'
BY TypeStep, BoundedStep, NumbersStep DEF IInv

\* The inductive invariant: types, true numbers and the bound, together.
THEOREM Inductive == Spec => []IInv
BY InitInductive, StepInductive, PTL DEF Spec

\* Every number shown next to a result whose name holds a result names that
\* very result (store_in_reshist, set_reshist_size, clear_reshist).
THEOREM NumbersTrue == Spec => []NumbersAreTrue
<1>1. IInv => NumbersAreTrue
  BY DEF IInv
<1> QED BY <1>1, Inductive, PTL

\* No result older than the last reshist_size is kept alive by its name.
THEOREM WindowBounded == Spec => []WindowIsBounded
<1>1. IInv => WindowIsBounded
  BY DEF IInv
<1> QED BY <1>1, Inductive, PTL

\* The bookkeeping of the subprocess implements the sliding window: every step
\* that it takes on its names is one of the window's, or none.
THEOREM ImplementsWindow == Spec => WindowSpec
<1>1. Init => Window!Init
  BY DEF Init, Window!Init, Kept, EmptyMap
<1>2. IInv /\ [Next]_vars => [Window!Next]_(Window!windowVars)
  BY WindowStep
<1> QED BY <1>1, <1>2, Inductive, PTL DEF Spec, WindowSpec, Window!Spec
=============================================================================
