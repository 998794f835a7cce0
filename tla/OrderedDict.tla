------------------------------ MODULE OrderedDict ------------------------------
(***************************************************************************)
(* odict.py: the dictionary that keeps its items in order, with which      *)
(* config.py reads and writes the sections and keys of the configuration,  *)
(* and its variant whose keys, values and items are lists to be changed.   *)
(* The order is one object, _sequence, and the values another, the dict:   *)
(* every method changes both, and one that raises stops half way.          *)
(* A method is an operator from the dictionary before the call to the one  *)
(* after it, as it is left also when the call raises.                      *)
(***************************************************************************)
EXTENDS Integers, Sequences, FiniteSets, SequencesExt, Functions

CONSTANTS
  Keys,     \* numbers, to be sorted
  Values,
  Offsets,  \* positions given to the methods; below 0 they count from the end
  MaxItems  \* bound: the length of a list that is given to a method

Pairs == Keys \X Values

\* What an update is from: pairs, a key perhaps twice.
Lists == BoundedSeq(Pairs, MaxItems)

KeysOf(items) == [i \in DOMAIN items |-> items[i][1]]

\* What the slice assignment of OrderedDict is from: another one.
Others == {items \in Lists : IsInjective(KeysOf(items))}

\* A slice: the offsets from start up to stop, or with a step, all of the
\* sequence in steps: every second one, or backwards.
Slices == {[start |-> a, stop |-> b, step |-> 0] : a, b \in Offsets}
          \cup {[start |-> 0, stop |-> 0, step |-> c] : c \in {2, -1}}

VARIABLES
  self  \* the object: its _sequence, the dict that it is, strict, and whether the
        \* last call has raised

vars == <<self>>

\* An offset in a list of n items, as slices and insert take it.
Clip(i, n) == IF i < 0 THEN (IF i + n < 0 THEN 0 ELSE i + n) ELSE IF i > n THEN n ELSE i

\* range(n)[s]: the offsets of a slice.
Indexes(s, n) ==
  CASE s.step = 0  -> LET a == Clip(s.start, n)
                          b == Clip(s.stop, n)
                      IN  [i \in 1 .. (IF b > a THEN b - a ELSE 0) |-> a + i - 1]
    [] s.step = 2  -> [i \in 1 .. (n + 1) \div 2 |-> 2 * (i - 1)]
    [] s.step = -1 -> [i \in 1 .. n |-> n - i]

\* Whether list[i] is there, and what it is.
InRange(i, n) == i < n /\ i >= -n

At(list, i) == list[(IF i < 0 THEN i + Len(list) ELSE i) + 1]

Slice(list, s) == LET indexes == Indexes(s, Len(list)) IN [i \in DOMAIN indexes |-> list[indexes[i] + 1]]

Has(d, k) == k \in DOMAIN d.dict

Raise(d) == [d EXCEPT !.raised = TRUE]

\* items()
items(d) == [i \in DOMAIN d.sequence |-> <<d.sequence[i], d.dict[d.sequence[i]]>>]

\* d == other, for another OrderedDict: the order counts; d != other is its opposite.
Equal(d, other) == items(d) = items(other)

\* d[s]: the items of a slice, as another OrderedDict.
GetSlice(d, s) ==
  LET keys == Slice(d.sequence, s) IN [i \in DOMAIN keys |-> <<keys[i], d.dict[keys[i]]>>]

\* f is done with the elements of a list in turn, until a call of it raises.
InTurn(d, list, f(_, _)) == FoldLeft(LAMBDA e, x : IF e.raised THEN e ELSE f(e, x), d, list)

Init ==
  self \in [sequence : {<<>>}, dict : {<<>>}, strict : BOOLEAN, raised : {FALSE}]

-------------------------------------------------------------------------------
(* OrderedDict *)

\* del d[k]
DelItem(d, k) ==
  IF Has(d, k)
  THEN [d EXCEPT !.sequence = RemoveFirst(@, k), !.dict = Restrict(@, DOMAIN @ \ {k})]
  ELSE Raise(d)

\* del d[s]
DelSlice(d, s) ==
  LET gone == Range(Slice(d.sequence, s))
  IN  [d EXCEPT !.sequence = SelectSeq(@, LAMBDA k : k \notin gone),
                !.dict = Restrict(@, DOMAIN @ \ gone)]

\* d[k] = v
SetItem(d, k, v) ==
  [d EXCEPT !.sequence = IF Has(d, k) THEN @ ELSE Append(@, k), !.dict = (k :> v) @@ @]

\* Mutations of the definitions that follow, each the mark of a plausible slip
\* in the code, have an underscore in their names and are used by no other
\* definition: TLC refutes a property with each of them.

\* A key that is there is not deleted first.
insert_again(d, i, k, v) ==
  [d EXCEPT !.sequence = InsertAt(@, Clip(i, Len(@)) + 1, k), !.dict = (k :> v) @@ @]

insert(d, i, k, v) ==
  LET e == IF Has(d, k) THEN DelItem(d, k) ELSE d
  IN  [e EXCEPT !.sequence = InsertAt(@, Clip(i, Len(@)) + 1, k), !.dict = (k :> v) @@ @]

\* Without the test of strict.
SetPlainSlice_lax(d, s, other) ==
  LET e == InTurn(DelSlice(d, s), KeysOf(other), LAMBDA f, k : IF Has(f, k) THEN DelItem(f, k) ELSE f)
      pos == Clip(s.start, Len(e.sequence))
  IN  [e EXCEPT !.sequence = SubSeq(@, 1, pos) \o KeysOf(other) \o SubSeq(@, pos + 1, Len(@)),
                !.dict = [k \in Range(KeysOf(other)) |-> (CHOOSE x \in Range(other) : x[1] = k)[2]] @@ @]

\* d[s] = other without a step: the slice is deleted, then the keys that are elsewhere.
SetPlainSlice(d, s, other) ==
  LET Drop(e, k) ==
        IF ~Has(e, k) THEN e
        ELSE IF d.strict THEN Raise(e)
        ELSE DelItem(e, k)
      e == InTurn(DelSlice(d, s), KeysOf(other), Drop)
      pos == Clip(s.start, Len(e.sequence))
  IN  IF e.raised THEN e
      ELSE [e EXCEPT !.sequence = SubSeq(@, 1, pos) \o KeysOf(other) \o SubSeq(@, pos + 1, Len(@)),
                     !.dict = [k \in Range(KeysOf(other)) |-> (CHOOSE x \in Range(other) : x[1] = k)[2]] @@ @]

\* zip(indexes, list), and sorted: the smallest indexes first.
Zipped(indexes, list) == [i \in DOMAIN indexes |-> <<indexes[i], list[i]>>]

Sorted(zipped) == SortSeq(zipped, LAMBDA x, y : x[1] < y[1])

\* The list is not sorted.
SetExtendedSlice_zip(d, s, other) ==
  LET indexes == Indexes(s, Len(d.sequence))
  IN  IF Len(indexes) # Len(other) THEN Raise(d)
      ELSE InTurn(DelSlice(d, s), Zipped(indexes, other), LAMBDA e, x : insert(e, x[1], x[2][1], x[2][2]))

\* d[s] = other with a step.
SetExtendedSlice(d, s, other) ==
  LET indexes == Indexes(s, Len(d.sequence))
      Place(e, x) == IF d.strict /\ Has(e, x[2][1]) THEN Raise(e) ELSE insert(e, x[1], x[2][1], x[2][2])
  IN  IF Len(indexes) # Len(other) THEN Raise(d)
      ELSE InTurn(DelSlice(d, s), Sorted(Zipped(indexes, other)), Place)

SetSlice(d, s, other) ==
  IF s.step = 0 THEN SetPlainSlice(d, s, other) ELSE SetExtendedSlice(d, s, other)

clear(d) == [d EXCEPT !.sequence = <<>>, !.dict = <<>>]

\* Without a default.
pop(d, k) == DelItem(d, k)

popitem(d, i) ==
  IF InRange(i, Len(d.sequence)) THEN pop(d, At(d.sequence, i)) ELSE Raise(d)

setdefault(d, k, v) == IF Has(d, k) THEN d ELSE SetItem(d, k, v)

\* bad: an element after the list that is no pair.
update(d, list, bad) ==
  LET e == InTurn(d, list, LAMBDA f, x : SetItem(f, x[1], x[2]))
  IN  IF bad THEN Raise(e) ELSE e

rename(d, old, new) ==
  IF new = old THEN d
  ELSE IF Has(d, new) \/ ~Has(d, old) THEN Raise(d)
  ELSE [d EXCEPT !.sequence = [i \in DOMAIN @ |-> IF @[i] = old THEN new ELSE @[i]],
                 !.dict = (new :> @[old]) @@ Restrict(@, DOMAIN @ \ {old})]

setitems(d, list, bad) == update(clear(d), list, bad)

sort(d) == [d EXCEPT !.sequence = SortSeq(@, <)]

reverse(d) == [d EXCEPT !.sequence = Reverse(@)]

\* The sequence is sorted where it is, for the comparison.
setkeys(d, keys) ==
  IF SortSeq(keys, <) # sort(d).sequence THEN Raise(sort(d)) ELSE [d EXCEPT !.sequence = keys]

setvalues(d, values) ==
  IF Len(values) # Len(d.sequence) THEN Raise(d)
  ELSE update(d, [i \in DOMAIN values |-> <<d.sequence[i], values[i]>>], FALSE)

-------------------------------------------------------------------------------
(* SequenceOrderedDict: keys, items and values *)

\* The values are those of the keys before, in their old order.
KeysSetSlice_order(d, s, names) ==
  LET indexes == Indexes(s, Len(d.sequence))
      old == Slice(d.sequence, s)
      pairs == [i \in DOMAIN names |-> <<names[i], d.dict[old[i]]>>]
  IN  IF Len(indexes) # Len(names) \/ SortSeq(old, <) # SortSeq(names, <) THEN Raise(d)
      ELSE InTurn(DelSlice(d, s), Sorted(Zipped(indexes, pairs)), LAMBDA e, x : insert(e, x[1], x[2][1], x[2][2]))

\* d.keys[s] = names
KeysSetSlice(d, s, names) ==
  LET indexes == Indexes(s, Len(d.sequence))
      old == Slice(d.sequence, s)
      pairs == [i \in DOMAIN names |-> <<names[i], d.dict[names[i]]>>]
      Place(e, x) == IF d.strict /\ Has(e, x[2][1]) THEN Raise(e) ELSE insert(e, x[1], x[2][1], x[2][2])
  IN  IF Len(indexes) # Len(names) \/ SortSeq(old, <) # SortSeq(names, <) THEN Raise(d)
      ELSE InTurn(DelSlice(d, s), Sorted(Zipped(indexes, pairs)), Place)

\* The item is deleted and then set as a key is.
ItemsSet_set(d, i, k, v) ==
  IF ~InRange(i, Len(d.sequence)) THEN Raise(d)
  ELSE SetItem(DelItem(d, At(d.sequence, i)), k, v)

\* d.items[i] = (k, v). That the key is there is asked of the items, which are
\* pairs: the answer is no.
ItemsSet(d, i, k, v) ==
  IF ~InRange(i, Len(d.sequence)) THEN Raise(d)
  ELSE insert(DelItem(d, At(d.sequence, i)), i, k, v)

\* d.items[s] = list
ItemsSetSlice(d, s, list) ==
  LET other == update(clear([d EXCEPT !.strict = FALSE]), list, FALSE) IN SetSlice(d, s, items(other))

\* del d.items[i]; d.items.pop(i) is the same
ItemsDel(d, i) == popitem(d, i)

\* del d.items[s]
ItemsDelSlice(d, s) == InTurn(d, Slice(d.sequence, s), DelItem)

\* d.items.remove((k, v))
ItemsRemove(d, k, v) ==
  IF Has(d, k) /\ d.dict[k] = v THEN DelItem(d, k) ELSE Raise(d)

\* d.values[i] = v
ValuesSet(d, i, v) ==
  IF InRange(i, Len(d.sequence)) THEN SetItem(d, At(d.sequence, i), v) ELSE Raise(d)

\* d.values[s] = list
ValuesSetSlice(d, s, list) ==
  LET keys == Slice(d.sequence, s)
  IN  IF Len(keys) # Len(list) THEN Raise(d)
      ELSE update(d, [i \in DOMAIN keys |-> <<keys[i], list[i]>>], FALSE)

ValuesReverse(d) == setvalues(d, Reverse([i \in DOMAIN d.sequence |-> d.dict[d.sequence[i]]]))

-------------------------------------------------------------------------------
(* The calls *)

\* The object before a call.
Before == [self EXCEPT !.raised = FALSE]

Delete ==
  \/ \E k \in Keys : self' = pop(Before, k)
  \/ \E s \in Slices : self' = DelSlice(Before, s) \/ self' = ItemsDelSlice(Before, s)
  \/ \E i \in Offsets : self' = popitem(Before, i)
  \/ \E k \in Keys, v \in Values : self' = ItemsRemove(Before, k, v)
  \/ self' = clear(Before)

Assign ==
  \/ \E k \in Keys, v \in Values : self' = SetItem(Before, k, v) \/ self' = setdefault(Before, k, v)
  \/ \E i \in Offsets, k \in Keys, v \in Values :
       self' = insert(Before, i, k, v) \/ self' = ItemsSet(Before, i, k, v)
  \/ \E s \in Slices, other \in Others : self' = SetSlice(Before, s, other)
  \/ \E s \in Slices, list \in Lists : self' = ItemsSetSlice(Before, s, list)
  \/ \E list \in Lists, bad \in BOOLEAN :
       self' = update(Before, list, bad) \/ self' = setitems(Before, list, bad)

Rename == \E old, new \in Keys : self' = rename(Before, old, new)

Reorder ==
  \/ self' = sort(Before) \/ self' = reverse(Before)
  \/ \E keys \in BoundedSeq(Keys, Cardinality(Keys)) :
       \/ self' = setkeys(Before, keys)
       \/ \E s \in Slices : self' = KeysSetSlice(Before, s, keys)

Revalue ==
  \/ \E i \in Offsets, v \in Values : self' = ValuesSet(Before, i, v)
  \/ \E list \in BoundedSeq(Values, Cardinality(Keys)) :
       \/ self' = setvalues(Before, list)
       \/ \E s \in Slices : self' = ValuesSetSlice(Before, s, list)
  \/ self' = ValuesReverse(Before)

Next == Delete \/ Assign \/ Rename \/ Reorder \/ Revalue

Spec == Init /\ [][Next]_vars

-------------------------------------------------------------------------------
\* The order and the dict are of the same keys, each once, after every call and
\* also when it has raised in the middle.
KeysAgree ==
  /\ self.sequence \in Seq(Keys) /\ self.dict \in [Range(self.sequence) -> Values]
  /\ IsInjective(self.sequence)

\* A change of the order, by setkeys or by a slice of keys, even one that raises,
\* leaves every key its value, though the items are deleted and put back.
ReorderKeepsValues ==
  \A keys \in BoundedSeq(Keys, Cardinality(Keys)) :
    /\ setkeys(Before, keys).dict = self.dict
    /\ \A s \in Slices : KeysSetSlice(Before, s, keys).dict = self.dict

\* "Set item at position i to item." (Items.__setitem__): it is there afterwards,
\* unless its key is the key of another item.
ItemIsAtPosition ==
  \A i \in Offsets, k \in Keys, v \in Values :
    LET d == ItemsSet(Before, i, k, v)
    IN  ~d.raised /\ (Has(self, k) => At(self.sequence, i) = k) => At(items(d), i) = <<k, v>>

\* What the assignment of a slice makes of a list.
ListSetSlice(list, s, new) ==
  LET n == Len(list)
      a == Clip(s.start, n)
      b == IF Clip(s.stop, n) > a THEN Clip(s.stop, n) ELSE a
      indexes == Indexes(s, n)
  IN  IF s.step = 0
      THEN SubSeq(list, 1, a) \o new \o SubSeq(list, b + 1, n)
      ELSE [i \in 1 .. n |-> IF \E j \in DOMAIN indexes : indexes[j] = i - 1
                             THEN new[CHOOSE j \in DOMAIN indexes : indexes[j] = i - 1]
                             ELSE list[i]]

\* The keys of the items that are not in a slice.
Rest(s) == Range(self.sequence) \ Range(Slice(self.sequence, s))

\* The assignment of a slice is that of a list, if the new keys are not among the
\* rest of the dictionary.
SlicesAreSet ==
  \A s \in Slices, other \in Others :
    LET d == SetSlice(Before, s, other)
    IN  ~d.raised /\ Range(KeysOf(other)) \cap Rest(s) = {} => items(d) = ListSetSlice(items(self), s, other)

\* In a strict dictionary the assignment of a slice, done or refused, leaves the
\* other items as they are, and in their order.
StrictKeepsTheRest ==
  \A s \in Slices, other \in Others :
    LET d == SetSlice(Before, s, other)
        OfRest(item) == item[1] \in Rest(s)
    IN  self.strict => SelectSeq(items(d), OfRest) = SelectSeq(items(self), OfRest)

\* What a slice gives can be put back: the dictionary is equal to what it was, in its order,
\* also a strict one, although the slice is deleted and its keys are set one by one.
SliceIsPutBack ==
  \A s \in Slices :
    LET d == SetSlice(Before, s, GetSlice(self, s)) IN ~d.raised /\ Equal(d, self)
===============================================================================
