-------------------------------- MODULE Brine ---------------------------------
(***************************************************************************)
(* brine.py: objects to bytes and back.  An object is a record of its type *)
(* and its value; a string is the sequence of its bytes in UTF-8, a number *)
(* in floating point that of its eight (a complex one of its sixteen), an  *)
(* int a number.  Bytes are the numbers 0 to 255.  A "str" is text; what   *)
(* Python 2 calls str is "bytes", and a "long" is of Python 2 only.        *)
(***************************************************************************)
EXTENDS Integers, Sequences, SequencesExt

CONSTANTS
  Objects,  \* the objects to convert
  Python3,  \* the interpreter is Python 3
  L1Limit   \* lengths from here on take four bytes instead of one: 256 in the code

\* The tags, in hexadecimal in the code.
Tag == [none |-> 0, emptyStr |-> 1, emptyTuple |-> 2, true |-> 3, false |-> 4, notImplemented |-> 5,
        ellipsis |-> 6, str |-> 9, strL1 |-> 14, strL4 |-> 15, tup |-> 15, tupL1 |-> 20, tupL4 |-> 21,
        intL1 |-> 22, intL4 |-> 23, float |-> 24, slice |-> 25, fset |-> 26, complex |-> 27,
        emptyList |-> 28, list1 |-> 29, listL1 |-> 30, listL4 |-> 31]

\* A singleton has no value.
Single(t) == [t |-> t, v |-> <<>>]

\* What the caller gets for a type that _dump does not know.
TypeError == <<-1>>

\* Struct("!L"): four bytes, the highest first.
I4(n) == << n \div 16777216, (n \div 65536) % 256, (n \div 256) % 256, n % 256 >>

FromI4(b) == ((b[1] * 256 + b[2]) * 256 + b[3]) * 256 + b[4]

\* Mutations of the definitions that follow, each the mark of a plausible slip
\* in the code, have an underscore in their names and are used by no other
\* definition: TLC refutes a property with each of them.

\* A length of 256 is put into one byte.
Length_over(l, tagL1, tagL4) == IF l <= L1Limit THEN << tagL1, l % 256 >> ELSE << tagL4 >> \o I4(l)

\* A tag with the length after it.
Length(l, tagL1, tagL4) == IF l < L1Limit THEN << tagL1, l >> ELSE << tagL4 >> \o I4(l)

\* IMM_INTS: small ints are one byte, from 32 to 239.
IsImmediate(n) == n \in -48 .. 159

\* str(n) and int(s): a minus sign is 45, a zero 48.
Digits(n) ==
  LET m     == IF n < 0 THEN -n ELSE n
      power[i \in 0 .. 9] == IF i = 0 THEN 1 ELSE 10 * power[i - 1]
      count == CHOOSE k \in 1 .. 10 : (k = 10 \/ m < power[k]) /\ (k = 1 \/ m >= power[k - 1])
  IN  (IF n < 0 THEN <<45>> ELSE <<>>) \o [i \in 1 .. count |-> 48 + ((m \div power[count - i]) % 10)]

Number(s) ==
  LET digits == IF s[1] = 45 THEN Tail(s) ELSE s
      m      == FoldLeft(LAMBDA n, c : 10 * n + c - 48, 0, digits)
  IN  IF s[1] = 45 THEN -m ELSE m

\* _dump and the functions registered for it.  The items of a frozenset come in
\* some order.
RECURSIVE Dump(_)
Dump(obj) ==
  LET l     == Len(obj.v)
      items == [i \in 1 .. l |-> Dump(obj.v[i])]
      whole(bytes) == IF \E i \in 1 .. l : items[i] = TypeError THEN TypeError
                      ELSE bytes \o FlattenSeq(items)
  IN  CASE obj.t \in {"none", "notImplemented", "ellipsis", "true", "false"} -> << Tag[obj.t] >>
        [] obj.t = "int" ->
             IF IsImmediate(obj.v) THEN << obj.v + 80 >>
             ELSE IF Python3 THEN TypeError  \* bytes + str(obj)
             ELSE Length(Len(Digits(obj.v)), Tag.intL1, Tag.intL4) \o Digits(obj.v)
        [] obj.t = "str" ->
             (IF l = 0 THEN << Tag.emptyStr >>
              ELSE IF l <= 4 THEN << Tag.str + l >>
              ELSE Length(l, Tag.strL1, Tag.strL4)) \o obj.v
        [] obj.t = "tuple" ->
             whole(IF l = 0 THEN << Tag.emptyTuple >>
                   ELSE IF l <= 4 THEN << Tag.tup + l >>
                   ELSE Length(l, Tag.tupL1, Tag.tupL4))
        [] obj.t = "list" ->
             whole(IF l = 0 THEN << Tag.emptyList >>
                   ELSE IF l = 1 THEN << Tag.list1 >>
                   ELSE Length(l, Tag.listL1, Tag.listL4))
        [] obj.t \in {"float", "complex"} -> << Tag[obj.t] >> \o obj.v
        [] obj.t \in {"slice", "fset"} ->
             LET s == Dump([t |-> "tuple", v |-> IF obj.t = "fset" THEN SetToSeq(obj.v) ELSE obj.v])
             IN  IF s = TypeError THEN s ELSE << Tag[obj.t] >> \o s
        [] OTHER -> TypeError

\* The rest of a stream after n bytes.
Skip(bytes, n) == SubSeq(bytes, n + 1, Len(bytes))

\* What is read and the stream after it.
Read(t, bytes, n) == [obj |-> [t |-> t, v |-> SubSeq(bytes, 1, n)], rest |-> Skip(bytes, n)]

\* The length is read from one byte after every tag.
LengthRead_one(tag, bytes, tagsL4) == [l |-> bytes[1], rest |-> Skip(bytes, 1)]

\* The length that follows a tag, and the stream after it.
LengthRead(tag, bytes, tagsL4) ==
  IF tag \in tagsL4 THEN [l |-> FromI4(bytes), rest |-> Skip(bytes, 4)]
  ELSE [l |-> bytes[1], rest |-> Skip(bytes, 1)]

\* _load and the functions registered for it.
RECURSIVE Load(_)
Load(stream) ==
  LET tag   == Head(stream)
      bytes == Tail(stream)
      items(t, n, rest) ==
        LET f[i \in 0 .. n] ==
              IF i = 0 THEN [obj |-> [t |-> t, v |-> <<>>], rest |-> rest]
              ELSE LET read == f[i - 1]
                       one  == Load(read.rest)
                   IN  [obj |-> [t |-> t, v |-> Append(read.obj.v, one.obj)], rest |-> one.rest]
        IN  f[n]
      long == LengthRead(tag, bytes, {Tag.strL4, Tag.tupL4, Tag.listL4, Tag.intL4})
  IN  CASE tag \in 32 .. 239 -> [obj |-> [t |-> "int", v |-> tag - 80], rest |-> bytes]
        [] \E t \in {"none", "notImplemented", "ellipsis", "true", "false"} : tag = Tag[t] ->
             Read(CHOOSE t \in {"none", "notImplemented", "ellipsis", "true", "false"} : tag = Tag[t],
                  bytes, 0)
        [] tag = Tag.emptyStr -> Read("str", bytes, 0)
        [] tag \in Tag.str + 1 .. Tag.str + 4 -> Read("str", bytes, tag - Tag.str)
        [] tag \in {Tag.strL1, Tag.strL4} -> Read("str", long.rest, long.l)
        [] tag = Tag.emptyTuple -> Read("tuple", bytes, 0)
        [] tag = Tag.emptyList -> Read("list", bytes, 0)
        [] tag \in Tag.tup + 1 .. Tag.tup + 4 -> items("tuple", tag - Tag.tup, bytes)
        [] tag = Tag.list1 -> items("list", 1, bytes)
        [] tag \in {Tag.tupL1, Tag.tupL4} -> items("tuple", long.l, long.rest)
        [] tag \in {Tag.listL1, Tag.listL4} -> items("list", long.l, long.rest)
        [] tag \in {Tag.intL1, Tag.intL4} ->
             [obj  |-> [t |-> "int", v |-> Number(SubSeq(long.rest, 1, long.l))],
              rest |-> Skip(long.rest, long.l)]
        [] tag = Tag.float -> Read("float", bytes, 8)
        [] tag = Tag.complex -> Read("complex", bytes, 16)
        [] tag = Tag.slice ->
             LET s == Load(bytes) IN [s EXCEPT !.obj = [t |-> "slice", v |-> s.obj.v]]
        [] tag = Tag.fset ->
             LET s == Load(bytes) IN [s EXCEPT !.obj = [t |-> "fset", v |-> ToSet(s.obj.v)]]

\* Only the container is looked at.
Dumpable_top(obj) ==
  obj.t \in {"none", "int", "long", "true", "false", "bytes", "float", "str", "slice", "complex",
            "notImplemented", "ellipsis", "tuple", "list", "fset"}

\* simple_types: Python 3 has no types long and unicode, and its str is text.
SimpleTypes ==
  {"none", "int", "true", "false", "float", "str", "slice", "complex", "notImplemented", "ellipsis"}
  \cup IF Python3 THEN {} ELSE {"long", "bytes"}

\* dumpable()
RECURSIVE Dumpable(_)
Dumpable(obj) ==
  \/ obj.t \in SimpleTypes
  \/ obj.t \in {"tuple", "list"} /\ \A i \in DOMAIN obj.v : Dumpable(obj.v[i])
  \/ obj.t = "fset" /\ \A x \in obj.v : Dumpable(x)

VARIABLES
  x,  \* the object
  y,  \* its bytes, TypeError if it has none
  z   \* what is loaded from them

vars == <<x, y, z>>

NotYet == [t |-> "not yet", v |-> <<>>]

Init == x \in Objects /\ y = <<>> /\ z = NotYet

\* dump()
DumpIt == y = <<>> /\ y' = Dump(x) /\ UNCHANGED <<x, z>>

\* load()
LoadIt ==
  /\ y \notin {<<>>, TypeError} /\ z = NotYet
  /\ z' = Load(y).obj
  /\ UNCHANGED <<x, y>>

Next == DumpIt \/ LoadIt

Spec == Init /\ [][Next]_vars

-------------------------------------------------------------------------------
\* What is loaded is what was dumped, whatever the lengths and the nesting.
RoundTrip == z # NotYet => z = x

\* The bytes are bytes, and those of an object are all read when it is loaded: no
\* object is a prefix of another's bytes, so items can follow each other.
ReadToTheEnd ==
  y \notin {<<>>, TypeError} =>
    /\ ToSet(y) \subseteq 0 .. 255
    /\ \A more \in {<<>>, <<0>>, <<239, 32>>} : Load(y \o more).rest = more

\* The object and all that is in it.
RECURSIVE Within(_)
Within(obj) ==
  {obj} \cup CASE obj.t \in {"tuple", "list", "slice"} -> UNION {Within(obj.v[i]) : i \in DOMAIN obj.v}
               [] obj.t = "fset" -> UNION {Within(e) : e \in obj.v}
               [] OTHER -> {}

\* What dumpable() takes for dumpable without a look at it.
Misjudged(obj) ==
  \/ obj.t \in {"long", "bytes"}
  \/ obj.t = "slice" /\ \E part \in Within(obj) : ~Dumpable(part)
  \/ Python3 /\ obj.t = "int" /\ ~IsImmediate(obj.v)

\* dumpable() "indicates whether the object is dumpable by brine": it is if dump() takes it;
\* and if dump() raises TypeError it is not, unless there is a long or bytes in it, a slice
\* with what is not dumpable, or, with Python 3, an int of more than a byte.
DumpableDumps ==
  y # <<>> =>
    /\ y # TypeError => Dumpable(x)
    /\ y = TypeError /\ Dumpable(x) => \E part \in Within(x) : Misjudged(part)
    /\ (\E part \in Within(x) : part.t \in {"long", "bytes", "other"}) => y = TypeError
===============================================================================
