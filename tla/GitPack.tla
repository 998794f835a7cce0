------------------------------ MODULE GitPack ------------------------------
(***************************************************************************)
(* dulwich's pack files: many objects in a file, some of them as the delta *)
(* to another, which is in the pack at a distance, or named and perhaps    *)
(* outside of it.  A DeltaChainIterator finds every object and its name;   *)
(* with the index, objects are then looked up.  A pack that is received is *)
(* read from a stream whose end is known only when it is there.            *)
(* Second, what is in the file: the codes of numbers, the deltas, and the  *)
(* index that is searched by bisection.                                    *)
(***************************************************************************)
EXTENDS Integers, Sequences, SequencesExt, FiniteSets, FiniteSetsExt, Functions

CONSTANTS
  Names,      \* the names of objects, which are numbers, in the order of names
  MaxObjects,
  Lengths,    \* of objects in a stream
  Trailer,    \* the length of the checksum at the end of a pack
  Reads,      \* how much is read from a stream at once
  Numbers,    \* to encode
  Offsets, Sizes,  \* of what a delta copies
  Null

VARIABLES
  part,       \* which of these there is: a pack, a stream, or something to encode
  pack,       \* its objects: their names, and the bases of deltas
  external,   \* the names of what is in the store already
  chain,      \* the DeltaChainIterator
  cache,      \* the objects of the pack that are known, by their offsets
  said,       \* the last object looked up, and what was found
  stream,     \* the PackStreamReader
  input       \* what to encode

vars == <<part, pack, external, chain, cache, said, stream, input>>

NoChain ==
  [phase |-> "record", next |-> 1, ofs |-> <<>>, ref |-> <<>>, full |-> <<>>,
   stack |-> <<>>, refs |-> <<>>, extrefs |-> <<>>, got |-> <<>>]

Init ==
  /\ part = Null /\ pack = <<>> /\ external = {} /\ chain = NoChain
  /\ cache = <<>> /\ said = Null /\ stream = Null /\ input = Null

-----------------------------------------------------------------------------
\* The objects, at the offsets 1, 2, ...

Wrong == "wrong"   \* what a delta makes of what is not its base

Full == [type |-> "full"]
Ofs(d) == [type |-> "ofs", distance |-> d]
Ref(n) == [type |-> "ref", name |-> n]

BaseName(i) ==
  IF pack[i].base.type = "ofs" THEN pack[i - pack[i].base.distance].name ELSE pack[i].base.name

\* apply_delta(), by its result: the object, if it is applied to its base.
Applied(i, base) == IF base = BaseName(i) THEN pack[i].name ELSE Wrong

Found == {pack[i].name : i \in DOMAIN pack}
Position(n) == CHOOSE i \in DOMAIN pack : pack[i].name = n

\* What can be made from the objects that are whole, in k steps.
Made(k) ==
  LET Step(s, i) == s \cup {j \in DOMAIN pack :
                              \/ pack[j].base.type = "full"
                              \/ BaseName(j) \in {pack[m].name : m \in s}
                              \/ pack[j].base.type = "ref" /\ BaseName(j) \in external}
  IN FoldLeft(Step, {}, [i \in 1 .. k |-> i])

\* No object is its own base: there are no two objects that could be.
Acyclic ==
  LET Step(s, i) == s \cup {j \in DOMAIN pack :
                              \/ pack[j].base.type = "full"
                              \/ BaseName(j) \in {pack[m].name : m \in s} \cup (Names \ Found)}
  IN FoldLeft(Step, {}, [i \in 1 .. Len(pack) |-> i]) = DOMAIN pack

\* An object is written.
Write(n, base) ==
  /\ part \in {Null, "pack"} /\ chain = NoChain /\ Len(pack) < MaxObjects
  /\ n \notin Found
  /\ base.type = "ofs" => base.distance <= Len(pack)
  /\ base.type = "ref" => base.name # n
  /\ part' = "pack"
  /\ pack' = Append(pack, [name |-> n, base |-> base])
  /\ UNCHANGED <<external, chain, cache, said, stream, input>>

-----------------------------------------------------------------------------
\* The DeltaChainIterator

AppendTo(f, k, x) == [j \in DOMAIN f \cup {k} |-> IF j = k THEN Append(IF k \in DOMAIN f THEN f[k] ELSE <<>>, x)
                                                  ELSE f[j]]
Popped(f, k) == Restrict(f, DOMAIN f \ {k})
At(f, k) == IF k \in DOMAIN f THEN f[k] ELSE <<>>

\* for_pack_data(), which begins the walk of some store, and record()
Record(ext) ==
  /\ part = "pack" /\ Acyclic /\ chain.phase = "record" /\ chain.next <= Len(pack)
  /\ chain.next > 1 => ext = external
  /\ external' = ext
  /\ LET i == chain.next
         b == pack[i].base
         c == [chain EXCEPT !.next = i + 1]
     IN chain' = CASE b.type = "full" -> [c EXCEPT !.full = Append(@, i)]
                   [] b.type = "ofs" -> [c EXCEPT !.ofs = AppendTo(@, i - b.distance, i)]
                   [] b.type = "ref" -> [c EXCEPT !.ref = AppendTo(@, b.name, i)]
  /\ UNCHANGED <<part, pack, cache, said, stream, input>>

\* _walk_all_chains(): the next object that is whole.
NextFull ==
  /\ part = "pack" /\ chain.next > Len(pack) /\ chain.phase \in {"record", "full"} /\ chain.stack = <<>>
  /\ chain' = IF chain.full # <<>>
              THEN [chain EXCEPT !.phase = "full", !.full = Tail(@),
                                 !.stack = <<[todo |-> <<Head(chain.full)>>, base |-> Null]>>]
              ELSE [chain EXCEPT !.phase = "refs", !.refs = SetToSortSeq(DOMAIN chain.ref, <)]
  /\ UNCHANGED <<part, pack, external, cache, said, stream, input>>

\* Mutations of the definitions that follow, each named after the one it is of.
\* What waits for the object by its name goes on waiting.
Follow_ofs ==
  /\ part = "pack" /\ chain.stack # <<>>
  /\ LET top == Last(chain.stack)
         i == Head(top.todo)
         n == IF top.base = Null THEN pack[i].name ELSE Applied(i, top.base)
         rest == IF Len(top.todo) = 1 THEN Front(chain.stack)
                 ELSE Append(Front(chain.stack), [top EXCEPT !.todo = Tail(@)])
         todo == At(chain.ofs, i)
     IN chain' = [chain EXCEPT !.got = Append(@, <<i, n>>), !.ofs = Popped(@, i),
                               !.stack = IF todo = <<>> THEN rest
                                         ELSE Append(rest, [todo |-> todo, base |-> n])]
  /\ UNCHANGED <<part, pack, external, cache, said, stream, input>>

\* What waits stays where it was found.
Follow_kept ==
  /\ part = "pack" /\ chain.stack # <<>>
  /\ LET top == Last(chain.stack)
         i == Head(top.todo)
         n == IF top.base = Null THEN pack[i].name ELSE Applied(i, top.base)
         rest == IF Len(top.todo) = 1 THEN Front(chain.stack)
                 ELSE Append(Front(chain.stack), [top EXCEPT !.todo = Tail(@)])
         todo == At(chain.ofs, i) \o At(chain.ref, n)
     IN chain' = [chain EXCEPT !.got = Append(@, <<i, n>>), !.ofs = Popped(@, i),
                               !.stack = IF todo = <<>> THEN rest
                                         ELSE Append(rest, [todo |-> todo, base |-> n])]
  /\ UNCHANGED <<part, pack, external, cache, said, stream, input>>

\* _follow_chain(): an object is made, and what waits for it, by offset and by name, comes
\* next.
Follow ==
  /\ part = "pack" /\ chain.stack # <<>>
  /\ LET top == Last(chain.stack)
         i == Head(top.todo)
         n == IF top.base = Null THEN pack[i].name ELSE Applied(i, top.base)
         rest == IF Len(top.todo) = 1 THEN Front(chain.stack)
                 ELSE Append(Front(chain.stack), [top EXCEPT !.todo = Tail(@)])
         todo == At(chain.ofs, i) \o At(chain.ref, n)
     IN chain' = [chain EXCEPT !.got = Append(@, <<i, n>>),
                               !.ofs = Popped(@, i), !.ref = Popped(@, n),
                               !.stack = IF todo = <<>> THEN rest
                                         ELSE Append(rest, [todo |-> todo, base |-> n])]
  /\ UNCHANGED <<part, pack, external, cache, said, stream, input>>

\* _walk_ref_chains(): the names that were waited for at its beginning, each looked up in
\* the store.  One that was found in the pack since is no more there to be popped.
NextRef ==
  /\ part = "pack" /\ chain.phase = "refs" /\ chain.stack = <<>> /\ chain.refs # <<>>
  /\ LET n == Head(chain.refs)
         c == [chain EXCEPT !.refs = Tail(@)]
     IN chain' = IF n \notin external THEN c
                 ELSE IF n \notin DOMAIN chain.ref THEN [c EXCEPT !.phase = "KeyError"]
                 ELSE [c EXCEPT !.extrefs = Append(@, n), !.ref = Popped(@, n),
                                !.stack = <<[todo |-> chain.ref[n], base |-> n]>>]
  /\ UNCHANGED <<part, pack, external, cache, said, stream, input>>

\* Objects of the store are not added.
Complete_thin ==
  /\ part = "pack" /\ chain.phase = "refs" /\ chain.stack = <<>> /\ chain.refs = <<>>
  /\ chain' = [chain EXCEPT !.phase = IF chain.ref = <<>> THEN "done" ELSE "missing"]
  /\ UNCHANGED <<part, pack, external, cache, said, stream, input>>

\* _ensure_no_pending(), and _complete_thin_pack(): the objects of the store that the pack
\* needs are added to it.
Complete ==
  /\ part = "pack" /\ chain.phase = "refs" /\ chain.stack = <<>> /\ chain.refs = <<>>
  /\ IF chain.ref = <<>>
     THEN /\ chain' = [chain EXCEPT !.phase = "done"]
          /\ pack' = pack \o [i \in DOMAIN chain.extrefs |-> [name |-> chain.extrefs[i], base |-> Full]]
     ELSE /\ chain' = [chain EXCEPT !.phase = "missing"]
          /\ UNCHANGED pack
  /\ UNCHANGED <<part, external, cache, said, stream, input>>

\* The index: where it says that an object is.
Indexed(n) ==
  LET w == SelectSeq(chain.got, LAMBDA g : g[2] = n)
  IN IF w # <<>> THEN w[1][1] ELSE Position(n)

\* get_object_at() and resolve_object(), for every offset: an object that is cached is
\* taken from there.
Resolved ==
  LET r[j \in DOMAIN pack] ==
        IF j \in DOMAIN cache THEN cache[j]
        ELSE IF pack[j].base.type = "full" THEN pack[j].name
        ELSE IF pack[j].base.type = "ofs" THEN Applied(j, r[j - pack[j].base.distance])
        ELSE IF pack[j].base.name \notin Found THEN Null
        ELSE Applied(j, r[Indexed(pack[j].base.name)])
  IN r

\* What resolve_object() goes through from i to the first object that is whole, or cached.
Through(i) ==
  LET Step(s, k) == s \cup {j \in DOMAIN pack :
                              \E m \in s : m \notin DOMAIN cache /\ pack[m].base.type # "full"
                                           /\ j = Indexed(BaseName(m))}
  IN FoldLeft(Step, {i}, [k \in 1 .. Len(pack) |-> k])

\* What was made is cached at the offset of its base.
GetRaw_base(n, forgotten) ==
  /\ part = "pack" /\ chain.phase = "done" /\ n \in Found
  /\ said' = <<n, Resolved[Indexed(n)]>>
  /\ cache' = LET new == {j \in Through(Indexed(n)) : pack[j].base.type # "full"}
              IN [j \in (DOMAIN cache \cup {Indexed(BaseName(k)) : k \in new}) \ forgotten |->
                    IF j \in DOMAIN cache THEN cache[j]
                    ELSE Resolved[CHOOSE k \in new : Indexed(BaseName(k)) = j]]
  /\ UNCHANGED <<part, pack, external, chain, stream, input>>

\* get_raw(), of what is in the index: the deltas on the way are cached; what the cache
\* forgets when is up to it.
GetRaw(n, forgotten) ==
  /\ part = "pack" /\ chain.phase = "done" /\ n \in Found
  /\ said' = <<n, Resolved[Indexed(n)]>>
  /\ cache' = LET new == {j \in Through(Indexed(n)) : pack[j].base.type # "full"}
              IN [j \in (DOMAIN cache \cup new) \ forgotten |-> Resolved[j]]
  /\ UNCHANGED <<part, pack, external, chain, stream, input>>

-----------------------------------------------------------------------------
\* The PackStreamReader: the numbers of bytes that were sent, of which the objects have
\* those in stream.ends, and after them the trailer.

Total == Last(stream.ends) + Trailer

Begin(lengths) ==
  /\ part = Null
  /\ part' = "stream"
  /\ stream' = [ends |-> [i \in DOMAIN lengths |-> FoldLeft(LAMBDA a, b : a + b, 0, SubSeq(lengths, 1, i))],
                object |-> 1,          \* the object that is read
                at |-> 0,              \* what was taken out of the buffer and not put back
                offset |-> 0,          \* what was read from the wire
                trailer |-> 0,         \* the last of it that is not hashed yet
                hashed |-> 0,
                offsets |-> <<>>,      \* where objects were found to begin
                done |-> FALSE]
  /\ UNCHANGED <<pack, external, chain, cache, said, input>>

Least(a, b) == IF a < b THEN a ELSE b

\* The trailer has the last bytes of every read.
FromWire_short(s, n) ==
  [s EXCEPT !.offset = @ + n, !.trailer = Least(n, Trailer), !.hashed = @ + s.trailer + n - Least(n, Trailer)]

\* _read(): of n bytes, and the trailer, the last ones are the new trailer.
FromWire(s, n) ==
  LET popped == IF n >= Trailer THEN s.trailer
                ELSE IF n + s.trailer > Trailer THEN n + s.trailer - Trailer ELSE 0
      added == Least(n, Trailer)
  IN [s EXCEPT !.offset = @ + n, !.trailer = @ - popped + added, !.hashed = @ + popped + n - added]

Buffered(s) == s.offset - s.at

\* read() and recv(), until there is something that is not the object's: it goes back to
\* the buffer.  An object is known to have ended only when there is more.
Recv(n) ==
  /\ part = "stream" /\ ~stream.done /\ stream.object <= Len(stream.ends)
  /\ LET begun == stream.offsets # <<>> /\ Len(stream.offsets) = stream.object
         here == IF begun THEN stream
                 ELSE [stream EXCEPT !.offsets = Append(@, stream.at)]
         want == IF begun THEN n ELSE 1
         s == IF Buffered(here) > 0 THEN here ELSE FromWire(here, Least(want, Total - here.offset))
         taken == s.at + Least(want, Buffered(s))
         end == s.ends[s.object]
     IN /\ Buffered(here) = 0 => here.offset < Total
        /\ stream' = IF taken > end THEN [s EXCEPT !.at = end, !.object = @ + 1] ELSE [s EXCEPT !.at = taken]
  /\ UNCHANGED <<part, pack, external, chain, cache, said, input>>

\* What is left of the trailer is read.
Finish ==
  /\ part = "stream" /\ ~stream.done /\ stream.object > Len(stream.ends)
  /\ LET s == IF Buffered(stream) < Trailer THEN FromWire(stream, Trailer - Buffered(stream)) ELSE stream
     IN stream' = [s EXCEPT !.at = s.offset, !.done = TRUE]
  /\ UNCHANGED <<part, pack, external, chain, cache, said, input>>

-----------------------------------------------------------------------------
\* Numbers in seven bits and one that tells whether more follow.

Septets[n \in Nat] == IF n < 128 THEN <<n>> ELSE <<128 + (n % 128)>> \o Septets[n \div 128]

Unsepteted(s) == FoldRight(LAMBDA b, n : 128 * n + (b % 128), s, 0)

\* pack_object_header() and what unpack_object() reads from it: four bits of the size are
\* with the type.
HeaderBytes(type, n) ==
  IF n < 16 THEN <<type * 16 + n>> ELSE <<128 + type * 16 + (n % 16)>> \o Septets[n \div 16]

TypeIn(s) == (s[1] \div 16) % 8
SizeIn(s) == (s[1] % 16) + (IF Len(s) = 1 THEN 0 ELSE 16 * Unsepteted(Tail(s)))

\* The distance to the base: the highest bits first, and each byte but the last stands for
\* one more.  (The bit that tells whether more follow is left out.)
DistanceBytes[n \in Nat] == IF n < 128 THEN <<n>> ELSE DistanceBytes[(n \div 128) - 1] \o <<n % 128>>

\* Nothing is added for the bytes before the last.
DistanceIn_plain(s) == FoldLeft(LAMBDA n, b : n * 128 + b, s[1], Tail(s))

\* What get_ofs_delta_offset reads.
DistanceIn(s) == FoldLeft(LAMBDA n, b : (n + 1) * 128 + b, s[1], Tail(s))

-----------------------------------------------------------------------------
\* Deltas: a target by its blocks, each copied from the base or new.

Byte(n, i) == (n \div 256 ^ i) % 256

\* What is new is not split.
Encoded_whole(b) ==
  IF b.copy
  THEN <<[copy |-> TRUE, offset |-> [i \in {i \in 0 .. 3 : Byte(b.offset, i) # 0} |-> Byte(b.offset, i)],
          size |-> [i \in {i \in 0 .. 1 : Byte(b.size, i) # 0} |-> Byte(b.size, i)]]>>
  ELSE <<[copy |-> FALSE, size |-> b.size % 128]>>

\* create_delta(), of one block: the bytes that are not 0, of which the size has two, or
\* pieces of at most 127 bytes.
Encoded(b) ==
  IF b.copy
  THEN <<[copy |-> TRUE, offset |-> [i \in {i \in 0 .. 3 : Byte(b.offset, i) # 0} |-> Byte(b.offset, i)],
          size |-> [i \in {i \in 0 .. 1 : Byte(b.size, i) # 0} |-> Byte(b.size, i)]]>>
  ELSE LET pieces == (b.size + 126) \div 127
       IN [i \in 1 .. pieces |-> [copy |-> FALSE, size |-> IF i < pieces THEN 127 ELSE b.size - 127 * (pieces - 1)]]

FromBytes(f) == FoldSet(LAMBDA i, n : n + f[i] * 256 ^ i, 0, DOMAIN f)

\* A size of nothing is nothing.
Decoded_zero(op) ==
  IF op.copy THEN [copy |-> TRUE, offset |-> FromBytes(op.offset), size |-> FromBytes(op.size)] ELSE op

\* apply_delta(), of one piece
Decoded(op) ==
  IF op.copy
  THEN [copy |-> TRUE, offset |-> FromBytes(op.offset),
        size |-> IF FromBytes(op.size) = 0 THEN 65536 ELSE FromBytes(op.size)]
  ELSE op

SizeOf(blocks) == FoldLeft(LAMBDA n, b : n + b.size, 0, blocks)

\* What apply_delta() makes of create_delta()'s, by the blocks; that it is as long as the
\* target is the only thing that it can check.
Transmitted(blocks) ==
  [i \in DOMAIN blocks |-> LET e == Encoded(blocks[i]) IN [j \in DOMAIN e |-> Decoded(e[j])]]

Accepted(blocks) == SizeOf(FlattenSeq(Transmitted(blocks))) = SizeOf(blocks)

-----------------------------------------------------------------------------
\* The index: names, sorted, with a first byte and the rest.

FirstByte(n) == n \div 3

FanOut(names, b) == Cardinality({n \in names : FirstByte(n) <= b})

\* The search begins after the names with the same first byte.
Searched_after(names, n) == [start |-> FanOut(names, FirstByte(n)), end |-> FanOut(names, FirstByte(n) + 1)]

\* _object_index(): where it searches.  The end is one too far.
Searched(names, n) ==
  [start |-> IF FirstByte(n) = 0 THEN 0 ELSE FanOut(names, FirstByte(n) - 1),
   end |-> FanOut(names, FirstByte(n))]

\* bisect_find_sha(): after the last name is something else.
Bisected(sorted, n, behind) ==
  LET NameAt(i) == IF i < Len(sorted) THEN sorted[i + 1] ELSE behind
      search[s \in 0 .. Len(sorted) + 1, e \in -1 .. Len(sorted)] ==
        LET i == (s + e) \div 2
        IN IF s > e THEN Null
           ELSE IF NameAt(i) < n THEN search[i + 1, e]
           ELSE IF NameAt(i) > n THEN search[s, i - 1]
           ELSE i
      range == Searched(ToSet(sorted), n)
  IN search[range.start, range.end]

-----------------------------------------------------------------------------
Blocks == [copy : {TRUE}, offset : Offsets, size : Sizes] \cup [copy : {FALSE}, size : Sizes \cap 1 .. 999]

\* A number, the names of an index, or one more block, is there to be encoded.
Take(x) ==
  /\ part = Null
  /\ part' = "input" /\ input' = x
  /\ UNCHANGED <<pack, external, chain, cache, said, stream>>

AddBlock(b) ==
  /\ part = "input" /\ input.kind = "delta" /\ Len(input.value) < 2
  /\ input' = [input EXCEPT !.value = Append(@, b)]
  /\ UNCHANGED <<part, pack, external, chain, cache, said, stream>>

Next ==
  \/ \E n \in Names, base \in {Full} \cup {Ofs(d) : d \in 1 .. MaxObjects} \cup {Ref(m) : m \in Names} :
       Write(n, base)
  \/ \E ext \in SUBSET Names : Record(ext)
  \/ NextFull \/ Follow \/ NextRef \/ Complete
  \/ \E n \in Names, forgotten \in SUBSET DOMAIN cache : GetRaw(n, forgotten)
  \/ \E lengths \in UNION {[1 .. k -> Lengths] : k \in 1 .. MaxObjects} : Begin(lengths)
  \/ \E n \in Reads : Recv(n)
  \/ Finish
  \/ \E n \in Numbers : Take([kind |-> "number", value |-> n])
  \/ \E names \in SUBSET (0 .. 8) : Cardinality(names) < 5 /\ Take([kind |-> "index", value |-> names])
  \/ \E b \in Blocks : Take([kind |-> "delta", value |-> <<b>>]) \/ AddBlock(b)

Spec == Init /\ [][Next]_vars

-----------------------------------------------------------------------------
\* The iterator finds every object of the pack once and makes it from its base; that one
\* is missing it says just if it cannot be made from the pack and the store.  It fails if
\* an object that others name as their base is in the store already.
EachIsFoundOnce ==
  /\ \A i \in DOMAIN chain.got : pack[chain.got[i][1]].name = chain.got[i][2]
  /\ IsInjective([i \in DOMAIN chain.got |-> chain.got[i][1]])
  /\ chain.phase = "done" => {chain.got[i][1] : i \in DOMAIN chain.got} = 1 .. Len(pack) - Len(chain.extrefs)
  /\ chain.phase = "missing" => Made(Len(pack)) # DOMAIN pack
  /\ chain.phase = "KeyError" => \E i \in DOMAIN pack : pack[i].name \in external

\* A pack that was completed has all that it needs: every object that is looked up is found
\* as it was, whatever is cached.
CompleteIsWhole == said # Null => said[2] = said[1]

\* However the bytes come, the objects are found where they begin; what is hashed is all
\* but the last bytes, and these are the checksum in the end.
StreamIsRead ==
  part = "stream" =>
    /\ \A i \in DOMAIN stream.offsets : stream.offsets[i] = IF i = 1 THEN 0 ELSE stream.ends[i - 1]
    /\ stream.hashed + stream.trailer = stream.offset
    /\ stream.trailer = Least(stream.offset, Trailer)
    /\ stream.done => stream.offset = Total /\ stream.hashed = Last(stream.ends)

\* Numbers, and types with them, are read as they were written.
NumbersRoundTrip ==
  part = "input" /\ input.kind = "number" =>
    /\ Unsepteted(Septets[input.value]) = input.value
    /\ \A type \in 1 .. 7 : LET s == HeaderBytes(type, input.value)
                            IN TypeIn(s) = type /\ SizeIn(s) = input.value
    /\ DistanceIn(DistanceBytes[input.value]) = input.value

\* A delta makes the target from the base or, if more than 64 KB of it are copied in one
\* piece, an exception: never something else.
DeltasRoundTrip ==
  part = "input" /\ input.kind = "delta" =>
    IF ~Accepted(input.value)
    THEN \E i \in DOMAIN input.value : input.value[i].copy /\ input.value[i].size > 65536
    ELSE \A i \in DOMAIN input.value :
           LET b == input.value[i]
               t == Transmitted(input.value)[i]
           IN IF b.copy THEN t = <<b>>
              ELSE SizeOf(t) = b.size /\ \A j \in DOMAIN t : ~t[j].copy /\ t[j].size \in 1 .. 127

\* A name is found in the index, at its place, just if it is there, whatever follows.
LookupIsExact ==
  part = "input" /\ input.kind = "index" =>
    LET sorted == SetToSortSeq(input.value, <) IN
      \A n \in 0 .. 8 : \A behind \in {0, 4, 8} \ {n} :
        Bisected(sorted, n, behind) = IF n \in input.value THEN Cardinality({m \in input.value : m < n}) ELSE Null
=============================================================================
