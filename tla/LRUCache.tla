------------------------------ MODULE LRUCache ------------------------------
(***************************************************************************)
(* dulwich's caches that forget what was used least recently: LRUCache, of *)
(* a number of entries, and LRUSizeCache, of values of a total size.  The  *)
(* entries are in a list, linked forwards by keys and backwards by nodes,  *)
(* that every access changes in place.  Removing entries is a loop, which  *)
(* calls the entries' cleanup functions.                                   *)
(***************************************************************************)
EXTENDS Integers, Sequences, SequencesExt, FiniteSets, FiniteSetsExt

CONSTANTS
  Keys,
  Values,   \* a value is its own size
  Limits,   \* what max_cache, or max_size, may be set to
  BySize,   \* whether this is an LRUSizeCache
  Null      \* no node and no key

VARIABLES
  cache,     \* the nodes by their keys: prev, next_key, value, size, cleanup
  most, least,
  max, after,    \* the limit, and what the cache is cut down to above it
  value_size,
  cleaned,   \* the entries whose cleanup function was called since the last call
  cleaning   \* whether the loop of cleanup() goes on

vars == <<cache, most, least, max, after, value_size, cleaned, cleaning>>

Init ==
  /\ cache = <<>> /\ most = Null /\ least = Null
  /\ max \in Limits /\ after = (max * 8) \div 10
  /\ value_size = 0 /\ cleaned = {} /\ cleaning = FALSE

Cached == DOMAIN cache

\* The list, from the most recently used one.
Walk ==
  FoldLeft(LAMBDA s, i : IF s = <<>> \/ cache[Last(s)].next_key = Null THEN s
                         ELSE Append(s, cache[Last(s)].next_key),
           IF most = Null THEN <<>> ELSE <<most>>, [i \in 1 .. Cardinality(Cached) |-> i])

\* A key is in the dictionary no more that the list begins with: what happens then is
\* not followed.
Dangling == most # Null /\ most \notin Cached

-----------------------------------------------------------------------------
\* The node is taken out of the list that is left, but for the ends.
Unlinked(c, k) ==
  [j \in DOMAIN c |->
     [c[j] EXCEPT !.next_key = IF c[k].prev = j THEN c[k].next_key ELSE @,
                  !.prev = IF c[k].next_key = j THEN c[k].prev ELSE @]]

\* The end of the list stays.
Accessed_end(c, k) ==
  IF most = Null THEN /\ cache' = c /\ most' = k /\ least' = k
  ELSE IF k = most THEN cache' = c /\ UNCHANGED <<most, least>>
  ELSE /\ cache' = [Unlinked(c, k) EXCEPT ![k].next_key = most, ![k].prev = Null, ![most].prev = k]
       /\ most' = k
       /\ UNCHANGED least

\* _record_access(), and the same in __getitem__().
Accessed(c, k) ==
  IF most = Null THEN /\ cache' = c /\ most' = k /\ least' = k
  ELSE IF k = most THEN cache' = c /\ UNCHANGED <<most, least>>
  ELSE /\ cache' = [Unlinked(c, k) EXCEPT ![k].next_key = most, ![k].prev = Null, ![most].prev = k]
       /\ most' = k
       /\ least' = IF k = least THEN c[k].prev ELSE least

Cleanup(k) == IF cache[k].cleanup THEN {<<k, cache[k].value>>} ELSE {}

\* A node is removed before it is unlinked.
Removed_first(k) ==
  /\ cache' = [j \in Cached \ {k} |-> cache[j]]
  /\ least' = IF k = least THEN cache[k].prev ELSE least
  /\ most' = IF least' = Null THEN Null ELSE most
  /\ value_size' = value_size - cache[k].size

\* _remove_node()
Removed(k) ==
  /\ cache' = [j \in Cached \ {k} |-> Unlinked(cache, k)[j]]
  /\ least' = IF k = least THEN cache[k].prev ELSE least
  /\ most' = IF least' = Null THEN Null ELSE most
  /\ value_size' = value_size - cache[k].size

-----------------------------------------------------------------------------
Ready == ~cleaning /\ ~Dangling

\* get() and __getitem__()
Get(k) ==
  /\ Ready /\ k \in Cached
  /\ Accessed(cache, k)
  /\ cleaned' = {}
  /\ UNCHANGED <<max, after, value_size, cleaning>>

NewNode(v, cb) == [prev |-> Null, next_key |-> Null, value |-> v, size |-> v, cleanup |-> cb]

WithNode(k, n) == [j \in Cached \cup {k} |-> IF j = k THEN n ELSE cache[j]]

\* LRUCache.add(): a key that is cached has its value cleaned up and replaced.
Add(k, v, cb) ==
  /\ Ready /\ ~BySize
  /\ Accessed(WithNode(k, IF k \in Cached THEN [cache[k] EXCEPT !.value = v, !.size = v, !.cleanup = cb]
                                          ELSE NewNode(v, cb)), k)
  /\ cleaned' = IF k \in Cached THEN Cleanup(k) ELSE {}
  /\ value_size' = value_size + v - (IF k \in Cached THEN cache[k].size ELSE 0)
  /\ cleaning' = (Cardinality(DOMAIN cache') > max)
  /\ UNCHANGED <<max, after>>

\* The size of what is replaced stays in the sum.
AddSized_kept(k, v, cb) ==
  /\ Ready /\ BySize /\ v < after
  /\ Accessed(WithNode(k, IF k \in Cached THEN [cache[k] EXCEPT !.size = v] ELSE NewNode(v, cb)), k)
  /\ cleaned' = {}
  /\ value_size' = value_size + v
  /\ cleaning' = (value_size' > max)
  /\ UNCHANGED <<max, after>>

\* LRUSizeCache.add(): a key that is cached gets the size of the new value, and keeps
\* the old value and its cleanup function.
AddSized(k, v, cb) ==
  /\ Ready /\ BySize /\ v < after
  /\ Accessed(WithNode(k, IF k \in Cached THEN [cache[k] EXCEPT !.size = v] ELSE NewNode(v, cb)), k)
  /\ cleaned' = {}
  /\ value_size' = value_size + v - (IF k \in Cached THEN cache[k].size ELSE 0)
  /\ cleaning' = (value_size' > max)
  /\ UNCHANGED <<max, after>>

\* A value that is too large is cleaned up at once, and what it should replace removed.
AddTooLarge(k, v, cb) ==
  /\ Ready /\ BySize /\ v >= after
  /\ IF k \in Cached THEN Removed(k) ELSE UNCHANGED <<cache, most, least, value_size>>
  /\ cleaned' = (IF k \in Cached THEN Cleanup(k) ELSE {}) \cup (IF cb THEN {<<k, v>>} ELSE {})
  /\ UNCHANGED <<max, after, cleaning>>

\* resize()
Resize(m) ==
  /\ Ready /\ m # max
  /\ max' = m /\ after' = (m * 8) \div 10
  /\ cleaned' = {} /\ cleaning' = TRUE
  /\ UNCHANGED <<cache, most, least, value_size>>

\* clear() goes on until nothing is left, as cleanup() does with a limit of nothing.
Clear ==
  /\ Ready /\ Cached # {}
  /\ \E k \in Cached : k = least /\ Removed(k) /\ cleaned' = Cleanup(k)
  /\ UNCHANGED <<max, after, cleaning>>

Filled == IF BySize THEN value_size ELSE Cardinality(Cached)

\* cleanup()
CleanUp ==
  /\ cleaning
  /\ IF Filled > after
     THEN Removed(least) /\ cleaned' = cleaned \cup Cleanup(least) /\ UNCHANGED cleaning
     ELSE cleaning' = FALSE /\ UNCHANGED <<cache, most, least, value_size, cleaned>>
  /\ UNCHANGED <<max, after>>

Next ==
  \/ \E k \in Keys : Get(k)
  \/ \E k \in Keys, v \in Values, cb \in BOOLEAN :
       Add(k, v, cb) \/ AddSized(k, v, cb) \/ AddTooLarge(k, v, cb)
  \/ \E m \in Limits : Resize(m)
  \/ Clear \/ CleanUp

Spec == Init /\ [][Next]_vars

-----------------------------------------------------------------------------
\* The list has every key of the dictionary once, its two directions agree, and its ends
\* are what they should be: the assertions of _walk_lru().
ListIsWhole ==
  Dangling \/
    /\ ToSet(Walk) = Cached /\ Len(Walk) = Cardinality(Cached)
    /\ least = IF Walk = <<>> THEN Null ELSE Last(Walk)
    /\ \A i \in 1 .. Len(Walk) : cache[Walk[i]].prev = IF i = 1 THEN Null ELSE Walk[i - 1]
    /\ Walk # <<>> => cache[Last(Walk)].next_key = Null

\* The list is in the order of use: what is used comes first and the others keep their
\* order, and what is removed to make room was used least recently.
OrderIsOfUse ==
  [][cache' # cache =>
     /\ \A k \in Keys : Get(k) \/ (\E v \in Values, cb \in BOOLEAN : Add(k, v, cb) \/ AddSized(k, v, cb))
          => Walk' = <<k>> \o SelectSeq(Walk, LAMBDA j : j # k)
     /\ CleanUp /\ cleaning' => Walk' = Front(Walk)]_vars

\* The sum of the sizes is that of the nodes, and with no cleanup going on the cache is
\* not above its limit.
SizeIsTrue ==
  /\ value_size = FoldSet(LAMBDA k, n : n + cache[k].size, 0, Cached)
  /\ ~cleaning => Filled <= max

\* What leaves the cache, to make room or because what should replace it is too large, is
\* cleaned up as it was stored.
LeavingIsCleaned ==
  [][cache' # cache => \A k \in Cached \ DOMAIN cache' : cache[k].cleanup => <<k, cache[k].value>> \in cleaned']_vars
=============================================================================
