------------------------------ MODULE Repository ------------------------------
(***************************************************************************)
(* A git repository as several processes see it: its references (GitRefs,  *)
(* which this module extends) and its objects (GitStore); what must always *)
(* be true of both, and the proofs, for every value of their constants.    *)
(* However many processes change however many references, die, and have    *)
(* git pack what they wrote meanwhile, a reference is compared and swapped *)
(* at once, and no lock is left by a call that is over: whoever works on a *)
(* file has its lock, so what it has read of the file stays true.  The     *)
(* objects have no lock in common: what was stored is kept by the order in *)
(* which files come and go.                                                *)
(***************************************************************************)
EXTENDS GitRefs, TLAPS

CONSTANTS Objects, InitObjects, MaxClock, NotLoaded  \* of GitStore

VARIABLES
  looseObjects, objectLock, pack, idx, idxLock, clock, mtime, packList, cacheTime, storePc,
  storeObj, storeTodo, got, look, storeOps, stored, own, thin, moved, loaded, since,
  storeRobbed

Store == INSTANCE GitStore WITH
  InitLoose <- InitObjects, loose <- looseObjects, lock <- objectLock, cache <- packList,
  pc <- storePc, obj <- storeObj, todo <- storeTodo, ops <- storeOps,
  robbed <- storeRobbed

ASSUME StoreAssumption == Store!ConstantsFit

\* GitStore: what was stored is never lost, whoever packs and removes and dies; an object is
\* missed, or cannot be read, only where the times of the directory, or a pack that is being
\* received, explain it.
StoreIsSafe ==
  /\ Store!NothingIsLost /\ Store!MissIsExplained /\ Store!OwnIsFound
  /\ Store!FailureIsReceiving /\ Store!RenamesItsOwn

-----------------------------------------------------------------------------
(* Objects.                                                                *)

StoreSteps ==
  {"idle", "dead", "packs", "stat", "list", "look", "exists", "create", "write", "close", "abort",
   "scan", "read", "index", "thinIndex", "indexed", "thinIndexed", "indexAbort", "thinAbort",
   "rename", "remove", "receive"}
Packing ==
  {"index", "thinIndex", "indexed", "thinIndexed", "indexAbort", "thinAbort", "rename", "remove",
   "receive"}

StoreTyped ==
  /\ looseObjects \subseteq Objects /\ stored \subseteq Objects
  /\ pack \subseteq Store!Packs /\ idx \subseteq Store!Packs
  /\ clock \in Int /\ mtime \in Int /\ mtime <= clock /\ moved \in [Store!Packs -> Int]
  /\ packList \in [Procs -> (SUBSET Store!Packs) \cup {NotLoaded}]
  /\ cacheTime \in [Procs -> Int] /\ loaded \in [Procs -> Int]
  /\ own \in [Procs -> SUBSET Store!Packs]

CallTyped ==
  /\ storePc \in [Procs -> StoreSteps] /\ storeObj \in [Procs -> Objects]
  /\ storeTodo \in [Procs -> SUBSET Objects] /\ got \in [Procs -> SUBSET Objects]
  /\ look \in [Procs -> SUBSET Store!Packs] /\ since \in [Procs -> SUBSET Store!Packs]

LocksTyped ==
  /\ objectLock \in [Objects -> Procs \cup {Free, Left}]
  /\ idxLock \in [Store!Packs -> Procs \cup {Free, Left}] /\ storeRobbed \in BOOLEAN

\* The directory changed last when a pack came, or later; a pack without an index was
\* received; and what was stored is somewhere.
Filed ==
  /\ \A k \in pack : moved[k] <= mtime
  /\ pack \ idx \subseteq thin
  /\ Store!NothingIsLost

\* A process that makes a pack: what there is of it at each step.  It removes only objects
\* that the complete pack has.
Building(p) ==
  /\ storePc[p] \in Packing => got[p] \in Store!Packs
  /\ storePc[p] \in {"thinIndex", "thinIndexed", "thinAbort", "remove"} => got[p] \in pack
  /\ storePc[p] \in {"indexAbort", "thinAbort", "rename", "remove"} => got[p] \in idx
  /\ storePc[p] = "remove" => storeTodo[p] \subseteq got[p]

\* The list of packs that a process keeps: what is not in it came after it was read, or
\* within the same tick of the clock, and it was read after the directory's time.
Listed(p) ==
  /\ since[p] \subseteq pack /\ own[p] \subseteq pack
  /\ loaded[p] <= clock /\ cacheTime[p] <= clock
  /\ packList[p] # NotLoaded =>
       /\ own[p] \subseteq packList[p] /\ packList[p] \subseteq pack
       /\ \A k \in pack \ packList[p] : loaded[p] <= moved[k]
       /\ storePc[p] \notin {"list", "dead"} => cacheTime[p] <= loaded[p]

\* A process that looks for an object: where it has still to look.
Looking(p) ==
  storePc[p] = "look" =>
    /\ look[p] \subseteq pack
    /\ \A k \in own[p] : storeObj[p] \in k => k \in look[p]
    /\ \A k \in since[p] : storeObj[p] \in k => k \in look[p] \/ moved[k] = loaded[p]

StoreIInv ==
  /\ StoreTyped /\ CallTyped /\ Filed
  /\ \A p \in Procs : Building(p) /\ Listed(p) /\ Looking(p)

-----------------------------------------------------------------------------
(* What a step leaves alone.                                               *)

\* Packs and indexes only come, and time does not go back.
Grown ==
  /\ pack \subseteq pack' /\ idx \subseteq idx'
  /\ clock <= clock' /\ \A k \in pack : moved'[k] = moved[k]
  /\ \A k \in pack' \ pack : moved'[k] = clock

\* The process stands still.
Still(q) ==
  /\ storePc'[q] = storePc[q] /\ storeObj'[q] = storeObj[q] /\ storeTodo'[q] = storeTodo[q]
  /\ got'[q] = got[q] /\ look'[q] = look[q] /\ since'[q] = since[q]
  /\ packList'[q] = packList[q] /\ cacheTime'[q] = cacheTime[q] /\ loaded'[q] = loaded[q]
  /\ own'[q] = own[q]

\* A step of another process does not disturb it.
LEMMA StillKeeps ==
  ASSUME StoreTyped, StoreTyped', Grown, NEW q \in Procs, Still(q),
         Building(q), Listed(q), Looking(q)
  PROVE  Building(q)' /\ Listed(q)' /\ Looking(q)'
<1>1. Building(q)'
  BY DEF Building, Packing, Still, Grown
<1>2. Listed(q)'
  <2>1. since'[q] \subseteq pack' /\ own'[q] \subseteq pack'
    BY DEF Listed, Still, Grown
  <2>2. loaded'[q] <= clock' /\ cacheTime'[q] <= clock'
    BY DEF Listed, Still, Grown, StoreTyped
  <2>3. ASSUME packList'[q] # NotLoaded
        PROVE  /\ own'[q] \subseteq packList'[q] /\ packList'[q] \subseteq pack'
               /\ storePc'[q] \notin {"list", "dead"} => cacheTime'[q] <= loaded'[q]
    BY <2>3 DEF Listed, Still, Grown
  <2>4. ASSUME packList'[q] # NotLoaded, NEW k \in pack' \ packList'[q]
        PROVE  loaded'[q] <= moved'[k]
    <3>1. CASE k \in pack
      BY <2>4, <3>1 DEF Listed, Still, Grown
    <3>2. CASE k \notin pack
      <4>1. moved'[k] = clock
        BY <2>4, <3>2 DEF Grown
      <4> QED
        BY <4>1 DEF Listed, Still
    <3> QED
      BY <3>1, <3>2
  <2> QED
    BY <2>1, <2>2, <2>3, <2>4 DEF Listed
<1>3. Looking(q)'
  <2> SUFFICES ASSUME storePc[q] = "look" PROVE Looking(q)'
    BY DEF Looking, Still
  <2>1. since[q] \subseteq pack
    BY DEF Listed
  <2> QED
    BY <2>1 DEF Looking, Still, Grown
<1> QED
  BY <1>1, <1>2, <1>3

\* Nor does a process that returns, raises or dies read anything of what it did.
LEMMA LeaveKeeps ==
  ASSUME StoreTyped, StoreTyped', CallTyped, Grown, NEW p \in Procs, NEW step \in {"idle", "dead"},
         Store!Leave(p, step), Listed(p), storePc[p] # "list" \/ step = "dead",
         own'[p] = own[p], packList'[p] = packList[p], cacheTime'[p] = cacheTime[p],
         loaded'[p] = loaded[p], storePc[p] # "dead"
  PROVE  Building(p)' /\ Listed(p)' /\ Looking(p)'
<1>1. storePc'[p] = step /\ since'[p] = {}
  BY DEF Store!Leave, Store!Goto, CallTyped
<1>2. Building(p)' /\ Looking(p)'
  BY <1>1 DEF Building, Packing, Looking
<1>3. Listed(p)'
  <2>1. since'[p] \subseteq pack' /\ own'[p] \subseteq pack'
    BY <1>1 DEF Listed, Grown
  <2>2. loaded'[p] <= clock' /\ cacheTime'[p] <= clock'
    BY DEF Listed, Grown, StoreTyped
  <2>3. ASSUME packList'[p] # NotLoaded
        PROVE  /\ own'[p] \subseteq packList'[p] /\ packList'[p] \subseteq pack'
               /\ storePc'[p] \notin {"list", "dead"} => cacheTime'[p] <= loaded'[p]
    BY <1>1, <2>3 DEF Listed, Grown
  <2>4. ASSUME packList'[p] # NotLoaded, NEW k \in pack' \ packList'[p]
        PROVE  loaded'[p] <= moved'[k]
    <3>1. CASE k \in pack
      BY <2>4, <3>1 DEF Listed, Grown
    <3>2. CASE k \notin pack
      <4>1. moved'[k] = clock
        BY <2>4, <3>2 DEF Grown
      <4> QED
        BY <4>1 DEF Listed
    <3> QED
      BY <3>1, <3>2
  <2> QED
    BY <2>1, <2>2, <2>3, <2>4 DEF Listed
<1> QED
  BY <1>2, <1>3

\* The files are as they should be if packs come with an index or as received, at the
\* directory's time, and what is removed or was stored is in a complete pack.
LEMMA FilesKeep ==
  ASSUME StoreTyped, Filed, Grown, mtime' \in {mtime, clock}, pack' # pack => mtime' = clock,
         thin \subseteq thin', pack' \ pack \subseteq idx' \cup thin',
         \A o \in (stored' \ stored) \cup (looseObjects \ looseObjects') :
           o \in looseObjects' \/ \E k \in pack' \cap idx' : o \in k
  PROVE  Filed'
<1>1. ASSUME NEW k \in pack' PROVE moved'[k] <= mtime'
  <2>1. CASE k \in pack
    <3>1. moved'[k] = moved[k] /\ moved[k] <= mtime /\ mtime <= clock
      BY <2>1 DEF Grown, Filed, StoreTyped
    <3>2. moved[k] \in Int /\ mtime \in Int /\ clock \in Int
      BY <2>1 DEF StoreTyped
    <3> QED
      BY <3>1, <3>2
  <2>2. CASE k \notin pack
    BY <1>1, <2>2 DEF Grown, StoreTyped
  <2> QED
    BY <2>1, <2>2
<1>2. pack' \ idx' \subseteq thin'
  BY DEF Filed, Grown
<1>3. Store!NothingIsLost'
  <2> SUFFICES ASSUME NEW o \in stored'
               PROVE  o \in looseObjects' \/ \E k \in pack' \cap idx' : o \in k
    BY DEF Store!NothingIsLost
  <2>1. CASE o \in stored /\ o \notin looseObjects
    <3>1. \E k \in pack \cap idx : o \in k
      BY <2>1 DEF Filed, Store!NothingIsLost
    <3> QED
      BY <3>1 DEF Grown
  <2>2. CASE ~(o \in stored /\ o \notin looseObjects)
    BY <2>2
  <2> QED
    BY <2>1, <2>2
<1> QED
  BY <1>1, <1>2, <1>3 DEF Filed

\* What a step of one process has to show.
LEMMA StepOf ==
  ASSUME StoreIInv, StoreTyped', CallTyped', Filed', Grown, NEW p \in Procs,
         Building(p)' /\ Listed(p)' /\ Looking(p)', \A q \in Procs \ {p} : Still(q)
  PROVE  StoreIInv'
<1>1. ASSUME NEW q \in Procs PROVE Building(q)' /\ Listed(q)' /\ Looking(q)'
  <2>1. CASE q = p
    BY <2>1
  <2>2. CASE q # p
    BY <2>2, StillKeeps DEF StoreIInv
  <2> QED
    BY <2>1, <2>2
<1> QED
  BY <1>1 DEF StoreIInv

\* A step that leaves the files as they are and neither reads nor adds to a list.
LEMMA LocalStep ==
  ASSUME StoreIInv, NEW p \in Procs, CallTyped',
         UNCHANGED <<looseObjects, pack, idx, clock, mtime, packList, cacheTime, loaded, stored,
                     own, thin, moved>>,
         \A q \in Procs \ {p} : Still(q), storePc[p] \notin {"list", "dead"},
         since'[p] \subseteq pack, Building(p)', Looking(p)'
  PROVE  StoreIInv'
<1>1. StoreTyped' /\ Filed' /\ Grown
  BY DEF StoreIInv, StoreTyped, Filed, Grown, Store!NothingIsLost
<1>2. Listed(p)'
  BY DEF StoreIInv, Listed
<1> QED
  BY <1>1, <1>2, StepOf

-----------------------------------------------------------------------------
(* The steps of a process.                                                 *)

\* What returning or dying does to the process, and not to the others.
LEMMA Leaves ==
  ASSUME CallTyped, NEW p \in Procs, NEW step \in {"idle", "dead"}, Store!Leave(p, step)
  PROVE  /\ CallTyped' /\ storePc'[p] = step /\ since'[p] = {}
         /\ \A q \in Procs \ {p} :
              /\ storePc'[q] = storePc[q] /\ storeObj'[q] = storeObj[q]
              /\ storeTodo'[q] = storeTodo[q] /\ got'[q] = got[q] /\ look'[q] = look[q]
              /\ since'[q] = since[q]
<1>1. (CHOOSE o \in Objects : TRUE) \in Objects
  BY StoreAssumption DEF Store!ConstantsFit
<1> QED
  BY <1>1 DEF CallTyped, Store!Leave, Store!Goto, StoreSteps

\* So a step that only returns keeps the invariant.
LEMMA ReturnStep ==
  ASSUME StoreIInv, NEW p \in Procs, NEW step \in {"idle", "dead"}, Store!Leave(p, step),
         UNCHANGED <<looseObjects, pack, idx, clock, mtime, packList, cacheTime, loaded, stored,
                     own, thin, moved>>,
         storePc[p] \notin {"list", "dead"}
  PROVE  StoreIInv'
<1>1. CallTyped
  BY DEF StoreIInv
<1>2. /\ CallTyped' /\ storePc'[p] = step /\ since'[p] = {}
      /\ \A q \in Procs \ {p} : Still(q)
  BY <1>1, Leaves DEF Still
<1>3. Building(p)' /\ Looking(p)'
  BY <1>2 DEF Building, Packing, Looking
<1> QED
  BY <1>2, <1>3, LocalStep

\* A process that goes on to a step at which nothing is known of it, and the files stay.
LEMMA GoStep ==
  ASSUME StoreIInv, NEW p \in Procs, NEW step \in StoreSteps, Store!Goto(p, step),
         UNCHANGED <<looseObjects, pack, idx, clock, mtime, packList, cacheTime, loaded, stored,
                     own, thin, moved>>,
         storePc[p] \notin {"list", "dead"}, since' = since, CallTyped',
         \A q \in Procs \ {p} : /\ storeObj'[q] = storeObj[q] /\ storeTodo'[q] = storeTodo[q]
                                /\ got'[q] = got[q] /\ look'[q] = look[q],
         step \in {"packs", "exists", "create", "write", "close", "scan", "read"}
  PROVE  StoreIInv'
<1>1. storePc'[p] = step /\ \A q \in Procs \ {p} : Still(q)
  BY DEF StoreIInv, CallTyped, Store!Goto, Still
<1>2. Building(p)' /\ Looking(p)'
  BY <1>1 DEF Building, Packing, Looking
<1>3. since'[p] \subseteq pack
  BY DEF StoreIInv, Listed
<1> QED
  BY <1>1, <1>2, <1>3, LocalStep

\* The packs that are complete now are those that a search must find.
LEMMA StartKeeps == ASSUME StoreIInv, NEW p \in Procs, Store!Start(p) PROVE StoreIInv'
<1> USE DEF Store!Start, Store!Goto, Store!files, Store!cached, Store!ghosts
<1>1. CallTyped /\ StoreTyped
  BY DEF StoreIInv
<1>2. /\ storePc[p] = "idle" /\ look' = look
      /\ UNCHANGED <<looseObjects, pack, idx, clock, mtime, packList, cacheTime, loaded, stored,
                     own, thin, moved>>
  OBVIOUS
<1>3. since' = [since EXCEPT ![p] = pack \cap idx]
  OBVIOUS
<1>4. \A q \in Procs \ {p} : /\ storePc'[q] = storePc[q] /\ storeObj'[q] = storeObj[q]
                             /\ storeTodo'[q] = storeTodo[q] /\ got'[q] = got[q]
  BY <1>1 DEF CallTyped
<1>5. /\ storePc' \in [Procs -> StoreSteps] /\ storePc'[p] \in {"packs", "exists", "scan", "receive"}
      /\ storePc'[p] = "receive" => got'[p] \in Store!Packs
  BY <1>1 DEF CallTyped, StoreSteps
<1>6. /\ storeObj' \in [Procs -> Objects]
      /\ storeTodo' \in [Procs -> SUBSET Objects] /\ got' \in [Procs -> SUBSET Objects]
  BY <1>1 DEF CallTyped, Store!Packs
<1>7. since' \in [Procs -> SUBSET Store!Packs] /\ since'[p] = pack \cap idx
      /\ \A q \in Procs \ {p} : since'[q] = since[q]
  BY <1>1, <1>3 DEF CallTyped, StoreTyped
<1>8. CallTyped'
  BY <1>1, <1>2, <1>5, <1>6, <1>7 DEF CallTyped
<1>9. \A q \in Procs \ {p} : Still(q)
  BY <1>2, <1>4, <1>7 DEF Still
<1>10. Building(p)' /\ Looking(p)'
  BY <1>5 DEF Building, Packing, Looking
<1> QED
  BY <1>2, <1>7, <1>8, <1>9, <1>10, LocalStep

\* A list that is not older than the directory has all packs but those that came in the tick
\* in which it was read.
LEMMA ThePacksKeeps == ASSUME StoreIInv, NEW p \in Procs, Store!ThePacks(p) PROVE StoreIInv'
<1> USE DEF Store!ThePacks, Store!Goto, Store!files, Store!cached, Store!ghosts
<1>1. CallTyped /\ StoreTyped /\ Listed(p) /\ Filed
  BY DEF StoreIInv
<1>2. /\ storePc[p] = "packs" /\ since' = since /\ storeObj' = storeObj
      /\ UNCHANGED <<looseObjects, pack, idx, clock, mtime, packList, cacheTime, loaded, stored,
                     own, thin, moved>>
      /\ UNCHANGED <<storeTodo, got>>
  OBVIOUS
<1>3. since'[p] \subseteq pack
  BY <1>1, <1>2 DEF Listed
<1>4. CASE packList[p] = NotLoaded \/ mtime > cacheTime[p]
  <2>1. storePc' = [storePc EXCEPT ![p] = "stat"] /\ look' = look
    BY <1>4
  <2>2. CallTyped' /\ storePc'[p] = "stat" /\ \A q \in Procs \ {p} : Still(q)
    BY <1>1, <1>2, <2>1 DEF CallTyped, StoreSteps, Still
  <2>3. Building(p)' /\ Looking(p)'
    BY <2>2 DEF Building, Packing, Looking
  <2> QED
    BY <1>2, <1>3, <2>2, <2>3, LocalStep
<1>5. CASE packList[p] # NotLoaded /\ ~(mtime > cacheTime[p])
  <2>1. storePc' = [storePc EXCEPT ![p] = "look"] /\ look' = [look EXCEPT ![p] = packList[p]]
    BY <1>5
  <2>2. packList[p] \in SUBSET Store!Packs
    BY <1>1, <1>5 DEF StoreTyped
  <2>3. CallTyped' /\ storePc'[p] = "look" /\ look'[p] = packList[p]
        /\ \A q \in Procs \ {p} : Still(q)
    BY <1>1, <1>2, <2>1, <2>2 DEF CallTyped, StoreSteps, Still
  <2>4. ASSUME NEW k \in since[p], k \notin packList[p] PROVE moved[k] = loaded[p]
    <3>1. k \in pack
      BY <1>1 DEF Listed
    <3>2. moved[k] <= mtime /\ mtime <= cacheTime[p] /\ cacheTime[p] <= loaded[p]
          /\ loaded[p] <= moved[k]
      BY <1>1, <1>2, <1>5, <2>4, <3>1 DEF Filed, Listed, StoreTyped
    <3>3. moved[k] \in Int /\ mtime \in Int /\ cacheTime[p] \in Int /\ loaded[p] \in Int
      BY <1>1, <3>1 DEF StoreTyped
    <3> QED
      BY <3>2, <3>3
  <2>5. Looking(p)'
    BY <1>1, <1>2, <1>5, <2>3, <2>4 DEF Looking, Listed
  <2>6. Building(p)'
    BY <2>3 DEF Building, Packing
  <2> QED
    BY <1>2, <1>3, <2>3, <2>5, <2>6, LocalStep
<1> QED
  BY <1>4, <1>5

\* The time of the directory is read before its names.
LEMMA StatKeeps == ASSUME StoreIInv, NEW p \in Procs, Store!Stat(p) PROVE StoreIInv'
<1> USE DEF Store!Stat, Store!Goto, Store!files, Store!work, Store!ghosts
<1>1. CallTyped /\ StoreTyped /\ Listed(p) /\ Filed
  BY DEF StoreIInv
<1>2. /\ storePc' = [storePc EXCEPT ![p] = "list"] /\ cacheTime' = [cacheTime EXCEPT ![p] = mtime]
      /\ UNCHANGED <<looseObjects, pack, idx, clock, mtime, packList, loaded, stored, own, thin,
                     moved, storeObj, storeTodo, got, look, since>>
  OBVIOUS
<1>3. CallTyped' /\ storePc'[p] = "list" /\ cacheTime'[p] = mtime
      /\ \A q \in Procs \ {p} : Still(q)
  BY <1>1, <1>2 DEF CallTyped, StoreTyped, StoreSteps, Still
<1>4. StoreTyped' /\ Filed' /\ Grown
  BY <1>1, <1>2 DEF StoreTyped, Filed, Grown, Store!NothingIsLost
<1>5. Building(p)' /\ Looking(p)'
  BY <1>3 DEF Building, Packing, Looking
<1>6. Listed(p)'
  BY <1>1, <1>2, <1>3 DEF Listed, StoreTyped
<1> QED
  BY <1>3, <1>4, <1>5, <1>6, StepOf

\* All packs that are there are in the list then.
LEMMA ListKeeps == ASSUME StoreIInv, NEW p \in Procs, Store!List(p) PROVE StoreIInv'
<1> USE DEF Store!List, Store!Goto, Store!files, Store!ghosts
<1>1. CallTyped /\ StoreTyped /\ Listed(p) /\ Filed
  BY DEF StoreIInv
<1>2. /\ storePc' = [storePc EXCEPT ![p] = "look"] /\ packList' = [packList EXCEPT ![p] = pack]
      /\ loaded' = [loaded EXCEPT ![p] = clock] /\ look' = [look EXCEPT ![p] = pack]
      /\ UNCHANGED <<looseObjects, pack, idx, clock, mtime, cacheTime, stored, own, thin,
                     moved, storeObj, storeTodo, got, since>>
  OBVIOUS
<1>3. /\ CallTyped' /\ storePc'[p] = "look" /\ packList'[p] = pack /\ loaded'[p] = clock
      /\ look'[p] = pack
      /\ \A q \in Procs \ {p} : Still(q)
  BY <1>1, <1>2 DEF CallTyped, StoreTyped, StoreSteps, Still
<1>4. StoreTyped' /\ Filed' /\ Grown
  BY <1>1, <1>2 DEF StoreTyped, Filed, Grown, Store!NothingIsLost
<1>5. Building(p)'
  BY <1>3 DEF Building, Packing
<1>6. Looking(p)' /\ Listed(p)'
  BY <1>1, <1>2, <1>3 DEF Listed, Looking, StoreTyped
<1> QED
  BY <1>3, <1>4, <1>5, <1>6, StepOf


\* A pack that has not the object need not be looked in again.
LEMMA LookKeeps == ASSUME StoreIInv, NEW p \in Procs, Store!Look(p) PROVE StoreIInv'
<1> USE DEF Store!files, Store!cached, Store!ghosts
<1>1. CallTyped /\ StoreTyped /\ Listed(p) /\ Looking(p)
  BY DEF StoreIInv
<1>2. /\ storePc[p] = "look"
      /\ UNCHANGED <<looseObjects, pack, idx, clock, mtime, packList, cacheTime, loaded, stored,
                     own, thin, moved>>
  BY DEF Store!Look
<1>3. PICK k \in look[p] :
        \/ Store!Return(p)
        \/ /\ storeObj[p] \notin k /\ look' = [look EXCEPT ![p] = @ \ {k}]
           /\ UNCHANGED <<storePc, storeObj, storeTodo, got, since>>
  BY DEF Store!Look
<1>4. CASE Store!Return(p)
  BY <1>2, <1>4, ReturnStep DEF Store!Return
<1>5. CASE /\ storeObj[p] \notin k /\ look' = [look EXCEPT ![p] = @ \ {k}]
           /\ UNCHANGED <<storePc, storeObj, storeTodo, got, since>>
  <2>1. CallTyped' /\ look'[p] = look[p] \ {k} /\ \A q \in Procs \ {p} : Still(q)
    BY <1>1, <1>2, <1>5 DEF CallTyped, Still
  <2>2. Building(p)'
    BY <1>2, <1>5 DEF Building, Packing
  <2>3. Looking(p)'
    BY <1>1, <1>2, <1>5, <2>1 DEF Looking
  <2>4. since'[p] \subseteq pack
    BY <1>1, <1>5 DEF Listed
  <2> QED
    BY <1>2, <2>1, <2>2, <2>3, <2>4, LocalStep
<1> QED
  BY <1>3, <1>4, <1>5

LEMMA LookLooseKeeps == ASSUME StoreIInv, NEW p \in Procs, Store!LookLoose(p) PROVE StoreIInv'
BY ReturnStep DEF Store!LookLoose, Store!Return, Store!files, Store!cached, Store!ghosts

LEMMA ExistsKeeps == ASSUME StoreIInv, NEW p \in Procs, Store!Exists(p) PROVE StoreIInv'
<1> USE DEF Store!Exists, Store!files, Store!cached, Store!ghosts, Store!work
<1>1. CASE storeObj[p] \in looseObjects
  BY <1>1, ReturnStep DEF Store!Return
<1>2. CASE storeObj[p] \notin looseObjects
  <2>1. CallTyped'
    BY <1>2 DEF StoreIInv, CallTyped, Store!Goto, StoreSteps
  <2> QED
    BY <1>2, <2>1, GoStep DEF StoreSteps
<1> QED
  BY <1>1, <1>2

LEMMA CreateKeeps == ASSUME StoreIInv, NEW p \in Procs, Store!Create(p) PROVE StoreIInv'
<1> USE DEF Store!Create, Store!cached, Store!ghosts, Store!work
<1>1. CASE objectLock[storeObj[p]] # Free
  BY <1>1, ReturnStep DEF Store!Return
<1>2. CASE objectLock[storeObj[p]] = Free
  <2>1. CallTyped'
    BY <1>2 DEF StoreIInv, CallTyped, Store!Goto, StoreSteps
  <2> QED
    BY <1>2, <2>1, GoStep DEF StoreSteps
<1> QED
  BY <1>1, <1>2

LEMMA WriteKeeps == ASSUME StoreIInv, NEW p \in Procs, Store!Write(p) PROVE StoreIInv'
<1> USE DEF Store!Write, Store!cached, Store!ghosts, Store!work
<1>1. CASE Store!Return(p)
  BY <1>1, ReturnStep DEF Store!Return
<1>2. CASE Store!Goto(p, "close") /\ UNCHANGED <<storeObj, storeTodo, got, look, since>>
  <2>1. CallTyped'
    BY <1>2 DEF StoreIInv, CallTyped, Store!Goto, StoreSteps
  <2> QED
    BY <1>2, <2>1, GoStep DEF StoreSteps
<1> QED
  BY <1>1, <1>2

\* What add_object() stores is in a loose file.
LEMMA CloseKeeps == ASSUME StoreIInv, NEW p \in Procs, Store!Close(p) PROVE StoreIInv'
<1> USE DEF Store!Close, Store!cached, Store!work
<1>1. CallTyped /\ StoreTyped /\ Listed(p) /\ Filed
  BY DEF StoreIInv
<1>2. /\ storePc[p] = "close" /\ looseObjects' = looseObjects \cup {storeObj[p]}
      /\ stored' = stored \cup {storeObj[p]} /\ Store!Goto(p, "abort")
      /\ UNCHANGED <<pack, idx, clock, mtime, packList, cacheTime, loaded, own, thin, moved,
                     storeObj, storeTodo, got, look, since>>
  OBVIOUS
<1>3. storeObj[p] \in Objects
  BY <1>1 DEF CallTyped
<1>4. StoreTyped' /\ Grown
  BY <1>1, <1>2, <1>3 DEF StoreTyped, Grown
<1>5. Filed'
  BY <1>1, <1>2 DEF Filed, Store!NothingIsLost
<1>6. CallTyped' /\ storePc'[p] = "abort" /\ \A q \in Procs \ {p} : Still(q)
  BY <1>1, <1>2 DEF CallTyped, Store!Goto, StoreSteps, Still
<1>7. Building(p)' /\ Looking(p)'
  BY <1>6 DEF Building, Packing, Looking
<1>8. Listed(p)'
  BY <1>1, <1>2, <1>6 DEF Listed
<1> QED
  BY <1>4, <1>5, <1>6, <1>7, <1>8, StepOf

LEMMA AbortKeeps == ASSUME StoreIInv, NEW p \in Procs, Store!Abort(p) PROVE StoreIInv'
BY ReturnStep DEF Store!Abort, Store!Return, Store!cached

-----------------------------------------------------------------------------
(* Packing.                                                                *)

LEMMA ScanKeeps == ASSUME StoreIInv, NEW p \in Procs, Store!Scan(p) PROVE StoreIInv'
<1> USE DEF Store!files, Store!cached, Store!ghosts
<1>1. CallTyped
  BY DEF StoreIInv
<1>2. /\ storePc[p] = "scan"
      /\ UNCHANGED <<looseObjects, pack, idx, clock, mtime, packList, cacheTime, loaded, stored,
                     own, thin, moved>>
  BY DEF Store!Scan
<1>3. PICK o \in storeTodo[p] :
        \/ Store!Return(p)
        \/ /\ storeObj' = [storeObj EXCEPT ![p] = o] /\ Store!Goto(p, "read")
           /\ UNCHANGED <<storeTodo, got, look, since>>
        \/ /\ storeTodo' = [storeTodo EXCEPT ![p] = @ \ {o}]
           /\ UNCHANGED <<storePc, storeObj, got, look, since>>
  BY DEF Store!Scan
<1>4. o \in Objects
  BY <1>1 DEF CallTyped
<1>5. CASE Store!Return(p)
  BY <1>2, <1>5, ReturnStep DEF Store!Return
<1>6. CASE /\ storeObj' = [storeObj EXCEPT ![p] = o] /\ Store!Goto(p, "read")
           /\ UNCHANGED <<storeTodo, got, look, since>>
  <2>1. CallTyped' /\ \A q \in Procs \ {p} : storeObj'[q] = storeObj[q]
    BY <1>1, <1>4, <1>6 DEF CallTyped, Store!Goto, StoreSteps
  <2> QED
    BY <1>2, <1>6, <2>1, GoStep DEF StoreSteps
<1>7. CASE /\ storeTodo' = [storeTodo EXCEPT ![p] = @ \ {o}]
           /\ UNCHANGED <<storePc, storeObj, got, look, since>>
  <2>1. Store!Goto(p, "scan")
    BY <1>1, <1>2, <1>7 DEF CallTyped, Store!Goto
  <2>2. CallTyped' /\ \A q \in Procs \ {p} : storeTodo'[q] = storeTodo[q]
    BY <1>1, <1>7 DEF CallTyped
  <2> QED
    BY <1>2, <1>7, <2>1, <2>2, GoStep DEF StoreSteps
<1> QED
  BY <1>3, <1>5, <1>6, <1>7

LEMMA ReadKeeps == ASSUME StoreIInv, NEW p \in Procs, Store!Read(p) PROVE StoreIInv'
<1> USE DEF Store!files, Store!cached, Store!ghosts
<1>1. CallTyped
  BY DEF StoreIInv
<1>2. /\ storePc[p] = "read"
      /\ UNCHANGED <<looseObjects, pack, idx, clock, mtime, packList, cacheTime, loaded, stored,
                     own, thin, moved>>
  BY DEF Store!Read
<1>3. \/ Store!Return(p)
      \/ /\ got' = [got EXCEPT ![p] = @ \cup {storeObj[p]}]
         /\ storeTodo' = [storeTodo EXCEPT ![p] = @ \ {storeObj[p]}]
         /\ Store!Goto(p, "scan") /\ UNCHANGED <<storeObj, look, since>>
  BY DEF Store!Read
<1>4. CASE Store!Return(p)
  BY <1>2, <1>4, ReturnStep DEF Store!Return
<1>5. CASE /\ got' = [got EXCEPT ![p] = @ \cup {storeObj[p]}]
           /\ storeTodo' = [storeTodo EXCEPT ![p] = @ \ {storeObj[p]}]
           /\ Store!Goto(p, "scan") /\ UNCHANGED <<storeObj, look, since>>
  <2>1. CallTyped'
    BY <1>1, <1>5 DEF CallTyped, Store!Goto, StoreSteps
  <2>2. \A q \in Procs \ {p} : got'[q] = got[q] /\ storeTodo'[q] = storeTodo[q]
    BY <1>1, <1>5 DEF CallTyped
  <2> QED
    BY <1>2, <1>5, <2>1, <2>2, GoStep DEF StoreSteps
<1> QED
  BY <1>3, <1>4, <1>5

\* A step that may change a file of pack_dir, which is no .pack file.
LEMMA TouchStep ==
  ASSUME StoreIInv, NEW p \in Procs, CallTyped', mtime' \in {mtime, clock},
         idx \subseteq idx',
         idx' \subseteq Store!Packs,
         UNCHANGED <<looseObjects, pack, clock, packList, cacheTime, loaded, stored, own, thin,
                     moved, storeObj, storeTodo, got, look, since>>,
         NEW step \in StoreSteps, Store!Goto(p, step), storePc[p] \notin {"list", "dead"},
         step \notin {"list", "look"}, Building(p)'
  PROVE  StoreIInv'
<1>1. StoreTyped /\ CallTyped /\ Filed /\ Listed(p)
  BY DEF StoreIInv
<1>2. storePc'[p] = step /\ \A q \in Procs \ {p} : Still(q)
  BY <1>1 DEF CallTyped, Store!Goto, Still
<1>3. StoreTyped' /\ Grown
  BY <1>1 DEF StoreTyped, Grown
<1>4. Filed'
  BY <1>1, <1>3, FilesKeep
<1>5. Listed(p)' /\ Looking(p)'
  BY <1>1, <1>2 DEF Listed, Looking
<1> QED
  BY <1>2, <1>3, <1>4, <1>5, StepOf

\* And one that returns.
LEMMA TouchReturn ==
  ASSUME StoreIInv, NEW p \in Procs, Store!Return(p), mtime' \in {mtime, clock},
         UNCHANGED <<looseObjects, pack, idx, clock, packList, cacheTime, loaded, stored, own,
                     thin, moved>>,
         storePc[p] \notin {"list", "dead"}
  PROVE  StoreIInv'
<1>1. StoreTyped /\ CallTyped /\ Filed /\ Listed(p) /\ Store!Leave(p, "idle")
  BY DEF StoreIInv, Store!Return
<1>2. StoreTyped' /\ Grown
  BY <1>1 DEF StoreTyped, Grown
<1>3. Filed'
  BY <1>1, <1>2, FilesKeep
<1>4. CallTyped' /\ \A q \in Procs \ {p} : Still(q)
  BY <1>1, Leaves DEF Still
<1>5. Building(p)' /\ Listed(p)' /\ Looking(p)'
  BY <1>1, <1>2, LeaveKeeps
<1> QED
  BY <1>2, <1>3, <1>4, <1>5, StepOf

\* The new pack is to have some objects.
LEMMA WritePackKeeps == ASSUME StoreIInv, NEW p \in Procs, Store!WritePack(p) PROVE StoreIInv'
<1> USE DEF Store!WritePack, Store!cached, Store!ghosts, Store!work
<1>1. CallTyped /\ StoreTyped
  BY DEF StoreIInv
<1>2. CASE got[p] = {}
  BY <1>2, ReturnStep DEF Store!Return
<1>3. CASE got[p] # {}
  <2>1. /\ storePc[p] = "scan" /\ mtime' = clock /\ Store!Goto(p, "index")
        /\ UNCHANGED <<looseObjects, pack, idx, clock, packList, cacheTime, loaded, stored, own,
                       thin, moved, storeObj, storeTodo, got, look, since>>
    BY <1>3 DEF Store!Touched
  <2>2. CallTyped' /\ storePc'[p] = "index"
    BY <1>1, <2>1 DEF CallTyped, Store!Goto, StoreSteps
  <2>3. got[p] \in Store!Packs
    BY <1>1, <1>3 DEF CallTyped, Store!Packs
  <2>4. Building(p)'
    BY <2>1, <2>2, <2>3 DEF Building, Packing
  <2>5. idx' \subseteq Store!Packs /\ "index" \in StoreSteps
    BY <1>1, <2>1 DEF StoreTyped, StoreSteps
  <2> QED
    BY <2>1, <2>2, <2>4, <2>5, TouchStep
<1> QED
  BY <1>2, <1>3

LEMMA IndexLockKeeps == ASSUME StoreIInv, NEW p \in Procs, Store!IndexLock(p) PROVE StoreIInv'
<1> USE DEF Store!IndexLock, Store!cached, Store!ghosts, Store!work
<1>1. CallTyped /\ StoreTyped /\ Building(p)
  BY DEF StoreIInv
<1>2. CASE idxLock[got[p]] # Free
  BY <1>2, ReturnStep DEF Store!Return
<1>3. CASE idxLock[got[p]] = Free
  <2>1. /\ storePc[p] \in {"index", "thinIndex"} /\ mtime' = clock
        /\ UNCHANGED <<looseObjects, pack, idx, clock, packList, cacheTime, loaded, stored, own,
                       thin, moved, storeObj, storeTodo, got, look, since>>
    BY <1>3 DEF Store!Touched
  <2>2. Store!Goto(p, IF storePc[p] = "index" THEN "indexed" ELSE "thinIndexed")
    BY <1>3
  <2>3. PICK step \in {"indexed", "thinIndexed"} :
          Store!Goto(p, step) /\ (step = "thinIndexed" => storePc[p] = "thinIndex")
    BY <2>1, <2>2
  <2>4. CallTyped' /\ storePc'[p] = step
    BY <1>1, <2>1, <2>3 DEF CallTyped, Store!Goto, StoreSteps
  <2>5. Building(p)'
    BY <1>1, <2>1, <2>3, <2>4 DEF Building, Packing
  <2>6. idx' \subseteq Store!Packs /\ step \in StoreSteps
    BY <1>1, <2>1 DEF StoreTyped, StoreSteps
  <2> QED
    BY <2>1, <2>3, <2>4, <2>5, <2>6, TouchStep
<1> QED
  BY <1>2, <1>3

LEMMA IndexFailsKeeps == ASSUME StoreIInv, NEW p \in Procs, Store!IndexFails(p) PROVE StoreIInv'
BY TouchReturn DEF Store!IndexFails, Store!Touched, Store!cached, Store!ghosts

\* The index is there before the pack is, or it comes to one that was received.
LEMMA IndexedKeeps == ASSUME StoreIInv, NEW p \in Procs, Store!Indexed(p) PROVE StoreIInv'
<1> USE DEF Store!Indexed, Store!cached, Store!ghosts, Store!work
<1>1. CallTyped /\ StoreTyped /\ Building(p)
  BY DEF StoreIInv
<1>2. /\ storePc[p] \in {"indexed", "thinIndexed"} /\ mtime' = clock
      /\ idx' = idx \cup {got[p]}
      /\ UNCHANGED <<looseObjects, pack, clock, packList, cacheTime, loaded, stored, own,
                     thin, moved, storeObj, storeTodo, got, look, since>>
  BY DEF Store!Touched
<1>3. PICK step \in {"indexAbort", "thinAbort"} :
        Store!Goto(p, step) /\ (step = "thinAbort" => storePc[p] = "thinIndexed")
  BY <1>2
<1>4. CallTyped' /\ storePc'[p] = step /\ step \in StoreSteps
  BY <1>1, <1>2, <1>3 DEF CallTyped, Store!Goto, StoreSteps
<1>5. got[p] \in Store!Packs
  BY <1>1, <1>2 DEF Building, Packing
<1>6. Building(p)' /\ idx' \subseteq Store!Packs
  BY <1>1, <1>2, <1>3, <1>4, <1>5 DEF Building, Packing, StoreTyped
<1> QED
  BY <1>2, <1>3, <1>4, <1>6, TouchStep

LEMMA IndexAbortKeeps == ASSUME StoreIInv, NEW p \in Procs, Store!IndexAbort(p) PROVE StoreIInv'
<1> USE DEF Store!IndexAbort, Store!cached, Store!work
<1>1. CallTyped /\ StoreTyped /\ Building(p)
  BY DEF StoreIInv
<1>2. /\ storePc[p] = "indexAbort" /\ mtime' \in {mtime, clock} /\ Store!Goto(p, "rename")
      /\ UNCHANGED <<looseObjects, pack, idx, clock, packList, cacheTime, loaded, stored, own,
                     thin, moved, storeObj, storeTodo, got, look, since>>
  BY DEF Store!RemoveIdxLock, Store!Touched
<1>3. CallTyped' /\ storePc'[p] = "rename" /\ "rename" \in StoreSteps
  BY <1>1, <1>2 DEF CallTyped, Store!Goto, StoreSteps
<1>4. Building(p)' /\ idx' \subseteq Store!Packs
  BY <1>1, <1>2, <1>3 DEF Building, Packing, StoreTyped
<1> QED
  BY <1>2, <1>3, <1>4, TouchStep

\* _add_known_pack() adds the pack to the list that the process has, and to no other.
LEMMA KnownKeeps ==
  ASSUME StoreTyped, StoreTyped', Grown, NEW p \in Procs, Store!AddKnown(p), Listed(p),
         got[p] \in pack', since'[p] \subseteq pack', storePc[p] \notin {"list", "dead"},
         cacheTime' = cacheTime, loaded' = loaded
  PROVE  Listed(p)'
<1>1. own'[p] = own[p] \cup {got[p]}
      /\ packList'[p] = IF packList[p] = NotLoaded THEN NotLoaded ELSE packList[p] \cup {got[p]}
  BY DEF Store!AddKnown, StoreTyped
<1>2. own'[p] \subseteq pack' /\ loaded'[p] <= clock' /\ cacheTime'[p] <= clock'
  BY <1>1 DEF Listed, Grown, StoreTyped
<1>3. ASSUME packList'[p] # NotLoaded
      PROVE  /\ own'[p] \subseteq packList'[p] /\ packList'[p] \subseteq pack'
             /\ cacheTime'[p] <= loaded'[p]
             /\ \A k \in pack' \ packList'[p] : loaded'[p] <= moved'[k]
  <2>1. packList[p] # NotLoaded /\ packList'[p] = packList[p] \cup {got[p]}
    BY <1>1, <1>3
  <2>2. ASSUME NEW k \in pack' \ packList'[p] PROVE loaded'[p] <= moved'[k]
    <3>1. CASE k \in pack
      BY <2>1, <2>2, <3>1 DEF Listed, Grown
    <3>2. CASE k \notin pack
      BY <2>2, <3>2 DEF Listed, Grown
    <3> QED
      BY <3>1, <3>2
  <2>3. own'[p] \subseteq packList'[p] /\ packList'[p] \subseteq pack'
    BY <1>1, <2>1 DEF Listed, Grown
  <2>4. cacheTime'[p] <= loaded'[p]
    BY <2>1 DEF Listed
  <2> QED
    BY <2>2, <2>3, <2>4
<1> QED
  BY <1>2, <1>3 DEF Listed

\* What a pack that comes does to the files.
LEMMA Comes ==
  ASSUME StoreTyped, NEW k \in Store!Packs, Store!Renamed(k), clock' = clock, idx \subseteq idx'
  PROVE  Grown /\ pack' = pack \cup {k} /\ moved' \in [Store!Packs -> Int]
<1>1. k \notin pack => moved'[k] = clock
  BY DEF Store!Renamed, StoreTyped
<1>2. \A l \in pack : moved'[l] = moved[l]
  BY DEF Store!Renamed, StoreTyped
<1>3. pack' = pack \cup {k} /\ moved' \in [Store!Packs -> Int]
  BY DEF Store!Renamed, StoreTyped
<1> QED
  BY <1>1, <1>2, <1>3 DEF Grown, StoreTyped

\* What is added to a list is a pack.
LEMMA KnownTyped ==
  ASSUME StoreTyped, NEW p \in Procs, got[p] \in Store!Packs, Store!AddKnown(p)
  PROVE  /\ packList' \in [Procs -> (SUBSET Store!Packs) \cup {NotLoaded}]
         /\ own' \in [Procs -> SUBSET Store!Packs]
         /\ \A q \in Procs \ {p} : packList'[q] = packList[q] /\ own'[q] = own[q]
<1>1. packList[p] \in SUBSET Store!Packs \/ packList[p] = NotLoaded
  BY DEF StoreTyped
<1> QED
  BY <1>1 DEF Store!AddKnown, StoreTyped

\* A pack of loose objects: it comes when its index is there.
LEMMA RenameKeeps == ASSUME StoreIInv, NEW p \in Procs, Store!Rename(p) PROVE StoreIInv'
<1> USE DEF Store!Rename
<1>1. CallTyped /\ StoreTyped /\ Building(p) /\ Listed(p) /\ Filed
  BY DEF StoreIInv
<1>2. /\ storePc[p] = "rename" /\ mtime' = clock /\ Store!Goto(p, "remove")
      /\ Store!Renamed(got[p]) /\ Store!AddKnown(p)
      /\ storeTodo' = [storeTodo EXCEPT ![p] = got[p]]
      /\ UNCHANGED <<looseObjects, idx, clock, cacheTime, loaded, stored, thin, storeObj, got,
                     look, since>>
  BY DEF Store!Touched
<1>3. got[p] \in Store!Packs /\ got[p] \in idx
  BY <1>1, <1>2 DEF Building, Packing
<1>4. Grown /\ pack' = pack \cup {got[p]} /\ moved' \in [Store!Packs -> Int]
  BY <1>1, <1>2, <1>3, Comes
<1>5. /\ packList' \in [Procs -> (SUBSET Store!Packs) \cup {NotLoaded}]
      /\ own' \in [Procs -> SUBSET Store!Packs]
      /\ \A q \in Procs \ {p} : packList'[q] = packList[q] /\ own'[q] = own[q]
  BY <1>1, <1>2, <1>3, KnownTyped
<1>6. /\ CallTyped' /\ storePc'[p] = "remove" /\ storeTodo'[p] = got[p]
      /\ \A q \in Procs \ {p} : storePc'[q] = storePc[q] /\ storeTodo'[q] = storeTodo[q]
  BY <1>1, <1>2 DEF CallTyped, Store!Goto, StoreSteps
<1>7. \A q \in Procs \ {p} : Still(q)
  BY <1>2, <1>5, <1>6 DEF Still
<1>8. StoreTyped'
  BY <1>1, <1>2, <1>3, <1>4, <1>5 DEF StoreTyped
<1>9. Filed'
  BY <1>1, <1>2, <1>3, <1>4, FilesKeep
<1>10. Listed(p)'
  BY <1>1, <1>2, <1>4, <1>8, KnownKeeps DEF Listed
<1>11. Building(p)' /\ Looking(p)'
  BY <1>2, <1>3, <1>4, <1>6 DEF Building, Packing, Looking
<1> QED
  BY <1>4, <1>6, <1>7, <1>8, <1>9, <1>10, <1>11, StepOf

\* What is removed is in the pack, and that is complete.
LEMMA RemoveKeeps == ASSUME StoreIInv, NEW p \in Procs, Store!Remove(p) PROVE StoreIInv'
<1> USE DEF Store!cached, Store!ghosts
<1>1. CallTyped /\ StoreTyped /\ Building(p) /\ Listed(p) /\ Filed
  BY DEF StoreIInv
<1>2. /\ storePc[p] = "remove"
      /\ UNCHANGED <<pack, idx, clock, mtime, packList, cacheTime, loaded, stored, own, thin, moved>>
  BY DEF Store!Remove
<1>3. CASE Store!Return(p) /\ looseObjects' = looseObjects
  BY <1>2, <1>3, ReturnStep DEF Store!Return
<1>4. ASSUME NEW o \in storeTodo[p], looseObjects' = looseObjects \ {o},
             storeTodo' = [storeTodo EXCEPT ![p] = @ \ {o}],
             UNCHANGED <<storePc, storeObj, got, look, since>>
      PROVE  StoreIInv'
  <2>1. CallTyped' /\ storeTodo'[p] = storeTodo[p] \ {o} /\ \A q \in Procs \ {p} : Still(q)
    BY <1>1, <1>2, <1>4 DEF CallTyped, Still
  <2>2. StoreTyped' /\ Grown
    BY <1>1, <1>2, <1>4 DEF StoreTyped, Grown
  <2>3. o \in got[p] /\ got[p] \in pack \cap idx
    BY <1>1, <1>2 DEF Building, Packing
  <2>4. Filed'
    BY <1>1, <1>2, <1>4, <2>2, <2>3, FilesKeep
  <2>5. Building(p)' /\ Listed(p)' /\ Looking(p)'
    BY <1>1, <1>2, <1>4, <2>1 DEF Building, Packing, Listed, Looking
  <2> QED
    BY <2>1, <2>2, <2>4, <2>5, StepOf
<1> QED
  BY <1>3, <1>4 DEF Store!Remove

\* A pack that is received: it comes before its index.
LEMMA ReceiveKeeps == ASSUME StoreIInv, NEW p \in Procs, Store!Receive(p) PROVE StoreIInv'
<1> USE DEF Store!Receive, Store!cached, Store!work
<1>1. CallTyped /\ StoreTyped /\ Building(p) /\ Listed(p) /\ Filed
  BY DEF StoreIInv
<1>2. /\ storePc[p] = "receive" /\ mtime' = clock /\ Store!Goto(p, "thinIndex")
      /\ Store!Renamed(got[p]) /\ thin' = thin \cup {got[p]}
      /\ UNCHANGED <<looseObjects, idx, clock, packList, cacheTime, loaded, stored, own, storeObj,
                     storeTodo, got, look, since>>
  BY DEF Store!Touched
<1>3. got[p] \in Store!Packs
  BY <1>1, <1>2 DEF Building, Packing
<1>4. Grown /\ pack' = pack \cup {got[p]} /\ moved' \in [Store!Packs -> Int]
  BY <1>1, <1>2, <1>3, Comes
<1>5. CallTyped' /\ storePc'[p] = "thinIndex" /\ \A q \in Procs \ {p} : Still(q)
  BY <1>1, <1>2 DEF CallTyped, Store!Goto, StoreSteps, Still
<1>6. StoreTyped'
  BY <1>1, <1>2, <1>3, <1>4 DEF StoreTyped
<1>7. Filed'
  BY <1>1, <1>2, <1>4, FilesKeep
<1>8. Building(p)' /\ Looking(p)'
  BY <1>2, <1>3, <1>4, <1>5 DEF Building, Packing, Looking
<1>9. Listed(p)'
  <2>1. ASSUME packList[p] # NotLoaded, NEW k \in pack' \ packList[p]
        PROVE  loaded[p] <= moved'[k]
    <3>1. CASE k \in pack
      BY <1>1, <2>1, <3>1, <1>4 DEF Listed, Grown
    <3>2. CASE k \notin pack
      BY <1>1, <2>1, <3>2, <1>4 DEF Listed, Grown
    <3> QED
      BY <3>1, <3>2
  <2> QED
    BY <1>1, <1>2, <1>4, <1>5, <2>1 DEF Listed
<1> QED
  BY <1>4, <1>5, <1>6, <1>7, <1>8, <1>9, StepOf

\* What was received is stored when the index is there.
LEMMA ThinIndexedKeeps == ASSUME StoreIInv, NEW p \in Procs, Store!ThinIndexed(p) PROVE StoreIInv'
<1> USE DEF Store!ThinIndexed
<1>1. CallTyped /\ StoreTyped /\ Building(p) /\ Listed(p) /\ Filed
  BY DEF StoreIInv
<1>2. /\ storePc[p] = "thinAbort" /\ mtime' \in {mtime, clock} /\ Store!Leave(p, "idle")
      /\ stored' = stored \cup got[p] /\ Store!AddKnown(p)
      /\ UNCHANGED <<looseObjects, pack, idx, clock, cacheTime, loaded, thin, moved>>
  BY DEF Store!RemoveIdxLock, Store!Touched, Store!Return
<1>3. got[p] \in Store!Packs /\ got[p] \in pack \cap idx /\ got[p] \subseteq Objects
  BY <1>1, <1>2 DEF Building, Packing, Store!Packs
<1>4. Grown
  BY <1>1, <1>2 DEF Grown, StoreTyped
<1>5. /\ packList' \in [Procs -> (SUBSET Store!Packs) \cup {NotLoaded}]
      /\ own' \in [Procs -> SUBSET Store!Packs]
      /\ \A q \in Procs \ {p} : packList'[q] = packList[q] /\ own'[q] = own[q]
  BY <1>1, <1>2, <1>3, KnownTyped
<1>6. /\ CallTyped' /\ storePc'[p] = "idle" /\ since'[p] = {}
      /\ \A q \in Procs \ {p} : Still(q)
  BY <1>1, <1>2, <1>5, Leaves DEF Still
<1>7. StoreTyped'
  BY <1>1, <1>2, <1>3, <1>5 DEF StoreTyped
<1>8. Filed'
  BY <1>1, <1>2, <1>3, <1>4, FilesKeep
<1>9. Listed(p)'
  BY <1>1, <1>2, <1>3, <1>4, <1>6, <1>7, KnownKeeps
<1>10. Building(p)' /\ Looking(p)'
  BY <1>6 DEF Building, Packing, Looking
<1> QED
  BY <1>4, <1>6, <1>7, <1>8, <1>9, <1>10, StepOf

LEMMA DieKeeps == ASSUME StoreIInv, NEW p \in Procs, Store!Die(p) PROVE StoreIInv'
<1> USE DEF Store!Die, Store!files, Store!cached, Store!ghosts
<1>1. CallTyped /\ StoreTyped /\ Listed(p) /\ Filed
  BY DEF StoreIInv
<1>2. StoreTyped' /\ Filed' /\ Grown
  BY <1>1 DEF StoreTyped, Filed, Grown, Store!NothingIsLost
<1>3. CallTyped' /\ \A q \in Procs \ {p} : Still(q)
  BY <1>1, Leaves DEF Still
<1>4. Building(p)' /\ Listed(p)' /\ Looking(p)'
  BY <1>1, <1>2, LeaveKeeps
<1> QED
  BY <1>2, <1>3, <1>4, StepOf

\* Time goes on, or nothing does.
LEMMA TickKeeps ==
  ASSUME StoreIInv, Store!Tick \/ UNCHANGED Store!vars PROVE StoreIInv'
<1> USE DEF Store!Tick, Store!files, Store!vars, Store!cached, Store!ghosts, Store!work
<1>1. StoreTyped /\ CallTyped /\ Filed
  BY DEF StoreIInv
<1>2. /\ UNCHANGED <<looseObjects, pack, idx, mtime, packList, cacheTime, loaded, stored, own,
                     thin, moved, storePc, storeObj, storeTodo, got, look, since>>
      /\ clock' \in {clock, clock + 1}
  OBVIOUS
<1>3. StoreTyped' /\ Grown
  BY <1>1, <1>2 DEF StoreTyped, Grown
<1>4. CallTyped' /\ Filed'
  BY <1>1, <1>2 DEF CallTyped, Filed, Store!NothingIsLost
<1>5. ASSUME NEW q \in Procs PROVE Building(q)' /\ Listed(q)' /\ Looking(q)'
  BY <1>1, <1>2, <1>3, StillKeeps DEF StoreIInv, Still
<1> QED
  BY <1>3, <1>4, <1>5 DEF StoreIInv

StoreMove(p) ==
  \/ Store!Start(p) \/ Store!ThePacks(p) \/ Store!Stat(p) \/ Store!List(p)
  \/ Store!Look(p) \/ Store!LookLoose(p)
  \/ Store!Exists(p) \/ Store!Create(p) \/ Store!Write(p) \/ Store!Close(p) \/ Store!Abort(p)
  \/ Store!Scan(p) \/ Store!Read(p) \/ Store!WritePack(p)
  \/ Store!IndexLock(p) \/ Store!IndexFails(p) \/ Store!Indexed(p) \/ Store!IndexAbort(p)
  \/ Store!Rename(p) \/ Store!Remove(p) \/ Store!Receive(p) \/ Store!ThinIndexed(p)
  \/ Store!Die(p)

\* Every step of the store keeps the invariant.
LEMMA StoreStep == ASSUME StoreIInv, [Store!Next]_Store!vars PROVE StoreIInv'
<1>1. ASSUME NEW p \in Procs, StoreMove(p) PROVE StoreIInv'
  BY <1>1, StartKeeps, ThePacksKeeps, StatKeeps, ListKeeps, LookKeeps, LookLooseKeeps,
     ExistsKeeps, CreateKeeps, WriteKeeps, CloseKeeps, AbortKeeps, ScanKeeps, ReadKeeps,
     WritePackKeeps, IndexLockKeeps, IndexFailsKeeps, IndexedKeeps, IndexAbortKeeps,
     RenameKeeps, RemoveKeeps, ReceiveKeeps, ThinIndexedKeeps, DieKeeps DEF StoreMove
<1> QED
  BY <1>1, TickKeeps DEF Store!Next, StoreMove

-----------------------------------------------------------------------------
(* The locks of the files that are written.                                *)

\* A step of one process leaves the others where they are.
LEMMA OthersStand ==
  ASSUME CallTyped, NEW p \in Procs, StoreMove(p), NEW q \in Procs \ {p}
  PROVE  storePc'[q] = storePc[q] /\ storeObj'[q] = storeObj[q] /\ got'[q] = got[q]
<1> USE DEF CallTyped, Store!Goto, Store!Leave, Store!Return, Store!work
<1>1. CASE Store!Start(p) \/ Store!ThePacks(p) \/ Store!Stat(p) \/ Store!List(p)
  BY <1>1 DEF Store!Start, Store!ThePacks, Store!Stat, Store!List
<1>2. CASE Store!Look(p) \/ Store!LookLoose(p) \/ Store!Exists(p) \/ Store!Create(p)
  BY <1>2 DEF Store!Look, Store!LookLoose, Store!Exists, Store!Create
<1>3. CASE Store!Write(p) \/ Store!Close(p) \/ Store!Abort(p) \/ Store!Scan(p)
  BY <1>3 DEF Store!Write, Store!Close, Store!Abort, Store!Scan
<1>4. CASE Store!Read(p) \/ Store!WritePack(p) \/ Store!IndexLock(p) \/ Store!IndexFails(p)
  BY <1>4 DEF Store!Read, Store!WritePack, Store!IndexLock, Store!IndexFails
<1>5. CASE Store!Indexed(p) \/ Store!IndexAbort(p) \/ Store!Rename(p) \/ Store!Remove(p)
  BY <1>5 DEF Store!Indexed, Store!IndexAbort, Store!Rename, Store!Remove
<1>6. CASE Store!Receive(p) \/ Store!ThinIndexed(p) \/ Store!Die(p)
  BY <1>6 DEF Store!Receive, Store!ThinIndexed, Store!Die
<1> QED
  BY <1>1, <1>2, <1>3, <1>4, <1>5, <1>6 DEF StoreMove

\* What a process has the locks of.
OwnLocks(p) ==
  /\ storePc[p] \in {"write", "close"} => objectLock[storeObj[p]] = p
  /\ storePc[p] \in {"indexed", "thinIndexed"} => idxLock[got[p]] = p

\* Nobody takes a lock from the process that has it, without that it is robbed.
LEMMA LocksHold ==
  ASSUME StoreIInv, LocksTyped, Store!RenamesItsOwn, ~storeRobbed, NEW p \in Procs, StoreMove(p),
         \A o \in Objects : objectLock[o] \in {p, Free, Left} \/ storeRobbed'
                             \/ objectLock'[o] = objectLock[o],
         \A k \in Store!Packs : idxLock[k] \in {p, Free, Left} \/ storeRobbed'
                                \/ idxLock'[k] = idxLock[k],
         storeRobbed' \/ OwnLocks(p)'
  PROVE  Store!RenamesItsOwn'
<1> SUFFICES ASSUME ~storeRobbed', NEW q \in Procs PROVE OwnLocks(q)'
  BY DEF Store!RenamesItsOwn, OwnLocks
<1>1. CASE q = p
  BY <1>1
<1>2. CASE q # p
  <2>1. storePc'[q] = storePc[q] /\ storeObj'[q] = storeObj[q] /\ got'[q] = got[q]
    BY <1>2, OthersStand DEF StoreIInv
  <2>2. storeObj[q] \in Objects /\ (storePc[q] \in Packing => got[q] \in Store!Packs)
    BY DEF StoreIInv, CallTyped, Building
  <2>3. OwnLocks(q) /\ q # Free /\ q # Left
    BY StoreAssumption DEF Store!RenamesItsOwn, OwnLocks, Store!ConstantsFit
  <2> QED
    BY <1>2, <2>1, <2>2, <2>3 DEF OwnLocks, Packing
<1> QED
  BY <1>1, <1>2

\* A step that touches no lock.
LEMMA LocksStay ==
  ASSUME StoreIInv, LocksTyped, Store!RenamesItsOwn, ~storeRobbed, NEW p \in Procs, StoreMove(p),
         UNCHANGED <<objectLock, idxLock, storeRobbed>>,
         storePc'[p] \notin {"write", "close", "indexed", "thinIndexed"}
  PROVE  LocksTyped' /\ Store!RenamesItsOwn'
<1>1. LocksTyped' /\ OwnLocks(p)'
  BY DEF LocksTyped, OwnLocks
<1> QED
  BY <1>1, LocksHold

\* Every step keeps what is known of the locks.
LEMMA LocksStep ==
  ASSUME StoreIInv, LocksTyped, Store!RenamesItsOwn, [Store!Next]_Store!vars
  PROVE  LocksTyped' /\ Store!RenamesItsOwn'
<1>1. CASE Store!Tick \/ UNCHANGED Store!vars
  BY <1>1 DEF Store!Tick, Store!vars, Store!files, Store!work, Store!ghosts, LocksTyped,
     Store!RenamesItsOwn
<1>2. ASSUME NEW p \in Procs, StoreMove(p), ~storeRobbed
      PROVE  LocksTyped' /\ Store!RenamesItsOwn'
  <2> USE <1>2 DEF Store!Goto, Store!Leave, Store!Return, Store!files, Store!work,
                   Store!ghosts
  <2>1. /\ storePc \in [Procs -> StoreSteps] /\ storeObj[p] \in Objects
        /\ storePc[p] \in Packing => got[p] \in Store!Packs
    BY DEF StoreIInv, CallTyped, Building
  <2>2. CASE Store!Start(p) \/ Store!ThePacks(p) \/ Store!Stat(p) \/ Store!List(p)
    BY <2>1, <2>2, LocksStay DEF Store!Start, Store!ThePacks, Store!Stat, Store!List
  <2>3. CASE Store!Look(p) \/ Store!LookLoose(p) \/ Store!Exists(p)
    BY <2>1, <2>3, LocksStay DEF Store!Look, Store!LookLoose, Store!Exists
  <2>4. CASE Store!Scan(p) \/ Store!Read(p) \/ Store!WritePack(p)
    BY <2>1, <2>4, LocksStay DEF Store!Scan, Store!Read, Store!WritePack
  <2>5. CASE Store!Rename(p) \/ Store!Remove(p) \/ Store!Receive(p) \/ Store!Die(p)
    BY <2>1, <2>5, LocksStay DEF Store!Rename, Store!Remove, Store!Receive, Store!Die
  <2>6. CASE Store!Create(p)
    <3>1. LocksTyped' /\ OwnLocks(p)' /\ idxLock' = idxLock /\ storeRobbed' = storeRobbed
      BY <2>1, <2>6 DEF Store!Create, LocksTyped, OwnLocks
    <3>2. \A o \in Objects : objectLock[o] \in {p, Free, Left} \/ objectLock'[o] = objectLock[o]
      BY <2>1, <2>6 DEF Store!Create, LocksTyped
    <3> QED
      BY <3>1, <3>2, LocksHold
  <2>7. CASE Store!Write(p)
    <3>1. OwnLocks(p)
      BY DEF Store!RenamesItsOwn, OwnLocks
    <3>2. LocksTyped' /\ OwnLocks(p)' /\ idxLock' = idxLock /\ storeRobbed' = storeRobbed
      BY <2>1, <2>7, <3>1 DEF Store!Write, LocksTyped, OwnLocks
    <3>3. \A o \in Objects : objectLock[o] \in {p, Free, Left} \/ objectLock'[o] = objectLock[o]
      BY <2>1, <2>7, <3>1 DEF Store!Write, LocksTyped, OwnLocks
    <3> QED
      BY <3>2, <3>3, LocksHold
  <2>8. CASE Store!Close(p)
    <3>1. OwnLocks(p)
      BY DEF Store!RenamesItsOwn, OwnLocks
    <3>2. LocksTyped' /\ OwnLocks(p)' /\ idxLock' = idxLock /\ storeRobbed' = storeRobbed
      BY <2>1, <2>8 DEF Store!Close, LocksTyped, OwnLocks
    <3>3. \A o \in Objects : objectLock[o] \in {p, Free, Left} \/ objectLock'[o] = objectLock[o]
      BY <2>1, <2>8, <3>1 DEF Store!Close, LocksTyped, OwnLocks
    <3> QED
      BY <3>2, <3>3, LocksHold
  <2>9. CASE Store!Abort(p)
    <3>1. LocksTyped' /\ OwnLocks(p)' /\ idxLock' = idxLock
      BY <2>1, <2>9 DEF Store!Abort, LocksTyped, OwnLocks
    <3>2. \A o \in Objects : objectLock[o] \in {p, Free, Left} \/ storeRobbed'
                              \/ objectLock'[o] = objectLock[o]
      BY <2>1, <2>9 DEF Store!Abort, LocksTyped
    <3> QED
      BY <3>1, <3>2, LocksHold
  <2>10. CASE Store!IndexLock(p)
    <3>1. LocksTyped' /\ OwnLocks(p)' /\ objectLock' = objectLock /\ storeRobbed' = storeRobbed
      BY <2>1, <2>10 DEF Store!IndexLock, LocksTyped, OwnLocks, Packing
    <3>2. \A k \in Store!Packs : idxLock[k] \in {p, Free, Left} \/ idxLock'[k] = idxLock[k]
      BY <2>1, <2>10 DEF Store!IndexLock, LocksTyped
    <3> QED
      BY <3>1, <3>2, LocksHold
  <2>11. CASE Store!IndexFails(p) \/ Store!Indexed(p)
    <3>1. idxLock[got[p]] = p /\ got[p] \in Store!Packs
      BY <2>1, <2>11 DEF Store!RenamesItsOwn, Store!IndexFails, Store!Indexed, Packing
    <3>2. LocksTyped' /\ OwnLocks(p)' /\ objectLock' = objectLock /\ storeRobbed' = storeRobbed
      BY <2>1, <2>11, <3>1 DEF Store!IndexFails, Store!Indexed, LocksTyped, OwnLocks
    <3>3. \A k \in Store!Packs : idxLock[k] \in {p, Free, Left} \/ idxLock'[k] = idxLock[k]
      BY <2>11, <3>1 DEF Store!IndexFails, Store!Indexed, LocksTyped
    <3> QED
      BY <3>2, <3>3, LocksHold
  <2>12. CASE Store!IndexAbort(p) \/ Store!ThinIndexed(p)
    <3>1. LocksTyped' /\ OwnLocks(p)' /\ objectLock' = objectLock
      BY <2>1, <2>12
      DEF Store!IndexAbort, Store!ThinIndexed, Store!RemoveIdxLock, LocksTyped, OwnLocks, Packing
    <3>2. \A k \in Store!Packs : idxLock[k] \in {p, Free, Left} \/ storeRobbed'
                                 \/ idxLock'[k] = idxLock[k]
      BY <2>1, <2>12
      DEF Store!IndexAbort, Store!ThinIndexed, Store!RemoveIdxLock, LocksTyped, Packing
    <3> QED
      BY <3>1, <3>2, LocksHold
  <2> QED
    BY <2>2, <2>3, <2>4, <2>5, <2>6, <2>7, <2>8, <2>9, <2>10, <2>11, <2>12 DEF StoreMove
<1> QED
  BY <1>1, <1>2 DEF Store!Next, StoreMove

\* At first there are loose objects, and nobody works.
LEMMA StoreInit == Store!Init => StoreIInv /\ LocksTyped /\ Store!RenamesItsOwn
<1> SUFFICES ASSUME Store!Init PROVE StoreIInv /\ LocksTyped /\ Store!RenamesItsOwn
  OBVIOUS
<1> USE DEF Store!Init
<1>1. (CHOOSE o \in Objects : TRUE) \in Objects /\ InitObjects \subseteq SUBSET Objects
  BY StoreAssumption DEF Store!ConstantsFit
<1>2. StoreTyped
  BY <1>1 DEF StoreTyped
<1>3. CallTyped
  BY <1>1 DEF CallTyped, StoreSteps
<1>4. Filed
  BY DEF Filed, Store!NothingIsLost
<1>5. ASSUME NEW p \in Procs PROVE Building(p) /\ Listed(p) /\ Looking(p)
  BY DEF Building, Packing, Listed, Looking
<1>6. LocksTyped /\ Store!RenamesItsOwn
  BY DEF LocksTyped, Store!RenamesItsOwn
<1> QED
  BY <1>2, <1>3, <1>4, <1>5, <1>6 DEF StoreIInv

\* What was stored is never lost; an object is missed, or cannot be read, only where the time
\* of the directory, or a pack that is received, explains it; and what is renamed into its
\* place is what the process itself wrote: for any number of processes, of which any may die
\* at any step, and any objects, until an abort() has removed another's lock file.
THEOREM StoreSafe == Store!Spec => []StoreIsSafe
<1>1. StoreIInv /\ Store!RenamesItsOwn => StoreIsSafe
  <2> SUFFICES ASSUME StoreIInv, Store!RenamesItsOwn PROVE StoreIsSafe
    OBVIOUS
  <2>1. Filed /\ StoreTyped
    BY DEF StoreIInv
  <2>2. ASSUME NEW p \in Procs PROVE Looking(p) /\ Listed(p)
    BY DEF StoreIInv
  <2>3. Store!NothingIsLost
    BY <2>1 DEF Filed
  <2>4. Store!MissIsExplained
    BY <2>2 DEF Looking, Store!MissIsExplained, Store!Misses
  <2>5. Store!OwnIsFound
    BY <2>2 DEF Looking, Store!OwnIsFound, Store!Misses
  <2>6. Store!FailureIsReceiving
    BY <2>1, <2>2 DEF Filed, Looking, Store!FailureIsReceiving, Store!FindsNoIndex
  <2> QED
    BY <2>3, <2>4, <2>5, <2>6 DEF StoreIsSafe
<1> QED
  BY <1>1, StoreInit, StoreStep, LocksStep, PTL DEF Store!Spec
-----------------------------------------------------------------------------
(* References.                                                             *)

USE NamesAssumption, FilesAssumption, OpsAssumption

Working == {"compare", "comparePacked", "check", "write", "rename", "moved",
            "delete", "packedLock", "reread", "renamePacked", "abortPacked"}
Steps == {"idle", "dead", "follow", "followPacked", "lock", "compare", "comparePacked", "check",
          "write", "rename", "moved", "abort", "delete", "packedLock", "reread",
          "renamePacked", "abortPacked"}
Removing == {"delete", "packedLock", "reread", "renamePacked", "abortPacked"}
Kinds == {"set", "add", "remove", "symref", "commit"}
Outcomes == {"none", "True", "False", "IOError", "OSError"}

FilesTyped ==
  /\ loose \in [Names -> Values \cup Branches] /\ \A b \in Branches : loose[b] \in Values
  /\ packed \in [Branches -> Values]
  /\ lock \in [Files -> Procs \cup {Free, Left}]
  /\ aside \in [Procs -> Values \cup Branches] /\ robbed \in BOOLEAN

CallsTyped ==
  /\ cache \in [Procs -> [Branches -> Values] \cup {NotRead}]
  /\ pc \in [Procs -> Steps] /\ op \in [Procs -> Kinds] /\ result \in [Procs -> Outcomes]
  /\ name \in [Procs -> Names] /\ real \in [Procs -> Names]
  /\ old \in [Procs -> Values] /\ new \in [Procs -> Values \cup Branches]

\* What a process is about to write fits what it writes it to; only branches are removed.
Purposeful(p) ==
  /\ op[p] = "symref" => real[p] = "HEAD"
  /\ pc[p] \notin {"idle", "dead"} /\ op[p] \notin {"symref", "remove"} => new[p] \in Shas
  /\ op[p] = "remove" => real[p] \in Branches
  /\ pc[p] \in {"follow", "followPacked"} => op[p] \in {"set", "add", "commit"}
  /\ pc[p] \in {"compare", "comparePacked"} => op[p] \in {"set", "remove"}
  /\ pc[p] = "check" => op[p] = "add"
  /\ pc[p] \in {"write", "rename", "moved"} => op[p] # "remove"
  /\ pc[p] \in Removing => op[p] = "remove"
  /\ pc[p] = "moved" /\ real[p] \in Branches => aside[p] \in Values

\* Whoever works on a file has its lock, until somebody is robbed.
Locked(p) ==
  ~robbed =>
    /\ pc[p] \in Working => lock[real[p]] = p
    /\ pc[p] \in {"reread", "renamePacked"} => lock["packed-refs"] = p

\* And what it has locked it works on, unless it has died.
Owner(p) ==
  \A f \in Files : lock[f] = p =>
    \/ pc[p] = "dead"
    \/ pc[p] \in Working \cup {"abort"} /\ f = real[p]
    \/ pc[p] \in {"reread", "renamePacked", "abortPacked"} /\ f = "packed-refs"

\* What was compared under the lock is still so.
Compared(p) ==
  ((pc[p] \in {"write", "rename"} /\ op[p] = "set") \/ pc[p] = "delete") /\ old[p] # None =>
    \/ loose[real[p]] = old[p]
    \/ /\ loose[real[p]] = None /\ real[p] \in Branches
       /\ cache[p] # NotRead /\ cache[p][real[p]] = old[p]

\* What is to be added was not there when _follow() looked for it, nor under the lock.
Absent(p) ==
  op[p] = "add" =>
    /\ pc[p] \in {"lock", "check", "write", "rename"} /\ real[p] \in Branches =>
         cache[p] # NotRead /\ cache[p][real[p]] = None
    /\ pc[p] \in {"write", "rename"} => loose[real[p]] = None

\* The file of a reference that is to be removed is gone, or was never there.
Emptied(p) ==
  pc[p] \in {"comparePacked", "packedLock", "reread", "renamePacked", "abortPacked"} =>
    loose[real[p]] = None

\* What is about to be written is what the file has, without what is to be removed.
Rewritten(p) ==
  pc[p] = "renamePacked" =>
    /\ cache[p] \in [Branches -> Values] /\ cache[p][real[p]] = None
    /\ \A b \in Branches : b # real[p] => cache[p][b] = packed[b]

Unpacked(p) == pc[p] = "abortPacked" /\ result[p] = "True" => packed[real[p]] = None

IInv ==
  /\ FilesTyped /\ CallsTyped
  /\ \A p \in Procs :
       /\ Purposeful(p) /\ Locked(p) /\ Owner(p) /\ Compared(p) /\ Absent(p)
       /\ Emptied(p) /\ Rewritten(p) /\ Unpacked(p)

-----------------------------------------------------------------------------
(* The steps of a process, and what becomes of what it works on.            *)

\* What get_packed_refs() returns: the names that it has, with commits.
LEMMA PackedRefsType ==
  ASSUME IInv, NEW p \in Procs
  PROVE  PackedRefs(p) \in [Branches -> Values] /\ (Branches # {} => PackedRefs(p) # NotRead)
<1>1. PackedRefs(p) \in [Branches -> Values]
  BY DEF IInv, FilesTyped, CallsTyped, PackedRefs
<1>2. ASSUME NEW b \in Branches PROVE NotRead[b] \notin Values
  BY DEF NotRead, Values, None
<1> QED
  BY <1>1, <1>2

\* What is done with what _follow() found, is of its types.
LEMMA FollowedTyped ==
  ASSUME CallsTyped, NEW p \in Procs, NEW contents \in Values, Followed(p, contents),
         cache' \in [Procs -> [Branches -> Values] \cup {NotRead}]
  PROVE  CallsTyped'
<1> USE DEF CallsTyped, Steps, Kinds, Outcomes, Names, Values, Goto, Forget, call
<1>1. CASE op[p] = "commit" /\ contents = None
  <2> /\ op' = [op EXCEPT ![p] = "add"] /\ real' = [real EXCEPT ![p] = name[p]]
      /\ pc' = [pc EXCEPT ![p] = "follow"] /\ UNCHANGED <<name, old, new, result>>
    BY <1>1 DEF Followed
  <2> QED
    OBVIOUS
<1>2. CASE op[p] = "commit" /\ contents # None
  <2> /\ op' = [op EXCEPT ![p] = "set"] /\ real' = [real EXCEPT ![p] = name[p]]
      /\ old' = [old EXCEPT ![p] = contents]
      /\ pc' = [pc EXCEPT ![p] = "follow"] /\ UNCHANGED <<name, new, result>>
    BY <1>2 DEF Followed
  <2> QED
    OBVIOUS
<1>3. CASE op[p] = "add" /\ contents # None
  <2>1. Forget(p, "idle")
    BY <1>3 DEF Followed
  <2>2. /\ pc' = [pc EXCEPT ![p] = "idle"] /\ op' = [op EXCEPT ![p] = "set"]
        /\ name' = [name EXCEPT ![p] = "HEAD"] /\ real' = [real EXCEPT ![p] = "HEAD"]
        /\ old' = [old EXCEPT ![p] = None] /\ new' = [new EXCEPT ![p] = None]
        /\ result' = [result EXCEPT ![p] = "none"]
    BY <2>1
  <2> HIDE <2>1
  <2> QED
    BY <2>2
<1>4. CASE op[p] # "commit" /\ ~(op[p] = "add" /\ contents # None)
  <2>1. pc' = [pc EXCEPT ![p] = "lock"] /\ UNCHANGED <<call, real, result>>
    BY <1>4 DEF Followed
  <2> QED
    BY <2>1
<1> QED
  BY <1>1, <1>2, <1>3, <1>4

\* What is in the files stays of its type: HEAD only is made to name a branch.
LEMMA FilesTypedStep ==
  ASSUME IInv, ~robbed, NEW p \in Procs, Step(p) PROVE FilesTyped'
<1> USE DEF FilesTyped, Rewritten, Purposeful, Removing, Names, Values, disk, call
<1>1. /\ loose \in [Names -> Values \cup Branches]
      /\ (\A b \in Branches : loose[b] \in Values) /\ packed \in [Branches -> Values]
      /\ lock \in [Files -> Procs \cup {Free, Left}]
      /\ aside \in [Procs -> Values \cup Branches] /\ real \in [Procs -> Names]
      /\ new \in [Procs -> Values \cup Branches] /\ pc \in [Procs -> Steps]
      /\ op \in [Procs -> Kinds]
  BY DEF IInv, FilesTyped, CallsTyped
<1>2. robbed \in BOOLEAN /\ Rewritten(p) /\ Purposeful(p)
  BY DEF IInv, FilesTyped
<1>3. CASE Start(p)
  BY <1>1, <1>2, <1>3 DEF Start, Goto
<1>4. CASE FollowLoose(p)
  BY <1>1, <1>2, <1>4 DEF FollowLoose, Followed, Goto, Forget
<1>5. CASE FollowPacked(p)
  BY <1>1, <1>2, <1>5 DEF FollowPacked, Followed, Goto, Forget, ReadPacked, PackedRefs, InPacked
<1>6. CASE Lock(p)
  <2>1. lock' = lock \/ lock' = [lock EXCEPT ![real[p]] = p]
    BY <1>6 DEF Lock
  <2>2. lock' \in [Files -> Procs \cup {Free, Left}]
    BY <1>1, <1>2, <2>1
  <2> QED
    BY <1>1, <1>2, <1>6, <2>2 DEF Lock
<1>7. CASE Compare(p)
  BY <1>1, <1>2, <1>7 DEF Compare, Equals, Leave, Goto
<1>8. CASE ComparePacked(p)
  BY <1>1, <1>2, <1>8 DEF ComparePacked, Equals, Leave, Goto, ReadPacked, PackedRefs, InPacked
<1>9. CASE Check(p)
  BY <1>1, <1>2, <1>9 DEF Check, Leave, Goto, ReadPacked, PackedRefs, InPacked
<1>10. CASE Write(p)
  BY <1>1, <1>2, <1>10 DEF Write, Forget, Goto
<1>11. CASE Rename(p)
  BY <1>1, <1>2, <1>11 DEF Rename, Leave
<1>12. CASE MoveAside(p)
  BY <1>1, <1>2, <1>12 DEF MoveAside, Goto
<1>13. CASE MoveIn(p)
  <2>1. /\ aside' = [aside EXCEPT ![p] = None] /\ UNCHANGED <<packed, robbed>>
        /\ lock' = lock \/ lock' = [lock EXCEPT ![real[p]] = Free]
        /\ pc[p] = "moved"
    BY <1>13 DEF MoveIn
  <2>2. CASE loose' = [loose EXCEPT ![real[p]] = new[p]]
    BY <1>1, <1>2, <2>1, <2>2
  <2>3. CASE loose' = [loose EXCEPT ![real[p]] = aside[p]]
    BY <1>1, <1>2, <2>1, <2>3
  <2> QED
    BY <1>13, <2>2, <2>3 DEF MoveIn
<1>21. CASE RenameFails(p)
  BY <1>1, <1>2, <1>21 DEF RenameFails, Leave, Goto
<1>14. CASE Abort(p)
  BY <1>1, <1>2, <1>14 DEF Abort, Forget
<1>15. CASE Delete(p)
  BY <1>1, <1>2, <1>15 DEF Delete, Leave, Goto
<1>16. CASE LockPacked(p)
  <2>1. lock' = lock \/ lock' = [lock EXCEPT !["packed-refs"] = p]
    BY <1>16 DEF LockPacked
  <2>2. lock' \in [Files -> Procs \cup {Free, Left}]
    BY <1>1, <1>2, <2>1
  <2> QED
    BY <1>1, <1>2, <1>16, <2>2 DEF LockPacked
<1>17. CASE Reread(p)
  BY <1>1, <1>2, <1>17 DEF Reread, Leave, Goto
<1>18. CASE RenamePacked(p)
  BY <1>1, <1>2, <1>18 DEF RenamePacked, Goto
<1>19. CASE AbortPacked(p)
  BY <1>1, <1>2, <1>19 DEF AbortPacked, Goto
<1>20. CASE Die(p)
  BY <1>1, <1>2, <1>20 DEF Die, Forget
<1> QED
  BY <1>3, <1>4, <1>5, <1>6, <1>7, <1>8, <1>9, <1>10, <1>11, <1>12, <1>13, <1>14, <1>15,
  <1>16, <1>17, <1>18, <1>19, <1>20, <1>21 DEF Step

\* So does what the processes work on.
LEMMA CallsTypedStep ==
  ASSUME IInv, ~robbed, NEW p \in Procs, Step(p) PROVE CallsTyped'
<1> USE DEF CallsTyped, Names, Values, Outcomes, Steps, Kinds, disk, call
<1>1. /\ loose \in [Names -> Values \cup Branches]
      /\ (\A b \in Branches : loose[b] \in Values) /\ packed \in [Branches -> Values]
      /\ cache \in [Procs -> [Branches -> Values] \cup {NotRead}]
      /\ pc \in [Procs -> Steps] /\ op \in [Procs -> Kinds]
      /\ result \in [Procs -> Outcomes] /\ name \in [Procs -> Names]
      /\ real \in [Procs -> Names] /\ old \in [Procs -> Values]
      /\ new \in [Procs -> Values \cup Branches]
  BY DEF IInv, FilesTyped, CallsTyped
<1>3. CASE Start(p)
  <2> PICK o \in Ops, n \in Names, x \in {None} \cup Shas, v \in Shas \cup Branches :
         /\ op' = [op EXCEPT ![p] = o] /\ name' = [name EXCEPT ![p] = n]
         /\ real' = [real EXCEPT ![p] = n]
         /\ old' = [old EXCEPT ![p] = x] /\ new' = [new EXCEPT ![p] = v]
         /\ pc' = [pc EXCEPT ![p] = IF o \in {"remove", "symref"} THEN "lock" ELSE "follow"]
    BY <1>3 DEF Start, Goto
  <2> UNCHANGED <<cache, result>>
    BY <1>3 DEF Start
  <2> QED
    BY <1>1
<1>4. CASE FollowLoose(p)
  <2>1. CASE loose[real[p]] \in Branches
    BY <1>1, <1>4, <2>1 DEF FollowLoose
  <2>2. CASE loose[real[p]] = None
    BY <1>1, <1>4, <2>2 DEF FollowLoose, Goto
  <2>3. CASE loose[real[p]] \notin Branches \cup {None}
    <3> Followed(p, loose[real[p]]) /\ cache' = cache
      BY <1>4, <2>3 DEF FollowLoose
    <3> loose[real[p]] \in Values
      BY <1>1, <2>3
    <3> QED
      BY <1>1, FollowedTyped DEF CallsTyped
  <2> QED
    BY <2>1, <2>2, <2>3
<1>5. CASE FollowPacked(p)
  <2> Followed(p, InPacked(p, real[p])) /\ cache' = [cache EXCEPT ![p] = PackedRefs(p)]
    BY <1>5 DEF FollowPacked, ReadPacked
  <2> PackedRefs(p) \in [Branches -> Values]
    BY PackedRefsType
  <2> InPacked(p, real[p]) \in Values
    BY DEF InPacked
  <2> QED
    BY <1>1, FollowedTyped DEF CallsTyped
<1>6. CASE Lock(p)
  <2>1. CASE lock[real[p]] = Free
    <3> DEFINE step == CASE op[p] = "add" -> "check"
                         [] op[p] \in {"set", "remove"} /\ old[p] # None -> "compare"
                         [] op[p] = "remove" /\ old[p] = None -> "delete"
                         [] OTHER -> "write"
    <3>1. pc' = [pc EXCEPT ![p] = step]
      BY <1>6, <2>1 DEF Lock, Goto
    <3>2. step \in Steps
      OBVIOUS
    <3> HIDE DEF step
    <3>3. UNCHANGED <<cache, op, name, old, new, real, result>>
      BY <1>6, <2>1 DEF Lock
    <3> QED
      BY <1>1, <3>1, <3>2, <3>3
  <2>2. CASE lock[real[p]] # Free
    <3> Forget(p, "idle") /\ cache' = cache
      BY <1>6, <2>2 DEF Lock
    <3> QED
      BY <1>1 DEF Forget
  <2> QED
    BY <2>1, <2>2
<1>7. CASE Compare(p)
  BY <1>1, <1>7 DEF Compare, Equals, Leave, Goto
<1>8. CASE ComparePacked(p)
  BY <1>1, <1>8 DEF ComparePacked, Equals, Leave, Goto, ReadPacked, PackedRefs, InPacked
<1>9. CASE Check(p)
  <2>1. PackedRefs(p) \in [Branches -> Values]
    BY PackedRefsType
  <2>2. cache' = cache \/ cache' = [cache EXCEPT ![p] = PackedRefs(p)]
    BY <1>9 DEF Check, ReadPacked
  <2>3. cache' \in [Procs -> [Branches -> Values] \cup {NotRead}]
    <3>1. CASE cache' = cache
      BY <1>1, <3>1
    <3>2. CASE cache' = [cache EXCEPT ![p] = PackedRefs(p)]
      BY <1>1, <2>1, <3>2
    <3> QED
      BY <2>2, <3>1, <3>2
  <2>4. UNCHANGED <<op, name, old, new, real>>
    BY <1>9 DEF Check
  <2>5. Leave(p, "False") \/ (Goto(p, "write") /\ result' = result)
    BY <1>9 DEF Check
  <2>6. CASE Leave(p, "False")
    BY <1>1, <2>3, <2>4, <2>6 DEF Leave
  <2>7. CASE Goto(p, "write") /\ result' = result
    BY <1>1, <2>3, <2>4, <2>7 DEF Goto
  <2> QED
    BY <2>5, <2>6, <2>7
<1>10. CASE Write(p)
  BY <1>1, <1>10 DEF Write, Forget, Goto
<1>11. CASE Rename(p)
  BY <1>1, <1>11 DEF Rename, Leave
<1>12. CASE MoveAside(p)
  BY <1>1, <1>12 DEF MoveAside, Goto
<1>13. CASE MoveIn(p)
  BY <1>1, <1>13 DEF MoveIn, Leave
<1>21. CASE RenameFails(p)
  BY <1>1, <1>21 DEF RenameFails, Leave, Goto
<1>14. CASE Abort(p)
  BY <1>1, <1>14 DEF Abort, Forget
<1>15. CASE Delete(p)
  BY <1>1, <1>15 DEF Delete, Leave, Goto
<1>16. CASE LockPacked(p)
  BY <1>1, <1>16 DEF LockPacked, Leave, Goto
<1>17. CASE Reread(p)
  BY <1>1, <1>17 DEF Reread, Leave, Goto
<1>18. CASE RenamePacked(p)
  BY <1>1, <1>18 DEF RenamePacked, Goto
<1>19. CASE AbortPacked(p)
  BY <1>1, <1>19 DEF AbortPacked, Goto
<1>20. CASE Die(p)
  BY <1>1, <1>20 DEF Die, Forget
<1> QED
  BY <1>3, <1>4, <1>5, <1>6, <1>7, <1>8, <1>9, <1>10, <1>11, <1>12, <1>13, <1>14, <1>15,
  <1>16, <1>17, <1>18, <1>19, <1>20, <1>21 DEF Step

\* Purposeful, after the steps of the process itself.
LEMMA OwnPurposeful ==
  ASSUME IInv, ~robbed, NEW p \in Procs, Step(p) PROVE Purposeful(p)'
<1> USE DEF Purposeful, Steps, Removing, Kinds, Values, disk, call
<1>1. /\ loose \in [Names -> Values \cup Branches]
      /\ (\A b \in Branches : loose[b] \in Values) /\ pc \in [Procs -> Steps]
      /\ op \in [Procs -> Kinds] /\ real \in [Procs -> Names]
      /\ new \in [Procs -> Values \cup Branches]
      /\ aside \in [Procs -> Values \cup Branches]
  BY DEF IInv, FilesTyped, CallsTyped
<1>2. Purposeful(p)
  BY DEF IInv, FilesTyped
<1>3. CASE Start(p)
  <2> PICK o \in Ops, n \in Names, x \in {None} \cup Shas, v \in Shas \cup Branches :
         /\ o = "symref" => n = "HEAD"
         /\ o = "remove" => n # "HEAD"
         /\ o \in {"set", "add", "commit"} => v \in Shas
         /\ op' = [op EXCEPT ![p] = o] /\ real' = [real EXCEPT ![p] = n]
         /\ new' = [new EXCEPT ![p] = v]
         /\ pc' = [pc EXCEPT ![p] = IF o \in {"remove", "symref"} THEN "lock" ELSE "follow"]
    BY <1>3 DEF Start, Goto
  <2> QED
    BY <1>1, <1>2 DEF Names
<1>4. CASE FollowLoose(p)
  <2>1. CASE loose[real[p]] \in Branches
    BY <1>1, <1>2, <1>4, <2>1 DEF FollowLoose
  <2>2. CASE loose[real[p]] = None
    BY <1>1, <1>2, <1>4, <2>2 DEF FollowLoose, Goto
  <2>3. CASE loose[real[p]] \notin Branches \cup {None}
    <3>1. Followed(p, loose[real[p]])
      BY <1>4, <2>3 DEF FollowLoose
    <3> pc[p] = "follow" /\ UNCHANGED aside
      BY <1>4 DEF FollowLoose
    <3>2. CASE op[p] = "commit"
      <4> /\ op' = [op EXCEPT ![p] = "set"] /\ pc' = [pc EXCEPT ![p] = "follow"]
          /\ real' = [real EXCEPT ![p] = name[p]] /\ new' = new
        BY <2>3, <3>1, <3>2 DEF Followed, Goto
      <4> QED
        BY <1>1, <1>2, <3>2
    <3>3. CASE op[p] = "add"
      <4> Forget(p, "idle")
        BY <2>3, <3>1, <3>3 DEF Followed
      <4> QED
        BY <1>1, <1>2 DEF Forget
    <3>4. CASE op[p] = "set"
      <4> pc' = [pc EXCEPT ![p] = "lock"] /\ UNCHANGED <<op, real, new>>
        BY <2>3, <3>1, <3>4 DEF Followed, Goto, call
      <4> QED
        BY <1>1, <1>2, <3>4
    <3> QED
      BY <1>1, <1>2, <1>4, <3>2, <3>3, <3>4 DEF FollowLoose
  <2> QED
    BY <2>1, <2>2, <2>3
<1>5. CASE FollowPacked(p)
  BY <1>1, <1>2, <1>5 DEF FollowPacked, Followed, Goto, Forget, ReadPacked, PackedRefs, InPacked
<1>6. CASE Lock(p)
  <2>1. CASE lock[real[p]] = Free
    <3>1. /\ op[p] = "add" => pc'[p] = "check"
          /\ op[p] \in {"set", "remove"} /\ old[p] # None => pc'[p] = "compare"
          /\ op[p] = "remove" /\ old[p] = None => pc'[p] = "delete"
          /\ op[p] \in {"symref", "commit"} \/ (op[p] = "set" /\ old[p] = None) => pc'[p] = "write"
      BY <1>1, <1>2, <1>6, <2>1 DEF Lock, Goto
    <3> QED
      BY <1>1, <1>2, <1>6, <2>1, <3>1 DEF Lock
  <2>2. CASE lock[real[p]] # Free
    <3> Forget(p, "idle")
      BY <1>6, <2>2 DEF Lock
    <3> QED
      BY <1>1, <1>2 DEF Forget
  <2> QED
    BY <2>1, <2>2
<1>7. CASE Compare(p)
  BY <1>1, <1>2, <1>7 DEF Compare, Equals, Leave, Goto
<1>8. CASE ComparePacked(p)
  BY <1>1, <1>2, <1>8 DEF ComparePacked, Equals, Leave, Goto, ReadPacked, PackedRefs, InPacked
<1>9. CASE Check(p)
  BY <1>1, <1>2, <1>9 DEF Check, Leave, Goto, ReadPacked, PackedRefs, InPacked
<1>10. CASE Write(p)
  BY <1>1, <1>2, <1>10 DEF Write, Forget, Goto
<1>11. CASE Rename(p)
  BY <1>1, <1>2, <1>11 DEF Rename, Leave
<1>12. CASE MoveAside(p)
  BY <1>1, <1>2, <1>12 DEF MoveAside, Goto
<1>13. CASE MoveIn(p)
  BY <1>1, <1>2, <1>13 DEF MoveIn, Leave
<1>21. CASE RenameFails(p)
  BY <1>1, <1>2, <1>21 DEF RenameFails, Leave, Goto
<1>14. CASE Abort(p)
  BY <1>1, <1>2, <1>14 DEF Abort, Forget
<1>15. CASE Delete(p)
  BY <1>1, <1>2, <1>15 DEF Delete, Leave, Goto
<1>16. CASE LockPacked(p)
  BY <1>1, <1>2, <1>16 DEF LockPacked, Leave, Goto
<1>17. CASE Reread(p)
  BY <1>1, <1>2, <1>17 DEF Reread, Leave, Goto
<1>18. CASE RenamePacked(p)
  BY <1>1, <1>2, <1>18 DEF RenamePacked, Goto
<1>19. CASE AbortPacked(p)
  BY <1>1, <1>2, <1>19 DEF AbortPacked, Goto
<1>20. CASE Die(p)
  BY <1>1, <1>2, <1>20 DEF Die, Forget
<1> QED
  BY <1>3, <1>4, <1>5, <1>6, <1>7, <1>8, <1>9, <1>10, <1>11, <1>12, <1>13, <1>14, <1>15,
  <1>16, <1>17, <1>18, <1>19, <1>20, <1>21 DEF Step

\* Locked, after its own steps.
LEMMA OwnLocked ==
  ASSUME IInv, ~robbed, NEW p \in Procs, Step(p) PROVE Locked(p)'
<1> USE DEF Locked, Files, Steps, Working, disk, call
<1>1. /\ lock \in [Files -> Procs \cup {Free, Left}] /\ pc \in [Procs -> Steps]
      /\ real \in [Procs -> Names]
  BY DEF IInv, FilesTyped, CallsTyped
<1>2. Locked(p)
  BY DEF IInv, FilesTyped
<1>3. CASE Start(p)
  <2> pc'[p] \in {"lock", "follow"}
    BY <1>1, <1>2, <1>3 DEF Start, Goto
  <2> QED
    OBVIOUS
<1>4. CASE FollowLoose(p)
  BY <1>1, <1>2, <1>4 DEF FollowLoose, Followed, Goto, Forget
<1>5. CASE FollowPacked(p)
  BY <1>1, <1>2, <1>5 DEF FollowPacked, Followed, Goto, Forget, ReadPacked, PackedRefs, InPacked
<1>6. CASE Lock(p)
  <2>1. CASE lock[real[p]] = Free
    <3> pc'[p] \in {"check", "compare", "delete", "write"}
      BY <1>1, <1>2, <1>6, <2>1 DEF Lock, Goto
    <3> QED
      BY <1>1, <1>2, <1>6, <2>1 DEF Lock
  <2>2. CASE lock[real[p]] # Free
    BY <1>1, <1>2, <1>6, <2>2 DEF Lock, Forget
  <2> QED
    BY <2>1, <2>2
<1>7. CASE Compare(p)
  BY <1>1, <1>2, <1>7 DEF Compare, Equals, Leave, Goto
<1>8. CASE ComparePacked(p)
  BY <1>1, <1>2, <1>8 DEF ComparePacked, Equals, Leave, Goto, ReadPacked, PackedRefs, InPacked
<1>9. CASE Check(p)
  BY <1>1, <1>2, <1>9 DEF Check, Leave, Goto, ReadPacked, PackedRefs, InPacked
<1>10. CASE Write(p)
  BY <1>1, <1>2, <1>10 DEF Write, Forget, Goto
<1>11. CASE Rename(p)
  BY <1>1, <1>2, <1>11 DEF Rename, Leave
<1>12. CASE MoveAside(p)
  BY <1>1, <1>2, <1>12 DEF MoveAside, Goto
<1>13. CASE MoveIn(p)
  BY <1>1, <1>2, <1>13 DEF MoveIn, Leave
<1>21. CASE RenameFails(p)
  BY <1>1, <1>2, <1>21 DEF RenameFails, Leave, Goto
<1>14. CASE Abort(p)
  BY <1>1, <1>2, <1>14 DEF Abort, Forget
<1>15. CASE Delete(p)
  BY <1>1, <1>2, <1>15 DEF Delete, Leave, Goto
<1>16. CASE LockPacked(p)
  BY <1>1, <1>2, <1>16 DEF LockPacked, Leave, Goto
<1>17. CASE Reread(p)
  BY <1>1, <1>2, <1>17 DEF Reread, Leave, Goto
<1>18. CASE RenamePacked(p)
  <2> real[p] \in Names
    BY <1>1
  <2> real[p] # "packed-refs"
    OBVIOUS
  <2> QED
    BY <1>1, <1>2, <1>18 DEF RenamePacked, Goto
<1>19. CASE AbortPacked(p)
  BY <1>1, <1>2, <1>19 DEF AbortPacked, Goto
<1>20. CASE Die(p)
  BY <1>1, <1>2, <1>20 DEF Die, Forget
<1> QED
  BY <1>3, <1>4, <1>5, <1>6, <1>7, <1>8, <1>9, <1>10, <1>11, <1>12, <1>13, <1>14, <1>15,
  <1>16, <1>17, <1>18, <1>19, <1>20, <1>21 DEF Step

\* What a process has locked is what it works on, after its own steps.
LEMMA OwnOwner ==
  ASSUME IInv, ~robbed, NEW p \in Procs, Step(p) PROVE Owner(p)'
<1> USE DEF Owner, Files, Steps, Working, disk, call
<1>1. /\ lock \in [Files -> Procs \cup {Free, Left}] /\ pc \in [Procs -> Steps]
      /\ real \in [Procs -> Names]
  BY DEF IInv, FilesTyped, CallsTyped
<1>2. Owner(p)
  BY DEF IInv, FilesTyped
<1>3. CASE Start(p)
  BY <1>1, <1>2, <1>3 DEF Start, Goto
<1>4. CASE FollowLoose(p)
  BY <1>1, <1>2, <1>4 DEF FollowLoose, Followed, Goto, Forget
<1>5. CASE FollowPacked(p)
  BY <1>1, <1>2, <1>5 DEF FollowPacked, Followed, Goto, Forget, ReadPacked, PackedRefs, InPacked
<1>6. CASE Lock(p)
  <2>1. CASE lock[real[p]] = Free
    <3>1. pc'[p] \in {"check", "compare", "delete", "write"}
      BY <1>1, <1>2, <1>6, <2>1 DEF Lock, Goto
    <3>2. /\ lock' = [lock EXCEPT ![real[p]] = p] /\ UNCHANGED real /\ pc[p] = "lock"
      BY <1>6, <2>1 DEF Lock
    <3>3. ASSUME NEW f \in Files, lock'[f] = p PROVE f = real[p]
      BY <1>1, <1>2, <3>2, <3>3
    <3> QED
      BY <3>1, <3>2, <3>3
  <2>2. CASE lock[real[p]] # Free
    <3> Forget(p, "idle") /\ lock' = lock /\ pc[p] = "lock"
      BY <1>6, <2>2 DEF Lock
    <3> QED
      BY <1>1, <1>2 DEF Forget
  <2> QED
    BY <2>1, <2>2
<1>7. CASE Compare(p)
  BY <1>1, <1>2, <1>7 DEF Compare, Equals, Leave, Goto
<1>8. CASE ComparePacked(p)
  BY <1>1, <1>2, <1>8 DEF ComparePacked, Equals, Leave, Goto, ReadPacked, PackedRefs, InPacked
<1>9. CASE Check(p)
  BY <1>1, <1>2, <1>9 DEF Check, Leave, Goto, ReadPacked, PackedRefs, InPacked
<1>10. CASE Write(p)
  BY <1>1, <1>2, <1>10 DEF Write, Forget, Goto
<1>11. CASE Rename(p)
  BY <1>1, <1>2, <1>11 DEF Rename, Leave
<1>12. CASE MoveAside(p)
  BY <1>1, <1>2, <1>12 DEF MoveAside, Goto
<1>13. CASE MoveIn(p)
  BY <1>1, <1>2, <1>13 DEF MoveIn, Leave
<1>21. CASE RenameFails(p)
  BY <1>1, <1>2, <1>21 DEF RenameFails, Leave, Goto
<1>14. CASE Abort(p)
  BY <1>1, <1>2, <1>14 DEF Abort, Forget
<1>15. CASE Delete(p)
  BY <1>1, <1>2, <1>15 DEF Delete, Leave, Goto
<1>16. CASE LockPacked(p)
  BY <1>1, <1>2, <1>16 DEF LockPacked, Leave, Goto
<1>17. CASE Reread(p)
  BY <1>1, <1>2, <1>17 DEF Reread, Leave, Goto
<1>18. CASE RenamePacked(p)
  BY <1>1, <1>2, <1>18 DEF RenamePacked, Goto
<1>19. CASE AbortPacked(p)
  BY <1>1, <1>2, <1>19 DEF AbortPacked, Goto
<1>20. CASE Die(p)
  BY <1>1, <1>2, <1>20 DEF Die, Forget
<1> QED
  BY <1>3, <1>4, <1>5, <1>6, <1>7, <1>8, <1>9, <1>10, <1>11, <1>12, <1>13, <1>14, <1>15,
  <1>16, <1>17, <1>18, <1>19, <1>20, <1>21 DEF Step

\* Compared, after its own steps: the comparison is made under the lock.
LEMMA OwnCompared ==
  ASSUME IInv, ~robbed, NEW p \in Procs, Step(p) PROVE Compared(p)'
<1> USE DEF Compared, Purposeful, Emptied, disk, call
<1>1. /\ loose \in [Names -> Values \cup Branches] /\ packed \in [Branches -> Values]
      /\ cache \in [Procs -> [Branches -> Values] \cup {NotRead}]
      /\ pc \in [Procs -> Steps] /\ op \in [Procs -> Kinds] /\ real \in [Procs -> Names]
      /\ old \in [Procs -> Values]
  BY DEF IInv, FilesTyped, CallsTyped
<1>2. Purposeful(p) /\ Compared(p) /\ Emptied(p)
  BY DEF IInv, FilesTyped
<1>3. CASE Start(p)
  BY <1>1, <1>2, <1>3 DEF Start, Goto
<1>4. CASE FollowLoose(p)
  BY <1>1, <1>2, <1>4 DEF FollowLoose, Followed, Goto, Forget
<1>5. CASE FollowPacked(p)
  BY <1>1, <1>2, <1>5 DEF FollowPacked, Followed, Goto, Forget, ReadPacked, PackedRefs, InPacked
<1>6. CASE Lock(p)
  BY <1>1, <1>2, <1>6 DEF Lock, Goto, Forget
<1>7. CASE Compare(p)
  BY <1>1, <1>2, <1>7 DEF Compare, Equals, Leave, Goto
<1>8. CASE ComparePacked(p)
  <2>1. /\ real[p] \in Branches => PackedRefs(p) # NotRead
        /\ cache'[p] = PackedRefs(p)
    BY <1>1, <1>2, <1>8, PackedRefsType DEF ComparePacked, ReadPacked
  <2> QED
    BY <1>1, <1>2, <1>8, <2>1 DEF ComparePacked, Equals, InPacked, Leave, Goto, ReadPacked
<1>9. CASE Check(p)
  BY <1>1, <1>2, <1>9 DEF Check, Leave, Goto, ReadPacked, PackedRefs, InPacked
<1>10. CASE Write(p)
  BY <1>1, <1>2, <1>10 DEF Write, Forget, Goto
<1>11. CASE Rename(p)
  BY <1>1, <1>2, <1>11 DEF Rename, Leave
<1>12. CASE MoveAside(p)
  BY <1>1, <1>2, <1>12 DEF MoveAside, Goto
<1>13. CASE MoveIn(p)
  BY <1>1, <1>2, <1>13 DEF MoveIn, Leave
<1>21. CASE RenameFails(p)
  BY <1>1, <1>2, <1>21 DEF RenameFails, Leave, Goto
<1>14. CASE Abort(p)
  BY <1>1, <1>2, <1>14 DEF Abort, Forget
<1>15. CASE Delete(p)
  BY <1>1, <1>2, <1>15 DEF Delete, Leave, Goto
<1>16. CASE LockPacked(p)
  BY <1>1, <1>2, <1>16 DEF LockPacked, Leave, Goto
<1>17. CASE Reread(p)
  BY <1>1, <1>2, <1>17 DEF Reread, Leave, Goto
<1>18. CASE RenamePacked(p)
  BY <1>1, <1>2, <1>18 DEF RenamePacked, Goto
<1>19. CASE AbortPacked(p)
  BY <1>1, <1>2, <1>19 DEF AbortPacked, Goto
<1>20. CASE Die(p)
  BY <1>1, <1>2, <1>20 DEF Die, Forget
<1> QED
  BY <1>3, <1>4, <1>5, <1>6, <1>7, <1>8, <1>9, <1>10, <1>11, <1>12, <1>13, <1>14, <1>15,
  <1>16, <1>17, <1>18, <1>19, <1>20, <1>21 DEF Step

\* Absent, after its own steps: it was looked for before the lock, and the file again under it.
LEMMA OwnAbsent ==
  ASSUME IInv, ~robbed, NEW p \in Procs, Step(p) PROVE Absent(p)'
<1> USE DEF Absent, Purposeful, Removing, disk, call
<1>1. /\ loose \in [Names -> Values \cup Branches] /\ packed \in [Branches -> Values]
      /\ cache \in [Procs -> [Branches -> Values] \cup {NotRead}]
      /\ pc \in [Procs -> Steps] /\ op \in [Procs -> Kinds] /\ real \in [Procs -> Names]
  BY DEF IInv, FilesTyped, CallsTyped
<1>2. Absent(p) /\ Purposeful(p)
  BY DEF IInv, FilesTyped
<1>3. CASE Start(p)
  BY <1>1, <1>2, <1>3 DEF Start, Goto
<1>4. CASE FollowLoose(p)
  BY <1>1, <1>2, <1>4 DEF FollowLoose, Followed, Goto, Forget
<1>5. CASE FollowPacked(p)
  <2>1. /\ real[p] \in Branches => PackedRefs(p) # NotRead
        /\ cache'[p] = PackedRefs(p)
    BY <1>1, <1>2, <1>5, PackedRefsType DEF FollowPacked, ReadPacked
  <2>2. CASE pc'[p] = "lock" /\ op'[p] = "add"
    <3> Followed(p, InPacked(p, real[p]))
      BY <1>5 DEF FollowPacked
    <3> InPacked(p, real[p]) = None /\ real'[p] = real[p]
      BY <1>1, <1>2, <2>2 DEF Followed, Goto, Forget
    <3> QED
      BY <2>1, <2>2 DEF InPacked
  <2>3. pc'[p] \in {"lock", "follow", "idle"}
    BY <1>1, <1>2, <1>5 DEF FollowPacked, Followed, Goto, Forget
  <2> QED
    BY <2>2, <2>3
<1>6. CASE Lock(p)
  BY <1>1, <1>2, <1>6 DEF Lock, Goto, Forget
<1>7. CASE Compare(p)
  BY <1>1, <1>2, <1>7 DEF Compare, Equals, Leave, Goto
<1>8. CASE ComparePacked(p)
  BY <1>1, <1>2, <1>8 DEF ComparePacked, Equals, Leave, Goto, ReadPacked, PackedRefs, InPacked
<1>9. CASE Check(p)
  BY <1>1, <1>2, <1>9 DEF Check, Leave, Goto, ReadPacked, PackedRefs, InPacked
<1>10. CASE Write(p)
  BY <1>1, <1>2, <1>10 DEF Write, Forget, Goto
<1>11. CASE Rename(p)
  BY <1>1, <1>2, <1>11 DEF Rename, Leave
<1>12. CASE MoveAside(p)
  BY <1>1, <1>2, <1>12 DEF MoveAside, Goto
<1>13. CASE MoveIn(p)
  BY <1>1, <1>2, <1>13 DEF MoveIn, Leave
<1>21. CASE RenameFails(p)
  BY <1>1, <1>2, <1>21 DEF RenameFails, Leave, Goto
<1>14. CASE Abort(p)
  BY <1>1, <1>2, <1>14 DEF Abort, Forget
<1>15. CASE Delete(p)
  BY <1>1, <1>2, <1>15 DEF Delete, Leave, Goto
<1>16. CASE LockPacked(p)
  BY <1>1, <1>2, <1>16 DEF LockPacked, Leave, Goto
<1>17. CASE Reread(p)
  BY <1>1, <1>2, <1>17 DEF Reread, Leave, Goto
<1>18. CASE RenamePacked(p)
  BY <1>1, <1>2, <1>18 DEF RenamePacked, Goto
<1>19. CASE AbortPacked(p)
  BY <1>1, <1>2, <1>19 DEF AbortPacked, Goto
<1>20. CASE Die(p)
  BY <1>1, <1>2, <1>20 DEF Die, Forget
<1> QED
  BY <1>3, <1>4, <1>5, <1>6, <1>7, <1>8, <1>9, <1>10, <1>11, <1>12, <1>13, <1>14, <1>15,
  <1>16, <1>17, <1>18, <1>19, <1>20, <1>21 DEF Step

\* Emptied, after its own steps.
LEMMA OwnEmptied ==
  ASSUME IInv, ~robbed, NEW p \in Procs, Step(p) PROVE Emptied(p)'
<1> USE DEF Emptied, Steps, disk, call
<1>1. /\ loose \in [Names -> Values \cup Branches] /\ pc \in [Procs -> Steps]
      /\ real \in [Procs -> Names]
  BY DEF IInv, FilesTyped, CallsTyped
<1>2. Emptied(p)
  BY DEF IInv, FilesTyped
<1>3. CASE Start(p)
  BY <1>1, <1>2, <1>3 DEF Start, Goto
<1>4. CASE FollowLoose(p)
  BY <1>1, <1>2, <1>4 DEF FollowLoose, Followed, Goto, Forget
<1>5. CASE FollowPacked(p)
  BY <1>1, <1>2, <1>5 DEF FollowPacked, Followed, Goto, Forget, ReadPacked, PackedRefs, InPacked
<1>6. CASE Lock(p)
  BY <1>1, <1>2, <1>6 DEF Lock, Goto, Forget
<1>7. CASE Compare(p)
  BY <1>1, <1>2, <1>7 DEF Compare, Equals, Leave, Goto
<1>8. CASE ComparePacked(p)
  BY <1>1, <1>2, <1>8 DEF ComparePacked, Equals, Leave, Goto, ReadPacked, PackedRefs, InPacked
<1>9. CASE Check(p)
  BY <1>1, <1>2, <1>9 DEF Check, Leave, Goto, ReadPacked, PackedRefs, InPacked
<1>10. CASE Write(p)
  BY <1>1, <1>2, <1>10 DEF Write, Forget, Goto
<1>11. CASE Rename(p)
  BY <1>1, <1>2, <1>11 DEF Rename, Leave
<1>12. CASE MoveAside(p)
  BY <1>1, <1>2, <1>12 DEF MoveAside, Goto
<1>13. CASE MoveIn(p)
  BY <1>1, <1>2, <1>13 DEF MoveIn, Leave
<1>21. CASE RenameFails(p)
  BY <1>1, <1>2, <1>21 DEF RenameFails, Leave, Goto
<1>14. CASE Abort(p)
  BY <1>1, <1>2, <1>14 DEF Abort, Forget
<1>15. CASE Delete(p)
  BY <1>1, <1>2, <1>15 DEF Delete, Leave, Goto
<1>16. CASE LockPacked(p)
  BY <1>1, <1>2, <1>16 DEF LockPacked, Leave, Goto
<1>17. CASE Reread(p)
  BY <1>1, <1>2, <1>17 DEF Reread, Leave, Goto
<1>18. CASE RenamePacked(p)
  BY <1>1, <1>2, <1>18 DEF RenamePacked, Goto
<1>19. CASE AbortPacked(p)
  BY <1>1, <1>2, <1>19 DEF AbortPacked, Goto
<1>20. CASE Die(p)
  BY <1>1, <1>2, <1>20 DEF Die, Forget
<1> QED
  BY <1>3, <1>4, <1>5, <1>6, <1>7, <1>8, <1>9, <1>10, <1>11, <1>12, <1>13, <1>14, <1>15,
  <1>16, <1>17, <1>18, <1>19, <1>20, <1>21 DEF Step

\* Rewritten, after its own steps: the packed references are read again under their lock.
LEMMA OwnRewritten ==
  ASSUME IInv, ~robbed, NEW p \in Procs, Step(p) PROVE Rewritten(p)'
<1> USE DEF Rewritten, Purposeful, Removing, Steps, disk, call
<1>1. /\ packed \in [Branches -> Values]
      /\ cache \in [Procs -> [Branches -> Values] \cup {NotRead}]
      /\ pc \in [Procs -> Steps] /\ op \in [Procs -> Kinds] /\ real \in [Procs -> Names]
  BY DEF IInv, FilesTyped, CallsTyped
<1>2. Rewritten(p) /\ Purposeful(p)
  BY DEF IInv, FilesTyped
<1>3. CASE Start(p)
  BY <1>1, <1>2, <1>3 DEF Start, Goto
<1>4. CASE FollowLoose(p)
  BY <1>1, <1>2, <1>4 DEF FollowLoose, Followed, Goto, Forget
<1>5. CASE FollowPacked(p)
  BY <1>1, <1>2, <1>5 DEF FollowPacked, Followed, Goto, Forget, ReadPacked, PackedRefs, InPacked
<1>6. CASE Lock(p)
  BY <1>1, <1>2, <1>6 DEF Lock, Goto, Forget
<1>7. CASE Compare(p)
  BY <1>1, <1>2, <1>7 DEF Compare, Equals, Leave, Goto
<1>8. CASE ComparePacked(p)
  BY <1>1, <1>2, <1>8 DEF ComparePacked, Equals, Leave, Goto, ReadPacked, PackedRefs, InPacked
<1>9. CASE Check(p)
  BY <1>1, <1>2, <1>9 DEF Check, Leave, Goto, ReadPacked, PackedRefs, InPacked
<1>10. CASE Write(p)
  BY <1>1, <1>2, <1>10 DEF Write, Forget, Goto
<1>11. CASE Rename(p)
  BY <1>1, <1>2, <1>11 DEF Rename, Leave
<1>12. CASE MoveAside(p)
  BY <1>1, <1>2, <1>12 DEF MoveAside, Goto
<1>13. CASE MoveIn(p)
  BY <1>1, <1>2, <1>13 DEF MoveIn, Leave
<1>21. CASE RenameFails(p)
  BY <1>1, <1>2, <1>21 DEF RenameFails, Leave, Goto
<1>14. CASE Abort(p)
  BY <1>1, <1>2, <1>14 DEF Abort, Forget
<1>15. CASE Delete(p)
  BY <1>1, <1>2, <1>15 DEF Delete, Leave, Goto
<1>16. CASE LockPacked(p)
  BY <1>1, <1>2, <1>16 DEF LockPacked, Leave, Goto
<1>17. CASE Reread(p)
  <2> real[p] \in Branches
    BY <1>1, <1>2, <1>17 DEF Reread
  <2> QED
    BY <1>1, <1>2, <1>17 DEF Reread, Goto, Values
<1>18. CASE RenamePacked(p)
  BY <1>1, <1>2, <1>18 DEF RenamePacked, Goto
<1>19. CASE AbortPacked(p)
  BY <1>1, <1>2, <1>19 DEF AbortPacked, Goto
<1>20. CASE Die(p)
  BY <1>1, <1>2, <1>20 DEF Die, Forget
<1> QED
  BY <1>3, <1>4, <1>5, <1>6, <1>7, <1>8, <1>9, <1>10, <1>11, <1>12, <1>13, <1>14, <1>15,
  <1>16, <1>17, <1>18, <1>19, <1>20, <1>21 DEF Step

\* Unpacked, after its own steps.
LEMMA OwnUnpacked ==
  ASSUME IInv, ~robbed, NEW p \in Procs, Step(p) PROVE Unpacked(p)'
<1> USE DEF Unpacked, Rewritten, Steps, Outcomes, disk, call
<1>1. /\ packed \in [Branches -> Values] /\ pc \in [Procs -> Steps]
      /\ real \in [Procs -> Names] /\ result \in [Procs -> Outcomes]
  BY DEF IInv, FilesTyped, CallsTyped
<1>2. Rewritten(p) /\ Unpacked(p)
  BY DEF IInv, FilesTyped
<1>3. CASE Start(p)
  BY <1>1, <1>2, <1>3 DEF Start, Goto
<1>4. CASE FollowLoose(p)
  BY <1>1, <1>2, <1>4 DEF FollowLoose, Followed, Goto, Forget
<1>5. CASE FollowPacked(p)
  BY <1>1, <1>2, <1>5 DEF FollowPacked, Followed, Goto, Forget, ReadPacked, PackedRefs, InPacked
<1>6. CASE Lock(p)
  BY <1>1, <1>2, <1>6 DEF Lock, Goto, Forget
<1>7. CASE Compare(p)
  BY <1>1, <1>2, <1>7 DEF Compare, Equals, Leave, Goto
<1>8. CASE ComparePacked(p)
  BY <1>1, <1>2, <1>8 DEF ComparePacked, Equals, Leave, Goto, ReadPacked, PackedRefs, InPacked
<1>9. CASE Check(p)
  BY <1>1, <1>2, <1>9 DEF Check, Leave, Goto, ReadPacked, PackedRefs, InPacked
<1>10. CASE Write(p)
  BY <1>1, <1>2, <1>10 DEF Write, Forget, Goto
<1>11. CASE Rename(p)
  BY <1>1, <1>2, <1>11 DEF Rename, Leave
<1>12. CASE MoveAside(p)
  BY <1>1, <1>2, <1>12 DEF MoveAside, Goto
<1>13. CASE MoveIn(p)
  BY <1>1, <1>2, <1>13 DEF MoveIn, Leave
<1>21. CASE RenameFails(p)
  BY <1>1, <1>2, <1>21 DEF RenameFails, Leave, Goto
<1>14. CASE Abort(p)
  BY <1>1, <1>2, <1>14 DEF Abort, Forget
<1>15. CASE Delete(p)
  BY <1>1, <1>2, <1>15 DEF Delete, Leave, Goto
<1>16. CASE LockPacked(p)
  BY <1>1, <1>2, <1>16 DEF LockPacked, Leave, Goto
<1>17. CASE Reread(p)
  BY <1>1, <1>2, <1>17 DEF Reread, Leave, Goto
<1>18. CASE RenamePacked(p)
  BY <1>1, <1>2, <1>18 DEF RenamePacked, Goto
<1>19. CASE AbortPacked(p)
  BY <1>1, <1>2, <1>19 DEF AbortPacked, Goto
<1>20. CASE Die(p)
  BY <1>1, <1>2, <1>20 DEF Die, Forget
<1> QED
  BY <1>3, <1>4, <1>5, <1>6, <1>7, <1>8, <1>9, <1>10, <1>11, <1>12, <1>13, <1>14, <1>15,
  <1>16, <1>17, <1>18, <1>19, <1>20, <1>21 DEF Step

-----------------------------------------------------------------------------
(* What a process does not do to the others.                                *)

\* A step of one process leaves what another works on as it is.
LEMMA Frame ==
  ASSUME IInv, NEW p \in Procs, Step(p), NEW q \in Procs \ {p}
  PROVE  /\ pc'[q] = pc[q] /\ op'[q] = op[q] /\ name'[q] = name[q] /\ real'[q] = real[q]
         /\ old'[q] = old[q] /\ new'[q] = new[q] /\ cache'[q] = cache[q]
         /\ aside'[q] = aside[q] /\ result'[q] = result[q]
<1>1. /\ aside \in [Procs -> Values \cup Branches]
      /\ cache \in [Procs -> [Branches -> Values] \cup {NotRead}]
      /\ pc \in [Procs -> Steps] /\ op \in [Procs -> Kinds] /\ result \in [Procs -> Outcomes]
      /\ name \in [Procs -> Names] /\ real \in [Procs -> Names]
      /\ old \in [Procs -> Values] /\ new \in [Procs -> Values \cup Branches]
  BY DEF IInv, FilesTyped, CallsTyped
<1> USE DEF Goto, Forget, Leave, call, disk
<1>3. CASE Start(p)
  BY <1>1, <1>3 DEF Start
<1>4. CASE FollowLoose(p)
  BY <1>1, <1>4 DEF FollowLoose, Followed
<1>5. CASE FollowPacked(p)
  BY <1>1, <1>5 DEF FollowPacked, Followed, ReadPacked
<1>6. CASE Lock(p)
  <2>1. CASE lock[real[p]] = Free
    BY <1>1, <1>6, <2>1 DEF Lock
  <2>2. CASE lock[real[p]] # Free
    <3> Forget(p, "idle") /\ UNCHANGED <<cache, aside>>
      BY <1>6, <2>2 DEF Lock
    <3> QED
      BY <1>1
  <2> QED
    BY <2>1, <2>2
<1>7. CASE Compare(p)
  BY <1>1, <1>7 DEF Compare, Equals
<1>8. CASE ComparePacked(p)
  BY <1>1, <1>8 DEF ComparePacked, Equals, ReadPacked
<1>9. CASE Check(p)
  BY <1>1, <1>9 DEF Check, ReadPacked
<1>10. CASE Write(p)
  BY <1>1, <1>10 DEF Write
<1>11. CASE Rename(p)
  BY <1>1, <1>11 DEF Rename
<1>12. CASE MoveAside(p)
  BY <1>1, <1>12 DEF MoveAside
<1>13. CASE MoveIn(p)
  BY <1>1, <1>13 DEF MoveIn
<1>21. CASE RenameFails(p)
  BY <1>1, <1>21 DEF RenameFails, Leave, Goto
<1>14. CASE Abort(p)
  BY <1>1, <1>14 DEF Abort
<1>15. CASE Delete(p)
  BY <1>1, <1>15 DEF Delete
<1>16. CASE LockPacked(p)
  BY <1>1, <1>16 DEF LockPacked
<1>17. CASE Reread(p)
  BY <1>1, <1>17 DEF Reread
<1>18. CASE RenamePacked(p)
  BY <1>1, <1>18 DEF RenamePacked
<1>19. CASE AbortPacked(p)
  BY <1>1, <1>19 DEF AbortPacked
<1>20. CASE Die(p)
  BY <1>1, <1>20 DEF Die
<1> QED
  BY <1>3, <1>4, <1>5, <1>6, <1>7, <1>8, <1>9, <1>10, <1>11, <1>12, <1>13, <1>14, <1>15, <1>16, <1>17,
     <1>18, <1>19, <1>20, <1>21 DEF Step

\* A process takes and gives back locks for itself only.
LEMMA LocksKept ==
  ASSUME IInv, ~robbed, NEW p \in Procs, Step(p), NEW f \in Files
  PROVE  lock'[f] \in {lock[f], p, Free, Left}
<1> USE DEF Files, disk
<1>1. /\ lock \in [Files -> Procs \cup {Free, Left}] /\ real \in [Procs -> Names]
  BY DEF IInv, FilesTyped, CallsTyped
<1>3. CASE Start(p)
  BY <1>1, <1>3 DEF Start, Goto
<1>4. CASE FollowLoose(p)
  BY <1>1, <1>4 DEF FollowLoose, Followed, Goto, Forget
<1>5. CASE FollowPacked(p)
  BY <1>1, <1>5 DEF FollowPacked, Followed, Goto, Forget, ReadPacked, PackedRefs, InPacked
<1>6. CASE Lock(p)
  BY <1>1, <1>6 DEF Lock, Goto, Forget
<1>7. CASE Compare(p)
  BY <1>1, <1>7 DEF Compare, Equals, Leave, Goto
<1>8. CASE ComparePacked(p)
  BY <1>1, <1>8 DEF ComparePacked, Equals, Leave, Goto, ReadPacked, PackedRefs, InPacked
<1>9. CASE Check(p)
  BY <1>1, <1>9 DEF Check, Leave, Goto, ReadPacked, PackedRefs, InPacked
<1>10. CASE Write(p)
  BY <1>1, <1>10 DEF Write, Forget, Goto
<1>11. CASE Rename(p)
  BY <1>1, <1>11 DEF Rename, Leave
<1>12. CASE MoveAside(p)
  BY <1>1, <1>12 DEF MoveAside, Goto
<1>13. CASE MoveIn(p)
  BY <1>1, <1>13 DEF MoveIn, Leave
<1>21. CASE RenameFails(p)
  BY <1>1, <1>21 DEF RenameFails, Leave, Goto
<1>14. CASE Abort(p)
  BY <1>1, <1>14 DEF Abort, Forget
<1>15. CASE Delete(p)
  BY <1>1, <1>15 DEF Delete, Leave, Goto
<1>16. CASE LockPacked(p)
  BY <1>1, <1>16 DEF LockPacked, Leave, Goto
<1>17. CASE Reread(p)
  BY <1>1, <1>17 DEF Reread, Leave, Goto
<1>18. CASE RenamePacked(p)
  BY <1>1, <1>18 DEF RenamePacked, Goto
<1>19. CASE AbortPacked(p)
  BY <1>1, <1>19 DEF AbortPacked, Goto
<1>20. CASE Die(p)
  BY <1>1, <1>20 DEF Die, Forget
<1> QED
  BY <1>3, <1>4, <1>5, <1>6, <1>7, <1>8, <1>9, <1>10, <1>11, <1>12, <1>13, <1>14, <1>15,
  <1>16, <1>17, <1>18, <1>19, <1>20, <1>21 DEF Step

\* Another process does not change the file of a reference that q has the lock of, and takes the
\* lock away only by robbing q.
LEMMA FilesKept ==
  ASSUME IInv, ~robbed, NEW p \in Procs, Step(p), NEW q \in Procs \ {p} PROVE pc[q] \in Working =>
    loose'[real[q]] = loose[real[q]] /\ (robbed' \/ lock'[real[q]] = q)
<1> USE DEF Locked, Files, Working, disk
<1>1. /\ loose \in [Names -> Values \cup Branches]
      /\ lock \in [Files -> Procs \cup {Free, Left}] /\ pc \in [Procs -> Steps]
      /\ real \in [Procs -> Names]
  BY DEF IInv, FilesTyped, CallsTyped
<1>2. Locked(p) /\ Locked(q)
  BY DEF IInv, FilesTyped
<1>3. CASE Start(p)
  BY <1>1, <1>2, <1>3 DEF Start, Goto
<1>4. CASE FollowLoose(p)
  BY <1>1, <1>2, <1>4 DEF FollowLoose, Followed, Goto, Forget
<1>5. CASE FollowPacked(p)
  BY <1>1, <1>2, <1>5 DEF FollowPacked, Followed, Goto, Forget, ReadPacked, PackedRefs, InPacked
<1>6. CASE Lock(p)
  BY <1>1, <1>2, <1>6 DEF Lock, Goto, Forget
<1>7. CASE Compare(p)
  BY <1>1, <1>2, <1>7 DEF Compare, Equals, Leave, Goto
<1>8. CASE ComparePacked(p)
  BY <1>1, <1>2, <1>8 DEF ComparePacked, Equals, Leave, Goto, ReadPacked, PackedRefs, InPacked
<1>9. CASE Check(p)
  BY <1>1, <1>2, <1>9 DEF Check, Leave, Goto, ReadPacked, PackedRefs, InPacked
<1>10. CASE Write(p)
  BY <1>1, <1>2, <1>10 DEF Write, Forget, Goto
<1>11. CASE Rename(p)
  BY <1>1, <1>2, <1>11 DEF Rename, Leave
<1>12. CASE MoveAside(p)
  BY <1>1, <1>2, <1>12 DEF MoveAside, Goto
<1>13. CASE MoveIn(p)
  BY <1>1, <1>2, <1>13 DEF MoveIn, Leave
<1>21. CASE RenameFails(p)
  BY <1>1, <1>2, <1>21 DEF RenameFails, Leave, Goto
<1>14. CASE Abort(p)
  BY <1>1, <1>2, <1>14 DEF Abort, Forget
<1>15. CASE Delete(p)
  BY <1>1, <1>2, <1>15 DEF Delete, Leave, Goto
<1>16. CASE LockPacked(p)
  BY <1>1, <1>2, <1>16 DEF LockPacked, Leave, Goto
<1>17. CASE Reread(p)
  BY <1>1, <1>2, <1>17 DEF Reread, Leave, Goto
<1>18. CASE RenamePacked(p)
  BY <1>1, <1>2, <1>18 DEF RenamePacked, Goto
<1>19. CASE AbortPacked(p)
  BY <1>1, <1>2, <1>19 DEF AbortPacked, Goto
<1>20. CASE Die(p)
  BY <1>1, <1>2, <1>20 DEF Die, Forget
<1> QED
  BY <1>3, <1>4, <1>5, <1>6, <1>7, <1>8, <1>9, <1>10, <1>11, <1>12, <1>13, <1>14, <1>15,
  <1>16, <1>17, <1>18, <1>19, <1>20, <1>21 DEF Step

\* Nor does it change the packed references while q has their lock.
LEMMA PackedKept ==
  ASSUME IInv, ~robbed, NEW p \in Procs, Step(p), NEW q \in Procs \ {p} PROVE pc[q] \in {"reread", "renamePacked"} =>
    packed' = packed /\ (robbed' \/ lock'["packed-refs"] = q)
<1> USE DEF Locked, Files, disk
<1>1. /\ lock \in [Files -> Procs \cup {Free, Left}] /\ pc \in [Procs -> Steps]
      /\ real \in [Procs -> Names]
  BY DEF IInv, FilesTyped, CallsTyped
<1>2. Locked(p) /\ Locked(q)
  BY DEF IInv, FilesTyped
<1>3. CASE Start(p)
  BY <1>1, <1>2, <1>3 DEF Start, Goto
<1>4. CASE FollowLoose(p)
  BY <1>1, <1>2, <1>4 DEF FollowLoose, Followed, Goto, Forget
<1>5. CASE FollowPacked(p)
  BY <1>1, <1>2, <1>5 DEF FollowPacked, Followed, Goto, Forget, ReadPacked, PackedRefs, InPacked
<1>6. CASE Lock(p)
  BY <1>1, <1>2, <1>6 DEF Lock, Goto, Forget
<1>7. CASE Compare(p)
  BY <1>1, <1>2, <1>7 DEF Compare, Equals, Leave, Goto
<1>8. CASE ComparePacked(p)
  BY <1>1, <1>2, <1>8 DEF ComparePacked, Equals, Leave, Goto, ReadPacked, PackedRefs, InPacked
<1>9. CASE Check(p)
  BY <1>1, <1>2, <1>9 DEF Check, Leave, Goto, ReadPacked, PackedRefs, InPacked
<1>10. CASE Write(p)
  BY <1>1, <1>2, <1>10 DEF Write, Forget, Goto
<1>11. CASE Rename(p)
  <2> real[p] \in Names
    BY <1>1
  <2> real[p] # "packed-refs"
    OBVIOUS
  <2> QED
    BY <1>1, <1>2, <1>11 DEF Rename
<1>12. CASE MoveAside(p)
  BY <1>1, <1>2, <1>12 DEF MoveAside, Goto
<1>13. CASE MoveIn(p)
  <2> real[p] \in Names
    BY <1>1
  <2> real[p] # "packed-refs"
    OBVIOUS
  <2> QED
    BY <1>1, <1>2, <1>13 DEF MoveIn
<1>21. CASE RenameFails(p)
  BY <1>1, <1>2, <1>21 DEF RenameFails, Leave, Goto
<1>14. CASE Abort(p)
  BY <1>1, <1>2, <1>14 DEF Abort, Forget
<1>15. CASE Delete(p)
  BY <1>1, <1>2, <1>15 DEF Delete, Leave, Goto
<1>16. CASE LockPacked(p)
  BY <1>1, <1>2, <1>16 DEF LockPacked, Leave, Goto
<1>17. CASE Reread(p)
  BY <1>1, <1>2, <1>17 DEF Reread, Leave, Goto
<1>18. CASE RenamePacked(p)
  BY <1>1, <1>2, <1>18 DEF RenamePacked, Goto
<1>19. CASE AbortPacked(p)
  BY <1>1, <1>2, <1>19 DEF AbortPacked, Goto
<1>20. CASE Die(p)
  BY <1>1, <1>2, <1>20 DEF Die, Forget
<1> QED
  BY <1>3, <1>4, <1>5, <1>6, <1>7, <1>8, <1>9, <1>10, <1>11, <1>12, <1>13, <1>14, <1>15,
  <1>16, <1>17, <1>18, <1>19, <1>20, <1>21 DEF Step

-----------------------------------------------------------------------------
(* All steps.                                                               *)

\* The invariant of one process is kept by the steps of another.
LEMMA OthersStep ==
  ASSUME IInv, ~robbed, NEW p \in Procs, Step(p), NEW q \in Procs \ {p}
  PROVE  /\ Purposeful(q)' /\ Locked(q)' /\ Owner(q)' /\ Compared(q)' /\ Absent(q)'
         /\ Emptied(q)' /\ Rewritten(q)' /\ Unpacked(q)'
<1>1. /\ pc'[q] = pc[q] /\ op'[q] = op[q] /\ name'[q] = name[q] /\ real'[q] = real[q]
      /\ old'[q] = old[q] /\ new'[q] = new[q] /\ cache'[q] = cache[q]
      /\ aside'[q] = aside[q] /\ result'[q] = result[q]
  BY Frame
<1>2. /\ Purposeful(q) /\ Locked(q) /\ Owner(q) /\ Compared(q) /\ Absent(q)
      /\ Emptied(q) /\ Rewritten(q) /\ Unpacked(q)
  BY DEF IInv
<1>3. pc[q] \in Working => loose'[real[q]] = loose[real[q]] /\ (robbed' \/ lock'[real[q]] = q)
  BY FilesKept
<1>4. pc[q] \in {"reread", "renamePacked"} =>
        packed' = packed /\ (robbed' \/ lock'["packed-refs"] = q)
  BY PackedKept
<1>5. \A f \in Files : lock'[f] = q => lock[f] = q
  BY LocksKept DEF IInv, FilesTyped
<1>6. Purposeful(q)'
  BY <1>1, <1>2 DEF Purposeful
<1>7. Locked(q)'
  BY <1>1, <1>2, <1>3, <1>4 DEF Locked, Working
<1>8. Owner(q)'
  BY <1>1, <1>2, <1>5 DEF Owner
<1>9. Compared(q)'
  BY <1>1, <1>2, <1>3 DEF Compared, Working
<1>10. Absent(q)'
  BY <1>1, <1>2, <1>3 DEF Absent, Working
<1>11. Emptied(q)'
  BY <1>1, <1>2, <1>3 DEF Emptied, Working
<1>12. Rewritten(q)'
  BY <1>1, <1>2, <1>4 DEF Rewritten
<1>13. Unpacked(q)'
  <2> SUFFICES ASSUME pc[q] = "abortPacked", result[q] = "True" PROVE packed'[real[q]] = None
    BY <1>1 DEF Unpacked
  <2>1. CASE RenamePacked(p)
    <3>1. real[p] # real[q]
      BY <2>1 DEF IInv, Locked, Working, RenamePacked
    <3>2. packed' = cache[p] /\ cache[p][real[q]] = packed[real[q]]
      BY <2>1, <3>1 DEF IInv, Rewritten, RenamePacked, Purposeful, Removing
    <3> QED
      BY <1>2, <3>2 DEF Unpacked
  <2>2. CASE ~RenamePacked(p)
    <3> packed' = packed
      BY <2>2 DEF Step, Start, FollowLoose, FollowPacked, Lock, Compare, ComparePacked, Check, Write,
         Rename, RenameFails, MoveAside, MoveIn, Abort, Delete, LockPacked, Reread, AbortPacked, Die,
         disk
    <3> QED
      BY <1>2 DEF Unpacked
  <2> QED
    BY <2>1, <2>2
<1> QED
  BY <1>6, <1>7, <1>8, <1>9, <1>10, <1>11, <1>12, <1>13

\* It is kept by git's packing, which waits for the lock of the packed references.
LEMMA PackStep ==
  ASSUME IInv, ~robbed, Pack PROVE IInv'
<1> USE DEF Pack, call
<1>1. FilesTyped' /\ CallsTyped'
  <2> packed' \in [Branches -> Values]
    BY DEF IInv, FilesTyped, Current
  <2> QED
    BY DEF IInv, FilesTyped, CallsTyped
<1>2. ASSUME NEW q \in Procs PROVE Purposeful(q)' /\ Locked(q)' /\ Owner(q)' /\ Emptied(q)'
  BY DEF IInv, Purposeful, Locked, Owner, Emptied
<1>3. ASSUME NEW q \in Procs PROVE Compared(q)' /\ Absent(q)'
  BY DEF IInv, Compared, Absent
<1>4. ASSUME NEW q \in Procs PROVE Rewritten(q)'
  BY DEF IInv, Locked, Rewritten
<1>5. ASSUME NEW q \in Procs PROVE Unpacked(q)'
  <2>1. pc[q] = "abortPacked" /\ result[q] = "True" =>
          loose[real[q]] = None /\ packed[real[q]] = None /\ real[q] \in Branches
    BY DEF IInv, Emptied, Unpacked, Purposeful, Removing
  <2> QED
    BY <2>1 DEF Unpacked, Current
<1> QED
  BY <1>1, <1>2, <1>3, <1>4, <1>5 DEF IInv

\* And by its removing what it has packed, which waits for the lock of the reference.
LEMMA PruneStep ==
  ASSUME IInv, ~robbed, NEW b \in Branches, Prune(b) PROVE IInv'
<1> USE DEF Prune, call
<1>1. FilesTyped' /\ CallsTyped'
  <2> loose' \in [Names -> Values \cup Branches] /\ \A c \in Branches : loose'[c] \in Values
    BY DEF IInv, FilesTyped, Values, Names
  <2> QED
    BY DEF IInv, FilesTyped, CallsTyped
<1>2. ASSUME NEW q \in Procs PROVE Purposeful(q)' /\ Locked(q)' /\ Owner(q)'
  BY DEF IInv, Purposeful, Locked, Owner
<1>3. ASSUME NEW q \in Procs PROVE Rewritten(q)' /\ Unpacked(q)'
  BY DEF IInv, Rewritten, Unpacked
<1>4. ASSUME NEW q \in Procs, pc[q] \in Working PROVE loose'[real[q]] = loose[real[q]]
  <2> real[q] # b
    BY <1>4 DEF IInv, Locked
  <2> QED
    BY DEF IInv, FilesTyped, CallsTyped
<1>5. ASSUME NEW q \in Procs PROVE Compared(q)' /\ Absent(q)' /\ Emptied(q)'
  BY <1>4 DEF IInv, Compared, Absent, Emptied, Working
<1> QED
  BY <1>1, <1>2, <1>3, <1>5 DEF IInv

LEMMA InitIInv == Init => IInv
<1> SUFFICES ASSUME Init PROVE IInv
  OBVIOUS
<1>1. FilesTyped /\ CallsTyped
  BY DEF Init, FilesTyped, CallsTyped, Values, Steps, Kinds, Outcomes, Names
<1>2. ASSUME NEW p \in Procs
      PROVE  /\ Purposeful(p) /\ Locked(p) /\ Owner(p) /\ Compared(p) /\ Absent(p)
             /\ Emptied(p) /\ Rewritten(p) /\ Unpacked(p)
  BY DEF Init, Purposeful, Locked, Owner, Compared, Absent, Emptied, Rewritten, Unpacked, Working,
     Removing
<1> QED
  BY <1>1, <1>2 DEF IInv

\* The invariant is inductive.
LEMMA IInvStep == IInv /\ [Next]_vars => IInv'
<1> SUFFICES ASSUME IInv, [Next]_vars PROVE IInv'
  OBVIOUS
<1>1. ASSUME ~robbed, NEW p \in Procs, Step(p) PROVE IInv'
  <2>1. FilesTyped' /\ CallsTyped'
    BY <1>1, FilesTypedStep, CallsTypedStep
  <2>2. /\ Purposeful(p)' /\ Locked(p)' /\ Owner(p)' /\ Compared(p)' /\ Absent(p)'
        /\ Emptied(p)' /\ Rewritten(p)' /\ Unpacked(p)'
    BY <1>1, OwnPurposeful, OwnLocked, OwnOwner, OwnCompared, OwnAbsent, OwnEmptied, OwnRewritten,
       OwnUnpacked
  <2>3. ASSUME NEW q \in Procs \ {p}
        PROVE  /\ Purposeful(q)' /\ Locked(q)' /\ Owner(q)' /\ Compared(q)' /\ Absent(q)'
               /\ Emptied(q)' /\ Rewritten(q)' /\ Unpacked(q)'
    BY <1>1, OthersStep
  <2> QED
    BY <2>1, <2>2, <2>3 DEF IInv
<1>2. CASE UNCHANGED vars
  <2> USE <1>2 DEF vars, disk, call
  <2>1. FilesTyped' /\ CallsTyped'
    BY DEF IInv, FilesTyped, CallsTyped
  <2>2. ASSUME NEW q \in Procs
        PROVE  /\ Purposeful(q)' /\ Locked(q)' /\ Owner(q)' /\ Compared(q)' /\ Absent(q)'
               /\ Emptied(q)' /\ Rewritten(q)' /\ Unpacked(q)'
    BY DEF IInv, Purposeful, Locked, Owner, Compared, Absent, Emptied, Rewritten, Unpacked
  <2> QED
    BY <2>1, <2>2 DEF IInv
<1> QED
  BY <1>1, <1>2, PackStep, PruneStep DEF Next

THEOREM Inductive == Spec => []IInv
BY InitIInv, IInvStep, PTL DEF Spec

-----------------------------------------------------------------------------
(* What follows from it.                                                    *)

\* Whatever the processes do, what is in the files is of its type.
LEMMA IInvTypeOK == IInv => TypeOK
BY DEF IInv, FilesTyped, TypeOK, Values

\* set_if_equals() replaces what it compared, add_if_new() adds what is not there, and
\* remove_if_equals() removes what it compared, as far as the packed references that the
\* process has read are those of the file.
LEMMA IInvSwapsAreAtomic == IInv => SwapsAreAtomic
<1> SUFFICES ASSUME IInv, NEW p \in Procs, Fresh(p, real[p])
             PROVE  LET now == Current(real[p]) IN
                    /\ pc[p] = "rename" /\ op[p] = "set" /\ old[p] # None => now = old[p]
                    /\ pc[p] = "rename" /\ op[p] = "add" => now = None
                    /\ pc[p] = "delete" /\ old[p] # None => now = old[p]
  BY DEF SwapsAreAtomic
<1>1. /\ Compared(p) /\ Absent(p) /\ real[p] \in Names
  BY DEF IInv, CallsTyped
<1>2. ((pc[p] = "rename" /\ op[p] = "set") \/ pc[p] = "delete") /\ old[p] # None =>
        Current(real[p]) = old[p]
  BY <1>1 DEF Compared, Current, Fresh
<1>3. pc[p] = "rename" /\ op[p] = "add" => Current(real[p]) = None
  BY <1>1 DEF Absent, Current, Fresh
<1> QED
  BY <1>2, <1>3

\* A call that has returned or raised keeps no lock but that of a file that it could not write.
LEMMA IInvLocksAreReleased == IInv => LocksAreReleased
<1> SUFFICES ASSUME IInv, NEW f \in Files, lock[f] \in Procs PROVE pc[lock[f]] # "idle"
  BY DEF LocksAreReleased
<1>1. Owner(lock[f])
  BY DEF IInv
<1> QED
  BY <1>1 DEF Owner, Working

\* To remove a reference from the packed ones keeps the others as they are in the file.
LEMMA IInvOthersStayPacked == IInv => OthersStayPacked
BY DEF IInv, Rewritten, OthersStayPacked

\* What remove_if_equals() has removed is neither loose nor packed.
LEMMA IInvRemovedIsGone == IInv => RemovedIsGone
BY DEF IInv, Emptied, Unpacked, RemovedIsGone, Current

\* References are kept safely by any number of processes, of which any may die: TypeOK,
\* LocksAreReleased, SwapsAreAtomic, OthersStayPacked and RemovedIsGone hold in every state.
THEOREM RefsSafe == Spec => []RefsAreSafe
<1>1. IInv => RefsAreSafe
  BY IInvTypeOK, IInvSwapsAreAtomic, IInvLocksAreReleased, IInvOthersStayPacked, IInvRemovedIsGone
     DEF RefsAreSafe
<1> QED
  BY <1>1, Inductive, PTL
==============================================================================
