------------------------------- MODULE GitStore ------------------------------
(***************************************************************************)
(* The objects of a git repository on disk (dulwich's DiskObjectStore):    *)
(* a file for each loose object, and packs, each of them two files.  No    *)
(* lock is on the whole: processes add objects, pack those that are loose  *)
(* and remove them, receive packs and look for objects at the same time,   *)
(* one file at a time, each with a list of the packs that it reads again   *)
(* when the directory has a later time of change.  Only a file that is     *)
(* written has a lock, its .lock file.  A process may die between any two  *)
(* steps.  A pack is the set of its objects: two packs of the same objects *)
(* are taken to be the same bytes.                                         *)
(***************************************************************************)
EXTENDS Integers, FiniteSets

CONSTANTS
  Procs, Objects,
  InitLoose,  \* the objects that there may be a file of at first
  MaxOps,     \* how often each process writes
  MaxClock,   \* ticks of the clock that the file system's times are read from
  NotLoaded,  \* the list of packs was not read yet
  Free,       \* no process: there is no .lock file
  Left        \* no process any longer: it is there, and its maker has given it up

\* A pack's name is made from the names of its objects.
Packs == (SUBSET Objects) \ {{}}

\* All that the theorems ask of the constants.
ConstantsFit ==
  /\ Objects # {} /\ InitLoose \subseteq SUBSET Objects
  /\ MaxOps \in Nat /\ MaxClock \in Nat /\ NotLoaded \notin SUBSET Packs
  /\ Free \notin Procs /\ Left \notin Procs

VARIABLES
  loose,         \* the objects that have a file
  lock,          \* by whom the .lock file of each was made
  pack, idx,     \* the packs that have a .pack file and an .idx file
  idxLock,       \* by whom the .idx.lock file of each pack was made
  clock, mtime,  \* the time, and when pack_dir changed last
  cache,         \* _pack_cache of each process
  cacheTime,     \* _pack_cache_time
  pc, obj,       \* the step of each process, the object it is at,
  todo, got,     \* the objects it has still to see to, and what the new pack is to hold,
  look,          \* the packs it has still to look in
  ops,           \* how often it wrote
  stored,        \* ghost: the objects whose writing was finished
  own,           \* ghost: the packs whose storing each process has finished
  thin,          \* ghost: the packs that were received
  moved,         \* ghost: when each pack came
  loaded,        \* ghost: when each process listed the packs
  since,         \* ghost: the packs that were complete when its call began
  robbed         \* ghost: a lock file was removed that somebody else had made

files == <<loose, lock, pack, idx, idxLock, clock, mtime>>
cached == <<cache, cacheTime, loaded>>
work == <<obj, todo, got, look, since>>
ghosts == <<stored, own, thin, moved, robbed>>
vars == <<files, cached, work, ghosts, pc, ops>>

Init ==
  /\ loose \in InitLoose /\ lock = [o \in Objects |-> Free]
  /\ pack = {} /\ idx = {} /\ idxLock = [k \in Packs |-> Free] /\ clock = 0 /\ mtime = 0
  /\ cache = [p \in Procs |-> NotLoaded] /\ cacheTime = [p \in Procs |-> 0]
  /\ pc = [p \in Procs |-> "idle"] /\ obj = [p \in Procs |-> CHOOSE o \in Objects : TRUE]
  /\ todo = [p \in Procs |-> {}] /\ got = [p \in Procs |-> {}] /\ look = [p \in Procs |-> {}]
  /\ ops = [p \in Procs |-> 0]
  /\ stored = loose /\ own = [p \in Procs |-> {}] /\ thin = {}
  /\ moved = [k \in Packs |-> 0] /\ loaded = [p \in Procs |-> 0]
  /\ since = [p \in Procs |-> {}] /\ robbed = FALSE

-----------------------------------------------------------------------------
Goto(p, step) == pc' = [pc EXCEPT ![p] = step]

\* The call returns or raises; or the process has died.
Leave(p, step) ==
  /\ Goto(p, step)
  /\ obj' = [obj EXCEPT ![p] = CHOOSE o \in Objects : TRUE]
  /\ todo' = [todo EXCEPT ![p] = {}] /\ got' = [got EXCEPT ![p] = {}]
  /\ look' = [look EXCEPT ![p] = {}] /\ since' = [since EXCEPT ![p] = {}]
Return(p) == Leave(p, "idle")

\* A file comes to pack_dir, or goes.
Touched == mtime' = clock

Tick ==
  /\ clock < MaxClock /\ clock' = clock + 1
  /\ UNCHANGED <<loose, lock, pack, idx, idxLock, mtime, cached, work, ghosts, pc, ops>>

\* get_raw(), add_object(), pack_loose_objects(), or add_thin_pack() once the objects of
\* the pack are known.
Start(p) ==
  /\ pc[p] = "idle"
  /\ \/ /\ \E o \in Objects : obj' = [obj EXCEPT ![p] = o]
        /\ Goto(p, "packs") /\ UNCHANGED <<todo, got, ops>>
     \/ /\ ops[p] < MaxOps /\ ops' = [ops EXCEPT ![p] = @ + 1]
        /\ \/ /\ \E o \in Objects : obj' = [obj EXCEPT ![p] = o]
              /\ Goto(p, "exists") /\ UNCHANGED <<todo, got>>
           \/ /\ todo' = [todo EXCEPT ![p] = Objects]
              /\ Goto(p, "scan") /\ UNCHANGED <<obj, got>>
           \/ /\ \E k \in Packs : got' = [got EXCEPT ![p] = k]
              /\ Goto(p, "receive") /\ UNCHANGED <<obj, todo>>
  /\ since' = [since EXCEPT ![p] = pack \cap idx]
  /\ UNCHANGED <<files, cached, look, ghosts>>

-----------------------------------------------------------------------------
\* Mutations of the definitions that follow have a name with an underscore and what is
\* wrong with them: TLC refutes a property with each.

\* The list is read once.
ThePacks_once(p) ==
  /\ pc[p] = "packs"
  /\ IF cache[p] = NotLoaded
     THEN Goto(p, "stat") /\ UNCHANGED look
     ELSE Goto(p, "look") /\ look' = [look EXCEPT ![p] = cache[p]]
  /\ UNCHANGED <<files, cached, obj, todo, got, since, ghosts, ops>>

\* get_raw(), packs, _pack_cache_stale(): the list of packs is read again if the
\* directory's time is later than that of the list.
ThePacks(p) ==
  /\ pc[p] = "packs"
  /\ IF cache[p] = NotLoaded \/ mtime > cacheTime[p]
     THEN Goto(p, "stat") /\ UNCHANGED look
     ELSE Goto(p, "look") /\ look' = [look EXCEPT ![p] = cache[p]]
  /\ UNCHANGED <<files, cached, obj, todo, got, since, ghosts, ops>>

\* _load_packs(): the time of the directory.
Stat(p) ==
  /\ pc[p] = "stat" /\ Goto(p, "list")
  /\ cacheTime' = [cacheTime EXCEPT ![p] = mtime]
  /\ UNCHANGED <<files, cache, loaded, work, ghosts, ops>>

\* Then the names of the packs in it.
List(p) ==
  /\ pc[p] = "list" /\ Goto(p, "look")
  /\ cache' = [cache EXCEPT ![p] = pack] /\ loaded' = [loaded EXCEPT ![p] = clock]
  /\ look' = [look EXCEPT ![p] = pack]
  /\ UNCHANGED <<files, cacheTime, obj, todo, got, since, ghosts, ops>>

\* One pack (the newest first; here, any): IOError if it has no index.
Look(p) ==
  /\ pc[p] = "look"
  /\ \E k \in look[p] :
       CASE k \notin idx -> Return(p)
         [] k \in idx /\ obj[p] \in k -> Return(p)
         [] OTHER -> /\ look' = [look EXCEPT ![p] = @ \ {k}]
                     /\ UNCHANGED <<pc, obj, todo, got, since>>
  /\ UNCHANGED <<files, cached, ghosts, ops>>

\* None has it: _get_loose_object(), and KeyError if there is no file.
LookLoose(p) ==
  /\ pc[p] = "look" /\ look[p] = {}
  /\ Return(p)
  /\ UNCHANGED <<files, cached, ghosts, ops>>

-----------------------------------------------------------------------------
\* add_object(): nothing is done if the file is there.
Exists(p) ==
  /\ pc[p] = "exists"
  /\ IF obj[p] \in loose THEN Return(p)
     ELSE Goto(p, "create") /\ UNCHANGED <<work>>
  /\ UNCHANGED <<files, cached, ghosts, ops>>

\* GitFile(): the .lock file is created, or OSError raised as it is there.
Create(p) ==
  /\ pc[p] = "create"
  /\ IF lock[obj[p]] = Free
     THEN /\ lock' = [lock EXCEPT ![obj[p]] = p]
          /\ Goto(p, "write") /\ UNCHANGED <<work>>
     ELSE Return(p) /\ UNCHANGED lock
  /\ UNCHANGED <<loose, pack, idx, idxLock, clock, mtime, cached, ghosts, ops>>

\* It is written, and closed; or that fails, IOError is raised, and the lock file stays.
Write(p) ==
  /\ pc[p] = "write"
  /\ \/ Goto(p, "close") /\ UNCHANGED <<lock, work>>
     \/ lock' = [lock EXCEPT ![obj[p]] = Left] /\ Return(p)
  /\ UNCHANGED <<loose, pack, idx, idxLock, clock, mtime, cached, ghosts, ops>>

\* close(): the lock file becomes the file.
Close(p) ==
  /\ pc[p] = "close" /\ lock' = [lock EXCEPT ![obj[p]] = Free]
  /\ loose' = loose \cup {obj[p]} /\ stored' = stored \cup {obj[p]}
  /\ Goto(p, "abort")
  /\ UNCHANGED <<pack, idx, idxLock, clock, mtime, cached, work, own, thin, moved, robbed, ops>>

\* abort() in it: what is at the place of the lock file by now is removed.
Abort(p) ==
  /\ pc[p] = "abort"
  /\ lock' = [lock EXCEPT ![obj[p]] = Free] /\ robbed' = (lock[obj[p]] # Free)
  /\ Return(p)
  /\ UNCHANGED <<loose, pack, idx, idxLock, clock, mtime, cached, stored, own, thin, moved, ops>>

-----------------------------------------------------------------------------
\* pack_loose_objects(), _iter_loose_objects(): the directory of one object (each is taken
\* to be in one of its own) is listed.  A .lock file in it is read as if it were an object,
\* and has no name of one: AssertionError (from_path()).
Scan(p) ==
  /\ pc[p] = "scan"
  /\ \E o \in todo[p] :
       CASE lock[o] # Free -> Return(p)
         [] lock[o] = Free /\ o \in loose ->
              /\ obj' = [obj EXCEPT ![p] = o] /\ Goto(p, "read")
              /\ UNCHANGED <<todo, got, look, since>>
         [] OTHER -> /\ todo' = [todo EXCEPT ![p] = @ \ {o}]
                     /\ UNCHANGED <<pc, obj, got, look, since>>
  /\ UNCHANGED <<files, cached, ghosts, ops>>

\* The object is read; what is gone is None, which has no id.
Read(p) ==
  /\ pc[p] = "read"
  /\ IF obj[p] \notin loose
     THEN Return(p)
     ELSE /\ got' = [got EXCEPT ![p] = @ \cup {obj[p]}]
          /\ todo' = [todo EXCEPT ![p] = @ \ {obj[p]}]
          /\ Goto(p, "scan") /\ UNCHANGED <<obj, look, since>>
  /\ UNCHANGED <<files, cached, ghosts, ops>>

\* add_objects(), add_pack(), commit(): nothing is written if there is none; else a pack
\* is, under a name that is no pack's.
WritePack(p) ==
  /\ pc[p] = "scan" /\ todo[p] = {}
  /\ IF got[p] = {} THEN Return(p) /\ UNCHANGED mtime
     ELSE Touched /\ Goto(p, "index") /\ UNCHANGED <<work>>
  /\ UNCHANGED <<loose, lock, pack, idx, idxLock, clock, cached, ghosts, ops>>

\* The pack is renamed before its index is written.
IndexLock_late(p) ==
  /\ pc[p] \in {"index", "thinIndex"}
  /\ idxLock' = [idxLock EXCEPT ![got[p]] = p] /\ pack' = pack \cup {got[p]} /\ Touched
  /\ Goto(p, IF pc[p] = "index" THEN "indexed" ELSE "thinIndexed")
  /\ UNCHANGED <<loose, lock, idx, clock, cached, work, ghosts, ops>>

\* Whose the lock file is, is not asked.
IndexLock_taken(p) ==
  /\ pc[p] \in {"index", "thinIndex"}
  /\ idxLock' = [idxLock EXCEPT ![got[p]] = p] /\ Touched
  /\ Goto(p, IF pc[p] = "index" THEN "indexed" ELSE "thinIndexed")
  /\ UNCHANGED <<loose, lock, pack, idx, clock, cached, work, ghosts, ops>>

\* move_in_pack(), _complete_thin_pack(): GitFile() for the index; of two that write the
\* same one, OSError is raised for the second.
IndexLock(p) ==
  /\ pc[p] \in {"index", "thinIndex"}
  /\ IF idxLock[got[p]] # Free THEN Return(p) /\ UNCHANGED <<idxLock, mtime>>
     ELSE /\ idxLock' = [idxLock EXCEPT ![got[p]] = p] /\ Touched
          /\ Goto(p, IF pc[p] = "index" THEN "indexed" ELSE "thinIndexed")
          /\ UNCHANGED <<work>>
  /\ UNCHANGED <<loose, lock, pack, idx, clock, cached, ghosts, ops>>

\* To write the index fails: the lock file stays, unless abort() comes to remove it.
IndexFails(p) ==
  /\ pc[p] \in {"indexed", "thinIndexed"}
  /\ \/ idxLock' = [idxLock EXCEPT ![got[p]] = Left] /\ UNCHANGED mtime
     \/ pc[p] = "thinIndexed" /\ idxLock' = [idxLock EXCEPT ![got[p]] = Free] /\ Touched
  /\ Return(p)
  /\ UNCHANGED <<loose, lock, pack, idx, clock, cached, ghosts, ops>>

\* It is not added.
AddKnown_not(p) == UNCHANGED cache /\ own' = [own EXCEPT ![p] = @ \cup {got[p]}]

\* _add_known_pack().
AddKnown(p) ==
  /\ cache' = [cache EXCEPT ![p] = IF @ = NotLoaded THEN @ ELSE @ \cup {got[p]}]
  /\ own' = [own EXCEPT ![p] = @ \cup {got[p]}]

\* A file is renamed to the pack's name.
Renamed(k) ==
  /\ pack' = pack \cup {k} /\ moved' = [moved EXCEPT ![k] = IF k \in pack THEN @ ELSE clock]


\* close(): the lock file becomes the index.
Indexed(p) ==
  /\ pc[p] \in {"indexed", "thinIndexed"}
  /\ idx' = idx \cup {got[p]} /\ idxLock' = [idxLock EXCEPT ![got[p]] = Free] /\ Touched
  /\ Goto(p, IF pc[p] = "indexed" THEN "indexAbort" ELSE "thinAbort")
  /\ UNCHANGED <<loose, lock, pack, clock, cached, work, ghosts, ops>>

\* abort() in it.
RemoveIdxLock(p) ==
  /\ idxLock' = [idxLock EXCEPT ![got[p]] = Free] /\ robbed' = (idxLock[got[p]] # Free)
  /\ IF robbed' THEN Touched ELSE UNCHANGED mtime

IndexAbort(p) ==
  /\ pc[p] = "indexAbort" /\ RemoveIdxLock(p) /\ Goto(p, "rename")
  /\ UNCHANGED <<loose, lock, pack, idx, clock, cached, work, stored, own, thin, moved, ops>>

\* Then the pack, which is found from now on; pack_loose_objects() goes on to remove.
Rename(p) ==
  /\ pc[p] = "rename" /\ Renamed(got[p]) /\ Touched
  /\ AddKnown(p) /\ todo' = [todo EXCEPT ![p] = got[p]] /\ Goto(p, "remove")
  /\ UNCHANGED <<loose, lock, idx, idxLock, clock, cacheTime, loaded, obj, got, look, since,
                 stored, thin, robbed, ops>>

\* One file after the other; OSError if it is gone.
Remove(p) ==
  /\ pc[p] = "remove"
  /\ \/ \E o \in todo[p] :
          IF o \in loose
          THEN /\ loose' = loose \ {o} /\ todo' = [todo EXCEPT ![p] = @ \ {o}]
               /\ UNCHANGED <<pc, obj, got, look, since>>
          ELSE Return(p) /\ UNCHANGED loose
     \/ todo[p] = {} /\ Return(p) /\ UNCHANGED loose
  /\ UNCHANGED <<lock, pack, idx, idxLock, clock, mtime, cached, ghosts, ops>>

-----------------------------------------------------------------------------
\* _complete_thin_pack(): the pack is renamed first.
Receive(p) ==
  /\ pc[p] = "receive" /\ Renamed(got[p]) /\ Touched /\ thin' = thin \cup {got[p]}
  /\ Goto(p, "thinIndex")
  /\ UNCHANGED <<loose, lock, idx, idxLock, clock, cached, work, stored, own, robbed, ops>>

\* Its index was written, and it is known.
ThinIndexed(p) ==
  /\ pc[p] = "thinAbort" /\ RemoveIdxLock(p)
  /\ AddKnown(p) /\ stored' = stored \cup got[p] /\ Return(p)
  /\ UNCHANGED <<loose, lock, pack, idx, clock, cacheTime, loaded, thin, moved, ops>>

Die(p) ==
  /\ pc[p] \notin {"idle", "dead"} /\ Leave(p, "dead")
  /\ UNCHANGED <<files, cached, ghosts, ops>>

\* What is done with a lock file that another process has removed is not followed.
Next ==
  /\ ~robbed
  /\ \/ Tick
     \/ \E p \in Procs :
          \/ Start(p) \/ ThePacks(p) \/ Stat(p) \/ List(p) \/ Look(p) \/ LookLoose(p)
          \/ Exists(p) \/ Create(p) \/ Write(p) \/ Close(p) \/ Abort(p)
          \/ Scan(p) \/ Read(p) \/ WritePack(p) \/ IndexLock(p) \/ IndexFails(p) \/ Indexed(p)
          \/ IndexAbort(p) \/ Rename(p) \/ Remove(p) \/ Receive(p) \/ ThinIndexed(p) \/ Die(p)

Spec == Init /\ [][Next]_vars

-----------------------------------------------------------------------------
\* get_raw() is about to raise KeyError; or IOError.
Misses(p) == pc[p] = "look" /\ look[p] = {} /\ obj[p] \notin loose
FindsNoIndex(p) == pc[p] = "look" /\ ~(look[p] \subseteq idx)

\* Whoever packs, removes, receives and dies, and when: what was stored is in a loose file
\* or in a pack that has both its files (pack_loose_objects() removes a file after the pack
\* that has the object was renamed, and the pack after its index).  It is so until an abort()
\* after close() has removed a lock file that another process had made: Next ends there, and
\* from there on a third process's lock file may be renamed before it is written.
NothingIsLost ==
  \A o \in stored : o \in loose \/ \E k \in pack \cap idx : o \in k

\* A pack that was complete when get_raw() was called is missed only by a process that
\* listed the directory before the pack came and within the same tick of the clock: the
\* directory's time is then not later than the list's (_pack_cache_stale()).
MissIsExplained ==
  \A p \in Procs : Misses(p) => \A k \in since[p] : obj[p] \in k => moved[k] = loaded[p]

\* A process finds what it packed or received itself, whatever the clock (_add_known_pack()).
OwnIsFound == \A p \in Procs : Misses(p) => \A k \in own[p] : obj[p] \notin k

\* Looking for an object fails only if a pack that was received has no index yet: a pack
\* made from loose objects has its index when it appears.
FailureIsReceiving ==
  \A p \in Procs : FindsNoIndex(p) => \E k \in thin : k \in pack \ idx

\* What close() renames is the file that the process itself has made and written, until a
\* lock file of another process was removed (GitFile() creates it with O_EXCL, and nobody
\* takes it from a process that writes).
RenamesItsOwn ==
  ~robbed =>
    \A p \in Procs :
      /\ pc[p] \in {"write", "close"} => lock[obj[p]] = p
      /\ pc[p] \in {"indexed", "thinIndexed"} => idxLock[got[p]] = p
==============================================================================
