------------------------------ MODULE GitRefs -------------------------------
(***************************************************************************)
(* The references of a git repository, as dulwich keeps them on disk       *)
(* (DiskRefsContainer, _GitFile, BaseRepo.do_commit): one file per loose   *)
(* reference and one for all that are packed, each changed under the lock  *)
(* that its .lock file is.  Several processes work on one repository, each *)
(* with a cache of the packed references that is read once; git itself may *)
(* pack references meanwhile.  A process may die between any two steps.    *)
(***************************************************************************)
EXTENDS Integers

CONSTANTS
  Procs,
  Branches,      \* the names of the references that hold a commit; HEAD refers to one
  Shas,          \* commits
  InitLoose, InitPacked,  \* the references that there may be at first
  Ops,           \* what the processes do: "set", "add", "remove", "symref", "commit"
  MaxOps,        \* how much each does
  Repacks,       \* whether git packs references meanwhile
  AtomicRename,  \* FALSE: a file that exists is not replaced by a rename (Windows)
  Free,          \* no process: there is no .lock file
  Left           \* no process any longer: it is there, and its maker has given it up

\* There is no such reference.  Otherwise it is a commit or the name of another one.
None == "none"
Names == {"HEAD"} \cup Branches
Files == Names \cup {"packed-refs"}

\* A branch holds a commit, or nothing; HEAD may hold the name of a branch.
Values == {None} \cup Shas

ASSUME NamesAssumption ==
  /\ Free \notin Procs /\ Left \notin Procs \cup {Free}
  /\ None \notin Shas \cup Branches /\ "unread" \notin Shas
  /\ "HEAD" \notin Branches /\ "packed-refs" \notin Names
ASSUME FilesAssumption ==
  /\ InitLoose \subseteq
       {f \in [Names -> Values \cup Branches] : \A b \in Branches : f[b] \in Values}
  /\ InitPacked \subseteq [Branches -> Values]
ASSUME OpsAssumption == Ops \subseteq {"set", "add", "remove", "symref", "commit"}

VARIABLES
  loose, packed,  \* the files of the references
  lock,           \* by whom each file's .lock was made
  aside,          \* what each process has renamed out of the way (fancy_rename)
  cache,          \* _packed_refs of each process: not read yet, or what was read
  pc,             \* the step of each process, and what it works on:
  op, name, old, new, real,
  result,         \* what its call is to return or raise
  ops,            \* how much it did
  robbed          \* ghost: a lock file was removed that somebody else had made

disk == <<loose, packed, lock, aside>>
call == <<op, name, old, new>>
vars == <<disk, cache, pc, call, real, result, ops, robbed>>

NotRead == [b \in Branches |-> "unread"]

\* The process has nothing to do, or has died.
Forget(p, step) ==
  /\ pc' = [pc EXCEPT ![p] = step] /\ op' = [op EXCEPT ![p] = "set"]
  /\ name' = [name EXCEPT ![p] = "HEAD"] /\ real' = [real EXCEPT ![p] = "HEAD"]
  /\ old' = [old EXCEPT ![p] = None] /\ new' = [new EXCEPT ![p] = None]
  /\ result' = [result EXCEPT ![p] = "none"]

Init ==
  /\ loose \in InitLoose /\ packed \in InitPacked
  /\ lock = [f \in Files |-> Free] /\ aside = [p \in Procs |-> None]
  /\ cache = [p \in Procs |-> NotRead]
  /\ pc = [p \in Procs |-> "idle"] /\ op = [p \in Procs |-> "set"]
  /\ name = [p \in Procs |-> "HEAD"] /\ real = [p \in Procs |-> "HEAD"]
  /\ old = [p \in Procs |-> None] /\ new = [p \in Procs |-> None]
  /\ result = [p \in Procs |-> "none"] /\ ops = [p \in Procs |-> 0] /\ robbed = FALSE

-----------------------------------------------------------------------------
\* What a reference is, without following it.
Current(n) == IF loose[n] # None THEN loose[n] ELSE IF n \in Branches THEN packed[n] ELSE None

\* get_packed_refs(): the file is read once.
PackedRefs(p) == IF cache[p] = NotRead THEN packed ELSE cache[p]
InPacked(p, n) == IF n \in Branches THEN PackedRefs(p)[n] ELSE None
ReadPacked(p) == cache' = [cache EXCEPT ![p] = PackedRefs(p)]

Goto(p, step) == pc' = [pc EXCEPT ![p] = step]

\* The call is over but for abort(), which removes the lock file; then it returns or raises.
Leave(p, what) == pc' = [pc EXCEPT ![p] = "abort"] /\ result' = [result EXCEPT ![p] = what]

-----------------------------------------------------------------------------
\* set_if_equals(), add_if_new(), remove_if_equals(), set_symbolic_ref() and do_commit()
\* are called; those that follow no reference go on with the lock.
Start(p) ==
  /\ pc[p] = "idle" /\ ops[p] < MaxOps /\ ops' = [ops EXCEPT ![p] = @ + 1]
  /\ \E o \in Ops, n \in Names, x \in {None} \cup Shas, v \in Shas \cup Branches :
       /\ o \in {"add", "symref", "commit"} => x = None
       /\ o = "symref" => n = "HEAD" /\ v \in Branches
       /\ o = "remove" => n # "HEAD" /\ v = CHOOSE s \in Shas : TRUE
       /\ o \in {"set", "add", "commit"} => v \in Shas
       /\ o = "commit" => n = "HEAD"
       /\ op' = [op EXCEPT ![p] = o] /\ name' = [name EXCEPT ![p] = n]
       /\ real' = [real EXCEPT ![p] = n]
       /\ old' = [old EXCEPT ![p] = x] /\ new' = [new EXCEPT ![p] = v]
       /\ Goto(p, IF o \in {"remove", "symref"} THEN "lock" ELSE "follow")
  /\ UNCHANGED <<disk, cache, result, robbed>>

\* What _follow() found is used.  do_commit() has the commit that is to be the parent,
\* and calls set_if_equals(), or add_if_new() if there is none; these follow again.
Followed(p, contents) ==
  CASE op[p] = "commit" /\ contents = None ->
         /\ op' = [op EXCEPT ![p] = "add"] /\ real' = [real EXCEPT ![p] = name[p]]
         /\ Goto(p, "follow") /\ UNCHANGED <<name, old, new, result>>
    [] op[p] = "commit" /\ contents # None ->
         /\ op' = [op EXCEPT ![p] = "set"] /\ old' = [old EXCEPT ![p] = contents]
         /\ real' = [real EXCEPT ![p] = name[p]]
         /\ Goto(p, "follow") /\ UNCHANGED <<name, new, result>>
    [] op[p] = "add" /\ contents # None -> Forget(p, "idle")
    [] OTHER -> Goto(p, "lock") /\ UNCHANGED <<call, real, result>>

\* _follow(), read_ref(): a loose reference is read, and followed if it is symbolic.
FollowLoose(p) ==
  /\ pc[p] = "follow"
  /\ CASE loose[real[p]] \in Branches ->
            /\ real' = [real EXCEPT ![p] = loose[real[p]]]
            /\ UNCHANGED <<pc, call, result>>
       [] loose[real[p]] = None -> Goto(p, "followPacked") /\ UNCHANGED <<call, real, result>>
       [] OTHER -> Followed(p, loose[real[p]])
  /\ UNCHANGED <<disk, cache, ops, robbed>>

\* There is none: the packed one.
FollowPacked(p) ==
  /\ pc[p] = "followPacked"
  /\ ReadPacked(p)
  /\ Followed(p, InPacked(p, real[p]))
  /\ UNCHANGED <<disk, ops, robbed>>

\* Mutations of the definitions that follow have a name with an underscore and what is
\* wrong with them: TLC refutes a property with each.

\* The reference is not read again under the lock.
Lock_unread(p) ==
  /\ pc[p] = "lock"
  /\ IF lock[real[p]] = Free
     THEN /\ lock' = [lock EXCEPT ![real[p]] = p]
          /\ Goto(p, CASE op[p] = "add" -> "check"
                       [] op[p] = "remove" -> "delete"
                       [] OTHER -> "write")
          /\ UNCHANGED <<call, real, result>>
     ELSE Forget(p, "idle") /\ UNCHANGED lock
  /\ UNCHANGED <<loose, packed, aside, cache, ops, robbed>>

\* _GitFile.__init__(): the lock file is created, or is there already and OSError raised.
Lock(p) ==
  /\ pc[p] = "lock"
  /\ IF lock[real[p]] = Free
     THEN /\ lock' = [lock EXCEPT ![real[p]] = p]
          /\ Goto(p, CASE op[p] = "add" -> "check"
                       [] op[p] \in {"set", "remove"} /\ old[p] # None -> "compare"
                       [] op[p] = "remove" /\ old[p] = None -> "delete"
                       [] OTHER -> "write")
          /\ UNCHANGED <<call, real, result>>
     ELSE Forget(p, "idle") /\ UNCHANGED lock
  /\ UNCHANGED <<loose, packed, aside, cache, ops, robbed>>

\* The call returns at once if it differs.
Equals_returns(p, contents) ==
  IF contents # old[p] THEN Forget(p, "idle")
  ELSE /\ Goto(p, IF op[p] = "remove" THEN "delete" ELSE "write")
       /\ UNCHANGED <<call, real, result>>

\* The reference is compared with what it is to be, while the lock is held.
Equals(p, contents) ==
  /\ IF contents # old[p] THEN Leave(p, "False")
     ELSE Goto(p, IF op[p] = "remove" THEN "delete" ELSE "write") /\ UNCHANGED result
  /\ UNCHANGED <<call, real>>

Compare(p) ==
  /\ pc[p] = "compare"
  /\ IF loose[real[p]] = None THEN Goto(p, "comparePacked") /\ UNCHANGED <<call, real, result>>
                              ELSE Equals(p, loose[real[p]])
  /\ UNCHANGED <<disk, cache, ops, robbed>>

ComparePacked(p) ==
  /\ pc[p] = "comparePacked"
  /\ ReadPacked(p)
  /\ Equals(p, InPacked(p, real[p]))
  /\ UNCHANGED <<disk, ops, robbed>>

\* add_if_new(): the file exists or the name is packed.
Check(p) ==
  /\ pc[p] = "check"
  /\ IF loose[real[p]] # None
     THEN Leave(p, "False") /\ UNCHANGED cache
     ELSE /\ ReadPacked(p)
          /\ IF InPacked(p, name[p]) # None THEN Leave(p, "False")
                                            ELSE Goto(p, "write") /\ UNCHANGED result
  /\ UNCHANGED <<disk, call, real, ops, robbed>>

\* The reference is written to a buffer, which close() writes to the lock file.  If that
\* fails, close() raises IOError before it comes to its abort(), and the call ends: the lock
\* file stays.
Write(p) ==
  /\ pc[p] = "write"
  /\ \/ Goto(p, "rename") /\ UNCHANGED <<lock, call, real, result>>
     \/ lock' = [lock EXCEPT ![real[p]] = Left] /\ Forget(p, "idle")
  /\ UNCHANGED <<loose, packed, aside, cache, ops, robbed>>

\* close(): the lock file becomes the file; where that does not replace a file, the file
\* is renamed first, and back if the second renaming fails.
Rename(p) ==
  /\ pc[p] = "rename" /\ (AtomicRename \/ loose[real[p]] = None)
  /\ loose' = [loose EXCEPT ![real[p]] = new[p]]
  /\ lock' = [lock EXCEPT ![real[p]] = Free]
  /\ Leave(p, "True")
  /\ UNCHANGED <<packed, aside, cache, call, real, ops, robbed>>

\* A rename fails: close() removes the lock file, and OSError is raised.
RenameFails(p) ==
  /\ \/ pc[p] = "rename" /\ Leave(p, "OSError")
     \/ /\ pc[p] = "renamePacked" /\ Goto(p, "abortPacked")
        /\ result' = [result EXCEPT ![p] = "OSError"]
  /\ UNCHANGED <<disk, cache, call, real, ops, robbed>>

MoveAside(p) ==
  /\ pc[p] = "rename" /\ ~AtomicRename /\ loose[real[p]] # None
  /\ aside' = [aside EXCEPT ![p] = loose[real[p]]]
  /\ loose' = [loose EXCEPT ![real[p]] = None]
  /\ Goto(p, "moved")
  /\ UNCHANGED <<packed, lock, cache, call, real, result, ops, robbed>>

MoveIn(p) ==
  /\ pc[p] = "moved"
  /\ aside' = [aside EXCEPT ![p] = None]
  /\ \/ /\ loose' = [loose EXCEPT ![real[p]] = new[p]]
        /\ lock' = [lock EXCEPT ![real[p]] = Free]
        /\ Leave(p, "True")
     \/ /\ loose' = [loose EXCEPT ![real[p]] = aside[p]]
        /\ Leave(p, "OSError") /\ UNCHANGED lock
  /\ UNCHANGED <<packed, cache, call, real, ops, robbed>>

\* abort(), also after close() has renamed the lock file: what is at its place by now is
\* removed.
Abort(p) ==
  /\ pc[p] = "abort"
  /\ lock' = [lock EXCEPT ![real[p]] = Free]
  /\ robbed' = (lock[real[p]] \notin {p, Free})
  /\ Forget(p, "idle")
  /\ UNCHANGED <<loose, packed, aside, cache, ops>>

-----------------------------------------------------------------------------
\* What is packed stays.
Delete_loose(p) ==
  /\ pc[p] = "delete"
  /\ loose' = [loose EXCEPT ![real[p]] = None]
  /\ IF cache[p] = NotRead \/ loose[real[p]] # None
     THEN Goto(p, "abortPacked") /\ result' = [result EXCEPT ![p] = "True"]
     ELSE Goto(p, "packedLock") /\ UNCHANGED result
  /\ UNCHANGED <<packed, lock, aside, cache, call, real, ops, robbed>>

\* remove_if_equals(): the file is removed, if there is one, and then what is packed,
\* unless the packed references have not been read.
Delete(p) ==
  /\ pc[p] = "delete"
  /\ loose' = [loose EXCEPT ![real[p]] = None]
  /\ IF cache[p] = NotRead THEN Leave(p, "True") ELSE Goto(p, "packedLock") /\ UNCHANGED result
  /\ UNCHANGED <<packed, lock, aside, cache, call, real, ops, robbed>>

\* _remove_packed_ref(): they are locked, and read again.
LockPacked(p) ==
  /\ pc[p] = "packedLock"
  /\ IF lock["packed-refs"] = Free
     THEN lock' = [lock EXCEPT !["packed-refs"] = p] /\ Goto(p, "reread") /\ UNCHANGED result
     ELSE Leave(p, "OSError") /\ UNCHANGED lock
  /\ UNCHANGED <<loose, packed, aside, cache, call, real, ops, robbed>>

\* What was read before is written.
Reread_cached(p) ==
  /\ pc[p] = "reread"
  /\ cache' = [cache EXCEPT ![p][real[p]] = None]
  /\ Goto(p, "renamePacked") /\ UNCHANGED result
  /\ UNCHANGED <<disk, call, real, ops, robbed>>

\* The name is taken out and the others written, which may fail: then abort() removes the
\* lock file, unless it fails itself when it closes the file.
Reread(p) ==
  /\ pc[p] = "reread"
  /\ cache' = [cache EXCEPT ![p] = [packed EXCEPT ![real[p]] = None]]
  /\ \/ /\ packed[real[p]] = None /\ Goto(p, "abortPacked")
        /\ result' = [result EXCEPT ![p] = "True"] /\ UNCHANGED lock
     \/ packed[real[p]] # None /\ Goto(p, "renamePacked") /\ UNCHANGED <<lock, result>>
     \/ /\ packed[real[p]] # None /\ Goto(p, "abortPacked")
        /\ result' = [result EXCEPT ![p] = "IOError"] /\ UNCHANGED lock
     \/ /\ packed[real[p]] # None /\ Leave(p, "IOError")
        /\ lock' = [lock EXCEPT !["packed-refs"] = Left]
  /\ UNCHANGED <<loose, packed, aside, call, real, ops, robbed>>

RenamePacked(p) ==
  /\ pc[p] = "renamePacked"
  /\ packed' = cache[p]
  /\ lock' = [lock EXCEPT !["packed-refs"] = Free]
  /\ Goto(p, "abortPacked") /\ result' = [result EXCEPT ![p] = "True"]
  /\ UNCHANGED <<loose, aside, cache, call, real, ops, robbed>>

AbortPacked(p) ==
  /\ pc[p] = "abortPacked"
  /\ lock' = [lock EXCEPT !["packed-refs"] = Free]
  /\ robbed' = (lock["packed-refs"] \notin {p, Free})
  /\ Goto(p, "abort")
  /\ UNCHANGED <<loose, packed, aside, cache, call, real, result, ops>>

-----------------------------------------------------------------------------
Die(p) ==
  /\ pc[p] \notin {"idle", "dead"}
  /\ Forget(p, "dead")
  /\ UNCHANGED <<disk, cache, ops, robbed>>

\* git pack-refs: what is loose is packed, and then removed.
Pack ==
  /\ Repacks /\ lock["packed-refs"] = Free
  /\ packed' = [b \in Branches |-> Current(b)]
  /\ UNCHANGED <<loose, lock, aside, cache, pc, call, real, result, ops, robbed>>

Prune(b) ==
  /\ Repacks /\ lock[b] = Free /\ loose[b] # None /\ loose[b] = packed[b]
  /\ loose' = [loose EXCEPT ![b] = None]
  /\ UNCHANGED <<packed, lock, aside, cache, pc, call, real, result, ops, robbed>>

Step(p) ==
  \/ Start(p) \/ FollowLoose(p) \/ FollowPacked(p) \/ Lock(p)
  \/ Compare(p) \/ ComparePacked(p) \/ Check(p) \/ Write(p)
  \/ Rename(p) \/ RenameFails(p) \/ MoveAside(p) \/ MoveIn(p) \/ Abort(p)
  \/ Delete(p) \/ LockPacked(p) \/ Reread(p) \/ RenamePacked(p) \/ AbortPacked(p)
  \/ Die(p)

\* abort() after close() may remove a lock file that another process has made since.  What
\* the two owners of one lock do then is not followed any further.
Next == ~robbed /\ ((\E p \in Procs : Step(p)) \/ Pack \/ \E b \in Branches : Prune(b))

Spec == Init /\ [][Next]_vars

-----------------------------------------------------------------------------
TypeOK ==
  /\ DOMAIN loose = Names /\ DOMAIN packed = Branches
  /\ \A n \in Names : loose[n] \in {None} \cup Shas \cup Branches
  /\ \A b \in Branches : packed[b] \in {None} \cup Shas
  /\ lock \in [Files -> Procs \cup {Free, Left}]
  /\ robbed \in BOOLEAN

\* What a process knows of a packed reference is what the file has.
Fresh(p, n) == cache[p] = NotRead \/ n \notin Branches \/ cache[p][n] = packed[n]

\* When the file is about to be renamed, or removed: what set_if_equals() replaces is the old
\* reference, what add_if_new() adds is not there, and what remove_if_equals() removes is the
\* old one: nobody's change is lost, "an atomic compare-and-swap operation", as far as the
\* cache is fresh, and until a lock file was removed that another process had made: Next ends
\* there, and from there on the code does lose changes.
SwapsAreAtomic ==
  \A p \in Procs :
    LET now == Current(real[p]) IN
    Fresh(p, real[p]) =>
      /\ pc[p] = "rename" /\ op[p] = "set" /\ old[p] # None => now = old[p]
      /\ pc[p] = "rename" /\ op[p] = "add" => now = None
      /\ pc[p] = "delete" /\ old[p] # None => now = old[p]

\* A call that is over keeps no lock, whatever it returned or raised, but for what could not
\* be written when the file was closed (Left): there _GitFile.close(), which "will attempt to
\* delete the lockfile", raises before it does, and nobody can lock the file again.  It is so
\* until a lock file was removed that another process had made (Next).
LocksAreReleased ==
  \A f \in Files : lock[f] \in Procs => pc[lock[f]] # "idle"

\* To remove a packed reference keeps all the others, whoever changed them meanwhile: what
\* is about to be written is what the file has of them.
OthersStayPacked ==
  \A p \in Procs : pc[p] = "renamePacked" =>
    \A b \in Branches : b # real[p] => cache[p][b] = packed[b]

\* A reference that was removed is gone for those who read it then.
RemovedIsGone ==
  \A p \in Procs : pc[p] = "abortPacked" /\ result[p] = "True" => Current(real[p]) = None

\* All of these, of every reference and lock.
RefsAreSafe ==
  TypeOK /\ LocksAreReleased /\ SwapsAreAtomic /\ OthersStayPacked /\ RemovedIsGone

\* A lock file is removed by the process that made it only.  It does not hold, and no run
\* checks it: abort() after close() may remove the lock that another process made since.
LocksAreKept == ~robbed
=============================================================================
