--------------------------- MODULE RpcSessionProofs ---------------------------
(***************************************************************************)
(* Machine-checked proofs about RpcSession, for every bound MaxUnclaimed.  *)
(* IInv is inductive: one lemma below for each of its conjuncts, one step  *)
(* per action in each.  The safety properties are read off IInv.           *)
(***************************************************************************)
EXTENDS RpcSession, SequenceTheorems, TLAPS

-----------------------------------------------------------------------------
\* Facts about short sequences.

\* The empty sequence is a sequence over any set.
LEMMA EmptySequence ==
  ASSUME NEW S, NEW s, s = <<>>
  PROVE  s \in Seq(S) /\ Len(s) = 0
  OBVIOUS

\* Appending, and taking a sequence apart, stay within Seq.
LEMMA AppendInSeq ==
  ASSUME NEW S, NEW s \in Seq(S), NEW e \in S
  PROVE  Append(s, e) \in Seq(S)
  OBVIOUS

LEMMA AppendLength ==
  ASSUME NEW S, NEW s \in Seq(S), NEW e
  PROVE  Len(Append(s, e)) = Len(s) + 1
  OBVIOUS

LEMMA TailInSeq ==
  ASSUME NEW S, NEW s \in Seq(S), s # <<>>
  PROVE  Head(s) \in S /\ Tail(s) \in Seq(S)
  OBVIOUS

\* A sequence of length zero is empty.
LEMMA LenZero ==
  ASSUME NEW S, NEW s \in Seq(S), Len(s) <= 0
  PROVE  s = <<>>
  OBVIOUS

\* The parts of sequences of one and two elements.
LEMMA SingletonParts ==
  ASSUME NEW e
  PROVE  /\ <<e>> # <<>> /\ Len(<<e>>) = 1
         /\ Head(<<e>>) = e /\ Tail(<<e>>) = <<>>
  OBVIOUS

LEMMA PairParts ==
  ASSUME NEW e, NEW f
  PROVE  <<e, f>> # <<>> /\ Head(<<e, f>>) = e /\ Tail(<<e, f>>) = <<f>>
  OBVIOUS

LEMMA AppendToSingleton ==
  ASSUME NEW e, NEW f
  PROVE  Append(<<e>>, f) = <<e, f>>
<1>1. Append(<<e>>, f) \in Seq({e, f}) /\ <<e, f>> \in Seq({e, f})
  OBVIOUS
<1>2. Len(Append(<<e>>, f)) = 2 /\ Len(<<e, f>>) = 2
  OBVIOUS
<1>3. \A i \in 1 .. 2 : Append(<<e>>, f)[i] = <<e, f>>[i]
  <2> TAKE i \in 1 .. 2
  <2>1. CASE i = 1
    BY <2>1
  <2>2. CASE i = 2
    BY <2>2
  <2> QED
    BY <2>1, <2>2
<1> QED
  BY <1>1, <1>2, <1>3, SeqEqual

\* The scripts of calls are made of blocking calls.
LEMMA ScriptsAreBlocking ==
  /\ ConfigScript \in Seq(BlockingFns) /\ Tail(ConfigScript) \in Seq(BlockingFns)
  /\ Head(ConfigScript) \in BlockingFns
  /\ \A code \in InitCodes : /\ ConfigScript \o code \in Seq(BlockingFns)
                             /\ Tail(ConfigScript) \o code \in Seq(BlockingFns)
<1>1. /\ ConfigScript \in Seq(BlockingFns) /\ Tail(ConfigScript) \in Seq(BlockingFns)
      /\ Head(ConfigScript) \in BlockingFns
  BY DEF ConfigScript, BlockingFns, ConfigFns
<1>2. \A code \in InitCodes : code \in Seq(BlockingFns)
  BY EmptySequence DEF InitCodes, BlockingFns
<1> QED
  BY <1>1, <1>2, ConcatProperties

-----------------------------------------------------------------------------
\* What IInv says of the socket in the two situations that matter.

\* Between calls, with nothing unclaimed and nothing executing, it is empty.
LEMMA QuietSocket ==
  ASSUME IInv, gui # "wait", ~isExecuting, nUnclaimed = 0
  PROVE  toGui = <<>> /\ toSub = <<>> /\ sub # "exec"
<1>1. /\ Len(toGui) \in Nat /\ Len(toSub) \in Nat
      /\ Len(toGui) + Len(toSub) <= 0
  BY DEF IInv, TypeOK, IdleShape
<1> QED
  BY <1>1, LenZero DEF IInv, TypeOK, IdleShape

\* When a waiting call finds something to receive, that is its own reply, and
\* what is left is nothing or the result of the run it asked for.
LEMMA AnsweredSocket ==
  ASSUME IInv, gui = "wait", toGui # <<>>
  PROVE  /\ toSub = <<>>
         /\ \/ /\ Tail(toGui) = <<>> /\ Head(toGui) \in FirstReplies(call)
               /\ sub \in Alive => (sub = "exec" <=> Head(toGui) = "exec_ok")
            \/ /\ call = "execute" /\ Head(toGui) = "exec_ok" /\ sub # "exec"
               /\ \E r \in RunReplies : Tail(toGui) = <<r>>
<1>1. CASE /\ toSub = <<>>
           /\ \E r \in FirstReplies(call) :
                toGui = <<r>> /\ (sub \in Alive => (sub = "exec" <=> r = "exec_ok"))
  BY <1>1, SingletonParts
<1>2. CASE /\ toSub = <<>> /\ call = "execute" /\ sub # "exec"
           /\ \E r \in RunReplies : toGui = <<"exec_ok", r>>
  BY <1>2, PairParts
<1> QED
  BY <1>1, <1>2 DEF IInv, WaitShape

\* A call that starts to wait, entered from a handler that was not waiting,
\* finds its request alone on the socket.
LEMMA RequestAlone ==
  ASSUME IInv, gui # "wait", ~isExecuting, nUnclaimed = 0,
         call' \in Fns, toGui' = toGui, toSub' = Sent(call'), sub' = sub
  PROVE  WaitShape'
<1>1. toGui = <<>> /\ toSub = <<>> /\ sub # "exec"
  BY QuietSocket
<1> QED
  BY <1>1 DEF WaitShape, Sent, Alive

-----------------------------------------------------------------------------
\* Every step keeps the variables in their types; the bound on the counter needs
\* CallShape (a draining call began below the bound).
LEMMA TypeStep ==
  ASSUME IInv, Next
  PROVE  TypeOK'
<1>1. CASE Query
  <2>1. call' = call \/ call' = "query"
    BY <1>1 DEF Query, EditorCall, Begin, Enter
  <2>2. toSub' = toSub \/ toSub' = Append(toSub, "query")
    BY <1>1 DEF Query, EditorCall, Begin, Enter, Sent
  <2>3. "query" \in Fns
    BY DEF Fns, TimedFns
  <2>4. call' \in Fns /\ toSub' \in Seq(Fns)
    BY <2>1, <2>2, <2>3, AppendInSeq DEF IInv, TypeOK
  <2>5. /\ handler' \in Handlers /\ gui' \in {"loop", "drain", "wait"}
        /\ raised' \in {"none", "ValueError"}
    BY <1>1 DEF Query, EditorCall, UserTurn, Begin, Enter, Handlers
  <2> QED
    BY <1>1, <2>4, <2>5 DEF Query, EditorCall, subVars, IInv, TypeOK
<1>2. CASE PressReturn
  <2>1. call' = call \/ call' = "is_incomplete"
    BY <1>2 DEF PressReturn, EditorCall, Begin, Enter
  <2>2. toSub' = toSub \/ toSub' = Append(toSub, "is_incomplete")
    BY <1>2 DEF PressReturn, EditorCall, Begin, Enter, Sent
  <2>3. "is_incomplete" \in Fns
    BY DEF Fns, TimedFns
  <2>4. call' \in Fns /\ toSub' \in Seq(Fns)
    BY <2>1, <2>2, <2>3, AppendInSeq DEF IInv, TypeOK
  <2>5. /\ handler' \in Handlers /\ gui' \in {"loop", "drain", "wait"}
        /\ raised' \in {"none", "ValueError"}
    BY <1>2 DEF PressReturn, EditorCall, UserTurn, Begin, Enter, Handlers
  <2> QED
    BY <1>2, <2>4, <2>5 DEF PressReturn, EditorCall, subVars, IInv, TypeOK
<1>3. CASE ExecuteSource
  <2>1. call' = call \/ call' = "pause_idle"
    BY <1>3 DEF ExecuteSource, EditorCall, Begin, Enter
  <2>2. toSub' = toSub \/ toSub' = Append(toSub, "pause_idle")
    BY <1>3 DEF ExecuteSource, EditorCall, Begin, Enter, Sent
  <2>3. "pause_idle" \in Fns
    BY DEF Fns, TimedFns
  <2>4. call' \in Fns /\ toSub' \in Seq(Fns)
    BY <2>1, <2>2, <2>3, AppendInSeq DEF IInv, TypeOK
  <2>5. /\ handler' \in Handlers /\ gui' \in {"loop", "drain", "wait"}
        /\ raised' \in {"none", "ValueError"}
    BY <1>3 DEF ExecuteSource, EditorCall, UserTurn, Begin, Enter, Handlers
  <2> QED
    BY <1>3, <2>4, <2>5 DEF ExecuteSource, EditorCall, subVars, IInv, TypeOK
<1>4. CASE ClearReshist
  <2>1. call' = call \/ call' = "clear_reshist"
    BY <1>4 DEF ClearReshist, AssertionFails, Begin, Enter
  <2>2. toSub' = toSub \/ toSub' = Append(toSub, "clear_reshist")
    BY <1>4 DEF ClearReshist, AssertionFails, Begin, Enter, Sent
  <2>3. "clear_reshist" \in Fns
    BY DEF Fns, TimedFns
  <2>4. call' \in Fns /\ toSub' \in Seq(Fns)
    BY <2>1, <2>2, <2>3, AppendInSeq DEF IInv, TypeOK
  <2>5. /\ handler' \in Handlers /\ gui' \in {"loop", "drain", "wait"}
        /\ raised' \in {"none", "AssertionError", "ValueError"}
    BY <1>4 DEF ClearReshist, AssertionFails, UserTurn, Begin, Enter,
           Handlers
  <2> QED
    BY <1>4, <2>4, <2>5 DEF ClearReshist, AssertionFails, subVars, IInv, TypeOK
<1>5. CASE Preferences
  <2>1. toSub' \in Seq(Fns)
    <3>1. toSub' = toSub \/ toSub' = Append(toSub, Head(ConfigScript))
      BY <1>5 DEF Preferences, AssertionFails, Begin, Enter, Sent
    <3>2. Head(ConfigScript) \in Fns
      BY ScriptsAreBlocking DEF Fns
    <3> QED
      BY <3>1, <3>2, AppendInSeq DEF IInv, TypeOK
  <2>2. todo' \in Seq(BlockingFns)
    <3>1. todo' = <<>> \/ todo' = Tail(ConfigScript)
      BY <1>5 DEF Preferences
    <3> QED
      BY <3>1, EmptySequence, ScriptsAreBlocking
  <2>3. /\ call' \in Fns /\ handler' \in Handlers
        /\ gui' \in {"loop", "drain", "wait"}
        /\ raised' \in {"none", "AssertionError", "ValueError"}
    BY <1>5, ScriptsAreBlocking
       DEF Preferences, UserTurn, AssertionFails, Begin, Enter, Handlers, Fns,
           IInv, TypeOK
  <2> QED
    BY <1>5, <2>1, <2>2, <2>3 DEF Preferences, subVars, IInv, TypeOK
<1>6. CASE RestartSubprocess
  <2>1. toSub' \in Seq(Fns)
    BY <1>6, EmptySequence DEF RestartSubprocess, Kill, IInv, TypeOK
  <2>2. /\ sub' \in Alive \cup Dying \cup Exited
        /\ raised' \in {"none", "OSError", "ValueError"}
    BY <1>6 DEF RestartSubprocess, Kill, Dying, Exited, IInv, TypeOK
  <2> QED
    BY <1>6, <2>1, <2>2 DEF RestartSubprocess, IInv, TypeOK
<1>7. CASE Quit
  <2>1. toSub' \in Seq(Fns)
    BY <1>7, EmptySequence DEF Quit, Kill, IInv, TypeOK
  <2>2. /\ sub' \in Alive \cup Dying \cup Exited
        /\ raised' \in {"none", "OSError", "ValueError"}
    BY <1>7 DEF Quit, Kill, Dying, Exited, IInv, TypeOK
  <2>3. gui' \in {"quit", "loop"} /\ isTerminating' \in BOOLEAN
    BY <1>7 DEF Quit
  <2> QED
    BY <1>7, <2>1, <2>2, <2>3 DEF Quit, IInv, TypeOK
<1>8. CASE CloseDialog
  BY <1>8, MaxUnclaimedAssumption DEF CloseDialog, IInv, TypeOK, subVars
<1>9. CASE DrainRecv
  BY <1>9, MaxUnclaimedAssumption DEF DrainRecv, IInv, TypeOK, guiVars,
     subVars
<1>10. CASE DrainTimeout
  <2>1. nUnclaimed' \in 0 .. MaxUnclaimed + 1
    BY <1>10, MaxUnclaimedAssumption
       DEF DrainTimeout, TimedOut, IInv, TypeOK, CallShape
  <2>2. toSub' \in Seq(Fns)
    BY <1>10, AppendInSeq DEF DrainTimeout, TimedOut, Sent, Fns, IInv, TypeOK
  <2> QED
    BY <1>10, <2>1, <2>2 DEF DrainTimeout, TimedOut, Finish, subVars, IInv, TypeOK
<1>11. CASE WaitTimeout
  <2>1. nUnclaimed' \in 0 .. MaxUnclaimed + 1
    BY <1>11, MaxUnclaimedAssumption
       DEF WaitTimeout, TimedOut, IInv, TypeOK, CallShape
  <2>2. toSub' \in Seq(Fns)
    BY <1>11, AppendInSeq DEF WaitTimeout, TimedOut, Sent, Fns, IInv, TypeOK
  <2> QED
    BY <1>11, <2>1, <2>2 DEF WaitTimeout, TimedOut, Finish, subVars, IInv, TypeOK
<1>12. CASE CallEof
  BY <1>12, MaxUnclaimedAssumption DEF CallEof, IInv, TypeOK, Abort, AtEof,
     subVars
<1>13. CASE QueryAnswered
  BY <1>13, MaxUnclaimedAssumption DEF QueryAnswered, IInv, TypeOK, Finish,
     Received, subVars
<1>14. CASE LineIncomplete
  BY <1>14, MaxUnclaimedAssumption DEF LineIncomplete, IInv, TypeOK, Finish,
     Received, subVars
<1>15. CASE LineComplete
  BY <1>15, MaxUnclaimedAssumption DEF LineComplete, IInv, TypeOK, CallShape,
     DeadShape, WaitShape, Enter, Received, Sent, subVars, Alive, BlockingFns,
     Dying, Exited, Fns, Handlers, Replies, ConfigFns, TimedFns, FirstReplies,
     RunReplies
<1>16. CASE IdleIsPaused
  BY <1>16, MaxUnclaimedAssumption DEF IdleIsPaused, IInv, TypeOK, CallShape,
     DeadShape, WaitShape, Enter, Received, Sent, subVars, Alive, BlockingFns,
     Dying, Exited, Fns, Handlers, Replies, ConfigFns, TimedFns, FirstReplies,
     RunReplies
<1>17. CASE Configured
  <2>1. /\ todo' \in Seq(BlockingFns)
        /\ call' = call \/ call' \in BlockingFns
    BY <1>17, TailInSeq DEF Configured, Finish, Enter, IInv, TypeOK
  <2>2. toSub' = toSub \/ toSub' = Append(toSub, call')
    BY <1>17 DEF Configured, Enter, Sent
  <2>3. call' \in Fns /\ toSub' \in Seq(Fns)
    BY <2>1, <2>2, AppendInSeq DEF Fns, IInv, TypeOK
  <2>4. toGui' \in Seq(Replies) /\ gui' \in {"loop", "drain", "wait"}
    BY <1>17, TailInSeq DEF Configured, Received, Finish, Enter, IInv, TypeOK
  <2> QED
    BY <1>17, <2>1, <2>3, <2>4
       DEF Configured, Received, Finish, subVars, IInv, TypeOK
<1>18. CASE CodeAccepted
  BY <1>18, MaxUnclaimedAssumption DEF CodeAccepted, IInv, TypeOK, Finish,
     Received, subVars
<1>19. CASE CodeRejected
  BY <1>19, MaxUnclaimedAssumption DEF CodeRejected, IInv, TypeOK, Finish,
     Received, subVars
<1>20. CASE ExecuteFailed
  BY <1>20, MaxUnclaimedAssumption DEF ExecuteFailed, IInv, TypeOK, Abort,
     Received, subVars
<1>21. CASE PollExitQuitting
  <2>1. popen' \in BOOLEAN
    BY <1>21, Zenon DEF PollExitQuitting
  <2>2. toSub' \in Seq(Fns) /\ toGui' \in Seq(Replies)
    BY <1>21, EmptySequence DEF PollExitQuitting
  <2> QED
    BY <1>21, <2>1, <2>2 DEF PollExitQuitting, subVars, IInv, TypeOK
<1>22. CASE PollExitStartFails
  <2>1. popen' \in BOOLEAN /\ poller' \in BOOLEAN
    BY <1>22, Zenon DEF PollExitStartFails
  <2>2. toSub' \in Seq(Fns) /\ toGui' \in Seq(Replies)
    BY <1>22, EmptySequence DEF PollExitStartFails
  <2>3. nUnclaimed' \in 0 .. MaxUnclaimed + 1
    BY <1>22, MaxUnclaimedAssumption DEF PollExitStartFails
  <2> QED
    BY <1>22, <2>1, <2>2, <2>3 DEF PollExitStartFails, subVars, IInv, TypeOK
<1>23. CASE PollExitRestarts
  <2>1. isExecuting' \in BOOLEAN /\ idlePaused' \in BOOLEAN
    BY <1>23, Zenon DEF PollExitRestarts
  <2>2. call' \in Fns /\ toSub' \in Seq(Fns) /\ toGui' \in Seq(Replies)
    BY <1>23, EmptySequence, ScriptsAreBlocking DEF PollExitRestarts, Fns
  <2>3. todo' \in Seq(BlockingFns)
    BY <1>23, ScriptsAreBlocking DEF PollExitRestarts
  <2>4. nUnclaimed' \in 0 .. MaxUnclaimed + 1
    BY <1>23, MaxUnclaimedAssumption DEF PollExitRestarts
  <2>5. sub' \in Alive /\ handler' \in Handlers /\ gui' = "wait"
    BY <1>23 DEF PollExitRestarts, Alive, Handlers
  <2> QED
    BY <1>23, <2>1, <2>2, <2>3, <2>4, <2>5 DEF PollExitRestarts, IInv, TypeOK
<1>24. CASE PollAlive
  BY <1>24, MaxUnclaimedAssumption DEF PollAlive, IInv, TypeOK, PollerTurn,
     subVars
<1>25. CASE PollNothing
  BY <1>25, MaxUnclaimedAssumption DEF PollNothing, IInv, TypeOK, subVars
<1>26. CASE PollEof
  <2>1. poller' \in BOOLEAN
    BY <1>26, Zenon DEF PollEof
  <2> QED
    BY <1>26, <2>1 DEF PollEof, subVars, IInv, TypeOK
<1>27. CASE PollUnclaimed
  BY <1>27, MaxUnclaimedAssumption DEF PollUnclaimed, IInv, TypeOK, subVars
<1>28. CASE PollResult
  <2>1. poller' \in BOOLEAN /\ isExecuting' \in BOOLEAN
    BY <1>28, Zenon DEF PollResult, IInv, TypeOK
  <2>2. raised' = raised \/ raised' = "TypeError"
    BY <1>28, Zenon DEF PollResult
  <2>3. toGui' \in Seq(Replies)
    BY <1>28, TailInSeq DEF PollResult, IInv, TypeOK
  <2> QED
    BY <1>28, <2>1, <2>2, <2>3 DEF PollResult, subVars, IInv, TypeOK
<1>29. CASE RunIdleJobs
  BY <1>29, MaxUnclaimedAssumption DEF RunIdleJobs, IInv, TypeOK, guiVars,
     Alive, Dying, Exited
<1>30. CASE IdleJobsReturn
  BY <1>30, MaxUnclaimedAssumption DEF IdleJobsReturn, IInv, TypeOK, guiVars,
     Alive, Dying, Exited
<1>31. CASE Handle
  <2>1. Head(toSub) \in Fns /\ toSub' \in Seq(Fns)
    BY <1>31, TailInSeq DEF Handle, IInv, TypeOK
  <2>2. PICK r \in FirstReplies(Head(toSub)) :
          /\ toGui' = Append(toGui, r)
          /\ sub' = IF r = "exec_ok" THEN "exec" ELSE "top"
    BY <1>31 DEF Handle
  <2>3. toGui' \in Seq(Replies) /\ sub' \in Alive
    BY <2>1, <2>2, AppendInSeq DEF Replies, FirstReplies, Alive, IInv, TypeOK
  <2>4. idlePaused' \in BOOLEAN
    BY <1>31 DEF Handle, idlePausedAfter, IInv, TypeOK
  <2> QED
    BY <1>31, <2>1, <2>3, <2>4 DEF Handle, guiVars, IInv, TypeOK
<1>32. CASE RunEnds
  <2>1. PICK r \in RunReplies : toGui' = Append(toGui, r)
    BY <1>32 DEF RunEnds
  <2>2. r \in Replies
    BY <2>1 DEF Replies, RunReplies
  <2>3. toGui' \in Seq(Replies)
    BY <2>1, <2>2, AppendInSeq DEF IInv, TypeOK
  <2> QED
    BY <1>32, <2>3 DEF RunEnds, guiVars, Alive, IInv, TypeOK
<1>33. CASE Dies
  <2>1. toSub' \in Seq(Fns) /\ toGui' \in Seq(Replies)
    BY <1>33, EmptySequence DEF Dies, IInv, TypeOK
  <2> QED
    BY <1>33, <2>1 DEF Dies, Dying, guiVars, IInv, TypeOK
<1>34. CASE Exits
  BY <1>34, MaxUnclaimedAssumption DEF Exits, IInv, TypeOK, guiVars, Alive,
     Dying, Exited
<1> QED
  BY <1>1, <1>2, <1>3, <1>4, <1>5, <1>6, <1>7, <1>8, <1>9, <1>10, <1>11,
     <1>12, <1>13, <1>14, <1>15, <1>16, <1>17, <1>18, <1>19, <1>20, <1>21,
     <1>22, <1>23, <1>24, <1>25, <1>26, <1>27, <1>28, <1>29, <1>30, <1>31,
     <1>32, <1>33, <1>34 DEF Next, UserStep, CallStep, PollStep, SubStep,
     ProcessStep

\* Every step keeps a call in progress tied to a subprocess, to a GUI that is not
\* executing, and to the state of the counter.
LEMMA CallShapeStep ==
  ASSUME IInv, Next
  PROVE  CallShape'
<1>1. CASE Query
  BY <1>1, MaxUnclaimedAssumption DEF Query, IInv, TypeOK, CallShape,
     EditorCall, Begin, UserTurn, subVars, Enter, Sent
<1>2. CASE PressReturn
  BY <1>2, MaxUnclaimedAssumption DEF PressReturn, IInv, TypeOK, CallShape,
     EditorCall, Begin, UserTurn, subVars, Enter, Sent
<1>3. CASE ExecuteSource
  BY <1>3, MaxUnclaimedAssumption DEF ExecuteSource, IInv, TypeOK, CallShape,
     EditorCall, Begin, UserTurn, subVars, Enter, Sent
<1>4. CASE ClearReshist
  BY <1>4, MaxUnclaimedAssumption DEF ClearReshist, IInv, TypeOK, CallShape,
     AssertionFails, Begin, UserTurn, subVars, Enter, Sent
<1>5. CASE Preferences
  BY <1>5, MaxUnclaimedAssumption DEF Preferences, IInv, TypeOK, CallShape,
     AssertionFails, Begin, ConfigScript, UserTurn, subVars, Enter, Sent,
     Alive, TimedFns
<1>6. CASE RestartSubprocess
  BY <1>6, MaxUnclaimedAssumption DEF RestartSubprocess, IInv, CallShape,
     Kill, UserTurn
<1>7. CASE Quit
  BY <1>7, MaxUnclaimedAssumption DEF Quit, IInv, CallShape, Kill, UserTurn
<1>8. CASE CloseDialog
  BY <1>8, MaxUnclaimedAssumption DEF CloseDialog, IInv, CallShape, subVars
<1>9. CASE DrainRecv
  BY <1>9, MaxUnclaimedAssumption DEF DrainRecv, IInv, CallShape, guiVars,
     subVars
<1>10. CASE DrainTimeout
  BY <1>10, MaxUnclaimedAssumption DEF DrainTimeout, IInv, CallShape,
     NothingToRead, TimedOut, subVars, Finish, Sent
<1>11. CASE WaitTimeout
  BY <1>11, MaxUnclaimedAssumption DEF WaitTimeout, IInv, CallShape,
     NothingToRead, TimedOut, subVars, Finish, Sent
<1>12. CASE CallEof
  BY <1>12, MaxUnclaimedAssumption DEF CallEof, IInv, CallShape, Abort, AtEof,
     subVars
<1>13. CASE QueryAnswered
  BY <1>13, MaxUnclaimedAssumption DEF QueryAnswered, IInv, CallShape, Finish,
     Received, subVars
<1>14. CASE LineIncomplete
  BY <1>14, MaxUnclaimedAssumption DEF LineIncomplete, IInv, CallShape,
     Finish, Received, subVars
<1>15. CASE LineComplete
  BY <1>15, MaxUnclaimedAssumption DEF LineComplete, IInv, CallShape, Enter,
     Received, Sent, subVars
<1>16. CASE IdleIsPaused
  BY <1>16, MaxUnclaimedAssumption DEF IdleIsPaused, IInv, CallShape, Enter,
     Received, Sent, subVars
<1>17. CASE Configured
  BY <1>17, MaxUnclaimedAssumption DEF Configured, IInv, CallShape, Enter,
     Finish, Received, Sent, subVars
<1>18. CASE CodeAccepted
  BY <1>18, MaxUnclaimedAssumption DEF CodeAccepted, IInv, CallShape, Finish,
     Received, subVars
<1>19. CASE CodeRejected
  BY <1>19, MaxUnclaimedAssumption DEF CodeRejected, IInv, CallShape, Finish,
     Received, subVars
<1>20. CASE ExecuteFailed
  BY <1>20, MaxUnclaimedAssumption DEF ExecuteFailed, IInv, CallShape, Abort,
     Received, subVars
<1>21. CASE PollExitQuitting
  BY <1>21, MaxUnclaimedAssumption DEF PollExitQuitting, IInv, CallShape,
     PollerTurn, subVars
<1>22. CASE PollExitStartFails
  BY <1>22, MaxUnclaimedAssumption DEF PollExitStartFails, IInv, CallShape,
     PollerTurn, subVars
<1>23. CASE PollExitRestarts
  BY <1>23, MaxUnclaimedAssumption DEF PollExitRestarts, IInv, CallShape,
     PollerTurn
<1>24. CASE PollAlive
  BY <1>24, MaxUnclaimedAssumption DEF PollAlive, IInv, CallShape, PollerTurn,
     subVars
<1>25. CASE PollNothing
  BY <1>25, MaxUnclaimedAssumption DEF PollNothing, IInv, CallShape, subVars
<1>26. CASE PollEof
  BY <1>26, MaxUnclaimedAssumption DEF PollEof, IInv, CallShape, subVars
<1>27. CASE PollUnclaimed
  BY <1>27, MaxUnclaimedAssumption DEF PollUnclaimed, IInv, CallShape, subVars
<1>28. CASE PollResult
  BY <1>28, MaxUnclaimedAssumption DEF PollResult, IInv, CallShape, subVars
<1>29. CASE RunIdleJobs
  BY <1>29, MaxUnclaimedAssumption DEF RunIdleJobs, IInv, CallShape, guiVars
<1>30. CASE IdleJobsReturn
  BY <1>30, MaxUnclaimedAssumption DEF IdleJobsReturn, IInv, CallShape,
     guiVars
<1>31. CASE Handle
  BY <1>31, MaxUnclaimedAssumption DEF Handle, IInv, CallShape, guiVars,
     idlePausedAfter
<1>32. CASE RunEnds
  BY <1>32, MaxUnclaimedAssumption DEF RunEnds, IInv, CallShape, guiVars
<1>33. CASE Dies
  BY <1>33, MaxUnclaimedAssumption DEF Dies, IInv, CallShape, guiVars
<1>34. CASE Exits
  BY <1>34, MaxUnclaimedAssumption DEF Exits, IInv, CallShape, guiVars
<1> QED
  BY <1>1, <1>2, <1>3, <1>4, <1>5, <1>6, <1>7, <1>8, <1>9, <1>10, <1>11,
     <1>12, <1>13, <1>14, <1>15, <1>16, <1>17, <1>18, <1>19, <1>20, <1>21,
     <1>22, <1>23, <1>24, <1>25, <1>26, <1>27, <1>28, <1>29, <1>30, <1>31,
     <1>32, <1>33, <1>34 DEF Next, UserStep, CallStep, PollStep, SubStep,
     ProcessStep

\* Every step keeps a dead process's request queue empty.
LEMMA DeadShapeStep ==
  ASSUME IInv, Next
  PROVE  DeadShape'
<1>1. CASE Query
  BY <1>1 DEF Query, IInv, DeadShape, EditorCall, Begin, UserTurn, subVars,
     Enter, Sent
<1>2. CASE PressReturn
  BY <1>2 DEF PressReturn, IInv, DeadShape, EditorCall, Begin, UserTurn,
     subVars, Enter, Sent
<1>3. CASE ExecuteSource
  BY <1>3 DEF ExecuteSource, IInv, DeadShape, EditorCall, Begin, UserTurn,
     subVars, Enter, Sent
<1>4. CASE ClearReshist
  BY <1>4 DEF ClearReshist, IInv, DeadShape, AssertionFails, Begin, UserTurn,
     subVars, Enter, Sent
<1>5. CASE Preferences
  BY <1>5 DEF Preferences, IInv, DeadShape, AssertionFails, Begin, UserTurn,
     subVars, Enter, Sent
<1>6. CASE RestartSubprocess
  BY <1>6 DEF RestartSubprocess, IInv, DeadShape, Kill, UserTurn
<1>7. CASE Quit
  BY <1>7 DEF Quit, IInv, DeadShape, Kill, UserTurn
<1>8. CASE CloseDialog
  BY <1>8 DEF CloseDialog, IInv, DeadShape, subVars
<1>9. CASE DrainRecv
  BY <1>9 DEF DrainRecv, IInv, DeadShape, guiVars, subVars
<1>10. CASE DrainTimeout
  BY <1>10 DEF DrainTimeout, IInv, DeadShape, NothingToRead, TimedOut,
     subVars, Finish, Sent
<1>11. CASE WaitTimeout
  BY <1>11 DEF WaitTimeout, IInv, DeadShape, NothingToRead, TimedOut, subVars,
     Finish, Sent
<1>12. CASE CallEof
  BY <1>12 DEF CallEof, IInv, DeadShape, Abort, AtEof, subVars
<1>13. CASE QueryAnswered
  BY <1>13 DEF QueryAnswered, IInv, DeadShape, Finish, Received, subVars
<1>14. CASE LineIncomplete
  BY <1>14 DEF LineIncomplete, IInv, DeadShape, Finish, Received, subVars
<1>15. CASE LineComplete
  BY <1>15 DEF LineComplete, IInv, DeadShape, Enter, Received, Sent, subVars
<1>16. CASE IdleIsPaused
  BY <1>16 DEF IdleIsPaused, IInv, DeadShape, Enter, Received, Sent, subVars
<1>17. CASE Configured
  BY <1>17 DEF Configured, IInv, DeadShape, Enter, Finish, Received, Sent,
     subVars
<1>18. CASE CodeAccepted
  BY <1>18 DEF CodeAccepted, IInv, DeadShape, Finish, Received, subVars
<1>19. CASE CodeRejected
  BY <1>19 DEF CodeRejected, IInv, DeadShape, Finish, Received, subVars
<1>20. CASE ExecuteFailed
  BY <1>20 DEF ExecuteFailed, IInv, DeadShape, Abort, Received, subVars
<1>21. CASE PollExitQuitting
  BY <1>21 DEF PollExitQuitting, IInv, DeadShape, PollerTurn, subVars
<1>22. CASE PollExitStartFails
  BY <1>22 DEF PollExitStartFails, IInv, DeadShape, PollerTurn, subVars
<1>23. CASE PollExitRestarts
  BY <1>23 DEF PollExitRestarts, IInv, TypeOK, DeadShape, Exited, PollerTurn,
     Alive
<1>24. CASE PollAlive
  BY <1>24 DEF PollAlive, IInv, DeadShape, PollerTurn, subVars
<1>25. CASE PollNothing
  BY <1>25 DEF PollNothing, IInv, DeadShape, subVars
<1>26. CASE PollEof
  BY <1>26 DEF PollEof, IInv, DeadShape, subVars
<1>27. CASE PollUnclaimed
  BY <1>27 DEF PollUnclaimed, IInv, DeadShape, subVars
<1>28. CASE PollResult
  BY <1>28 DEF PollResult, IInv, DeadShape, subVars
<1>29. CASE RunIdleJobs
  BY <1>29 DEF RunIdleJobs, IInv, TypeOK, DeadShape, guiVars, Alive, Exited
<1>30. CASE IdleJobsReturn
  BY <1>30 DEF IdleJobsReturn, IInv, TypeOK, DeadShape, guiVars, Alive, Exited
<1>31. CASE Handle
  BY <1>31 DEF Handle, IInv, TypeOK, DeadShape, guiVars, idlePausedAfter,
     Alive, Exited
<1>32. CASE RunEnds
  BY <1>32 DEF RunEnds, IInv, TypeOK, DeadShape, guiVars, Alive, Exited
<1>33. CASE Dies
  BY <1>33 DEF Dies, IInv, TypeOK, DeadShape, Alive, guiVars, Exited
<1>34. CASE Exits
  BY <1>34 DEF Exits, IInv, TypeOK, DeadShape, guiVars, Alive, Exited
<1> QED
  BY <1>1, <1>2, <1>3, <1>4, <1>5, <1>6, <1>7, <1>8, <1>9, <1>10, <1>11,
     <1>12, <1>13, <1>14, <1>15, <1>16, <1>17, <1>18, <1>19, <1>20, <1>21,
     <1>22, <1>23, <1>24, <1>25, <1>26, <1>27, <1>28, <1>29, <1>30, <1>31,
     <1>32, <1>33, <1>34 DEF Next, UserStep, CallStep, PollStep, SubStep,
     ProcessStep

\* Every step keeps a waiting call at one of its three stages; it is entered
\* only from a quiet socket.
LEMMA WaitShapeStep ==
  ASSUME IInv, Next
  PROVE  WaitShape'
<1>1. CASE Query
  <2> SUFFICES ASSUME gui' = "wait" PROVE WaitShape'
    BY DEF WaitShape
  <2> QED
    BY <1>1, RequestAlone
       DEF Query, EditorCall, UserTurn, Begin, Enter, subVars, Fns, TimedFns
<1>2. CASE PressReturn
  <2> SUFFICES ASSUME gui' = "wait" PROVE WaitShape'
    BY DEF WaitShape
  <2> QED
    BY <1>2, RequestAlone
       DEF PressReturn, EditorCall, UserTurn, Begin, Enter, subVars, Fns, TimedFns
<1>3. CASE ExecuteSource
  <2> SUFFICES ASSUME gui' = "wait" PROVE WaitShape'
    BY DEF WaitShape
  <2> QED
    BY <1>3, RequestAlone
       DEF ExecuteSource, EditorCall, UserTurn, Begin, Enter, subVars, Fns, TimedFns
<1>4. CASE ClearReshist
  <2> SUFFICES ASSUME gui' = "wait" PROVE WaitShape'
    BY DEF WaitShape
  <2> QED
    BY <1>4, RequestAlone
       DEF ClearReshist, AssertionFails, UserTurn, Begin, Enter, subVars, Fns,
           TimedFns
<1>5. CASE Preferences
  <2> SUFFICES ASSUME gui' = "wait" PROVE WaitShape'
    BY DEF WaitShape
  <2> QED
    BY <1>5, RequestAlone, ScriptsAreBlocking
       DEF Preferences, AssertionFails, UserTurn, Begin, Enter, subVars, Fns
<1>6. CASE RestartSubprocess
  BY <1>6 DEF RestartSubprocess, IInv, WaitShape, Kill, UserTurn
<1>7. CASE Quit
  BY <1>7 DEF Quit, IInv, WaitShape, Kill, UserTurn
<1>8. CASE CloseDialog
  BY <1>8 DEF CloseDialog, IInv, WaitShape, subVars
<1>9. CASE DrainRecv
  BY <1>9 DEF DrainRecv, IInv, WaitShape, guiVars, subVars
<1>10. CASE DrainTimeout
  BY <1>10 DEF DrainTimeout, IInv, WaitShape, NothingToRead, TimedOut,
     subVars, Finish, Sent
<1>11. CASE WaitTimeout
  BY <1>11 DEF WaitTimeout, IInv, WaitShape, NothingToRead, TimedOut, subVars,
     Finish, Sent
<1>12. CASE CallEof
  BY <1>12 DEF CallEof, IInv, WaitShape, Abort, AtEof, subVars
<1>13. CASE QueryAnswered
  BY <1>13 DEF QueryAnswered, IInv, WaitShape, Finish, Received, subVars
<1>14. CASE LineIncomplete
  BY <1>14 DEF LineIncomplete, IInv, WaitShape, Finish, Received, subVars
<1>15. CASE LineComplete
  BY <1>15 DEF LineComplete, IInv, TypeOK, WaitShape, Enter, Received, Sent,
     subVars, Alive, FirstReplies, RunReplies
<1>16. CASE IdleIsPaused
  BY <1>16 DEF IdleIsPaused, IInv, TypeOK, WaitShape, Enter, Received, Sent,
     subVars, Alive, FirstReplies, RunReplies
<1>17. CASE Configured
  BY <1>17 DEF Configured, IInv, TypeOK, WaitShape, ConfigFns, Enter, Finish,
     Received, Sent, subVars, Alive, FirstReplies, RunReplies
<1>18. CASE CodeAccepted
  BY <1>18 DEF CodeAccepted, IInv, WaitShape, Finish, Received, subVars
<1>19. CASE CodeRejected
  BY <1>19 DEF CodeRejected, IInv, WaitShape, Finish, Received, subVars
<1>20. CASE ExecuteFailed
  BY <1>20 DEF ExecuteFailed, IInv, WaitShape, Abort, Received, subVars
<1>21. CASE PollExitQuitting
  BY <1>21 DEF PollExitQuitting, IInv, WaitShape, PollerTurn, subVars
<1>22. CASE PollExitStartFails
  BY <1>22 DEF PollExitStartFails, IInv, WaitShape, PollerTurn, subVars
<1>23. CASE PollExitRestarts
  BY <1>23 DEF PollExitRestarts, IInv, WaitShape, PollerTurn
<1>24. CASE PollAlive
  BY <1>24 DEF PollAlive, IInv, WaitShape, PollerTurn, subVars
<1>25. CASE PollNothing
  BY <1>25 DEF PollNothing, IInv, WaitShape, subVars
<1>26. CASE PollEof
  BY <1>26 DEF PollEof, IInv, WaitShape, subVars
<1>27. CASE PollUnclaimed
  BY <1>27 DEF PollUnclaimed, IInv, WaitShape, subVars
<1>28. CASE PollResult
  BY <1>28 DEF PollResult, IInv, WaitShape, subVars
<1>29. CASE RunIdleJobs
  BY <1>29 DEF RunIdleJobs, IInv, TypeOK, WaitShape, guiVars, Alive
<1>30. CASE IdleJobsReturn
  BY <1>30 DEF IdleJobsReturn, IInv, TypeOK, WaitShape, guiVars, Alive
<1>31. CASE Handle
  <2> SUFFICES ASSUME gui = "wait" PROVE WaitShape'
    BY <1>31 DEF WaitShape, Handle, guiVars
  <2>1. toSub = <<call>> /\ toGui = <<>> /\ call' = call
    BY <1>31, AnsweredSocket DEF IInv, WaitShape, Handle, Alive, guiVars
  <2>2. toSub' = <<>> /\ Head(toSub) = call
    BY <1>31, <2>1, SingletonParts DEF Handle
  <2>3. PICK r \in FirstReplies(call) :
          toGui' = <<r>> /\ sub' = IF r = "exec_ok" THEN "exec" ELSE "top"
    BY <1>31, <2>1, <2>2 DEF Handle
  <2> QED
    BY <2>1, <2>2, <2>3 DEF WaitShape
<1>32. CASE RunEnds
  <2> SUFFICES ASSUME gui = "wait" PROVE WaitShape'
    BY <1>32 DEF WaitShape, RunEnds, guiVars
  <2>1. toSub = <<>> /\ toSub' = <<>> /\ call' = call /\ toGui # <<>>
    BY <1>32, AnsweredSocket DEF IInv, WaitShape, RunEnds, Alive, guiVars
  <2>2. toGui = <<"exec_ok">> /\ call = "execute"
    BY <1>32, <2>1 DEF IInv, WaitShape, RunEnds, Alive, FirstReplies, TypeOK, Fns,
                   BlockingFns, ConfigFns, TimedFns
  <2>3. PICK r \in RunReplies : toGui' = <<"exec_ok", r>>
    BY <1>32, <2>2, AppendToSingleton DEF RunEnds
  <2> QED
    BY <1>32, <2>1, <2>2, <2>3 DEF WaitShape, RunEnds
<1>33. CASE Dies
  BY <1>33 DEF Dies, IInv, TypeOK, WaitShape, Alive, guiVars
<1>34. CASE Exits
  BY <1>34 DEF Exits, IInv, TypeOK, WaitShape, guiVars, Alive
<1> QED
  BY <1>1, <1>2, <1>3, <1>4, <1>5, <1>6, <1>7, <1>8, <1>9, <1>10, <1>11,
     <1>12, <1>13, <1>14, <1>15, <1>16, <1>17, <1>18, <1>19, <1>20, <1>21,
     <1>22, <1>23, <1>24, <1>25, <1>26, <1>27, <1>28, <1>29, <1>30, <1>31,
     <1>32, <1>33, <1>34 DEF Next, UserStep, CallStep, PollStep, SubStep,
     ProcessStep

\* Every step keeps the socket of an executing session exclusive.
LEMMA ExecShapeStep ==
  ASSUME IInv, Next
  PROVE  ExecShape'
<1>1. CASE Query
  BY <1>1 DEF Query, IInv, ExecShape, EditorCall, Begin, UserTurn, subVars,
     Enter, Sent
<1>2. CASE PressReturn
  BY <1>2 DEF PressReturn, IInv, ExecShape, EditorCall, Begin, UserTurn,
     subVars, Enter, Sent
<1>3. CASE ExecuteSource
  BY <1>3 DEF ExecuteSource, IInv, ExecShape, EditorCall, Begin, UserTurn,
     subVars, Enter, Sent
<1>4. CASE ClearReshist
  BY <1>4 DEF ClearReshist, IInv, ExecShape, AssertionFails, Begin, UserTurn,
     subVars, Enter, Sent
<1>5. CASE Preferences
  BY <1>5 DEF Preferences, IInv, ExecShape, AssertionFails, Begin, UserTurn,
     subVars, Enter, Sent
<1>6. CASE RestartSubprocess
  BY <1>6 DEF RestartSubprocess, IInv, ExecShape, Kill, UserTurn
<1>7. CASE Quit
  BY <1>7 DEF Quit, IInv, ExecShape, Kill, UserTurn
<1>8. CASE CloseDialog
  BY <1>8 DEF CloseDialog, IInv, ExecShape, subVars
<1>9. CASE DrainRecv
  BY <1>9 DEF DrainRecv, IInv, ExecShape, guiVars, subVars
<1>10. CASE DrainTimeout
  BY <1>10, MaxUnclaimedAssumption DEF DrainTimeout, IInv, ExecShape,
     CallShape, NothingToRead, TimedOut, subVars, Finish, Sent
<1>11. CASE WaitTimeout
  BY <1>11, MaxUnclaimedAssumption DEF WaitTimeout, IInv, ExecShape,
     CallShape, NothingToRead, TimedOut, subVars, Finish, Sent
<1>12. CASE CallEof
  BY <1>12 DEF CallEof, IInv, ExecShape, Abort, AtEof, subVars
<1>13. CASE QueryAnswered
  BY <1>13 DEF QueryAnswered, IInv, TypeOK, ExecShape, Finish, Received,
     subVars
<1>14. CASE LineIncomplete
  BY <1>14 DEF LineIncomplete, Received, IInv, CallShape, ExecShape
<1>15. CASE LineComplete
  BY <1>15, MaxUnclaimedAssumption DEF LineComplete, IInv, ExecShape,
     CallShape, Enter, Received, Sent, subVars
<1>16. CASE IdleIsPaused
  BY <1>16, MaxUnclaimedAssumption DEF IdleIsPaused, IInv, ExecShape,
     CallShape, Enter, Received, Sent, subVars
<1>17. CASE Configured
  BY <1>17, MaxUnclaimedAssumption DEF Configured, IInv, ExecShape, CallShape,
     Enter, Finish, Received, Sent, subVars
<1>18. CASE CodeAccepted
  <2>1. nUnclaimed' = 0 /\ toSub' = <<>> /\ sub' = sub /\ toGui' = Tail(toGui)
    BY <1>18, AnsweredSocket
       DEF CodeAccepted, Received, Finish, subVars, IInv, CallShape
  <2>2. \/ Tail(toGui) = <<>>
        \/ sub # "exec" /\ \E r \in RunReplies : Tail(toGui) = <<r>>
    BY <1>18, AnsweredSocket DEF CodeAccepted, Received
  <2> QED
    BY <2>1, <2>2 DEF ExecShape
<1>19. CASE CodeRejected
  BY <1>19 DEF CodeRejected, IInv, TypeOK, ExecShape, Finish, Received,
     subVars
<1>20. CASE ExecuteFailed
  BY <1>20 DEF ExecuteFailed, IInv, ExecShape, Abort, Received, subVars
<1>21. CASE PollExitQuitting
  BY <1>21 DEF PollExitQuitting, IInv, ExecShape, PollerTurn, subVars
<1>22. CASE PollExitStartFails
  BY <1>22 DEF PollExitStartFails, IInv, ExecShape, PollerTurn, subVars
<1>23. CASE PollExitRestarts
  BY <1>23 DEF PollExitRestarts, IInv, ExecShape, PollerTurn
<1>24. CASE PollAlive
  BY <1>24 DEF PollAlive, IInv, ExecShape, PollerTurn, subVars
<1>25. CASE PollNothing
  BY <1>25 DEF PollNothing, IInv, ExecShape, subVars
<1>26. CASE PollEof
  BY <1>26 DEF PollEof, IInv, ExecShape, subVars
<1>27. CASE PollUnclaimed
  BY <1>27 DEF PollUnclaimed, IInv, ExecShape, subVars
<1>28. CASE PollResult
  BY <1>28 DEF PollResult, IInv, TypeOK, ExecShape, subVars
<1>29. CASE RunIdleJobs
  BY <1>29 DEF RunIdleJobs, IInv, ExecShape, guiVars
<1>30. CASE IdleJobsReturn
  BY <1>30 DEF IdleJobsReturn, IInv, ExecShape, guiVars
<1>31. CASE Handle
  BY <1>31 DEF Handle, IInv, ExecShape, guiVars, idlePausedAfter
<1>32. CASE RunEnds
  BY <1>32 DEF RunEnds, IInv, ExecShape, guiVars
<1>33. CASE Dies
  BY <1>33 DEF Dies, IInv, ExecShape, guiVars
<1>34. CASE Exits
  BY <1>34 DEF Exits, IInv, ExecShape, guiVars
<1> QED
  BY <1>1, <1>2, <1>3, <1>4, <1>5, <1>6, <1>7, <1>8, <1>9, <1>10, <1>11,
     <1>12, <1>13, <1>14, <1>15, <1>16, <1>17, <1>18, <1>19, <1>20, <1>21,
     <1>22, <1>23, <1>24, <1>25, <1>26, <1>27, <1>28, <1>29, <1>30, <1>31,
     <1>32, <1>33, <1>34 DEF Next, UserStep, CallStep, PollStep, SubStep,
     ProcessStep

\* Every step keeps the late replies counted, and made of late calls only.
LEMMA IdleShapeStep ==
  ASSUME IInv, Next
  PROVE  IdleShape'
<1>1. CASE Query
  BY <1>1 DEF Query, IInv, IdleShape, EditorCall, Begin, UserTurn, subVars,
     Enter, Sent
<1>2. CASE PressReturn
  BY <1>2 DEF PressReturn, IInv, IdleShape, EditorCall, Begin, UserTurn,
     subVars, Enter, Sent
<1>3. CASE ExecuteSource
  BY <1>3 DEF ExecuteSource, IInv, IdleShape, EditorCall, Begin, UserTurn,
     subVars, Enter, Sent
<1>4. CASE ClearReshist
  BY <1>4 DEF ClearReshist, IInv, IdleShape, AssertionFails, Begin, UserTurn,
     subVars, Enter, Sent
<1>5. CASE Preferences
  BY <1>5 DEF Preferences, IInv, IdleShape, AssertionFails, Begin, UserTurn,
     subVars, Enter, Sent
<1>6. CASE RestartSubprocess
  <2> SUFFICES ASSUME ~isExecuting' PROVE IdleShape'
    BY DEF IdleShape
  <2>1. /\ toGui' = toGui /\ nUnclaimed' = nUnclaimed
        /\ gui # "wait" /\ ~isExecuting
    BY <1>6 DEF RestartSubprocess, UserTurn
  <2>2. \/ toSub' = toSub /\ sub' = sub
        \/ toSub' = <<>> /\ sub' \in {"closing", "reaped"}
    BY <1>6 DEF RestartSubprocess, Kill
  <2>3. /\ sub # "exec" /\ toSub \in Seq(LateFns) /\ toGui \in Seq(LateFns)
        /\ Len(toGui) \in Nat /\ Len(toSub) \in Nat /\ nUnclaimed \in Nat
        /\ Len(toGui) + Len(toSub) <= nUnclaimed
    BY <2>1 DEF IInv, TypeOK, IdleShape
  <2>4. toSub' = <<>> => toSub' \in Seq(LateFns) /\ Len(toSub') = 0
    BY EmptySequence
  <2> QED
    BY <2>1, <2>2, <2>3, <2>4 DEF IdleShape
<1>7. CASE Quit
  <2> SUFFICES ASSUME ~isExecuting' PROVE IdleShape'
    BY DEF IdleShape
  <2>1. /\ toGui' = toGui /\ nUnclaimed' = nUnclaimed
        /\ gui # "wait" /\ ~isExecuting
    BY <1>7 DEF Quit, UserTurn
  <2>2. \/ toSub' = toSub /\ sub' = sub
        \/ toSub' = <<>> /\ sub' \in {"closing", "reaped"}
    BY <1>7 DEF Quit, Kill
  <2>3. /\ sub # "exec" /\ toSub \in Seq(LateFns) /\ toGui \in Seq(LateFns)
        /\ Len(toGui) \in Nat /\ Len(toSub) \in Nat /\ nUnclaimed \in Nat
        /\ Len(toGui) + Len(toSub) <= nUnclaimed
    BY <2>1 DEF IInv, TypeOK, IdleShape
  <2>4. toSub' = <<>> => toSub' \in Seq(LateFns) /\ Len(toSub') = 0
    BY EmptySequence
  <2> QED
    BY <2>1, <2>2, <2>3, <2>4 DEF IdleShape
<1>8. CASE CloseDialog
  BY <1>8 DEF CloseDialog, IInv, IdleShape, subVars
<1>9. CASE DrainRecv
  BY <1>9 DEF DrainRecv, IInv, TypeOK, IdleShape, guiVars, subVars
<1>10. CASE DrainTimeout
  <2>1. /\ toGui' = toGui /\ sub' = sub /\ sub # "exec"
        /\ toSub \in Seq(LateFns) /\ toGui \in Seq(LateFns)
        /\ Len(toGui) \in Nat /\ Len(toSub) \in Nat /\ nUnclaimed \in Nat
        /\ Len(toGui) + Len(toSub) <= nUnclaimed
    BY <1>10 DEF DrainTimeout, subVars, IInv, TypeOK, CallShape, IdleShape
  <2>2. \/ toSub' = toSub /\ nUnclaimed' = nUnclaimed
        \/ toSub' = Append(toSub, "resume_idle") /\ nUnclaimed' = nUnclaimed + 1
    BY <1>10, <2>1 DEF DrainTimeout, NothingToRead, TimedOut, Sent
  <2>3. CASE toSub' = toSub /\ nUnclaimed' = nUnclaimed
    BY <2>1, <2>3 DEF IdleShape
  <2>4. CASE toSub' = Append(toSub, "resume_idle") /\ nUnclaimed' = nUnclaimed + 1
    <3>1. toSub' \in Seq(LateFns) /\ Len(toSub') = Len(toSub) + 1
      BY <2>1, <2>4, AppendInSeq, AppendLength DEF LateFns
    <3> QED
      BY <2>1, <2>4, <3>1 DEF IdleShape
  <2> QED
    BY <2>2, <2>3, <2>4
<1>11. CASE WaitTimeout
  <2>1. /\ toGui = <<>> /\ toGui' = <<>> /\ sub' = sub /\ sub # "exec"
        /\ toSub = <<call>> /\ call \in LateFns /\ nUnclaimed = 0
    BY <1>11 DEF WaitTimeout, NothingToRead, subVars, IInv, CallShape, WaitShape,
             FirstReplies, LateFns, TimedFns
  <2>2. toSub \in Seq(LateFns) /\ Len(toSub) = 1
    BY <2>1, SingletonParts
  <2>3. toGui' \in Seq(LateFns) /\ Len(toGui') = 0
    BY <2>1, EmptySequence
  <2>4. CASE call = "pause_idle"
    <3>1. toSub' = Append(toSub, "resume_idle") /\ nUnclaimed' = 2
      BY <1>11, <2>1, <2>4 DEF WaitTimeout, NothingToRead, TimedOut, Sent
    <3>2. "resume_idle" \in LateFns
      BY DEF LateFns
    <3>3. toSub' \in Seq(LateFns)
      BY <2>2, <3>1, <3>2, AppendInSeq
    <3>4. Len(toSub') = 2
      BY <2>2, <3>1, AppendLength
    <3> QED
      BY <2>1, <2>3, <3>1, <3>3, <3>4 DEF IdleShape
  <2>5. CASE call # "pause_idle"
    <3>1. toSub' = toSub /\ nUnclaimed' = 1
      BY <1>11, <2>1, <2>5 DEF WaitTimeout, TimedOut
    <3> QED
      BY <2>1, <2>2, <2>3, <3>1 DEF IdleShape
  <2> QED
    BY <2>4, <2>5
<1>12. CASE CallEof
  BY <1>12, MaxUnclaimedAssumption DEF CallEof, IInv, TypeOK, IdleShape,
     CallShape, DeadShape, Abort, AtEof, subVars, Alive
<1>13. CASE QueryAnswered
  <2> SUFFICES ASSUME gui' # "wait" PROVE IdleShape'
    BY DEF IdleShape
  <2>1. /\ gui = "wait" /\ toGui # <<>> /\ toGui' = Tail(toGui)
        /\ Head(toGui) # "exec_ok"
        /\ nUnclaimed = 0 /\ nUnclaimed' = 0 /\ sub' = sub /\ toSub' = toSub
    BY <1>13, AnsweredSocket
       DEF QueryAnswered, Received, FirstReplies, subVars, IInv, CallShape
  <2>2. toSub' = <<>> /\ toGui' = <<>> /\ sub # "exec"
    BY <2>1, AnsweredSocket DEF Alive
  <2>3. /\ toSub' \in Seq(LateFns) /\ Len(toSub') = 0
        /\ toGui' \in Seq(LateFns) /\ Len(toGui') = 0
    BY <2>2, EmptySequence
  <2> QED
    BY <2>1, <2>2, <2>3 DEF IdleShape
<1>14. CASE LineIncomplete
  <2> SUFFICES ASSUME gui' # "wait" PROVE IdleShape'
    BY DEF IdleShape
  <2>1. /\ gui = "wait" /\ toGui # <<>> /\ toGui' = Tail(toGui)
        /\ Head(toGui) # "exec_ok"
        /\ nUnclaimed = 0 /\ nUnclaimed' = 0 /\ sub' = sub /\ toSub' = toSub
    BY <1>14, AnsweredSocket
       DEF LineIncomplete, Received, FirstReplies, subVars, IInv, CallShape
  <2>2. toSub' = <<>> /\ toGui' = <<>> /\ sub # "exec"
    BY <2>1, AnsweredSocket DEF Alive
  <2>3. /\ toSub' \in Seq(LateFns) /\ Len(toSub') = 0
        /\ toGui' \in Seq(LateFns) /\ Len(toGui') = 0
    BY <2>2, EmptySequence
  <2> QED
    BY <2>1, <2>2, <2>3 DEF IdleShape
<1>15. CASE LineComplete
  BY <1>15, MaxUnclaimedAssumption DEF LineComplete, IInv, IdleShape,
     CallShape, Enter, Received, Sent, subVars
<1>16. CASE IdleIsPaused
  BY <1>16, MaxUnclaimedAssumption DEF IdleIsPaused, IInv, IdleShape,
     CallShape, Enter, Received, Sent, subVars
<1>17. CASE Configured
  <2> SUFFICES ASSUME gui' # "wait" PROVE IdleShape'
    BY DEF IdleShape
  <2>1. /\ gui = "wait" /\ toGui # <<>> /\ toGui' = Tail(toGui)
        /\ Head(toGui) # "exec_ok"
        /\ nUnclaimed = 0 /\ nUnclaimed' = 0 /\ sub' = sub /\ toSub' = toSub
    BY <1>17, AnsweredSocket
       DEF Configured, Received, Enter, ConfigFns, FirstReplies, subVars, IInv,
           CallShape
  <2>2. toSub' = <<>> /\ toGui' = <<>> /\ sub # "exec"
    BY <2>1, AnsweredSocket DEF Alive
  <2>3. /\ toSub' \in Seq(LateFns) /\ Len(toSub') = 0
        /\ toGui' \in Seq(LateFns) /\ Len(toGui') = 0
    BY <2>2, EmptySequence
  <2> QED
    BY <2>1, <2>2, <2>3 DEF IdleShape
<1>18. CASE CodeAccepted
  BY <1>18 DEF CodeAccepted, IInv, IdleShape, Finish, Received, subVars
<1>19. CASE CodeRejected
  <2> SUFFICES ASSUME gui' # "wait" PROVE IdleShape'
    BY DEF IdleShape
  <2>1. /\ gui = "wait" /\ toGui # <<>> /\ toGui' = Tail(toGui)
        /\ Head(toGui) # "exec_ok"
        /\ nUnclaimed = 0 /\ nUnclaimed' = 0 /\ sub' = sub /\ toSub' = toSub
    BY <1>19, AnsweredSocket
       DEF CodeRejected, Received, FirstReplies, subVars, IInv, CallShape
  <2>2. toSub' = <<>> /\ toGui' = <<>> /\ sub # "exec"
    BY <2>1, AnsweredSocket DEF Alive
  <2>3. /\ toSub' \in Seq(LateFns) /\ Len(toSub') = 0
        /\ toGui' \in Seq(LateFns) /\ Len(toGui') = 0
    BY <2>2, EmptySequence
  <2> QED
    BY <2>1, <2>2, <2>3 DEF IdleShape
<1>20. CASE ExecuteFailed
  <2> SUFFICES ASSUME gui' # "wait" PROVE IdleShape'
    BY DEF IdleShape
  <2>1. /\ gui = "wait" /\ toGui # <<>> /\ toGui' = Tail(toGui)
        /\ Head(toGui) # "exec_ok"
        /\ nUnclaimed = 0 /\ nUnclaimed' = 0 /\ sub' = sub /\ toSub' = toSub
    BY <1>20, AnsweredSocket
       DEF ExecuteFailed, Received, FirstReplies, subVars, IInv, CallShape
  <2>2. toSub' = <<>> /\ toGui' = <<>> /\ sub # "exec"
    BY <2>1, AnsweredSocket DEF Alive
  <2>3. /\ toSub' \in Seq(LateFns) /\ Len(toSub') = 0
        /\ toGui' \in Seq(LateFns) /\ Len(toGui') = 0
    BY <2>2, EmptySequence
  <2> QED
    BY <2>1, <2>2, <2>3 DEF IdleShape
<1>21. CASE PollExitQuitting
  BY <1>21 DEF PollExitQuitting, IInv, TypeOK, IdleShape, PollerTurn, subVars
<1>22. CASE PollExitStartFails
  BY <1>22 DEF PollExitStartFails, IInv, IdleShape, PollerTurn, subVars
<1>23. CASE PollExitRestarts
  BY <1>23 DEF PollExitRestarts, IInv, IdleShape, PollerTurn
<1>24. CASE PollAlive
  BY <1>24 DEF PollAlive, IInv, IdleShape, PollerTurn, subVars
<1>25. CASE PollNothing
  BY <1>25 DEF PollNothing, IInv, IdleShape, subVars
<1>26. CASE PollEof
  BY <1>26 DEF PollEof, IInv, IdleShape, subVars
<1>27. CASE PollUnclaimed
  BY <1>27 DEF PollUnclaimed, IInv, TypeOK, IdleShape, subVars
<1>28. CASE PollResult
  <2> SUFFICES ASSUME ~isExecuting' PROVE IdleShape'
    BY DEF IdleShape
  <2>1. /\ toSub' = <<>> /\ nUnclaimed' = 0 /\ sub' = sub /\ sub # "exec"
        /\ \E r \in RunReplies : toGui = <<r>>
    BY <1>28 DEF PollResult, IInv, ExecShape, subVars
  <2>2. toGui' = <<>>
    BY <1>28, <2>1, SingletonParts DEF PollResult
  <2>3. /\ toSub' \in Seq(LateFns) /\ Len(toSub') = 0
        /\ toGui' \in Seq(LateFns) /\ Len(toGui') = 0
    BY <2>1, <2>2, EmptySequence
  <2> QED
    BY <2>1, <2>2, <2>3 DEF IdleShape
<1>29. CASE RunIdleJobs
  BY <1>29 DEF RunIdleJobs, IInv, IdleShape, guiVars
<1>30. CASE IdleJobsReturn
  BY <1>30 DEF IdleJobsReturn, IInv, IdleShape, guiVars
<1>31. CASE Handle
  BY <1>31 DEF Handle, IInv, IdleShape, FirstReplies, guiVars,
     idlePausedAfter, LateFns, TimedFns
<1>32. CASE RunEnds
  BY <1>32 DEF RunEnds, IInv, IdleShape, guiVars
<1>33. CASE Dies
  <2> SUFFICES ASSUME gui # "wait", ~isExecuting PROVE IdleShape'
    BY <1>33 DEF IdleShape, Dies, guiVars
  <2>1. /\ toSub' = <<>> /\ sub' = "closing" /\ nUnclaimed' = nUnclaimed
        /\ toGui' = toGui \/ toGui' = <<>>
    BY <1>33 DEF Dies, guiVars
  <2>2. /\ toGui \in Seq(LateFns) /\ Len(toGui) \in Nat
        /\ Len(toSub) \in Nat /\ nUnclaimed \in Nat
        /\ Len(toGui) + Len(toSub) <= nUnclaimed
    BY DEF IInv, TypeOK, IdleShape
  <2>3. /\ toSub' \in Seq(LateFns) /\ Len(toSub') = 0
        /\ toGui' = <<>> => toGui' \in Seq(LateFns) /\ Len(toGui') = 0
    BY <2>1, EmptySequence
  <2> QED
    BY <2>1, <2>2, <2>3 DEF IdleShape
<1>34. CASE Exits
  BY <1>34 DEF Exits, IInv, IdleShape, guiVars
<1> QED
  BY <1>1, <1>2, <1>3, <1>4, <1>5, <1>6, <1>7, <1>8, <1>9, <1>10, <1>11,
     <1>12, <1>13, <1>14, <1>15, <1>16, <1>17, <1>18, <1>19, <1>20, <1>21,
     <1>22, <1>23, <1>24, <1>25, <1>26, <1>27, <1>28, <1>29, <1>30, <1>31,
     <1>32, <1>33, <1>34 DEF Next, UserStep, CallStep, PollStep, SubStep,
     ProcessStep

\* Every step keeps each pause_idle followed by what takes it back.
LEMMA PauseShapeStep ==
  ASSUME IInv, Next
  PROVE  PauseShape'
<1>1. CASE Query
  BY <1>1 DEF Query, IInv, PauseShape, EditorCall, Begin, UserTurn, subVars,
     Enter, Sent
<1>2. CASE PressReturn
  BY <1>2 DEF PressReturn, IInv, PauseShape, EditorCall, Begin, UserTurn,
     subVars, Enter, Sent
<1>3. CASE ExecuteSource
  BY <1>3 DEF ExecuteSource, IInv, PauseShape, EditorCall, Begin, UserTurn,
     subVars, Enter, Sent
<1>4. CASE ClearReshist
  BY <1>4, MaxUnclaimedAssumption DEF ClearReshist, IInv, PauseShape,
     CallShape, AssertionFails, Begin, UserTurn, subVars, Enter, Sent
<1>5. CASE Preferences
  BY <1>5 DEF Preferences, IInv, PauseShape, AssertionFails, Begin, UserTurn,
     subVars, Enter, Sent
<1>6. CASE RestartSubprocess
  BY <1>6 DEF RestartSubprocess, IInv, TypeOK, PauseShape, Kill, UserTurn,
     Alive
<1>7. CASE Quit
  BY <1>7 DEF Quit, IInv, TypeOK, PauseShape, Kill, UserTurn, Alive
<1>8. CASE CloseDialog
  BY <1>8 DEF CloseDialog, IInv, PauseShape, subVars
<1>9. CASE DrainRecv
  BY <1>9 DEF DrainRecv, IInv, PauseShape, guiVars, subVars
<1>10. CASE DrainTimeout
  BY <1>10 DEF DrainTimeout, IInv, PauseShape, NothingToRead, TimedOut,
     subVars, Finish, Sent
<1>11. CASE WaitTimeout
  BY <1>11, MaxUnclaimedAssumption DEF WaitTimeout, IInv, PauseShape,
     CallShape, DeadShape, WaitShape, NothingToRead, TimedFns, TimedOut,
     subVars, Alive, Finish, Sent
<1>12. CASE CallEof
  BY <1>12 DEF CallEof, IInv, PauseShape, Abort, AtEof, subVars
<1>13. CASE QueryAnswered
  BY <1>13, MaxUnclaimedAssumption DEF QueryAnswered, IInv, PauseShape,
     CallShape, DeadShape, WaitShape, Finish, Received, subVars
<1>14. CASE LineIncomplete
  BY <1>14, MaxUnclaimedAssumption DEF LineIncomplete, IInv, PauseShape,
     CallShape, DeadShape, WaitShape, Finish, Received, subVars
<1>15. CASE LineComplete
  BY <1>15, MaxUnclaimedAssumption DEF LineComplete, IInv, PauseShape,
     CallShape, DeadShape, WaitShape, Enter, Received, Sent, subVars
<1>16. CASE IdleIsPaused
  BY <1>16, MaxUnclaimedAssumption DEF IdleIsPaused, IInv, PauseShape,
     CallShape, DeadShape, WaitShape, Enter, Received, Sent, subVars
<1>17. CASE Configured
  BY <1>17, MaxUnclaimedAssumption DEF Configured, IInv, PauseShape,
     CallShape, DeadShape, WaitShape, ConfigFns, Enter, Finish, Received,
     Sent, subVars, Alive
<1>18. CASE CodeAccepted
  BY <1>18, MaxUnclaimedAssumption DEF CodeAccepted, IInv, PauseShape,
     CallShape, DeadShape, WaitShape, Finish, Received, subVars
<1>19. CASE CodeRejected
  BY <1>19, MaxUnclaimedAssumption DEF CodeRejected, IInv, PauseShape,
     CallShape, DeadShape, WaitShape, Finish, Received, subVars
<1>20. CASE ExecuteFailed
  BY <1>20, MaxUnclaimedAssumption DEF ExecuteFailed, IInv, PauseShape,
     CallShape, DeadShape, WaitShape, Abort, Received, subVars
<1>21. CASE PollExitQuitting
  BY <1>21 DEF PollExitQuitting, IInv, TypeOK, PauseShape, Exited, PollerTurn,
     subVars, Alive
<1>22. CASE PollExitStartFails
  BY <1>22 DEF PollExitStartFails, IInv, TypeOK, PauseShape, Exited,
     PollerTurn, subVars, Alive
<1>23. CASE PollExitRestarts
  BY <1>23 DEF PollExitRestarts, IInv, PauseShape, PollerTurn
<1>24. CASE PollAlive
  BY <1>24 DEF PollAlive, IInv, PauseShape, PollerTurn, subVars
<1>25. CASE PollNothing
  BY <1>25 DEF PollNothing, IInv, PauseShape, subVars
<1>26. CASE PollEof
  BY <1>26 DEF PollEof, IInv, PauseShape, subVars
<1>27. CASE PollUnclaimed
  BY <1>27 DEF PollUnclaimed, IInv, PauseShape, subVars
<1>28. CASE PollResult
  BY <1>28 DEF PollResult, IInv, PauseShape, subVars
<1>29. CASE RunIdleJobs
  BY <1>29 DEF RunIdleJobs, IInv, PauseShape, guiVars
<1>30. CASE IdleJobsReturn
  BY <1>30 DEF IdleJobsReturn, IInv, TypeOK, PauseShape, guiVars, Alive
<1>31. CASE Handle
    <2> DEFINE n == Len(toSub)
    <2>1. /\ n \in Nat \ {0} /\ Len(toSub') = n - 1 /\ Head(toSub) = toSub[1]
          /\ \A i \in 1 .. n - 1 : toSub'[i] = toSub[i + 1]
      BY <1>31 DEF Handle, IInv, TypeOK
    <2>2. sub \in Alive /\ gui' = gui /\ call' = call /\ idlePaused' = idlePausedAfter(toSub[1])
      BY <1>31, <2>1 DEF Handle, Alive, guiVars
    <2>3. CASE gui = "wait"
      <3>1. toSub = <<call>> /\ toSub' = <<>>
        BY <1>31, <2>3, AnsweredSocket, SingletonParts
         DEF IInv, WaitShape, Handle, Alive
      <3>2. toSub[1] = call /\ n = 1
        BY <3>1
      <3>3. ~idlePaused \/ call = "execute" \/ call = "resume_idle"
        BY <2>2, <2>3, <3>1, <3>2 DEF IInv, PauseShape
      <3>4. idlePaused' => call = "pause_idle"
        BY <2>2, <3>2, <3>3 DEF idlePausedAfter
      <3> QED
        BY <2>2, <2>3, <3>1, <3>4 DEF PauseShape
    <2>4. CASE gui # "wait"
      <3>1. \A i \in 1 .. n : toSub[i] = "pause_idle" =>
              \E j \in 1 .. n : i < j /\ toSub[j] = "resume_idle"
        BY <2>2, <2>4 DEF IInv, PauseShape
      <3>2. \A i \in 1 .. n - 1 : toSub'[i] = "pause_idle" =>
              \E j \in 1 .. n - 1 : i < j /\ toSub'[j] = "resume_idle"
        <4> SUFFICES ASSUME NEW i \in 1 .. n - 1, toSub'[i] = "pause_idle"
                     PROVE  \E j \in 1 .. n - 1 : i < j /\ toSub'[j] = "resume_idle"
          OBVIOUS
        <4>1. i + 1 \in 1 .. n /\ toSub[i + 1] = "pause_idle"
          BY <2>1
        <4>2. PICK k \in 1 .. n : i + 1 < k /\ toSub[k] = "resume_idle"
          BY <3>1, <4>1
        <4>3. /\ k - 1 \in 1 .. n - 1 /\ i < k - 1 /\ (k - 1) + 1 = k
              /\ toSub'[k - 1] = toSub[(k - 1) + 1]
          BY <2>1, <4>2
        <4> QED
          BY <4>2, <4>3
      <3>3. idlePaused' => \E j \in 1 .. n - 1 : toSub'[j] = "resume_idle"
        <4> SUFFICES ASSUME idlePaused' PROVE \E k \in 2 .. n : toSub[k] = "resume_idle"
          <5> SUFFICES ASSUME NEW k \in 2 .. n, toSub[k] = "resume_idle"
                       PROVE  \E j \in 1 .. n - 1 : toSub'[j] = "resume_idle"
            OBVIOUS
          <5>1. /\ k - 1 \in 1 .. n - 1 /\ (k - 1) + 1 = k
                /\ toSub'[k - 1] = toSub[(k - 1) + 1]
            BY <2>1
          <5> QED
            BY <5>1
        <4>1. CASE toSub[1] = "pause_idle"
          <5>1. 1 \in 1 .. n
            BY <2>1
          <5>2. PICK k \in 1 .. n : 1 < k /\ toSub[k] = "resume_idle"
            BY <3>1, <4>1, <5>1
          <5> QED
            BY <5>2, <2>1
        <4>2. CASE toSub[1] # "pause_idle"
          <5>1. idlePaused /\ toSub[1] # "resume_idle"
            BY <2>2, <4>2 DEF idlePausedAfter
          <5>2. PICK k \in 1 .. n : toSub[k] = "resume_idle"
            BY <2>2, <2>4, <5>1 DEF IInv, PauseShape
          <5>3. k # 1
            BY <5>1, <5>2
          <5> QED
            BY <5>2, <5>3, <2>1
        <4> QED
          BY <4>1, <4>2
      <3> QED
        BY <2>1, <2>2, <2>4, <3>2, <3>3 DEF PauseShape
    <2> QED
      BY <2>3, <2>4
<1>32. CASE RunEnds
  BY <1>32 DEF RunEnds, IInv, TypeOK, PauseShape, guiVars, Alive
<1>33. CASE Dies
  BY <1>33 DEF Dies, IInv, TypeOK, PauseShape, Alive, guiVars
<1>34. CASE Exits
  BY <1>34 DEF Exits, IInv, TypeOK, PauseShape, guiVars, Alive
<1> QED
  BY <1>1, <1>2, <1>3, <1>4, <1>5, <1>6, <1>7, <1>8, <1>9, <1>10, <1>11,
     <1>12, <1>13, <1>14, <1>15, <1>16, <1>17, <1>18, <1>19, <1>20, <1>21,
     <1>22, <1>23, <1>24, <1>25, <1>26, <1>27, <1>28, <1>29, <1>30, <1>31,
     <1>32, <1>33, <1>34 DEF Next, UserStep, CallStep, PollStep, SubStep,
     ProcessStep
-----------------------------------------------------------------------------
\* The constructor's first call establishes the invariant.
LEMMA InitInductive == Init => IInv
<1> SUFFICES ASSUME Init PROVE IInv
  OBVIOUS
<1>1. todo \in Seq(BlockingFns)
  BY ScriptsAreBlocking DEF Init
<1>2. /\ toGui \in Seq(Replies) /\ dialogs \in Seq({"startup", "restart"})
      /\ toSub \in Seq(Fns)
  BY EmptySequence DEF Init, Fns, BlockingFns, ConfigFns
<1>3. /\ isExecuting \in BOOLEAN /\ isTerminating \in BOOLEAN
      /\ poller \in BOOLEAN /\ popen \in BOOLEAN /\ idlePaused \in BOOLEAN
  BY Zenon DEF Init
<1>4. TypeOK
  BY <1>1, <1>2, <1>3, MaxUnclaimedAssumption
     DEF Init, TypeOK, Fns, BlockingFns, ConfigFns, Handlers, Alive
<1> QED
  BY <1>4 DEF Init, IInv, CallShape, DeadShape, WaitShape, ExecShape, IdleShape,
              PauseShape, Alive

\* Every step keeps it.
LEMMA StepInductive == IInv /\ [Next]_vars => IInv'
<1> SUFFICES ASSUME IInv, [Next]_vars PROVE IInv'
  OBVIOUS
<1>1. CASE Next
  BY <1>1, TypeStep, CallShapeStep, DeadShapeStep, WaitShapeStep, ExecShapeStep,
     IdleShapeStep, PauseShapeStep DEF IInv
<1>2. CASE UNCHANGED vars
  BY <1>2 DEF vars, guiVars, subVars, IInv, TypeOK, CallShape, DeadShape,
              WaitShape, ExecShape, IdleShape, PauseShape
<1> QED
  BY <1>1, <1>2

\* IInv holds in every reachable state of the session.
THEOREM Inductive == Spec => []IInv
  BY InitInductive, StepInductive, PTL DEF Spec

\* Type correctness: in particular _n_unclaimed_results never exceeds the bound
\* on new calls by more than the resume_idle that execute_source adds.
THEOREM TypeCorrect == Spec => []TypeOK
<1>1. IInv => TypeOK
  BY DEF IInv
<1> QED
  BY <1>1, Inductive, PTL

\* A call's first reply is its own (call_subp, call_subp_noblock).
THEOREM ReplyIsOwn == Spec => []OwnReplyFirst
<1>1. IInv => OwnReplyFirst
  BY AnsweredSocket DEF OwnReplyFirst, FirstReplies
<1> QED
  BY <1>1, Inductive, PTL

\* on_object_recv's assertion never fails, and its object is a run's result.
THEOREM ResultExpected == Spec => []ResultIsExpected
<1>1. IInv => ResultIsExpected
  <2> SUFFICES ASSUME IInv, gui \in {"loop", "polled"}, toGui # <<>>, nUnclaimed = 0
               PROVE  isExecuting /\ Head(toGui) \in RunReplies
    BY DEF ResultIsExpected
  <2>1. isExecuting
    BY QuietSocket
  <2> QED
    BY <2>1, SingletonParts DEF IInv, ExecShape
<1> QED
  BY <1>1, Inductive, PTL

\* No source runs unless the GUI waits for it or shows it as executing.
THEOREM RunOwned == Spec => []RunIsOwned
<1>1. IInv => RunIsOwned
  <2> SUFFICES ASSUME IInv, ~isExecuting,
                      sub = "exec" \/ \E i \in 1 .. Len(toSub) : toSub[i] = "execute"
               PROVE  gui = "wait" /\ call = "execute"
    BY DEF RunIsOwned
  <2>1. gui = "wait"
    <3>1. ASSUME gui # "wait" PROVE FALSE
      <4>1. sub # "exec" /\ toSub \in Seq(LateFns)
        BY <3>1 DEF IInv, IdleShape
      <4>2. \A i \in 1 .. Len(toSub) : toSub[i] \in LateFns
        BY <4>1
      <4> QED
        BY <4>1, <4>2 DEF LateFns, TimedFns
    <3> QED
      BY <3>1
  <2>2. CASE toGui = <<>> /\ sub \in Alive
    <3>1. toSub = <<call>> /\ sub # "exec"
      BY <2>1, <2>2, SingletonParts DEF IInv, WaitShape
    <3> QED
      BY <2>1, <3>1
  <2>3. CASE toGui = <<>> /\ sub \notin Alive
    <3>1. toSub = <<>> /\ Len(toSub) = 0 /\ sub # "exec"
      BY <2>3, EmptySequence DEF IInv, DeadShape, Alive
    <3> QED
      BY <3>1
  <2>4. CASE toGui # <<>>
    <3>1. toSub = <<>> /\ Len(toSub) = 0
      BY <2>1, <2>4, AnsweredSocket, EmptySequence
    <3>2. sub = "exec"
      BY <3>1
    <3>3. call = "execute" \/ "exec_ok" \in FirstReplies(call)
      BY <2>1, <2>4, <3>2, AnsweredSocket DEF Alive
    <3> QED
      BY <2>1, <3>3 DEF FirstReplies, IInv, TypeOK, Fns, BlockingFns, ConfigFns,
                        TimedFns
  <2> QED
    BY <2>2, <2>3, <2>4
<1> QED
  BY <1>1, Inductive, PTL

\* Idle jobs are paused only under execute_source or with a resume on its way.
THEOREM PauseFollowed == Spec => []PauseIsFollowed
<1>1. IInv => PauseIsFollowed
  BY DEF IInv, PauseShape, PauseIsFollowed
<1> QED
  BY <1>1, Inductive, PTL

\* Between handlers _n_unclaimed_results provides for every reply to come.
THEOREM LateCounted == Spec => []LateRepliesCounted
<1>1. IInv => LateRepliesCounted
  BY DEF IInv, IdleShape, LateRepliesCounted, Outstanding
<1> QED
  BY <1>1, Inductive, PTL

\* While code executes, the socket carries its result or nothing.
THEOREM ExecutingExclusive == Spec => []ExecutingIsExclusive
<1>1. IInv => ExecutingIsExclusive
  <2> SUFFICES ASSUME IInv, isExecuting
               PROVE  /\ nUnclaimed = 0 /\ toSub = <<>> /\ Len(toGui) <= 1
                      /\ sub = "exec" => toGui = <<>>
    BY DEF ExecutingIsExclusive
  <2>1. toGui = <<>> => Len(toGui) = 0
    BY EmptySequence
  <2>2. \A r \in RunReplies : toGui = <<r>> => Len(toGui) = 1
    BY SingletonParts
  <2> QED
    BY <2>1, <2>2 DEF IInv, ExecShape
<1> QED
  BY <1>1, Inductive, PTL

\* A result at the head of the socket is alone there, with a run to report.
LEMMA ResultHead ==
  ASSUME IInv, toGui # <<>>, Head(toGui) = "result"
  PROVE  isExecuting /\ nUnclaimed = 0 /\ toSub = <<>> /\ sub # "exec"
<1>1. gui # "wait"
  <2> SUFFICES ASSUME gui = "wait" PROVE FALSE
    OBVIOUS
  <2>1. "result" \in FirstReplies(call)
    BY AnsweredSocket
  <2> QED
    BY <2>1 DEF FirstReplies, IInv, TypeOK, Fns, BlockingFns, ConfigFns, TimedFns
<1>2. isExecuting
  <2> SUFFICES ASSUME ~isExecuting PROVE FALSE
    OBVIOUS
  <2>1. toGui \in Seq(LateFns)
    BY <1>1 DEF IInv, IdleShape
  <2>2. "result" \in LateFns
    BY <2>1, TailInSeq
  <2> QED
    BY <2>2 DEF LateFns, TimedFns
<1> QED
  BY <1>2 DEF IInv, ExecShape

\* The result of a run is received only by the report that ends is_executing.
THEOREM ResultReported == Spec => ResultIsReported
<1> DEFINE Taken == /\ toGui # <<>> /\ Head(toGui) = "result"
                    /\ toGui' = Tail(toGui)
<1>1. ASSUME IInv, Next, Taken PROVE sub \in Exited \/ (isExecuting /\ ~isExecuting')
  <2>1. isExecuting /\ nUnclaimed = 0 /\ toSub = <<>> /\ sub # "exec"
    BY <1>1, ResultHead
  <2>2. gui \notin {"wait", "drain"}
    BY <1>1, <2>1 DEF IInv, CallShape
  <2>3. toGui' # toGui
    BY <1>1 DEF IInv, TypeOK
  <2>4. CASE UserStep
    BY <2>3, <2>4
       DEF UserStep, Query, PressReturn, ExecuteSource, EditorCall, ClearReshist,
           Preferences, RestartSubprocess, Quit, CloseDialog
  <2>5. CASE CallStep
    BY <2>2, <2>5
       DEF CallStep, DrainRecv, DrainTimeout, WaitTimeout, CallEof, QueryAnswered,
           LineIncomplete, LineComplete, IdleIsPaused, Configured, CodeAccepted,
           CodeRejected, ExecuteFailed, Received
  <2>6. CASE PollStep
    <3>1. CASE PollExitQuitting \/ PollExitStartFails \/ PollExitRestarts
      BY <3>1 DEF PollExitQuitting, PollExitStartFails, PollExitRestarts
    <3>2. CASE PollAlive \/ PollNothing \/ PollEof
      BY <2>3, <3>2 DEF PollAlive, PollNothing, PollEof
    <3>3. CASE PollUnclaimed
      BY <2>1, <3>3 DEF PollUnclaimed
    <3>4. CASE PollResult
      BY <1>1, <2>1, <3>4 DEF PollResult
    <3> QED
      BY <2>6, <3>1, <3>2, <3>3, <3>4 DEF PollStep
  <2>7. CASE SubStep
    BY <2>1, <2>3, <2>7
       DEF SubStep, RunIdleJobs, IdleJobsReturn, Handle, RunEnds
  <2>8. CASE ProcessStep
    BY <2>1, <2>3, <2>8 DEF ProcessStep, Dies, Exits
  <2> QED
    BY <1>1, <2>4, <2>5, <2>6, <2>7, <2>8 DEF Next
<1>2. ASSUME IInv, UNCHANGED vars, Taken PROVE FALSE
  BY <1>2 DEF vars, IInv, TypeOK
<1>3. IInv /\ [Next]_vars =>
        [Taken => sub \in Exited \/ (isExecuting /\ ~isExecuting')]_vars
  BY <1>1, <1>2
<1> QED
  BY <1>3, Inductive, PTL DEF Spec, ResultIsReported

\* Once the user has quit there is no subprocess, and no step starts one: killing
\* fails for a process that is gone already, and the poller leaves it at that.
THEOREM QuitLeaves == Spec => []QuitLeavesNone
<1>1. Init => QuitLeavesNone
  BY DEF Init, QuitLeavesNone
<1>2. ASSUME IInv, QuitLeavesNone, [Next]_vars PROVE QuitLeavesNone'
  <2> USE <1>2 DEF QuitLeavesNone
  <2>1. CASE UNCHANGED vars
    BY <2>1 DEF vars, guiVars, subVars
  <2>2. CASE Quit
    BY <2>2 DEF Quit, Kill, Alive, Exited, IInv, DeadShape
  <2>3. CASE RestartSubprocess
    BY <2>3 DEF RestartSubprocess, UserTurn
  <2>4. CASE Query \/ PressReturn \/ ExecuteSource \/ ClearReshist \/ Preferences \/ CloseDialog
    <3>1. UNCHANGED <<isTerminating, sub>>
      <4>1. CASE Query \/ PressReturn \/ ExecuteSource
        BY <4>1 DEF Query, PressReturn, ExecuteSource, EditorCall, subVars
      <4>2. CASE ClearReshist
        BY <4>2 DEF ClearReshist, subVars
      <4>3. CASE Preferences
        BY <4>3 DEF Preferences, subVars
      <4>4. CASE CloseDialog
        BY <4>4 DEF CloseDialog, subVars
      <4> QED
        BY <2>4, <4>1, <4>2, <4>3, <4>4
    <3> QED
      BY <3>1
  <2>5. CASE CallStep
    <3>1. CASE DrainRecv \/ DrainTimeout \/ WaitTimeout \/ CallEof
      BY <3>1 DEF DrainRecv, DrainTimeout, WaitTimeout, CallEof, guiVars, subVars
    <3>2. Received({"query", "clear_reshist"}) \/ Received({"is_incomplete"})
          \/ Received({"pause_idle"}) \/ Received(ConfigFns) \/ Received({"execute"})
            => UNCHANGED <<isTerminating, sub>>
      BY DEF Received, subVars
    <3>3. CASE QueryAnswered \/ LineIncomplete \/ LineComplete \/ IdleIsPaused \/ Configured
               \/ CodeAccepted \/ CodeRejected \/ ExecuteFailed
      <4>1. UNCHANGED <<isTerminating, sub>>
        BY <3>2, <3>3 DEF QueryAnswered, LineIncomplete, LineComplete, IdleIsPaused, Configured,
                          CodeAccepted, CodeRejected, ExecuteFailed
      <4> QED
        BY <4>1
    <3> QED
      BY <2>5, <3>1, <3>3 DEF CallStep
  <2>6. CASE PollStep
    BY <2>6 DEF PollStep, PollExitQuitting, PollExitStartFails, PollExitRestarts, PollAlive,
                PollNothing, PollEof, PollUnclaimed, PollResult, subVars
  <2>7. CASE SubStep
    BY <2>7 DEF SubStep, RunIdleJobs, IdleJobsReturn, Handle, RunEnds, Alive, guiVars
  <2>8. CASE ProcessStep
    BY <2>8 DEF ProcessStep, Dies, Exits, Alive, guiVars
  <2> QED
    BY <2>1, <2>2, <2>3, <2>4, <2>5, <2>6, <2>7, <2>8 DEF Next, UserStep
<1> QED
  BY <1>1, <1>2, Inductive, PTL DEF Spec
=============================================================================
