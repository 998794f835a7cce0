------------------------------- MODULE Console --------------------------------
(***************************************************************************)
(* The pipes between the GUI and the code it runs: standard output and     *)
(* input, and the socket that carries the result.  The GUI's poller        *)
(* (gui/subprocess_handler.py, _manage_subp) reads a piece of output, then *)
(* the socket; what the user types while code runs is written to its       *)
(* standard input, and what the code did not read comes back with the      *)
(* result (subprocess/__init__.py, execute; gui/__init__.py,               *)
(* handle_rem_stdin).  The subprocess runs on in between.  Typed lines are *)
(* numbered in the order of their typing: no two are equal.                *)
(***************************************************************************)
EXTENDS Integers, Sequences, SequencesExt

CONSTANTS
  MaxRuns,    \* bound on the number of commands
  MaxLines,   \* bound on the number of typed lines
  OutCap,     \* how many pieces of output the pipe holds
  InCap       \* how many lines the standard input's pipe holds

\* All that the theorems ask of the constants.
ConstantsFit ==
  /\ MaxRuns \in Nat /\ MaxLines \in Nat /\ OutCap \in Nat \ {0} /\ InCap \in Nat \ {0}

VARIABLES
  gui,        \* what the GUI does: "loop", "socket" (within a poll), "writing" to stdin
  executing,  \* is_executing
  run,        \* the number of commands that were executed
  sub,        \* what the subprocess does: "waits", "runs", "writes", "returns"
  left,       \* what was drained from the standard input
  outPipe,    \* the runs whose pieces are in the pipe
  shown,      \* the piece shown last: the run that wrote it, the section it is in
  sock,       \* results on their way
  lines,      \* the number of lines that were typed
  toWrite,    \* lines that the GUI is still writing
  inPipe,     \* lines in the pipe
  ahead,      \* lines that sys.stdin has read and the code has not
  textview,   \* typed lines that the text view shows, a sequence per STDIN region
  sourcebox,  \* typed lines that came back to the source box
  typedIn,    \* the run each line was typed in
  readBy,     \* the run that read each line, 0 if none did
  late,       \* was a line typed after the standard input was drained
  buffered,   \* does sys.stdin read ahead (Python 3 does, in spite of -u)
  discarded,  \* was the history discarded
  failed      \* did handle_rem_stdin fail its assertion

guiVars == <<gui, executing, textview, sourcebox, shown, failed, discarded>>

subVars == <<sub, left, ahead, readBy>>

vars == <<guiVars, subVars, run, outPipe, sock, lines, toWrite, inPipe, typedIn, late, buffered>>

Lines == 1 .. lines

\* All but the text view.
TypeOK ==
  /\ gui \in {"loop", "socket", "writing"} /\ sub \in {"waits", "runs", "writes", "returns"}
  /\ executing \in BOOLEAN /\ late \in BOOLEAN /\ buffered \in BOOLEAN /\ discarded \in BOOLEAN /\ failed \in BOOLEAN
  /\ run \in 0 .. MaxRuns /\ left \in Seq(Lines) /\ lines \in 0 .. MaxLines
  /\ Len(outPipe) <= OutCap /\ Len(inPipe) <= InCap /\ Len(sock) <= 1
  /\ sourcebox \subseteq Lines
  /\ typedIn \in Seq(1 .. run) /\ readBy \in [Lines -> 0 .. run]

Init ==
  /\ gui = "loop" /\ executing = FALSE /\ run = 0 /\ sub = "waits" /\ left = <<>>
  /\ outPipe = <<>> /\ shown = [of |-> 0, section |-> 0] /\ sock = <<>>
  /\ lines = 0 /\ toWrite = <<>> /\ inPipe = <<>> /\ ahead = <<>>
  /\ textview = <<>> /\ sourcebox = {} /\ typedIn = <<>> /\ readBy = <<>>
  /\ late = FALSE /\ failed = FALSE /\ buffered \in BOOLEAN /\ discarded = FALSE

-------------------------------------------------------------------------------
\* Mutations of the definitions that follow, each the mark of a plausible slip
\* in the code, have an underscore in their names and are used by no other
\* definition: TLC refutes a property with each of them.

\* execute_source: the code was accepted, a new section begins.
Execute ==
  /\ gui = "loop" /\ ~executing /\ sub = "waits" /\ run < MaxRuns
  /\ executing' = TRUE /\ run' = run + 1 /\ sub' = "runs"
  /\ UNCHANGED <<gui, textview, sourcebox, shown, failed, discarded, left, ahead, readBy,
                 outPipe, sock, lines, toWrite, inPipe, typedIn, late, buffered>>

\* The pipe takes all.
WriteTo_all(pipe, ls) ==
  /\ inPipe' = pipe \o ls /\ toWrite' = <<>> /\ gui' = "loop"
  /\ late' = (late \/ (sub # "runs" /\ sub # "writes"))

\* As much of the lines as the pipe has room for is written; with some left the
\* GUI stays in write().
WriteTo(pipe, ls) ==
  LET room == InCap - Len(pipe)
      n    == IF Len(ls) < room THEN Len(ls) ELSE room
  IN  /\ inPipe' = pipe \o SubSeq(ls, 1, n)
      /\ toWrite' = SubSeq(ls, n + 1, Len(ls))
      /\ gui' = IF n = Len(ls) THEN "loop" ELSE "writing"
      /\ late' = (late \/ (sub # "runs" /\ sub # "writes" /\ n > 0))

\* send_stdin: the text of the source box, of one line or more.
SendStdin ==
  /\ gui = "loop" /\ executing
  /\ \E n \in 1 .. MaxLines - lines :
       LET ls == [i \in 1 .. n |-> lines + i]
       IN  /\ lines' = lines + n
           /\ textview' = Append(textview, ls)
           /\ typedIn' = typedIn \o [i \in 1 .. n |-> run]
           /\ readBy' = readBy \o [i \in 1 .. n |-> 0]
           /\ WriteTo(inPipe, ls)
  /\ UNCHANGED <<executing, run, sub, left, outPipe, shown, sock, ahead, sourcebox, failed,
                 discarded, buffered>>

\* The write goes on when the pipe is empty.
GoOnWriting_empty ==
  /\ gui = "writing" /\ inPipe = <<>>
  /\ WriteTo(inPipe, toWrite)
  /\ UNCHANGED <<executing, run, sub, left, outPipe, shown, sock, lines, ahead, textview,
                 sourcebox, typedIn, readBy, failed, discarded, buffered>>

\* The write goes on when there is room.
GoOnWriting ==
  /\ gui = "writing" /\ Len(inPipe) < InCap
  /\ WriteTo(inPipe, toWrite)
  /\ UNCHANGED <<executing, run, sub, left, outPipe, shown, sock, lines, ahead, textview,
                 sourcebox, typedIn, readBy, failed, discarded, buffered>>

\* Output is left alone when there is a result to read.
PollOutput_quiet ==
  /\ gui = "loop" /\ gui' = "socket"
  /\ outPipe' = IF outPipe = <<>> \/ sock # <<>> THEN outPipe ELSE Tail(outPipe)
  /\ shown' = IF outPipe = <<>> \/ sock # <<>> THEN shown
              ELSE [of |-> Head(outPipe), section |-> run]
  /\ UNCHANGED <<executing, textview, sourcebox, failed, discarded, subVars, run, sock, lines, toWrite,
                 inPipe, typedIn, late, buffered>>

\* A poll: a piece of the output is shown in the current section.
PollOutput ==
  /\ gui = "loop" /\ gui' = "socket"
  /\ outPipe' = IF outPipe = <<>> THEN <<>> ELSE Tail(outPipe)
  /\ shown' = IF outPipe = <<>> THEN shown
              ELSE [of |-> Head(outPipe), section |-> run]
  /\ UNCHANGED <<executing, textview, sourcebox, failed, discarded, subVars, run, sock, lines, toWrite,
                 inPipe, typedIn, late, buffered>>

\* A turn of the loop in handle_rem_stdin: the last region of the text view is compared with
\* what came back, and as much of it as both have is taken from both.  No region is empty.
TakeRegion(was) ==
  LET cur == Last(was.view)
      n   == IF Len(cur) < Len(was.rem) THEN Len(cur) ELSE Len(was.rem)
  IN  IF was.rem = <<>> \/ ~was.on \/ was.view = <<>> THEN was
      ELSE IF SubSeq(cur, Len(cur) - n + 1, Len(cur))
              # SubSeq(was.rem, Len(was.rem) - n + 1, Len(was.rem))
      THEN [was EXCEPT !.on = FALSE]
      ELSE [view |-> Front(was.view)
                       \o IF n = Len(cur) THEN <<>> ELSE << SubSeq(cur, 1, Len(cur) - n) >>,
            rem  |-> SubSeq(was.rem, 1, Len(was.rem) - n), on |-> TRUE]

\* The loop ends after its first turn.
TakenOut_last(regions, rem) == TakeRegion([view |-> regions, rem |-> rem, on |-> TRUE])

\* handle_rem_stdin: the text that came back is taken out of the text view from
\* its end, region by region, as long as it is what the view shows.
TakenOut(regions, rem) ==
  LET turns[i \in 0 .. Len(regions)] ==
        IF i = 0 THEN [view |-> regions, rem |-> rem, on |-> TRUE] ELSE TakeRegion(turns[i - 1])
  IN  turns[Len(regions)]

\* on_object_recv.  With no typed text in the view at all the assertion fails.
ShowResult ==
  LET rem == Head(sock)
      out == TakenOut(textview, rem)
  IN  /\ executing' = FALSE
      /\ sourcebox' = sourcebox \cup ToSet(rem)
      /\ textview' = out.view
      /\ failed' = (failed \/ (rem # <<>> /\ out.on /\ out.rem # <<>>))
      /\ sock' = Tail(sock) /\ UNCHANGED shown

\* The poll ends with the socket.
PollSocket ==
  /\ gui = "socket" /\ gui' = "loop"
  /\ \/ sock = <<>> /\ UNCHANGED <<executing, textview, sourcebox, shown, failed, sock>>
     \/ sock # <<>> /\ ShowResult
  /\ UNCHANGED <<discarded, subVars, run, outPipe, lines, toWrite, inPipe, typedIn, late, buffered>>

\* on_discard_history, all of it.
Discard ==
  /\ gui = "loop" /\ ~executing
  /\ textview' = <<>> /\ discarded' = TRUE
  /\ UNCHANGED <<gui, executing, sourcebox, shown, failed, subVars, run, outPipe, sock, lines,
                 toWrite, inPipe, typedIn, late, buffered>>

-------------------------------------------------------------------------------
\* The code, or a thread that it left, begins to write a piece.
BeginWrite ==
  /\ sub = "runs" /\ sub' = "writes"
  /\ UNCHANGED <<guiVars, left, ahead, readBy, run, outPipe, sock, lines, toWrite, inPipe,
                 typedIn, late, buffered>>

\* It waits while the pipe is full.
WritePiece ==
  /\ sub = "writes" /\ sub' = "runs" /\ Len(outPipe) < OutCap
  /\ outPipe' = Append(outPipe, run)
  /\ UNCHANGED <<guiVars, left, ahead, readBy, run, sock, lines, toWrite, inPipe, typedIn, late, buffered>>

\* The code reads a line: all that is in the pipe is read with it, if buffered.
ReadLine ==
  LET ready == IF ahead # <<>> THEN ahead ELSE inPipe
  IN  /\ sub = "runs" /\ ready # <<>>
      /\ readBy' = [readBy EXCEPT ![Head(ready)] = run]
      /\ ahead' = IF ahead # <<>> \/ buffered THEN Tail(ready) ELSE <<>>
      /\ inPipe' = IF ahead # <<>> THEN inPipe ELSE IF buffered THEN <<>> ELSE Tail(inPipe)
      /\ UNCHANGED <<guiVars, sub, left, run, outPipe, sock, lines, toWrite, typedIn, late, buffered>>

\* The standard input is left alone.
Drain_none ==
  /\ sub = "runs" /\ sub' = "returns"
  /\ left' = <<>>
  /\ UNCHANGED <<guiVars, ahead, readBy, run, outPipe, sock, lines, toWrite, inPipe, typedIn, late, buffered>>

\* What is left is looked at, and not read.
Drain_peek ==
  /\ sub = "runs" /\ sub' = "returns"
  /\ left' = inPipe
  /\ UNCHANGED <<guiVars, ahead, readBy, run, outPipe, sock, lines, toWrite, inPipe, typedIn, late, buffered>>

\* The code has ended; what is left in the standard input's pipe is read.
Drain ==
  /\ sub = "runs" /\ sub' = "returns"
  /\ left' = inPipe /\ inPipe' = <<>>
  /\ UNCHANGED <<guiVars, ahead, readBy, run, outPipe, sock, lines, toWrite, typedIn, late, buffered>>

\* The standard input is read with no look at whether there is something.
Return_blocked ==
  /\ sub = "returns" /\ left # <<>> /\ sub' = "waits"
  /\ sock' = Append(sock, left) /\ left' = <<>>
  /\ UNCHANGED <<guiVars, ahead, readBy, run, outPipe, lines, toWrite, inPipe, typedIn, late, buffered>>

\* The result is sent.
Return ==
  /\ sub = "returns" /\ sub' = "waits"
  /\ sock' = Append(sock, left) /\ left' = <<>>
  /\ UNCHANGED <<guiVars, ahead, readBy, run, outPipe, lines, toWrite, inPipe, typedIn, late, buffered>>

GuiStep == Execute \/ SendStdin \/ GoOnWriting \/ PollOutput \/ PollSocket \/ Discard

SubStep == BeginWrite \/ WritePiece \/ ReadLine \/ Drain \/ Return

Next == GuiStep \/ SubStep

Spec == Init /\ [][Next]_vars

\* The poller is called every 10 ms, and a write goes on as soon as it can; a
\* code that ended returns its result.  What the code does is its own affair.
Fairness ==
  /\ WF_vars(PollOutput) /\ WF_vars(PollSocket) /\ WF_vars(GoOnWriting)
  /\ WF_vars(WritePiece) /\ WF_vars(Return)

FairSpec == Spec /\ Fairness

-------------------------------------------------------------------------------
\* Each typed line is in one place: to be written, in the pipe, read ahead, read by
\* the code, on its way back, or in the source box again.  None is lost, and none
\* is both read and given back.
EachLineInOnePlace ==
  \A l \in Lines :
    LET flags == << Contains(toWrite, l), Contains(inPipe, l), Contains(ahead, l), readBy[l] # 0,
                    Contains(left, l), \E i \in DOMAIN sock : Contains(sock[i], l), l \in sourcebox >>
    IN  \E place \in DOMAIN flags : \A i \in DOMAIN flags : flags[i] <=> i = place

\* What the text view shows as input is what was typed and did not come back:
\* handle_rem_stdin finds each line that comes back, in whatever regions it was
\* typed, and its assertion holds, unless a line was written after the standard input
\* was drained or the history was discarded.
TextviewShowsRead ==
  /\ textview \in Seq(Seq(Lines))
  /\ late \/ discarded
     \/ /\ \A l \in Lines : (\E k \in DOMAIN textview : Contains(textview[k], l)) <=> l \notin sourcebox
        /\ ~failed

\* A line is read by the code it was typed for, if by any, unless it was written
\* after the standard input was drained, or sys.stdin reads ahead.
ReadInItsRun == (~late /\ ~buffered) => \A l \in Lines : readBy[l] \in {0, typedIn[l]}

\* Output may be shown under a later command than the one that wrote it, since
\* a result does not wait for it; but each command that comes in between has let
\* a piece pass.
OutputLag == shown.section - shown.of <= OutCap

\* If nobody can go on while the GUI writes, its pipe is full, and either the
\* other one is too or the code ended before all was written.
StuckIfFull ==
  (gui = "writing" /\ ~ENABLED GoOnWriting /\ ~ENABLED SubStep)
    => (Len(inPipe) = InCap /\ (Len(outPipe) = OutCap \/ late))

\* A result is shown, however much output there is, unless the GUI is stuck.
ResultIsShown == (sub = "returns") ~> (~executing \/ gui = "writing")
===============================================================================
