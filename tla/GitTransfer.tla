------------------------------ MODULE GitTransfer ----------------------------
(***************************************************************************)
(* dulwich's fetching and pushing: a client and a server at the two ends   *)
(* of a connection.  To fetch, the client says which commits it has        *)
(* (ObjectStoreGraphWalker), reads the acknowledgements that there are     *)
(* already, and the server finds what is to be sent (MissingObjectFinder). *)
(* To push, the client sends the changes of references and a pack, and     *)
(* reads the report.  The third part is how a server reads the socket      *)
(* (ReceivableProtocol).                                                   *)
(***************************************************************************)
EXTENDS Integers, Sequences, SequencesExt, FiniteSets, FiniteSetsExt

CONSTANTS
  Dags,        \* the histories: functions from the commits to the sets of their parents
  Times,       \* functions from the commits to their times
  TreeOf,      \* the tree of each commit
  Entries,     \* the entries of each tree: of a kind ("tree", "file", "link") and an object
  Target,      \* the commit of each tag
  Heads,       \* the sets of commits that the client's and the server's heads may be
  Levels,      \* the ways to acknowledge: "single", "multi", "detailed"
  Branches, Tips,  \* what is pushed to, and the commits that these may be at
  BufSizes,    \* sizes of BufferedPktLineWriter's buffer
  RBufSize, Sizes, StreamLen,  \* what is asked of the socket at once; how much is read
  Kinds        \* "fetch", "push", "wire"

Commits == DOMAIN TreeOf
Trees == DOMAIN Entries
Tags == DOMAIN Target
Zero == "zero"

VARIABLES
  kind, level, parents, time, tagged,  \* chosen once
  pc, at,          \* the steps of the client and of the server
  up, down,        \* the lines on their way to the server and to the client
  tips, wants,     \* the client's heads; what it asks for
  values,          \* the heads of the server
  heads, seen, dropped,  \* graph walker: heads, the keys of parents, those that are None
  common, base,    \* server: _common or haves, _found_base or _sent_ack
  todo, done, sent,  \* MissingObjectFinder: objects_to_send, sha_done, what it returned
  received,        \* the objects the client got
  acked,           \* ghost: the commits that were acknowledged
  said,            \* ghost: the commits that the client said it has
  twice,           \* ghost: an object was returned twice
  refs, old, new,  \* push: the server's references, before, and as they are to be
  left, status,    \* the changes to make, and what is reported
  unpacked,        \* whether the pack was good
  readahead, told, outcome, bufsize,  \* PktLineParser, ReportStatusParser; how it ended
  rbuf, rpos, wire, given, rv, asked  \* ReceivableProtocol

chosen == <<kind, level, parents, time, tagged, tips, wants, values, bufsize>>
walker == <<heads, seen, dropped>>
finder == <<todo, done, sent, twice>>
fetch == <<walker, common, base, finder, received, acked, said>>
push == <<refs, old, new, left, status, unpacked, readahead, told, outcome>>
socket == <<rbuf, rpos, wire, given, rv, asked>>
vars == <<chosen, pc, at, up, down, fetch, push, socket>>

-----------------------------------------------------------------------------
\* What an object refers to; the commit that a link is to is in some other repository.
Links(o) ==
  CASE o \in Commits -> parents[o] \cup {TreeOf[o]}
    [] o \in Trees -> {e[2] : e \in {x \in Entries[o] : x[1] # "link"}}
    [] o \in Tags -> {Target[o]}
    [] OTHER -> {}

RECURSIVE Reach(_, _)
\* What is reached from some objects without coming by others.
Reach(from, but) ==
  LET more == UNION {Links(o) : o \in from} \ (from \cup but)
  IN IF more = {} THEN from ELSE Reach(from \cup more, but)

Ancestors(cs, ps) ==
  LET RECURSIVE up_(_)
      up_(s) == LET t == s \cup UNION {ps[c] : c \in s} IN IF t = s THEN s ELSE up_(t)
  IN up_(cs)

ClientHas == Reach(tips, {})
ServerHas == Reach(values, {})

NoRefs == [r \in Branches |-> Zero]

Quiet ==
  /\ up = <<>> /\ down = <<>> /\ seen = {} /\ dropped = {} /\ common = <<>> /\ base = FALSE
  /\ todo = {} /\ done = {} /\ sent = {} /\ twice = FALSE /\ received = {} /\ acked = {}
  /\ said = {} /\ left = {} /\ status = <<>> /\ unpacked = FALSE /\ readahead = <<>>
  /\ told = <<>> /\ outcome = "none"
  /\ rbuf = <<>> /\ rpos = 0 /\ wire = 0 /\ given = 0 /\ rv = <<>> /\ asked = 0

\* determine_wants_all(): heads and tags of the server that the client has not.
InitFetch ==
  /\ kind = "fetch" /\ level \in Levels /\ parents \in Dags /\ time \in Times
  /\ tagged \in BOOLEAN /\ tips \in Heads \cup {{}} /\ values \in Heads
  /\ wants \in SUBSET ((values \cup {t \in Tags : Target[t] \in ServerHas}) \ ClientHas) \ {{}}
  /\ heads = tips /\ pc = "have" /\ at = "read"
  /\ refs = NoRefs /\ old = NoRefs /\ new = NoRefs /\ bufsize = 0

\* The client has everything; get_refs() and determine_wants().
InitPush ==
  /\ kind = "push" /\ level = "single" /\ parents \in Dags /\ time = CHOOSE t \in Times : TRUE
  /\ tagged = FALSE /\ tips = Commits /\ values = Commits /\ wants = {} /\ heads = {}
  /\ pc = "commands" /\ at = "commands"
  /\ old \in [Branches -> Tips \cup {Zero}] /\ new \in [Branches -> Tips \cup {Zero}]
  /\ refs = old /\ bufsize \in BufSizes

InitWire ==
  /\ kind = "wire" /\ level = "single"
  /\ parents = (CHOOSE d \in Dags : TRUE) /\ time = CHOOSE t \in Times : TRUE
  /\ tagged = FALSE /\ tips = {} /\ values = {} /\ wants = {} /\ heads = {}
  /\ pc = "idle" /\ at = "idle" /\ refs = NoRefs /\ old = NoRefs /\ new = NoRefs /\ bufsize = 0

Init ==
  /\ Quiet
  /\ \/ "fetch" \in Kinds /\ InitFetch
     \/ "push" \in Kinds /\ InitPush
     \/ "wire" \in Kinds /\ InitWire

-----------------------------------------------------------------------------
\* Mutations of the definitions that follow have a name with an underscore and what is
\* wrong with them: TLC refutes a property with each.

\* Only one of the parents is gone on with.
Walked_first(c) ==
  /\ seen' = seen \cup {c} /\ dropped' = dropped \ {c}
  /\ heads' = (heads \ {c}) \cup
       (IF parents[c] = {} THEN {} ELSE {CHOOSE p \in parents[c] : TRUE} \ (seen \cup {c}))

\* ObjectStoreGraphWalker.next() for a head: its parents are heads, but for those met.
Walked(c) ==
  /\ seen' = seen \cup {c} /\ dropped' = dropped \ {c}
  /\ heads' = (heads \ {c}) \cup (parents[c] \ (seen \cup {c}))

RECURSIVE AckLoop(_, _)
\* ack(): some commits, then the parents of those whose parents are remembered, and so on,
\* are no heads any more; it ends when there are no heads.
AckLoop(ancestors, w) ==
  IF w.heads = {} THEN w
  ELSE LET more == UNION {parents[a] : a \in ancestors \cap (w.seen \ w.dropped)}
           now == [heads |-> w.heads \ ancestors, seen |-> w.seen \cup ancestors,
                   dropped |-> w.dropped \cup ancestors]
       IN IF more = {} THEN now ELSE AckLoop(more, now)

Acked(c) ==
  LET w == AckLoop({c}, [heads |-> heads, seen |-> seen, dropped |-> dropped])
  IN /\ heads' = w.heads /\ seen' = w.seen /\ dropped' = w.dropped
     /\ acked' = acked \cup {c}

ClientGoes(step) == pc' = step
ServerGoes(step) == at' = step
Send(line) == up' = Append(up, line)

\* _handle_upload_pack_head(): the next commit is sent, if there is one.
SayHave ==
  /\ kind = "fetch" /\ pc = "have" /\ heads # {}
  /\ \E c \in heads : Walked(c) /\ Send(<<"have", c>>) /\ said' = said \cup {c}
  /\ ClientGoes("acks")
  /\ UNCHANGED <<chosen, at, down, common, base, finder, received, acked, push, socket>>

\* can_read() is false: there is no line, or it is on its way, or it is in the buffer of
\* the socket's file, of which select() does not know.
NoAck ==
  /\ kind = "fetch" /\ pc = "acks" /\ ClientGoes("have")
  /\ UNCHANGED <<chosen, at, up, down, fetch, push, socket>>

\* A line is read.  Where one kind of acknowledgement is due the third word is looked at;
\* an ACK without one (of a server that knows but one ACK) raises IndexError.
ReadAck ==
  /\ kind = "fetch" /\ pc = "acks" /\ down # <<>> /\ down' = Tail(down)
  /\ IF down[1][1] = "ACK"
     THEN /\ Acked(down[1][2])
          /\ ClientGoes(CASE down[1][3] \in {"continue", "common"} -> "have"
                          [] down[1][3] = "ready" -> "done"
                          [] OTHER -> "raised")
     ELSE ClientGoes("have") /\ UNCHANGED <<walker, acked>>
  /\ UNCHANGED <<chosen, at, up, common, base, finder, received, said, push, socket>>

SayDone ==
  /\ kind = "fetch" /\ ((pc = "have" /\ heads = {}) \/ pc = "done")
  /\ Send(<<"done", Zero>>) /\ ClientGoes("tail")
  /\ UNCHANGED <<chosen, at, down, fetch, push, socket>>

\* _handle_upload_pack_tail(): lines are read as long as more are announced.  (The walker,
\* which hears of them too, is not asked any more.)
ReadTail ==
  /\ kind = "fetch" /\ pc = "tail" /\ down # <<>> /\ down' = Tail(down)
  /\ IF down[1][1] = "ACK" /\ down[1][3] \in {"ready", "continue", "common"}
     THEN UNCHANGED pc ELSE ClientGoes("pack")
  /\ UNCHANGED <<chosen, at, up, fetch, push, socket>>

\* _read_side_band64k_data(): a line that is of no channel raises AssertionError.
ReadPack ==
  /\ kind = "fetch" /\ pc = "pack" /\ down # <<>> /\ down' = Tail(down)
  /\ IF down[1][1] = "pack"
     THEN received' = down[1][2] /\ ClientGoes("end")
     ELSE ClientGoes("raised") /\ UNCHANGED received
  /\ UNCHANGED <<chosen, at, up, walker, common, base, finder, acked, said, push, socket>>

-----------------------------------------------------------------------------
\* _is_satisfied(): going back from what is wanted, by parents that are not earlier than
\* the earliest of what the client has, one of these is met.  A tag is never.
IsSatisfied(have, want) ==
  LET earliest == Min({time[h] : h \in have})
      RECURSIVE from(_)
      from(c) == c \in have \/ \E p \in parents[c] : time[p] >= earliest /\ from(p)
  IN want \in Commits /\ from(want)

\* One is enough.
AllWantsSatisfied_one(have) == \E w \in wants : IsSatisfied(have, w)

\* all_wants_satisfied().
AllWantsSatisfied(have) == \A w \in wants : IsSatisfied(have, w)

\* The word that says what kind of acknowledgement it is is left out.
Acknowledge_bare(c, have) == IF base THEN <<>> ELSE <<<<"ACK", c, "">>>>

\* The lines that ack() of the walker's implementation sends.
Acknowledge(c, have) ==
  CASE base -> <<>>
    [] level = "single" -> <<<<"ACK", c, "">>>>
    [] level = "multi" -> <<<<"ACK", c, "continue">>>>
    [] level = "detailed" ->
         <<<<"ACK", c, "common">>>> \o
         (IF AllWantsSatisfied(have) THEN <<<<"ACK", c, "ready">>>> ELSE <<>>)

\* next(): what is sent at once, as all wants are satisfied.
BlindAck(c) ==
  CASE ~base \/ level = "single" -> <<>>
    [] level = "multi" -> <<<<"ACK", c, "continue">>>>
    [] level = "detailed" -> <<<<"ACK", c, "ready">>>>

\* find_common_revisions(): a commit that the client has, and that may be here as well.
HearHave ==
  /\ kind = "fetch" /\ at = "read" /\ up # <<>> /\ up[1][1] = "have" /\ up' = Tail(up)
  /\ LET c == up[1][2]
         have == ToSet(common) \cup {c}
     IN IF c \in ServerHas
        THEN /\ common' = Append(common, c)
             /\ down' = down \o BlindAck(c) \o Acknowledge(c, have)
             /\ base' = (base \/ level = "single" \/ AllWantsSatisfied(have))
        ELSE down' = down \o BlindAck(c) /\ UNCHANGED <<common, base>>
  /\ UNCHANGED <<chosen, pc, at, walker, finder, received, acked, said, push, socket>>

\* The last line says that there are more.
LastAck_common ==
  CASE level = "single" -> IF base THEN <<>> ELSE <<<<"NAK", Zero, "">>>>
    [] common # <<>> -> <<<<"ACK", Last(common), "common">>>>
    [] OTHER -> <<<<"NAK", Zero, "">>>>

\* next() for "done".
LastAck ==
  CASE level = "single" -> IF base THEN <<>> ELSE <<<<"NAK", Zero, "">>>>
    [] common # <<>> -> <<<<"ACK", Last(common), "">>>>
    [] OTHER -> <<<<"NAK", Zero, "">>>>

\* MissingObjectFinder.__init__(): todo has what the client wants; an entry says whether
\* the object is a leaf, which is not looked into.
HearDone ==
  /\ kind = "fetch" /\ at = "read" /\ up # <<>> /\ up[1][1] = "done" /\ up' = Tail(up)
  /\ down' = down \o LastAck
  /\ done' = ToSet(common) /\ todo' = {<<w, FALSE>> : w \in wants \ ToSet(common)}
  /\ ServerGoes("find")
  /\ UNCHANGED <<chosen, pc, walker, common, base, sent, twice, received, acked, said, push,
                 socket>>

\* What parse_commit(), parse_tree() and parse_tag() are to do.
Parsed(o) ==
  IF o \in Trees THEN {<<e[2], e[1] = "file">> : e \in {x \in Entries[o] : x[1] # "link"}}
  ELSE {<<l, FALSE>> : l \in Links(o)}

\* The tags of a commit, if the client asked for them (include-tag).
TagsOf(o) == IF tagged THEN {<<t, TRUE>> : t \in {x \in Tags : Target[x] = o}} ELSE {}

\* What was done meanwhile is found again.
FindNext_again ==
  /\ kind = "fetch" /\ at = "find"
  /\ \E e \in todo :
       /\ todo' = (todo \ {e}) \cup
            {x \in (IF e[2] THEN {} ELSE Parsed(e[1])) \cup TagsOf(e[1]) : x[1] \notin done}
       /\ done' = done \cup {e[1]} /\ sent' = sent \cup {e[1]}
       /\ twice' = (twice \/ e[1] \in sent)
  /\ UNCHANGED <<chosen, pc, at, up, down, walker, common, base, received, acked, said, push,
                 socket>>

\* Trees are taken for leaves.
FindNext_leaf ==
  /\ kind = "fetch" /\ at = "find"
  /\ \E e \in todo :
       IF e[1] \in done THEN todo' = todo \ {e} /\ UNCHANGED <<done, sent, twice>>
       ELSE /\ todo' = (todo \ {e}) \cup
                 {x \in (IF e[2] \/ e[1] \in Trees THEN {} ELSE Parsed(e[1]))
                    \cup TagsOf(e[1]) : x[1] \notin done}
            /\ done' = done \cup {e[1]} /\ sent' = sent \cup {e[1]}
            /\ twice' = (twice \/ e[1] \in sent)
  /\ UNCHANGED <<chosen, pc, at, up, down, walker, common, base, received, acked, said, push,
                 socket>>

\* MissingObjectFinder.next(): any entry, unless the object was done meanwhile.
FindNext ==
  /\ kind = "fetch" /\ at = "find"
  /\ \E e \in todo :
       IF e[1] \in done THEN todo' = todo \ {e} /\ UNCHANGED <<done, sent, twice>>
       ELSE /\ todo' = (todo \ {e}) \cup
                 {x \in (IF e[2] THEN {} ELSE Parsed(e[1])) \cup TagsOf(e[1]) : x[1] \notin done}
            /\ done' = done \cup {e[1]} /\ sent' = sent \cup {e[1]}
            /\ twice' = (twice \/ e[1] \in sent)
  /\ UNCHANGED <<chosen, pc, at, up, down, walker, common, base, received, acked, said, push,
                 socket>>

\* UploadPackHandler.handle(): the pack, be it empty, and the end.
SendPack ==
  /\ kind = "fetch" /\ at = "find" /\ todo = {}
  /\ down' = Append(down, <<"pack", sent>>) /\ ServerGoes("end")
  /\ UNCHANGED <<chosen, pc, up, fetch, push, socket>>

-----------------------------------------------------------------------------
\* A line of the report: for the pack, then for each reference; nothing, for the end.
\* Its pieces are numbered, and know the line and its length; the first four are the length
\* that pkt_line() puts before it.
LineSize(line) == CASE line = <<>> -> 4 [] line[1] = "unpack" -> 7 [] OTHER -> 6
Pieces(line) ==
  [i \in 1..LineSize(line) |-> [line |-> line, at |-> i, size |-> LineSize(line)]]

\* What Python takes for line[:n] and line[n:].
UpTo(s, n) == SubSeq(s, 1, IF n >= 0 THEN Min({n, Len(s)}) ELSE Max({0, Len(s) + n}))
From(s, n) == SubSeq(s, 1 + (IF n >= 0 THEN Min({n, Len(s)}) ELSE Max({0, Len(s) + n})), Len(s))

\* The part of the line that fitted is kept again.
Buffered_twice(w, piece) ==
  LET over == w.len + Len(piece) - bufsize
      start == Len(piece) - over
      out == w.buf \o UpTo(piece, start)
  IN IF over < 0
     THEN [w EXCEPT !.buf = @ \o piece, !.len = @ + Len(piece)]
     ELSE [buf |-> piece, len |-> w.len + Len(piece), out |-> Append(w.out, out)]

\* BufferedPktLineWriter.write(): what is too much for the buffer is kept, and the rest
\* written with what there was.  flush() does not set the length back.
Buffered(w, piece) ==
  LET over == w.len + Len(piece) - bufsize
      start == Len(piece) - over
      out == w.buf \o UpTo(piece, start)
      saved == From(piece, start)
  IN IF over < 0
     THEN [w EXCEPT !.buf = @ \o piece, !.len = @ + Len(piece)]
     ELSE [buf |-> saved, len |-> w.len + Len(saved),
           out |-> IF out = <<>> THEN w.out ELSE Append(w.out, out)]

\* _report_status(): the lines as they are written to the side band.
Chunks(lines) ==
  LET RECURSIVE after(_)
      after(n) == IF n = 0 THEN [buf |-> <<>>, len |-> 0, out |-> <<>>]
                  ELSE Buffered(after(n - 1), Pieces(lines[n]))
      w == after(Len(lines))
  IN IF w.buf = <<>> THEN w.out ELSE Append(w.out, w.buf)

\* What is not a whole line yet is forgotten.
Parsing_forgets(buf) ==
  LET RECURSIVE from(_, _)
      from(b, lines) ==
        IF Len(b) < 4 \/ b[1].size > Len(b) THEN [rest |-> <<>>, lines |-> lines]
        ELSE from(SubSeq(b, b[1].size + 1, Len(b)), Append(lines, b[1].line))
  IN from(buf, <<>>)

\* PktLineParser.parse(): the lines that are whole, and what is kept for later.
Parsing(buf) ==
  LET RECURSIVE from(_, _)
      from(b, lines) ==
        IF Len(b) < 4 \/ b[1].size > Len(b) THEN [rest |-> b, lines |-> lines]
        ELSE from(SubSeq(b, b[1].size + 1, Len(b)), Append(lines, b[1].line))
  IN from(buf, <<>>)

\* _handle_receive_pack_head(): what is to be changed, and what to send for it: all that is
\* reached from the new heads and not from the old ones (generate_pack_contents()).
Changes == {r \in Branches : old[r] # new[r]}
HaveTips == {old[r] : r \in Branches} \ {Zero}
WantTips == {new[r] : r \in Branches} \ (HaveTips \cup {Zero})
ToSend == IF WantTips = {} THEN {} ELSE Reach(WantTips, HaveTips)

\* send_pack(): it returns if there is nothing to change; a pack is written only if there
\* is something in it.
SendChanges ==
  /\ kind = "push" /\ pc = "commands"
  /\ up' = up \o <<<<"commands", Changes>>>> \o
           (IF ToSend = {} THEN <<>> ELSE <<<<"pack", ToSend>>>>)
  /\ IF WantTips = {} /\ Changes = {}
     THEN ClientGoes("end") /\ outcome' = "ok" ELSE ClientGoes("report") /\ UNCHANGED outcome
  /\ UNCHANGED <<chosen, at, down, fetch, refs, old, new, left, status, unpacked, readahead,
                 told, socket>>

\* ReceivePackHandler.handle(): the changes, if there are any.
HearChanges ==
  /\ kind = "push" /\ at = "commands" /\ up # <<>> /\ up' = Tail(up)
  /\ left' = up[1][2] /\ ServerGoes(IF up[1][2] = {} THEN "end" ELSE "unpack")
  /\ UNCHANGED <<chosen, pc, down, fetch, refs, old, new, status, unpacked, readahead, told,
                 outcome, socket>>

\* add_thin_pack(): good, or one of the errors that _apply_pack() catches; it goes on in any
\* case.  Any other ends the connection, which is left out.
Unpack ==
  /\ kind = "push" /\ at = "unpack" /\ up # <<>> /\ up' = Tail(up)
  /\ \E good \in BOOLEAN : unpacked' = good /\ status' = <<<<"unpack", good>>>>
  /\ ServerGoes("update")
  /\ UNCHANGED <<chosen, pc, down, fetch, refs, old, new, left, readahead, told, outcome, socket>>

\* An error is not reported.
Update_silent ==
  /\ kind = "push" /\ at = "update"
  /\ \E r \in left, ok \in BOOLEAN :
       /\ left' = left \ {r} /\ status' = Append(status, <<r, TRUE>>)
       /\ refs' = IF ok THEN [refs EXCEPT ![r] = new[r]] ELSE refs
  /\ UNCHANGED <<chosen, pc, at, up, down, fetch, old, new, unpacked, readahead, told, outcome,
                 socket>>

\* _apply_pack(): one reference is set or removed, whatever it is by now, or that failed.
Update ==
  /\ kind = "push" /\ at = "update"
  /\ \E r \in left, ok \in BOOLEAN :
       /\ left' = left \ {r} /\ status' = Append(status, <<r, ok>>)
       /\ refs' = IF ok THEN [refs EXCEPT ![r] = new[r]] ELSE refs
  /\ UNCHANGED <<chosen, pc, at, up, down, fetch, old, new, unpacked, readahead, told, outcome,
                 socket>>

Report ==
  /\ kind = "push" /\ at = "update" /\ left = {} /\ ServerGoes("end")
  /\ down' = [i \in DOMAIN Chunks(Append(status, <<>>)) |->
                <<"chunk", Chunks(Append(status, <<>>))[i]>>] \o <<<<"flush", <<>>>>>>
  /\ UNCHANGED <<chosen, pc, up, fetch, push, socket>>

\* _handle_receive_pack_tail(): a part of the report.  A line after the end raises
\* GitProtocolError (ReportStatusParser.handle_packet()).
ReadReport ==
  /\ kind = "push" /\ pc = "report" /\ down # <<>> /\ down' = Tail(down)
  /\ down[1][1] = "chunk"
  /\ LET p == Parsing(readahead \o down[1][2])
     IN /\ readahead' = p.rest /\ told' = told \o p.lines
        /\ IF \E i \in 1..Len(told \o p.lines) - 1 : (told \o p.lines)[i] = <<>>
           THEN ClientGoes("raised") ELSE UNCHANGED pc
  /\ UNCHANGED <<chosen, at, up, fetch, refs, old, new, left, status, unpacked, outcome, socket>>

\* ReportStatusParser.check(): the first line is of the pack, or there is none.
Checked ==
  LET lines == SelectSeq(told, LAMBDA l : l # <<>>)
  IN CASE lines # <<>> /\ lines[1] # <<"unpack", TRUE>> -> "SendPackError"
       [] \E i \in 2..Len(lines) : ~lines[i][2] -> "UpdateRefsError"
       [] OTHER -> "ok"

EndReport ==
  /\ kind = "push" /\ pc = "report" /\ down # <<>> /\ down[1][1] = "flush"
  /\ down' = Tail(down) /\ outcome' = Checked /\ ClientGoes("end")
  /\ UNCHANGED <<chosen, at, up, fetch, refs, old, new, left, status, unpacked, readahead, told,
                 socket>>

-----------------------------------------------------------------------------
\* The socket gives what there is next: the numbers from wire + 1 on.
Next_(n) == [i \in 1..n |-> wire + i]
Unread == SubSeq(rbuf, rpos + 1, Len(rbuf))
Returned(s) == rv' = s /\ given' = given + Len(s)

\* What was left in the buffer is read from its start.
ReadAll_start(size) ==
  /\ kind = "wire" /\ asked' = size
  /\ IF Len(Unread) >= size
     THEN /\ Returned(SubSeq(rbuf, 1, size)) /\ rpos' = 0 /\ UNCHANGED wire
          /\ rbuf' = SubSeq(rbuf, size + 1, Len(rbuf))
     ELSE LET n == Min({size - Len(Unread), StreamLen - wire})
          IN /\ Returned(Unread \o Next_(n)) /\ wire' = wire + n /\ rbuf' = <<>> /\ rpos' = 0
  /\ UNCHANGED <<chosen, pc, at, up, down, fetch, push>>

\* ReceivableProtocol.read(): what is in the buffer and, if that is not enough, what is
\* missing, until the stream ends.
ReadAll(size) ==
  /\ kind = "wire" /\ asked' = size
  /\ IF Len(Unread) >= size
     THEN /\ Returned(SubSeq(Unread, 1, size)) /\ rpos' = 0 /\ UNCHANGED wire
          /\ rbuf' = SubSeq(Unread, size + 1, Len(Unread))
     ELSE LET n == Min({size - Len(Unread), StreamLen - wire})
          IN /\ Returned(Unread \o Next_(n)) /\ wire' = wire + n /\ rbuf' = <<>> /\ rpos' = 0
  /\ UNCHANGED <<chosen, pc, at, up, down, fetch, push>>

\* recv(): what is in the buffer; if that is nothing, what the socket gives, of which what
\* was not asked for is kept.
Recv(size) ==
  /\ kind = "wire" /\ asked' = 1
  /\ IF Unread = <<>>
     THEN \E n \in (IF wire = StreamLen THEN {0} ELSE 1..Min({RBufSize, StreamLen - wire})) :
            /\ wire' = wire + n
            /\ IF n = size THEN Returned(Next_(n)) /\ UNCHANGED <<rbuf, rpos>>
               ELSE /\ Returned(SubSeq(Next_(n), 1, Min({n, size})))
                    /\ rbuf' = Next_(n) /\ rpos' = Min({n, size})
     ELSE /\ Returned(SubSeq(Unread, 1, Min({size, Len(Unread)})))
          /\ rpos' = rpos + Min({size, Len(Unread)}) /\ UNCHANGED <<rbuf, wire>>
  /\ UNCHANGED <<chosen, pc, at, up, down, fetch, push>>

Next ==
  \/ SayHave \/ NoAck \/ ReadAck \/ SayDone \/ ReadTail \/ ReadPack
  \/ HearHave \/ HearDone \/ FindNext \/ SendPack
  \/ SendChanges \/ HearChanges \/ Unpack \/ Update \/ Report \/ ReadReport \/ EndReport
  \/ \E size \in Sizes : ReadAll(size) \/ Recv(size)

Spec == Init /\ [][Next]_vars

-----------------------------------------------------------------------------
\* A fetch that ends leaves the client with all that is reached from what it wanted, and
\* with nothing whose parts it has not; each object is sent once, and none that was
\* acknowledged as common.
FetchIsComplete ==
  /\ ~twice /\ sent \cap ToSet(common) = {}
  /\ kind = "fetch" /\ pc = "end" =>
       /\ Reach(wants, {}) \subseteq received \cup ClientHas
       /\ Reach(received, {}) \subseteq received \cup ClientHas

\* Before the client is through with its history, it has said each of its commits or had
\* an acknowledgement of one that this one is an ancestor of.
WalkIsComplete ==
  kind = "fetch" /\ pc = "tail" /\ heads = {} =>
    \A c \in Ancestors(tips, parents) : c \in said \/ c \in Ancestors(acked, parents)

\* The server stops looking for common commits only when there is a way back to one from
\* each of the commits that are wanted.
BaseIsReached ==
  kind = "fetch" /\ level # "single" /\ base =>
    \A w \in wants : w \in Commits /\ Ancestors({w}, parents) \cap ToSet(common) # {}

\* With more than one kind of acknowledgement, each line is understood by the one it is for,
\* however late the client gets to read it.
LinesAreUnderstood == pc = "raised" => kind = "fetch" /\ level = "single"

\* Client and server never wait for each other, but for one case: a push in which there is
\* nothing to send (a reference is removed, or set to what the server has) has no pack, and
\* the server waits for one.
NobodyWaits ==
  LET waits == kind # "wire" /\ pc \in {"tail", "pack", "report"} /\ down = <<>>
  IN waits => /\ at # "end"
              /\ up = <<>> /\ at \in {"read", "commands", "unpack"} => kind = "push" /\ ToSend = {}

\* What send_pack() returns or raises is what became of the pack and of the references,
\* however the report was cut into pieces.
ReportIsTrue ==
  kind = "push" /\ pc = "end" =>
    /\ readahead = <<>>
    /\ outcome = "ok" => refs = new /\ (Changes # {} => unpacked)
    /\ outcome = "SendPackError" <=> Changes # {} /\ ~unpacked
    /\ outcome = "UpdateRefsError" <=> Changes # {} /\ unpacked /\ refs # new

\* What is read from the socket is given in order, and nothing of it lost, in whatever
\* pieces it comes; read() gives less than was asked for only at the end.
StreamIsInOrder ==
  /\ rv = [i \in 1..Len(rv) |-> given - Len(rv) + i]
  /\ Unread = [i \in 1..Len(Unread) |-> given + i] /\ given + Len(Unread) = wire
  /\ Len(rv) < asked => wire = StreamLen
==============================================================================
