------------------------------ MODULE ObjectStream -----------------------------
(***************************************************************************)
(* objectstream.py: objects over a socket, each as its length in four      *)
(* bytes and its dump.  The socket takes and gives bytes in pieces of any  *)
(* size; the process at the other end may die at any time, in the middle   *)
(* of an object too.  One direction is modelled, the other is the same.    *)
(***************************************************************************)
EXTENDS Integers, Sequences, SequencesExt, SequenceTheorems, TLAPS

CONSTANTS
  Sizes,    \* the lengths of dumps
  Base,     \* how many values a byte has: 256
  Room,     \* how many bytes the socket holds
  MaxSent   \* bound on the objects

\* No object has an empty dump, and none is so long that struct.pack refuses its
\* length: here the last of the four bytes holds whatever is left of it.  The theorems
\* assume no more of the constants.
SizesFit == Sizes \subseteq Nat \ {0} /\ Base \in Nat \ {0} /\ Room \in Nat /\ MaxSent \in Nat

VARIABLES
  sent,        \* the dumps of the objects given to send_object
  whole,       \* for how many of them sendall has returned
  unsent,      \* what sendall still has to send
  wire,        \* what the socket holds
  open,        \* the sending process lives
  length_str,  \* recv_object's bytes of the length
  parts,       \* and of the dump
  got,         \* the dumps that were loaded
  failed       \* recv_object raised IOError: "Socket closed unexpectedly"

vars == <<sent, whole, unsent, wire, open, length_str, parts, got, failed>>

\* struct.pack('<l', n) and struct.unpack('<i', s): the lowest byte first.
Packed(n) == << n % Base, (n \div Base) % Base, ((n \div Base) \div Base) % Base,
                ((n \div Base) \div Base) \div Base >>

Unpacked(s) == s[1] + Base * (s[2] + Base * (s[3] + Base * s[4]))

\* The dump of the i-th object: bytes, not those of the objects next to it.
Dumped(i, n) == [k \in 1 .. n |-> (i + k) % Base]

Init ==
  /\ sent = <<>> /\ whole = 0 /\ unsent = <<>> /\ wire = <<>> /\ open = TRUE
  /\ length_str = <<>> /\ parts = <<>> /\ got = <<>> /\ failed = FALSE

\* Mutations of the definitions that follow, each the mark of a plausible slip
\* in the code, have an underscore in their names and are used by no other
\* definition: TLC refutes a property with each of them.

\* send_object()
SendObject ==
  /\ open /\ unsent = <<>> /\ Len(sent) < MaxSent
  /\ \E n \in Sizes :
       LET s == Dumped(Len(sent) + 1, n)
       IN  /\ sent' = Append(sent, s)
           /\ unsent' = Packed(n) \o s
  /\ UNCHANGED <<whole, wire, open, length_str, parts, got, failed>>

\* An object counts as sent with its first piece.
SendAll_first ==
  /\ open /\ unsent # <<>>
  /\ \E n \in 1 .. Len(unsent) :
       /\ Len(wire) + n <= Room
       /\ wire' = wire \o SubSeq(unsent, 1, n)
       /\ unsent' = SubSeq(unsent, n + 1, Len(unsent))
       /\ whole' = whole + 1
  /\ UNCHANGED <<sent, open, length_str, parts, got, failed>>

\* The socket takes some of what sendall has, which waits while there is no room.
SendAll ==
  /\ open /\ unsent # <<>>
  /\ \E n \in 1 .. Len(unsent) :
       /\ Len(wire) + n <= Room
       /\ wire' = wire \o SubSeq(unsent, 1, n)
       /\ unsent' = SubSeq(unsent, n + 1, Len(unsent))
       /\ whole' = IF unsent' = <<>> THEN whole + 1 ELSE whole
  /\ UNCHANGED <<sent, open, length_str, parts, got, failed>>

\* The process dies.  What it has sent can still be read.
Die ==
  /\ open
  /\ open' = FALSE /\ unsent' = <<>>
  /\ UNCHANGED <<sent, whole, wire, length_str, parts, got, failed>>

\* What sock.recv(n) may return when there is something to return.
Recv(n) == {SubSeq(wire, 1, k) : k \in {k \in 1 .. n : k <= Len(wire)}}

\* recv(4) is called once: what comes is taken for the whole length.
RecvLength_once ==
  /\ ~failed /\ length_str = <<>>
  /\ \E r \in Recv(4) :
       /\ length_str' = r \o [i \in 1 .. 4 - Len(r) |-> 0]
       /\ wire' = SubSeq(wire, Len(r) + 1, Len(wire))
  /\ UNCHANGED <<sent, whole, unsent, open, parts, got, failed>>

\* A turn of the loop that reads the length.
RecvLength ==
  /\ ~failed /\ Len(length_str) < 4
  /\ \E r \in Recv(4 - Len(length_str)) :
       /\ length_str' = length_str \o r
       /\ wire' = SubSeq(wire, Len(r) + 1, Len(wire))
  /\ UNCHANGED <<sent, whole, unsent, open, parts, got, failed>>

\* A turn of the loop that reads the dump, and what follows the last one: load.
RecvPart ==
  /\ ~failed /\ Len(length_str) = 4
  /\ \E r \in Recv(Unpacked(length_str) - Len(parts)) :
       /\ wire' = SubSeq(wire, Len(r) + 1, Len(wire))
       /\ IF Len(parts) + Len(r) < Unpacked(length_str)
          THEN parts' = parts \o r /\ UNCHANGED <<length_str, got>>
          ELSE got' = Append(got, parts \o r) /\ length_str' = <<>> /\ parts' = <<>>
  /\ UNCHANGED <<sent, whole, unsent, open, failed>>

\* The end of the connection, in the middle of a dump, ends the dump.
RecvNothing_part ==
  /\ ~failed /\ ~open /\ wire = <<>>
  /\ got' = IF parts = <<>> THEN got ELSE Append(got, parts)
  /\ failed' = TRUE /\ length_str' = <<>> /\ parts' = <<>>
  /\ UNCHANGED <<sent, whole, unsent, wire, open>>

\* Only the loop for the length sees that there is nothing.
RecvNothing_length ==
  /\ ~failed /\ ~open /\ wire = <<>> /\ Len(length_str) < 4
  /\ failed' = TRUE /\ length_str' = <<>> /\ parts' = <<>>
  /\ UNCHANGED <<sent, whole, unsent, wire, open, got>>

\* recv returns nothing: IOError.
RecvNothing ==
  /\ ~failed /\ ~open /\ wire = <<>>
  /\ failed' = TRUE /\ length_str' = <<>> /\ parts' = <<>>
  /\ UNCHANGED <<sent, whole, unsent, wire, open, got>>

Next == SendObject \/ SendAll \/ Die \/ RecvLength \/ RecvPart \/ RecvNothing

Spec == Init /\ [][Next]_vars

\* The socket moves bytes while there is room, and the receiver reads.
Fairness == WF_vars(SendAll) /\ WF_vars(RecvLength \/ RecvPart \/ RecvNothing)

FairSpec == Spec /\ Fairness

-------------------------------------------------------------------------------
TypeOK ==
  /\ \A i \in DOMAIN sent : sent[i] \in {Dumped(i, n) : n \in Sizes}
  /\ whole \in {Len(sent), Len(sent) - 1} /\ open \in BOOLEAN /\ failed \in BOOLEAN
  /\ Len(wire) <= Room /\ Len(length_str) <= 4
  /\ parts # <<>> => Len(length_str) = 4

\* The objects arrive as the abstract queue says: whole, in order, none twice,
\* and none that was sent in whole is missing when the receiver gets IOError.
Queue == INSTANCE ObjectQueue

ImplementsQueue == Queue!Spec

\* What recv_object has read belongs to the object that is next: two objects'
\* bytes are never mixed.
PartsAreOfOne ==
  parts # <<>> => /\ Len(got) < Len(sent)
                  /\ IsPrefix(parts, sent[Len(got) + 1])
                  /\ Unpacked(length_str) = Len(sent[Len(got) + 1])

\* An object that was sent in whole is received, also if the sender dies after
\* it, and a receiver that waits for more learns that the sender has died:
\* recv_object never waits for ever for half an object.
ArrivesOrFails ==
  /\ \A i \in 1 .. MaxSent : (whole >= i) ~> (Len(got) >= i)
  /\ ~open ~> failed

-------------------------------------------------------------------------------
(***************************************************************************)
(* That the stream implements the queue is proved.  Any number of objects  *)
(* may be in the socket, so the invariant says where the bytes of each     *)
(* begin in what the receiver will get.                                    *)
(***************************************************************************)

\* The bytes that stand for a dump.
Frame(s) == Packed(Len(s)) \o s

\* What the receiver has and will get.
Held == length_str \o parts \o wire

\* Behind the g objects that were received the bytes of the others follow one another in h,
\* the i-th from start[i] on, as far as h goes: to the end of object w, and not to that of
\* the next.
Laid(start, s, g, w, h) ==
  /\ start \in [g + 1 .. Len(s) + 1 -> Nat] /\ start[g + 1] = 0
  /\ \A i \in g + 1 .. Len(s) : start[i + 1] = start[i] + 4 + Len(s[i])
  /\ \A i, j \in g + 1 .. Len(s) + 1 : i <= j => start[i] <= start[j]
  /\ Len(h) <= start[Len(s) + 1]
  /\ \A i \in g + 1 .. Len(s) : \A k \in 1 .. 4 + Len(s[i]) :
       start[i] + k <= Len(h) => h[start[i] + k] = Frame(s[i])[k]
  /\ \A i \in g + 1 .. w : start[i + 1] <= Len(h)
  /\ w < Len(s) => Len(h) < start[Len(s) + 1]

\* sendall has what is missing of the last object.
Pending(start, s, w, h, u) ==
  /\ u = <<>> => w = Len(s) /\ Len(h) = start[Len(s) + 1]
  /\ u # <<>> =>
       /\ w = Len(s) - 1 /\ Len(h) + Len(u) = start[Len(s) + 1]
       /\ Len(u) <= 4 + Len(s[Len(s)])
       /\ \A k \in 1 .. Len(u) : u[k] = Frame(s[Len(s)])[4 + Len(s[Len(s)]) - Len(u) + k]

Typed ==
  /\ sent \in Seq(Seq(Int)) /\ got \in Seq(Seq(Int)) /\ whole \in Nat
  /\ \A i \in 1 .. Len(sent) : sent[i] \in {Dumped(i, n) : n \in Sizes}
  /\ unsent \in Seq(Int) /\ wire \in Seq(Int) /\ length_str \in Seq(Int) /\ parts \in Seq(Int)
  /\ open \in BOOLEAN /\ failed \in BOOLEAN /\ Len(wire) <= Room

Counted ==
  /\ whole \in {Len(sent), Len(sent) - 1} /\ Len(got) <= whole
  /\ (unsent # <<>> => open) /\ (failed => ~open /\ parts = <<>>)

\* recv_object is in the middle of the first object that was not received.
Reading ==
  /\ Len(length_str) <= 4 /\ (parts # <<>> => Len(length_str) = 4)
  /\ Len(length_str) = 4 => Len(got) < Len(sent) /\ Len(parts) < Len(sent[Len(got) + 1])

IInv ==
  /\ Typed /\ Counted /\ Reading
  /\ ~failed => \E start : /\ Laid(start, sent, Len(got), whole, Held)
                           /\ open => Pending(start, sent, whole, Held, unsent)

\* A length can be told from its bytes.
LEMMA PackedLength ==
  ASSUME SizesFit, NEW n \in Nat
  PROVE  /\ Packed(n) \in Seq(Int) /\ Len(Packed(n)) = 4
         /\ \A s \in Seq(Int) : (\A k \in 1 .. 4 : s[k] = Packed(n)[k]) => Unpacked(s) = n
<1> DEFINE a == n \div Base
<1> DEFINE b == a \div Base
<1> DEFINE c == b \div Base
<1>1. Base \in Nat /\ Base > 0
  BY DEF SizesFit
<1>2. \A m \in Nat : m \div Base \in Nat /\ m % Base \in Nat /\ m = (m \div Base) * Base + (m % Base)
  BY <1>1
<1>3. a \in Nat /\ n = a * Base + (n % Base) /\ n % Base \in Nat
  BY <1>2
<1>4. b \in Nat /\ a = b * Base + (a % Base) /\ a % Base \in Nat
  BY <1>2, <1>3
<1>5. c \in Nat /\ b = c * Base + (b % Base) /\ b % Base \in Nat
  BY <1>2, <1>4
<1>6. Packed(n) = <<n % Base, a % Base, b % Base, c>>
  BY DEF Packed
<1>7. Packed(n) \in Seq(Int) /\ Len(Packed(n)) = 4
  BY <1>3, <1>4, <1>5, <1>6
<1>8. ASSUME NEW s \in Seq(Int), \A k \in 1 .. 4 : s[k] = Packed(n)[k] PROVE Unpacked(s) = n
  <2>1. s[1] = n % Base /\ s[2] = a % Base /\ s[3] = b % Base /\ s[4] = c
    BY <1>6, <1>8
  <2>2. s[3] + Base * s[4] = b
    BY <2>1, <1>5, <1>1
  <2>3. s[2] + Base * b = a
    BY <2>1, <1>4, <1>1
  <2>4. s[1] + Base * a = n
    BY <2>1, <1>3, <1>1
  <2> QED BY <2>2, <2>3, <2>4 DEF Unpacked
<1> QED BY <1>7, <1>8

\* Where the bytes of two sequences are in the one behind the other.
LEMMA Concat ==
  ASSUME NEW p \in Seq(Int), NEW s \in Seq(Int)
  PROVE  /\ p \o s \in Seq(Int) /\ Len(p \o s) = Len(p) + Len(s)
         /\ \A i \in 1 .. Len(p) : (p \o s)[i] = p[i]
         /\ \A i \in 1 .. Len(s) : (p \o s)[Len(p) + i] = s[i]
<1>1. /\ p \o s \in Seq(Int) /\ Len(p \o s) = Len(p) + Len(s)
      /\ \A i \in 1 .. Len(p) + Len(s) : (p \o s)[i] = IF i <= Len(p) THEN p[i] ELSE s[i - Len(p)]
  BY ConcatProperties
<1>2. ASSUME NEW i \in 1 .. Len(s) PROVE (p \o s)[Len(p) + i] = s[i]
  <2>1. Len(p) \in Nat /\ Len(s) \in Nat
    OBVIOUS
  <2> DEFINE j == Len(p) + i
  <2>2. j \in 1 .. Len(p) + Len(s) /\ ~(j <= Len(p)) /\ j - Len(p) = i
    BY <2>1
  <2> HIDE DEF j
  <2>3. (p \o s)[j] = s[i]
    BY <2>2, <1>1
  <2> QED BY <2>3 DEF j
<1>3. ASSUME NEW i \in 1 .. Len(p) PROVE (p \o s)[i] = p[i]
  BY <1>1
<1> QED BY <1>1, <1>2, <1>3

\* Sequences of bytes may be joined in any order.
LEMMA Associative ==
  ASSUME NEW a \in Seq(Int), NEW b \in Seq(Int), NEW c \in Seq(Int)
  PROVE  (a \o b) \o c = a \o (b \o c)
BY ConcatAssociative

\* Nothing joined to a sequence.
LEMMA JoinNothing ==
  ASSUME NEW a \in Seq(Int)
  PROVE  a \o <<>> = a /\ <<>> \o a = a
BY ConcatEmptySeq

\* The frame of a dump: four bytes of length and the dump.
LEMMA FrameBytes ==
  ASSUME SizesFit, NEW s \in Seq(Int)
  PROVE  /\ Frame(s) \in Seq(Int) /\ Len(Frame(s)) = 4 + Len(s)
         /\ \A k \in 1 .. 4 : Frame(s)[k] = Packed(Len(s))[k]
         /\ \A k \in 1 .. Len(s) : Frame(s)[4 + k] = s[k]
<1> DEFINE p == Packed(Len(s))
<1>1. p \in Seq(Int) /\ Len(p) = 4
  BY PackedLength
<1> HIDE DEF p
<1>2. /\ p \o s \in Seq(Int) /\ Len(p \o s) = Len(p) + Len(s)
      /\ \A i \in 1 .. Len(p) : (p \o s)[i] = p[i]
      /\ \A i \in 1 .. Len(s) : (p \o s)[Len(p) + i] = s[i]
  BY <1>1, Concat
<1> DEFINE f == p \o s
<1>3. f = Frame(s)
  BY DEF Frame, p
<1> HIDE DEF f
<1>4. f \in Seq(Int) /\ Len(f) = 4 + Len(s)
  BY <1>1, <1>2 DEF f
<1>5. \A k \in 1 .. 4 : f[k] = p[k]
  BY <1>1, <1>2 DEF f
<1>6. \A k \in 1 .. Len(s) : f[4 + k] = s[k]
  BY <1>1, <1>2 DEF f
<1> QED BY <1>3, <1>4, <1>5, <1>6 DEF p

\* The first bytes of a sequence, and what is left without them.
LEMMA TakeDrop ==
  ASSUME NEW h \in Seq(Int), NEW n \in 0 .. Len(h)
  PROVE  /\ SubSeq(h, 1, n) \in Seq(Int) /\ Len(SubSeq(h, 1, n)) = n
         /\ \A k \in 1 .. n : SubSeq(h, 1, n)[k] = h[k]
         /\ SubSeq(h, n + 1, Len(h)) \in Seq(Int) /\ Len(SubSeq(h, n + 1, Len(h))) = Len(h) - n
         /\ \A k \in 1 .. Len(h) - n : SubSeq(h, n + 1, Len(h))[k] = h[n + k]
         /\ SubSeq(h, 1, n) \o SubSeq(h, n + 1, Len(h)) = h
<1> DEFINE a == SubSeq(h, 1, n)
<1> DEFINE b == SubSeq(h, n + 1, Len(h))
<1>1. a \in Seq(Int) /\ Len(a) = n /\ \A k \in 1 .. n : a[k] = h[k]
  OBVIOUS
<1>2. b \in Seq(Int) /\ Len(b) = Len(h) - n /\ \A k \in 1 .. Len(h) - n : b[k] = h[n + k]
  OBVIOUS
<1> HIDE DEF a, b
<1>3. /\ a \o b \in Seq(Int) /\ Len(a \o b) = Len(a) + Len(b)
      /\ \A i \in 1 .. Len(a) : (a \o b)[i] = a[i]
      /\ \A i \in 1 .. Len(b) : (a \o b)[Len(a) + i] = b[i]
  BY <1>1, <1>2, Concat
<1> DEFINE c == a \o b
<1>4. c \in Seq(Int) /\ Len(c) = Len(h)
  BY <1>1, <1>2, <1>3
<1>5. ASSUME NEW i \in 1 .. Len(h) PROVE c[i] = h[i]
  <2>1. CASE i <= n
    BY <2>1, <1>1, <1>3
  <2>2. CASE n < i
    <3>1. i - n \in 1 .. Len(h) - n /\ n + (i - n) = i
      BY <2>2
    <3>2. c[n + (i - n)] = b[i - n] /\ b[i - n] = h[n + (i - n)]
      BY <3>1, <1>1, <1>2, <1>3
    <3> QED BY <3>1, <3>2
  <2>3. i <= n \/ n < i
    OBVIOUS
  <2> QED BY <2>1, <2>2, <2>3
<1> HIDE DEF c
<1>6. c = h
  BY <1>4, <1>5, SeqEqual
<1> QED BY <1>1, <1>2, <1>6 DEF a, b, c

\* The next byte for the receiver is the first of the next object.
LEMMA FirstBytes ==
  ASSUME SizesFit, NEW s \in Seq(Seq(Int)), NEW g \in Nat, g < Len(s), NEW w \in Nat,
         NEW h \in Seq(Int), NEW start, Laid(start, s, g, w, h)
  PROVE  \A k \in 1 .. 4 + Len(s[g + 1]) : k <= Len(h) => h[k] = Frame(s[g + 1])[k]
<1>1. start[g + 1] = 0 /\ g + 1 \in g + 1 .. Len(s)
  BY DEF Laid
<1>2. \A k \in 1 .. 4 + Len(s[g + 1]) : start[g + 1] + k <= Len(h) => h[start[g + 1] + k] = Frame(s[g + 1])[k]
  BY <1>1 DEF Laid
<1> QED BY <1>1, <1>2

\* One more object is sent where all the others have been.
LEMMA LaidSend ==
  ASSUME NEW s \in Seq(Seq(Int)), NEW x \in Seq(Int), NEW g \in 0 .. Len(s),
         NEW h \in Seq(Int), NEW start, Laid(start, s, g, Len(s), h), Len(h) = start[Len(s) + 1]
  PROVE  \E t : /\ Laid(t, Append(s, x), g, Len(s), h)
                /\ t[Len(s) + 2] = Len(h) + 4 + Len(x)
<1> DEFINE n == Len(s)
<1> DEFINE z == Append(s, x)
<1> DEFINE t == [i \in g + 1 .. n + 2 |-> IF i = n + 2 THEN Len(h) + 4 + Len(x) ELSE start[i]]
<1>1. z \in Seq(Seq(Int)) /\ Len(z) = n + 1 /\ z[n + 1] = x /\ \A i \in 1 .. n : z[i] = s[i]
  OBVIOUS
<1>2. n \in Nat /\ Len(h) \in Nat /\ Len(x) \in Nat
  OBVIOUS
<1>3. /\ start \in [g + 1 .. n + 1 -> Nat] /\ start[g + 1] = 0
      /\ \A i \in g + 1 .. n : start[i + 1] = start[i] + 4 + Len(s[i])
      /\ \A i, j \in g + 1 .. n + 1 : i <= j => start[i] <= start[j]
      /\ \A i \in g + 1 .. n : \A k \in 1 .. 4 + Len(s[i]) :
           start[i] + k <= Len(h) => h[start[i] + k] = Frame(s[i])[k]
      /\ \A i \in g + 1 .. n : start[i + 1] <= Len(h)
      /\ Len(h) = start[n + 1]
  BY DEF Laid
<1> HIDE DEF n, z
<1>4. t \in [g + 1 .. n + 2 -> Nat] /\ t[n + 2] = Len(h) + 4 + Len(x)
  <2>1. ASSUME NEW i \in g + 1 .. n + 2, i # n + 2 PROVE start[i] \in Nat
    <3>1. i \in g + 1 .. n + 1
      BY <1>2, <2>1
    <3> QED BY <3>1, <1>3
  <2>2. n + 2 \in g + 1 .. n + 2 /\ Len(h) + 4 + Len(x) \in Nat
    BY <1>2 DEF n
  <2> QED BY <2>1, <2>2
<1>5. \A i \in g + 1 .. n + 1 : t[i] = start[i]
  BY <1>2
<1>6. g + 1 \in g + 1 .. n + 1 /\ n + 1 \in g + 1 .. n + 1
  BY <1>2 DEF n
<1> HIDE DEF t
<1>7. t[g + 1] = 0 /\ t[n + 1] = Len(h)
  BY <1>3, <1>5, <1>6
<1>8. ASSUME NEW i \in g + 1 .. n + 1 PROVE t[i + 1] = t[i] + 4 + Len(z[i])
  <2>1. CASE i = n + 1
    BY <2>1, <1>1, <1>2, <1>4, <1>7
  <2>2. CASE i # n + 1
    <3>1. i \in g + 1 .. n /\ i \in 1 .. n /\ i + 1 \in g + 1 .. n + 1
      BY <2>2, <1>2
    <3> QED BY <3>1, <1>1, <1>3, <1>5
  <2> QED BY <2>1, <2>2
<1>9. ASSUME NEW i \in g + 1 .. n + 2, NEW j \in g + 1 .. n + 2, i <= j PROVE t[i] <= t[j]
  <2>1. CASE j # n + 2
    <3>1. i \in g + 1 .. n + 1 /\ j \in g + 1 .. n + 1
      BY <2>1, <1>2, <1>9
    <3> QED BY <3>1, <1>3, <1>5, <1>9
  <2>2. CASE j = n + 2 /\ i = n + 2
    BY <2>2, <1>4
  <2>3. CASE j = n + 2 /\ i # n + 2
    <3>1. i \in g + 1 .. n + 1
      BY <2>3, <1>2
    <3>2. start[i] <= start[n + 1] /\ start[i] \in Nat
      BY <3>1, <1>2, <1>3, <1>6
    <3> QED BY <2>3, <3>1, <3>2, <1>2, <1>3, <1>4, <1>5
  <2> QED BY <2>1, <2>2, <2>3
<1>10. ASSUME NEW i \in g + 1 .. n + 1, NEW k \in 1 .. 4 + Len(z[i]), t[i] + k <= Len(h)
       PROVE  h[t[i] + k] = Frame(z[i])[k]
  <2>1. CASE i = n + 1
    BY <2>1, <1>2, <1>7, <1>10
  <2>2. CASE i # n + 1
    <3>1. i \in g + 1 .. n /\ i \in 1 .. n
      BY <2>2, <1>2
    <3>2. z[i] = s[i] /\ t[i] = start[i]
      BY <3>1, <1>1, <1>2, <1>5
    <3> QED BY <3>1, <3>2, <1>3, <1>10
  <2> QED BY <2>1, <2>2
<1>11. ASSUME NEW i \in g + 1 .. n PROVE t[i + 1] <= Len(h)
  <2>1. i + 1 \in g + 1 .. n + 1
    BY <1>2
  <2> QED BY <2>1, <1>3, <1>5
<1>12. Laid(t, z, g, n, h)
  <2>1. Len(z) + 1 = n + 2
    BY <1>1, <1>2
  <2>2. t[Len(z) + 1] = Len(h) + 4 + Len(x)
    BY <2>1, <1>4
  <2>3. Len(h) <= t[Len(z) + 1] /\ Len(h) < t[Len(z) + 1]
    BY <2>2, <1>2
  <2>4. t \in [g + 1 .. Len(z) + 1 -> Nat] /\ \A i, j \in g + 1 .. Len(z) + 1 : i <= j => t[i] <= t[j]
    BY <2>1, <1>4, <1>9
  <2>5. \A i \in g + 1 .. Len(z) : t[i + 1] = t[i] + 4 + Len(z[i])
    BY <1>1, <1>8
  <2>6. \A i \in g + 1 .. Len(z) : \A k \in 1 .. 4 + Len(z[i]) : t[i] + k <= Len(h) => h[t[i] + k] = Frame(z[i])[k]
    BY <1>1, <1>10
  <2> QED BY <2>3, <2>4, <2>5, <2>6, <1>7, <1>11 DEF Laid
<1> QED BY <1>4, <1>12 DEF n, z

\* What is so when the socket has taken n bytes more of the last object.
Taken(start, s, g, w, h, u, n) ==
  LET v == IF SubSeq(u, n + 1, Len(u)) = <<>> THEN w + 1 ELSE w IN
  /\ Laid(start, s, g, v, h \o SubSeq(u, 1, n))
  /\ Pending(start, s, v, h \o SubSeq(u, 1, n), SubSeq(u, n + 1, Len(u)))

\* The bytes that the socket takes go where those of the last object belong.
LEMMA LaidMore ==
  ASSUME SizesFit
  PROVE  \A start : \A s \in Seq(Seq(Int)), h, u \in Seq(Int), g, w \in Nat : \A n \in 1 .. Len(u) :
           /\ w = Len(s) - 1 /\ g <= w /\ u # <<>>
           /\ Laid(start, s, g, w, h) /\ Pending(start, s, w, h, u)
           => Taken(start, s, g, w, h, u, n)
<1>1. ASSUME NEW s, NEW g, NEW w, NEW h, NEW u, NEW start, NEW n,
             s \in Seq(Seq(Int)) /\ h \in Seq(Int) /\ u \in Seq(Int) /\ g \in Nat /\ w \in Nat,
             w = Len(s) - 1 /\ g <= w /\ u # <<>> /\ n \in 1 .. Len(u),
             Laid(start, s, g, w, h), Pending(start, s, w, h, u)
      PROVE  Taken(start, s, g, w, h, u, n)
  <2> DEFINE l == Len(s)
  <2> DEFINE p == SubSeq(u, 1, n)
  <2> DEFINE r == SubSeq(u, n + 1, Len(u))
  <2> DEFINE f == Frame(s[l])
  <2> DEFINE size == [i \in 1 .. Len(s) |-> 4 + Len(s[i])]
  <2> DEFINE m == size[l]
  <2> DEFINE v == IF r = <<>> THEN w + 1 ELSE w
  <2>1. l \in Nat /\ l >= 1 /\ s[l] \in Seq(Int) /\ Len(s[l]) \in Nat /\ Len(h) \in Nat /\ Len(u) \in Nat
    BY <1>1
  <2>2. /\ p \in Seq(Int) /\ Len(p) = n /\ \A k \in 1 .. n : p[k] = u[k]
        /\ r \in Seq(Int) /\ Len(r) = Len(u) - n /\ \A k \in 1 .. Len(u) - n : r[k] = u[n + k]
    BY <1>1, TakeDrop
  <2>3. /\ Len(h) + Len(u) = start[l + 1] /\ Len(u) <= m
        /\ \A k \in 1 .. Len(u) : u[k] = f[m - Len(u) + k]
    <3>1. m = 4 + Len(s[l])
      BY <2>1
    <3> HIDE DEF m, size
    <3> QED BY <1>1, <3>1 DEF Pending
  <2>4. \A i \in g + 1 .. l : size[i] = 4 + Len(s[i]) /\ size[i] \in Nat
    <3>1. ASSUME NEW i \in g + 1 .. l PROVE size[i] = 4 + Len(s[i]) /\ size[i] \in Nat
      <4>1. i \in 1 .. Len(s)
        BY <1>1
      <4>2. s[i] \in Seq(Int)
        BY <4>1, <1>1
      <4>3. Len(s[i]) \in Nat
        BY <4>2
      <4> QED BY <4>1, <4>3
    <3> QED BY <3>1
  <2>14. l \in g + 1 .. l /\ l + 1 \in g + 1 .. l + 1 /\ \A i \in g + 1 .. l : i \in g + 1 .. l + 1 /\ i + 1 \in g + 1 .. l + 1
    BY <1>1
  <2>15. m = size[l] /\ l = Len(s)
    BY <1>1
  <2> HIDE DEF size, m, l, p, r, f
  <2>16. /\ start \in [g + 1 .. l + 1 -> Nat] /\ start[g + 1] = 0
         /\ \A i \in g + 1 .. l : start[i + 1] = start[i] + 4 + Len(s[i])
         /\ \A i, j \in g + 1 .. l + 1 : i <= j => start[i] <= start[j]
         /\ \A i \in g + 1 .. l : \A k \in 1 .. 4 + Len(s[i]) :
              start[i] + k <= Len(h) => h[start[i] + k] = Frame(s[i])[k]
         /\ \A i \in g + 1 .. w : start[i + 1] <= Len(h)
    BY <1>1, <2>15 DEF Laid
  <2>22. \A i \in g + 1 .. l : size[i] \in Nat /\ start[i] \in Nat /\ start[i + 1] \in Nat
    BY <2>4, <2>14, <2>16
  <2>17. \A i \in g + 1 .. l : start[i + 1] = start[i] + size[i]
    <3>1. ASSUME NEW i \in g + 1 .. l PROVE start[i + 1] = start[i] + size[i]
      <4>1. size[i] = 4 + Len(s[i]) /\ Len(s[i]) = size[i] - 4 /\ size[i] \in Nat /\ start[i] \in Nat
        BY <2>4, <2>22
      <4>2. start[i + 1] = start[i] + 4 + Len(s[i])
        BY <2>16
      <4> QED BY <4>1, <4>2
    <3> QED BY <3>1
  <2>18. \A i \in g + 1 .. l : \A k \in 1 .. size[i] :
           start[i] + k <= Len(h) => h[start[i] + k] = Frame(s[i])[k]
    BY <2>4, <2>16
  <2>19. \A i \in g + 1 .. w : start[i + 1] <= Len(h)
    BY <2>16
  <2>5. r = <<>> <=> n = Len(u)
    <3>1. r = <<>> <=> Len(r) = 0
      BY <2>2, EmptySeq
    <3> QED BY <3>1, <2>1, <2>2
  <2> DEFINE e == h \o p
  <2>6. /\ e \in Seq(Int) /\ Len(e) = Len(h) + n
        /\ (\A k \in 1 .. Len(h) : e[k] = h[k]) /\ \A k \in 1 .. n : e[Len(h) + k] = u[k]
    <3>1. /\ e \in Seq(Int) /\ Len(e) = Len(h) + Len(p)
          /\ (\A k \in 1 .. Len(h) : e[k] = h[k]) /\ \A k \in 1 .. Len(p) : e[Len(h) + k] = p[k]
      BY <1>1, <2>2, Concat
    <3> HIDE DEF e
    <3> QED BY <3>1, <2>2
  <2>7. start[l + 1] = start[l] + m /\ start[l] \in Nat /\ m \in Nat
    BY <2>14, <2>15, <2>17, <2>22
  <2>21. /\ l \in Nat /\ w = l - 1 /\ g <= w /\ m \in Nat
        /\ n \in Nat /\ n >= 1 /\ n <= Len(u) /\ Len(u) \in Nat /\ Len(h) \in Nat
    BY <1>1, <2>1, <2>7, <2>15
  <2>23. v = IF n = Len(u) THEN l ELSE w
    BY <2>5, <2>21
  <2> HIDE DEF e, v
  <2>8. ASSUME NEW i \in g + 1 .. l, NEW k \in 1 .. size[i], start[i] + k <= Len(e)
        PROVE  e[start[i] + k] = Frame(s[i])[k]
    <3>1. start[i] \in Nat /\ size[i] \in Nat
      BY <2>22
    <3>0. k \in Nat /\ k >= 1 /\ k <= size[i]
      BY <3>1
    <3>2. CASE start[i] + k <= Len(h)
      <4>1. start[i] + k \in 1 .. Len(h)
        BY <3>0, <3>1, <3>2, <2>21
      <4> QED BY <3>2, <4>1, <2>18, <2>6
    <3>3. CASE Len(h) < start[i] + k
      <4>1. i = l
        <5> SUFFICES ASSUME i # l PROVE FALSE
          BY <1>1
        <5>1. i \in g + 1 .. w
          BY <2>21
        <5>2. start[i + 1] <= Len(h) /\ start[i + 1] = start[i] + size[i]
          BY <5>1, <2>17, <2>19
        <5> QED BY <5>2, <3>0, <3>1, <3>3, <2>21
      <4> DEFINE q == start[l] + k - Len(h)
      <4>0. start[l] + k <= Len(h) + n
        BY <4>1, <2>6, <2>8
      <4>2. q \in 1 .. n /\ q \in 1 .. Len(u) /\ start[l] + k = Len(h) + q
        BY <4>0, <4>1, <3>0, <3>1, <3>3, <2>21
      <4>3. m - Len(u) + q = k
        <5>1. Len(h) + Len(u) = start[l] + m
          BY <2>3, <2>7
        <5>2. start[l] \in Nat /\ m \in Nat
          BY <2>7
        <5> QED BY <5>1, <5>2, <3>0, <2>21
      <4> HIDE DEF q
      <4>4. e[start[l] + k] = u[q]
        <5>1. e[Len(h) + q] = u[q]
          BY <4>2, <2>6
        <5> QED BY <4>2, <5>1
      <4>5. u[q] = f[k]
        BY <4>2, <4>3, <2>3
      <4> QED BY <4>1, <4>4, <4>5 DEF f
    <3> QED BY <3>0, <3>1, <3>2, <3>3, <2>21
  <2>9. Len(e) <= start[l + 1] /\ (v < l => Len(e) < start[l + 1])
    BY <2>21, <2>23, <2>3, <2>6
  <2>10. ASSUME NEW i \in g + 1 .. v PROVE start[i + 1] <= Len(e)
    <3>1. CASE i \in g + 1 .. w
      <4>1. start[i + 1] <= Len(h)
        BY <3>1, <2>19
      <4>2. start[i + 1] \in Nat
        BY <3>1, <2>21, <2>22
      <4> QED BY <4>1, <4>2, <2>21, <2>6
    <3>2. CASE i = l /\ n = Len(u)
      BY <3>2, <2>21, <2>3, <2>6
    <3>3. i \in g + 1 .. w \/ (i = l /\ n = Len(u))
      BY <2>21, <2>23
    <3> QED BY <3>1, <3>2, <3>3
  <2>11. Laid(start, s, g, v, e)
    <3>1. \A i \in g + 1 .. Len(s) : \A k \in 1 .. 4 + Len(s[i]) :
            start[i] + k <= Len(e) => e[start[i] + k] = Frame(s[i])[k]
      BY <2>4, <2>8, <2>15
    <3> QED BY <3>1, <2>9, <2>10, <2>15, <2>16 DEF Laid
  <2>12. CASE n = Len(u)
    <3>1. r = <<>> /\ v = l /\ Len(e) = start[l + 1]
      BY <2>12, <2>21, <2>23, <2>3, <2>5, <2>6
    <3>2. Pending(start, s, v, e, r)
      BY <3>1, <2>15 DEF Pending
    <3> QED BY <3>2, <2>11 DEF Taken, r, e, p, v
  <2>13. CASE n # Len(u)
    <3>1. r # <<>> /\ v = l - 1
      BY <2>13, <2>21, <2>23, <2>5
    <3>0. Len(r) \in Nat /\ Len(r) = Len(u) - n
      BY <2>2, <2>21
    <3>2. Len(e) + Len(r) = start[l + 1] /\ Len(r) <= m
      BY <3>0, <2>21, <2>3, <2>6
    <3>3. ASSUME NEW k \in 1 .. Len(r) PROVE r[k] = f[m - Len(r) + k]
      <4>1. k \in 1 .. Len(u) - n /\ n + k \in 1 .. Len(u)
        BY <2>21, <3>0
      <4>2. r[k] = u[n + k] /\ u[n + k] = f[m - Len(u) + (n + k)]
        BY <4>1, <2>2, <2>3
      <4>3. m - Len(u) + (n + k) = m - Len(r) + k
        BY <2>21, <3>0
      <4> QED BY <4>2, <4>3
    <3>4. Pending(start, s, v, e, r)
      <4>1. m = 4 + Len(s[l]) /\ f = Frame(s[l])
        BY <2>4, <2>14, <2>15 DEF f
      <4> QED BY <3>1, <3>2, <3>3, <4>1, <2>15 DEF Pending
    <3> QED BY <3>4, <2>11 DEF Taken, r, e, p, v
  <2> QED BY <2>12, <2>13
<1>2. ASSUME NEW start, NEW s \in Seq(Seq(Int)), NEW h \in Seq(Int), NEW u \in Seq(Int),
             NEW g \in Nat, NEW w \in Nat, NEW n \in 1 .. Len(u),
             w = Len(s) - 1 /\ g <= w /\ u # <<>>,
             Laid(start, s, g, w, h) /\ Pending(start, s, w, h, u)
      PROVE  Taken(start, s, g, w, h, u, n)
  BY <1>1, <1>2
<1> QED BY <1>2

\* What is so without the first object, of n bytes.
Shifted(start, s, g, w, h, n) ==
  /\ g < w
  /\ \E t : /\ Laid(t, s, g + 1, w, SubSeq(h, n + 1, Len(h)))
            /\ \A u \in Seq(Int) :
                 Pending(start, s, w, h, u) => Pending(t, s, w, SubSeq(h, n + 1, Len(h)), u)

\* When all bytes of the first object are there the object was sent in whole, and without
\* them the bytes of the others follow one another.
LEMMA LaidShift ==
  \A start : \A s \in Seq(Seq(Int)), h \in Seq(Int), g, w \in Nat :
    /\ w \in {Len(s), Len(s) - 1} /\ g < Len(s) /\ g <= w
    /\ Laid(start, s, g, w, h) /\ 4 + Len(s[g + 1]) <= Len(h)
    => Shifted(start, s, g, w, h, 4 + Len(s[g + 1]))
<1>1. ASSUME NEW start, NEW s, NEW h, NEW g, NEW w,
             s \in Seq(Seq(Int)) /\ h \in Seq(Int) /\ g \in Nat /\ w \in Nat,
             w \in {Len(s), Len(s) - 1} /\ g < Len(s) /\ g <= w,
             Laid(start, s, g, w, h), 4 + Len(s[g + 1]) <= Len(h)
      PROVE  Shifted(start, s, g, w, h, 4 + Len(s[g + 1]))
  <2> DEFINE l == Len(s)
  <2> DEFINE n == 4 + Len(s[g + 1])
  <2> DEFINE e == SubSeq(h, n + 1, Len(h))
  <2> DEFINE t == [i \in g + 2 .. l + 1 |-> start[i] - n]
  <2>1. l \in Nat /\ Len(h) \in Nat /\ g \in Nat /\ g < l /\ w \in {l, l - 1}
    BY <1>1
  <2>2. n \in Nat /\ n >= 4 /\ n <= Len(h)
    <3>1. g + 1 \in 1 .. Len(s)
      BY <1>1
    <3>2. s[g + 1] \in Seq(Int)
      BY <1>1, <3>1
    <3>3. Len(s[g + 1]) \in Nat
      BY <3>2
    <3> QED BY <1>1, <3>3
  <2>3. /\ start \in [g + 1 .. l + 1 -> Nat] /\ start[g + 1] = 0
        /\ \A i, j \in g + 1 .. l + 1 : i <= j => start[i] <= start[j]
        /\ Len(h) <= start[l + 1] /\ (w < l => Len(h) < start[l + 1])
        /\ \A i \in g + 1 .. w : start[i + 1] <= Len(h)
    BY <1>1 DEF Laid
  <2>4. /\ \A i \in g + 1 .. l : start[i + 1] = start[i] + 4 + Len(s[i])
        /\ \A i \in g + 1 .. l : \A k \in 1 .. 4 + Len(s[i]) :
             start[i] + k <= Len(h) => h[start[i] + k] = Frame(s[i])[k]
    BY <1>1 DEF Laid
  <2>5. n = 4 + Len(s[g + 1])
    BY <1>1
  <2> HIDE DEF n
  <2>6. e \in Seq(Int) /\ Len(e) = Len(h) - n /\ \A k \in 1 .. Len(h) - n : e[k] = h[n + k]
    <3>1. n \in 0 .. Len(h) /\ h \in Seq(Int)
      BY <1>1, <2>1, <2>2
    <3> QED BY <3>1, TakeDrop
  <2> HIDE DEF e, l
  <2>7. start[g + 2] = n
    <3>1. g + 1 \in g + 1 .. l /\ g + 1 + 1 = g + 2
      BY <2>1
    <3>2. start[g + 1 + 1] = start[g + 1] + 4 + Len(s[g + 1])
      BY <3>1, <2>4
    <3>3. Len(s[g + 1]) = n - 4
      BY <2>2, <2>5
    <3> QED BY <3>1, <3>2, <3>3, <2>2, <2>3
  <2>8. \A i \in g + 2 .. l + 1 : start[i] \in Nat /\ n <= start[i] /\ t[i] = start[i] - n /\ t[i] \in Nat
    <3>1. ASSUME NEW i \in g + 2 .. l + 1 PROVE start[i] \in Nat /\ n <= start[i] /\ t[i] = start[i] - n /\ t[i] \in Nat
      <4>1. i \in g + 1 .. l + 1 /\ g + 2 \in g + 1 .. l + 1 /\ g + 2 <= i
        BY <2>1
      <4>2. start[i] \in Nat /\ n <= start[i]
        BY <4>1, <2>3, <2>7
      <4>3. t[i] = start[i] - n
        OBVIOUS
      <4> QED BY <4>2, <4>3, <2>2
    <3> QED BY <3>1
  <2>9. t \in [g + 2 .. l + 1 -> Nat] /\ g + 2 \in g + 2 .. l + 1 /\ l + 1 \in g + 2 .. l + 1
    BY <2>1, <2>8
  <2> HIDE DEF t
  <2>10. t[g + 2] = 0
    BY <2>2, <2>7, <2>8, <2>9
  <2>11. g < w
    <3> SUFFICES ASSUME ~(g < w) PROVE FALSE
      OBVIOUS
    <3>1. w = g /\ l = g + 1
      BY <1>1, <2>1
    <3> QED BY <3>1, <2>1, <2>2, <2>3, <2>7
  <2>12. ASSUME NEW i \in g + 2 .. l PROVE t[i + 1] = t[i] + 4 + Len(s[i])
    <3>1. i \in g + 1 .. l /\ i \in g + 2 .. l + 1 /\ i + 1 \in g + 2 .. l + 1
      BY <2>1
    <3>2. start[i + 1] = start[i] + 4 + Len(s[i])
      BY <3>1, <2>4
    <3>3. s[i] \in Seq(Int)
      BY <1>1, <3>1, <2>1 DEF l
    <3>4. Len(s[i]) \in Nat
      BY <3>3
    <3>5. t[i + 1] = start[i + 1] - n /\ t[i] = start[i] - n /\ start[i] \in Nat /\ start[i + 1] \in Nat
      BY <3>1, <2>8
    <3> QED BY <3>2, <3>4, <3>5, <2>2
  <2>13. ASSUME NEW i \in g + 2 .. l + 1, NEW j \in g + 2 .. l + 1, i <= j PROVE t[i] <= t[j]
    <3>1. i \in g + 1 .. l + 1 /\ j \in g + 1 .. l + 1
      BY <2>1
    <3>2. start[i] <= start[j]
      BY <3>1, <2>3, <2>13
    <3> QED BY <3>2, <2>8, <2>2
  <2>14. ASSUME NEW i \in g + 2 .. l PROVE \A k \in 1 .. 4 + Len(s[i]) : t[i] + k <= Len(e) => e[t[i] + k] = Frame(s[i])[k]
    <3>1. i \in g + 1 .. l /\ i \in g + 2 .. l + 1
      BY <2>1
    <3>2. start[i] \in Nat /\ t[i] \in Nat /\ t[i] = start[i] - n
      BY <3>1, <2>8
    <3>3. s[i] \in Seq(Int)
      BY <1>1, <3>1, <2>1 DEF l
    <3> DEFINE z == 4 + Len(s[i])
    <3>4. z \in Nat
      BY <3>3
    <3>5. \A k \in 1 .. z : start[i] + k <= Len(h) => h[start[i] + k] = Frame(s[i])[k]
      BY <3>1, <2>4
    <3> HIDE DEF z
    <3>6. ASSUME NEW k \in 1 .. z, t[i] + k <= Len(e) PROVE e[t[i] + k] = Frame(s[i])[k]
      <4>1. t[i] + k \in 1 .. Len(h) - n /\ start[i] + k <= Len(h) /\ n + (t[i] + k) = start[i] + k
        BY <3>2, <3>4, <3>6, <2>1, <2>2, <2>6
      <4>2. e[t[i] + k] = h[n + (t[i] + k)]
        BY <4>1, <2>6
      <4> QED BY <4>1, <4>2, <3>5
    <3> QED BY <3>6 DEF z
  <2>15. Len(e) <= t[l + 1] /\ (w < l => Len(e) < t[l + 1])
    <3>1. t[l + 1] = start[l + 1] - n /\ start[l + 1] \in Nat
      BY <2>8, <2>9
    <3> QED BY <3>1, <2>1, <2>2, <2>3, <2>6
  <2>16. ASSUME NEW i \in g + 2 .. w PROVE t[i + 1] <= Len(e)
    <3>1. i \in g + 1 .. w /\ i + 1 \in g + 2 .. l + 1
      BY <2>1
    <3>2. start[i + 1] <= Len(h) /\ start[i + 1] \in Nat /\ t[i + 1] = start[i + 1] - n
      BY <3>1, <2>3, <2>8
    <3> QED BY <3>2, <2>1, <2>2, <2>6
  <2>17. Laid(t, s, g + 1, w, e)
    <3>1. g + 1 + 1 = g + 2
      BY <2>1
    <3> QED BY <3>1, <2>9, <2>10, <2>12, <2>13, <2>14, <2>15, <2>16 DEF Laid, l
  <2>18. ASSUME NEW u \in Seq(Int), Pending(start, s, w, h, u) PROVE Pending(t, s, w, e, u)
    <3>1. t[l + 1] = start[l + 1] - n /\ start[l + 1] \in Nat
      BY <2>8, <2>9
    <3>2. Len(u) \in Nat
      OBVIOUS
    <3>3. u = <<>> => w = l /\ Len(h) = start[l + 1]
      BY <2>18 DEF Pending, l
    <3>4. u # <<>> => w = l - 1 /\ Len(h) + Len(u) = start[l + 1]
      BY <2>18 DEF Pending, l
    <3>5. u = <<>> => w = l /\ Len(e) = t[l + 1]
      BY <3>1, <3>3, <2>1, <2>2, <2>6
    <3>6. u # <<>> => w = l - 1 /\ Len(e) + Len(u) = t[l + 1]
      BY <3>1, <3>2, <3>4, <2>1, <2>2, <2>6
    <3>7. u # <<>> => /\ Len(u) <= 4 + Len(s[l])
                     /\ \A k \in 1 .. Len(u) : u[k] = Frame(s[l])[4 + Len(s[l]) - Len(u) + k]
      BY <2>18 DEF Pending, l
    <3> QED BY <3>5, <3>6, <3>7 DEF Pending, l
  <2> QED BY <2>11, <2>17, <2>18, <2>5 DEF Shifted, e
<1>2. ASSUME NEW start, NEW s \in Seq(Seq(Int)), NEW h \in Seq(Int), NEW g \in Nat, NEW w \in Nat,
             w \in {Len(s), Len(s) - 1} /\ g < Len(s) /\ g <= w,
             Laid(start, s, g, w, h) /\ 4 + Len(s[g + 1]) <= Len(h)
      PROVE  Shifted(start, s, g, w, h, 4 + Len(s[g + 1]))
  BY <1>1, <1>2
<1> QED BY <1>2

\* The invariant holds at first, and every action keeps it.
LEMMA InvInit == SizesFit /\ Init => IInv
<1> SUFFICES ASSUME SizesFit, Init PROVE IInv
  OBVIOUS
<1>1. Typed /\ Counted /\ Reading
  <2>1. Typed
    <3>1. <<>> \in Seq(Int) /\ <<>> \in Seq(Seq(Int)) /\ Len(<<>>) = 0
      OBVIOUS
    <3>2. Room \in Nat
      BY DEF SizesFit
    <3>3. \A i \in 1 .. Len(<<>>) : FALSE
      OBVIOUS
    <3>4. sent = <<>> /\ got = <<>> /\ whole = 0 /\ unsent = <<>> /\ wire = <<>> /\ length_str = <<>> /\ parts = <<>>
      BY DEF Init
    <3>5. open = TRUE /\ failed = FALSE
      BY DEF Init
    <3>6. Len(wire) <= Room
      BY <3>1, <3>2, <3>4
    <3>7. sent \in Seq(Seq(Int)) /\ got \in Seq(Seq(Int)) /\ whole \in Nat
      BY <3>1, <3>4
    <3>8. unsent \in Seq(Int) /\ wire \in Seq(Int) /\ length_str \in Seq(Int) /\ parts \in Seq(Int)
      BY <3>1, <3>4
    <3>9. \A i \in 1 .. Len(sent) : sent[i] \in {Dumped(i, n) : n \in Sizes}
      BY <3>3, <3>4
    <3> QED BY <3>5, <3>6, <3>7, <3>8, <3>9 DEF Typed
  <2>2. Counted
    BY DEF Init, Counted
  <2>3. Reading
    BY DEF Init, Reading
  <2> QED BY <2>1, <2>2, <2>3
<1> DEFINE start == [i \in 1 .. 1 |-> 0]
<1>2. sent = <<>> /\ got = <<>> /\ whole = 0 /\ unsent = <<>> /\ Held = <<>>
  BY DEF Init, Held
<1>3. Laid(start, <<>>, 0, 0, <<>>)
  BY DEF Laid
<1>4. Pending(start, <<>>, 0, <<>>, <<>>)
  BY DEF Pending
<1> QED BY <1>1, <1>2, <1>3, <1>4 DEF IInv

\* The types of what is taken from the wire.
LEMMA Received ==
  ASSUME Typed, NEW n \in Nat, NEW r \in Recv(n)
  PROVE  LET rest == SubSeq(wire, Len(r) + 1, Len(wire)) IN
         /\ r \in Seq(Int) /\ Len(r) \in 1 .. n /\ r # <<>>
         /\ rest \in Seq(Int) /\ Len(rest) <= Len(wire) /\ r \o rest = wire
<1>1. PICK k \in 1 .. n : k <= Len(wire) /\ r = SubSeq(wire, 1, k)
  BY DEF Recv
<1>2. wire \in Seq(Int) /\ k \in 0 .. Len(wire)
  BY <1>1 DEF Typed
<1>3. r \in Seq(Int) /\ Len(r) = k
  BY <1>1, <1>2, TakeDrop
<1> DEFINE rest == SubSeq(wire, k + 1, Len(wire))
<1>4. rest \in Seq(Int) /\ Len(rest) = Len(wire) - k /\ r \o rest = wire
  BY <1>1, <1>2, TakeDrop
<1> HIDE DEF rest
<1>5. Len(rest) <= Len(wire) /\ Len(r) \in 1 .. n /\ r # <<>>
  BY <1>2, <1>3, <1>4
<1> QED BY <1>3, <1>4, <1>5 DEF rest

\* What the receiver reads of the object that is next.
LEMMA WhatIsRead ==
  ASSUME SizesFit, IInv, ~failed, Len(length_str) = 4
  PROVE  /\ Len(got) < Len(sent) /\ Unpacked(length_str) = Len(sent[Len(got) + 1])
         /\ Len(sent[Len(got) + 1]) \in Nat /\ Len(parts) < Len(sent[Len(got) + 1])
         /\ IsPrefix(parts, sent[Len(got) + 1])
<1> DEFINE s == sent[Len(got) + 1]
<1>1. Typed /\ Len(got) < Len(sent) /\ Len(parts) < Len(s)
  BY DEF IInv, Reading
<1>2. s \in Seq(Int) /\ Len(s) \in Nat /\ Len(got) \in Nat
  <2>1. Len(got) \in Nat /\ Len(got) + 1 \in 1 .. Len(sent) /\ sent \in Seq(Seq(Int))
    BY <1>1 DEF Typed
  <2>2. s \in Seq(Int)
    BY <2>1
  <2> HIDE DEF s
  <2> QED BY <2>1, <2>2
<1>3. PICK start : Laid(start, sent, Len(got), whole, Held)
  BY DEF IInv
<1>4. length_str \in Seq(Int) /\ parts \in Seq(Int) /\ wire \in Seq(Int) /\ whole \in Nat /\ sent \in Seq(Seq(Int))
  BY <1>1 DEF Typed
<1> DEFINE a == length_str \o parts
<1>5. /\ a \in Seq(Int) /\ Len(a) = 4 + Len(parts) /\ (\A i \in 1 .. 4 : a[i] = length_str[i])
      /\ \A i \in 1 .. Len(parts) : a[4 + i] = parts[i]
  <2>1. /\ a \in Seq(Int) /\ Len(a) = Len(length_str) + Len(parts)
        /\ (\A i \in 1 .. Len(length_str) : a[i] = length_str[i])
        /\ \A i \in 1 .. Len(parts) : a[Len(length_str) + i] = parts[i]
    BY <1>4, Concat
  <2> HIDE DEF a
  <2> QED BY <2>1
<1> HIDE DEF a
<1>6. Held = a \o wire
  BY DEF Held, a
<1>7. /\ Held \in Seq(Int) /\ Len(Held) = 4 + Len(parts) + Len(wire)
      /\ \A i \in 1 .. 4 + Len(parts) : Held[i] = a[i]
  <2>1. /\ a \o wire \in Seq(Int) /\ Len(a \o wire) = Len(a) + Len(wire)
        /\ \A i \in 1 .. Len(a) : (a \o wire)[i] = a[i]
    BY <1>4, <1>5, Concat
  <2> QED BY <2>1, <1>5, <1>6
<1> HIDE DEF s
<1>8. \A k \in 1 .. 4 + Len(s) : k <= Len(Held) => Held[k] = Frame(s)[k]
  BY <1>1, <1>2, <1>3, <1>4, <1>7, FirstBytes DEF s
<1>9. \A k \in 1 .. 4 : length_str[k] = Packed(Len(s))[k]
  <2>1. ASSUME NEW k \in 1 .. 4 PROVE length_str[k] = Packed(Len(s))[k]
    <3>1. Len(parts) \in Nat /\ Len(wire) \in Nat
      BY <1>4
    <3>2. k \in 1 .. 4 + Len(s) /\ k <= Len(Held) /\ k \in 1 .. 4 + Len(parts)
      BY <1>2, <1>7, <3>1
    <3>3. Held[k] = Frame(s)[k] /\ Held[k] = a[k] /\ a[k] = length_str[k]
      BY <3>2, <1>5, <1>7, <1>8
    <3>4. Frame(s)[k] = Packed(Len(s))[k]
      BY <1>2, FrameBytes
    <3> QED BY <3>3, <3>4
  <2> QED BY <2>1
<1>10. Unpacked(length_str) = Len(s)
  BY <1>2, <1>4, <1>9, PackedLength
<1>11. ASSUME NEW k \in 1 .. Len(parts) PROVE parts[k] = s[k]
  <2>1. Len(parts) \in Nat /\ Len(wire) \in Nat
    BY <1>4
  <2>2. 4 + k \in 1 .. 4 + Len(s) /\ 4 + k <= Len(Held) /\ 4 + k \in 1 .. 4 + Len(parts) /\ k \in 1 .. Len(s)
    BY <2>1, <1>1, <1>2, <1>7 DEF s
  <2>3. Held[4 + k] = Frame(s)[4 + k] /\ Held[4 + k] = a[4 + k] /\ a[4 + k] = parts[k]
    BY <2>2, <1>5, <1>7, <1>8
  <2>4. Frame(s)[4 + k] = s[k]
    BY <2>2, <1>2, FrameBytes
  <2> QED BY <2>3, <2>4
<1>12. IsPrefix(parts, s)
  <2>1. Len(parts) \in Nat /\ Len(parts) <= Len(s)
    BY <1>1, <1>2, <1>4 DEF s
  <2>2. SubSeq(parts, 1, Len(parts)) = SubSeq(s, 1, Len(parts))
    BY <2>1, <1>2, <1>4, <1>11
  <2> QED BY <2>1, <2>2 DEF IsPrefix
<1> QED BY <1>1, <1>2, <1>10, <1>12 DEF s

\* A new object is laid behind the others, and sendall has all of its bytes.
LEMMA SendObjectInv == SizesFit /\ IInv /\ SendObject => IInv'
<1> SUFFICES ASSUME SizesFit, IInv, SendObject PROVE IInv'
  OBVIOUS
<1>1. PICK n \in Sizes : /\ sent' = Append(sent, Dumped(Len(sent) + 1, n))
                        /\ unsent' = Packed(n) \o Dumped(Len(sent) + 1, n)
  BY DEF SendObject
<1> DEFINE x == Dumped(Len(sent) + 1, n)
<1>2. open /\ unsent = <<>> /\ UNCHANGED <<whole, wire, open, length_str, parts, got, failed>>
  BY DEF SendObject
<1>3. Typed /\ Counted /\ Reading
  BY DEF IInv
<1>4. n \in Nat /\ x \in Seq(Int) /\ Len(x) = n
  BY DEF SizesFit, Dumped
<1>5. ~failed
  BY <1>2, <1>3 DEF Counted, Typed
<1>6. PICK start : Laid(start, sent, Len(got), whole, Held) /\ Pending(start, sent, whole, Held, unsent)
  BY <1>2, <1>5 DEF IInv
<1>7. whole = Len(sent) /\ Len(Held) = start[Len(sent) + 1]
  BY <1>2, <1>6 DEF Pending
<1>8. /\ sent \in Seq(Seq(Int)) /\ got \in Seq(Seq(Int)) /\ Len(got) \in 0 .. Len(sent) /\ Held \in Seq(Int)
  BY <1>3, <1>7 DEF Typed, Counted, Held
<1> HIDE DEF x
<1>9. PICK t : Laid(t, Append(sent, x), Len(got), Len(sent), Held) /\ t[Len(sent) + 2] = Len(Held) + 4 + Len(x)
  BY <1>4, <1>6, <1>7, <1>8, LaidSend
<1>10. /\ sent' = Append(sent, x) /\ sent' \in Seq(Seq(Int)) /\ Len(sent') = Len(sent) + 1
       /\ sent'[Len(sent) + 1] = x /\ \A i \in 1 .. Len(sent) : sent'[i] = sent[i]
  BY <1>1, <1>4, <1>8, AppendProperties DEF x
<1>11. unsent' = Frame(x)
  BY <1>1, <1>4 DEF Frame, x
<1>12. Frame(x) \in Seq(Int) /\ Len(Frame(x)) = 4 + Len(x)
  BY <1>4, FrameBytes
<1>13. Held' = Held
  BY <1>2 DEF Held
<1>14. Len(sent) \in Nat /\ Len(Held) \in Nat /\ Len(x) \in Nat
  BY <1>4, <1>8
<1>15. Pending(t, sent', whole', Held', unsent')
  <2> DEFINE f == Frame(x)
  <2> HIDE DEF f
  <2>1. f # <<>> /\ Len(f) = 4 + Len(x)
    <3>1. f \in Seq(Int) /\ Len(f) = 4 + Len(x)
      BY <1>12 DEF f
    <3> QED BY <3>1, <1>14
  <2>2. whole' = Len(sent') - 1 /\ t[Len(sent') + 1] = Len(Held) + Len(f)
    <3>1. Len(sent') + 1 = Len(sent) + 2
      BY <1>10, <1>14
    <3>2. whole' = Len(sent') - 1
      BY <1>2, <1>7, <1>10, <1>14
    <3>3. t[Len(sent) + 2] = Len(Held) + Len(f)
      BY <2>1, <1>9, <1>14
    <3> QED BY <3>1, <3>2, <3>3
  <2>3. sent'[Len(sent')] = x
    BY <1>10
  <2>4. \A k \in 1 .. Len(f) : f[k] = f[4 + Len(x) - Len(f) + k]
    <3>1. ASSUME NEW k \in 1 .. Len(f) PROVE 4 + Len(x) - Len(f) + k = k
      BY <2>1, <1>14
    <3> QED BY <3>1
  <2>5. unsent' = f
    BY <1>11 DEF f
  <2> QED BY <2>1, <2>2, <2>3, <2>4, <2>5, <1>13, <1>14 DEF Pending, f
<1>16. Typed'
  <2>1. x \in {Dumped(Len(sent) + 1, m) : m \in Sizes}
    BY DEF x
  <2>2. \A i \in 1 .. Len(sent') : sent'[i] \in {Dumped(i, m) : m \in Sizes}
    <3>1. ASSUME NEW i \in 1 .. Len(sent') PROVE i = Len(sent) + 1 \/ i \in 1 .. Len(sent)
      BY <1>10, <1>14
    <3> QED BY <3>1, <2>1, <1>3, <1>10 DEF Typed
  <2> QED BY <2>2, <1>2, <1>3, <1>10, <1>11, <1>12 DEF Typed
<1>17. Counted'
  BY <1>2, <1>3, <1>7, <1>10, <1>14 DEF Counted
<1>18. Reading'
  <2>1. Len(got) < Len(sent) => Len(got) + 1 \in 1 .. Len(sent) /\ Len(got) < Len(sent')
    BY <1>8, <1>10, <1>14
  <2> QED BY <2>1, <1>2, <1>3, <1>10 DEF Reading
<1> QED BY <1>2, <1>7, <1>9, <1>10, <1>13, <1>15, <1>16, <1>17, <1>18 DEF IInv

\* What the socket takes is laid where it belongs.
LEMMA SendAllInv == SizesFit /\ IInv /\ SendAll => IInv'
<1> SUFFICES ASSUME SizesFit, IInv, SendAll PROVE IInv'
  OBVIOUS
<1>1. PICK n \in 1 .. Len(unsent) :
        /\ Len(wire) + n <= Room
        /\ wire' = wire \o SubSeq(unsent, 1, n)
        /\ unsent' = SubSeq(unsent, n + 1, Len(unsent))
        /\ whole' = IF unsent' = <<>> THEN whole + 1 ELSE whole
  BY DEF SendAll
<1>2. open /\ unsent # <<>> /\ UNCHANGED <<sent, open, length_str, parts, got, failed>>
  BY DEF SendAll
<1>3. Typed /\ Counted /\ Reading
  BY DEF IInv
<1>4. ~failed
  BY <1>2, <1>3 DEF Counted, Typed
<1>5. PICK start : Laid(start, sent, Len(got), whole, Held) /\ Pending(start, sent, whole, Held, unsent)
  BY <1>2, <1>4 DEF IInv
<1>6. whole = Len(sent) - 1
  BY <1>2, <1>5 DEF Pending
<1>7. /\ sent \in Seq(Seq(Int)) /\ got \in Seq(Seq(Int)) /\ Len(got) <= whole /\ whole \in Nat
      /\ unsent \in Seq(Int) /\ wire \in Seq(Int) /\ length_str \in Seq(Int) /\ parts \in Seq(Int)
  BY <1>3 DEF Typed, Counted
<1>8. Held \in Seq(Int) /\ Len(got) \in Nat
  BY <1>7 DEF Held
<1>9. Taken(start, sent, Len(got), whole, Held, unsent, n)
  BY <1>2, <1>5, <1>6, <1>7, <1>8, LaidMore
<1> DEFINE p == SubSeq(unsent, 1, n)
<1>10. p \in Seq(Int) /\ Len(p) = n /\ unsent' \in Seq(Int)
  <2>1. n \in 0 .. Len(unsent)
    BY <1>7
  <2>2. p \in Seq(Int) /\ Len(p) = n /\ SubSeq(unsent, n + 1, Len(unsent)) \in Seq(Int)
    BY <2>1, <1>7, TakeDrop
  <2> QED BY <2>2, <1>1
<1>11. Held' = Held \o p
  <2> HIDE DEF p
  <2>1. wire' = wire \o p
    BY <1>1 DEF p
  <2> DEFINE a == length_str \o parts
  <2>3. a \in Seq(Int)
    BY <1>7, Concat
  <2> HIDE DEF a
  <2>2. a \o (wire \o p) = (a \o wire) \o p
    BY <1>7, <1>10, <2>3, Associative
  <2> QED BY <2>1, <2>2, <1>2 DEF Held, a
<1>12. Laid(start, sent, Len(got), whole', Held') /\ Pending(start, sent, whole', Held', unsent')
  BY <1>1, <1>9, <1>11 DEF Taken
<1>13. wire' \in Seq(Int) /\ Len(wire') <= Room
  <2> HIDE DEF p
  <2>1. wire' = wire \o p
    BY <1>1 DEF p
  <2>2. wire \o p \in Seq(Int) /\ Len(wire \o p) = Len(wire) + Len(p)
    BY <1>7, <1>10, Concat
  <2> QED BY <2>1, <2>2, <1>1, <1>10
<1>14. whole' \in {Len(sent), Len(sent) - 1} /\ whole' \in Nat /\ whole <= whole'
  <2>1. whole' = whole \/ whole' = whole + 1
    BY <1>1
  <2>2. Len(sent) \in Nat
    BY <1>7
  <2> QED BY <2>1, <2>2, <1>6, <1>7
<1>15. Typed'
  BY <1>2, <1>3, <1>10, <1>13, <1>14 DEF Typed
<1>16. Counted'
  <2>1. Len(got) <= whole'
    BY <1>7, <1>8, <1>14
  <2> QED BY <2>1, <1>2, <1>3, <1>14 DEF Counted
<1>17. Reading'
  BY <1>2, <1>3 DEF Reading
<1> QED BY <1>2, <1>12, <1>15, <1>16, <1>17 DEF IInv

\* A death leaves what was sent.
LEMMA DieInv == SizesFit /\ IInv /\ Die => IInv'
<1> SUFFICES ASSUME SizesFit, IInv, Die PROVE IInv'
  OBVIOUS
<1>1. /\ open /\ open' = FALSE /\ unsent' = <<>>
      /\ UNCHANGED <<sent, whole, wire, length_str, parts, got, failed>>
  BY DEF Die
<1>2. Typed /\ Counted /\ Reading
  BY DEF IInv
<1>3. Typed' /\ Counted' /\ Reading'
  <2>1. <<>> \in Seq(Int)
    OBVIOUS
  <2>2. Typed'
    BY <2>1, <1>1, <1>2 DEF Typed
  <2>3. Counted' /\ Reading'
    BY <1>1, <1>2 DEF Counted, Reading
  <2> QED BY <2>2, <2>3
<1>4. ~failed' => \E start : Laid(start, sent, Len(got), whole, Held)
  BY <1>1 DEF IInv
<1>5. Held' = Held
  BY <1>1 DEF Held
<1> QED BY <1>1, <1>3, <1>4, <1>5 DEF IInv

\* When there are bytes to receive an object was sent that was not received, and its dump
\* is not empty.
LEMMA SomethingHeld ==
  ASSUME SizesFit, Typed, NEW start, Laid(start, sent, Len(got), whole, Held), Counted, Len(Held) > 0
  PROVE  Len(got) < Len(sent) /\ Len(sent[Len(got) + 1]) > 0
<1>1. Len(got) \in Nat /\ Len(sent) \in Nat /\ whole \in Nat /\ whole <= Len(sent) /\ Len(got) <= Len(sent)
  <2>1. Len(got) \in Nat /\ Len(sent) \in Nat
    BY DEF Typed
  <2> QED BY <2>1 DEF Typed, Counted
<1>2. Len(got) < Len(sent)
  <2> SUFFICES ASSUME ~(Len(got) < Len(sent)) PROVE FALSE
    OBVIOUS
  <2>1. Len(got) = Len(sent)
    BY <1>1
  <2>2. start[Len(sent) + 1] = 0 /\ Len(Held) <= 0
    BY <2>1 DEF Laid
  <2>3. Held \in Seq(Int)
    BY DEF Held, Typed
  <2>4. Len(Held) \in Nat
    BY <2>3
  <2> QED BY <2>2, <2>4
<1>3. Len(got) + 1 \in 1 .. Len(sent)
  BY <1>1, <1>2
<1>4. PICK n \in Sizes : sent[Len(got) + 1] = Dumped(Len(got) + 1, n)
  BY <1>3 DEF Typed
<1>5. n \in Nat /\ n > 0
  BY DEF SizesFit
<1>6. Len(Dumped(Len(got) + 1, n)) = n
  BY <1>5 DEF Dumped
<1> QED BY <1>2, <1>4, <1>5, <1>6

\* Bytes of the length pass from the wire to the receiver.
LEMMA RecvLengthInv == SizesFit /\ IInv /\ RecvLength => IInv'
<1> SUFFICES ASSUME SizesFit, IInv, RecvLength PROVE IInv'
  OBVIOUS
<1>1. PICK r \in Recv(4 - Len(length_str)) :
        length_str' = length_str \o r /\ wire' = SubSeq(wire, Len(r) + 1, Len(wire))
  BY DEF RecvLength
<1>2. ~failed /\ Len(length_str) < 4 /\ UNCHANGED <<sent, whole, unsent, open, parts, got, failed>>
  BY DEF RecvLength
<1>3. Typed /\ Counted /\ Reading
  BY DEF IInv
<1>4. length_str \in Seq(Int) /\ parts \in Seq(Int) /\ wire \in Seq(Int) /\ Len(wire) <= Room
  BY <1>3 DEF Typed
<1>5. parts = <<>> /\ Len(length_str) \in Nat /\ 4 - Len(length_str) \in Nat
  <2>1. Len(length_str) \in Nat
    BY <1>4
  <2>2. Len(length_str) # 4 /\ 4 - Len(length_str) \in Nat
    BY <2>1, <1>2
  <2>3. parts = <<>>
    BY <2>2, <1>3 DEF Reading
  <2> QED BY <2>1, <2>2, <2>3
<1>6. /\ r \in Seq(Int) /\ Len(r) \in 1 .. 4 - Len(length_str) /\ r # <<>>
      /\ wire' \in Seq(Int) /\ Len(wire') <= Len(wire) /\ r \o wire' = wire
  BY <1>1, <1>3, <1>5, Received
<1>7. length_str' \in Seq(Int) /\ Len(length_str') = Len(length_str) + Len(r)
  BY <1>1, <1>4, <1>6, Concat
<1>8. Len(length_str') <= 4 /\ Len(length_str') > 0 /\ Len(length_str') \in Nat
  BY <1>5, <1>6, <1>7
<1>9. Held' = length_str' \o wire' /\ Held = length_str \o wire
  <2>1. length_str' \o <<>> = length_str' /\ length_str \o <<>> = length_str
    BY <1>4, <1>7, JoinNothing
  <2> QED BY <2>1, <1>2, <1>5 DEF Held
<1>10. Held' = Held
  <2>1. (length_str \o r) \o wire' = length_str \o (r \o wire')
    BY <1>4, <1>6, Associative
  <2> QED BY <2>1, <1>1, <1>6, <1>9
<1>11. Len(Held) > 0
  <2>1. Len(length_str' \o wire') = Len(length_str') + Len(wire')
    BY <1>6, <1>7, Concat
  <2>2. Len(wire') \in Nat
    BY <1>6
  <2> QED BY <2>1, <2>2, <1>8, <1>9, <1>10
<1>12. PICK start : /\ Laid(start, sent, Len(got), whole, Held)
                    /\ open => Pending(start, sent, whole, Held, unsent)
  BY <1>2 DEF IInv
<1>13. Len(got) < Len(sent) /\ Len(sent[Len(got) + 1]) > 0
  <2>1. Laid(start, sent, Len(got), whole, Held)
    BY <1>12
  <2>2. Typed /\ Counted
    BY <1>3
  <2> QED BY <2>1, <2>2, <1>11, SomethingHeld
<1>14. Typed'
  <2>1. Len(wire') <= Room
    <3>1. Len(wire) \in Nat /\ Len(wire') \in Nat /\ Room \in Nat
      BY <1>4, <1>6 DEF SizesFit
    <3> QED BY <3>1, <1>4, <1>6
  <2> QED BY <2>1, <1>2, <1>3, <1>6, <1>7 DEF Typed
<1>15. Counted'
  BY <1>2, <1>3 DEF Counted
<1>16. Reading'
  <2>1. Len(parts) = 0
    BY <1>5
  <2> QED BY <2>1, <1>2, <1>5, <1>8, <1>13 DEF Reading
<1> QED BY <1>2, <1>10, <1>12, <1>14, <1>15, <1>16 DEF IInv

\* A part that does not complete the dump.
LEMMA RecvPartInv ==
  ASSUME SizesFit, IInv, ~failed, Len(length_str) = 4,
         NEW r \in Recv(Unpacked(length_str) - Len(parts)),
         wire' = SubSeq(wire, Len(r) + 1, Len(wire)),
         Len(parts) + Len(r) < Unpacked(length_str), parts' = parts \o r,
         UNCHANGED <<length_str, got, sent, whole, unsent, open, failed>>
  PROVE  IInv'
<1>1. Typed /\ Counted /\ Reading
  BY DEF IInv
<1>2. length_str \in Seq(Int) /\ parts \in Seq(Int) /\ wire \in Seq(Int) /\ Len(wire) <= Room
  BY <1>1 DEF Typed
<1> DEFINE n == Unpacked(length_str)
<1>3. n \in Nat /\ Len(parts) < n /\ Len(got) < Len(sent) /\ n = Len(sent[Len(got) + 1])
  BY WhatIsRead
<1>4. Len(parts) \in Nat
  BY <1>2
<1> HIDE DEF n
<1>5. n - Len(parts) \in Nat /\ r \in Recv(n - Len(parts))
  BY <1>3, <1>4 DEF n
<1>6. /\ r \in Seq(Int) /\ Len(r) \in 1 .. n - Len(parts) /\ r # <<>>
      /\ wire' \in Seq(Int) /\ Len(wire') <= Len(wire) /\ r \o wire' = wire
  BY <1>1, <1>5, Received
<1>7. parts' \in Seq(Int) /\ Len(parts') = Len(parts) + Len(r)
  BY <1>2, <1>6, Concat
<1>8. Held' = Held
  <2> DEFINE a == length_str \o parts
  <2>1. a \in Seq(Int)
    BY <1>2, Concat
  <2>2. length_str \o (parts \o r) = a \o r
    BY <1>2, <1>6, Associative
  <2> HIDE DEF a
  <2>3. (a \o r) \o wire' = a \o (r \o wire')
    BY <2>1, <1>6, Associative
  <2>4. Held = a \o wire /\ Held' = (length_str \o (parts \o r)) \o wire'
    BY DEF Held, a
  <2> QED BY <2>2, <2>3, <2>4, <1>6
<1>9. Typed'
  <2>1. Len(wire') <= Room
    <3>1. Len(wire) \in Nat /\ Len(wire') \in Nat /\ Room \in Nat
      BY <1>2, <1>6 DEF SizesFit
    <3> QED BY <3>1, <1>2, <1>6
  <2> QED BY <2>1, <1>1, <1>6, <1>7 DEF Typed
<1>10. Counted'
  BY <1>1 DEF Counted
<1>11. Reading'
  <2>1. Len(parts') < n
    BY <1>7 DEF n
  <2>2. length_str' = length_str /\ got' = got /\ sent' = sent
    OBVIOUS
  <2>3. Len(length_str') <= 4 /\ (parts' # <<>> => Len(length_str') = 4)
    <3>1. Len(length_str') = 4
      BY <2>2
    <3>2. 4 <= 4
      OBVIOUS
    <3> QED BY <3>1, <3>2
  <2>4. Len(got') < Len(sent') /\ Len(parts') < Len(sent'[Len(got') + 1])
    BY <2>1, <2>2, <1>3
  <2> QED BY <2>3, <2>4 DEF Reading
<1> QED BY <1>8, <1>9, <1>10, <1>11 DEF IInv

\* The part that completes the dump: the object is the next that was sent, and in whole.
LEMMA LastPartInv ==
  ASSUME SizesFit, IInv, ~failed, Len(length_str) = 4,
         NEW r \in Recv(Unpacked(length_str) - Len(parts)),
         wire' = SubSeq(wire, Len(r) + 1, Len(wire)),
         ~(Len(parts) + Len(r) < Unpacked(length_str)),
         got' = Append(got, parts \o r), length_str' = <<>>, parts' = <<>>,
         UNCHANGED <<sent, whole, unsent, open, failed>>
  PROVE  IInv' /\ Len(got) < whole /\ got' = Append(got, sent[Len(got) + 1])
<1> DEFINE s == sent[Len(got) + 1]
<1> DEFINE n == Unpacked(length_str)
<1> DEFINE g == Len(got)
<1>1. Typed /\ Counted /\ Reading
  BY DEF IInv
<1>2. length_str \in Seq(Int) /\ parts \in Seq(Int) /\ wire \in Seq(Int) /\ Len(wire) <= Room
  BY <1>1 DEF Typed
<1>3. n \in Nat /\ Len(parts) < n /\ g < Len(sent) /\ n = Len(s)
  BY WhatIsRead
<1>4. Len(parts) \in Nat /\ Len(wire) \in Nat
  BY <1>2
<1>5. s \in Seq(Int) /\ g \in Nat
  <2>1. g \in Nat /\ g + 1 \in 1 .. Len(sent) /\ sent \in Seq(Seq(Int))
    BY <1>1, <1>3 DEF Typed
  <2> QED BY <2>1
<1> HIDE DEF s, n, g
<1>6. n - Len(parts) \in Nat /\ r \in Recv(n - Len(parts))
  BY <1>3, <1>4 DEF n
<1>7. /\ r \in Seq(Int) /\ Len(r) \in 1 .. n - Len(parts) /\ r # <<>>
      /\ wire' \in Seq(Int) /\ Len(wire') <= Len(wire) /\ r \o wire' = wire
  BY <1>1, <1>6, Received
<1>8. Len(r) = n - Len(parts)
  <2>1. ~(Len(parts) + Len(r) < n)
    BY DEF n
  <2> QED BY <2>1, <1>3, <1>4, <1>7
<1> DEFINE a == length_str \o (parts \o r)
<1>9. parts \o r \in Seq(Int) /\ Len(parts \o r) = n
  <2>1. parts \o r \in Seq(Int) /\ Len(parts \o r) = Len(parts) + Len(r)
    BY <1>2, <1>7, Concat
  <2> QED BY <2>1, <1>3, <1>4, <1>8
<1> DEFINE d == parts \o r
<1>10. /\ a \in Seq(Int) /\ Len(a) = 4 + n
       /\ \A i \in 1 .. n : a[4 + i] = d[i]
  <2> HIDE DEF d
  <2>1. d \in Seq(Int) /\ Len(d) = n
    BY <1>9 DEF d
  <2> DEFINE b == length_str \o d
  <2>2. /\ b \in Seq(Int) /\ Len(b) = Len(length_str) + Len(d)
        /\ \A i \in 1 .. Len(d) : b[Len(length_str) + i] = d[i]
    BY <2>1, <1>2, Concat
  <2>3. b = a
    BY DEF d
  <2> HIDE DEF b
  <2>4. b \in Seq(Int) /\ Len(b) = 4 + n /\ \A i \in 1 .. n : b[4 + i] = d[i]
    BY <2>1, <2>2
  <2> QED BY <2>3, <2>4
<1>11. Held = a \o wire'
  <2> DEFINE b == length_str \o parts
  <2>1. b \in Seq(Int)
    BY <1>2, Concat
  <2>2. a = b \o r
    BY <1>2, <1>7, Associative
  <2> HIDE DEF a, b
  <2>3. (b \o r) \o wire' = b \o (r \o wire')
    BY <2>1, <1>7, Associative
  <2>4. Held = b \o wire
    BY DEF Held, b
  <2> QED BY <2>2, <2>3, <2>4, <1>7
<1> HIDE DEF a, d
<1>12. /\ Held \in Seq(Int) /\ Len(Held) = 4 + n + Len(wire')
       /\ (\A i \in 1 .. 4 + n : Held[i] = a[i])
       /\ \A i \in 1 .. Len(wire') : Held[4 + n + i] = wire'[i]
  <2>1. /\ a \o wire' \in Seq(Int) /\ Len(a \o wire') = Len(a) + Len(wire')
        /\ (\A i \in 1 .. Len(a) : (a \o wire')[i] = a[i])
        /\ \A i \in 1 .. Len(wire') : (a \o wire')[Len(a) + i] = wire'[i]
    BY <1>7, <1>10, Concat
  <2> QED BY <2>1, <1>10, <1>11
<1>13. PICK start : /\ Laid(start, sent, g, whole, Held)
                    /\ open => Pending(start, sent, whole, Held, unsent)
  BY DEF IInv, g
<1>14. /\ sent \in Seq(Seq(Int)) /\ got \in Seq(Seq(Int)) /\ whole \in Nat /\ unsent \in Seq(Int)
       /\ whole \in {Len(sent), Len(sent) - 1} /\ g <= whole
  BY <1>1 DEF Typed, Counted, g
<1>15. Len(wire') \in Nat /\ 4 + n <= Len(Held) /\ Len(Held) \in Nat
  <2>1. Len(wire') \in Nat
    BY <1>7
  <2>2. n \in Nat
    BY <1>3
  <2> DEFINE m == Len(wire')
  <2> HIDE DEF m
  <2>3. m \in Nat
    BY <2>1 DEF m
  <2>4. 4 + n <= 4 + n + m /\ 4 + n + m \in Nat
    BY <2>2, <2>3
  <2>5. Len(Held) = 4 + n + m
    BY <1>12 DEF m
  <2> QED BY <2>1, <2>4, <2>5
<1>16. \A k \in 1 .. 4 + n : k <= Len(Held) => Held[k] = Frame(s)[k]
  <2>1. Laid(start, sent, g, whole, Held)
    BY <1>13
  <2>2. \A k \in 1 .. 4 + Len(sent[g + 1]) : k <= Len(Held) => Held[k] = Frame(sent[g + 1])[k]
    BY <2>1, <1>3, <1>5, <1>12, <1>14, FirstBytes
  <2>3. sent[g + 1] = s
    BY DEF s, g
  <2> QED BY <2>2, <2>3, <1>3
<1>17. d = s
  <2>1. ASSUME NEW k \in 1 .. n PROVE d[k] = s[k]
    <3>1. 4 + k \in 1 .. 4 + n /\ 4 + k <= Len(Held)
      BY <1>3, <1>15
    <3>2. Held[4 + k] = Frame(s)[4 + k] /\ Held[4 + k] = a[4 + k] /\ a[4 + k] = d[k]
      BY <3>1, <1>10, <1>12, <1>16
    <3>3. Frame(s)[4 + k] = s[k]
      BY <1>3, <1>5, FrameBytes
    <3> QED BY <3>2, <3>3
  <2>2. d \in Seq(Int) /\ Len(d) = n
    BY <1>9 DEF d
  <2> QED BY <2>1, <2>2, <1>3, <1>5, SeqEqual
<1>18. Shifted(start, sent, g, whole, Held, 4 + n)
  <2>1. Laid(start, sent, g, whole, Held)
    BY <1>13
  <2>2. 4 + Len(sent[g + 1]) = 4 + n
    BY <1>3 DEF s, g
  <2>3. 4 + Len(sent[g + 1]) <= Len(Held)
    BY <2>2, <1>15
  <2>4. Shifted(start, sent, g, whole, Held, 4 + Len(sent[g + 1]))
    BY <2>1, <2>3, <1>3, <1>5, <1>12, <1>14, LaidShift
  <2> QED BY <2>2, <2>4
<1>19. SubSeq(Held, 4 + n + 1, Len(Held)) = wire' /\ Held' = wire'
  <2> DEFINE e == SubSeq(Held, 4 + n + 1, Len(Held))
  <2>1. 4 + n \in 0 .. Len(Held)
    <3>1. n \in Nat
      BY <1>3
    <3> QED BY <3>1, <1>15
  <2>2. e \in Seq(Int) /\ Len(e) = Len(Held) - (4 + n) /\ \A k \in 1 .. Len(Held) - (4 + n) : e[k] = Held[4 + n + k]
    BY <2>1, <1>12, TakeDrop
  <2> HIDE DEF e
  <2>3. Len(Held) - (4 + n) = Len(wire')
    BY <1>3, <1>12, <1>15
  <2>4. \A k \in 1 .. Len(wire') : e[k] = wire'[k]
    BY <2>2, <2>3, <1>12
  <2>5. e = wire'
    BY <2>2, <2>3, <2>4, <1>7, SeqEqual
  <2>6. <<>> \o <<>> = <<>> /\ <<>> \o wire' = wire'
    BY <1>7, JoinNothing
  <2>7. Held' = wire'
    BY <2>6 DEF Held
  <2> QED BY <2>5, <2>7 DEF e
<1>20. PICK t : /\ Laid(t, sent, g + 1, whole, wire')
                /\ \A u \in Seq(Int) : Pending(start, sent, whole, Held, u) => Pending(t, sent, whole, wire', u)
  BY <1>18, <1>19 DEF Shifted
<1>21. g < whole
  BY <1>18 DEF Shifted
<1>22. got' = Append(got, s) /\ got' \in Seq(Seq(Int)) /\ Len(got') = g + 1
  <2>1. got' = Append(got, s)
    BY <1>17 DEF d
  <2> QED BY <2>1, <1>5, <1>14, AppendProperties DEF g
<1>23. Typed'
  <2>1. Len(wire') <= Room
    <3>1. Room \in Nat
      BY DEF SizesFit
    <3> QED BY <3>1, <1>2, <1>4, <1>7, <1>15
  <2>2. <<>> \in Seq(Int)
    OBVIOUS
  <2> QED BY <2>1, <2>2, <1>1, <1>7, <1>22 DEF Typed
<1>24. Counted'
  <2>1. Len(got') <= whole'
    BY <1>5, <1>14, <1>21, <1>22
  <2> QED BY <2>1, <1>1 DEF Counted
<1>25. Reading'
  <2>1. Len(length_str') = 0
    OBVIOUS
  <2>2. Len(length_str') <= 4 /\ Len(length_str') # 4
    BY <2>1
  <2> QED BY <2>2 DEF Reading
<1>26. Laid(t, sent', Len(got'), whole', Held') /\ (open' => Pending(t, sent', whole', Held', unsent'))
  BY <1>13, <1>14, <1>19, <1>20, <1>22
<1>27. IInv'
  BY <1>23, <1>24, <1>25, <1>26 DEF IInv
<1> QED BY <1>21, <1>22, <1>27 DEF s, g

\* At the end of the connection nothing that was sent in whole is left.
LEMMA RecvNothingInv == SizesFit /\ IInv /\ RecvNothing => IInv' /\ Len(got) = whole
<1> SUFFICES ASSUME SizesFit, IInv, RecvNothing PROVE IInv' /\ Len(got) = whole
  OBVIOUS
<1>1. /\ ~failed /\ ~open /\ wire = <<>> /\ failed' = TRUE /\ length_str' = <<>> /\ parts' = <<>>
      /\ UNCHANGED <<sent, whole, unsent, wire, open, got>>
  BY DEF RecvNothing
<1>2. Typed /\ Counted /\ Reading
  BY DEF IInv
<1>3. PICK start : Laid(start, sent, Len(got), whole, Held)
  BY <1>1 DEF IInv
<1> DEFINE g == Len(got)
<1>4. /\ g \in Nat /\ whole \in Nat /\ Len(sent) \in Nat /\ g <= whole /\ whole <= Len(sent)
      /\ length_str \in Seq(Int) /\ parts \in Seq(Int) /\ wire \in Seq(Int)
  <2>1. g \in Nat /\ Len(sent) \in Nat
    BY <1>2 DEF Typed
  <2> QED BY <2>1, <1>2 DEF Typed, Counted
<1>5. Len(Held) = Len(length_str) + Len(parts) /\ Len(length_str) \in Nat /\ Len(parts) \in Nat
  <2> DEFINE a == length_str \o parts
  <2>1. a \in Seq(Int) /\ Len(a) = Len(length_str) + Len(parts)
    BY <1>4, Concat
  <2> HIDE DEF a
  <2>2. a \o <<>> = a
    BY <2>1, JoinNothing
  <2>3. Held = a
    BY <2>2, <1>1 DEF Held, a
  <2>4. Len(length_str) \in Nat /\ Len(parts) \in Nat
    BY <1>4
  <2> QED BY <2>1, <2>3, <2>4
<1>6. g = whole
  <2> SUFFICES ASSUME g # whole PROVE FALSE
    OBVIOUS
  <2>1. g + 1 \in g + 1 .. whole /\ g + 1 \in g + 1 .. Len(sent) /\ g + 1 \in 1 .. Len(sent)
    BY <1>4
  <2> DEFINE s == sent[g + 1]
  <2>2. s \in Seq(Int)
    BY <2>1, <1>2 DEF Typed
  <2>3. start[g + 1 + 1] <= Len(Held)
    BY <2>1, <1>3 DEF Laid
  <2>4. start[g + 1 + 1] = start[g + 1] + 4 + Len(s) /\ start[g + 1] = 0
    BY <2>1, <1>3 DEF Laid
  <2> HIDE DEF s
  <2>5. Len(s) \in Nat
    BY <2>2
  <2>6. 4 + Len(s) <= Len(Held)
    BY <2>3, <2>4, <2>5
  <2>7. CASE Len(length_str) = 4
    <3>1. Len(parts) < Len(s)
      BY <2>7, <1>2 DEF Reading, s
    <3> QED BY <3>1, <2>5, <2>6, <2>7, <1>5
  <2>8. CASE Len(length_str) # 4
    <3>1. parts = <<>> /\ Len(length_str) < 4
      BY <2>8, <1>2, <1>5 DEF Reading
    <3>2. Len(parts) = 0
      BY <3>1
    <3> QED BY <3>1, <3>2, <2>5, <2>6, <1>5
  <2> QED BY <2>7, <2>8
<1>7. Typed'
  <2>1. <<>> \in Seq(Int)
    OBVIOUS
  <2> QED BY <2>1, <1>1, <1>2 DEF Typed
<1>8. Counted'
  BY <1>1, <1>2 DEF Counted
<1>9. Reading'
  <2>1. Len(length_str') = 0
    BY <1>1
  <2>2. Len(length_str') <= 4 /\ Len(length_str') # 4
    BY <2>1
  <2> QED BY <2>2, <1>1 DEF Reading
<1> QED BY <1>1, <1>6, <1>7, <1>8, <1>9 DEF IInv

\* What RecvPart does, with the two cases apart.
LEMMA RecvPartStep ==
  SizesFit /\ IInv /\ RecvPart =>
    /\ IInv' /\ UNCHANGED <<sent, whole, failed>> /\ ~failed
    /\ got' = got \/ (Len(got) < whole /\ got' = Append(got, sent[Len(got) + 1]))
<1> SUFFICES ASSUME SizesFit, IInv, RecvPart
             PROVE  /\ IInv' /\ UNCHANGED <<sent, whole, failed>> /\ ~failed
                    /\ got' = got \/ (Len(got) < whole /\ got' = Append(got, sent[Len(got) + 1]))
  OBVIOUS
<1>1. ~failed /\ Len(length_str) = 4 /\ UNCHANGED <<sent, whole, unsent, open, failed>>
  BY DEF RecvPart
<1>2. PICK r \in Recv(Unpacked(length_str) - Len(parts)) :
        /\ wire' = SubSeq(wire, Len(r) + 1, Len(wire))
        /\ IF Len(parts) + Len(r) < Unpacked(length_str)
           THEN parts' = parts \o r /\ UNCHANGED <<length_str, got>>
           ELSE got' = Append(got, parts \o r) /\ length_str' = <<>> /\ parts' = <<>>
  BY DEF RecvPart
<1>3. CASE Len(parts) + Len(r) < Unpacked(length_str)
  <2>1. parts' = parts \o r /\ UNCHANGED <<length_str, got>>
    BY <1>2, <1>3
  <2>2. IInv'
    BY <1>1, <1>2, <1>3, <2>1, RecvPartInv
  <2> QED BY <2>1, <2>2, <1>1
<1>4. CASE ~(Len(parts) + Len(r) < Unpacked(length_str))
  <2>1. got' = Append(got, parts \o r) /\ length_str' = <<>> /\ parts' = <<>>
    BY <1>2, <1>4
  <2>2. IInv' /\ Len(got) < whole /\ got' = Append(got, sent[Len(got) + 1])
    BY <1>1, <1>2, <1>4, <2>1, LastPartInv
  <2> QED BY <2>2, <1>1
<1> QED BY <1>3, <1>4

\* A step of the stream is a step of the abstract queue, or changes nothing of it.
LEMMA QueueStep == SizesFit /\ IInv /\ [Next]_vars => [Queue!Next]_(Queue!vars)
<1> SUFFICES ASSUME SizesFit, IInv, [Next]_vars PROVE [Queue!Next]_(Queue!vars)
  OBVIOUS
<1>1. CASE SendObject
  <2>1. PICK n \in Sizes : sent' = Append(sent, Dumped(Len(sent) + 1, n))
    BY <1>1 DEF SendObject
  <2>2. open /\ unsent = <<>> /\ UNCHANGED <<whole, got, failed>>
    BY <1>1 DEF SendObject
  <2>3. whole = Len(sent)
    <3>1. ~failed
      BY <2>2 DEF IInv, Counted
    <3>2. PICK start : Pending(start, sent, whole, Held, unsent)
      BY <2>2, <3>1 DEF IInv
    <3> QED BY <2>2, <3>2 DEF Pending
  <2> DEFINE x == Dumped(Len(sent) + 1, n)
  <2>4. x \in Seq(Int) /\ sent \in Seq(Seq(Int))
    BY DEF SizesFit, Dumped, IInv, Typed
  <2> HIDE DEF x
  <2>5. x \in {sent'[i] : i \in DOMAIN sent'}
    <3>1. sent' = Append(sent, x)
      BY <2>1 DEF x
    <3> QED BY <3>1, <2>4
  <2>6. Queue!Begin(x)
    BY <2>1, <2>2, <2>3 DEF Queue!Begin, x
  <2> QED BY <2>5, <2>6 DEF Queue!Next
<1>2. CASE SendAll
  <2>1. open /\ unsent # <<>> /\ UNCHANGED <<sent, got, failed>>
    BY <1>2 DEF SendAll
  <2>2. whole' = whole \/ whole' = whole + 1
    BY <1>2 DEF SendAll
  <2>3. whole < Len(sent)
    <3>1. ~failed
      BY <2>1 DEF IInv, Counted
    <3>2. PICK start : Pending(start, sent, whole, Held, unsent)
      BY <2>1, <3>1 DEF IInv
    <3>3. whole = Len(sent) - 1
      BY <2>1, <3>2 DEF Pending
    <3>4. Len(sent) \in Nat
      BY DEF IInv, Typed
    <3> QED BY <3>3, <3>4
  <2> QED BY <2>1, <2>2, <2>3 DEF Queue!Next, Queue!End, Queue!vars
<1>3. CASE Die
  BY <1>3 DEF Die, Queue!vars
<1>4. CASE RecvLength
  BY <1>4 DEF RecvLength, Queue!vars
<1>5. CASE RecvPart
  <2>1. /\ UNCHANGED <<sent, whole, failed>> /\ ~failed
        /\ got' = got \/ (Len(got) < whole /\ got' = Append(got, sent[Len(got) + 1]))
    BY <1>5, RecvPartStep
  <2> QED BY <2>1 DEF Queue!Next, Queue!Receive, Queue!vars
<1>6. CASE RecvNothing
  <2>1. Len(got) = whole
    BY <1>6, RecvNothingInv
  <2>2. ~failed /\ failed' = TRUE /\ UNCHANGED <<sent, whole, got>>
    BY <1>6 DEF RecvNothing
  <2> QED BY <2>1, <2>2 DEF Queue!Next, Queue!Fail
<1>7. CASE UNCHANGED vars
  BY <1>7 DEF vars, Queue!vars
<1> QED BY <1>1, <1>2, <1>3, <1>4, <1>5, <1>6, <1>7 DEF Next

\* Every step keeps the invariant.
LEMMA InvStep == SizesFit /\ IInv /\ [Next]_vars => IInv'
<1> SUFFICES ASSUME SizesFit, IInv, [Next]_vars PROVE IInv'
  OBVIOUS
<1>1. CASE RecvPart
  BY <1>1, RecvPartStep
<1>2. CASE UNCHANGED vars
  BY <1>2 DEF vars, IInv, Typed, Counted, Reading, Held
<1> QED
  BY <1>1, <1>2, SendObjectInv, SendAllInv, DieInv, RecvLengthInv, RecvNothingInv DEF Next

\* The stream implements the abstract queue: for dumps of any lengths and a socket that
\* takes and gives any pieces, the objects arrive whole, each once and in the order in
\* which they were sent, and none that was sent in whole is missing when the receiver gets
\* IOError.
THEOREM StreamImplementsQueue == ASSUME SizesFit PROVE Spec => ImplementsQueue
<1>1. Init => IInv /\ Queue!Init
  BY InvInit DEF Init, Queue!Init
<1>2. IInv /\ [Next]_vars => IInv' /\ [Queue!Next]_(Queue!vars)
  BY InvStep, QueueStep
<1> QED BY <1>1, <1>2, PTL DEF Spec, ImplementsQueue, Queue!Spec

\* recv_object never mixes the bytes of two objects.
THEOREM StreamIsRight == ASSUME SizesFit PROVE Spec => [](TypeOK /\ PartsAreOfOne)
<1>1. Init => IInv
  BY InvInit
<1>2. IInv /\ [Next]_vars => IInv'
  BY InvStep
<1>3. IInv => TypeOK /\ PartsAreOfOne
  <2> SUFFICES ASSUME IInv PROVE TypeOK /\ PartsAreOfOne
    OBVIOUS
  <2>1. Typed /\ Counted /\ Reading
    BY DEF IInv
  <2>2. DOMAIN sent = 1 .. Len(sent)
    BY <2>1 DEF Typed
  <2>3. TypeOK
    BY <2>1, <2>2 DEF TypeOK, Typed, Counted, Reading
  <2>4. ASSUME parts # <<>> PROVE PartsAreOfOne
    <3>1. Len(length_str) = 4 /\ ~failed
      BY <2>1, <2>4 DEF Counted, Reading
    <3> QED BY <3>1, WhatIsRead DEF PartsAreOfOne
  <2>5. parts = <<>> => PartsAreOfOne
    BY DEF PartsAreOfOne
  <2> QED BY <2>3, <2>4, <2>5
<1> QED BY <1>1, <1>2, <1>3, PTL DEF Spec
===============================================================================
