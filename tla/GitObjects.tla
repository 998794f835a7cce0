----------------------------- MODULE GitObjects -----------------------------
(***************************************************************************)
(* dulwich's objects, which DreamPie's check for updates reads the commits *)
(* of its repository with.  A ShaFile reads its file and parses its text   *)
(* when it must, serializes its fields when they were set, and keeps the   *)
(* hash of its text, which is its name: flags say what is up to date.      *)
(* Second, the headers of commits and tags, the entries of trees and time  *)
(* zones: what is read, written and accepted by check().                   *)
(***************************************************************************)
EXTENDS Integers, Sequences, SequencesExt, FiniteSets, FiniteSetsExt

CONSTANTS
  Texts,      \* serialized objects, each its own hash
  Bad,        \* one of them that cannot be parsed
  Rough,      \* one that parses, and is not what would be written
  Smooth,     \* what Rough is written as
  Digits,     \* the numbers of a time zone
  MaxLen,     \* headers, or entries, of a text
  Null

VARIABLES
  obj,        \* the object
  content,    \* the text that it stands for: what was last given to it
  loose,      \* whether it was given something in a way that is not kept track of
  said,       \* what it said last
  text        \* what is read headers or entries from: its kind, and they

vars == <<obj, content, loose, said, text>>

Kinds == {"blob", "other"}

Parses(o, t) == o.kind = "blob" \/ t # Bad
Parsed(t) == IF t = Rough THEN Smooth ELSE t   \* the fields, by what they are written as

Nothing == [what |-> "nothing", value |-> Null]

Init ==
  /\ obj = Null /\ content = Null /\ loose = FALSE /\ said = Nothing
  /\ text = [kind |-> Null, items |-> <<>>]

-----------------------------------------------------------------------------
\* What a call does with the object, and whether it raises no exception.

\* Mutations of the definitions that follow, each named after the one it is of.
\* The hash of the text before stays.
SetRawChunks_sha(o, t) ==
  IF Parses(o, t)
  THEN [ok |-> TRUE, o |-> [o EXCEPT !.chunks = t, !.fields = Parsed(t),
                                     !.np = FALSE, !.ns = FALSE]]
  ELSE [ok |-> FALSE, o |-> [o EXCEPT !.chunks = t]]

\* What was read is to be written again.
SetRawChunks_written(o, t) ==
  IF Parses(o, t)
  THEN [ok |-> TRUE, o |-> [o EXCEPT !.chunks = t, !.fields = Parsed(t), !.sha = Null, !.np = FALSE]]
  ELSE [ok |-> FALSE, o |-> [o EXCEPT !.chunks = t]]

\* set_raw_chunks(): the text is kept before it is known to parse.
SetRawChunks(o, t) ==
  IF Parses(o, t)
  THEN [ok |-> TRUE, o |-> [o EXCEPT !.chunks = t, !.fields = Parsed(t), !.sha = Null,
                                     !.np = FALSE, !.ns = FALSE]]
  ELSE [ok |-> FALSE, o |-> [o EXCEPT !.chunks = t]]

\* _ensure_parsed(): the file is read when there is no text yet.
EnsureParsed(o) ==
  LET r == IF o.chunks = Null THEN SetRawChunks(o, o.file) ELSE [ok |-> Parses(o, o.chunks), o |-> o]
  IN IF ~o.np THEN [ok |-> TRUE, o |-> o]
     ELSE IF ~r.ok THEN r
     ELSE [ok |-> TRUE, o |-> [r.o EXCEPT !.fields = Parsed(r.o.chunks), !.np = FALSE]]

\* as_raw_chunks(), which writes the fields whenever they were set; a blob only once.
Raw(o) ==
  IF o.np THEN EnsureParsed(o)
  ELSE IF ~o.ns THEN [ok |-> TRUE, o |-> o]
  ELSE IF o.kind = "blob" THEN [ok |-> TRUE, o |-> [o EXCEPT !.ns = FALSE]]
  ELSE [ok |-> o.fields # Null, o |-> [o EXCEPT !.chunks = o.fields]]

\* The hash is taken from the file's name when there is one.
Hashed_named(o) ==
  LET r == Raw(o)
  IN IF o.sha # Null THEN [ok |-> TRUE, o |-> o]
     ELSE IF ~r.ok THEN r
     ELSE [ok |-> TRUE, o |-> [r.o EXCEPT !.sha = r.o.chunks]]

\* sha(): the hash is kept, and computed again as long as there are fields to write.
Hashed(o) ==
  LET r == Raw(o)
  IN IF o.sha # Null /\ ~o.ns THEN [ok |-> TRUE, o |-> o]
     ELSE IF ~r.ok THEN r
     ELSE [ok |-> TRUE, o |-> [r.o EXCEPT !.sha = r.o.chunks]]

Says(r, what, value) ==
  /\ obj' = r.o
  /\ said' = IF r.ok THEN [what |-> what, value |-> value] ELSE [what |-> "error", value |-> Null]

-----------------------------------------------------------------------------
\* from_file() and from_path(), whose name is a hash; __init__(), with set_raw_string()
\* from_string() and its like.
Create(kind, t, name) ==
  /\ obj = Null /\ text.kind = Null
  /\ obj' = [kind |-> kind, file |-> t, sha |-> name, name |-> name,
             np |-> TRUE, ns |-> TRUE, chunks |-> Null, fields |-> Null]
  /\ content' = t
  /\ UNCHANGED <<loose, said, text>>

New(t) ==
  /\ obj = Null /\ text.kind = Null /\ t # Bad
  /\ LET o == [kind |-> "other", file |-> Null, sha |-> Null, name |-> Null,
               np |-> FALSE, ns |-> TRUE, chunks |-> Null, fields |-> Null]
     IN obj' = SetRawChunks(o, t).o
  /\ content' = t
  /\ UNCHANGED <<loose, said, text>>

\* id, as_raw_string(), and a field.
Id == obj # Null /\ Says(Hashed(obj), "text", Hashed(obj).o.sha) /\ UNCHANGED <<content, loose, text>>
AsRaw == obj # Null /\ Says(Raw(obj), "text", Raw(obj).o.chunks) /\ UNCHANGED <<content, loose, text>>
Get ==
  /\ obj # Null
  /\ Says(EnsureParsed(obj), "field", EnsureParsed(obj).o.fields)
  /\ UNCHANGED <<content, loose, text>>

\* A field is set in what was parsed, and there is nothing to write.
Set_unwritten(t) ==
  /\ obj # Null /\ obj.kind = "other" /\ t \notin {Bad, Rough}
  /\ Says(LET r == EnsureParsed(obj) IN IF r.ok THEN [r EXCEPT !.o.fields = t] ELSE r, "set", Null)
  /\ content' = IF EnsureParsed(obj).ok THEN t ELSE content
  /\ UNCHANGED <<loose, text>>

\* A field is set in what was not parsed.
Set_unparsed(t) ==
  /\ obj # Null /\ obj.kind = "other" /\ t \notin {Bad, Rough}
  /\ obj' = [obj EXCEPT !.fields = t, !.ns = TRUE]
  /\ content' = t
  /\ said' = Nothing
  /\ UNCHANGED <<loose, text>>

\* serializable_property()
Set(t) ==
  /\ obj # Null /\ obj.kind = "other" /\ t \notin {Bad, Rough}
  /\ Says(LET r == EnsureParsed(obj)
          IN IF r.ok THEN [r EXCEPT !.o.fields = t, !.o.ns = TRUE] ELSE r, "set", Null)
  /\ content' = IF EnsureParsed(obj).ok THEN t ELSE content
  /\ UNCHANGED <<loose, text>>

\* set_raw_string(): an exception leaves the text, and neither fields nor hash, replaced.
SetRaw(t) ==
  /\ obj # Null
  /\ LET r == SetRawChunks(obj, t) IN
       /\ Says(r, "set", Null)
       /\ content' = IF r.ok THEN t ELSE content
       /\ loose' = ~r.ok
  /\ UNCHANGED text

\* A blob's chunked, which keeps the hash.
SetChunked(t) ==
  /\ obj # Null /\ obj.kind = "blob"
  /\ obj' = [obj EXCEPT !.chunks = t]
  /\ content' = t /\ loose' = TRUE /\ said' = Nothing
  /\ UNCHANGED text

\* check()
Check ==
  /\ obj # Null
  /\ LET a == Hashed(obj)
         b == Raw(a.o)
         c == Hashed([b.o EXCEPT !.fields = Parsed(b.o.chunks), !.sha = Null])
     IN IF ~a.ok THEN Says(a, "checked", Null)
        ELSE IF ~b.ok \/ ~Parses(obj, b.o.chunks) THEN Says([b EXCEPT !.ok = FALSE], "checked", Null)
        ELSE Says(c, IF c.o.sha = a.o.sha THEN "checked" ELSE "mismatch", Null)
  /\ UNCHANGED <<content, loose, text>>

-----------------------------------------------------------------------------
\* Commits and tags: their headers, each a field and a value.

LastField(h) == IF h = <<>> THEN Null ELSE Last(h)[1]

\* An encoding, too, may follow the encoding.
Follows_twice(f, last) ==
  CASE f = "tree" -> last = Null
    [] f = "parent" -> last \in {"parent", "tree"}
    [] f = "author" -> last \in {"tree", "parent"}
    [] f = "committer" -> last = "author"
    [] f = "encoding" -> last \in {"committer", "encoding"}
    [] OTHER -> TRUE

\* The order that Commit.check() asks for: what f may come after.
Follows(f, last) ==
  CASE f = "tree" -> last = Null
    [] f = "parent" -> last \in {"parent", "tree"}
    [] f = "author" -> last \in {"tree", "parent"}
    [] f = "committer" -> last = "author"
    [] f = "encoding" -> last = "committer"
    [] OTHER -> TRUE

ValuesOf(h, f) == LET v == SelectSeq(h, LAMBDA x : x[1] = f) IN [i \in 1 .. Len(v) |-> v[i][2]]

\* The value of a header that counts once: the last one's.
ValueOf(h, f) == IF ValuesOf(h, f) = <<>> THEN Null ELSE Last(ValuesOf(h, f))

CommitFields == {"tree", "parent", "author", "committer", "encoding"}

\* Commit._deserialize()
CommitOf(h) ==
  [tree |-> ValueOf(h, "tree"), parents |-> ValuesOf(h, "parent"), author |-> ValueOf(h, "author"),
   committer |-> ValueOf(h, "committer"), encoding |-> ValueOf(h, "encoding"),
   extra |-> SelectSeq(h, LAMBDA x : x[1] \notin CommitFields)]

\* Commit.check()
CommitChecks(h) ==
  /\ CommitOf(h).tree # Null /\ CommitOf(h).author # Null /\ CommitOf(h).committer # Null
  /\ \A i \in 1 .. Len(h) : Follows(h[i][1], LastField(SubSeq(h, 1, i - 1)))

Header(f, v) == IF v = Null THEN <<>> ELSE <<<<f, v>>>>

\* The parents come the other way round.
CommitText_reversed(c) ==
  Header("tree", c.tree)
    \o Reverse([i \in 1 .. Len(c.parents) |-> <<"parent", c.parents[i]>>])
    \o Header("author", c.author) \o Header("committer", c.committer)
    \o Header("encoding", c.encoding) \o c.extra

\* Commit._serialize()
CommitText(c) ==
  Header("tree", c.tree)
    \o [i \in 1 .. Len(c.parents) |-> <<"parent", c.parents[i]>>]
    \o Header("author", c.author) \o Header("committer", c.committer)
    \o Header("encoding", c.encoding) \o c.extra

\* What may follow what in Tag.check(), and what a tag must have.
TagFollows(f, last) ==
  CASE f = "object" -> last = Null
    [] f = "type" -> last = "object"
    [] f = "tag" -> last = "type"
    [] f = "tagger" -> last = "tag"

TagOf(h) ==
  [object |-> ValueOf(h, "object"), type |-> ValueOf(h, "type"), tag |-> ValueOf(h, "tag"),
   tagger |-> ValueOf(h, "tagger")]

\* A tag may have no name.
TagChecks_unnamed(h) ==
  /\ TagOf(h).object # Null /\ TagOf(h).type # Null
  /\ \A i \in 1 .. Len(h) : TagFollows(h[i][1], LastField(SubSeq(h, 1, i - 1)))

TagChecks(h) ==
  /\ TagOf(h).object # Null /\ TagOf(h).type # Null /\ TagOf(h).tag # Null
  /\ \A i \in 1 .. Len(h) : TagFollows(h[i][1], LastField(SubSeq(h, 1, i - 1)))

TagText(t) ==
  Header("object", t.object) \o Header("type", t.type) \o Header("tag", t.tag) \o Header("tagger", t.tagger)

-----------------------------------------------------------------------------
\* Trees: their entries, each a name, of characters, and a mode.

Slash == 47

Before(s, t) ==
  \/ IsStrictPrefix(s, t)
  \/ \E n \in DOMAIN s \cap DOMAIN t : SubSeq(s, 1, n - 1) = SubSeq(t, 1, n - 1) /\ s[n] < t[n]

\* cmp_entry(): a directory is where its name with a slash would be.
SortName(e) == IF e.mode = "dir" THEN Append(e.name, Slash) ELSE e.name

\* The entries are written in the order of their names.
TreeText_names(entries) ==
  SetToSortSeq({[name |-> n, mode |-> entries[n]] : n \in DOMAIN entries},
               LAMBDA a, b : Before(a.name, b.name))

\* sorted_tree_items() and serialize_tree(), of the entries by their names.
TreeText(entries) ==
  SetToSortSeq({[name |-> n, mode |-> entries[n]] : n \in DOMAIN entries},
               LAMBDA a, b : Before(SortName(a), SortName(b)))

\* parse_tree() and Tree._deserialize(): of two entries of a name, the last.
TreeOf(items) ==
  [n \in {items[i].name : i \in 1 .. Len(items)} |->
     Last(SelectSeq(items, LAMBDA e : e.name = n)).mode]

\* Tree.check(): only entries beside each other are compared.
TreeChecks(items) ==
  \A i \in 1 .. Len(items) - 1 :
    /\ ~Before(SortName(items[i + 1]), SortName(items[i]))
    /\ items[i].name # items[i + 1].name

-----------------------------------------------------------------------------
\* Time zones: a sign and a number, which may have a sign of its own.

Minus(zone) == IF zone.sign = "-" THEN -zone.number ELSE zone.number
AbsOf(n) == IF n < 0 THEN -n ELSE n

\* parse_timezone(), with the offset in minutes
Zone(zone) ==
  LET n == Minus(zone)
      a == (AbsOf(n) \div 100) * 60 + (AbsOf(n) % 100)
  IN [offset |-> IF n < 0 THEN -a ELSE a, neg |-> n >= 0 /\ zone.sign = "-"]

\* Only what is negative has a minus sign.
ZoneText_plain(z) ==
  LET a == AbsOf(z.offset)
      n == (a \div 60) * 100 + (a % 60)
  IN [sign |-> IF z.offset < 0 THEN "-" ELSE "+", number |-> n]

\* format_timezone(): hours are rounded down, so a quarter to minus one is minus one hour
\* and 15 minutes, which are written after it.
ZoneText(z) ==
  LET minus == z.offset < 0 \/ z.neg
      a == IF minus THEN -z.offset ELSE z.offset
      hours == a \div 60
  IN [sign |-> IF minus THEN "-" ELSE "+",
      number |-> IF hours < 0 THEN hours * 100 - (a % 60) ELSE hours * 100 + (a % 60)]

-----------------------------------------------------------------------------
Headers(kind) ==
  CASE kind = "commit" -> (CommitFields \cup {"mergetag"}) \X {1}
                            \cup {<<"parent", 2>>, <<"mergetag", 2>>}
    [] kind = "tag" -> {"object", "type", "tag", "tagger"} \X {1}
    [] kind = "tree" -> [name : {<<97>>, <<97, 46>>, <<97, 48>>}, mode : {"file", "dir"}]
    [] kind = "zone" -> [sign : {"+", "-"}, number : Digits \cup {-n : n \in Digits}]

\* One more header, or entry, is read; a text whose order is wrong already goes on no
\* further.
Read(kind, x) ==
  /\ obj = Null /\ text.kind \in {Null, kind} /\ Len(text.items) < MaxLen
  /\ kind = "zone" => text.items = <<>>
  /\ kind = "commit" => \A i \in 1 .. Len(text.items) :
                          Follows(text.items[i][1], LastField(SubSeq(text.items, 1, i - 1)))
  /\ kind = "tree" => Len(text.items) < 4
  /\ text' = [kind |-> kind, items |-> Append(text.items, x)]
  /\ UNCHANGED <<obj, content, loose, said>>

Next ==
  \/ \E kind \in Kinds, t \in Texts, name \in Texts \cup {Null} : Create(kind, t, name)
  \/ \E t \in Texts : New(t) \/ Set(t) \/ SetRaw(t) \/ SetChunked(t)
  \/ Id \/ AsRaw \/ Get \/ Check
  \/ \E kind \in {"commit", "tag", "tree", "zone"} : \E x \in Headers(kind) : Read(kind, x)

Spec == Init /\ [][Next]_vars

-----------------------------------------------------------------------------
\* Whatever was read, set and asked before, an object says what it was given last: the
\* text it was read from, to the byte, as long as it was not changed, and the hash of that.
SaysItsContent ==
  loose \/ CASE said.what = "text" -> said.value = content
             [] said.what = "field" -> said.value = Parsed(content)
             [] said.what = "error" -> content = Bad
             [] OTHER -> TRUE

\* check() finds text that cannot be parsed, also where set_raw_string() left it.
BadIsFound == said.what = "checked" => Parses(obj, obj.chunks)

\* check() raises ChecksumMismatch for an object whose file has the name of another.  It
\* does not hold, and no run checks it: the hash that check() compares to is its own.
MismatchIsRaised == said.what = "checked" /\ obj.name # Null /\ ~loose => obj.name = content

\* check() accepts a commit, or a tag, just if its headers are in git's order, and what
\* it accepts is written as it was read.
HeadersRoundTrip ==
  LET h == text.items IN
    /\ text.kind = "commit" =>
         /\ CommitChecks(h) <=>
              \E p \in 0 .. Len(h), e \in {0, 1} :
                /\ p + 3 + e <= Len(h)
                /\ \A i \in 1 .. Len(h) :
                     h[i][1] = CASE i = 1 -> "tree"
                                 [] i \in 2 .. p + 1 -> "parent"
                                 [] i = p + 2 -> "author"
                                 [] i = p + 3 -> "committer"
                                 [] i = p + 4 /\ e = 1 -> "encoding"
                                 [] OTHER -> "mergetag"
         /\ CommitChecks(h) => CommitText(CommitOf(h)) = h
    /\ text.kind = "tag" =>
         /\ TagChecks(h) <=> Len(h) >= 3 /\ \A i \in 1 .. Len(h) :
                               i <= 4 /\ h[i][1] = <<"object", "type", "tag", "tagger">>[i]
         /\ TagChecks(h) => TagText(TagOf(h)) = h

\* The entries of a tree are written in the one order that check() accepts and read back
\* as they were; what it accepts is written as it was read, but for a name that is there
\* twice, as file and as directory with another between them.
TreesRoundTrip ==
  LET items == text.items
      tree == TreeOf(items)
  IN text.kind = "tree" =>
       /\ TreeChecks(TreeText(tree)) /\ TreeOf(TreeText(tree)) = tree
       /\ TreeChecks(items) /\ Cardinality(DOMAIN tree) = Len(items) => TreeText(tree) = items

\* A time zone is written as it was read, -0000 and --700 too, but for hours of two signs
\* that are not whole.
ZonesRoundTrip ==
  text.kind = "zone" =>
    LET t == text.items[1]
        minutes == AbsOf(t.number) % 100
    IN minutes < 60 /\ (t.number < 0 => t.sign = "-" /\ minutes = 0) => ZoneText(Zone(t)) = t
=============================================================================
