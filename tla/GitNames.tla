------------------------------ MODULE GitNames ------------------------------
(***************************************************************************)
(* The names of a repository's references: which ones dulwich finds, in    *)
(* the directories and in the file packed-refs, what each of them is, and  *)
(* to what object it leads when tags are followed ("peeled"), as far as    *)
(* the file says that already.  generate_info_refs() makes a file of that, *)
(* which InfoRefsContainer reads.  A call is one step: GitRefs is about    *)
(* several processes.                                                      *)
(***************************************************************************)
EXTENDS Integers, Sequences, SequencesExt, FiniteSets, Functions

CONSTANTS
  Path,        \* of each file that there may be: its name, as the sequence of its components
  Refs,        \* the files that are references below refs/, in the order of their names
  InitLoose,   \* what the files may contain at first
  Tagged,      \* what each tag is of: objects, perhaps a tag again
  Shas,        \* objects
  Bases,       \* below what references are asked for; all of them: <<>>
  Ending,        \* of two components, of which the second begins with the first: what follows
  Hidden, Locks,  \* components that begin with a dot, and that end in .lock
  MaxChanges,  \* bound: how often something changes
  Null

\* There is no such file, or it is empty.
None == "none"
Empty == ""
Files == DOMAIN Path
RefSet == ToSet(Refs)

VARIABLES
  loose,    \* the contents of each file: an object or the name of another reference
  file,     \* packed-refs: whether its first line says that it has peeled objects, and its lines
  told,     \* ghost: whether it tells what every tag in it is of
  cache,    \* _packed_refs and _peeled_refs
  said,     \* the last call and its result
  changes

vars == <<loose, file, told, cache, said, changes>>

Nothing == [call |-> "none", of |-> <<>>, result |-> Null]

Init ==
  /\ loose \in InitLoose /\ file = Null /\ told = TRUE
  /\ cache = Null /\ said = Nothing /\ changes = 0

-----------------------------------------------------------------------------
\* The file packed-refs.

Line(sha, name) == [mark |-> "ref", sha |-> sha, name |-> name]
Peel(sha) == [mark |-> "peel", sha |-> sha, name |-> None]
Comment == [mark |-> "comment", sha |-> None, name |-> None]

\* Mutations of the definitions that follow have a name with an underscore and what is
\* wrong with them: TLC refutes a property with each.

\* What is peeled is left out.
Written_plain(refs, peeled) ==
  FlattenSeq([i \in DOMAIN Refs |-> IF Refs[i] \in DOMAIN refs THEN <<Line(refs[Refs[i]], Refs[i])>> ELSE <<>>])

\* write_packed_refs()
Written(refs, peeled) ==
  FlattenSeq([i \in DOMAIN Refs |->
    LET n == Refs[i] IN
    (IF n \in DOMAIN refs THEN <<Line(refs[n], n)>> ELSE <<>>)
    \o (IF n \in DOMAIN refs \cap DOMAIN peeled THEN <<Peel(peeled[n])>> ELSE <<>>)])

NoRefs == [refs |-> <<>>, peeled |-> <<>>, last |-> Null, raised |-> FALSE]

\* The line that was read last is a reference without a peeled object.
Yielded(s) == IF s.last = Null THEN s ELSE [s EXCEPT !.refs = (s.last.name :> s.last.sha) @@ @, !.last = Null]

\* The reference is lost that has a peeled object.
ReadPeeled_lost(lines) ==
  LET Next(s, l) ==
        CASE s.raised \/ l.mark = "comment" -> s
          [] l.mark = "peel" -> IF s.last = Null THEN [s EXCEPT !.raised = TRUE]
                                ELSE [s EXCEPT !.peeled = (s.last.name :> l.sha) @@ @, !.last = Null]
          [] OTHER -> [Yielded(s) EXCEPT !.last = l]
  IN Yielded(FoldLeft(Next, NoRefs, lines))

\* read_packed_refs_with_peeled()
ReadPeeled(lines) ==
  LET Next(s, l) ==
        CASE s.raised \/ l.mark = "comment" -> s
          [] l.mark = "peel" -> IF s.last = Null THEN [s EXCEPT !.raised = TRUE]
                                ELSE [Yielded(s) EXCEPT !.peeled = (s.last.name :> l.sha) @@ @]
          [] OTHER -> [Yielded(s) EXCEPT !.last = l]
      end == FoldLeft(Next, NoRefs, lines)
  IN IF end.raised THEN end ELSE Yielded(end)

\* read_packed_refs()
ReadPlain(lines) ==
  LET Next(s, l) ==
        CASE s.raised \/ l.mark = "comment" -> s
          [] l.mark = "peel" -> [s EXCEPT !.raised = TRUE]
          [] OTHER -> [s EXCEPT !.refs = (l.name :> l.sha) @@ @]
  IN FoldLeft(Next, NoRefs, lines)

\* What is read of the file; if that raises, what was read before.
Contents ==
  IF file = Null THEN NoRefs ELSE IF file.peeled THEN ReadPeeled(file.lines) ELSE ReadPlain(file.lines)
Fresh == [refs |-> Contents.refs, peeled |-> Contents.peeled]

\* get_packed_refs(), which reads it once.  It raises only when it reads.
Packed == IF cache = Null THEN Fresh ELSE cache
Raises == cache = Null /\ Contents.raised

-----------------------------------------------------------------------------
\* The names.

\* Lock files are taken for references.
CheckRefFormat_lock(path) == Len(path) > 1 /\ \A i \in DOMAIN path : path[i] \notin Hidden

\* check_ref_format()
CheckRefFormat(path) ==
  /\ Len(path) > 1 /\ \A i \in DOMAIN path : path[i] \notin Hidden
  /\ Last(path) \notin Locks

Present == {n \in Files : loose[n] # None}

\* allkeys()
AllKeys ==
  {Path[n] : n \in {m \in Present : m = "HEAD" \/ (Path[m][1] = "refs" /\ CheckRefFormat(Path[m]))}}
  \cup {Path[n] : n \in DOMAIN Packed.refs}

\* startswith(base), character by character.
StartsWith(path, base) ==
  LET k == Len(base) IN
  /\ Len(path) >= k /\ SubSeq(path, 1, k - 1) = Front(base)
  /\ path[k] = base[k] \/ <<base[k], path[k]>> \in DOMAIN Ending

\* What follows base, without the slash.
Rest(path, base) ==
  LET k == Len(base)
      below == SubSeq(path, k + 1, Len(path))
  IN IF path[k] = base[k] THEN below ELSE <<Ending[<<base[k], path[k]>>]>> \o below

\* Only what is loose.
Subkeys_loose(base) ==
  {Rest(Path[n], base) : n \in {m \in Present : IsStrictPrefix(base, Path[m]) /\ CheckRefFormat(Path[m])}}

\* subkeys()
Subkeys(base) ==
  {Rest(Path[n], base) : n \in {m \in Present : IsStrictPrefix(base, Path[m]) /\ CheckRefFormat(Path[m])}}
  \cup {Rest(Path[n], base) : n \in {m \in DOMAIN Packed.refs : StartsWith(Path[m], base)}}

\* The packed reference is read although there is a loose one.
ReadRef_packed(n) ==
  IF n \in DOMAIN Packed.refs THEN Packed.refs[n] ELSE IF loose[n] = Empty THEN None ELSE loose[n]

\* read_ref(): an empty file is as good as none.
ReadRef(n) ==
  IF loose[n] \notin {None, Empty} THEN loose[n]
  ELSE IF n \in DOMAIN Packed.refs THEN Packed.refs[n] ELSE None

\* _follow(), from a reference that is read after depth others; None if that leads
\* nowhere or too far.
Followed(n) ==
  LET follow[depth \in 0 .. 6, m \in Files] ==
        LET contents == ReadRef(m)
        IN IF contents = None \/ depth = 5 THEN None
           ELSE IF contents \in Files THEN follow[depth + 1, contents] ELSE contents
  IN follow[0, n]

\* A file that is no reference at all, or does not lead to one, is kept.
AsDict_kept(base) ==
  LET keys == IF base = <<>> THEN AllKeys ELSE Subkeys(base)
      Name(k) == {n \in Files : Path[n] = base \o k}
  IN [k \in {j \in keys : Name(j) # {}} |-> Followed(CHOOSE n \in Name(k) : TRUE)]

\* as_dict(): keys that cannot be resolved are left out.
AsDict(base) ==
  LET keys == IF base = <<>> THEN AllKeys ELSE Subkeys(base)
      Name(k) == {n \in Files : Path[n] = base \o k}
  IN [k \in {j \in keys : \E n \in Name(j) : Followed(n) # None} |-> Followed(CHOOSE n \in Name(k) : TRUE)]

\* peel_sha(): tags are followed.
PeelSha(s) == LET peel[x \in Shas] == IF x \in DOMAIN Tagged THEN peel[Tagged[x]] ELSE x IN peel[s]

\* BaseRepo.get_peeled(), with DiskRefsContainer.get_peeled(): as the file says, or
\* what is in it and not a tag; a reference that is not in it is followed.
GetPeeled(n) ==
  IF n \notin DOMAIN Packed.refs THEN PeelSha(Followed(n))
  ELSE IF n \in DOMAIN Packed.peeled THEN Packed.peeled[n]
  ELSE Followed(n)

\* HEAD is among them.
InfoLines_head(refs) ==
  LET Of(n) == IF Path[n] \notin DOMAIN refs THEN <<>>
               ELSE <<Line(refs[Path[n]], n)>>
                    \o (IF GetPeeled(n) # refs[Path[n]] THEN <<[Peel(GetPeeled(n)) EXCEPT !.name = n]>> ELSE <<>>)
      names == <<"HEAD">> \o Refs
  IN FlattenSeq([i \in DOMAIN names |-> Of(names[i])])

\* generate_info_refs(): each reference but HEAD, and the object if that is another one.
InfoLines(refs) ==
  LET Of(n) == IF Path[n] \notin DOMAIN refs THEN <<>>
               ELSE <<Line(refs[Path[n]], n)>>
                    \o (IF GetPeeled(n) # refs[Path[n]] THEN <<[Peel(GetPeeled(n)) EXCEPT !.name = n]>> ELSE <<>>)
  IN FlattenSeq([i \in DOMAIN Refs |-> Of(Refs[i])])

\* InfoRefsContainer.__init__()
InfoRead(lines) ==
  LET Of(mark) == {l \in ToSet(lines) : l.mark = mark}
      Told(mark) == [n \in {l.name : l \in Of(mark)} |-> (CHOOSE l \in Of(mark) : l.name = n).sha]
  IN [refs |-> Told("ref"), peeled |-> Told("peel"),
      raised |-> \E l \in ToSet(lines) : ~CheckRefFormat(Path[l.name])]

\* InfoRefsContainer.get_peeled()
InfoPeeled(info, n) == IF n \in DOMAIN info.peeled THEN info.peeled[n] ELSE info.refs[n]

-----------------------------------------------------------------------------
\* Each call reads the packed references first.
Ask(call, of, result) ==
  /\ said.call # call \/ said.of # of
  /\ said' = [call |-> call, of |-> of, result |-> IF Raises THEN Null ELSE result]
  /\ cache' = Packed
  /\ UNCHANGED <<loose, file, told, changes>>

List == \E base \in Bases : Ask("as_dict", base, AsDict(base))
AskPeeled == \E n \in RefSet : Followed(n) # None /\ Ask("get_peeled", <<n>>, GetPeeled(n))
Info == Ask("info", <<>>, InfoRead(InfoLines(AsDict(<<>>))))

Change == changes < MaxChanges /\ changes' = changes + 1

\* A reference, a file to become one, or one that is left empty, is written.
Update(n, x) ==
  /\ Change /\ loose[n] # x
  /\ loose' = [loose EXCEPT ![n] = x] /\ said' = Nothing
  /\ UNCHANGED <<file, told, cache>>

\* What the files say, as git sees it: a reference is what its file says, or else what
\* is packed.
InFile(n) == IF n \in DOMAIN Fresh.refs THEN Fresh.refs[n] ELSE None
Is[n \in Files] == IF loose[n] \notin {None, Empty} THEN loose[n] ELSE InFile(n)

\* git packs the references that are no symbolic ones, and says what the tags are of or
\* does not, or does without saying so first; perhaps with a comment.
PackRefs(peeled, header, prune) ==
  LET packable == {n \in RefSet : Is[n] \in Shas}
      refs == [n \in packable |-> Is[n]]
      tags == [n \in {m \in packable : peeled /\ refs[m] \in DOMAIN Tagged} |-> PeelSha(refs[n])]
  IN /\ Change /\ ~Contents.raised
     /\ file' = [peeled |-> header, lines |-> <<Comment>> \o Written(refs, tags)]
     /\ told' = peeled
     /\ loose' = [n \in Files |-> IF prune /\ n \in packable THEN None ELSE loose[n]]
     /\ said' = Nothing /\ UNCHANGED cache

\* _remove_packed_ref(): the file is read again and written without the reference, if it
\* has been read before.
RemoveRef(n) ==
  /\ Change
  /\ loose' = [loose EXCEPT ![n] = None]
  /\ said' = [call |-> "remove", of |-> <<n>>, result |-> Null]
  /\ IF cache = Null THEN UNCHANGED <<file, cache>>
     ELSE LET left == [refs |-> Restrict(Fresh.refs, DOMAIN Fresh.refs \ {n}),
                       peeled |-> Restrict(Fresh.peeled, DOMAIN Fresh.peeled \ {n})]
          IN IF Contents.raised \/ n \notin DOMAIN Fresh.refs
             THEN cache' = Fresh /\ UNCHANGED file
             ELSE cache' = left /\ file' = [peeled |-> TRUE, lines |-> Written(left.refs, left.peeled)]
  /\ UNCHANGED told

Next ==
  \/ List \/ AskPeeled \/ Info
  \/ \E n \in RefSet, x \in Shas \cup {Empty} : Update(n, x)
  \/ \E peeled, header, prune \in BOOLEAN : PackRefs(peeled, header, prune)
  \/ \E n \in RefSet : RemoveRef(n)

Spec == Init /\ [][Next]_vars

-----------------------------------------------------------------------------
\* To what object a reference leads.
Leads(n) == IF Is[n] \in Files THEN (IF Is[Is[n]] \in Files THEN None ELSE Is[Is[n]]) ELSE Is[n]

Knows == said.result # Null /\ cache = Fresh /\ ~Contents.raised

\* as_dict() has each reference below the base that leads to an object, with that object,
\* and nothing else: no file that is a lock or hidden, and none that is beside the base
\* with a name that begins like it, whether they are in the directory or in the file.
ListIsTrue ==
  Knows /\ said.call = "as_dict" =>
    LET below == {n \in RefSet \cup {"HEAD"} : IsPrefix(said.of, Path[n]) /\ Leads(n) # None}
    IN /\ DOMAIN said.result = {SubSeq(Path[n], Len(said.of) + 1, Len(Path[n])) : n \in below}
       /\ \A n \in below : said.result[SubSeq(Path[n], Len(said.of) + 1, Len(Path[n]))] = Leads(n)

\* What a reference is peeled to, told or found, is what the tags lead to: if the file
\* tells what its tags are of, also after it was written without a reference, and the
\* reference was not moved since it was packed.
Told(n) == InFile(n) = None \/ (told /\ Is[n] = InFile(n))

PeeledIsTrue ==
  Knows /\ said.call = "get_peeled" /\ Told(said.of[1]) =>
    said.result = PeelSha(Leads(said.of[1]))

\* The file info/refs says the same: it has all references but HEAD, and to what the
\* tags lead.
InfoIsTrue ==
  Knows /\ said.call = "info" =>
    /\ ~said.result.raised
    /\ DOMAIN said.result.refs = {n \in RefSet : Leads(n) # None}
    /\ \A n \in DOMAIN said.result.refs :
         /\ said.result.refs[n] = Leads(n)
         /\ Told(n) => InfoPeeled(said.result, n) = PeelSha(Leads(n))

\* To remove a reference leaves in the file all the others, and what they are peeled to;
\* a file that cannot be read is left as it is.
OthersAreKept ==
  [][said'.call = "remove" /\ changes' # changes =>
       /\ Contents.raised => file' = file
       /\ \A m \in RefSet \ {said'.of[1]} :
            /\ InFile(m)' = InFile(m)
            /\ m \in DOMAIN Fresh.peeled => m \in DOMAIN Fresh'.peeled /\ Fresh'.peeled[m] = Fresh.peeled[m]]_vars
=============================================================================
