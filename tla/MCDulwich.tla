------------------------------ MODULE MCDulwich -----------------------------
(***************************************************************************)
(* The copy of dulwich in the source tree: references and the store of     *)
(* objects (Repository), objects (GitObjects), packs (GitPack), the cache  *)
(* that packs use (LRUCache), the comparison of trees (GitDiff), the names *)
(* of references (GitNames), and what client and server say to each other  *)
(* (GitTransfer).  They share no state here, so they are checked side by   *)
(* side: a behaviour exercises one part and leaves the others as they      *)
(* start.                                                                  *)
(***************************************************************************)
EXTENDS Repository, SequencesExt

CONSTANT Null

VARIABLES
  part,  \* the part that this behaviour exercises
  obj, content, looseText, objSaid, text,
  packPart, packData, external, chain, packCache, packSaid, stream, input,
  nodes, most, least, max, after, value_size, cleaned, cleaning,
  trees, setting, toEach, diffPc, toWalk, adds, deletes, changes, candidates,
  named, packedFile, fileTells, namesRead, answer, renamings,
  kind, level, parents, time, tagged, transferPc, at, up, down, tips, wants, values, heads, seen,
  dropped, common, base, todo, done, sent, received, acked, said, twice, refs, oldRefs, newRefs,
  left, status, unpacked, readahead, told, outcome, bufsize, rbuf, rpos, wire, given, rv, asked

-----------------------------------------------------------------------------
\* A history with a merge, and one with two branches; times that fit it and that do not.
MCDags ==
  {("c1" :> {}) @@ ("c2" :> {"c1"}) @@ ("c3" :> {"c1"}) @@ ("c4" :> {"c2", "c3"}),
   ("c1" :> {}) @@ ("c2" :> {"c1"}) @@ ("c3" :> {"c2"}) @@ ("c4" :> {"c2"})}
MCTimes ==
  {("c1" :> 1) @@ ("c2" :> 2) @@ ("c3" :> 2) @@ ("c4" :> 3),
   ("c1" :> 1) @@ ("c2" :> 3) @@ ("c3" :> 2) @@ ("c4" :> 2)}
MCHeads == {{"c2"}, {"c4"}, {"c2", "c3"}, {"c1", "c4"}}
MCTreeOf == ("c1" :> "t1") @@ ("c2" :> "t1") @@ ("c3" :> "t2") @@ ("c4" :> "t3")
MCEntries ==
  ("t1" :> {<<"file", "b1">>}) @@
  ("t2" :> {<<"file", "b1">>, <<"tree", "t1">>, <<"link", "elsewhere">>}) @@
  ("t3" :> {<<"tree", "t2">>, <<"file", "b2">>})
MCTarget == "tag" :> "c2"

T == INSTANCE GitTransfer WITH
  Dags <- MCDags, Times <- MCTimes, TreeOf <- MCTreeOf, Entries <- MCEntries, Target <- MCTarget,
  Heads <- MCHeads, Levels <- {"single", "multi", "detailed"},
  Branches <- {"r1", "r2"}, Tips <- {"c1", "c2"}, BufSizes <- {5, 9, 30},
  RBufSize <- 3, Sizes <- 1 .. 4, StreamLen <- 7, Kinds <- {"fetch", "push", "wire"},
  pc <- transferPc, old <- oldRefs, new <- newRefs

\* Where a file is replaced by a rename (GitRefs itself); or is not, and is moved aside.
MCInitLoose == {("HEAD" :> "m") @@ ("m" :> x) @@ ("b" :> None) : x \in {None, "s1"}}
MCInitPacked == {("m" :> "s1") @@ ("b" :> x) : x \in {None, "s1"}}
W == INSTANCE GitRefs WITH Ops <- {"set", "remove", "add", "symref"}, AtomicRename <- FALSE

O == INSTANCE GitObjects WITH
  Texts <- {"a", "b", "rough", "bad"}, Bad <- "bad", Rough <- "rough", Smooth <- "a",
  Digits <- {0, 30, 59, 60, 100, 130, 700}, MaxLen <- 7, Null <- Null,
  loose <- looseText, said <- objSaid

P == INSTANCE GitPack WITH
  Names <- {1, 2, 3}, MaxObjects <- 3, Lengths <- {2, 3, 6}, Trailer <- 3, Reads <- {1, 2, 4, 7},
  Numbers <- {0, 1, 15, 16, 127, 128, 129, 2047, 2048, 16383, 16384, 16511, 16512, 2097151,
              2097152, 268435455},
  Offsets <- {0, 255, 256, 65536, 16777216}, Sizes <- {1, 127, 128, 254, 255, 65535, 65536, 65537},
  Null <- Null, part <- packPart, pack <- packData, cache <- packCache, said <- packSaid

\* Limited in number; or in size.
L == INSTANCE LRUCache WITH
  Keys <- {"a", "b", "c"}, Values <- {1, 2}, Limits <- {2, 3}, BySize <- FALSE, Null <- Null,
  cache <- nodes
Z == INSTANCE LRUCache WITH
  Keys <- {"a", "b", "c"}, Values <- {1, 2, 3}, Limits <- {2, 4}, BySize <- TRUE, Null <- Null,
  cache <- nodes

\* Trees of some files, at paths that do not exclude each other: over files and links in
\* a directory or in its place, five names of one content, three of similar contents, modes
\* and git links, and contents of which one has its lines twice.
Leaf(mode, hash) == [mode |-> mode, sha |-> hash]
LeavesOf(hashes) == {Leaf("file", h) : h \in hashes}
TreesOver(paths, leaves) ==
  UNION {[D -> leaves] : D \in {E \in SUBSET paths : \A p, q \in E : ~IsStrictPrefix(p, q)}}
Flat(n) == {<<i>> : i \in 1 .. n}
DiffContent ==
  ("a" :> <<"x", "nl", "y", "y", "z">>) @@ ("b" :> <<"x", "nl", "y", "y", "w">>)
  @@ ("c" :> <<"z", "x", "nl">>) @@ ("d" :> <<"x", "nl", "x", "nl", "y", "y">>) @@ ("e" :> <<>>)
Nested == TreesOver({<<1>>, <<2>>, <<2, 1>>, <<2, 2>>}, LeavesOf({"a", "b"}) \cup {Leaf("link", "a")})
Copied == TreesOver(Flat(5), LeavesOf({"a"}))
Similar == TreesOver(Flat(3), LeavesOf({"a", "b", "c"}))
Modes == TreesOver(Flat(2), LeavesOf({"e"}) \cup {Leaf("gitlink", "g"), Leaf("gitlink", "h"), Leaf("exec", "a")})
Repeated == TreesOver(Flat(2), LeavesOf({"b", "d"}))
DiffPairs ==
  UNION {t \X t : t \in {Nested, Copied, Similar, Modes, Repeated}}
  \cup ({Null} \X Nested) \cup (Nested \X {Null})
\* Merges of two and of three parents.
Merged == TreesOver(Flat(1), LeavesOf({"a", "b"}) \cup {Leaf("link", "a"), Leaf("exec", "a")})
DiffMerges == (Merged \X Merged \X Merged) \cup (Merged \X Merged \X Merged \X Merged)
Setting(renames, unchanged, harder, rewrite, limit, merge) ==
  [renames |-> renames, unchanged |-> unchanged, harder |-> harder, rewrite |-> rewrite,
   files |-> limit, merge |-> merge]
DiffSettings ==
  {Setting(FALSE, u, FALSE, Null, 9, FALSE) : u \in BOOLEAN} \cup {Setting(FALSE, FALSE, FALSE, Null, 9, TRUE)}
  \cup {Setting(TRUE, u, h, Null, 9, FALSE) : u, h \in BOOLEAN}
  \cup {Setting(TRUE, FALSE, FALSE, 50, 9, FALSE), Setting(TRUE, FALSE, TRUE, 90, 9, FALSE),
        Setting(TRUE, TRUE, FALSE, 90, 9, FALSE), Setting(TRUE, FALSE, FALSE, Null, 1, FALSE)}
D == INSTANCE GitDiff WITH
  Pairs <- DiffPairs, Merges <- DiffMerges, Settings <- DiffSettings, Content <- DiffContent,
  BlockSize <- 2, Threshold <- 60, Null <- Null,
  set <- setting, of <- toEach, pc <- diffPc, todo <- toWalk

\* Two branches, of which one is in a directory with a name that begins like the other's,
\* a tag of a tag, and two files that are no references.
NamePaths ==
  ("HEAD" :> <<"HEAD">>) @@ ("a" :> <<"refs", "heads", "a">>)
  @@ ("lock" :> <<"refs", "heads", "a.lock">>) @@ ("hidden" :> <<"refs", "heads", ".a">>)
  @@ ("b" :> <<"refs", "headsup", "b">>) @@ ("t" :> <<"refs", "tags", "t">>)
NameFiles ==
  {("HEAD" :> "a") @@ ("a" :> x) @@ ("lock" :> "c1") @@ ("hidden" :> "c1") @@ ("b" :> b) @@ ("t" :> "t2") :
     x \in {"c1", "HEAD"}, b \in {"none", "c1"}}
NameTags == ("t1" :> "c1") @@ ("t2" :> "t1")
NameEnding == <<"heads", "headsup">> :> "up"
N == INSTANCE GitNames WITH
  Path <- NamePaths, Refs <- <<"a", "b", "t">>, InitLoose <- NameFiles, Tagged <- NameTags,
  Shas <- {"c1", "t1", "t2"}, Bases <- {<<>>, <<"refs", "heads">>, <<"refs", "tags">>},
  Ending <- NameEnding, Hidden <- {".a"}, Locks <- {"a.lock"}, MaxChanges <- 2,
  loose <- named, file <- packedFile, told <- fileTells, cache <- namesRead, said <- answer,
  changes <- renamings

storeVars == <<looseObjects, objectLock, pack, idx, idxLock, clock, mtime, packList, cacheTime,
               storePc, storeObj, storeTodo, got, look, storeOps, stored, own, thin, moved, loaded,
               since, storeRobbed>>
objectVars == <<obj, content, looseText, objSaid, text>>
packVars == <<packPart, packData, external, chain, packCache, packSaid, stream, input>>
cacheVars == <<nodes, most, least, max, after, value_size, cleaned, cleaning>>
diffVars == <<trees, setting, toEach, diffPc, toWalk, adds, deletes, changes, candidates>>
nameVars == <<named, packedFile, fileTells, namesRead, answer, renamings>>
transferVars == <<kind, level, parents, time, tagged, transferPc, at, up, down, tips, wants, values,
                  heads, seen, dropped, common, base, todo, done, sent, received, acked, said,
                  twice, refs, oldRefs, newRefs, left, status, unpacked, readahead, told, outcome,
                  bufsize, rbuf, rpos, wire, given, rv, asked>>
allVars == <<part, vars, storeVars, objectVars, packVars, cacheVars, diffVars, nameVars, transferVars>>

Parts == {"refs", "windows", "store", "objects", "pack", "cache", "sizes", "diff", "names", "transfer"}

-----------------------------------------------------------------------------
MCInit ==
  /\ part \in Parts
  /\ IF part = "transfer" THEN T!Init ELSE T!Quiet /\ T!InitWire /\ parents = CHOOSE d \in MCDags : TRUE
  /\ Init
  /\ part \in {"refs", "windows"} \/ (loose["m"] = None /\ packed["b"] = None)
  /\ Store!Init /\ O!Init /\ P!Init
  /\ N!Init /\ (part = "names" \/ (named["a"] = "c1" /\ named["b"] = "none"))
  /\ IF part = "sizes" THEN Z!Init ELSE L!Init /\ (part = "cache" \/ max = 2)
  /\ IF part = "diff"
     THEN D!Init
     ELSE /\ trees = <<>> /\ setting = Null /\ toEach = <<>> /\ diffPc = "none" /\ toWalk = <<>>
          /\ adds = <<>> /\ deletes = <<>> /\ changes = {} /\ candidates = {}

MCNext ==
  \/ part = "transfer" /\ T!Next
     /\ UNCHANGED <<part, vars, storeVars, objectVars, packVars, cacheVars, diffVars,
                    nameVars>>
  \/ part = "refs" /\ Next
     /\ UNCHANGED <<part, storeVars, objectVars, packVars, cacheVars, diffVars, nameVars, transferVars>>
  \/ part = "windows" /\ W!Next
     /\ UNCHANGED <<part, storeVars, objectVars, packVars, cacheVars, diffVars, nameVars, transferVars>>
  \/ part = "store" /\ Store!Next
     /\ UNCHANGED <<part, vars, objectVars, packVars, cacheVars, diffVars, nameVars, transferVars>>
  \/ part = "objects" /\ O!Next
     /\ UNCHANGED <<part, vars, storeVars, packVars, cacheVars, diffVars, nameVars, transferVars>>
  \/ part = "pack" /\ P!Next
     /\ UNCHANGED <<part, vars, storeVars, objectVars, cacheVars, diffVars, nameVars, transferVars>>
  \/ part = "cache" /\ L!Next
     /\ UNCHANGED <<part, vars, storeVars, objectVars, packVars, diffVars, nameVars, transferVars>>
  \/ part = "sizes" /\ Z!Next
     /\ UNCHANGED <<part, vars, storeVars, objectVars, packVars, diffVars, nameVars, transferVars>>
  \/ part = "diff" /\ D!Next
     /\ UNCHANGED <<part, vars, storeVars, objectVars, packVars, cacheVars, nameVars, transferVars>>
  \/ part = "names" /\ N!Next
     /\ UNCHANGED <<part, vars, storeVars, objectVars, packVars, cacheVars, diffVars, transferVars>>

MCSpec == MCInit /\ [][MCNext]_allVars

-----------------------------------------------------------------------------
\* GitObjects: an object says what it was given last, and what is parsed is written as it
\* was read.  GitPack: each object of a pack is found, as it was, however the pack came,
\* and numbers, deltas and the index are read as they were written.  LRUCache: the list is
\* that of the entries in the order of their use, the size is theirs, and what leaves is
\* cleaned up.  GitNames: the names that are listed are those of the references and lead to
\* their objects, a tag's peeled object is what the tag is of, also where the server's list
\* of them says so, and the references that are not removed keep their packed lines.
ObjectsAreTrue ==
  /\ [](part = "objects" =>
          /\ O!SaysItsContent /\ O!BadIsFound
          /\ O!HeadersRoundTrip /\ O!TreesRoundTrip /\ O!ZonesRoundTrip)
  /\ [](part = "pack" =>
          /\ P!EachIsFoundOnce /\ P!CompleteIsWhole /\ P!StreamIsRead
          /\ P!NumbersRoundTrip /\ P!DeltasRoundTrip /\ P!LookupIsExact)
  /\ [](part = "cache" => L!ListIsWhole /\ L!SizeIsTrue)
  /\ [](part = "sizes" => Z!ListIsWhole /\ Z!SizeIsTrue)
  /\ [](part = "names" => N!ListIsTrue /\ N!PeeledIsTrue /\ N!InfoIsTrue)
  /\ L!OrderIsOfUse /\ L!LeavingIsCleaned /\ Z!OrderIsOfUse /\ Z!LeavingIsCleaned
  /\ N!OthersAreKept

\* GitTransfer: the client gets all that it wants and says what it has, the two understand
\* each other and do not wait for each other but where a push has no pack, and what a push
\* reports is true.
TransfersAreWhole ==
  part = "transfer" =>
    /\ T!FetchIsComplete /\ T!WalkIsComplete /\ T!BaseIsReached /\ T!LinesAreUnderstood
    /\ T!NobodyWaits /\ T!ReportIsTrue /\ T!StreamIsInOrder

\* GitDiff: two trees are told apart by their changes, and nothing is told twice; a file
\* comes from the most similar one that there was, similarity is mutual, and of a merge
\* what its parents do not explain is told.
DiffsAreTrue ==
  part = "diff" =>
    /\ D!ChangesAreTheDifference /\ D!EachIsToldOnce /\ D!ComesFromTheMostSimilar
    /\ D!ScoreIsSymmetric /\ D!MergeIsOfConflicts
=============================================================================
