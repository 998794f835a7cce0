------------------------------- MODULE GitDiff -------------------------------
(***************************************************************************)
(* dulwich's comparison of trees: two trees are walked together, what      *)
(* differs is collected, and a RenameDetector looks among what was added   *)
(* and deleted for renames and copies, first of the same content, then of  *)
(* similar content.  A tree is the function from the paths of its files to *)
(* mode and hash, and so is each directory in it; a path is the sequence   *)
(* of its names, which are numbers in their order.                         *)
(***************************************************************************)
EXTENDS Integers, Sequences, SequencesExt, FiniteSets, FiniteSetsExt

CONSTANTS
  Pairs,      \* the trees that are compared, each a pair; Null for none
  Merges,     \* merges: the trees of the parents, and that of the merge
  Settings,   \* whether renames are found, what is unchanged wanted, copies looked for
              \* harder, below what similarity a change is split, and max_files
  Content,    \* what a blob holds: characters, and "nl" for the end of a line
  BlockSize,  \* _BLOCK_SIZE
  Threshold,  \* RENAME_THRESHOLD
  Null

VARIABLES
  trees,      \* the parents' trees and the tree, or the two that are compared
  set,        \* the setting
  of,         \* of a merge, the changes to each parent
  pc,         \* what comes next
  todo,       \* the pairs of entries that are left to walk, the next one first
  adds, deletes, changes, candidates   \* of the RenameDetector

vars == <<trees, set, of, pc, todo, adds, deletes, changes, candidates>>

NoEntry == [path |-> Null, mode |-> Null, sha |-> Null]
Change(type, old, new) == [type |-> type, old |-> old, new |-> new]
Added(new) == Change("add", NoEntry, new)
Deleted(old) == Change("delete", old, NoEntry)

IsTree(e) == e.mode = "dir"
Type(mode) == IF mode = "exec" THEN "file" ELSE mode   \* stat.S_IFMT()

\* The mode tells first whether the hashes can be compared.
Same(a, b) == a.mode = b.mode /\ a.path = b.path /\ a.sha = b.sha

Root(tree) == IF tree = Null THEN NoEntry ELSE [path |-> <<>>, mode |-> "dir", sha |-> tree]

Init ==
  /\ set \in Settings
  /\ trees \in IF set.merge THEN Merges ELSE Pairs
  /\ Null \in Range(trees) => ~set.renames
  /\ of = <<>>
  /\ pc = "walk" /\ todo = <<<<Root(trees[1]), Root(Last(trees))>>>>
  /\ adds = <<>> /\ deletes = <<>> /\ changes = {} /\ candidates = {}

-----------------------------------------------------------------------------
\* Walking the trees.

\* The entries of a directory, by name.
EntriesOf(e) ==
  LET names == {p[1] : p \in DOMAIN e.sha}
      In(n) == [q \in {Tail(p) : p \in {p \in DOMAIN e.sha : p[1] = n}} |-> e.sha[<<n>> \o q]]
  IN IF ~IsTree(e) THEN <<>>
     ELSE [n \in names |->
             IF <<n>> \in DOMAIN e.sha
             THEN [path |-> Append(e.path, n), mode |-> e.sha[<<n>>].mode, sha |-> e.sha[<<n>>].sha]
             ELSE [path |-> Append(e.path, n), mode |-> "dir", sha |-> In(n)]]

\* Mutations of the definitions that follow, each named after the one it is of.
\* What follows the end of the first directory is left out.
MergeEntries_ends(e1, e2) ==
  LET a == EntriesOf(e1)
      b == EntriesOf(e2)
      Of(f, n) == IF n \in DOMAIN f THEN f[n] ELSE NoEntry
      names == SetToSortSeq({n \in DOMAIN a \cup DOMAIN b : \E m \in DOMAIN a : n <= m}, <)
  IN [i \in 1 .. Len(names) |-> <<Of(a, names[i]), Of(b, names[i])>>]

\* _merge_entries(): both are sorted, and an entry meets the one of its name.
MergeEntries(e1, e2) ==
  LET a == EntriesOf(e1)
      b == EntriesOf(e2)
      Of(f, n) == IF n \in DOMAIN f THEN f[n] ELSE NoEntry
      names == SetToSortSeq(DOMAIN a \cup DOMAIN b, <)
  IN [i \in 1 .. Len(names) |-> <<Of(a, names[i]), Of(b, names[i])>>]

SkipTree(e) == IF IsTree(e) THEN NoEntry ELSE e

\* What tree_changes() makes of a pair of entries.  A file that became another type is
\* a delete and an add.
ChangesOf(e1, e2, unchanged) ==
  LET a == SkipTree(e1)
      b == SkipTree(e2)
  IN CASE Same(e1, e2) /\ ~unchanged -> <<>>
       [] a = NoEntry /\ b = NoEntry -> <<>>
       [] b = NoEntry -> <<Deleted(a)>>
       [] a = NoEntry -> <<Added(b)>>
       [] Type(a.mode) # Type(b.mode) -> <<Deleted(a), Added(b)>>
       [] OTHER -> <<Change(IF a = b THEN "unchanged" ELSE "modify", a, b)>>

-----------------------------------------------------------------------------
\* How similar two blobs are.

\* The blocks end with a line, after BlockSize characters, or with the content.
Ends(c) ==
  LET Line(i) == Max({0} \cup {j \in 1 .. i - 1 : c[j] = "nl"})
  IN {i \in 1 .. Len(c) : c[i] = "nl" \/ (i - Line(i)) % BlockSize = 0 \/ i = Len(c)}

\* _count_blocks(): the bytes in blocks of each kind.
CountBlocks(c) ==
  LET ends == Ends(c)
      Block(e) == SubSeq(c, Max({0} \cup {f \in ends : f < e}) + 1, e)
  IN [b \in {Block(e) : e \in ends} |-> MapThenSumSet(LAMBDA e : Len(b), {e \in ends : Block(e) = b})]

\* A block counts as often as it is in the first.
CommonBytes_first(x, y) == MapThenSumSet(LAMBDA b : x[b], DOMAIN x \cap DOMAIN y)

CommonBytes(x, y) ==
  MapThenSumSet(LAMBDA b : IF x[b] < y[b] THEN x[b] ELSE y[b], DOMAIN x \cap DOMAIN y)

\* _similarity_score(), of the hashes of two blobs
Score(s, t) ==
  LET size == Max({Len(Content[s]), Len(Content[t])})
  IN IF size = 0 THEN 100
     ELSE (CommonBytes(CountBlocks(Content[s]), CountBlocks(Content[t])) * 100) \div size

-----------------------------------------------------------------------------
\* The RenameDetector.

ShouldSplit(c) == set.rewrite # Null /\ c.type = "modify" /\ c.old.sha # c.new.sha

\* The changes that are collected, each where _add_change() puts it; Content has no entry
\* for the hash of a git link, and there is no such object in the store.
Collected(cs, type) ==
  LET Split(c) == ShouldSplit(c) /\ Score(c.old.sha, c.new.sha) < set.rewrite
      Deletes(c) == IF c.type \in {"delete", "modify"} \/ (c.type = "unchanged" /\ set.harder)
                    THEN <<IF Split(c) THEN Deleted(c.old) ELSE c>> ELSE <<>>
      Adds(c) == IF c.type = "add" \/ Split(c) THEN <<Added(c.new)>> ELSE <<>>
  IN FlattenSeq([i \in 1 .. Len(cs) |-> IF type = "add" THEN Adds(cs[i]) ELSE Deletes(cs[i])])

Wanted == set.unchanged \/ (set.renames /\ set.harder)

\* The changes that a rename may come from are not looked at.
Collect_kept(cs) ==
  /\ adds' = adds \o Collected(cs, "add")
  /\ deletes' = deletes \o SelectSeq(Collected(cs, "delete"), LAMBDA c : c.type = "delete")
  /\ changes' = changes \cup {c \in Range(cs) : c.type = "modify"}
                        \cup {c \in Range(cs) : c.type = "unchanged" /\ ~set.harder}

Collect(cs) ==
  /\ adds' = adds \o Collected(cs, "add")
  /\ deletes' = deletes \o Collected(cs, "delete")
  /\ changes' = changes \cup {c \in Range(cs) : c.type = "unchanged" /\ ~set.harder}

\* Directories are equal if their entries have the same names.
Pruned_names(e1, e2) == ~Wanted /\ IsTree(e1) /\ IsTree(e2) /\ DOMAIN e1.sha = DOMAIN e2.sha

\* walk_trees(), with prune_identical
Pruned(e1, e2) == ~Wanted /\ IsTree(e1) /\ IsTree(e2) /\ Same(e1, e2)

\* One turn of walk_trees() and of the loops over what it yields.
Walk ==
  /\ pc = "walk" /\ todo # <<>>
  /\ LET e1 == todo[1][1]
         e2 == todo[1][2]
         cs == ChangesOf(e1, e2, Wanted)
         lost == set.renames /\ \E c \in Range(cs) : ShouldSplit(c) /\ c.old.mode = "gitlink"
     IN IF Pruned(e1, e2)
        THEN todo' = Tail(todo) /\ UNCHANGED <<pc, adds, deletes, changes>>
        ELSE /\ todo' = MergeEntries(e1, e2) \o Tail(todo)
             /\ pc' = IF lost THEN "error" ELSE pc
             /\ CASE lost -> UNCHANGED <<adds, deletes, changes>>
                  [] set.renames /\ ~lost -> Collect(cs)
                  [] OTHER -> changes' = changes \cup Range(cs) /\ UNCHANGED <<adds, deletes>>
  /\ UNCHANGED <<trees, set, of, candidates>>

\* The walk is over.
Walked ==
  /\ pc = "walk" /\ todo = <<>> /\ ~set.merge
  /\ pc' = IF set.renames THEN "exact" ELSE "done"
  /\ UNCHANGED <<trees, set, of, todo, adds, deletes, changes, candidates>>

\* tree_changes_for_merge(): the tree is compared to each parent's.
NextParent ==
  /\ pc = "walk" /\ todo = <<>> /\ set.merge
  /\ of' = Append(of, changes)
  /\ changes' = {}
  /\ IF Len(of') < Len(trees) - 1
     THEN todo' = <<<<Root(trees[Len(of') + 1]), Root(Last(trees))>>>> /\ UNCHANGED pc
     ELSE pc' = "merge" /\ UNCHANGED todo
  /\ UNCHANGED <<trees, set, adds, deletes, candidates>>

PathOf(c) == IF c.type = "delete" THEN c.old.path ELSE c.new.path

\* The change of a path to a parent: an add comes after a delete.
ChangeTo(i, path) ==
  LET cs == {c \in of[i] : PathOf(c) = path}
  IN IF \E c \in cs : c.type # "delete" THEN {c \in cs : c.type # "delete"} ELSE cs

\* A path is in conflict as soon as it was changed to each of the parents.
Conflicting_all(path) ==
  \A i \in DOMAIN of : ChangeTo(i, path) # {}

\* Deletes of several contents; changes of several types; or a change to each parent.
Conflicting(path) ==
  LET have == UNION {ChangeTo(i, path) : i \in DOMAIN of}
  IN IF \A c \in have : c.type = "delete"
     THEN \E c, d \in have : c.old.sha # d.old.sha
     ELSE (\E c, d \in have : c.type # d.type) \/ (\A i \in DOMAIN of : ChangeTo(i, path) # {})

\* What is yielded, by the paths.
Merge ==
  /\ pc = "merge" /\ pc' = "done"
  /\ changes' = {c \in UNION Range(of) : Conflicting(PathOf(c))}
  /\ UNCHANGED <<trees, set, of, todo, adds, deletes, candidates>>

Prune(addPaths, deletePaths) ==
  /\ adds' = SelectSeq(adds, LAMBDA c : c.new.path \notin addPaths)
  /\ deletes' = SelectSeq(deletes, LAMBDA c : c.old.path \notin deletePaths)

\* Each file that was added is a rename of the first that was deleted.
ExactOf_first(sha) ==
  LET ds == SelectSeq(deletes, LAMBDA c : c.old.sha = sha)
      as == SelectSeq(adds, LAMBDA c : c.new.sha = sha)
  IN {Change(IF ds[1].type = "delete" THEN "rename" ELSE "copy", ds[1].old, as[i].new) : i \in DOMAIN as}

\* The adds and deletes of a hash are paired in turn; what is added more often is a copy.
\* With more deletes than adds the number of extra adds is negative, and the adds from
\* there on are copies as well.
ExactOf(sha) ==
  LET ds == SelectSeq(deletes, LAMBDA c : c.old.sha = sha)
      as == SelectSeq(adds, LAMBDA c : c.new.sha = sha)
      extra == Len(as) - Len(ds)
      from == CASE extra > 0 -> Len(ds) + 1 [] extra = 0 -> Len(as) + 1 [] OTHER -> 1 - extra
      paired == {i \in DOMAIN ds \cap DOMAIN as : Type(ds[i].old.mode) = Type(as[i].new.mode)}
  IN {Change(IF ds[i].type = "delete" THEN "rename" ELSE "copy", ds[i].old, as[i].new) : i \in paired}
       \cup {Change("copy", ds[1].old, as[i].new) : i \in from .. Len(as)}

FindExactRenames ==
  LET found == UNION {ExactOf(sha) : sha \in {d.old.sha : d \in Range(deletes)}}
  IN /\ pc = "exact" /\ pc' = "candidates"
     /\ changes' = changes \cup found
     /\ Prune({c.new.path : c \in found}, {c.old.path : c \in {c \in found : c.type = "rename"}})
     /\ UNCHANGED <<trees, set, of, todo, candidates>>

RenameType(d, a) ==
  CASE d.old.path = a.new.path -> "modify"
    [] d.old.path # a.new.path /\ d.type # "delete" -> "copy"
    [] OTHER -> "rename"

\* _find_content_rename_candidates(), unless there are too many adds and deletes.
FindCandidates ==
  LET may == Len(adds) * Len(deletes) <= set.files * set.files
      pairs == {p \in Range(deletes) \X Range(adds) :
                  /\ p[1].old.mode # "gitlink" /\ Type(p[1].old.mode) = Type(p[2].new.mode)
                  /\ Score(p[1].old.sha, p[2].new.sha) > Threshold}
  IN /\ pc = "candidates" /\ pc' = "choose"
     /\ candidates' = IF may
          THEN {[score |-> Score(p[1].old.sha, p[2].new.sha),
                 change |-> Change(RenameType(p[1], p[2]), p[1].old, p[2].new)] : p \in pairs}
          ELSE {}
     /\ UNCHANGED <<trees, set, of, todo, adds, deletes, changes>>

Before(s, t) ==
  \/ IsStrictPrefix(s, t)
  \/ \E n \in DOMAIN s \cap DOMAIN t : SubSeq(s, 1, n - 1) = SubSeq(t, 1, n - 1) /\ s[n] < t[n]

\* The lowest score is first.
Better_worst(c, d) ==
  \/ c.score < d.score
  \/ c.score = d.score /\ Before(c.change.old.path \o c.change.new.path, d.change.old.path \o d.change.new.path)

\* The order of the candidates: by falling scores, then as tuples are compared.
Better(c, d) ==
  LET rank == [copy |-> 1, modify |-> 2, rename |-> 3]
      x == c.change
      y == d.change
  IN \/ c.score > d.score
     \/ c.score = d.score /\ rank[x.type] < rank[y.type]
     \/ c.score = d.score /\ x.type = y.type /\ Before(x.old.path, y.old.path)
     \/ c.score = d.score /\ x.type = y.type /\ x.old = y.old /\ Before(x.new.path, y.new.path)

\* _choose_content_renames(): each add takes the best that there is for it; the first that
\* is of a deleted file is its rename, the others are copies.
ChooseContentRenames ==
  LET Chosen == {c \in candidates : \A d \in candidates :
                   d.change.new.path = c.change.new.path => d = c \/ Better(c, d)}
      Taken(c) == \E d \in Chosen : d.change.type # "copy" /\ Better(d, c)
                                     /\ d.change.old.path = c.change.old.path
  IN /\ pc = "choose" /\ pc' = "join"
     /\ changes' = changes \cup
          {IF Taken(c) THEN [c.change EXCEPT !.type = "copy"] ELSE c.change : c \in Chosen}
     /\ Prune({c.change.new.path : c \in Chosen},
              {c.change.old.path : c \in {c \in Chosen : c.change.type # "copy"}})
     /\ UNCHANGED <<trees, set, of, todo, candidates>>

\* What is unchanged stays where copies are looked for in it.
Shown_unchanged(c) == TRUE

\* _prune_unchanged()
Shown(c) == c.type # "unchanged" \/ set.unchanged

\* _join_modifies(): a split change is put together, but the deletes are compared by the
\* path that they do not have, so the delete of it stays; then _prune_unchanged().
JoinModifies ==
  LET joined == {p \in Range(deletes) \X Range(adds) :
                   p[1].old.path = p[2].new.path /\ Type(p[1].old.mode) = Type(p[2].new.mode)}
      paths == {p[2].new.path : p \in joined}
      modifies == IF set.rewrite = Null THEN {} ELSE {Change("modify", p[1].old, p[2].new) : p \in joined}
  IN /\ pc = "join" /\ pc' = "done"
     /\ changes' = changes \cup modifies
     /\ adds' = IF set.rewrite = Null THEN adds ELSE SelectSeq(adds, LAMBDA c : c.new.path \notin paths)
     /\ deletes' = SelectSeq(deletes, Shown)
     /\ UNCHANGED <<trees, set, of, todo, candidates>>

Next ==
  Walk \/ Walked \/ NextParent \/ Merge \/ FindExactRenames \/ FindCandidates \/ ChooseContentRenames \/ JoinModifies

Spec == Init /\ [][Next]_vars

-----------------------------------------------------------------------------
Files(tree) == IF tree = Null THEN <<>> ELSE tree
Entry(tree, p) == [path |-> p, mode |-> tree[p].mode, sha |-> tree[p].sha]
Result == changes \cup Range(adds) \cup Range(deletes)

\* The changes are the difference of the trees, whatever was pruned, taken for a rename or
\* split: done to the first tree they make the second, they say of no file what is not
\* there, of no file that stayed the same that it changed, and a file that is there still
\* is only gone if it became of another type, or was split.
ChangesAreTheDifference ==
  LET a == Files(trees[1])
      b == Files(trees[2])
      gone == {c.old.path : c \in {c \in Result : c.type \in {"delete", "rename"}}}
      new == {c.new : c \in Result}
      Kept(p) == p \in DOMAIN a /\ a[p] = b[p]
  IN pc = "done" /\ ~set.merge =>
       /\ \A c \in Result :
            /\ c.old # NoEntry => c.old.path \in DOMAIN a /\ c.old = Entry(a, c.old.path)
            /\ c.new # NoEntry => c.new.path \in DOMAIN b /\ c.new = Entry(b, c.new.path)
       /\ \A p \in DOMAIN b : Entry(b, p) \in new <=> set.unchanged \/ ~Kept(p)
       /\ \A p \in DOMAIN a : IF p \notin DOMAIN b THEN p \in gone
            ELSE p \in gone => Type(a[p].mode) # Type(b[p].mode) \/ (set.rewrite # Null /\ ~Kept(p))

\* Each file is told of once: none comes from two places, unless there were three files of
\* its content before, and none goes to two places but for its copies.
EachIsToldOnce ==
  pc = "done" /\ ~set.merge =>
    \A c, d \in Result : c # d =>
      /\ c.new = NoEntry \/ c.new.path # d.new.path
         \/ ("copy" \in {c.type, d.type}
            /\ Cardinality({p \in DOMAIN trees[1] : trees[1][p].sha = c.new.sha}) >= 3)
      /\ {c.type, d.type} \subseteq {"delete", "rename"} => c.old.path # d.old.path

\* No rename is missed: what is left as added is like no file that was deleted or changed,
\* and what is renamed or copied comes from the one that it is most like, of those that
\* no file of their content has taken.
ComesFromTheMostSimilar ==
  LET a == trees[1]
      b == trees[2]
      taken == {c.old.path : c \in {c \in changes : c.type = "rename" /\ c.old.sha = c.new.sha}}
      Source(p, mode) ==
        /\ p \notin taken /\ a[p].mode # "gitlink" /\ Type(a[p].mode) = Type(mode)
        /\ p \notin DOMAIN b \/ set.harder \/ a[p] # b[p]
  IN pc = "done" /\ set.renames /\ set.files >= Cardinality(DOMAIN a \cup DOMAIN b) =>
       /\ \A c \in Range(adds), p \in DOMAIN a :
            Source(p, c.new.mode) => Score(a[p].sha, c.new.sha) <= Threshold
       /\ \A c \in changes : c.type \in {"rename", "copy"} /\ c.old.sha # c.new.sha =>
            \A p \in DOMAIN a :
              Source(p, c.new.mode) => Score(a[p].sha, c.new.sha) <= Score(c.old.sha, c.new.sha)

\* The similarity of two blobs is the same either way, and at most 100.
ScoreIsSymmetric ==
  \A c \in candidates :
    c.score <= 100 /\ c.score = Score(c.change.new.sha, c.change.old.sha)

\* A merge's conflicts are the paths whose file is that of none of the parents, and those
\* deleted that were not the same in all the parents that had them.  With a third parent,
\* a file that one of them has is a conflict too if another has a different one and
\* another none.
MergeIsOfConflicts ==
  LET b == Last(trees)
      Has(i, p) == p \in DOMAIN trees[i]
      parents == 1 .. Len(trees) - 1
  IN pc = "done" /\ set.merge =>
       \A p \in UNION {DOMAIN t : t \in Range(trees)} :
         LET told == \E c \in changes : PathOf(c) = p IN
         IF p \notin DOMAIN b
         THEN told <=> \E i, j \in parents : Has(i, p) /\ Has(j, p) /\ trees[i][p].sha # trees[j][p].sha
         ELSE LET same == {i \in parents : Has(i, p) /\ trees[i][p] = b[p]}
                  changed == {i \in parents : Has(i, p) /\ trees[i][p] # b[p]
                                                /\ Type(trees[i][p].mode) = Type(b[p].mode)}
              IN told <=> same = {} \/ (changed # {} /\ same \cup changed # parents)
=============================================================================
