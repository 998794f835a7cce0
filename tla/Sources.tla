------------------------------- MODULE Sources -------------------------------
(***************************************************************************)
(* From source code to what runs and what is told: execute() compiles a    *)
(* source, as a whole where there is the ast module, else split to singles *)
(* that are compiled one by one, remembers the lines for tracebacks, and   *)
(* runs it; trunc_traceback() shows an exception, the ones that it came    *)
(* from, and of each traceback what is after DreamPie's own frames.        *)
(*                                                                         *)
(* A row of a source is what it begins with and its level of indentation:  *)
(* a statement ("x"), what opens a block, a clause of one, a decorator; a  *)
(* comment; a row that cannot be parsed ("bad"), that fits no indentation  *)
(* ("misfit"), that opens a bracket for good ("open"), and what fails only *)
(* when it is compiled: with a SyntaxError ("late") or a ValueError.       *)
(***************************************************************************)
EXTENDS Integers, Sequences, SequencesExt, FiniteSets, FiniteSetsExt

CONSTANTS
  Kinds,       \* what rows begin with
  Special,     \* those of them that are typed once in a source
  MaxRows,     \* the sources that are executed, by how many rows they may have
  Excs,        \* exceptions
  Errors,      \* how they came about, for each the cause and the context; and the files of
               \* the frames of a traceback
  Null

VARIABLES
  hasAst,      \* whether there is the ast module
  pc,
  rows,        \* the source
  number,      \* the sources so far
  row, level, decorated, firsts,   \* of split_to_singles
  singles,     \* the singles that are left to compile, each its first and last row
  lineCount,   \* the rows of the singles that compiled
  gid, flags, lineCache,           \* of the Subprocess, and of linecache
  compiled,    \* every code object: the number of its file, its source, text, flags
  todo,        \* the statements that are left to run
  told,        \* what execute() yields first
  ran,         \* the statements that ran
  chain, frames,                   \* an exception
  stack, seen, shown               \* of trunc_traceback: what is left, and is written

splitVars == <<row, level, decorated, firsts>>
codeVars == <<gid, flags, lineCache, compiled>>
runVars == <<todo, ran>>
traceVars == <<chain, frames, stack, seen, shown>>
vars == <<hasAst, pc, rows, number, splitVars, singles, lineCount, codeVars, runVars, told, traceVars>>

-----------------------------------------------------------------------------
\* Python, as far as it matters here: what of rows from one to another is compiled.

Opens == {"if", "elif", "else", "try", "except", "def"}
Clauses == {"elif", "else", "except"}
Continues == {<<"if", "elif">>, <<"elif", "elif">>, <<"if", "else">>, <<"elif", "else">>,
              <<"try", "except">>, <<"except", "except">>, <<"except", "else">>}

Logical(a, b) == {i \in a .. b : rows[i].kind # "comment"}

\* A try that has no except yet when row i comes.
Pending(a, i) ==
  {j \in Logical(a, i - 1) : rows[j].kind = "try" /\ \A k \in Logical(j + 1, i - 1) : rows[k].level > rows[j].level}

\* Whether a row can come after the ones before it.
Fits(a, i) ==
  LET r == rows[i]
      before == Logical(a, i - 1)
      p == rows[Max(before)]
      above == {j \in before : rows[j].level <= r.level}
  IN /\ r.kind \notin {"bad", "misfit"}
     /\ IF before = {} THEN r.level = 0 /\ r.kind \notin Clauses
        ELSE /\ IF p.kind \in Opens THEN r.level = p.level + 1 ELSE r.level <= p.level
             /\ p.kind = "decorator" => r.level = p.level /\ r.kind \in {"decorator", "def"}
             /\ r.kind \in Clauses => above # {} /\ rows[Max(above)].level = r.level
                                      /\ <<rows[Max(above)].kind, r.kind>> \in Continues
             /\ \A j \in Pending(a, i) : rows[j].level >= r.level =>
                                           rows[j].level = r.level /\ r.kind = "except"

CanEnd(a, b) ==
  LET last == rows[Max(Logical(a, b))].kind
  IN last \notin Opens \cup {"decorator"} /\ Pending(a, b + 1) = {}

\* The rows that an open bracket swallows are none.
Seen(a, b) ==
  LET open == {i \in a .. b : rows[i].kind = "open"} IN IF open = {} THEN b ELSE Min(open)

\* What compiling rows a to b says: the row of the first error, End for the end, or 0.
\* What is only found when the parser is through comes after what it finds.
End == 100
Nothing == [row |-> 0, value |-> FALSE]
Compiled(a, b) ==
  LET c == Seen(a, b)
      late == {i \in a .. c : \/ rows[i].kind = "late"
                              \/ rows[i].kind = "future"
                                 /\ (rows[i].level > 0 \/ \E j \in Logical(a, i - 1) : rows[j].kind # "future")}
      values == {i \in a .. c : rows[i].kind = "value"}
      unfit == {i \in Logical(a, c) : ~Fits(a, i)}
  IN CASE unfit # {} -> [row |-> Min(unfit), value |-> FALSE]
       [] unfit = {} /\ (Logical(a, b) = {} \/ ~CanEnd(a, c) \/ rows[c].kind = "open") ->
            [row |-> End, value |-> FALSE]
       [] OTHER -> IF values # {} THEN [row |-> Min(values), value |-> TRUE]
                   ELSE IF late # {} THEN [row |-> Min(late), value |-> FALSE] ELSE Nothing

\* The first rows of the statements of rows that compile, in order.
Statements(a, b) ==
  SetToSortSeq({i \in Logical(a, b) :
                  /\ rows[i].level = 0 /\ rows[i].kind \notin Clauses
                  /\ i > Min(Logical(a, b)) => rows[Max(Logical(a, i - 1))].kind # "decorator"}, <)

Future(a, b) == \E i \in a .. b : rows[i].kind = "future"

-----------------------------------------------------------------------------
Untold == [ok |-> FALSE, row |-> 0]

Init ==
  /\ hasAst \in BOOLEAN /\ pc = "type" /\ rows = <<>> /\ number = 1
  /\ row = 0 /\ level = 0 /\ decorated = FALSE /\ firsts = <<>>
  /\ singles = <<>> /\ lineCount = 0
  /\ gid = 0 /\ flags = FALSE /\ lineCache = <<>> /\ compiled = {}
  /\ todo = <<>> /\ told = Untold /\ ran = <<>>
  /\ chain = Null /\ frames = Null /\ stack = <<>> /\ seen = {} /\ shown = <<>>

\* A row is typed, at most as deep as it can be.
Type(r) ==
  LET logical == Logical(1, Len(rows))
      last == IF logical = {} THEN [kind |-> "x", level |-> 0] ELSE rows[Max(logical)]
  IN /\ pc = "type" /\ Len(rows) < MaxRows[number]
     /\ r.level <= IF last.kind \in Opens THEN last.level + 1 ELSE last.level
     /\ r.kind = "misfit" => r.level < last.level
     /\ r.kind = "comment" => r.level = 0
     /\ r.kind \in Special => \A i \in 1 .. Len(rows) : rows[i].kind \notin Special
     /\ rows' = Append(rows, r)
     /\ UNCHANGED <<hasAst, pc, number, splitVars, singles, lineCount, codeVars, runVars, told, traceVars>>

\* execute()
Execute ==
  /\ pc = "type" /\ Logical(1, Len(rows)) # {}
  /\ pc' = IF hasAst THEN "ast" ELSE "split"
  /\ row' = Min(Logical(1, Len(rows))) /\ level' = 0 /\ decorated' = FALSE /\ firsts' = <<1>>
  /\ UNCHANGED <<hasAst, rows, number, singles, lineCount, codeVars, runVars, told, traceVars>>

\* A code object of rows a to b; its file is remembered with its lines.
Code(a, b, f) == [file |-> gid, of |-> <<number, a>>, text |-> SubSeq(rows, a, b), flags |-> f]

\* Mutations of the definitions that follow, each named after the one it is of.
\* The number stays.
Remember_again(a, b) ==
  /\ compiled' = compiled \cup {Code(a, b, flags \/ Future(a, b))}
  /\ lineCache' = [g \in 0 .. gid |-> IF g = gid THEN SubSeq(rows, a, b) ELSE lineCache[g]]
  /\ flags' = (flags \/ Future(a, b))
  /\ gid' = IF hasAst THEN gid + 1 ELSE gid

Remember(a, b) ==
  /\ compiled' = compiled \cup {Code(a, b, flags \/ Future(a, b))}
  /\ lineCache' = [g \in 0 .. gid |-> IF g = gid THEN SubSeq(rows, a, b) ELSE lineCache[g]]
  /\ flags' = (flags \/ Future(a, b))
  /\ gid' = gid + 1

\* compile_ast()
CompileAst ==
  LET r == Compiled(1, Len(rows))
  IN /\ pc = "ast"
     /\ IF r = Nothing
        THEN /\ Remember(1, Len(rows))
             /\ todo' = Statements(1, Len(rows))
             /\ told' = [ok |-> TRUE, row |-> 0] /\ pc' = "run"
        ELSE /\ told' = [ok |-> FALSE, row |-> IF r.value THEN 1 ELSE r.row]
             /\ pc' = "done" /\ UNCHANGED <<codeVars, todo>>
     /\ UNCHANGED <<hasAst, rows, number, splitVars, singles, lineCount, ran, traceVars>>

\* What belongs to the single before it; not an elif.
Joined == {"else", "except", "finally"}

\* A single ends wherever the indentation does.
Starts_joined(r) == r.level = 0

Starts(r) == r.level = 0 /\ r.kind \notin Joined

\* What is decorated is a single of its own.
Decorates_not(r) == FALSE

Decorates(r) == r.kind = "decorator" /\ level = 0

\* split_to_singles(), from the end of a row to the first token of the next: an open
\* bracket raises a TokenError at the end of the source, which ends the loop, a row that
\* does not fit an IndentationError, which nobody catches.
SplitRow ==
  LET next == Logical(row + 1, Len(rows))
      n == rows[Min(next)]
      dec == decorated \/ Decorates(rows[row])
  IN /\ pc = "split"
     /\ CASE rows[row].kind = "open" \/ next = {} -> pc' = "join" /\ UNCHANGED <<splitVars>>
          [] OTHER -> /\ row' = Min(next) /\ level' = n.level
                      /\ pc' = IF n.kind = "misfit" THEN "raised" ELSE pc
                      /\ IF Starts(n)
                         THEN /\ firsts' = IF dec THEN firsts ELSE Append(firsts, row + 1)
                              /\ decorated' = FALSE
                         ELSE decorated' = dec /\ UNCHANGED firsts
     /\ UNCHANGED <<hasAst, rows, number, singles, lineCount, codeVars, runVars, told, traceVars>>

\* An exception of split_to_singles() or compile() goes through execute() to loop(), which
\* sends None.
Raised ==
  /\ pc = "raised" /\ pc' = "done"
  /\ told' = Null
  /\ UNCHANGED <<hasAst, rows, number, splitVars, singles, lineCount, codeVars, runVars, traceVars>>

Singles ==
  [i \in 1 .. Len(firsts) |-> <<firsts[i], IF i = Len(firsts) THEN Len(rows) ELSE firsts[i + 1] - 1>>]

\* The end of split_to_singles(), and the start of compile_no_ast().
Join ==
  /\ pc = "join" /\ pc' = "check"
  /\ singles' = Singles /\ lineCount' = 0
  /\ UNCHANGED <<hasAst, rows, number, splitVars, codeVars, runVars, told, traceVars>>

\* The row is that of the single.
ErrorRow_single(r, a) == IF r.value THEN 1 ELSE IF r.row = End THEN End ELSE r.row - a + 1

\* The row of an error is counted within the single; a ValueError has none.
ErrorRow(r, a) == IF r.value THEN 1 ELSE IF r.row = End THEN End ELSE r.row - a + 1 + lineCount

\* The first loop of compile_no_ast(): every single must compile.
Check ==
  LET a == singles[1][1]
      b == singles[1][2]
      r == Compiled(a, b)
  IN /\ pc = "check" /\ singles # <<>>
     /\ IF r = Nothing
        THEN /\ singles' = Tail(singles) /\ lineCount' = lineCount + b - a + 1
             /\ UNCHANGED <<pc, told>>
        ELSE /\ told' = [ok |-> FALSE, row |-> ErrorRow(r, a)]
             /\ pc' = "done" /\ UNCHANGED <<singles, lineCount>>
     /\ UNCHANGED <<hasAst, rows, number, splitVars, codeVars, runVars, traceVars>>

Checked ==
  /\ pc = "check" /\ singles = <<>>
  /\ pc' = "compile" /\ singles' = Singles
  /\ UNCHANGED <<hasAst, rows, number, splitVars, lineCount, codeVars, runVars, told, traceVars>>

\* The second: they are compiled again, each as a file of its own.
Compile ==
  /\ pc = "compile" /\ singles # <<>>
  /\ LET a == singles[1][1]
         b == singles[1][2]
     IN Remember(a, b) /\ todo' = todo \o Statements(a, b)
  /\ singles' = Tail(singles)
  /\ UNCHANGED <<hasAst, pc, rows, number, splitVars, lineCount, ran, told, traceVars>>

NoAstDone ==
  /\ pc = "compile" /\ singles = <<>>
  /\ pc' = "run" /\ told' = [ok |-> TRUE, row |-> 0]
  /\ UNCHANGED <<hasAst, rows, number, splitVars, singles, lineCount, codeVars, runVars, traceVars>>

\* exec: a statement runs, or raises an exception, with which the others do not run.
Run ==
  /\ pc = "run" /\ todo # <<>>
  /\ ran' = Append(ran, Head(todo))
  /\ \E raises \in BOOLEAN :
       /\ todo' = IF raises THEN <<>> ELSE Tail(todo)
       /\ pc' = IF raises \/ Len(todo) = 1 THEN "done" ELSE pc
  /\ UNCHANGED <<hasAst, rows, number, splitVars, singles, lineCount, codeVars, told, traceVars>>

\* The next source.
Again ==
  /\ pc = "done" /\ number < Len(MaxRows)
  /\ pc' = "type" /\ number' = number + 1
  /\ rows' = <<>> /\ told' = Untold /\ ran' = <<>> /\ todo' = <<>> /\ singles' = <<>>
  /\ UNCHANGED <<hasAst, splitVars, lineCount, codeVars, traceVars>>

-----------------------------------------------------------------------------
\* trunc_traceback()

\* What was seen is not left out.
ItemsOf_unseen(e, s) ==
  LET cause == chain.cause[e]
      context == chain.context[e]
  IN (IF cause # Null THEN <<<<"from", cause>>, <<"cause", e>>>> ELSE <<>>)
       \o (IF context # Null /\ context # cause
           THEN <<<<"from", context>>, <<"context", e>>>> ELSE <<>>)
       \o <<<<"exc", e>>>>

\* What an exception came from comes after it.
ItemsOf_after(e, s) ==
  LET cause == chain.cause[e]
      context == chain.context[e]
  IN (IF cause # Null /\ cause \notin s THEN <<<<"cause", e>>, <<"from", cause>>>> ELSE <<>>)
       \o (IF context # Null /\ context # cause /\ context \notin s
           THEN <<<<"from", context>>, <<"context", e>>>> ELSE <<>>)
       \o <<<<"exc", e>>>>

\* What a generator of _iter_chain() is to yield, found out when it is first asked: by
\* then it knows only the exceptions whose generators have started.
ItemsOf(e, s) ==
  LET cause == chain.cause[e]
      context == chain.context[e]
  IN (IF cause # Null /\ cause \notin s THEN <<<<"from", cause>>, <<"cause", e>>>> ELSE <<>>)
       \o (IF context # Null /\ context # cause /\ context \notin s
           THEN <<<<"from", context>>, <<"context", e>>>> ELSE <<>>)
       \o <<<<"exc", e>>>>

\* An exception was raised.
Raise(e) ==
  /\ pc = "type" /\ rows = <<>> /\ number = 1
  /\ \E error \in Errors : chain' = error.chain /\ frames' = error.frames
  /\ stack' = <<<<"from", e>>>> /\ seen' = {} /\ shown' = <<>>
  /\ pc' = "trace"
  /\ UNCHANGED <<hasAst, rows, number, splitVars, singles, lineCount, codeVars, runVars, told>>

NextItem ==
  /\ pc = "trace" /\ stack # <<>>
  /\ LET item == Head(stack) IN
       IF item[1] = "from"
       THEN /\ seen' = seen \cup {item[2]}
            /\ stack' = ItemsOf(item[2], seen \cup {item[2]}) \o Tail(stack)
            /\ UNCHANGED shown
       ELSE /\ shown' = Append(shown, item)
            /\ stack' = Tail(stack) /\ UNCHANGED seen
  /\ UNCHANGED <<hasAst, pc, rows, number, splitVars, singles, lineCount, codeVars, runVars, told, chain, frames>>

\* IronPython's frames of split_to_singles at the end are taken off.
WithoutSplit(fs) ==
  LET others == {i \in DOMAIN fs : fs[i] # "split"}
  IN SubSeq(fs, 1, Max({IF fs = <<>> THEN 0 ELSE 1} \cup others))

\* The frames up to the first of this file are left out.
Truncated_first(fs) ==
  LET tbe == WithoutSplit(fs)
      own == {i \in 1 .. Len(tbe) - 1 : tbe[i] = "own"}
  IN IF tbe = <<>> \/ Last(tbe) = "own" \/ own = {} THEN tbe ELSE SubSeq(tbe, Min(own) + 1, Len(tbe))

\* The frames up to the last one of this file are left out, unless it is the last.
Truncated(fs) ==
  LET tbe == WithoutSplit(fs)
      own == {i \in 1 .. Len(tbe) - 1 : tbe[i] = "own"}
  IN IF tbe = <<>> \/ Last(tbe) = "own" \/ own = {} THEN tbe ELSE SubSeq(tbe, Max(own) + 1, Len(tbe))

Next ==
  \/ \E r \in [kind : Kinds, level : 0 .. 2] : Type(r)
  \/ Execute \/ CompileAst \/ SplitRow \/ Raised \/ Join \/ Check \/ Checked \/ Compile \/ NoAstDone
  \/ Run \/ Again
  \/ \E e \in Excs : Raise(e)
  \/ NextItem

Spec == Init /\ [][Next]_vars

-----------------------------------------------------------------------------
ElifIsSplit == \E i \in DOMAIN rows : rows[i].kind = "elif" /\ rows[i].level = 0
Misfits == \E i \in 1 .. Seen(1, Len(rows)) : rows[i].kind = "misfit"
FutureFollows == \E i \in DOMAIN rows : rows[i].kind = "future" /\ \E j \in Logical(1, i - 1) : rows[j].kind # "future"

\* With the ast module or without, the same sources are accepted, but for an elif, which is
\* taken for a statement of its own, and a __future__ import after other statements; and a
\* source that is accepted runs whole, its statements in order, up to the first exception.
RunsTheSame ==
  LET right == Compiled(1, Len(rows)) = Nothing
      all == Statements(1, Len(rows))
  IN pc = "done" =>
       /\ ~ElifIsSplit /\ ~(~hasAst /\ FutureFollows) =>
            (told # Null /\ told.ok <=> right)
       /\ told = Null => ~hasAst /\ Misfits
       /\ IF told # Null /\ told.ok THEN ran # <<>> /\ IsPrefix(ran, all) ELSE ran = <<>>

\* A single is a statement, each single is compiled once, and together they are the source.
SinglesAreStatements ==
  pc = "join" /\ Compiled(1, Len(rows)) = Nothing /\ ~ElifIsSplit =>
    /\ Len(Singles) = Len(Statements(1, Len(rows)))
    /\ \A i \in DOMAIN Singles : Statements(Singles[i][1], Singles[i][2]) = <<Statements(1, Len(rows))[i]>>
    /\ FlattenSeq([i \in DOMAIN Singles |-> SubSeq(rows, Singles[i][1], Singles[i][2])]) = rows

\* An error is shown at the row of the source where it is.  What is split says of a block
\* without what must follow that it ended too soon, and finds what only compiling shows
\* before errors in the rows after it.
ErrorIsAtItsRow ==
  LET r == Compiled(1, Len(rows))
      Unfinished == Pending(1, r.row) # {} \/ \E p \in Logical(1, r.row - 1) :
                      p = Max(Logical(1, r.row - 1)) /\ rows[p].kind \in Opens \cup {"decorator"}
      found == {i \in DOMAIN rows : i < r.row /\ (rows[i].kind \in {"late", "value"}
                                                    \/ (rows[i].kind = "future" /\ rows[i].level > 0))}
  IN pc = "done" /\ told # Null /\ ~told.ok /\ ~ElifIsSplit =>
       \/ told.row = IF r.value THEN 1 ELSE r.row
       \/ ~hasAst /\ told.row = End /\ Unfinished
       \/ ~hasAst /\ \E i \in found : told.row = IF rows[i].kind = "value" THEN 1 ELSE i

\* A traceback shows the lines of the code that ran, also of an earlier source's: no
\* number is used twice, and each file's lines are those that were compiled, with the
\* __future__ imports before them.
LinesAreOfTheCode ==
  /\ \A c, d \in compiled : c.file = d.file => c = d
  /\ \A c \in compiled : lineCache[c.file] = c.text
  /\ \A c \in compiled : c.flags <=> \E d \in compiled :
       d.file <= c.file /\ \E i \in DOMAIN d.text : d.text[i].kind = "future"

\* However exceptions came from each other, in circles too, it comes to an end; each that
\* led to the last is shown, the last one at the end, and an exception that is said to have
\* come from another comes after it.  One is shown again only as the context of one whose
\* cause has led to it already.
Reached(e) ==
  LET F[n \in Nat] == IF n = 0 THEN {e} \ {Null}
        ELSE F[n - 1] \cup {y \in Excs : \E x \in F[n - 1] : y \in {chain.cause[x], chain.context[x]}}
  IN F[Cardinality(Excs)]
ChainIsShown ==
  /\ Len(stack) + Len(shown) <= 4 * Cardinality(Excs) * Cardinality(Excs)
  /\ pc = "trace" /\ stack = <<>> =>
       LET e == Last(shown)[2] IN
         /\ Last(shown)[1] = "exc"
         /\ {s[2] : s \in Range(shown)} = Reached(e)
         /\ \A i, j \in DOMAIN shown : i < j /\ shown[i] = shown[j] /\ shown[i][1] = "exc" =>
              \E x \in Excs : chain.context[x] = shown[i][2] /\ shown[i][2] \in Reached(chain.cause[x])
         /\ \A i \in DOMAIN shown : shown[i][1] \in {"cause", "context"} =>
              /\ \E j \in 1 .. i - 1 : shown[j] = <<"exc", IF shown[i][1] = "cause" THEN chain.cause[shown[i][2]]
                                                          ELSE chain.context[shown[i][2]]>>
              /\ \E j \in i + 1 .. Len(shown) : shown[j] = <<"exc", shown[i][2]>>

\* No frame of DreamPie's is shown but where the exception is its own, and every frame of
\* the user's code below it is.
OwnFramesAreHidden ==
  pc = "trace" =>
    LET kept == Truncated(frames) IN
      /\ kept # <<>> /\ Last(kept) # "own" => "own" \notin Range(kept)
      /\ \A i \in DOMAIN frames : frames[i] # "own" /\ (\A j \in i .. Len(frames) : frames[j] \notin {"own", "split"}) =>
           IsSuffix(SubSeq(frames, i, Len(frames)), kept)
=============================================================================
