------------------------------ MODULE MCHistory ------------------------------
(***************************************************************************)
(* What is executed and what is kept of it: how a source is compiled and   *)
(* run, with its lines for tracebacks (Sources), the recall of commands    *)
(* and the file that keeps the history (History); what the subprocess      *)
(* answers about its modules and objects (Queries), and the bytes that     *)
(* questions and answers are sent as (Brine).                              *)
(* They share no state, so they are checked side by side: a behaviour      *)
(* exercises one part and leaves the others as they start.                 *)
(***************************************************************************)
EXTENDS History, TLC, SequencesExt

CONSTANT Null

VARIABLES
  part,  \* the part that this behaviour exercises
  leftHist, leftText, leftPrefix, leftSearching, leftMark, leftAtText, leftCount,
  hasAst, sourcePc, rows, number, row, level, decorated, firsts, singles, lineCount, gid, flags,
  lineCache, compiled, todo, told, ran, chain, frames, stack, seen, traceback,
  query, moduleFiles, mtime, clock, changes, loaded, cache, said, types, callableCache, renewed,
  fileLines, inBlock, continued, names,
  x, y, z

-----------------------------------------------------------------------------
\* Four texts (Texts): the empty one, a one-line command, another that begins with it,
\* and one of two lines that has the hash of the second.  The editor is cleared when its
\* text is executed.
MCMatches == [p \in OneLine |->
  CASE p = "" -> {"for", "form", "for:x"}
    [] p = "for" -> {"for", "form", "for:x"}
    [] p = "form" -> {"form"}]
MCHash == [t \in Texts |-> IF t = "for:x" THEN "form" ELSE t]

\* The option leave-code, texts of one line, and files that may be loaded.
L == INSTANCE HistoryNav WITH
  Texts <- OneLine, Matches <- [p \in OneLine |-> Matches[p] \ {"for:x"}],
  Blank <- "", Hash <- [t \in OneLine |-> t], Files <- {"for", "form"}, LeaveCode <- TRUE, MaxHist <- 3,
  hist <- leftHist, text <- leftText, prefix <- leftPrefix, searching <- leftSearching,
  mark <- leftMark, atText <- leftAtText, count <- leftCount

\* Two files, which hold an earlier history and nothing, or a broken history and a page of
\* another kind.  The last item is in no session's history but the earlier ones'.
Holding(kind, held) == [kind |-> kind, items |-> held]
MCInitialFiles ==
  {("f1" :> Holding("history", {3})) @@ ("f2" :> Absent),
   ("f1" :> Holding("broken", {3})) @@ ("f2" :> Holding("alien", {}))}

-----------------------------------------------------------------------------
\* The sources to run: of four rows of all kinds, and then one; or of five rows.

ShortRows == <<4, 1>>
LongRows == <<5>>

\* Three exceptions, however they came from each other; and a traceback of four frames.
Exceptions == {"e1", "e2", "e3"}
Origins == [Exceptions -> Exceptions \cup {Null}]
Alone == [cause |-> [e \in Exceptions |-> Null], context |-> [e \in Exceptions |-> Null]]
MCErrors ==
  [chain : [cause : Origins, context : Origins], frames : {<<"user">>}]
  \cup [chain : {Alone}, frames : UNION {[1 .. n -> {"own", "split", "user"}] : n \in 0 .. 4}]

Specials == {"comment", "bad", "misfit", "open", "late", "future", "value"}
K == INSTANCE Sources WITH
  Kinds <- {"x", "if", "elif", "else", "try", "except", "def", "decorator"} \cup Specials,
  Special <- Specials, MaxRows <- ShortRows, Excs <- Exceptions, Errors <- MCErrors,
  pc <- sourcePc, shown <- traceback
K5 == INSTANCE Sources WITH
  Kinds <- {"x", "if", "else", "def", "decorator"}, Special <- {}, MaxRows <- LongRows,
  Excs <- Exceptions, Errors <- MCErrors,
  pc <- sourcePc, shown <- traceback

-----------------------------------------------------------------------------
\* What is asked: of two directories in sys.path, each with room for a package of the same
\* name and a module in it; of the lines of a file; and of keys.

MCSub == (<<"d1", "p">> :> "d1p") @@ (<<"d2", "p">> :> "d2p")
MCFiles ==
  [d \in {"d1", "d2", "d1p", "d2p"} |->
     CASE d = "d1" -> {"m"} [] d = "d2" -> {"p"} [] d = "d1p" -> {} [] d = "d2p" -> {"__init__", "m"}]
MCChanging ==
  {<<"d1", "m">>, <<"d1", "p">>, <<"d2", "p">>, <<"d1p", "__init__">>, <<"d2p", "__init__">>,
   <<"d2p", "m">>}

Line(first, binds, inBrackets, closes, goesOn) ==
  [start |-> first, names |-> binds, open |-> inBrackets, close |-> closes, ends |-> goesOn]
MCLines ==
  {Line("def", <<"a">>, TRUE, FALSE, e) : e \in BOOLEAN}
  \cup {Line("class", <<"b">>, o, FALSE, FALSE) : o \in BOOLEAN}
  \cup {Line("from", <<"c", "d">>, o, FALSE, e) : o, e \in BOOLEAN}
  \cup {Line("import", <<"e">>, FALSE, FALSE, e) : e \in BOOLEAN}
  \cup {Line("other", <<"f">>, FALSE, FALSE, e) : e \in BOOLEAN}
  \cup {Line("more", <<"g">>, FALSE, FALSE, e) : e \in BOOLEAN}
  \cup {Line("more", <<"h", "i">>, FALSE, TRUE, FALSE)}

Key(type, within) == [kind |-> type, items |-> within]
PlainKeys == {Key(type, <<>>) : type \in {"simple", "unicode", "nonascii", "other"}}
Pairs == {Key("tuple", <<Key("simple", <<>>), item>>) : item \in PlainKeys}
SomePairs == {pair \in Pairs : pair.items[2].kind \in {"simple", "other"}}
MCKeys ==
  PlainKeys \cup Pairs \cup {Key("tuple", <<pair>>) : pair \in SomePairs}
  \cup {Key("tuple", <<Key("tuple", <<pair>>)>>) : pair \in SomePairs}

Q == INSTANCE Queries WITH
  SysPath <- <<"d1", "d2">>, InitFiles <- MCFiles, Sub <- MCSub, Changing <- MCChanging,
  Packages <- {<<>>, <<"p">>, <<"m">>, <<"p", "m">>}, MaxClock <- 3, MaxChanges <- 2,
  Addresses <- {"t"}, Lines <- MCLines, MaxLines <- 4,
  Chars <- {"a", "n", "\\", "'"}, MaxChars <- 3, Keys <- MCKeys,
  Names <- {"a", "b", "_c"}, Hidden <- {"_c"}, Objects <- [newDoc : BOOLEAN, source : BOOLEAN],
  kind <- query, files <- moduleFiles, lines <- fileLines

-----------------------------------------------------------------------------
\* The objects to convert.

Single(t) == [t |-> t, v |-> <<>>]
Number(n) == [t |-> "int", v |-> n]
\* A string of n bytes.
Str(n) == [t |-> "str", v |-> [j \in 1 .. n |-> 64 + (j % 8)]]
Fraction == [t |-> "float", v |-> <<64, 9, 33, 251, 84, 68, 45, 24>>]

Atoms ==
  {Single(t) : t \in {"none", "notImplemented", "ellipsis", "true", "false"}}
  \cup {Number(n) : n \in {-2147483647, -1000, -49, -48, -10, -1, 0, 9, 159, 160, 1000, 65536,
                        2147483647}}
  \cup {Str(n) : n \in (0 .. 7) \cup {255, 256, 257, 600}}
  \cup {Fraction, [t |-> "complex", v |-> Fraction.v \o Fraction.v]}

Members == {Single("none"), Number(160), Number(5), Str(5), Str(256)}
\* n items, alternately the one and the other.
Long(t, n, a, b) == [t |-> t, v |-> [j \in 1 .. n |-> IF j % 2 = 0 THEN a ELSE b]]
Flat == {Long(t, n, a, b) : t \in {"tuple", "list"}, n \in 0 .. 7, a \in Members, b \in Members}
Sets == {[t |-> "fset", v |-> S] : S \in SUBSET Members}
Slices == {[t |-> "slice", v |-> <<a, b, c>>] : a, b, c \in Members}
Nested ==
  {[t |-> t, v |-> <<a, b>>] :
     t \in {"tuple", "list"}, a \in {f \in Flat : Len(f.v) \in {0, 1, 5}},
     b \in Sets \cup {s \in Slices : s.v[1] = s.v[3]}}
\* With types that brine does not know, or knows and does not dump.
Unknown == {Single(t) : t \in {"other", "bytes", "long"}}
Others ==
  Unknown \cup {Long(t, n, u, Str(n)) : t \in {"tuple", "list"}, n \in 0 .. 5, u \in Unknown}
  \cup {[t |-> "fset", v |-> {u, Number(5)}] : u \in Unknown}
  \cup {[t |-> "slice", v |-> <<a, b, Single("none")>>] :
          a \in Unknown \cup {Number(5)}, b \in {Number(5), Number(160), Single("other")}}
Wrapped == {[t |-> "tuple", v |-> <<obj, Number(0)>>] : obj \in Others}

\* Lengths take one byte and four from 256 on, and, for the sake of short
\* objects with long lengths, from 6 on.  Both Pythons.
W == INSTANCE Brine WITH
  Objects <- Atoms \cup Flat \cup Sets \cup Slices \cup Nested, Python3 <- FALSE, L1Limit <- 256
W6 == INSTANCE Brine WITH
  Objects <- Atoms \cup Flat \cup Slices \cup Others \cup Wrapped, Python3 <- FALSE, L1Limit <- 6
W3 == INSTANCE Brine WITH
  Objects <- Atoms \cup Sets \cup Slices \cup Others \cup Wrapped, Python3 <- TRUE, L1Limit <- 256

-----------------------------------------------------------------------------
leftVars == <<leftHist, leftText, leftPrefix, leftSearching, leftMark, leftAtText, leftCount>>
persistVars == <<pc, target, fromQuit, items, modified, filename, title, files, askOnQuit, nextItem,
                 failed>>
sourceVars == <<hasAst, sourcePc, rows, number, row, level, decorated, firsts, singles, lineCount,
                gid, flags, lineCache, compiled, todo, told, ran, chain, frames, stack, seen,
                traceback>>
queryVars == <<query, moduleFiles, mtime, clock, changes, loaded, cache, said, types, callableCache,
               renewed, fileLines, inBlock, continued, names>>
brineVars == <<x, y, z>>
allVars == <<part, vars, leftVars, persistVars, sourceVars, queryVars, brineVars>>

MCInit ==
  /\ part \in {"recall", "leaveCode", "persist", "sources", "rows", "queries", "brine", "brine6", "brine3"}
  /\ Init /\ L!Init
  /\ Persist!Init /\ (part = "persist" \/ files["f2"] = Absent)
  /\ K!Init /\ (part \in {"sources", "rows"} \/ ~hasAst)
  /\ Q!Init /\ (part = "queries" \/ query = "doc")
  /\ CASE part = "brine" -> W!Init
       [] part = "brine6" -> W6!Init
       [] part = "brine3" -> W3!Init
       [] OTHER -> x = Single("none") /\ y = <<>> /\ z = W!NotYet

MCNext ==
  \/ part = "recall" /\ Next
     /\ UNCHANGED <<part, leftVars, persistVars, sourceVars, queryVars, brineVars>>
  \/ part = "leaveCode" /\ L!Next
     /\ UNCHANGED <<part, vars, persistVars, sourceVars, queryVars, brineVars>>
  \/ part = "persist" /\ Persist!Next
     /\ UNCHANGED <<part, vars, leftVars, sourceVars, queryVars, brineVars>>
  \/ part = "sources" /\ K!Next
     /\ UNCHANGED <<part, vars, leftVars, persistVars, queryVars, brineVars>>
  \/ part = "rows" /\ K5!Next
     /\ UNCHANGED <<part, vars, leftVars, persistVars, queryVars, brineVars>>
  \/ part = "queries" /\ Q!Next
     /\ UNCHANGED <<part, vars, leftVars, persistVars, sourceVars, brineVars>>
  \/ part = "brine" /\ W!Next
     /\ UNCHANGED <<part, vars, leftVars, persistVars, sourceVars, queryVars>>
  \/ part = "brine6" /\ W6!Next
     /\ UNCHANGED <<part, vars, leftVars, persistVars, sourceVars, queryVars>>
  \/ part = "brine3" /\ W3!Next
     /\ UNCHANGED <<part, vars, leftVars, persistVars, sourceVars, queryVars>>

MCSpec == MCInit /\ [][MCNext]_allVars

-----------------------------------------------------------------------------
\* What the subprocess says.  Sources: a source is accepted, compiled and run the same with
\* the ast module and without; each single is a statement; an error is shown at its row, the
\* lines that a traceback shows are those of the code, every exception that led to one is
\* shown, and DreamPie's own frames are not.  Queries: the modules and names that are offered
\* are those that can be imported, what is kept of an object's type is true, a file name or a
\* key that is offered can be typed as it is, every name is offered, and once unless it is a
\* keyword and a name or a file binds it again, and documentation given later is shown.  HistoryNav, where code is left and files are loaded: what
\* RecallIsRight says.
AnswersAreRight ==
  /\ L!RecallIsRight
  /\ part = "sources" =>
       /\ K!RunsTheSame /\ K!SinglesAreStatements /\ K!ErrorIsAtItsRow /\ K!LinesAreOfTheCode
       /\ K!ChainIsShown /\ K!OwnFramesAreHidden
  /\ part = "rows" => K5!RunsTheSame /\ K5!SinglesAreStatements /\ K5!LinesAreOfTheCode
  /\ part = "queries" =>
       /\ Q!ModulesAreThere /\ Q!NamesAreOfTheFile /\ Q!CallableIsTrue /\ Q!TheLiteralIsTheFile
       /\ Q!KeysAreOffered /\ Q!NamesAreSplit /\ Q!NewDocIsShown

\* Brine: what is loaded is what was dumped, and all of its bytes are read and no more.  What
\* dump() takes, dumpable() says it does, and what dumpable() says it does, dump() takes,
\* unless there is in it a long or a string of bytes, in a slice what it does not take, or,
\* with Python 3, an int of more than a byte.
RoundTrip ==
  /\ W!RoundTrip
  /\ part = "brine" => W!ReadToTheEnd /\ W!DumpableDumps
  /\ part = "brine6" => W6!DumpableDumps
  /\ part = "brine3" => W3!ReadToTheEnd /\ W3!DumpableDumps

\* HistPersist: quitting loses no history that the user did not give up, a write that
\* failed or not.
QuitKeepsHistoryOnErrors == [][Persist!KeepsHistory]_persistVars
=============================================================================
