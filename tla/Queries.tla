------------------------------- MODULE Queries -------------------------------
(***************************************************************************)
(* What the subprocess answers while the user types: the modules that can  *)
(* be imported, listed from directories whose lists are kept by their      *)
(* time; the names that a file binds; whether an object can only be        *)
(* called, which is kept by the address of its type; file names, as they   *)
(* are written in a string; the keys of a dictionary; and documentation.   *)
(* Names of modules are the sequences of their parts.                      *)
(***************************************************************************)
EXTENDS Integers, Sequences, SequencesExt, FiniteSets, FiniteSetsExt

CONSTANTS
  SysPath,     \* sys.path
  InitFiles,   \* what is in the directories
  Sub,         \* the directories of packages, each by its directory and name
  Changing,    \* the names that come and go, each with its directory
  Packages,    \* what modules are asked of
  MaxClock, MaxChanges,
  Addresses,   \* where types are
  Lines,       \* the lines of a file that is parsed
  MaxLines,
  Chars,       \* the characters of file names
  MaxChars,
  Keys,        \* the keys of a dictionary
  Names, Hidden,   \* names, and those that start with an underscore
  Objects,     \* what documentation is asked of
  Null

VARIABLES
  kind,        \* what is asked in this behaviour
  files, mtime, clock, changes,   \* the file system
  loaded,      \* sys.modules: of each module, where its __path__ is, or that it has none
  cache,       \* of find_modules: the time and the names of a directory; and when it was read
  said,        \* the answer
  types,       \* the type at each address: whether it is callable, and has operators
  callableCache,   \* is_callable_cache
  renewed,     \* the addresses whose type was asked about before it was another
  lines,       \* the lines read by simple_parse_source()
  inBlock, continued, names

dirVars == <<files, mtime, clock, changes, loaded, cache>>
typeVars == <<types, callableCache, renewed>>
parseVars == <<lines, inBlock, continued, names>>
vars == <<kind, said, dirVars, typeVars, parseVars>>

NoPath == "none"      \* a module that is no package
Placeholder == "None" \* an entry of sys.modules that is None

Init ==
  /\ kind \in {"modules", "callable", "parse", "files", "keys", "names", "doc"}
  /\ said = Null
  /\ files = InitFiles
  /\ mtime \in {[d \in DOMAIN InitFiles |-> IF d = old THEN 0 ELSE 1] :
                  old \in IF kind = "modules" THEN DOMAIN InitFiles \cup {Null} ELSE {Null}}
  /\ clock = 1 /\ changes = 0 /\ loaded = [m \in {} |-> Null] /\ cache = [d \in {} |-> Null]
  /\ types = [a \in Addresses |-> Null] /\ callableCache = [a \in {} |-> Null] /\ renewed = {}
  /\ lines = <<>> /\ inBlock = FALSE /\ continued = FALSE /\ names = {}

-----------------------------------------------------------------------------
\* find_modules.py

Set(f, k, v) == [x \in DOMAIN f \cup {k} |-> IF x = k THEN v ELSE f[x]]

\* The directory of a package may have been moved away.
Exists(d) == \A p \in DOMAIN Sub : Sub[p] = d => p[2] \in files[p[1]]

\* A file, or the directory of a package, comes or goes; so does __init__.py in it.
ChangeFile(d, n) ==
  /\ kind = "modules" /\ changes < MaxChanges
  /\ Exists(d)
  /\ files' = [files EXCEPT ![d] = IF n \in @ THEN @ \ {n} ELSE @ \cup {n}]
  /\ mtime' = [mtime EXCEPT ![d] = clock]
  /\ changes' = changes + 1 /\ said' = Null
  /\ UNCHANGED <<kind, clock, loaded, cache, typeVars, parseVars>>

Tick ==
  /\ kind = "modules" /\ clock < MaxClock /\ clock' = clock + 1
  /\ UNCHANGED <<kind, said, files, mtime, changes, loaded, cache, typeVars, parseVars>>

\* find_in_dir()
FindInDir(d) ==
  {n \in IF Exists(d) THEN files[d] ELSE {} : <<d, n>> \in DOMAIN Sub => "__init__" \in files[Sub[<<d, n>>]]}

\* Where the parts of a name are found, from a path on; Null if they are not.
Within(path, parts) ==
  FoldLeft(LAMBDA p, n :
             LET found == IF p = Null THEN <<>>
                          ELSE SelectSeq(p, LAMBDA d : n \in files[d] /\ <<d, n>> \in DOMAIN Sub)
             IN IF found = <<>> THEN Null ELSE <<Sub[<<found[1], n>>]>>,
           path, parts)

\* Mutations of the definitions that follow, each named after the one it is of.
\* What is loaded is looked for in sys.path all the same.
FindPackagePath_anew(package) == Within(SysPath, package)

\* find_package_path(): from the longest part that is loaded.
FindPackagePath(package) ==
  LET known == {i \in 1 .. Len(package) : SubSeq(package, 1, i) \in DOMAIN loaded}
      i == Max(known)
      at == loaded[SubSeq(package, 1, i)]
  IN IF known = {} THEN Within(SysPath, package)
     ELSE IF at \in {NoPath, Placeholder} THEN Null
     ELSE Within(<<at>>, SubSeq(package, i + 1, Len(package)))

\* The list of a directory that is kept, if it is as old as the directory; a directory that
\* is not kept is taken to be from time 0.
Kept_ever(d) == d \in DOMAIN cache

Kept(d) == mtime[d] = IF d \in DOMAIN cache THEN cache[d].mtime ELSE 0

\* find_in_dir_cached(): there is no list to return for a new directory of time 0.
Fails(d) == Exists(d) /\ Kept(d) /\ d \notin DOMAIN cache
ListOf(d) == IF ~Exists(d) THEN {} ELSE IF Kept(d) THEN cache[d].names ELSE FindInDir(d)

LoadedIn(package) ==
  {n \in {Last(m) : m \in DOMAIN loaded \ {<<>>}} :
     Append(package, n) \in DOMAIN loaded /\ loaded[Append(package, n)] # Placeholder}

\* find_modules(): of the directories, the first that there is time for.
FindModules(package) ==
  LET path == FindPackagePath(package)
      all == IF path = Null THEN <<>> ELSE path
  IN /\ kind = "modules"
     /\ \E k \in 1 .. Len(all) \cup (IF all = <<>> THEN {0} ELSE {}) :
          LET dirs == Range(SubSeq(all, 1, k)) IN
          IF \E d \in dirs : Fails(d) THEN said' = [ok |-> FALSE, dirs |-> dirs] /\ UNCHANGED cache
          ELSE /\ said' = [ok |-> TRUE, dirs |-> dirs, package |-> package, whole |-> k = Len(all),
                           names |-> (UNION {ListOf(d) : d \in dirs} \cup LoadedIn(package)) \ {"__init__"}]
               /\ cache' = [d \in DOMAIN cache \cup {d \in dirs : Exists(d)} |->
                              IF d \in dirs /\ Exists(d) /\ ~Kept(d)
                              THEN [mtime |-> mtime[d], names |-> FindInDir(d), at |-> clock] ELSE cache[d]]
     /\ UNCHANGED <<kind, files, mtime, clock, changes, loaded, typeVars, parseVars>>

\* A module is imported, from where it is found first; or a None is left for it.
Import(m, isNone) ==
  LET parent == IF Len(m) = 1 THEN SysPath ELSE IF Front(m) \in DOMAIN loaded THEN <<loaded[Front(m)]>> ELSE <<>>
      at == SelectSeq(parent, LAMBDA d : d \notin {NoPath, Placeholder} /\ Last(m) \in FindInDir(d))
  IN /\ kind = "modules" /\ m \notin DOMAIN loaded /\ changes < MaxChanges
     /\ isNone \/ at # <<>>
     /\ loaded' = Set(loaded, m, IF isNone THEN Placeholder
                                 ELSE IF <<at[1], Last(m)>> \in DOMAIN Sub THEN Sub[<<at[1], Last(m)>>] ELSE NoPath)
     /\ changes' = changes + 1 /\ said' = Null
     /\ UNCHANGED <<kind, files, mtime, clock, cache, typeVars, parseVars>>

-----------------------------------------------------------------------------
\* simple_parse_source(): a line is what it starts with, its names, whether they come in
\* parentheses, and whether it ends so that it goes on.

LineMatches(l) == continued \/ l.start \in {"def", "class", "from", "import"}

\* What is taken for the names: nothing after a parenthesis; a colon or parenthesis stays.
Taken(l) ==
  CASE ~LineMatches(l) -> {}
    [] continued /\ l.close -> {l.names[i] : i \in 1 .. Len(l.names) - 1} \cup {"garbled"}
    [] continued /\ ~l.close -> Range(l.names)
    [] l.start = "class" /\ ~l.open -> {"garbled"}
    [] l.start \in {"from", "import"} /\ l.open -> {"garbled"}
    [] OTHER -> Range(l.names)

\* What goes on is a line like the others.
ReadLine_alone(l) ==
  /\ names' = names \cup Taken(l)
  /\ inBlock' = FALSE /\ continued' = FALSE

ReadLine(l) ==
  LET block == inBlock \/ l.start \in {"from", "import"}
      goesOn == LineMatches(l) /\ block /\ l.ends
  IN /\ names' = names \cup Taken(l)
     /\ continued' = goesOn /\ inBlock' = goesOn

Parse(l) ==
  /\ kind = "parse" /\ Len(lines) < MaxLines
  /\ l.start = "more" <=> lines # <<>> /\ Last(lines).ends
  /\ ReadLine(l)
  /\ lines' = Append(lines, l)
  /\ UNCHANGED <<kind, said, dirVars, typeVars>>

-----------------------------------------------------------------------------
\* is_callable_only()

\* Of a mixed type, such as that of all classes, some objects have operators of their own.
TypeKinds == [callable : BOOLEAN, operators : BOOLEAN, mixed : BOOLEAN]

\* A type comes to where none is, or another was; or it changes.
NewType(a, t) ==
  /\ kind = "callable" /\ types[a] # t
  /\ types' = [types EXCEPT ![a] = t]
  /\ renewed' = renewed \cup (IF a \in DOMAIN callableCache THEN {a} ELSE {})
  /\ said' = Null
  /\ UNCHANGED <<kind, dirVars, callableCache, parseVars>>

\* An object that has operators is callable all the same.
CallableOnly_any(t, own) == t.callable

CallableOnly(t, own) == t.callable /\ ~t.operators /\ ~own

IsCallableOnly(a) ==
  /\ kind = "callable" /\ types[a] # Null
  /\ \E own \in IF types[a].mixed THEN BOOLEAN ELSE {FALSE} :
       LET r == IF a \in DOMAIN callableCache THEN callableCache[a] ELSE CallableOnly(types[a], own)
       IN said' = [address |-> a, own |-> own, is |-> r] /\ callableCache' = Set(callableCache, a, r)
  /\ UNCHANGED <<kind, dirVars, types, renewed, parseVars>>

-----------------------------------------------------------------------------
\* complete_filenames(), of a name's characters

\* The backslashes that something follows: they are at an odd place of their row.
Escapes(s) ==
  {i \in DOMAIN s : s[i] = "\\" /\
     Cardinality({j \in 1 .. i : \A k \in j .. i : s[k] = "\\"}) % 2 = 1}

Closed(s) == \A i \in DOMAIN s : (s[i] = "'" => i - 1 \in Escapes(s)) /\ (i \in Escapes(s) => i < Len(s))

\* What a literal stands for; Null if it is none.
ValueOf(raw, s) ==
  LET At(i) == CASE i \in Escapes(s) -> IF s[i + 1] = "n" THEN <<"newline">>
                                        ELSE IF s[i + 1] \in {"\\", "'"} THEN <<>> ELSE <<s[i]>>
                 [] i - 1 \in Escapes(s) /\ s[i] = "n" -> <<>>
                 [] OTHER -> <<s[i]>>
  IN CASE ~Closed(s) -> Null
       [] Closed(s) /\ raw -> s
       [] OTHER -> FlattenSeq([i \in DOMAIN s |-> At(i)])

\* What is offered for a name; Null for one that is not what it would be read as.
Offered_any(raw, s, isDir, quote, slash) ==
  s \o (IF ~isDir THEN IF quote THEN <<"quote">> ELSE <<>>
        ELSE IF slash THEN <<"/">> ELSE IF raw THEN <<"\\">> ELSE <<"\\", "\\">>)

Offered_single(raw, s, isDir, quote, slash) ==
  IF ValueOf(raw, s) # s THEN Null
  ELSE s \o (IF ~isDir THEN IF quote THEN <<"quote">> ELSE <<>>
             ELSE IF slash THEN <<"/">> ELSE <<"\\">>)

Offered(raw, s, isDir, quote, slash) ==
  IF ValueOf(raw, s) # s THEN Null
  ELSE s \o (IF ~isDir THEN IF quote THEN <<"quote">> ELSE <<>>
             ELSE IF slash THEN <<"/">> ELSE IF raw THEN <<"\\">> ELSE <<"\\", "\\">>)

CompleteFilenames ==
  /\ kind = "files" /\ said = Null
  /\ \E n \in 1 .. MaxChars, raw, isDir, quote, slash \in BOOLEAN : \E s \in [1 .. n -> Chars] :
       said' = [name |-> s, raw |-> raw, isDir |-> isDir, slash |-> slash,
                text |-> Offered(raw, s, isDir, quote, slash)]
  /\ UNCHANGED <<kind, dirVars, typeVars, parseVars>>

-----------------------------------------------------------------------------
\* complete_dict_keys(): a key is of a kind, and a tuple has others in it.

\* What is in a tuple is not looked at.
Reprable_outside(k, depth) == k.kind # "other"

RECURSIVE Reprable(_, _)
\* is_key_reprable()
Reprable(k, depth) ==
  CASE k.kind \in {"simple", "str", "unicode", "nonascii"} -> TRUE
    [] k.kind = "tuple" -> depth > 0 /\ Len(k.items) <= 5 /\ \A i \in DOMAIN k.items : Reprable(k.items[i], depth - 1)
    [] OTHER -> FALSE

\* dict_key_repr(): decode() of a unicode string that is not ASCII raises an exception that
\* is not the one expected; in a tuple, repr() is used.
KeyRepr(k) == IF k.kind = "nonascii" THEN "error" ELSE IF k.kind = "unicode" THEN "str" ELSE k.kind

CompleteDictKeys ==
  /\ kind = "keys" /\ said = Null
  /\ \E ks \in SUBSET Keys :
       said' = [keys |-> ks,
                offered |-> IF \E k \in ks : Reprable(k, 2) /\ KeyRepr(k) = "error" THEN Null
                            ELSE {k \in ks : Reprable(k, 2)}]
  /\ UNCHANGED <<kind, dirVars, typeVars, parseVars>>

-----------------------------------------------------------------------------
\* complete_attributes(), complete_firstlevels() and get_module_members(), of the names that
\* an object, the namespace or a file has, and __all__ (Null if there is none).  A list of
\* names is the bag of them: its order is left out, how often a name is in it is not.

\* split_list(): what is public, when it is not said, is what has no underscore; when it is
\* said, a name with one may be.
Public_hidden(ids, all) == IF all = Null THEN ids \ Hidden ELSE (ids \cap all) \ Hidden

Public(ids, all) == IF all = Null THEN ids \ Hidden ELSE ids \cap all

Only(list, ids) == [n \in BagToSet(list) \cap ids |-> list[n]]

\* What is both an attribute and a submodule is added all the same.
MembersOf_twice(isLoaded, list, submodules) == list (+) SetToBag(submodules)

\* get_module_members(): submodules are added to the attributes of a module that is loaded,
\* or come before the names that its file, or __init__.py, binds.
MembersOf(isLoaded, list, submodules) ==
  IF isLoaded THEN list (+) SetToBag(submodules \ BagToSet(list))
  ELSE SetToBag(submodules) (+) Only(list, Names \ submodules)

\* What a file binds it may bind again.  Of a package that is not loaded all is public, and
\* there is no __all__ to be had of a file.  Keywords are added to what dir() says, which has
\* the builtins too.
CompleteNames ==
  /\ kind = "names" /\ said = Null
  /\ \E ask \in {"attributes", "firstlevels", "loaded", "file"}, found, others \in SUBSET Names,
        all \in {Null} \cup SUBSET Names :
       /\ ask = "attributes" => others = {}
       /\ ask = "file" => all = Null
       /\ \E list \in IF ask = "file" THEN [found -> 1 .. 2] ELSE {SetToBag(found)} :
            LET ids == CASE ask = "attributes" -> list
                         [] ask = "firstlevels" -> list (+) SetToBag(others)
                         [] OTHER -> MembersOf(ask = "loaded", list, others)
                public == IF ask = "file" /\ others # {} THEN BagToSet(ids)
                          ELSE Public(BagToSet(ids), all)
            IN said' = [there |-> found \cup others, all |-> all,
                        public |-> Only(ids, public), private |-> Only(ids, Names \ public),
                        repeated |-> CASE ask = "firstlevels" -> found \cap others
                                       [] ask = "file" -> {n \in found : list[n] > 1}
                                       [] OTHER -> {}]
  /\ UNCHANGED <<kind, dirVars, typeVars, parseVars>>

-----------------------------------------------------------------------------
\* get_func_doc(), of an object: whether it is a builtin, what its module has by its name,
\* and of each whether its documentation is not in its code, and whether there is its source.

\* The source is shown, if there is one.
TextOf_source(o) == IF o.source THEN "source" ELSE "doc"

TextOf(o) == IF ~o.newDoc /\ o.source THEN "source" ELSE "doc"

GetFuncDoc ==
  /\ kind = "doc" /\ said = Null
  /\ \E builtin \in BOOLEAN, o \in Objects, inModule \in Objects \cup {Null} :
       LET of == IF builtin \/ inModule = Null THEN o ELSE inModule IN
       said' = [of |-> of, builtin |-> builtin, text |-> IF builtin THEN "doc" ELSE TextOf(of)]
  /\ UNCHANGED <<kind, dirVars, typeVars, parseVars>>

-----------------------------------------------------------------------------
Next ==
  \/ \E f \in Changing : ChangeFile(f[1], f[2])
  \/ Tick
  \/ \E package \in Packages : FindModules(package)
  \/ \E m \in Packages \ {<<>>}, isNone \in BOOLEAN : Import(m, isNone)
  \/ \E l \in Lines : Parse(l)
  \/ \E a \in Addresses, t \in TypeKinds : NewType(a, t)
  \/ \E a \in Addresses : IsCallableOnly(a)
  \/ CompleteFilenames
  \/ CompleteDictKeys
  \/ CompleteNames
  \/ GetFuncDoc

Spec == Init /\ [][Next]_vars

-----------------------------------------------------------------------------
\* Where an import statement looks for what is in a package.
PlacesOf(package) ==
  CASE package = <<>> -> Range(SysPath)
    [] package # <<>> /\ package \in DOMAIN loaded -> {loaded[package]} \ {NoPath, Placeholder}
    [] OTHER -> {Sub[<<d, Last(package)>>] : d \in {e \in Range(SysPath) : <<e, Last(package)>> \in DOMAIN Sub
                                                      /\ Last(package) \in FindInDir(e)}}

\* What changed without the time of its directory: a package that got or lost its
\* __init__.py; and all in a directory that changed in the tick in which it was listed.
Unnoticed(d) ==
  {n \in {f[2] : f \in Changing} : d \in DOMAIN cache /\
     \/ cache[d].at = cache[d].mtime
     \/ <<d, n>> \in DOMAIN Sub /\ mtime[Sub[<<d, n>>]] >= cache[d].at}

\* The modules offered of a package that is loaded, or of none, are those that an import
\* statement finds or that are loaded, though files came and went since the directories
\* were listed (find_modules, find_in_dir_cached).
ModulesAreThere ==
  (kind = "modules" /\ said # Null /\ said.ok) =>
    LET unnoticed == UNION {Unnoticed(d) : d \in said.dirs}
        there == (UNION {FindInDir(d) : d \in PlacesOf(said.package)} \cup LoadedIn(said.package)) \ {"__init__"}
    IN (said.package = <<>> \/ said.package \in DOMAIN loaded) =>
         /\ said.names \ unnoticed \subseteq there
         /\ said.whole => there \ unnoticed \subseteq said.names

\* What a line binds: one that goes on is of the statement that began.
BoundBy(i) ==
  LET first == Max({j \in 1 .. i : lines[j].start # "more"})
  IN IF lines[first].start \in {"from", "import"} \/ lines[i].start \in {"def", "class"}
     THEN Range(lines[i].names) ELSE {}

\* Of a class without bases, the first row of a list in parentheses, and the last name
\* before a closing one, the names are not made out.
Missed(i) ==
  LET l == lines[i]
  IN IF l.close THEN {Last(l.names)}
     ELSE IF (l.start = "class" /\ ~l.open) \/ (l.start \in {"from", "import"} /\ l.open) THEN Range(l.names)
     ELSE {}

\* The names offered of a file are those that its definitions and imports bind, those of
\* imports that go over several lines included (simple_parse_source).
NamesAreOfTheFile ==
  kind = "parse" =>
    /\ names \ {"garbled"} \subseteq UNION {BoundBy(i) : i \in DOMAIN lines}
    /\ \A i \in DOMAIN lines : BoundBy(i) \ Missed(i) \subseteq names

\* Every answer to whether an object can only be called is true of it, unless the type at
\* that address was another when the answer was kept, or objects of the type differ
\* (is_callable_only).
CallableIsTrue ==
  (kind = "callable" /\ said # Null) =>
    \/ said.is <=> types[said.address].callable /\ ~types[said.address].operators /\ ~said.own
    \/ said.address \in renewed \/ types[said.address].mixed

\* A file name that is offered stands for that file when it is evaluated as it was typed,
\* and a name without backslashes and quotes is offered always. A directory in a raw string
\* ends with a backslash, which cannot be evaluated (complete_filenames).
TheLiteralIsTheFile ==
  (kind = "files" /\ said # Null) =>
    /\ Range(said.name) \cap {"\\", "'"} = {} => said.text # Null
    /\ (said.text # Null /\ ~(said.isDir /\ said.raw /\ ~said.slash)) =>
         ValueOf(said.raw, SelectSeq(said.text, LAMBDA c : c # "quote"))
           = said.name \o (IF ~said.isDir THEN <<>> ELSE IF said.slash THEN <<"/">> ELSE <<"\\">>)

RECURSIVE HasLiteral(_)
HasLiteral(k) == k.kind # "other" /\ (k.kind = "tuple" => \A i \in DOMAIN k.items : HasLiteral(k.items[i]))

\* No key is offered that cannot be typed, and every simple one is offered, unless one is a
\* unicode string that is not ASCII (complete_dict_keys, is_key_reprable).
KeysAreOffered ==
  (kind = "keys" /\ said # Null /\ said.offered # Null) =>
    /\ \A k \in said.offered : HasLiteral(k)
    /\ \A k \in said.keys : HasLiteral(k) /\ k.kind # "tuple" => k \in said.offered

\* Every name there is is offered, as public or as private, and nothing that is not there,
\* though __all__ may say so; what __all__ says is public (split_list).  A name is offered once
\* but for a keyword that the namespace has too, and what a file binds more than once
\* (complete_firstlevels and simple_parse_source join lists).
NamesAreSplit ==
  (kind = "names" /\ said # Null) =>
    /\ BagToSet(said.public) \cup BagToSet(said.private) = said.there
    /\ BagToSet(said.public) \cap BagToSet(said.private) = {}
    /\ said.all # Null => BagToSet(said.public) = said.all \cap said.there
    /\ \A n \in said.there : CopiesIn(n, said.public (+) said.private) > 1 => n \in said.repeated

\* Documentation that was given to an object after its definition is shown (get_func_doc).
NewDocIsShown ==
  (kind = "doc" /\ said # Null) => (said.of.newDoc => said.text = "doc")
=============================================================================
