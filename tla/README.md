# DreamPie in TLA+

DreamPie is a graphical Python shell: a PyGTK window in one process, the
user's code in another. This directory holds a formal model of its core and of
the parts of dulwich that its source tree carries, the TLC configurations that
check it on small instances, and proofs that TLAPS checks for all values of the
constants.

## The system

| part | source | state | operations |
|---|---|---|---|
| RPC client | `gui/__init__.py` (`call_subp`, `call_subp_noblock`, `call_subp_catch`, `on_object_recv`, `on_subp_terminated`, the handlers that call) | `_n_unclaimed_results`, `is_executing`, `is_terminating` | blocking and half-second calls, the handlers of the editor, the menu and the poller |
| subprocess handler | `gui/subprocess_handler.py` | `_popen`, `_sock`, the 10 ms timeout source | start, poll (exit code, stdout, stderr, socket), send, receive, write stdin, kill, interrupt |
| subprocess loop | `subprocess/__init__.py` (`loop`, `handle_gui_events`, `execute`, the functions that answer queries) | `idle_paused`, the user's namespace, the SIGINT mask, caches of modules and types | one request at a time; callbacks of the user's GUI toolkit in between |
| statements and tracebacks | `split_to_singles.py`, `trunc_traceback.py`, `execute` | `linecache`, future flags | compile, run, show an exception |
| result history | `subprocess/__init__.py` (`store_in_reshist`, ...) | `reshist_counter`, `reshist_size`, names `_0`, `_1`, ..., `_`, `__`, `___` | store, resize, clear; the user's own bindings |
| object stream | `common/objectstream.py`, `common/brine.py` | none between calls | length-prefixed serialised objects over a socket |
| console pipes | `subprocess_handler.py`, `subprocess/__init__.py` | bytes in pipes of bounded capacity | polled reads, blocking writes, what stdin was left |
| text view | `output.py`, `write_command.py`, `folding.py`, `selection.py`, `vadj_to_bottom.py` | a tagged text buffer | output with `\r`, folding, copying, scrolling |
| command recall | `gui/history.py` | `hist_mark`, `hist_count`, `hist_prefix`, `sb_changed` | history up and down, by search and by cursor |
| editor helpers | `autocomplete.py`, `autocomplete_window.py`, `call_tips.py`, `call_tip_window.py`, `autoparen.py`, `newline_and_indent.py`, `pyparse.py`, `hyper_parser.py` | a popup, marks and signal handlers | parse, show, filter, complete, indent, hide |
| files and dialogs | `hist_persist.py`, `file_dialogs.py`, `config.py`, `config_dialog.py`, `odict.py` | file name, modified flag, options, themes | save, load, quit with unsaved history, change themes |
| tabs, status bar, updates | `gui/__init__.py`, `status_bar.py`, `update_check.py`, `bug_report.py` | pages, one message and its timers, globals of a thread | open, close and reopen tabs, show and clear, check |
| dulwich | `dulwich/repo.py`, `file.py`, `object_store.py`, `objects.py`, `pack.py`, `lru_cache.py`, `diff_tree.py`, `client.py`, `server.py`, `protocol.py` | a repository on disk and what processes keep of it | references under locks, objects, packs, comparison of trees, fetch and push |

The two processes share one socket and three pipes. GUI handlers run to
completion on one thread; a handler makes RPC calls, in which it waits with
`select` or `recv`, and the poller runs between handlers (and in the main loop
nested in a modal dialog). The subprocess serves one request, or runs callbacks
of the user's toolkit, or runs the user's code; it cannot be relied on to answer.
dulwich is a library that DreamPie's check for updates reads its own repository
with; it works on files that other processes change at the same time.

The hard behaviours are the answers that come after their call gave up, the
requests that stay in the socket, a subprocess that dies or is killed with
either in flight, exceptions that end the poller, signals that arrive around
the user's code, pipes that fill up, state that is read by one handler and
changed by another, and repositories that several processes change. PROJECT.json
lists them under `hazards`, each at its line, with the properties that would
catch it.

## How the modules fit together

One module models one component. Components that share state are modelled in
one module or refine one another; the others are checked side by side: a module
that composes them declares their variables and a variable `part`, each
behaviour exercises one part, and the rest stays as it started. That keeps the
states of a run a sum and not a product, and gives each component a small
instance of its own. The properties of such a run are conjunctions of those of
its components, each with its comment in the component's module; "Runs" names
them. `Subprocess` and `Window` also hold the proofs about what they compose, so
that their theorems are about the very specifications that TLC explores.

| module | components |
|---|---|
| `RpcSession` | checked by itself |
| `ResultHistory` | checked by itself, implements `ResultWindow` |
| `History` | `HistoryNav` (implements `HistoryCursor`), `HistPersist` |
| `MCHistory` | `History`, `HistoryNav` once more, `Sources` (twice), `Queries`, `Brine` (three times) |
| `Subprocess` | `Interrupt`, `Console`, `ObjectStream` (implements `ObjectQueue`) |
| `Window` | `VAdjToBottom`, `Output`, `Folding`, `Selection`, `StatusBar`, `Tabs`, `Themes`, `UpdateCheck` |
| `Editing` | `find_prefix_range` itself, `CallTips`, `Autoparen`, `IndentKeys` |
| `MCEditing` | `Editing`, `PyParse`, `HyperParser`, `Autocomplete`, `NewlineAndIndent`, `AutocompleteWindow` (three times), `OrderedDict` |
| `Repository` | `GitRefs`, `GitStore` |
| `MCDulwich` | `Repository`, `GitRefs` once more, `GitNames`, `GitObjects`, `GitPack`, `LRUCache` (twice), `GitDiff`, `GitTransfer` |

`HyperParser` and `NewlineAndIndent` extend `PyParse`, and `Autocomplete` extends
`HyperParser`, as the code uses one parser in the other. The proofs are in
`RpcSessionProofs`, in the modules that compose (`Editing`, `History`, `Repository`,
`Subprocess`, `Window`), and where they are about one component alone, in its own
module: `ResultHistory`, `ObjectStream`.

Definitions with an underscore and a suffix in their names (`Enter_noDrain`,
...) are not part of any specification: each is what a definition would be with
a plausible slip in the code, and PROJECT.json names the property that TLC then
finds violated.

## The modules

### RpcSession - the RPC session (core)

State: where the GUI's thread is (`gui`: the main loop, between the poller's
`poll()` and its look at the socket, draining unclaimed answers, waiting for an
answer, gone), the call and handler in progress with the blocking calls it still has
to make (`call`, `handler`, `todo`), the GUI's variables under their names, the
exception that ended the last handler (`raised`), whether the poller is still a
timeout source, the open dialogs, the subprocess (`sub`: at the top of its loop,
in the user's callbacks, running code, dying, dead, reaped; `idlePaused`), and a
FIFO in each direction. Requests and answers are function names. `execute` has
two answers: `exec_ok` (or `exec_bad`, or `none` if it raises) and then `result`.

Each handler is an action up to the point where it waits, and each outcome of a
wait is an action: the answer (`QueryAnswered`, `LineComplete`, `IdleIsPaused`,
`Configured`, `CodeAccepted`, ...), the time-out (`WaitTimeout`, `DrainTimeout`,
with `execute_source`'s `resume_idle` part of the same step), or end of file
(`CallEof`). The poller's round is one `PollExit...` action or `PollAlive`
followed by one of the actions on the socket, because the process may die in
between. `Dies` and `Exits` separate the closing of the socket from the moment
`poll()` sees the exit code; unread requests make the kernel drop answers in
flight.

An exception inside a handler is caught by GTK and shown; inside the poller it
removes the timeout source; inside the constructor it ends the program (`Abort`).
The queries (completion, call tips, ...) are one function, `query`, because the
protocol treats them alike. `MaxUnclaimed` bounds the calls that have timed out:
the editor makes no half-second call above it.

Abstractions: values, sources and results; the pipes; the times (a time-out can
happen whenever nothing is readable); `_last_kill_time`; the first start, which
ends the program if it fails. What `send` does to a dead peer is seen at the
next receive only.

### ResultWindow and ResultHistory

`ResultHistory` is the bookkeeping of the numbered results: `locs` holds the
names `_i` that are bound, `shown` remembers what each number was printed with.
`store_in_reshist`, `set_reshist_size` and `clear_reshist` are actions, and so
is user code that binds or deletes such names. What the user binds is drawn from
a set of its own, so that a binding by hand is told from one by the subprocess.
`ResultWindow` is the promise: a sliding window over the last `cap` results,
which the user may thin out. `WindowSpec` states the refinement. Each code
function removes only a computed range of names, so that it is right depends
on all that were removed before. `MaxResults` bounds the numbers given out.

### HistoryCursor and HistoryNav

`HistoryNav` is `history_up` and `history_down` with the editor focused: the
mark in the text view, the count of each command's hash, the prefix and
`sb_changed` (negated, `searching`). A command is a member of a small set;
`Matches` says which commands a prefix can recall and `Hash` may collide.
`mark` is the command that `hist_mark` stands before, `atText` says that
something else is in between (which stops `history_down` at once). The loops of
the code are given by the place where they stop. Executing, sending stdin, editing,
switching tabs, discarding history and loading a file (one command at a time) are
the other actions. `MaxHist` bounds the commands, and the counts when a file is
loaded. `HistoryCursor` is the promise: a cursor in the list of distinct matching
commands, latest first. `CursorSpec` states the refinement, the position being
the number of hashes from the mark on, and that no key press is spent on a
command that was shown already.

### Interrupt

The subprocess's interpreter by the places at which a `KeyboardInterrupt` is
told apart by who catches it (`pc`), with SIGINT's handler and whether a signal
was noted (`tripped`): `unmask_sigint` and `mask_sigint` around the code
(`user_code`) and around the callbacks of GTK, Qt, which runs its callbacks
with SIGINT as it is, and the GUI's decision to send a signal. The user's code, or the
toolkit around a callback, may catch the exception and go on (`InterruptCaught`), or let
it out (`CodeInterrupted`, `CallbacksInterrupted`); code that sets a handler of SIGINT of
its own is not modelled. `slipped`
remembers that a signal was raised between masking and the code, where the
`finally` clause does not mask again: what holds only without that says so.

### Console

Standard output and input as pipes of `OutCap` pieces and `InCap` lines, the
poll round that reads a piece of output before it looks at the socket, writing
to stdin as a loop that may block, and what the code leaves unread: it comes back
with the result and is taken out of the text view (`handle_rem_stdin`).
`buffered` is Python 3's `sys.stdin`, which reads ahead; it is chosen at the start
and does not change. `discarded` remembers that the history was discarded, from
when on the text view does not show all that was typed. A line is its number,
a piece of output the number of the run that wrote it.

### ObjectQueue, ObjectStream and Brine

`ObjectStream` is `send_object` and `recv_object` over a socket that takes and
gives bytes in pieces of any length and holds `Room` of them, and a sender that
may die in the middle. An object is its size, a byte says of which object and
which part it is, so that mixed objects would show. `Base` is 256 in the code
and 4 in the run, where a length takes two of the prefix's four bytes.
`ObjectQueue` is the promise: whole objects in their order.
`Brine` is `dump`, `load` and `dumpable` on bytes: an object is its type and
value, the tags are those of the code. `L1Limit` is 256 in the code; a second
instance switches to long lengths at 6, and a third is Python 3. The objects include those
that `dump` refuses, at any depth, and those that `dumpable` is wrong about
(`Misjudged` says which).

### Sources and Queries

`Sources` follows a source from `execute()` through `split_to_singles` (or the
`ast` module), compiling one by one, the lines kept for tracebacks and the
statements that run, to `trunc_traceback`. A row of a source is what it begins
with and its indentation; "Python's grammar" is modelled as far as it decides
where a statement ends. `Queries` is what the subprocess answers: modules in
directories whose lists are kept by the directory's time (`find_modules.py`), the
names a file binds, `is_callable_only` with its cache by type id, file names as
they are written in a string, dictionary keys, members, documentation.

### HistPersist

Saving, loading and discarding the history and quitting with it unsaved; `pc` is
the dialog that is open, while which output goes on coming. A history is the set
of its items. The process may die at any time, within a save too, and writes may
fail; `failed` remembers a write that failed since the last save.

### Output, Folding, Selection, VAdjToBottom

`Output` is one section of the text buffer, written in chunks that are cut
anywhere: `added_newline`, `is_cr` and `BREAK_LEN` under their names; the
characters are the kinds that the code tells apart. An ANSI escape is several of them,
`Marked` finds the escapes of one piece as the code's regular expression does, and `cut`
remembers that a piece ended within one. `SendStdin` writes what is typed, without breaks,
and ends the section. What the code does with regular
expressions and searches is done character by character, by a function of the position
for each of its stages: `Cleaned`, `Displayed` and `Broken`. `Screen` is the reference,
what the stream is to show by the rules of `tags.py` and the comments. `Writing` is all
that is done to a section but discarding the history, which takes the text and leaves
what `Output` remembers of it. `Folding` counts sections in
lines and has the message a folded one shows; `lastUnfolded` is
`last_unfolded_mark`, and `stale` are the sections that input was taken back from
under their message (`handle_rem_stdin`), which then tells too many lines. `Selection`
is, first, which of Copy and Interrupt is enabled, with GTK's `mark-set` signal and the deletions it does not tell of; and
second, the commands in the text view as runs of tags: `write_command` with
its prompts, highlighted tokens and hidden bodies of definitions, Copy Commands
Only as the loop of the code, `iter_get_command`, `copy_to_sourceview` and
the cursor keys of the text view. `VAdjToBottom` is the adjustment (`value`,
`bottom`), `is_scroll_scheduled` and the number of idle calls that wait.

### StatusBar, Tabs, Themes, UpdateCheck

`StatusBar`: one message, the buffer its handler is connected to, and a timer per
message that nothing cancels; time passes in seconds. `Tabs`: the pages of the
notebook, the helpers that follow the current page, and the tab that can be
reopened. `Themes`: the file of the configuration, its sections, the
dictionaries of the dialog (named by members of `Names`, since what counts is which
names share one) and its rows; DreamPie ends, is stopped while it writes the file, of
which any beginning is then left (`Prefixes`), and comes back, perhaps in a newer version
with more elements and themes. The file is text: a section whose name has a `]`
(`Bracketed`) is read as another one, a current theme whose name ends in a space or has
` ;` (`Padded`) is read as another name, and a last line that cannot be parsed stops every
start (`Unreadable`). `seen` is what the user saw last, or `None` from when the file did
not keep it. A start and a dialog that `get_theme` would stop with an exception end
there. `UpdateCheck`:
the thread, the globals it writes one after the other, the idle call to the main
loop, and the bug report that reads them.

### PyParse, HyperParser, Autocomplete, NewlineAndIndent

`PyParse` is `_study1` and `_study2`, character by character as the code's
loops go; characters are the kinds that the parser tells apart, and read as they are
(`_study1` first squashes all that is of no interest to it into one). The reference
definition is a lexer (`Lex`) that says what each character is in. `HyperParser`
adds the index and `get_expression`, `Autocomplete` what is asked of the
subprocess, `NewlineAndIndent` how far a new line is indented. What becomes of the answer,
as the `]` that is appended to keys, is in the lists of `AutocompleteWindow`. They are checked on
every text of some lengths over alphabets chosen for the question.

### Editing, AutocompleteWindow, CallTips, Autoparen, IndentKeys, OrderedDict

`Editing` is `find_prefix_range`, one step per turn of its two loops, on
sorted lists of words; beside it, each with variables of its own, it has what
helps to type. `AutocompleteWindow` is the window's state as a record and
each method a function of it; GTK's order of handlers is modelled. The lists are
sequences in the order in which `show()` is given them, which is not always the order of
the search, and `Found` is what the two searches make of any order. Where the list is in
order the rows are exactly the words that fit; where it is not, what holds is that some
row fits, that the list closes only when no word fits, and that it is in order once the
private words were merged into it (`All`).
`CallTips` is the tip, its marks, its idle jobs, and the window that Escape closes
behind its back, with GTK's count of blocked handlers. `Autoparen` is the
parentheses that space types, with two quotes in them if the name expects a string (which
the subprocess says, or the user's list), and the handlers that watch them. `IndentKeys` is
the keys that change indentation on three lines. `OrderedDict` is `odict.py`
under its configuration: every method as an operator from the dictionary before
it to the one it leaves, also when it raises.

### GitRefs and GitNames

`GitRefs` is `DiskRefsContainer`, `GitFile` and `do_commit` for several processes
that die at any step: loose files, `packed-refs`, a lock per file, the cached
packed references of each process, git packing and pruning meanwhile, and
`fancy_rename` where a rename replaces nothing (`AtomicRename = FALSE`, Windows).
What is written stays in a buffer until the file is closed: if that fails, `close()`
raises before its `abort()`, and the lock file has no owner (`Left`) and stays.
`robbed` says that `abort()` after `close()` removed a lock file that was another
process's by then; the specification stops there (`Next` begins with `~robbed`),
because every property of the locks is lost from that step on. `GitNames` is
one process that lists and peels references, in directories and in `packed-refs`
with and without its header, and the `info/refs` that the server makes of them.

### GitStore, GitObjects, GitPack, LRUCache

`GitStore` is `DiskObjectStore` for several processes: a file per loose object,
two files per pack, a list of packs that is read again when the directory's time
changed, packing and removing loose objects, thin packs, deaths. `add_object` and the
writers of an index lock what they write as the references are locked: with
failures that leave the lock file, with `abort()` as a step of its own after the rename,
and with the same end of the behaviours (`robbed`). `GitObjects` is
what a `ShaFile` keeps (text, hash, fields and the flags that say which are up to
date), and headers, tree entries and time zones read and written. `GitPack` is
the `DeltaChainIterator`, lookups with the index, the stream reader that holds
back a trailer, and codes of numbers, deltas and the index. `LRUCache` is the
linked list of both caches, with cleanup functions.

### GitDiff and GitTransfer

`GitDiff` is `tree_changes`, `tree_changes_for_merge` and the `RenameDetector`;
a tree is the function from paths to mode and hash. `GitTransfer` is fetch (graph
walker, acknowledgements in three ways, `MissingObjectFinder`), push (changes,
pack, report) between a client and a server, and how a server reads its socket.

### Proof modules

`RpcSessionProofs` is theorems and their lemmas; `History`, `Repository`,
`Subprocess` and `Window` put components together, state what must be true of
them and prove it; see "Proofs". The `MC` modules instantiate the specifications
for TLC.

## Runs

| run | what it asks | instance |
|---|---|---|
| `rpc` | Does a call ever take another call's answer (`OwnReplyFirst`)? Can the poller's assertion fail (`ResultIsExpected`)? Can code run that the GUI does not show as running (`RunIsOwned`)? Is a result ever swallowed (`ResultIsReported`)? Is a subprocess left behind on quitting (`QuitLeavesNone`)? Do calls end and paused callbacks resume (`WaitEnds`), and is the end of a run reported (`RunIsReported`)? All as they should be. `IInv` is the inductive invariant of the proofs. | `MaxUnclaimed = 3` |
| `results` | Do the numbered names say what was printed with them (`NumbersAreTrue`) and implement the sliding window (`WindowSpec`)? Yes. | two results, one object of the user's, sizes 0 to 2, 3 numbers |
| `history` | Recall: `RecallIsRight`, `CursorSpec`. The history file: `HistoryIsRight`, `QuitKeepsHistory`. What runs and what is answered: `AnswersAreRight`. Bytes: `RoundTrip`. | four texts, two of one hash, 4 commands; `leave-code` with files in a second instance; two files and 3 items; sources of 4 rows and then one more, or of 5 rows; two directories in `sys.path`; objects of every type with lengths on both sides of each limit, Python 2 and 3 |
| `subprocess` | Signals: `SignalsAreRight`, `RunSurvivesInterrupt`. Pipes: `ConsoleIsRight`. The socket: `StreamIsQueue`. Does what has begun come to its end (`RunsEnd`)? | SIGINT can be masked, GTK and Qt loaded; pipes of one piece and two lines, read ahead or not, 3 runs and 3 lines; three objects of 1, 3 or 6 bytes and a socket of 7 |
| `window` | Scrolling: `ScrollIsRight`, `FollowsText`. `WindowIsRight` and `WindowActsRight`: status bar, folding, tabs, the notice of updates. `TextIsRight`: output, selection, copying only the commands. `CommandsAreRight`: writing commands and finding them again. `ThemesAreRight`. `UserIsTold`. | streams of up to 5 characters of every kind in lines of 2, cut everywhere (within escapes too), with and without discarding; three names of themes, one of which is not read as it is written; texts of up to 4 runs of tags and the commands of `WrittenCommands`; else see the constants in `Window.cfg` and the instances in `Window` |
| `editing` | The search: `RangeIsRight`. `StructureIsRight`: the parsers, what is completed and shown from them, indentation, the rows of the list. `ListIsRight`: the searches end, and the keys do in the list what they should, also in one that is out of order. `HelpIsRight`: call tips and parentheses. `KeysAreRight`: what keys do to them, and to indentation. `DictIsRight`. | every text of up to 4 to 7 characters of an alphabet per question; words of up to 2 letters and lists of up to 4; a completion window without regard to case, one with keys out of order, and one with two tabs and a character that is not ASCII; texts of up to 2 characters before parentheses are added, and 4 more while they are watched; dictionaries of 3 keys |
| `dulwich` | `RefsAreSafe`, `StoreIsSafe`, `TransfersAreWhole`, `DiffsAreTrue`, `ObjectsAreTrue`. | two processes; two branches, two hashes, one call each and git's packing; two objects, two processes, a clock of two ticks; four commits in two histories; trees of up to 5 files |
| `rpc_blocked` | Does a blocking call block until an answer is received? No: with a positive counter it drains for ever. | `MaxUnclaimed = 2` |
| `rpc_assert` | Does `assert not self.is_executing` hold? No: two menu commands do not look at it. | `MaxUnclaimed = 2` |
| `rpc_kill` | Is a killed subprocess always replaced while the event loop continues? No: an exception ends the poller. | `MaxUnclaimed = 2` |
| `persist_errors` | Does quitting keep the history where writes may fail? No: a failed save of an unmodified history empties its file. | one broken file, one of another kind, 2 items |

What the properties of the composite runs are conjunctions of, with what each
says, is in the comments in the modules of the runs. Every `TypeOK` is part of one.

Why the bounds are enough. Three unclaimed calls allow a `pause_idle`, its
`resume_idle` and a third late answer to be outstanding at once, with the counter
one above the bound; the sockets never hold more because every request beyond the
first needs a time-out. Two are enough for the counterexamples. Sizes 0 to 2 with 3
numbers let the window grow, slide, shrink, empty and grow again. Four commands
allow a duplicate on each side of another match. A pipe of one piece is full at
once, one of two lines may hold a line of an earlier command and one of the next.
In `ObjectStream`'s instance a byte has four values, so that a length takes two
bytes of the prefix, and no object of six bytes fits in the socket with its
prefix. The parsers' alphabets have each kind of character that the question
tells apart, and the texts are long enough for a bracket in a string in a
bracket, or a comment between two strings. Two processes with one call each and git
between them reach every step of `GitRefs` against every other; removing and
setting with the file replaced by a rename and not are both tried. Two histories
of four commits have a merge, a branch, and times that do not fit the order.

Deadlock is not checked: the programs really stop, after `quit`, at the end of an
algorithm, when all processes have died or a bound is reached.

`CursorSpec` is checked where no files are loaded. When the place of a search was
in the part of the history that was discarded, the code keeps a mark at the start
of the text view, and a file loaded then is found by the next key as if it were
older matches: no cursor describes that, and nothing in the code says what it
should do.

### Fairness

- `RpcSession`: the GUI's thread returns from `select` and `recv` when it can
  (weak fairness of `CallStep`); the main loop gets round to the poller, however
  many handlers run in between, since a 10 ms timeout source is due all the time
  (strong fairness of `PollStep`); the subprocess serves its socket and a dying
  process dies (`Handle`, `Exits`). `RunsEnd` is the one thing the code cannot
  promise: that the user's program returns from its runs and callbacks. The
  liveness results are conditional on it. No fairness is assumed of the user.
  `RunIsReported` holds unless the poller is lost or the user quits, which its
  statement names; `rpc_kill` shows the first.
- `Interrupt`: the interpreter goes on, and the GUI polls. Nothing is assumed of
  the user's code, which may run for ever and catch every `KeyboardInterrupt`: so
  `InterruptEndsRun` is that a run that was interrupted ends, or its code has caught the
  exception that the signal raised.
- `Console`: the poller is called every 10 ms, a write goes on as soon as it can,
  and code that has ended returns its result.
- `ObjectStream`: `sendall` goes on while there is room, and `recv` returns when
  there is something or the other end is closed.
- `VAdjToBottom`, `UpdateCheck`: GTK runs an idle call that was added; the thread
  goes on, but the server need not answer.
- The search of `Editing` and the copying loop of `Selection` are sequential programs that
  take their next step.

## Proofs

TLAPS checks the theorems below for every value of the constants that the named
assumptions admit. The assumptions are of the types of the constants, that names
which must be told apart are, and that bounds are natural numbers; TLC evaluates
them in the runs. A component that others instantiate states them as its
`ConstantsFit` (`SizesFit`), and the module that instantiates it assumes that
by name. Where several values of a constant are to be told apart in the theorems
and in the runs (Python 3 or not, a history that is discarded or not, writes that
fail or not), it is a variable that is chosen at the start or remembers what
happened, so that both cover all of them.

`Subprocess!AllRight` and `Window!AllRight` gather the results of those modules:
the specification that the run explores, with its parts side by side, has the
properties that the run checks. `EachPart` shows that it implies each component's
own specification, since a step of one part leaves the variables of the others.

**RpcSession** (`RpcSessionProofs`, `MaxUnclaimedAssumption`). `IInv` is
inductive (`Inductive`), and the safety properties of the run follow
(`TypeCorrect`, `ReplyIsOwn`, `ResultExpected`, `RunOwned`, `PauseFollowed`,
`LateCounted`, `ExecutingExclusive`, `QuitLeaves` and the action property
`ResultReported`). `OwnReplyFirst` alone is not inductive. The socket must be
known to be empty when a request is sent, which is what the counter is for, so
`IdleShape` says that outside a call no more is on the socket than the counter has
(`Len(toGui) + Len(toSub) <= nUnclaimed`), and all of it from calls that may be
late. While a call waits there are three shapes the socket can have (`WaitShape`),
and while code executes one (`ExecShape`); `CallShape` ties the counter to the
call's stage; `DeadShape` says what a death leaves; `PauseShape` finds behind
each `pause_idle` in the socket the `resume_idle` that answers it. There is one
lemma for each part, with one step per action that can disturb it.

**ObjectStream** (`SizesFit`; `StreamRight` in `Subprocess`). `StreamImplementsQueue` is the refinement of `ObjectQueue`: every step of
the bytes is a step of the queue of objects or none. `StreamIsRight` is the types
and `PartsAreOfOne`. Any number of objects may be in the socket, so neither is
inductive. `IInv` says that there is a function `start` which places the bytes
of each object that is not yet received in `Held`, what the receiver has and will
get, one behind the other (`Laid`), with what `sendall` still has at its end
(`Pending`); a received object shifts `start` (`LaidShift`), one that is sent
extends it (`LaidSend`), and bytes that move from the socket to the receiver leave
`Held` as it is. `Received` then reads off that what is between two starts is the
object. The lemmas below are on bytes: that a length can be told from its four
(`PackedLength`), and what joining, taking and dropping do. Induction is not
needed because `start` comes with its monotonicity, which each step keeps.

**GitRefs** (`Repository`; `NamesAssumption`, `FilesAssumption`,
`OpsAssumption`). `IInv` is inductive (`Inductive`) and `RefsSafe` follows: what a
process swaps was as it compared it (`SwapsAreAtomic`), a removed reference is
gone (`RemovedIsGone`), what others have packed stays packed (`OthersStayPacked`)
and no lock outlives its call but by death or where its file could not be
written at closing (`LocksAreReleased`), for any number of processes and references, with an atomic rename and without. The argument is
that of locks: whoever works on a file has its lock (`Locked`), whoever has a
lock works on that file or is dead (`Owner`), so what was read under a lock stays
true until the write (`Compared`, `Absent`, `Emptied`, `Rewritten`). These hold
up to the step at which `abort()` takes another's lock away, which ends the
behaviours of the model (see below): the theorem says nothing of what follows it.

**GitStore** (`Repository`, `StoreAssumption`). `StoreSafe`: what was stored is never
lost (`NothingIsLost`), and what a process misses or cannot read is explained
(`MissIsExplained`, `OwnIsFound`, `FailureIsReceiving`), for any number of processes
and objects; what is renamed is what the process has locked and written
(`RenamesItsOwn`). Like that of the references, the theorem ends where a lock is
taken away. For the objects there is no lock to argue from. `Building` says what each step of
making a pack has left on disk, so that what is removed is in a pack with both its
files; packs and indexes only come (`Grown`), which no other process can disturb.
`Listed` and `Looking` compare three times for what is not in a process's list:
that of the pack, that of the directory and that of the listing; a list that
`_pack_cache_stale()` lets pass lacks only packs of the same tick.

**HistoryNav** (`History`, `CommandsAssumption`). `RecallRight`: in every
state `hist_count[...]` in `history_down` finds what it looks up
(`WalkedIsCounted`), and the editor shows the prefix or a match (`ShowsAMatch`).
The two are not inductive by themselves: `TextIsCounted`, now a part of
`RecallIsRight`, says that a search at the end has counted nothing and that one
that is elsewhere has counted the editor's own text, because a search that begins
stops at the last command that matches. That the walk stops there needs the
least and greatest elements of sets of positions (`MinOf`, `MaxOf`), taken from
the library's theorem on well-founded orderings.

**HistPersist** (`History`, `PersistAssumption`). `HistoryRight` and `HistoryKept`
are the two properties of the history's file that the run checks.
`UnmodifiedIsSaved`, and that quitting keeps the history, need what `PersistIInv`
adds: `FileInHistory` and `StarTellsModified`, that items are numbered in the order
in which they came, and which file the question whether to replace it is about.

**StatusBar**, **Folding**, **Tabs**, **UpdateCheck** (`Window`; `BarAssumption`,
`FoldsAssumption`, `NotebookAssumption`, `CheckAssumption`). `MessagesGoAway`,
`FoldsRight`, `TabsRight` and `NoticeRight` prove the four parts of
`WindowIsRight` and `WindowActsRight`, which `WindowRight` and `WindowActs` put
together. Each has an inductive invariant: the timers of older messages have
other numbers (`BarIInv`), the sections are as the mark and the message say
(`FoldsIInv`), the pages on both sides of the place where a tab was closed or
opened are the same (`TabsIInv`), the globals of the thread are written in
their order (`CheckIInv`).

**Themes** (`Window`, `ThemesAssumption`). `ThemesRight`: `ThemesAreRight`, for any
number of themes, colours and elements. While DreamPie runs, `LooksIInv` is about
the configuration in memory; while it does not, about what the version that is
installed then will make of the file (`Loaded`), so the lemmas are about reading:
the same version reads what it wrote (`ReadAgain`), a newer one adds what `Upgrade`
says (`ReadByNewer`), both if the names of the file are read as they are written (`Kept`),
and an empty file gives the defaults (`ReadEmpty`). Of any other beginning of a file
(`PrefixIsConfig`) only the second half of `ThemesAreComplete` is claimed: the theme that is
shown has all its elements, or there is no window. In the
dialog, no two names have one dictionary (`DialogOK`), for which a copy needs one
that is free (`NewDictionary`, by counting), and so the name that `run()` finds by
the dictionary is the cursor's (`LooksOk`).

**Console** (`Subprocess`, `PipesAssumption`). `ConsoleRight`: `ConsoleIsRight` in
whole. The state is seen in seven parts: where each process is (`PipesControl`), how
many pieces of output are behind (`PipesLag`), where each line is (`PipesPlaces`:
the lines are divided among what the GUI writes, the pipe, what `sys.stdin` read
ahead, what comes back, what was read and the source box, and none is twice in
one of them), which run each was typed for (`PipesRuns`), and the types
(`PipesTypes`). Two more parts are about the text view: what is to be written, in the
pipe, or left are the last lines that were typed, in their order (`PipesLast`), and
the regions of the view show the lines that are not in the source box, each a
run of neighbours, in their order (`PipesView`). What the loop of
`handle_rem_stdin` takes is a recursive function of the turn. That it exists is proved
by induction over the set of turns for which it does (`UpTo`, `Turns`, from the
library's facts on least elements), and that each turn takes what came back off
the end by what one turn does (`TurnTakes`, `AllTaken`). That a line is in one place is not inductive without the second
half: taking the first line of a place must leave none like it there.

**The search** (`Editing`, `LettersAssumption`). `RangeRight`: both binary searches end
where they should, for every sorted list. The invariant is what each search knows
of the words on both sides of its interval; the second search compares only the
beginnings of words, whose order is coarser, so it needs that cutting keeps the
order (`CutKeepsOrder`), which rests on the order of words being total and
transitive.

**IndentKeys**, **Autoparen**, **CallTips** (`Editing`; `IndentAssumption`,
`ParensAssumption`, `TipsAssumption`). `IndentRight`, `ParensRight` and `TipsRight`
prove the parts of `HelpIsRight` and `KeysAreRight`, which `HelpRight` and
`KeysRight` put together, for texts, pages, undo strings and lines of any length
and a step of indentation of any width.

- `IndentIInv`: after Tab and after BackSpace the cursor is at a tab stop and one
  line differs from what it was by at most a level; that is why the keys undo each
  other, and it needs that the least tab stop above a column is at most one level
  away.
- `ParensIInv`: while the undo is watched, the opening parenthesis, what was typed of an
  undo string and what closes it (`ClosingAt`: the parenthesis, or two quotes and the
  parenthesis) are where the marks say, and `plain`, the
  text that undoing leaves, is the text without the first of what was added before and the
  first of what was added after the prefix (`Watched`). Each
  key keeps this because inserting and deleting are described place by place.
- `TipsIInv`: a visible window has a call whose closing bracket is where the end
  mark is, and GTK's count of blocked handlers is what the flag says
  (`WindowFits`). The closing bracket is found by depth: that it moves with the text
  when one types inside the call (`CloserMoves`) is proved by counting brackets on
  both sides of the place, from the library's facts on cardinalities.

**Output** (`Window`, `OutputAssumption`). `OutputRight` and `StreamIsShown`, for any
length of lines, any stream and any way to cut it. The three stages of `write()` are
loops, and what each makes of one character more is what its step makes of what it made
before (`DisplayedMore`, `BreakMore`, `UnbrokenMore`, `ScreenMore`), so that what holds of
nothing and goes on with each character holds of every string (`Appending`, from `UpTo`).
`OutIInv`: the text is of lines that fit (`Texts`), since a line is broken where it is
full and deleting its end leaves it so; what is typed is not broken, but no line of the
section goes on after it. `StreamShown`: what the section shows, without
its own newline and the breaks, is what the screen shows of the stream. Between two pieces
a carriage return may be waiting, which is in `is_cr` here and in the screen there; in a
piece, what is cleaned so far, displayed over what was kept, is what the screen shows
(`Agrees`, from `FirstShown`, `CharacterShown`, `NewlineShown` and `OverwriterShown`),
except between the return of a Windows newline and the newline. What is marked as an
escape in two pieces is what is marked in the whole of them as long as none ends within
one (`MarkedJoins`), which is where `ShowsStream` stops to hold (`cut`). It holds for regular
streams, where a return comes before a newline or a character that is shown; there
the assertions of `write()` hold as well. For the others see what the code does not do,
below.

**Selection** (`Window`, `CopyingAssumption`). `CtrlCRight`: `SelectionIInv`, the buffer
that is looked at is the current tab's, and the last signal that was not in silence saw
what is selected. `CommandsCopied`: between two places where tags change all characters
have the same tags (`ToggleIsNext`), so each turn takes what there is (`Taken`). Its text is
also that of any command that is written, for which `WriteCommand`, a loop too, has to
be shown to give a sequence (`WriteCommandTyped`): it never looks beyond the last
highlight (`Writers`). `TextRight` puts output and selection together.

**VAdjToBottom** (`Window`, `BoundsAssumption`). `ScrollRight`: `ScrollIsRight` is
inductive as it stands.

**Interrupt** (`Subprocess`; `CanMaskAssumption`, `ToolkitsAssumption`).
`RunSurvives` and `SignalsRight`, with and without the ability to mask, from what
each place means for the record of the run (`RunRecord`) and where SIGINT may be
unmasked (`SignalState`), which together are inductive (`SignalsInductive`).

**ResultHistory** (`SizesAssumption`, `ObjectsAssumption`, `MaxResultsAssumption`).
`NumbersTrue`, `WindowBounded`, and `ImplementsWindow`: each step of
`ResultHistory` is a step of `ResultWindow` or none (`WindowStep`), which needs the
bound on what is kept, and the bound in turn follows from the window's step.

Only model-checked:

- liveness under fairness (`WaitEnds`, `RunIsReported`, `RunsEnd`, `FollowsText`,
  `UserIsTold`, the first part of `ListIsRight`), which is outside the prover's
  reach;
- `StuckIfFull`, a part of `RunsEnd`, which is about what is enabled;
- `CursorSpec`, whose refinement counts the elements of sets defined over
  sequences;
- what folds, recursion or enumeration compute: the parsers (`StructureIsRight`),
  `Brine` (`RoundTrip`), `GitPack` and `GitObjects` (`ObjectsAreTrue`), `GitDiff`
  (`DiffsAreTrue`), `OrderedDict` (`DictIsRight`), the reference definitions of
  `Sources` and `Queries` (`AnswersAreRight`). That would need induction over data, for
  which the library's theorems cannot be used here: `TurnByTurn` and `Appending` do it by
  hand for some loops;
- `CommandsAreRight` (`Selection`), whose parts are about what recursion and cardinalities
  of sets of places compute, and `TransfersAreWhole` (`GitTransfer`), a module
  with recursive operators, of which the prover can show nothing.


## What the code does not do

Four runs are expected to find a violation: the text of the repository says one
thing and the code does another. PROJECT.json quotes each under `findings`. The
common consequence of the first two: once a completion query has timed out
because the user's program was busy, pressing OK in the preferences before the
poller has read the late answer freezes the window for good: the drain loop takes
the answer, finds its counter unchanged and waits for another.

The models follow the code where it is at odds with what one would expect. The
properties are stated so as to hold with these, and say so.

DreamPie:

- A `KeyboardInterrupt` between masking and the `try` leaves SIGINT unmasked (`slipped`).
- `write_command` hides the body of a definition only if it begins on the line right
  below the `def` or `class` line; Copy Commands Only also takes the command that
  ends where the selection begins.
- "Keep lines if after the cr there was no data before the lf" (`output.py`), but of
  `\r\r\n` only one return is removed, and the line is lost; so it is when an escape is
  between the return and the newline. When a section shows nothing yet (the first piece
  was `\r` or an escape), and when the history was discarded after output without a
  newline, an assertion of the next `write()` fails and the piece is lost (`raised`).
  Escapes are looked for in each piece alone: of one that is cut between two pieces both
  parts are shown. What is typed as standard input is not broken into lines of `BREAK_LEN`.
- With Python 3 a line that `sys.stdin` read ahead is lost to the source box.
- `find_modules`: a directory whose time is 0 and that is not in the cache ends in an
  `UnboundLocalError`; two changes within one tick of the clock, and changes in a
  sub-package, leave stale names; a package that was imported without submodules
  offers none. A class without parentheses is offered as `C:`, and parenthesised
  imports are garbled. A raw directory completion ends in a backslash.
- `is_callable_cache` is per type id: wrong for types whose objects differ, and for a
  type at the address of an earlier one. A `u'é'` key stops all keys from being
  offered; names that are both keywords and builtins are offered twice, and so is a name
  that a module's file binds more than once, when the module is not loaded.
- `dumpable()` says of longs, of Python 2's strings of bytes, of slices whatever is in
  them, and with Python 3 of ints of more than a byte that `dump()` will take them; it
  raises `TypeError`.
- Completions are searched for by halving, but not always given in order: keys are sorted
  before `]` is appended to them (`1]` comes before `10]` in the list, and after it in the
  order of strings), file names before the quote or the separator. Then words that fit are
  not shown and words that do not fit are, until nothing is found and the list is sorted;
  completing a row that does not fit leaves what was typed before its end. After the window
  was hidden it compares bytes of UTF-8 with text, and never opens again if what stands
  there is not ASCII.
- After a name that expects a string because it is in the user's list (`expects-str-2`) the
  quotes are typed and the undo strings watched all the same: undoing deletes the opening
  parenthesis and the first quote, and leaves `")`.
- Without `ast`, an `elif` is split off its `if`, a late `__future__` import is
  accepted, and a dedent that fits no level raises out of `split_to_singles`.
- `trunc_traceback` shows an exception twice if it is the context of one whose cause
  led to it, and shows suppressed contexts.
- The configuration is written in place: when DreamPie is stopped meanwhile, any beginning
  of the file is left, with themes missing, or without some of their elements (then the
  preferences do not open, or there is no window), or with a last line that cannot be
  parsed, which stops every start until the user removes the file. Names of themes are
  not quoted: one with `]` is lost at the next start, and if the current one ends in a
  space or has ` ;` there is no window (`NoSectionError`).
- "The loaded file is updated with the default values" (`config.py`), but only the
  sections of `default_config` are. A theme that the user made lacks the elements of a
  newer version: if it is the current one `get_theme` raises and there is no window, and
  otherwise the preferences do not open. `ThemesAreComplete` allows for it.

dulwich, as it is in this tree:

- `close()` renames the lock file and then calls `abort()`, which removes the lock by
  name: by then it may be another process's. `GitRefs.LocksAreKept` states that it is
  not; it does not hold, and no run checks it. From there on changes of references are
  lost; and three writers of one object can lose it: the first's `abort()` removes the
  second's lock, the third makes one, the second renames that, still empty, over the
  stored object, and the third dies. `GitRefs` and `GitStore` end at the first such step.
- `_GitFile.close()` "will attempt to delete the lockfile" if it fails, but not when what
  is buffered cannot be written (a full disk): the lock file stays for ever.
- `_remove_packed_ref` returns at once if the packed references were never read; a list
  that is stale after git has repacked defeats `add_if_new` and `set_if_equals`.
  `DictRefsContainer.set_if_equals` compares without following symbolic references.
- `get_peeled` of a `packed-refs` without header says that a tag is not peelable; the
  peeled value of a reference that was moved since packing is that of the old one, and
  the server advertises it. A malformed `packed-refs` raises once and is used
  afterwards as far as it was read. `check_ref_format` accepts `a//b`, `/a`, and `.lock`
  inside.
- A `.lock` or `.idx.lock` file stays for ever after a crash; a thin pack whose
  writer died between its two files makes readers raise `IOError`; a list of packs that
  was read within the same tick as a change stays stale; an object is renamed partly
  written when a write fails.
- `check()` compares the hash to itself and never raises `ChecksumMismatch`
  (`GitObjects.MismatchIsRaised`, not checked by a run); assigning `Blob.chunked` keeps
  the old hash; `Tree.check` misses equal names that are not neighbours; zones like
  `--30` and an empty encoding header do not round-trip.
- `create_delta` writes copies of more than 64 KB wrongly, which the destination's size
  gives away; `write_pack_data` writes an absolute base offset; `_walk_ref_chains`
  raises `KeyError` for a base that is in the pack and in the store.
- `LRUSizeCache.add` of a key that is cached keeps the old value, and a replacement that is too
  large leaves `_most_recently_used` dangling.
- `RenameDetector`: when more files of one content were deleted than added, an added
  one may be told as a copy too; copies are told without comparing the types of files; a
  change that was split may yield a modification and a deletion; a changed git link
  raises `KeyError` with a rewrite threshold. A merge of three parents names a path whose file
  one parent has.
- Fetching: an outer tag is sent without the tags in it; a single-acknowledgement
  client raises `IndexError`; pruning goes by commit time. Pushing: references are
  changed although unpacking failed, and without looking at their old values; a push
  without objects makes both ends wait for ever; a `KeyError` while the pack is applied
  ends the connection without a report.

## Not modelled, and the plan

Left out of what is modelled:

- `Console`: decoding. A UTF-8 character that is cut by the end of a read is replaced;
  the model has pieces, not bytes, and no property about it (see `hazards`).
- `PyParse`: tabs, and `find_good_parse_start`, which only shortens what is studied.
- `Selection`: prompts of more than one character, and the spaces that `strip()` takes.
- `Sources`: only what decides where a statement ends is modelled of Python's grammar.
- `RpcSession`: that `poll()` also reaps the child (`PollNothing`: its end is seen by the
  next poll either way); exceptions that writing the output or what was left of the
  standard input may raise in the handler of a result (`PollResult`), which would end the
  poller as the others do. The assertions of `handle_rem_stdin` are in `Console`, those of
  `write()` in `Output`.
- `Interrupt`: user code that sets a handler of SIGINT of its own, or masks it.
- `Brine`: text with a lone surrogate, which cannot be encoded.
- `Queries`: the order of names; packages below the first level.
- `AutocompleteWindow`: a list is a value; that one object may be the list of two shows,
  and be extended by one of them, is left out.
- `Themes`: the other colours of an element, and the other options; the order of the
  sections in the file; names such as `A theme] x`, whose header is read as another
  theme's. A colour that was cut is any colour or none.
- `GitStore`: alternates, the in-memory store. A write that fails does so when the file
  is closed; one that fails before, on what does not fit the buffer, is followed by a
  `close()` that may rename a torn file (`finally: f.close()`). Two packs of the same
  objects are taken to be the same bytes.
- `GitRefs`: `packed-refs` is renamed at once also where `AtomicRename` is `FALSE`.
- `GitTransfer`: more than one tag of a commit, http, authentication, exceptions that
  `_apply_pack` does not catch.
- `GitDiff`: collisions of the hashes of blocks, the order of the result, a rename
  detector for merges.
- `ObjectStream`: a length of 2^31 or more, which `struct.pack` refuses.
- The subprocess loop's encoding, options of pprint and matplotlib, and welcome text.

Left out for good: `SimpleGladeApp.py`, `comtypes` (a wrapper of Windows' COM) and the
parts of dulwich that are input and output or that nothing here uses (index, patches,
web server, fastexport); error reports and platform workarounds; packaging and data.

What could be proved next: `KeysFindCommands` of `CommandsAreRight`, by what
`ToggleIsNext` says of the places; `LRUCache.ListIsWhole` and the refinement of `HistoryCursor`, which need facts on folds and cardinalities first.
