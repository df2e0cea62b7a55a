# UniComm: a verification project

UniComm (`src/`) is a Qt desktop application for talking to devices. Lua
scripts, the user and an AI agent drive communication ports, documents, data
tables and databases from one workspace. This directory holds TLA+ modules of
the parts whose behaviour is hardest to test, TLC configurations that check them
on small instances, and TLAPS proofs of their main properties. `PROJECT.json`
relates every definition to the lines it models and lists the runs, the hazards,
the findings and the theorems.

## 1. Inventory

Almost everything runs on the main thread, in Qt's event loop: what looks
concurrent is the order in which replies, timers, futures and signals come back,
and the nested event loops of blocking calls. Real threads exist for Lua scripts,
one per script, and for ports, one per port.

| Component | State | Operations | Talks to | Hard to test | What makes it correct |
|---|---|---|---|---|---|
| Agent runtime (`agent/runtime`, `agent/module/contextModule`) | state, the turn with its messages, calls and limits, the reply in flight | pre, steer, compact, abort, permission, userInput; handlers of replies, timers, futures | provider over HTTP, tools, conversation store, front end | answers that outlive their turn, retries, steering during an answer, abort anywhere, recursion of `stateSet` | one driver per busy runtime; well-formed contexts; consent per call; each turn recorded once; it comes to rest |
| Conversation store (`agent/module/sqlModule`) | turns and messages, compacted turn, usage | append, compact, rollback, create, delete | runtime, front end | rollback below a compaction, a failing insert | what is left out of a request is in its summary |
| Agent tools and dispatch (`agent/module/toolsModule`, `evalModule`, `hookModule`) | connections and countdowns of futures | execute, dispatch, script_exec | every other module, sub-agents, thread pool | several sub-agents at once, a future nobody ends | every call's future ends once |
| MCP client (`agent/module/mcpModule`) | servers with session and version, known and offered tools | insert, remove, enable, disable; continuations of discover, initialize, notify, list | MCP servers over HTTP | answers after disable, removal or a second discovery; pages of two lists | tools offered are those of enabled servers; all of them in the end |
| Undo history (`core/undoModule`) | the command stack, open groups, group data | push, begin, commit, revert, release, invalidate, undo(To), redo(To) | documents, ports, data modules, agent turns | a refusal half way through a group; drops during a walk; the limit | groups are atomic; the history tells the truth |
| Document module (`document`) | open editors, texts, transactions of agent edits | open, edit, save, rename, undo of a transaction | undo history, file system, language servers | text typed between an edit and its undo, renames below it | undo never overwrites later text |
| Thread pool (`runtime`, `api/thread`) | threads, interpreters, rows and counters | start, stop, debugger requests, quit | Lua workers, agent tools, main window | blocking calls both ways, ends not yet handled, quit | stop ends; quit waits for all; no mutual wait |
| Ring buffer (`port/module/ringBuffer`) | bytes, two positions, fill, statistics | write, read, readUntil, clear | ports, under a mutex | wrap-around, self-overlapping terminators | a bounded queue |
| Ports (`port`) | device, ring, the call being served, the row and its switch | open, close, clear, read, readUntil; data, errors; toggle, edit | devices, scripts (blocking calls), main thread (queued signals) | close or overflow inside a blocking read, signals of a port that was replaced, main waiting for the port's thread | the buffer has no gap; the switch agrees with the device; nobody waits for ever |
| Language server client (`service/lsp`, `document/module/codeWidget`) | receive buffer, methods by id, content timer | initialize, shutdown, didOpen, didChange, requests, parser | server process over two pipes, editors | messages cut anywhere, early returns, edits between a request and its answer, nested loops at start and end | answers match; the server's text follows; the program ends |
| Git queue (`service/git/gitModule`, `mainWindow/statusModule`) | queue of commands, one process, status, rows of tasks, timers, lanes of the log | the commands, what their ends queue, watchers, abort, continue | git process, file watchers, menus, status bar | early returns that skip the dequeue, a status that was set for a command still queued | a transfer shown is pending and ends; the queue drains |
| Modbus and protocol APIs (`api`) | the bytes in the port's buffer between calls | read, write; the parsers | ports, devices | answers later than the timeout, exceptions shorter than answers, lost requests | an answer belongs to its request |
| Data modules (`data`) | columns as keys and cells in two models | insert, remove, rename, move, each with its inverse; write, clear | undo history, agent tools, scripts | positions stale at undo, refusals half way, a table emptied under the history | each walk back gives back what was there; keys keep their cells |
| The rest (windows, settings, terminals, conversions, forms) | display state | display, file input and output | all | little | not modelled, see section 8 |

## 2. Plan

Order, most important first, with where each item stands.

| Item | Modules | Stands |
|---|---|---|
| Ring buffer | `RingBuffer` implements `BoundedQueue` | done, proved |
| Agent runtime | `AgentRuntime` implements `AgentTurn` | done; types, the refinement and HistoryKept proved; the other safety properties up to the second manual compaction |
| Undo history | `UndoStack` implements `AtomicChange` | done, proved |
| Thread pool | `ThreadPool` | done; types, CountersAgree, QuitWaits proved |
| Git queue, graph of the log | `GitModule`, `GitLog` | done; safety proved |
| Ports | `Port`, which relies on the promise of `BoundedQueue` | done for serial, TCP client and UDP; safety proved |
| Document transactions | `DocumentTransaction` | done, proved |
| Data table | `DataTable` on top of `UndoStack` | done; safety proved |
| Language server client | `LanguageClient` | done; safety proved |
| MCP client | `McpClient` | done; safety proved |
| Modbus | `ModbusMaster` | done; safety proved |
| Agent dispatch | several runtimes as `AgentTurn` with a countdown | left; the parent's future ends once, after the last report |
| Conversation store | creating and deleting conversations, a failing database | left |
| Servers of ports | tcpServer, sslServer: one buffer per peer, peers that come and go | left |
| Breakpoints and watches | the lists the worker reads without a lock | left |

Modules that are proved about use recursive functions or folds, never RECURSIVE
operators; constants carry named assumptions.

## 3. Modules and the code

**RingBuffer** (`port/module/ringBuffer.cpp`). Every public method holds the
mutex for its whole body, so each is one action: Write, Read, ReadUntil, Clear,
ResetStatistics. Positions, fill and the bytes are the fields of the class.
`Stored` and `Front` move data in the code's two pieces; `PrefixTable` and
`Matched` are its Knuth-Morris-Pratt search. `out` is what the call returned;
`put`, a history variable, is the chunk it stored, so that the abstract queue
knows what to expect. Distances the code keeps in qsizetype stay far below its
width. **BoundedQueue** is the promise: a queue of bytes with Put, Take, Refuse
and Clear.

**AgentRuntime** (`agent/runtime/runtimeModule.cpp`). One action per call from
the event loop. `stateSet` calls itself: a chain of such calls is one action,
built from operators named after the states (EnterRequest, EnterCompact,
EnterToolCall, EnterComplete, EnterError). `pending` holds what may still come
back (replies, retry timers, tool futures, cards); their handlers are
FinishStream, FinishCompact, Receive, RetryTimer, ToolDone, Permission and
UserInput, and each keeps the guards with which the code tells stale answers
from current ones. A tool's future is asynchronous in the model; a future that
is ready at once is the case in which its handler is the next action. The
conversation is the sequence of turns on record with their outcome, the
compacted turn and the set of turns its summary covers; `history` is what the
messages table holds of each turn on record, which every later request reads back
and posts before the turn in progress. Usage figures are kept as "above zero". `Primary = FALSE` gives a dispatched sub-agent.
**AgentTurn** is the promise: turns run one at a time and each ends on record
exactly once.

**UndoStack** (`core/undoModule.cpp` with Qt's QUndoStack as the code uses it).
Actions are the public slots; undoTo and redoTo are walks of one command per
step, and no other action comes between the steps of a walk, since the code runs
it in one call. Whether an owner refuses a change is a choice at every execute;
a refused change has no effect. A group's execute with its compensation is
`Executed`. **AtomicChange** is the promise: the steps of a group are in effect
together, not at all, or the group is broken.

**ThreadPool** (`runtime/threadpoolModule.cpp`, the hooks and stateSet of
`luaInterpreter.cpp`, `api/thread.cpp`). Main-thread actions: Start, ServeCall,
DebugRequest, Stop, Finished, Quit, QuitStop. Worker actions: Call, Handle,
Hold, End. `main = "waiting"` is a BlockingQueuedConnection to a worker,
`worker = "calling"` one to the main thread. A thread that is over stays known
until the main thread handles its finished events, which are posted together and
handled as one; its interpreter is already deleted, and a request to it then is
undefined behaviour, modelled as returning or hanging. Quit connects to
finished before it stops the threads one by one.

**GitModule** (`service/git/gitModule.cpp`, `mainWindow/statusModule.cpp`). One
action per event of the main thread. The end of a command is one action with
everything its handler queues (`Finish...`); `Launch` is `processDequeue`, called
for every command queued and once more at the last line of the handler, and a
handler that returns before it uses `Returned`. Watchers and timers, the menus
(`Offered` is what they enable), the abort and the row it removes are actions of
their own. What the repository is in the middle of (`head`) may change at any
time, since the user may work in a terminal. With `Faults` git fails to start or
prints anything. **GitLog** is the loop over the records of `git log`: lanes in
the order of the code's list, one action per record and kind of record, over every
history of `Size` commits in every order git may print. `MCGitModule` extends both.

**Port** (`port/portModule.cpp`, `serialPort.cpp`, `tcpClient.cpp`,
`udpSocket.cpp`, `api/port.cpp`). The port's thread serves the calls posted to it
in order; a read that waits is the state `reading`, during which only data and
errors of its own device are handled, as in `waitForReadyRead`. Signals to the
main thread are a queue. An edit of the configuration is `_portRemove`, which
waits for the thread, and `_portInsert` under the same name. The old
port is deleted after that, and its destructor's close is the last signal it sends
(`Destroyed`). The three kinds differ in what open, close and errors do and are
operators of their own (`SerialClose`, `TcpClose`, `UdpRefused`, ...); a device that
is "refused" is a UdpSocket that an error inside open has closed and open has
reported as active. Bytes are numbered as they arrive; the buffer
keeps what `BoundedQueue` promises of the ring.

**DocumentTransaction** (`document/documentModule.cpp`,
`document/module/editorWidget.cpp`). A text is the set of edits in it. Tool calls
of an agent's turn (Edit, CreateFile, RenameFile, DeleteFile) work at once and
leave steps; `Changed` and `EditStep` are what `_transactionFlush` makes of the
edits, `Kept` is `_transactionCheck`, and Undo and Redo are the two functions a
step pushes. The history itself is one command here, and `Ran` its group with
compensation, step by step (`Tried`, `GoneBack`). The user types, saves, opens, closes and walks; the watcher reports
later, which closes a page and opens it again.

**DataTable** (`data/datatableModule.cpp`) EXTENDS UndoStack: each step of the
history is taken together with what it does to the keys and the cells, and that
decides what is refused and compensated, which UndoStack leaves open. The two
models of the table are two sequences; `InsertColumn`, `RemoveColumn` and
`SetItem` are QStandardItemModel's, which ignore what is beyond the last column.
Databases (`databaseModule.cpp`) are the same operations with one value per key.

**LanguageClient** (`service/lsp/languageServer.cpp`, `codeWidget.cpp`). Two
pipes join client and server; what the server writes comes in chunks that end
anywhere, and each makes the parser go through the buffer (`Handle`, `Rest`): a
handler of `Skipping` that gets a null result leaves the rest (`Leaves`).
Requests carry ids, and `methods` is the map that says what an answer is for. The
content timer, formatting, start and shutdown are actions.

**McpClient** (`agent/module/mcpModule.cpp`). Each request of a chain and each
continuation is an action; requests are a bag, and answers wait for their
continuation, which runs in an event of its own. A server may be disabled, enabled
again or removed at every step of a chain. `tools` says for each exposed name whom
toolExecute asks, `offered` whose tool the agent was offered under it: the code
writes the first page by page and registers the second at the end of a list.

**ModbusMaster** (`api/modbusTcp.cpp`, `modbusRtu.cpp`, `modbusAscii.cpp`). Calls
of scripts are run one after the other by the port's thread. A frame is a few
cells, each of which knows its frame, so that an answer may arrive in pieces and
what is left of one is told from the beginning of the next; `Parser` and `Fits`
compare what the three parsers and the operations compare, for coils no more than
the number of bytes, which is the same for one coil and for two (`Octets`, `Data`). Devices answer in order, late or not at all.

## 4. Runs

Several instances of a module, with other constants or other actions, share one
run: its MC module has a variable `part`, chosen at the start and constant from
then on, and an INSTANCE of the module per part. A property whose conditions a
part does not meet names the part (`... => ...`). One run is so the union of
several, and a counterexample says in which part it is.

| Run | Parts and their bounds | What it shows |
|---|---|---|
| `ring` | capacity 4, two byte values, every chunk and every terminator of up to 4 bytes | PositionsAgree, DistanceFindsFirst, ImplementsQueue |
| `agent` | *turns*: two turns, a manual compaction, a steering text, two calls each (a plan, a write); *calls*: one turn that comes to the limit of three calls; *rollback*: two turns of two calls (a question, a write), one may be taken back; *sub*: a dispatched turn in Chat mode, two steering texts, six calls | TypeOK with the limits, OneDriver, ContextWellFormed, ApprovalHonoured, HistoryKept (that is HistoryReachesModel until a turn is taken back), SteeringAnswered, CompactionAdvances, RecordsTurns, ComesToRest |
| `tables` | *stack*: the history alone, two groups of up to two steps, an edit, every refusal, a limit of three commands; *waiting*: two edits and a turn on two columns, the user waits for the turn; *shared*: an edit and a turn of two steps at once, scripts write; *cleared*: scripts empty the table, nothing moves | HistoryTellsTruth, GroupsAreAtomic, BrokenStaysPut; ColumnsTrue; WalksBack (*waiting*); refusals change nothing and no turn is torn (all but *stack*) |
| `pool` | *mixed*: two threads of all modes with two debugger requests; *left*: three scripts without a debugger; *debugged*: two debugged scripts that call nothing in main, three requests | CountersAgree, QuitWaits, RequestsHandled; StopsLeft (*left*) |
| `git` | *transfer*: fetches, pushes, merges and five commands that are always enabled, one command queued; *merge*: a merge that comes and goes under fetches; *faults*: git fails; *log*: every history of four commits in every order | TransferPending (but for *faults*), TaskMatchesStatus, TransferEnds (*transfer*), LogDrawn (*log*) |
| `port` | *calls*: three kinds, two scripts, all reads without or with a deadline, a buffer of 3 and 4 bytes; *edits*: one script on a port of any kind whose configuration is edited under it | NoGap; SwitchShowsPort; WaitsEnd |
| `document` | *others*: two calls of any tools, a save, a file written by another program, one walk before the watcher has reported; *alone*: four calls, the user typing, a watcher faster than the user | TypingSpared; UndoRestoresApart and CleanMeansSavedApart, until the user saves, another program writes, or a file is put where one was taken away |
| `lsp` | *any*: an edit, a format, null results, a server that may die; *good*: a server that lives and always has a result | AnswersMatch, InSync; GoodServerServes (*good*) |
| `mcp` | *failing*: two servers, four changes, one answer that does not come; *answering*: three changes, every answer comes | ToolsOfEnabled, OfferedKnown with servers of different titles; AllExposed (*answering*) |
| `modbus` | *late*: two objects, two calls, one loss, two answers after the timeout; *timely*: no answer after the timeout, two registers that change by themselves | SingleWriteDone; TimelyResultsTrue, that is ReadCurrent, WriteCarried and NothingLeft until an answer is late |
| `rollback` | three turns, a compaction and a rollback | violated: HistoryReachesModel |
| `table_moved` | columns are moved and scripts empty the table | violated: ColumnsTrue |

The two violated runs, and the other disagreements that the passing runs stay
clear of, are described in section 7. Type invariants that no run lists are
proved (section 5).

### Bounds and why they are enough

`MaxTurns`, `MaxCompacts`, `MaxSteers`, `MaxRollbacks`, `MaxCalls` (AgentRuntime)
bound what users and the model do; two turns are what is needed for an answer of
one to arrive in the other, and three calls let a batch of two follow another
answer and both limits be reached. Retries are not bounded further: the code's
own limit of two is used. `MaxBytes` (RingBuffer) bounds the bytes written between
two resets of the statistics; it exceeds the capacity, and resets may come at any
time, so both positions wrap at every place. `MaxSteps` and `Limit` (UndoStack)
let a group be refused half way and the oldest command drop while a revert of its
group stays. `MaxRequests` (ThreadPool) bounds the debugger; `PoolRoom` makes sure
that a call under way finds a thread that was never started, so that no script
waits only because the instance has run out of threads.

`MaxQueue` and `MaxRows` (GitModule) keep users and watchers from giving more
while one command is queued or one row is left over; handlers queue theirs on top
of it, so that every command is met running, first and behind others.
`Size` (GitLog): with four commits a merge, a fork and a parent that comes before
one of its children occur together. `MaxBytes`, `MaxCalls`, `MaxEdits` (Port): one
byte more than the buffer holds, two calls waiting behind one that is served, one
replaced port. `MaxTools`, `MaxReused`, `MaxTyped`, `MaxSaves`,
`MaxWrites`, `MaxEarly` (DocumentTransaction): four tools can rename a file, edit it,
delete another and create a third; one edit of the user may come between any two of
them, one file may be put where one was taken away, and one walk may come before the
watcher has reported. `MaxEdits` and `MaxFormats`
(LanguageClient), `MaxChanges` and `MaxFailures` (McpClient): four changes let a
server be disabled and enabled twice, so that three chains overlap.
`MaxCalls`, `MaxLate`, `MaxLost`, `MaxDrift`, `MaxOpens` (ModbusMaster): the answer to the
first call may come during the second, of the same object or of the other.
`MaxRows` (DataTable) is one cell per column, which tells columns apart.

### Fairness

AgentRuntime assumes that the provider's replies end, timers expire and tools
return (weak fairness of Provider, Timer and Tool): Qt finishes every network
reply, be it with an error, and timers fire. A tool that never returns is a tool
that hangs and is outside the claim. Nothing is assumed of the user, which is
why Permission and UserInput are places of rest.

ThreadPool assumes that the main thread handles its events and goes on with quit
(Finished, QuitStop, ServeCall), that a script comes to its next hook (Handle),
and that the hook of an interrupted script ends it (strong fairness of End while
interrupted: calls into the main thread may come between two hooks). A script
that waits inside a native call reaches no hook, and is outside the claim.
Starts, stops, requests, calls and breakpoints have no fairness.

GitModule: a git process ends (Finish) and timers fire (RepoTimeout, IndexTimeout,
BranchTimeout). A git that waits for a password in a window of its own does not
end and is outside the claim. Nothing is assumed of users, watchers and terminals.

Port: the port's thread serves its calls and a read returns at its deadline or
when its bytes are there (PortThread, ReadEnds), the main thread takes signals
(Refresh), and the event after the wait for the thread is handled (strong fairness
of Inserted, since calls of scripts may come between). Devices send nothing unless
they like.

LanguageClient, in *good* only: the main thread handles its events (Start,
ContentChange, Finished, Parser) and the server reads and answers (Take, Answer).
McpClient, in *answering* only: answers come and continuations run.

## 5. What is proved

All theorems hold for every value of the constants, under the named assumption
of the module.

**RingBufferProofs** (RingAssumption: a capacity above zero, chunks over the
alphabet). The inductive invariant is TypeOK with PositionsAgree; the types alone
are not inductive, since that a stored chunk lands behind the newest byte and
leaves the others alone depends on the positions. `WrapAt`, `WrapBehind` and
`WrapAppended` replace the remainder by one subtraction; `FrontIsPrefix` and
`StoredIsAppended` say what reading and writing do to the contents.
`RingTypeOK`, `RingPositionsAgree` and `RingImplementsQueue` follow, the last by
mapping each action to one of BoundedQueue's.

`RingDistanceFindsFirst` is the correctness of the search, for every text and
every contents. It is about three recursive functions, and the induction theorems
of the library take an operator, which the provers cannot instantiate; here a set
stands in its place (`SetInduction`, and `StrongInduction` for definitions that go
back by more than one). `FallExists`, `TableExists` and `MatchedIs` show first that
the recursive definitions have a solution. `Ends(text, bytes, n, q)` says that
the first q of the text are the last q of the first n bytes. The fall from a match
ends at the longest border from which the next byte goes on (`FallLongest`), so
that each entry of the table is the longest border (`PrefixTableLongest`); the
search is then always at the longest start of the text that ends the bytes read
(`MatchedSearches`), and the place where it is complete for the first time is the
least place where the text is found (`DistanceIsFirst`).

**AgentRuntimeProofs** (AgentAssumption). The invariant adds to the types that
a retry timer is only set with an attempt left, that an idle runtime has no
turn, that the turn in progress is the last one created, and that a tool being
executed is one of the turn's calls. `AgentTypeOK` includes that no turn goes on
with the limit of failed or of executed calls reached. `AgentRecordsTurns`:
every action is a Begin, an End, a TakeBack or a stutter of AgentTurn. There is
one lemma per action, and one per operator that enters a state.

Three more invariants are inductive given these types. `Driven` says that a busy
runtime has one pending answer that fits its state, and otherwise only timers and
tools of other turns, and that an idle one has nothing but such timers and tools;
`Chain` is what a chain of stateSet calls contributes to it. From it
`AgentOneDriver` and `AgentApprovalHonoured` follow, the latter because the one
tool that is executed is of the current call. They hold for `compacts <= 1`: a
manual compaction has the turn id 0, so that a second one may meet the timer of a
stopped first (section 7). `Spoken` says, given Driven, that each assistant message
has as many tool messages right behind it as it made calls (`Shaped`), that a tool
message without a result is of a call still to be answered and that every call's
result goes to a tool message (`Due`), that no call is left outside of the states
that work on calls, and that the stream fills the last message;
`AgentContextWellFormed` is what that means when a request is posted, for the turn in
progress and for those on record: `Archived` says that a turn is recorded with every
call's tool messages in their places, and with their results if it completed, for
only the handler of an answer without calls completes a turn. `Whole` says
that the compacted turn and the cut of a compaction under way are on the record; it
holds until a turn is taken back, which is when the `rollback` run breaks it, and
gives `AgentHistoryKept`.

`AgentCompactionAdvances` joins these: the record is in the order of the turns
(`Ordered`), so that every cut among the turns behind the compacted one is greater
(`CutAhead`); and there is a turn to cut at whenever a compaction may begin, because
usage is shown only after an answer of a turn that has been recorded since
(`Forward`). Both hypotheses are needed: a compacted turn that is taken back is never
found again, and the timer of a compaction that was stopped would not know the next.

`AgentSteeringAnswered` counts texts. `TextsOf` is a recursion over the messages, and
by induction an appended user message adds its texts and tool results and answers add
none (`TextsAppend`, `TextsKeep`). `Heard` says that what the turn holds and what
waits for the next request are together its own text and those it was steered with;
each chain of stateSet calls keeps that sum (`Sounds`). Only the handler of a stream
completes a turn, and only when nothing waits, when by `Spoken` the last message is
the answer.

**UndoStackProofs** (UndoAssumption). The invariant says of each group's data
that, unless it is in error, all its steps are in effect or none is, as
`applied` says, that an open group is applied, that a group not yet begun is
untouched, and that commands on the stack are of begun and committed groups.
`UndoTypeOK` holds whatever is dropped during a walk, `UndoGroupsAreAtomic` is
the refinement of AtomicChange, and `UndoBrokenStaysPut` an action property from
the same invariant. `UndoHistoryTellsTruth` needs more than its own statement: for a
change none of whose commands was refused, `Told` says that the commit lies below
the revert and that the commands next to the index say what is so. `ToldKept` shows
that this survives a push, the limit and commands that are dropped; walking back
and forth are the other two lemmas.

The same module proves the table on top of the history (DataTable, for all keys,
values, rows and steps); `TurnBegins` is the only step of the history that is not
one of UndoStack's, so its invariant carries over, and with it the refinement and
the truth of the history (`TableGroupsAreAtomic`, `TableHistoryTellsTruth`). To it
`TableGood` adds two things. The table is sound: keys are distinct, positions are
kept for exactly those, and each column has what was written to its key (`Agree`);
the columns of the cells may be fewer than the keys after a script has emptied the
table, except where columns are also moved, which is what the `table_moved` run
shows to go wrong and what the hypothesis of `TableColumnsTrue` excludes. And no
group is torn: its compensation never fails. For this `Leads(op, redo, from, to)`
says that an operation takes the keys from one sequence to another, and that its
inverse, whatever position it stored before, leads back. An attempt at a group and
its compensation are folds over its steps, which the proofs turn into functions of
the number of steps done (`AttemptIs`, `CompensationIs`); `Went` is the path of keys
that the steps done so far have led along, and `BackTo` how far the compensation
has come back on it, so that a group that is refused half way leaves the keys it
found and loses nothing (`RunIs`). `TableRefusesWhole` states this of every step.

**ThreadProofs** (PoolAssumption: finitely many threads, the three modes).
The invariant adds to the types and the counters that known threads were started
and have not been answered, that main has a request only while it waits, and
what makes quit's count right: quit will hear of every thread it is about that
is not over, and it waits for at least as many as it will hear of. QuitWaits
alone is not inductive, for the step that closes the window looks at the count
only. Steps that do not change the known threads are gathered in two lemmas,
`QuietKeeps` and `WorksKeeps`; the others have one each. `PoolTypeOK`,
`PoolCountersAgree` and `PoolQuitWaits` follow. That the count may be too high
is described in section 7.

Ports, in the same module (PortAssumption): NoGap holds of an open port only; the invariant
`Gapless` says of the buffer of an open port that it is the run of numbers from the
byte after the last one gone to the last one sent, with one lemma for each way
bytes come, are taken, or are thrown away. `PortSwitch` needs `ISwitch`: the
last signal on its way, or the row where there is none, says what the device will
be shown as (`Shown`: open or refused), and a device is refused only if it is a
UdpSocket's. An edit keeps that, although signals of the old port may still be on
their way, because the last of them says that the old port is closed and the new one
has not been opened.

**GitModuleProofs** (GitAssumption). `LaunchTypes` and its companions say what the
queue holds after `processDequeue`, however many starts fail. Types are inductive
by themselves. `GitTaskMatchesStatus` is inductive given the types.
`FinishLaunches` sums the handlers up as one launch each,
so that for `GitTransferPending` it is enough that a launch keeps every command that
was pending except the one that ended (`LaunchKeeps`), and that the handler of a
transfer takes the status back. `GitStallsBehindDiff` says of every step that
leaves commands behind a process that stands still that it is the end of a Diff,
or follows one: the early return is the only cause of a stall.

`GitLogDrawn` is about GitLog, for every number of commits (LogAssumption). The
parents of a record are put in by a recursive function, whose nth value is shown by
induction to keep the lanes apart and to have just the parents so far added
(`InsertIs`). A node drawn has the highest row, so that in a history that is in
order no commit is drawn after one of its parents: its parents, which take its
lane, are awaited from then on. That a node lies within the canvas holds
because the lanes were counted after the record before (`DrawKeeps`).

**DocumentTransactionProofs** (TransactionAssumption; any number of files, calls and
edits). What a walk does is a recursion over the steps of the group and, when one is
refused, another over those that were done. `TryExists` and `BackExists` show that
both are defined, and `RanIs` is the induction that every property of a walk uses: J
holds after each step and B on the way back. `DocumentTypeOK` is the types of
everything, through both.

`DocumentTypingSpared` holds however files and watchers behave. Its invariant is
`AllFine`: the two texts of every edit on the record, and of every document of the
turn, have the same typed parts. An edit that is undone finds one text and sets the
other, and the other steps of a walk change no page that is open.

`DocumentCleanMeansSaved` is about files and editors together, and its invariant
`SavedHere` says more than CleanMeansSaved. The files are at one end of a path
along which the steps of the group lead (`OnPath`, with `Leads` for a step): at its
end when the turn is in effect, else at its beginning. So every step of a walk finds
the files where the turn had put them, and what is compensated is led back on the
same path. A document that the turn has edited lies over a file, and when it had
nothing unsaved its text of before is that file (`Over`), which is why an undo may set
the save point. While the turn is open only files it has taken away wait for the
watcher, and they stay away: that is what `used.reused = 0` is for, since the report
of such a file would close a page that has nothing to do with it. The theorem needs
neither a fast watcher nor a user who leaves the documents alone.

`DocumentUndoRestores` is the promise of the undo itself, and puts the contents next
to the files. Its invariant `HeldHere` has two parts. `Trail` is the path of `OnPath`
with what it means for the turn: its beginning is what the documents held when the
turn began (`Begins`), its end, under the last edits, what they held when it ended
(`Ends`), for documents that nobody else has changed. Each edit on the record starts
from a text without edits, one that is not the last step is of a document that is
deleted next, and what a step took away stays away (`Shape`). `Pages` is what the open
pages show: during the turn every edit that is shown is on the record (`Fresh`), after
it the pages show what the last step put there and nothing else (`Final`), and once it
is undone they show no edit of the turn (`Bare`). A page is marked as modified exactly
when there is an edit in its text (`Fit`), which is why an undo may set the save point.
`RanRedone` and `RanUndone` lead this through a walk and its compensation with the
induction of `RanIs`: undoing steps one by one makes the pages bare, and a step that
fails has opened pages at most (`Opens`). The theorem needs `SavedHere` as well, and
that no call was refused, since a group in error is not undone. That no walk comes
before the watcher has reported (`used.early = 0`) is needed for redoing: what the walk
takes away then waits for the watcher and stays away for the rest of the steps
(`Away`), which need not be so for a report that is older than the walk.

**ClientProofs** (LanguageAssumption, McpAssumption). LanguageClient:
a request is in one place at a time, queued for the server, worked on by it, or
answered and not yet handled, and in each its id stands in `methods` for its own
method (`Queued`, `Worked`, `Replied`; no two have one id); while the server lives,
every method kept is of such a request (`AllKnown`). `AskTraced`, `HandleTraced`,
`TakeTraced` and `AnswerTraced` move requests between the places. Handling a chunk
is a recursion through its answers, of which it is enough to know that it takes a
prefix of them (`ChunkTakes`, `PrefixOf`): so the rest that a null result leaves is
still known by its ids, and `LanguageAnswersMatch` follows. For
`LanguageInSync` the last change that is on its way has the text of the document,
or, when none is, the server's copy is that text (`Reaches`); it holds while the
content timer is not running, and it needs that nothing is asked before the session
begins (`Beginning`).

McpClient: `McpInv` joins the types with ToolsOfEnabled and OfferedKnown, for each
needs the others: a request is made from the record of its server, and what is
listed is for a server that is there and enabled, because the continuation of a
list looks again. That the answers that wait are well formed is needed for the
step that takes them. `Labelled` says that every name carries the title or the host
of the server it stands for, among the tools known as well as among those offered:
when no two servers have one in common, both are of the same server.

**ModbusMasterProofs** (ModbusAssumption). Every echo of a single write on the
line or in the buffer is of a write that was carried out (`RealCells`), and the
parser compares everything that tells one single write from another; a call in
progress has its request, and only the first of the queue is served. From this
`ModbusSingleWriteDone` follows, for any number of objects and however late.
`ModbusTimelyResultsTrue` needs to know where everything is: until an answer is
late, at most one request or one answer is under way, it is of the call the port
works on, and nothing else is on the line, in the device or in the buffer
(`Underway`: `Quiet`, `Asked`, `Answering`). From there the answer is taken whole,
an exception is refused and cleared away, or the call times out with nothing left;
`ResultsTrue` keeps what the results are for calls that have returned.

## 6. What is only model-checked

ApprovalHonoured, HistoryKept and others are proved under the names of the modules; the
runs check them with the part for which they are stated. WalksBack (DataTable) is about
steps that are enabled, and ComesToRest, StopsLeft, RequestsHandled, TransferEnds,
WaitsEnd, GoodServerServes and AllExposed are liveness: both are beyond the provers and
stay with TLC.

## 7. Disagreements met while modelling

Two are runs, with the quotes in `PROJECT.json`:

- `rollback`: taking back a turn that was compacted leaves a compacted turn id
  that is never found, and then no turn reaches the model (`contextModule.cpp:41`).
- `table_moved`: emptying the table removes the columns of the cells and not their
  keys; undoing a move then separates keys and cells (`datatableModule.cpp:219`).

The others can be seen by checking the property named with the constants given;
each is stated in its module, and the passing runs stay clear of it.

| Property | Constants | What happens |
|---|---|---|
| StoppedMeansStopped (AgentRuntime) | `MaxCompacts = 2` | The retry timer tells runs apart by turn id only (`runtimeModule.cpp:335`), which is empty for every manual compaction: the timer of a stopped compaction passes its guard during the next one and posts a request beside it. `docs/architecture.md:41`: until "the run is stopped". |
| MainNeverBlocked (ThreadPool) | `CallsMain = TRUE`, Debug among the modes | `stateSet` blocks main until the worker handles the request (`threadpoolModule.cpp:170`), and `thread.start` blocks the worker until main does (92): stopping, pausing or stepping a debugged script that is starting a thread waits for ever. This is the exception RequestsHandled states. And main may post a request to a thread that is over and still in the hash (169-170), whose interpreter is deleted: what happens is undefined, and the model lets it return or hang. |
| QuitEnds (ThreadPool) | two scripts | A thread that has emitted finished stays in the hash until main handles it; quit counts it and connects to its finished afterwards (`threadpoolModule.cpp:52`), so that it waits for ever. |
| NothingStalls (GitModule) | Add and Fetch in the menu | A Diff that ends outside a merge returns before the dequeue (`gitModule.cpp:728`); `git add` followed by a fetch queues one behind the fetch, and what is behind it waits for the next command. |
| RowsAreTasks (GitModule) | a merge among `Heads`, `MaxRows = 2` | Every change of the repository during a merge adds a row and forgets the one before (`gitModule.cpp:243`): rows stay when nothing runs. |
| StatusMeetsHead (GitModule) | a merge among `Heads` | `gitRepo` only ever sets the status of a merge (`gitModule.cpp:239`); when it ends in a terminal the menus that ask for Idle stay disabled. |
| SwitchMeansOpen (Port) | "UdpSocket" among `Kinds` | When `connectToHost` fails at once (`udpSocket.cpp:70`), `handleError` closes the socket and reports that (152-161), and open goes on and reports the port as active (71-79): the row stays active over a closed socket. After an edit a signal of the old port is taken for the row of the new one as well (`portModule.cpp:403`), but only until the old port's destructor reports that it is closed. |
| WaitsEnd (Port) | "forever" among `Waits` | While a read with timeout -1 waits (`serialPort.cpp:206`) `_portRemove` waits for the thread (`portModule.cpp:494`), and the main thread stands still. `port.d.lua:171`: "`-1` waits indefinitely". |
| CleanMeansSaved (DocumentTransaction) | `MaxSaves = 1` | Undoing a turn sets the save point when the document was clean before it, although the user has saved the agent's text since (`documentModule.cpp:1396`): closing asks nothing, saving writes nothing, and the file keeps the other text. |
| TypingKept (DocumentTransaction) | rename among `Tools`, `MaxTyped = 1` | A rename moves the file; the watcher then closes the page without a question (`documentModule.cpp:1316`), and what was typed in it is gone. |
| UndoRestores (DocumentTransaction) | `MaxReused = 1`, `MaxEarly = 1`, three tools | Redoing a turn that deleted, created and edited a file does it in one go; the watcher's report of the deletion comes after and closes the page with the redone text (`documentModule.cpp:468`). |
| CompensationRestores (DocumentTransaction) | `MaxTools = 4`, the rest as in *alone* | A turn edits a document the user has typed in, deletes it, creates a file and edits that. The undo takes the edit and the new file back, is refused at the document, whose typed text the watcher has closed with its page, and does the others again (`undoModule.cpp:196`). The report of the new file, which was taken away and put back, then closes its page (`documentModule.cpp:468`): the turn counts as in effect, and its edit is gone. |
| ShutdownEnds (LanguageClient) | `Nulls` not empty | A null result in the chunk that brings the answer to shutdown makes the parser return (`languageServer.cpp:203`); nothing more comes, and the loop does not end. |
| InitializeEnds (LanguageClient) | `Crashes = TRUE` | Only the answer to initialize quits the loop (`languageServer.cpp:37`): a server that starts and dies leaves the program waiting before its window is shown. |
| TypingKept (LanguageClient) | `MaxEdits = 1`, `MaxFormats = 1` | The answer to a request to format replaces the whole text (`codeWidget.cpp:198`); what was typed since is gone. |
| AllExposed (McpClient) | one title for both servers | `m_tools` is keyed by title and name (`mcpModule.cpp:210`): one server takes the names of the other, which has no tools offered after the first is disabled. |
| ServedAsOffered (McpClient) | one title for both servers | The pages of a list write `m_tools` before they are registered, under the names another server of that title was offered with (`mcpModule.cpp:190-210`): a tool offered for one server is executed at the other. |
| Reachable (McpClient) | `MaxFailures = 1` | `serverDiscover` sets the version at once (`mcpModule.cpp:111`) and a discovery that fails leaves it: the tools of a list that was on its way are offered, and every call goes out in the wrong protocol. |
| ReadCurrent (ModbusMaster) | `MaxLate = 1` | The id is given once for the object and pairs nothing (`modbusTcp.cpp:294`): the answer to a read that timed out is taken for the next read's of the same length; for coils the number of bytes is all that is compared (`modbusTcp.cpp:229`, 242). `modbusTcp.d.lua:12`: "The transaction id used for pairing." |

### What the models leave out

- AgentRuntime: the texts, usage figures and the planning reminder; other
  conversations than the one in progress; a database that fails; an answer that
  announces tool calls and names none (undefined behaviour of QList); what is
  steered while a manual compaction runs is thrown away by the next turn, of which
  no document says anything.
- UndoStack: the signals to the view. DataTable: the values lost when undoing a
  removal puts back an empty column, which nothing promises to keep.
- ThreadPool: breakpoints and their conditions, markers, call stacks, watches,
  terminals, and locks the code does not take around shared data of the
  debugger. A script or tool may start a thread while quit waits; the window
  closes over it. A pause handled after a stop holds the interrupted script until
  the user resumes it.
- RingBuffer: a capacity of zero, which refuses everything.
- GitModule: what the views list. When git cannot be started no end comes (part
  *faults*); TransferPending and TransferEnds exclude it.
- Port: writing, the monitor and its statistics, calls on a port whose thread has
  gone, the hash of ports that scripts read without a lock, and inserting,
  removing and moving rows through the undo history.
- DocumentTransaction: directories, counts of changed lines, undo inside an
  editor, renames by the user during a turn.
- LanguageClient: what is only shown, the server's own requests, a page that is
  opened twice (the code never sends didClose).
- McpClient: calls of tools. ModbusMaster: bytes, checksums and more coils than two, and a
  text of registers that is not hexadecimal.

## 8. What is not modelled

`PROJECT.json` lists the components without a module. The front end of the agent
only gates what AgentRuntime's user actions guard, and its Team strategy chooses a
runtime; the dispatch of several sub-agents and a failing database are the next
parts of the plan. TcpServer, the SSL, web socket, Bluetooth and VISA ports follow
the pattern of Port: the clients differ from TcpClient in their handshakes, and
the servers keep a buffer per peer, which is left to the plan. Breakpoints and
watches are lists changed on one thread and read by another without a lock.
Windows, forms, settings, terminals and displays hold no protocol of their own;
formatting, parsing and checksums are conversions; codecs, editors, terminal
emulation and grammars are third-party code (`src/3rd`), which is most of the
repository's lines.
