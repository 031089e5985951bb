# TLA+ specifications of cyber-code

cyber-code is a terminal agent with a product runtime beside it.  This
directory holds TLA+ models of the parts whose correctness depends on the order
of events: the conversation and its session files, the task service over the
durable queue, the runtime's event store, its service and its server, and the
terminals and editor drafts a client drives through it.  TLC checks them on
small instances; for the queue and the task service, the event store, its service
and its server, the terminals, the drafts and the conversation TLAPS proves the
safety properties for every instance.

Run `tlc -config <Run>.cfg <Module>.tla` for a model and `tlapm
<Module>Proofs.tla` for the proofs; `PROJECT.json` lists the runs with their
modules.

## 1. The system

| Part | State it keeps | Operations | What is hard | What makes it correct |
| --- | --- | --- | --- | --- |
| Conversation runtime (`internal/runtime`) and agent engine (`internal/agent/engine.go`) | history in memory, turn token, contexts | run, clear, compact, checkpoint, rewind, resume, shutdown | cancellation and failing writes between memory, log and snapshot | one call at a time, a saved history, whole tool rounds, a shutdown that ends |
| Session store (`internal/session`) | event log, snapshot, checkpoints, lease | append, save, rewind, branch, export | torn appends, two files per snapshot | the session loads after any fault; one process has it |
| Task service (`tasks/tool.go`, `executor.go`, `framework.go`) | registry, goroutines, observation buffers | run, wait, cancel, close, drain | registry, board and queue change one after the other | the three agree in the end; nothing runs after it succeeded |
| Task queue and worker (`tasks/queue.go`) | items in memory and in one file, leases, worker loops | enqueue, claim, complete, fail, cancel, reconcile, clean up, close; start, drain | lease expiry against a running handler, failed writes, death and restart, drain | bounded runs, exclusive leases, final results, memory equals file, everything is settled |
| Collaboration (`internal/collaboration`) | board and mailbox files under a file lock, a write token | create, transition, retry; send, poll, ack | opening the board fails the running tasks of others | legal transitions |
| Product state reducer (`internal/productstate`) | the projected state of a task | `Project` | it is the last guard behind concurrent callers | replays, late decisions and old revisions are refused |
| Event store (`runtimeapi/store.go`) | one log of (event, snapshot) lines per task | commit, load, events after a cursor, external commit | torn lines, failed syncs, loss of power | the log always loads; acknowledged events stay |
| Runtime service (`runtimeapi/service.go`) | a clock, drainers | scope, approval, control, evidence, finding and report operations; drain | check, clock and commit are three steps | one decision per challenge, in time and in scope |
| Local server (`runtimeapi/local.go`) | receipts, task counter, active task, state file | commands, reads, close | process ends between commit, save and answer | accepted means executed, an answered command is over |
| Terminal sessions (`terminal_manager.go`) | processes, sequence numbers, limits | open, input, resize, cancel, close; reader and waiter goroutines | output against exit, revocation, a commit that fails | manager and log agree, no process runs unnoticed |
| Editor drafts (`editor_manager.go`) | pending texts in memory, the workspace file | open, save, read, apply, discard | event before rename, leftover temporary file, restart | the file is what the log says was applied |
| Cyber-Agent source, MCP, LSP, plugins, hooks | child processes, request tables | requests, reconnects, cancellation | answers out of order, restarts | every request gets one answer |
| Remote runtime, authorization, SCIM, permissions | policies, caches of keys | decisions per request | stale caches | decisions follow the current policy |
| Providers, configuration, UI, TypeScript and Rust clients | see `PROJECT.json` | | | |

How they interact.  The command line composes the process: it opens the task
queue of a session, starts its worker, and then takes the lease of the session.
The conversation runtime runs one turn or command at a time; a turn is the
engine's loop of model and tool calls, whose events the runtime writes to the
session log, and whose history it saves as the snapshot.  A tool call
`task_run` goes to the task service, which registers the task in memory, adds it
to the board and enqueues it; the queue's worker calls back into the task
service, which runs a child agent.  On the product side a client (terminal UI,
desktop, web) sends commands to a local or a remote server.  The server runs
them one at a time on the service, which appends events to the store; every
append passes the reducer, and clients replay the events after the cursor they
have.  Terminal readers and waiters append events from goroutines of their own,
outside the server's mutex.  Files are the only state that outlives a process:
the queue file, the board, the session log and snapshot, the transaction logs,
the workspace and the server's state file are written separately, so an end of
the process between two writes leaves them at different points.

`PROJECT.json` lists the hazards of the code line by line with the properties
that watch them, or the reason why none does.

## 2. Modules

```
TaskQueue ---- implements ----> DurableWork <---- is used as by ---- TaskService
   ^
SessionProcess <- two instances - SessionStart

ProductState <- RuntimeStore <- RuntimeService          TaskAuthority <- TerminalSession
                     |                                                <- EditorDraft
                     +--- implements ----> EventLog
LocalServer --- implements ----> CommandLedger          Conversation
```

### TaskQueue (with DurableWork, MCTaskQueue, TaskQueueProofs)

A `Queue` holds its mutex during a whole operation, so each operation is one
action; what interleaves is workers, callers, the clock, and the end and the
restart of the process.

| Variable | Code |
| --- | --- |
| `items` | `Queue.items`, as a function from ID to item; the status `none` marks IDs without an item |
| `disk` | the queue file; the rename in `persistLocked` makes a write atomic |
| `queue` | `open`, `closed` (`Queue.closed`) or `down`: no process |
| `worker` | the program counter of `QueueWorker.run`, the claim it works on, and whether `stopCh` is closed or its context cancelled |
| `nextId`, `now` | creation order of IDs; `QueueOptions.Clock` |
| `runs` | history: how often the handler was started for an item |

Every action that writes the file chooses whether the write fails; `Persist`
then restores the items as the code does.  A claim is one of `ClaimRefused`,
`ClaimEmpty` and `ClaimItem`.  `Fail` chooses a delay in `Backoffs`,
`retryDelay` plus the jitter.  `Crash` forgets memory and workers at any point; a
worker ID is never used twice, since `NewToolService` draws it at random.

An empty claim throws away what its reconcile did (queue.go:197, 211).  An item
whose last lease ran out with no worker on it therefore stays leased, and is
dead-lettered only when another item is claimed or a worker starts on the queue;
`ItemsAreSettled` exempts it (`Stranded`).  The queue also writes a file that is larger than `OpenQueue` accepts when
the items are large enough; the runs keep the file under that limit.

`DurableWork` is what a submitter relies on, without leases, workers or files: a
job is open until it is settled, its handler is started at most `MaxAttempts`
times, nothing settled is started again, and only settled jobs are removed.
`ImplementsDurableWork` is the refinement, with the state of a job read off the
*file*, not off memory.

### ProductState, RuntimeStore, RuntimeService (with EventLog, MCRuntimeService, RuntimeServiceProofs)

Three layers that extend each other.  `ProductState` is the reducer as two
operators: `Accepts` (whether `Project` and the store's evidence check return no
error) and `Project`.  `RuntimeStore` is the transaction log of one task: `log`
holds the complete lines, `tail` says what follows them (nothing, a torn line,
or a line glued to a torn one), `synced` how many lines are safe from a loss of
power, `promised` what a commit acknowledged and `delivered` what subscribers
read.  A commit is one action, since the store holds its mutex, and an append
is `short`, `unsynced` or `synced`.  `RuntimeService` has the operations.  Each
is three steps, because the code lets go of the store between them: the
operation with its checks (`TakeControl`, `ResolveApproval`, ...), `Stamp` (Emit
reads the clock) and `Emit` (the commit, which loads and checks again).
`Callers` are goroutines; `Kill` ends the process, `Outage` the machine.

A *setting* selects the operations of a run, their bounds, which writes may
fail, and whether the callers are serialised.  All commands of one `LocalServer`
hold its mutex, so operations on scope and approvals are serialised in
production; `ApprovalsInScope` and `ReportsMoveForward` are stated for such
callers.  They need the mutex and not only the reducer: with two callers at once
a scope can be proposed between the check of a decision and its commit.  The
other properties hold for any callers, because the reducer checks again under
the store's mutex.

Two facts the model shows though no property states them.  A decision on a
challenge is recorded after its task was cancelled as well: neither the check
nor the reducer looks at the status of the task.  A line whose sync failed stays
in the log and is served to subscribers, and a loss of power may still take it
away; what was acknowledged stays, and so does what was delivered where no sync
fails.

`EventLog` is what committers and readers of a log rely on, without files and
calls: a history that grows by one line at a time, where a line whose committer was
told of it stays at its cursor, and a reader is given what follows the last event it
has.  Only where syncs fail may lines go again, and only such that nobody was told
of.  `ImplementsEventLog` maps the log, `promised` and `delivered` to it.  The torn
and glued ends of the file, the repair, the three steps of a call and `synced`
are what the mapping hides.  `ControlMovesForward` is the fencing of control:
`TakeControl` compares the revision it has read before the commit, so it is the
reducer that keeps two clients from leases of one revision.

### LocalServer (with CommandLedger, LocalServerProofs)

The command path.  `file` is the state file, `memory[p]` what server process
`p` holds of it, `work[p]` the command it is running.  `Issue` and `Retry` are
`handleCommand` up to the dispatch: a known key is answered from its receipt or
refused; `CreateTask`, `ProposeScope` and `Mutate` are the commits of
`dispatchCommand`, `SaveState` and `SaveFails` the end of `handleCommand`.  One
action per write, since the process may end between any two.  `Faults` says what
may go wrong, so that a run can state which faults a property survives.
`effects` is the history of committed events with the operation that caused
them, and `ops[n].answers` every answer operation `n` received.  `KeysPerLaunch`
selects the client: the terminal UI numbers its keys from 1 at each launch
(`ui/adapter/factory.go`); others draw them at random.

A command whose process ended after the commit and before the receipt is
committed a second time when the client retries it.  `CommandLedger`, what clients
may rely on without keys, receipts and files, therefore lets an operation have its
effects more than once as long as it has no verdict.  A verdict (`accepted` or
`rejected`) is final: there is one for each operation, an accepted operation has had
every effect its command needs, and no effect comes after it.  The other answers, a
conflict of keys and a failed save, decide nothing.  `KeepsLedger` is the refinement,
which needs that two operations have different keys; `server_launches` checks the
part of it about accepted operations, `AcceptedMeansExecuted`, for clients whose keys
are not.  Two servers on one state directory (two terminal UIs, for which no owner lock is taken) count the same
tasks, each in its own memory, and may give one task to two commands;
`SavedTasksAreNotReused` is checked with one server.

### TaskAuthority, TerminalSession (with TerminalSessionProofs)

`TaskAuthority` is what the terminal and editor commands read of a task: scope,
confirmation, control lease.  Other commands of the same server change it.

| Variable | Code |
| --- | --- |
| `session[s]` | `managedTerminal` and its place in the table of `TerminalManager` |
| `record[s]` | the session as `productstate` projects it from the log |
| `process[s]` | the child on its PTY: alive, killed, ended or reaped, and the bytes in both directions |
| `reader[s]`, `waiter[s]` | the program counters of `readOutput` and `wait` |
| `command` | the one command the server runs, in the steps between which it takes the session's mutex, writes the PTY and commits |
| `closing` | `Close`: whom it has still to kill, whom it waits for |

A commit can fail without an event, or leave its event and return an error;
either way the code kills the session (`AuditFailed`), which is what
`LogFollowsSession` depends on.  The sanitizer is the choice of how many bytes of
a chunk are emitted, held back for the next chunk, or dropped.  The PTY has room
for a few bytes in each direction, so a write can block.

What the waiter does when it closes a session before the reader has drained the
PTY is in the model: that output is dropped and no event tells of it.  The scope
and the lease are compared when a client acts, so a session whose client is
silent outlives its authority; `InputUnderAuthority` is about inputs.  When the
runtime's process ends, the sessions of its log stay open in it for ever.

### EditorDraft (with MCEditorDraft, EditorDraftProofs)

`drafts[d]` is the draft as the log projects it, `pending[d]` its text in the
manager's memory, `file` the workspace file and `temp` the file that
`prepareEditorWrite` puts beside it.  `Apply` is five steps (check, prepare,
record, rename, forget); other programs may write the file and the process may
end between any two of them.  `cut` and `touched` are histories that say when an
exception applies: an apply that was cut short after its record, and a file that
was written between the check and the rename.  `AppliedIsWritten` shows that
there is no third way for log and file to differ.  A temporary file left by a
crash makes every later apply of that path fail (`PrepareWrite`), and
`LeftoverMeansCrash` shows that nothing else leaves one.  No client of this
repository offers the editor commands; they are reached by a program that embeds
the runtime.

### TaskService (with TaskServiceProofs)

The tools `task_run` and `task_cancel` over three records of a task.

| Variable | Code |
| --- | --- |
| `registry[t]` | `Registry` (`framework.go`) |
| `board[t]` | the task on the collaboration board, which other processes write too |
| `jobs[t]`, `tries[t]` | its job in the durable queue, as `DurableWork` sees it |
| `caller[t]`, `cancel` | the steps of `task_run` and `task_cancel` |
| `worker` | the queue's worker in `executeQueued` |
| `exec[t]`, `live[t]` | the goroutine of `startExecution` and its context |
| `service` | how far `Close` is |
| `acked`, `finished`, `stranded` | history: cancellations reported as done, successes on the board, tasks a fault happened to |

The queue is used by its abstract specification: a step of this module either
leaves a job alone or is a step of `DurableWork` (`UsesDurableWork`), and
TaskQueue implements those steps.  `stranded` collects the tasks that something
went wrong with, and `UnsettledHasOwner` says that any other task that is not
settled on the board has a caller, a goroutine, a cancellation or a job that may
still be claimed, which will settle it.  What puts a task there is worth knowing:

* the board's or the queue's file could not be written at that step;
* the process ended: a running background task is retried through the queue, a
  foreground one is interrupted for good;
* another process opened the board, which marks the running tasks of all others
  interrupted, and their success is then refused;
* the context was cancelled between the start and the board's `running`, which
  leaves the board pending for ever;
* a job is dead after its last try or its last lease, of which the board is not
  told.

A job left in its last lease, by a failed `Complete` or `Fail` or by a process that
ended, is nobody's (`LeftInLease`): no claim takes it, and only a reconcile that is
written makes it dead (`Bury`).  An empty claim throws its reconcile away
(queue.go:210-213) and a worker writes one of its own only when it starts
(queue.go:606), so a queue that nothing else is put into may keep that job leased for
ever.  `UnsettledHasOwner` does not count it as an owner, and `JobsAreSettled`
excepts it.

A graceful `Close` loses a background task that is running when there is a
board: its cancellation is final there, while a crash would have had it retried.
A cancellation in the foreground leaves the registry `failed` and the board
`cancelled`, and one that meets `RetryInterrupted` can be undone by it.

### Conversation (with MCConversation, ConversationProofs)

`internal/runtime`, the turn of `internal/agent/engine.go` and the files of
`internal/session`.

| Variable | Code |
| --- | --- |
| `at[c]`, `live[c]` | which operation caller `c` is in, how far, and whether its context is not cancelled; holding the turn token is being past `waiting` |
| `process` | up, closing or down |
| `engine`, `sink` | the goroutine of the engine, and the consumer of its events that logs, saves and forwards them |
| `history`, `previous` | the history in memory, and what `ClearHistory` restores |
| `snapshot`, `checkpoint`, `listed` | the snapshot, one checkpoint file, and whether the graph names it |
| `tail` | how the event log ends: complete, with a torn record, or with one glued to it |
| `drift` | history: something happened that lets memory and snapshot differ |

A history is a sequence of messages of five kinds (user, reply, calls, results,
summary), which is what the boundary of a compaction depends on.  A turn is the
engine's loop with its events handed one at a time to the consumer, whose writes
can fail before, in the middle or after; the commands take the same token.

Facts the model shows.  A round whose tools were cancelled leaves its calls in
the history without results; they are sent to the provider again, and saved by
the next save.  A failed rewind or compaction has changed the memory already,
and the next turn saves it.  `ClearHistory` promises to restore the history on
an error (runtime.go:472-473), which is not the whole story when `SaveSnapshot`
fails after replacing the file: memory is restored and the snapshot is empty.  A
graph that was replaced with an error afterwards lists a checkpoint whose file was
removed (graph.go:90-92); a rewind to it fails.  A checkpoint copies the
snapshot, not the memory.  A session without a snapshot cannot be resumed.

### SessionProcess, SessionStart

`SessionProcess` puts `composeRuntime` around TaskQueue: open the session's
queue, clean it, start its worker, take the session's lease, and close all of
that in the end or when the lease is refused.  `SessionStart` has two instances
of it with the queue file, the clock and the lease between them.

## 3. Runs

| Run | Instance | Shows |
| --- | --- | --- |
| `queue_safety` | 2 workers, 2 keys, 3 items, capacity 1, 2 attempts, lease 2, clock 0..3 | budget, leases, memory equals file, the refinement |
| `queue_liveness` | 2 workers in turn (`SerialSpec`), 2 keys, 2 items, 2 attempts, lease 1, clock 0..2 | items are settled, those a dead worker held included; a drain returns |
| `runtime_safety` | 5 settings, below | the log and its refinement of EventLog, decisions, evidence, reports, control |
| `server_safety` | 1 server, 2 operations, 2 tasks, 4 events, all faults | the refinement of CommandLedger; counted tasks are not reused |
| `terminal_safety` | 1 session, 1 client, revisions to 2, 2 bytes of output, 1 input, 1 failing commit | manager and log, orphans, authority; sessions leave and Close returns |
| `editor_safety` | 2 drafts of one file, 3 texts, 2 clients, 2 saves each, 2 faults | applied and written, leftovers, exact patches |
| `task_safety` | 1 queued and 1 foreground task, 2 tries, 1 fault of any of four kinds | board, registry and queue agree, and a reported cancellation has stopped a foreground agent; owners; one success; Close returns and jobs are settled |
| `session_safety` | 2 callers (turn, compact, clear and rewind; checkpoint), 3 messages, 1 fault | history, rounds, log; shutdown ends |

The settings of `runtime_safety`: two concurrent callers with one challenge, 5
events and a clock of 0..2; two for control with 4 events; two with evidence and
findings of 2 contents, 3 events and every outcome of a write; serialised ones
with two scopes of which one permits nothing, 5 events and failing syncs;
serialised ones with 2 reports of up to 2 versions, torn writes and a subscriber.

The bounds.  Two workers are a lease holder and a rival; the third item makes
the capacity of one refuse, and lets an item be added after a cleanup.  Two
attempts give a first, a last and a forbidden run.  A lease of 2 within a clock
of 3 lets it run out and be claimed again while the first handler still runs;
instants past the last one coincide with it.  For liveness a lease of 1 within a
clock of 2 holds both attempts; the workers come one after the other, since that run
asks what becomes of an item whose worker died, and the safety run has the races.  Two callers are what a race of
check and commit takes.  Five events hold scope, confirmation, request and
decision with a second decision, a change of scope or a second proposal of the
same scope among them; a clock of 2 is past the expiry of a challenge requested
at 0.  Two operations of the server with retries reach a receipt, a conflict, a
repeat after each fault, and a second task.  Two bytes of output reach the output
limit, and one of them can be held back; a second revision is what revokes a
session.  Sessions share nothing but the manager's table, so one is enough.
Three texts are the draft's base, its patch, and that of another draft or program.
Two faults let a failed save be followed by a crash in an apply.  In the task
service one fault can strike at each step of either task; tasks meet only in the
worker, which one queued task occupies, and in Close, which waits for both.  Three messages hold a whole tool round,
or a summary in front of one, and a cancelled round with the next user message;
two callers are a holder of the turn token and one that waits for it, and the
token does not ask what for.  The
largest runs have about 2.8 million states (`server_safety`), 0.9 million
(`queue_safety`) and 0.8 million (`session_safety` and `task_safety`).
Each bound is a constant that a guard uses.

Deadlock is not checked: a closed or bounded system may stop.

The clock does not run backwards in TaskQueue: there it orders claims, and
`time.Now().UTC()` keeps no monotonic guarantee across restarts, which is an
assumption, not a check.

### Disagreements between the code and its documents

Four runs end in a counterexample; `findings` in `PROJECT.json` quotes the
sentence each one contradicts.

| Run | The counterexample |
| --- | --- |
| `server_launches` | a new launch of the terminal UI reuses key 1 and is answered with the old receipt: accepted, and not executed |
| `terminal_blocked` | an input for which the PTY has no room holds the session's mutex, which the reader needs before it can take the output the process waits to write: the command never ends |
| `task_cancel` | `task_cancel` reads `pending`, the worker starts the task, and the cancellation is reported as done while its agent runs on |
| `session_resumed` | a second process resumes an active session, opens its queue and starts a worker before the session lease refuses it, and both run the same item |

In `session_resumed` the refused process has also opened the board, which marks
the running tasks of the first one interrupted, and its queue in memory goes on to
overwrite the file of the first one.

## 4. Fairness

* TaskQueue (`Fairness`): the clock advances and a running worker takes its next
  step; the goroutine waits for nothing but a poll timer and its handler, and a
  handler is an agent run with a turn limit and a context.  Nothing is assumed of
  callers, of drains, of writes succeeding, or of a restart: `ItemsAreSettled`
  promises nothing while no worker serves the queue.
* TerminalSession: commands and `Close` go on when they can (WF).  The reader and
  the waiter compete with inputs for the session's mutex and are strongly fair,
  since `sync.Mutex` hands over to a goroutine that has waited for a millisecond.
  A killed process ends, and one that reads its input reads it unless its own
  output stops it; a process need not end or write by itself.
* TaskService: one weak fairness for callers, goroutines, the worker, the steps of
  `Close` (`Progress`), and one for cancellations, of which clients may ask for ever;
  no task is favoured.  `Bury` is not fair: nothing in the code sees to it (section 2).
  An agent returns when its context is cancelled; that every agent returns is not
  assumed but is the premise of `JobsAreSettled`, which excepts a job left in its
  last lease, a service that was closed and a worker that has ended.
* Conversation: one weak fairness for everything the process does by itself
  (`Progress`).  Models and tools return when they are cancelled, and an event
  nobody reads is given up at shutdown; callers need not read, call or cancel.
  `ShutdownTerminates` has the premise that a summary asked for by a compact
  command returns, since `Shutdown` does not cancel that one.
* The other modules state safety only.

## 5. Proofs

| Theorem | Statement | Module |
| --- | --- | --- |
| `QueueTypeOK`, `QueueMemoryIsDurable`, `QueueRunsWithinBudget` | `Spec => []...` | TaskQueueProofs |
| `QueueLeasesAreKept` | `Spec => []LeasesAreKept` | |
| `QueueImplementsDurableWork` | `Spec => ImplementsDurableWork` | |
| `TaskServiceTypeOK`, `TaskServiceReportedIsOnBoard`, `TaskServiceUnsettledHasOwner` | `Spec => []...` | TaskServiceProofs |
| `TaskServiceStartedOnce` | `Spec => StartedOnce`, an action property | |
| `TaskServiceUsesDurableWork` | `Spec => UsesDurableWork` | |
| `RuntimeTypeOK`, `RuntimeFileLoads`, `RuntimeEventsStay`, `RuntimeDecidedOnceInTime`, `RuntimeFindingsCiteEvidence` | `Spec => []...` | RuntimeServiceProofs |
| `RuntimeControlMovesForward` | `Spec => []ControlMovesForward` | |
| `RuntimeApprovalsInScope`, `RuntimeReportsMoveForward` | `Spec => []...`, for settings with serialised callers | |
| `RuntimeImplementsEventLog` | `Spec => ImplementsEventLog` | |
| `ServerTypeOK` | `Spec => []TypeOK` | LocalServerProofs |
| `ServerAcceptedMeansExecuted` | `Spec => []AcceptedMeansExecuted`, for unshared keys | |
| `ServerAnsweredOperationsAreOver` | `Spec => AnsweredOperationsAreOver`, for unshared keys and one server | |
| `ServerKeepsLedger` | `Spec => KeepsLedger`, for unshared keys and one server | |
| `ServerSavedTasksAreNotReused` | `Spec => SavedTasksAreNotReused`, for one server | |
| `TerminalTypeOK`, `TerminalLogFollowsSession`, `TerminalNoOrphans` | `Spec => []...` | TerminalSessionProofs |
| `TerminalInputUnderAuthority` | `Spec => InputUnderAuthority`, an action property | |
| `EditorTypeOK`, `EditorAppliedIsWritten`, `EditorLeftoverMeansCrash` | `Spec => []...` | EditorDraftProofs |
| `EditorPatchesAreExact` | `Spec => PatchesAreExact`, an action property | |
| `ConversationTypeOK`, `ConversationLoads`, `ConversationHistoryIsSaved`, `ConversationRoundsAreWhole` | `Spec => []...` | ConversationProofs |
| `WorkIsBounded`, `WorkSettledIsOver` | DurableWork has its type, and what was settled is over | PromiseProofs |
| `LogToldStays`, `LogReadersFollow` | EventLog keeps what committers were told and readers were given | |
| `LedgerVerdictsAreTrue`, `LedgerVerdictsEnd` | CommandLedger has one true verdict per operation, and nothing after it | |

They hold for any number of workers, keys, tasks, sessions, clients, servers, drafts
and callers unless the table says otherwise, any length of a history or a log and
any number of faults.  What they assume of the
constants are the named assumptions of the modules (`OptionsAssumption`,
`TaskServiceAssumptions`, `StoreAssumptions`, `ServiceAssumptions`, `LocalServerAssumptions`,
`TerminalAssumptions`, `EditorAssumptions`, `ConversationAssumptions`, ...): limits
are positive, and `None` is nobody and nothing.  `KeepRecent` is at least one in
Conversation, as `NewCompactor` makes it (compact.go:38-40).  Each proof is an
inductive invariant that Init establishes and every action preserves; none of the
properties is inductive by itself.

*Queue.*  `Inv` adds to the types that memory equals the file, that a busy worker
has a job, and what attempts, the next ID and the history of runs say of each item
(`Accounted`): a pending item has attempts left, and no item was started more often
than its attempts count.  For the leases a second invariant, `Exclusive`, says that a
worker inside its lease has its item under that same lease in the file, unless the
item was cancelled or removed, and such an item is never claimed again; a claim
takes an item only after the lease of the last holder ran out, on a clock that does
not go back.  The refinement shows that each write changes
the file only by legal steps of a job, one action of DurableWork per write, and
that all else leaves it alone.

*Task service.*  `TaskInv` speaks of one task at a time: what the caller has not
done yet (`CallerInv`), what a success, a report and a step of a cancellation stand
for (`SuccessInv`, `CancelInv`), and who is still there for a task the board shows as
pending or running (`OwnerInv`).  `UnsettledHasOwner` counts every cancellation in
progress as an owner; inductive is only that one counts which has settled the job, and
that a goroutine or a registry which is done with the task left nothing to settle
(`DoneInv`).  An open job is an owner only while it may be claimed or is being worked
on: `LastLease`, an invariant of its own over `TaskInv`, says that a job comes to be
left in its last lease only by a fault.  `WorkerInv` covers the worker that brings a task of an earlier process
back while it is being cancelled.  Every step concerns one task; `Frame` carries the
others over.  For a cancellation that was reported, `StopInv` has a foreground task
without a live context from the step that kills it on: only the caller could start it,
and the caller has returned (`StaysStopped`).  A queued task is not covered: its worker
may start it beside the cancellation, which is what `task_cancel` shows.
Together with `QueueImplementsDurableWork` the refinement joins the
task service and the queue: what the one asks of its jobs the other does.

*Store and service.*  The log changes in two ways: a commit appends a line that
`Accepts` allows (`Appends`), and a loss of power cuts off its end (`Cuts`).
`AppendKeeps` and `CutKeeps` carry every statement about the log (`LogInv`) over
both.  A decided approval stays decided in all later states (`DecidedInv`) and
committed evidence keeps its content (`EvidenceInv`), because the reducer refuses
the events that would change them; hence one decision per challenge, whatever the
callers checked before.  `CallInv` is what an operation between its check and its
commit may rely on (`Ready`): that the evidence it cites is still there, for any
callers, and the scope, the approval and the report it looked at, for serialised
ones, since then nobody else has a call in progress.  `StayInv` puts promised
cursors below `synced`, and without failing syncs all of the log.  `ControlInv` says
that no event of the log that gives control has a revision above the highest one of
a later state, which the reducer makes every further one exceed; hence
`ControlMovesForward`.  The refinement of EventLog takes each step that changes the
log: a commit is `Add` with or without telling, whatever was repaired before it
(`EmitIsAdd`); a subscription is `Read` (`EventsRead` says which events it adds); an
outage is `Lose`, since `StayInv` keeps it from what was promised, or nothing at all
where every line is synced (`OutageIsLoss`).

*Server.*  `AnswerInv` is enough for truthful answers: the key of an operation that
was issued is its number, every accepted receipt in the file, in a memory or in an
answer is of an operation that had its effects (`Truthful`), and a command has had
the effects its phase says (`InOrder`).  With one server, `CounterInv` has the file count no more tasks than its memory
does, and `OnceInv` keeps the receipt of an answered operation in the file and in
that memory, so that no retry reaches the dispatch.  For the ledger `AgreeInv` adds
that the receipts in memory are those of the file and that the file agrees with every
verdict a client was told.  So a verdict that a retry, a saved receipt or a conflict
meets is either the first one (`Decide`) or the one that was given already; a failed
save answers with none.

*Terminals.*  `Inv` says of each session what the phase of its waiter and of the
command mean for it (`WaiterInv`, `InputInv`), since a command compares the
authority before it takes the mutex: from there until the input is recorded the
session keeps the sequence number the command holds, or is closed.  `Follows` is
`LogFollowsSession` for one session, with the input that is written and not yet
recorded counted on the PTY's side.  Commands, readers, waiters and processes
touch one session at a time; `Frame`, `LocalStep` and `ProcessStep` carry the
others over.

*Drafts.*  The apply is five steps, and `ApplyFollowsDraft` says what each of them
has made sure of: the draft of the apply in progress has the status its phase
expects, its text is that of the prepared file, and the workspace file has the
text that was checked unless somebody wrote it since.  `SavedHasText` is why an
apply finds a text to write.

*Conversation.*  Four parts.  `TokenInv`: one call holds the token, the engine
runs just while a turn holds it, its consumer is busy only then, and nothing is in
progress while the process is down.  `RoundsInv`: histories and files have whole
rounds, and what the engine adds next has the message before it that it needs;
`BoundaryExists` shows that a compaction always finds a boundary which does not
part results from their calls, one message back at most, and `CompactedRounds`
that what it leaves is whole.  `SizeInv` and `StateInv`: bounds and types.
`SavedInv`: while the history is ahead of the snapshot `drift` says so, a clear in
progress keeps in `previous` what the snapshot has, and a consumer that is about to
report the end of a turn works for an engine that is over.

*Promises.*  The three abstract specifications are small, but that they promise what
their comments say takes an induction each.  PromiseProofs has them: for EventLog that a
told cursor is inside the log and no step changes a line there; for CommandLedger that
operations and verdicts are counted alike and effects are never taken back.  Joined with
the refinements, the six facts hold for the queue's file, the transaction log and the
server, without another look at their steps.

Only model-checked: the start of a session, and all liveness, which is out of the
prover's reach together with ENABLED and recursive operators. `DelayFor`, the loop
of `retryDelay`, is a recursive function that the proofs use only by its type;
`MCTaskQueue` compares it with a literal reading of the loop by an assumption that
TLC evaluates.

## 6. Not modelled

Within the modelled parts: payloads, texts, titles, digests, usage and timestamps
that nothing compares; in the reducer the events of agents, plans, artifacts,
interactions and the asset graph, and `control.released`; `CommitExternal` and
`Service.Drain`, which belong to the Cyber-Agent source; the tasks of one store
share only its mutex, so the store has one; the sync of a directory is part of a
commit's outcome; the server's state file is replaced atomically; its
authentication and its wire formats; the mailbox and the write lease of the
coordinator; branches, the export, and a loss of power for sessions; hooks, the
permission to run a tool, the tools themselves and the assembly of the context.

Whole components without a module, each with its reason in `PROJECT.json`:
permissions and authorization, the remote runtime and team API, the Cyber-Agent
source, providers and observability, MCP, LSP and plugin processes, the clients in
TypeScript and Rust, configuration, marketplace, updates and utilities.  Much of
that is parsing, rendering, protocol encodings and calls to services, where the order
of events decides little; the request tables of MCP and LSP, the Cyber-Agent source
and the caches of authorization are the parts where it does.

## 7. What remains

1. External events: `CommitExternal`, the Cyber-Agent source and `Service.Drain`.
2. Permissions: pending requests against cancellation and a changed mode.
3. The request tables and restarts of MCP and LSP connections.
4. Branches of a session, and a loss of power during a snapshot.
