---------------------------- MODULE Conversation ----------------------------
(***************************************************************************)
(* A persistent conversation: internal/runtime/runtime.go serialises turns *)
(* and the commands clear, compact, checkpoint and rewind with one token;  *)
(* a turn is the goroutine of agent/engine.go, which sends events over an  *)
(* unbuffered channel, and a consumer that logs them and saves a snapshot  *)
(* of the engine's history after the last one (internal/session).          *)
(* The process may be shut down, or end at any point and be resumed.       *)
(*                                                                         *)
(* A message is its role; "calls" is an assistant message with tool calls  *)
(* and "results" the tool message that answers them.  Streamed deltas,     *)
(* usage, hooks, the records of the event log, branches and a loss of      *)
(* power are left out, and there is one checkpoint.                        *)
(***************************************************************************)
EXTENDS Integers, Sequences

CONSTANTS Callers,
          Calls,         \* what each caller may call
          KeepRecent,    \* messages that a compaction keeps
          MaxMessages,   \* bound on the history
          MinCheckpoint, \* bound: checkpoints are made of that many messages or more
          MaxFaults,     \* bound on failing writes and crashes
          None

Operations == {"turn", "clear", "compact", "checkpoint", "rewind"}

Roles == {"user", "reply", "calls", "results", "summary"}

ASSUME ConversationAssumptions ==
  /\ Calls \in [Callers -> SUBSET Operations]
  /\ KeepRecent \in Nat \ {0}
  /\ {MaxMessages, MinCheckpoint, MaxFaults} \subseteq Nat
  /\ None \notin Seq(Roles)

VARIABLES
  at,         \* what each caller has called, and how far it is
  live,       \* whether the context of that call is not cancelled
  process,    \* the runtime: up, shutting down, or down
  engine,     \* the goroutine of the turn
  sink,       \* the consumer of its events
  history,    \* the conversation in memory
  previous,   \* the history that a clear puts back when it fails
  snapshot,   \* the conversation on disk
  checkpoint, \* the file of the checkpoint
  listed,     \* whether the graph lists the checkpoint
  tail,       \* the end of the event log
  drift,      \* the memory is ahead of the disk: see HistoryIsSaved
  faults      \* faults so far

vars == <<at, live, process, engine, sink, history, previous, snapshot,
          checkpoint, listed, tail, drift, faults>>

memory == <<history, previous>>
disk == <<snapshot, checkpoint, listed, tail>>

Idle == [op |-> "none", phase |-> "idle"]

Holds(c) == at[c].phase \in {"held", "cleared", "changed", "logged", "copied"}

Runs(c) == at[c] = [op |-> "turn", phase |-> "held"]

IsHistory(h) == Len(h) <= MaxMessages /\ \A i \in DOMAIN h : h[i] \in Roles

\* At most one call holds the turn token, and the engine runs just while a turn does.
TypeOK ==
  /\ at \in [Callers -> [op : Operations,
                         phase : {"called", "waiting", "held", "cleared", "changed", "logged", "copied"}]
                        \cup {Idle}]
  /\ live \in [Callers -> BOOLEAN]
  /\ process \in {"up", "closing", "down"}
  /\ engine \in {"off", "begin", "user", "plan", "summarised", "provider", "tools", "answered",
                 "results", "completing", "failing", "over"}
  /\ sink \in {"ready", "event", "final", "snapshot", "deliver", "done", "report"}
  /\ IsHistory(history) /\ IsHistory(previous)
  /\ snapshot # None => IsHistory(snapshot)
  /\ checkpoint # None => IsHistory(checkpoint)
  /\ listed \in BOOLEAN /\ drift \in BOOLEAN
  /\ tail \in {"clean", "torn", "garbled"}
  /\ faults \in 0..MaxFaults
  /\ \A c, d \in Callers : Holds(c) /\ Holds(d) => c = d
  /\ engine # "off" <=> \E c \in Callers : Runs(c)

Init ==
  /\ at = [c \in Callers |-> Idle]
  /\ live = [c \in Callers |-> FALSE]
  /\ process = "up"
  /\ engine = "off" /\ sink = "ready"
  /\ history = <<>> /\ previous = <<>>
  /\ snapshot = None /\ checkpoint = None /\ listed = FALSE
  /\ tail = "clean"
  /\ drift = FALSE
  /\ faults = 0

-----------------------------------------------------------------------------
(* The files of the session.                                                *)

Fault == faults < MaxFaults /\ faults' = faults + 1

Appended_Untruncated == IF tail = "torn" THEN "garbled" ELSE tail

\* The next record goes where the incomplete one was cut off.
Appended == "clean"

\* Store.Append: it fails on a cancelled context, or before, in the middle of or
\* after the write.
Append1(alive, ok) ==
  \/ ok /\ alive /\ tail' = Appended /\ UNCHANGED faults
  \/ ~ok /\ ~alive /\ UNCHANGED <<tail, faults>>
  \/ ~ok /\ Fault /\ tail' \in {tail, Appended, "torn"}

\* Store.SaveSnapshot: it may fail after it has replaced the file.
SaveSnapshot(alive, ok) ==
  \/ ok /\ alive /\ snapshot' = history /\ UNCHANGED faults
  \/ ~ok /\ ~alive /\ UNCHANGED <<snapshot, faults>>
  \/ ~ok /\ Fault /\ snapshot' \in {snapshot, history}

Compactable(h) == Len(h) > KeepRecent

CompactBoundary_Unadjusted(h) == Len(h) - KeepRecent

\* How many messages a compaction covers: results stay with their calls.
CompactBoundary(h) ==
  CHOOSE b \in 0..(Len(h) - KeepRecent) :
    /\ b > 0 => h[b + 1] # "results"
    /\ \A i \in (b + 1)..(Len(h) - KeepRecent) : h[i + 1] = "results"

Compacted(h) == <<"summary">> \o SubSeq(h, CompactBoundary(h) + 1, Len(h))

-----------------------------------------------------------------------------
(* The calls of the runtime and its turn token.                             *)

\* The bound on the history: no message is added that it has no room for.
Room(n) == Len(history) + n <= MaxMessages

GoesTo(c, phase) == at' = [at EXCEPT ![c].phase = phase]

Returns(c) ==
  /\ at' = [at EXCEPT ![c] = Idle]
  /\ live' = [live EXCEPT ![c] = FALSE]

Stays(c, phase) == GoesTo(c, phase) /\ UNCHANGED live

Call(c, op) ==
  /\ process = "up" /\ at[c] = Idle
  /\ at' = [at EXCEPT ![c] = [op |-> op, phase |-> IF op \in {"clear", "compact"} THEN "called" ELSE "waiting"]]
  /\ live' = [live EXCEPT ![c] = TRUE]
  /\ UNCHANGED <<process, engine, sink, memory, disk, drift, faults>>

CheckClosed(c) ==
  /\ at[c].phase = "called"
  /\ IF process = "closing" THEN Returns(c) ELSE Stays(c, "waiting")
  /\ UNCHANGED <<process, engine, sink, memory, disk, drift, faults>>

\* A call that holds the token is cancelled; one that waits for it is given up.
Cancel(c) ==
  /\ Holds(c) /\ live[c]
  /\ live' = [live EXCEPT ![c] = FALSE]
  /\ UNCHANGED <<at, process, engine, sink, memory, disk, drift, faults>>

Acquire_Unguarded(c) ==
  /\ at[c].phase = "waiting"
  /\ at[c].op = "turn" => Room(1)
  /\ GoesTo(c, "held")
  /\ engine' = IF at[c].op = "turn" THEN "begin" ELSE engine
  /\ UNCHANGED <<live, process, sink, memory, disk, drift, faults>>

Acquire(c) ==
  /\ at[c].phase = "waiting"
  /\ \A d \in Callers : ~Holds(d)
  /\ at[c].op = "turn" => Room(1)
  /\ GoesTo(c, "held")
  /\ engine' = IF at[c].op = "turn" THEN "begin" ELSE engine
  /\ UNCHANGED <<live, process, sink, memory, disk, drift, faults>>

GiveUp(c) ==
  /\ at[c].phase = "waiting"
  /\ Returns(c)
  /\ UNCHANGED <<process, engine, sink, memory, disk, drift, faults>>

-----------------------------------------------------------------------------
(* The goroutine of the engine.                                             *)

\* sendEvent: the consumer takes the event, or a cancelled context ends the turn.
Send(c, event, next) ==
  \/ live[c] /\ sink = "ready" /\ sink' = event /\ engine' = next
  \/ ~live[c] /\ engine' = "over" /\ UNCHANGED sink

EngineWait(c) == Runs(c) /\ UNCHANGED <<at, live, process, disk, faults>>

Begin(c) ==
  /\ engine = "begin" /\ EngineWait(c)
  /\ \/ /\ history' = Append(history, "user")
        /\ drift' = TRUE
        /\ engine' = "user"
        /\ UNCHANGED <<sink, previous>>
     \/ ~live[c] /\ engine' = "over" /\ UNCHANGED <<sink, memory, drift>>

SendUser(c) ==
  /\ engine = "user" /\ EngineWait(c)
  /\ Send(c, "event", "plan")
  /\ UNCHANGED <<memory, drift>>

\* The request is built, and the history compacted first when it is too long.
Plan(c) ==
  /\ engine = "plan" /\ EngineWait(c)
  /\ \/ engine' \in {"provider", "failing"} /\ UNCHANGED history
     \/ /\ Compactable(history) /\ CompactBoundary(history) > 0
        /\ history' = Compacted(history)
        /\ engine' = "summarised"
  /\ UNCHANGED <<sink, previous, drift>>

SendCompacted(c) ==
  /\ engine = "summarised" /\ EngineWait(c)
  /\ \E next \in {"provider", "failing"} : Send(c, "event", next)
  /\ UNCHANGED <<memory, drift>>

\* The model answers, calls tools, or fails; its answer to a cancelled turn is dropped.
ProviderRound(c) ==
  /\ engine = "provider" /\ EngineWait(c)
  /\ \/ live[c] /\ Room(1) /\ history' = Append(history, "reply") /\ engine' = "completing"
     \/ live[c] /\ Room(2) /\ history' = Append(history, "calls") /\ engine' = "tools"
     \/ live[c] /\ engine' = "failing" /\ UNCHANGED history
     \/ ~live[c] /\ engine' = "over" /\ UNCHANGED history
  /\ UNCHANGED <<sink, previous, drift>>

ExecuteTools(c) ==
  /\ engine = "tools" /\ EngineWait(c)
  /\ engine' = "answered"
  /\ UNCHANGED <<sink, memory, drift>>

SendResults(c) ==
  /\ engine = "answered" /\ EngineWait(c)
  /\ Send(c, "event", "results")
  /\ UNCHANGED <<memory, drift>>

\* The last round of a turn completes it; any other goes back to the model.
RecordResults(c) ==
  /\ engine = "results" /\ EngineWait(c)
  /\ history' = Append(history, "results")
  /\ engine' \in {"provider", "completing"}
  /\ UNCHANGED <<sink, previous, drift>>

SendLast(c) ==
  /\ engine \in {"completing", "failing"} /\ EngineWait(c)
  /\ Send(c, "final", "over")
  /\ UNCHANGED <<memory, drift>>

EndTurn(c) ==
  /\ engine = "over" /\ Runs(c) /\ sink = "ready"
  /\ engine' = "off"
  /\ Returns(c)
  /\ UNCHANGED <<process, sink, memory, disk, drift, faults>>

-----------------------------------------------------------------------------
(* The consumer of the turn's events.                                       *)

Drop(c) ==
  /\ Runs(c) /\ sink \in {"event", "final"} /\ ~live[c]
  /\ sink' = "ready"
  /\ UNCHANGED <<at, live, process, engine, memory, disk, drift, faults>>

LogEvent(c) ==
  /\ Runs(c) /\ sink \in {"event", "final"}
  /\ \E ok \in BOOLEAN :
       /\ Append1(live[c], ok)
       /\ sink' = IF ~ok THEN "report" ELSE IF sink = "event" THEN "deliver" ELSE "snapshot"
  /\ UNCHANGED <<at, live, process, engine, memory, snapshot, checkpoint, listed, drift>>

SaveTurn(c) ==
  /\ Runs(c) /\ sink = "snapshot"
  /\ \E ok \in BOOLEAN :
       /\ SaveSnapshot(live[c], ok)
       /\ sink' = IF ok THEN "done" ELSE "report"
       /\ drift' = (drift /\ ~ok)
  /\ UNCHANGED <<at, live, process, engine, memory, checkpoint, listed, tail>>

\* The caller takes the event, or its context or that of the runtime is cancelled.
Deliver(c) ==
  /\ Runs(c) /\ sink \in {"deliver", "done"}
  /\ sink' = "ready"
  /\ UNCHANGED <<at, live, process, engine, memory, disk, drift, faults>>

\* sendPersistenceError, after which the turn is cancelled.
Report(c) ==
  /\ Runs(c) /\ sink = "report"
  /\ sink' = "ready"
  /\ live' = [live EXCEPT ![c] = FALSE]
  /\ UNCHANGED <<at, process, engine, memory, disk, drift, faults>>

-----------------------------------------------------------------------------
(* The commands.                                                            *)

Held(c, op) == at[c] = [op |-> op, phase |-> "held"]

\* A read of the session fails on a cancelled context or by a fault.
ReadFails(c) == (~live[c] /\ UNCHANGED faults) \/ Fault

ReplaceHistory(c) ==
  /\ Held(c, "clear")
  /\ \/ /\ live[c]
        /\ previous' = history
        /\ history' = <<>>
        /\ Stays(c, "cleared")
        /\ UNCHANGED faults
     \/ ReadFails(c) /\ Returns(c) /\ UNCHANGED memory
  /\ UNCHANGED <<process, engine, sink, disk, drift>>

SaveCleared_Kept(c) ==
  /\ at[c].phase = "cleared"
  /\ \E ok \in BOOLEAN :
       /\ SaveSnapshot(live[c], ok)
       /\ drift' = IF ok THEN FALSE ELSE drift \/ snapshot' # snapshot
  /\ previous' = <<>>
  /\ Returns(c)
  /\ UNCHANGED <<process, engine, sink, history, checkpoint, listed, tail>>

SaveCleared(c) ==
  /\ at[c].phase = "cleared"
  /\ \E ok \in BOOLEAN :
       /\ SaveSnapshot(live[c], ok)
       /\ history' = IF ok THEN history ELSE previous
       /\ drift' = IF ok THEN FALSE ELSE drift \/ snapshot' # snapshot
  /\ previous' = <<>>
  /\ Returns(c)
  /\ UNCHANGED <<process, engine, sink, checkpoint, listed, tail>>

\* The summary, when there is enough to compact and the model gives one.
Compact(c) ==
  /\ Held(c, "compact")
  /\ \/ /\ Compactable(history) /\ CompactBoundary(history) > 0
        /\ history' = Compacted(history)
        /\ drift' = TRUE
        /\ Stays(c, "changed")
     \/ Returns(c) /\ UNCHANGED <<history, drift>>
  /\ UNCHANGED <<process, engine, sink, previous, disk, faults>>

Rewind(c) ==
  /\ Held(c, "rewind")
  /\ \/ /\ live[c] /\ listed /\ checkpoint # None
        /\ history' = checkpoint
        /\ drift' = TRUE
        /\ Stays(c, "changed")
        /\ UNCHANGED faults
     \/ /\ ((~listed \/ checkpoint = None) /\ UNCHANGED faults) \/ ReadFails(c)
        /\ Returns(c) /\ UNCHANGED <<history, drift>>
  /\ UNCHANGED <<process, engine, sink, previous, disk>>

\* A compaction or rewind is logged, then saved; a failure leaves the memory changed.
LogChange(c) ==
  /\ at[c].phase = "changed"
  /\ \E ok \in BOOLEAN :
       /\ Append1(live[c], ok)
       /\ IF ok THEN Stays(c, "logged") ELSE Returns(c)
  /\ UNCHANGED <<process, engine, sink, memory, snapshot, checkpoint, listed, drift>>

SaveChange(c) ==
  /\ at[c].phase = "logged"
  /\ \E ok \in BOOLEAN :
       /\ SaveSnapshot(live[c], ok)
       /\ drift' = (drift /\ ~ok)
  /\ Returns(c)
  /\ UNCHANGED <<process, engine, sink, memory, checkpoint, listed, tail>>

\* Within the bounds one checkpoint is made.
Copyable == ~listed /\ snapshot # None /\ Len(snapshot) >= MinCheckpoint

\* The checkpoint is a copy of the snapshot, not of the memory.
CopySnapshot(c) ==
  /\ Held(c, "checkpoint")
  /\ \/ /\ live[c] /\ Copyable
        /\ checkpoint' = snapshot
        /\ Stays(c, "copied")
        /\ UNCHANGED faults
     \/ /\ (~Copyable /\ UNCHANGED faults) \/ ReadFails(c)
        /\ Returns(c) /\ UNCHANGED checkpoint
  /\ UNCHANGED <<process, engine, sink, memory, snapshot, listed, tail, drift>>

\* A failing write of the graph removes the copy; it may have replaced the file.
WriteGraph(c) ==
  /\ at[c].phase = "copied"
  /\ \/ listed' = TRUE /\ UNCHANGED <<checkpoint, faults>>
     \/ Fault /\ listed' \in BOOLEAN /\ checkpoint' = None
  /\ Returns(c)
  /\ UNCHANGED <<process, engine, sink, memory, snapshot, tail, drift>>

-----------------------------------------------------------------------------
(* Shutdown, and the end of the process.                                    *)

BeginShutdown_NoCancel ==
  /\ process = "up"
  /\ process' = "closing"
  /\ UNCHANGED <<at, live, engine, sink, memory, disk, drift, faults>>

\* The contexts of turns descend from that of the runtime, those of commands do not.
BeginShutdown ==
  /\ process = "up"
  /\ process' = "closing"
  /\ live' = [c \in Callers |-> live[c] /\ at[c].op # "turn"]
  /\ UNCHANGED <<at, engine, sink, memory, disk, drift, faults>>

\* The memory of a process ends with it.
Forget == history' = <<>> /\ previous' = <<>> /\ drift' = FALSE

FinishShutdown ==
  /\ process = "closing"
  /\ \A c \in Callers : at[c] = Idle
  /\ process' = "down"
  /\ Forget
  /\ UNCHANGED <<at, live, engine, sink, disk, faults>>

Appending ==
  sink \in {"event", "final"} \/ \E c \in Callers : at[c].phase = "changed"

Crash ==
  /\ process # "down" /\ Fault
  /\ process' = "down"
  /\ at' = [c \in Callers |-> Idle]
  /\ live' = [c \in Callers |-> FALSE]
  /\ engine' = "off" /\ sink' = "ready"
  /\ tail' \in {tail} \cup (IF Appending THEN {"torn"} ELSE {})
  /\ Forget
  /\ UNCHANGED <<snapshot, checkpoint, listed>>

Resume ==
  /\ process = "down"
  /\ snapshot # None /\ tail # "garbled"
  /\ process' = "up"
  /\ history' = snapshot /\ previous' = <<>>
  /\ drift' = FALSE
  /\ UNCHANGED <<at, live, engine, sink, disk, faults>>

-----------------------------------------------------------------------------
Engine(c) ==
  \/ Begin(c) \/ SendUser(c) \/ Plan(c) \/ SendCompacted(c)
  \/ SendResults(c) \/ RecordResults(c) \/ SendLast(c) \/ EndTurn(c)

Outside(c) == ProviderRound(c) \/ ExecuteTools(c)

Consumer(c) == Drop(c) \/ LogEvent(c) \/ SaveTurn(c) \/ Report(c)

Command(c) ==
  \/ CheckClosed(c) \/ ReplaceHistory(c) \/ SaveCleared(c)
  \/ Rewind(c) \/ LogChange(c) \/ SaveChange(c) \/ CopySnapshot(c) \/ WriteGraph(c)

Next ==
  \/ \E c \in Callers :
       \/ \E op \in Calls[c] : Call(c, op)
       \/ Cancel(c) \/ Acquire(c) \/ GiveUp(c)
       \/ Engine(c) \/ Outside(c) \/ Consumer(c) \/ Deliver(c)
       \/ Command(c) \/ Compact(c)
  \/ BeginShutdown \/ FinishShutdown
  \/ Crash \/ Resume

\* What goes on without anybody outside: models and tools return when they are
\* cancelled, and an event that nobody reads is given up at shutdown.
Progress ==
  \/ FinishShutdown
  \/ \E c \in Callers :
       \/ Acquire(c) \/ (~live[c] /\ GiveUp(c))
       \/ Engine(c) \/ (~live[c] /\ Outside(c))
       \/ Consumer(c) \/ (process = "closing" /\ Deliver(c))
       \/ Command(c)

\* The process as a whole goes on when it can: no goroutine is favoured.
Fairness == WF_vars(Progress)

Spec == Init /\ [][Next]_vars /\ Fairness

-----------------------------------------------------------------------------
(* Properties.                                                              *)

\* A turn that tells its caller it is complete, or failed, has its history on
\* disk, and while no call is in progress memory and snapshot agree, after a
\* failed clear too, unless a turn was cut short, the saving of a compaction or
\* rewind failed, or the snapshot was replaced by a clear that reports a failure.
HistoryIsSaved ==
  sink = "done" \/ (~drift /\ process # "down" /\ \A c \in Callers : ~Holds(c)) =>
    history = IF snapshot = None THEN <<>> ELSE snapshot

\* Every list of results directly follows the calls it answers, in memory and in
\* both files, and calls without results were cut off by a cancellation: they are
\* last, or the next turn follows them.
RoundsWhole(h) ==
  \A i \in 1..Len(h) :
    /\ h[i] = "results" => i > 1 /\ h[i - 1] = "calls"
    /\ h[i] = "calls" /\ i < Len(h) => h[i + 1] \in {"results", "user"}

RoundsAreWhole ==
  \A h \in {history, previous, snapshot, checkpoint} \ {None} : RoundsWhole(h)

\* Whatever write failed or was cut short, the event log can be read and extended,
\* so a session that has a snapshot can be resumed.
SessionLoads == tail # "garbled"

Summarising == \E c \in Callers : Held(c, "compact")

\* A shutdown comes to an end, whatever is in progress, if the model that a
\* compact command has asked for a summary returns: only its caller can cancel it.
\* A process that is closing only goes down.
ShutdownTerminates ==
  []<>~Summarising => []<>(process # "closing")
=============================================================================
