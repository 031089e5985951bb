---------------------------- MODULE TaskService ----------------------------
(***************************************************************************)
(* internal/tasks/tool.go: the tools task_run and task_cancel over three   *)
(* records of a task: the registry in memory (framework.go, executor.go),  *)
(* the board on disk (collaboration/board.go), which all processes share,  *)
(* and for a task in the background its job in the durable queue.          *)
(* A queued task is started by the one worker of the service, a foreground *)
(* task by its caller; each runs in a goroutine of its own.                *)
(*                                                                         *)
(* The queue is the one that DurableWork describes and TaskQueue           *)
(* implements.  Observations, results, usage and the limits on turns and   *)
(* modes are left out, and so is a service without a board or a queue.     *)
(***************************************************************************)
EXTENDS Naturals

CONSTANTS Tasks, Foreground, MaxAttempts,
          Faults,    \* what goes wrong, see FaultKinds
          MaxFaults, \* bound on the faults of a behaviour
          None

FaultKinds == {"board",      \* an access to the board fails
               "queue",      \* a write of the queue fails
               "restart",    \* the process ends, at any point, and a new one starts
               "neighbour"}  \* another process opens the board

ASSUME TaskServiceAssumptions ==
  /\ Foreground \subseteq Tasks /\ None \notin Tasks
  /\ MaxAttempts \in Nat \ {0} /\ MaxFaults \in Nat
  /\ Faults \subseteq FaultKinds

VARIABLES
  registry, \* the task in the registry
  board,    \* the task on the board; "interrupted" is a failure by restart
  jobs,     \* its job
  tries,    \* how often the job was claimed
  caller,   \* task_run
  worker,   \* the loop of the worker
  exec,     \* the goroutine of the task
  live,     \* whether the context of that goroutine is not cancelled
  cancel,   \* the task_cancel in progress
  service,  \* how far Close is
  faults,   \* faults so far
  acked,    \* tasks of which task_cancel reported success
  finished, \* tasks whose success is or was on the board
  stranded  \* tasks something went wrong with, see UnsettledHasOwner

vars == <<registry, board, jobs, tries, caller, worker, exec, live, cancel, service,
          faults, acked, finished, stranded>>

Settled == {"completed", "failed", "cancelled"}

Idle == [phase |-> "idle", task |-> None]

Ended == [phase |-> "ended", task |-> None]

TypeOK ==
  /\ registry \in [Tasks -> {"absent", "pending", "running"} \cup Settled]
  /\ board \in [Tasks -> {"absent", "pending", "running", "interrupted"} \cup Settled]
  /\ jobs \in [Tasks -> {"absent", "open", "settled"}]
  /\ tries \in [Tasks -> 0..MaxAttempts]
  /\ caller \in [Tasks -> {"none", "registered", "created", "refused", "returned"}]
  /\ worker \in [phase : {"claimed", "boarding", "starting", "waiting"}, task : Tasks]
                \cup {Idle, Ended}
  /\ exec \in [Tasks -> {"none", "entered", "working", "succeeded", "erred", "over"}]
  /\ live \in [Tasks -> BOOLEAN]
  /\ cancel \in [phase : {"found", "pending", "marked", "killed", "unkilled", "unqueued", "board"},
                 task : Tasks] \cup {Idle}
  /\ service \in {"open", "cancelled", "closing", "closed"}
  /\ faults \in 0..MaxFaults
  /\ {acked, finished, stranded} \subseteq SUBSET Tasks

Init ==
  /\ registry = [t \in Tasks |-> "absent"]
  /\ board = [t \in Tasks |-> "absent"]
  /\ jobs = [t \in Tasks |-> "absent"]
  /\ tries = [t \in Tasks |-> 0]
  /\ caller = [t \in Tasks |-> "none"]
  /\ worker = Idle
  /\ exec = [t \in Tasks |-> "none"]
  /\ live = [t \in Tasks |-> FALSE]
  /\ cancel = Idle
  /\ service = "open"
  /\ faults = 0
  /\ acked = {} /\ finished = {} /\ stranded = {}

-----------------------------------------------------------------------------
(* The registry, the executor, the board and the queue.                     *)

Fault(kind) ==
  /\ kind \in Faults
  /\ faults < MaxFaults
  /\ faults' = faults + 1

\* A fault in something done for task t.
FaultOf(kind, t) == Fault(kind) /\ stranded' = stranded \cup {t}

NoFault == UNCHANGED <<faults, stranded>>

Moves == {"pending"} \X {"running", "cancelled"} \cup {"running"} \X Settled

AllowedTransition(from, to) == <<from, to>> \in Moves

\* Registry.Transition, whose error is ignored.
Transitioned(t, to) ==
  IF AllowedTransition(registry[t], to) THEN [registry EXCEPT ![t] = to] ELSE registry

ValidTaskTransition_Again(from, to) ==
  <<from, to>> \in Moves \/ to = "running"

ValidTaskTransition(from, to) == <<from, to>> \in Moves

OnBoard(t, to) == board[t] = to \/ (to = "failed" /\ board[t] = "interrupted")

\* Board.Transition; ok tells whether it returned no error.
BoardTransition(t, to, ok) ==
  \/ /\ ok /\ OnBoard(t, to)
     /\ UNCHANGED board /\ NoFault
  \/ /\ ok /\ ~OnBoard(t, to) /\ ValidTaskTransition(board[t], to)
     /\ board' = [board EXCEPT ![t] = to] /\ NoFault
  \/ /\ ~ok /\ ~OnBoard(t, to) /\ ~ValidTaskTransition(board[t], to)
     /\ UNCHANGED board /\ NoFault
  \/ /\ ~ok /\ FaultOf("board", t)
     /\ UNCHANGED board

\* Board.Create and RetryInterrupted.
BoardPending(t, from, ok) ==
  \/ /\ ok /\ board[t] = from
     /\ board' = [board EXCEPT ![t] = "pending"] /\ NoFault
  \/ /\ ~ok /\ board[t] # from
     /\ UNCHANGED board /\ NoFault
  \/ /\ ~ok /\ FaultOf("board", t)
     /\ UNCHANGED board

Closed == service \in {"closing", "closed"}

\* Executor.start; stopped tells whether the context it is given is cancelled.
CanStart(t) == ~Closed /\ AllowedTransition(registry[t], "running")

Started(t, stopped) ==
  /\ registry' = [registry EXCEPT ![t] = "running"]
  /\ exec' = [exec EXCEPT ![t] = "entered"]
  /\ live' = [live EXCEPT ![t] = ~stopped]

\* The cancel function of the task is in the table of the executor.
Cancellable(t) == exec[t] \in {"entered", "working", "succeeded", "erred"}

-----------------------------------------------------------------------------
(* task_run                                                                 *)

Run(t) ==
  /\ service # "closed"
  /\ caller[t] = "none"
  /\ caller' = [caller EXCEPT ![t] = "registered"]
  /\ registry' = [registry EXCEPT ![t] = "pending"]
  /\ UNCHANGED <<board, jobs, tries, worker, exec, live, cancel, service,
                 faults, acked, finished, stranded>>

CreateOnBoard(t) ==
  /\ caller[t] = "registered"
  /\ \E ok \in BOOLEAN :
       /\ BoardPending(t, "absent", ok)
       /\ caller' = [caller EXCEPT ![t] = IF ok THEN "created" ELSE "returned"]
       /\ registry' = IF ok THEN registry ELSE [registry EXCEPT ![t] = "absent"]
  /\ UNCHANGED <<jobs, tries, worker, exec, live, cancel, service, acked, finished>>

\* A background task goes to the queue; when that fails it is forgotten.
Enqueue(t) ==
  /\ caller[t] = "created" /\ t \notin Foreground
  /\ \/ /\ service # "closed" /\ NoFault
        /\ jobs' = [jobs EXCEPT ![t] = "open"]
        /\ caller' = [caller EXCEPT ![t] = "returned"]
        /\ UNCHANGED registry
     \/ /\ (service = "closed" /\ NoFault) \/ FaultOf("queue", t)
        /\ registry' = [registry EXCEPT ![t] = "absent"]
        /\ caller' = [caller EXCEPT ![t] = "refused"]
        /\ UNCHANGED jobs
  /\ UNCHANGED <<board, tries, worker, exec, live, cancel, service, acked, finished>>

\* A foreground task is started by its caller and with its context.
StartForeground(t) ==
  /\ caller[t] = "created" /\ t \in Foreground
  /\ IF CanStart(t)
       THEN /\ Started(t, FALSE)
            /\ caller' = [caller EXCEPT ![t] = "returned"]
       ELSE /\ caller' = [caller EXCEPT ![t] = "refused"]
            /\ UNCHANGED <<registry, exec, live>>
  /\ UNCHANGED <<board, jobs, tries, worker, cancel, service,
                 faults, acked, finished, stranded>>

RefuseOnBoard_Forgotten(t) ==
  /\ caller[t] = "refused"
  /\ caller' = [caller EXCEPT ![t] = "returned"]
  /\ UNCHANGED <<registry, board, jobs, tries, worker, exec, live, cancel, service,
                 faults, acked, finished, stranded>>

RefuseOnBoard(t) ==
  /\ caller[t] = "refused"
  /\ caller' = [caller EXCEPT ![t] = "returned"]
  /\ \E ok \in BOOLEAN : BoardTransition(t, "cancelled", ok)
  /\ UNCHANGED <<registry, jobs, tries, worker, exec, live, cancel, service, acked, finished>>

\* The turn that called task_run in the foreground is cancelled.
GiveUp(t) ==
  /\ t \in Foreground /\ Cancellable(t) /\ live[t]
  /\ live' = [live EXCEPT ![t] = FALSE]
  /\ UNCHANGED <<registry, board, jobs, tries, caller, worker, exec, cancel, service,
                 faults, acked, finished, stranded>>

-----------------------------------------------------------------------------
(* The goroutine of a task: the handler of startExecution, then the end of  *)
(* ExecuteLocalAgent.                                                       *)

\* A cancelled context ends the handler before the board is touched.
Enter(t) ==
  /\ exec[t] = "entered"
  /\ \/ /\ live[t]
        /\ \E ok \in BOOLEAN :
             /\ BoardTransition(t, "running", ok)
             /\ exec' = [exec EXCEPT ![t] = IF ok THEN "working" ELSE "erred"]
     \/ /\ ~live[t]
        /\ exec' = [exec EXCEPT ![t] = "erred"]
        /\ stranded' = stranded \cup {t}
        /\ UNCHANGED <<board, faults>>
  /\ UNCHANGED <<registry, jobs, tries, caller, worker, live, cancel, service, acked, finished>>

\* The agent returns, and its outcome goes to the board; a success that the
\* board does not take becomes an error.
FinishAgent(t) ==
  /\ exec[t] = "working"
  /\ \E outcome \in Settled, ok \in BOOLEAN :
       /\ outcome = "cancelled" => ~live[t]
       /\ BoardTransition(t, outcome, ok)
       /\ exec' = [exec EXCEPT ![t] =
                     IF outcome = "completed" /\ ok THEN "succeeded" ELSE "erred"]
       /\ finished' = IF outcome = "completed" /\ ok THEN finished \cup {t} ELSE finished
  /\ UNCHANGED <<registry, jobs, tries, caller, worker, live, cancel, service, acked>>

EndExecution_OnlySuccess(t) ==
  /\ exec[t] \in {"succeeded", "erred"}
  /\ registry' = IF exec[t] = "succeeded" THEN Transitioned(t, "completed") ELSE registry
  /\ exec' = [exec EXCEPT ![t] = "over"]
  /\ UNCHANGED <<board, jobs, tries, caller, worker, live, cancel, service,
                 faults, acked, finished, stranded>>

EndExecution(t) ==
  /\ exec[t] \in {"succeeded", "erred"}
  /\ registry' = Transitioned(t, IF exec[t] = "succeeded" THEN "completed" ELSE "failed")
  /\ exec' = [exec EXCEPT ![t] = "over"]
  /\ UNCHANGED <<board, jobs, tries, caller, worker, live, cancel, service,
                 faults, acked, finished, stranded>>

-----------------------------------------------------------------------------
(* The worker and executeQueued.                                            *)

WorkerGoesTo(phase, t) == worker' = [phase |-> phase, task |-> t]

Claim_NoLimit(t) ==
  /\ worker = Idle /\ service = "open"
  /\ jobs[t] = "open"
  /\ tries' = [tries EXCEPT ![t] = @ + 1]
  /\ WorkerGoesTo("claimed", t)
  /\ UNCHANGED <<registry, board, jobs, caller, exec, live, cancel, service,
                 faults, acked, finished, stranded>>

Claim(t) ==
  /\ worker = Idle /\ service = "open"
  /\ jobs[t] = "open" /\ tries[t] < MaxAttempts
  /\ tries' = [tries EXCEPT ![t] = @ + 1]
  /\ WorkerGoesTo("claimed", t)
  /\ UNCHANGED <<registry, board, jobs, caller, exec, live, cancel, service,
                 faults, acked, finished, stranded>>

\* A write of Claim that fails ends the loop.
ClaimFails ==
  /\ worker = Idle /\ service = "open"
  /\ \E t \in Tasks : jobs[t] = "open" /\ tries[t] < MaxAttempts
  /\ Fault("queue")
  /\ worker' = Ended
  /\ UNCHANGED <<registry, board, jobs, tries, caller, exec, live, cancel, service,
                 acked, finished, stranded>>

\* The job was left in its last lease: no worker is on it and none may claim it.
LeftInLease(t) == jobs[t] = "open" /\ tries[t] = MaxAttempts /\ worker.task # t

\* Such a job is dead once a reconcile after the end of the lease is written; the
\* board is not told.  Nothing sees to it: a Claim that finds no job throws its
\* reconcile away, and a worker writes one of its own only when it starts.
Bury(t) ==
  /\ LeftInLease(t)
  /\ jobs' = [jobs EXCEPT ![t] = "settled"]
  /\ stranded' = stranded \cup {t}
  /\ UNCHANGED <<registry, board, tries, caller, worker, exec, live, cancel, service,
                 faults, acked, finished>>

Unwritten(t) == worker' = Idle /\ FaultOf("queue", t) /\ UNCHANGED jobs

\* The handler returned nil: Complete, unless the job was cancelled meanwhile.
Completes(t) ==
  \/ /\ worker' = Idle
     /\ jobs' = [jobs EXCEPT ![t] = "settled"]
     /\ NoFault
  \/ Unwritten(t)

Fails_Reopens(t) ==
  \/ /\ worker' = Idle
     /\ jobs' = [jobs EXCEPT ![t] = IF tries[t] < MaxAttempts THEN "open" ELSE "settled"]
     /\ NoFault
  \/ Unwritten(t)

\* The handler returned an error: Fail; after the last try the job is dead.
Fails(t) ==
  LET dead == jobs[t] = "open" /\ tries[t] = MaxAttempts
  IN \/ /\ worker' = Idle
        /\ jobs' = IF dead THEN [jobs EXCEPT ![t] = "settled"] ELSE jobs
        /\ stranded' = IF dead THEN stranded \cup {t} ELSE stranded
        /\ UNCHANGED faults
     \/ Unwritten(t)

\* What the registry says of the claimed task; one of an earlier process is new.
Begin(t) ==
  /\ worker = [phase |-> "claimed", task |-> t]
  /\ IF registry[t] \in Settled
       THEN Completes(t) /\ UNCHANGED registry
       ELSE /\ WorkerGoesTo(CASE registry[t] = "absent"  -> "boarding"
                                [] registry[t] = "running" -> "waiting"
                                [] OTHER                   -> "starting", t)
            /\ registry' = IF registry[t] = "absent"
                             THEN [registry EXCEPT ![t] = "pending"] ELSE registry
            /\ NoFault /\ UNCHANGED jobs
  /\ UNCHANGED <<board, tries, caller, exec, live, cancel, service, acked, finished>>

\* A closed service or an access to the board that fails ends the try.
Board(t) ==
  /\ worker = [phase |-> "boarding", task |-> t]
  /\ \/ /\ service = "open"
        /\ IF board[t] \in {"absent", "interrupted"}
             THEN BoardPending(t, board[t], TRUE) ELSE UNCHANGED board /\ NoFault
        /\ WorkerGoesTo("starting", t)
        /\ UNCHANGED jobs
     \/ /\ service # "open" \/ "board" \in Faults
        /\ Fails(t)
        /\ UNCHANGED board
  /\ UNCHANGED <<registry, tries, caller, exec, live, cancel, service, acked, finished>>

StartQueued(t) ==
  /\ worker = [phase |-> "starting", task |-> t]
  /\ IF CanStart(t)
       THEN /\ Started(t, service # "open")
            /\ WorkerGoesTo("waiting", t)
            /\ NoFault /\ UNCHANGED jobs
       ELSE Fails(t) /\ UNCHANGED <<registry, exec, live>>
  /\ UNCHANGED <<board, tries, caller, cancel, service, acked, finished>>

\* wait: the end of the task, or of the service.
Await(t) ==
  /\ worker = [phase |-> "waiting", task |-> t]
  /\ \/ registry[t] \in Settled /\ Completes(t)
     \/ registry[t] \notin Settled /\ service # "open" /\ Fails(t)
  /\ UNCHANGED <<registry, board, tries, caller, exec, live, cancel, service, acked, finished>>

-----------------------------------------------------------------------------
(* task_cancel                                                              *)

CancelFinds(t) ==
  /\ cancel = Idle /\ service # "closed"
  /\ registry[t] # "absent"
  /\ cancel' = [phase |-> IF registry[t] = "pending" THEN "pending" ELSE "found", task |-> t]
  /\ UNCHANGED <<registry, board, jobs, tries, caller, worker, exec, live, service,
                 faults, acked, finished, stranded>>

CancelGoesTo(phase, t) == cancel' = [phase |-> phase, task |-> t]

\* Executor.KillTask marks the task and then cancels its context.  Its failure
\* ends the call unless the task was pending when it was found.
KillTask(t) ==
  /\ cancel.task = t /\ cancel.phase \in {"found", "pending"}
  /\ IF Cancellable(t) /\ AllowedTransition(registry[t], "cancelled")
       THEN /\ registry' = [registry EXCEPT ![t] = "cancelled"]
            /\ CancelGoesTo("marked", t)
       ELSE /\ IF cancel.phase = "pending" THEN CancelGoesTo("unkilled", t) ELSE cancel' = Idle
            /\ UNCHANGED registry
  /\ UNCHANGED <<board, jobs, tries, caller, worker, exec, live, service,
                 faults, acked, finished, stranded>>

KillContext(t) ==
  /\ cancel = [phase |-> "marked", task |-> t]
  /\ live' = [live EXCEPT ![t] = FALSE]
  /\ CancelGoesTo("killed", t)
  /\ UNCHANGED <<registry, board, jobs, tries, caller, worker, exec, service,
                 faults, acked, finished, stranded>>

CancelQueue_Skipped(t) ==
  /\ cancel.task = t /\ cancel.phase \in {"killed", "unkilled"}
  /\ CancelGoesTo(IF cancel.phase = "killed" THEN "board" ELSE "unqueued", t)
  /\ UNCHANGED <<registry, board, jobs, tries, caller, worker, exec, live, service,
                 faults, acked, finished, stranded>>

\* CancelByKey, which takes a settled job as well; a killed task needs no job.
CancelQueue(t) ==
  /\ cancel.task = t /\ cancel.phase \in {"killed", "unkilled"}
  /\ \/ /\ jobs[t] # "absent" /\ service # "closed"
        /\ jobs' = [jobs EXCEPT ![t] = "settled"]
        /\ CancelGoesTo(IF cancel.phase = "killed" THEN "board" ELSE "unqueued", t)
        /\ NoFault
     \/ /\ jobs[t] = "absent" /\ service # "closed"
        /\ IF cancel.phase = "killed" THEN CancelGoesTo("board", t) ELSE cancel' = Idle
        /\ NoFault /\ UNCHANGED jobs
     \/ /\ (service = "closed" /\ NoFault) \/ FaultOf("queue", t)
        /\ cancel' = Idle
        /\ UNCHANGED jobs
  /\ UNCHANGED <<registry, board, tries, caller, worker, exec, live, service, acked, finished>>

CancelRegistry(t) ==
  /\ cancel = [phase |-> "unqueued", task |-> t]
  /\ registry' = Transitioned(t, "cancelled")
  /\ IF AllowedTransition(registry[t], "cancelled") THEN CancelGoesTo("board", t) ELSE cancel' = Idle
  /\ UNCHANGED <<board, jobs, tries, caller, worker, exec, live, service,
                 faults, acked, finished, stranded>>

CancelBoard(t) ==
  /\ cancel = [phase |-> "board", task |-> t]
  /\ \/ /\ BoardTransition(t, "cancelled", TRUE)
        /\ acked' = acked \cup {t}
     \/ /\ "board" \in Faults \/ (~OnBoard(t, "cancelled") /\ ~ValidTaskTransition(board[t], "cancelled"))
        /\ stranded' = stranded \cup {t}
        /\ UNCHANGED <<board, faults, acked>>
  /\ cancel' = Idle
  /\ UNCHANGED <<registry, jobs, tries, caller, worker, exec, live, service, finished>>

-----------------------------------------------------------------------------
(* Close, and the end of the process.                                       *)

\* The context of the service is the parent of those of queued tasks.
BeginClose ==
  /\ service = "open"
  /\ service' = "cancelled"
  /\ live' = [t \in Tasks |-> live[t] /\ t \in Foreground]
  /\ UNCHANGED <<registry, board, jobs, tries, caller, worker, exec, cancel,
                 faults, acked, finished, stranded>>

WorkerEnds ==
  /\ worker = Idle /\ service # "open"
  /\ worker' = Ended
  /\ UNCHANGED <<registry, board, jobs, tries, caller, exec, live, cancel, service,
                 faults, acked, finished, stranded>>

CloseExecutor_OnlyRefuses ==
  /\ service = "cancelled" /\ worker.phase = "ended"
  /\ service' = "closing"
  /\ UNCHANGED <<registry, board, jobs, tries, caller, worker, exec, live, cancel,
                 faults, acked, finished, stranded>>

\* Executor.Close, after the worker was drained, cancels what still runs.
CloseExecutor ==
  /\ service = "cancelled" /\ worker.phase = "ended"
  /\ service' = "closing"
  /\ registry' = [t \in Tasks |-> IF Cancellable(t) THEN Transitioned(t, "cancelled")[t]
                                  ELSE registry[t]]
  /\ live' = [t \in Tasks |-> FALSE]
  /\ UNCHANGED <<board, jobs, tries, caller, worker, exec, cancel,
                 faults, acked, finished, stranded>>

CloseReturns ==
  /\ service = "closing"
  /\ \A t \in Tasks : ~Cancellable(t)
  /\ service' = "closed"
  /\ UNCHANGED <<registry, board, jobs, tries, caller, worker, exec, live, cancel,
                 faults, acked, finished, stranded>>

\* NewBoard
Interrupted == [t \in Tasks |-> IF board[t] = "running" THEN "interrupted" ELSE board[t]]

\* The process ends, after Close or at any point, and the next one opens board
\* and queue.  It finds nothing to go on with for a task without a job, or with
\* one in its last lease.
Restart ==
  /\ Fault("restart") \/ (service = "closed" /\ UNCHANGED faults)
  /\ board' = Interrupted
  /\ registry' = [t \in Tasks |-> "absent"]
  /\ caller' = [t \in Tasks |-> IF caller[t] = "none" THEN "none" ELSE "returned"]
  /\ exec' = [t \in Tasks |-> "none"]
  /\ live' = [t \in Tasks |-> FALSE]
  /\ worker' = Idle
  /\ cancel' = Idle
  /\ service' = "open"
  /\ stranded' = stranded \cup
       {t \in Tasks : caller[t] # "none" /\ (jobs[t] # "open" \/ tries[t] = MaxAttempts)}
  /\ UNCHANGED <<jobs, tries, acked, finished>>

NeighbourOpens ==
  /\ Fault("neighbour")
  /\ board' = Interrupted
  /\ UNCHANGED <<registry, jobs, tries, caller, worker, exec, live, cancel, service,
                 acked, finished, stranded>>

-----------------------------------------------------------------------------
Caller(t) == CreateOnBoard(t) \/ Enqueue(t) \/ StartForeground(t) \/ RefuseOnBoard(t)

Goroutine(t) == Enter(t) \/ EndExecution(t)

Worker(t) == Claim(t) \/ Begin(t) \/ Board(t) \/ StartQueued(t) \/ Await(t)

Cancel(t) ==
  KillTask(t) \/ KillContext(t) \/ CancelQueue(t) \/ CancelRegistry(t) \/ CancelBoard(t)

Close == WorkerEnds \/ CloseExecutor \/ CloseReturns

Next ==
  \/ \E t \in Tasks :
       \/ Run(t)
       \/ Caller(t)
       \/ GiveUp(t)
       \/ Goroutine(t)
       \/ FinishAgent(t)
       \/ Worker(t)
       \/ Bury(t)
       \/ CancelFinds(t)
       \/ Cancel(t)
  \/ ClaimFails
  \/ BeginClose
  \/ Close
  \/ Restart
  \/ NeighbourOpens

\* What goes on by itself: goroutines, and agents whose context is cancelled.  Bury
\* is not among it, see there.
Progress ==
  \/ Close
  \/ \E t \in Tasks :
       \/ Caller(t) \/ Goroutine(t) \/ (~live[t] /\ FinishAgent(t))
       \/ Worker(t)

\* The process as a whole goes on when it can: no goroutine is favoured, and no
\* agent has to return by itself.
Fairness == WF_vars(Progress) /\ WF_vars(\E t \in Tasks : Cancel(t))

Spec == Init /\ [][Next]_vars /\ Fairness

-----------------------------------------------------------------------------
(* Properties.                                                              *)

\* What callers are told is so: a task that task_status reports as completed is
\* completed on the board, and one whose cancellation was reported as done is
\* cancelled there and has no job that a worker could claim, now and in every later
\* process; if its caller waits for it, no agent goes on with a live context.
ReportedIsOnBoard ==
  /\ \A t \in Tasks : registry[t] = "completed" => board[t] = "completed"
  /\ \A t \in acked :
       /\ board[t] = "cancelled" /\ jobs[t] # "open"
       /\ t \in Foreground => ~live[t]

\* No process starts a task twice, whoever finds it pending, and none runs its
\* agent again once its success was recorded, though the job may be claimed again
\* after a crash or a failed write.
StartedOnce ==
  [][\A t \in Tasks :
       /\ exec'[t] = "entered" => exec[t] \in {"none", "entered"}
       /\ exec'[t] = "working" /\ t \in finished => exec[t] = "working"]_vars

Owned(t) ==
  \/ caller[t] \in {"registered", "created", "refused"}
  \/ Cancellable(t)
  \/ jobs[t] = "open" /\ ~LeftInLease(t)
  \/ cancel.task = t

\* Somebody will settle a task that the board shows as pending or running: its
\* caller, its goroutine, a job that may still be claimed, or its cancellation.  The
\* exceptions are a failed access to board or queue, a process that ended without a
\* job for the task or in the last lease of its job, a start whose context was
\* cancelled before the board knew of it, and a dead job.
UnsettledHasOwner ==
  \A t \in Tasks : board[t] \in {"pending", "running"} => Owned(t) \/ t \in stranded

\* The queue is used as DurableWork allows: what is settled stays so, and no
\* job is started more often than it may be.
Queue == INSTANCE DurableWork WITH Jobs <- Tasks, state <- jobs
UsesDurableWork == Queue!Spec

\* Close comes to an end, whatever runs when it is called: the service is open or
\* closed again and again, since a Close that has begun only ends.
CloseTerminates == []<>(service \in {"closed", "open"})

\* A job is settled in the end if agents return, unless the service is closed, a
\* failed write ended its worker, or a failed write or a restart left the job in its
\* last lease; after one that left it in an earlier lease it is claimed again.  An
\* open job only becomes settled, and one left in its last lease stays so until it
\* does, so "again and again" says that it comes to one of these ends.
JobsAreSettled ==
  (\A t \in Tasks : []<>(exec[t] # "working")) =>
    \A t \in Tasks \ Foreground :
      []<>(\/ jobs[t] # "open" \/ LeftInLease(t)
           \/ service # "open" \/ worker.phase = "ended")

\* A task whose cancellation was reported as done has no agent that goes on
\* with a live context.
CancelStopsAgent ==
  \A t \in acked : exec[t] = "working" => ~live[t]
=============================================================================
