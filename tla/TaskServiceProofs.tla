-------------------------- MODULE TaskServiceProofs --------------------------
(***************************************************************************)
(* Proofs about TaskService for any tasks, tries and faults: registry,     *)
(* board and queue agree on what callers were told, no process starts a    *)
(* task twice, every unsettled task has an owner, and the queue is used as *)
(* DurableWork allows.                                                     *)
(***************************************************************************)
EXTENDS TaskService, TLAPS

-----------------------------------------------------------------------------
(* The inductive invariant, one task at a time.                             *)

Working(phase, t) == worker.phase = phase /\ worker.task = t

Cancelling(phase, t) == cancel.phase = phase /\ cancel.task = t

Unsettled(t) == board[t] \in {"pending", "running"}

\* Until task_run has returned, nothing runs or claims its task; a foreground task
\* never has a job, and a background task runs only with one.
CallerInv(t) ==
  /\ caller[t] # "returned" => exec[t] = "none" /\ jobs[t] = "absent"
  /\ caller[t] \in {"none", "registered"} => board[t] = "absent"
  /\ caller[t] \in {"registered", "created"} => registry[t] = "pending"
  /\ registry[t] \in {"absent", "pending"} => exec[t] = "none"
  /\ t \in Foreground => jobs[t] = "absent"
  /\ jobs[t] = "absent" => worker.task # t
  /\ jobs[t] = "absent" /\ t \notin Foreground => exec[t] = "none"

\* Success is on the board before anyone is told, and for good.
SuccessInv(t) ==
  /\ t \in finished \/ registry[t] = "completed" \/ exec[t] = "succeeded" =>
       board[t] = "completed"
  /\ t \in acked => board[t] = "cancelled" /\ (jobs[t] = "settled" \/ t \in Foreground)
  /\ exec[t] = "working" => board[t] # "pending"

\* What task_cancel made sure of before it goes on.
CancelInv(t) ==
  /\ Cancelling("marked", t) \/ Cancelling("killed", t) => exec[t] # "none"
  /\ Cancelling("unqueued", t) => jobs[t] = "settled"
  /\ Cancelling("board", t) => jobs[t] = "settled" \/ t \in Foreground
  /\ cancel.task = t /\ jobs[t] # "absent" => registry[t] # "absent"

\* A goroutine that failed, and a registry that is done with the task, leave
\* nothing on the board that is theirs to settle.
DoneInv(t) ==
  /\ exec[t] \in {"erred", "over"} /\ Unsettled(t) => t \in stranded
  /\ registry[t] \in Settled /\ Unsettled(t) =>
       t \in stranded \/ Cancellable(t) \/ Cancelling("board", t)

\* While the worker brings a task of an earlier process back, its job is open, or
\* the cancellation that settled the job is on its way to the board.
WorkerInv(t) ==
  /\ Working("claimed", t) /\ registry[t] = "absent" => jobs[t] = "open"
  /\ Working("boarding", t) =>
       /\ exec[t] = "none"
       /\ \/ registry[t] = "pending" /\ (jobs[t] = "open" \/ Cancelling("unqueued", t))
          \/ Cancelling("board", t)
          \/ t \in stranded
          \/ board[t] \in Settled

\* UnsettledHasOwner, with the phases of a cancellation that count.
OwnerInv(t) ==
  Unsettled(t) =>
    \/ caller[t] \in {"registered", "created", "refused"}
    \/ Cancellable(t)
    \/ jobs[t] = "open"
    \/ Cancelling("unqueued", t) \/ Cancelling("board", t)
    \/ t \in stranded

TaskInv(t) ==
  CallerInv(t) /\ SuccessInv(t) /\ CancelInv(t) /\ DoneInv(t) /\ WorkerInv(t) /\ OwnerInv(t)

Inv == TypeOK /\ \A t \in Tasks : TaskInv(t)

-----------------------------------------------------------------------------
(* Lemmas about the operators.                                              *)

LEMMA FaultType ==
  ASSUME TypeOK, NEW kind, Fault(kind)
  PROVE  faults' \in 0..MaxFaults
<1>1. MaxFaults \in Nat /\ faults \in 0..MaxFaults
  BY TaskServiceAssumptions DEF TypeOK
<1> QED BY <1>1 DEF Fault

\* The types of what the invariant of a task reads.
LEMMA TaskTypes ==
  ASSUME TypeOK, NEW t \in Tasks
  PROVE  /\ registry[t] \in {"absent", "pending", "running", "completed", "failed", "cancelled"}
         /\ board[t] \in {"absent", "pending", "running", "interrupted",
                          "completed", "failed", "cancelled"}
         /\ jobs[t] \in {"absent", "open", "settled"}
         /\ tries[t] \in 0..MaxAttempts /\ MaxAttempts \in Nat \ {0}
         /\ caller[t] \in {"none", "registered", "created", "refused", "returned"}
         /\ exec[t] \in {"none", "entered", "working", "succeeded", "erred", "over"}
         /\ t # None
  BY TaskServiceAssumptions DEF TypeOK, Settled

LEMMA RecordTypes ==
  ASSUME TypeOK
  PROVE  /\ worker.task \in Tasks \cup {None}
         /\ worker.phase \in {"idle", "ended", "claimed", "boarding", "starting", "waiting"}
         /\ worker.task = None <=> worker.phase \in {"idle", "ended"}
         /\ worker = [phase |-> worker.phase, task |-> worker.task]
         /\ cancel.task \in Tasks \cup {None}
         /\ cancel.phase \in {"idle", "found", "pending", "marked", "killed", "unkilled",
                              "unqueued", "board"}
         /\ cancel.task = None <=> cancel.phase = "idle"
         /\ cancel = [phase |-> cancel.phase, task |-> cancel.task]
<1>1. None \notin Tasks
  BY TaskServiceAssumptions
<1>2. worker \in [phase : {"claimed", "boarding", "starting", "waiting"}, task : Tasks]
                \cup {Idle, Ended}
  BY DEF TypeOK
<1>3. cancel \in [phase : {"found", "pending", "marked", "killed", "unkilled", "unqueued", "board"},
                 task : Tasks] \cup {Idle}
  BY DEF TypeOK
<1>4. /\ worker.task \in Tasks \cup {None}
      /\ worker.phase \in {"idle", "ended", "claimed", "boarding", "starting", "waiting"}
      /\ worker.task = None <=> worker.phase \in {"idle", "ended"}
      /\ worker = [phase |-> worker.phase, task |-> worker.task]
  BY <1>1, <1>2 DEF Idle, Ended
<1>5. /\ cancel.task \in Tasks \cup {None}
      /\ cancel.phase \in {"idle", "found", "pending", "marked", "killed", "unkilled",
                           "unqueued", "board"}
      /\ cancel.task = None <=> cancel.phase = "idle"
      /\ cancel = [phase |-> cancel.phase, task |-> cancel.task]
  BY <1>1, <1>3 DEF Idle
<1> QED BY <1>4, <1>5

MayMove(from, to) ==
  \/ from = "pending" /\ to \in {"running", "cancelled"}
  \/ from = "running" /\ to \in Settled

LEMMA MovesAre ==
  ASSUME NEW from, NEW to
  PROVE  <<from, to>> \in Moves <=> MayMove(from, to)
  BY DEF Moves, MayMove

\* At most task t changes on the board, and stranded only grows.
BoardWritten(t) ==
  /\ board' \in [Tasks -> {"absent", "pending", "running", "interrupted"} \cup Settled]
  /\ faults' \in 0..MaxFaults /\ stranded' \subseteq Tasks
  /\ stranded \subseteq stranded'
  /\ \A e \in Tasks : e # t => board'[e] = board[e]

\* What a transition on the board that returned ok, or failed, has done.
TransitionOutcome(t, to, ok) ==
  /\ ok => \/ board'[t] = to /\ (board[t] = to \/ MayMove(board[t], to))
           \/ to = "failed" /\ board'[t] = "interrupted" /\ board[t] = "interrupted"
  /\ ~ok => /\ board'[t] = board[t]
            /\ t \in stranded' \/ (board[t] # to /\ ~MayMove(board[t], to))

LEMMA BoardTransitionIs ==
  ASSUME TypeOK, NEW t \in Tasks, NEW to \in Settled \cup {"running"}, NEW ok \in BOOLEAN,
         BoardTransition(t, to, ok)
  PROVE  BoardWritten(t) /\ TransitionOutcome(t, to, ok)
<1> USE DEF BoardWritten, TransitionOutcome
<1>1. /\ board \in [Tasks -> {"absent", "pending", "running", "interrupted"} \cup Settled]
      /\ faults \in 0..MaxFaults /\ stranded \subseteq Tasks
  BY DEF TypeOK
<1>2. CASE ok /\ OnBoard(t, to) /\ UNCHANGED board /\ NoFault
  BY <1>1, <1>2 DEF OnBoard, NoFault
<1>3. CASE /\ ok /\ ValidTaskTransition(board[t], to)
           /\ board' = [board EXCEPT ![t] = to] /\ NoFault
  BY <1>1, <1>3, MovesAre DEF ValidTaskTransition, NoFault
<1>4. CASE /\ ~ok /\ ~OnBoard(t, to) /\ ~ValidTaskTransition(board[t], to)
           /\ UNCHANGED board /\ NoFault
  BY <1>1, <1>4, MovesAre DEF OnBoard, ValidTaskTransition, NoFault
<1>5. CASE ~ok /\ FaultOf("board", t) /\ UNCHANGED board
  BY <1>1, <1>5, FaultType DEF FaultOf
<1> QED BY <1>2, <1>3, <1>4, <1>5 DEF BoardTransition

LEMMA BoardPendingIs ==
  ASSUME TypeOK, NEW t \in Tasks, NEW from, NEW ok \in BOOLEAN, BoardPending(t, from, ok)
  PROVE  /\ BoardWritten(t)
         /\ ok => board[t] = from /\ board'[t] = "pending"
         /\ ~ok => board'[t] = board[t]
<1> USE DEF BoardWritten
<1>1. /\ board \in [Tasks -> {"absent", "pending", "running", "interrupted"} \cup Settled]
      /\ faults \in 0..MaxFaults /\ stranded \subseteq Tasks
  BY DEF TypeOK
<1>2. CASE ok /\ board[t] = from /\ board' = [board EXCEPT ![t] = "pending"] /\ NoFault
  BY <1>1, <1>2 DEF NoFault
<1>3. CASE ~ok /\ UNCHANGED board /\ NoFault
  BY <1>1, <1>3 DEF NoFault
<1>4. CASE ~ok /\ FaultOf("board", t) /\ UNCHANGED board
  BY <1>1, <1>4, FaultType DEF FaultOf
<1> QED BY <1>2, <1>3, <1>4 DEF BoardPending

\* How a try of a job ends; failed tells whether the handler returned an error.
TryEnded(t, failed) ==
  /\ jobs' \in [Tasks -> {"absent", "open", "settled"}]
  /\ faults' \in 0..MaxFaults /\ stranded' \subseteq Tasks
  /\ stranded \subseteq stranded' /\ worker' = Idle
  /\ \A e \in Tasks : e # t => jobs'[e] = jobs[e]
  /\ jobs'[t] = jobs[t] \/ jobs'[t] = "settled"
  /\ failed => jobs'[t] = jobs[t] \/ t \in stranded'

LEMMA TryEnds ==
  ASSUME TypeOK, NEW t \in Tasks, NEW failed \in BOOLEAN, jobs[t] # "absent",
         failed => Fails(t), ~failed => Completes(t)
  PROVE  TryEnded(t, failed)
<1> USE DEF TryEnded
<1>1. /\ jobs \in [Tasks -> {"absent", "open", "settled"}]
      /\ faults \in 0..MaxFaults /\ stranded \subseteq Tasks
  BY DEF TypeOK
<1>2. CASE Unwritten(t)
  BY <1>1, <1>2, FaultType DEF Unwritten, FaultOf
<1>3. CASE ~failed /\ worker' = Idle /\ jobs' = [jobs EXCEPT ![t] = "settled"] /\ NoFault
  BY <1>1, <1>3 DEF NoFault
<1>4. CASE /\ worker' = Idle
           /\ jobs' = [jobs EXCEPT ![t] = "settled"]
           /\ stranded' = stranded \cup {t}
           /\ UNCHANGED faults
  BY <1>1, <1>4
<1>5. CASE worker' = Idle /\ jobs' = jobs /\ stranded' = stranded /\ UNCHANGED faults
  BY <1>1, <1>5
<1> QED BY <1>2, <1>3, <1>4, <1>5 DEF Completes, Fails

LEMMA TransitionedIs ==
  ASSUME TypeOK, NEW t \in Tasks, NEW to \in Settled
  PROVE  /\ Transitioned(t, to) \in [Tasks -> {"absent", "pending", "running"} \cup Settled]
         /\ \A e \in Tasks : e # t => Transitioned(t, to)[e] = registry[e]
         /\ IF AllowedTransition(registry[t], to) THEN Transitioned(t, to)[t] = to
                                                  ELSE Transitioned(t, to)[t] = registry[t]
         /\ AllowedTransition(registry[t], to) <=>
              registry[t] = "running" \/ (registry[t] = "pending" /\ to = "cancelled")
<1>1. registry \in [Tasks -> {"absent", "pending", "running"} \cup Settled]
  BY DEF TypeOK
<1>2. AllowedTransition(registry[t], to) <=>
        registry[t] = "running" \/ (registry[t] = "pending" /\ to = "cancelled")
  BY <1>1, MovesAre DEF AllowedTransition, MayMove, Settled
<1> QED BY <1>1, <1>2 DEF Transitioned

\* A task was started.
Begun(t) ==
  /\ registry' \in [Tasks -> {"absent", "pending", "running"} \cup Settled]
  /\ exec' \in [Tasks -> {"none", "entered", "working", "succeeded", "erred", "over"}]
  /\ live' \in [Tasks -> BOOLEAN]
  /\ \A e \in Tasks : e # t => registry'[e] = registry[e] /\ exec'[e] = exec[e]
  /\ registry[t] = "pending" /\ registry'[t] = "running" /\ exec'[t] = "entered"

LEMMA StartedIs ==
  ASSUME TypeOK, NEW t \in Tasks, NEW stopped \in BOOLEAN, CanStart(t), Started(t, stopped)
  PROVE  Begun(t)
<1>1. registry \in [Tasks -> {"absent", "pending", "running"} \cup Settled]
  BY DEF TypeOK
<1>2. registry[t] = "pending"
  BY <1>1, MovesAre DEF CanStart, AllowedTransition, MayMove, Settled
<1>3. live' \in [Tasks -> BOOLEAN]
  BY Zenon DEF TypeOK, Started
<1> QED BY <1>1, <1>2, <1>3 DEF TypeOK, Started, Begun

\* Opening the board fails what it has as running.
LEMMA InterruptedIs ==
  ASSUME TypeOK
  PROVE  /\ Interrupted \in [Tasks -> {"absent", "pending", "running", "interrupted"} \cup Settled]
         /\ \A t \in Tasks : \/ Interrupted[t] = board[t] /\ board[t] # "running"
                             \/ Interrupted[t] = "interrupted" /\ board[t] = "running"
  BY DEF TypeOK, Interrupted

\* A step does not concern task e.
Untouched(e) ==
  /\ registry'[e] = registry[e] /\ board'[e] = board[e] /\ jobs'[e] = jobs[e]
  /\ caller'[e] = caller[e] /\ exec'[e] = exec[e]
  /\ e \in stranded => e \in stranded'
  /\ e \in finished' <=> e \in finished
  /\ e \in acked' <=> e \in acked
  /\ worker' = worker \/ (worker.task # e /\ worker'.task # e)
  /\ cancel' = cancel \/ (cancel.task # e /\ cancel'.task # e)

LEMMA Frame ==
  ASSUME NEW e \in Tasks, TaskInv(e), Untouched(e)
  PROVE  TaskInv(e)'
<1> USE DEF Untouched, Working, Cancelling, Unsettled, Cancellable, Settled
<1>1. CallerInv(e)'
  BY DEF TaskInv, CallerInv
<1>2. SuccessInv(e)'
  BY DEF TaskInv, SuccessInv
<1>3. CancelInv(e)'
  BY DEF TaskInv, CancelInv
<1>4. DoneInv(e)'
  BY DEF TaskInv, DoneInv
<1>5. WorkerInv(e)'
  BY DEF TaskInv, WorkerInv
<1>6. OwnerInv(e)'
  BY DEF TaskInv, OwnerInv
<1> QED BY <1>1, <1>2, <1>3, <1>4, <1>5, <1>6 DEF TaskInv

-----------------------------------------------------------------------------
(* Every step preserves the invariant.                                      *)

LEMMA RunKeeps ==
  ASSUME Inv, NEW t \in Tasks, Run(t)
  PROVE  Inv'
<1> USE DEF Working, Cancelling, Unsettled, Cancellable, Settled
<1>1. TypeOK /\ TaskInv(t) /\ (\A e \in Tasks : TaskInv(e)) /\ \A v \in Tasks : v # None
  BY TaskServiceAssumptions DEF Inv
<1>2. TypeOK'
  BY <1>1 DEF TypeOK, Run
<1>3. ASSUME NEW e \in Tasks, e # t PROVE Untouched(e)
  BY <1>1, <1>3 DEF TypeOK, Untouched, Run
<1>4. /\ caller[t] = "none"
      /\ registry'[t] = "pending"
      /\ caller'[t] = "registered"
      /\ UNCHANGED <<board, jobs, worker, exec, cancel, acked, finished, stranded>>
  BY <1>1 DEF TypeOK, Run
<1>5. TaskInv(t)'
  BY <1>1, <1>4, TaskTypes, RecordTypes
     DEF TaskInv, CallerInv, SuccessInv, CancelInv, DoneInv, WorkerInv, OwnerInv
<1> QED BY <1>1, <1>2, <1>3, <1>5, Frame DEF Inv

LEMMA EnqueueKeeps ==
  ASSUME Inv, NEW t \in Tasks, Enqueue(t)
  PROVE  Inv'
<1> USE DEF Working, Cancelling, Unsettled, Cancellable, Settled
<1>1. TypeOK /\ TaskInv(t) /\ (\A e \in Tasks : TaskInv(e)) /\ \A v \in Tasks : v # None
  BY TaskServiceAssumptions DEF Inv
<1>2. TypeOK'
  BY <1>1, FaultType DEF TypeOK, Enqueue, FaultOf, NoFault
<1>3. ASSUME NEW e \in Tasks, e # t PROVE Untouched(e)
  BY <1>1, FaultType, <1>3 DEF TypeOK, Untouched, Enqueue, FaultOf, NoFault
<1>4. \/ /\ caller[t] = "created"
         /\ t \notin Foreground
         /\ jobs'[t] = "open"
         /\ caller'[t] = "returned"
         /\ UNCHANGED <<registry, board, worker, exec, cancel, acked, finished, stranded>>
      \/ /\ caller[t] = "created"
         /\ t \notin Foreground
         /\ registry'[t] = "absent"
         /\ caller'[t] = "refused"
         /\ stranded \subseteq stranded'
         /\ UNCHANGED <<board, jobs, worker, exec, cancel, acked, finished>>
  BY <1>1, FaultType DEF TypeOK, Enqueue, FaultOf, NoFault
<1>5. TaskInv(t)'
  BY <1>1, <1>4, TaskTypes, RecordTypes
     DEF TaskInv, CallerInv, SuccessInv, CancelInv, DoneInv, WorkerInv, OwnerInv
<1> QED BY <1>1, <1>2, <1>3, <1>5, Frame DEF Inv

LEMMA StartForegroundKeeps ==
  ASSUME Inv, NEW t \in Tasks, StartForeground(t)
  PROVE  Inv'
<1> USE DEF Working, Cancelling, Unsettled, Cancellable, Settled
<1>1. TypeOK /\ TaskInv(t) /\ (\A e \in Tasks : TaskInv(e)) /\ \A v \in Tasks : v # None
  BY TaskServiceAssumptions DEF Inv
<1>2. CanStart(t) => Begun(t)
  BY <1>1, StartedIs DEF StartForeground
<1>3. TypeOK'
  BY <1>1, TaskTypes, <1>2 DEF TypeOK, StartForeground, Begun
<1>4. ASSUME NEW e \in Tasks, e # t PROVE Untouched(e)
  BY <1>1, TaskTypes, <1>2, <1>4 DEF TypeOK, Untouched, StartForeground, Begun
<1>5. \/ /\ caller[t] = "created"
         /\ t \in Foreground
         /\ registry'[t] = "running"
         /\ caller'[t] = "returned"
         /\ exec'[t] = "entered"
         /\ UNCHANGED <<board, jobs, worker, cancel, acked, finished, stranded>>
      \/ /\ caller[t] = "created"
         /\ caller'[t] = "refused"
         /\ UNCHANGED <<registry, board, jobs, worker, exec, cancel, acked, finished, stranded>>
  BY <1>1, TaskTypes, <1>2 DEF TypeOK, StartForeground, Begun
<1>6. TaskInv(t)'
  BY <1>1, <1>5, TaskTypes, RecordTypes
     DEF TaskInv, CallerInv, SuccessInv, CancelInv, DoneInv, WorkerInv, OwnerInv
<1> QED BY <1>1, <1>3, <1>4, <1>6, Frame DEF Inv

LEMMA GiveUpKeeps ==
  ASSUME Inv, NEW t \in Tasks, GiveUp(t)
  PROVE  Inv'
<1> USE DEF Working, Cancelling, Unsettled, Cancellable, Settled
<1>1. TypeOK /\ TaskInv(t) /\ (\A e \in Tasks : TaskInv(e)) /\ \A v \in Tasks : v # None
  BY TaskServiceAssumptions DEF Inv
<1>2. TypeOK'
  BY <1>1 DEF TypeOK, GiveUp
<1>3. ASSUME NEW e \in Tasks, e # t PROVE Untouched(e)
  BY <1>1, <1>3 DEF TypeOK, Untouched, GiveUp
<1>4. UNCHANGED <<registry, board, jobs, caller, worker, exec, cancel, acked, finished, stranded>>
  BY <1>1 DEF TypeOK, GiveUp
<1>5. TaskInv(t)'
  BY <1>1, <1>4, TaskTypes, RecordTypes
     DEF TaskInv, CallerInv, SuccessInv, CancelInv, DoneInv, WorkerInv, OwnerInv
<1> QED BY <1>1, <1>2, <1>3, <1>5, Frame DEF Inv

LEMMA EndExecutionKeeps ==
  ASSUME Inv, NEW t \in Tasks, EndExecution(t)
  PROVE  Inv'
<1> USE DEF Working, Cancelling, Unsettled, Cancellable, Settled
<1>1. TypeOK /\ TaskInv(t) /\ (\A e \in Tasks : TaskInv(e)) /\ \A v \in Tasks : v # None
  BY TaskServiceAssumptions DEF Inv
<1>2. TypeOK'
  BY <1>1, TransitionedIs DEF TypeOK, EndExecution
<1>3. ASSUME NEW e \in Tasks, e # t PROVE Untouched(e)
  BY <1>1, TransitionedIs, <1>3 DEF TypeOK, Untouched, EndExecution
<1>4. \/ /\ exec[t] = "succeeded"
         /\ exec'[t] = "over"
         /\ registry'[t] \in {registry[t], "completed"}
         /\ UNCHANGED <<board, jobs, caller, worker, cancel, acked, finished, stranded>>
      \/ /\ exec[t] = "erred"
         /\ exec'[t] = "over"
         /\ registry'[t] \in {registry[t], "failed"}
         /\ UNCHANGED <<board, jobs, caller, worker, cancel, acked, finished, stranded>>
  BY <1>1, TransitionedIs DEF TypeOK, EndExecution
<1>5. TaskInv(t)'
  BY <1>1, <1>4, TaskTypes, RecordTypes
     DEF TaskInv, CallerInv, SuccessInv, CancelInv, DoneInv, WorkerInv, OwnerInv
<1> QED BY <1>1, <1>2, <1>3, <1>5, Frame DEF Inv

LEMMA ClaimKeeps ==
  ASSUME Inv, NEW t \in Tasks, Claim(t)
  PROVE  Inv'
<1> USE DEF Working, Cancelling, Unsettled, Cancellable, Settled
<1>1. TypeOK /\ TaskInv(t) /\ (\A e \in Tasks : TaskInv(e)) /\ \A v \in Tasks : v # None
  BY TaskServiceAssumptions DEF Inv
<1>2. TypeOK'
  BY <1>1, TaskTypes, RecordTypes DEF TypeOK, Claim, WorkerGoesTo, Idle
<1>3. ASSUME NEW e \in Tasks, e # t PROVE Untouched(e)
  BY <1>1, TaskTypes, RecordTypes, <1>3 DEF TypeOK, Untouched, Claim, WorkerGoesTo, Idle
<1>4. /\ jobs[t] = "open"
      /\ worker'.phase = "claimed" /\ worker'.task = t
      /\ UNCHANGED <<registry, board, jobs, caller, exec, cancel, acked, finished, stranded>>
  BY <1>1, TaskTypes, RecordTypes DEF TypeOK, Claim, WorkerGoesTo, Idle
<1>5. TaskInv(t)'
  BY <1>1, <1>4, TaskTypes, RecordTypes
     DEF TaskInv, CallerInv, SuccessInv, CancelInv, DoneInv, WorkerInv, OwnerInv
<1> QED BY <1>1, <1>2, <1>3, <1>5, Frame DEF Inv

LEMMA BuryKeeps ==
  ASSUME Inv, NEW t \in Tasks, Bury(t)
  PROVE  Inv'
<1> USE DEF Working, Cancelling, Unsettled, Cancellable, Settled
<1>1. TypeOK /\ TaskInv(t) /\ (\A e \in Tasks : TaskInv(e)) /\ \A v \in Tasks : v # None
  BY TaskServiceAssumptions DEF Inv
<1>2. TypeOK'
  BY <1>1, TaskTypes DEF TypeOK, Bury, LeftInLease
<1>3. ASSUME NEW e \in Tasks, e # t PROVE Untouched(e)
  BY <1>1, TaskTypes, <1>3 DEF TypeOK, Untouched, Bury, LeftInLease
<1>4. /\ jobs[t] = "open"
      /\ worker.task # t
      /\ jobs'[t] = "settled"
      /\ stranded \subseteq stranded' /\ t \in stranded'
      /\ UNCHANGED <<registry, board, caller, worker, exec, cancel, acked, finished>>
  BY <1>1, TaskTypes DEF TypeOK, Bury, LeftInLease
<1>5. TaskInv(t)'
  BY <1>1, <1>4, TaskTypes, RecordTypes
     DEF TaskInv, CallerInv, SuccessInv, CancelInv, DoneInv, WorkerInv, OwnerInv
<1> QED BY <1>1, <1>2, <1>3, <1>5, Frame DEF Inv

LEMMA CancelFindsKeeps ==
  ASSUME Inv, NEW t \in Tasks, CancelFinds(t)
  PROVE  Inv'
<1> USE DEF Working, Cancelling, Unsettled, Cancellable, Settled
<1>1. TypeOK /\ TaskInv(t) /\ (\A e \in Tasks : TaskInv(e)) /\ \A v \in Tasks : v # None
  BY TaskServiceAssumptions DEF Inv
<1>2. TypeOK'
  BY <1>1, RecordTypes DEF TypeOK, CancelFinds, Idle
<1>3. ASSUME NEW e \in Tasks, e # t PROVE Untouched(e)
  BY <1>1, RecordTypes, <1>3 DEF TypeOK, Untouched, CancelFinds, Idle
<1>4. /\ cancel.task = None
      /\ registry[t] # "absent"
      /\ cancel'.phase \in {"pending", "found"} /\ cancel'.task = t
      /\ UNCHANGED <<registry, board, jobs, caller, worker, exec, acked, finished, stranded>>
  BY <1>1, RecordTypes DEF TypeOK, CancelFinds, Idle
<1>5. TaskInv(t)'
  BY <1>1, <1>4, TaskTypes, RecordTypes
     DEF TaskInv, CallerInv, SuccessInv, CancelInv, DoneInv, WorkerInv, OwnerInv
<1> QED BY <1>1, <1>2, <1>3, <1>5, Frame DEF Inv

LEMMA KillTaskKeeps ==
  ASSUME Inv, NEW t \in Tasks, KillTask(t)
  PROVE  Inv'
<1> USE DEF Working, Cancelling, Unsettled, Cancellable, Settled
<1>1. TypeOK /\ TaskInv(t) /\ (\A e \in Tasks : TaskInv(e)) /\ \A v \in Tasks : v # None
  BY TaskServiceAssumptions DEF Inv
<1>2. TypeOK'
  BY <1>1, TransitionedIs DEF TypeOK, KillTask, CancelGoesTo, Idle
<1>3. ASSUME NEW e \in Tasks, e # t PROVE Untouched(e)
  BY <1>1, TransitionedIs, <1>3 DEF TypeOK, Untouched, KillTask, CancelGoesTo, Idle
<1>4. \/ /\ cancel.task = t
         /\ cancel.phase \in {"found", "pending"}
         /\ Cancellable(t)
         /\ registry'[t] = "cancelled"
         /\ cancel'.phase = "marked" /\ cancel'.task = t
         /\ UNCHANGED <<board, jobs, caller, worker, exec, acked, finished, stranded>>
      \/ /\ cancel.task = t
         /\ cancel.phase \in {"found", "pending"}
         /\ cancel'.phase = "unkilled" /\ cancel'.task = t
         /\ UNCHANGED <<registry, board, jobs, caller, worker, exec, acked, finished, stranded>>
      \/ /\ cancel.task = t
         /\ cancel.phase \in {"found", "pending"}
         /\ cancel'.task = None
         /\ UNCHANGED <<registry, board, jobs, caller, worker, exec, acked, finished, stranded>>
  BY <1>1, TransitionedIs DEF TypeOK, KillTask, CancelGoesTo, Idle
<1>5. TaskInv(t)'
  BY <1>1, <1>4, TaskTypes, RecordTypes
     DEF TaskInv, CallerInv, SuccessInv, CancelInv, DoneInv, WorkerInv, OwnerInv
<1> QED BY <1>1, <1>2, <1>3, <1>5, Frame DEF Inv

LEMMA KillContextKeeps ==
  ASSUME Inv, NEW t \in Tasks, KillContext(t)
  PROVE  Inv'
<1> USE DEF Working, Cancelling, Unsettled, Cancellable, Settled
<1>1. TypeOK /\ TaskInv(t) /\ (\A e \in Tasks : TaskInv(e)) /\ \A v \in Tasks : v # None
  BY TaskServiceAssumptions DEF Inv
<1>2. TypeOK'
  BY <1>1 DEF TypeOK, KillContext, CancelGoesTo, Idle
<1>3. ASSUME NEW e \in Tasks, e # t PROVE Untouched(e)
  BY <1>1, <1>3 DEF TypeOK, Untouched, KillContext, CancelGoesTo, Idle
<1>4. /\ cancel.task = t
      /\ cancel.phase = "marked"
      /\ cancel'.phase = "killed" /\ cancel'.task = t
      /\ UNCHANGED <<registry, board, jobs, caller, worker, exec, acked, finished, stranded>>
  BY <1>1 DEF TypeOK, KillContext, CancelGoesTo, Idle
<1>5. TaskInv(t)'
  BY <1>1, <1>4, TaskTypes, RecordTypes
     DEF TaskInv, CallerInv, SuccessInv, CancelInv, DoneInv, WorkerInv, OwnerInv
<1> QED BY <1>1, <1>2, <1>3, <1>5, Frame DEF Inv

LEMMA CancelQueueKeeps ==
  ASSUME Inv, NEW t \in Tasks, CancelQueue(t)
  PROVE  Inv'
<1> USE DEF Working, Cancelling, Unsettled, Cancellable, Settled
<1>1. TypeOK /\ TaskInv(t) /\ (\A e \in Tasks : TaskInv(e)) /\ \A v \in Tasks : v # None
  BY TaskServiceAssumptions DEF Inv
<1>2. TypeOK'
  BY <1>1, FaultType DEF TypeOK, CancelQueue, CancelGoesTo, Idle, FaultOf, NoFault
<1>3. ASSUME NEW e \in Tasks, e # t PROVE Untouched(e)
  BY <1>1, FaultType, <1>3
     DEF TypeOK, Untouched, CancelQueue, CancelGoesTo, Idle, FaultOf, NoFault
<1>4. \/ /\ cancel.task = t
         /\ jobs[t] # "absent"
         /\ cancel.phase = "killed"
         /\ jobs'[t] = "settled"
         /\ cancel'.phase = "board" /\ cancel'.task = t
         /\ UNCHANGED <<registry, board, caller, worker, exec, acked, finished, stranded>>
      \/ /\ cancel.task = t
         /\ jobs[t] # "absent"
         /\ cancel.phase = "unkilled"
         /\ jobs'[t] = "settled"
         /\ cancel'.phase = "unqueued" /\ cancel'.task = t
         /\ UNCHANGED <<registry, board, caller, worker, exec, acked, finished, stranded>>
      \/ /\ cancel.task = t
         /\ jobs[t] = "absent"
         /\ cancel.phase = "killed"
         /\ cancel'.phase = "board" /\ cancel'.task = t
         /\ UNCHANGED <<registry, board, jobs, caller, worker, exec, acked, finished, stranded>>
      \/ /\ cancel.task = t
         /\ cancel.phase \in {"killed", "unkilled"}
         /\ cancel'.task = None
         /\ stranded \subseteq stranded'
         /\ UNCHANGED <<registry, board, jobs, caller, worker, exec, acked, finished>>
  BY <1>1, FaultType DEF TypeOK, CancelQueue, CancelGoesTo, Idle, FaultOf, NoFault
<1>5. TaskInv(t)'
  BY <1>1, <1>4, TaskTypes, RecordTypes
     DEF TaskInv, CallerInv, SuccessInv, CancelInv, DoneInv, WorkerInv, OwnerInv
<1> QED BY <1>1, <1>2, <1>3, <1>5, Frame DEF Inv

LEMMA CancelRegistryKeeps ==
  ASSUME Inv, NEW t \in Tasks, CancelRegistry(t)
  PROVE  Inv'
<1> USE DEF Working, Cancelling, Unsettled, Cancellable, Settled
<1>1. TypeOK /\ TaskInv(t) /\ (\A e \in Tasks : TaskInv(e)) /\ \A v \in Tasks : v # None
  BY TaskServiceAssumptions DEF Inv
<1>2. TypeOK'
  BY <1>1, TransitionedIs, TaskTypes DEF TypeOK, CancelRegistry, CancelGoesTo, Idle
<1>3. ASSUME NEW e \in Tasks, e # t PROVE Untouched(e)
  BY <1>1, TransitionedIs, TaskTypes, <1>3
     DEF TypeOK, Untouched, CancelRegistry, CancelGoesTo, Idle
<1>4. \/ /\ cancel.task = t
         /\ cancel.phase = "unqueued"
         /\ registry'[t] = "cancelled"
         /\ cancel'.phase = "board" /\ cancel'.task = t
         /\ UNCHANGED <<board, jobs, caller, worker, exec, acked, finished, stranded>>
      \/ /\ cancel.task = t
         /\ cancel.phase = "unqueued"
         /\ registry[t] \notin {"pending", "running"}
         /\ cancel'.task = None
         /\ UNCHANGED <<registry, board, jobs, caller, worker, exec, acked, finished, stranded>>
  BY <1>1, TransitionedIs, TaskTypes DEF TypeOK, CancelRegistry, CancelGoesTo, Idle
<1>5. TaskInv(t)'
  BY <1>1, <1>4, TaskTypes, RecordTypes
     DEF TaskInv, CallerInv, SuccessInv, CancelInv, DoneInv, WorkerInv, OwnerInv
<1> QED BY <1>1, <1>2, <1>3, <1>5, Frame DEF Inv

LEMMA CreateOnBoardKeeps ==
  ASSUME Inv, NEW t \in Tasks, CreateOnBoard(t)
  PROVE  Inv'
<1> USE DEF Working, Cancelling, Unsettled, Cancellable, Settled
<1>1. TypeOK /\ TaskInv(t) /\ (\A e \in Tasks : TaskInv(e)) /\ \A v \in Tasks : v # None
  BY TaskServiceAssumptions DEF Inv
<1>2. PICK ok \in BOOLEAN : /\ BoardPending(t, "absent", ok)
                           /\ caller' = [caller EXCEPT ![t] = IF ok THEN "created" ELSE "returned"]
                           /\ registry' = IF ok THEN registry ELSE [registry EXCEPT ![t] = "absent"]
  BY DEF CreateOnBoard
<1>3. /\ BoardWritten(t)
      /\ ok => board[t] = "absent" /\ board'[t] = "pending"
      /\ ~ok => board'[t] = board[t]
  BY <1>1, <1>2, BoardPendingIs
<1>4. \/ ok /\ caller' = [caller EXCEPT ![t] = "created"] /\ registry' = registry
      \/ /\ ~ok /\ caller' = [caller EXCEPT ![t] = "returned"]
         /\ registry' = [registry EXCEPT ![t] = "absent"]
  BY <1>2
<1>5. TypeOK'
  BY <1>1, TaskTypes, <1>3, <1>4 DEF TypeOK, CreateOnBoard, BoardWritten
<1>6. ASSUME NEW e \in Tasks, e # t PROVE Untouched(e)
  BY <1>1, TaskTypes, <1>3, <1>4, <1>6 DEF TypeOK, Untouched, CreateOnBoard, BoardWritten
<1>7. \/ /\ caller[t] = "registered"
         /\ board'[t] = "pending"
         /\ caller'[t] = "created"
         /\ stranded \subseteq stranded'
         /\ UNCHANGED <<registry, jobs, worker, exec, cancel, acked, finished>>
      \/ /\ caller[t] = "registered"
         /\ board'[t] = board[t]
         /\ registry'[t] = "absent"
         /\ caller'[t] = "returned"
         /\ stranded \subseteq stranded'
         /\ UNCHANGED <<jobs, worker, exec, cancel, acked, finished>>
  BY <1>1, TaskTypes, <1>3, <1>4 DEF TypeOK, CreateOnBoard, BoardWritten
<1>8. TaskInv(t)'
  BY <1>1, <1>7, TaskTypes, RecordTypes
     DEF TaskInv, CallerInv, SuccessInv, CancelInv, DoneInv, WorkerInv, OwnerInv
<1> QED BY <1>1, <1>5, <1>6, <1>8, Frame DEF Inv

LEMMA RefuseOnBoardKeeps ==
  ASSUME Inv, NEW t \in Tasks, RefuseOnBoard(t)
  PROVE  Inv'
<1> USE DEF Working, Cancelling, Unsettled, Cancellable, Settled
<1>1. TypeOK /\ TaskInv(t) /\ (\A e \in Tasks : TaskInv(e)) /\ \A v \in Tasks : v # None
  BY TaskServiceAssumptions DEF Inv
<1>2. PICK ok \in BOOLEAN : BoardTransition(t, "cancelled", ok)
  BY DEF RefuseOnBoard
<1>3. BoardWritten(t) /\ TransitionOutcome(t, "cancelled", ok)
  BY <1>1, <1>2, BoardTransitionIs
<1>4. TypeOK'
  BY <1>1, TaskTypes, <1>2, <1>3
     DEF TypeOK, RefuseOnBoard, BoardWritten, TransitionOutcome, MayMove
<1>5. ASSUME NEW e \in Tasks, e # t PROVE Untouched(e)
  BY <1>1, TaskTypes, <1>2, <1>3, <1>5
     DEF TypeOK, Untouched, RefuseOnBoard, BoardWritten, TransitionOutcome, MayMove
<1>6. \/ /\ caller[t] = "refused"
         /\ board'[t] = "cancelled" /\ board[t] \in {"pending", "running", "cancelled"}
         /\ caller'[t] = "returned"
         /\ stranded \subseteq stranded'
         /\ UNCHANGED <<registry, jobs, worker, exec, cancel, acked, finished>>
      \/ /\ caller[t] = "refused"
         /\ board'[t] = board[t]
         /\ caller'[t] = "returned"
         /\ stranded \subseteq stranded' /\ (Unsettled(t) => t \in stranded')
         /\ UNCHANGED <<registry, jobs, worker, exec, cancel, acked, finished>>
  BY <1>1, TaskTypes, <1>2, <1>3
     DEF TypeOK, RefuseOnBoard, BoardWritten, TransitionOutcome, MayMove
<1>7. TaskInv(t)'
  BY <1>1, <1>6, TaskTypes, RecordTypes
     DEF TaskInv, CallerInv, SuccessInv, CancelInv, DoneInv, WorkerInv, OwnerInv
<1> QED BY <1>1, <1>4, <1>5, <1>7, Frame DEF Inv

LEMMA EnterKeeps ==
  ASSUME Inv, NEW t \in Tasks, Enter(t)
  PROVE  Inv'
<1> USE DEF Working, Cancelling, Unsettled, Cancellable, Settled
<1>1. TypeOK /\ TaskInv(t) /\ (\A e \in Tasks : TaskInv(e)) /\ \A v \in Tasks : v # None
  BY TaskServiceAssumptions DEF Inv
<1>2. \/ \E ok \in BOOLEAN :
           /\ BoardWritten(t) /\ TransitionOutcome(t, "running", ok)
           /\ exec' = [exec EXCEPT ![t] = IF ok THEN "working" ELSE "erred"]
      \/ /\ exec' = [exec EXCEPT ![t] = "erred"] /\ stranded' = stranded \cup {t}
         /\ UNCHANGED <<board, faults>>
  BY <1>1, BoardTransitionIs DEF Enter
<1>3. TypeOK'
  BY <1>1, TaskTypes, <1>2 DEF TypeOK, Enter, BoardWritten, TransitionOutcome, MayMove
<1>4. ASSUME NEW e \in Tasks, e # t PROVE Untouched(e)
  BY <1>1, TaskTypes, <1>2, <1>4
     DEF TypeOK, Untouched, Enter, BoardWritten, TransitionOutcome, MayMove
<1>5. \/ /\ exec[t] = "entered"
         /\ board'[t] = "running" /\ board[t] \in {"pending", "running"}
         /\ exec'[t] = "working"
         /\ stranded \subseteq stranded'
         /\ UNCHANGED <<registry, jobs, caller, worker, cancel, acked, finished>>
      \/ /\ exec[t] = "entered"
         /\ board'[t] = board[t]
         /\ exec'[t] = "erred"
         /\ stranded \subseteq stranded' /\ (Unsettled(t) => t \in stranded')
         /\ UNCHANGED <<registry, jobs, caller, worker, cancel, acked, finished>>
  BY <1>1, TaskTypes, <1>2 DEF TypeOK, Enter, BoardWritten, TransitionOutcome, MayMove
<1>6. TaskInv(t)'
  BY <1>1, <1>5, TaskTypes, RecordTypes
     DEF TaskInv, CallerInv, SuccessInv, CancelInv, DoneInv, WorkerInv, OwnerInv
<1> QED BY <1>1, <1>3, <1>4, <1>6, Frame DEF Inv

LEMMA FinishAgentKeeps ==
  ASSUME Inv, NEW t \in Tasks, FinishAgent(t)
  PROVE  Inv'
<1> USE DEF Working, Cancelling, Unsettled, Cancellable, Settled
<1>1. TypeOK /\ TaskInv(t) /\ (\A e \in Tasks : TaskInv(e)) /\ \A v \in Tasks : v # None
  BY TaskServiceAssumptions DEF Inv
<1>2. PICK outcome \in Settled, ok \in BOOLEAN :
        /\ BoardTransition(t, outcome, ok)
        /\ exec' = [exec EXCEPT ![t] = IF outcome = "completed" /\ ok THEN "succeeded" ELSE "erred"]
        /\ finished' = IF outcome = "completed" /\ ok THEN finished \cup {t} ELSE finished
  BY DEF FinishAgent
<1>3. BoardWritten(t) /\ TransitionOutcome(t, outcome, ok)
  BY <1>1, <1>2, BoardTransitionIs
<1>4. \/ /\ ok /\ outcome = "completed"
         /\ exec' = [exec EXCEPT ![t] = "succeeded"] /\ finished' = finished \cup {t}
      \/ /\ ~ok \/ outcome \in {"failed", "cancelled"}
         /\ exec' = [exec EXCEPT ![t] = "erred"] /\ finished' = finished
  BY <1>2
<1>5. exec[t] = "working" /\ board[t] # "pending"
  BY <1>1 DEF TaskInv, SuccessInv, FinishAgent
<1>6. TypeOK'
  BY <1>1, TaskTypes, <1>3, <1>4, <1>5
     DEF TypeOK, FinishAgent, BoardWritten, TransitionOutcome, MayMove
<1>7. ASSUME NEW e \in Tasks, e # t PROVE Untouched(e)
  BY <1>1, TaskTypes, <1>3, <1>4, <1>5, <1>7
     DEF TypeOK, Untouched, FinishAgent, BoardWritten, TransitionOutcome, MayMove
<1>8. \/ /\ exec[t] = "working"
         /\ board'[t] = "completed" /\ board[t] \in {"running", "completed"}
         /\ exec'[t] = "succeeded"
         /\ finished' = finished \cup {t}
         /\ stranded \subseteq stranded'
         /\ UNCHANGED <<registry, jobs, caller, worker, cancel, acked>>
      \/ /\ exec[t] = "working"
         /\ board'[t] \notin {"pending", "running"} /\ board[t] \in {board'[t], "running"}
         /\ exec'[t] = "erred"
         /\ stranded \subseteq stranded'
         /\ UNCHANGED <<registry, jobs, caller, worker, cancel, acked, finished>>
      \/ /\ exec[t] = "working"
         /\ board'[t] = board[t]
         /\ exec'[t] = "erred"
         /\ stranded \subseteq stranded' /\ (Unsettled(t) => t \in stranded')
         /\ UNCHANGED <<registry, jobs, caller, worker, cancel, acked, finished>>
  BY <1>1, TaskTypes, <1>3, <1>4, <1>5
     DEF TypeOK, FinishAgent, BoardWritten, TransitionOutcome, MayMove
<1>9. TaskInv(t)'
  BY <1>1, <1>8, TaskTypes, RecordTypes
     DEF TaskInv, CallerInv, SuccessInv, CancelInv, DoneInv, WorkerInv, OwnerInv
<1> QED BY <1>1, <1>6, <1>7, <1>9, Frame DEF Inv

LEMMA BeginKeeps ==
  ASSUME Inv, NEW t \in Tasks, Begin(t)
  PROVE  Inv'
<1> USE DEF Working, Cancelling, Unsettled, Cancellable, Settled
<1>1. TypeOK /\ TaskInv(t) /\ (\A e \in Tasks : TaskInv(e)) /\ \A v \in Tasks : v # None
  BY TaskServiceAssumptions DEF Inv
<1>2. jobs[t] # "absent" /\ worker.task = t
  BY <1>1 DEF TaskInv, CallerInv, Begin
<1>3. registry[t] \in Settled => TryEnded(t, FALSE)
  BY <1>1, <1>2, TryEnds DEF Begin
<1>4. TypeOK'
  BY <1>1, TaskTypes, <1>2, <1>3 DEF TypeOK, Begin, NoFault, WorkerGoesTo, Idle, TryEnded
<1>5. ASSUME NEW e \in Tasks, e # t PROVE Untouched(e)
  BY <1>1, TaskTypes, <1>2, <1>3, <1>5
     DEF TypeOK, Untouched, Begin, NoFault, WorkerGoesTo, Idle, TryEnded
<1>6. \/ /\ worker.task = t
         /\ jobs[t] # "absent"
         /\ registry[t] \in Settled
         /\ jobs'[t] \in {jobs[t], "settled"}
         /\ worker'.task = None
         /\ stranded \subseteq stranded'
         /\ UNCHANGED <<registry, board, caller, exec, cancel, acked, finished>>
      \/ /\ worker.phase = "claimed"
         /\ worker.task = t
         /\ registry[t] = "absent"
         /\ registry'[t] = "pending"
         /\ worker'.phase = "boarding" /\ worker'.task = t
         /\ UNCHANGED <<board, jobs, caller, exec, cancel, acked, finished, stranded>>
      \/ /\ worker.task = t
         /\ worker'.phase \in {"waiting", "starting"} /\ worker'.task = t
         /\ UNCHANGED <<registry, board, jobs, caller, exec, cancel, acked, finished, stranded>>
  BY <1>1, TaskTypes, <1>2, <1>3 DEF TypeOK, Begin, NoFault, WorkerGoesTo, Idle, TryEnded
<1>7. TaskInv(t)'
  BY <1>1, <1>6, TaskTypes, RecordTypes
     DEF TaskInv, CallerInv, SuccessInv, CancelInv, DoneInv, WorkerInv, OwnerInv
<1> QED BY <1>1, <1>4, <1>5, <1>7, Frame DEF Inv

LEMMA BoardKeeps ==
  ASSUME Inv, NEW t \in Tasks, Board(t)
  PROVE  Inv'
<1> USE DEF Working, Cancelling, Unsettled, Cancellable, Settled
<1>1. TypeOK /\ TaskInv(t) /\ (\A e \in Tasks : TaskInv(e)) /\ \A v \in Tasks : v # None
  BY TaskServiceAssumptions DEF Inv
<1>2. jobs[t] # "absent" /\ worker.task = t
  BY <1>1 DEF TaskInv, CallerInv, Board
<1>3. \/ /\ BoardWritten(t) /\ board[t] \in {"absent", "interrupted"} /\ board'[t] = "pending"
         /\ WorkerGoesTo("starting", t) /\ UNCHANGED jobs
      \/ WorkerGoesTo("starting", t) /\ UNCHANGED <<board, jobs, faults, stranded>>
      \/ TryEnded(t, TRUE) /\ UNCHANGED board
  BY <1>1, <1>2, TryEnds, BoardPendingIs DEF Board, NoFault
<1>4. TypeOK'
  BY <1>1, TaskTypes, <1>2, <1>3 DEF TypeOK, Board, WorkerGoesTo, Idle, TryEnded, BoardWritten
<1>5. ASSUME NEW e \in Tasks, e # t PROVE Untouched(e)
  BY <1>1, TaskTypes, <1>2, <1>3, <1>5
     DEF TypeOK, Untouched, Board, WorkerGoesTo, Idle, TryEnded, BoardWritten
<1>6. \/ /\ worker.phase = "boarding"
         /\ worker.task = t
         /\ board[t] \in {"absent", "interrupted"} /\ board'[t] = "pending"
         /\ worker'.phase = "starting" /\ worker'.task = t
         /\ stranded \subseteq stranded'
         /\ UNCHANGED <<registry, jobs, caller, exec, cancel, acked, finished>>
      \/ /\ worker.phase = "boarding"
         /\ worker.task = t
         /\ worker'.phase = "starting" /\ worker'.task = t
         /\ UNCHANGED <<registry, board, jobs, caller, exec, cancel, acked, finished, stranded>>
      \/ /\ worker.task = t
         /\ jobs[t] # "absent"
         /\ worker'.task = None
         /\ jobs'[t] = jobs[t] \/ (jobs'[t] = "settled" /\ t \in stranded')
         /\ stranded \subseteq stranded'
         /\ UNCHANGED <<registry, board, caller, exec, cancel, acked, finished>>
  BY <1>1, TaskTypes, <1>2, <1>3 DEF TypeOK, Board, WorkerGoesTo, Idle, TryEnded, BoardWritten
<1>7. TaskInv(t)'
  BY <1>1, <1>6, TaskTypes, RecordTypes
     DEF TaskInv, CallerInv, SuccessInv, CancelInv, DoneInv, WorkerInv, OwnerInv
<1> QED BY <1>1, <1>4, <1>5, <1>7, Frame DEF Inv

LEMMA StartQueuedKeeps ==
  ASSUME Inv, NEW t \in Tasks, StartQueued(t)
  PROVE  Inv'
<1> USE DEF Working, Cancelling, Unsettled, Cancellable, Settled
<1>1. TypeOK /\ TaskInv(t) /\ (\A e \in Tasks : TaskInv(e)) /\ \A v \in Tasks : v # None
  BY TaskServiceAssumptions DEF Inv
<1>2. jobs[t] # "absent" /\ worker.task = t
  BY <1>1 DEF TaskInv, CallerInv, StartQueued
<1>3. (CanStart(t) => Begun(t)) /\ (~CanStart(t) => TryEnded(t, TRUE))
  BY <1>1, <1>2, TryEnds, StartedIs DEF StartQueued
<1>4. TypeOK'
  BY <1>1, TaskTypes, <1>2, <1>3
     DEF TypeOK, StartQueued, NoFault, WorkerGoesTo, Idle, TryEnded, Begun
<1>5. ASSUME NEW e \in Tasks, e # t PROVE Untouched(e)
  BY <1>1, TaskTypes, <1>2, <1>3, <1>5
     DEF TypeOK, Untouched, StartQueued, NoFault, WorkerGoesTo, Idle, TryEnded, Begun
<1>6. \/ /\ worker.task = t
         /\ jobs[t] # "absent"
         /\ worker'.phase = "waiting" /\ worker'.task = t
         /\ registry'[t] = "running"
         /\ exec'[t] = "entered"
         /\ UNCHANGED <<board, jobs, caller, cancel, acked, finished, stranded>>
      \/ /\ worker.task = t
         /\ jobs[t] # "absent"
         /\ worker'.task = None
         /\ jobs'[t] = jobs[t] \/ (jobs'[t] = "settled" /\ t \in stranded')
         /\ stranded \subseteq stranded'
         /\ UNCHANGED <<registry, board, caller, exec, cancel, acked, finished>>
  BY <1>1, TaskTypes, <1>2, <1>3
     DEF TypeOK, StartQueued, NoFault, WorkerGoesTo, Idle, TryEnded, Begun
<1>7. TaskInv(t)'
  BY <1>1, <1>6, TaskTypes, RecordTypes
     DEF TaskInv, CallerInv, SuccessInv, CancelInv, DoneInv, WorkerInv, OwnerInv
<1> QED BY <1>1, <1>4, <1>5, <1>7, Frame DEF Inv

LEMMA AwaitKeeps ==
  ASSUME Inv, NEW t \in Tasks, Await(t)
  PROVE  Inv'
<1> USE DEF Working, Cancelling, Unsettled, Cancellable, Settled
<1>1. TypeOK /\ TaskInv(t) /\ (\A e \in Tasks : TaskInv(e)) /\ \A v \in Tasks : v # None
  BY TaskServiceAssumptions DEF Inv
<1>2. jobs[t] # "absent" /\ worker.task = t
  BY <1>1 DEF TaskInv, CallerInv, Await
<1>3. (registry[t] \in Settled /\ TryEnded(t, FALSE)) \/ TryEnded(t, TRUE)
  BY <1>1, <1>2, TryEnds DEF Await
<1>4. TypeOK'
  BY <1>1, TaskTypes, <1>2, <1>3 DEF TypeOK, Await, Idle, TryEnded
<1>5. ASSUME NEW e \in Tasks, e # t PROVE Untouched(e)
  BY <1>1, TaskTypes, <1>2, <1>3, <1>5 DEF TypeOK, Untouched, Await, Idle, TryEnded
<1>6. \/ /\ worker.task = t
         /\ jobs[t] # "absent"
         /\ registry[t] \in Settled
         /\ jobs'[t] \in {jobs[t], "settled"}
         /\ worker'.task = None
         /\ stranded \subseteq stranded'
         /\ UNCHANGED <<registry, board, caller, exec, cancel, acked, finished>>
      \/ /\ worker.task = t
         /\ jobs[t] # "absent"
         /\ worker'.task = None
         /\ jobs'[t] = jobs[t] \/ (jobs'[t] = "settled" /\ t \in stranded')
         /\ stranded \subseteq stranded'
         /\ UNCHANGED <<registry, board, caller, exec, cancel, acked, finished>>
  BY <1>1, TaskTypes, <1>2, <1>3 DEF TypeOK, Await, Idle, TryEnded
<1>7. TaskInv(t)'
  BY <1>1, <1>6, TaskTypes, RecordTypes
     DEF TaskInv, CallerInv, SuccessInv, CancelInv, DoneInv, WorkerInv, OwnerInv
<1> QED BY <1>1, <1>4, <1>5, <1>7, Frame DEF Inv

LEMMA CancelBoardKeeps ==
  ASSUME Inv, NEW t \in Tasks, CancelBoard(t)
  PROVE  Inv'
<1> USE DEF Working, Cancelling, Unsettled, Cancellable, Settled
<1>1. TypeOK /\ TaskInv(t) /\ (\A e \in Tasks : TaskInv(e)) /\ \A v \in Tasks : v # None
  BY TaskServiceAssumptions DEF Inv
<1>2. \/ BoardWritten(t) /\ TransitionOutcome(t, "cancelled", TRUE) /\ acked' = acked \cup {t}
      \/ stranded' = stranded \cup {t} /\ UNCHANGED <<board, faults, acked>>
  BY <1>1, BoardTransitionIs DEF CancelBoard
<1>3. TypeOK'
  BY <1>1, TaskTypes, <1>2
     DEF TypeOK, CancelBoard, Idle, BoardWritten, TransitionOutcome, MayMove
<1>4. ASSUME NEW e \in Tasks, e # t PROVE Untouched(e)
  BY <1>1, TaskTypes, <1>2, <1>4
     DEF TypeOK, Untouched, CancelBoard, Idle, BoardWritten, TransitionOutcome, MayMove
<1>5. \/ /\ cancel.task = t
         /\ cancel.phase = "board"
         /\ board'[t] = "cancelled" /\ board[t] \in {"pending", "running", "cancelled"}
         /\ acked' = acked \cup {t}
         /\ cancel'.task = None
         /\ stranded \subseteq stranded'
         /\ UNCHANGED <<registry, jobs, caller, worker, exec, finished>>
      \/ /\ cancel.task = t
         /\ cancel.phase = "board"
         /\ cancel'.task = None
         /\ stranded \subseteq stranded' /\ t \in stranded'
         /\ UNCHANGED <<registry, board, jobs, caller, worker, exec, acked, finished>>
  BY <1>1, TaskTypes, <1>2
     DEF TypeOK, CancelBoard, Idle, BoardWritten, TransitionOutcome, MayMove
<1>6. TaskInv(t)'
  BY <1>1, <1>5, TaskTypes, RecordTypes
     DEF TaskInv, CallerInv, SuccessInv, CancelInv, DoneInv, WorkerInv, OwnerInv
<1> QED BY <1>1, <1>3, <1>4, <1>6, Frame DEF Inv

-----------------------------------------------------------------------------
(* The steps that are not about one task.                                   *)

\* A step that leaves the tasks alone, but for the contexts of their goroutines.
LEMMA QuietKeeps ==
  ASSUME Inv, UNCHANGED <<registry, board, jobs, caller, exec, acked, finished, stranded>>,
         worker' = worker \/ (worker = Idle /\ worker' = Ended), UNCHANGED cancel
  PROVE  \A e \in Tasks : TaskInv(e)'
<1> SUFFICES ASSUME NEW e \in Tasks PROVE TaskInv(e)'
  OBVIOUS
<1>1. TaskInv(e) /\ e # None
  BY TaskServiceAssumptions DEF Inv
<1>2. Untouched(e)
  BY <1>1 DEF Untouched, Idle, Ended
<1> QED BY <1>1, <1>2, Frame

LEMMA QuietSteps ==
  ASSUME Inv, ClaimFails \/ BeginClose \/ WorkerEnds \/ CloseReturns
  PROVE  Inv'
<1>1. TypeOK
  BY DEF Inv
<1>2. CASE ClaimFails
  <2>1. TypeOK'
    BY <1>1, <1>2, FaultType DEF TypeOK, ClaimFails
  <2>2. \A e \in Tasks : TaskInv(e)'
    BY <1>2, QuietKeeps DEF ClaimFails
  <2> QED BY <2>1, <2>2 DEF Inv
<1>3. CASE BeginClose
  <2>1. live' \in [Tasks -> BOOLEAN]
    BY <1>3, Zenon DEF BeginClose
  <2>2. TypeOK'
    BY <1>1, <1>3, <2>1 DEF TypeOK, BeginClose
  <2>3. \A e \in Tasks : TaskInv(e)'
    BY <1>3, QuietKeeps DEF BeginClose
  <2> QED BY <2>2, <2>3 DEF Inv
<1>4. CASE WorkerEnds
  <2>1. TypeOK'
    BY <1>1, <1>4 DEF TypeOK, WorkerEnds
  <2>2. \A e \in Tasks : TaskInv(e)'
    BY <1>4, QuietKeeps DEF WorkerEnds
  <2> QED BY <2>1, <2>2 DEF Inv
<1>5. CASE CloseReturns
  <2>1. TypeOK'
    BY <1>1, <1>5 DEF TypeOK, CloseReturns
  <2>2. \A e \in Tasks : TaskInv(e)'
    BY <1>5, QuietKeeps DEF CloseReturns
  <2> QED BY <2>1, <2>2 DEF Inv
<1> QED BY <1>2, <1>3, <1>4, <1>5

\* Closing the executor marks the tasks that still run, whose goroutines go on.
LEMMA CloseExecutorKeeps ==
  ASSUME Inv, CloseExecutor
  PROVE  Inv'
<1> USE DEF Working, Cancelling, Unsettled, Cancellable, Settled
<1>1. TypeOK /\ worker.phase = "ended" /\ worker.task = None
  BY RecordTypes DEF Inv, CloseExecutor
<1>2. \A t \in Tasks : registry'[t] = registry[t] \/ (registry'[t] = "cancelled" /\ Cancellable(t))
  BY <1>1, TransitionedIs DEF CloseExecutor
<1>3. registry' \in [Tasks -> {"absent", "pending", "running"} \cup Settled]
  <2>1. \A t \in Tasks : registry[t] \in {"absent", "pending", "running"} \cup Settled
    BY <1>1 DEF TypeOK
  <2>2. \A t \in Tasks : registry'[t] \in {"absent", "pending", "running"} \cup Settled
    BY <1>2, <2>1
  <2> QED BY <2>2 DEF CloseExecutor
<1>4. live' \in [Tasks -> BOOLEAN]
  BY DEF CloseExecutor
<1>5. TypeOK'
  BY <1>1, <1>3, <1>4 DEF TypeOK, CloseExecutor
<1>6. ASSUME NEW t \in Tasks PROVE TaskInv(t)'
  <2>1. TaskInv(t) /\ t # None
    BY TaskServiceAssumptions DEF Inv
  <2>2. UNCHANGED <<board, jobs, caller, worker, exec, cancel, acked, finished, stranded>>
    BY DEF CloseExecutor
  <2> QED BY <1>1, <1>2, <2>1, <2>2, TaskTypes, RecordTypes
          DEF TaskInv, CallerInv, SuccessInv, CancelInv, DoneInv, WorkerInv, OwnerInv
<1> QED BY <1>5, <1>6 DEF Inv

LEMMA RestartKeeps ==
  ASSUME Inv, Restart
  PROVE  Inv'
<1> USE DEF Working, Cancelling, Unsettled, Cancellable, Settled
<1>1. TypeOK
  BY DEF Inv
<1>2. faults' \in 0..MaxFaults
  BY <1>1, FaultType DEF TypeOK, Restart
<1>3. TypeOK'
  BY <1>1, <1>2, InterruptedIs DEF TypeOK, Restart
<1>4. ASSUME NEW t \in Tasks PROVE TaskInv(t)'
  <2>1. TaskInv(t) /\ t # None
    BY TaskServiceAssumptions DEF Inv
  <2>2. /\ registry'[t] = "absent" /\ exec'[t] = "none"
        /\ caller'[t] = IF caller[t] = "none" THEN "none" ELSE "returned"
        /\ worker'.task = None /\ cancel'.task = None
        /\ UNCHANGED <<jobs, acked, finished>>
        /\ \/ board'[t] = board[t] /\ board[t] # "running"
           \/ board'[t] = "interrupted" /\ board[t] = "running"
        /\ t \in stranded \/ (jobs[t] # "open" /\ caller[t] # "none") => t \in stranded'
    BY <1>1, InterruptedIs DEF Restart, Idle
  <2> QED BY <1>1, <2>1, <2>2, TaskTypes
          DEF TaskInv, CallerInv, SuccessInv, CancelInv, DoneInv, WorkerInv, OwnerInv
<1> QED BY <1>3, <1>4 DEF Inv

LEMMA NeighbourOpensKeeps ==
  ASSUME Inv, NeighbourOpens
  PROVE  Inv'
<1> USE DEF Working, Cancelling, Unsettled, Cancellable, Settled
<1>1. TypeOK
  BY DEF Inv
<1>2. TypeOK'
  BY <1>1, FaultType, InterruptedIs DEF TypeOK, NeighbourOpens
<1>3. ASSUME NEW t \in Tasks PROVE TaskInv(t)'
  <2>1. TaskInv(t)
    BY DEF Inv
  <2>2. /\ board'[t] = board[t] \/ (board'[t] = "interrupted" /\ board[t] = "running")
        /\ UNCHANGED <<registry, jobs, caller, worker, exec, cancel, acked, finished, stranded>>
    BY <1>1, InterruptedIs DEF NeighbourOpens
  <2> QED BY <1>1, <2>1, <2>2, TaskTypes
          DEF TaskInv, CallerInv, SuccessInv, CancelInv, DoneInv, WorkerInv, OwnerInv
<1> QED BY <1>2, <1>3 DEF Inv

LEMMA InitInv == Init => Inv
<1> SUFFICES ASSUME Init PROVE Inv
  OBVIOUS
<1>1. TypeOK
  <2>1. MaxAttempts \in Nat /\ MaxFaults \in Nat
    BY TaskServiceAssumptions
  <2>2. live \in [Tasks -> BOOLEAN]
    BY DEF Init
  <2> QED BY <2>1, <2>2 DEF Init, TypeOK
<1>2. ASSUME NEW t \in Tasks PROVE TaskInv(t)
  <2>1. t # None
    BY TaskServiceAssumptions
  <2> QED BY <2>1 DEF Init, Idle, TaskInv, CallerInv, SuccessInv, CancelInv, DoneInv, WorkerInv,
                      OwnerInv, Working, Cancelling, Unsettled, Cancellable, Settled
<1> QED BY <1>1, <1>2 DEF Inv

LEMMA TaskKeeps ==
  ASSUME Inv, NEW t \in Tasks,
         \/ Run(t) \/ Caller(t) \/ GiveUp(t) \/ Goroutine(t) \/ FinishAgent(t) \/ Worker(t)
         \/ Bury(t) \/ CancelFinds(t) \/ Cancel(t)
  PROVE  Inv'
<1>1. CASE Caller(t)
  BY <1>1, CreateOnBoardKeeps, EnqueueKeeps, StartForegroundKeeps, RefuseOnBoardKeeps DEF Caller
<1>2. CASE Goroutine(t)
  BY <1>2, EnterKeeps, EndExecutionKeeps DEF Goroutine
<1>3. CASE Worker(t)
  BY <1>3, ClaimKeeps, BeginKeeps, BoardKeeps, StartQueuedKeeps, AwaitKeeps DEF Worker
<1>4. CASE Cancel(t)
  BY <1>4, KillTaskKeeps, KillContextKeeps, CancelQueueKeeps, CancelRegistryKeeps,
     CancelBoardKeeps DEF Cancel
<1> QED BY <1>1, <1>2, <1>3, <1>4, RunKeeps, GiveUpKeeps, FinishAgentKeeps, BuryKeeps,
           CancelFindsKeeps

LEMMA NextInv == Inv /\ [Next]_vars => Inv'
<1> SUFFICES ASSUME Inv, [Next]_vars PROVE Inv'
  OBVIOUS
<1>1. CASE UNCHANGED vars
  <2>1. TypeOK'
    BY <1>1 DEF Inv, TypeOK, vars
  <2>2. \A e \in Tasks : TaskInv(e)'
    BY <1>1, QuietKeeps DEF vars
  <2> QED BY <2>1, <2>2 DEF Inv
<1>2. CASE Next
  BY <1>2, TaskKeeps, QuietSteps, CloseExecutorKeeps, RestartKeeps, NeighbourOpensKeeps
  DEF Next, Close
<1> QED BY <1>1, <1>2

-----------------------------------------------------------------------------
(* The theorems.                                                            *)

LEMMA Invariant == Spec => []Inv
  BY InitInv, NextInv, PTL DEF Spec

\* Registry, board, jobs and the steps of everyone who works on a task keep their
\* types; no job is claimed more than MaxAttempts times.
THEOREM TaskServiceTypeOK == Spec => []TypeOK
<1>1. Inv => TypeOK
  BY DEF Inv
<1> QED BY <1>1, Invariant, PTL

-----------------------------------------------------------------------------
(* What callers were told.                                                  *)

\* The goroutine of a foreground task that a cancellation got hold of has no live
\* context, and no other one will be started.
Stopped(t) == caller[t] = "returned" /\ ~live[t]

Killed(t) == t \in acked \/ Cancelling("killed", t) \/ Cancelling("board", t)

StopInv == \A t \in Foreground : Killed(t) => Stopped(t)

\* Only its caller could start a foreground task, and it has returned.
LEMMA StaysStopped ==
  ASSUME Inv, [Next]_vars, NEW t \in Foreground, Stopped(t)
  PROVE  Stopped(t)'
<1>1. /\ t \in Tasks /\ TypeOK /\ CallerInv(t) /\ caller[t] = "returned" /\ ~live[t]
  BY TaskServiceAssumptions DEF Inv, TaskInv, Stopped
<1>2. worker.task # t
  BY <1>1 DEF CallerInv
<1>3. caller \in [Tasks -> {"none", "registered", "created", "refused", "returned"}]
      /\ live \in [Tasks -> BOOLEAN]
  BY <1>1 DEF TypeOK
<1> HIDE DEF TypeOK
<1>4. caller'[t] = "returned"
  <2>1. \/ caller' = caller
        \/ \E e \in Tasks : \E v : caller[e] # "returned" /\ caller' = [caller EXCEPT ![e] = v]
        \/ Restart
    <3>1. ASSUME NEW e \in Tasks, Caller(e) \/ Run(e)
          PROVE  \E v : caller[e] # "returned" /\ caller' = [caller EXCEPT ![e] = v]
      BY <3>1 DEF Caller, Run, CreateOnBoard, Enqueue, StartForeground, RefuseOnBoard
    <3>2. ASSUME NEW e \in Tasks,
                 Goroutine(e) \/ FinishAgent(e) \/ Worker(e) \/ Cancel(e) \/ GiveUp(e)
                   \/ Bury(e) \/ CancelFinds(e)
          PROVE  caller' = caller
      BY <3>2, Zenon DEF Goroutine, Enter, EndExecution, FinishAgent, Worker, Claim, Begin,
           Board, StartQueued, Await, Cancel, KillTask, KillContext, CancelQueue,
           CancelRegistry, CancelBoard, GiveUp, Bury, CancelFinds
    <3>3. ASSUME ClaimFails \/ BeginClose \/ Close \/ NeighbourOpens \/ UNCHANGED vars
          PROVE  caller' = caller
      BY <3>3, Zenon DEF ClaimFails, BeginClose, Close, WorkerEnds, CloseExecutor,
           CloseReturns, NeighbourOpens, vars
    <3> QED BY <3>1, <3>2, <3>3 DEF Next
  <2>2. Restart => caller'[t] = "returned"
    BY <1>1 DEF Restart
  <2> QED BY <1>1, <1>3, <2>1, <2>2
<1>5. ~live'[t]
  <2>1. ASSUME NEW e \in Tasks, CanStart(e), NEW stopped \in BOOLEAN, Started(e, stopped), e # t
        PROVE  live'[t] = live[t]
    BY <1>3, <2>1 DEF Started
  <2>2. ASSUME NEW e \in Tasks, StartForeground(e) \/ StartQueued(e)
        PROVE  live'[t] = live[t]
    <3>1. e # t
      <4>1. StartForeground(e) => caller[e] = "created"
        BY DEF StartForeground
      <4>2. StartQueued(e) => worker = [phase |-> "starting", task |-> e]
        BY DEF StartQueued
      <4> QED BY <1>1, <1>2, <2>2, <4>1, <4>2
    <3>2. live' = live \/ \E stopped \in BOOLEAN : CanStart(e) /\ Started(e, stopped)
      BY <2>2, Zenon DEF StartForeground, StartQueued
    <3> QED BY <2>1, <3>1, <3>2
  <2>3. ASSUME NEW e \in Tasks,
               \/ Run(e) \/ CreateOnBoard(e) \/ Enqueue(e) \/ RefuseOnBoard(e)
               \/ Goroutine(e) \/ FinishAgent(e) \/ Claim(e) \/ Begin(e) \/ Board(e) \/ Await(e)
               \/ Bury(e) \/ CancelFinds(e)
               \/ KillTask(e) \/ CancelQueue(e) \/ CancelRegistry(e) \/ CancelBoard(e)
        PROVE  live' = live
    BY <2>3, Zenon DEF Run, CreateOnBoard, Enqueue, RefuseOnBoard, Goroutine, Enter,
         EndExecution, FinishAgent, Claim, Begin, Board, Await, Bury, CancelFinds, KillTask,
         CancelQueue, CancelRegistry, CancelBoard
  <2>4. ASSUME NEW e \in Tasks, GiveUp(e) \/ KillContext(e)
        PROVE  ~live'[t]
    BY <1>1, <1>3, <2>4 DEF GiveUp, KillContext
  <2>5. ASSUME ClaimFails \/ WorkerEnds \/ CloseReturns \/ NeighbourOpens \/ UNCHANGED vars
        PROVE  live' = live
    BY <2>5, Zenon DEF ClaimFails, WorkerEnds, CloseReturns, NeighbourOpens, vars
  <2>6. BeginClose \/ CloseExecutor \/ Restart => ~live'[t]
    BY <1>1 DEF BeginClose, CloseExecutor, Restart
  <2> QED BY <1>1, <2>2, <2>3, <2>4, <2>5, <2>6 DEF Next, Caller, Worker, Cancel, Close
<1> QED BY <1>4, <1>5 DEF Stopped

\* A cancellation goes on to the board of a foreground task only from its goroutine.
LEMMA KillStops ==
  ASSUME Inv, [Next]_vars, NEW t \in Foreground, ~Killed(t), Killed(t)'
  PROVE  Stopped(t)'
<1> USE DEF Cancelling, Killed
<1>1. /\ t \in Tasks /\ TypeOK /\ CallerInv(t) /\ CancelInv(t) /\ t # None
      /\ ~(t \in acked) /\ ~(cancel.task = t /\ cancel.phase \in {"killed", "board"})
  BY TaskServiceAssumptions DEF Inv, TaskInv
<1>2. ASSUME NEW e \in Tasks, KillContext(e)
      PROVE  Stopped(t)'
  <2>1. cancel = [phase |-> "marked", task |-> e] /\ cancel' = [phase |-> "killed", task |-> e]
        /\ acked' = acked
    BY <1>2 DEF KillContext, CancelGoesTo
  <2>2. e = t /\ Cancelling("marked", t)
    BY <1>1, <2>1
  <2>3. caller[t] = "returned"
    BY <1>1, <2>2 DEF CallerInv, CancelInv
  <2>4. caller' = caller /\ live' = [live EXCEPT ![t] = FALSE]
    BY <1>2, <2>2 DEF KillContext
  <2> QED BY <1>1, <2>3, <2>4 DEF TypeOK, Stopped
<1>3. ASSUME NEW e \in Tasks,
             CancelFinds(e) \/ KillTask(e) \/ CancelQueue(e) \/ CancelRegistry(e) \/ CancelBoard(e)
      PROVE  FALSE
  <2>1. CASE CancelFinds(e) \/ KillTask(e)
    BY <1>1, <2>1 DEF CancelFinds, KillTask, CancelGoesTo, Idle
  <2>2. CASE CancelQueue(e)
    BY <1>1, <2>2 DEF CancelQueue, CancelGoesTo, Idle
  <2>3. CASE CancelRegistry(e)
    BY <1>1, <2>3 DEF CancelRegistry, CancelGoesTo, Idle, CancelInv, CallerInv
  <2>4. CASE CancelBoard(e)
    BY <1>1, <2>4 DEF CancelBoard, Idle
  <2> QED BY <1>3, <2>1, <2>2, <2>3, <2>4
<1>4. UNCHANGED <<cancel, acked>> \/ (cancel' = Idle /\ acked' = acked)
        \/ \E e \in Tasks : Cancel(e) \/ CancelFinds(e)
  <2>1. ASSUME NEW e \in Tasks,
               \/ Run(e) \/ Caller(e) \/ GiveUp(e) \/ Goroutine(e) \/ FinishAgent(e)
               \/ Worker(e) \/ Bury(e)
        PROVE  UNCHANGED <<cancel, acked>>
    BY <2>1, Zenon DEF Run, Caller, CreateOnBoard, Enqueue, StartForeground, RefuseOnBoard,
         GiveUp, Goroutine, Enter, EndExecution, FinishAgent, Worker, Claim, Begin, Board,
         StartQueued, Await, Bury
  <2>2. ASSUME ClaimFails \/ BeginClose \/ Close \/ NeighbourOpens \/ UNCHANGED vars
        PROVE  UNCHANGED <<cancel, acked>>
    BY <2>2, Zenon DEF ClaimFails, BeginClose, Close, WorkerEnds, CloseExecutor,
         CloseReturns, NeighbourOpens, vars
  <2>3. Restart => cancel' = Idle /\ acked' = acked
    BY DEF Restart
  <2> QED BY <2>1, <2>2, <2>3 DEF Next
<1>5. UNCHANGED <<cancel, acked>> \/ (cancel' = Idle /\ acked' = acked) => FALSE
  BY <1>1 DEF Idle
<1> QED BY <1>2, <1>3, <1>4, <1>5 DEF Cancel

\* A task that is reported as completed is completed on the board; one whose
\* cancellation was reported as done is cancelled there, has no open job, and if its
\* caller waits for it no agent with a live context.
THEOREM TaskServiceReportedIsOnBoard == Spec => []ReportedIsOnBoard
<1>1. Inv /\ StopInv => ReportedIsOnBoard
  <2> SUFFICES ASSUME Inv, StopInv PROVE ReportedIsOnBoard
    OBVIOUS
  <2>1. TypeOK /\ \A t \in Tasks : SuccessInv(t) /\ CallerInv(t)
    BY DEF Inv, TaskInv
  <2>2. \A t \in acked : t \in Foreground => ~live[t]
    BY DEF StopInv, Killed, Stopped
  <2> QED BY <2>1, <2>2 DEF TypeOK, SuccessInv, CallerInv, ReportedIsOnBoard
<1>2. Init => StopInv
  BY DEF Init, StopInv, Killed, Cancelling, Idle
<1>3. Inv /\ StopInv /\ [Next]_vars => StopInv'
  BY StaysStopped, KillStops DEF StopInv
<1> QED BY <1>1, <1>2, <1>3, Invariant, PTL DEF Spec

\* Who leaves a job in its last lease, has failed; and no lease was taken of a job
\* that is not there.
LastLease(t) ==
  /\ jobs[t] = "absent" => tries[t] = 0
  /\ LeftInLease(t) => t \in stranded

\* The worker is on the task that it was on.
SameWorker(t) == worker'.task = worker.task \/ worker.task # t

LEMMA StrandedStay ==
  ASSUME [Next]_vars
  PROVE  stranded \subseteq stranded'
<1> USE DEF FaultOf, NoFault, BoardTransition, BoardPending
<1>1. ASSUME NEW e \in Tasks, Run(e) \/ Caller(e) \/ GiveUp(e) \/ Goroutine(e) \/ FinishAgent(e)
      PROVE  stranded \subseteq stranded'
  BY <1>1 DEF Run, Caller, CreateOnBoard, Enqueue, StartForeground, RefuseOnBoard, GiveUp,
       Goroutine, Enter, EndExecution, FinishAgent
<1>2. ASSUME NEW e \in Tasks, Worker(e) \/ Bury(e)
      PROVE  stranded \subseteq stranded'
  BY <1>2 DEF Worker, Claim, Begin, Board, StartQueued, Await, Bury, Completes, Fails, Unwritten
<1>3. ASSUME NEW e \in Tasks, CancelFinds(e) \/ Cancel(e)
      PROVE  stranded \subseteq stranded'
  BY <1>3 DEF CancelFinds, Cancel, KillTask, KillContext, CancelQueue, CancelRegistry, CancelBoard
<1>4. ASSUME ClaimFails \/ BeginClose \/ Close \/ Restart \/ NeighbourOpens \/ UNCHANGED vars
      PROVE  stranded \subseteq stranded'
  BY <1>4 DEF ClaimFails, Fault, BeginClose, Close, WorkerEnds, CloseExecutor, CloseReturns,
       Restart, NeighbourOpens, vars
<1> QED BY <1>1, <1>2, <1>3, <1>4 DEF Next

LEMMA StepKeepsLastLease ==
  ASSUME Inv, [Next]_vars, NEW t \in Tasks, LastLease(t)
  PROVE  LastLease(t)'
<1> USE DEF LastLease, LeftInLease
<1>1. TypeOK /\ \A e \in Tasks : CallerInv(e) /\ e # None
  BY TaskServiceAssumptions DEF Inv, TaskInv
<1>2. stranded \subseteq stranded' /\ MaxAttempts \in Nat \ {0}
  BY StrandedStay, TaskServiceAssumptions
<1>3. /\ jobs \in [Tasks -> {"absent", "open", "settled"}]
      /\ tries \in [Tasks -> 0..MaxAttempts]
  BY <1>1 DEF TypeOK
<1>4. CASE UNCHANGED <<jobs, tries>> /\ SameWorker(t)
  BY <1>2, <1>4 DEF SameWorker
<1>5. ASSUME NEW e \in Tasks, Enqueue(e)
      PROVE  LastLease(t)'
  <2>1. jobs[e] = "absent"
    BY <1>1, <1>5 DEF Enqueue, CallerInv
  <2> QED BY <1>2, <1>3, <1>5, <2>1 DEF Enqueue
<1>6. ASSUME NEW e \in Tasks, Claim(e)
      PROVE  LastLease(t)'
  BY <1>1, <1>2, <1>3, <1>6 DEF Claim, WorkerGoesTo, Idle
<1>7. ASSUME NEW e \in Tasks, Bury(e) \/ CancelQueue(e)
      PROVE  LastLease(t)'
  BY <1>2, <1>3, <1>7 DEF Bury, CancelQueue
<1>8. ASSUME NEW e \in Tasks, Completes(e) \/ Fails(e), worker.task = e, UNCHANGED tries
      PROVE  LastLease(t)'
  <2>1. CASE Unwritten(e)
    BY <1>1, <1>2, <1>3, <1>8, <2>1 DEF Unwritten, FaultOf, Idle
  <2>2. CASE jobs' = [jobs EXCEPT ![e] = "settled"]
    BY <1>1, <1>2, <1>3, <1>8, <2>2
  <2>3. CASE jobs' = jobs /\ ~(jobs[e] = "open" /\ tries[e] = MaxAttempts)
    BY <1>1, <1>2, <1>3, <1>8, <2>3
  <2> QED BY <1>8, <2>1, <2>2, <2>3 DEF Completes, Fails
<1>9. ASSUME NEW e \in Tasks, Begin(e) \/ Board(e) \/ StartQueued(e) \/ Await(e)
      PROVE  LastLease(t)'
  <2>1. \E phase : worker = [phase |-> phase, task |-> e]
    BY <1>9, Zenon DEF Begin, Board, StartQueued, Await
  <2>2. worker.task = e
    BY <2>1
  <2>3. \/ Completes(e) \/ Fails(e)
        \/ UNCHANGED jobs /\ \E phase : WorkerGoesTo(phase, e)
    BY <1>9, Zenon DEF Begin, Board, StartQueued, Await
  <2>4. UNCHANGED tries
    BY <1>9, Zenon DEF Begin, Board, StartQueued, Await
  <2> QED BY <1>4, <1>8, <2>2, <2>3, <2>4 DEF WorkerGoesTo, SameWorker
<1>10. ASSUME Restart
       PROVE  LastLease(t)'
  <2>1. jobs[t] = "open" => caller[t] # "none"
    BY <1>1 DEF CallerInv
  <2> QED BY <1>2, <1>10, <2>1 DEF Restart
<1>11. ASSUME WorkerEnds \/ ClaimFails
       PROVE  LastLease(t)'
  <2>1. UNCHANGED <<jobs, tries>> /\ worker = Idle
    BY <1>11 DEF WorkerEnds, ClaimFails
  <2> QED BY <1>1, <1>4, <2>1 DEF Idle, SameWorker
<1>12. ASSUME NEW e \in Tasks,
              \/ Run(e) \/ CreateOnBoard(e) \/ StartForeground(e) \/ RefuseOnBoard(e) \/ GiveUp(e)
              \/ Goroutine(e) \/ FinishAgent(e) \/ CancelFinds(e)
              \/ KillTask(e) \/ KillContext(e) \/ CancelRegistry(e) \/ CancelBoard(e)
       PROVE  UNCHANGED <<jobs, tries, worker>>
  BY <1>12, Zenon DEF Run, CreateOnBoard, StartForeground, RefuseOnBoard, GiveUp, Goroutine,
       Enter, EndExecution, FinishAgent, CancelFinds, KillTask, KillContext, CancelRegistry,
       CancelBoard
<1>13. ASSUME BeginClose \/ CloseExecutor \/ CloseReturns \/ NeighbourOpens \/ UNCHANGED vars
       PROVE  UNCHANGED <<jobs, tries, worker>>
  BY <1>13, Zenon DEF BeginClose, CloseExecutor, CloseReturns, NeighbourOpens, vars
<1>14. UNCHANGED worker => SameWorker(t)
  BY DEF SameWorker
<1> QED BY <1>4, <1>5, <1>6, <1>7, <1>9, <1>10, <1>11, <1>12, <1>13, <1>14
        DEF Next, Caller, Worker, Cancel, Close

\* What the board shows as pending or running will be settled by somebody, unless
\* one of the named failures took its owner away.  A job left in its last lease is
\* no owner; that it comes to be left so only by such a failure is LastLease.
THEOREM TaskServiceUnsettledHasOwner == Spec => []UnsettledHasOwner
<1>1. Inv /\ (\A t \in Tasks : LastLease(t)) => UnsettledHasOwner
  BY DEF Inv, TaskInv, OwnerInv, LastLease, UnsettledHasOwner, Owned, Unsettled, Cancelling
<1>2. Init => \A t \in Tasks : LastLease(t)
  BY DEF Init, LastLease, LeftInLease
<1>3. Inv /\ (\A t \in Tasks : LastLease(t)) /\ [Next]_vars => (\A t \in Tasks : LastLease(t))'
  BY StepKeepsLastLease
<1> QED BY <1>1, <1>2, <1>3, Invariant, PTL DEF Spec

-----------------------------------------------------------------------------
(* No task is started twice.                                                *)

\* A goroutine enters only from nothing, and works only on what has not succeeded.
StartsOnce(t) ==
  /\ exec'[t] = "entered" => exec[t] \in {"none", "entered"}
  /\ exec'[t] = "working" /\ t \in finished => exec[t] = "working"

LEMMA StepStartsOnce ==
  ASSUME Inv, [Next]_vars, NEW t \in Tasks
  PROVE  StartsOnce(t)
<1>1. TypeOK /\ CallerInv(t) /\ SuccessInv(t)
  BY DEF Inv, TaskInv
<1>2. CASE exec' = exec
  BY <1>2 DEF StartsOnce
<1>3. ASSUME NEW e \in Tasks, NEW stopped \in BOOLEAN, CanStart(e), Started(e, stopped)
      PROVE  StartsOnce(t)
  <2>1. Begun(e)
    BY <1>1, <1>3, StartedIs
  <2> QED BY <1>1, <2>1 DEF Begun, StartsOnce, CallerInv
<1>4. ASSUME NEW e \in Tasks, Enter(e)
      PROVE  StartsOnce(t)
  <2>1. exec' = [exec EXCEPT ![e] = "erred"] \/
        (exec' = [exec EXCEPT ![e] = "working"] /\ BoardTransition(e, "running", TRUE))
    BY <1>4 DEF Enter
  <2>2. CASE exec' = [exec EXCEPT ![e] = "working"] /\ BoardTransition(e, "running", TRUE)
    <3>1. TransitionOutcome(e, "running", TRUE)
      BY <1>1, <2>2, BoardTransitionIs
    <3>2. board[e] # "completed"
      BY <3>1 DEF TransitionOutcome, MayMove
    <3> QED BY <1>1, <2>2, <3>2 DEF StartsOnce, SuccessInv, TypeOK
  <2> QED BY <1>1, <2>1, <2>2 DEF StartsOnce, TypeOK
<1>5. ASSUME NEW e \in Tasks, FinishAgent(e) \/ EndExecution(e)
      PROVE  StartsOnce(t)
  <2>1. \E v \in {"succeeded", "erred", "over"} : exec' = [exec EXCEPT ![e] = v]
    BY <1>5 DEF FinishAgent, EndExecution
  <2> QED BY <1>1, <2>1 DEF StartsOnce, TypeOK
<1>6. CASE exec' = [v \in Tasks |-> "none"]
  BY <1>6 DEF StartsOnce
<1>7. \/ exec' = exec
      \/ exec' = [v \in Tasks |-> "none"]
      \/ \E e \in Tasks :
           \/ Enter(e) \/ FinishAgent(e) \/ EndExecution(e)
           \/ \E stopped \in BOOLEAN : CanStart(e) /\ Started(e, stopped)
  <2>1. ASSUME NEW e \in Tasks, StartForeground(e) \/ StartQueued(e), exec' # exec
        PROVE  \E stopped \in BOOLEAN : CanStart(e) /\ Started(e, stopped)
    BY <2>1, Zenon DEF StartForeground, StartQueued
  <2>2. ASSUME NEW e \in Tasks, Caller(e)
        PROVE  exec' = exec \/ StartForeground(e)
    BY <2>2, Zenon DEF Caller, CreateOnBoard, Enqueue, RefuseOnBoard
  <2>3. ASSUME NEW e \in Tasks, Worker(e)
        PROVE  exec' = exec \/ StartQueued(e)
    BY <2>3, Zenon DEF Worker, Claim, Begin, Board, Await
  <2>4. ASSUME NEW e \in Tasks, Cancel(e)
        PROVE  exec' = exec
    BY <2>4, Zenon DEF Cancel, KillTask, KillContext, CancelQueue, CancelRegistry, CancelBoard
  <2>5. ASSUME NEW e \in Tasks, Run(e) \/ GiveUp(e) \/ Bury(e) \/ CancelFinds(e)
        PROVE  exec' = exec
    BY <2>5, Zenon DEF Run, GiveUp, Bury, CancelFinds
  <2>6. ASSUME ClaimFails \/ BeginClose \/ Close \/ NeighbourOpens \/ UNCHANGED vars
        PROVE  exec' = exec
    BY <2>6, Zenon DEF ClaimFails, BeginClose, Close, WorkerEnds, CloseExecutor, CloseReturns,
                       NeighbourOpens, vars
  <2>7. Restart => exec' = [v \in Tasks |-> "none"]
    BY DEF Restart
  <2> QED BY <2>1, <2>2, <2>3, <2>4, <2>5, <2>6, <2>7 DEF Next, Goroutine
<1> QED BY <1>2, <1>3, <1>4, <1>5, <1>6, <1>7

\* No process starts a task twice, and no agent runs again once its success was
\* recorded, through crashes, failed writes and repeated claims.
THEOREM TaskServiceStartedOnce == Spec => StartedOnce
<1>1. Inv /\ [Next]_vars =>
        [\A t \in Tasks :
           /\ exec'[t] = "entered" => exec[t] \in {"none", "entered"}
           /\ exec'[t] = "working" /\ t \in finished => exec[t] = "working"]_vars
  BY StepStartsOnce DEF StartsOnce
<1> QED BY <1>1, Invariant, PTL DEF Spec, StartedOnce

-----------------------------------------------------------------------------
(* The queue is used as DurableWork allows.                                 *)

LEMMA StepUsesQueue ==
  ASSUME Inv, [Next]_vars
  PROVE  Queue!Next \/ UNCHANGED <<jobs, tries>>
<1>1. TypeOK /\ \A t \in Tasks : CallerInv(t)
  BY DEF Inv, TaskInv
<1>2. MaxAttempts \in Nat
  BY TaskServiceAssumptions
<1> USE DEF Queue!Next, Queue!Kept, Queue!Submit, Queue!Try, Queue!Settle, Queue!Moves
<1>3. ASSUME NEW t \in Tasks, Enqueue(t)
      PROVE  Queue!Next
  BY <1>1, <1>3 DEF Enqueue, TypeOK, CallerInv
<1>4. ASSUME NEW t \in Tasks, Claim(t)
      PROVE  Queue!Next
  BY <1>1, <1>4 DEF Claim, TypeOK
<1>5. ASSUME NEW t \in Tasks, jobs[t] # "absent",
             jobs' \in [Tasks -> {"absent", "open", "settled"}],
             jobs'[t] \in {jobs[t], "settled"}, UNCHANGED tries,
             \A e \in Tasks : e # t => jobs'[e] = jobs[e]
      PROVE  Queue!Next
  BY <1>1, <1>5 DEF TypeOK
<1>6. ASSUME NEW t \in Tasks, Bury(t) \/ CancelQueue(t), jobs' # jobs
      PROVE  Queue!Next
  <2>1. jobs[t] # "absent" /\ jobs' = [jobs EXCEPT ![t] = "settled"] /\ UNCHANGED tries
    BY <1>6 DEF Bury, LeftInLease, CancelQueue
  <2> QED BY <1>1, <1>5, <2>1 DEF TypeOK
<1>7. ASSUME NEW t \in Tasks, Begin(t) \/ Board(t) \/ StartQueued(t) \/ Await(t), jobs' # jobs
      PROVE  Queue!Next
  <2>1. jobs[t] # "absent"
    <3>1. \E phase : worker = [phase |-> phase, task |-> t]
      BY <1>7, Zenon DEF Begin, Board, StartQueued, Await
    <3>2. worker.task = t
      BY <3>1
    <3> QED BY <1>1, <3>2 DEF CallerInv
  <2>2. UNCHANGED tries /\ (Completes(t) \/ Fails(t))
    BY <1>7 DEF Begin, Board, StartQueued, Await
  <2>3. TryEnded(t, TRUE) \/ TryEnded(t, FALSE)
    BY <1>1, <2>1, <2>2, TryEnds
  <2> QED BY <1>5, <2>1, <2>2, <2>3 DEF TryEnded
<1>8. \/ UNCHANGED <<jobs, tries>>
      \/ \E t \in Tasks :
           \/ Enqueue(t) \/ Claim(t)
           \/ jobs' # jobs /\ (Bury(t) \/ CancelQueue(t))
           \/ jobs' # jobs /\ (Begin(t) \/ Board(t) \/ StartQueued(t) \/ Await(t))
  <2>1. ASSUME NEW t \in Tasks, Caller(t)
        PROVE  Enqueue(t) \/ UNCHANGED <<jobs, tries>>
    BY <2>1, Zenon DEF Caller, CreateOnBoard, StartForeground, RefuseOnBoard
  <2>2. ASSUME NEW t \in Tasks, Goroutine(t) \/ FinishAgent(t)
        PROVE  UNCHANGED <<jobs, tries>>
    BY <2>2, Zenon DEF Goroutine, Enter, EndExecution, FinishAgent
  <2>3. ASSUME NEW t \in Tasks, Worker(t)
        PROVE  \/ Claim(t) \/ UNCHANGED <<jobs, tries>>
               \/ jobs' # jobs /\ (Begin(t) \/ Board(t) \/ StartQueued(t) \/ Await(t))
    BY <2>3, Zenon DEF Worker, Begin, Board, StartQueued, Await
  <2>4. ASSUME NEW t \in Tasks, Cancel(t)
        PROVE  UNCHANGED <<jobs, tries>> \/ (jobs' # jobs /\ CancelQueue(t))
    BY <2>4, Zenon DEF Cancel, KillTask, KillContext, CancelQueue, CancelRegistry, CancelBoard
  <2>5. ASSUME NEW t \in Tasks, Run(t) \/ GiveUp(t) \/ Bury(t) \/ CancelFinds(t)
        PROVE  UNCHANGED <<jobs, tries>> \/ (jobs' # jobs /\ Bury(t))
    BY <2>5, Zenon DEF Run, GiveUp, Bury, CancelFinds
  <2>6. ASSUME ClaimFails \/ BeginClose \/ Close \/ Restart \/ NeighbourOpens \/ UNCHANGED vars
        PROVE  UNCHANGED <<jobs, tries>>
    BY <2>6, Zenon DEF ClaimFails, BeginClose, Close, WorkerEnds, CloseExecutor, CloseReturns,
                       Restart, NeighbourOpens, vars
  <2> QED BY <2>1, <2>2, <2>3, <2>4, <2>5, <2>6 DEF Next
<1> QED BY <1>3, <1>4, <1>6, <1>7, <1>8

\* Every access of the service to its jobs is one that DurableWork allows.
THEOREM TaskServiceUsesDurableWork == Spec => UsesDurableWork
<1>1. Init => Queue!Init
  BY DEF Init, Queue!Init
<1>2. Inv /\ [Next]_vars => [Queue!Next]_(Queue!vars)
  BY StepUsesQueue DEF Queue!vars
<1> QED BY <1>1, <1>2, Invariant, PTL DEF Spec, UsesDurableWork, Queue!Spec
=============================================================================
