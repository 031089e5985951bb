--------------------------- MODULE SessionProcess ---------------------------
(***************************************************************************)
(* One process that opens a session: composeRuntime of                     *)
(* internal/cli/runtime_builder.go.  It opens the task queue of the        *)
(* session (module TaskQueue), cleans it, starts its worker and only then  *)
(* takes the lease of the session, as Resume and NewPersistent do          *)
(* (internal/runtime), on a file lock (internal/session).  A process that  *)
(* is refused closes what it has started.                                  *)
(*                                                                         *)
(* items, queue, worker and stage are the process's own; disk, nextId,     *)
(* now, runs and lease are shared with other processes.                    *)
(***************************************************************************)
EXTENDS TaskQueue

CONSTANT Self \* the ID of the worker of this process

VARIABLES stage, \* how far the process is
          lease  \* whose process has the session, or NoWorker

Holder == IF lease = Self THEN NoWorker ELSE lease

OpenSessionQueue ==
    /\ stage = "begin"
    /\ Open
    /\ stage' = "opened"
    /\ UNCHANGED lease

CleanSessionQueue ==
    /\ stage = "opened"
    /\ CleanupTerminal \/ UNCHANGED vars
    /\ stage' = "cleaned"
    /\ UNCHANGED lease

ConfigureTaskService ==
    /\ stage = "cleaned"
    /\ StartWorker(Self)
    /\ stage' = "started"
    /\ UNCHANGED lease

\* TryAcquire does not wait: a session that is active is an error.
AcquireLease ==
    /\ stage = "started"
    /\ \/ lease = NoWorker /\ lease' = Self /\ stage' = "running"
       \/ lease # NoWorker /\ stage' = "closing" /\ UNCHANGED lease
    /\ UNCHANGED vars

\* The tools of the running session.
UseQueue ==
    /\ stage = "running"
    /\ \E key \in Keys : Enqueue(key) \/ CancelByKey(key)
    /\ UNCHANGED <<stage, lease>>

RunWorker == WorkerStep(Self) /\ UNCHANGED <<stage, lease>>

Shutdown ==
    /\ stage = "running"
    /\ stage' = "closing"
    /\ UNCHANGED <<vars, lease>>

\* The task service cancels the context of its worker, drains it and closes the
\* queue; the lease is the last service to be closed.
StopWorker ==
    /\ stage = "closing"
    /\ IF worker[Self].phase = "done" THEN UNCHANGED vars ELSE CancelContext(Self)
    /\ stage' = "draining"
    /\ UNCHANGED lease

CloseQueue ==
    /\ stage = "draining"
    /\ worker[Self].phase = "done"
    /\ Close
    /\ stage' = "closed"
    /\ UNCHANGED lease

ReleaseLease ==
    /\ stage = "closed"
    /\ stage' = "over"
    /\ lease' = Holder
    /\ UNCHANGED vars

\* The file lock is released with the process.
Die ==
    /\ stage \notin {"begin", "over"}
    /\ Crash
    /\ stage' = "over"
    /\ lease' = Holder

Step ==
    \/ OpenSessionQueue \/ CleanSessionQueue \/ ConfigureTaskService \/ AcquireLease
    \/ UseQueue \/ RunWorker \/ Shutdown \/ StopWorker \/ CloseQueue \/ ReleaseLease \/ Die
=============================================================================
