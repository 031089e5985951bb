------------------------------ MODULE TaskQueue ------------------------------
(***************************************************************************)
(* The durable work queue of internal/tasks/queue.go and the workers that  *)
(* drain it.  A Queue keeps its items in memory behind one mutex; every    *)
(* mutating operation changes them, writes the whole queue to a temporary  *)
(* file and renames it over the old one, and restores the previous items   *)
(* when that fails.  A QueueWorker claims an item under a lease, runs the  *)
(* handler without the mutex and then completes or fails the item.         *)
(*                                                                         *)
(* Each operation holds the mutex throughout, so each is one action; what  *)
(* interleaves is the steps of several workers, of the callers of Enqueue  *)
(* and CancelByKey, the clock, and the death and restart of the process.   *)
(*                                                                         *)
(* Abstractions.  newQueueID draws 16 random bytes: an ID is the next      *)
(* number, so creation order (CreatedAt) is the order of IDs; the clock is *)
(* assumed not to go backwards.  Payloads all have the size PayloadSize.   *)
(* LastError and UpdatedAt are left out.                                   *)
(***************************************************************************)
EXTENDS Integers, FiniteSets

CONSTANTS
    Keys,           \* idempotency keys
    NoKey,          \* the key of no item
    Workers,        \* worker IDs; newQueueID never yields one twice
    NoWorker,       \* the LeaseOwner of an item that is not leased
    Capacity,       \* QueueOptions.Capacity
    MaxAttempts,    \* QueueOptions.MaxAttempts
    LeaseDuration,  \* QueueOptions.LeaseDuration
    BaseBackoff,    \* QueueOptions.BaseBackoff
    MaxBackoff,     \* QueueOptions.MaxBackoff
    PayloadSize,    \* the size of an item in the file, at most maxQueuePayload
    MaxFileSize,    \* maxQueueFileBytes
    MaxItems,       \* bound: the items ever enqueued
    MaxTime         \* bound: the last instant of the clock

\* normalizeQueueOptions replaces every option that is not positive.
ASSUME KeysAssumption == NoKey \notin Keys
ASSUME WorkersAssumption == NoWorker \notin Workers
ASSUME OptionsAssumption ==
    /\ Capacity \in Nat \ {0}
    /\ MaxAttempts \in Nat \ {0}
    /\ LeaseDuration \in Nat \ {0}
    /\ BaseBackoff \in Nat \ {0}
    /\ MaxBackoff \in Nat \ {0}
ASSUME SizeAssumption == PayloadSize \in Nat /\ MaxFileSize \in Nat
ASSUME BoundsAssumption == MaxItems \in Nat /\ MaxTime \in Nat

VARIABLES
    items,   \* Queue.items: what the running process has in memory
    disk,    \* the queue file
    nextId,  \* the ID the next item gets
    queue,   \* "open", "closed" (Queue.closed) or "down" (no process)
    worker,  \* the program counter and the claim of every worker
    now,     \* QueueOptions.Clock
    runs     \* history: how often the handler was started for each ID

vars == <<items, disk, nextId, queue, worker, now, runs>>

-----------------------------------------------------------------------------
Ids == 1..MaxItems
Times == 0..MaxTime

Terminal == {"completed", "cancelled", "dead"}
Active == {"pending", "leased"}
Status == Terminal \cup Active

\* The status "none" marks an ID that no item of the queue has.
Item == [key : Keys \cup {NoKey}, status : Status \cup {"none"},
         attempts : 0..MaxAttempts, availableAt : Times,
         leaseOwner : Workers \cup {NoWorker}, leaseUntil : Times]

NoItem == [key |-> NoKey, status |-> "none", attempts |-> 0,
           availableAt |-> 0, leaseOwner |-> NoWorker, leaseUntil |-> 0]

Present(q) == {id \in Ids : q[id].status # "none"}
ActiveIn(q) == {id \in Ids : q[id].status \in Active}

\* The loop of a worker: "head" is the select at its top and the poll sleep,
\* "claim" is past the select, "busy" is inside the handler with item job,
\* under a lease that ends at until.  signal is what Drain or a cancelled
\* context has told it.
WorkerState == [phase : {"new", "start", "head", "claim", "busy", "done"},
                signal : {"none", "drain", "ctx"},
                job : Ids \cup {0}, until : Times]

NewWorker == [phase |-> "new", signal |-> "none", job |-> 0, until |-> 0]

\* The clock stops at MaxTime, which stands for every later instant.
After(duration) == IF now + duration < MaxTime THEN now + duration ELSE MaxTime

-----------------------------------------------------------------------------
(* What the operations do to one item.                                     *)

\* retryDelay: BaseBackoff doubled attempt - 1 times, unless that passes
\* MaxBackoff.
DelayFor(base, max, attempt) ==
    IF \E d \in 1..max : d = base * 2^(attempt - 1)
    THEN CHOOSE d \in 1..max : d = base * 2^(attempt - 1)
    ELSE max

RetryDelay(attempt) == DelayFor(BaseBackoff, MaxBackoff, attempt)

\* queueJitter adds up to a quarter of the delay.
Backoffs(attempt) ==
    {RetryDelay(attempt) + j : j \in 0..(RetryDelay(attempt) \div 4)}

NewItem(key) == [key |-> key, status |-> "pending", attempts |-> 0,
                 availableAt |-> now, leaseOwner |-> NoWorker, leaseUntil |-> 0]

LeasedTo(item, w) ==
    [item EXCEPT !.status = "leased", !.attempts = @ + 1, !.leaseOwner = w,
                 !.leaseUntil = After(LeaseDuration)]

Released(item, status, available) ==
    [item EXCEPT !.status = status, !.availableAt = available,
                 !.leaseOwner = NoWorker, !.leaseUntil = 0]


\* Mutant: the attempt limit is forgotten.
Retried_NoLimit(item, available) == Released(item, "pending", available)

Retried(item, available) ==
    IF item.attempts >= MaxAttempts THEN Released(item, "dead", 0)
                                    ELSE Released(item, "pending", available)


\* Mutant: a lease counts as expired while it still runs.
Expired_Early(item) == item.status = "leased"

Expired(item) == item.status = "leased" /\ item.leaseUntil <= now


\* Mutant: reconcileLocked recovers nothing.
Reconciled_Nothing(q) == q

\* reconcileLocked
Reconciled(q) == [id \in Ids |-> IF Expired(q[id]) THEN Retried(q[id], now) ELSE q[id]]

Ready(q) == {id \in Ids : q[id].status = "pending" /\ q[id].availableAt <= now}

\* The scan of Claim: the earliest AvailableAt, then the earliest CreatedAt.
FirstReady(q, id) ==
    /\ id \in Ready(q)
    /\ \A other \in Ready(q) :
          \/ q[id].availableAt < q[other].availableAt
          \/ q[id].availableAt = q[other].availableAt /\ id <= other


\* Mutant: mutateLease checks neither status nor worker.
HoldsLease_Unchecked(w, id) == items[id].status # "none"

\* mutateLease: the item is leased, and to this worker.
HoldsLease(w, id) == items[id].status = "leased" /\ items[id].leaseOwner = w


\* Mutant: the caller keeps the new items when the write fails.
Persist_NoRollback(new, ok) ==
    /\ items' = new
    /\ disk' = IF ok THEN new ELSE disk

\* persistLocked writes new over the file; when it fails the caller restores
\* the items it had.
Persist(new, ok) ==
    /\ items' = IF ok THEN new ELSE items
    /\ disk' = IF ok THEN new ELSE disk

\* validateQueueItems, which OpenQueue applies to the file it reads.
ValidItems(q) ==
    \A id, other \in Present(q) : q[id].key = q[other].key => id = other

FileSize(q) == PayloadSize * Cardinality(Present(q))

-----------------------------------------------------------------------------
Init ==
    /\ items = [id \in Ids |-> NoItem]
    /\ disk = [id \in Ids |-> NoItem]
    /\ nextId = 1
    /\ queue = "open"
    /\ worker = [w \in Workers |-> NewWorker]
    /\ now = 0
    /\ runs = [id \in Ids |-> 0]


\* Enqueue.  A known key returns the item that has it and a full queue an
\* error, both without a change.
Enqueue(key) ==
    /\ queue = "open"
    /\ nextId <= MaxItems
    /\ \A id \in Present(items) : items[id].key # key
    /\ Cardinality(ActiveIn(items)) < Capacity
    /\ \E ok \in BOOLEAN :
          /\ Persist([items EXCEPT ![nextId] = NewItem(key)], ok)
          /\ nextId' = IF ok THEN nextId + 1 ELSE nextId
    /\ UNCHANGED <<queue, worker, now, runs>>

\* CancelByKey.  A terminal item is returned as it is.
CancelByKey(key) ==
    /\ queue = "open"
    /\ \E id \in ActiveIn(items), ok \in BOOLEAN :
          /\ items[id].key = key
          /\ Persist([items EXCEPT ![id] = Released(@, "cancelled", 0)], ok)
    /\ UNCHANGED <<nextId, queue, worker, now, runs>>

\* CleanupTerminal, for some olderThan: UpdatedAt is left out, so any
\* terminal items may be the old ones.
CleanupTerminal ==
    /\ queue = "open"
    /\ \E old \in SUBSET {id \in Ids : items[id].status \in Terminal}, ok \in BOOLEAN :
          /\ old # {}
          /\ Persist([id \in Ids |-> IF id \in old THEN NoItem ELSE items[id]], ok)
    /\ UNCHANGED <<nextId, queue, worker, now, runs>>

\* NewQueueWorker and Start.
StartWorker(w) ==
    /\ queue = "open"
    /\ worker[w].phase = "new"
    /\ worker' = [worker EXCEPT ![w].phase = "start"]
    /\ UNCHANGED <<items, disk, nextId, queue, now, runs>>

\* The first statement of run: Reconcile, whose error is dropped.
StartupReconcile(w) ==
    /\ worker[w].phase = "start"
    /\ IF queue = "open" /\ Reconciled(items) # items
       THEN \E ok \in BOOLEAN : Persist(Reconciled(items), ok)
       ELSE UNCHANGED <<items, disk>>
    /\ worker' = [worker EXCEPT ![w].phase = "head"]
    /\ UNCHANGED <<nextId, queue, now, runs>>


\* Mutant: the select does not listen to stopCh and the context.
CheckSignals_Deaf(w) ==
    /\ worker[w].phase = "head"
    /\ worker' = [worker EXCEPT ![w].phase = "claim"]
    /\ UNCHANGED <<items, disk, nextId, queue, now, runs>>

\* The select at the head of the loop, or the one of the poll sleep.
CheckSignals(w) ==
    /\ worker[w].phase = "head"
    /\ worker' = [worker EXCEPT ![w].phase =
                    IF worker[w].signal = "none" THEN "claim" ELSE "done"]
    /\ UNCHANGED <<items, disk, nextId, queue, now, runs>>

\* Claim returns a context or closed error, and the worker returns.
ClaimRefused(w) ==
    /\ worker[w].phase = "claim"
    /\ queue = "closed" \/ worker[w].signal = "ctx"
    /\ worker' = [worker EXCEPT ![w].phase = "done"]
    /\ UNCHANGED <<items, disk, nextId, queue, now, runs>>

\* Claim finds nothing: it restores the items from before its reconcile and
\* the worker goes back to sleep.
ClaimEmpty(w) ==
    /\ worker[w].phase = "claim"
    /\ queue = "open" /\ worker[w].signal # "ctx"
    /\ Ready(Reconciled(items)) = {}
    /\ worker' = [worker EXCEPT ![w].phase = "head"]
    /\ UNCHANGED <<items, disk, nextId, queue, now, runs>>

\* Claim leases the first ready item, and the handler starts on it.  When the
\* queue cannot be written the error ends the worker's loop.
ClaimItem(w) ==
    /\ worker[w].phase = "claim"
    /\ queue = "open" /\ worker[w].signal # "ctx"
    /\ \E id \in Ids, ok \in BOOLEAN :
          /\ FirstReady(Reconciled(items), id)
          /\ Persist([Reconciled(items) EXCEPT ![id] = LeasedTo(@, w)], ok)
          /\ worker' = [worker EXCEPT ![w] =
                IF ok THEN [@ EXCEPT !.phase = "busy", !.job = id,
                                     !.until = After(LeaseDuration)]
                      ELSE [@ EXCEPT !.phase = "done"]]
          /\ runs' = [runs EXCEPT ![id] = IF ok THEN @ + 1 ELSE @]
    /\ UNCHANGED <<nextId, queue, now>>

Claim(w) == ClaimRefused(w) \/ ClaimEmpty(w) \/ ClaimItem(w)

\* mutateLease, and the worker back at its loop head whatever it returned.
MutateLease(w, updates) ==
    /\ IF queue = "open" /\ HoldsLease(w, worker[w].job)
       THEN \E updated \in updates, ok \in BOOLEAN :
               Persist([items EXCEPT ![worker[w].job] = updated], ok)
       ELSE UNCHANGED <<items, disk>>
    /\ worker' = [worker EXCEPT ![w] =
                    [@ EXCEPT !.phase = "head", !.job = 0, !.until = 0]]
    /\ UNCHANGED <<nextId, queue, now, runs>>

\* The handler returned nil.
Complete(w) ==
    /\ worker[w].phase = "busy"
    /\ MutateLease(w, {Released(items[worker[w].job], "completed", 0)})

\* The handler returned an error.
Fail(w) ==
    /\ worker[w].phase = "busy"
    /\ LET item == items[worker[w].job] IN
       MutateLease(w, {Retried(item, After(delay)) : delay \in Backoffs(item.attempts)})

\* Drain closes stopCh; it can only be seen at the head of the loop.
Drain(w) ==
    /\ worker[w].phase \in {"start", "head", "claim", "busy"}
    /\ worker[w].signal = "none"
    /\ worker' = [worker EXCEPT ![w].signal = "drain"]
    /\ UNCHANGED <<items, disk, nextId, queue, now, runs>>

\* Drain before Start: start.Do is used up, and the worker never runs.
DrainUnstarted(w) ==
    /\ queue # "down"
    /\ worker[w].phase = "new"
    /\ worker' = [worker EXCEPT ![w].phase = "done"]
    /\ UNCHANGED <<items, disk, nextId, queue, now, runs>>

\* The context given to Start is cancelled; Claim looks at it too.
CancelContext(w) ==
    /\ worker[w].phase \in {"start", "head", "claim", "busy"}
    /\ worker[w].signal # "ctx"
    /\ worker' = [worker EXCEPT ![w].signal = "ctx"]
    /\ UNCHANGED <<items, disk, nextId, queue, now, runs>>

\* Close writes the queue once more and refuses every later operation.
Close ==
    /\ queue = "open"
    /\ disk' = items
    /\ queue' = "closed"
    /\ UNCHANGED <<items, nextId, worker, now, runs>>

\* The process dies, or exits after Close: memory and workers are gone.
Crash ==
    /\ queue # "down"
    /\ queue' = "down"
    /\ items' = [id \in Ids |-> NoItem]
    /\ worker' = [w \in Workers |-> IF worker[w].phase = "new" THEN worker[w]
                  ELSE [NewWorker EXCEPT !.phase = "done"]]
    /\ UNCHANGED <<disk, nextId, now, runs>>

\* OpenQueue in a new process.
Open ==
    /\ queue = "down"
    /\ FileSize(disk) <= MaxFileSize
    /\ ValidItems(disk)
    /\ items' = disk
    /\ queue' = "open"
    /\ UNCHANGED <<disk, nextId, worker, now, runs>>

Tick ==
    /\ now < MaxTime
    /\ now' = now + 1
    /\ UNCHANGED <<items, disk, nextId, queue, worker, runs>>

WorkerStep(w) ==
    StartupReconcile(w) \/ CheckSignals(w) \/ Claim(w) \/ Complete(w) \/ Fail(w)

Next ==
    \/ \E key \in Keys : Enqueue(key) \/ CancelByKey(key)
    \/ CleanupTerminal
    \/ \E w \in Workers :
          \/ StartWorker(w) \/ WorkerStep(w)
          \/ Drain(w) \/ DrainUnstarted(w) \/ CancelContext(w)
    \/ Close \/ Crash \/ Open \/ Tick

Spec == Init /\ [][Next]_vars

\* The clock advances, and a running worker takes its next step: its loop
\* never waits on anything but a poll timer and a handler, and a handler is an
\* agent run bounded by its turn limit.
Fairness == WF_vars(Tick) /\ \A w \in Workers : WF_vars(WorkerStep(w))

-----------------------------------------------------------------------------
(* Properties.                                                             *)

\* Every variable has its type.
TypeOK ==
    /\ items \in [Ids -> Item]
    /\ disk \in [Ids -> Item]
    /\ nextId \in 1..(MaxItems + 1)
    /\ queue \in {"open", "closed", "down"}
    /\ worker \in [Workers -> WorkerState]
    /\ now \in Times
    /\ runs \in [Ids -> 0..MaxAttempts]

\* What a later process will read is what this one acts on: while the queue
\* is in memory it never differs from its file, whichever writes failed.
MemoryIsDurable == queue # "down" => items = disk

\* A crash, a lost lease, a failed write or a cleanup never buys an item more
\* handler runs than MaxAttempts, nor more than the attempts on its record.
RunsWithinBudget ==
    \A id \in Ids :
        /\ runs[id] <= MaxAttempts
        /\ disk[id].status # "none" => runs[id] <= disk[id].attempts

\* A lease is exclusive until it expires: no second worker runs the handler
\* for an item while the first one is still inside its lease.
RunsAreExclusive ==
    \A w, other \in Workers :
        ( /\ w # other
          /\ worker[w].phase = "busy" /\ worker[other].phase = "busy"
          /\ worker[w].job = worker[other].job )
        => ~(now < worker[w].until /\ now < worker[other].until)

\* A worker that is busy inside its lease still owns its item, unless the
\* item was cancelled under it; so its Complete or Fail will be accepted.
LeaseIsKept ==
    \A w \in Workers : (worker[w].phase = "busy" /\ now < worker[w].until) =>
        LET item == disk[worker[w].job] IN
        \/ item.status = "leased" /\ item.leaseOwner = w
        \/ item.status \in {"cancelled", "none"}

\* The two halves of what a lease promises its worker until it expires.
LeasesAreKept == RunsAreExclusive /\ LeaseIsKept

Live(w) == worker[w].phase \notin {"new", "done"} /\ worker[w].signal = "none"
Serving == queue = "open" /\ \E w \in Workers : Live(w)

\* The lease of the last attempt has run out, and no worker is on the item.
Stranded(id) ==
    /\ Expired(items[id]) /\ items[id].attempts >= MaxAttempts
    /\ \A w \in Workers : worker[w].job # id

\* While a worker serves the queue every active item is settled in the end
\* (retried until it is completed or dead, or cancelled), or it is stranded
\* in its last lease: a claim that finds nothing ready throws away what its
\* reconcile recovered.
ItemsAreSettled ==
    \A id \in Ids : (items[id].status \in Active) ~>
        (~Serving \/ items[id].status \notin Active \/ Stranded(id))

\* What a caller of the queue relies on (module DurableWork).
Place(q, next, id) ==
    IF q[id].status \in Active THEN "open"
    ELSE IF q[id].status \in Terminal THEN "settled"
    ELSE IF id < next THEN "removed" ELSE "absent"

Work == INSTANCE DurableWork WITH
    Jobs <- Ids, state <- [id \in Ids |-> Place(disk, nextId, id)], tries <- runs

\* The file, whatever crashes and failed writes come between, implements
\* bounded retries of durable work.
ImplementsDurableWork == Work!Spec

\* Drain returns: a worker that was told to stop leaves its loop once its
\* handler returns, whatever the queue does meanwhile.
DrainTerminates ==
    \A w \in Workers : (worker[w].signal # "none") ~> (worker[w].phase = "done")
=============================================================================
