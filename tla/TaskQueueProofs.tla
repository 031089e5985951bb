--------------------------- MODULE TaskQueueProofs ---------------------------
(***************************************************************************)
(* Proofs about TaskQueue for every value of its constants: its types, the *)
(* retry budget, the durability of its memory and the exclusiveness of     *)
(* leases.                                                                 *)
(***************************************************************************)
EXTENDS TaskQueue, TLAPS

\* What the attempt counter, the next ID and the history of runs say of one
\* item of a queue q.
Accounted(q, next, started, id) ==
    /\ q[id].status = "pending" => q[id].attempts < MaxAttempts
    /\ q[id].status # "none" => id < next /\ started[id] <= q[id].attempts
    /\ q[id].status = "none" => q[id].attempts = 0
    /\ id >= next => started[id] = 0

AllAccounted(q, next, started) == \A id \in Ids : Accounted(q, next, started, id)

\* A busy worker is busy with an item.
BusyHasJob == \A w \in Workers : worker[w].phase = "busy" => worker[w].job \in Ids

\* The inductive invariant behind the types and the retry budget.  The types
\* alone are not inductive: a claim must find attempts below the limit.
Inv == TypeOK /\ MemoryIsDurable /\ BusyHasJob /\ AllAccounted(disk, nextId, runs)

-----------------------------------------------------------------------------
(* Lemmas about the operators.                                             *)

\* A retry delay is a natural number, whatever the attempt.
LEMMA RetryDelayType ==
    ASSUME NEW attempt
    PROVE  RetryDelay(attempt) \in Nat
<1>1. MaxBackoff \in Nat
  BY OptionsAssumption
<1>2. CASE \E d \in 1..MaxBackoff : d = BaseBackoff * 2^(attempt - 1)
  <2>1. DelayFor(BaseBackoff, MaxBackoff, attempt) \in 1..MaxBackoff
    BY <1>2, Zenon DEF DelayFor
  <2> QED BY <2>1, <1>1 DEF RetryDelay
<1>3. CASE ~ \E d \in 1..MaxBackoff : d = BaseBackoff * 2^(attempt - 1)
  <2>1. DelayFor(BaseBackoff, MaxBackoff, attempt) = MaxBackoff
    BY <1>3, Zenon DEF DelayFor
  <2> QED BY <2>1, <1>1 DEF RetryDelay
<1> QED BY <1>2, <1>3

\* So is a delay with its jitter.
LEMMA BackoffsType ==
    ASSUME NEW attempt
    PROVE  Backoffs(attempt) \subseteq Nat
<1> DEFINE r == RetryDelay(attempt)
<1>1. r \in Nat
  BY RetryDelayType
<1>2. \A j \in 0..(r \div 4) : r + j \in Nat
  <2> HIDE DEF r
  <2> QED BY <1>1
<1> QED BY <1>2 DEF Backoffs

\* A deadline is an instant of the bounded clock, now or later.
LEMMA AfterType ==
    ASSUME now \in Times, NEW duration \in Nat
    PROVE  After(duration) \in Times /\ now <= After(duration)
BY BoundsAssumption DEF After, Times

\* Releasing an item gives an item again.
LEMMA ReleasedType ==
    ASSUME NEW item \in Item, NEW status \in Status, NEW t \in Times
    PROVE  /\ Released(item, status, t) \in Item
           /\ Released(item, status, t).status = status
           /\ Released(item, status, t).attempts = item.attempts
           /\ Released(item, status, t).key = item.key
<1>1. status \in Status \cup {"none"} /\ 0 \in Times /\ NoWorker \in Workers \cup {NoWorker}
  BY BoundsAssumption DEF Times
<1>2. Released(item, status, t) \in Item
  BY <1>1 DEF Released, Item
<1>3. /\ Released(item, status, t).status = status
      /\ Released(item, status, t).attempts = item.attempts
      /\ Released(item, status, t).key = item.key
  BY DEF Released, Item
<1> QED BY <1>2, <1>3

\* So does retrying one; the result is pending only below the attempt limit.
LEMMA RetriedType ==
    ASSUME NEW item \in Item, NEW t \in Times
    PROVE  /\ Retried(item, t) \in Item
           /\ Retried(item, t).status \in {"pending", "dead"}
           /\ Retried(item, t).status = "pending" => item.attempts < MaxAttempts
           /\ Retried(item, t).attempts = item.attempts
<1>1. 0 \in Times /\ "dead" \in Status /\ "pending" \in Status
  BY BoundsAssumption DEF Times, Status, Active, Terminal
<1>2. CASE item.attempts >= MaxAttempts
  BY <1>1, <1>2, ReleasedType DEF Retried
<1>3. CASE ~(item.attempts >= MaxAttempts)
  <2>1. item.attempts \in Nat /\ MaxAttempts \in Nat
    BY OptionsAssumption DEF Item
  <2>2. item.attempts < MaxAttempts
    BY <1>3, <2>1
  <2> QED BY <1>1, <1>3, <2>2, ReleasedType DEF Retried
<1> QED BY <1>2, <1>3

\* One operation that persists q: if q and what the operation does to the
\* other variables are in order, so is the state after it, written or not.
LEMMA PersistKeepsInv ==
    ASSUME Inv, queue = "open", NEW q \in [Ids -> Item], NEW ok \in BOOLEAN,
           Persist(q, ok), queue' = queue,
           worker' \in [Workers -> WorkerState], BusyHasJob', now' \in Times,
           ok => /\ nextId' \in 1..(MaxItems + 1)
                 /\ runs' \in [Ids -> 0..MaxAttempts]
                 /\ AllAccounted(q, nextId', runs'),
           ~ok => nextId' = nextId /\ runs' = runs
    PROVE  Inv'
<1>1. TypeOK'
  BY DEF Inv, TypeOK, Persist
<1>2. MemoryIsDurable'
  BY DEF Inv, MemoryIsDurable, Persist
<1>3. AllAccounted(disk', nextId', runs')
  BY DEF Inv, Persist
<1> QED BY <1>1, <1>2, <1>3 DEF Inv

\* A step that leaves the items, the file and the accounts alone.
LEMMA OtherStepKeepsInv ==
    ASSUME Inv, UNCHANGED <<items, disk, nextId, runs>>,
           queue' \in {"open", "closed", "down"}, queue' # "down" => queue # "down",
           worker' \in [Workers -> WorkerState], BusyHasJob', now' \in Times
    PROVE  Inv'
<1>1. TypeOK'
  BY DEF Inv, TypeOK
<1>2. MemoryIsDurable'
  BY DEF Inv, MemoryIsDurable
<1>3. AllAccounted(disk', nextId', runs')
  BY DEF Inv
<1> QED BY <1>1, <1>2, <1>3 DEF Inv

\* Changing one item that is in the queue keeps the accounts if its attempts
\* stay and it is not made pending at the limit.
LEMMA ReplaceItem ==
    ASSUME Inv, queue = "open", NEW id \in Ids, items[id].status # "none",
           NEW item \in Item, item.status # "none",
           item.attempts = items[id].attempts,
           item.status = "pending" => item.attempts < MaxAttempts
    PROVE  /\ [items EXCEPT ![id] = item] \in [Ids -> Item]
           /\ AllAccounted([items EXCEPT ![id] = item], nextId, runs)
<1> DEFINE q == [items EXCEPT ![id] = item]
<1>1. items = disk /\ items \in [Ids -> Item]
  BY DEF Inv, MemoryIsDurable, TypeOK
<1>2. q \in [Ids -> Item] /\ q[id] = item /\ \A o \in Ids : o # id => q[o] = items[o]
  BY <1>1
<1>3. ASSUME NEW o \in Ids PROVE Accounted(q, nextId, runs, o)
  <2> HIDE DEF q
  <2>1. Accounted(items, nextId, runs, o) /\ Accounted(items, nextId, runs, id)
    BY <1>1 DEF Inv, AllAccounted
  <2> QED BY <1>2, <2>1 DEF Accounted
<1> QED BY <1>2, <1>3 DEF AllAccounted

\* A reconcile keeps them too.
LEMMA ReconciledInOrder ==
    ASSUME Inv, queue = "open"
    PROVE  /\ Reconciled(items) \in [Ids -> Item]
           /\ AllAccounted(Reconciled(items), nextId, runs)
<1>1. items = disk /\ items \in [Ids -> Item] /\ now \in Times
  BY DEF Inv, MemoryIsDurable, TypeOK
<1>2. ASSUME NEW id \in Ids
      PROVE  /\ Reconciled(items)[id] \in Item
             /\ Accounted(Reconciled(items), nextId, runs, id)
  <2>1. Accounted(items, nextId, runs, id) /\ items[id] \in Item
    BY <1>1 DEF Inv, AllAccounted
  <2>2. CASE Expired(items[id])
    <3>1. Reconciled(items)[id] = Retried(items[id], now)
      BY <2>2 DEF Reconciled
    <3>2. items[id].status = "leased"
      BY <2>2 DEF Expired
    <3> QED BY <1>1, <2>1, <3>1, <3>2, RetriedType DEF Accounted
  <2>3. CASE ~Expired(items[id])
    <3>1. Reconciled(items)[id] = items[id]
      BY <2>3 DEF Reconciled
    <3> QED BY <2>1, <3>1 DEF Accounted
  <2> QED BY <2>2, <2>3
<1> QED BY <1>2 DEF AllAccounted, Reconciled

-----------------------------------------------------------------------------
(* The invariant holds initially and every step keeps it.                  *)

LEMMA InitInv == Init => Inv
<1> SUFFICES ASSUME Init PROVE Inv
  OBVIOUS
<1>1. NoItem \in Item
  BY OptionsAssumption, BoundsAssumption DEF NoItem, Item, Times
<1>2. NewWorker \in WorkerState
  BY BoundsAssumption DEF NewWorker, WorkerState, Times
<1>3. 0 \in 0..MaxAttempts /\ 0 \in Times /\ 1 \in 1..(MaxItems + 1)
  BY OptionsAssumption, BoundsAssumption DEF Times
<1>4. TypeOK
  BY <1>1, <1>2, <1>3 DEF Init, TypeOK
<1>5. MemoryIsDurable
  BY DEF Init, MemoryIsDurable
<1>6. AllAccounted(disk, nextId, runs)
  BY DEF Init, AllAccounted, Accounted, NoItem, Ids
<1>7. BusyHasJob
  BY DEF Init, BusyHasJob, NewWorker
<1> QED BY <1>4, <1>5, <1>6, <1>7 DEF Inv

LEMMA EnqueueInv ==
    ASSUME Inv, NEW key \in Keys, Enqueue(key)
    PROVE  Inv'
<1>1. PICK ok \in BOOLEAN :
        /\ Persist([items EXCEPT ![nextId] = NewItem(key)], ok)
        /\ nextId' = IF ok THEN nextId + 1 ELSE nextId
  BY DEF Enqueue
<1> DEFINE q == [items EXCEPT ![nextId] = NewItem(key)]
<1>2. /\ items = disk /\ items \in [Ids -> Item] /\ now \in Times
      /\ nextId \in Ids /\ nextId \in Nat /\ nextId + 1 \in 1..(MaxItems + 1)
  BY BoundsAssumption DEF Enqueue, Inv, MemoryIsDurable, TypeOK, Ids
<1>3. NewItem(key) \in Item
  <2>1. 0 \in 0..MaxAttempts /\ 0 \in Times /\ "pending" \in Status \cup {"none"}
    BY OptionsAssumption, BoundsAssumption DEF Times, Status, Active
  <2> QED BY <1>2, <2>1 DEF NewItem, Item
<1>4. q \in [Ids -> Item] /\ q[nextId] = NewItem(key)
      /\ \A o \in Ids : o # nextId => q[o] = items[o]
  BY <1>2, <1>3
<1>5. AllAccounted(q, nextId + 1, runs)
  <2> HIDE DEF q
  <2> SUFFICES ASSUME NEW o \in Ids PROVE Accounted(q, nextId + 1, runs, o)
    BY DEF AllAccounted
  <2>1. Accounted(items, nextId, runs, o) /\ runs[nextId] = 0 /\ o \in Int
    BY <1>2 DEF Inv, AllAccounted, Accounted, Ids
  <2>2. CASE o = nextId
    <3>1. q[o].status = "pending" /\ q[o].attempts = 0
      BY <1>4, <2>2 DEF NewItem
    <3> QED BY <1>2, <2>1, <2>2, <3>1, OptionsAssumption DEF Accounted
  <2>3. CASE o # nextId
    BY <1>2, <1>4, <2>1, <2>3 DEF Accounted
  <2> QED BY <2>2, <2>3
<1>6. /\ queue = "open" /\ queue' = queue /\ runs' = runs /\ nextId' \in Nat
      /\ worker' \in [Workers -> WorkerState] /\ BusyHasJob' /\ now' \in Times
      /\ runs' \in [Ids -> 0..MaxAttempts]
      /\ ok => nextId' = nextId + 1
      /\ ~ok => nextId' = nextId
  BY <1>1, <1>2 DEF Enqueue, Inv, TypeOK, BusyHasJob
<1> HIDE DEF q
<1>7. Persist(q, ok)
  BY <1>1 DEF q
<1>8. ok => AllAccounted(q, nextId', runs')
  BY <1>5, <1>6
<1> QED BY <1>2, <1>4, <1>6, <1>7, <1>8, PersistKeepsInv

LEMMA CancelByKeyInv ==
    ASSUME Inv, NEW key \in Keys, CancelByKey(key)
    PROVE  Inv'
<1>1. PICK id \in ActiveIn(items), ok \in BOOLEAN :
        Persist([items EXCEPT ![id] = Released(@, "cancelled", 0)], ok)
  BY DEF CancelByKey
<1> DEFINE item == Released(items[id], "cancelled", 0)
<1>2. /\ queue = "open" /\ UNCHANGED <<nextId, queue, worker, now, runs>>
      /\ id \in Ids /\ items[id] \in Item /\ items[id].status # "none"
  BY DEF CancelByKey, ActiveIn, Active, Inv, TypeOK
<1>3. item \in Item /\ item.status = "cancelled" /\ item.attempts = items[id].attempts
  BY <1>2, ReleasedType, BoundsAssumption DEF Status, Terminal, Times
<1> HIDE DEF item
<1>4. /\ [items EXCEPT ![id] = item] \in [Ids -> Item]
      /\ AllAccounted([items EXCEPT ![id] = item], nextId, runs)
  BY <1>2, <1>3, ReplaceItem
<1>5. Persist([items EXCEPT ![id] = item], ok)
  BY <1>1 DEF item
<1>6. nextId' \in 1..(MaxItems + 1) /\ runs' \in [Ids -> 0..MaxAttempts]
      /\ worker' \in [Workers -> WorkerState] /\ BusyHasJob' /\ now' \in Times
  BY <1>2 DEF Inv, TypeOK, BusyHasJob
<1> QED BY <1>2, <1>4, <1>5, <1>6, PersistKeepsInv

LEMMA CleanupInv ==
    ASSUME Inv, CleanupTerminal
    PROVE  Inv'
<1>1. PICK old \in SUBSET {id \in Ids : items[id].status \in Terminal}, ok \in BOOLEAN :
        Persist([id \in Ids |-> IF id \in old THEN NoItem ELSE items[id]], ok)
  BY DEF CleanupTerminal
<1> DEFINE q == [id \in Ids |-> IF id \in old THEN NoItem ELSE items[id]]
<1>2. /\ queue = "open" /\ UNCHANGED <<nextId, queue, worker, now, runs>>
      /\ items = disk /\ items \in [Ids -> Item]
  BY DEF CleanupTerminal, Inv, TypeOK, MemoryIsDurable
<1>3. NoItem \in Item /\ NoItem.status = "none" /\ NoItem.attempts = 0
  BY OptionsAssumption, BoundsAssumption DEF NoItem, Item, Times
<1>4. q \in [Ids -> Item]
  BY <1>2, <1>3
<1>5. AllAccounted(q, nextId, runs)
  <2> SUFFICES ASSUME NEW o \in Ids PROVE Accounted(q, nextId, runs, o)
    BY DEF AllAccounted
  <2>1. Accounted(items, nextId, runs, o)
    BY <1>2 DEF Inv, AllAccounted
  <2>2. q[o] = IF o \in old THEN NoItem ELSE items[o]
    OBVIOUS
  <2> HIDE DEF q
  <2> QED BY <1>3, <2>1, <2>2 DEF Accounted
<1> HIDE DEF q
<1>6. Persist(q, ok)
  BY <1>1 DEF q
<1>7. nextId' \in 1..(MaxItems + 1) /\ runs' \in [Ids -> 0..MaxAttempts]
      /\ worker' \in [Workers -> WorkerState] /\ BusyHasJob' /\ now' \in Times
  BY <1>2 DEF Inv, TypeOK, BusyHasJob
<1> QED BY <1>2, <1>4, <1>5, <1>6, <1>7, PersistKeepsInv

LEMMA ClaimItemInv ==
    ASSUME Inv, NEW w \in Workers, ClaimItem(w)
    PROVE  Inv'
<1> DEFINE r == Reconciled(items)
<1>1. PICK id \in Ids, ok \in BOOLEAN :
        /\ FirstReady(r, id)
        /\ Persist([r EXCEPT ![id] = LeasedTo(@, w)], ok)
        /\ worker' = [worker EXCEPT ![w] =
              IF ok THEN [@ EXCEPT !.phase = "busy", !.job = id,
                                   !.until = After(LeaseDuration)]
                    ELSE [@ EXCEPT !.phase = "done"]]
        /\ runs' = [runs EXCEPT ![id] = IF ok THEN @ + 1 ELSE @]
  BY DEF ClaimItem
<1> DEFINE leased == LeasedTo(r[id], w)
           q == [r EXCEPT ![id] = leased]
<1>2. /\ queue = "open" /\ UNCHANGED <<nextId, queue, now>>
      /\ r \in [Ids -> Item] /\ AllAccounted(r, nextId, runs)
      /\ worker \in [Workers -> WorkerState] /\ now \in Times
      /\ runs \in [Ids -> 0..MaxAttempts] /\ nextId \in 1..(MaxItems + 1)
  BY ReconciledInOrder DEF ClaimItem, Inv, TypeOK
<1>3. Persist(q, ok)
  BY <1>1
<1> HIDE DEF r
<1>4. After(LeaseDuration) \in Times
  BY <1>2, AfterType, OptionsAssumption
<1>5. /\ r[id] \in Item /\ r[id].status = "pending" /\ r[id].attempts < MaxAttempts
      /\ runs[id] <= r[id].attempts /\ id < nextId
  BY <1>1, <1>2 DEF FirstReady, Ready, AllAccounted, Accounted
<1>6. r[id].attempts \in Nat /\ runs[id] \in Nat /\ MaxAttempts \in Nat
  BY <1>2, <1>5, OptionsAssumption DEF Item
<1>7. leased \in Item /\ leased.status = "leased" /\ leased.attempts = r[id].attempts + 1
  <2>1. r[id].attempts + 1 \in 0..MaxAttempts
    BY <1>5, <1>6
  <2>2. "leased" \in Status \cup {"none"} /\ w \in Workers \cup {NoWorker}
    BY DEF Status, Active
  <2>3. leased \in Item
    BY <1>4, <1>5, <2>1, <2>2 DEF LeasedTo, Item
  <2>4. leased.status = "leased" /\ leased.attempts = r[id].attempts + 1
    BY <1>5 DEF LeasedTo, Item
  <2> QED BY <2>3, <2>4
<1> HIDE DEF leased
<1>8. q \in [Ids -> Item] /\ q[id] = leased /\ \A o \in Ids : o # id => q[o] = r[o]
  BY <1>2, <1>7
<1>9. worker' \in [Workers -> WorkerState]
  <2>1. worker[w] \in WorkerState
    BY <1>2
  <2>2. [worker[w] EXCEPT !.phase = "done"] \in WorkerState
    BY <2>1 DEF WorkerState
  <2>3. [worker[w] EXCEPT !.phase = "busy", !.job = id, !.until = After(LeaseDuration)]
           \in WorkerState
    <3>1. id \in Ids \cup {0}
      OBVIOUS
    <3> QED BY <1>4, <2>1, <3>1 DEF WorkerState
  <2> QED BY <1>1, <1>2, <2>2, <2>3
<1>12. BusyHasJob'
  <2> SUFFICES ASSUME NEW v \in Workers, worker'[v].phase = "busy"
               PROVE  worker'[v].job \in Ids
    BY DEF BusyHasJob
  <2>1. CASE v = w /\ ok
    BY <1>1, <1>2, <2>1 DEF WorkerState
  <2>2. CASE v = w /\ ~ok
    BY <1>1, <1>2, <2>2 DEF WorkerState
  <2>3. CASE v # w
    BY <1>1, <1>2, <2>3 DEF Inv, BusyHasJob
  <2> QED BY <2>1, <2>2, <2>3
<1>10. CASE ok
  <2>1. runs' = [runs EXCEPT ![id] = @ + 1]
    BY <1>1, <1>10
  <2>2. runs[id] + 1 \in 0..MaxAttempts
    BY <1>5, <1>6
  <2>3. runs' \in [Ids -> 0..MaxAttempts]
    BY <1>2, <2>1, <2>2
  <2>4. AllAccounted(q, nextId, runs')
    <3> HIDE DEF q
    <3> SUFFICES ASSUME NEW o \in Ids PROVE Accounted(q, nextId, runs', o)
      BY DEF AllAccounted
    <3>1. Accounted(r, nextId, runs, o)
      BY <1>2 DEF AllAccounted
    <3>2. CASE o = id
      <4>1. runs'[id] = runs[id] + 1
        BY <1>2, <2>1
      <4> QED BY <1>2, <1>5, <1>6, <1>7, <1>8, <3>2, <4>1 DEF Accounted, Ids
    <3>3. CASE o # id
      <4>1. runs'[o] = runs[o]
        BY <1>2, <2>1, <3>3
      <4> QED BY <1>8, <3>1, <3>3, <4>1 DEF Accounted
    <3> QED BY <3>2, <3>3
  <2> HIDE DEF q
  <2> QED BY <1>2, <1>3, <1>8, <1>9, <1>10, <1>12, <2>3, <2>4, PersistKeepsInv
<1>11. CASE ~ok
  <2>1. runs' = runs
    BY <1>1, <1>2, <1>11
  <2> HIDE DEF q
  <2> QED BY <1>2, <1>3, <1>8, <1>9, <1>11, <1>12, <2>1, PersistKeepsInv
<1> QED BY <1>10, <1>11

\* A worker that settles its claim keeps the invariant, if every update it may
\* make is an item in order.
LEMMA MutateLeaseInv ==
    ASSUME Inv, NEW w \in Workers, NEW updates, MutateLease(w, updates),
           worker[w].phase = "busy",
           HoldsLease(w, worker[w].job) =>
              \A item \in updates :
                 /\ item \in Item /\ item.status # "none"
                 /\ item.attempts = items[worker[w].job].attempts
                 /\ item.status = "pending" => item.attempts < MaxAttempts
    PROVE  Inv'
<1> DEFINE id == worker[w].job
<1>0. id \in Ids
  BY DEF Inv, BusyHasJob
<1>1. UNCHANGED <<nextId, queue, now, runs>>
  BY DEF MutateLease
<1>2. worker' \in [Workers -> WorkerState] /\ BusyHasJob'
  <2>1. worker[w] \in WorkerState /\ 0 \in Times /\ 0 \in Ids \cup {0}
    BY BoundsAssumption DEF Inv, TypeOK, Times
  <2>2. [worker[w] EXCEPT !.phase = "head", !.job = 0, !.until = 0] \in WorkerState
    BY <2>1 DEF WorkerState
  <2>3. worker' \in [Workers -> WorkerState]
    BY <2>2 DEF MutateLease, Inv, TypeOK
  <2>4. worker'[w].phase = "head" /\ \A v \in Workers : v # w => worker'[v] = worker[v]
    BY <2>1 DEF MutateLease, Inv, TypeOK, WorkerState
  <2>5. BusyHasJob'
    BY <2>4 DEF Inv, BusyHasJob
  <2> QED BY <2>3, <2>5
<1>3. nextId' \in 1..(MaxItems + 1) /\ runs' \in [Ids -> 0..MaxAttempts] /\ now' \in Times
      /\ queue' \in {"open", "closed", "down"}
  BY <1>1 DEF Inv, TypeOK
<1>4. CASE queue = "open" /\ HoldsLease(w, id)
  <2>1. PICK item \in updates, ok \in BOOLEAN : Persist([items EXCEPT ![id] = item], ok)
    BY <1>4 DEF MutateLease
  <2>2. items[id].status # "none"
    BY <1>4 DEF HoldsLease
  <2>3. /\ [items EXCEPT ![id] = item] \in [Ids -> Item]
        /\ AllAccounted([items EXCEPT ![id] = item], nextId, runs)
    BY <1>0, <1>4, <2>2, ReplaceItem
  <2> QED BY <1>1, <1>2, <1>3, <1>4, <2>1, <2>3, PersistKeepsInv
<1>5. CASE ~(queue = "open" /\ HoldsLease(w, id))
  <2>1. UNCHANGED <<items, disk>>
    BY <1>5 DEF MutateLease
  <2> QED BY <1>1, <1>2, <1>3, <2>1, OtherStepKeepsInv
<1> QED BY <1>4, <1>5

LEMMA CompleteInv ==
    ASSUME Inv, NEW w \in Workers, Complete(w)
    PROVE  Inv'
<1> DEFINE item == items[worker[w].job]
<1>1. worker[w].phase = "busy" /\ MutateLease(w, {Released(item, "completed", 0)})
  BY DEF Complete
<1>2. item \in Item
  BY <1>1 DEF Inv, TypeOK, BusyHasJob
<1> HIDE DEF item
<1>3. /\ Released(item, "completed", 0) \in Item
      /\ Released(item, "completed", 0).status = "completed"
      /\ Released(item, "completed", 0).attempts = item.attempts
  BY <1>2, ReleasedType, BoundsAssumption DEF Status, Terminal, Times
<1> QED BY <1>1, <1>3, MutateLeaseInv DEF item

LEMMA FailInv ==
    ASSUME Inv, NEW w \in Workers, Fail(w)
    PROVE  Inv'
<1> DEFINE item == items[worker[w].job]
           updates == {Retried(item, After(delay)) : delay \in Backoffs(item.attempts)}
<1>1. worker[w].phase = "busy" /\ MutateLease(w, updates)
  BY DEF Fail
<1>2. item \in Item /\ now \in Times
  BY <1>1 DEF Inv, TypeOK, BusyHasJob
<1>3. \A updated \in updates :
         /\ updated \in Item /\ updated.status # "none"
         /\ updated.attempts = item.attempts
         /\ updated.status = "pending" => updated.attempts < MaxAttempts
  <2> HIDE DEF item
  <2>1. \A delay \in Backoffs(item.attempts) : After(delay) \in Times
    BY <1>2, BackoffsType, AfterType
  <2> QED BY <1>2, <2>1, RetriedType
<1> HIDE DEF updates
<1> QED BY <1>1, <1>3, MutateLeaseInv

LEMMA StartupReconcileInv ==
    ASSUME Inv, NEW w \in Workers, StartupReconcile(w)
    PROVE  Inv'
<1>1. /\ UNCHANGED <<nextId, queue, now, runs>>
      /\ worker' = [worker EXCEPT ![w].phase = "head"]
  BY DEF StartupReconcile
<1>2. worker' \in [Workers -> WorkerState] /\ BusyHasJob'
  BY <1>1 DEF Inv, TypeOK, BusyHasJob, WorkerState
<1>3. nextId' \in 1..(MaxItems + 1) /\ runs' \in [Ids -> 0..MaxAttempts] /\ now' \in Times
      /\ queue' \in {"open", "closed", "down"}
  BY <1>1 DEF Inv, TypeOK
<1>4. CASE queue = "open" /\ Reconciled(items) # items
  <2>1. PICK ok \in BOOLEAN : Persist(Reconciled(items), ok)
    BY <1>4 DEF StartupReconcile
  <2> QED BY <1>1, <1>2, <1>3, <1>4, <2>1, ReconciledInOrder, PersistKeepsInv
<1>5. CASE ~(queue = "open" /\ Reconciled(items) # items)
  <2>1. UNCHANGED <<items, disk>>
    BY <1>5 DEF StartupReconcile
  <2> QED BY <1>1, <1>2, <1>3, <2>1, OtherStepKeepsInv
<1> QED BY <1>4, <1>5

\* The steps of a worker, and of those who start and stop it, that only move
\* its program counter.
LEMMA CounterStepInv ==
    ASSUME Inv, NEW w \in Workers,
           \/ StartWorker(w) \/ CheckSignals(w) \/ ClaimRefused(w) \/ ClaimEmpty(w)
           \/ Drain(w) \/ DrainUnstarted(w) \/ CancelContext(w)
    PROVE  Inv'
<1>1. UNCHANGED <<items, disk, nextId, queue, now, runs>>
  BY DEF StartWorker, CheckSignals, ClaimRefused, ClaimEmpty, Drain, DrainUnstarted,
         CancelContext
<1>2. \/ \E phase \in {"start", "head", "claim", "done"} :
            worker' = [worker EXCEPT ![w].phase = phase]
      \/ \E signal \in {"drain", "ctx"} : worker' = [worker EXCEPT ![w].signal = signal]
  BY DEF StartWorker, CheckSignals, ClaimRefused, ClaimEmpty, Drain, DrainUnstarted,
         CancelContext
<1>3. worker' \in [Workers -> WorkerState] /\ BusyHasJob'
  BY <1>2 DEF Inv, TypeOK, BusyHasJob, WorkerState
<1>4. now' \in Times /\ queue' \in {"open", "closed", "down"}
  BY <1>1 DEF Inv, TypeOK
<1> QED BY <1>1, <1>3, <1>4, OtherStepKeepsInv

LEMMA ProcessStepInv ==
    ASSUME Inv, Close \/ Crash \/ Open \/ Tick
    PROVE  Inv'
<1>1. CASE Close
  BY <1>1 DEF Close, Inv, TypeOK, MemoryIsDurable, BusyHasJob
<1>2. CASE Crash
  <2>1. [NewWorker EXCEPT !.phase = "done"] \in WorkerState
        /\ [NewWorker EXCEPT !.phase = "done"].phase = "done"
    BY BoundsAssumption DEF NewWorker, WorkerState, Times
  <2>2. worker' \in [Workers -> WorkerState] /\ BusyHasJob'
    BY <1>2, <2>1 DEF Crash, Inv, TypeOK, BusyHasJob
  <2>3. [id \in Ids |-> NoItem] \in [Ids -> Item]
    BY OptionsAssumption, BoundsAssumption DEF NoItem, Item, Times
  <2> QED BY <1>2, <2>2, <2>3 DEF Crash, Inv, TypeOK, MemoryIsDurable
<1>3. CASE Open
  BY <1>3 DEF Open, Inv, TypeOK, MemoryIsDurable, BusyHasJob
<1>4. CASE Tick
  <2>1. now' \in Times
    BY <1>4, BoundsAssumption DEF Tick, Inv, TypeOK, Times
  <2> QED BY <1>4, <2>1, OtherStepKeepsInv DEF Tick, Inv, TypeOK, BusyHasJob
<1> QED BY <1>1, <1>2, <1>3, <1>4

LEMMA NextInv == Inv /\ [Next]_vars => Inv'
<1> SUFFICES ASSUME Inv, [Next]_vars PROVE Inv'
  OBVIOUS
<1>1. CASE UNCHANGED vars
  BY <1>1 DEF vars, Inv, TypeOK, MemoryIsDurable, BusyHasJob
<1>2. CASE \E key \in Keys : Enqueue(key) \/ CancelByKey(key)
  BY <1>2, EnqueueInv, CancelByKeyInv
<1>3. CASE CleanupTerminal
  BY <1>3, CleanupInv
<1>4. CASE \E w \in Workers : StartWorker(w) \/ WorkerStep(w)
                           \/ Drain(w) \/ DrainUnstarted(w) \/ CancelContext(w)
  BY <1>4, StartupReconcileInv, CounterStepInv, ClaimItemInv, CompleteInv, FailInv
     DEF WorkerStep, Claim
<1>5. CASE Close \/ Crash \/ Open \/ Tick
  BY <1>5, ProcessStepInv
<1> QED BY <1>1, <1>2, <1>3, <1>4, <1>5 DEF Next

LEMMA SpecInv == Spec => []Inv
BY InitInv, NextInv, PTL DEF Spec

\* Every reachable state of the queue, its file, its clock and its workers is
\* of the declared types, however many items, workers and crashes there are.
THEOREM QueueTypeOK == Spec => []TypeOK
<1>1. Inv => TypeOK
  BY DEF Inv
<1> QED BY <1>1, SpecInv, PTL

\* While a process runs, its memory is what the file says.
THEOREM QueueMemoryIsDurable == Spec => []MemoryIsDurable
<1>1. Inv => MemoryIsDurable
  BY DEF Inv
<1> QED BY <1>1, SpecInv, PTL

\* No item's handler is started more often than MaxAttempts.
THEOREM QueueRunsWithinBudget == Spec => []RunsWithinBudget
<1>1. Inv => RunsWithinBudget
  BY OptionsAssumption DEF Inv, TypeOK, RunsWithinBudget, AllAccounted, Accounted
<1> QED BY <1>1, SpecInv, PTL

-----------------------------------------------------------------------------
(* Leases are exclusive until they expire.                                 *)

Busy(w) == worker[w].phase = "busy"

\* What the file says of the item of a worker that is inside its lease.
Keeps(w) ==
    LET item == disk[worker[w].job] IN
    \/ /\ item.status = "leased" /\ item.leaseOwner = w
       /\ item.leaseUntil = worker[w].until
    \/ item.status \in {"cancelled", "none"}

LeaseInv(w) ==
    Busy(w) => /\ worker[w].job < nextId
               /\ now < worker[w].until => Keeps(w)

\* RunsAreExclusive needs both: while a worker keeps its item nobody can claim
\* it, and an item that was cancelled or removed under it is never claimed.
Exclusive == (\A w \in Workers : LeaseInv(w)) /\ RunsAreExclusive

\* A step that starts no run: workers stop being busy or stay as they are, and
\* the item of one that stays busy inside its lease is kept, cancelled or removed.
LEMMA NoNewRun ==
    ASSUME TypeOK, TypeOK', Exclusive, now <= now', nextId <= nextId',
           \A w \in Workers : Busy(w)' =>
              /\ worker'[w] = worker[w]
              /\ now < worker[w].until =>
                    \/ disk'[worker[w].job] = disk[worker[w].job]
                    \/ disk'[worker[w].job].status \in {"cancelled", "none"}
    PROVE  Exclusive'
<1>1. now \in Int /\ now' \in Int /\ nextId \in Int /\ nextId' \in Int
  BY BoundsAssumption DEF TypeOK, Times
<1>2. ASSUME NEW w \in Workers, Busy(w)'
      PROVE  /\ Busy(w) /\ worker'[w] = worker[w] /\ worker[w].until \in Int
             /\ now' < worker[w].until => now < worker[w].until
  BY <1>1, <1>2, BoundsAssumption DEF Busy, TypeOK, WorkerState, Times
<1>3. ASSUME NEW w \in Workers PROVE LeaseInv(w)'
  <2> SUFFICES ASSUME Busy(w)'
               PROVE  /\ worker'[w].job < nextId'
                      /\ now' < worker'[w].until => Keeps(w)'
    BY DEF LeaseInv
  <2>1. LeaseInv(w) /\ Busy(w) /\ worker'[w] = worker[w]
    BY <1>2 DEF Exclusive
  <2>2. worker[w].job \in Int
    BY BoundsAssumption DEF TypeOK, WorkerState, Ids
  <2>3. worker'[w].job < nextId'
    BY <1>1, <2>1, <2>2 DEF LeaseInv
  <2>4. ASSUME now' < worker'[w].until PROVE Keeps(w)'
    <3>1. Keeps(w) /\ now < worker[w].until
      BY <1>2, <2>1, <2>4 DEF LeaseInv
    <3> QED BY <2>1, <3>1 DEF Keeps
  <2> QED BY <2>3, <2>4
<1>4. RunsAreExclusive'
  <2> SUFFICES ASSUME NEW w \in Workers, NEW other \in Workers, w # other,
                      Busy(w)', Busy(other)', worker'[w].job = worker'[other].job,
                      now' < worker'[w].until, now' < worker'[other].until
               PROVE  FALSE
    BY DEF RunsAreExclusive, Busy
  <2> QED BY <1>2 DEF Exclusive, RunsAreExclusive, Busy
<1> QED BY <1>3, <1>4 DEF Exclusive

LEMMA ClaimItemExclusive ==
    ASSUME Inv, Inv', Exclusive, NEW w \in Workers, ClaimItem(w)
    PROVE  Exclusive'
<1> DEFINE r == Reconciled(items)
<1>1. PICK id \in Ids, ok \in BOOLEAN :
        /\ FirstReady(r, id)
        /\ Persist([r EXCEPT ![id] = LeasedTo(@, w)], ok)
        /\ worker' = [worker EXCEPT ![w] =
              IF ok THEN [@ EXCEPT !.phase = "busy", !.job = id,
                                   !.until = After(LeaseDuration)]
                    ELSE [@ EXCEPT !.phase = "done"]]
  BY DEF ClaimItem
<1>2. /\ UNCHANGED <<nextId, now>> /\ items = disk /\ r \in [Ids -> Item]
      /\ disk \in [Ids -> Item] /\ worker \in [Workers -> WorkerState]
      /\ now \in Int /\ nextId \in Int /\ AllAccounted(r, nextId, runs)
  BY ReconciledInOrder, BoundsAssumption
     DEF ClaimItem, Inv, TypeOK, MemoryIsDurable, Times
<1>3. \A v \in Workers : v # w => worker'[v] = worker[v]
  BY <1>1, <1>2
<1>4. id < nextId /\ r[id].status = "pending"
  BY <1>1, <1>2 DEF FirstReady, Ready, AllAccounted, Accounted
\* An item that a worker keeps is not touched by the reconcile, nor ready.
<1>5. ASSUME NEW v \in Workers, Busy(v), now < worker[v].until
      PROVE  r[worker[v].job] = disk[worker[v].job] /\ worker[v].job # id
  <2>1. worker[v].job \in Ids /\ Keeps(v) /\ worker[v].until \in Int
    BY <1>2, <1>5, BoundsAssumption
       DEF Inv, BusyHasJob, Busy, Exclusive, LeaseInv, WorkerState, Times
  <2>2. ~Expired(disk[worker[v].job])
    BY <1>2, <1>5, <2>1 DEF Keeps, Expired
  <2>3. r[worker[v].job] = disk[worker[v].job]
    BY <1>2, <2>1, <2>2 DEF Reconciled
  <2>4. disk[worker[v].job].status # "pending"
    BY <2>1 DEF Keeps
  <2> QED BY <1>4, <2>3, <2>4
<1> HIDE DEF r
<1>6. CASE ok
  <2>1. disk' = [r EXCEPT ![id] = LeasedTo(r[id], w)]
    BY <1>1, <1>6 DEF Persist
  <2>2. /\ disk'[id].status = "leased" /\ disk'[id].leaseOwner = w
        /\ disk'[id].leaseUntil = After(LeaseDuration)
    BY <1>2, <2>1 DEF LeasedTo, Item
  <2>3. /\ worker'[w].phase = "busy" /\ worker'[w].job = id
        /\ worker'[w].until = After(LeaseDuration)
    BY <1>1, <1>2, <1>6 DEF WorkerState
  <2>4. ASSUME NEW v \in Workers PROVE LeaseInv(v)'
    <3>1. CASE v = w
      BY <1>2, <1>4, <2>2, <2>3, <3>1 DEF LeaseInv, Keeps
    <3>2. CASE v # w
      <4> SUFFICES ASSUME Busy(v)'
                   PROVE  /\ worker'[v].job < nextId'
                          /\ now' < worker'[v].until => Keeps(v)'
        BY DEF LeaseInv
      <4>1. worker'[v] = worker[v] /\ Busy(v) /\ LeaseInv(v)
        BY <1>3, <3>2 DEF Busy, Exclusive
      <4>2. ASSUME now < worker[v].until PROVE Keeps(v)'
        <5>1. disk'[worker[v].job] = disk[worker[v].job]
          BY <1>2, <1>5, <2>1, <4>1, <4>2 DEF Inv, BusyHasJob, Busy
        <5> QED BY <4>1, <4>2, <5>1 DEF LeaseInv, Keeps
      <4> QED BY <1>2, <4>1, <4>2 DEF LeaseInv
    <3> QED BY <3>1, <3>2
  <2>5. RunsAreExclusive'
    <3> SUFFICES ASSUME NEW v \in Workers, NEW u \in Workers, v # u,
                        Busy(v)', Busy(u)', worker'[v].job = worker'[u].job,
                        now' < worker'[v].until, now' < worker'[u].until
                 PROVE  FALSE
      BY DEF RunsAreExclusive, Busy
    <3>1. CASE v = w
      BY <1>2, <1>3, <1>5, <2>3, <3>1 DEF Busy
    <3>2. CASE u = w
      BY <1>2, <1>3, <1>5, <2>3, <3>2 DEF Busy
    <3>3. CASE v # w /\ u # w
      BY <1>2, <1>3, <3>3 DEF Busy, Exclusive, RunsAreExclusive
    <3> QED BY <3>1, <3>2, <3>3
  <2> QED BY <2>4, <2>5 DEF Exclusive
<1>7. CASE ~ok
  <2>1. disk' = disk /\ worker'[w].phase = "done"
    BY <1>1, <1>2, <1>7 DEF Persist, WorkerState
  <2>2. \A v \in Workers : Busy(v)' => worker'[v] = worker[v]
    BY <1>3, <2>1 DEF Busy
  <2> QED BY <1>2, <2>1, <2>2, NoNewRun DEF Inv
<1> QED BY <1>6, <1>7

LEMMA MutateLeaseExclusive ==
    ASSUME Inv, Inv', Exclusive, NEW w \in Workers, NEW updates, MutateLease(w, updates)
    PROVE  Exclusive'
<1>1. UNCHANGED <<nextId, now>> /\ items \in [Ids -> Item] /\ now \in Int /\ nextId \in Int
      /\ worker \in [Workers -> WorkerState]
  BY BoundsAssumption DEF MutateLease, Inv, TypeOK, Times
<1>2. worker'[w].phase = "head" /\ \A v \in Workers : v # w => worker'[v] = worker[v]
  BY <1>1 DEF MutateLease, WorkerState
\* The item that w settles is its own, so nobody else is inside a lease on it.
<1>3. ASSUME NEW v \in Workers, v # w, Busy(v), now < worker[v].until
      PROVE  disk'[worker[v].job] = disk[worker[v].job]
  <2>1. worker[v].job \in Ids /\ Keeps(v)
    BY <1>3 DEF Inv, BusyHasJob, Busy, Exclusive, LeaseInv
  <2>2. CASE queue = "open" /\ HoldsLease(w, worker[w].job)
    <3>1. PICK updated \in updates, ok \in BOOLEAN :
            Persist([items EXCEPT ![worker[w].job] = updated], ok)
      BY <2>2 DEF MutateLease
    <3>2. items = disk
      BY <2>2 DEF Inv, MemoryIsDurable
    <3>3. worker[v].job # worker[w].job
      BY <1>3, <2>1, <2>2, <3>2 DEF HoldsLease, Keeps
    <3> QED BY <1>1, <2>1, <3>1, <3>2, <3>3 DEF Persist
  <2>3. CASE ~(queue = "open" /\ HoldsLease(w, worker[w].job))
    BY <2>3 DEF MutateLease
  <2> QED BY <2>2, <2>3
<1>4. ASSUME NEW v \in Workers, Busy(v)'
      PROVE  v # w /\ worker'[v] = worker[v] /\ Busy(v)
  BY <1>2, <1>4 DEF Busy
<1>5. now <= now' /\ nextId <= nextId'
  BY <1>1
<1> QED BY <1>3, <1>4, <1>5, NoNewRun DEF Inv

LEMMA StartupReconcileExclusive ==
    ASSUME Inv, Inv', Exclusive, NEW w \in Workers, StartupReconcile(w)
    PROVE  Exclusive'
<1>1. UNCHANGED <<nextId, now>> /\ now \in Int /\ nextId \in Int
      /\ worker' = [worker EXCEPT ![w].phase = "head"]
      /\ worker \in [Workers -> WorkerState]
  BY BoundsAssumption DEF StartupReconcile, Inv, TypeOK, Times
<1>2. ASSUME NEW v \in Workers, Busy(v)'
      PROVE  worker'[v] = worker[v] /\ Busy(v)
  BY <1>1, <1>2 DEF Busy, WorkerState
<1>3. ASSUME NEW v \in Workers, Busy(v), now < worker[v].until
      PROVE  disk'[worker[v].job] = disk[worker[v].job]
  <2>1. worker[v].job \in Ids /\ Keeps(v) /\ worker[v].until \in Int
    BY <1>1, <1>3, BoundsAssumption
       DEF Inv, BusyHasJob, Busy, Exclusive, LeaseInv, WorkerState, Times
  <2>2. CASE queue = "open" /\ Reconciled(items) # items
    <3>1. PICK ok \in BOOLEAN : Persist(Reconciled(items), ok)
      BY <2>2 DEF StartupReconcile
    <3>2. items = disk
      BY <2>2 DEF Inv, MemoryIsDurable
    <3>3. ~Expired(disk[worker[v].job])
      BY <1>1, <1>3, <2>1 DEF Keeps, Expired
    <3>4. Reconciled(items)[worker[v].job] = disk[worker[v].job]
      BY <2>1, <3>2, <3>3 DEF Reconciled
    <3> QED BY <3>1, <3>2, <3>4 DEF Persist
  <2>3. CASE ~(queue = "open" /\ Reconciled(items) # items)
    BY <2>3 DEF StartupReconcile
  <2> QED BY <2>2, <2>3
<1>4. now <= now' /\ nextId <= nextId'
  BY <1>1
<1> QED BY <1>2, <1>3, <1>4, NoNewRun DEF Inv

LEMMA CallerStepExclusive ==
    ASSUME Inv, Inv', Exclusive,
           CleanupTerminal \/ \E key \in Keys : Enqueue(key) \/ CancelByKey(key)
    PROVE  Exclusive'
<1>0. queue = "open" /\ UNCHANGED <<worker, now>>
  BY DEF CleanupTerminal, Enqueue, CancelByKey
<1>1. /\ queue = "open" /\ UNCHANGED <<worker, now>> /\ items = disk
      /\ now \in Int /\ nextId \in Int /\ disk \in [Ids -> Item]
      /\ worker \in [Workers -> WorkerState]
  BY <1>0, BoundsAssumption DEF Inv, TypeOK, MemoryIsDurable, Times
<1>2. ASSUME NEW w \in Workers, Busy(w)
      PROVE  worker[w].job \in Ids /\ worker[w].job < nextId
  BY <1>2 DEF Inv, BusyHasJob, Busy, Exclusive, LeaseInv
<1>3. CASE CleanupTerminal
  <2>1. PICK old \in SUBSET Ids, ok \in BOOLEAN :
          Persist([id \in Ids |-> IF id \in old THEN NoItem ELSE items[id]], ok)
    BY <1>3 DEF CleanupTerminal
  <2>2. NoItem.status = "none" /\ nextId' = nextId
    BY <1>3 DEF NoItem, CleanupTerminal
  <2>3. ASSUME NEW w \in Workers, Busy(w)
        PROVE  \/ disk'[worker[w].job] = disk[worker[w].job]
               \/ disk'[worker[w].job].status \in {"cancelled", "none"}
    BY <1>1, <1>2, <2>1, <2>2, <2>3 DEF Persist
  <2> QED BY <1>1, <2>2, <2>3, NoNewRun DEF Inv, Busy
<1>4. ASSUME NEW key \in Keys, Enqueue(key) PROVE Exclusive'
  <2>1. PICK ok \in BOOLEAN :
          /\ Persist([items EXCEPT ![nextId] = NewItem(key)], ok)
          /\ nextId' = IF ok THEN nextId + 1 ELSE nextId
    BY <1>4 DEF Enqueue
  <2>2. ASSUME NEW w \in Workers, Busy(w)
        PROVE  disk'[worker[w].job] = disk[worker[w].job]
    BY <1>1, <1>2, <2>1, <2>2 DEF Persist
  <2>3. nextId <= nextId'
    BY <1>1, <2>1
  <2> QED BY <1>1, <2>2, <2>3, NoNewRun DEF Inv, Busy
<1>5. ASSUME NEW key \in Keys, CancelByKey(key) PROVE Exclusive'
  <2>1. PICK id \in ActiveIn(items), ok \in BOOLEAN :
          Persist([items EXCEPT ![id] = Released(@, "cancelled", 0)], ok)
    BY <1>5 DEF CancelByKey
  <2>2. id \in Ids /\ nextId' = nextId
    BY <1>5 DEF CancelByKey, ActiveIn
  <2>3. Released(items[id], "cancelled", 0).status = "cancelled"
    BY <1>1, <2>2, ReleasedType, BoundsAssumption DEF Status, Terminal, Times
  <2>4. ASSUME NEW w \in Workers, Busy(w)
        PROVE  \/ disk'[worker[w].job] = disk[worker[w].job]
               \/ disk'[worker[w].job].status \in {"cancelled", "none"}
    BY <1>1, <1>2, <2>1, <2>2, <2>3, <2>4 DEF Persist
  <2> QED BY <1>1, <2>2, <2>4, NoNewRun DEF Inv, Busy
<1> QED BY <1>3, <1>4, <1>5

LEMMA OtherStepExclusive ==
    ASSUME Inv, Inv', Exclusive, UNCHANGED <<disk, nextId>>, now <= now',
           \A w \in Workers : Busy(w)' =>
              worker'[w] = [worker[w] EXCEPT !.signal = worker'[w].signal]
    PROVE  Exclusive'
<1>1. /\ now \in Int /\ now' \in Int /\ nextId \in Int
      /\ worker \in [Workers -> WorkerState]
  BY BoundsAssumption DEF Inv, TypeOK, Times
<1>2. ASSUME NEW w \in Workers, Busy(w)'
      PROVE  /\ Busy(w) /\ worker'[w].job = worker[w].job
             /\ worker'[w].until = worker[w].until /\ worker[w].until \in Int
  <2>1. worker[w] \in WorkerState
    BY <1>1
  <2>2. worker'[w] = [worker[w] EXCEPT !.signal = worker'[w].signal]
    BY <1>2
  <2> DEFINE old == worker[w]  signal == worker'[w].signal
  <2>3. /\ [old EXCEPT !.signal = signal].phase = old.phase
        /\ [old EXCEPT !.signal = signal].job = old.job
        /\ [old EXCEPT !.signal = signal].until = old.until
        /\ old.until \in Int
    <3> HIDE DEF signal
    <3> QED BY <2>1, BoundsAssumption DEF WorkerState, Times
  <2> QED BY <1>2, <2>2, <2>3 DEF Busy
<1>3. ASSUME NEW w \in Workers PROVE LeaseInv(w)'
  <2>1. LeaseInv(w)
    BY DEF Exclusive
  <2>2. Keeps(w) /\ Busy(w)' => Keeps(w)'
    BY <1>2 DEF Keeps
  <2> QED BY <1>1, <1>2, <2>1, <2>2 DEF LeaseInv
<1>4. RunsAreExclusive'
  BY <1>1, <1>2 DEF Exclusive, RunsAreExclusive, Busy
<1> QED BY <1>3, <1>4 DEF Exclusive

LEMMA NextExclusive == Inv /\ Inv' /\ Exclusive /\ [Next]_vars => Exclusive'
<1> SUFFICES ASSUME Inv, Inv', Exclusive, [Next]_vars PROVE Exclusive'
  OBVIOUS
<1>1. now \in Int /\ nextId \in Int /\ worker \in [Workers -> WorkerState]
  BY BoundsAssumption DEF Inv, TypeOK, Times
<1>2. \A w \in Workers : worker[w] = [worker[w] EXCEPT !.signal = worker[w].signal]
  BY <1>1 DEF WorkerState
<1>3. CASE UNCHANGED vars
  BY <1>1, <1>2, <1>3, OtherStepExclusive DEF vars
<1>4. CASE CleanupTerminal \/ \E key \in Keys : Enqueue(key) \/ CancelByKey(key)
  BY <1>4, CallerStepExclusive
<1>5. ASSUME NEW w \in Workers, StartWorker(w) \/ WorkerStep(w)
                           \/ Drain(w) \/ DrainUnstarted(w) \/ CancelContext(w)
      PROVE  Exclusive'
  <2>1. CASE StartupReconcile(w)
    BY <2>1, StartupReconcileExclusive
  <2>2. CASE ClaimItem(w)
    BY <2>2, ClaimItemExclusive
  <2>3. CASE Complete(w) \/ Fail(w)
    BY <2>3, MutateLeaseExclusive DEF Complete, Fail
  <2>4. CASE \/ StartWorker(w) \/ CheckSignals(w) \/ ClaimRefused(w) \/ ClaimEmpty(w)
             \/ DrainUnstarted(w)
    <3>1. \E phase \in {"start", "head", "claim", "done"} :
             worker' = [worker EXCEPT ![w].phase = phase]
      BY <2>4 DEF StartWorker, CheckSignals, ClaimRefused, ClaimEmpty, DrainUnstarted
    <3>2. \A v \in Workers : Busy(v)' => worker'[v] = worker[v]
      BY <1>1, <3>1 DEF Busy, WorkerState
    <3>3. UNCHANGED <<disk, nextId, now>>
      BY <2>4 DEF StartWorker, CheckSignals, ClaimRefused, ClaimEmpty, DrainUnstarted
    <3> QED BY <1>1, <1>2, <3>2, <3>3, OtherStepExclusive
  <2>5. CASE Drain(w) \/ CancelContext(w)
    <3>1. \E signal \in {"drain", "ctx"} : worker' = [worker EXCEPT ![w].signal = signal]
      BY <2>5 DEF Drain, CancelContext
    <3>2. \A v \in Workers : worker'[v] = [worker[v] EXCEPT !.signal = worker'[v].signal]
      BY <1>1, <1>2, <3>1 DEF WorkerState
    <3>3. UNCHANGED <<disk, nextId, now>>
      BY <2>5 DEF Drain, CancelContext
    <3> QED BY <1>1, <3>2, <3>3, OtherStepExclusive
  <2> QED BY <1>5, <2>1, <2>2, <2>3, <2>4, <2>5 DEF WorkerStep, Claim
<1>6. CASE Close \/ Open \/ Tick
  <2>1. UNCHANGED <<disk, nextId, worker>> /\ now <= now'
    BY <1>1, <1>6 DEF Close, Open, Tick, Inv, MemoryIsDurable
  <2> QED BY <1>2, <2>1, OtherStepExclusive
<1>7. CASE Crash
  <2>1. \A w \in Workers : ~Busy(w)'
    BY <1>7 DEF Crash, Busy, NewWorker
  <2> QED BY <1>1, <1>7, <2>1, OtherStepExclusive DEF Crash
<1> QED BY <1>3, <1>4, <1>5, <1>6, <1>7 DEF Next

LEMMA SpecExclusive == Spec => []Exclusive
<1>1. Init => Exclusive
  BY DEF Init, Exclusive, LeaseInv, RunsAreExclusive, Busy, NewWorker
<1> QED BY <1>1, NextExclusive, SpecInv, PTL DEF Spec

\* A worker inside its lease owns its item, unless that was cancelled, and no
\* other worker is inside a lease on it.
THEOREM QueueLeasesAreKept == Spec => []LeasesAreKept
<1>1. Exclusive => LeaseIsKept
  BY DEF Exclusive, LeaseIsKept, LeaseInv, Keeps, Busy
<1>2. Exclusive => LeasesAreKept
  BY <1>1 DEF Exclusive, LeasesAreKept
<1> QED BY <1>2, SpecExclusive, PTL

-----------------------------------------------------------------------------
(* The queue implements DurableWork.                                       *)

\* A job's move from the queue now on file to a queue q is one of the abstract
\* specification.
Legal(q, next, started, id) ==
    LET from == Place(disk, nextId, id)
        to == Place(q, next, id)
    IN  \/ to = from /\ started[id] = runs[id]
        \/ from = "absent" /\ to = "open" /\ started[id] = runs[id]
        \/ /\ from = "open" /\ to = "open"
           /\ runs[id] < MaxAttempts /\ started[id] = runs[id] + 1
        \/ from = "open" /\ to = "settled" /\ started[id] = runs[id]
        \/ from = "settled" /\ to = "removed" /\ started[id] = runs[id]

LEMMA LegalIsWorkStep ==
    ASSUME \A id \in Ids : Legal(disk', nextId', runs', id)
    PROVE  Work!Next
<1> SUFFICES ASSUME NEW id \in Ids
             PROVE  \/ Work!Kept(id) \/ Work!Submit(id) \/ Work!Try(id)
                    \/ Work!Settle(id) \/ Work!Remove(id)
  BY DEF Work!Next
<1>1. Legal(disk', nextId', runs', id)
  OBVIOUS
<1> DEFINE from == Place(disk, nextId, id)
           to == Place(disk', nextId', id)
<1>2. /\ [j \in Ids |-> Place(disk, nextId, j)][id] = from
      /\ [j \in Ids |-> Place(disk', nextId', j)][id] = to
  OBVIOUS
<1> QED BY <1>1, <1>2 DEF Legal, Work!Kept, Work!Submit, Work!Try, Work!Settle,
                          Work!Remove, Work!Moves

\* An operation that persists q, or fails to.
LEMMA PersistIsWorkStep ==
    ASSUME Inv, queue = "open", NEW q, NEW ok \in BOOLEAN, Persist(q, ok),
           ok => \A id \in Ids : Legal(q, nextId', runs', id),
           ~ok => nextId' = nextId /\ runs' = runs
    PROVE  Work!Next
<1>1. CASE ok
  <2>1. disk' = q
    BY <1>1 DEF Persist
  <2> QED BY <1>1, <2>1, LegalIsWorkStep
<1>2. CASE ~ok
  <2>1. disk' = disk
    BY <1>2 DEF Persist
  <2> QED BY <1>2, <2>1, LegalIsWorkStep DEF Legal
<1> QED BY <1>1, <1>2

\* Where a reconcile takes an item.
LEMMA ReconciledPlace ==
    ASSUME Inv, queue = "open", NEW id \in Ids
    PROVE  Legal(Reconciled(items), nextId, runs, id)
<1>1. items = disk /\ items[id] \in Item /\ now \in Times
  BY DEF Inv, MemoryIsDurable, TypeOK
<1>2. CASE Expired(items[id])
  <2>1. Reconciled(items)[id] = Retried(items[id], now)
    BY <1>2 DEF Reconciled
  <2>2. items[id].status \in Active
    BY <1>2 DEF Expired, Active
  <2>3. Retried(items[id], now).status \in {"pending", "dead"}
    BY <1>1, RetriedType
  <2> QED BY <1>1, <2>1, <2>2, <2>3 DEF Legal, Place, Active, Terminal
<1>3. CASE ~Expired(items[id])
  <2>1. Reconciled(items)[id] = items[id]
    BY <1>3 DEF Reconciled
  <2> QED BY <1>1, <2>1 DEF Legal, Place
<1> QED BY <1>2, <1>3

LEMMA CallerIsWorkStep ==
    ASSUME Inv, CleanupTerminal \/ \E key \in Keys : Enqueue(key) \/ CancelByKey(key)
    PROVE  Work!Next
<1>0. queue = "open" /\ UNCHANGED runs
  BY DEF CleanupTerminal, Enqueue, CancelByKey
<1>1. /\ items = disk /\ items \in [Ids -> Item] /\ nextId \in Int
  BY <1>0 DEF Inv, TypeOK, MemoryIsDurable
<1>2. CASE CleanupTerminal
  <2>1. PICK old \in SUBSET {id \in Ids : items[id].status \in Terminal}, ok \in BOOLEAN :
          Persist([id \in Ids |-> IF id \in old THEN NoItem ELSE items[id]], ok)
    BY <1>2 DEF CleanupTerminal
  <2> DEFINE q == [id \in Ids |-> IF id \in old THEN NoItem ELSE items[id]]
  <2>2. nextId' = nextId /\ NoItem.status = "none"
    BY <1>2 DEF CleanupTerminal, NoItem
  <2>3. ASSUME NEW id \in Ids PROVE Legal(q, nextId', runs', id)
    <3>1. q[id] = IF id \in old THEN NoItem ELSE items[id]
      OBVIOUS
    <3>2. Accounted(items, nextId, runs, id)
      BY <1>1 DEF Inv, AllAccounted
    <3> HIDE DEF q
    <3>3. CASE id \in old
      <4>1. items[id].status \in Terminal
        BY <3>3
      <4>2. id < nextId
        BY <3>2, <4>1 DEF Accounted, Terminal
      <4> QED BY <1>0, <1>1, <2>2, <3>1, <3>3, <4>1, <4>2 DEF Legal, Place, Active, Terminal
    <3>4. CASE id \notin old
      BY <1>0, <1>1, <2>2, <3>1, <3>4 DEF Legal, Place
    <3> QED BY <3>3, <3>4
  <2> HIDE DEF q
  <2>4. Persist(q, ok)
    BY <2>1 DEF q
  <2> QED BY <1>0, <2>2, <2>3, <2>4, PersistIsWorkStep
<1>3. ASSUME NEW key \in Keys, Enqueue(key) PROVE Work!Next
  <2>1. PICK ok \in BOOLEAN :
          /\ Persist([items EXCEPT ![nextId] = NewItem(key)], ok)
          /\ nextId' = IF ok THEN nextId + 1 ELSE nextId
    BY <1>3 DEF Enqueue
  <2> DEFINE q == [items EXCEPT ![nextId] = NewItem(key)]
  <2>2. nextId \in Ids /\ NewItem(key).status = "pending"
    BY <1>3, BoundsAssumption DEF Enqueue, Inv, TypeOK, Ids, NewItem
  <2>3. ASSUME ok, NEW id \in Ids PROVE Legal(q, nextId', runs', id)
    <3>1. nextId' = nextId + 1 /\ id \in Int /\ Accounted(items, nextId, runs, id)
      BY <1>1, <2>1, <2>3 DEF Ids, Inv, AllAccounted
    <3>2. CASE id = nextId
      <4>1. items[id].status = "none" /\ ~(id < nextId)
        BY <1>1, <3>1, <3>2 DEF Accounted
      <4>2. q[id].status = "pending"
        BY <1>1, <2>2, <3>2
      <4> QED BY <1>0, <1>1, <4>1, <4>2 DEF Legal, Place, Active, Terminal
    <3>3. CASE id # nextId
      <4>1. q[id] = items[id] /\ (id < nextId <=> id < nextId')
        BY <1>1, <2>2, <3>1, <3>3
      <4> QED BY <1>0, <1>1, <4>1 DEF Legal, Place
    <3> QED BY <3>2, <3>3
  <2> HIDE DEF q
  <2>4. Persist(q, ok)
    BY <2>1 DEF q
  <2> QED BY <1>0, <2>1, <2>3, <2>4, PersistIsWorkStep
<1>4. ASSUME NEW key \in Keys, CancelByKey(key) PROVE Work!Next
  <2>1. PICK id \in ActiveIn(items), ok \in BOOLEAN :
          Persist([items EXCEPT ![id] = Released(@, "cancelled", 0)], ok)
    BY <1>4 DEF CancelByKey
  <2> DEFINE item == Released(items[id], "cancelled", 0)
             q == [items EXCEPT ![id] = item]
  <2>2. id \in Ids /\ nextId' = nextId /\ items[id].status \in Active
    BY <1>4 DEF CancelByKey, ActiveIn
  <2>3. item.status = "cancelled"
    BY <1>1, <2>2, ReleasedType, BoundsAssumption DEF Status, Terminal, Times
  <2> HIDE DEF item
  <2>4. ASSUME NEW j \in Ids PROVE Legal(q, nextId', runs', j)
    <3>1. CASE j = id
      <4>1. q[j] = item
        BY <1>1, <3>1
      <4> QED BY <1>0, <1>1, <2>2, <2>3, <3>1, <4>1 DEF Legal, Place, Active, Terminal
    <3>2. CASE j # id
      <4>1. q[j] = items[j]
        BY <1>1, <3>2
      <4> QED BY <1>0, <1>1, <2>2, <4>1 DEF Legal, Place
    <3> QED BY <3>1, <3>2
  <2>5. Persist(q, ok)
    BY <2>1 DEF item
  <2> HIDE DEF q
  <2> QED BY <1>0, <2>2, <2>4, <2>5, PersistIsWorkStep
<1> QED BY <1>2, <1>3, <1>4

LEMMA ClaimItemIsWorkStep ==
    ASSUME Inv, NEW w \in Workers, ClaimItem(w)
    PROVE  Work!Next
<1> DEFINE r == Reconciled(items)
<1>1. PICK id \in Ids, ok \in BOOLEAN :
        /\ FirstReady(r, id)
        /\ Persist([r EXCEPT ![id] = LeasedTo(@, w)], ok)
        /\ runs' = [runs EXCEPT ![id] = IF ok THEN @ + 1 ELSE @]
  BY DEF ClaimItem
<1> DEFINE leased == LeasedTo(r[id], w)
           q == [r EXCEPT ![id] = leased]
<1>2. /\ queue = "open" /\ nextId' = nextId /\ r \in [Ids -> Item]
      /\ runs \in [Ids -> 0..MaxAttempts] /\ AllAccounted(r, nextId, runs)
      /\ items = disk /\ disk \in [Ids -> Item]
  BY ReconciledInOrder DEF ClaimItem, Inv, TypeOK, MemoryIsDurable
<1>3. \A j \in Ids : Legal(r, nextId, runs, j)
  BY <1>2, ReconciledPlace
<1>4. Persist(q, ok)
  BY <1>1
\* What the claim picks was open before the reconcile.
<1>5. disk[id].status \in Active
  <2>1. r[id].status = "pending"
    BY <1>1 DEF FirstReady, Ready
  <2>2. CASE Expired(disk[id])
    BY <2>2 DEF Expired, Active
  <2>3. CASE ~Expired(disk[id])
    <3>1. r[id] = disk[id]
      BY <1>2, <2>3 DEF Reconciled
    <3> QED BY <2>1, <3>1 DEF Active
  <2> QED BY <2>2, <2>3
<1> HIDE DEF r
<1>6. r[id].status = "pending" /\ runs[id] < MaxAttempts
  <2>1. r[id].status = "pending" /\ r[id].attempts < MaxAttempts /\ runs[id] <= r[id].attempts
    BY <1>1, <1>2 DEF FirstReady, Ready, AllAccounted, Accounted
  <2>2. r[id].attempts \in Nat /\ runs[id] \in Nat /\ MaxAttempts \in Nat
    BY <1>2, OptionsAssumption DEF Item
  <2> QED BY <2>1, <2>2
<1>7. leased.status = "leased"
  BY <1>2 DEF LeasedTo, Item
<1> HIDE DEF leased
<1>8. q[id] = leased /\ \A j \in Ids : j # id => q[j] = r[j]
  BY <1>2
<1> HIDE DEF q
<1>9. ASSUME ok, NEW j \in Ids PROVE Legal(q, nextId', runs', j)
  <2>1. CASE j = id
    <3>1. runs'[j] = runs[j] + 1
      BY <1>1, <1>2, <1>9, <2>1
    <3>2. Place(q, nextId', j) = "open" /\ Place(disk, nextId, j) = "open"
      BY <1>5, <1>7, <1>8, <2>1 DEF Place, Active
    <3> QED BY <1>6, <2>1, <3>1, <3>2 DEF Legal
  <2>2. CASE j # id
    <3>1. runs'[j] = runs[j] /\ q[j] = r[j]
      BY <1>1, <1>2, <1>8, <2>2
    <3> QED BY <1>2, <1>3, <3>1 DEF Legal, Place
  <2> QED BY <2>1, <2>2
<1>10. ~ok => runs' = runs
  BY <1>1, <1>2
<1> QED BY <1>2, <1>4, <1>9, <1>10, PersistIsWorkStep

LEMMA MutateLeaseIsWorkStep ==
    ASSUME Inv, NEW w \in Workers, NEW updates, MutateLease(w, updates), Busy(w),
           \A item \in updates : item.status \in {"pending", "dead", "completed"}
    PROVE  Work!Next \/ UNCHANGED <<disk, nextId, runs>>
<1> DEFINE id == worker[w].job
<1>1. UNCHANGED <<nextId, runs>> /\ id \in Ids
  BY DEF MutateLease, Inv, BusyHasJob, Busy
<1>2. CASE queue = "open" /\ HoldsLease(w, id)
  <2>1. PICK item \in updates, ok \in BOOLEAN : Persist([items EXCEPT ![id] = item], ok)
    BY <1>2 DEF MutateLease
  <2>2. items = disk /\ items \in [Ids -> Item] /\ items[id].status = "leased"
    BY <1>2 DEF Inv, TypeOK, MemoryIsDurable, HoldsLease
  <2> DEFINE q == [items EXCEPT ![id] = item]
  <2> HIDE DEF id
  <2>3. ASSUME NEW j \in Ids PROVE Legal(q, nextId', runs', j)
    <3>1. CASE j = id
      <4>1. q[j] = item
        BY <2>2, <3>1
      <4> QED BY <1>1, <2>2, <3>1, <4>1 DEF Legal, Place, Active, Terminal
    <3>2. CASE j # id
      <4>1. q[j] = items[j]
        BY <2>2, <3>2
      <4> QED BY <1>1, <2>2, <4>1 DEF Legal, Place
    <3> QED BY <3>1, <3>2
  <2> HIDE DEF q
  <2> QED BY <1>1, <1>2, <2>1, <2>3, PersistIsWorkStep DEF q
<1>3. CASE ~(queue = "open" /\ HoldsLease(w, id))
  BY <1>1, <1>3 DEF MutateLease
<1> QED BY <1>2, <1>3

LEMMA WorkerIsWorkStep ==
    ASSUME Inv, NEW w \in Workers, WorkerStep(w)
    PROVE  Work!Next \/ UNCHANGED <<disk, nextId, runs>>
<1>1. CASE StartupReconcile(w)
  <2>1. UNCHANGED <<nextId, runs>>
    BY <1>1 DEF StartupReconcile
  <2>2. CASE queue = "open" /\ Reconciled(items) # items
    <3>1. PICK ok \in BOOLEAN : Persist(Reconciled(items), ok)
      BY <1>1, <2>2 DEF StartupReconcile
    <3>2. \A id \in Ids : Legal(Reconciled(items), nextId', runs', id)
      BY <2>1, <2>2, ReconciledPlace
    <3> QED BY <2>1, <2>2, <3>1, <3>2, PersistIsWorkStep
  <2>3. CASE ~(queue = "open" /\ Reconciled(items) # items)
    BY <1>1, <2>1, <2>3 DEF StartupReconcile
  <2> QED BY <2>2, <2>3
<1>2. CASE CheckSignals(w) \/ ClaimRefused(w) \/ ClaimEmpty(w)
  BY <1>2 DEF CheckSignals, ClaimRefused, ClaimEmpty
<1>3. CASE ClaimItem(w)
  BY <1>3, ClaimItemIsWorkStep
<1>4. CASE Complete(w) \/ Fail(w)
  <2> DEFINE item == items[worker[w].job]
  <2>1. Busy(w)
    BY <1>4 DEF Complete, Fail, Busy
  <2>2. item \in Item /\ now \in Times
    BY <2>1 DEF Inv, TypeOK, BusyHasJob, Busy
  <2>3. CASE Complete(w)
    <3>1. Released(item, "completed", 0).status = "completed"
      BY <2>2, ReleasedType, BoundsAssumption DEF Status, Terminal, Times
    <3> QED BY <2>1, <2>3, <3>1, MutateLeaseIsWorkStep DEF Complete
  <2>4. CASE Fail(w)
    <3> DEFINE updates == {Retried(item, After(delay)) : delay \in Backoffs(item.attempts)}
    <3>1. \A updated \in updates : updated.status \in {"pending", "dead", "completed"}
      <4> HIDE DEF item
      <4>1. \A delay \in Backoffs(item.attempts) : After(delay) \in Times
        BY <2>2, BackoffsType, AfterType
      <4> QED BY <2>2, <4>1, RetriedType
    <3>2. MutateLease(w, updates)
      BY <2>4 DEF Fail
    <3> HIDE DEF updates
    <3> QED BY <2>1, <3>1, <3>2, MutateLeaseIsWorkStep
  <2> QED BY <1>4, <2>3, <2>4
<1> QED BY <1>1, <1>2, <1>3, <1>4 DEF WorkerStep, Claim

LEMMA StepIsWorkStep ==
    Inv /\ [Next]_vars => Work!Next \/ UNCHANGED <<disk, nextId, runs>>
<1> SUFFICES ASSUME Inv, [Next]_vars
             PROVE  Work!Next \/ UNCHANGED <<disk, nextId, runs>>
  OBVIOUS
<1>1. CASE UNCHANGED vars
  BY <1>1 DEF vars
<1>2. CASE CleanupTerminal \/ \E key \in Keys : Enqueue(key) \/ CancelByKey(key)
  BY <1>2, CallerIsWorkStep
<1>3. ASSUME NEW w \in Workers, WorkerStep(w)
      PROVE  Work!Next \/ UNCHANGED <<disk, nextId, runs>>
  BY <1>3, WorkerIsWorkStep
<1>4. ASSUME NEW w \in Workers,
             StartWorker(w) \/ Drain(w) \/ DrainUnstarted(w) \/ CancelContext(w)
      PROVE  UNCHANGED <<disk, nextId, runs>>
  BY <1>4 DEF StartWorker, Drain, DrainUnstarted, CancelContext
<1>5. CASE Close
  BY <1>5 DEF Close, Inv, MemoryIsDurable
<1>6. CASE Crash \/ Open \/ Tick
  BY <1>6 DEF Crash, Open, Tick
<1> QED BY <1>1, <1>2, <1>3, <1>4, <1>5, <1>6 DEF Next

\* Whatever crashes, failed writes, lost leases and cancellations do to it,
\* the queue file implements bounded retries of durable work: a submitted job
\* stays until it is settled, is tried at most MaxAttempts times and never
\* after it was settled.
THEOREM QueueImplementsDurableWork == Spec => ImplementsDurableWork
<1>1. Init => Work!Init
  <2> SUFFICES ASSUME Init PROVE Work!Init
    OBVIOUS
  <2>1. \A id \in Ids : Place(disk, nextId, id) = "absent"
    BY DEF Init, Place, NoItem, Active, Terminal, Ids
  <2> QED BY <2>1 DEF Init, Work!Init
<1>2. Inv /\ [Next]_vars => [Work!Next]_(Work!vars)
  <2> SUFFICES ASSUME Inv, [Next]_vars PROVE [Work!Next]_(Work!vars)
    OBVIOUS
  <2>1. CASE Work!Next
    BY <2>1
  <2>2. CASE UNCHANGED <<disk, nextId, runs>>
    <3>1. UNCHANGED Work!vars
      BY <2>2 DEF Work!vars, Place
    <3> QED BY <3>1
  <2> QED BY <2>1, <2>2, StepIsWorkStep
<1> QED BY <1>1, <1>2, SpecInv, PTL DEF Spec, ImplementsDurableWork, Work!Spec
=============================================================================
