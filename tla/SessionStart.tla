---------------------------- MODULE SessionStart ----------------------------
(***************************************************************************)
(* Two processes that open the same session, the second one with --resume  *)
(* while the first may be running: two instances of SessionProcess, with   *)
(* the queue file, the clock and the session lease between them.           *)
(***************************************************************************)
EXTENDS Integers

CONSTANTS Keys, NoKey, NoWorker, FirstWorker, SecondWorker,
          Capacity, MaxAttempts, LeaseDuration, BaseBackoff, MaxBackoff,
          PayloadSize, MaxFileSize, MaxItems, MaxTime

VARIABLES items1, queue1, worker1, stage1,
          items2, queue2, worker2, stage2,
          disk, nextId, now, runs, lease

own1 == <<items1, queue1, worker1, stage1>>
own2 == <<items2, queue2, worker2, stage2>>

vars == <<own1, own2, disk, nextId, now, runs, lease>>

Workers == {FirstWorker, SecondWorker}

First == INSTANCE SessionProcess WITH
    Self <- FirstWorker, items <- items1, queue <- queue1, worker <- worker1, stage <- stage1
Second == INSTANCE SessionProcess WITH
    Self <- SecondWorker, items <- items2, queue <- queue2, worker <- worker2, stage <- stage2

Init ==
    /\ items1 = [id \in 1..MaxItems |-> First!NoItem] /\ items2 = items1 /\ disk = items1
    /\ queue1 = "down" /\ queue2 = "down"
    /\ worker1 = [w \in Workers |-> First!NewWorker] /\ worker2 = worker1
    /\ stage1 = "begin" /\ stage2 = "begin"
    /\ lease = NoWorker
    /\ nextId = 1 /\ now = 0
    /\ runs = [id \in 1..MaxItems |-> 0]

\* The clock of both processes.
Tick ==
    /\ now < MaxTime
    /\ now' = now + 1
    /\ UNCHANGED <<own1, own2, disk, nextId, runs, lease>>

Next ==
    \/ First!Step /\ UNCHANGED own2
    \/ Second!Step /\ UNCHANGED own1
    \/ Tick

Spec == Init /\ [][Next]_vars

-----------------------------------------------------------------------------
(* Properties.                                                             *)

Runs(worker, w, id) ==
    /\ worker[w].phase = "busy" /\ worker[w].job = id
    /\ now < worker[w].until

\* A session is opened by one process at a time, so no item of its queue is run
\* by two of them, each inside the lease that it believes to have on the item.
ItemsRunInOneProcess ==
    \A id \in 1..MaxItems :
        ~(Runs(worker1, FirstWorker, id) /\ Runs(worker2, SecondWorker, id))
=============================================================================
