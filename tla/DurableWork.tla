----------------------------- MODULE DurableWork -----------------------------
(***************************************************************************)
(* What the durable queue of internal/tasks promises the code that submits *)
(* work to it, without leases, workers, time or files.  A submitted job    *)
(* stays open until it is settled (completed, cancelled or dead); its      *)
(* handler is started at most MaxAttempts times and never after the job    *)
(* was settled; only a settled job is removed, and no job comes back.      *)
(***************************************************************************)
EXTENDS Integers

CONSTANTS Jobs, MaxAttempts

VARIABLES
    state,  \* where each job is
    tries   \* how often its handler was started

vars == <<state, tries>>

TypeOK ==
    \A job \in Jobs :
        /\ state[job] \in {"absent", "open", "settled", "removed"}
        /\ tries[job] \in 0..MaxAttempts

Init ==
    /\ state = [job \in Jobs |-> "absent"]
    /\ tries = [job \in Jobs |-> 0]

Moves(job, from, to) == state[job] = from /\ state'[job] = to

Kept(job) == state'[job] = state[job] /\ tries'[job] = tries[job]

Submit(job) == Moves(job, "absent", "open") /\ tries'[job] = tries[job]

Try(job) ==
    /\ Moves(job, "open", "open")
    /\ tries[job] < MaxAttempts
    /\ tries'[job] = tries[job] + 1

Settle(job) == Moves(job, "open", "settled") /\ tries'[job] = tries[job]

Remove(job) == Moves(job, "settled", "removed") /\ tries'[job] = tries[job]

\* One write of the file moves several jobs: a claim also buries the jobs
\* whose last lease ran out, and a cleanup removes every old one.
Next ==
    \A job \in Jobs :
        Kept(job) \/ Submit(job) \/ Try(job) \/ Settle(job) \/ Remove(job)

Spec == Init /\ [][Next]_vars

\* A job that was settled stays so, and its handler is not started again.
SettledIsOver ==
    [][\A job \in Jobs :
         state[job] \in {"settled", "removed"} =>
             /\ tries'[job] = tries[job]
             /\ state'[job] \in {state[job], "removed"}]_vars
=============================================================================
