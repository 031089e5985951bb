----------------------------- MODULE MCTaskQueue -----------------------------
(* TaskQueue on small instances.                                           *)
EXTENDS TaskQueue, TLC

\* The workers one after the other, as a process has one: the next starts when the
\* last was drained, lost its context or died with its process.  Which of them is
\* the first makes no difference.  Only the start of a worker waits for its turn.
First == CHOOSE w \in Workers : TRUE

InTurn ==
    /\ Cardinality({w \in Workers : worker[w].phase \notin {"new", "done"}}) <= 1
    /\ worker[First].phase = "new" => \A w \in Workers : worker[w].phase = "new"

SerialSpec == Init /\ [][Next /\ InTurn']_vars /\ Fairness

Symmetry == Permutations(Keys) \cup Permutations(Workers)

\* The loop of retryDelay, statement by statement.
RECURSIVE DoubleUntil(_, _, _, _)
DoubleUntil(delay, current, attempt, max) ==
    IF ~(current < attempt /\ delay < max)
    THEN IF delay > max THEN max ELSE delay
    ELSE IF delay > max \div 2 THEN max
    ELSE DoubleUntil(2 * delay, current + 1, attempt, max)

\* DelayFor, which the queue's actions use, is what that loop computes, the
\* odd limits and a base above the limit included.
ASSUME DelayForIsTheLoop ==
    \A base, max \in 1..9, attempt \in 1..6 :
        DelayFor(base, max, attempt) = DoubleUntil(base, 1, attempt, max)
=============================================================================
