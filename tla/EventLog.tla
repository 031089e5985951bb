------------------------------ MODULE EventLog ------------------------------
(***************************************************************************)
(* What the transaction log of a task promises to those who commit events  *)
(* to it and to those who read them, without files, syncs, locks or calls: *)
(* a history that grows by one line at a time, each of which continues it. *)
(* A line whose committer was told of it stays at its cursor.  Where no    *)
(* sync fails every committer is told and nothing is lost; where one may,  *)
(* the end of the history that nobody was told of may go with the machine. *)
(***************************************************************************)
EXTENDS Naturals, Sequences

CONSTANTS Subscribers,       \* the readers of events
          MayFollow(_, _)    \* which line continues which history

VARIABLES
  log,      \* the lines: an event, and the state that it leads to
  told,     \* the <<cursor, event>> pairs that committers were told of
  seen,     \* seen[s]: the events that reader s was given
  reliable  \* whether no sync fails, chosen once

vars == <<log, told, seen, reliable>>

Init ==
  /\ log = <<>>
  /\ told = {}
  /\ seen = [s \in Subscribers |-> <<>>]
  /\ reliable \in BOOLEAN

\* A line is added, and its committer told or left with an error.
Add ==
  LET cursor == Len(log) + 1 IN
  /\ Len(log') = cursor
  /\ \A i \in 1..Len(log) : log'[i] = log[i]
  /\ MayFollow(log, log'[cursor])
  /\ \/ told' = told \cup {<<cursor, log'[cursor].event>>}
     \/ ~reliable /\ told' = told
  /\ UNCHANGED <<seen, reliable>>

\* A reader is given all events after the last one that it has.
Read(s) ==
  /\ Len(seen[s]) < Len(log)
  /\ Len(seen'[s]) = Len(log)
  /\ \A i \in 1..Len(seen[s]) : seen'[s][i] = seen[s][i]
  /\ \A i \in (Len(seen[s]) + 1)..Len(log) : seen'[s][i] = log[i].event
  /\ \A r \in Subscribers \ {s} : seen'[r] = seen[r]
  /\ UNCHANGED <<log, told, reliable>>

\* The machine stops and takes the end of the log with it.
Lose ==
  /\ ~reliable
  /\ Len(log') \leq Len(log)
  /\ \A i \in 1..Len(log') : log'[i] = log[i]
  /\ \A p \in told : p[1] \leq Len(log')
  /\ UNCHANGED <<told, seen, reliable>>

Next == Add \/ (\E s \in Subscribers : Read(s)) \/ Lose

Spec == Init /\ [][Next]_vars

\* What a committer was told of stays where it was told.
ToldStays ==
  \A p \in told : p[1] \in 1..Len(log) /\ log[p[1]].event = p[2]

\* Where no sync fails, a reader has the beginning of the log, with nothing missing,
\* doubled or replaced by something else.
ReadersFollow ==
  reliable =>
    \A s \in Subscribers :
      /\ Len(seen[s]) \leq Len(log)
      /\ \A i \in 1..Len(seen[s]) : seen[s][i] = log[i].event
=============================================================================
