---------------------------- MODULE RuntimeStore ----------------------------
(***************************************************************************)
(* internal/runtimeapi/store.go: the transaction log of one task.  Each    *)
(* line of the file holds an event and the state it leads to; a commit     *)
(* appends a line and syncs it, a load replays every line.                 *)
(*                                                                         *)
(* Commit and Load hold the mutex of the store from their first read of    *)
(* the file to their last write, so each is one step.  What the disk may   *)
(* do to an append is a choice: the line is cut short, it is written but   *)
(* its sync fails, or it is durable.  Line numbers are cursors.            *)
(***************************************************************************)
EXTENDS ProductState, Sequences

CONSTANTS Subscribers,  \* clients that read the events after their cursor
          Settings      \* the settings in which the service is used

\* What the write and the sync of a line may come to.
WriteOutcomes == {"short", "unsynced", "synced"}

\* Who calls the service, what for, over which disk, and how far a run goes.
Setting == [families   : SUBSET {"task", "scope", "approval", "control",
                                 "evidence", "finding", "report", "events"},
            serialised : BOOLEAN,   \* whether the callers hold one mutex, as
                                    \* those of LocalServer do
            writes     : SUBSET WriteOutcomes,
            scopes     : SUBSET Scopes,
            maxEvents  : Nat,       \* bound on the lines of the log
            maxTime    : Nat]       \* bound on the clock

ASSUME StoreAssumptions == Settings \subseteq Setting

VARIABLES
  setting,    \* chosen once
  log,        \* the complete lines of the file: <<[event, state], ...>>
  tail,       \* what follows them: "clean", "torn", or "garbled" once a line
              \* was appended to a torn one, which no load accepts
  synced,     \* how many lines a loss of power keeps for certain
  promised,   \* the <<cursor, event>> pairs whose Commit returned no error
  delivered   \* delivered[s]: the events subscriber s was given, by cursor

storeVars == <<setting, log, tail, synced, promised, delivered>>

Line == [event : Event, state : State]

StoreTypeOK ==
  /\ setting \in Settings
  /\ log \in Seq(Line)
  /\ tail \in {"clean", "torn", "garbled"}
  /\ synced \in 0..Len(log)
  /\ promised \subseteq Nat \X Event
  /\ delivered \in [Subscribers -> Seq(Event)]

StoreInit ==
  /\ setting \in Settings
  /\ log = <<>>
  /\ tail = "clean"
  /\ synced = 0
  /\ promised = {}
  /\ delivered = [s \in Subscribers |-> <<>>]

-----------------------------------------------------------------------------
(* loadLocked: cut off what follows the last newline, replay the rest.      *)

StateAfter(n) == IF n = 0 THEN Initial ELSE log[n].state

View == StateAfter(Len(log))

Repaired_Never(t) == t

Repaired(t) == IF t = "torn" THEN "clean" ELSE t

Load == tail # "garbled" /\ tail' = Repaired(tail)

\* The last write of a commit: the bytes of one line and its newline.
Append1(e) ==
  /\ log' = Append(log, [event |-> e, state |-> Project(View, e)])
  /\ tail' = IF Repaired(tail) = "clean" THEN "clean" ELSE "garbled"

\* A commit that does not sync the line it acknowledges.
Write_NoSync(e, outcome) ==
  \/ /\ outcome = "short"
     /\ tail' = "torn"
     /\ UNCHANGED <<log, synced, promised>>
  \/ /\ outcome # "short"
     /\ Append1(e)
     /\ promised' = promised \cup {<<Len(log'), e>>}
     /\ UNCHANGED synced

Write(e, outcome) ==
  \/ /\ outcome = "short"
     /\ tail' = "torn"
     /\ UNCHANGED <<log, synced, promised>>
  \/ /\ outcome = "unsynced"
     /\ Append1(e)
     /\ UNCHANGED <<synced, promised>>
  \/ /\ outcome = "synced"
     /\ Append1(e)
     /\ synced' = Len(log')
     /\ promised' = promised \cup {<<Len(log'), e>>}

Refuse ==
  /\ tail' = Repaired(tail)
  /\ UNCHANGED <<log, synced, promised>>

Commit(e) ==
  /\ IF tail # "garbled" /\ Accepts(View, e)
       THEN Len(log) < setting.maxEvents /\ \E outcome \in setting.writes : Write(e, outcome)
       ELSE Refuse
  /\ UNCHANGED <<setting, delivered>>

\* EventsAfter the cursor the subscriber has reached.
EventsAfter(s) ==
  /\ Load
  /\ Len(delivered[s]) < Len(log)
  /\ delivered' = [delivered EXCEPT ![s] =
                     @ \o [i \in 1..(Len(log) - Len(@)) |-> log[Len(@) + i].event]]
  /\ UNCHANGED <<setting, log, synced, promised>>

\* The machine stops: lines past the last sync may be gone, the first of them
\* in part.
PowerLoss ==
  \E n \in synced..Len(log) :
    /\ log' = SubSeq(log, 1, n)
    /\ synced' = n
    /\ tail' \in {tail} \cup IF n < Len(log) THEN {"clean", "torn"} ELSE {}
    /\ UNCHANGED <<setting, promised, delivered>>

-----------------------------------------------------------------------------
(* Properties.                                                              *)

\* Every load succeeds: no line was appended to a torn one, and every line is
\* an event its predecessor accepts with the state the reducer makes of it.
FileLoads ==
  /\ tail # "garbled"
  /\ \A i \in DOMAIN log :
       /\ Accepts(StateAfter(i - 1), log[i].event)
       /\ log[i].state = Project(StateAfter(i - 1), log[i].event)

\* What the outside was told stays: an event that Commit acknowledged is in the
\* log at its cursor, whatever is torn, cut off or lost after it, and what a
\* subscriber was given is the beginning of the log; unless a sync failed, when
\* it may have read a line that a loss of power takes away.
EventsStay ==
  /\ \A p \in promised : p[1] <= Len(log) /\ log[p[1]].event = p[2]
  /\ "unsynced" \notin setting.writes =>
       \A s \in Subscribers :
         /\ Len(delivered[s]) <= Len(log)
         /\ \A i \in DOMAIN delivered[s] : delivered[s][i] = log[i].event

\* What loadLocked accepts behind a history: an event for the state that it leads to,
\* with the state after it.
MayFollow(lines, line) ==
  LET state == IF Len(lines) = 0 THEN Initial ELSE lines[Len(lines)].state
  IN Accepts(state, line.event) /\ line.state = Project(state, line.event)

Log == INSTANCE EventLog WITH
  told <- promised, seen <- delivered, reliable <- "unsynced" \notin setting.writes

\* The file is a log as EventLog describes it, whatever is cut short, repaired or
\* lost in it.
ImplementsEventLog == Log!Spec
=============================================================================
