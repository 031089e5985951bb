------------------------- MODULE ConversationProofs -------------------------
(***************************************************************************)
(* Proofs about Conversation for any callers, any calls of theirs and any  *)
(* number of messages: memory and snapshot agree, and tool results stay    *)
(* with their calls.                                                       *)
(***************************************************************************)
EXTENDS Conversation, SequenceTheorems, TLAPS

Phases == {"called", "waiting", "held", "cleared", "changed", "logged", "copied"}

At == [op : Operations, phase : Phases] \cup {Idle}

HoldPhases == {"held", "cleared", "changed", "logged", "copied"}

\* One call holds the token; engine and consumer work for a turn that holds it,
\* and nothing is in progress when the process is down.
TokenInv ==
  /\ at \in [Callers -> At]
  /\ \A c, d \in Callers : Holds(c) /\ Holds(d) => c = d
  /\ engine # "off" <=> \E c \in Callers : Runs(c)
  /\ sink # "ready" => engine # "off"
  /\ process = "down" => \A c \in Callers : at[c] = Idle

DataType ==
  /\ history \in Seq(Roles) /\ previous \in Seq(Roles)
  /\ snapshot \in Seq(Roles) \cup {None} /\ checkpoint \in Seq(Roles) \cup {None}

Last(h, role) == Len(h) > 0 /\ h[Len(h)] = role

\* What the engine adds next has the message before it that it needs.
LastInv ==
  /\ engine \in {"user", "plan", "summarised", "provider"} => ~Last(history, "calls")
  /\ engine \in {"tools", "answered", "results"} => Last(history, "calls")

RoundsInv ==
  /\ DataType
  /\ RoundsWhole(history) /\ RoundsWhole(previous)
  /\ snapshot # None => RoundsWhole(snapshot)
  /\ checkpoint # None => RoundsWhole(checkpoint)
  /\ LastInv

Disk == IF snapshot = None THEN <<>> ELSE snapshot

Working == {"user", "plan", "summarised", "provider", "tools", "answered", "results",
            "completing", "failing"}

Clearing == \E c \in Callers : at[c].phase = "cleared"

\* While the history is ahead of the snapshot, drift says so; a clear in
\* progress keeps what the snapshot has.
SavedInv ==
  /\ engine \in Working => drift
  /\ \A c \in Callers : at[c].phase \in {"changed", "logged"} => drift
  /\ Clearing /\ ~drift => previous = Disk
  /\ ~drift /\ process # "down" /\ ~Clearing => history = Disk
  /\ sink \in {"final", "snapshot", "done"} => engine = "over"
  /\ sink = "done" => history = Disk

-----------------------------------------------------------------------------
(* The token.                                                               *)

LEMMA AtFields ==
  ASSUME NEW a \in At
  PROVE  /\ a.phase \in Phases \cup {"idle"}
         /\ a.phase = "idle" <=> a = Idle
         /\ a.op = "none" <=> a = Idle
         /\ a # Idle => a.op \in Operations
         /\ a # Idle => \A p \in Phases : /\ [a EXCEPT !.phase = p] \in At
                                          /\ [a EXCEPT !.phase = p].phase = p
                                          /\ [a EXCEPT !.phase = p].op = a.op
  BY DEF At, Idle, Phases, Operations

\* A turn that runs holds the token.
LEMMA RunsHolds ==
  ASSUME TokenInv, NEW c \in Callers
  PROVE  /\ Runs(c) <=> at[c].op = "turn" /\ at[c].phase = "held"
         /\ Runs(c) => Holds(c)
         /\ Holds(c) <=> at[c].phase \in HoldPhases
         /\ at[c] # Idle => process # "down"
         /\ \A op \in Operations : [op |-> op, phase |-> "held"] # Idle
<1>1. at[c] \in At
  BY DEF TokenInv
<1>2. Runs(c) <=> at[c].op = "turn" /\ at[c].phase = "held"
  BY <1>1 DEF Runs, At, Idle
<1>3. \A op \in Operations : [op |-> op, phase |-> "held"] # Idle
  BY DEF Idle
<1> QED BY <1>1, <1>2, <1>3 DEF Holds, HoldPhases, TokenInv

\* A step of one call that starts and ends no turn.
LEMMA TokenStep ==
  ASSUME TokenInv, NEW c \in Callers, NEW a \in At,
         at' = [at EXCEPT ![c] = a], UNCHANGED <<engine, sink, process>>,
         process # "down",
         a.phase \in HoldPhases => Holds(c),
         ~Runs(c), ~(a.op = "turn" /\ a.phase = "held")
  PROVE  TokenInv'
<1>1. at' \in [Callers -> At] /\ at'[c] = a /\ \A d \in Callers : d # c => at'[d] = at[d]
  BY DEF TokenInv
<1>2. ~Runs(c)'
  BY <1>1 DEF Runs
<1>3. \A d \in Callers : Runs(d)' <=> Runs(d)
  BY <1>1, <1>2 DEF Runs
<1>4. \A d \in Callers : Holds(d)' => Holds(d)
  BY <1>1 DEF Holds, HoldPhases
<1>5. engine' # "off" <=> \E d \in Callers : Runs(d)'
  BY <1>3 DEF TokenInv
<1> QED BY <1>1, <1>4, <1>5 DEF TokenInv

\* A step of the engine or of its consumer within a turn.
LEMMA TurnStep ==
  ASSUME TokenInv, NEW c \in Callers, Runs(c), UNCHANGED <<at, process>>, engine' # "off"
  PROVE  TokenInv'
<1>1. \A d \in Callers : (Runs(d)' <=> Runs(d)) /\ (Holds(d)' <=> Holds(d))
  BY DEF Runs, Holds
<1> QED BY <1>1 DEF TokenInv

\* A step of a call that is no running turn: it returns or goes on to another phase.
LEMMA CallStep ==
  ASSUME TokenInv, NEW c \in Callers, at[c] # Idle, ~Runs(c),
         UNCHANGED <<engine, sink, process>>,
         Returns(c) \/ \E p \in Phases \ {"held"} : /\ Stays(c, p)
                                                    /\ p \in HoldPhases => Holds(c)
  PROVE  TokenInv'
<1>1. at[c] \in At /\ process # "down"
  BY RunsHolds DEF TokenInv
<1>2. CASE Returns(c)
  <2>1. Idle \in At /\ Idle.phase \notin HoldPhases /\ Idle.op # "turn"
    BY DEF At, Idle, HoldPhases
  <2> QED BY <1>1, <1>2, <2>1, TokenStep DEF Returns
<1>3. ASSUME NEW p \in Phases \ {"held"}, Stays(c, p), p \in HoldPhases => Holds(c)
      PROVE  TokenInv'
  <2> DEFINE a == [at[c] EXCEPT !.phase = p]
  <2>1. a \in At /\ a.phase = p
    BY <1>1, AtFields
  <2>2. at' = [at EXCEPT ![c] = a]
    BY <1>3 DEF Stays, GoesTo
  <2> HIDE DEF a
  <2> QED BY <1>1, <1>3, <2>1, <2>2, TokenStep
<1> QED BY <1>2, <1>3

\* A command that holds the token is not a turn, and no turn runs beside it.
LEMMA CommandAlone ==
  ASSUME TokenInv, NEW c \in Callers, Holds(c), ~Runs(c)
  PROVE  /\ at[c] # Idle /\ process # "down"
         /\ engine = "off" /\ sink = "ready"
         /\ \A d \in Callers : d # c => at[d].phase \notin HoldPhases
<1>1. at[c] # Idle
  BY DEF Holds, Idle
<1>2. \A d \in Callers : ~Runs(d)
  BY RunsHolds DEF TokenInv
<1>3. \A d \in Callers : d # c => at[d].phase \notin HoldPhases
  BY RunsHolds DEF TokenInv
<1> QED BY <1>1, <1>2, <1>3, RunsHolds DEF TokenInv

\* The same of a turn.
LEMMA TurnAlone ==
  ASSUME TokenInv, NEW c \in Callers, Runs(c)
  PROVE  /\ at[c] # Idle /\ process # "down" /\ Holds(c)
         /\ engine # "off"
         /\ \A d \in Callers : d # c => at[d].phase \notin HoldPhases
         /\ at[c].phase = "held"
<1>1. at[c] # Idle
  BY DEF Runs, Idle
<1>2. Holds(c) /\ at[c].phase = "held"
  BY DEF Holds, Runs
<1>3. \A d \in Callers : d # c => at[d].phase \notin HoldPhases
  BY <1>2, RunsHolds DEF TokenInv
<1> QED BY <1>1, <1>2, <1>3, RunsHolds DEF TokenInv

\* What no action of a command changes, and what each phase says of its call.
LEMMA Phased ==
  ASSUME NEW c \in Callers
  PROVE  /\ at[c].phase = "called" => ~Runs(c) /\ ~Holds(c) /\ at[c] # Idle
         /\ at[c].phase = "waiting" => ~Runs(c) /\ ~Holds(c) /\ at[c] # Idle
         /\ at[c].phase \in {"cleared", "changed", "logged", "copied"} =>
              ~Runs(c) /\ Holds(c) /\ at[c] # Idle
         /\ \A op \in Operations \ {"turn"} : Held(c, op) =>
              ~Runs(c) /\ Holds(c) /\ at[c] # Idle /\ at[c].phase = "held"
  BY DEF Runs, Holds, Held, Idle

LEMMA TokenCommand ==
  ASSUME TokenInv, NEW c \in Callers, Command(c) \/ Compact(c) \/ GiveUp(c)
  PROVE  TokenInv'
<1>1. CASE CheckClosed(c)
  BY <1>1, Phased, CallStep DEF CheckClosed, Phases, HoldPhases
<1>2. CASE ReplaceHistory(c)
  BY <1>2, Phased, CallStep DEF ReplaceHistory, Operations, Phases
<1>3. CASE SaveCleared(c)
  BY <1>3, Phased, CallStep DEF SaveCleared
<1>4. CASE Rewind(c)
  BY <1>4, Phased, CallStep DEF Rewind, Operations, Phases
<1>5. CASE LogChange(c)
  BY <1>5, Phased, CallStep DEF LogChange, Phases
<1>6. CASE SaveChange(c)
  BY <1>6, Phased, CallStep DEF SaveChange
<1>7. CASE CopySnapshot(c)
  BY <1>7, Phased, CallStep DEF CopySnapshot, Operations, Phases
<1>8. CASE WriteGraph(c)
  BY <1>8, Phased, CallStep DEF WriteGraph
<1>9. CASE Compact(c)
  BY <1>9, Phased, CallStep DEF Compact, Operations, Phases
<1>10. CASE GiveUp(c)
  BY <1>10, Phased, CallStep DEF GiveUp
<1> QED BY <1>1, <1>2, <1>3, <1>4, <1>5, <1>6, <1>7, <1>8, <1>9, <1>10 DEF Command

LEMMA TokenCall ==
  ASSUME TokenInv, NEW c \in Callers, NEW op \in Operations, Call(c, op)
  PROVE  TokenInv'
<1> DEFINE a == [op |-> op, phase |-> IF op \in {"clear", "compact"} THEN "called" ELSE "waiting"]
<1>1. a \in At /\ a.phase \notin HoldPhases /\ a.phase # "held"
  BY DEF At, Phases, HoldPhases
<1>2. ~Runs(c)
  BY DEF Call, Runs, Idle
<1>3. at' = [at EXCEPT ![c] = a] /\ UNCHANGED <<engine, sink, process>> /\ process # "down"
  BY DEF Call
<1> HIDE DEF a
<1> QED BY <1>1, <1>2, <1>3, TokenStep

LEMMA TokenAcquire ==
  ASSUME TokenInv, NEW c \in Callers, Acquire(c)
  PROVE  TokenInv'
<1> DEFINE a == [at[c] EXCEPT !.phase = "held"]
<1>1. at[c] \in At /\ at[c] # Idle /\ process # "down" /\ at[c].op \in Operations
  BY Phased, RunsHolds, AtFields DEF Acquire, TokenInv
<1>2. a \in At /\ a.phase = "held" /\ a.op = at[c].op
  BY <1>1, AtFields DEF Phases
<1>3. /\ at' \in [Callers -> At] /\ at'[c] = a
      /\ \A d \in Callers : d # c => at'[d] = at[d]
  BY <1>2 DEF Acquire, GoesTo, TokenInv
<1>4. \A d \in Callers : Holds(d)' => d = c
  BY <1>3 DEF Acquire, Holds
<1>5. \A d \in Callers : ~Runs(d)
  BY RunsHolds DEF Acquire
<1>6. Runs(c)' <=> at[c].op = "turn"
  <2>1. a = [op |-> "turn", phase |-> "held"] <=> a.op = "turn" /\ a.phase = "held"
    BY <1>1, <1>2 DEF At, Idle
  <2> HIDE DEF a
  <2> QED BY <1>2, <1>3, <2>1 DEF Runs
<1>7. engine' # "off" <=> \E d \in Callers : Runs(d)'
  <2>1. \A d \in Callers : d # c => ~Runs(d)'
    BY <1>3, <1>5 DEF Runs
  <2>2. engine = "off"
    BY <1>5 DEF TokenInv
  <2> QED BY <1>6, <2>1, <2>2 DEF Acquire
<1>8. sink = "ready" /\ sink' = sink /\ process' = process
  BY <1>5 DEF TokenInv, Acquire
<1> HIDE DEF a
<1> QED BY <1>1, <1>3, <1>4, <1>7, <1>8 DEF TokenInv

\* The last step of a turn gives the token back and leaves no engine behind.
LEMMA TokenEndTurn ==
  ASSUME TokenInv, NEW c \in Callers, EndTurn(c)
  PROVE  TokenInv'
<1>1. /\ at' \in [Callers -> At] /\ at'[c] = Idle
      /\ \A d \in Callers : d # c => at'[d] = at[d]
  BY DEF EndTurn, Returns, TokenInv, At
<1>2. \A d \in Callers : Holds(d)' => Holds(d)
  BY <1>1 DEF Holds, Idle
<1>3. \A d \in Callers : ~Runs(d)'
  <2>1. ~Runs(c)'
    BY <1>1 DEF Runs, Idle
  <2>2. \A d \in Callers : d # c => ~Runs(d)
    BY RunsHolds DEF TokenInv, EndTurn
  <2> QED BY <1>1, <2>1, <2>2 DEF Runs
<1> QED BY <1>1, <1>2, <1>3, TurnAlone DEF EndTurn, TokenInv

LEMMA TokenTurn ==
  ASSUME TokenInv, NEW c \in Callers, Engine(c) \/ Outside(c) \/ Consumer(c) \/ Deliver(c)
  PROVE  TokenInv'
<1>1. CASE EndTurn(c)
  BY <1>1, TokenEndTurn
<1>2. CASE ~EndTurn(c) /\ (Engine(c) \/ Outside(c))
  <2>1. Runs(c) /\ UNCHANGED <<at, process>>
    BY <1>2 DEF Engine, Outside, Begin, SendUser, Plan, SendCompacted, SendResults, RecordResults,
                SendLast, ProviderRound, ExecuteTools, EngineWait
  <2>2. engine' # "off"
    BY <1>2 DEF Engine, Outside, Begin, SendUser, Plan, SendCompacted, SendResults, RecordResults,
                SendLast, ProviderRound, ExecuteTools, Send
  <2> QED BY <2>1, <2>2, TurnStep
<1>3. CASE Consumer(c) \/ Deliver(c)
  <2>1. Runs(c) /\ UNCHANGED <<at, process, engine>>
    BY <1>3 DEF Consumer, Drop, LogEvent, SaveTurn, Report, Deliver
  <2> QED BY <2>1, TurnAlone, TurnStep
<1> QED BY <1>1, <1>2, <1>3

\* Crash, and the end of a shutdown: nothing is in progress.
LEMMA TokenNothing ==
  ASSUME at' = [c \in Callers |-> Idle], engine' = "off", sink' = "ready"
  PROVE  TokenInv'
  BY DEF TokenInv, Holds, Runs, Idle, At

LEMMA TokenNext ==
  ASSUME TokenInv, [Next]_vars
  PROVE  TokenInv'
<1> USE ConversationAssumptions
<1>1. CASE UNCHANGED vars
  BY <1>1 DEF TokenInv, vars, Holds, Runs
<1>2. ASSUME NEW c \in Callers, NEW op \in Calls[c], Call(c, op)
      PROVE  TokenInv'
  BY <1>2, TokenCall DEF ConversationAssumptions
<1>3. ASSUME NEW c \in Callers, Cancel(c)
      PROVE  TokenInv'
  BY <1>3 DEF Cancel, TokenInv, Holds, Runs
<1>4. CASE BeginShutdown
  BY <1>4 DEF BeginShutdown, TokenInv, Holds, Runs
<1>5. CASE FinishShutdown
  BY <1>5 DEF FinishShutdown, TokenInv, Holds, Runs
<1>6. CASE Crash
  BY <1>6, TokenNothing DEF Crash
<1>7. CASE Resume
  BY <1>7 DEF Resume, TokenInv, Holds, Runs
<1> QED BY <1>1, <1>2, <1>3, <1>4, <1>5, <1>6, <1>7, TokenAcquire, TokenCommand, TokenTurn DEF Next

-----------------------------------------------------------------------------
(* The rounds: what the engine and a compaction make of a history.          *)

LEMMA EmptyRounds ==
  /\ <<>> \in Seq(Roles) /\ RoundsWhole(<<>>)
  /\ \A role : ~Last(<<>>, role)
  BY EmptySeq DEF RoundsWhole, Last

LEMMA AppendRounds ==
  ASSUME NEW h \in Seq(Roles), RoundsWhole(h), NEW r \in Roles,
         Last(h, "calls") => r \in {"results", "user"},
         r = "results" => Last(h, "calls")
  PROVE  /\ Append(h, r) \in Seq(Roles) /\ RoundsWhole(Append(h, r))
         /\ \A role : Last(Append(h, r), role) <=> role = r
<1> DEFINE g == Append(h, r)
<1>1. /\ g \in Seq(Roles) /\ Len(g) = Len(h) + 1 /\ Len(h) \in Nat
      /\ \A i \in 1..Len(h) : g[i] = h[i]
      /\ g[Len(h) + 1] = r
  BY AppendProperties, LenProperties
<1> HIDE DEF g
<1>2. ASSUME NEW i \in 1..Len(g)
      PROVE  /\ g[i] = "results" => i > 1 /\ g[i - 1] = "calls"
             /\ g[i] = "calls" /\ i < Len(g) => g[i + 1] \in {"results", "user"}
  <2>1. CASE i \in 1..(Len(h) - 1)
    <3>1. i \in 1..Len(h) /\ i + 1 \in 1..Len(h) /\ (i > 1 => i - 1 \in 1..Len(h)) /\ i < Len(h)
      BY <1>1, <2>1
    <3> QED BY <1>1, <3>1 DEF RoundsWhole
  <2>2. CASE i = Len(h)
    <3>1. i \in 1..Len(h) /\ (i > 1 => i - 1 \in 1..Len(h)) /\ g[i + 1] = r
      BY <1>1, <2>2
    <3> QED BY <1>1, <2>2, <3>1 DEF RoundsWhole, Last
  <2>3. CASE i = Len(h) + 1
    <3>1. r = "results" => Len(h) \in 1..Len(h) /\ h[Len(h)] = "calls"
      BY <1>1 DEF Last
    <3> QED BY <1>1, <2>3, <3>1
  <2> QED BY <1>1, <2>1, <2>2, <2>3
<1> QED BY <1>1, <1>2 DEF RoundsWhole, Last, g

\* A compaction starts at a message that needs none before it, and keeps the last one.
LEMMA BoundaryExists ==
  ASSUME NEW h \in Seq(Roles), RoundsWhole(h), Compactable(h)
  PROVE  /\ CompactBoundary(h) \in 0..(Len(h) - KeepRecent)
         /\ CompactBoundary(h) > 0 => h[CompactBoundary(h) + 1] # "results"
<1> DEFINE n == Len(h) - KeepRecent
           Starts(b) == /\ b > 0 => h[b + 1] # "results"
                        /\ \A i \in (b + 1)..n : h[i + 1] = "results"
<1>1. n \in Nat \ {0} /\ n + 1 \in 1..Len(h) /\ Len(h) \in Nat /\ KeepRecent \in Nat \ {0}
  BY ConversationAssumptions, LenProperties DEF ConversationAssumptions, Compactable
<1> HIDE DEF n
<1>2. \E b \in 0..n : Starts(b)
  <2>1. CASE h[n + 1] # "results"
    <3>1. n \in 0..n /\ Starts(n)
      BY <1>1, <2>1
    <3> QED BY <3>1
  <2>2. CASE h[n + 1] = "results"
    <3>1. h[n] = "calls"
      BY <1>1, <2>2 DEF RoundsWhole
    <3>2. n - 1 \in 0..n /\ (n - 1) + 1 = n
      BY <1>1
    <3>3. \A i \in ((n - 1) + 1)..n : i = n
      BY <1>1, <3>2
    <3>4. Starts(n - 1)
      BY <2>2, <3>1, <3>2, <3>3
    <3> QED BY <3>2, <3>4
  <2> QED BY <2>1, <2>2
<1>3. CompactBoundary(h) = CHOOSE b \in 0..n : Starts(b)
  BY DEF CompactBoundary, n
<1>4. CompactBoundary(h) \in 0..n /\ Starts(CompactBoundary(h))
  BY <1>2, <1>3
<1> QED BY <1>4 DEF n

LEMMA CompactedRounds ==
  ASSUME NEW h \in Seq(Roles), RoundsWhole(h), Compactable(h), CompactBoundary(h) > 0
  PROVE  /\ Compacted(h) \in Seq(Roles) /\ RoundsWhole(Compacted(h))
         /\ Last(Compacted(h), "calls") <=> Last(h, "calls")
         /\ Len(Compacted(h)) <= Len(h)
<1> DEFINE b == CompactBoundary(h)
           kept == SubSeq(h, b + 1, Len(h))
           g == <<"summary">> \o kept
<1>1. /\ b \in Nat \ {0} /\ b < Len(h) /\ Len(h) \in Nat
      /\ h[b + 1] # "results"
  BY BoundaryExists, ConversationAssumptions, LenProperties DEF ConversationAssumptions, Compactable
<1> HIDE DEF b
<1>2. /\ kept \in Seq(Roles) /\ Len(kept) = Len(h) - b
      /\ \A i \in 1..(Len(h) - b) : kept[i] = h[b + i]
  <2>1. \A i \in (b + 1)..Len(h) : h[i] \in Roles
    BY <1>1, ElementOfSeq
  <2>2. /\ kept \in Seq(Roles) /\ Len(kept) = (IF b + 1 <= Len(h) THEN Len(h) - (b + 1) + 1 ELSE 0)
        /\ \A i \in 1..(Len(h) - (b + 1) + 1) : kept[i] = h[(b + 1) + i - 1]
    BY <1>1, <2>1, SubSeqProperties
  <2> HIDE DEF kept
  <2>3. \A i \in 1..(Len(h) - b) : i \in 1..(Len(h) - (b + 1) + 1) /\ (b + 1) + i - 1 = b + i
    BY <1>1
  <2> QED BY <1>1, <2>2, <2>3
<1> HIDE DEF kept
<1>3. /\ g \in Seq(Roles) /\ Len(g) = Len(h) - b + 1
      /\ g[1] = "summary"
      /\ \A i \in 2..(Len(h) - b + 1) : g[i] = h[b + i - 1]
  <2>1. <<"summary">> \in Seq(Roles) /\ Len(<<"summary">>) = 1 /\ <<"summary">>[1] = "summary"
    BY DEF Roles
  <2>2. /\ g \in Seq(Roles) /\ Len(g) = 1 + Len(kept)
        /\ \A i \in 1..(1 + Len(kept)) : g[i] = IF i <= 1 THEN <<"summary">>[i] ELSE kept[i - 1]
    BY <1>2, <2>1, ConcatProperties
  <2> HIDE DEF g
  <2>3. \A i \in 2..(Len(h) - b + 1) : /\ i \in 1..(1 + Len(kept)) /\ ~(i <= 1)
                                       /\ i - 1 \in 1..(Len(h) - b)
                                       /\ b + (i - 1) = b + i - 1
    BY <1>1, <1>2
  <2>4. 1 \in 1..(1 + Len(kept)) /\ 1 + Len(kept) = Len(h) - b + 1
    BY <1>1, <1>2
  <2>5. \A i \in 2..(Len(h) - b + 1) : g[i] = h[b + i - 1]
    BY <1>2, <2>2, <2>3
  <2>6. g[1] = "summary"
    BY <2>1, <2>2, <2>4
  <2> QED BY <2>2, <2>4, <2>5, <2>6
<1>4. Compacted(h) = g
  BY DEF Compacted, g, kept, b
<1> HIDE DEF g
<1>5. ASSUME NEW i \in 1..Len(g)
      PROVE  /\ g[i] = "results" => i > 1 /\ g[i - 1] = "calls"
             /\ g[i] = "calls" /\ i < Len(g) => g[i + 1] \in {"results", "user"}
  <2>1. CASE i = 1
    BY <1>3, <2>1
  <2>2. CASE i = 2
    <3>1. g[i] = h[b + 1] /\ b + 1 \in 1..Len(h)
      BY <1>1, <1>3, <2>2
    <3>2. i < Len(g) => g[i + 1] = h[(b + 1) + 1] /\ b + 1 < Len(h)
      BY <1>1, <1>3, <2>2
    <3> QED BY <1>1, <3>1, <3>2 DEF RoundsWhole
  <2>3. CASE i > 2
    <3>1. /\ g[i] = h[b + i - 1] /\ b + i - 1 \in 1..Len(h)
          /\ g[i - 1] = h[(b + i - 1) - 1] /\ b + i - 1 > 1
      BY <1>1, <1>3, <2>3
    <3>2. i < Len(g) => g[i + 1] = h[(b + i - 1) + 1] /\ b + i - 1 < Len(h)
      BY <1>1, <1>3, <2>3
    <3>3. i > 1
      BY <1>3, <2>3
    <3> QED BY <3>1, <3>2, <3>3 DEF RoundsWhole
  <2> QED BY <1>3, <2>1, <2>2, <2>3
<1>6. Last(g, "calls") <=> Last(h, "calls")
  <2>1. g[Len(g)] = h[Len(h)] /\ Len(g) > 0 /\ Len(h) > 0
    <3>1. Len(g) \in 2..(Len(h) - b + 1) /\ b + Len(g) - 1 = Len(h)
      BY <1>1, <1>3
    <3> QED BY <1>1, <1>3, <3>1
  <2> QED BY <2>1 DEF Last
<1>7. Len(g) <= Len(h)
  BY <1>1, <1>3
<1> QED BY <1>3, <1>4, <1>5, <1>6, <1>7 DEF RoundsWhole

-----------------------------------------------------------------------------
(* The rounds in memory and in the files, action by action.                 *)

LEMMA SaveWrites ==
  ASSUME NEW alive, NEW ok, SaveSnapshot(alive, ok)
  PROVE  /\ snapshot' \in {snapshot, history}
         /\ ok => snapshot' = history
  BY DEF SaveSnapshot

\* A step that changes no history, or only writes one to a file.
LEMMA RoundsKept ==
  ASSUME RoundsInv, UNCHANGED <<engine, history, previous>>,
         snapshot' \in {snapshot, history}, checkpoint' \in {checkpoint, snapshot, None}
  PROVE  RoundsInv'
<1>1. DataType'
  BY DEF RoundsInv, DataType
<1>2. LastInv'
  BY DEF RoundsInv, LastInv
<1>3. RoundsWhole(history)' /\ RoundsWhole(previous)'
  BY DEF RoundsInv
<1>4. (snapshot # None => RoundsWhole(snapshot))' /\ (checkpoint # None => RoundsWhole(checkpoint))'
  BY DEF RoundsInv
<1> QED BY <1>1, <1>2, <1>3, <1>4 DEF RoundsInv

\* A step that changes the history.
LEMMA RoundsChanged ==
  ASSUME RoundsInv, UNCHANGED <<previous, snapshot, checkpoint>>,
         history' \in Seq(Roles), RoundsWhole(history'), LastInv'
  PROVE  RoundsInv'
<1>1. DataType'
  BY DEF RoundsInv, DataType
<1> QED BY <1>1 DEF RoundsInv

LEMMA RoundsEngine ==
  ASSUME RoundsInv, NEW c \in Callers, Engine(c) \/ Outside(c)
  PROVE  RoundsInv'
<1> USE DEF EngineWait, memory, disk
<1>1. CASE Begin(c)
  <2>1. CASE history' = Append(history, "user") /\ engine' = "user"
    <3>1. /\ history' \in Seq(Roles) /\ RoundsWhole(history')
          /\ ~Last(history', "calls")
      BY <2>1, AppendRounds DEF RoundsInv, DataType, Roles
    <3> QED BY <1>1, <2>1, <3>1, RoundsChanged DEF Begin, LastInv
  <2>2. CASE engine' = "over" /\ UNCHANGED memory
    BY <1>1, <2>2, RoundsChanged DEF Begin, LastInv, RoundsInv, DataType
  <2> QED BY <1>1, <2>1, <2>2 DEF Begin
<1>2. CASE SendUser(c) \/ SendCompacted(c) \/ SendResults(c) \/ SendLast(c) \/ EndTurn(c) \/ ExecuteTools(c)
  <2>1. UNCHANGED <<history, previous, snapshot, checkpoint>>
    BY <1>2 DEF SendUser, SendCompacted, SendResults, SendLast, EndTurn, ExecuteTools
  <2>2. LastInv'
    BY <1>2, <2>1 DEF SendUser, SendCompacted, SendResults, SendLast, EndTurn, ExecuteTools,
                      Send, RoundsInv, LastInv
  <2> QED BY <2>1, <2>2, RoundsChanged DEF RoundsInv, DataType
<1>3. CASE Plan(c)
  <2>1. CASE UNCHANGED history
    BY <1>3, <2>1, RoundsChanged DEF Plan, LastInv, RoundsInv, DataType
  <2>2. CASE Compactable(history) /\ CompactBoundary(history) > 0 /\ history' = Compacted(history)
             /\ engine' = "summarised"
    <3>1. /\ history' \in Seq(Roles) /\ RoundsWhole(history')
          /\ ~Last(history', "calls")
      BY <1>3, <2>2, CompactedRounds DEF Plan, LastInv, RoundsInv, DataType
    <3> QED BY <1>3, <2>2, <3>1, RoundsChanged DEF Plan, LastInv
  <2> QED BY <1>3, <2>1, <2>2 DEF Plan
<1>4. CASE ProviderRound(c)
  <2>1. CASE UNCHANGED history /\ engine' \in {"failing", "over"}
    BY <1>4, <2>1, RoundsChanged DEF ProviderRound, LastInv, RoundsInv, DataType
  <2>2. ASSUME NEW role \in {"reply", "calls"}, history' = Append(history, role),
               engine' = IF role = "calls" THEN "tools" ELSE "completing"
        PROVE  RoundsInv'
    <3>1. /\ history' \in Seq(Roles) /\ RoundsWhole(history')
          /\ Last(history', "calls") <=> role = "calls"
      BY <1>4, <2>2, AppendRounds DEF ProviderRound, LastInv, RoundsInv, DataType, Roles
    <3> QED BY <1>4, <2>2, <3>1, RoundsChanged DEF ProviderRound, LastInv
  <2> QED BY <1>4, <2>1, <2>2 DEF ProviderRound
<1>5. CASE RecordResults(c)
  <2>1. /\ history' \in Seq(Roles) /\ RoundsWhole(history')
        /\ ~Last(history', "calls")
    BY <1>5, AppendRounds DEF RecordResults, LastInv, RoundsInv, DataType, Roles
  <2> QED BY <1>5, <2>1, RoundsChanged DEF RecordResults, LastInv
<1> QED BY <1>1, <1>2, <1>3, <1>4, <1>5 DEF Engine, Outside

LEMMA RoundsConsumer ==
  ASSUME RoundsInv, NEW c \in Callers, Consumer(c) \/ Deliver(c)
  PROVE  RoundsInv'
<1> USE DEF memory, disk
<1>1. CASE SaveTurn(c)
  BY <1>1, SaveWrites, RoundsKept DEF SaveTurn
<1> QED BY <1>1, RoundsKept DEF Consumer, Deliver, Drop, LogEvent, Report

LEMMA RoundsCommand ==
  ASSUME TokenInv, RoundsInv, NEW c \in Callers, Command(c) \/ Compact(c)
  PROVE  RoundsInv'
<1> USE DEF memory, disk
<1>1. CASE CheckClosed(c) \/ LogChange(c) \/ CopySnapshot(c) \/ WriteGraph(c)
  BY <1>1, RoundsKept DEF CheckClosed, LogChange, CopySnapshot, WriteGraph
<1>2. CASE SaveChange(c)
  BY <1>2, SaveWrites, RoundsKept DEF SaveChange
<1>3. CASE ReplaceHistory(c)
  <2>1. engine = "off"
    BY <1>3, Phased, CommandAlone DEF ReplaceHistory, Operations
  <2>2. CASE previous' = history /\ history' = <<>>
    BY <1>3, <2>1, <2>2, EmptyRounds DEF ReplaceHistory, RoundsInv, DataType, LastInv
  <2>3. CASE UNCHANGED memory
    BY <1>3, <2>3, RoundsKept DEF ReplaceHistory
  <2> QED BY <1>3, <2>2, <2>3 DEF ReplaceHistory
<1>4. CASE SaveCleared(c)
  <2>1. engine = "off"
    BY <1>4, Phased, CommandAlone DEF SaveCleared
  <2>2. snapshot' \in {snapshot, history} /\ history' \in {history, previous} /\ previous' = <<>>
    BY <1>4, SaveWrites DEF SaveCleared
  <2>3. DataType' /\ RoundsWhole(history') /\ RoundsWhole(previous')
    BY <1>4, <2>2, EmptyRounds DEF SaveCleared, RoundsInv, DataType
  <2> QED BY <1>4, <2>1, <2>2, <2>3 DEF SaveCleared, RoundsInv, LastInv
<1>5. CASE Compact(c)
  <2>1. engine = "off"
    BY <1>5, Phased, CommandAlone DEF Compact, Operations
  <2>2. history' \in Seq(Roles) /\ RoundsWhole(history')
    BY <1>5, CompactedRounds DEF Compact, RoundsInv, DataType
  <2> QED BY <1>5, <2>1, <2>2, RoundsChanged DEF Compact, LastInv
<1>6. CASE Rewind(c)
  <2>1. engine = "off"
    BY <1>6, Phased, CommandAlone DEF Rewind, Operations
  <2>2. history' \in Seq(Roles) /\ RoundsWhole(history')
    BY <1>6 DEF Rewind, RoundsInv, DataType
  <2> QED BY <1>6, <2>1, <2>2, RoundsChanged DEF Rewind, LastInv
<1> QED BY <1>1, <1>2, <1>3, <1>4, <1>5, <1>6 DEF Command

LEMMA RoundsNext ==
  ASSUME TokenInv, RoundsInv, [Next]_vars
  PROVE  RoundsInv'
<1> USE DEF memory, disk
<1>1. CASE UNCHANGED vars
  BY <1>1, RoundsKept DEF vars
<1>2. ASSUME NEW c \in Callers,
             (\E op \in Calls[c] : Call(c, op)) \/ Cancel(c) \/ GiveUp(c)
      PROVE  RoundsInv'
  BY <1>2, RoundsKept DEF Call, Cancel, GiveUp
<1>3. ASSUME NEW c \in Callers, Acquire(c)
      PROVE  RoundsInv'
  <2>1. LastInv'
    BY <1>3 DEF Acquire, RoundsInv, LastInv
  <2> QED BY <1>3, <2>1, RoundsChanged DEF Acquire, RoundsInv, DataType
<1>4. CASE BeginShutdown
  BY <1>4, RoundsKept DEF BeginShutdown
<1>5. CASE FinishShutdown \/ Crash \/ Resume
  <2>1. engine' = "off"
    <3>1. CASE Crash
      BY <3>1 DEF Crash
    <3>2. CASE FinishShutdown \/ Resume
      <4>1. \A c \in Callers : at[c] = Idle
        BY <3>2 DEF FinishShutdown, Resume, TokenInv
      <4> QED BY <3>2, <4>1 DEF FinishShutdown, Resume, TokenInv, Runs, Idle
    <3> QED BY <1>5, <3>1, <3>2
  <2>2. UNCHANGED <<snapshot, checkpoint>>
    BY <1>5 DEF FinishShutdown, Crash, Resume
  <2>3. previous' = <<>> /\ (history' = <<>> \/ (snapshot # None /\ history' = snapshot))
    BY <1>5 DEF FinishShutdown, Crash, Resume, Forget
  <2> QED BY <2>1, <2>2, <2>3, EmptyRounds DEF RoundsInv, DataType, LastInv
<1> QED BY <1>1, <1>2, <1>3, <1>4, <1>5, RoundsEngine, RoundsConsumer, RoundsCommand DEF Next

-----------------------------------------------------------------------------
(* Memory and snapshot.                                                     *)

LEMMA DiskIs ==
  ASSUME DataType
  PROVE  /\ snapshot # None => Disk = snapshot
         /\ snapshot' = history => Disk' = history
         /\ snapshot' = snapshot => Disk' = Disk
  BY ConversationAssumptions DEF ConversationAssumptions, DataType, Disk

\* A step of a call that neither starts nor ends the saving of a change.
LEMMA SavedKept ==
  ASSUME SavedInv, UNCHANGED <<engine, sink, history, previous, snapshot, process, drift>>,
         \A c \in Callers : at'[c].phase \in {"changed", "logged", "cleared"} =>
                             \/ at[c].phase = at'[c].phase
                             \/ at'[c].phase # "cleared" /\ drift,
         Clearing => Clearing'
  PROVE  SavedInv'
<1>1. Clearing' <=> Clearing
  BY DEF Clearing
<1>2. Disk' = Disk
  BY DEF Disk
<1> QED BY <1>1, <1>2 DEF SavedInv

\* A step of the engine in a turn that has changed the history.
LEMMA SavedTurn ==
  ASSUME TokenInv, SavedInv, NEW c \in Callers, Engine(c) \/ Outside(c), ~EndTurn(c)
  PROVE  SavedInv'
<1>1. Runs(c) /\ UNCHANGED <<at, process, snapshot>>
  BY DEF Engine, Outside, Begin, SendUser, Plan, SendCompacted, SendResults, RecordResults,
         SendLast, ProviderRound, ExecuteTools, EngineWait, disk
<1>2. ~Clearing /\ \A d \in Callers : at[d].phase \notin {"changed", "logged"}
  BY <1>1, TurnAlone DEF Clearing, HoldPhases
<1>3. ~Clearing' /\ \A d \in Callers : at'[d].phase \notin {"changed", "logged"}
  BY <1>1, <1>2 DEF Clearing
<1>4. sink \notin {"final", "snapshot", "done"} /\ process # "down"
  <2>1. engine # "over"
    BY DEF Engine, Outside, Begin, SendUser, Plan, SendCompacted, SendResults, RecordResults,
           SendLast, ProviderRound, ExecuteTools
  <2> QED BY <1>1, <2>1, TurnAlone DEF SavedInv
<1>5. /\ sink' = "final" => engine' = "over"
      /\ sink' \in {sink, "event", "final"}
  BY <1>4 DEF Engine, Outside, Begin, SendUser, Plan, SendCompacted, SendResults, RecordResults,
              SendLast, ProviderRound, ExecuteTools, EngineWait, Send
<1>6. drift' \/ (engine = "begin" /\ engine' = "over" /\ UNCHANGED <<history, drift>>)
  <2>1. CASE Begin(c)
    BY <2>1 DEF Begin, memory
  <2>2. CASE ~Begin(c)
    <3>1. engine \in Working /\ drift' = drift
      BY <2>2 DEF Engine, Outside, SendUser, Plan, SendCompacted, SendResults, RecordResults,
                  SendLast, ProviderRound, ExecuteTools, Working
    <3> QED BY <3>1 DEF SavedInv
  <2> QED BY <2>1, <2>2
<1>7. Disk' = Disk
  BY <1>1 DEF Disk
<1> QED BY <1>1, <1>2, <1>3, <1>4, <1>5, <1>6, <1>7 DEF SavedInv, Working

LEMMA SavedConsumer ==
  ASSUME TokenInv, DataType, SavedInv, NEW c \in Callers, Consumer(c) \/ Deliver(c)
  PROVE  SavedInv'
<1>1. Runs(c) /\ UNCHANGED <<at, process, engine, history, previous>>
  BY DEF Consumer, Deliver, Drop, LogEvent, SaveTurn, Report, memory
<1>2. ~Clearing /\ \A d \in Callers : at[d].phase \notin {"changed", "logged"}
  BY <1>1, TurnAlone DEF Clearing, HoldPhases
<1>3. ~Clearing' /\ \A d \in Callers : at'[d].phase \notin {"changed", "logged"}
  BY <1>1, <1>2 DEF Clearing
<1>4. process # "down"
  BY <1>1, TurnAlone
<1>5. CASE SaveTurn(c)
  <2>1. PICK ok \in BOOLEAN : /\ SaveSnapshot(live[c], ok)
                              /\ sink' = IF ok THEN "done" ELSE "report"
                              /\ drift' = (drift /\ ~ok)
    BY <1>5 DEF SaveTurn
  <2>2. snapshot' \in {snapshot, history} /\ (ok => snapshot' = history)
    BY <2>1, SaveWrites
  <2>3. engine = "over"
    BY <1>5 DEF SaveTurn, SavedInv
  <2>4. CASE ok
    BY <1>1, <1>3, <2>1, <2>2, <2>3, <2>4, DiskIs DEF SavedInv, Working
  <2>5. CASE ~ok
    <3>1. drift' <=> drift
      BY <2>1, <2>5
    <3>2. ~drift => history = Disk
      BY <1>2, <1>4 DEF SavedInv
    <3>3. ~drift => Disk' = Disk
      BY <2>2, <3>2, DiskIs
    <3>4. sink' = "report"
      BY <2>1, <2>5
    <3> QED BY <1>1, <1>3, <2>3, <3>1, <3>2, <3>3, <3>4 DEF SavedInv, Working
  <2> QED BY <2>4, <2>5
<1>6. CASE ~SaveTurn(c)
  <2>1. UNCHANGED <<snapshot, drift>>
    BY <1>6 DEF Consumer, Deliver, Drop, LogEvent, Report, disk
  <2>2. /\ sink' # "done" /\ sink' # "final"
        /\ sink' = "snapshot" => sink = "final"
    BY <1>6 DEF Consumer, Deliver, Drop, LogEvent, Report
  <2>3. Disk' = Disk
    BY <2>1, DiskIs
  <2> QED BY <1>1, <1>2, <1>3, <2>1, <2>2, <2>3 DEF SavedInv
<1> QED BY <1>5, <1>6

\* The phase of the call that takes a step, and those of the others.
LEMMA Phase ==
  ASSUME TokenInv, NEW c \in Callers
  PROVE  /\ Returns(c) => /\ at'[c].phase = "idle"
                          /\ \A d \in Callers : d # c => at'[d] = at[d]
         /\ \A p \in Phases : GoesTo(c, p) /\ at[c] # Idle =>
              /\ at'[c].phase = p
              /\ \A d \in Callers : d # c => at'[d] = at[d]
<1>1. at[c] \in At /\ at \in [Callers -> At]
  BY DEF TokenInv
<1>2. ASSUME NEW p \in Phases, GoesTo(c, p), at[c] # Idle
      PROVE  /\ at'[c].phase = p
             /\ \A d \in Callers : d # c => at'[d] = at[d]
  <2> DEFINE a == [at[c] EXCEPT !.phase = p]
  <2>1. a \in At /\ a.phase = p
    BY <1>1, <1>2, AtFields
  <2>2. at' = [at EXCEPT ![c] = a]
    BY <1>2 DEF GoesTo
  <2> HIDE DEF a
  <2> QED BY <1>1, <2>1, <2>2
<1>3. ASSUME Returns(c)
      PROVE  /\ at'[c].phase = "idle"
             /\ \A d \in Callers : d # c => at'[d] = at[d]
  BY <1>1, <1>3 DEF Returns, Idle
<1> QED BY <1>2, <1>3

\* A command that holds the token and goes to a phase, or returns: no other call
\* is changing anything.
LEMMA CommandTo ==
  ASSUME TokenInv, NEW c \in Callers, Holds(c), ~Runs(c), NEW p \in Phases \cup {"idle"},
         IF p = "idle" THEN Returns(c) ELSE GoesTo(c, p)
  PROVE  /\ Clearing <=> at[c].phase = "cleared"
         /\ Clearing' <=> p = "cleared"
         /\ \A d \in Callers : at'[d].phase \in {"changed", "logged"} => p \in {"changed", "logged"}
<1>1. \A d \in Callers : d # c => at[d].phase \notin {"cleared", "changed", "logged"}
  BY CommandAlone DEF HoldPhases
<1>2. at'[c].phase = p /\ \A d \in Callers : d # c => at'[d] = at[d]
  BY CommandAlone, Phase DEF Phases
<1> QED BY <1>1, <1>2 DEF Clearing

LEMMA SavedClear ==
  ASSUME TokenInv, DataType, SavedInv, NEW c \in Callers, ReplaceHistory(c) \/ SaveCleared(c)
  PROVE  SavedInv'
<1>1. /\ Holds(c) /\ ~Runs(c) /\ engine = "off" /\ sink = "ready" /\ process # "down"
      /\ UNCHANGED <<engine, sink, process>>
  BY Phased, CommandAlone DEF ReplaceHistory, SaveCleared, Operations
<1>2. CASE ReplaceHistory(c)
  <2>1. at[c].phase = "held" /\ ~Clearing /\ UNCHANGED <<snapshot, drift>> /\ Disk' = Disk
    <3>1. at[c].phase = "held"
      BY <1>2, Phased DEF ReplaceHistory, Operations
    <3>2. ~Clearing
      BY <1>1, <3>1, CommandAlone DEF Clearing, HoldPhases
    <3> QED BY <1>2, <3>1, <3>2, DiskIs DEF ReplaceHistory, disk
  <2>2. CASE previous' = history /\ GoesTo(c, "cleared")
    <3>1. Clearing' /\ \A d \in Callers : at'[d].phase \notin {"changed", "logged"}
      BY <1>1, <2>2, CommandTo DEF Phases
    <3> QED BY <1>1, <2>1, <2>2, <3>1 DEF SavedInv, Working
  <2>3. CASE Returns(c) /\ UNCHANGED memory
    <3>1. ~Clearing' /\ \A d \in Callers : at'[d].phase \notin {"changed", "logged"}
      BY <1>1, <2>3, CommandTo
    <3> QED BY <1>1, <2>1, <2>3, <3>1 DEF SavedInv, Working, memory
  <2> QED BY <1>2, <2>2, <2>3 DEF ReplaceHistory, Stays
<1>3. CASE SaveCleared(c)
  <2>1. PICK ok \in BOOLEAN : /\ SaveSnapshot(live[c], ok)
                              /\ history' = IF ok THEN history ELSE previous
                              /\ drift' = IF ok THEN FALSE ELSE drift \/ snapshot' # snapshot
    BY <1>3 DEF SaveCleared
  <2>2. ok => snapshot' = history
    BY <2>1, SaveWrites
  <2>3. Returns(c) /\ Clearing
    BY <1>3 DEF SaveCleared, Clearing
  <2>4. ~Clearing' /\ \A d \in Callers : at'[d].phase \notin {"changed", "logged"}
    BY <1>1, <2>3, CommandTo
  <2>5. ~drift' => history' = Disk'
    <3>1. CASE ok
      BY <2>1, <2>2, <3>1, DiskIs
    <3>2. CASE ~ok
      <4>1. ASSUME ~drift' PROVE ~drift /\ snapshot' = snapshot
        BY <2>1, <3>2, <4>1
      <4> QED BY <2>1, <2>3, <3>2, <4>1, DiskIs DEF SavedInv
    <3> QED BY <3>1, <3>2
  <2> QED BY <1>1, <2>4, <2>5 DEF SavedInv, Working
<1> QED BY <1>2, <1>3

\* Compaction and rewind change the history and say so until it is saved.
LEMMA SavedChange ==
  ASSUME TokenInv, DataType, SavedInv, NEW c \in Callers,
         Compact(c) \/ Rewind(c) \/ LogChange(c) \/ SaveChange(c)
  PROVE  SavedInv'
<1>1. /\ Holds(c) /\ ~Runs(c) /\ engine = "off" /\ sink = "ready" /\ process # "down"
      /\ UNCHANGED <<engine, sink, process, previous>>
  BY Phased, CommandAlone DEF Compact, Rewind, LogChange, SaveChange, Operations, memory
<1>2. ~Clearing
  BY <1>1, Phased, CommandAlone DEF Clearing, Compact, Rewind, LogChange, SaveChange, HoldPhases,
                                   Operations
<1>3. CASE Compact(c) \/ Rewind(c) \/ LogChange(c)
  <2>1. snapshot' = snapshot
    BY <1>3 DEF Compact, Rewind, LogChange, disk
  <2>2. CASE \E p \in {"changed", "logged"} : GoesTo(c, p) /\ drift'
    <3>1. PICK p \in {"changed", "logged"} : GoesTo(c, p) /\ drift'
      BY <2>2
    <3>2. ~Clearing'
      BY <1>1, <3>1, CommandTo DEF Phases
    <3> QED BY <1>1, <3>1, <3>2 DEF SavedInv, Working
  <2>3. CASE Returns(c) /\ UNCHANGED <<history, drift>>
    <3>1. ~Clearing' /\ \A d \in Callers : at'[d].phase \notin {"changed", "logged"}
      BY <1>1, <2>3, CommandTo
    <3>2. Disk' = Disk
      BY <2>1, DiskIs
    <3> QED BY <1>1, <1>2, <2>3, <3>1, <3>2 DEF SavedInv, Working
  <2>4. LogChange(c) => drift
    BY DEF LogChange, SavedInv
  <2> QED BY <1>3, <2>2, <2>3, <2>4 DEF Compact, Rewind, LogChange, Stays, memory
<1>4. CASE SaveChange(c)
  <2>1. PICK ok \in BOOLEAN : SaveSnapshot(live[c], ok) /\ drift' = (drift /\ ~ok)
    BY <1>4 DEF SaveChange
  <2>2. ok => snapshot' = history
    BY <2>1, SaveWrites
  <2>3. Returns(c) /\ history' = history /\ drift
    BY <1>4 DEF SaveChange, SavedInv, memory
  <2>4. ~Clearing' /\ \A d \in Callers : at'[d].phase \notin {"changed", "logged"}
    BY <1>1, <2>3, CommandTo
  <2>5. ~drift' => history' = Disk'
    BY <2>1, <2>2, <2>3, DiskIs
  <2> QED BY <1>1, <2>4, <2>5 DEF SavedInv, Working
<1> QED BY <1>3, <1>4

\* Calls that come and go, and a checkpoint, change neither memory nor snapshot.
LEMMA SavedCall ==
  ASSUME TokenInv, SavedInv, NEW c \in Callers,
         \/ \E op \in Calls[c] : Call(c, op)
         \/ Cancel(c) \/ GiveUp(c) \/ CheckClosed(c) \/ CopySnapshot(c) \/ WriteGraph(c)
  PROVE  SavedInv'
<1>1. UNCHANGED <<engine, sink, history, previous, snapshot, process, drift>>
  BY DEF Call, Cancel, GiveUp, CheckClosed, CopySnapshot, WriteGraph, memory, disk
<1>2. /\ at[c].phase # "cleared" \/ at' = at
      /\ \A d \in Callers : d # c => at'[d] = at[d]
      /\ at'[c].phase \notin {"changed", "logged", "cleared"} \/ at' = at
  <2>1. CASE \E op \in Calls[c] : Call(c, op)
    <3>1. PICK op \in Calls[c] : Call(c, op)
      BY <2>1
    <3> DEFINE a == [op |-> op,
                     phase |-> IF op \in {"clear", "compact"} THEN "called" ELSE "waiting"]
    <3>2. a.phase \notin {"changed", "logged", "cleared"} /\ at' = [at EXCEPT ![c] = a]
      BY <3>1 DEF Call
    <3>3. at[c].phase # "cleared"
      BY <3>1 DEF Call, Idle
    <3> HIDE DEF a
    <3> QED BY <3>2, <3>3 DEF TokenInv
  <2>2. CASE Cancel(c)
    BY <2>2 DEF Cancel
  <2>3. CASE GiveUp(c) \/ CheckClosed(c) \/ CopySnapshot(c) \/ WriteGraph(c)
    <3>1. at[c] # Idle /\ at[c].phase # "cleared"
      BY <2>3, Phased DEF GiveUp, CheckClosed, CopySnapshot, WriteGraph, Operations
    <3>2. Returns(c) \/ GoesTo(c, "waiting") \/ GoesTo(c, "copied")
      BY <2>3 DEF GiveUp, CheckClosed, CopySnapshot, WriteGraph, Stays
    <3> QED BY <3>1, <3>2, Phase DEF Phases
  <2> QED BY <2>1, <2>2, <2>3
<1>3. /\ Clearing => Clearing'
      /\ \A d \in Callers : at'[d].phase \in {"changed", "logged", "cleared"} =>
                               at[d].phase = at'[d].phase
  BY <1>2 DEF Clearing
<1> QED BY <1>1, <1>3, SavedKept

LEMMA SavedAcquire ==
  ASSUME TokenInv, SavedInv, NEW c \in Callers, Acquire(c)
  PROVE  SavedInv'
<1>1. at[c].phase = "waiting" /\ at[c] # Idle
  BY Phased DEF Acquire
<1>2. at'[c].phase = "held" /\ \A d \in Callers : d # c => at'[d] = at[d]
  BY <1>1, Phase DEF Acquire, Phases
<1>3. /\ Clearing' <=> Clearing
      /\ \A d \in Callers : at'[d].phase \in {"changed", "logged"} => at[d].phase = at'[d].phase
  BY <1>1, <1>2 DEF Clearing
<1>4. UNCHANGED <<sink, history, previous, snapshot, process, drift>> /\ engine' \in {"begin", engine}
  BY DEF Acquire, memory, disk
<1>5. sink \in {"final", "snapshot", "done"} => engine' = engine
  <2>1. sink # "ready" => \E d \in Callers : Holds(d)
    BY RunsHolds DEF TokenInv
  <2> QED BY <2>1 DEF Acquire
<1>6. Disk' = Disk
  BY <1>4 DEF Disk
<1> QED BY <1>3, <1>4, <1>5, <1>6 DEF SavedInv, Working

\* The end of a turn, of a shutdown and of the process, and a resume.
LEMMA SavedEnd ==
  ASSUME TokenInv, SavedInv, \/ \E c \in Callers : EndTurn(c)
                            \/ BeginShutdown \/ FinishShutdown \/ Crash \/ Resume
  PROVE  SavedInv'
<1>1. ASSUME NEW c \in Callers, EndTurn(c)
      PROVE  SavedInv'
  <2>1. /\ ~Clearing /\ process # "down"
        /\ \A d \in Callers : at[d].phase \notin {"changed", "logged"}
    BY <1>1, TurnAlone DEF EndTurn, Clearing, HoldPhases
  <2>2. at'[c].phase = "idle" /\ \A d \in Callers : d # c => at'[d] = at[d]
    BY <1>1, Phase DEF EndTurn
  <2>3. ~Clearing' /\ \A d \in Callers : at'[d].phase \notin {"changed", "logged"}
    BY <2>1, <2>2 DEF Clearing
  <2>4. Disk' = Disk
    BY <1>1 DEF EndTurn, Disk, disk
  <2> QED BY <1>1, <2>1, <2>3, <2>4 DEF EndTurn, SavedInv, Working, memory
<1>2. CASE BeginShutdown
  BY <1>2 DEF BeginShutdown, SavedInv, Clearing, Disk, memory, disk
<1>3. CASE FinishShutdown \/ Crash \/ Resume
  <2>1. /\ \A c \in Callers : at'[c].phase = "idle"
        /\ engine' = "off" /\ sink' = "ready"
    <3>1. CASE Crash
      BY <3>1 DEF Crash, Idle
    <3>2. CASE FinishShutdown \/ Resume
      <4>1. \A c \in Callers : at[c] = Idle
        BY <3>2 DEF FinishShutdown, Resume, TokenInv
      <4>2. engine = "off" /\ sink = "ready"
        BY <4>1 DEF TokenInv, Runs, Idle
      <4> QED BY <3>2, <4>1, <4>2 DEF FinishShutdown, Resume, Idle
    <3> QED BY <1>3, <3>1, <3>2
  <2>2. ~Clearing'
    BY <2>1 DEF Clearing
  <2>3. process' = "down" \/ history' = Disk'
    BY <1>3 DEF FinishShutdown, Crash, Resume, Disk, disk
  <2> QED BY <2>1, <2>2, <2>3 DEF SavedInv, Working
<1> QED BY <1>1, <1>2, <1>3

LEMMA SavedNext ==
  ASSUME TokenInv, RoundsInv, SavedInv, [Next]_vars
  PROVE  SavedInv'
<1>1. DataType
  BY DEF RoundsInv
<1>2. CASE UNCHANGED vars
  BY <1>2, SavedKept DEF vars, memory, disk, Clearing
<1>3. ASSUME NEW c \in Callers, Engine(c) \/ Outside(c)
      PROVE  SavedInv'
  BY <1>3, SavedTurn, SavedEnd
<1>4. ASSUME NEW c \in Callers, Command(c) \/ Compact(c)
      PROVE  SavedInv'
  BY <1>1, <1>4, SavedCall, SavedClear, SavedChange DEF Command
<1> QED BY <1>1, <1>2, <1>3, <1>4, SavedCall, SavedAcquire, SavedConsumer, SavedEnd DEF Next

-----------------------------------------------------------------------------
(* The types, and the bounds on histories and faults.                       *)

Stages == {"off", "begin", "user", "plan", "summarised", "provider", "tools", "answered",
           "results", "completing", "failing", "over"}

StateInv ==
  /\ live \in [Callers -> BOOLEAN]
  /\ process \in {"up", "closing", "down"}
  /\ engine \in Stages
  /\ sink \in {"ready", "event", "final", "snapshot", "deliver", "done", "report"}
  /\ listed \in BOOLEAN /\ drift \in BOOLEAN
  /\ tail \in {"clean", "torn"}
  /\ faults \in 0..MaxFaults

Fits(h) == Len(h) <= MaxMessages

\* A turn starts, and a round of tools begins, with room for what it will add.
SizeInv ==
  /\ Fits(history) /\ Fits(previous)
  /\ snapshot # None => Fits(snapshot)
  /\ checkpoint # None => Fits(checkpoint)
  /\ engine \in {"begin", "tools", "answered", "results"} => Room(1)

\* What a write or a read may do to the log and to the count of faults.
LEMMA FilesState ==
  ASSUME StateInv, NEW alive, NEW ok
  PROVE  /\ Fault => faults' \in 0..MaxFaults
         /\ Append1(alive, ok) => tail' \in {"clean", "torn"} /\ faults' \in 0..MaxFaults
         /\ SaveSnapshot(alive, ok) => faults' \in 0..MaxFaults
<1>1. Fault => faults' \in 0..MaxFaults
  BY ConversationAssumptions DEF ConversationAssumptions, StateInv, Fault
<1>2. faults' = faults => faults' \in 0..MaxFaults
  BY DEF StateInv
<1>3. Append1(alive, ok) => faults' = faults \/ Fault
  BY DEF Append1
<1>4. Append1(alive, ok) => tail' \in {tail, "clean", "torn"}
  BY DEF Append1, Appended
<1>5. SaveSnapshot(alive, ok) => faults' = faults \/ Fault
  BY DEF SaveSnapshot
<1> QED BY <1>1, <1>2, <1>3, <1>4, <1>5 DEF StateInv

LEMMA StateTurn ==
  ASSUME StateInv, NEW c \in Callers, Engine(c) \/ Outside(c) \/ Consumer(c) \/ Deliver(c)
  PROVE  StateInv'
<1> USE DEF memory, disk, EngineWait
<1>1. CASE (Engine(c) /\ ~EndTurn(c)) \/ Outside(c)
  <2>1. UNCHANGED <<live, process, listed, tail, faults>> /\ drift' \in {drift, TRUE}
    BY <1>1 DEF Engine, Outside, Begin, SendUser, Plan, SendCompacted, SendResults, RecordResults,
                SendLast, ProviderRound, ExecuteTools
  <2>2. engine' \in Stages /\ sink' \in {sink, "event", "final"}
    BY <1>1 DEF Engine, Outside, Begin, SendUser, Plan, SendCompacted, SendResults, RecordResults,
                SendLast, ProviderRound, ExecuteTools, Send, Stages
  <2> QED BY <2>1, <2>2 DEF StateInv
<1>2. CASE EndTurn(c)
  <2>1. live' \in [Callers -> BOOLEAN]
    BY <1>2 DEF EndTurn, Returns, StateInv
  <2> QED BY <1>2, <2>1 DEF EndTurn, StateInv, Stages
<1>3. CASE Drop(c) \/ Deliver(c)
  BY <1>3 DEF Drop, Deliver, StateInv
<1>4. CASE LogEvent(c)
  <2>1. PICK ok \in BOOLEAN :
          /\ Append1(live[c], ok)
          /\ sink' = IF ~ok THEN "report" ELSE IF sink = "event" THEN "deliver" ELSE "snapshot"
    BY <1>4 DEF LogEvent
  <2>2. tail' \in {"clean", "torn"} /\ faults' \in 0..MaxFaults
    BY <2>1, FilesState
  <2> QED BY <1>4, <2>1, <2>2 DEF LogEvent, StateInv
<1>5. CASE SaveTurn(c)
  <2>1. PICK ok \in BOOLEAN : /\ SaveSnapshot(live[c], ok)
                              /\ sink' = IF ok THEN "done" ELSE "report"
                              /\ drift' = (drift /\ ~ok)
    BY <1>5 DEF SaveTurn
  <2>2. faults' \in 0..MaxFaults
    BY <2>1, FilesState
  <2>3. drift' \in BOOLEAN
    BY <2>1, Zenon
  <2> QED BY <1>5, <2>1, <2>2, <2>3 DEF SaveTurn, StateInv
<1>6. CASE Report(c)
  <2>1. live' \in [Callers -> BOOLEAN]
    BY <1>6 DEF Report, StateInv
  <2> QED BY <1>6, <2>1 DEF Report, StateInv
<1> QED BY <1>1, <1>2, <1>3, <1>4, <1>5, <1>6 DEF Engine, Consumer

LEMMA StateCommand ==
  ASSUME StateInv, NEW c \in Callers, Command(c) \/ Compact(c)
  PROVE  StateInv'
<1> USE DEF memory, disk
<1>1. UNCHANGED <<process, engine, sink>>
  BY DEF Command, CheckClosed, ReplaceHistory, SaveCleared, Rewind, LogChange, SaveChange,
         CopySnapshot, WriteGraph, Compact
<1>2. live' \in [Callers -> BOOLEAN]
  <2>1. live' = live \/ live' = [live EXCEPT ![c] = FALSE]
    BY DEF Command, CheckClosed, ReplaceHistory, SaveCleared, Rewind, LogChange, SaveChange,
           CopySnapshot, WriteGraph, Compact, Returns, Stays
  <2> QED BY <2>1 DEF StateInv
<1>3. listed' \in BOOLEAN
  BY DEF Command, CheckClosed, ReplaceHistory, SaveCleared, Rewind, LogChange, SaveChange,
         CopySnapshot, WriteGraph, Compact, StateInv
<1>4. tail' \in {"clean", "torn"} /\ faults' \in 0..MaxFaults
  <2>1. CASE LogChange(c)
    BY <2>1, FilesState DEF LogChange
  <2>2. CASE SaveCleared(c) \/ SaveChange(c)
    <3>1. tail' = tail /\ \E ok \in BOOLEAN : SaveSnapshot(live[c], ok)
      BY <2>2 DEF SaveCleared, SaveChange
    <3> QED BY <3>1, FilesState DEF StateInv
  <2>3. CASE ~(LogChange(c) \/ SaveCleared(c) \/ SaveChange(c))
    <3>1. tail' = tail /\ (faults' = faults \/ Fault)
      BY <2>3 DEF Command, CheckClosed, ReplaceHistory, Rewind, CopySnapshot, WriteGraph, Compact,
                  ReadFails
    <3> QED BY <3>1, FilesState DEF StateInv
  <2> QED BY <2>1, <2>2, <2>3
<1>5. drift' \in BOOLEAN
  <2>1. CASE SaveCleared(c)
    <3>1. PICK ok \in BOOLEAN : drift' = IF ok THEN FALSE ELSE drift \/ snapshot' # snapshot
      BY <2>1 DEF SaveCleared
    <3> QED BY <3>1
  <2>2. CASE SaveChange(c)
    <3>1. PICK ok \in BOOLEAN : drift' = (drift /\ ~ok)
      BY <2>2 DEF SaveChange
    <3> QED BY <3>1, Zenon
  <2>3. CASE ~(SaveCleared(c) \/ SaveChange(c))
    <3>1. drift' = drift \/ drift' = TRUE
      BY <2>3 DEF Command, CheckClosed, ReplaceHistory, Rewind, LogChange, CopySnapshot, WriteGraph,
                  Compact
    <3> QED BY <3>1 DEF StateInv
  <2> QED BY <2>1, <2>2, <2>3
<1> QED BY <1>1, <1>2, <1>3, <1>4, <1>5 DEF StateInv

LEMMA StateNext ==
  ASSUME StateInv, [Next]_vars
  PROVE  StateInv'
<1> USE DEF memory, disk
<1>1. CASE UNCHANGED vars
  BY <1>1 DEF vars, StateInv
<1>2. ASSUME NEW c \in Callers,
             (\E op \in Calls[c] : Call(c, op)) \/ Cancel(c) \/ Acquire(c) \/ GiveUp(c)
      PROVE  StateInv'
  <2>1. live' \in [Callers -> BOOLEAN]
    <3>1. \E b \in BOOLEAN : live' = [live EXCEPT ![c] = b] \/ live' = live
      BY <1>2 DEF Call, Cancel, Acquire, GiveUp, Returns
    <3> QED BY <3>1 DEF StateInv
  <2>2. engine' \in {engine, "begin"} /\ UNCHANGED <<process, sink, listed, drift, tail, faults>>
    BY <1>2 DEF Call, Cancel, Acquire, GiveUp
  <2> QED BY <2>1, <2>2 DEF StateInv, Stages
<1>3. CASE BeginShutdown
  <2>1. live' \in [Callers -> BOOLEAN]
    <3>1. \A c \in Callers : (live[c] /\ at[c].op # "turn") \in BOOLEAN
      BY Zenon
    <3> QED BY <1>3, <3>1 DEF BeginShutdown
  <2> QED BY <1>3, <2>1 DEF BeginShutdown, StateInv
<1>4. CASE FinishShutdown
  BY <1>4 DEF FinishShutdown, StateInv, Forget
<1>5. CASE Crash
  <2>1. faults' \in 0..MaxFaults
    BY <1>5, FilesState DEF Crash
  <2>2. live' \in [Callers -> BOOLEAN] /\ tail' \in {tail, "torn"}
    BY <1>5 DEF Crash
  <2> QED BY <1>5, <2>1, <2>2 DEF Crash, StateInv, Forget, Stages
<1>6. CASE Resume
  BY <1>6 DEF Resume, StateInv
<1> QED BY <1>1, <1>2, <1>3, <1>4, <1>5, <1>6, StateTurn, StateCommand DEF Next

\* A step that changes no history, or only writes one to a file.
LEMMA SizeKept ==
  ASSUME SizeInv, UNCHANGED <<engine, history, previous>>,
         snapshot' \in {snapshot, history}, checkpoint' \in {checkpoint, snapshot, None}
  PROVE  SizeInv'
<1>1. (snapshot # None => Fits(snapshot))' /\ (checkpoint # None => Fits(checkpoint))'
  BY DEF SizeInv
<1> QED BY <1>1 DEF SizeInv, Room

\* A step of the engine that leaves the files alone.
LEMMA SizeChanged ==
  ASSUME SizeInv, UNCHANGED <<previous, snapshot, checkpoint>>, Fits(history'),
         engine' \in {"begin", "tools", "answered", "results"} => Room(1)'
  PROVE  SizeInv'
  BY DEF SizeInv

LEMMA SizeEngine ==
  ASSUME RoundsInv, SizeInv, NEW c \in Callers, Engine(c) \/ Outside(c)
  PROVE  SizeInv'
<1> USE DEF EngineWait, memory, disk
<1>1. /\ history \in Seq(Roles) /\ Len(history) \in Nat /\ MaxMessages \in Nat
      /\ \A role \in Roles : Len(Append(history, role)) = Len(history) + 1
  BY AppendProperties, LenProperties, ConversationAssumptions
  DEF RoundsInv, DataType, ConversationAssumptions
<1>2. UNCHANGED <<snapshot, checkpoint>> /\ previous' = previous
  BY DEF Engine, Outside, Begin, SendUser, Plan, SendCompacted, SendResults, RecordResults,
         SendLast, EndTurn, ProviderRound, ExecuteTools
<1>3. CASE Begin(c) /\ engine' = "user" /\ history' = Append(history, "user")
  BY <1>1, <1>2, <1>3, SizeChanged DEF Begin, SizeInv, Room, Fits, Roles
<1>4. CASE RecordResults(c)
  BY <1>1, <1>2, <1>4, SizeChanged DEF RecordResults, SizeInv, Room, Fits, Roles
<1>5. CASE Plan(c) /\ ~UNCHANGED history
  <2>1. Len(history') <= Len(history) /\ Len(history') \in Nat
    BY <1>1, <1>5, CompactedRounds, LenProperties DEF Plan, RoundsInv
  <2> QED BY <1>1, <1>2, <1>5, <2>1, SizeChanged DEF Plan, SizeInv, Fits
<1>6. CASE ProviderRound(c) /\ ~UNCHANGED history
  <2>1. CASE Room(1) /\ history' = Append(history, "reply") /\ engine' = "completing"
    BY <1>1, <1>2, <2>1, SizeChanged DEF Room, Fits, Roles
  <2>2. CASE Room(2) /\ history' = Append(history, "calls") /\ engine' = "tools"
    BY <1>1, <1>2, <2>2, SizeChanged DEF Room, Fits, Roles
  <2> QED BY <1>6, <2>1, <2>2 DEF ProviderRound
<1>7. CASE UNCHANGED history
  <2>1. engine' \in {"tools", "answered", "results"} => engine \in {"tools", "answered"}
    <3>1. CASE ProviderRound(c)
      <4>1. history # Append(history, "calls")
        BY <1>1 DEF Roles
      <4> QED BY <1>7, <3>1, <4>1 DEF ProviderRound
    <3> QED BY <3>1 DEF Engine, Outside, Begin, SendUser, Plan, SendCompacted, SendResults,
                        RecordResults, SendLast, EndTurn, ExecuteTools, Send
  <2>2. engine' # "begin"
    BY DEF Engine, Outside, Begin, SendUser, Plan, SendCompacted, SendResults, RecordResults,
           SendLast, EndTurn, ProviderRound, ExecuteTools, Send
  <2> QED BY <1>2, <1>7, <2>1, <2>2, SizeChanged DEF SizeInv, Room
<1>8. UNCHANGED history \/ Plan(c) \/ ProviderRound(c) \/ RecordResults(c)
      \/ (Begin(c) /\ engine' = "user" /\ history' = Append(history, "user"))
  BY DEF Engine, Outside, Begin, SendUser, SendCompacted, SendResults, SendLast, EndTurn, ExecuteTools
<1> QED BY <1>3, <1>4, <1>5, <1>6, <1>7, <1>8

LEMMA SizeConsumer ==
  ASSUME SizeInv, NEW c \in Callers, Consumer(c) \/ Deliver(c)
  PROVE  SizeInv'
<1> USE DEF memory, disk
<1>1. CASE SaveTurn(c)
  BY <1>1, SaveWrites, SizeKept DEF SaveTurn
<1> QED BY <1>1, SizeKept DEF Consumer, Deliver, Drop, LogEvent, Report

LEMMA SizeCommand ==
  ASSUME TokenInv, RoundsInv, SizeInv, NEW c \in Callers, Command(c) \/ Compact(c)
  PROVE  SizeInv'
<1> USE DEF memory, disk
<1>1. Fits(<<>>)
  BY ConversationAssumptions DEF ConversationAssumptions, Fits
<1>2. CASE CheckClosed(c) \/ LogChange(c) \/ CopySnapshot(c) \/ WriteGraph(c)
  BY <1>2, SizeKept DEF CheckClosed, LogChange, CopySnapshot, WriteGraph
<1>3. CASE SaveChange(c)
  BY <1>3, SaveWrites, SizeKept DEF SaveChange
<1>4. CASE ReplaceHistory(c) \/ SaveCleared(c)
  <2>1. engine' = "off"
    BY <1>4, Phased, CommandAlone DEF ReplaceHistory, SaveCleared, Operations
  <2>2. /\ history' \in {history, previous, <<>>} /\ previous' \in {history, previous, <<>>}
        /\ snapshot' \in {snapshot, history} /\ checkpoint' = checkpoint
    BY <1>4, SaveWrites DEF ReplaceHistory, SaveCleared
  <2>3. Fits(history') /\ Fits(previous') /\ (snapshot' # None => Fits(snapshot'))
    BY <1>1, <2>2 DEF SizeInv
  <2> QED BY <2>1, <2>2, <2>3 DEF SizeInv
<1>5. CASE Compact(c) \/ Rewind(c)
  <2>1. engine' = "off"
    BY <1>5, Phased, CommandAlone DEF Compact, Rewind, Operations
  <2>2. Fits(history')
    <3>1. CASE Compact(c)
      <4>1. history' # history => Len(history') <= Len(history) /\ Len(history') \in Nat
        BY <3>1, CompactedRounds, LenProperties DEF Compact, RoundsInv, DataType
      <4>2. Len(history) \in Nat /\ MaxMessages \in Nat
        BY LenProperties, ConversationAssumptions DEF RoundsInv, DataType, ConversationAssumptions
      <4> QED BY <4>1, <4>2 DEF SizeInv, Fits
    <3>2. CASE Rewind(c)
      BY <3>2 DEF Rewind, SizeInv
    <3> QED BY <1>5, <3>1, <3>2
  <2> QED BY <1>5, <2>1, <2>2, SizeChanged DEF Compact, Rewind
<1> QED BY <1>2, <1>3, <1>4, <1>5 DEF Command

LEMMA SizeNext ==
  ASSUME TokenInv, RoundsInv, SizeInv, [Next]_vars
  PROVE  SizeInv'
<1> USE DEF memory, disk
<1>1. CASE UNCHANGED vars
  BY <1>1, SizeKept DEF vars
<1>2. ASSUME NEW c \in Callers, (\E op \in Calls[c] : Call(c, op)) \/ Cancel(c) \/ GiveUp(c)
      PROVE  SizeInv'
  BY <1>2, SizeKept DEF Call, Cancel, GiveUp
<1>3. ASSUME NEW c \in Callers, Acquire(c)
      PROVE  SizeInv'
  BY <1>3, SizeChanged DEF Acquire, SizeInv, Room
<1>4. CASE BeginShutdown
  BY <1>4, SizeKept DEF BeginShutdown
<1>5. CASE FinishShutdown \/ Crash \/ Resume
  <2>1. engine' = "off"
    <3>1. CASE Crash
      BY <3>1 DEF Crash
    <3>2. CASE FinishShutdown \/ Resume
      <4>1. \A c \in Callers : at[c] = Idle
        BY <3>2 DEF FinishShutdown, Resume, TokenInv
      <4> QED BY <3>2, <4>1 DEF FinishShutdown, Resume, TokenInv, Runs, Idle
    <3> QED BY <1>5, <3>1, <3>2
  <2>2. Fits(<<>>)
    BY ConversationAssumptions DEF ConversationAssumptions, Fits
  <2>3. UNCHANGED <<snapshot, checkpoint>> /\ previous' = <<>>
        /\ (history' = <<>> \/ (snapshot # None /\ history' = snapshot))
    BY <1>5 DEF FinishShutdown, Crash, Resume, Forget
  <2> QED BY <2>1, <2>2, <2>3 DEF SizeInv
<1> QED BY <1>1, <1>2, <1>3, <1>4, <1>5, SizeEngine, SizeConsumer, SizeCommand DEF Next

-----------------------------------------------------------------------------
(* The theorems.                                                            *)

Inv == TokenInv /\ StateInv /\ RoundsInv /\ SizeInv /\ SavedInv

LEMMA Inductive ==
  /\ Init => Inv
  /\ Inv /\ [Next]_vars => Inv'
<1>1. Init => Inv
  <2>1. Init => TokenInv
    BY DEF Init, TokenInv, At, Idle, Holds, Runs
  <2>2. Init => RoundsInv
    BY EmptyRounds DEF Init, RoundsInv, DataType, LastInv
  <2>3. Init => SavedInv
    BY DEF Init, SavedInv, Disk, Clearing, Idle, Working
  <2>4. Init => StateInv
    <3>1. 0 \in 0..MaxFaults
      BY ConversationAssumptions DEF ConversationAssumptions
    <3>2. Init => live \in [Callers -> BOOLEAN]
      BY DEF Init
    <3> QED BY <3>1, <3>2 DEF Init, StateInv, Stages
  <2>5. Fits(<<>>)
    BY ConversationAssumptions DEF ConversationAssumptions, Fits
  <2>6. Init => SizeInv
    BY <2>5 DEF Init, SizeInv
  <2> QED BY <2>1, <2>2, <2>3, <2>4, <2>6 DEF Inv
<1>2. Inv /\ [Next]_vars => Inv'
  BY TokenNext, StateNext, RoundsNext, SizeNext, SavedNext DEF Inv
<1> QED BY <1>1, <1>2

\* Every variable has its type, histories keep to their bound, one call at a time has
\* the conversation and the engine runs just while a turn does, through
\* cancellations, shutdowns and crashes.
THEOREM ConversationTypeOK == Spec => []TypeOK
<1>1. Inv => TypeOK
  <2>1. Inv => /\ IsHistory(history) /\ IsHistory(previous)
               /\ snapshot # None => IsHistory(snapshot)
               /\ checkpoint # None => IsHistory(checkpoint)
    <3>1. \A h \in Seq(Roles) : Fits(h) => IsHistory(h)
      BY LenProperties, ElementOfSeq DEF Fits, IsHistory
    <3> QED BY <3>1 DEF Inv, RoundsInv, DataType, SizeInv
  <2> QED BY <2>1 DEF Inv, TokenInv, StateInv, TypeOK, At, Phases, Stages
<1> QED BY <1>1, Inductive, PTL DEF Spec

\* Whatever write of the event log was cut short, and however often, the log can be
\* read and extended.
THEOREM ConversationLoads == Spec => []SessionLoads
<1>1. Inv => SessionLoads
  BY DEF Inv, StateInv, SessionLoads
<1> QED BY <1>1, Inductive, PTL DEF Spec

\* Whatever calls meet, fail, are cancelled or end with the process: a turn that
\* reports its end has its history on disk, and with no call in progress memory and
\* snapshot agree, except where drift says why not.
THEOREM ConversationHistoryIsSaved == Spec => []HistoryIsSaved
<1>1. Inv => HistoryIsSaved
  <2>1. (\A c \in Callers : ~Holds(c)) => ~Clearing
    BY DEF Clearing, Holds
  <2> QED BY <2>1 DEF Inv, SavedInv, HistoryIsSaved, Disk
<1> QED BY <1>1, Inductive, PTL DEF Spec

\* In every history, in memory and in both files, tool results directly follow the
\* calls they answer, through compactions, rewinds, clears and cancelled rounds.
THEOREM ConversationRoundsAreWhole == Spec => []RoundsAreWhole
<1>1. Inv => RoundsAreWhole
  BY DEF Inv, RoundsInv, RoundsAreWhole
<1> QED BY <1>1, Inductive, PTL DEF Spec

=============================================================================
