--------------------------- MODULE PromiseProofs ---------------------------
(***************************************************************************)
(* The abstract specifications say what the comments at their head claim   *)
(* of them.  With the refinements proved in TaskQueueProofs,               *)
(* RuntimeServiceProofs and LocalServerProofs, the same holds for what the *)
(* queue, the event store and the local server do, read through their      *)
(* refinement mappings.                                                    *)
(***************************************************************************)
EXTENDS Naturals, Sequences, TLAPS

CONSTANTS Jobs, MaxAttempts, Subscribers, MayFollow(_, _), Verdicts, Needs(_)

VARIABLES state, tries, log, told, seen, reliable, asked, verdict, effects

Work == INSTANCE DurableWork

Log == INSTANCE EventLog

Ledger == INSTANCE CommandLedger
-----------------------------------------------------------------------------
\* A job is absent, open, settled or removed, and its handler is started at most
\* MaxAttempts times.
THEOREM WorkIsBounded ==
  ASSUME MaxAttempts \in Nat
  PROVE  Work!Spec => []Work!TypeOK
<1>1. Work!Init => Work!TypeOK
  BY DEF Work!Init, Work!TypeOK
<1>2. ASSUME Work!TypeOK, [Work!Next]_(Work!vars)
      PROVE  Work!TypeOK'
  <2>1. ASSUME NEW job \in Jobs
        PROVE  /\ state'[job] \in {"absent", "open", "settled", "removed"}
               /\ tries'[job] \in 0..MaxAttempts
    <3>1. /\ state[job] \in {"absent", "open", "settled", "removed"}
          /\ tries[job] \in 0..MaxAttempts
      BY <1>2, <2>1 DEF Work!TypeOK
    <3>2. CASE UNCHANGED Work!vars
      BY <3>1, <3>2 DEF Work!vars
    <3>3. CASE Work!Next
      <4>1. \/ Work!Kept(job) \/ Work!Submit(job) \/ Work!Try(job)
            \/ Work!Settle(job) \/ Work!Remove(job)
        BY <2>1, <3>3 DEF Work!Next
      <4> QED
        BY <3>1, <4>1
        DEF Work!Kept, Work!Submit, Work!Try, Work!Settle, Work!Remove, Work!Moves
    <3> QED BY <1>2, <3>2, <3>3
  <2> QED BY <2>1 DEF Work!TypeOK
<1> QED BY <1>1, <1>2, PTL DEF Work!Spec

\* What was settled is not started again, and does not come back once it is removed.
THEOREM WorkSettledIsOver == Work!Spec => Work!SettledIsOver
<1>1. ASSUME [Work!Next]_(Work!vars), NEW job \in Jobs, state[job] \in {"settled", "removed"}
      PROVE  /\ tries'[job] = tries[job]
             /\ state'[job] \in {state[job], "removed"}
  <2>1. CASE UNCHANGED Work!vars
    BY <2>1 DEF Work!vars
  <2>2. CASE Work!Next
    <3>1. \/ Work!Kept(job) \/ Work!Submit(job) \/ Work!Try(job)
          \/ Work!Settle(job) \/ Work!Remove(job)
      BY <1>1, <2>2 DEF Work!Next
    <3> QED
      BY <1>1, <3>1
      DEF Work!Kept, Work!Submit, Work!Try, Work!Settle, Work!Remove, Work!Moves
  <2> QED BY <1>1, <2>1, <2>2
<1>2. [Work!Next]_(Work!vars) =>
        [\A job \in Jobs :
           state[job] \in {"settled", "removed"} =>
             /\ tries'[job] = tries[job]
             /\ state'[job] \in {state[job], "removed"}]_(Work!vars)
  BY <1>1
<1> QED BY <1>2, PTL DEF Work!Spec, Work!SettledIsOver
-----------------------------------------------------------------------------
\* The length of the log, whatever the lines are.
LogCounts == Len(log) \in Nat

\* A line is added behind those that are there, and a loss only takes lines from the
\* end that nobody was told of.
LEMMA LogSteps ==
  ASSUME LogCounts, Log!ToldStays, Log!ReadersFollow, [Log!Next]_(Log!vars)
  PROVE  LogCounts' /\ Log!ToldStays' /\ Log!ReadersFollow'
<1>1. CASE Log!Add
  <2>1. /\ Len(log') = Len(log) + 1
        /\ \A i \in 1..Len(log) : log'[i] = log[i]
        /\ told' = told \cup {<<Len(log) + 1, log'[Len(log) + 1].event>>} \/ told' = told
        /\ UNCHANGED <<seen, reliable>>
    BY <1>1, Zenon DEF Log!Add
  <2>2. LogCounts'
    BY <2>1 DEF LogCounts
  <2>3. Log!ToldStays'
    <3>1. ASSUME NEW p \in told' PROVE p[1] \in 1..Len(log') /\ log'[p[1]].event = p[2]
      <4>1. CASE p \in told
        <5>1. p[1] \in 1..Len(log) /\ log[p[1]].event = p[2]
          BY <4>1 DEF Log!ToldStays
        <5> QED BY <2>1, <5>1 DEF LogCounts
      <4>2. CASE p = <<Len(log) + 1, log'[Len(log) + 1].event>>
        BY <2>1, <4>2 DEF LogCounts
      <4> QED BY <2>1, <3>1, <4>1, <4>2
    <3> QED BY <3>1 DEF Log!ToldStays
  <2>4. Log!ReadersFollow'
    <3>1. ASSUME reliable', NEW s \in Subscribers, NEW i \in 1..Len(seen[s])
          PROVE  seen'[s][i] = log'[i].event
      <4>1. seen[s][i] = log[i].event /\ i \in 1..Len(log)
        BY <2>1, <3>1 DEF Log!ReadersFollow, LogCounts
      <4> QED BY <2>1, <4>1
    <3>2. ASSUME reliable', NEW s \in Subscribers PROVE Len(seen'[s]) \leq Len(log')
      BY <2>1, <3>2 DEF Log!ReadersFollow, LogCounts
    <3> QED BY <2>1, <3>1, <3>2 DEF Log!ReadersFollow
  <2> QED BY <2>2, <2>3, <2>4
<1>2. ASSUME NEW s \in Subscribers, Log!Read(s)
      PROVE  LogCounts' /\ Log!ToldStays' /\ Log!ReadersFollow'
  <2>1. /\ Len(seen'[s]) = Len(log)
        /\ \A i \in 1..Len(seen[s]) : seen'[s][i] = seen[s][i]
        /\ \A i \in (Len(seen[s]) + 1)..Len(log) : seen'[s][i] = log[i].event
        /\ \A r \in Subscribers \ {s} : seen'[r] = seen[r]
        /\ UNCHANGED <<log, told, reliable>>
    BY <1>2 DEF Log!Read
  <2>2. LogCounts' /\ Log!ToldStays'
    BY <2>1 DEF LogCounts, Log!ToldStays
  <2>3. ASSUME reliable, NEW r \in Subscribers
        PROVE  /\ Len(seen'[r]) \leq Len(log)
               /\ \A i \in 1..Len(seen'[r]) : seen'[r][i] = log[i].event
    <3>1. /\ Len(seen[r]) \leq Len(log)
          /\ \A i \in 1..Len(seen[r]) : seen[r][i] = log[i].event
      BY <2>3 DEF Log!ReadersFollow
    <3>2. CASE r = s
      BY <2>1, <3>1, <3>2 DEF LogCounts
    <3>3. CASE r # s
      <4>1. seen'[r] = seen[r]
        BY <2>1, <3>3
      <4> QED BY <3>1, <4>1
    <3> QED BY <3>2, <3>3
  <2> QED BY <2>1, <2>2, <2>3 DEF Log!ReadersFollow
<1>3. CASE Log!Lose
  <2>1. /\ ~reliable /\ UNCHANGED <<told, seen, reliable>>
        /\ Len(log') \in Nat
        /\ \A i \in 1..Len(log') : log'[i] = log[i]
        /\ \A p \in told : p[1] \leq Len(log')
    BY <1>3 DEF Log!Lose
  <2>2. Log!ToldStays'
    <3>1. ASSUME NEW p \in told PROVE p[1] \in 1..Len(log') /\ log'[p[1]].event = p[2]
      <4>1. p[1] \in 1..Len(log) /\ log[p[1]].event = p[2] /\ p[1] \leq Len(log')
        BY <2>1 DEF Log!ToldStays
      <4> QED BY <2>1, <4>1 DEF LogCounts
    <3> QED BY <2>1, <3>1 DEF Log!ToldStays
  <2> QED BY <2>1, <2>2 DEF LogCounts, Log!ReadersFollow
<1>4. CASE UNCHANGED Log!vars
  BY <1>4 DEF Log!vars, LogCounts, Log!ToldStays, Log!ReadersFollow
<1> QED BY <1>1, <1>2, <1>3, <1>4 DEF Log!Next

LEMMA LogStarts == Log!Init => LogCounts /\ Log!ToldStays /\ Log!ReadersFollow
  BY DEF Log!Init, LogCounts, Log!ToldStays, Log!ReadersFollow

\* No failing sync and no loss moves or takes away what a committer was told of.
THEOREM LogToldStays == Log!Spec => []Log!ToldStays
  BY LogStarts, LogSteps, PTL DEF Log!Spec

\* Where syncs succeed every reader has a beginning of the log.
THEOREM LogReadersFollow == Log!Spec => []Log!ReadersFollow
  BY LogStarts, LogSteps, PTL DEF Log!Spec
-----------------------------------------------------------------------------
\* Operations and their verdicts are counted alike.
LedgerCounts ==
  /\ Len(asked) \in Nat
  /\ Len(verdict) = Len(asked)
  /\ Len(effects) \in Nat
  /\ \A i \in 1..Len(effects) : effects[i].op \in 1..Len(asked)

LEMMA LedgerStarts == Ledger!Init => LedgerCounts /\ Ledger!VerdictsAreTrue
  BY DEF Ledger!Init, LedgerCounts, Ledger!VerdictsAreTrue

LEMMA LedgerSteps ==
  ASSUME LedgerCounts, Ledger!VerdictsAreTrue, [Ledger!Next]_(Ledger!vars)
  PROVE  LedgerCounts' /\ Ledger!VerdictsAreTrue'
<1>1. CASE Ledger!Ask
  <2>1. /\ Len(asked') = Len(asked) + 1 /\ Len(verdict') = Len(verdict) + 1
        /\ \A i \in 1..Len(asked) : asked'[i] = asked[i] /\ verdict'[i] = verdict[i]
        /\ verdict'[Len(asked) + 1] = {}
        /\ UNCHANGED effects
    BY <1>1 DEF Ledger!Ask, Ledger!LongerByOne, LedgerCounts
  <2>2. LedgerCounts'
    BY <2>1 DEF LedgerCounts
  <2>3. ASSUME NEW n \in 1..Len(asked')
        PROVE  /\ \A a, b \in verdict'[n] : a = b
               /\ "accepted" \in verdict'[n] =>
                    \A kind \in Needs(asked'[n]) : Ledger!Has(n, kind)'
    <3>1. CASE n \in 1..Len(asked)
      <4>1. asked'[n] = asked[n] /\ verdict'[n] = verdict[n]
        BY <2>1, <3>1
      <4>2. \A kind : Ledger!Has(n, kind)' <=> Ledger!Has(n, kind)
        BY <2>1 DEF Ledger!Has
      <4>3. /\ \A a, b \in verdict[n] : a = b
            /\ "accepted" \in verdict[n] =>
                 \A kind \in Needs(asked[n]) : Ledger!Has(n, kind)
        BY <3>1 DEF Ledger!VerdictsAreTrue
      <4> QED BY <4>1, <4>2, <4>3
    <3>2. CASE n = Len(asked) + 1
      BY <2>1, <3>2
    <3> QED BY <2>1, <3>1, <3>2 DEF LedgerCounts
  <2> QED BY <2>2, <2>3 DEF Ledger!VerdictsAreTrue
<1>2. CASE Ledger!Act
  <2>1. /\ Len(effects') = Len(effects) + 1
        /\ \A i \in 1..Len(effects) : effects'[i] = effects[i]
        /\ effects'[Len(effects) + 1].op \in 1..Len(asked)
        /\ UNCHANGED <<asked, verdict>>
    BY <1>2 DEF Ledger!Act, Ledger!LongerByOne, LedgerCounts
  <2>2. LedgerCounts'
    BY <2>1 DEF LedgerCounts
  <2>3. \A n, kind : Ledger!Has(n, kind) => Ledger!Has(n, kind)'
    BY <2>1 DEF Ledger!Has, LedgerCounts
  <2> QED BY <2>1, <2>2, <2>3 DEF Ledger!VerdictsAreTrue
<1>3. ASSUME NEW n \in 1..Len(asked), NEW answer \in Verdicts, Ledger!Decide(n, answer)
      PROVE  LedgerCounts' /\ Ledger!VerdictsAreTrue'
  <2>1. /\ answer = "accepted" => \A kind \in Needs(asked[n]) : Ledger!Has(n, kind)
        /\ Len(verdict') = Len(verdict)
        /\ verdict'[n] = {answer}
        /\ \A m \in 1..Len(asked) : m # n => verdict'[m] = verdict[m]
        /\ UNCHANGED <<asked, effects>>
    BY <1>3 DEF Ledger!Decide
  <2>2. LedgerCounts'
    BY <2>1 DEF LedgerCounts
  <2>3. \A m, kind : Ledger!Has(m, kind)' <=> Ledger!Has(m, kind)
    BY <2>1 DEF Ledger!Has
  <2>4. ASSUME NEW m \in 1..Len(asked)
        PROVE  /\ \A a, b \in verdict'[m] : a = b
               /\ "accepted" \in verdict'[m] =>
                    \A kind \in Needs(asked[m]) : Ledger!Has(m, kind)
    BY <2>1 DEF Ledger!VerdictsAreTrue
  <2> QED BY <2>1, <2>2, <2>3, <2>4 DEF Ledger!VerdictsAreTrue
<1>4. CASE UNCHANGED Ledger!vars
  BY <1>4 DEF Ledger!vars, LedgerCounts, Ledger!VerdictsAreTrue, Ledger!Has
<1> QED BY <1>1, <1>2, <1>3, <1>4 DEF Ledger!Next

\* One verdict at most, and "accepted" means that the command was executed.
THEOREM LedgerVerdictsAreTrue == Ledger!Spec => []Ledger!VerdictsAreTrue
  BY LedgerStarts, LedgerSteps, PTL DEF Ledger!Spec

\* An operation with a verdict is over.
THEOREM LedgerVerdictsEnd == Ledger!Spec => Ledger!VerdictsEnd
<1>1. ASSUME LedgerCounts, [Ledger!Next]_(Ledger!vars),
             NEW n \in 1..Len(asked), verdict[n] # {}
      PROVE  /\ verdict'[n] = verdict[n]
             /\ \A i \in 1..Len(effects') : effects'[i].op = n => i \in 1..Len(effects)
  <2>1. CASE Ledger!Ask
    BY <1>1, <2>1 DEF Ledger!Ask, Ledger!LongerByOne, LedgerCounts
  <2>2. CASE Ledger!Act
    <3>1. /\ Len(effects') = Len(effects) + 1
          /\ verdict[effects'[Len(effects) + 1].op] = {}
          /\ UNCHANGED verdict
      BY <2>2 DEF Ledger!Act, Ledger!LongerByOne
    <3> QED BY <1>1, <3>1 DEF LedgerCounts
  <2>3. ASSUME NEW m \in 1..Len(asked), NEW answer \in Verdicts, Ledger!Decide(m, answer)
        PROVE  verdict'[n] = verdict[n] /\ UNCHANGED effects
    BY <1>1, <2>3 DEF Ledger!Decide
  <2>4. CASE UNCHANGED Ledger!vars
    BY <2>4 DEF Ledger!vars
  <2> QED BY <1>1, <2>1, <2>2, <2>3, <2>4 DEF Ledger!Next
<1>2. LedgerCounts /\ [Ledger!Next]_(Ledger!vars) =>
        [\A n \in 1..Len(asked) :
           verdict[n] # {} =>
             /\ verdict'[n] = verdict[n]
             /\ \A i \in 1..Len(effects') :
                  effects'[i].op = n => i \in 1..Len(effects)]_(Ledger!vars)
  BY <1>1
<1> QED BY <1>2, LedgerStarts, LedgerSteps, PTL DEF Ledger!Spec, Ledger!VerdictsEnd
=============================================================================
