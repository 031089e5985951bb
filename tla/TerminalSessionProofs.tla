----------------------- MODULE TerminalSessionProofs -----------------------
(***************************************************************************)
(* Proofs about TerminalSession for any sessions, clients and scopes, and  *)
(* any limits: manager and log agree on every session that runs, no        *)
(* process runs unnoticed, and inputs are recorded under their authority.  *)
(***************************************************************************)
EXTENDS TerminalSession, TLAPS

About(s) == command.op \in {"input", "locked", "written"} /\ command.session = s

SessionAuthorized(s) == Authorized(session[s].scope, session[s].owner, session[s].revision)

\* LogFollowsSession, for one session.
Follows(s) ==
  session[s].place = "managed" /\ process[s].state = "alive" =>
    /\ Open(s)
    /\ record[s].nextInput = session[s].nextInput
    /\ record[s].nextOutput = session[s].nextOutput
    /\ process[s].fed = record[s].nextInput - 1 + Unrecorded(s)
    /\ record[s].bytes + session[s].held <= session[s].received
    /\ session[s].received < OutputLimit

\* What the phases of the waiter say of session and process.
WaiterInv(s) ==
  /\ waiter[s] # "off" => session[s].place # "none"
  /\ waiter[s] \in {"returned", "closed", "recorded", "done"} => process[s].state # "alive"
  /\ waiter[s] \in {"closed", "recorded", "done"} => session[s].closed

\* An input that holds the mutex has the number the session expects; its
\* authority stands until then, unless the session was closed in between.
InputInv(s) ==
  /\ Locked(s) => ~session[s].closed /\ session[s].nextInput = command.sequence
  /\ About(s) => session[s].closed \/ SessionAuthorized(s)

\* What the inductive invariant says of one session.
SessionInv(s) ==
  /\ record[s].nextInput >= 1
  /\ session[s].held <= session[s].received
  /\ process[s].state = "alive" => session[s].place = "managed"
  /\ WaiterInv(s)
  /\ InputInv(s)
  /\ Follows(s)

\* An input that is not written has bytes left.
LeftInv == command.op \in {"input", "locked"} => command.left >= 1

Inv == TypeOK /\ LeftInv /\ \A s \in Sessions : SessionInv(s)

-----------------------------------------------------------------------------
(* Lemmas about the operators.                                              *)

\* A commit changes the record of its session, or nothing.
LEMMA EmitType ==
  ASSUME TypeOK, NEW s \in Sessions, NEW accepted, NEW after \in Record,
         NEW outcome \in Outcomes, Emit(s, accepted, after, outcome)
  PROVE  /\ record' \in [Sessions -> Record] /\ faults' \in 0..MaxFaults
         /\ \A e \in Sessions : e # s => record'[e] = record[e]
         /\ record'[s] \in {record[s], after}
         /\ outcome = "committed" => accepted /\ record'[s] = after
<1>1. MaxFaults \in Nat /\ faults \in 0..MaxFaults /\ record \in [Sessions -> Record]
  BY TerminalAssumptions DEF TypeOK
<1>2. CASE ~accepted /\ outcome = "refused" /\ UNCHANGED <<record, faults>>
  BY <1>1, <1>2
<1>3. CASE /\ accepted
           /\ outcome = "committed" \/ (outcome \in Faults /\ faults < MaxFaults)
           /\ faults' = IF outcome = "committed" THEN faults ELSE faults + 1
           /\ record' = IF outcome = "refused" THEN record ELSE [record EXCEPT ![s] = after]
  BY <1>1, <1>3 DEF Outcomes
<1> QED BY <1>2, <1>3 DEF Emit

\* A commit of output, if there is any, adds it to the record of its session.
LEMMA OutputType ==
  ASSUME TypeOK, NEW s \in Sessions, NEW clean \in Nat, NEW outcome \in Outcomes,
         RecordOutput(s, clean, outcome)
  PROVE  /\ record' \in [Sessions -> Record] /\ faults' \in 0..MaxFaults
         /\ \A e \in Sessions : e # s => record'[e] = record[e]
         /\ record'[s].status = record[s].status /\ record'[s].nextInput = record[s].nextInput
         /\ outcome = "committed" =>
              /\ record'[s].bytes = record[s].bytes + clean
              /\ record'[s].nextOutput =
                   IF clean = 0 THEN record[s].nextOutput ELSE record[s].nextOutput + 1
<1>1. record[s] \in Record /\ record \in [Sessions -> Record] /\ faults \in 0..MaxFaults
  BY DEF TypeOK
<1>2. CASE clean = 0
  BY <1>1, <1>2 DEF RecordOutput, Record
<1>3. CASE clean # 0
  <2> DEFINE after == [record[s] EXCEPT !.nextOutput = @ + 1, !.bytes = @ + clean]
             accepted == /\ Open(s)
                         /\ record[s].nextOutput = session[s].nextOutput
                         /\ record[s].bytes + clean <= OutputLimit
  <2>1. /\ after \in Record
        /\ after.status = record[s].status /\ after.nextInput = record[s].nextInput
        /\ after.bytes = record[s].bytes + clean
        /\ after.nextOutput = record[s].nextOutput + 1
    <3> DEFINE r == record[s]
    <3>1. r \in Record /\ after = [r EXCEPT !.nextOutput = r.nextOutput + 1, !.bytes = r.bytes + clean]
      BY <1>1
    <3> HIDE DEF r, after
    <3>2. after \in Record
      <4>1. r.nextOutput + 1 \in Nat /\ r.bytes + clean \in Nat
        BY <3>1 DEF Record
      <4> QED BY <3>1, <4>1 DEF Record
    <3>3. /\ after.status = r.status /\ after.nextInput = r.nextInput
          /\ after.bytes = r.bytes + clean /\ after.nextOutput = r.nextOutput + 1
      BY <3>1 DEF Record
    <3> QED BY <3>2, <3>3 DEF r
  <2>2. Emit(s, accepted, after, outcome)
    BY <1>3 DEF RecordOutput
  <2> HIDE DEF after, accepted
  <2>3. /\ record' \in [Sessions -> Record] /\ faults' \in 0..MaxFaults
        /\ \A e \in Sessions : e # s => record'[e] = record[e]
        /\ record'[s] \in {record[s], after}
        /\ outcome = "committed" => record'[s] = after
    <3>1. after \in Record
      BY <2>1
    <3> QED BY <2>2, <3>1, EmitType, Zenon
  <2> QED BY <1>3, <2>1, <2>3
<1> QED BY <1>2, <1>3

LEMMA KillType ==
  ASSUME TypeOK, NEW s \in Sessions
  PROVE  /\ Killed(process[s]) \in Process
         /\ Killed(process[s]).state # "alive"
         /\ Kill(s) => /\ process' \in [Sessions -> Process]
                       /\ process'[s].state # "alive"
                       /\ \A e \in Sessions : e # s => process'[e] = process[e]
<1>1. process[s] \in Process /\ process \in [Sessions -> Process]
  BY DEF TypeOK
<1>2. Killed(process[s]) \in Process /\ Killed(process[s]).state # "alive"
  BY <1>1 DEF Killed, Process
<1> HIDE DEF Killed
<1> QED BY <1>1, <1>2 DEF Kill

\* What a session keeps of a chunk fits its limit.
LEMMA KeptType ==
  ASSUME TypeOK, NEW s \in Sessions
  PROVE  /\ Kept(s) \in Nat /\ session[s].received \in Nat /\ session[s].held \in Nat
         /\ session[s].received + Kept(s) <= OutputLimit
         /\ OutputLimit \in Nat
<1>1. /\ OutputLimit \in Nat /\ reader[s].bytes \in Nat
      /\ session[s].received \in 0..OutputLimit /\ session[s].held \in 0..OutputLimit
  BY TerminalAssumptions DEF TypeOK, Session
<1> QED BY <1>1 DEF Kept, Smaller

LEMMA AuthorityType ==
  ASSUME AuthorityTypeOK, ChangeAuthority
  PROVE  AuthorityTypeOK'
<1>1. confirmed' \in BOOLEAN
  BY Zenon DEF AuthorityTypeOK, ChangeAuthority, ProposeScope, ConfirmScope, TakeControl
<1>2. CASE \E s \in ScopeIDs : ProposeScope(s)
  BY <1>1, <1>2 DEF AuthorityTypeOK, ProposeScope
<1>3. CASE ConfirmScope
  BY <1>1, <1>3 DEF AuthorityTypeOK, ConfirmScope
<1>4. CASE \E c \in Clients : TakeControl(c)
  BY <1>1, <1>4, AuthorityAssumptions DEF AuthorityTypeOK, TakeControl
<1> QED BY <1>2, <1>3, <1>4 DEF ChangeAuthority

\* A session that a step does not touch keeps its part of the invariant, if the
\* step changes no authority under an input, and no input of this session.
LEMMA Frame ==
  ASSUME Inv, NEW e \in Sessions,
         record'[e] = record[e], session'[e] = session[e],
         process'[e] = process[e], waiter'[e] = waiter[e],
         \/ ~About(e) /\ ~About(e)'
         \/ command' = command /\ UNCHANGED authorityVars
  PROVE  SessionInv(e)'
<1>1. SessionInv(e)
  BY DEF Inv
<1>2. CASE ~About(e) /\ ~About(e)'
  <2>1. InputInv(e)'
    BY <1>2 DEF InputInv, About, Locked
  <2>2. Unrecorded(e) = 0 /\ Unrecorded(e)' = 0
    BY <1>2 DEF About, Unrecorded
  <2>3. Follows(e)'
    BY <1>1, <2>2 DEF SessionInv, Follows, Open
  <2> QED BY <1>1, <2>1, <2>3 DEF SessionInv, WaiterInv
<1>3. CASE command' = command /\ UNCHANGED authorityVars
  <2>1. InputInv(e)'
    BY <1>1, <1>3 DEF SessionInv, InputInv, About, Locked, SessionAuthorized, Authorized, authorityVars
  <2>2. Unrecorded(e)' = Unrecorded(e)
    BY <1>3 DEF Unrecorded
  <2>3. Follows(e)'
    BY <1>1, <2>2 DEF SessionInv, Follows, Open
  <2> QED BY <1>1, <2>1, <2>3 DEF SessionInv, WaiterInv
<1> QED BY <1>2, <1>3

LEMMA AuthoritySame ==
  ASSUME AuthorityTypeOK, UNCHANGED authorityVars
  PROVE  AuthorityTypeOK'
  BY Zenon DEF AuthorityTypeOK, authorityVars

\* The types of what the invariant of a session reads.
LEMMA SessionTypes ==
  ASSUME TypeOK, NEW s \in Sessions
  PROVE  /\ record[s] \in Record /\ session[s] \in Session /\ process[s] \in Process
         /\ record[s].nextInput \in Nat /\ record[s].nextOutput \in Nat /\ record[s].bytes \in Nat
         /\ session[s].nextInput \in Nat /\ session[s].nextOutput \in Nat
         /\ session[s].received \in 0..OutputLimit /\ session[s].held \in 0..OutputLimit
         /\ process[s].unread \in Nat /\ process[s].pipe \in Nat
         /\ process[s].made \in Nat /\ process[s].fed \in Nat
         /\ process[s].state \in {"none", "alive", "killed", "ended", "reaped"}
         /\ reader[s].bytes \in Nat
         /\ OutputLimit \in Nat \ {0}
<1>1. record[s] \in Record /\ session[s] \in Session /\ process[s] \in Process
  BY DEF TypeOK
<1>2. reader[s].bytes \in Nat
  BY DEF TypeOK
<1>3. OutputLimit \in Nat \ {0}
  BY TerminalAssumptions
<1> QED BY <1>1, <1>2, <1>3 DEF Record, Session, Process

\* A command in progress, step by step.
LEMMA CommandType ==
  ASSUME TypeOK
  PROVE  /\ Idle \in Command /\ Idle.op = "none"
         /\ command.op \in {"none", "input", "locked", "written", "resize", "cancel"}
         /\ command.op # "none" => command.session \in Sessions
         /\ command.op \in {"input", "locked", "written"} =>
              /\ command.sequence \in Nat /\ command.left \in Nat
              /\ \A op \in {"locked", "written"}, n \in Nat :
                   /\ [command EXCEPT !.left = n, !.op = op] \in Command
                   /\ [command EXCEPT !.left = n, !.op = op].op = op
                   /\ [command EXCEPT !.left = n, !.op = op].left = n
                   /\ [command EXCEPT !.left = n, !.op = op].session = command.session
                   /\ [command EXCEPT !.left = n, !.op = op].sequence = command.sequence
              /\ [command EXCEPT !.op = "locked"] \in Command
              /\ [command EXCEPT !.op = "locked"].op = "locked"
              /\ [command EXCEPT !.op = "locked"].left = command.left
              /\ [command EXCEPT !.op = "locked"].session = command.session
              /\ [command EXCEPT !.op = "locked"].sequence = command.sequence
<1>1. Idle \in Command /\ Idle.op = "none" /\ command \in Command
  BY DEF TypeOK, Command, Idle
<1>2. CASE command = Idle
  BY <1>1, <1>2
<1>3. CASE command \in [op : {"resize", "cancel"}, session : Sessions]
  BY <1>1, <1>3
<1>4. CASE command \in [op : {"input", "locked", "written"}, session : Sessions, sequence : Nat, left : Nat]
  <2>1. /\ command.op \in {"input", "locked", "written"} /\ command.session \in Sessions
        /\ command.sequence \in Nat /\ command.left \in Nat
    BY <1>4
  <2>2. ASSUME NEW op \in {"locked", "written"}, NEW n \in Nat
        PROVE  /\ [command EXCEPT !.left = n, !.op = op] \in Command
               /\ [command EXCEPT !.left = n, !.op = op].op = op
               /\ [command EXCEPT !.left = n, !.op = op].left = n
               /\ [command EXCEPT !.left = n, !.op = op].session = command.session
               /\ [command EXCEPT !.left = n, !.op = op].sequence = command.sequence
    BY <1>4 DEF Command
  <2>3. /\ [command EXCEPT !.op = "locked"] \in Command
        /\ [command EXCEPT !.op = "locked"].op = "locked"
        /\ [command EXCEPT !.op = "locked"].left = command.left
        /\ [command EXCEPT !.op = "locked"].session = command.session
        /\ [command EXCEPT !.op = "locked"].sequence = command.sequence
    BY <1>4 DEF Command
  <2> QED BY <1>1, <2>1, <2>2, <2>3
<1> QED BY <1>1, <1>2, <1>3, <1>4 DEF Command

-----------------------------------------------------------------------------
(* The commands preserve the invariant.                                     *)

LEMMA AuthorityInv ==
  ASSUME Inv, Authority
  PROVE  Inv'
<1>1. /\ command = Idle /\ ChangeAuthority
      /\ UNCHANGED <<record, session, process, reader, waiter, command, closing, faults>>
  BY DEF Authority, Free
<1>2. TypeOK'
  <2>1. AuthorityTypeOK'
    BY <1>1, AuthorityType DEF Inv, TypeOK
  <2> QED BY <1>1, <2>1, Zenon DEF Inv, TypeOK
<1>3. ASSUME NEW e \in Sessions PROVE SessionInv(e)'
  <2>1. ~About(e) /\ ~About(e)'
    BY <1>1 DEF About, Idle
  <2> QED BY <1>1, <2>1, Frame
<1> QED BY <1>1, <1>2, <1>3 DEF Inv, LeftInv

LEMMA OpenInv ==
  ASSUME Inv, NEW s \in Sessions, NEW c \in Clients, OpenSession(s, c)
  PROVE  Inv'
<1> DEFINE after == [NoRecord EXCEPT !.status = "open"]
           accepted == record[s].status = "absent"
<1>1. /\ command = Idle /\ command' = Idle /\ session[s].place = "none"
      /\ UNCHANGED <<authorityVars, command, closing>>
  BY DEF OpenSession, Free
<1>2. PICK outcome \in Outcomes :
        /\ Emit(s, accepted, after, outcome)
        /\ IF outcome = "committed"
             THEN /\ session' = [session EXCEPT ![s] = Opened(c)]
                  /\ process' = [process EXCEPT ![s] = [NoProcess EXCEPT !.state = "alive"]]
                  /\ reader' = [reader EXCEPT ![s].phase = "reading"]
                  /\ waiter' = [waiter EXCEPT ![s] = "waiting"]
             ELSE /\ process' = [process EXCEPT ![s] = Discarded]
                  /\ UNCHANGED <<session, reader, waiter>>
  BY DEF OpenSession
<1>3. /\ after \in Record /\ after.status = "open" /\ after.nextInput = 1
      /\ after.nextOutput = 1 /\ after.bytes = 0
  BY DEF Record, NoRecord
<1> HIDE DEF after, accepted
<1>t. TypeOK /\ SessionInv(s)
  BY DEF Inv
<1>4. /\ record' \in [Sessions -> Record] /\ faults' \in 0..MaxFaults
      /\ \A e \in Sessions : e # s => record'[e] = record[e]
      /\ record'[s] \in {record[s], after}
      /\ outcome = "committed" => record'[s] = after
  <2>1. Emit(s, accepted, after, outcome) /\ after \in Record /\ TypeOK
    BY <1>2, <1>3, <1>t
  <2> QED BY <2>1, EmitType, Zenon
<1>5. /\ Opened(c) \in Session /\ Opened(c).place = "managed" /\ Opened(c).nextInput = 1
      /\ Opened(c).nextOutput = 1 /\ Opened(c).received = 0 /\ Opened(c).held = 0
  <2>1. scope \in ScopeIDs \cup {None} /\ revision \in Nat
    BY <1>t, AuthorityAssumptions DEF TypeOK, AuthorityTypeOK
  <2>2. OutputLimit \in Nat \ {0}
    BY TerminalAssumptions
  <2>3. NoSession \in Session
    <3>1. 0 \in 0..OutputLimit /\ 1 \in Nat /\ 0 \in Nat
      BY <2>2
    <3> QED BY <3>1 DEF NoSession, Session
  <2>4. Opened(c) \in Session
    BY <2>1, <2>3 DEF Opened, Session
  <2> QED BY <2>4 DEF Opened, NoSession
<1>6. /\ [NoProcess EXCEPT !.state = "alive"] \in Process
      /\ [NoProcess EXCEPT !.state = "alive"].fed = 0
      /\ Discarded \in Process /\ Discarded.state # "alive"
  BY DEF NoProcess, Discarded, Process
<1>7. TypeOK'
  <2>1. AuthorityTypeOK'
    BY <1>1, <1>t, AuthoritySame DEF TypeOK
  <2>2. /\ session' \in [Sessions -> Session] /\ process' \in [Sessions -> Process]
        /\ waiter' \in [Sessions -> {"off", "waiting", "returned", "closed", "recorded", "done"}]
    <3>1. /\ session \in [Sessions -> Session] /\ process \in [Sessions -> Process]
          /\ waiter \in [Sessions -> {"off", "waiting", "returned", "closed", "recorded", "done"}]
      BY <1>t DEF TypeOK
    <3>2. CASE outcome = "committed"
      BY <1>2, <1>5, <1>6, <3>1, <3>2
    <3>3. CASE outcome # "committed"
      BY <1>2, <1>6, <3>1, <3>3
    <3> QED BY <3>2, <3>3
  <2>3. reader' \in [Sessions -> [phase : {"off", "reading", "holding", "ended"}, bytes : Nat]]
    BY <1>2, <1>t DEF TypeOK
  <2> QED BY <1>1, <1>4, <1>t, <2>1, <2>2, <2>3, Zenon DEF TypeOK
<1>8. ~About(s)' /\ \A e \in Sessions : ~About(e) /\ ~About(e)'
  BY <1>1 DEF About, Idle
<1>9. SessionInv(s)'
  <2>1. InputInv(s)' /\ Unrecorded(s)' = 0
    BY <1>8 DEF InputInv, About, Locked, Unrecorded
  <2>2. CASE outcome = "committed"
    <3>1. /\ session'[s] = Opened(c) /\ process'[s] = [NoProcess EXCEPT !.state = "alive"]
          /\ waiter'[s] = "waiting" /\ record'[s] = after
      BY <1>2, <1>4, <1>t, <2>2 DEF TypeOK
    <3>2. OutputLimit \in Nat \ {0}
      BY TerminalAssumptions
    <3>3. Follows(s)'
      BY <1>3, <1>5, <1>6, <2>1, <3>1, <3>2 DEF Follows, Open
    <3> QED BY <1>3, <1>5, <2>1, <3>1, <3>3 DEF SessionInv, WaiterInv
  <2>3. CASE outcome # "committed"
    <3>1. process'[s] = Discarded /\ UNCHANGED <<session, waiter>>
      BY <1>2, <1>t, <2>3 DEF TypeOK
    <3>2. record'[s].nextInput >= 1
      BY <1>3, <1>4, <1>t DEF SessionInv
    <3> QED BY <1>6, <1>t, <2>1, <3>1, <3>2 DEF SessionInv, WaiterInv, Follows
  <2> QED BY <2>2, <2>3
<1>10. ASSUME NEW e \in Sessions, e # s PROVE SessionInv(e)'
  <2>1. session'[e] = session[e] /\ process'[e] = process[e] /\ waiter'[e] = waiter[e]
    BY <1>2, <1>10, <1>t DEF TypeOK
  <2> QED BY <1>4, <1>8, <1>10, <2>1, Frame
<1> QED BY <1>1, <1>7, <1>9, <1>10 DEF Inv, LeftInv

LEMMA CheckInv ==
  ASSUME Inv, NEW s \in Sessions, NEW c \in Clients, NEW r \in 1..MaxRevision,
         \/ Revoke(s, c, r)
         \/ \E n \in 1..MaxInputs : Input(s, c, r, n)
         \/ Resize(s, c, r)
         \/ Cancel(s, c, r)
  PROVE  Inv'
<1>t. TypeOK /\ SessionInv(s) /\ AuthorityTypeOK
  BY DEF Inv, TypeOK
<1>1. CASE Revoke(s, c, r)
  <2>1. /\ Kill(s)
        /\ UNCHANGED <<authorityVars, record, session, reader, waiter, command, closing, faults>>
    BY <1>1 DEF Revoke
  <2>2. /\ process' \in [Sessions -> Process] /\ process'[s].state # "alive"
        /\ \A e \in Sessions : e # s => process'[e] = process[e]
    BY <1>t, <2>1, KillType
  <2>3. TypeOK'
    BY <1>t, <2>1, <2>2, AuthoritySame, Zenon DEF TypeOK
  <2>4. SessionInv(s)'
    <3>1. InputInv(s)'
      BY <1>t, <2>1 DEF SessionInv, InputInv, About, Locked, SessionAuthorized, Authorized, authorityVars
    <3> QED BY <1>t, <2>1, <2>2, <3>1 DEF SessionInv, WaiterInv, Follows
  <2>5. ASSUME NEW e \in Sessions, e # s PROVE SessionInv(e)'
    BY <2>1, <2>2, <2>5, Frame
  <2> QED BY <2>1, <2>3, <2>4, <2>5 DEF Inv, LeftInv
<1>2. CASE ~Revoke(s, c, r)
  <2>1. PICK next : /\ Check(s, c, r, next)
                    /\ \/ \E n \in 1..MaxInputs :
                            next = [op |-> "input", session |-> s, sequence |-> n, left |-> Typed]
                       \/ next = [op |-> "resize", session |-> s]
                       \/ next = [op |-> "cancel", session |-> s]
    BY <1>2 DEF Input, Resize, Cancel
  <2>2. /\ command = Idle /\ command' = next /\ Granted(s, c, r)
        /\ UNCHANGED <<authorityVars, record, session, process, reader, waiter, closing, faults>>
    BY <2>1 DEF Check, Free
  <2>3. /\ next \in Command /\ next.session = s /\ next.op \in {"input", "resize", "cancel"}
        /\ next.op = "input" => next.left >= 1
    <3>1. CASE next = [op |-> "resize", session |-> s] \/ next = [op |-> "cancel", session |-> s]
      BY <3>1 DEF Command
    <3>2. ASSUME NEW n \in 1..MaxInputs,
                 next = [op |-> "input", session |-> s, sequence |-> n, left |-> Typed]
          PROVE  next \in Command /\ next.session = s /\ next.op = "input" /\ next.left >= 1
      <4>1. Typed \in Nat \ {0} /\ n \in Nat
        BY TerminalAssumptions
      <4> QED BY <3>2, <4>1 DEF Command
    <3> QED BY <2>1, <3>1, <3>2
  <2>4. TypeOK'
    BY <1>t, <2>2, <2>3, AuthoritySame, Zenon DEF TypeOK
  <2>5. SessionInv(s)'
    <3>1. InputInv(s)'
      BY <2>2, <2>3 DEF InputInv, About, Locked, Granted, SessionAuthorized, Authorized, authorityVars
    <3>2. Unrecorded(s) = 0 /\ Unrecorded(s)' = 0
      BY <2>2, <2>3 DEF Unrecorded, Idle
    <3>3. Follows(s)'
      BY <1>t, <2>2, <3>2 DEF SessionInv, Follows, Open
    <3> QED BY <1>t, <2>2, <3>1, <3>3 DEF SessionInv, WaiterInv
  <2>6. ASSUME NEW e \in Sessions, e # s PROVE SessionInv(e)'
    <3>1. ~About(e) /\ ~About(e)'
      BY <2>2, <2>3, <2>6 DEF About, Idle
    <3> QED BY <2>2, <3>1, Frame
  <2> QED BY <2>2, <2>3, <2>4, <2>5, <2>6 DEF Inv, LeftInv
<1> QED BY <1>1, <1>2

LEMMA LockInputInv ==
  ASSUME Inv, NEW s \in Sessions, LockInput(s)
  PROVE  Inv'
<1>t. TypeOK /\ SessionInv(s) /\ AuthorityTypeOK
  BY DEF Inv, TypeOK
<1>1. /\ command.op = "input" /\ command.session = s
      /\ command' = IF session[s].closed \/ command.sequence # session[s].nextInput
                      THEN Idle ELSE [command EXCEPT !.op = "locked"]
      /\ UNCHANGED <<authorityVars, record, session, process, reader, waiter, closing, faults>>
  BY DEF LockInput
<1>2. /\ command' \in Command
      /\ \/ command'.op = "none"
         \/ /\ ~session[s].closed /\ command.sequence = session[s].nextInput
            /\ command'.op = "locked" /\ command'.session = s
            /\ command'.left = command.left /\ command'.sequence = command.sequence
  BY <1>1, <1>t, CommandType
<1>3. TypeOK'
  BY <1>t, <1>1, <1>2, AuthoritySame, Zenon DEF TypeOK
<1>4. SessionInv(s)'
  <2>1. InputInv(s)'
    BY <1>t, <1>1, <1>2 DEF SessionInv, InputInv, About, Locked, SessionAuthorized, Authorized, authorityVars
  <2>2. Unrecorded(s) = 0 /\ Unrecorded(s)' = 0
    BY <1>1, <1>2 DEF Unrecorded
  <2>3. Follows(s)'
    BY <1>t, <1>1, <2>2 DEF SessionInv, Follows, Open
  <2> QED BY <1>t, <1>1, <2>1, <2>3 DEF SessionInv, WaiterInv
<1>5. ASSUME NEW e \in Sessions, e # s PROVE SessionInv(e)'
  <2>1. ~About(e) /\ ~About(e)'
    BY <1>1, <1>2, <1>5 DEF About
  <2> QED BY <1>1, <2>1, Frame
<1>6. LeftInv'
  BY <1>1, <1>2 DEF Inv, LeftInv
<1> QED BY <1>3, <1>4, <1>5, <1>6 DEF Inv

LEMMA WriteInputInv ==
  ASSUME Inv, NEW s \in Sessions, WriteInput(s)
  PROVE  Inv'
<1>t. TypeOK /\ SessionInv(s) /\ AuthorityTypeOK /\ process[s] \in Process
  BY DEF Inv, TypeOK
<1>1. /\ command.op = "locked" /\ command.session = s
      /\ UNCHANGED <<authorityVars, record, session, reader, waiter, closing, faults>>
  BY DEF WriteInput
<1>2. command.left \in Nat /\ command.left >= 1
  BY <1>1, <1>t, CommandType DEF Inv, LeftInv
<1>3. ASSUME NEW e \in Sessions, e # s PROVE ~About(e)
  BY <1>1, <1>3 DEF About
<1>4. CASE /\ process[s].state \in {"ended", "reaped"} /\ command' = Idle /\ UNCHANGED process
  <2>1. Idle \in Command /\ Idle.op = "none"
    BY <1>t, CommandType
  <2>2. TypeOK'
    BY <1>t, <1>1, <1>4, <2>1, AuthoritySame, Zenon DEF TypeOK
  <2>3. \A e \in Sessions : ~About(e)'
    BY <1>4, <2>1 DEF About
  <2>4. SessionInv(s)'
    <3>1. InputInv(s)'
      BY <2>3 DEF InputInv, About, Locked
    <3>2. Follows(s)'
      BY <1>4 DEF Follows
    <3> QED BY <1>t, <1>1, <1>4, <3>1, <3>2 DEF SessionInv, WaiterInv
  <2>5. ASSUME NEW e \in Sessions, e # s PROVE SessionInv(e)'
    BY <1>1, <1>3, <1>4, <2>3, <2>5, Frame
  <2> QED BY <1>4, <2>1, <2>2, <2>4, <2>5 DEF Inv, LeftInv
<1>5. CASE /\ process' = [process EXCEPT ![s].unread = @ + 1,
                                         ![s].fed =
                        IF command.left = 1 /\ process[s].state = "alive" THEN @ + 1 ELSE @]
           /\ command' = [command EXCEPT !.left = @ - 1,
                                         !.op = IF command.left = 1 THEN "written" ELSE @]
  <2> DEFINE n == command.left - 1
             op == IF command.left = 1 THEN "written" ELSE "locked"
             fed == IF command.left = 1 /\ process[s].state = "alive"
                      THEN process[s].fed + 1 ELSE process[s].fed
  <2>1. /\ command' \in Command /\ command'.op = op /\ command'.left = n
        /\ command'.session = s /\ command'.sequence = command.sequence
    <3>1. n \in Nat /\ op \in {"locked", "written"}
      BY <1>2
    <3>2. command' = [command EXCEPT !.left = n, !.op = op]
      BY <1>1, <1>5
    <3> HIDE DEF n, op
    <3> QED BY <1>1, <1>t, <3>1, <3>2, CommandType
  <2>2. /\ process' \in [Sessions -> Process] /\ process'[s].fed = fed
        /\ process'[s].state = process[s].state
        /\ \A e \in Sessions : e # s => process'[e] = process[e]
    <3>1. process'= [process EXCEPT ![s] =
                       [process[s] EXCEPT !.unread = process[s].unread + 1, !.fed = fed]]
      BY <1>5, <1>t DEF TypeOK
    <3>2. process[s].unread + 1 \in Nat /\ fed \in Nat
      BY <1>t DEF Process
    <3> HIDE DEF fed
    <3>3. /\ [process[s] EXCEPT !.unread = process[s].unread + 1, !.fed = fed] \in Process
          /\ [process[s] EXCEPT !.unread = process[s].unread + 1, !.fed = fed].fed = fed
          /\ [process[s] EXCEPT !.unread = process[s].unread + 1, !.fed = fed].state
               = process[s].state
      BY <1>t, <3>2 DEF Process
    <3> QED BY <1>t, <3>1, <3>3 DEF TypeOK
  <2>3. TypeOK'
    BY <1>t, <1>1, <2>1, <2>2, AuthoritySame, Zenon DEF TypeOK
  <2>4. SessionInv(s)'
    <3>1. InputInv(s)'
      BY <1>t, <1>1, <2>1 DEF SessionInv, InputInv, About, Locked, SessionAuthorized, Authorized, authorityVars
    <3>2. Unrecorded(s) = 0 /\ Unrecorded(s)' = IF command.left = 1 THEN 1 ELSE 0
      BY <1>1, <2>1 DEF Unrecorded
    <3>3. Follows(s)'
      <4>1. process[s].fed \in Nat /\ record[s].nextInput \in Nat
        BY <1>t, SessionTypes
      <4> QED BY <1>t, <1>1, <2>2, <3>2, <4>1 DEF SessionInv, Follows, Open
    <3> QED BY <1>t, <1>1, <2>2, <3>1, <3>3 DEF SessionInv, WaiterInv
  <2>5. ASSUME NEW e \in Sessions, e # s PROVE SessionInv(e)'
    <3>1. ~About(e)'
      BY <2>1, <2>5 DEF About
    <3> QED BY <1>1, <1>3, <2>2, <2>5, <3>1, Frame
  <2>6. LeftInv'
    BY <1>2, <2>1 DEF LeftInv
  <2> QED BY <2>3, <2>4, <2>5, <2>6 DEF Inv
<1> QED BY <1>4, <1>5 DEF WriteInput

LEMMA RecordInputInv ==
  ASSUME Inv, NEW s \in Sessions, RecordInput(s)
  PROVE  Inv'
<1> DEFINE after == [record[s] EXCEPT !.nextInput = @ + 1]
           accepted == Open(s) /\ record[s].nextInput = command.sequence
<1>t. TypeOK /\ SessionInv(s) /\ AuthorityTypeOK /\ record[s] \in Record
  BY DEF Inv, TypeOK
<1>1. /\ command.op = "written" /\ command.session = s /\ command' = Idle
      /\ UNCHANGED <<authorityVars, reader, waiter, closing>>
  BY DEF RecordInput
<1>2. PICK outcome \in Outcomes :
        /\ Emit(s, accepted, after, outcome)
        /\ IF outcome = "committed"
             THEN /\ session' = [session EXCEPT ![s].nextInput = @ + 1]
                  /\ UNCHANGED process
             ELSE AuditFailed(s) /\ UNCHANGED session
  BY DEF RecordInput
<1>3. /\ after \in Record /\ after.status = record[s].status
      /\ after.nextInput = record[s].nextInput + 1 /\ record[s].nextInput \in Nat
      /\ after.nextOutput = record[s].nextOutput /\ after.bytes = record[s].bytes
  <2>1. record[s].nextInput \in Nat /\ record[s].nextInput + 1 \in Nat
    BY <1>t DEF Record
  <2> QED BY <1>t, <2>1 DEF Record
<1> HIDE DEF after, accepted
<1>4. /\ record' \in [Sessions -> Record] /\ faults' \in 0..MaxFaults
      /\ \A e \in Sessions : e # s => record'[e] = record[e]
      /\ record'[s] \in {record[s], after}
      /\ outcome = "committed" => record'[s] = after
  <2>1. Emit(s, accepted, after, outcome) /\ after \in Record /\ TypeOK
    BY <1>2, <1>3, <1>t
  <2> QED BY <2>1, EmitType, Zenon
<1>5. Idle \in Command /\ Idle.op = "none" /\ \A e \in Sessions : ~About(e)'
  BY <1>1, <1>t, CommandType DEF About
<1>6. ASSUME NEW e \in Sessions, e # s PROVE ~About(e)
  BY <1>1, <1>6 DEF About
<1>7. InputInv(s)' /\ Unrecorded(s) = 1 /\ Unrecorded(s)' = 0
  BY <1>1, <1>5 DEF InputInv, About, Locked, Unrecorded
<1>8. CASE outcome = "committed"
  <2>1. /\ session' = [session EXCEPT ![s].nextInput = @ + 1] /\ UNCHANGED process
        /\ record'[s] = after
    BY <1>2, <1>4, <1>8
  <2>2. /\ session' \in [Sessions -> Session]
        /\ session'[s].nextInput = session[s].nextInput + 1
        /\ session'[s].nextOutput = session[s].nextOutput
        /\ session'[s].place = session[s].place /\ session'[s].closed = session[s].closed
        /\ session'[s].received = session[s].received /\ session'[s].held = session[s].held
        /\ \A e \in Sessions : e # s => session'[e] = session[e]
    <3>1. session \in [Sessions -> Session] /\ session[s] \in Session
      BY <1>t DEF TypeOK
    <3>2. session[s].nextInput + 1 \in Nat
      BY <3>1 DEF Session
    <3>3. session' = [session EXCEPT ![s] = [session[s] EXCEPT !.nextInput = session[s].nextInput + 1]]
      BY <2>1, <3>1
    <3>4. [session[s] EXCEPT !.nextInput = session[s].nextInput + 1] \in Session
      BY <3>1, <3>2 DEF Session
    <3> QED BY <3>1, <3>2, <3>3, <3>4 DEF Session
  <2>3. TypeOK'
    BY <1>t, <1>1, <1>4, <1>5, <2>1, <2>2, AuthoritySame, Zenon DEF TypeOK
  <2>4. Follows(s)'
    BY <1>t, <1>3, <1>7, <2>1, <2>2 DEF SessionInv, Follows, Open
  <2>5. SessionInv(s)'
    BY <1>t, <1>1, <1>3, <1>7, <2>1, <2>2, <2>4 DEF SessionInv, WaiterInv
  <2>6. ASSUME NEW e \in Sessions, e # s PROVE SessionInv(e)'
    BY <1>1, <1>4, <1>5, <1>6, <2>1, <2>2, <2>6, Frame
  <2> QED BY <1>1, <1>5, <2>3, <2>5, <2>6 DEF Inv, LeftInv
<1>9. CASE outcome # "committed"
  <2>1. Kill(s) /\ UNCHANGED session
    BY <1>2, <1>9 DEF AuditFailed
  <2>2. /\ process' \in [Sessions -> Process] /\ process'[s].state # "alive"
        /\ \A e \in Sessions : e # s => process'[e] = process[e]
    BY <1>t, <2>1, KillType
  <2>3. TypeOK'
    BY <1>t, <1>1, <1>4, <1>5, <2>1, <2>2, AuthoritySame, Zenon DEF TypeOK
  <2>4. record'[s].nextInput >= 1
    BY <1>3, <1>4, <1>t DEF SessionInv
  <2>5. SessionInv(s)'
    BY <1>t, <1>1, <1>7, <2>1, <2>2, <2>4 DEF SessionInv, WaiterInv, Follows
  <2>6. ASSUME NEW e \in Sessions, e # s PROVE SessionInv(e)'
    BY <1>1, <1>4, <1>5, <1>6, <2>1, <2>2, <2>6, Frame
  <2> QED BY <1>1, <1>5, <2>3, <2>5, <2>6 DEF Inv, LeftInv
<1> QED BY <1>8, <1>9

\* A resize or a cancellation: neither is about an input.
LEMMA RunOtherInv ==
  ASSUME Inv, NEW s \in Sessions, RunResize(s) \/ RunCancel(s)
  PROVE  Inv'
<1>t. TypeOK /\ SessionInv(s) /\ AuthorityTypeOK /\ record[s] \in Record
  BY DEF Inv, TypeOK
<1>1. /\ command.op \in {"resize", "cancel"} /\ command' = Idle
      /\ UNCHANGED <<authorityVars, session, reader, waiter, closing>>
  BY DEF RunResize, RunCancel
<1>2. /\ \/ UNCHANGED process
         \/ Kill(s)
      /\ record' \in [Sessions -> Record] /\ faults' \in 0..MaxFaults
      /\ \A e \in Sessions : record'[e] = record[e]
  <2>1. CASE UNCHANGED <<record, faults>> /\ (UNCHANGED process \/ Kill(s))
    BY <2>1, <1>t DEF TypeOK
  <2>2. ASSUME NEW outcome \in Outcomes,
               Emit(s, Open(s), record[s], outcome),
               IF outcome = "committed" THEN UNCHANGED process ELSE AuditFailed(s)
        PROVE  <1>2!:
    <3> DEFINE accepted == Open(s)
    <3>1. Emit(s, accepted, record[s], outcome)
      BY <2>2
    <3> HIDE DEF accepted
    <3>2. /\ record' \in [Sessions -> Record] /\ faults' \in 0..MaxFaults
          /\ \A e \in Sessions : e # s => record'[e] = record[e]
          /\ record'[s] \in {record[s], record[s]}
      BY <1>t, <3>1, EmitType, Zenon
    <3> QED BY <2>2, <3>2 DEF AuditFailed
  <2> QED BY <2>1, <2>2 DEF RunResize, RunCancel
<1>3. process' \in [Sessions -> Process]
  BY <1>t, <1>2, KillType DEF TypeOK
<1>4. ASSUME NEW e \in Sessions
      PROVE  \/ process'[e] = process[e]
             \/ process'[e].state # "alive"
  BY <1>t, <1>2, KillType
<1>5. Idle \in Command /\ Idle.op = "none"
  BY <1>t, CommandType
<1>6. TypeOK'
  BY <1>t, <1>1, <1>2, <1>3, <1>5, AuthoritySame, Zenon DEF TypeOK
<1>7. ASSUME NEW e \in Sessions PROVE SessionInv(e)'
  <2>1. ~About(e) /\ ~About(e)'
    BY <1>1, <1>5 DEF About
  <2>2. CASE process'[e] = process[e]
    BY <1>1, <1>2, <2>1, <2>2, Frame
  <2>3. CASE process'[e].state # "alive"
    <3>1. InputInv(e)'
      BY <2>1 DEF InputInv, About, Locked
    <3>2. SessionInv(e)
      BY DEF Inv
    <3> QED BY <1>1, <1>2, <2>3, <3>1, <3>2 DEF SessionInv, WaiterInv, Follows
  <2> QED BY <1>4, <2>2, <2>3
<1> QED BY <1>1, <1>5, <1>6, <1>7 DEF Inv, LeftInv

-----------------------------------------------------------------------------
(* So do the reader, the waiter, Close and the process itself.              *)

\* A step that touches one session, and no command nor authority.
LEMMA LocalStep ==
  ASSUME Inv, NEW s \in Sessions, TypeOK', SessionInv(s)',
         UNCHANGED <<command, authorityVars>>,
         \A e \in Sessions : e # s => /\ record'[e] = record[e] /\ session'[e] = session[e]
                                      /\ process'[e] = process[e] /\ waiter'[e] = waiter[e]
  PROVE  Inv'
<1>1. ASSUME NEW e \in Sessions, e # s PROVE SessionInv(e)'
  BY <1>1, Frame
<1>2. LeftInv'
  BY DEF Inv, LeftInv
<1> QED BY <1>1, <1>2 DEF Inv

\* A step that changes at most the process of a session, and not for the living.
LEMMA ProcessStep ==
  ASSUME Inv, NEW s \in Sessions, TypeOK',
         UNCHANGED <<authorityVars, record, session, waiter, command>>,
         \A e \in Sessions : e # s => process'[e] = process[e],
         \/ process'[s].state # "alive"
         \/ process'[s].state = process[s].state /\ process'[s].fed = process[s].fed
  PROVE  Inv'
<1>1. SessionInv(s)
  BY DEF Inv
<1>2. InputInv(s)' /\ Unrecorded(s)' = Unrecorded(s)
  BY <1>1 DEF SessionInv, InputInv, About, Locked, SessionAuthorized, Authorized, authorityVars,
              Unrecorded
<1>3. Follows(s)'
  BY <1>1, <1>2 DEF SessionInv, Follows, Open
<1>4. SessionInv(s)'
  BY <1>1, <1>2, <1>3 DEF SessionInv, WaiterInv
<1> QED BY <1>4, LocalStep

LEMMA ReadInv ==
  ASSUME Inv, NEW s \in Sessions, Read(s)
  PROVE  Inv'
<1>t. TypeOK /\ AuthorityTypeOK /\ process[s] \in Process /\ reader[s].bytes \in Nat
  BY DEF Inv, TypeOK
<1>1. UNCHANGED <<authorityVars, record, session, waiter, command, closing, faults>>
  BY DEF Read
<1>2. reader' \in [Sessions -> [phase : {"off", "reading", "holding", "ended"}, bytes : Nat]]
  <2>1. process[s].pipe \in Nat
    BY <1>t DEF Process
  <2> QED BY <1>t, <2>1 DEF Read, TypeOK
<1>3. /\ process' \in [Sessions -> Process]
      /\ \A e \in Sessions : e # s => process'[e] = process[e]
      /\ process'[s].state = process[s].state /\ process'[s].fed = process[s].fed
  BY <1>t DEF Read, TypeOK, Process
<1>4. TypeOK'
  BY <1>t, <1>1, <1>2, <1>3, AuthoritySame, Zenon DEF TypeOK
<1> QED BY <1>1, <1>3, <1>4, ProcessStep

LEMMA ProduceInv ==
  ASSUME Inv, NEW s \in Sessions, Produce(s) \/ Echo(s) \/ Finish(s)
  PROVE  Inv'
<1>t. TypeOK /\ AuthorityTypeOK /\ process[s] \in Process
  BY DEF Inv, TypeOK
<1>1. UNCHANGED <<authorityVars, record, session, reader, waiter, command, closing, faults>>
  BY DEF Produce, Echo, Finish
<1>2. /\ process' \in [Sessions -> Process]
      /\ \A e \in Sessions : e # s => process'[e] = process[e]
      /\ \/ process'[s].state # "alive"
         \/ process'[s].state = process[s].state /\ process'[s].fed = process[s].fed
  <2> DEFINE p == process[s]
  <2>1. /\ p.pipe + 1 \in Nat /\ p.made + 1 \in Nat
        /\ p.unread > 0 => p.unread - 1 \in Nat
    BY <1>t DEF Process
  <2>2. PICK q : /\ process' = [process EXCEPT ![s] = q]
                 /\ \/ q = [p EXCEPT !.pipe = p.pipe + 1, !.made = p.made + 1]
                    \/ /\ p.unread > 0
                       /\ q = [p EXCEPT !.unread = p.unread - 1, !.pipe = p.pipe + 1]
                    \/ q = [p EXCEPT !.state = "ended"]
    <3>1. CASE Produce(s)
      BY <1>t, <3>1 DEF Produce, TypeOK
    <3>2. CASE Echo(s)
      BY <1>t, <3>2 DEF Echo, TypeOK
    <3>3. CASE Finish(s)
      BY <1>t, <3>3 DEF Finish, TypeOK
    <3> QED BY <3>1, <3>2, <3>3
  <2> HIDE DEF p
  <2>3. p \in Process
    BY <1>t DEF p
  <2>4. /\ q \in Process
        /\ q.state # "alive" \/ (q.state = p.state /\ q.fed = p.fed)
    BY <2>1, <2>2, <2>3 DEF Process
  <2> QED BY <1>t, <2>2, <2>4 DEF TypeOK, p
<1>3. TypeOK'
  BY <1>t, <1>1, <1>2, AuthoritySame, Zenon DEF TypeOK
<1> QED BY <1>1, <1>2, <1>3, ProcessStep

LEMMA CloseInv ==
  ASSUME Inv, BeginClose \/ CloseReturns \/ \E s \in Sessions : CloseKills(s)
  PROVE  Inv'
<1>t. TypeOK /\ AuthorityTypeOK
  BY DEF Inv, TypeOK
<1>c. closing \in [phase : {"no", "yes", "done"}, kill : SUBSET Sessions, await : SUBSET Sessions]
  BY <1>t DEF TypeOK
<1>1. CASE BeginClose \/ CloseReturns
  <2>1. UNCHANGED <<authorityVars, record, session, process, reader, waiter, command, faults>>
    BY <1>1 DEF BeginClose, CloseReturns
  <2>2. closing' \in [phase : {"no", "yes", "done"}, kill : SUBSET Sessions, await : SUBSET Sessions]
    BY <1>1, <1>c DEF BeginClose, CloseReturns
  <2>3. TypeOK'
    BY <1>t, <2>1, <2>2, AuthoritySame, Zenon DEF TypeOK
  <2>4. ASSUME NEW e \in Sessions PROVE SessionInv(e)'
    BY <2>1, Frame
  <2> QED BY <2>1, <2>3, <2>4 DEF Inv, LeftInv
<1>2. ASSUME NEW s \in Sessions, CloseKills(s) PROVE Inv'
  <2>1. UNCHANGED <<authorityVars, record, session, reader, waiter, command, faults>>
    BY <1>2 DEF CloseKills
  <2>2. closing' \in [phase : {"no", "yes", "done"}, kill : SUBSET Sessions, await : SUBSET Sessions]
    BY <1>2, <1>c DEF CloseKills
  <2>3. UNCHANGED process \/ Kill(s)
    BY <1>2 DEF CloseKills
  <2>4. /\ process' \in [Sessions -> Process]
        /\ \A e \in Sessions : e # s => process'[e] = process[e]
        /\ process'[s].state # "alive" \/ process'[s] = process[s]
    BY <1>t, <2>3, KillType DEF TypeOK
  <2>5. TypeOK'
    BY <1>t, <2>1, <2>2, <2>4, AuthoritySame, Zenon DEF TypeOK
  <2> QED BY <2>1, <2>4, <2>5, ProcessStep
<1> QED BY <1>1, <1>2

LEMMA WaiterInvariant ==
  ASSUME Inv, NEW s \in Sessions, Waiter(s)
  PROVE  Inv'
<1>t. TypeOK /\ AuthorityTypeOK /\ SessionInv(s) /\ WaiterInv(s) /\ record[s] \in Record
      /\ session[s] \in Session /\ process[s] \in Process
  BY DEF Inv, TypeOK, SessionInv
<1>w. waiter[s] # "off" => session[s].place # "none"
  BY <1>t DEF WaiterInv
<1>1. CASE WaitReturns(s)
  <2>1. /\ waiter[s] = "waiting" /\ process[s].state = "ended"
        /\ waiter' = [waiter EXCEPT ![s] = "returned"]
        /\ process' = [process EXCEPT ![s].state = "reaped"]
        /\ UNCHANGED <<authorityVars, record, session, reader, command, closing, faults>>
    BY <1>1 DEF WaitReturns
  <2>2. /\ process' \in [Sessions -> Process] /\ process'[s].state = "reaped"
        /\ waiter' \in [Sessions -> {"off", "waiting", "returned", "closed", "recorded", "done"}]
        /\ waiter'[s] = "returned"
        /\ \A e \in Sessions : e # s => process'[e] = process[e] /\ waiter'[e] = waiter[e]
    BY <1>t, <2>1 DEF TypeOK, Process
  <2>3. TypeOK'
    BY <1>t, <2>1, <2>2, AuthoritySame, Zenon DEF TypeOK
  <2>4. InputInv(s)'
    BY <1>t, <2>1 DEF SessionInv, InputInv, About, Locked, SessionAuthorized, Authorized, authorityVars
  <2>5. SessionInv(s)'
    BY <1>t, <1>w, <2>1, <2>2, <2>4 DEF SessionInv, WaiterInv, Follows
  <2> QED BY <2>1, <2>2, <2>3, <2>5, LocalStep
<1>2. CASE CloseSession(s)
  <2>1. /\ waiter[s] = "returned" /\ ~Locked(s)
        /\ waiter' = [waiter EXCEPT ![s] = "closed"]
        /\ session' = [session EXCEPT ![s].closed = TRUE]
        /\ UNCHANGED <<authorityVars, record, process, reader, command, closing, faults>>
    BY <1>2 DEF CloseSession
  <2>2. /\ session' \in [Sessions -> Session] /\ session'[s].closed
        /\ session'[s].place = session[s].place
        /\ session'[s].held = session[s].held /\ session'[s].received = session[s].received
        /\ waiter' \in [Sessions -> {"off", "waiting", "returned", "closed", "recorded", "done"}]
        /\ waiter'[s] = "closed"
        /\ \A e \in Sessions : e # s => session'[e] = session[e] /\ waiter'[e] = waiter[e]
    BY <1>t, <2>1 DEF TypeOK, Session
  <2>3. TypeOK'
    BY <1>t, <2>1, <2>2, AuthoritySame, Zenon DEF TypeOK
  <2>4. InputInv(s)'
    BY <2>1, <2>2 DEF InputInv, Locked
  <2>5. process'[s].state # "alive"
    BY <1>t, <2>1 DEF WaiterInv
  <2>6. SessionInv(s)'
    BY <1>t, <1>w, <2>1, <2>2, <2>4, <2>5 DEF SessionInv, WaiterInv, Follows
  <2> QED BY <2>1, <2>2, <2>3, <2>6, LocalStep
<1>3. CASE RecordExit(s)
  <2> DEFINE after == [record[s] EXCEPT !.status = "exited"]
             accepted == Open(s)
  <2>1. /\ waiter[s] = "closed" /\ waiter' = [waiter EXCEPT ![s] = "recorded"]
        /\ \E outcome \in Outcomes : Emit(s, accepted, after, outcome)
        /\ UNCHANGED <<authorityVars, session, process, reader, command, closing>>
    BY <1>3 DEF RecordExit
  <2>2. after \in Record /\ after.nextInput = record[s].nextInput
    BY <1>t DEF Record
  <2> HIDE DEF after, accepted
  <2>3. PICK outcome \in Outcomes : Emit(s, accepted, after, outcome)
    BY <2>1
  <2>4. /\ record' \in [Sessions -> Record] /\ faults' \in 0..MaxFaults
        /\ \A e \in Sessions : e # s => record'[e] = record[e]
        /\ record'[s] \in {record[s], after}
    <3>1. after \in Record
      BY <2>2
    <3> QED BY <1>t, <2>3, <3>1, EmitType, Zenon
  <2>5. /\ waiter' \in [Sessions -> {"off", "waiting", "returned", "closed", "recorded", "done"}]
        /\ waiter'[s] = "recorded"
        /\ \A e \in Sessions : e # s => waiter'[e] = waiter[e]
    BY <1>t, <2>1 DEF TypeOK
  <2>6. TypeOK'
    BY <1>t, <2>1, <2>4, <2>5, AuthoritySame, Zenon DEF TypeOK
  <2>7. InputInv(s)'
    BY <1>t, <2>1 DEF SessionInv, InputInv, About, Locked, SessionAuthorized, Authorized, authorityVars
  <2>8. record'[s].nextInput >= 1
    BY <1>t, <2>2, <2>4 DEF SessionInv
  <2>9. SessionInv(s)'
    BY <1>t, <1>w, <2>1, <2>5, <2>7, <2>8 DEF SessionInv, WaiterInv, Follows
  <2> QED BY <2>1, <2>4, <2>5, <2>6, <2>9, LocalStep
<1>4. CASE Leave(s)
  <2>1. /\ waiter[s] = "recorded" /\ waiter' = [waiter EXCEPT ![s] = "done"]
        /\ session' = [session EXCEPT ![s] = [NoSession EXCEPT !.place = "gone", !.closed = TRUE]]
        /\ process' = [process EXCEPT ![s] = [NoProcess EXCEPT !.state = "reaped"]]
        /\ UNCHANGED <<authorityVars, record, reader, command, closing, faults>>
    BY <1>4 DEF Leave
  <2>2. /\ [NoSession EXCEPT !.place = "gone", !.closed = TRUE] \in Session
        /\ [NoSession EXCEPT !.place = "gone", !.closed = TRUE].place = "gone"
        /\ [NoSession EXCEPT !.place = "gone", !.closed = TRUE].closed
        /\ [NoSession EXCEPT !.place = "gone", !.closed = TRUE].held = 0
        /\ [NoSession EXCEPT !.place = "gone", !.closed = TRUE].received = 0
    <3>1. 0 \in 0..OutputLimit /\ 1 \in Nat /\ 0 \in Nat
      BY TerminalAssumptions
    <3>2. NoSession \in Session
      BY <3>1 DEF NoSession, Session
    <3> QED BY <3>2 DEF NoSession, Session
  <2>3. [NoProcess EXCEPT !.state = "reaped"] \in Process /\ [NoProcess EXCEPT !.state = "reaped"].state = "reaped"
    BY DEF NoProcess, Process
  <2>4. /\ session' \in [Sessions -> Session] /\ session'[s].closed /\ session'[s].place = "gone"
        /\ session'[s].held = 0 /\ session'[s].received = 0
        /\ \A e \in Sessions : e # s => session'[e] = session[e]
    BY <1>t, <2>1, <2>2 DEF TypeOK
  <2>5. /\ waiter' \in [Sessions -> {"off", "waiting", "returned", "closed", "recorded", "done"}]
        /\ waiter'[s] = "done"
        /\ process' \in [Sessions -> Process] /\ process'[s].state = "reaped"
        /\ \A e \in Sessions : e # s => waiter'[e] = waiter[e] /\ process'[e] = process[e]
    BY <1>t, <2>1, <2>3 DEF TypeOK
  <2>6. TypeOK'
    BY <1>t, <2>1, <2>4, <2>5, AuthoritySame, Zenon DEF TypeOK
  <2>7. InputInv(s)'
    <3>1. ~Locked(s)
      BY <1>t, <2>1 DEF SessionInv, InputInv, WaiterInv
    <3> QED BY <2>1, <2>4, <3>1 DEF InputInv, Locked
  <2>8. SessionInv(s)'
    BY <1>t, <2>1, <2>4, <2>5, <2>7 DEF SessionInv, WaiterInv, Follows
  <2> QED BY <2>1, <2>4, <2>5, <2>6, <2>8, LocalStep
<1> QED BY <1>1, <1>2, <1>3, <1>4 DEF Waiter

\* The reader records a chunk, or what was held back at the end.
LEMMA OutputInv ==
  ASSUME Inv, NEW s \in Sessions, CommitOutput(s) \/ Flush(s)
  PROVE  Inv'
<1>t. TypeOK /\ AuthorityTypeOK /\ SessionInv(s) /\ session[s] \in Session /\ process[s] \in Process
  BY DEF Inv, TypeOK
<1>1. /\ ~Locked(s)
      /\ UNCHANGED <<authorityVars, waiter, command, closing>>
  BY DEF CommitOutput, Flush
<1>2. reader' \in [Sessions -> [phase : {"off", "reading", "holding", "ended"}, bytes : Nat]]
  BY <1>t DEF CommitOutput, Flush, TypeOK
<1>3. /\ Kept(s) \in Nat /\ session[s].received \in Nat /\ session[s].held \in Nat
      /\ session[s].received + Kept(s) <= OutputLimit
      /\ session[s].held <= session[s].received
      /\ OutputLimit \in Nat
  BY <1>t, KeptType DEF SessionInv
<1>4. CASE UNCHANGED <<record, session, faults>> /\ (UNCHANGED process \/ Kill(s))
  <2>1. /\ process' \in [Sessions -> Process]
        /\ \A e \in Sessions : e # s => process'[e] = process[e]
        /\ process'[s].state # "alive" \/ process'[s] = process[s]
    BY <1>t, <1>4, KillType DEF TypeOK
  <2>2. TypeOK'
    BY <1>t, <1>1, <1>2, <1>4, <2>1, AuthoritySame, Zenon DEF TypeOK
  <2> QED BY <1>1, <1>4, <2>1, <2>2, ProcessStep
<1>5. ASSUME NEW clean \in Nat, NEW held \in Nat, NEW kept \in Nat, NEW outcome \in Outcomes,
             NEW next \in Session, NEW full,
             next.received = session[s].received + kept, next.held = held,
             clean + held <= session[s].held + kept,
             next.place = session[s].place, next.closed = session[s].closed,
             next.nextInput = session[s].nextInput, next.owner = session[s].owner,
             next.scope = session[s].scope, next.revision = session[s].revision,
             outcome = "committed" =>
               next.nextOutput = IF clean = 0 THEN session[s].nextOutput
                                 ELSE session[s].nextOutput + 1,
             RecordOutput(s, clean, outcome),
             session' = [session EXCEPT ![s] = next],
             \/ process' = [process EXCEPT ![s] = Killed(process[s])]
             \/ UNCHANGED process /\ outcome = "committed" /\ next.received < OutputLimit
             \/ UNCHANGED process /\ outcome = "committed" /\ kept = 0
      PROVE  Inv'
  <2>1. /\ record' \in [Sessions -> Record] /\ faults' \in 0..MaxFaults
        /\ \A e \in Sessions : e # s => record'[e] = record[e]
        /\ record'[s].status = record[s].status /\ record'[s].nextInput = record[s].nextInput
        /\ outcome = "committed" =>
             /\ record'[s].bytes = record[s].bytes + clean
             /\ record'[s].nextOutput =
                  IF clean = 0 THEN record[s].nextOutput ELSE record[s].nextOutput + 1
    BY <1>t, <1>5, OutputType
  <2>2. /\ session' \in [Sessions -> Session] /\ session'[s] = next
        /\ \A e \in Sessions : e # s => session'[e] = session[e]
    BY <1>t, <1>5 DEF TypeOK
  <2>3. /\ process' \in [Sessions -> Process]
        /\ \A e \in Sessions : e # s => process'[e] = process[e]
        /\ \/ process'[s].state # "alive"
           \/ /\ process'[s] = process[s] /\ outcome = "committed"
              /\ next.received < OutputLimit \/ kept = 0
    <3>1. Killed(process[s]) \in Process /\ Killed(process[s]).state # "alive"
      BY <1>t, KillType
    <3> QED BY <1>t, <1>5, <3>1 DEF TypeOK
  <2>4. TypeOK'
    BY <1>t, <1>1, <1>2, <2>1, <2>2, <2>3, AuthoritySame, Zenon DEF TypeOK
  <2>5. InputInv(s)'
    BY <1>t, <1>1, <1>5, <2>2 DEF SessionInv, InputInv, About, Locked, SessionAuthorized, Authorized, authorityVars
  <2>6. Unrecorded(s)' = Unrecorded(s)
    BY <1>1 DEF Unrecorded
  <2>7. Follows(s)'
    <3> SUFFICES ASSUME next.place = "managed", process'[s].state = "alive"
                 PROVE  Follows(s)'
      BY <2>2 DEF Follows
    <3>1. /\ process'[s] = process[s] /\ outcome = "committed"
          /\ next.received < OutputLimit \/ kept = 0
      BY <2>3
    <3>2. /\ Open(s)
          /\ record[s].nextInput = session[s].nextInput
          /\ record[s].nextOutput = session[s].nextOutput
          /\ process[s].fed = record[s].nextInput - 1 + Unrecorded(s)
          /\ record[s].bytes + session[s].held <= session[s].received
          /\ session[s].received < OutputLimit
      BY <1>t, <1>5, <3>1 DEF SessionInv, Follows
    <3>3. record[s].bytes \in Nat
      BY <1>t, SessionTypes
    <3>4. record'[s].bytes + next.held <= next.received /\ next.received < OutputLimit
      BY <1>3, <1>5, <2>1, <3>1, <3>2, <3>3
    <3>5. record'[s].nextOutput = next.nextOutput
      BY <1>5, <2>1, <3>1, <3>2
    <3> QED BY <1>5, <2>1, <2>2, <2>6, <3>1, <3>2, <3>4, <3>5 DEF Follows, Open
  <2>8. SessionInv(s)'
    <3>1. next.held <= next.received
      BY <1>3, <1>5
    <3> QED BY <1>t, <1>1, <1>5, <2>1, <2>2, <2>3, <2>5, <2>7, <3>1 DEF SessionInv, WaiterInv
  <2> QED BY <1>1, <2>1, <2>2, <2>3, <2>4, <2>8, LocalStep
<1>6. CASE CommitOutput(s)
  <2>1. CASE UNCHANGED <<record, session, faults>> /\ (UNCHANGED process \/ Kill(s))
    BY <1>4, <2>1
  <2>2. CASE ~(UNCHANGED <<record, session, faults>> /\ (UNCHANGED process \/ Kill(s)))
    <3>0. PICK clean \in 0..(session[s].held + Kept(s)), outcome \in Outcomes :
           \E held \in 0..(session[s].held + Kept(s) - clean) :
             LET next == Received(s, clean, held)
                 full == next.received >= OutputLimit
             IN /\ RecordOutput(s, clean, outcome)
                /\ session' = [session EXCEPT ![s] =
                     IF outcome = "committed" THEN next
                     ELSE [next EXCEPT !.nextOutput = session[s].nextOutput]]
                /\ process' = [process EXCEPT ![s] =
                     IF outcome # "committed" \/ full THEN Killed(@) ELSE @]
      BY <1>6, <2>2 DEF CommitOutput
    <3>1. PICK held \in 0..(session[s].held + Kept(s) - clean) :
             LET next == Received(s, clean, held)
                 full == next.received >= OutputLimit
             IN /\ RecordOutput(s, clean, outcome)
                /\ session' = [session EXCEPT ![s] =
                     IF outcome = "committed" THEN next
                     ELSE [next EXCEPT !.nextOutput = session[s].nextOutput]]
                /\ process' = [process EXCEPT ![s] =
                     IF outcome # "committed" \/ full THEN Killed(@) ELSE @]
      BY <3>0
    <3> DEFINE r == session[s].received + Kept(s)
               n == IF clean = 0 THEN session[s].nextOutput ELSE session[s].nextOutput + 1
               m == IF outcome = "committed" THEN n ELSE session[s].nextOutput
               next == [session[s] EXCEPT !.received = r, !.held = held, !.nextOutput = m]
    <3>2. /\ clean \in Nat /\ held \in Nat /\ clean + held <= session[s].held + Kept(s)
          /\ r \in 0..OutputLimit /\ held \in 0..OutputLimit
      BY <1>3
    <3>3. n \in Nat /\ m \in Nat
      BY <1>t DEF Session
    <3>4. session' = [session EXCEPT ![s] = next]
      <4>1. CASE outcome = "committed"
        BY <3>1, <4>1 DEF Received
      <4>2. CASE outcome # "committed"
        BY <1>t, <3>1, <4>2 DEF Received, Session
      <4> QED BY <4>1, <4>2
    <3>5. Received(s, clean, held).received = r
      BY <1>t DEF Received, Session
    <3>6. \/ process' = [process EXCEPT ![s] = Killed(process[s])]
          \/ UNCHANGED process /\ outcome = "committed" /\ r < OutputLimit
      <4>1. CASE outcome # "committed" \/ r >= OutputLimit
        BY <1>t, <3>1, <3>5, <4>1 DEF TypeOK
      <4>2. CASE ~(outcome # "committed" \/ r >= OutputLimit)
        BY <1>t, <1>3, <3>1, <3>5, <4>2 DEF TypeOK
      <4> QED BY <4>1, <4>2
    <3>7. RecordOutput(s, clean, outcome)
      BY <3>1
    <3> HIDE DEF r, n, m
    <3>8. /\ next \in Session /\ next.received = r /\ next.held = held /\ next.nextOutput = m
          /\ next.place = session[s].place /\ next.closed = session[s].closed
          /\ next.nextInput = session[s].nextInput /\ next.owner = session[s].owner
          /\ next.scope = session[s].scope /\ next.revision = session[s].revision
      BY <1>t, <3>2, <3>3 DEF Session
    <3> HIDE DEF next
    <3>9. next.received = session[s].received + Kept(s)
      BY <3>8 DEF r
    <3>10. outcome = "committed" =>
             next.nextOutput = IF clean = 0 THEN session[s].nextOutput
                               ELSE session[s].nextOutput + 1
      BY <3>8 DEF m, n
    <3> QED BY <1>3, <1>5, <3>2, <3>4, <3>6, <3>7, <3>8, <3>9, <3>10
  <2> QED BY <2>1, <2>2
<1>7. CASE Flush(s)
  <2>1. CASE UNCHANGED <<record, session, process, faults>>
    BY <1>4, <2>1
  <2>2. CASE ~UNCHANGED <<record, session, process, faults>>
    <3>1. PICK clean \in 0..session[s].held, outcome \in Outcomes :
             /\ RecordOutput(s, clean, outcome)
             /\ IF outcome = "committed"
                  THEN /\ session' = [session EXCEPT ![s].held = 0, ![s].nextOutput =
                                        IF clean = 0 THEN @ ELSE @ + 1]
                       /\ UNCHANGED process
                  ELSE /\ session' = [session EXCEPT ![s].held = 0]
                       /\ AuditFailed(s)
      BY <1>7, <2>2 DEF Flush
    <3> DEFINE n == IF clean = 0 THEN session[s].nextOutput ELSE session[s].nextOutput + 1
               m == IF outcome = "committed" THEN n ELSE session[s].nextOutput
               next == [session[s] EXCEPT !.held = 0, !.nextOutput = m]
    <3>2. clean \in Nat /\ clean + 0 <= session[s].held + 0 /\ 0 \in 0..OutputLimit
      BY <1>3
    <3>3. n \in Nat /\ m \in Nat
      BY <1>t DEF Session
    <3>4. session' = [session EXCEPT ![s] = next]
      <4>1. CASE outcome = "committed"
        BY <1>t, <3>1, <4>1 DEF TypeOK
      <4>2. CASE outcome # "committed"
        <5>1. session' = [session EXCEPT ![s] = [session[s] EXCEPT !.held = 0]]
          BY <1>t, <3>1, <4>2 DEF TypeOK
        <5>2. next = [session[s] EXCEPT !.held = 0]
          BY <1>t, <4>2 DEF Session
        <5> QED BY <5>1, <5>2
      <4> QED BY <4>1, <4>2
    <3>5. \/ process' = [process EXCEPT ![s] = Killed(process[s])]
          \/ UNCHANGED process /\ outcome = "committed"
      BY <1>t, <3>1 DEF AuditFailed, Kill, TypeOK
    <3>6. RecordOutput(s, clean, outcome)
      BY <3>1
    <3> HIDE DEF n, m
    <3>7. /\ next \in Session /\ next.received = session[s].received /\ next.held = 0
          /\ next.nextOutput = m
          /\ next.place = session[s].place /\ next.closed = session[s].closed
          /\ next.nextInput = session[s].nextInput /\ next.owner = session[s].owner
          /\ next.scope = session[s].scope /\ next.revision = session[s].revision
      BY <1>t, <3>2, <3>3 DEF Session
    <3> HIDE DEF next
    <3>8. next.received = session[s].received + 0
      BY <1>3, <3>7
    <3>9. outcome = "committed" =>
             next.nextOutput = IF clean = 0 THEN session[s].nextOutput
                               ELSE session[s].nextOutput + 1
      BY <3>7 DEF m, n
    <3>10. 0 \in Nat
      OBVIOUS
    <3> QED BY <1>5, <3>2, <3>4, <3>5, <3>6, <3>7, <3>8, <3>9, <3>10
  <2> QED BY <2>1, <2>2
<1> QED BY <1>6, <1>7

-----------------------------------------------------------------------------
LEMMA InitInv == Init => Inv
<1> SUFFICES ASSUME Init PROVE Inv
  OBVIOUS
<1>1. Idle \in Command /\ command = Idle /\ command.op = "none"
  BY DEF Init, Command, Idle
<1>2. TypeOK
  <2>1. AuthorityTypeOK
    <3>1. confirmed \in BOOLEAN
      BY Zenon DEF Init, AuthorityInit
    <3> QED BY <3>1, AuthorityAssumptions DEF Init, AuthorityInit, AuthorityTypeOK
  <2>2. NoRecord \in Record /\ NoProcess \in Process
    BY DEF NoRecord, Record, NoProcess, Process
  <2>3. NoSession \in Session
    <3>1. 0 \in 0..OutputLimit /\ 1 \in Nat /\ 0 \in Nat
      BY TerminalAssumptions
    <3> QED BY <3>1 DEF NoSession, Session
  <2>4. /\ record \in [Sessions -> Record] /\ session \in [Sessions -> Session]
        /\ process \in [Sessions -> Process]
    BY <2>2, <2>3 DEF Init
  <2>5. faults \in 0..MaxFaults
    BY TerminalAssumptions DEF Init
  <2>6. /\ reader \in [Sessions -> [phase : {"off", "reading", "holding", "ended"}, bytes : Nat]]
        /\ waiter \in [Sessions -> {"off", "waiting", "returned", "closed", "recorded", "done"}]
    BY DEF Init
  <2>7. closing \in [phase : {"no", "yes", "done"}, kill : SUBSET Sessions, await : SUBSET Sessions]
    BY DEF Init
  <2> QED BY <1>1, <2>1, <2>4, <2>5, <2>6, <2>7 DEF TypeOK
<1>3. ASSUME NEW s \in Sessions PROVE SessionInv(s)
  <2>1. /\ record[s] = NoRecord /\ session[s] = NoSession /\ process[s] = NoProcess
        /\ waiter[s] = "off"
    BY DEF Init
  <2>2. InputInv(s)
    BY <1>1 DEF InputInv, About, Locked
  <2> QED BY <2>1, <2>2 DEF SessionInv, WaiterInv, Follows, NoRecord, NoSession, NoProcess
<1> QED BY <1>1, <1>2, <1>3 DEF Inv, LeftInv

LEMMA NextInv == Inv /\ [Next]_vars => Inv'
<1> SUFFICES ASSUME Inv, [Next]_vars PROVE Inv'
  OBVIOUS
<1>1. CASE UNCHANGED vars
  <2>1. UNCHANGED <<authorityVars, record, session, process, reader, waiter, command, closing, faults>>
    BY <1>1 DEF vars
  <2>2. TypeOK'
    BY <2>1, AuthoritySame, Zenon DEF Inv, TypeOK
  <2>3. ASSUME NEW e \in Sessions PROVE SessionInv(e)'
    BY <2>1, Frame
  <2> QED BY <2>1, <2>2, <2>3 DEF Inv, LeftInv
<1>2. CASE Authority \/ BeginClose \/ Close
  BY <1>2, AuthorityInv, CloseInv, Zenon DEF Close
<1>3. ASSUME NEW s \in Sessions, RunCommand(s) PROVE Inv'
  BY <1>3, LockInputInv, WriteInputInv, RecordInputInv, RunOtherInv, Zenon DEF RunCommand
<1>4. ASSUME NEW s \in Sessions, Reader(s) \/ Waiter(s) PROVE Inv'
  BY <1>4, ReadInv, OutputInv, WaiterInvariant, Zenon DEF Reader
<1>5. ASSUME NEW s \in Sessions, Produce(s) \/ Echo(s) \/ Finish(s) PROVE Inv'
  BY <1>5, ProduceInv
<1>6. ASSUME NEW s \in Sessions, NEW c \in Clients, OpenSession(s, c) PROVE Inv'
  BY <1>6, OpenInv
<1>7. ASSUME NEW s \in Sessions, NEW c \in Clients, NEW r \in 1..MaxRevision,
             \/ Revoke(s, c, r)
             \/ \E n \in 1..MaxInputs : Input(s, c, r, n)
             \/ Resize(s, c, r)
             \/ Cancel(s, c, r)
      PROVE  Inv'
  BY <1>7, CheckInv
<1> QED BY <1>1, <1>2, <1>3, <1>4, <1>5, <1>6, <1>7, Zenon DEF Next

LEMMA SpecInv == Spec => []Inv
<1> QED BY InitInv, NextInv, PTL DEF Spec

\* The log gets an input only where one is recorded.
LEMMA InputsAreRecorded ==
  ASSUME Inv, Next, NEW s \in Sessions, record'[s].nextInput > record[s].nextInput
  PROVE  RecordInput(s)
<1>t. TypeOK /\ record[s].nextInput \in Nat /\ record[s].nextInput >= 1
  BY SessionTypes DEF Inv, SessionInv
<1>0. record'[s].nextInput # record[s].nextInput
  BY <1>t
<1>1. ASSUME NEW e \in Sessions, NEW c \in Clients, OpenSession(e, c) PROVE FALSE
  <2> DEFINE after == [NoRecord EXCEPT !.status = "open"]
             accepted == record[e].status = "absent"
  <2>1. after \in Record /\ after.nextInput = 1
    BY DEF NoRecord, Record
  <2>2. PICK outcome \in Outcomes : Emit(e, accepted, after, outcome)
    BY <1>1 DEF OpenSession
  <2> HIDE DEF after, accepted
  <2>3. /\ \A x \in Sessions : x # e => record'[x] = record[x]
        /\ record'[e] \in {record[e], after}
    <3>1. after \in Record
      BY <2>1
    <3> QED BY <1>t, <2>2, <3>1, EmitType, Zenon
  <2> QED BY <1>t, <2>1, <2>3
<1>2. ASSUME NEW e \in Sessions, RecordInput(e) PROVE e = s
  <2> DEFINE after == [record[e] EXCEPT !.nextInput = @ + 1]
             accepted == Open(e) /\ record[e].nextInput = command.sequence
  <2>1. after \in Record
    <3>1. record[e] \in Record /\ record[e].nextInput + 1 \in Nat
      BY <1>t, SessionTypes
    <3> QED BY <3>1 DEF Record
  <2>2. PICK outcome \in Outcomes : Emit(e, accepted, after, outcome)
    BY <1>2 DEF RecordInput
  <2> HIDE DEF after, accepted
  <2>3. \A x \in Sessions : x # e => record'[x] = record[x]
    BY <1>t, <2>1, <2>2, EmitType, Zenon
  <2> QED BY <1>0, <2>3
<1>3. ASSUME NEW e \in Sessions, RunResize(e) PROVE FALSE
  <2>1. CASE UNCHANGED record
    BY <1>0, <2>1
  <2>2. CASE ~UNCHANGED record
    <3> DEFINE accepted == Open(e)
    <3>1. PICK outcome \in Outcomes : Emit(e, accepted, record[e], outcome)
      BY <1>3, <2>2 DEF RunResize
    <3> HIDE DEF accepted
    <3>2. record[e] \in Record
      BY <1>t, SessionTypes
    <3>3. /\ \A x \in Sessions : x # e => record'[x] = record[x]
          /\ record'[e] \in {record[e], record[e]}
      BY <1>t, <3>1, <3>2, EmitType, Zenon
    <3> QED BY <1>0, <3>3
  <2> QED BY <2>1, <2>2
<1>4. ASSUME NEW e \in Sessions, CommitOutput(e) \/ Flush(e) PROVE FALSE
  <2>1. CASE UNCHANGED record
    BY <1>0, <2>1
  <2>2. CASE ~UNCHANGED record
    <3>1. Kept(e) \in Nat /\ session[e].held \in Nat
      BY <1>t, KeptType
    <3>2. PICK clean \in Nat, outcome \in Outcomes : RecordOutput(e, clean, outcome)
      <4>1. CASE CommitOutput(e)
        <5>1. PICK clean \in 0..(session[e].held + Kept(e)), outcome \in Outcomes :
                RecordOutput(e, clean, outcome)
          BY <4>1, <2>2 DEF CommitOutput
        <5>2. clean \in Nat
          BY <3>1
        <5> QED BY <5>1, <5>2
      <4>2. CASE Flush(e)
        <5>1. PICK clean \in 0..session[e].held, outcome \in Outcomes :
                RecordOutput(e, clean, outcome)
          BY <4>2, <2>2 DEF Flush
        <5>2. clean \in Nat
          BY <3>1
        <5> QED BY <5>1, <5>2
      <4> QED BY <1>4, <4>1, <4>2
    <3>3. /\ \A x \in Sessions : x # e => record'[x] = record[x]
          /\ record'[e].nextInput = record[e].nextInput
      BY <1>t, <3>2, OutputType, Zenon
    <3> QED BY <1>0, <3>3
  <2> QED BY <2>1, <2>2
<1>5. ASSUME NEW e \in Sessions, RecordExit(e) PROVE FALSE
  <2> DEFINE after == [record[e] EXCEPT !.status = "exited"]
             accepted == Open(e)
  <2>1. after \in Record /\ after.nextInput = record[e].nextInput
    <3>1. record[e] \in Record
      BY <1>t, SessionTypes
    <3> QED BY <3>1 DEF Record
  <2>2. PICK outcome \in Outcomes : Emit(e, accepted, after, outcome)
    BY <1>5 DEF RecordExit
  <2> HIDE DEF after, accepted
  <2>3. /\ \A x \in Sessions : x # e => record'[x] = record[x]
        /\ record'[e] \in {record[e], after}
    <3>1. after \in Record
      BY <2>1
    <3> QED BY <1>t, <2>2, <3>1, EmitType, Zenon
  <2> QED BY <1>0, <2>1, <2>3
<1>6. ~UNCHANGED record
  BY <1>0
<1>7. CASE Authority \/ BeginClose \/ Close
  BY <1>6, <1>7 DEF Authority, BeginClose, Close, CloseReturns, CloseKills
<1>8. ASSUME NEW e \in Sessions, RunCommand(e) PROVE RecordInput(e)
  BY <1>3, <1>6, <1>8 DEF RunCommand, LockInput, WriteInput, RunCancel
<1>9. ASSUME NEW e \in Sessions, Reader(e) \/ Waiter(e) PROVE FALSE
  BY <1>4, <1>5, <1>6, <1>9 DEF Reader, Waiter, Read, WaitReturns, CloseSession, Leave
<1>10. ASSUME NEW e \in Sessions, Produce(e) \/ Echo(e) \/ Finish(e) PROVE FALSE
  BY <1>6, <1>10 DEF Produce, Echo, Finish
<1>11. ASSUME NEW e \in Sessions, NEW c \in Clients, NEW r \in 1..MaxRevision,
              \/ Revoke(e, c, r)
              \/ \E n \in 1..MaxInputs : Input(e, c, r, n)
              \/ Resize(e, c, r)
              \/ Cancel(e, c, r)
       PROVE  FALSE
  BY <1>6, <1>11 DEF Revoke, Input, Resize, Cancel, Check
<1>12. \E e \in Sessions : RecordInput(e)
  BY <1>1, <1>7, <1>8, <1>9, <1>10, <1>11, Zenon DEF Next
<1> QED BY <1>2, <1>12

-----------------------------------------------------------------------------
(* The theorems.                                                            *)

\* Every reachable state is well typed; in particular no session keeps more
\* output than its limit.
THEOREM TerminalTypeOK == Spec => []TypeOK
<1>1. Inv => TypeOK
  BY DEF Inv
<1> QED BY <1>1, SpecInv, PTL

\* Manager and log agree on every session that runs, whatever commits fail.
THEOREM TerminalLogFollowsSession == Spec => []LogFollowsSession
<1>1. Inv => LogFollowsSession
  BY DEF Inv, SessionInv, Follows, LogFollowsSession
<1> QED BY <1>1, SpecInv, PTL

\* Every process that was not killed and has not ended is one the manager knows.
THEOREM TerminalNoOrphans == Spec => []NoOrphans
<1>1. Inv => NoOrphans
  BY DEF Inv, SessionInv, NoOrphans
<1> QED BY <1>1, SpecInv, PTL

\* An input is recorded only under the scope, the owner and the lease its session
\* was opened with.
THEOREM TerminalInputUnderAuthority == Spec => InputUnderAuthority
<1> DEFINE Sound ==
      \A s \in Sessions :
        record'[s].nextInput > record[s].nextInput =>
          Authorized(session[s].scope, session[s].owner, session[s].revision)
<1>1. Inv /\ [Next]_vars => [Sound]_vars
  <2> SUFFICES ASSUME Inv, Next, NEW s \in Sessions,
                      record'[s].nextInput > record[s].nextInput
               PROVE  Authorized(session[s].scope, session[s].owner, session[s].revision)
    BY Zenon
  <2>1. command.op = "written" /\ command.session = s
    BY InputsAreRecorded DEF RecordInput
  <2>2. InputInv(s)
    BY DEF Inv, SessionInv
  <2> QED BY <2>1, <2>2 DEF InputInv, Locked, About, SessionAuthorized
<1> QED BY <1>1, SpecInv, PTL DEF Spec, InputUnderAuthority
=============================================================================
