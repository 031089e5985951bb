-------------------------- MODULE LocalServerProofs --------------------------
(***************************************************************************)
(* Proofs about LocalServer for any operations, tasks and faults: types for *)
(* any servers and clients, what an answer means for clients that draw     *)
(* their keys at random, and what is not done twice for a single server.   *)
(***************************************************************************)
EXTENDS LocalServer, SequenceTheorems, TLAPS

\* With the types: an operation is numbered before a server works on it, and a
\* scope is proposed for the task that was created.
TypeInv ==
  /\ TypeOK
  /\ \A p \in Servers :
       /\ sequence[p] <= Len(ops)
       /\ work[p] # NoWork => work[p].op \in DOMAIN ops
       /\ work[p].phase = "propose" => work[p].task \in Tasks

-----------------------------------------------------------------------------
(* Lemmas about the pieces of the state.                                    *)

LEMMA Constants ==
  /\ MaxOps \in Nat /\ MaxTasks \in Nat /\ MaxEffects \in Nat /\ None \notin Nat
  /\ None \notin Tasks /\ Keys \subseteq Nat
  /\ Commands = Creates \cup Mutations /\ Creates \cap Mutations = {}
  BY LocalServerAssumptions DEF Tasks, Keys, Commands

LEMMA FreshIsSaved ==
  /\ Fresh \in Saved /\ Fresh.nextTask = 0
  /\ \A k \in Keys : Fresh.receipts[k] = NoReceipt
  BY Constants DEF Fresh, Saved

\* A receipt says who got what answer, which no receipt does not.
LEMMA ReceiptFields ==
  ASSUME NEW r \in Receipt
  PROVE  r # NoReceipt /\ r.digest \in Digest /\ r.status \in Status
  BY DEF Receipt, NoReceipt, Status

\* The command goes on to another phase, on its task.
Moved(w, phase, task) == [w EXCEPT !.phase = phase, !.task = task]

LEMMA WorkFields ==
  ASSUME NEW w \in Work
  PROVE  /\ w = NoWork <=> w.phase = "none"
         /\ w # NoWork => /\ w.phase \in {"create", "propose", "mutate", "accepted", "rejected"}
                          /\ w.op \in 1..MaxOps /\ w.digest \in Digest
                          /\ w.task \in Tasks \cup {None}
         /\ w # NoWork => \A phase \in {"propose", "accepted", "rejected"}, task \in Tasks \cup {None} :
              LET v == Moved(w, phase, task)
              IN /\ v \in Work /\ v # NoWork /\ v.phase = phase /\ v.task = task
                 /\ v.op = w.op /\ v.digest = w.digest
<1>1. CASE w = NoWork
  BY <1>1 DEF NoWork
<1>2. CASE w # NoWork
  <2>1. w \in [phase : {"create", "propose", "mutate", "accepted", "rejected"},
               op : 1..MaxOps, digest : Digest, task : Tasks \cup {None}]
    BY <1>2 DEF Work
  <2>2. ASSUME NEW phase \in {"propose", "accepted", "rejected"}, NEW task \in Tasks \cup {None}
        PROVE  LET v == Moved(w, phase, task)
               IN /\ v \in Work /\ v # NoWork /\ v.phase = phase /\ v.task = task
                  /\ v.op = w.op /\ v.digest = w.digest
    <3> DEFINE v == Moved(w, phase, task)
    <3>1. /\ v \in [phase : {"create", "propose", "mutate", "accepted", "rejected"},
                    op : 1..MaxOps, digest : Digest, task : Tasks \cup {None}]
          /\ v.phase = phase /\ v.task = task /\ v.op = w.op /\ v.digest = w.digest
      BY <2>1 DEF Moved
    <3> HIDE DEF v
    <3>2. v \in Work /\ v # NoWork
      BY <3>1 DEF Work, NoWork
    <3> QED BY <3>1, <3>2 DEF v
  <2> QED BY <1>2, <2>1, <2>2 DEF NoWork
<1> QED BY <1>1, <1>2

\* An answer is noted with its operation; what was asked for stays.
LEMMA AnsweredIs ==
  ASSUME NEW h \in Seq(Operation), NEW n \in DOMAIN h, NEW a \in Answers
  PROVE  LET g == Answered(h, n, a)
         IN /\ g \in Seq(Operation) /\ Len(g) = Len(h) /\ DOMAIN g = DOMAIN h
            /\ \A i \in DOMAIN h :
                 /\ g[i].key = h[i].key /\ g[i].command = h[i].command
                 /\ i = n => g[i].answers = h[i].answers \cup {a}
                 /\ i # n => g[i].answers = h[i].answers
<1> DEFINE op == [h[n] EXCEPT !.answers = @ \cup {a}]
           g == [h EXCEPT ![n] = op]
<1>1. DOMAIN h = 1..Len(h) /\ Len(h) \in Nat /\ h[n] \in Operation
  BY LenProperties, ElementOfSeq
<1>2. /\ op \in Operation /\ op.key = h[n].key /\ op.command = h[n].command
      /\ op.answers = h[n].answers \cup {a}
  BY <1>1 DEF Operation
<1>3. Answered(h, n, a) = g
  BY DEF Answered
<1> HIDE DEF op
<1>4. g \in Seq(Operation) /\ Len(g) = Len(h)
  BY <1>1, <1>2, ExceptSeq
<1>5. DOMAIN g = DOMAIN h /\ \A i \in DOMAIN h : g[i] = IF i = n THEN op ELSE h[i]
  BY <1>1
<1> QED BY <1>2, <1>3, <1>4, <1>5

LEMMA AppendIs ==
  ASSUME NEW S, NEW s \in Seq(S), NEW e \in S
  PROVE  /\ Append(s, e) \in Seq(S) /\ Len(Append(s, e)) = Len(s) + 1
         /\ Len(s) \in Nat /\ DOMAIN s = 1..Len(s)
         /\ DOMAIN Append(s, e) = 1..(Len(s) + 1)
         /\ \A i \in DOMAIN s : Append(s, e)[i] = s[i] /\ i \in DOMAIN Append(s, e)
         /\ Append(s, e)[Len(s) + 1] = e
  BY AppendProperties, LenProperties

\* What a server does with an operation it is given: it begins, or it answers from
\* a receipt.
Begins(p, n, h) ==
  /\ memory[p].receipts[h[n].key] = NoReceipt
  /\ ops' = h
  /\ \E new \in Work :
       /\ work' = [work EXCEPT ![p] = new]
       /\ new # NoWork /\ new.op = n /\ new.phase = FirstPhase(h[n].command)

Replays(p, n, h) ==
  \E a \in Answers :
    /\ ops' = Answered(h, n, a)
    /\ memory[p].receipts[h[n].key] # NoReceipt
    /\ a \in Status => memory[p].receipts[h[n].key].status = a
    /\ UNCHANGED work

LEMMA HandleIs ==
  ASSUME TypeOK, NEW p \in Servers, NEW h \in Seq(Operation), Len(h) <= MaxOps,
         NEW n \in DOMAIN h, Handle(p, n, h)
  PROVE  /\ Begins(p, n, h) \/ Replays(p, n, h)
         /\ ops' \in Seq(Operation) /\ Len(ops') = Len(h) /\ DOMAIN ops' = DOMAIN h
         /\ \A i \in DOMAIN h : ops'[i].key = h[i].key /\ ops'[i].command = h[i].command
<1> DEFINE op == h[n]
           task == Resolved(p, op.command, op.task)
           digest == [command |-> op.command, task |-> task]
           receipt == memory[p].receipts[op.key]
           new == [phase |-> FirstPhase(op.command), op |-> n, digest |-> digest,
                   task |-> digest.task]
<1>1. DOMAIN h = 1..Len(h) /\ Len(h) \in Nat /\ op \in Operation /\ n \in 1..MaxOps
  BY Constants, LenProperties, ElementOfSeq
<1>2. memory[p] \in Saved /\ receipt \in Receipt \cup {NoReceipt}
  BY <1>1 DEF TypeOK, Saved, Operation
<1>3. task \in Tasks \cup {None} /\ op.command \in Commands
  BY <1>1, <1>2 DEF Resolved, Saved, Operation
<1> HIDE DEF task
<1>4. digest \in Digest /\ digest.task = task
  BY <1>3 DEF Digest
<1> HIDE DEF digest
<1>5. new \in Work /\ new # NoWork /\ new.op = n /\ new.phase = FirstPhase(op.command)
  BY <1>1, <1>3, <1>4 DEF Work, NoWork, FirstPhase
<1>6. \/ receipt = NoReceipt /\ ops' = h /\ work' = [work EXCEPT ![p] = new]
      \/ receipt # NoReceipt /\ ops' = Answered(h, n, receipt.status) /\ UNCHANGED work
      \/ receipt # NoReceipt /\ ops' = Answered(h, n, "idempotency_conflict") /\ UNCHANGED work
  BY DEF Handle, digest, task
<1> HIDE DEF new
<1>7. CASE receipt = NoReceipt
  <2>1. ops' = h /\ work' = [work EXCEPT ![p] = new]
    BY <1>6, <1>7
  <2> QED BY <1>5, <1>7, <2>1 DEF Begins
<1>8. CASE receipt # NoReceipt
  <2>1. receipt.status \in Status
    BY <1>2, <1>8, ReceiptFields
  <2>2. PICK a \in Answers : /\ ops' = Answered(h, n, a)
                             /\ a \in Status => receipt.status = a
                             /\ UNCHANGED work
    BY <1>6, <1>8, <2>1 DEF Answers, Status
  <2> HIDE DEF receipt, op
  <2>3. Replays(p, n, h)
    <3>1. memory[p].receipts[h[n].key] = receipt
      BY DEF receipt, op
    <3> QED BY <1>8, <2>2, <3>1, Zenon DEF Replays
  <2>4. /\ ops' \in Seq(Operation) /\ Len(ops') = Len(h) /\ DOMAIN ops' = DOMAIN h
        /\ \A i \in DOMAIN h : ops'[i].key = h[i].key /\ ops'[i].command = h[i].command
    BY <2>2, AnsweredIs
  <2> QED BY <2>3, <2>4
<1> QED BY <1>7, <1>8

Kinds == {"created", "proposed", "mutated"}

Phases == {"propose", "accepted"}

EffectOf(p, kind, task) == [op |-> work[p].op, kind |-> kind, task |-> task]

\* What a commit of the command of p may come to.
LEMMA CommitsIs ==
  ASSUME TypeInv, NEW p \in Servers, work[p] # NoWork, NEW kind \in Kinds,
         NEW task \in Tasks, NEW next \in Phases, Commits(p, kind, task, next)
  PROVE  /\ effects' \in Seq(Effect)
         /\ \/ effects' = Append(effects, EffectOf(p, kind, task))
            \/ effects' = effects /\ work'[p].phase # next
         /\ work' \in [Servers -> Work]
         /\ \A q \in Servers : q # p => work'[q] = work[q]
         /\ work'[p] # NoWork /\ work'[p].op = work[p].op /\ work'[p].digest = work[p].digest
         /\ work'[p].task = task /\ work'[p].phase \in {next, "rejected"}
<1> DEFINE e == EffectOf(p, kind, task)
<1>1. /\ work \in [Servers -> Work] /\ work[p] \in Work /\ effects \in Seq(Effect)
      /\ task \in Tasks \cup {None}
  BY DEF TypeInv, TypeOK
<1>2. PICK phase \in {next, "rejected"} :
        /\ work' = [work EXCEPT ![p] = [work[p] EXCEPT !.phase = phase, !.task = task]]
        /\ effects' = Append(effects, e) \/ (effects' = effects /\ phase = "rejected")
  BY DEF Commits, Done, EffectOf
<1> DEFINE v == Moved(work[p], phase, task)
<1>3. /\ v \in Work /\ v # NoWork /\ v.phase = phase /\ v.task = task
      /\ v.op = work[p].op /\ v.digest = work[p].digest
  <2>1. phase \in {"propose", "accepted", "rejected"}
    BY DEF Phases
  <2> QED BY <1>1, <2>1, WorkFields
<1>4. work' = [work EXCEPT ![p] = v]
  BY <1>2 DEF Moved
<1> HIDE DEF v
<1>5. /\ work' \in [Servers -> Work] /\ work'[p] = v
      /\ \A q \in Servers : q # p => work'[q] = work[q]
  BY <1>1, <1>3, <1>4
<1>6. e \in Effect
  BY <1>1, WorkFields DEF Effect, EffectOf, Kinds
<1> HIDE DEF e
<1>7. effects' \in Seq(Effect)
  BY <1>1, <1>2, <1>6, AppendIs
<1>8. \/ effects' = Append(effects, e)
      \/ effects' = effects /\ work'[p].phase # next
  BY <1>2, <1>3, <1>5 DEF Phases
<1> QED BY <1>3, <1>5, <1>7, <1>8 DEF e

\* The state that is saved with the answer of p.
LEMMA WithReceiptIs ==
  ASSUME TypeInv, NEW p \in Servers, Finished(p)
  PROVE  /\ WithReceipt(p) \in Saved /\ WithReceipt(p).nextTask = memory[p].nextTask
         /\ work[p] # NoWork /\ work[p].op \in DOMAIN ops
         /\ ops[work[p].op].key \in Keys
         /\ \A k \in Keys : LET r == WithReceipt(p).receipts[k] IN
              IF k = ops[work[p].op].key THEN r # NoReceipt /\ r.status = work[p].phase
              ELSE r = memory[p].receipts[k]
<1> DEFINE key == ops[work[p].op].key
           r == [digest |-> work[p].digest, status |-> work[p].phase]
           receipts == [memory[p].receipts EXCEPT ![key] = r]
<1>1. /\ work[p] \in Work /\ work[p] # NoWork /\ work[p].phase \in Status
      /\ memory[p] \in Saved /\ ops \in Seq(Operation)
  BY DEF TypeInv, TypeOK, Finished, NoWork, Status
<1>2. work[p].op \in DOMAIN ops /\ work[p].digest \in Digest
  BY <1>1, WorkFields DEF TypeInv
<1>3. key \in Keys
  <2>1. \A n \in DOMAIN ops : ops[n] \in Operation
    BY <1>1, LenProperties, ElementOfSeq
  <2> QED BY <1>2, <2>1 DEF Operation
<1>4. r \in Receipt /\ r # NoReceipt /\ r.status = work[p].phase
  BY <1>1, <1>2, ReceiptFields DEF Receipt
<1>5. memory[p].receipts \in [Keys -> Receipt \cup {NoReceipt}]
  BY <1>1 DEF Saved
<1> HIDE DEF r, key
<1>6. /\ receipts \in [Keys -> Receipt \cup {NoReceipt}]
      /\ \A k \in Keys : receipts[k] = IF k = key THEN r ELSE memory[p].receipts[k]
  BY <1>3, <1>4, <1>5
<1>7. WithReceipt(p) = [memory[p] EXCEPT !.receipts = receipts]
  BY DEF WithReceipt, key, r
<1> HIDE DEF receipts
<1>8. /\ WithReceipt(p) \in Saved /\ WithReceipt(p).nextTask = memory[p].nextTask
      /\ WithReceipt(p).receipts = receipts
  BY <1>1, <1>6, <1>7 DEF Saved
<1> QED BY <1>1, <1>2, <1>3, <1>4, <1>6, <1>8 DEF key

LEMMA AnswerIs ==
  ASSUME TypeInv, NEW p \in Servers, work[p] # NoWork, NEW a \in Answers, Answer(p, a)
  PROVE  /\ ops' \in Seq(Operation) /\ Len(ops') = Len(ops) /\ DOMAIN ops' = DOMAIN ops
         /\ \A i \in DOMAIN ops :
              /\ ops'[i].key = ops[i].key /\ ops'[i].command = ops[i].command
              /\ i = work[p].op => ops'[i].answers = ops[i].answers \cup {a}
              /\ i # work[p].op => ops'[i].answers = ops[i].answers
         /\ work' \in [Servers -> Work] /\ work'[p] = NoWork
         /\ \A q \in Servers : q # p => work'[q] = work[q]
<1>1. /\ ops \in Seq(Operation) /\ work[p].op \in DOMAIN ops /\ work \in [Servers -> Work]
      /\ ops' = Answered(ops, work[p].op, a) /\ work' = [work EXCEPT ![p] = NoWork]
      /\ NoWork \in Work
  BY DEF TypeInv, TypeOK, Answer, Work
<1>2. /\ work' \in [Servers -> Work] /\ work'[p] = NoWork
      /\ \A q \in Servers : q # p => work'[q] = work[q]
  BY <1>1
<1>3. PICK n \in DOMAIN ops : n = work[p].op
  BY <1>1
<1>4. ops' = Answered(ops, n, a)
  BY <1>1, <1>3
<1>5. /\ ops' \in Seq(Operation) /\ Len(ops') = Len(ops) /\ DOMAIN ops' = DOMAIN ops
      /\ \A i \in DOMAIN ops :
           /\ ops'[i].key = ops[i].key /\ ops'[i].command = ops[i].command
           /\ i = n => ops'[i].answers = ops[i].answers \cup {a}
           /\ i # n => ops'[i].answers = ops[i].answers
  BY <1>1, <1>4, AnsweredIs
<1> QED BY <1>2, <1>3, <1>5

\* A new operation is appended, and handled.
LEMMA IssueIs ==
  ASSUME TypeInv, NEW p \in Servers, NEW command \in Commands, NEW task \in Tasks \cup {None},
         Issue(p, command, task)
  PROVE  \E op \in Operation :
           LET h == Append(ops, op) IN
           /\ op.command = command /\ op.answers = {}
           /\ ~KeysPerLaunch => op.key = Len(ops) + 1
           /\ h \in Seq(Operation) /\ Len(h) = Len(ops) + 1 /\ Len(h) <= MaxOps
           /\ DOMAIN h = 1..(Len(ops) + 1) /\ Len(ops) + 1 \in DOMAIN h
           /\ DOMAIN ops = 1..Len(ops) /\ Len(ops) \in Nat
           /\ \A i \in DOMAIN ops : h[i] = ops[i] /\ i \in DOMAIN h
           /\ h[Len(ops) + 1] = op
           /\ Handle(p, Len(ops) + 1, h)
           /\ sequence' = [sequence EXCEPT ![p] = sequence[p] + 1]
           /\ Free(p) /\ UNCHANGED <<file, up, memory, effects>>
<1> DEFINE key == IF KeysPerLaunch THEN sequence[p] + 1 ELSE Len(ops) + 1
           op == [key |-> key, command |-> command, task |-> task, answers |-> {}]
<1>1. /\ ops \in Seq(Operation) /\ Len(ops) \in Nat /\ Len(ops) < MaxOps /\ sequence[p] \in 0..MaxOps
      /\ sequence[p] <= Len(ops)
  BY LenProperties DEF TypeInv, TypeOK, Issue
<1>2. key \in Keys
  BY <1>1, Constants DEF Keys
<1>3. op \in Operation /\ op.command = command /\ op.answers = {} /\ op.key = key
  BY <1>2 DEF Operation
<1>4. /\ Handle(p, Len(ops) + 1, Append(ops, op)) /\ Free(p)
      /\ sequence' = [sequence EXCEPT ![p] = sequence[p] + 1]
      /\ UNCHANGED <<file, up, memory, effects>>
  BY DEF Issue
<1> HIDE DEF op
<1>5. /\ Append(ops, op) \in Seq(Operation) /\ Len(Append(ops, op)) = Len(ops) + 1
      /\ DOMAIN Append(ops, op) = 1..(Len(ops) + 1) /\ DOMAIN ops = 1..Len(ops)
      /\ \A i \in DOMAIN ops : Append(ops, op)[i] = ops[i] /\ i \in DOMAIN Append(ops, op)
      /\ Append(ops, op)[Len(ops) + 1] = op
  BY <1>1, <1>3, AppendIs
<1>6. Len(Append(ops, op)) <= MaxOps /\ Len(ops) + 1 \in DOMAIN Append(ops, op)
  BY <1>1, <1>5, Constants
<1> QED BY <1>1, <1>3, <1>4, <1>5, <1>6

-----------------------------------------------------------------------------
(* Types.                                                                   *)

LEMMA TypeInit == Init => TypeInv
<1> SUFFICES ASSUME Init PROVE TypeInv
  OBVIOUS
<1>1. /\ ops \in Seq(Operation) /\ Len(ops) = 0 /\ effects \in Seq(Effect)
  BY EmptySeq DEF Init
<1>2. NoWork \in Work /\ NoWork.phase = "none"
  BY DEF Work, NoWork
<1>3. \A p \in Servers : sequence[p] = 0 /\ work[p] = NoWork
  BY DEF Init
<1>4. TypeOK
  BY <1>1, <1>2, Constants, FreshIsSaved DEF Init, TypeOK
<1> QED BY <1>1, <1>2, <1>3, <1>4 DEF TypeInv

LEMMA HandleTypes ==
  ASSUME TypeInv, NEW p \in Servers, NEW h \in Seq(Operation), Len(ops) <= Len(h),
         Len(h) <= MaxOps, DOMAIN ops \subseteq DOMAIN h, NEW n \in DOMAIN h, Handle(p, n, h)
  PROVE  /\ work' \in [Servers -> Work]
         /\ \A q \in Servers : /\ q # p => work'[q] = work[q]
                               /\ work'[q] # NoWork => work'[q].op \in DOMAIN ops'
                               /\ work'[q].phase = "propose" => work'[q].task \in Tasks
         /\ \/ Begins(p, n, h) /\ work'[p] # NoWork /\ work'[p].op = n
               /\ work'[p].phase = FirstPhase(h[n].command)
            \/ Replays(p, n, h) /\ work' = work
<1>1. /\ Begins(p, n, h) \/ Replays(p, n, h)
      /\ DOMAIN ops' = DOMAIN h /\ work \in [Servers -> Work]
  BY HandleIs DEF TypeInv, TypeOK
<1>2. CASE Begins(p, n, h)
  <2>1. PICK new \in Work : /\ work' = [work EXCEPT ![p] = new]
                            /\ new # NoWork /\ new.op = n
                            /\ new.phase = FirstPhase(h[n].command)
    BY <1>2 DEF Begins
  <2>2. /\ work' \in [Servers -> Work] /\ work'[p] = new
        /\ \A q \in Servers : q # p => work'[q] = work[q]
    BY <1>1, <2>1
  <2>3. new.phase # "propose"
    BY <2>1 DEF FirstPhase
  <2> QED BY <1>1, <1>2, <2>1, <2>2, <2>3 DEF TypeInv
<1>3. CASE Replays(p, n, h)
  <2>1. work' = work
    BY <1>3 DEF Replays
  <2> QED BY <1>1, <1>3, <2>1 DEF TypeInv
<1> QED BY <1>1, <1>2, <1>3

LEMMA IssueTypes ==
  ASSUME TypeInv, NEW p \in Servers, NEW command \in Commands, NEW task \in Tasks \cup {None},
         Issue(p, command, task)
  PROVE  TypeInv'
<1> DEFINE n == Len(ops) + 1
<1>1. PICK op \in Operation :
        LET h == Append(ops, op) IN
        /\ h \in Seq(Operation) /\ Len(h) = n /\ Len(h) <= MaxOps
        /\ n \in DOMAIN h /\ Len(ops) \in Nat
        /\ \A i \in DOMAIN ops : i \in DOMAIN h
        /\ Handle(p, n, h)
        /\ sequence' = [sequence EXCEPT ![p] = sequence[p] + 1]
        /\ UNCHANGED <<file, up, memory, effects>>
  BY IssueIs
<1> DEFINE h == Append(ops, op)
<1>2. /\ h \in Seq(Operation) /\ Len(ops) <= Len(h) /\ Len(h) <= MaxOps
      /\ DOMAIN ops \subseteq DOMAIN h /\ n \in DOMAIN h /\ Handle(p, n, h)
      /\ Len(h) = Len(ops) + 1 /\ Len(ops) \in Nat
  BY <1>1
<1> HIDE DEF h, n
<1>3. /\ work' \in [Servers -> Work]
      /\ \A q \in Servers : /\ work'[q] # NoWork => work'[q].op \in DOMAIN ops'
                            /\ work'[q].phase = "propose" => work'[q].task \in Tasks
  BY <1>2, HandleTypes
<1>4. ops' \in Seq(Operation) /\ Len(ops') = Len(h)
  BY <1>2, HandleIs DEF TypeInv
<1>5. /\ sequence \in [Servers -> 0..MaxOps] /\ \A q \in Servers : sequence[q] <= Len(ops)
      /\ sequence' = [sequence EXCEPT ![p] = sequence[p] + 1]
  BY <1>1 DEF TypeInv, TypeOK
<1>6. \A q \in Servers : sequence'[q] \in 0..MaxOps /\ sequence'[q] <= Len(ops')
  BY <1>2, <1>4, <1>5, Constants
<1>7. sequence' \in [Servers -> 0..MaxOps]
  BY <1>5, <1>6
<1>8. TypeOK'
  BY <1>1, <1>2, <1>3, <1>4, <1>7 DEF TypeInv, TypeOK
<1> QED BY <1>3, <1>6, <1>8 DEF TypeInv

LEMMA RetryTypes ==
  ASSUME TypeInv, NEW p \in Servers, NEW n \in DOMAIN ops, Retry(p, n)
  PROVE  TypeInv'
<1>1. /\ ops \in Seq(Operation) /\ Len(ops) \in Nat /\ Len(ops) <= MaxOps /\ Handle(p, n, ops)
      /\ UNCHANGED <<file, up, memory, sequence, effects>>
  BY LenProperties DEF TypeInv, TypeOK, Retry
<1>2. ops' \in Seq(Operation) /\ Len(ops') = Len(ops)
  BY <1>1, HandleIs DEF TypeInv
<1>3. /\ work' \in [Servers -> Work]
      /\ \A q \in Servers : /\ work'[q] # NoWork => work'[q].op \in DOMAIN ops'
                            /\ work'[q].phase = "propose" => work'[q].task \in Tasks
  BY <1>1, HandleTypes
<1> QED BY <1>1, <1>2, <1>3 DEF TypeInv, TypeOK

\* A step of the dispatch: what it does to memory is typed apart.
LEMMA CommitTypes ==
  ASSUME TypeInv, NEW p \in Servers, work[p] # NoWork, NEW kind \in Kinds,
         NEW task \in Tasks, NEW next \in Phases, Commits(p, kind, task, next),
         UNCHANGED <<file, up, sequence, ops>>, memory' \in [Servers -> Saved]
  PROVE  TypeInv'
<1>1. /\ effects' \in Seq(Effect) /\ work' \in [Servers -> Work]
      /\ \A q \in Servers : q # p => work'[q] = work[q]
      /\ work'[p].op = work[p].op /\ work'[p].task = task
  BY CommitsIs
<1>2. TypeOK'
  BY <1>1 DEF TypeInv, TypeOK
<1>3. \A q \in Servers : /\ work'[q] # NoWork => work'[q].op \in DOMAIN ops
                         /\ work'[q].phase = "propose" => work'[q].task \in Tasks
  BY <1>1 DEF TypeInv
<1> QED BY <1>2, <1>3 DEF TypeInv

LEMMA BusyIsWork ==
  ASSUME TypeInv, NEW p \in Servers
  PROVE  work[p].phase # "none" <=> work[p] # NoWork
  BY WorkFields DEF TypeInv, TypeOK

LEMMA NextTaskIs ==
  ASSUME TypeInv, NEW p \in Servers, memory[p].nextTask < MaxTasks, memory' = NextTask(p)
  PROVE  /\ memory' \in [Servers -> Saved] /\ memory[p].nextTask + 1 \in Tasks
         /\ \A q \in Servers : q # p => memory'[q] = memory[q]
         /\ memory'[p].nextTask = memory[p].nextTask + 1
         /\ memory'[p].receipts = memory[p].receipts
<1>1. memory \in [Servers -> Saved] /\ memory[p].nextTask \in 0..MaxTasks
  BY DEF TypeInv, TypeOK, Saved
<1>2. memory[p].nextTask + 1 \in 0..MaxTasks /\ memory[p].nextTask + 1 \in Tasks
  BY <1>1, Constants DEF Tasks
<1> DEFINE s == [memory[p] EXCEPT !.nextTask = memory[p].nextTask + 1]
<1>3. s \in Saved /\ s.nextTask = memory[p].nextTask + 1 /\ s.receipts = memory[p].receipts
  <2> DEFINE m == memory[p].nextTask + 1
  <2>1. m \in 0..MaxTasks /\ memory[p] \in Saved
    BY <1>1, <1>2
  <2> HIDE DEF m
  <2>2. LET r == [memory[p] EXCEPT !.nextTask = m]
        IN r \in Saved /\ r.nextTask = m /\ r.receipts = memory[p].receipts
    BY <2>1 DEF Saved
  <2> QED BY <2>2 DEF m
<1>4. memory' = [memory EXCEPT ![p] = s]
  BY DEF NextTask
<1> HIDE DEF s
<1> QED BY <1>1, <1>2, <1>3, <1>4

LEMMA ActiveIs ==
  ASSUME TypeInv, NEW p \in Servers, NEW task \in Tasks \cup {None},
         memory' = [memory EXCEPT ![p].active = task]
  PROVE  /\ memory' \in [Servers -> Saved]
         /\ \A q \in Servers : q # p => memory'[q] = memory[q]
         /\ memory'[p].nextTask = memory[p].nextTask
         /\ memory'[p].receipts = memory[p].receipts
<1> DEFINE s == [memory[p] EXCEPT !.active = task]
<1>1. memory \in [Servers -> Saved] /\ memory' = [memory EXCEPT ![p] = s]
  BY DEF TypeInv, TypeOK
<1>2. s \in Saved /\ s.nextTask = memory[p].nextTask /\ s.receipts = memory[p].receipts
  BY <1>1 DEF Saved
<1> HIDE DEF s
<1> QED BY <1>1, <1>2

\* The three steps of a dispatch.
LEMMA CreateTaskIs ==
  ASSUME TypeInv, NEW p \in Servers, CreateTask(p)
  PROVE  /\ work[p] # NoWork /\ work[p].phase = "create" /\ memory' = NextTask(p)
         /\ memory[p].nextTask < MaxTasks /\ UNCHANGED <<file, up, sequence, ops>>
         /\ memory[p].nextTask + 1 \in Tasks
         /\ Commits(p, "created", memory[p].nextTask + 1, "propose")
  BY NextTaskIs, BusyIsWork DEF CreateTask

LEMMA ProposeScopeIs ==
  ASSUME TypeInv, NEW p \in Servers, ProposeScope(p)
  PROVE  /\ work[p] # NoWork /\ work[p].phase = "propose" /\ work[p].task \in Tasks
         /\ UNCHANGED <<file, up, sequence, ops>>
         /\ Commits(p, "proposed", work[p].task, "accepted")
         /\ \E active \in Tasks \cup {None} : memory' = [memory EXCEPT ![p].active = active]
<1>1. /\ work[p].phase = "propose" /\ work[p].task \in Tasks /\ work[p] # NoWork
      /\ memory[p].active \in Tasks \cup {None}
  BY BusyIsWork DEF ProposeScope, TypeInv, TypeOK, Saved
<1> DEFINE active == IF work'[p].phase = "accepted" THEN work[p].task ELSE memory[p].active
<1>2. active \in Tasks \cup {None} /\ memory' = [memory EXCEPT ![p].active = active]
  BY <1>1 DEF ProposeScope
<1> HIDE DEF active
<1>3. \E a \in Tasks \cup {None} : memory' = [memory EXCEPT ![p].active = a]
  BY <1>2
<1> QED BY <1>1, <1>3 DEF ProposeScope

LEMMA MutateIs ==
  ASSUME TypeInv, NEW p \in Servers, Mutate(p)
  PROVE  /\ work[p] # NoWork /\ work[p].phase = "mutate"
         /\ UNCHANGED <<file, up, memory, sequence, ops>>
         /\ \/ work[p].task \in Tasks /\ Commits(p, "mutated", work[p].task, "accepted")
            \/ /\ UNCHANGED effects
               /\ work' \in [Servers -> Work]
               /\ \A q \in Servers : q # p => work'[q] = work[q]
               /\ work'[p] # NoWork /\ work'[p].op = work[p].op /\ work'[p].phase = "rejected"
<1>1. work[p].phase = "mutate" /\ work[p] # NoWork /\ work[p] \in Work /\ work \in [Servers -> Work]
  BY BusyIsWork DEF Mutate, TypeInv, TypeOK
<1>2. work[p].task \in Tasks \cup {None}
  BY <1>1, WorkFields
<1>3. CASE work[p].task = None
  <2> DEFINE v == Moved(work[p], "rejected", work[p].task)
  <2>1. v \in Work /\ v # NoWork /\ v.op = work[p].op /\ v.phase = "rejected"
    BY <1>1, <1>2, WorkFields
  <2>2. v = [work[p] EXCEPT !.phase = "rejected"]
    <3>1. work[p] \in [phase : {"create", "propose", "mutate", "accepted", "rejected"},
                       op : 1..MaxOps, digest : Digest, task : Tasks \cup {None}]
      BY <1>1 DEF Work
    <3> QED BY <3>1 DEF Moved
  <2>3. work' = [work EXCEPT ![p] = v] /\ UNCHANGED effects
    BY <1>3, <2>2 DEF Mutate
  <2> HIDE DEF v
  <2>4. work' \in [Servers -> Work] /\ work'[p] = v /\ \A q \in Servers : q # p => work'[q] = work[q]
    BY <1>1, <2>1, <2>3
  <2> QED BY <1>1, <2>1, <2>3, <2>4 DEF Mutate
<1>4. CASE work[p].task # None
  BY <1>1, <1>2, <1>4 DEF Mutate
<1> QED BY <1>3, <1>4

\* The answer, with the file written or not and the receipt kept or taken back.
LEMMA SaveIs ==
  ASSUME TypeInv, NEW p \in Servers, SaveState(p) \/ SaveFails(p)
  PROVE  /\ Finished(p) /\ work[p] # NoWork /\ UNCHANGED <<up, sequence, effects>>
         /\ file' \in {file, WithReceipt(p)} /\ file' \in Saved
         /\ memory' \in [Servers -> Saved]
         /\ \A q \in Servers : q # p => memory'[q] = memory[q]
         /\ \E a \in Answers :
              /\ Answer(p, a)
              /\ \/ /\ a = work[p].phase /\ a \in Status
                    /\ file' = WithReceipt(p) /\ memory'[p] = WithReceipt(p)
                 \/ a \notin Status /\ memory'[p] = memory[p]
<1>1. Finished(p) /\ work[p].phase \in Status
  BY DEF SaveState, SaveFails, Finished
<1>2. /\ WithReceipt(p) \in Saved /\ work[p] # NoWork /\ memory \in [Servers -> Saved]
      /\ file \in Saved
  BY <1>1, WithReceiptIs DEF TypeInv, TypeOK
<1> DEFINE s == WithReceipt(p)
<1>3. CASE SaveState(p)
  <2>1. /\ file' = s /\ memory' = [memory EXCEPT ![p] = s] /\ Answer(p, work[p].phase)
    BY <1>3 DEF SaveState
  <2> HIDE DEF s
  <2>2. /\ memory' \in [Servers -> Saved] /\ memory'[p] = s
        /\ \A q \in Servers : q # p => memory'[q] = memory[q]
    BY <1>2, <2>1 DEF s
  <2>3. UNCHANGED <<up, sequence, effects>> /\ work[p].phase \in Answers
    BY <1>1, <2>1 DEF Answer, Answers
  <2> QED BY <1>1, <1>2, <2>1, <2>2, <2>3 DEF s
<1>4. CASE SaveFails(p)
  <2>1. /\ file' \in {file, s} /\ memory' = memory /\ Answer(p, "persistence_failed")
    BY <1>4 DEF SaveFails
  <2>2. "persistence_failed" \in Answers /\ "persistence_failed" \notin Status
    BY DEF Answers, Status
  <2>3. UNCHANGED <<up, sequence, effects>>
    BY <2>1 DEF Answer
  <2> HIDE DEF s
  <2> QED BY <1>1, <1>2, <2>1, <2>2, <2>3 DEF s
<1> QED BY <1>3, <1>4

LEMMA SaveTypes ==
  ASSUME TypeInv, NEW p \in Servers, SaveState(p) \/ SaveFails(p)
  PROVE  TypeInv'
<1>1. /\ work[p] # NoWork /\ UNCHANGED <<up, sequence, effects>>
      /\ file' \in Saved /\ memory' \in [Servers -> Saved]
      /\ \E a \in Answers : Answer(p, a)
  BY SaveIs
<1>2. PICK a \in Answers : Answer(p, a)
  BY <1>1
<1>3. /\ ops' \in Seq(Operation) /\ Len(ops') = Len(ops) /\ DOMAIN ops' = DOMAIN ops
      /\ work' \in [Servers -> Work] /\ work'[p] = NoWork
      /\ \A q \in Servers : q # p => work'[q] = work[q]
  BY <1>1, <1>2, AnswerIs
<1>4. TypeOK'
  BY <1>1, <1>3 DEF TypeInv, TypeOK
<1> QED BY <1>1, <1>3, <1>4 DEF TypeInv, NoWork

LEMMA ExitIs ==
  ASSUME TypeInv, NEW p \in Servers, Exit(p)
  PROVE  /\ up' \in [Servers -> BOOLEAN] /\ memory' \in [Servers -> Saved]
         /\ work' \in [Servers -> Work] /\ sequence' \in [Servers -> 0..MaxOps]
         /\ work'[p] = NoWork /\ memory'[p] = Fresh /\ sequence'[p] = 0 /\ ~up'[p]
         /\ \A q \in Servers : q # p => /\ work'[q] = work[q] /\ memory'[q] = memory[q]
                                        /\ sequence'[q] = sequence[q] /\ up'[q] = up[q]
         /\ UNCHANGED <<file, ops, effects>>
<1>1. /\ NoWork \in Work /\ 0 \in 0..MaxOps
      /\ Fresh \in Saved
  BY Constants, FreshIsSaved DEF Work
<1>2. /\ up \in [Servers -> BOOLEAN] /\ memory \in [Servers -> Saved]
      /\ work \in [Servers -> Work] /\ sequence \in [Servers -> 0..MaxOps]
  BY DEF TypeInv, TypeOK
<1>3. /\ up' = [up EXCEPT ![p] = FALSE] /\ memory' = [memory EXCEPT ![p] = Fresh]
      /\ work' = [work EXCEPT ![p] = NoWork] /\ sequence' = [sequence EXCEPT ![p] = 0]
      /\ UNCHANGED <<file, ops, effects>>
  BY DEF Exit
<1>4. up' \in [Servers -> BOOLEAN] /\ ~up'[p] /\ \A q \in Servers : q # p => up'[q] = up[q]
  BY <1>2, <1>3
<1> QED BY <1>1, <1>2, <1>3, <1>4

LEMMA StartIs ==
  ASSUME TypeInv, NEW p \in Servers, Start(p)
  PROVE  /\ ~up[p] /\ up' \in [Servers -> BOOLEAN] /\ memory' \in [Servers -> Saved]
         /\ memory'[p] = file
         /\ \A q \in Servers : q # p => memory'[q] = memory[q] /\ up'[q] = up[q]
         /\ UNCHANGED <<file, work, sequence, ops, effects>>
<1>1. /\ up \in [Servers -> BOOLEAN] /\ memory \in [Servers -> Saved] /\ file \in Saved
      /\ up' = [up EXCEPT ![p] = TRUE] /\ memory' = [memory EXCEPT ![p] = file]
      /\ ~up[p] /\ UNCHANGED <<file, work, sequence, ops, effects>>
  BY DEF TypeInv, TypeOK, Start, Loaded
<1>2. up' \in [Servers -> BOOLEAN] /\ \A q \in Servers : q # p => up'[q] = up[q]
  BY <1>1
<1> QED BY <1>1, <1>2

LEMMA TypeNext == TypeInv /\ [Next]_vars => TypeInv'
<1> SUFFICES ASSUME TypeInv, [Next]_vars PROVE TypeInv'
  OBVIOUS
<1>1. ASSUME NEW p \in Servers, Start(p) PROVE TypeInv'
  BY <1>1, StartIs DEF TypeInv, TypeOK
<1>2. ASSUME NEW p \in Servers, Exit(p) PROVE TypeInv'
  <2>1. Len(ops) \in Nat
    BY LenProperties DEF TypeInv, TypeOK
  <2>2. TypeOK'
    BY <1>2, ExitIs DEF TypeInv, TypeOK
  <2> QED BY <1>2, <2>1, <2>2, ExitIs DEF TypeInv, NoWork
<1>3. ASSUME NEW p \in Servers, CreateTask(p) PROVE TypeInv'
  <2>1. memory' \in [Servers -> Saved]
    BY <1>3, CreateTaskIs, NextTaskIs
  <2>2. "created" \in Kinds /\ "propose" \in Phases
    BY DEF Kinds, Phases
  <2>3. PICK task \in Tasks : task = memory[p].nextTask + 1
    BY <1>3, CreateTaskIs
  <2>4. Commits(p, "created", task, "propose")
    BY <1>3, <2>3, CreateTaskIs
  <2> QED BY <1>3, <2>1, <2>2, <2>4, CreateTaskIs, CommitTypes
<1>4. ASSUME NEW p \in Servers, ProposeScope(p) PROVE TypeInv'
  <2>1. memory' \in [Servers -> Saved]
    BY <1>4, ProposeScopeIs, ActiveIs
  <2>2. "proposed" \in Kinds /\ "accepted" \in Phases
    BY DEF Kinds, Phases
  <2>3. PICK task \in Tasks : task = work[p].task
    BY <1>4, ProposeScopeIs
  <2>4. Commits(p, "proposed", task, "accepted")
    BY <1>4, <2>3, ProposeScopeIs
  <2> QED BY <1>4, <2>1, <2>2, <2>4, ProposeScopeIs, CommitTypes
<1>5. ASSUME NEW p \in Servers, Mutate(p) PROVE TypeInv'
  <2>1. memory' \in [Servers -> Saved] /\ UNCHANGED <<file, up, memory, sequence, ops>>
    BY <1>5, MutateIs DEF TypeInv, TypeOK
  <2>2. CASE work[p].task \in Tasks /\ Commits(p, "mutated", work[p].task, "accepted")
    <3>1. "mutated" \in Kinds /\ "accepted" \in Phases
      BY DEF Kinds, Phases
    <3>2. PICK task \in Tasks : task = work[p].task
      BY <2>2
    <3>3. Commits(p, "mutated", task, "accepted")
      BY <2>2, <3>2
    <3> QED BY <1>5, <2>1, <3>1, <3>3, MutateIs, CommitTypes
  <2>3. CASE /\ UNCHANGED effects
             /\ work' \in [Servers -> Work]
             /\ \A q \in Servers : q # p => work'[q] = work[q]
             /\ work'[p] # NoWork /\ work'[p].op = work[p].op /\ work'[p].phase = "rejected"
    <3>1. work[p] # NoWork
      BY <1>5, MutateIs
    <3>2. TypeOK'
      BY <2>1, <2>3 DEF TypeInv, TypeOK
    <3> QED BY <2>1, <2>3, <3>1, <3>2 DEF TypeInv
  <2> QED BY <1>5, <2>2, <2>3, MutateIs
<1>6. CASE UNCHANGED vars
  BY <1>6 DEF vars, TypeInv, TypeOK
<1> QED BY <1>1, <1>2, <1>3, <1>4, <1>5, <1>6, IssueTypes, RetryTypes, SaveTypes DEF Next

LEMMA TypeInvariant == Spec => []TypeInv
  BY TypeInit, TypeNext, PTL DEF Spec

\* The state file, the memory of every server, the commands in progress and the
\* committed events keep their types: no operation or task exceeds its bounds.
THEOREM ServerTypeOK == Spec => []TypeOK
<1>1. TypeInv => TypeOK
  BY DEF TypeInv
<1> QED BY <1>1, TypeInvariant, PTL

-----------------------------------------------------------------------------
(* What an answer means, for clients that draw their keys at random.        *)

Executed(n) ==
  IF ops[n].command \in Creates THEN Has(n, "created") /\ Has(n, "proposed")
  ELSE Has(n, "mutated")

\* The receipts of a state are those of operations, and true.
Truthful(s) ==
  \A k \in Keys : s.receipts[k] # NoReceipt =>
    k \in DOMAIN ops /\ (s.receipts[k].status = "accepted" => Executed(k))

\* A command that is accepted has done all it has to do.
InOrder(p) ==
  LET w == work[p] IN
  w # NoWork =>
    /\ w.phase \in {"create", "propose"} => ops[w.op].command \in Creates
    /\ w.phase = "propose" => Has(w.op, "created")
    /\ w.phase = "mutate" => ops[w.op].command \notin Creates
    /\ w.phase = "accepted" => Executed(w.op)

AnswerInv ==
  /\ \A n \in DOMAIN ops : ops[n].key = n
  /\ Truthful(file)
  /\ \A p \in Servers : Truthful(memory[p]) /\ InOrder(p)
  /\ AcceptedMeansExecuted

\* Operations and effects only come to be.
Grows ==
  /\ DOMAIN ops \subseteq DOMAIN ops'
  /\ \A n \in DOMAIN ops : ops'[n].command = ops[n].command
  /\ effects' = effects \/ \E e \in Effect : effects' = Append(effects, e)

LEMMA GrowsKeeps ==
  ASSUME TypeInv, Grows
  PROVE  /\ \A n, kind : Has(n, kind) => Has(n, kind)'
         /\ \A n \in DOMAIN ops : Executed(n) => Executed(n)'
         /\ \A s : Truthful(s) => Truthful(s)'
<1>1. \A i \in DOMAIN effects : i \in DOMAIN effects' /\ effects'[i] = effects[i]
  <2>1. CASE effects' = effects
    BY <2>1
  <2>2. ASSUME NEW e \in Effect, effects' = Append(effects, e)
        PROVE  \A i \in DOMAIN effects : i \in DOMAIN effects' /\ effects'[i] = effects[i]
    BY <2>2, AppendIs DEF TypeInv, TypeOK
  <2> QED BY <2>1, <2>2 DEF Grows
<1>2. \A n, kind : Has(n, kind) => Has(n, kind)'
  BY <1>1 DEF Has, EffectsOf
<1>3. \A n \in DOMAIN ops : Executed(n) => Executed(n)'
  BY <1>2 DEF Executed, Grows
<1>4. ASSUME NEW s, Truthful(s) PROVE Truthful(s)'
  BY <1>3, <1>4 DEF Truthful, Grows
<1> QED BY <1>2, <1>3, <1>4

LEMMA SameOrder ==
  ASSUME TypeInv, Grows, NEW q \in Servers, work'[q] = work[q], InOrder(q)
  PROVE  InOrder(q)'
<1>1. PICK w : w = work[q]
  OBVIOUS
<1>2. CASE w = NoWork
  BY <1>1, <1>2 DEF InOrder
<1>3. CASE w # NoWork
  <2>1. PICK n \in DOMAIN ops : n = w.op
    BY <1>1, <1>3 DEF TypeInv
  <2>2. /\ Has(n, "created") => Has(n, "created")'
        /\ Executed(n) => Executed(n)'
        /\ ops'[n].command = ops[n].command
    BY GrowsKeeps DEF Grows
  <2>3. /\ w.phase \in {"create", "propose"} => ops[n].command \in Creates
        /\ w.phase = "propose" => Has(n, "created")
        /\ w.phase = "mutate" => ops[n].command \notin Creates
        /\ w.phase = "accepted" => Executed(n)
    BY <1>1, <1>3, <2>1 DEF InOrder, Executed
  <2>4. work'[q] = w
    BY <1>1
  <2> QED BY <2>1, <2>2, <2>3, <2>4 DEF InOrder, Executed
<1> QED BY <1>2, <1>3

\* What a command that goes on must have done.
LEMMA NewOrder ==
  ASSUME NEW p \in Servers, NEW n, work'[p].op = n,
         /\ work'[p].phase \in {"create", "propose"} => ops'[n].command \in Creates
         /\ work'[p].phase = "propose" => Has(n, "created")'
         /\ work'[p].phase = "mutate" => ops'[n].command \notin Creates
         /\ work'[p].phase = "accepted" => Executed(n)'
  PROVE  InOrder(p)'
  BY DEF InOrder, Executed

LEMMA HandleAnswers ==
  ASSUME TypeInv, AnswerInv, NEW p \in Servers, NEW h \in Seq(Operation), Len(ops) <= Len(h),
         Len(h) <= MaxOps, DOMAIN ops \subseteq DOMAIN h, NEW n \in DOMAIN h, Handle(p, n, h),
         \A i \in DOMAIN ops : h[i] = ops[i],
         \A i \in DOMAIN h : h[i].key = i /\ (i \notin DOMAIN ops => h[i].answers = {}),
         UNCHANGED <<file, memory, effects>>
  PROVE  AnswerInv'
<1>1. /\ \A q \in Servers : q # p => work'[q] = work[q]
      /\ \/ Begins(p, n, h) /\ work'[p] # NoWork /\ work'[p].op = n
            /\ work'[p].phase = FirstPhase(h[n].command)
         \/ Replays(p, n, h) /\ work' = work
      /\ DOMAIN ops' = DOMAIN h
      /\ \A i \in DOMAIN h : ops'[i].key = h[i].key /\ ops'[i].command = h[i].command
  BY HandleTypes, HandleIs DEF TypeInv
<1>2. Grows
  BY <1>1 DEF Grows
<1>3. \A i \in DOMAIN ops' : ops'[i].key = i
  BY <1>1
<1>4. Truthful(file)' /\ \A q \in Servers : Truthful(memory[q])'
  BY <1>2, GrowsKeeps DEF AnswerInv, Truthful
<1>5. ASSUME NEW q \in Servers PROVE InOrder(q)'
  <2>1. CASE work'[q] = work[q]
    BY <1>2, <2>1, SameOrder DEF AnswerInv
  <2>2. CASE work'[q] # work[q]
    <3>1. q = p /\ work'[p].op = n /\ work'[p].phase = FirstPhase(h[n].command)
      BY <1>1, <2>2
    <3> QED BY <1>1, <3>1, NewOrder DEF FirstPhase
  <2> QED BY <2>1, <2>2
<1>6. ASSUME NEW i \in DOMAIN h, "accepted" \in h[i].answers PROVE Executed(i)'
  <2>1. i \in DOMAIN ops
    BY <1>6
  <2>2. Executed(i)
    BY <1>6, <2>1 DEF AnswerInv, AcceptedMeansExecuted, Executed
  <2> QED BY <1>2, <2>1, <2>2, GrowsKeeps
<1>7. ASSUME NEW i \in DOMAIN ops', "accepted" \in ops'[i].answers PROVE Executed(i)'
  <2>1. CASE Begins(p, n, h)
    BY <1>1, <1>6, <1>7, <2>1 DEF Begins
  <2>2. CASE Replays(p, n, h)
    <3>1. PICK a \in Answers : /\ ops' = Answered(h, n, a)
                               /\ memory[p].receipts[h[n].key] # NoReceipt
                               /\ a \in Status => memory[p].receipts[h[n].key].status = a
      BY <2>2 DEF Replays
    <3>2. "accepted" \in h[i].answers \/ (i = n /\ a = "accepted")
      BY <1>1, <1>7, <3>1, AnsweredIs
    <3>3. ASSUME i = n, a = "accepted" PROVE Executed(i)'
      <4>1. h[n].key = n /\ n \in Keys
        <5>1. DOMAIN h = 1..Len(h) /\ Len(h) \in Nat
          BY LenProperties
        <5> QED BY <5>1, Constants DEF Keys
      <4>2. memory[p].receipts[n] # NoReceipt /\ memory[p].receipts[n].status = "accepted"
        BY <3>1, <3>3, <4>1 DEF Status
      <4>3. n \in DOMAIN ops /\ Executed(n)
        BY <4>1, <4>2 DEF AnswerInv, Truthful
      <4> QED BY <1>2, <3>3, <4>3, GrowsKeeps
    <3> QED BY <1>1, <1>6, <3>2, <3>3
  <2> QED BY <1>1, <2>1, <2>2
<1>8. AcceptedMeansExecuted'
  BY <1>7 DEF AcceptedMeansExecuted, Executed
<1> QED BY <1>3, <1>4, <1>5, <1>8 DEF AnswerInv

\* A commit that succeeded is an effect of the operation.
LEMMA CommitAnswers ==
  ASSUME TypeInv, AnswerInv, NEW p \in Servers, work[p] # NoWork, NEW kind \in Kinds,
         NEW task \in Tasks, NEW next \in Phases, Commits(p, kind, task, next),
         UNCHANGED <<file, ops>>, \A q \in Servers : memory'[q].receipts = memory[q].receipts,
         /\ kind = "created" => next = "propose" /\ work[p].phase = "create"
         /\ kind = "proposed" => next = "accepted" /\ work[p].phase = "propose"
         /\ kind = "mutated" => next = "accepted" /\ work[p].phase = "mutate"
  PROVE  AnswerInv'
<1> DEFINE e == EffectOf(p, kind, task)
<1>1. /\ effects' = Append(effects, e) \/ (effects' = effects /\ work'[p].phase # next)
      /\ \A q \in Servers : q # p => work'[q] = work[q]
      /\ work'[p] # NoWork /\ work'[p].op = work[p].op /\ work'[p].phase \in {next, "rejected"}
  BY CommitsIs
<1>2. PICK n \in DOMAIN ops : n = work[p].op
  BY DEF TypeInv
<1>3. e \in Effect /\ e.op = n /\ e.kind = kind /\ effects \in Seq(Effect)
  BY <1>2, WorkFields DEF Effect, EffectOf, Kinds, TypeInv, TypeOK
<1> HIDE DEF e
<1>4. Grows
  BY <1>1, <1>3 DEF Grows
<1>5. work'[p].phase = next => Has(n, kind)'
  <2> SUFFICES ASSUME work'[p].phase = next PROVE Has(n, kind)'
    OBVIOUS
  <2>1. effects' = Append(effects, e)
    BY <1>1
  <2>2. Len(effects) + 1 \in DOMAIN effects' /\ effects'[Len(effects) + 1] = e
    BY <1>3, <2>1, AppendIs
  <2> QED BY <1>3, <2>2 DEF Has, EffectsOf
<1>6. /\ work[p].phase \in {"create", "propose"} => ops[n].command \in Creates
      /\ work[p].phase = "propose" => Has(n, "created")
      /\ work[p].phase = "mutate" => ops[n].command \notin Creates
  BY <1>2 DEF AnswerInv, InOrder
<1>7. Has(n, "created") => Has(n, "created")'
  BY <1>4, GrowsKeeps
<1>8. InOrder(p)'
  <2>1. work'[p].phase = "propose" => ops[n].command \in Creates /\ Has(n, "created")'
    BY <1>1, <1>5, <1>6 DEF Kinds, Phases
  <2>2. work'[p].phase = "accepted" => Executed(n)'
    <3> SUFFICES ASSUME work'[p].phase = "accepted" PROVE Executed(n)'
      OBVIOUS
    <3>1. Has(n, kind)' /\ kind \in {"proposed", "mutated"} /\ ops' = ops
      BY <1>1, <1>5 DEF Kinds
    <3>2. CASE kind = "proposed"
      BY <1>6, <1>7, <3>1, <3>2 DEF Executed
    <3>3. CASE kind = "mutated"
      BY <1>6, <3>1, <3>3 DEF Executed
    <3> QED BY <3>1, <3>2, <3>3
  <2>3. work'[p].phase \in {"propose", "accepted", "rejected"} /\ work'[p].op = n /\ ops' = ops
    BY <1>1, <1>2 DEF Phases
  <2> QED BY <2>1, <2>2, <2>3, NewOrder
<1>9. \A q \in Servers : InOrder(q)'
  BY <1>1, <1>4, <1>8, SameOrder DEF AnswerInv
<1>10. Truthful(file)' /\ \A q \in Servers : Truthful(memory[q])'
  BY <1>4, GrowsKeeps DEF AnswerInv, Truthful
<1>11. AcceptedMeansExecuted'
  <2>1. \A i \in DOMAIN ops : "accepted" \in ops[i].answers => Executed(i)
    BY DEF AnswerInv, AcceptedMeansExecuted, Executed
  <2>2. \A i \in DOMAIN ops : "accepted" \in ops[i].answers => Executed(i)'
    BY <1>4, <2>1, GrowsKeeps
  <2> QED BY <2>2 DEF AcceptedMeansExecuted, Executed
<1> QED BY <1>9, <1>10, <1>11 DEF AnswerInv

LEMMA IssueAnswers ==
  ASSUME TypeInv, AnswerInv, ~KeysPerLaunch, NEW p \in Servers, NEW command \in Commands,
         NEW task \in Tasks \cup {None}, Issue(p, command, task)
  PROVE  AnswerInv'
<1> DEFINE n == Len(ops) + 1
<1>1. PICK op \in Operation :
        LET h == Append(ops, op) IN
        /\ op.answers = {} /\ op.key = n
        /\ h \in Seq(Operation) /\ Len(h) = n /\ Len(h) <= MaxOps
        /\ DOMAIN h = 1..n /\ n \in DOMAIN h
        /\ DOMAIN ops = 1..Len(ops) /\ Len(ops) \in Nat
        /\ \A i \in DOMAIN ops : h[i] = ops[i] /\ i \in DOMAIN h
        /\ h[n] = op
        /\ Handle(p, n, h)
        /\ UNCHANGED <<file, up, memory, effects>>
  BY IssueIs
<1> DEFINE h == Append(ops, op)
<1>2. /\ h \in Seq(Operation) /\ Len(ops) <= Len(h) /\ Len(h) <= MaxOps
      /\ DOMAIN ops \subseteq DOMAIN h /\ n \in DOMAIN h /\ Handle(p, n, h)
      /\ \A i \in DOMAIN ops : h[i] = ops[i]
      /\ UNCHANGED <<file, memory, effects>>
  BY <1>1
<1>3. ASSUME NEW i \in DOMAIN h
      PROVE  h[i].key = i /\ (i \notin DOMAIN ops => h[i].answers = {})
  <2>1. CASE i \in DOMAIN ops
    BY <1>1, <2>1 DEF AnswerInv
  <2>2. CASE i \notin DOMAIN ops
    <3>1. i = n
      BY <1>1, <2>2
    <3> QED BY <1>1, <2>2, <3>1
  <2> QED BY <2>1, <2>2
<1> HIDE DEF h, n
<1> QED BY <1>2, <1>3, HandleAnswers

LEMMA RetryAnswers ==
  ASSUME TypeInv, AnswerInv, NEW p \in Servers, NEW n \in DOMAIN ops, Retry(p, n)
  PROVE  AnswerInv'
<1>1. /\ ops \in Seq(Operation) /\ Len(ops) \in Nat /\ Len(ops) <= MaxOps /\ Handle(p, n, ops)
      /\ UNCHANGED <<file, memory, effects>>
      /\ \A i \in DOMAIN ops : ops[i].key = i
  BY LenProperties DEF TypeInv, TypeOK, Retry, AnswerInv
<1> QED BY <1>1, HandleAnswers

LEMMA SaveAnswers ==
  ASSUME TypeInv, AnswerInv, NEW p \in Servers, SaveState(p) \/ SaveFails(p)
  PROVE  AnswerInv'
<1>1. /\ Finished(p) /\ work[p] # NoWork /\ UNCHANGED effects
      /\ file' \in {file, WithReceipt(p)}
      /\ \A q \in Servers : q # p => memory'[q] = memory[q]
  BY SaveIs
<1>2. PICK a \in Answers :
        /\ Answer(p, a)
        /\ \/ /\ a = work[p].phase /\ a \in Status
              /\ file' = WithReceipt(p) /\ memory'[p] = WithReceipt(p)
           \/ a \notin Status /\ memory'[p] = memory[p]
  BY SaveIs
<1>3. PICK n \in DOMAIN ops : n = work[p].op
  BY <1>1 DEF TypeInv
<1>4. /\ DOMAIN ops' = DOMAIN ops
      /\ \A i \in DOMAIN ops : /\ ops'[i].key = ops[i].key /\ ops'[i].command = ops[i].command
                               /\ i = n => ops'[i].answers = ops[i].answers \cup {a}
                               /\ i # n => ops'[i].answers = ops[i].answers
      /\ work'[p] = NoWork /\ \A q \in Servers : q # p => work'[q] = work[q]
  BY <1>1, <1>2, <1>3, AnswerIs
<1>5. Grows
  BY <1>1, <1>4 DEF Grows
<1>6. work[p].phase = "accepted" => Executed(n)
  BY <1>1, <1>3 DEF AnswerInv, InOrder, Executed
<1>7. Truthful(WithReceipt(p))
  <2>1. ops[n].key = n
    BY DEF AnswerInv
  <2>2. \A k \in Keys :
          /\ k = n => WithReceipt(p).receipts[k].status = work[p].phase
          /\ k # n => WithReceipt(p).receipts[k] = memory[p].receipts[k]
    BY <1>1, <1>3, <2>1, WithReceiptIs
  <2>3. Truthful(memory[p])
    BY DEF AnswerInv
  <2>4. ASSUME NEW k \in Keys, WithReceipt(p).receipts[k] # NoReceipt
        PROVE  /\ k \in DOMAIN ops
               /\ WithReceipt(p).receipts[k].status = "accepted" => Executed(k)
    <3>1. CASE k = n
      BY <1>6, <2>2, <3>1
    <3>2. CASE k # n
      BY <2>2, <2>3, <2>4, <3>2 DEF Truthful
    <3> QED BY <3>1, <3>2
  <2> QED BY <2>4 DEF Truthful
<1>8. /\ Truthful(file) => Truthful(file)' \/ file' # file
      /\ \A s : Truthful(s) => Truthful(s)'
  BY <1>5, GrowsKeeps DEF Truthful
<1>9. Truthful(file)' /\ \A q \in Servers : Truthful(memory[q])'
  <2>1. PICK s : s = WithReceipt(p)
    OBVIOUS
  <2>2. Truthful(s)'
    BY <1>7, <1>8, <2>1
  <2>3. Truthful(file)'
    BY <1>1, <1>8, <2>1, <2>2 DEF AnswerInv, Truthful
  <2>4. ASSUME NEW q \in Servers PROVE Truthful(memory[q])'
    <3>1. memory'[q] = memory[q] \/ memory'[q] = s
      BY <1>1, <1>2, <2>1
    <3>2. PICK m : m = memory[q]
      OBVIOUS
    <3>3. Truthful(m)'
      BY <1>8, <3>2 DEF AnswerInv
    <3> QED BY <2>2, <3>1, <3>2, <3>3 DEF Truthful
  <2> QED BY <2>3, <2>4
<1>10. ASSUME NEW q \in Servers PROVE InOrder(q)'
  <2>1. CASE q = p
    BY <1>4, <2>1 DEF InOrder
  <2>2. CASE q # p
    BY <1>4, <1>5, <2>2, SameOrder DEF AnswerInv
  <2> QED BY <2>1, <2>2
<1>11. AcceptedMeansExecuted'
  <2>1. ASSUME NEW i \in DOMAIN ops, "accepted" \in ops'[i].answers PROVE Executed(i)'
    <3>1. "accepted" \in ops[i].answers \/ (i = n /\ a = "accepted")
      BY <1>4, <2>1
    <3>2. "accepted" \in ops[i].answers => Executed(i)
      BY DEF AnswerInv, AcceptedMeansExecuted, Executed
    <3>3. a = "accepted" => work[p].phase = "accepted"
      BY <1>2 DEF Status
    <3>4. Executed(i)
      BY <1>6, <3>1, <3>2, <3>3
    <3> QED BY <1>5, <3>4, GrowsKeeps
  <2> QED BY <1>4, <2>1 DEF AcceptedMeansExecuted, Executed
<1> QED BY <1>4, <1>9, <1>10, <1>11 DEF AnswerInv

LEMMA AnswerInit == Init => AnswerInv
<1> SUFFICES ASSUME Init PROVE AnswerInv
  OBVIOUS
<1>1. DOMAIN ops = {}
  BY EmptySeq DEF Init
<1>2. Truthful(file) /\ \A p \in Servers : Truthful(memory[p])
  BY FreshIsSaved DEF Init, Truthful
<1>3. \A p \in Servers : InOrder(p)
  BY DEF Init, InOrder
<1> QED BY <1>1, <1>2, <1>3 DEF AnswerInv, AcceptedMeansExecuted

\* A step after which files, memories and commands are among those before.
LEMMA SameAnswers ==
  ASSUME TypeInv, AnswerInv, UNCHANGED <<file, ops, effects>>,
         \A q \in Servers : memory'[q] \in {memory[q], file, Fresh} /\ work'[q] \in {work[q], NoWork}
  PROVE  AnswerInv'
<1>1. Grows
  BY DEF Grows
<1>2. \A s : Truthful(s) => Truthful(s)'
  BY <1>1, GrowsKeeps
<1>3. Truthful(file)'
  BY <1>2 DEF AnswerInv, Truthful
<1>4. ASSUME NEW q \in Servers PROVE Truthful(memory[q])' /\ InOrder(q)'
  <2>1. Truthful(Fresh) /\ Truthful(file) /\ Truthful(memory[q])
    BY FreshIsSaved DEF AnswerInv, Truthful
  <2>2. PICK s : s = memory'[q] /\ Truthful(s)
    BY <2>1
  <2>3. Truthful(memory[q])'
    BY <1>2, <2>2 DEF Truthful
  <2>4. CASE work'[q] = work[q]
    BY <1>1, <2>3, <2>4, SameOrder DEF AnswerInv
  <2>5. CASE work'[q] = NoWork
    BY <2>3, <2>5 DEF InOrder
  <2> QED BY <2>4, <2>5
<1>5. AcceptedMeansExecuted'
  <2>1. \A i \in DOMAIN ops : "accepted" \in ops[i].answers => Executed(i)
    BY DEF AnswerInv, AcceptedMeansExecuted, Executed
  <2>2. \A i \in DOMAIN ops : "accepted" \in ops[i].answers => Executed(i)'
    BY <1>1, <2>1, GrowsKeeps
  <2> QED BY <2>2 DEF AcceptedMeansExecuted, Executed
<1> QED BY <1>3, <1>4, <1>5 DEF AnswerInv

LEMMA AnswerNext == ~KeysPerLaunch => (TypeInv /\ AnswerInv /\ [Next]_vars => AnswerInv')
<1> SUFFICES ASSUME ~KeysPerLaunch, TypeInv, AnswerInv, [Next]_vars PROVE AnswerInv'
  OBVIOUS
<1>1. ASSUME NEW p \in Servers, Start(p) PROVE AnswerInv'
  <2>1. /\ UNCHANGED <<file, ops, effects>>
        /\ \A q \in Servers : /\ memory'[q] \in {memory[q], file, Fresh}
                              /\ work'[q] \in {work[q], NoWork}
    BY <1>1, StartIs
  <2> QED BY <2>1, SameAnswers
<1>2. ASSUME NEW p \in Servers, Exit(p) PROVE AnswerInv'
  <2>1. /\ UNCHANGED <<file, ops, effects>>
        /\ \A q \in Servers : /\ memory'[q] \in {memory[q], file, Fresh}
                              /\ work'[q] \in {work[q], NoWork}
    BY <1>2, ExitIs
  <2> QED BY <2>1, SameAnswers
<1>3. ASSUME NEW p \in Servers, CreateTask(p) PROVE AnswerInv'
  <2>1. "created" \in Kinds /\ "propose" \in Phases
    BY DEF Kinds, Phases
  <2>2. /\ work[p] # NoWork /\ work[p].phase = "create" /\ UNCHANGED <<file, ops>>
        /\ \A q \in Servers : memory'[q].receipts = memory[q].receipts
    BY <1>3, CreateTaskIs, NextTaskIs
  <2>3. PICK task \in Tasks : task = memory[p].nextTask + 1
    BY <1>3, CreateTaskIs
  <2>4. Commits(p, "created", task, "propose")
    BY <1>3, <2>3, CreateTaskIs
  <2> QED BY <2>1, <2>2, <2>4, CommitAnswers
<1>4. ASSUME NEW p \in Servers, ProposeScope(p) PROVE AnswerInv'
  <2>1. "proposed" \in Kinds /\ "accepted" \in Phases
    BY DEF Kinds, Phases
  <2>2. /\ work[p] # NoWork /\ work[p].phase = "propose" /\ UNCHANGED <<file, ops>>
        /\ \A q \in Servers : memory'[q].receipts = memory[q].receipts
    BY <1>4, ProposeScopeIs, ActiveIs
  <2>3. PICK task \in Tasks : task = work[p].task
    BY <1>4, ProposeScopeIs
  <2>4. Commits(p, "proposed", task, "accepted")
    BY <1>4, <2>3, ProposeScopeIs
  <2> QED BY <2>1, <2>2, <2>4, CommitAnswers
<1>5. ASSUME NEW p \in Servers, Mutate(p) PROVE AnswerInv'
  <2>1. work[p] # NoWork /\ work[p].phase = "mutate" /\ UNCHANGED <<file, memory, ops>>
    BY <1>5, MutateIs
  <2>2. CASE work[p].task \in Tasks /\ Commits(p, "mutated", work[p].task, "accepted")
    <3>1. "mutated" \in Kinds /\ "accepted" \in Phases
      BY DEF Kinds, Phases
    <3>2. PICK task \in Tasks : task = work[p].task
      BY <2>2
    <3>3. Commits(p, "mutated", task, "accepted")
      BY <2>2, <3>2
    <3> QED BY <2>1, <3>1, <3>3, CommitAnswers
  <2>3. CASE /\ UNCHANGED effects
             /\ work' \in [Servers -> Work]
             /\ \A q \in Servers : q # p => work'[q] = work[q]
             /\ work'[p] # NoWork /\ work'[p].op = work[p].op /\ work'[p].phase = "rejected"
    <3>1. Grows
      BY <2>1, <2>3 DEF Grows
    <3>2. PICK n : n = work[p].op
      OBVIOUS
    <3>3. InOrder(p)'
      BY <2>3, <3>2, NewOrder
    <3>4. \A q \in Servers : InOrder(q)'
      BY <2>3, <3>1, <3>3, SameOrder DEF AnswerInv
    <3>5. Truthful(file)' /\ \A q \in Servers : Truthful(memory[q])'
      BY <2>1, <3>1, GrowsKeeps DEF AnswerInv, Truthful
    <3>6. AcceptedMeansExecuted'
      BY <2>1, <2>3 DEF AnswerInv, AcceptedMeansExecuted, Has, EffectsOf
    <3> QED BY <2>1, <3>4, <3>5, <3>6 DEF AnswerInv
  <2> QED BY <1>5, <2>2, <2>3, MutateIs
<1>6. CASE UNCHANGED vars
  <2>1. /\ UNCHANGED <<file, ops, effects>>
        /\ \A q \in Servers : /\ memory'[q] \in {memory[q], file, Fresh}
                              /\ work'[q] \in {work[q], NoWork}
    BY <1>6 DEF vars
  <2> QED BY <2>1, SameAnswers
<1> QED BY <1>1, <1>2, <1>3, <1>4, <1>5, <1>6, IssueAnswers, RetryAnswers, SaveAnswers DEF Next

\* An answer "accepted" is true: the operation has had its effects, whatever failed,
\* was repeated, or ended in between, and on any number of servers, if no two
\* operations have the same key.
THEOREM ServerAcceptedMeansExecuted ==
  ~KeysPerLaunch => (Spec => []AcceptedMeansExecuted)
<1> SUFFICES ASSUME ~KeysPerLaunch PROVE Spec => []AcceptedMeansExecuted
  OBVIOUS
<1>1. TypeInv /\ AnswerInv /\ [Next]_vars => AnswerInv'
  BY AnswerNext
<1>2. AnswerInv => AcceptedMeansExecuted
  BY DEF AnswerInv
<1> QED BY <1>1, <1>2, AnswerInit, TypeInvariant, PTL DEF Spec

-----------------------------------------------------------------------------
(* What a single server does not do twice.                                  *)

One == \A p, q \in Servers : p = q

\* What a running server counts, the file never counts beyond.
CounterInv ==
  \A p \in Servers :
    /\ work[p] # NoWork => up[p]
    /\ up[p] => file.nextTask <= memory[p].nextTask

\* A command in progress has no receipt; an operation that was answered has one,
\* in the file and in the server.
OnceInv ==
  \A p \in Servers :
    /\ work[p] # NoWork => memory[p].receipts[work[p].op] = NoReceipt
    /\ up[p] => \A k \in Keys : memory[p].receipts[k] # NoReceipt => file.receipts[k] # NoReceipt
    /\ \A n \in DOMAIN ops : ops[n].answers \cap Status # {} =>
         /\ file.receipts[n] # NoReceipt
         /\ up[p] => memory[p].receipts[n] # NoReceipt

\* The steps of a dispatch, as far as memory and the effects are concerned.
Dispatch(p) == CreateTask(p) \/ ProposeScope(p) \/ Mutate(p)

LEMMA DispatchIs ==
  ASSUME TypeInv, NEW p \in Servers, Dispatch(p)
  PROVE  /\ work[p] # NoWork /\ UNCHANGED <<file, up, ops>>
         /\ work'[p] # NoWork /\ work'[p].op = work[p].op
         /\ memory'[p].receipts = memory[p].receipts
         /\ memory[p].nextTask <= memory'[p].nextTask
         /\ \A q \in Servers : q # p => work'[q] = work[q] /\ memory'[q] = memory[q]
         /\ \/ effects' = effects
            \/ \E kind \in Kinds, task \in Tasks :
                 /\ effects' = Append(effects, EffectOf(p, kind, task))
                 /\ kind = "created" => task = memory[p].nextTask + 1
<1> USE DEF Kinds, Phases
<1>1. memory[p].nextTask \in Nat
  BY Constants DEF TypeInv, TypeOK, Saved
<1>2. CASE CreateTask(p)
  <2>1. PICK task \in Tasks : task = memory[p].nextTask + 1
    BY <1>2, CreateTaskIs
  <2>2. /\ work[p] # NoWork /\ UNCHANGED <<file, up, ops>>
        /\ Commits(p, "created", task, "propose")
        /\ memory'[p].nextTask = memory[p].nextTask + 1
        /\ memory'[p].receipts = memory[p].receipts
        /\ \A q \in Servers : q # p => memory'[q] = memory[q]
    BY <1>2, <2>1, CreateTaskIs, NextTaskIs
  <2>3. /\ effects' = effects \/ effects' = Append(effects, EffectOf(p, "created", task))
        /\ work'[p] # NoWork /\ work'[p].op = work[p].op
        /\ \A q \in Servers : q # p => work'[q] = work[q]
    BY <2>2, CommitsIs
  <2> QED BY <1>1, <2>1, <2>2, <2>3
<1>3. CASE ProposeScope(p)
  <2>1. PICK task \in Tasks : task = work[p].task
    BY <1>3, ProposeScopeIs
  <2>2. /\ work[p] # NoWork /\ UNCHANGED <<file, up, ops>>
        /\ Commits(p, "proposed", task, "accepted")
        /\ memory'[p].nextTask = memory[p].nextTask
        /\ memory'[p].receipts = memory[p].receipts
        /\ \A q \in Servers : q # p => memory'[q] = memory[q]
    BY <1>3, <2>1, ProposeScopeIs, ActiveIs
  <2>3. /\ effects' = effects \/ effects' = Append(effects, EffectOf(p, "proposed", task))
        /\ work'[p] # NoWork /\ work'[p].op = work[p].op
        /\ \A q \in Servers : q # p => work'[q] = work[q]
    BY <2>2, CommitsIs
  <2> QED BY <1>1, <2>1, <2>2, <2>3
<1>4. CASE Mutate(p)
  <2>1. work[p] # NoWork /\ UNCHANGED <<file, up, memory, ops>>
    BY <1>4, MutateIs
  <2>2. CASE work[p].task \in Tasks /\ Commits(p, "mutated", work[p].task, "accepted")
    <3>1. PICK task \in Tasks : task = work[p].task
      BY <2>2
    <3>2. Commits(p, "mutated", task, "accepted")
      BY <2>2, <3>1
    <3>3. /\ effects' = effects \/ effects' = Append(effects, EffectOf(p, "mutated", task))
          /\ work'[p] # NoWork /\ work'[p].op = work[p].op
          /\ \A q \in Servers : q # p => work'[q] = work[q]
      BY <2>1, <3>2, CommitsIs
    <3> QED BY <1>1, <2>1, <3>1, <3>3
  <2>3. CASE ~(work[p].task \in Tasks /\ Commits(p, "mutated", work[p].task, "accepted"))
    BY <1>1, <1>4, <2>1, <2>3, MutateIs
  <2> QED BY <2>2, <2>3
<1> QED BY <1>2, <1>3, <1>4 DEF Dispatch

LEMMA CounterNext == One => (TypeInv /\ CounterInv /\ [Next]_vars => CounterInv')
<1> SUFFICES ASSUME One, TypeInv, CounterInv, [Next]_vars PROVE CounterInv'
  OBVIOUS
<1>1. file.nextTask \in Nat /\ \A q \in Servers : memory[q].nextTask \in Nat
  BY Constants DEF TypeInv, TypeOK, Saved
<1>2. TypeInv'
  BY TypeNext
<1>3. \A q \in Servers : memory'[q].nextTask \in Nat
  BY <1>2, Constants DEF TypeInv, TypeOK, Saved
<1>4. ASSUME NEW p \in Servers, Start(p) PROVE CounterInv'
  BY <1>1, <1>4, StartIs DEF CounterInv, One
<1>5. ASSUME NEW p \in Servers, Exit(p) PROVE CounterInv'
  BY <1>5, ExitIs DEF CounterInv, One
<1>6. ASSUME NEW p \in Servers, NEW command \in Commands, NEW task \in Tasks \cup {None},
             Issue(p, command, task)
      PROVE  CounterInv'
  <2>1. up[p] /\ UNCHANGED <<file, up, memory>>
    BY <1>6 DEF Issue, Free
  <2> QED BY <2>1 DEF CounterInv, One
<1>7. ASSUME NEW p \in Servers, NEW n \in DOMAIN ops, Retry(p, n) PROVE CounterInv'
  <2>1. up[p] /\ UNCHANGED <<file, up, memory>>
    BY <1>7 DEF Retry, Free
  <2> QED BY <2>1 DEF CounterInv, One
<1>8. ASSUME NEW p \in Servers, Dispatch(p) PROVE CounterInv'
  <2>1. /\ UNCHANGED <<file, up>> /\ work[p] # NoWork
        /\ memory[p].nextTask <= memory'[p].nextTask
    BY <1>8, DispatchIs
  <2> QED BY <1>1, <1>3, <2>1 DEF CounterInv, One
<1>9. ASSUME NEW p \in Servers, SaveState(p) \/ SaveFails(p) PROVE CounterInv'
  <2>1. /\ up' = up /\ work[p] # NoWork /\ Finished(p)
        /\ file' \in {file, WithReceipt(p)}
        /\ memory'[p] \in {memory[p], WithReceipt(p)}
    BY <1>9, SaveIs
  <2>2. WithReceipt(p).nextTask = memory[p].nextTask
    BY <2>1, WithReceiptIs
  <2>3. file.nextTask <= memory[p].nextTask /\ up[p]
    BY <2>1 DEF CounterInv
  <2>4. file'.nextTask <= memory'[p].nextTask
    BY <1>1, <2>1, <2>2, <2>3
  <2> QED BY <2>1, <2>3, <2>4 DEF CounterInv, One
<1>10. CASE UNCHANGED vars
  BY <1>10 DEF vars, CounterInv
<1> QED BY <1>4, <1>5, <1>6, <1>7, <1>8, <1>9, <1>10 DEF Next, Dispatch

LEMMA CounterInit == Init => CounterInv
  BY DEF Init, CounterInv

LEMMA OnceInit == Init => OnceInv
<1> SUFFICES ASSUME Init PROVE OnceInv
  OBVIOUS
<1>1. DOMAIN ops = {}
  BY EmptySeq DEF Init
<1> QED BY <1>1, FreshIsSaved DEF Init, OnceInv

LEMMA HandleOnce ==
  ASSUME One, TypeInv, AnswerInv, OnceInv, NEW p \in Servers, up[p],
         NEW h \in Seq(Operation), Len(ops) <= Len(h), Len(h) <= MaxOps,
         DOMAIN ops \subseteq DOMAIN h, NEW n \in DOMAIN h, Handle(p, n, h),
         \A i \in DOMAIN ops : h[i] = ops[i],
         \A i \in DOMAIN h : h[i].key = i /\ (i \notin DOMAIN ops => h[i].answers = {}),
         UNCHANGED <<file, memory, up>>
  PROVE  OnceInv'
<1>1. /\ \/ Begins(p, n, h) /\ work'[p] # NoWork /\ work'[p].op = n
         \/ Replays(p, n, h) /\ work' = work
      /\ DOMAIN ops' = DOMAIN h
  BY HandleTypes, HandleIs DEF TypeInv
<1>2. n \in Keys /\ h[n].key = n
  <2>1. DOMAIN h = 1..Len(h) /\ Len(h) \in Nat
    BY LenProperties
  <2> QED BY <2>1, Constants DEF Keys
<1>3. ASSUME NEW i \in DOMAIN h, h[i].answers \cap Status # {}
      PROVE  file.receipts[i] # NoReceipt /\ memory[p].receipts[i] # NoReceipt
  <2>1. i \in DOMAIN ops
    BY <1>3
  <2> QED BY <1>3, <2>1 DEF OnceInv
<1>4. ASSUME NEW i \in DOMAIN h, ops'[i].answers \cap Status # {}
      PROVE  file.receipts[i] # NoReceipt /\ memory[p].receipts[i] # NoReceipt
  <2>1. CASE Begins(p, n, h)
    BY <1>3, <1>4, <2>1 DEF Begins
  <2>2. CASE Replays(p, n, h)
    <3>1. PICK a \in Answers : ops' = Answered(h, n, a) /\ memory[p].receipts[n] # NoReceipt
      BY <1>2, <2>2 DEF Replays
    <3>2. i = n \/ h[i].answers \cap Status # {}
      <4>1. i # n => ops'[i].answers = h[i].answers
        BY <3>1, AnsweredIs
      <4> QED BY <1>4, <4>1
    <3>3. file.receipts[n] # NoReceipt
      BY <1>2, <3>1 DEF OnceInv
    <3> QED BY <1>3, <3>1, <3>2, <3>3
  <2> QED BY <1>1, <2>1, <2>2
<1>5. work'[p] # NoWork => memory[p].receipts[work'[p].op] = NoReceipt
  BY <1>1, <1>2 DEF Begins, OnceInv
<1> QED BY <1>1, <1>4, <1>5 DEF OnceInv, One

LEMMA SaveOnce ==
  ASSUME One, TypeInv, AnswerInv, CounterInv, OnceInv, NEW p \in Servers,
         SaveState(p) \/ SaveFails(p)
  PROVE  OnceInv'
<1>1. /\ Finished(p) /\ work[p] # NoWork /\ up' = up
      /\ file' \in {file, WithReceipt(p)}
  BY SaveIs
<1>2. PICK a \in Answers :
        /\ Answer(p, a)
        /\ \/ /\ a = work[p].phase /\ a \in Status
              /\ file' = WithReceipt(p) /\ memory'[p] = WithReceipt(p)
           \/ a \notin Status /\ memory'[p] = memory[p]
  BY SaveIs
<1>3. PICK n \in DOMAIN ops : n = work[p].op
  BY <1>1 DEF TypeInv
<1>4. /\ DOMAIN ops' = DOMAIN ops
      /\ \A i \in DOMAIN ops : /\ i = n => ops'[i].answers = ops[i].answers \cup {a}
                               /\ i # n => ops'[i].answers = ops[i].answers
      /\ work'[p] = NoWork
  BY <1>1, <1>2, <1>3, AnswerIs
<1>5. /\ up[p] /\ ops[n].key = n /\ n \in Keys
      /\ \A i \in DOMAIN ops : i \in Keys
  <2>1. DOMAIN ops = 1..Len(ops) /\ Len(ops) \in Nat /\ Len(ops) <= MaxOps
    BY LenProperties DEF TypeInv, TypeOK
  <2> QED BY <1>1, <2>1, Constants DEF CounterInv, AnswerInv, Keys
<1>6. \A k \in Keys : /\ k = n => WithReceipt(p).receipts[k] # NoReceipt
                      /\ k # n => WithReceipt(p).receipts[k] = memory[p].receipts[k]
  BY <1>1, <1>3, <1>5, WithReceiptIs
<1>7. \A k \in Keys : /\ memory[p].receipts[k] # NoReceipt => memory'[p].receipts[k] # NoReceipt
                      /\ memory'[p].receipts[k] # NoReceipt => file'.receipts[k] # NoReceipt
  <2> SUFFICES ASSUME NEW k \in Keys
               PROVE  /\ memory[p].receipts[k] # NoReceipt => memory'[p].receipts[k] # NoReceipt
                      /\ memory'[p].receipts[k] # NoReceipt => file'.receipts[k] # NoReceipt
    OBVIOUS
  <2>1. memory[p].receipts[k] # NoReceipt =>
          file.receipts[k] # NoReceipt /\ WithReceipt(p).receipts[k] # NoReceipt
    BY <1>5, <1>6 DEF OnceInv
  <2> QED BY <1>1, <1>2, <2>1
<1>8. ASSUME NEW i \in DOMAIN ops, ops'[i].answers \cap Status # {}
      PROVE  file'.receipts[i] # NoReceipt /\ memory'[p].receipts[i] # NoReceipt
  <2>1. ops[i].answers \cap Status # {} \/ (i = n /\ a \in Status)
    BY <1>4, <1>8
  <2>2. CASE ops[i].answers \cap Status # {}
    <3>1. memory[p].receipts[i] # NoReceipt
      BY <1>5, <2>2 DEF OnceInv
    <3> QED BY <1>5, <1>7, <3>1
  <2>3. CASE i = n /\ a \in Status
    BY <1>2, <1>5, <1>6, <2>3
  <2> QED BY <2>1, <2>2, <2>3
<1> QED BY <1>1, <1>4, <1>7, <1>8 DEF OnceInv, One

LEMMA OnceNext ==
  One /\ ~KeysPerLaunch =>
    (TypeInv /\ AnswerInv /\ CounterInv /\ OnceInv /\ [Next]_vars => OnceInv')
<1> SUFFICES ASSUME One, ~KeysPerLaunch, TypeInv, AnswerInv, CounterInv, OnceInv, [Next]_vars
             PROVE  OnceInv'
  OBVIOUS
<1>1. ASSUME NEW p \in Servers, Start(p) PROVE OnceInv'
  <2>1. ~up[p] /\ memory'[p] = file /\ UNCHANGED <<file, work, ops>>
    BY <1>1, StartIs
  <2>2. work[p] = NoWork
    BY <2>1 DEF CounterInv
  <2> QED BY <2>1, <2>2 DEF OnceInv, One
<1>2. ASSUME NEW p \in Servers, Exit(p) PROVE OnceInv'
  BY <1>2, ExitIs DEF OnceInv, One
<1>3. ASSUME NEW p \in Servers, NEW command \in Commands, NEW task \in Tasks \cup {None},
             Issue(p, command, task)
      PROVE  OnceInv'
  <2> DEFINE n == Len(ops) + 1
  <2>1. PICK op \in Operation :
          LET h == Append(ops, op) IN
          /\ op.answers = {} /\ op.key = n
          /\ h \in Seq(Operation) /\ Len(h) = n /\ Len(h) <= MaxOps
          /\ DOMAIN h = 1..n /\ n \in DOMAIN h
          /\ DOMAIN ops = 1..Len(ops) /\ Len(ops) \in Nat
          /\ \A i \in DOMAIN ops : h[i] = ops[i] /\ i \in DOMAIN h
          /\ h[n] = op
          /\ Handle(p, n, h)
          /\ Free(p) /\ UNCHANGED <<file, up, memory, effects>>
    BY <1>3, IssueIs
  <2> DEFINE h == Append(ops, op)
  <2>2. /\ h \in Seq(Operation) /\ Len(ops) <= Len(h) /\ Len(h) <= MaxOps
        /\ DOMAIN ops \subseteq DOMAIN h /\ n \in DOMAIN h /\ Handle(p, n, h)
        /\ \A i \in DOMAIN ops : h[i] = ops[i]
        /\ UNCHANGED <<file, memory, up>> /\ up[p]
    BY <2>1 DEF Free
  <2>3. ASSUME NEW i \in DOMAIN h
        PROVE  h[i].key = i /\ (i \notin DOMAIN ops => h[i].answers = {})
    <3>1. CASE i \in DOMAIN ops
      BY <2>1, <3>1 DEF AnswerInv
    <3>2. CASE i \notin DOMAIN ops
      <4>1. i = n
        BY <2>1, <3>2
      <4> QED BY <2>1, <3>2, <4>1
    <3> QED BY <3>1, <3>2
  <2> HIDE DEF h, n
  <2> QED BY <2>2, <2>3, HandleOnce
<1>4. ASSUME NEW p \in Servers, NEW n \in DOMAIN ops, Retry(p, n) PROVE OnceInv'
  <2>1. /\ ops \in Seq(Operation) /\ Len(ops) \in Nat /\ Len(ops) <= MaxOps /\ Handle(p, n, ops)
        /\ UNCHANGED <<file, memory, up>> /\ up[p]
        /\ \A i \in DOMAIN ops : ops[i].key = i
    BY <1>4, LenProperties DEF TypeInv, TypeOK, Retry, AnswerInv, Free
  <2> QED BY <2>1, HandleOnce
<1>5. ASSUME NEW p \in Servers, Dispatch(p) PROVE OnceInv'
  BY <1>5, DispatchIs DEF OnceInv, One
<1>6. CASE UNCHANGED vars
  BY <1>6 DEF vars, OnceInv
<1> QED BY <1>1, <1>2, <1>3, <1>4, <1>5, <1>6, SaveOnce DEF Next, Dispatch

\* Only a dispatch commits effects, one at a time and for its operation.
LEMMA EffectsAre ==
  ASSUME TypeInv, [Next]_vars, effects' # effects
  PROVE  \E p \in Servers, kind \in Kinds, task \in Tasks :
           /\ work[p] # NoWork
           /\ effects' = Append(effects, EffectOf(p, kind, task))
           /\ kind = "created" => task = memory[p].nextTask + 1
<1>1. PICK p \in Servers : Dispatch(p)
  BY DEF Next, vars, Start, Exit, Issue, Retry, SaveState, SaveFails, Answer, Dispatch
<1> QED BY <1>1, DispatchIs

\* Once an operation was answered with a receipt it has no further effect: with one
\* server the receipt is in the file before the answer, and a save that fails
\* takes it from both.
THEOREM ServerAnsweredOperationsAreOver ==
  One /\ ~KeysPerLaunch => (Spec => AnsweredOperationsAreOver)
<1> SUFFICES ASSUME One, ~KeysPerLaunch PROVE Spec => AnsweredOperationsAreOver
  OBVIOUS
<1>1. TypeInv /\ AnswerInv /\ [Next]_vars => AnswerInv'
  BY AnswerNext
<1>2. TypeInv /\ CounterInv /\ [Next]_vars => CounterInv'
  BY CounterNext
<1>3. TypeInv /\ AnswerInv /\ CounterInv /\ OnceInv /\ [Next]_vars => OnceInv'
  BY OnceNext
<1>4. ASSUME TypeInv, CounterInv, OnceInv, [Next]_vars
      PROVE  \A n \in DOMAIN ops : ops[n].answers \cap Status # {} => EffectsOf(n)' = EffectsOf(n)
  <2> SUFFICES ASSUME NEW n \in DOMAIN ops, ops[n].answers \cap Status # {}
               PROVE  EffectsOf(n)' = EffectsOf(n)
    OBVIOUS
  <2>1. CASE effects' = effects
    BY <2>1 DEF EffectsOf
  <2>2. CASE effects' # effects
    <3>1. PICK p \in Servers, kind \in Kinds, task \in Tasks :
            work[p] # NoWork /\ effects' = Append(effects, EffectOf(p, kind, task))
      BY <1>4, <2>2, EffectsAre
    <3> DEFINE e == EffectOf(p, kind, task)
    <3>2. memory[p].receipts[work[p].op] = NoReceipt /\ memory[p].receipts[n] # NoReceipt
      BY <1>4, <3>1 DEF CounterInv, OnceInv
    <3>3. e.op # n
      BY <3>2 DEF EffectOf
    <3>4. e \in Effect /\ effects \in Seq(Effect)
      BY <1>4, <3>1, WorkFields DEF Effect, EffectOf, Kinds, TypeInv, TypeOK
    <3> HIDE DEF e
    <3>5. /\ DOMAIN effects' = 1..(Len(effects) + 1) /\ DOMAIN effects = 1..Len(effects)
          /\ Len(effects) \in Nat
          /\ \A i \in DOMAIN effects : effects'[i] = effects[i]
          /\ effects'[Len(effects) + 1] = e
      BY <3>1, <3>4, AppendIs DEF e
    <3>6. \A i : i \in DOMAIN effects' /\ effects'[i].op = n
                   <=> i \in DOMAIN effects /\ effects[i].op = n
      BY <3>3, <3>5
    <3> QED BY <3>6 DEF EffectsOf
  <2> QED BY <2>1, <2>2
<1> QED BY <1>1, <1>2, <1>3, <1>4, AnswerInit, CounterInit, OnceInit, TypeInvariant, PTL
        DEF Spec, AnsweredOperationsAreOver

\* A task counted in the state file is not created again: one server counts on from
\* the file and never writes less than it counted.
THEOREM ServerSavedTasksAreNotReused == One => (Spec => SavedTasksAreNotReused)
<1> SUFFICES ASSUME One PROVE Spec => SavedTasksAreNotReused
  OBVIOUS
<1>1. TypeInv /\ CounterInv /\ [Next]_vars => CounterInv'
  BY CounterNext
<1>2. ASSUME TypeInv, CounterInv, [Next]_vars
      PROVE  \A i \in DOMAIN effects' \ DOMAIN effects :
               effects'[i].kind = "created" => effects'[i].task > file.nextTask
  <2> SUFFICES ASSUME NEW i \in DOMAIN effects' \ DOMAIN effects, effects'[i].kind = "created"
               PROVE  effects'[i].task > file.nextTask
    OBVIOUS
  <2>1. PICK p \in Servers, kind \in Kinds, task \in Tasks :
          /\ work[p] # NoWork /\ effects' = Append(effects, EffectOf(p, kind, task))
          /\ kind = "created" => task = memory[p].nextTask + 1
    BY <1>2, EffectsAre
  <2> DEFINE e == EffectOf(p, kind, task)
  <2>2. e.kind = kind /\ e.task = task
    BY DEF EffectOf
  <2>3. e \in Effect /\ effects \in Seq(Effect)
    BY <1>2, <2>1, WorkFields DEF Effect, EffectOf, Kinds, TypeInv, TypeOK
  <2> HIDE DEF e
  <2>4. /\ DOMAIN effects' = 1..(Len(effects) + 1) /\ DOMAIN effects = 1..Len(effects)
        /\ Len(effects) \in Nat /\ effects'[Len(effects) + 1] = e
    BY <2>1, <2>3, AppendIs DEF e
  <2>5. effects'[i] = e
    BY <2>4
  <2>6. file.nextTask <= memory[p].nextTask /\ file.nextTask \in Nat /\ memory[p].nextTask \in Nat
    BY <1>2, <2>1, Constants DEF CounterInv, TypeInv, TypeOK, Saved
  <2> QED BY <2>1, <2>2, <2>5, <2>6
<1> QED BY <1>1, <1>2, CounterInit, TypeInvariant, PTL DEF Spec, SavedTasksAreNotReused

-----------------------------------------------------------------------------
(* The server keeps the ledger.                                             *)

\* A server has the receipts of the file, and the file agrees with every verdict
\* that a client was told.
AgreeInv ==
  /\ \A p \in Servers : up[p] =>
       \A k \in Keys : memory[p].receipts[k] # NoReceipt =>
         file.receipts[k] = memory[p].receipts[k]
  /\ \A n \in DOMAIN ops, a \in Status :
       a \in ops[n].answers => file.receipts[n].status = a

LEMMA AgreeInit == Init => AgreeInv
<1> SUFFICES ASSUME Init PROVE AgreeInv
  OBVIOUS
<1>1. DOMAIN ops = {}
  BY EmptySeq DEF Init
<1> QED BY <1>1 DEF Init, AgreeInv

LEMMA HandleAgrees ==
  ASSUME TypeInv, AgreeInv, NEW p \in Servers, up[p],
         NEW h \in Seq(Operation), Len(h) <= MaxOps,
         NEW n \in DOMAIN h, Handle(p, n, h),
         \A i \in DOMAIN ops : h[i] = ops[i],
         \A i \in DOMAIN h : h[i].key = i /\ (i \notin DOMAIN ops => h[i].answers = {}),
         UNCHANGED <<file, memory, up>>
  PROVE  AgreeInv'
<1>1. /\ Begins(p, n, h) \/ Replays(p, n, h)
      /\ DOMAIN ops' = DOMAIN h
  BY HandleIs DEF TypeInv
<1>2. n \in Keys /\ h[n].key = n
  <2>1. DOMAIN h = 1..Len(h) /\ Len(h) \in Nat
    BY LenProperties
  <2> QED BY <2>1, Constants DEF Keys
<1>3. \A i \in DOMAIN h, a \in Status : a \in h[i].answers => file.receipts[i].status = a
  BY DEF AgreeInv
<1>4. ASSUME NEW i \in DOMAIN h, NEW a \in Status, a \in ops'[i].answers
      PROVE  file.receipts[i].status = a
  <2>1. CASE Begins(p, n, h)
    BY <1>3, <1>4, <2>1 DEF Begins
  <2>2. CASE Replays(p, n, h)
    <3>1. PICK b \in Answers : /\ ops' = Answered(h, n, b)
                               /\ memory[p].receipts[n] # NoReceipt
                               /\ b \in Status => memory[p].receipts[n].status = b
      BY <1>2, <2>2 DEF Replays
    <3>2. a \in h[i].answers \/ (i = n /\ a = b)
      BY <1>4, <3>1, AnsweredIs
    <3>3. file.receipts[n] = memory[p].receipts[n]
      BY <1>2, <3>1 DEF AgreeInv
    <3> QED BY <1>3, <3>1, <3>2, <3>3
  <2> QED BY <1>1, <2>1, <2>2
<1> QED BY <1>1, <1>4 DEF AgreeInv

LEMMA SaveAgrees ==
  ASSUME One, TypeInv, AnswerInv, CounterInv, OnceInv, AgreeInv, NEW p \in Servers,
         SaveState(p) \/ SaveFails(p)
  PROVE  AgreeInv'
<1>1. /\ Finished(p) /\ work[p] # NoWork /\ up' = up
      /\ file' \in {file, WithReceipt(p)}
  BY SaveIs
<1>2. PICK a \in Answers :
        /\ Answer(p, a)
        /\ \/ /\ a = work[p].phase /\ a \in Status
              /\ file' = WithReceipt(p) /\ memory'[p] = WithReceipt(p)
           \/ a \notin Status /\ memory'[p] = memory[p]
  BY SaveIs
<1>3. PICK n \in DOMAIN ops : n = work[p].op
  BY <1>1 DEF TypeInv
<1>4. /\ DOMAIN ops' = DOMAIN ops
      /\ \A i \in DOMAIN ops : /\ i = n => ops'[i].answers = ops[i].answers \cup {a}
                               /\ i # n => ops'[i].answers = ops[i].answers
  BY <1>1, <1>2, <1>3, AnswerIs
<1>5. /\ up[p] /\ ops[n].key = n /\ n \in Keys
      /\ \A i \in DOMAIN ops : i \in Keys
  <2>1. DOMAIN ops = 1..Len(ops) /\ Len(ops) \in Nat /\ Len(ops) <= MaxOps
    BY LenProperties DEF TypeInv, TypeOK
  <2> QED BY <1>1, <2>1, Constants DEF CounterInv, AnswerInv, Keys
<1>6. \A k \in Keys :
        /\ k = n => /\ WithReceipt(p).receipts[k] # NoReceipt
                    /\ WithReceipt(p).receipts[k].status = work[p].phase
        /\ k # n => WithReceipt(p).receipts[k] = memory[p].receipts[k]
  BY <1>1, <1>3, <1>5, WithReceiptIs
<1>7. memory[p].receipts[n] = NoReceipt
  BY <1>1, <1>3 DEF OnceInv
<1>8. ASSUME NEW k \in Keys, memory'[p].receipts[k] # NoReceipt
      PROVE  file'.receipts[k] = memory'[p].receipts[k]
  <2>1. CASE memory'[p] = WithReceipt(p) /\ file' = WithReceipt(p)
    BY <2>1
  <2>2. CASE memory'[p] = memory[p]
    <3>1. k # n /\ file.receipts[k] = memory[p].receipts[k]
      BY <1>5, <1>7, <1>8, <2>2 DEF AgreeInv
    <3> QED BY <1>1, <1>6, <2>2, <3>1
  <2> QED BY <1>2, <2>1, <2>2
<1>9. ASSUME NEW i \in DOMAIN ops, NEW b \in Status, b \in ops'[i].answers
      PROVE  file'.receipts[i].status = b
  <2>1. CASE b \in ops[i].answers
    <3>1. memory[p].receipts[i] # NoReceipt
      BY <1>5, <2>1 DEF OnceInv
    <3>2. i # n /\ file.receipts[i] = memory[p].receipts[i] /\ file.receipts[i].status = b
      BY <1>5, <1>7, <2>1, <3>1 DEF AgreeInv
    <3> QED BY <1>1, <1>5, <1>6, <3>2
  <2>2. CASE b \notin ops[i].answers
    <3>1. i = n /\ b = a
      BY <1>4, <1>9, <2>2
    <3> QED BY <1>2, <1>5, <1>6, <3>1
  <2> QED BY <2>1, <2>2
<1> QED BY <1>1, <1>4, <1>8, <1>9 DEF AgreeInv, One

LEMMA IssueAgrees ==
  ASSUME TypeInv, AnswerInv, AgreeInv, ~KeysPerLaunch, NEW p \in Servers,
         NEW command \in Commands, NEW task \in Tasks \cup {None}, Issue(p, command, task)
  PROVE  AgreeInv'
<1> DEFINE n == Len(ops) + 1
<1>1. PICK op \in Operation :
        LET h == Append(ops, op) IN
        /\ op.answers = {} /\ op.key = n
        /\ h \in Seq(Operation) /\ Len(h) = n /\ Len(h) <= MaxOps
        /\ DOMAIN h = 1..n /\ n \in DOMAIN h
        /\ DOMAIN ops = 1..Len(ops) /\ Len(ops) \in Nat
        /\ \A i \in DOMAIN ops : h[i] = ops[i] /\ i \in DOMAIN h
        /\ h[n] = op
        /\ Handle(p, n, h)
        /\ Free(p) /\ UNCHANGED <<file, up, memory, effects>>
  BY IssueIs
<1> DEFINE h == Append(ops, op)
<1>2. /\ h \in Seq(Operation) /\ Len(h) <= MaxOps /\ n \in DOMAIN h /\ Handle(p, n, h)
      /\ \A i \in DOMAIN ops : h[i] = ops[i]
      /\ UNCHANGED <<file, memory, up>> /\ up[p]
  BY <1>1 DEF Free
<1>3. ASSUME NEW i \in DOMAIN h
      PROVE  h[i].key = i /\ (i \notin DOMAIN ops => h[i].answers = {})
  <2>1. CASE i \in DOMAIN ops
    BY <1>1, <2>1 DEF AnswerInv
  <2>2. CASE i \notin DOMAIN ops
    <3>1. i = n
      BY <1>1, <2>2
    <3> QED BY <1>1, <2>2, <3>1
  <2> QED BY <2>1, <2>2
<1> HIDE DEF h, n
<1> QED BY <1>2, <1>3, HandleAgrees

LEMMA AgreeNext ==
  One /\ ~KeysPerLaunch =>
    (TypeInv /\ AnswerInv /\ CounterInv /\ OnceInv /\ AgreeInv /\ [Next]_vars => AgreeInv')
<1> SUFFICES ASSUME One, ~KeysPerLaunch, TypeInv, AnswerInv, CounterInv, OnceInv, AgreeInv,
                    [Next]_vars
             PROVE  AgreeInv'
  OBVIOUS
<1>1. ASSUME NEW p \in Servers, Start(p) PROVE AgreeInv'
  BY <1>1, StartIs DEF AgreeInv, One
<1>2. ASSUME NEW p \in Servers, Exit(p) PROVE AgreeInv'
  BY <1>2, ExitIs DEF AgreeInv, One
<1>3. ASSUME NEW p \in Servers, NEW n \in DOMAIN ops, Retry(p, n) PROVE AgreeInv'
  <2>1. /\ ops \in Seq(Operation) /\ Len(ops) <= MaxOps /\ Handle(p, n, ops)
        /\ UNCHANGED <<file, memory, up>> /\ up[p]
        /\ \A i \in DOMAIN ops : ops[i].key = i
    BY <1>3 DEF TypeInv, TypeOK, Retry, AnswerInv, Free
  <2> QED BY <2>1, HandleAgrees
<1>4. ASSUME NEW p \in Servers, Dispatch(p) PROVE AgreeInv'
  BY <1>4, DispatchIs DEF AgreeInv, One
<1>5. CASE UNCHANGED vars
  BY <1>5 DEF vars, AgreeInv
<1> QED BY <1>1, <1>2, <1>3, <1>4, <1>5, IssueAgrees, SaveAgrees DEF Next, Dispatch

LEMMA AskedIs ==
  ASSUME NEW h \in Seq(Operation)
  PROVE  /\ Len(AskedIn(h)) = Len(h) /\ Len(VerdictIn(h)) = Len(h)
         /\ DOMAIN h = 1..Len(h) /\ Len(h) \in Nat
         /\ DOMAIN AskedIn(h) = DOMAIN h /\ DOMAIN VerdictIn(h) = DOMAIN h
         /\ \A n \in DOMAIN h : /\ AskedIn(h)[n] = h[n].command
                                /\ VerdictIn(h)[n] = h[n].answers \cap Status
<1>1. DOMAIN h = 1..Len(h) /\ Len(h) \in Nat
  BY LenProperties
<1>2. /\ DOMAIN AskedIn(h) = DOMAIN h /\ DOMAIN VerdictIn(h) = DOMAIN h
      /\ \A n \in DOMAIN h : /\ AskedIn(h)[n] = h[n].command
                             /\ VerdictIn(h)[n] = h[n].answers \cap Status
  BY DEF AskedIn, VerdictIn
<1>3. ASSUME NEW s, DOMAIN s = DOMAIN h, s = [i \in DOMAIN h |-> s[i]] PROVE Len(s) = Len(h)
  <2> DEFINE S == {s[i] : i \in DOMAIN h}
  <2>1. s \in [1..Len(h) -> S]
    BY <1>1, <1>3
  <2> HIDE DEF S
  <2>2. s \in Seq(S)
    BY <1>1, <2>1, SeqDef
  <2>3. Len(s) \in Nat /\ 1..Len(s) = 1..Len(h)
    BY <1>1, <1>3, <2>2, LenProperties
  <2> QED BY <1>1, <2>3
<1>4. /\ AskedIn(h) = [i \in DOMAIN h |-> AskedIn(h)[i]]
      /\ VerdictIn(h) = [i \in DOMAIN h |-> VerdictIn(h)[i]]
  BY DEF AskedIn, VerdictIn
<1> QED BY <1>1, <1>2, <1>3, <1>4

\* An answer is no verdict, or one that was told before, or the first.
LEMMA AnswerDecides ==
  ASSUME NEW h \in Seq(Operation), NEW g \in Seq(Operation), DOMAIN g = DOMAIN h,
         NEW n \in DOMAIN h, NEW a \in Answers,
         \A i \in DOMAIN h :
           /\ g[i].command = h[i].command
           /\ i = n => g[i].answers = h[i].answers \cup {a}
           /\ i # n => g[i].answers = h[i].answers
  PROVE  /\ AskedIn(g) = AskedIn(h)
         /\ a \notin Status \/ a \in h[n].answers => VerdictIn(g) = VerdictIn(h)
         /\ a \in Status /\ h[n].answers \cap Status = {} =>
              /\ VerdictIn(g)[n] = {a}
              /\ \A i \in DOMAIN h : i # n => VerdictIn(g)[i] = VerdictIn(h)[i]
<1>1. AskedIn(g) = AskedIn(h)
  BY DEF AskedIn
<1>2. ASSUME a \notin Status \/ a \in h[n].answers PROVE VerdictIn(g) = VerdictIn(h)
  <2>1. \A i \in DOMAIN h : g[i].answers \cap Status = h[i].answers \cap Status
    BY <1>2
  <2> QED BY <2>1 DEF VerdictIn
<1>3. ASSUME a \in Status, h[n].answers \cap Status = {}
      PROVE  /\ VerdictIn(g)[n] = {a}
             /\ \A i \in DOMAIN h : i # n => VerdictIn(g)[i] = VerdictIn(h)[i]
  <2>1. \A i \in DOMAIN h : /\ VerdictIn(g)[i] = g[i].answers \cap Status
                            /\ VerdictIn(h)[i] = h[i].answers \cap Status
    BY DEF VerdictIn
  <2>2. VerdictIn(g)[n] = {a}
    BY <1>3, <2>1
  <2>3. ASSUME NEW i \in DOMAIN h, i # n PROVE VerdictIn(g)[i] = VerdictIn(h)[i]
    BY <2>1, <2>3
  <2> QED BY <2>2, <2>3
<1> QED BY <1>1, <1>2, <1>3

LEMMA HasIs ==
  ASSUME TypeInv
  PROVE  \A n, kind : Has(n, kind) <=> Ledger!Has(n, kind)
<1>1. DOMAIN effects = 1..Len(effects)
  BY LenProperties DEF TypeInv, TypeOK
<1> QED BY <1>1 DEF Has, EffectsOf, Ledger!Has

LEMMA ExecutedIs ==
  ASSUME TypeInv, NEW n \in DOMAIN ops
  PROVE  Executed(n) <=> \A kind \in KindsOf(ops[n].command) : Ledger!Has(n, kind)
  BY HasIs DEF Executed, KindsOf

\* A new operation is asked for and begun: no receipt has its key.
LEMMA IssueIsAsk ==
  ASSUME TypeInv, AnswerInv, ~KeysPerLaunch, NEW p \in Servers,
         NEW command \in Commands, NEW task \in Tasks \cup {None}, Issue(p, command, task)
  PROVE  Ledger!Ask
<1>1. PICK op \in Operation :
        LET h == Append(ops, op) IN
        /\ op.answers = {} /\ op.key = Len(ops) + 1
        /\ h \in Seq(Operation) /\ Len(h) = Len(ops) + 1 /\ Len(h) <= MaxOps
        /\ Len(ops) + 1 \in DOMAIN h /\ DOMAIN h = 1..(Len(ops) + 1)
        /\ DOMAIN ops = 1..Len(ops) /\ Len(ops) \in Nat
        /\ \A i \in DOMAIN ops : h[i] = ops[i] /\ i \in DOMAIN h
        /\ h[Len(ops) + 1] = op
        /\ Handle(p, Len(ops) + 1, h)
        /\ UNCHANGED <<file, up, memory, effects>>
  BY IssueIs
<1> DEFINE h == Append(ops, op)
           n == Len(ops) + 1
<1>2. /\ h \in Seq(Operation) /\ Len(ops) \in Nat /\ n = Len(ops) + 1 /\ n \in DOMAIN h
      /\ Len(h) = n /\ Len(h) <= MaxOps /\ h[n] = op /\ op.answers = {} /\ op.key = n
      /\ \A i \in DOMAIN ops : h[i] = ops[i] /\ i \in DOMAIN h
      /\ DOMAIN ops = 1..Len(ops)
      /\ Handle(p, n, h) /\ UNCHANGED effects
  BY <1>1
<1> HIDE DEF h, n
<1>3. ops' = h
  <2>1. ~Replays(p, n, h)
    <3>1. n \notin DOMAIN ops /\ n \in Keys
      BY <1>2, Constants DEF Keys
    <3> QED BY <1>2, <3>1 DEF Replays, AnswerInv, Truthful
  <2> QED BY <1>2, <2>1, HandleIs DEF TypeInv, Begins
<1>4. /\ Len(AskedIn(h)) = n /\ Len(VerdictIn(h)) = n
      /\ Len(AskedIn(ops)) = Len(ops) /\ Len(VerdictIn(ops)) = Len(ops)
      /\ \A i \in DOMAIN ops : /\ AskedIn(h)[i] = h[i].command /\ AskedIn(ops)[i] = ops[i].command
                               /\ VerdictIn(h)[i] = h[i].answers \cap Status
                               /\ VerdictIn(ops)[i] = ops[i].answers \cap Status
      /\ VerdictIn(h)[n] = h[n].answers \cap Status
  BY <1>2, AskedIs DEF TypeInv, TypeOK
<1>5. /\ \A i \in 1..Len(ops) : /\ AskedIn(h)[i] = AskedIn(ops)[i]
                                /\ VerdictIn(h)[i] = VerdictIn(ops)[i]
      /\ VerdictIn(h)[n] = {}
  <2>1. \A i \in 1..Len(ops) : i \in DOMAIN ops /\ h[i] = ops[i]
    BY <1>2
  <2>2. h[n].answers \cap Status = {}
    BY <1>2
  <2>3. VerdictIn(h)[n] = {}
    BY <1>4, <2>2
  <2>4. \A i \in 1..Len(ops) : /\ AskedIn(h)[i] = AskedIn(ops)[i]
                              /\ VerdictIn(h)[i] = VerdictIn(ops)[i]
    BY <1>4, <2>1, Zenon
  <2> QED BY <2>3, <2>4
<1> QED BY <1>2, <1>3, <1>4, <1>5 DEF Ledger!Ask, Ledger!LongerByOne

\* What an answer to operation n is to the ledger, if it agrees with earlier ones.
LEMMA AnswerIsDecide ==
  ASSUME TypeInv, NEW n \in DOMAIN ops, NEW a \in Answers, ops' \in Seq(Operation),
         DOMAIN ops' = DOMAIN ops, UNCHANGED effects,
         \A i \in DOMAIN ops :
           /\ ops'[i].command = ops[i].command
           /\ i = n => ops'[i].answers = ops[i].answers \cup {a}
           /\ i # n => ops'[i].answers = ops[i].answers,
         a \in Status => \A b \in ops[n].answers \cap Status : b = a,
         a = "accepted" => Executed(n)
  PROVE  [Ledger!Next]_(Ledger!vars)
<1>1. /\ AskedIn(ops)' = AskedIn(ops)
      /\ a \notin Status \/ a \in ops[n].answers => VerdictIn(ops)' = VerdictIn(ops)
      /\ a \in Status /\ ops[n].answers \cap Status = {} =>
           /\ VerdictIn(ops)'[n] = {a}
           /\ \A i \in DOMAIN ops : i # n => VerdictIn(ops)'[i] = VerdictIn(ops)[i]
  BY AnswerDecides DEF TypeInv, TypeOK
<1>2. CASE a \notin Status \/ a \in ops[n].answers
  BY <1>1, <1>2 DEF Ledger!vars
<1>3. CASE a \in Status /\ a \notin ops[n].answers
  <2>1. ops[n].answers \cap Status = {}
    BY <1>3
  <2>2. /\ VerdictIn(ops)[n] = {} /\ n \in 1..Len(AskedIn(ops))
        /\ AskedIn(ops)[n] = ops[n].command
    BY <2>1, AskedIs DEF TypeInv, TypeOK
  <2>3. a = "accepted" => \A kind \in KindsOf(AskedIn(ops)[n]) : Ledger!Has(n, kind)
    BY <2>2, ExecutedIs
  <2>4. /\ Len(VerdictIn(ops)') = Len(VerdictIn(ops))
        /\ \A i \in 1..Len(AskedIn(ops)) : i \in DOMAIN ops
    BY AskedIs, LenProperties DEF TypeInv, TypeOK
  <2>5. Ledger!Decide(n, a)
    BY <1>1, <1>3, <2>1, <2>2, <2>3, <2>4 DEF Ledger!Decide
  <2> QED BY <1>3, <2>2, <2>5 DEF Ledger!Next
<1> QED BY <1>2, <1>3

LEMMA RetryIsDecide ==
  ASSUME TypeInv, AnswerInv, AgreeInv, NEW p \in Servers, NEW n \in DOMAIN ops, Retry(p, n)
  PROVE  [Ledger!Next]_(Ledger!vars)
<1>1. /\ ops \in Seq(Operation) /\ Len(ops) <= MaxOps /\ Handle(p, n, ops)
      /\ UNCHANGED effects /\ up[p] /\ ops[n].key = n
  BY DEF TypeInv, TypeOK, Retry, AnswerInv, Free
<1>2. n \in Keys
  <2>1. DOMAIN ops = 1..Len(ops) /\ Len(ops) \in Nat
    BY <1>1, LenProperties
  <2> QED BY <1>1, <2>1, Constants DEF Keys
<1>3. CASE Begins(p, n, ops)
  BY <1>1, <1>3 DEF Begins, Ledger!vars
<1>4. CASE Replays(p, n, ops)
  <2>1. PICK a \in Answers : /\ ops' = Answered(ops, n, a)
                             /\ memory[p].receipts[n] # NoReceipt
                             /\ a \in Status => memory[p].receipts[n].status = a
    BY <1>1, <1>4 DEF Replays
  <2>2. /\ ops' \in Seq(Operation) /\ DOMAIN ops' = DOMAIN ops
        /\ \A i \in DOMAIN ops :
             /\ i = n => ops'[i].answers = ops[i].answers \cup {a}
             /\ i # n => ops'[i].answers = ops[i].answers
    BY <1>1, <2>1, AnsweredIs
  <2>3. \A i \in DOMAIN ops : ops'[i].command = ops[i].command
    BY <1>1, <2>1, AnsweredIs
  <2>4. a \in Status => \A b \in ops[n].answers \cap Status : b = a
    BY <1>1, <1>2, <2>1 DEF AgreeInv
  <2>5. a = "accepted" => Executed(n)
    BY <1>2, <2>1 DEF AnswerInv, Truthful, Status
  <2> QED BY <1>1, <2>2, <2>3, <2>4, <2>5, AnswerIsDecide
<1> QED BY <1>1, <1>3, <1>4, HandleIs DEF TypeInv

LEMMA SaveIsDecide ==
  ASSUME TypeInv, AnswerInv, CounterInv, OnceInv, NEW p \in Servers, SaveState(p) \/ SaveFails(p)
  PROVE  [Ledger!Next]_(Ledger!vars)
<1>1. /\ Finished(p) /\ work[p] # NoWork /\ UNCHANGED effects /\ up[p]
  BY SaveIs DEF CounterInv
<1>2. PICK a \in Answers : Answer(p, a) /\ (a = work[p].phase \/ a \notin Status)
  BY SaveIs
<1>3. PICK n \in DOMAIN ops : n = work[p].op
  BY <1>1 DEF TypeInv
<1>4. /\ ops' \in Seq(Operation) /\ DOMAIN ops' = DOMAIN ops
      /\ \A i \in DOMAIN ops : /\ ops'[i].command = ops[i].command
                               /\ i = n => ops'[i].answers = ops[i].answers \cup {a}
                               /\ i # n => ops'[i].answers = ops[i].answers
  BY <1>1, <1>2, <1>3, AnswerIs
<1>5. ops[n].answers \cap Status = {}
  BY <1>1, <1>3 DEF OnceInv
<1>6. a = "accepted" => Executed(n)
  BY <1>1, <1>2, <1>3 DEF AnswerInv, InOrder, Executed, Status
<1> QED BY <1>1, <1>4, <1>5, <1>6, AnswerIsDecide

\* A command commits the effects it needs.
LEMMA DispatchKinds ==
  ASSUME TypeInv, AnswerInv, NEW p \in Servers, Dispatch(p)
  PROVE  \/ effects' = effects
         \/ \E task \in Tasks, kind \in KindsOf(ops[work[p].op].command) :
              effects' = Append(effects, EffectOf(p, kind, task))
<1>1. work[p] # NoWork
  BY DispatchIs
<1>2. /\ work[p].phase \in {"create", "propose"} => ops[work[p].op].command \in Creates
      /\ work[p].phase = "mutate" => ops[work[p].op].command \notin Creates
  BY <1>1 DEF AnswerInv, InOrder
<1>3. CASE CreateTask(p)
  BY <1>2, <1>3, CreateTaskIs DEF KindsOf, Commits, Done, EffectOf
<1>4. CASE ProposeScope(p)
  BY <1>2, <1>4, ProposeScopeIs DEF KindsOf, Commits, Done, EffectOf
<1>5. CASE Mutate(p)
  BY <1>2, <1>5, MutateIs DEF KindsOf, Commits, Done, EffectOf
<1> QED BY <1>3, <1>4, <1>5 DEF Dispatch

LEMMA DispatchIsAct ==
  ASSUME TypeInv, AnswerInv, CounterInv, OnceInv, NEW p \in Servers, Dispatch(p)
  PROVE  [Ledger!Next]_(Ledger!vars)
<1>1. ops' = ops /\ work[p] # NoWork /\ up[p]
  BY DispatchIs DEF CounterInv
<1>2. CASE effects' = effects
  BY <1>1, <1>2 DEF Ledger!vars
<1>3. CASE effects' # effects
  <2>1. PICK n \in DOMAIN ops : n = work[p].op
    BY <1>1 DEF TypeInv
  <2>2. PICK task \in Tasks, kind \in KindsOf(ops[n].command) :
          effects' = Append(effects, EffectOf(p, kind, task))
    BY <1>3, <2>1, DispatchKinds
  <2> DEFINE e == EffectOf(p, kind, task)
  <2>3. e.op = n /\ e.kind = kind
    BY <2>1 DEF EffectOf
  <2>4. e \in Effect /\ effects \in Seq(Effect)
    BY <1>1, <2>2, WorkFields DEF Effect, EffectOf, KindsOf, TypeInv, TypeOK
  <2> HIDE DEF e
  <2>5. /\ Len(effects') = Len(effects) + 1 /\ effects'[Len(effects')] = e
        /\ \A i \in 1..Len(effects) : effects'[i] = effects[i]
    BY <2>2, <2>4, AppendIs DEF e
  <2>6. ops[n].answers \cap Status = {}
    BY <1>1, <2>1 DEF OnceInv
  <2>7. /\ n \in 1..Len(AskedIn(ops)) /\ AskedIn(ops)[n] = ops[n].command
        /\ VerdictIn(ops)[n] = {}
    BY <2>6, AskedIs DEF TypeInv, TypeOK
  <2>8. Ledger!Act
    BY <1>1, <2>3, <2>5, <2>7 DEF Ledger!Act, Ledger!LongerByOne
  <2> QED BY <2>8 DEF Ledger!Next
<1> QED BY <1>2, <1>3

\* One server whose clients draw their keys at random keeps the ledger: a client is
\* told one verdict on its operation, which is true, and after which the operation
\* has no effect, whatever fails, ends or is sent again.
THEOREM ServerKeepsLedger == One /\ ~KeysPerLaunch => (Spec => KeepsLedger)
<1> SUFFICES ASSUME One, ~KeysPerLaunch PROVE Spec => KeepsLedger
  OBVIOUS
<1> DEFINE Inv == TypeInv /\ AnswerInv /\ CounterInv /\ OnceInv /\ AgreeInv
<1>1. Init => Inv
  BY TypeInit, AnswerInit, CounterInit, OnceInit, AgreeInit
<1>2. Inv /\ [Next]_vars => Inv'
  BY TypeNext, AnswerNext, CounterNext, OnceNext, AgreeNext
<1>3. Init => Ledger!Init
  <2> SUFFICES ASSUME Init PROVE Ledger!Init
    OBVIOUS
  <2>1. ops = <<>> /\ effects = <<>> /\ DOMAIN ops = {}
    BY EmptySeq DEF Init
  <2>2. AskedIn(ops) = <<>> /\ VerdictIn(ops) = <<>>
    BY <2>1 DEF AskedIn, VerdictIn
  <2> QED BY <2>1, <2>2 DEF Ledger!Init
<1>4. ASSUME Inv, [Next]_vars PROVE [Ledger!Next]_(Ledger!vars)
  <2>1. ASSUME NEW p \in Servers, Start(p) \/ Exit(p) PROVE [Ledger!Next]_(Ledger!vars)
    <3>1. UNCHANGED <<ops, effects>>
      BY <2>1 DEF Start, Exit
    <3> QED BY <3>1 DEF Ledger!vars
  <2>2. CASE UNCHANGED vars
    BY <2>2 DEF vars, Ledger!vars
  <2>3. ASSUME NEW p \in Servers, NEW command \in Commands, NEW task \in Tasks \cup {None},
               Issue(p, command, task)
        PROVE  [Ledger!Next]_(Ledger!vars)
    BY <1>4, <2>3, IssueIsAsk DEF Ledger!Next
  <2>4. ASSUME NEW p \in Servers, NEW n \in DOMAIN ops, Retry(p, n)
        PROVE  [Ledger!Next]_(Ledger!vars)
    BY <1>4, <2>4, RetryIsDecide
  <2>5. ASSUME NEW p \in Servers, Dispatch(p) PROVE [Ledger!Next]_(Ledger!vars)
    BY <1>4, <2>5, DispatchIsAct
  <2>6. ASSUME NEW p \in Servers, SaveState(p) \/ SaveFails(p)
        PROVE  [Ledger!Next]_(Ledger!vars)
    BY <1>4, <2>6, SaveIsDecide
  <2> QED BY <1>4, <2>1, <2>2, <2>3, <2>4, <2>5, <2>6 DEF Next, Dispatch
<1> HIDE DEF Inv
<1> QED BY <1>1, <1>2, <1>3, <1>4, PTL DEF Spec, KeepsLedger, Ledger!Spec

=============================================================================
