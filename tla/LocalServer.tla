---------------------------- MODULE LocalServer ----------------------------
(***************************************************************************)
(* The command path of internal/runtimeapi/local.go: a server that runs    *)
(* each idempotency key once and replays its receipt afterwards.  The      *)
(* receipts, the task counter and the active task are kept in memory and   *)
(* written to one state file after every command; the events a command     *)
(* commits go to the transaction logs of the tasks before that.            *)
(*                                                                         *)
(* A server handles one command at a time, under its mutex, but its        *)
(* process may end between any two writes.  What an operation of a client  *)
(* asks for is a command and a task; a payload is not modelled.            *)
(***************************************************************************)
EXTENDS Naturals, Sequences, FiniteSets

CONSTANTS Servers,         \* processes with a server on the same state directory
          Creates,         \* task.create commands
          Mutations,       \* the commands that commit one event to a task
          Faults,          \* what may go wrong, among AllFaults
          KeysPerLaunch,   \* whether a client numbers its keys from 1 at each launch
          MaxOps,          \* bound on the operations the clients issue
          MaxTasks,        \* bound on the task counter
          MaxEffects,      \* bound on the committed events
          None

AllFaults == {"exit",        \* the process of a server ends
              "lost save",   \* saveState fails before it replaces the file
              "late error",  \* saveState replaces the file and fails after that
              "refused",     \* a commit fails and leaves no event
              "unsynced"}    \* a commit fails and leaves its event

ASSUME LocalServerAssumptions ==
  /\ Faults \subseteq AllFaults
  /\ KeysPerLaunch \in BOOLEAN
  /\ MaxOps \in Nat /\ MaxTasks \in Nat /\ MaxEffects \in Nat
  /\ Creates \cap Mutations = {}
  /\ None \notin Nat

Commands == Creates \cup Mutations
Tasks == 1..MaxTasks
Keys == 1..MaxOps
Status == {"accepted", "rejected"}
Answers == Status \cup {"idempotency_conflict", "persistence_failed"}

Digest == [command : Commands, task : Tasks \cup {None}]
Receipt == [digest : Digest, status : Status]
NoReceipt == [digest |-> None, status |-> "none"]

\* localPersistentState
Saved == [nextTask : 0..MaxTasks, active : Tasks \cup {None},
          receipts : [Keys -> Receipt \cup {NoReceipt}]]

Fresh == [nextTask |-> 0, active |-> None, receipts |-> [k \in Keys |-> NoReceipt]]

Operation == [key : Keys, command : Commands, task : Tasks \cup {None},
              answers : SUBSET Answers]

Effect == [op : 1..MaxOps, kind : {"created", "proposed", "mutated"}, task : Tasks]

NoWork == [phase |-> "none"]

\* The command a server is running: the operation, the digest of its request,
\* and the task it acts on.
Work == {NoWork}
          \cup [phase : {"create", "propose", "mutate", "accepted", "rejected"},
                op : 1..MaxOps, digest : Digest, task : Tasks \cup {None}]

VARIABLES
  file,     \* the state file
  up,       \* up[p]: whether server p runs
  memory,   \* memory[p]: what server p holds of the state
  work,     \* work[p]: the command server p is running
  sequence, \* sequence[p]: the operations issued by the client of p in this launch
  ops,      \* the operations issued so far, with the answers they got
  effects   \* the events committed by commands, in the order of their commits

vars == <<file, up, memory, work, sequence, ops, effects>>

TypeOK ==
  /\ file \in Saved
  /\ up \in [Servers -> BOOLEAN]
  /\ memory \in [Servers -> Saved]
  /\ work \in [Servers -> Work]
  /\ sequence \in [Servers -> 0..MaxOps]
  /\ ops \in Seq(Operation) /\ Len(ops) <= MaxOps
  /\ effects \in Seq(Effect)

Init ==
  /\ file = Fresh
  /\ up = [p \in Servers |-> FALSE]
  /\ memory = [p \in Servers |-> Fresh]
  /\ work = [p \in Servers |-> NoWork]
  /\ sequence = [p \in Servers |-> 0]
  /\ ops = <<>>
  /\ effects = <<>>

-----------------------------------------------------------------------------
(* newRuntimeServer and loadState; the end of a process.                    *)

Loaded_NoCounter(state) == [state EXCEPT !.nextTask = 0]

Loaded(state) == state

Start(p) ==
  /\ ~up[p]
  /\ up' = [up EXCEPT ![p] = TRUE]
  /\ memory' = [memory EXCEPT ![p] = Loaded(file)]
  /\ UNCHANGED <<file, work, sequence, ops, effects>>

Exit(p) ==
  /\ "exit" \in Faults
  /\ up[p]
  /\ up' = [up EXCEPT ![p] = FALSE]
  /\ memory' = [memory EXCEPT ![p] = Fresh]
  /\ work' = [work EXCEPT ![p] = NoWork]
  /\ sequence' = [sequence EXCEPT ![p] = 0]
  /\ UNCHANGED <<file, ops, effects>>

-----------------------------------------------------------------------------
(* handleCommand, up to the dispatch.                                       *)

\* A request without a task means the active task, unless it creates one.
Resolved(p, command, task) ==
  IF task = None /\ command \notin Creates THEN memory[p].active ELSE task

Answered(history, n, answer) ==
  [history EXCEPT ![n].answers = @ \cup {answer}]

FirstPhase(command) == IF command \in Creates THEN "create" ELSE "mutate"

\* Server p is given operation n of the operations in history.
Handle(p, n, history) ==
  LET op == history[n]
      digest == [command |-> op.command, task |-> Resolved(p, op.command, op.task)]
      receipt == memory[p].receipts[op.key]
  IN \/ /\ receipt = NoReceipt
        /\ ops' = history
        /\ work' = [work EXCEPT ![p] = [phase |-> FirstPhase(op.command), op |-> n,
                                        digest |-> digest, task |-> digest.task]]
     \/ /\ receipt # NoReceipt
        /\ receipt.digest = digest
        /\ ops' = Answered(history, n, receipt.status)
        /\ UNCHANGED work
     \/ /\ receipt # NoReceipt
        /\ receipt.digest # digest
        /\ ops' = Answered(history, n, "idempotency_conflict")
        /\ UNCHANGED work

Free(p) == up[p] /\ work[p] = NoWork

\* A client issues a new operation.  Clients draw their keys at random, except
\* that the client of the terminal UI numbers them from 1 at each launch.
Issue(p, command, task) ==
  /\ Free(p)
  /\ Len(ops) < MaxOps
  /\ sequence' = [sequence EXCEPT ![p] = @ + 1]
  /\ LET key == IF KeysPerLaunch THEN sequence[p] + 1 ELSE Len(ops) + 1
         op == [key |-> key, command |-> command, task |-> task, answers |-> {}]
     IN Handle(p, Len(ops) + 1, Append(ops, op))
  /\ UNCHANGED <<file, up, memory, effects>>

\* A client that has no answer, or lost it, sends the operation again.
Retry(p, n) ==
  /\ Free(p)
  /\ ~KeysPerLaunch
  /\ Handle(p, n, ops)
  /\ UNCHANGED <<file, up, memory, sequence, effects>>

-----------------------------------------------------------------------------
(* dispatchCommand: one step per commit.                                    *)

Done(p, kind, task) ==
  /\ Len(effects) < MaxEffects
  /\ effects' = Append(effects, [op |-> work[p].op, kind |-> kind, task |-> task])

\* A commit whose error is dropped.
Commits_Unchecked(p, kind, task, next) ==
  /\ Done(p, kind, task) \/ ("refused" \in Faults /\ UNCHANGED effects)
  /\ work' = [work EXCEPT ![p].phase = next, ![p].task = task]

\* What Store.Commit may come to: the event is there or not, and the caller
\* is told so or told of an error.
Commits(p, kind, task, next) ==
  \/ /\ Done(p, kind, task)
     /\ work' = [work EXCEPT ![p].phase = next, ![p].task = task]
  \/ /\ "unsynced" \in Faults
     /\ Done(p, kind, task)
     /\ work' = [work EXCEPT ![p].phase = "rejected", ![p].task = task]
  \/ /\ "refused" \in Faults
     /\ UNCHANGED effects
     /\ work' = [work EXCEPT ![p].phase = "rejected", ![p].task = task]

NextTask(p) == [memory EXCEPT ![p].nextTask = @ + 1]

CreateTask(p) ==
  /\ work[p].phase = "create"
  /\ memory[p].nextTask < MaxTasks
  /\ Commits(p, "created", memory[p].nextTask + 1, "propose")
  /\ memory' = NextTask(p)
  /\ UNCHANGED <<file, up, sequence, ops>>

\* The second commit of task.create; only its success makes the task active.
ProposeScope(p) ==
  /\ work[p].phase = "propose"
  /\ Commits(p, "proposed", work[p].task, "accepted")
  /\ memory' = [memory EXCEPT ![p].active =
                  IF work'[p].phase = "accepted" THEN work[p].task ELSE @]
  /\ UNCHANGED <<file, up, sequence, ops>>

\* A command on a task: no task is an error before any commit.
Mutate(p) ==
  /\ work[p].phase = "mutate"
  /\ IF work[p].task = None
       THEN /\ work' = [work EXCEPT ![p].phase = "rejected"]
            /\ UNCHANGED effects
       ELSE Commits(p, "mutated", work[p].task, "accepted")
  /\ UNCHANGED <<file, up, memory, sequence, ops>>

-----------------------------------------------------------------------------
(* saveState, and the answer.                                               *)

WithReceipt(p) ==
  [memory[p] EXCEPT !.receipts[ops[work[p].op].key] =
     [digest |-> work[p].digest, status |-> work[p].phase]]

Finished_Early(p) == work[p] # NoWork

Finished(p) == work[p].phase \in Status

Answer(p, answer) ==
  /\ ops' = Answered(ops, work[p].op, answer)
  /\ work' = [work EXCEPT ![p] = NoWork]
  /\ UNCHANGED <<up, sequence, effects>>

SaveState_Unwritten(p) ==
  /\ Finished(p)
  /\ memory' = [memory EXCEPT ![p] = WithReceipt(p)]
  /\ UNCHANGED file
  /\ Answer(p, work[p].phase)

SaveState(p) ==
  /\ Finished(p)
  /\ file' = WithReceipt(p)
  /\ memory' = [memory EXCEPT ![p] = WithReceipt(p)]
  /\ Answer(p, work[p].phase)

\* The receipt is taken back; the events and the counter stay.
SaveFails(p) ==
  /\ Finished(p)
  /\ \/ "lost save" \in Faults /\ UNCHANGED file
     \/ "late error" \in Faults /\ file' = WithReceipt(p)
  /\ UNCHANGED memory
  /\ Answer(p, "persistence_failed")

Next ==
  \E p \in Servers :
    \/ Start(p)
    \/ Exit(p)
    \/ \E command \in Commands, task \in Tasks \cup {None} : Issue(p, command, task)
    \/ \E n \in DOMAIN ops : Retry(p, n)
    \/ CreateTask(p)
    \/ ProposeScope(p)
    \/ Mutate(p)
    \/ SaveState(p)
    \/ SaveFails(p)

Spec == Init /\ [][Next]_vars

-----------------------------------------------------------------------------
(* Properties.                                                              *)

KindsOf(command) ==
  IF command \in Creates THEN {"created", "proposed"} ELSE {"mutated"}

EffectsOf(n) == {i \in DOMAIN effects : effects[i].op = n}

Has(n, kind) == \E i \in EffectsOf(n) : effects[i].kind = kind

\* An operation that was answered "accepted" has had its effect: a receipt is
\* replayed only to the operation it was made for.
AcceptedMeansExecuted ==
  \A n \in DOMAIN ops :
    "accepted" \in ops[n].answers =>
      IF ops[n].command \in Creates THEN Has(n, "created") /\ Has(n, "proposed")
      ELSE Has(n, "mutated")

\* Once an operation was answered with a receipt it has no further effect,
\* however often it is repeated and whatever ended in between.
AnsweredOperationsAreOver ==
  [][\A n \in DOMAIN ops :
       ops[n].answers \cap Status # {} => EffectsOf(n)' = EffectsOf(n)]_vars

\* Verdicts are the answers that come from a receipt; others say that the client
\* may try again.
AskedIn(history) == [n \in DOMAIN history |-> history[n].command]

VerdictIn(history) == [n \in DOMAIN history |-> history[n].answers \cap Status]

Ledger == INSTANCE CommandLedger WITH
  Verdicts <- Status, Needs <- KindsOf, asked <- AskedIn(ops), verdict <- VerdictIn(ops)

\* For each operation its client is told one verdict, however often it asks; the
\* verdict is true if it is "accepted"; and the operation has no effect after it.
KeepsLedger == Ledger!Spec

\* A task counted in the state file is not created again: after a restart the
\* counter goes on from the last task of which a client may have been told.
SavedTasksAreNotReused ==
  [][\A i \in DOMAIN effects' \ DOMAIN effects :
       effects'[i].kind = "created" => effects'[i].task > file.nextTask]_vars

=============================================================================
