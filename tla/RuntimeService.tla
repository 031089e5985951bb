--------------------------- MODULE RuntimeService ---------------------------
(***************************************************************************)
(* internal/runtimeapi/service.go: the operations of the runtime on one    *)
(* task.  An operation loads the state, checks its preconditions, and      *)
(* emits an event: Emit reads the clock, and Commit takes the lock of the  *)
(* store again.  Between these three steps the other callers run.          *)
(***************************************************************************)
EXTENDS RuntimeStore

CONSTANTS Callers,     \* goroutines that call the service
          Statuses,    \* the task statuses they emit
          Drafted,     \* the statuses of the findings they create
          Permits,     \* Permits[s]: the challenges whose action scope s allows
          MaxVersion   \* bound on the versions given to a report

ASSUME ServiceAssumptions ==
  /\ Statuses \subseteq TaskStatus
  /\ Drafted \subseteq FindingStatus
  /\ Permits \in [Scopes -> SUBSET Challenges]
  /\ MaxVersion \in Nat

VARIABLES
  call,   \* call[c]: the operation of caller c that has passed its checks
  now     \* the clock of the service

vars == <<storeVars, call, now>>

Idle == [phase |-> "idle"]

Call == [phase : {"idle"}]
          \cup [phase : {"checked"}, draft : Draft]
          \cup [phase : {"stamped"}, event : Event]

TypeOK ==
  /\ StoreTypeOK
  /\ call \in [Callers -> Call]
  /\ now \in Nat

Init ==
  /\ StoreInit
  /\ call = [c \in Callers |-> Idle]
  /\ now = 0

-----------------------------------------------------------------------------
(* What an operation reads in the events it loaded.                         *)

DraftAt(i) == log[i].event.draft

ScopeEventAt(i) == DraftAt(i).type \in ScopeEvents

RequestAt(i, ch) == DraftAt(i).type = "approval.requested" /\ DraftAt(i).challenge = ch

\* The last event about the scope confirms it.
ScopeWasConfirmed(s) ==
  \E i \in DOMAIN log :
    /\ DraftAt(i) = [type |-> "scope.confirmed", scope |-> s]
    /\ \A j \in DOMAIN log : ScopeEventAt(j) => j <= i

ApprovalScopeActive_OnlyProposals(ch) ==
  /\ \E i \in DOMAIN log : RequestAt(i, ch)
  /\ \A i, j \in DOMAIN log :
       RequestAt(i, ch) /\ DraftAt(j).type = "scope.proposed" => j < i

\* The challenge was requested, and no event about the scope follows.
ApprovalScopeActive(ch) ==
  /\ \E i \in DOMAIN log : RequestAt(i, ch)
  /\ \A i, j \in DOMAIN log : RequestAt(i, ch) /\ ScopeEventAt(j) => j < i

-----------------------------------------------------------------------------
(* The operations, up to the call of emit.                                  *)

Starts(c, family) ==
  /\ family \in setting.families
  /\ call[c] = Idle
  /\ setting.serialised => \A other \in Callers : call[other] = Idle

Prepare(c, draft) ==
  /\ call' = [call EXCEPT ![c] = [phase |-> "checked", draft |-> draft]]
  /\ UNCHANGED <<setting, log, synced, promised, delivered, now>>

\* CreateTask, StartTask, and the task events of commands and of the adapter.
EmitTask(c, status) ==
  /\ Starts(c, "task")
  /\ UNCHANGED tail
  /\ Prepare(c, [type |-> "task", status |-> status])

ProposeScope(c, s) ==
  /\ Starts(c, "scope")
  /\ UNCHANGED tail
  /\ Prepare(c, [type |-> "scope.proposed", scope |-> s])

ConfirmScope(c, s) ==
  /\ Starts(c, "scope")
  /\ Load
  /\ View.scope = s
  /\ Prepare(c, [type |-> "scope.confirmed", scope |-> s])

RequestApproval(c, ch, expires) ==
  /\ Starts(c, "approval")
  /\ Load
  /\ View.scope # None
  /\ ScopeWasConfirmed(View.scope)
  /\ ch \in Permits[View.scope]
  /\ expires > now
  /\ Prepare(c, [type |-> "approval.requested", challenge |-> ch, expires |-> expires])

ResolveApproval(c, ch, decision) ==
  /\ Starts(c, "approval")
  /\ Load
  /\ View.approvals[ch].decision = "open"
  /\ ApprovalScopeActive(ch)
  /\ now <= View.approvals[ch].expires
  /\ Prepare(c, [type |-> "approval.resolved", challenge |-> ch, decision |-> decision])

TakeControl_SameRevision(c, client, expected) ==
  /\ Starts(c, "control")
  /\ Load
  /\ View.revision = expected
  /\ Prepare(c, [type |-> IF expected > 0 THEN "control.transferred" ELSE "control.acquired",
                 client |-> client, revision |-> expected])

TakeControl(c, client, expected) ==
  /\ Starts(c, "control")
  /\ Load
  /\ View.revision = expected
  /\ Prepare(c, [type |-> IF expected > 0 THEN "control.transferred" ELSE "control.acquired",
                 client |-> client, revision |-> expected + 1])

CommitEvidence(c, evidence, content) ==
  /\ Starts(c, "evidence")
  /\ UNCHANGED tail
  /\ Prepare(c, [type |-> "evidence.committed", evidence |-> evidence, content |-> content])

CreateFinding(c, finding, status, cites) ==
  /\ Starts(c, "finding")
  /\ Load
  /\ \A evidence \in cites : View.evidence[evidence] # None
  /\ Prepare(c, [type |-> "finding.created", finding |-> finding, status |-> status,
                 cites |-> cites])

TransitionFinding(c, finding, status) ==
  /\ Starts(c, "finding")
  /\ UNCHANGED tail
  /\ Prepare(c, [type |-> "finding.moved", finding |-> finding, status |-> status])

DraftReport(c, report, version, status) ==
  /\ Starts(c, "report")
  /\ UNCHANGED tail
  /\ Prepare(c, [type |-> "report.drafted", report |-> report, version |-> version,
                 status |-> status])

Editable_Frozen(report, version) ==
  View.report.report = report /\ version > View.report.version

\* EditReport and FreezeReport go on only from this report, not yet frozen.
Editable(report, version) ==
  /\ View.report.report = report
  /\ View.report.status # "frozen"
  /\ version > View.report.version

EditReport(c, report, version, status) ==
  /\ Starts(c, "report")
  /\ Load
  /\ Editable(report, version)
  /\ Prepare(c, [type |-> "report.edited", report |-> report, version |-> version,
                 status |-> status])

FreezeReport(c, report, version) ==
  /\ Starts(c, "report")
  /\ Load
  /\ Editable(report, version)
  /\ Prepare(c, [type |-> "report.frozen", report |-> report, version |-> version])

-----------------------------------------------------------------------------
(* emit: the clock, then the store.                                         *)

\* Emit gives the draft the time at which it was called.
Stamp(c) ==
  /\ call[c].phase = "checked"
  /\ call' = [call EXCEPT ![c] = [phase |-> "stamped",
                                  event |-> [draft |-> call[c].draft, at |-> now]]]
  /\ UNCHANGED <<storeVars, now>>

Emit(c) ==
  /\ call[c].phase = "stamped"
  /\ Commit(call[c].event)
  /\ call' = [call EXCEPT ![c] = Idle]
  /\ UNCHANGED now

-----------------------------------------------------------------------------
(* The environment: subscribers, the clock, and the end of the process with *)
(* or without the machine.                                                  *)

Subscribe(s) == "events" \in setting.families /\ EventsAfter(s) /\ UNCHANGED <<call, now>>

Tick ==
  /\ now < setting.maxTime
  /\ now' = now + 1
  /\ UNCHANGED <<storeVars, call>>

Kill ==
  /\ call' = [c \in Callers |-> Idle]
  /\ UNCHANGED <<storeVars, now>>

Outage ==
  /\ PowerLoss
  /\ call' = [c \in Callers |-> Idle]
  /\ UNCHANGED now

Begin(c) ==
  \/ \E status \in Statuses : EmitTask(c, status)
  \/ \E s \in setting.scopes : ProposeScope(c, s) \/ ConfirmScope(c, s)
  \/ \E ch \in Challenges, expires \in 0..setting.maxTime : RequestApproval(c, ch, expires)
  \/ \E ch \in Challenges, decision \in Decisions : ResolveApproval(c, ch, decision)
  \/ \E client \in Clients, expected \in 0..setting.maxEvents : TakeControl(c, client, expected)
  \/ \E evidence \in EvidenceIDs, content \in Contents : CommitEvidence(c, evidence, content)
  \/ \E finding \in FindingIDs, status \in Drafted, cites \in SUBSET EvidenceIDs :
       CreateFinding(c, finding, status, cites)
  \/ \E finding \in FindingIDs, status \in FindingStatus \ {"candidate"} :
       TransitionFinding(c, finding, status)
  \/ \E report \in Reports, version \in 0..MaxVersion, status \in {"draft", "frozen"} :
       DraftReport(c, report, version, status) \/ EditReport(c, report, version, status)
  \/ \E report \in Reports, version \in 1..MaxVersion : FreezeReport(c, report, version)

Next ==
  \/ \E c \in Callers : Begin(c) \/ Stamp(c) \/ Emit(c)
  \/ \E s \in Subscribers : Subscribe(s)
  \/ Tick
  \/ Kill
  \/ Outage

Spec == Init /\ [][Next]_vars

-----------------------------------------------------------------------------
(* Properties of the log that hold for any number of concurrent callers.    *)

Resolves(i, ch) == DraftAt(i).type = "approval.resolved" /\ DraftAt(i).challenge = ch

\* A challenge is decided at most once and no later than it expires, though
\* ResolveApproval checks both before it takes the lock: two callers may both
\* pass, and the challenge may expire before the commit.
DecidedOnceInTime ==
  \A i \in DOMAIN log, ch \in Challenges :
    Resolves(i, ch) =>
      /\ \A j \in DOMAIN log : Resolves(j, ch) => i = j
      /\ log[i].event.at <= StateAfter(i - 1).approvals[ch].expires

\* A finding cites only evidence the task has, whether CreateFinding's check
\* and its commit are interleaved with other commits or cut by an outage, and
\* every commit of an evidence record says the same.
FindingsCiteEvidence ==
  /\ \A finding \in FindingIDs :
       \A evidence \in View.findings[finding].cites : View.evidence[evidence] # None
  /\ \A i, j \in DOMAIN log :
       /\ DraftAt(i).type = "evidence.committed"
       /\ DraftAt(j).type = "evidence.committed"
       /\ DraftAt(i).evidence = DraftAt(j).evidence
       => DraftAt(i).content = DraftAt(j).content

\* Control is fenced: of two events that acquire or transfer it the later one has
\* the higher revision, though TakeControl compares the revision it has read before
\* the commit; so a lease that was replaced is never confused with its successor.
ControlMovesForward ==
  \A i, j \in DOMAIN log :
    /\ i < j
    /\ DraftAt(i).type \in ControlEvents
    /\ DraftAt(j).type \in ControlEvents
    => DraftAt(i).revision < DraftAt(j).revision

-----------------------------------------------------------------------------
(* Properties that need the callers to be serialised, as LocalServer does   *)
(* with its mutex: the check and the commit must see the same log.          *)

\* A challenge is requested only under a confirmed scope that permits it, and
\* decided only under the same: no scope was proposed or confirmed in between.
ApprovalsInScope ==
  setting.serialised => \A i \in DOMAIN log, ch \in Challenges :
    /\ RequestAt(i, ch) =>
         \E j \in 1..(i - 1) :
           /\ DraftAt(j).type = "scope.confirmed"
           /\ ch \in Permits[DraftAt(j).scope]
           /\ \A k \in (j + 1)..(i - 1) : ~ScopeEventAt(k)
    /\ Resolves(i, ch) =>
         \A j \in 1..(i - 1), k \in DOMAIN log :
           ScopeEventAt(j) /\ RequestAt(k, ch) => j < k

\* An edit or a freeze continues the report it names, before that report is
\* frozen and with a higher version; so what is frozen is what was reviewed.
ReportsMoveForward ==
  setting.serialised => \A i \in DOMAIN log :
    DraftAt(i).type \in {"report.edited", "report.frozen"} =>
      /\ StateAfter(i - 1).report.report = DraftAt(i).report
      /\ StateAfter(i - 1).report.status # "frozen"
      /\ StateAfter(i - 1).report.version < DraftAt(i).version
=============================================================================
