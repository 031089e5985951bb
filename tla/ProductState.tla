---------------------------- MODULE ProductState ----------------------------
(***************************************************************************)
(* The reducer of internal/productstate: what one validated product event  *)
(* does to the state of the task it belongs to.                            *)
(*                                                                         *)
(* Titles, narratives, parameter digests and the other texts an event      *)
(* carries are not modelled; identifiers are members of small sets.  The   *)
(* event families of agents, plans, artifacts, interactions, terminals,    *)
(* editor drafts and asset graphs are left to modules of their own.        *)
(***************************************************************************)
EXTENDS Naturals

CONSTANTS Scopes,       \* ids of scope snapshots
          Challenges,   \* ids of approval challenges
          Clients,      \* controllers that may take control
          EvidenceIDs,  \* ids of evidence records
          Contents,     \* what an evidence record may say
          FindingIDs,   \* ids of findings
          Reports,      \* ids of reports
          None          \* a nil pointer or an absent map entry

ASSUME NoneIsNoID ==
  None \notin Scopes \cup Challenges \cup Clients \cup EvidenceIDs
              \cup Contents \cup FindingIDs \cup Reports

-----------------------------------------------------------------------------
(* Events: the payload fields that the reducer reads, and the time at which *)
(* the runtime says the event occurred.                                     *)

\* What a task.<status> event makes of the task; task.started makes it running.
TaskStatus == {"created", "running", "paused", "resumed", "cancel.requested",
               "cancelled", "completed", "failed", "blocked"}

ScopeEvents == {"scope.proposed", "scope.confirmed"}
ControlEvents == {"control.acquired", "control.transferred"}

Decisions == {"allow_once", "deny"}

FindingStatus == {"candidate", "verifying", "confirmed", "rejected", "mitigated"}

\* The drafts of the service: an event before Emit stamps it with a time.
Draft ==
  [type : {"task"}, status : TaskStatus]
    \cup [type : ScopeEvents, scope : Scopes]
    \cup [type : {"approval.requested"}, challenge : Challenges, expires : Nat]
    \cup [type : {"approval.resolved"}, challenge : Challenges, decision : Decisions]
    \cup [type : ControlEvents, client : Clients, revision : Nat \ {0}]
    \cup [type : {"evidence.committed"}, evidence : EvidenceIDs, content : Contents]
    \cup [type : {"finding.created"}, finding : FindingIDs, status : FindingStatus,
          cites : SUBSET EvidenceIDs]
    \cup [type : {"finding.moved"}, finding : FindingIDs, status : FindingStatus \ {"candidate"}]
    \cup [type : {"report.drafted", "report.edited"}, report : Reports, version : Nat,
          status : {"draft", "frozen"}]
    \cup [type : {"report.frozen"}, report : Reports, version : Nat]

Event == [draft : Draft, at : Nat]

-----------------------------------------------------------------------------
(* The projected state.                                                     *)

Approval == [expires : Nat, decision : Decisions \cup {"open", "absent"}]

Finding == [status : FindingStatus \cup {"absent"}, cites : SUBSET EvidenceIDs]

Report == [report : Reports \cup {None}, version : Nat,
           status : {"absent", "draft", "frozen"}]

State == [task      : TaskStatus \cup {"none"},
          scope     : Scopes \cup {None},
          approvals : [Challenges -> Approval],
          revision  : Nat,                        \* HighestCommittedLeaseRevision
          holder    : Clients \cup {None},        \* ControlLease.ClientID
          evidence  : [EvidenceIDs -> Contents \cup {None}],
          findings  : [FindingIDs -> Finding],
          report    : Report]

NoApproval == [expires |-> 0, decision |-> "absent"]
NoFinding == [status |-> "absent", cites |-> {}]
NoReport == [report |-> None, version |-> 0, status |-> "absent"]

Initial == [task      |-> "none",
            scope     |-> None,
            approvals |-> [c \in Challenges |-> NoApproval],
            revision  |-> 0,
            holder    |-> None,
            evidence  |-> [e \in EvidenceIDs |-> None],
            findings  |-> [f \in FindingIDs |-> NoFinding],
            report    |-> NoReport]

FindingTransitions ==
  {<<"candidate", "verifying">>, <<"candidate", "rejected">>,
   <<"verifying", "confirmed">>, <<"verifying", "rejected">>,
   <<"confirmed", "mitigated">>}

\* Every challenge is requested once; a second request is the same challenge
\* still open, or a conflict.
AcceptsRequest(s, d) ==
  s.approvals[d.challenge] \in {NoApproval, [expires |-> d.expires, decision |-> "open"]}

AcceptsResolution_Replay(s, d, at) ==
  /\ s.approvals[d.challenge].decision # "absent"
  /\ at <= s.approvals[d.challenge].expires

AcceptsResolution(s, d, at) ==
  /\ s.approvals[d.challenge].decision = "open"
  /\ at <= s.approvals[d.challenge].expires

AcceptsControl_Same(s, d) == d.revision >= s.revision

AcceptsControl(s, d) == d.revision > s.revision

AcceptsEvidence_Any(s, d) == TRUE

\* Store.rejectEvidenceMutation, which the store asks before it projects.
AcceptsEvidence(s, d) == s.evidence[d.evidence] \in {None, d.content}

AcceptsMove(s, d) == <<s.findings[d.finding].status, d.status>> \in FindingTransitions

\* Whether the event may follow the state: Project returns no error.
Accepts(s, e) ==
  LET d == e.draft IN
  /\ d.type = "approval.requested" => AcceptsRequest(s, d)
  /\ d.type = "approval.resolved" => AcceptsResolution(s, d, e.at)
  /\ d.type \in ControlEvents => AcceptsControl(s, d)
  /\ d.type = "evidence.committed" => AcceptsEvidence(s, d)
  /\ d.type = "finding.moved" => AcceptsMove(s, d)

\* A task event that finds no task changes nothing, unless it makes the task.
TaskAfter(s, d) ==
  IF s.task = "none" /\ d.status \notin {"created", "running"} THEN "none" ELSE d.status

\* The report of the state, whichever report the event names.
Frozen(s, d) ==
  IF s.report.status = "absent" THEN s.report
  ELSE [s.report EXCEPT !.version = d.version, !.status = "frozen"]

Project(s, e) ==
  LET d == e.draft IN
  CASE d.type = "task" -> [s EXCEPT !.task = TaskAfter(s, d)]
    [] d.type \in ScopeEvents -> [s EXCEPT !.scope = d.scope]
    [] d.type = "approval.requested" ->
         [s EXCEPT !.approvals[d.challenge] = [expires |-> d.expires, decision |-> "open"]]
    [] d.type = "approval.resolved" ->
         [s EXCEPT !.approvals[d.challenge].decision = d.decision]
    [] d.type \in ControlEvents -> [s EXCEPT !.revision = d.revision, !.holder = d.client]
    [] d.type = "evidence.committed" -> [s EXCEPT !.evidence[d.evidence] = d.content]
    [] d.type = "finding.created" ->
         [s EXCEPT !.findings[d.finding] = [status |-> d.status, cites |-> d.cites]]
    [] d.type = "finding.moved" -> [s EXCEPT !.findings[d.finding].status = d.status]
    [] d.type \in {"report.drafted", "report.edited"} ->
         [s EXCEPT !.report = [report |-> d.report, version |-> d.version,
                                  status |-> d.status]]
    [] d.type = "report.frozen" -> [s EXCEPT !.report = Frozen(s, d)]
=============================================================================
