------------------------ MODULE RuntimeServiceProofs ------------------------
(***************************************************************************)
(* Proofs about RuntimeService for any callers, subscribers and settings:  *)
(* the log always loads, what was told stays, and decisions, findings and  *)
(* reports are what they should be, with any number of concurrent callers. *)
(***************************************************************************)
EXTENDS RuntimeService, SequenceTheorems, TLAPS

Cites(s) == \A f \in FindingIDs : \A ev \in s.findings[f].cites : s.evidence[ev] # None

\* What was decided, and what was committed as evidence, stays so in every later state.
DecidedInv ==
  \A i \in DOMAIN log, ch \in Challenges :
    Resolves(i, ch) =>
      \A k \in i..Len(log) : StateAfter(k).approvals[ch].decision \in Decisions

EvidenceInv ==
  \A i \in DOMAIN log : DraftAt(i).type = "evidence.committed" =>
    \A k \in i..Len(log) : StateAfter(k).evidence[DraftAt(i).evidence] = DraftAt(i).content

\* A state has the revision of the last event of control before it.
ControlInv ==
  \A i \in DOMAIN log : DraftAt(i).type \in ControlEvents =>
    \A k \in i..Len(log) : DraftAt(i).revision <= StateAfter(k).revision

CitesInv == \A k \in 0..Len(log) : Cites(StateAfter(k))

\* Only lines that were synced are promised, and where every sync succeeds all of
\* them are, so that no subscriber has read a line that may go away.
StayInv ==
  /\ \A p \in promised : p[1] \in 1..synced /\ log[p[1]].event = p[2]
  /\ "unsynced" \notin setting.writes =>
       /\ synced = Len(log)
       /\ \A s \in Subscribers : /\ Len(delivered[s]) <= Len(log)
                                 /\ \A i \in DOMAIN delivered[s] : delivered[s][i] = log[i].event

\* The last event about the scope confirms one that permits the challenge.
Requestable(ch) ==
  \E j \in 1..Len(log) :
    /\ DraftAt(j).type = "scope.confirmed"
    /\ ch \in Permits[DraftAt(j).scope]
    /\ \A k \in (j + 1)..Len(log) : ~ScopeEventAt(k)

\* What the check of an operation found is still so when it commits: citations for
\* any callers, the rest for serialised ones.
Ready(d) ==
  /\ d.type = "finding.created" => \A ev \in d.cites : View.evidence[ev] # None
  /\ setting.serialised =>
       /\ d.type = "approval.requested" => Requestable(d.challenge)
       /\ d.type = "approval.resolved" => ApprovalScopeActive(d.challenge)
       /\ d.type \in {"report.edited", "report.frozen"} =>
            /\ View.report.report = d.report
            /\ View.report.status # "frozen"
            /\ View.report.version < d.version

DraftOf(c) == IF call[c].phase = "checked" THEN call[c].draft ELSE call[c].event.draft

CallInv ==
  /\ \A c \in Callers : call[c] # Idle => Ready(DraftOf(c))
  /\ setting.serialised => \A c, d \in Callers : call[c] # Idle /\ call[d] # Idle => c = d

LogInv ==
  /\ FileLoads /\ DecidedInv /\ EvidenceInv /\ ControlInv /\ CitesInv
  /\ ApprovalsInScope /\ ReportsMoveForward

Inv == TypeOK /\ LogInv /\ StayInv /\ CallInv

-----------------------------------------------------------------------------
(* Lemmas about the reducer.                                                *)

\* What an event carries, by its type.
LEMMA DraftFields ==
  ASSUME NEW d \in Draft
  PROVE  /\ d.type \in {"task", "scope.proposed", "scope.confirmed", "approval.requested",
                        "approval.resolved", "control.acquired", "control.transferred",
                        "evidence.committed", "finding.created", "finding.moved",
                        "report.drafted", "report.edited", "report.frozen"}
         /\ d.type = "task" => d.status \in TaskStatus
         /\ d.type \in ScopeEvents => d.scope \in Scopes
         /\ d.type = "approval.requested" => d.challenge \in Challenges /\ d.expires \in Nat
         /\ d.type = "approval.resolved" => d.challenge \in Challenges /\ d.decision \in Decisions
         /\ d.type \in ControlEvents => d.client \in Clients /\ d.revision \in Nat \ {0}
         /\ d.type = "evidence.committed" => d.evidence \in EvidenceIDs /\ d.content \in Contents
         /\ d.type = "finding.created" => /\ d.finding \in FindingIDs /\ d.status \in FindingStatus
                                          /\ d.cites \in SUBSET EvidenceIDs
         /\ d.type = "finding.moved" => d.finding \in FindingIDs /\ d.status \in FindingStatus
         /\ d.type \in {"report.drafted", "report.edited"} =>
              d.report \in Reports /\ d.version \in Nat /\ d.status \in {"draft", "frozen"}
         /\ d.type = "report.frozen" => d.report \in Reports /\ d.version \in Nat
  BY DEF Draft, ScopeEvents, ControlEvents

\* The state after an event, field by field, with what keeps it a state.
LEMMA ProjectIs ==
  ASSUME NEW s \in State, NEW e \in Event
  PROVE  LET d == e.draft
             t == Project(s, e)
         IN /\ t \in State
            /\ \A ch \in Challenges :
                 \/ /\ t.approvals[ch] = s.approvals[ch]
                    /\ ~(d.type = "approval.resolved" /\ d.challenge = ch)
                 \/ d.type = "approval.requested" /\ d.challenge = ch
                 \/ /\ d.type = "approval.resolved" /\ d.challenge = ch
                    /\ t.approvals[ch].decision = d.decision
            /\ \A ev \in EvidenceIDs :
                 \/ /\ t.evidence[ev] = s.evidence[ev]
                    /\ ~(d.type = "evidence.committed" /\ d.evidence = ev)
                 \/ /\ d.type = "evidence.committed" /\ d.evidence = ev
                    /\ t.evidence[ev] = d.content
            /\ \A f \in FindingIDs :
                 \/ t.findings[f].cites = s.findings[f].cites
                 \/ /\ d.type = "finding.created" /\ d.finding = f
                    /\ t.findings[f].cites = d.cites
            /\ d.type = "evidence.committed" => t.findings = s.findings
            /\ d.type = "finding.created" => t.evidence = s.evidence
            /\ d.type \notin ControlEvents => t.revision = s.revision
            /\ d.type \in ControlEvents => t.revision = d.revision
<1> DEFINE d == e.draft
           t == Project(s, e)
<1>1. d \in Draft
  BY DEF Event
<1> HIDE DEF d
<1>2. /\ s.task \in TaskStatus \cup {"none"} /\ s.scope \in Scopes \cup {None}
      /\ s.approvals \in [Challenges -> Approval] /\ s.revision \in Nat
      /\ s.holder \in Clients \cup {None}
      /\ s.evidence \in [EvidenceIDs -> Contents \cup {None}]
      /\ s.findings \in [FindingIDs -> Finding] /\ s.report \in Report
  BY DEF State
<1>3. CASE d.type = "task"
  <2>1. t = [s EXCEPT !.task = TaskAfter(s, d)]
    BY <1>3 DEF Project, d, ScopeEvents, ControlEvents
  <2>2. TaskAfter(s, d) \in TaskStatus \cup {"none"}
    BY <1>1, <1>3, DraftFields DEF TaskAfter
  <2> HIDE DEF t
  <2>3. t \in State
    BY <2>1, <2>2 DEF State
  <2>4. /\ t.approvals = s.approvals /\ t.evidence = s.evidence /\ t.findings = s.findings
        /\ t.revision = s.revision
    BY <2>1 DEF State
  <2> QED BY <1>3, <2>3, <2>4 DEF d, t, ControlEvents
<1>4. CASE d.type \in ScopeEvents
  <2>1. t = [s EXCEPT !.scope = d.scope]
    BY <1>4 DEF Project, d, ScopeEvents, ControlEvents
  <2>2. d.scope \in Scopes
    BY <1>1, <1>4, DraftFields
  <2> HIDE DEF t
  <2>3. t \in State
    BY <2>1, <2>2 DEF State
  <2>4. /\ t.approvals = s.approvals /\ t.evidence = s.evidence /\ t.findings = s.findings
        /\ t.revision = s.revision
    BY <2>1 DEF State
  <2> QED BY <1>4, <2>3, <2>4 DEF d, t, ScopeEvents, ControlEvents
<1>5. CASE d.type = "approval.requested"
  <2> DEFINE a == [expires |-> d.expires, decision |-> "open"]
             approvals == [s.approvals EXCEPT ![d.challenge] = a]
  <2>1. t = [s EXCEPT !.approvals = approvals]
    BY <1>5 DEF Project, d, ScopeEvents, ControlEvents
  <2>2. approvals \in [Challenges -> Approval]
    BY <1>1, <1>2, <1>5, DraftFields DEF Approval
  <2>3. \A ch \in Challenges : ch # d.challenge => approvals[ch] = s.approvals[ch]
    BY <1>2
  <2> HIDE DEF t, approvals
  <2>4. t \in State
    BY <2>1, <2>2 DEF State
  <2>5. /\ t.approvals = approvals /\ t.evidence = s.evidence /\ t.findings = s.findings
        /\ t.revision = s.revision
    BY <2>1 DEF State
  <2> QED BY <1>5, <2>3, <2>4, <2>5 DEF d, t, ControlEvents
<1>6. CASE d.type = "approval.resolved"
  <2> DEFINE a == [s.approvals[d.challenge] EXCEPT !.decision = d.decision]
             approvals == [s.approvals EXCEPT ![d.challenge] = a]
  <2>1. t = [s EXCEPT !.approvals = approvals]
    BY <1>6 DEF Project, d, ScopeEvents, ControlEvents
  <2>2. d.challenge \in Challenges /\ d.decision \in Decisions
    BY <1>1, <1>6, DraftFields
  <2>3. a \in Approval /\ a.decision = d.decision
    BY <1>2, <2>2 DEF Approval
  <2> HIDE DEF t, a
  <2>4. /\ approvals \in [Challenges -> Approval] /\ approvals[d.challenge] = a
        /\ \A ch \in Challenges : ch # d.challenge => approvals[ch] = s.approvals[ch]
    BY <1>2, <2>2, <2>3
  <2> HIDE DEF approvals
  <2>5. t \in State
    BY <2>1, <2>4 DEF State
  <2>6. /\ t.approvals = approvals /\ t.evidence = s.evidence /\ t.findings = s.findings
        /\ t.revision = s.revision
    BY <2>1 DEF State
  <2> QED BY <1>6, <2>3, <2>4, <2>5, <2>6 DEF d, t, ControlEvents
<1>7. CASE d.type \in ControlEvents
  <2>1. t = [s EXCEPT !.revision = d.revision, !.holder = d.client]
    BY <1>7 DEF Project, d, ScopeEvents, ControlEvents
  <2>2. d.revision \in Nat /\ d.client \in Clients
    BY <1>1, <1>7, DraftFields
  <2> HIDE DEF t
  <2>3. t \in State
    BY <2>1, <2>2 DEF State
  <2>4. /\ t.approvals = s.approvals /\ t.evidence = s.evidence /\ t.findings = s.findings
        /\ t.revision = d.revision
    BY <2>1 DEF State
  <2> QED BY <1>7, <2>3, <2>4 DEF d, t, ControlEvents
<1>8. CASE d.type = "evidence.committed"
  <2> DEFINE evidence == [s.evidence EXCEPT ![d.evidence] = d.content]
  <2>1. t = [s EXCEPT !.evidence = evidence]
    BY <1>8 DEF Project, d, ScopeEvents, ControlEvents
  <2>2. d.evidence \in EvidenceIDs /\ d.content \in Contents
    BY <1>1, <1>8, DraftFields
  <2>3. /\ evidence \in [EvidenceIDs -> Contents \cup {None}]
        /\ evidence[d.evidence] = d.content
        /\ \A ev \in EvidenceIDs : ev # d.evidence => evidence[ev] = s.evidence[ev]
    BY <1>2, <2>2
  <2> HIDE DEF t, evidence
  <2>4. t \in State
    BY <2>1, <2>3 DEF State
  <2>5. /\ t.approvals = s.approvals /\ t.evidence = evidence /\ t.findings = s.findings
        /\ t.revision = s.revision
    BY <2>1 DEF State
  <2> QED BY <1>8, <2>2, <2>3, <2>4, <2>5 DEF d, t, ControlEvents
<1>9. CASE d.type = "finding.created"
  <2> DEFINE g == [status |-> d.status, cites |-> d.cites]
             findings == [s.findings EXCEPT ![d.finding] = g]
  <2>1. t = [s EXCEPT !.findings = findings]
    BY <1>9 DEF Project, d, ScopeEvents, ControlEvents
  <2>2. d.finding \in FindingIDs /\ g \in Finding /\ g.cites = d.cites
    BY <1>1, <1>9, DraftFields DEF Finding
  <2> HIDE DEF g
  <2>3. /\ findings \in [FindingIDs -> Finding] /\ findings[d.finding] = g
        /\ \A f \in FindingIDs : f # d.finding => findings[f] = s.findings[f]
    BY <1>2, <2>2
  <2> HIDE DEF t, findings
  <2>4. t \in State
    BY <2>1, <2>3 DEF State
  <2>5. /\ t.approvals = s.approvals /\ t.evidence = s.evidence /\ t.findings = findings
        /\ t.revision = s.revision
    BY <2>1 DEF State
  <2> QED BY <1>9, <2>2, <2>3, <2>4, <2>5 DEF d, t, ControlEvents
<1>10. CASE d.type = "finding.moved"
  <2> DEFINE g == [s.findings[d.finding] EXCEPT !.status = d.status]
             findings == [s.findings EXCEPT ![d.finding] = g]
  <2>1. t = [s EXCEPT !.findings = findings]
    BY <1>10 DEF Project, d, ScopeEvents, ControlEvents
  <2>2. d.finding \in FindingIDs /\ d.status \in FindingStatus
    BY <1>1, <1>10, DraftFields
  <2>3. g \in Finding /\ g.cites = s.findings[d.finding].cites
    BY <1>2, <2>2 DEF Finding
  <2> HIDE DEF g
  <2>4. /\ findings \in [FindingIDs -> Finding] /\ findings[d.finding] = g
        /\ \A f \in FindingIDs : f # d.finding => findings[f] = s.findings[f]
    BY <1>2, <2>2, <2>3
  <2> HIDE DEF t, findings
  <2>5. t \in State
    BY <2>1, <2>4 DEF State
  <2>6. /\ t.approvals = s.approvals /\ t.evidence = s.evidence /\ t.findings = findings
        /\ t.revision = s.revision
    BY <2>1 DEF State
  <2> QED BY <1>10, <2>2, <2>3, <2>4, <2>5, <2>6 DEF d, t, ControlEvents
<1>11. CASE d.type \in {"report.drafted", "report.edited", "report.frozen"}
  <2> DEFINE r == IF d.type = "report.frozen" THEN Frozen(s, d)
                  ELSE [report |-> d.report, version |-> d.version, status |-> d.status]
  <2>1. t = [s EXCEPT !.report = r]
    BY <1>11 DEF Project, d, ScopeEvents, ControlEvents
  <2>2. r \in Report
    <3>1. d.version \in Nat /\ d.report \in Reports
      BY <1>1, <1>11, DraftFields
    <3>2. CASE d.type = "report.frozen"
      BY <1>2, <3>1, <3>2 DEF Frozen, Report
    <3>3. CASE d.type # "report.frozen"
      BY <1>1, <1>11, <3>1, <3>3, DraftFields DEF Report
    <3> QED BY <3>2, <3>3
  <2> HIDE DEF t, r
  <2>3. t \in State
    BY <2>1, <2>2 DEF State
  <2>4. /\ t.approvals = s.approvals /\ t.evidence = s.evidence /\ t.findings = s.findings
        /\ t.revision = s.revision
    BY <2>1 DEF State
  <2> QED BY <1>11, <2>3, <2>4 DEF d, t, ControlEvents
<1> QED BY <1>1, <1>3, <1>4, <1>5, <1>6, <1>7, <1>8, <1>9, <1>10, <1>11, DraftFields
        DEF d, ScopeEvents, ControlEvents

-----------------------------------------------------------------------------
(* The two ways in which the log changes.                                   *)

LineOf(e) == [event |-> e, state |-> Project(View, e)]

Appends(e) == e \in Event /\ Accepts(View, e) /\ log' = Append(log, LineOf(e))

Cuts(n) == n \in 0..Len(log) /\ log' = SubSeq(log, 1, n)

LEMMA InitialState ==
  /\ Initial \in State
  /\ Cites(Initial)
<1>1. /\ NoApproval \in Approval /\ NoFinding \in Finding /\ NoReport \in Report
      /\ NoFinding.cites = {}
  BY DEF NoApproval, Approval, NoFinding, Finding, NoReport, Report
<1>2. Initial \in State
  BY <1>1 DEF Initial, State
<1>3. \A f \in FindingIDs : Initial.findings[f] = NoFinding
  BY DEF Initial
<1> QED BY <1>1, <1>2, <1>3 DEF Cites

LEMMA LogFields ==
  ASSUME log \in Seq(Line)
  PROVE  /\ Len(log) \in Nat /\ DOMAIN log = 1..Len(log)
         /\ \A i \in 1..Len(log) : /\ log[i].event \in Event /\ log[i].state \in State
                                   /\ DraftAt(i) \in Draft
         /\ \A k \in 0..Len(log) : StateAfter(k) \in State
         /\ View \in State
<1>1. Len(log) \in Nat /\ DOMAIN log = 1..Len(log)
  BY LenProperties
<1>2. \A i \in 1..Len(log) : log[i] \in Line
  BY ElementOfSeq
<1>3. \A i \in 1..Len(log) : log[i].event \in Event /\ log[i].state \in State
  BY <1>2 DEF Line
<1>4. \A i \in 1..Len(log) : DraftAt(i) \in Draft
  BY <1>3 DEF DraftAt, Event
<1>5. \A k \in 0..Len(log) : StateAfter(k) \in State
  BY <1>1, <1>3, InitialState DEF StateAfter
<1> QED BY <1>1, <1>3, <1>4, <1>5 DEF View

LEMMA AppendFacts ==
  ASSUME log \in Seq(Line), NEW e, Appends(e)
  PROVE  /\ e \in Event /\ Len(log) \in Nat
         /\ log' \in Seq(Line) /\ Len(log') = Len(log) + 1
         /\ DOMAIN log' = 1..(Len(log) + 1)
         /\ \A i \in 1..Len(log) : log'[i] = log[i] /\ DraftAt(i)' = DraftAt(i)
         /\ \A i : i = Len(log) + 1 =>
              /\ log'[i] = LineOf(e)
              /\ log'[i].event = e
              /\ log'[i].state = Project(View, e)
              /\ DraftAt(i)' = e.draft
              /\ StateAfter(i)' = Project(View, e)
         /\ \A k \in 0..Len(log) : StateAfter(k)' = StateAfter(k)
         /\ View' = Project(View, e)
         /\ View = StateAfter(Len(log))
         /\ Project(View, e) \in State
<1>1. e \in Event /\ log' = Append(log, LineOf(e)) /\ View \in State /\ Len(log) \in Nat
  BY LogFields DEF Appends
<1>2. Project(View, e) \in State
  BY <1>1, ProjectIs
<1>3. LineOf(e) \in Line /\ LineOf(e).event = e /\ LineOf(e).state = Project(View, e)
  BY <1>1, <1>2 DEF LineOf, Line
<1> HIDE DEF LineOf
<1>4. /\ log' \in Seq(Line) /\ Len(log') = Len(log) + 1
      /\ \A i \in 1..Len(log) : log'[i] = log[i]
      /\ log'[Len(log) + 1] = LineOf(e)
  BY <1>1, <1>3, AppendProperties
<1>5. DOMAIN log' = 1..(Len(log) + 1)
  BY <1>4, LenProperties
<1>6. /\ \A i \in 1..Len(log) : DraftAt(i)' = DraftAt(i)
      /\ \A k \in 0..Len(log) : StateAfter(k)' = StateAfter(k)
  BY <1>1, <1>4 DEF DraftAt, StateAfter
<1>7. ASSUME NEW i, i = Len(log) + 1
      PROVE  /\ log'[i] = LineOf(e) /\ log'[i].event = e /\ log'[i].state = Project(View, e)
             /\ DraftAt(i)' = e.draft
             /\ StateAfter(i)' = Project(View, e)
  <2>1. log'[i] = LineOf(e) /\ log'[i].event = e /\ log'[i].state = Project(View, e)
    BY <1>3, <1>4, <1>7
  <2>2. DraftAt(i)' = e.draft
    BY <2>1 DEF DraftAt
  <2>3. i # 0
    BY <1>1, <1>7
  <2>4. StateAfter(i)' = Project(View, e)
    BY <2>1, <2>3 DEF StateAfter
  <2> QED BY <2>1, <2>2, <2>4
<1>8. View' = Project(View, e)
  <2>1. Len(log') # 0 /\ log'[Len(log')].state = Project(View, e)
    BY <1>1, <1>3, <1>4
  <2> DEFINE p == Project(View, e)
  <2>2. log'[Len(log')].state = p
    BY <2>1
  <2> HIDE DEF p
  <2>3. View' = p
    BY <2>1, <2>2 DEF View, StateAfter
  <2> QED BY <2>3 DEF p
<1> QED BY <1>1, <1>2, <1>4, <1>5, <1>6, <1>7, <1>8 DEF View

LEMMA CutFacts ==
  ASSUME log \in Seq(Line), NEW n, Cuts(n)
  PROVE  /\ log' \in Seq(Line) /\ Len(log') = n /\ n \in 0..Len(log)
         /\ DOMAIN log' = 1..n
         /\ \A i \in 1..n : log'[i] = log[i] /\ DraftAt(i)' = DraftAt(i) /\ i \in 1..Len(log)
         /\ \A k \in 0..n : StateAfter(k)' = StateAfter(k) /\ k \in 0..Len(log)
<1>1. n \in 0..Len(log) /\ log' = SubSeq(log, 1, n) /\ Len(log) \in Nat
  BY LogFields DEF Cuts
<1>2. \A i \in 1..n : log[i] \in Line
  BY <1>1, ElementOfSeq
<1>3. /\ log' \in Seq(Line) /\ Len(log') = (IF 1 <= n THEN n - 1 + 1 ELSE 0)
      /\ \A i \in 1..(n - 1 + 1) : log'[i] = log[1 + i - 1]
  BY <1>1, <1>2, SubSeqProperties
<1>4. Len(log') = n /\ \A i \in 1..n : log'[i] = log[i]
  <2>1. \A i \in 1..n : i \in 1..(n - 1 + 1) /\ 1 + i - 1 = i
    BY <1>1
  <2> QED BY <1>1, <1>3, <2>1
<1>5. DOMAIN log' = 1..n
  BY <1>3, <1>4, LenProperties
<1>6. \A i \in 1..n : DraftAt(i)' = DraftAt(i) /\ i \in 1..Len(log)
  BY <1>1, <1>4 DEF DraftAt
<1>7. \A k \in 0..n : StateAfter(k)' = StateAfter(k) /\ k \in 0..Len(log)
  BY <1>1, <1>4 DEF StateAfter
<1> QED BY <1>1, <1>3, <1>4, <1>5, <1>6, <1>7

-----------------------------------------------------------------------------
(* What holds of the log is kept by a commit that its check made ready for,  *)
(* and by the loss of its last lines.                                       *)

LEMMA AppendLoads ==
  ASSUME log \in Seq(Line), FileLoads, tail' # "garbled", NEW e, Appends(e)
  PROVE  FileLoads'
<1>1. ASSUME NEW i \in 1..(Len(log) + 1)
      PROVE  /\ Accepts(StateAfter(i - 1)', log'[i].event)
             /\ log'[i].state = Project(StateAfter(i - 1)', log'[i].event)
  <2>1. /\ StateAfter(i - 1)' = StateAfter(i - 1)
        /\ i # Len(log) + 1 => i \in 1..Len(log) /\ i \in DOMAIN log
        /\ i = Len(log) + 1 => i - 1 = Len(log)
    BY AppendFacts, LogFields
  <2>2. CASE i = Len(log) + 1
    BY <2>1, <2>2, AppendFacts DEF Appends
  <2>3. CASE i # Len(log) + 1
    BY <2>1, <2>3, AppendFacts DEF FileLoads
  <2> QED BY <2>2, <2>3
<1> QED BY <1>1, AppendFacts DEF FileLoads

LEMMA AppendDecided ==
  ASSUME log \in Seq(Line), DecidedInv, NEW e, Appends(e)
  PROVE  DecidedInv'
<1> DEFINE t == Project(View, e)
<1>1. e.draft \in Draft /\ View \in State /\ Len(log) \in Nat
  BY LogFields DEF Appends, Event
<1> SUFFICES ASSUME NEW i \in 1..(Len(log) + 1), NEW ch \in Challenges, Resolves(i, ch)',
                    NEW k \in i..(Len(log) + 1)
             PROVE  StateAfter(k)'.approvals[ch].decision \in Decisions
  BY AppendFacts DEF DecidedInv
<1>2. CASE k # Len(log) + 1
  <2>1. i \in 1..Len(log) /\ k \in i..Len(log) /\ k \in 0..Len(log)
    BY <1>1, <1>2
  <2>2. Resolves(i, ch)
    BY <2>1, AppendFacts DEF Resolves
  <2>3. StateAfter(k)' = StateAfter(k)
    BY <2>1, AppendFacts
  <2> QED BY <2>1, <2>2, <2>3, LogFields DEF DecidedInv
<1>3. CASE k = Len(log) + 1
  <2>1. StateAfter(k)' = t
    BY <1>3, AppendFacts
  <2>2. CASE i = Len(log) + 1
    <3>1. e.draft.type = "approval.resolved" /\ e.draft.challenge = ch
      BY <2>2, AppendFacts DEF Resolves
    <3>2. t.approvals[ch].decision = e.draft.decision
      BY <1>1, <3>1, ProjectIs DEF Appends
    <3>3. e.draft.decision \in Decisions
      BY <1>1, <3>1, DraftFields
    <3> QED BY <2>1, <3>2, <3>3
  <2>3. CASE i # Len(log) + 1
    <3>1. i \in 1..Len(log) /\ Len(log) \in i..Len(log)
      BY <1>1, <2>3
    <3>2. Resolves(i, ch)
      BY <3>1, AppendFacts DEF Resolves
    <3>3. View.approvals[ch].decision \in Decisions
      BY <3>1, <3>2, LogFields DEF DecidedInv, View
    <3>4. /\ ~(e.draft.type = "approval.requested" /\ e.draft.challenge = ch)
          /\ ~(e.draft.type = "approval.resolved" /\ e.draft.challenge = ch)
      BY <3>3 DEF Appends, Accepts, AcceptsRequest, AcceptsResolution, NoApproval, Decisions
    <3>5. t.approvals[ch] = View.approvals[ch]
      BY <1>1, <3>4, ProjectIs DEF Appends
    <3> QED BY <2>1, <3>3, <3>5
  <2> QED BY <2>2, <2>3
<1> QED BY <1>2, <1>3

LEMMA AppendEvidence ==
  ASSUME log \in Seq(Line), EvidenceInv, NEW e, Appends(e)
  PROVE  EvidenceInv'
<1> DEFINE t == Project(View, e)
<1>1. e.draft \in Draft /\ View \in State /\ Len(log) \in Nat
  BY LogFields DEF Appends, Event
<1> SUFFICES ASSUME NEW i \in 1..(Len(log) + 1), NEW k \in i..(Len(log) + 1),
                    DraftAt(i)'.type = "evidence.committed"
             PROVE  StateAfter(k)'.evidence[DraftAt(i)'.evidence] = DraftAt(i)'.content
  BY AppendFacts DEF EvidenceInv
<1>2. CASE k # Len(log) + 1
  <2>1. i \in 1..Len(log) /\ k \in i..Len(log) /\ k \in 0..Len(log)
    BY <1>1, <1>2
  <2>2. DraftAt(i)' = DraftAt(i) /\ StateAfter(k)' = StateAfter(k)
    BY <2>1, AppendFacts
  <2> QED BY <2>1, <2>2, LogFields DEF EvidenceInv
<1>3. CASE k = Len(log) + 1
  <2>1. StateAfter(k)' = t
    BY <1>3, AppendFacts
  <2>2. CASE i = Len(log) + 1
    <3>1. DraftAt(i)' = e.draft
      BY <2>2, AppendFacts
    <3>2. e.draft.evidence \in EvidenceIDs
      BY <1>1, <3>1, DraftFields
    <3>3. t.evidence[e.draft.evidence] = e.draft.content
      BY <1>1, <3>1, <3>2, ProjectIs DEF Appends
    <3> QED BY <2>1, <3>1, <3>3
  <2>3. CASE i # Len(log) + 1
    <3>1. i \in 1..Len(log) /\ Len(log) \in i..Len(log)
      BY <1>1, <2>3
    <3>2. DraftAt(i)' = DraftAt(i) /\ DraftAt(i) \in Draft
      BY <3>1, AppendFacts, LogFields
    <3> DEFINE ev == DraftAt(i).evidence
               content == DraftAt(i).content
    <3>3. View.evidence[ev] = content
      BY <3>1, <3>2, LogFields DEF EvidenceInv, View
    <3>4. ev \in EvidenceIDs /\ content # None
      BY <3>2, DraftFields, NoneIsNoID
    <3>5. e.draft.type = "evidence.committed" /\ e.draft.evidence = ev => e.draft.content = content
      BY <3>3, <3>4 DEF Appends, Accepts, AcceptsEvidence
    <3> HIDE DEF ev, content
    <3>6. t.evidence[ev] = content
      BY <1>1, <3>3, <3>4, <3>5, ProjectIs DEF Appends
    <3> QED BY <2>1, <3>2, <3>6 DEF ev, content
  <2> QED BY <2>2, <2>3
<1> QED BY <1>2, <1>3

LEMMA AppendControl ==
  ASSUME log \in Seq(Line), ControlInv, NEW e, Appends(e)
  PROVE  ControlInv'
<1> DEFINE t == Project(View, e)
<1>1. e.draft \in Draft /\ View \in State /\ Len(log) \in Nat /\ e \in Event
  BY LogFields DEF Appends, Event
<1> SUFFICES ASSUME NEW i \in 1..(Len(log) + 1), NEW k \in i..(Len(log) + 1),
                    DraftAt(i)'.type \in ControlEvents
             PROVE  DraftAt(i)'.revision <= StateAfter(k)'.revision
  BY AppendFacts DEF ControlInv
<1>2. CASE k # Len(log) + 1
  <2>1. i \in 1..Len(log) /\ k \in i..Len(log) /\ k \in 0..Len(log)
    BY <1>1, <1>2
  <2>2. DraftAt(i)' = DraftAt(i) /\ StateAfter(k)' = StateAfter(k)
    BY <2>1, AppendFacts
  <2> QED BY <2>1, <2>2, LogFields DEF ControlInv
<1>3. CASE k = Len(log) + 1
  <2>1. StateAfter(k)' = t
    BY <1>3, AppendFacts
  <2>2. /\ View.revision \in Nat
        /\ e.draft.type \in ControlEvents =>
             /\ e.draft.revision \in Nat /\ View.revision < e.draft.revision
             /\ t.revision = e.draft.revision
        /\ e.draft.type \notin ControlEvents => t.revision = View.revision
    <3>1. View.revision \in Nat
      BY <1>1 DEF State
    <3>2. e.draft.type \in ControlEvents => e.draft.revision \in Nat
      BY <1>1, DraftFields DEF ControlEvents
    <3>3. e.draft.type \in ControlEvents => View.revision < e.draft.revision
      BY <3>1, <3>2 DEF Appends, Accepts, AcceptsControl
    <3> QED BY <1>1, <3>1, <3>2, <3>3, ProjectIs
  <2>3. CASE i = Len(log) + 1
    <3>1. DraftAt(i)' = e.draft
      BY <2>3, AppendFacts
    <3> QED BY <2>1, <2>2, <3>1
  <2>4. CASE i # Len(log) + 1
    <3>1. i \in 1..Len(log) /\ Len(log) \in i..Len(log)
      BY <1>1, <2>4
    <3>2. DraftAt(i)' = DraftAt(i) /\ DraftAt(i) \in Draft
      BY <3>1, AppendFacts, LogFields
    <3>3. DraftAt(i).revision <= View.revision
      BY <3>1, <3>2, LogFields DEF ControlInv, View
    <3>4. DraftAt(i).revision \in Nat
      BY <3>2, DraftFields DEF ControlEvents
    <3> HIDE DEF t
    <3> QED BY <2>1, <2>2, <3>2, <3>3, <3>4
  <2> QED BY <2>3, <2>4
<1> QED BY <1>2, <1>3

LEMMA ProjectCites ==
  ASSUME NEW s \in State, NEW e \in Event, Cites(s),
         e.draft.type = "finding.created" => \A ev \in e.draft.cites : s.evidence[ev] # None
  PROVE  Cites(Project(s, e))
<1> DEFINE t == Project(s, e)
<1>1. e.draft \in Draft
  BY DEF Event
<1>2. s.findings \in [FindingIDs -> Finding] /\ s.evidence \in [EvidenceIDs -> Contents \cup {None}]
  BY DEF State
<1>3. SUFFICES ASSUME NEW f \in FindingIDs, NEW ev \in t.findings[f].cites
               PROVE  t.evidence[ev] # None
  BY DEF Cites
<1>4. CASE t.findings[f].cites = s.findings[f].cites
  <2>1. s.evidence[ev] # None /\ ev \in EvidenceIDs
    BY <1>2, <1>4 DEF Cites, Finding
  <2>2. \/ t.evidence[ev] = s.evidence[ev]
        \/ e.draft.type = "evidence.committed" /\ t.evidence[ev] = e.draft.content
    BY <2>1, ProjectIs
  <2>3. e.draft.type = "evidence.committed" => e.draft.content # None
    BY <1>1, DraftFields, NoneIsNoID
  <2> QED BY <2>1, <2>2, <2>3
<1>5. CASE e.draft.type = "finding.created" /\ t.findings[f].cites = e.draft.cites
  <2>1. t.evidence = s.evidence
    BY <1>5, ProjectIs
  <2> QED BY <1>5, <2>1
<1> QED BY <1>4, <1>5, ProjectIs

LEMMA AppendCites ==
  ASSUME log \in Seq(Line), CitesInv, NEW e, Appends(e),
         e.draft.type = "finding.created" => \A ev \in e.draft.cites : View.evidence[ev] # None
  PROVE  CitesInv'
<1>1. Cites(View) /\ View \in State /\ e \in Event
  BY LogFields DEF CitesInv, View, Appends
<1>2. Cites(Project(View, e))
  BY <1>1, ProjectCites
<1> SUFFICES ASSUME NEW k \in 0..(Len(log) + 1)
             PROVE  Cites(StateAfter(k)')
  BY AppendFacts DEF CitesInv
<1>3. CASE k = Len(log) + 1
  BY <1>2, <1>3, AppendFacts
<1>4. CASE k # Len(log) + 1
  <2>1. k \in 0..Len(log)
    BY <1>4, LogFields
  <2> QED BY <2>1, AppendFacts DEF CitesInv
<1> QED BY <1>3, <1>4

LEMMA AppendScope ==
  ASSUME log \in Seq(Line), ApprovalsInScope, UNCHANGED setting, NEW e, Appends(e), Ready(e.draft)
  PROVE  ApprovalsInScope'
<1> SUFFICES ASSUME setting.serialised, NEW i \in 1..(Len(log) + 1), NEW ch \in Challenges
    PROVE  /\ RequestAt(i, ch)' =>
                \E j \in 1..(i - 1) :
                  /\ DraftAt(j)'.type = "scope.confirmed"
                  /\ ch \in Permits[DraftAt(j)'.scope]
                  /\ \A k \in (j + 1)..(i - 1) : ~ScopeEventAt(k)'
           /\ Resolves(i, ch)' =>
                \A j \in 1..(i - 1), k \in 1..(Len(log) + 1) :
                  ScopeEventAt(j)' /\ RequestAt(k, ch)' => j < k
  BY AppendFacts DEF ApprovalsInScope
<1>1. Len(log) \in Nat /\ \A k \in 1..Len(log) : DraftAt(k)' = DraftAt(k)
  BY AppendFacts
<1>2. \A k \in 1..(i - 1) : k \in 1..Len(log) /\ (ScopeEventAt(k)' <=> ScopeEventAt(k))
  BY <1>1 DEF ScopeEventAt
<1>3. CASE i # Len(log) + 1
  <2>1. i \in 1..Len(log) /\ i \in DOMAIN log
    BY <1>1, <1>3, LogFields
  <2>2. /\ RequestAt(i, ch)' <=> RequestAt(i, ch)
        /\ Resolves(i, ch)' <=> Resolves(i, ch)
    BY <1>1, <2>1 DEF RequestAt, Resolves
  <2>3. ASSUME RequestAt(i, ch)
        PROVE  \E j \in 1..(i - 1) :
                 /\ DraftAt(j)'.type = "scope.confirmed"
                 /\ ch \in Permits[DraftAt(j)'.scope]
                 /\ \A k \in (j + 1)..(i - 1) : ~ScopeEventAt(k)'
    <3>1. PICK j \in 1..(i - 1) : /\ DraftAt(j).type = "scope.confirmed"
                                  /\ ch \in Permits[DraftAt(j).scope]
                                  /\ \A k \in (j + 1)..(i - 1) : ~ScopeEventAt(k)
      BY <2>1, <2>3 DEF ApprovalsInScope
    <3>2. \A k \in (j + 1)..(i - 1) : k \in 1..(i - 1)
      BY <1>1
    <3>3. DraftAt(j)' = DraftAt(j)
      BY <1>1, <1>2
    <3> QED BY <1>2, <3>1, <3>2, <3>3
  <2>4. ASSUME Resolves(i, ch), NEW j \in 1..(i - 1), NEW k \in 1..(Len(log) + 1),
               ScopeEventAt(j)', RequestAt(k, ch)'
        PROVE  j < k
    <3>1. CASE k = Len(log) + 1
      BY <1>1, <2>1, <3>1
    <3>2. CASE k # Len(log) + 1
      <4>1. k \in 1..Len(log) /\ k \in DOMAIN log
        BY <1>1, <3>2, LogFields
      <4>2. RequestAt(k, ch)
        BY <1>1, <2>4, <4>1 DEF RequestAt
      <4>3. ScopeEventAt(j)
        BY <1>2, <2>4
      <4> QED BY <2>1, <2>4, <4>1, <4>2, <4>3 DEF ApprovalsInScope
    <3> QED BY <3>1, <3>2
  <2> QED BY <2>2, <2>3, <2>4
<1>4. CASE i = Len(log) + 1
  <2>1. DraftAt(i)' = e.draft /\ i - 1 = Len(log)
    BY <1>1, <1>4, AppendFacts
  <2>2. ASSUME RequestAt(i, ch)'
        PROVE  \E j \in 1..(i - 1) :
                 /\ DraftAt(j)'.type = "scope.confirmed"
                 /\ ch \in Permits[DraftAt(j)'.scope]
                 /\ \A k \in (j + 1)..(i - 1) : ~ScopeEventAt(k)'
    <3>1. Requestable(ch)
      BY <2>1, <2>2 DEF RequestAt, Ready
    <3>2. PICK j \in 1..Len(log) : /\ DraftAt(j).type = "scope.confirmed"
                                   /\ ch \in Permits[DraftAt(j).scope]
                                   /\ \A k \in (j + 1)..Len(log) : ~ScopeEventAt(k)
      BY <3>1 DEF Requestable
    <3>3. \A k \in (j + 1)..Len(log) : k \in 1..Len(log)
      BY <1>1
    <3> QED BY <1>1, <1>2, <2>1, <3>2, <3>3
  <2>3. ASSUME Resolves(i, ch)', NEW j \in 1..(i - 1), NEW k \in 1..(Len(log) + 1),
               ScopeEventAt(j)', RequestAt(k, ch)'
        PROVE  j < k
    <3>1. CASE k = Len(log) + 1
      BY <1>1, <1>4, <3>1
    <3>2. CASE k # Len(log) + 1
      <4>1. k \in 1..Len(log) /\ k \in DOMAIN log /\ j \in DOMAIN log
        BY <1>1, <1>4, <3>2, LogFields
      <4>2. RequestAt(k, ch)
        BY <1>1, <2>3, <4>1 DEF RequestAt
      <4>3. ScopeEventAt(j)
        BY <1>2, <2>3
      <4>4. ApprovalScopeActive(ch)
        BY <2>1, <2>3 DEF Resolves, Ready
      <4> QED BY <4>1, <4>2, <4>3, <4>4 DEF ApprovalScopeActive
    <3> QED BY <3>1, <3>2
  <2> QED BY <2>2, <2>3
<1> QED BY <1>3, <1>4

LEMMA AppendReports ==
  ASSUME log \in Seq(Line), ReportsMoveForward, UNCHANGED setting, NEW e, Appends(e), Ready(e.draft)
  PROVE  ReportsMoveForward'
<1> SUFFICES ASSUME setting.serialised, NEW i \in 1..(Len(log) + 1),
                    DraftAt(i)'.type \in {"report.edited", "report.frozen"}
             PROVE  /\ StateAfter(i - 1)'.report.report = DraftAt(i)'.report
                    /\ StateAfter(i - 1)'.report.status # "frozen"
                    /\ StateAfter(i - 1)'.report.version < DraftAt(i)'.version
  BY AppendFacts DEF ReportsMoveForward
<1>1. /\ StateAfter(i - 1)' = StateAfter(i - 1)
      /\ i # Len(log) + 1 => i \in 1..Len(log) /\ i \in DOMAIN log
      /\ i = Len(log) + 1 => i - 1 = Len(log)
  BY AppendFacts, LogFields
<1>2. CASE i = Len(log) + 1
  <2>1. DraftAt(i)' = e.draft
    BY <1>2, AppendFacts
  <2> QED BY <1>1, <1>2, <2>1 DEF Ready, View
<1>3. CASE i # Len(log) + 1
  <2>1. DraftAt(i)' = DraftAt(i)
    BY <1>1, <1>3, AppendFacts
  <2> QED BY <1>1, <1>3, <2>1 DEF ReportsMoveForward
<1> QED BY <1>2, <1>3

LEMMA AppendKeeps ==
  ASSUME log \in Seq(Line), LogInv, tail' # "garbled", UNCHANGED setting,
         NEW e, Appends(e), Ready(e.draft)
  PROVE  LogInv'
  BY AppendLoads, AppendDecided, AppendEvidence, AppendControl, AppendCites, AppendScope, AppendReports
     DEF LogInv, Ready

LEMMA CutKeeps ==
  ASSUME log \in Seq(Line), LogInv, tail' # "garbled", UNCHANGED setting, NEW n, Cuts(n)
  PROVE  LogInv'
<1>1. /\ DOMAIN log = 1..Len(log) /\ Len(log) \in Nat /\ n \in 0..Len(log)
      /\ DOMAIN log' = 1..n /\ Len(log') = n
      /\ \A i \in 1..n : log'[i] = log[i] /\ DraftAt(i)' = DraftAt(i) /\ i \in 1..Len(log)
      /\ \A k \in 0..n : StateAfter(k)' = StateAfter(k) /\ k \in 0..Len(log)
  BY LogFields, CutFacts
<1>2. \A i \in 1..n : StateAfter(i - 1)' = StateAfter(i - 1)
  BY <1>1
<1>3. FileLoads'
  BY <1>1, <1>2 DEF LogInv, FileLoads
<1>4. /\ \A i \in 1..n : ScopeEventAt(i)' <=> ScopeEventAt(i)
      /\ \A i \in 1..n, ch \in Challenges : /\ RequestAt(i, ch)' <=> RequestAt(i, ch)
                                            /\ Resolves(i, ch)' <=> Resolves(i, ch)
  BY <1>1 DEF ScopeEventAt, RequestAt, Resolves
<1>5. DecidedInv'
  <2> SUFFICES ASSUME NEW i \in 1..n, NEW ch \in Challenges, Resolves(i, ch)', NEW k \in i..n
               PROVE  StateAfter(k)'.approvals[ch].decision \in Decisions
    BY <1>1 DEF DecidedInv
  <2>1. k \in 0..n /\ k \in i..Len(log) /\ i \in DOMAIN log
    BY <1>1
  <2> QED BY <1>1, <1>4, <2>1 DEF LogInv, DecidedInv
<1>6. EvidenceInv'
  <2> SUFFICES ASSUME NEW i \in 1..n, NEW k \in i..n, DraftAt(i)'.type = "evidence.committed"
               PROVE  StateAfter(k)'.evidence[DraftAt(i)'.evidence] = DraftAt(i)'.content
    BY <1>1 DEF EvidenceInv
  <2>1. k \in 0..n /\ k \in i..Len(log) /\ i \in DOMAIN log
    BY <1>1
  <2> QED BY <1>1, <2>1 DEF LogInv, EvidenceInv
<1>7. CitesInv' /\ ControlInv'
  <2>1. CitesInv'
    BY <1>1 DEF LogInv, CitesInv
  <2>2. ASSUME NEW i \in 1..n, NEW k \in i..n, DraftAt(i)'.type \in ControlEvents
        PROVE  DraftAt(i)'.revision <= StateAfter(k)'.revision
    <3>1. k \in 0..n /\ k \in i..Len(log) /\ i \in DOMAIN log
      BY <1>1
    <3> QED BY <1>1, <2>2, <3>1 DEF LogInv, ControlInv
  <2>3. ControlInv'
    BY <1>1, <2>2 DEF ControlInv
  <2> QED BY <2>1, <2>3
<1>8. ApprovalsInScope'
  <2> SUFFICES ASSUME setting.serialised, NEW i \in 1..n, NEW ch \in Challenges
      PROVE  /\ RequestAt(i, ch)' =>
                  \E j \in 1..(i - 1) :
                    /\ DraftAt(j)'.type = "scope.confirmed"
                    /\ ch \in Permits[DraftAt(j)'.scope]
                    /\ \A k \in (j + 1)..(i - 1) : ~ScopeEventAt(k)'
             /\ Resolves(i, ch)' =>
                  \A j \in 1..(i - 1), k \in 1..n :
                    ScopeEventAt(j)' /\ RequestAt(k, ch)' => j < k
    BY <1>1 DEF ApprovalsInScope
  <2>1. i \in DOMAIN log /\ \A j \in 1..(i - 1) : j \in 1..n
    BY <1>1
  <2>2. ASSUME RequestAt(i, ch)'
        PROVE  \E j \in 1..(i - 1) :
                 /\ DraftAt(j)'.type = "scope.confirmed"
                 /\ ch \in Permits[DraftAt(j)'.scope]
                 /\ \A k \in (j + 1)..(i - 1) : ~ScopeEventAt(k)'
    <3>1. PICK j \in 1..(i - 1) : /\ DraftAt(j).type = "scope.confirmed"
                                  /\ ch \in Permits[DraftAt(j).scope]
                                  /\ \A k \in (j + 1)..(i - 1) : ~ScopeEventAt(k)
      BY <1>4, <2>1, <2>2 DEF LogInv, ApprovalsInScope
    <3>2. \A k \in (j + 1)..(i - 1) : k \in 1..n
      BY <1>1
    <3>3. DraftAt(j)' = DraftAt(j)
      BY <1>1, <2>1
    <3> QED BY <1>4, <3>1, <3>2, <3>3
  <2>3. ASSUME Resolves(i, ch)', NEW j \in 1..(i - 1), NEW k \in 1..n,
               ScopeEventAt(j)', RequestAt(k, ch)'
        PROVE  j < k
    <3>1. Resolves(i, ch) /\ ScopeEventAt(j) /\ RequestAt(k, ch) /\ k \in DOMAIN log
      BY <1>1, <1>4, <2>1, <2>3
    <3> QED BY <2>1, <3>1 DEF LogInv, ApprovalsInScope
  <2> QED BY <2>2, <2>3
<1>9. ReportsMoveForward'
  BY <1>1, <1>2 DEF LogInv, ReportsMoveForward
<1> QED BY <1>3, <1>5, <1>6, <1>7, <1>8, <1>9 DEF LogInv

-----------------------------------------------------------------------------
(* The operations up to emit.                                               *)

\* What the check of an operation leaves: a draft that is ready, in one call.
Begun(c, d) ==
  /\ d \in Draft
  /\ Ready(d)
  /\ call[c] = Idle
  /\ setting.serialised => \A other \in Callers : call[other] = Idle
  /\ call' = [call EXCEPT ![c] = [phase |-> "checked", draft |-> d]]
  /\ UNCHANGED <<setting, log, synced, promised, delivered, now>>
  /\ tail' \in {tail, Repaired(tail)}

\* An operation that reads nothing begins with any draft of a type nothing is asked of.
LEMMA ReadyUnread ==
  ASSUME NEW d,
         d.type \notin {"finding.created", "approval.requested", "approval.resolved",
                        "report.edited", "report.frozen"}
  PROVE  Ready(d)
  BY DEF Ready

LEMMA BeginsReady ==
  ASSUME TypeOK, NEW c \in Callers, Begin(c)
  PROVE  \E d : Begun(c, d)
<1> USE ServiceAssumptions, StoreAssumptions
<1>1. setting.scopes \subseteq Scopes /\ setting.maxTime \in Nat /\ setting.maxEvents \in Nat
  BY DEF TypeOK, StoreTypeOK, Setting
<1>2. ASSUME NEW d, d \in Draft, Ready(d), Prepare(c, d), UNCHANGED tail \/ Load,
             \E family : Starts(c, family)
      PROVE  \E dd : Begun(c, dd)
  <2>1. Begun(c, d)
    BY <1>2 DEF Begun, Prepare, Starts, Load
  <2> QED BY <2>1
<1>3. ASSUME NEW status \in Statuses, EmitTask(c, status)
      PROVE  \E d : Begun(c, d)
  <2> DEFINE d == [type |-> "task", status |-> status]
  <2>1. d \in Draft /\ d.type = "task"
    BY DEF Draft
  <2> HIDE DEF d
  <2> QED BY <1>2, <1>3, <2>1, ReadyUnread DEF EmitTask, d
<1>4. ASSUME NEW s \in setting.scopes, ProposeScope(c, s)
      PROVE  \E d : Begun(c, d)
  <2> DEFINE d == [type |-> "scope.proposed", scope |-> s]
  <2>1. d \in Draft /\ d.type = "scope.proposed"
    BY <1>1 DEF Draft, ScopeEvents
  <2> HIDE DEF d
  <2> QED BY <1>2, <1>4, <2>1, ReadyUnread DEF ProposeScope, d
<1>5. ASSUME NEW s \in setting.scopes, ConfirmScope(c, s)
      PROVE  \E d : Begun(c, d)
  <2> DEFINE d == [type |-> "scope.confirmed", scope |-> s]
  <2>1. d \in Draft /\ d.type = "scope.confirmed"
    BY <1>1 DEF Draft, ScopeEvents
  <2> HIDE DEF d
  <2> QED BY <1>2, <1>5, <2>1, ReadyUnread DEF ConfirmScope, d
<1>6. ASSUME NEW ch \in Challenges, NEW expires \in 0..setting.maxTime,
             RequestApproval(c, ch, expires)
      PROVE  \E d : Begun(c, d)
  <2> DEFINE d == [type |-> "approval.requested", challenge |-> ch, expires |-> expires]
  <2>1. d \in Draft /\ d.type = "approval.requested" /\ d.challenge = ch
    BY <1>1 DEF Draft
  <2>2. Requestable(ch)
    <3>1. PICK i \in DOMAIN log :
            /\ DraftAt(i) = [type |-> "scope.confirmed", scope |-> View.scope]
            /\ \A j \in DOMAIN log : ScopeEventAt(j) => j <= i
      BY <1>6 DEF RequestApproval, ScopeWasConfirmed
    <3>2. DraftAt(i).type = "scope.confirmed" /\ ch \in Permits[DraftAt(i).scope]
      BY <1>6, <3>1 DEF RequestApproval
    <3>3. i \in 1..Len(log) /\ \A k \in (i + 1)..Len(log) : ~ScopeEventAt(k)
      BY <3>1, LogFields DEF TypeOK, StoreTypeOK
    <3> QED BY <3>2, <3>3 DEF Requestable
  <2> HIDE DEF d
  <2>3. Ready(d)
    BY <2>1, <2>2 DEF Ready
  <2> QED BY <1>2, <1>6, <2>1, <2>3 DEF RequestApproval, d
<1>7. ASSUME NEW ch \in Challenges, NEW decision \in Decisions, ResolveApproval(c, ch, decision)
      PROVE  \E d : Begun(c, d)
  <2> DEFINE d == [type |-> "approval.resolved", challenge |-> ch, decision |-> decision]
  <2>1. d \in Draft /\ d.type = "approval.resolved" /\ d.challenge = ch
    BY DEF Draft
  <2> HIDE DEF d
  <2>2. Ready(d)
    BY <1>7, <2>1 DEF Ready, ResolveApproval
  <2> QED BY <1>2, <1>7, <2>1, <2>2 DEF ResolveApproval, d
<1>8. ASSUME NEW client \in Clients, NEW expected \in 0..setting.maxEvents,
             TakeControl(c, client, expected)
      PROVE  \E d : Begun(c, d)
  <2> DEFINE type == IF expected > 0 THEN "control.transferred" ELSE "control.acquired"
             d == [type |-> type, client |-> client, revision |-> expected + 1]
  <2>1. expected + 1 \in Nat \ {0}
    BY <1>1
  <2>2. type \in ControlEvents
    BY DEF ControlEvents
  <2>3. d \in Draft /\ d.type \in ControlEvents
    BY <2>1, <2>2 DEF Draft
  <2> HIDE DEF d
  <2>4. Ready(d)
    BY <2>3, ReadyUnread DEF ControlEvents
  <2>5. Prepare(c, d) /\ Load /\ Starts(c, "control")
    BY <1>8 DEF TakeControl, d
  <2> QED BY <1>2, <2>3, <2>4, <2>5
<1>9. ASSUME NEW evidence \in EvidenceIDs, NEW content \in Contents,
             CommitEvidence(c, evidence, content)
      PROVE  \E d : Begun(c, d)
  <2> DEFINE d == [type |-> "evidence.committed", evidence |-> evidence, content |-> content]
  <2>1. d \in Draft /\ d.type = "evidence.committed"
    BY DEF Draft
  <2> HIDE DEF d
  <2> QED BY <1>2, <1>9, <2>1, ReadyUnread DEF CommitEvidence, d
<1>10. ASSUME NEW finding \in FindingIDs, NEW status \in Drafted, NEW cites \in SUBSET EvidenceIDs,
              CreateFinding(c, finding, status, cites)
       PROVE  \E d : Begun(c, d)
  <2> DEFINE d == [type |-> "finding.created", finding |-> finding, status |-> status,
                   cites |-> cites]
  <2>1. d \in Draft /\ d.type = "finding.created" /\ d.cites = cites
    BY DEF Draft
  <2> HIDE DEF d
  <2>2. Ready(d)
    BY <1>10, <2>1 DEF Ready, CreateFinding
  <2> QED BY <1>2, <1>10, <2>1, <2>2 DEF CreateFinding, d
<1>11. ASSUME NEW finding \in FindingIDs, NEW status \in FindingStatus \ {"candidate"},
              TransitionFinding(c, finding, status)
       PROVE  \E d : Begun(c, d)
  <2> DEFINE d == [type |-> "finding.moved", finding |-> finding, status |-> status]
  <2>1. d \in Draft /\ d.type = "finding.moved"
    BY DEF Draft
  <2> HIDE DEF d
  <2> QED BY <1>2, <1>11, <2>1, ReadyUnread DEF TransitionFinding, d
<1>12. ASSUME NEW report \in Reports, NEW version \in 0..MaxVersion,
              NEW status \in {"draft", "frozen"}, DraftReport(c, report, version, status)
       PROVE  \E d : Begun(c, d)
  <2> DEFINE d == [type |-> "report.drafted", report |-> report, version |-> version,
                   status |-> status]
  <2>1. d \in Draft /\ d.type = "report.drafted"
    BY DEF Draft
  <2> HIDE DEF d
  <2> QED BY <1>2, <1>12, <2>1, ReadyUnread DEF DraftReport, d
<1>13. ASSUME NEW report \in Reports, NEW version \in 0..MaxVersion,
              NEW status \in {"draft", "frozen"}, EditReport(c, report, version, status)
       PROVE  \E d : Begun(c, d)
  <2> DEFINE d == [type |-> "report.edited", report |-> report, version |-> version,
                   status |-> status]
  <2>1. /\ d \in Draft /\ d.type = "report.edited"
        /\ d.report = report /\ d.version = version /\ version \in Nat
    BY DEF Draft
  <2>2. View.report.version \in Nat
    BY LogFields DEF TypeOK, StoreTypeOK, State, Report
  <2> HIDE DEF d
  <2>3. Ready(d)
    BY <1>13, <2>1, <2>2 DEF Ready, EditReport, Editable
  <2> QED BY <1>2, <1>13, <2>1, <2>3 DEF EditReport, d
<1>14. ASSUME NEW report \in Reports, NEW version \in 1..MaxVersion,
              FreezeReport(c, report, version)
       PROVE  \E d : Begun(c, d)
  <2> DEFINE d == [type |-> "report.frozen", report |-> report, version |-> version]
  <2>1. /\ d \in Draft /\ d.type = "report.frozen"
        /\ d.report = report /\ d.version = version /\ version \in Nat
    BY DEF Draft
  <2>2. View.report.version \in Nat
    BY LogFields DEF TypeOK, StoreTypeOK, State, Report
  <2> HIDE DEF d
  <2>3. Ready(d)
    BY <1>14, <2>1, <2>2 DEF Ready, FreezeReport, Editable
  <2> QED BY <1>2, <1>14, <2>1, <2>3 DEF FreezeReport, d
<1> QED BY <1>3, <1>4, <1>5, <1>6, <1>7, <1>8, <1>9, <1>10, <1>11, <1>12, <1>13, <1>14
        DEF Begin

-----------------------------------------------------------------------------
(* The invariant is inductive.                                              *)

LEMMA InitInv == Init => Inv
<1> SUFFICES ASSUME Init PROVE Inv
  OBVIOUS
<1> USE DEF Init, StoreInit
<1>1. log = <<>> /\ log \in Seq(Line) /\ Len(log) = 0 /\ DOMAIN log = {}
  BY EmptySeq
<1>2. TypeOK
  BY <1>1, StoreAssumptions DEF TypeOK, StoreTypeOK, Call, Idle
<1>3. LogInv
  <2>1. FileLoads /\ DecidedInv /\ EvidenceInv /\ ControlInv /\ ApprovalsInScope /\ ReportsMoveForward
    BY <1>1 DEF FileLoads, DecidedInv, EvidenceInv, ControlInv, ApprovalsInScope, ReportsMoveForward
  <2>2. CitesInv
    BY <1>1, InitialState DEF CitesInv, StateAfter
  <2> QED BY <2>1, <2>2 DEF LogInv
<1>4. StayInv
  <2>1. \A s \in Subscribers : Len(delivered[s]) = 0 /\ DOMAIN delivered[s] = {}
    BY EmptySeq
  <2> QED BY <1>1, <2>1 DEF StayInv
<1>5. CallInv
  BY DEF CallInv
<1> QED BY <1>2, <1>3, <1>4, <1>5 DEF Inv

\* A step that leaves the log alone, and the tail whole, keeps what is in it.
LEMMA SameLog ==
  ASSUME log' = log, setting' = setting, tail' # "garbled", LogInv
  PROVE  /\ LogInv'
         /\ \A d : Ready(d)' <=> Ready(d)
<1>1. /\ \A i : /\ DraftAt(i)' = DraftAt(i) /\ StateAfter(i)' = StateAfter(i)
                /\ ScopeEventAt(i)' <=> ScopeEventAt(i)
      /\ \A i, ch : /\ RequestAt(i, ch)' <=> RequestAt(i, ch)
                    /\ Resolves(i, ch)' <=> Resolves(i, ch)
      /\ View' = View
  BY DEF DraftAt, StateAfter, ScopeEventAt, RequestAt, Resolves, View
<1>2. FileLoads'
  BY <1>1 DEF LogInv, FileLoads
<1>3. DecidedInv' /\ EvidenceInv' /\ ControlInv' /\ CitesInv'
  BY <1>1 DEF LogInv, DecidedInv, EvidenceInv, ControlInv, CitesInv
<1>4. ApprovalsInScope'
  BY <1>1 DEF LogInv, ApprovalsInScope
<1>5. ReportsMoveForward'
  BY <1>1 DEF LogInv, ReportsMoveForward
<1>6. \A ch : /\ Requestable(ch)' <=> Requestable(ch)
              /\ ApprovalScopeActive(ch)' <=> ApprovalScopeActive(ch)
  BY <1>1 DEF Requestable, ApprovalScopeActive
<1>7. ASSUME NEW d PROVE Ready(d)' <=> Ready(d)
  BY <1>1, <1>6 DEF Ready
<1> QED BY <1>2, <1>3, <1>4, <1>5, <1>7 DEF LogInv

\* Beginning, and stamping, only changes the call.
LEMMA BeginInv ==
  ASSUME Inv, NEW c \in Callers, Begin(c)
  PROVE  Inv'
<1>1. PICK d : Begun(c, d)
  BY BeginsReady DEF Inv
<1>2. /\ d \in Draft /\ Ready(d) /\ call[c] = Idle
      /\ setting.serialised => \A other \in Callers : call[other] = Idle
      /\ call' = [call EXCEPT ![c] = [phase |-> "checked", draft |-> d]]
      /\ UNCHANGED <<setting, log, synced, promised, delivered, now>>
      /\ tail' \in {tail, Repaired(tail)}
  BY <1>1 DEF Begun
<1>3. tail' \in {"clean", "torn"}
  BY <1>2 DEF Inv, TypeOK, StoreTypeOK, LogInv, FileLoads, Repaired
<1> DEFINE new == [phase |-> "checked", draft |-> d]
<1>4. new \in Call /\ new.phase = "checked" /\ new.draft = d
  BY <1>2 DEF Call
<1> HIDE DEF new
<1>5. /\ call \in [Callers -> Call] /\ call' = [call EXCEPT ![c] = new]
  BY <1>2 DEF Inv, TypeOK, new
<1>6. call' \in [Callers -> Call] /\ call'[c] = new
      /\ \A o \in Callers : o # c => call'[o] = call[o]
  BY <1>4, <1>5
<1>7. TypeOK'
  BY <1>2, <1>3, <1>6 DEF Inv, TypeOK, StoreTypeOK
<1>8. LogInv' /\ \A dd : Ready(dd)' <=> Ready(dd)
  BY <1>2, <1>3, SameLog DEF Inv
<1>9. StayInv'
  BY <1>2 DEF Inv, StayInv
<1>10. CallInv'
  <2>1. ASSUME NEW o \in Callers, call'[o] # Idle
        PROVE  Ready(DraftOf(o))'
    <3>1. CASE o = c
      <4>1. DraftOf(o)' = d
        BY <1>4, <1>6, <3>1 DEF DraftOf
      <4> QED BY <1>2, <1>8, <4>1 DEF Ready
    <3>2. CASE o # c
      <4>1. call'[o] = call[o] /\ DraftOf(o)' = DraftOf(o)
        BY <1>6, <3>2 DEF DraftOf
      <4>2. Ready(DraftOf(o))
        BY <2>1, <4>1 DEF Inv, CallInv
      <4> QED BY <1>8, <4>1, <4>2 DEF Ready
    <3> QED BY <3>1, <3>2
  <2>2. setting'.serialised => \A o, p \in Callers : call'[o] # Idle /\ call'[p] # Idle => o = p
    BY <1>2, <1>6
  <2> QED BY <2>1, <2>2 DEF CallInv
<1> QED BY <1>7, <1>8, <1>9, <1>10 DEF Inv

LEMMA StampInv ==
  ASSUME Inv, NEW c \in Callers, Stamp(c)
  PROVE  Inv'
<1> DEFINE e == [draft |-> call[c].draft, at |-> now]
           new == [phase |-> "stamped", event |-> e]
<1>1. call[c] \in Call /\ now \in Nat /\ call \in [Callers -> Call] /\ call[c].phase = "checked"
  BY DEF Inv, TypeOK, Stamp
<1>2. call[c].draft \in Draft
  BY <1>1 DEF Call
<1>3. e \in Event /\ e.draft = call[c].draft
  BY <1>1, <1>2 DEF Event
<1>4. call' = [call EXCEPT ![c] = new] /\ UNCHANGED <<storeVars, now>>
  BY DEF Stamp
<1> HIDE DEF e
<1>5. new \in Call /\ new.phase # "checked" /\ new.event = e
  BY <1>3 DEF Call
<1> HIDE DEF new
<1>6. call' \in [Callers -> Call] /\ call'[c] = new
      /\ \A o \in Callers : o # c => call'[o] = call[o]
  BY <1>1, <1>4, <1>5
<1>7. TypeOK'
  BY <1>4, <1>6 DEF Inv, TypeOK, StoreTypeOK, storeVars
<1>8. LogInv' /\ \A dd : Ready(dd)' <=> Ready(dd)
  BY <1>4, SameLog DEF Inv, LogInv, FileLoads, storeVars
<1>9. StayInv'
  BY <1>4 DEF Inv, StayInv, storeVars
<1>10. \A o \in Callers : call'[o] # Idle => call[o] # Idle /\ DraftOf(o)' = DraftOf(o)
  <2>1. call[c] # Idle
    BY <1>1 DEF Idle
  <2>2. DraftOf(c)' = DraftOf(c)
    BY <1>1, <1>3, <1>5, <1>6 DEF DraftOf
  <2>3. \A o \in Callers : o # c => call'[o] = call[o] /\ DraftOf(o)' = DraftOf(o)
    BY <1>6 DEF DraftOf
  <2> QED BY <2>1, <2>2, <2>3
<1>11. CallInv'
  <2>1. ASSUME NEW o \in Callers, call'[o] # Idle
        PROVE  Ready(DraftOf(o))'
    <3>1. DraftOf(o)' = DraftOf(o) /\ Ready(DraftOf(o))
      BY <1>10, <2>1 DEF Inv, CallInv
    <3> QED BY <1>8, <3>1 DEF Ready
  <2>2. setting' = setting
    BY <1>4 DEF storeVars
  <2>3. setting'.serialised => \A o, p \in Callers : call'[o] # Idle /\ call'[p] # Idle => o = p
    BY <1>10, <2>2 DEF Inv, CallInv
  <2> QED BY <2>1, <2>3 DEF CallInv
<1> QED BY <1>7, <1>8, <1>9, <1>11 DEF Inv

\* An operation that ends leaves no call that is not as ready as before.
LEMMA EndedCall ==
  ASSUME TypeOK, CallInv, NEW c \in Callers, call[c] # Idle, call' = [call EXCEPT ![c] = Idle],
         UNCHANGED setting,
         ~setting.serialised => \A d \in Draft : Ready(d) => Ready(d)'
  PROVE  call' \in [Callers -> Call] /\ CallInv'
<1>1. call \in [Callers -> Call] /\ Idle \in Call
  BY DEF TypeOK, Call, Idle
<1>2. call' \in [Callers -> Call] /\ call'[c] = Idle
      /\ \A o \in Callers : o # c => call'[o] = call[o] /\ DraftOf(o)' = DraftOf(o)
  BY <1>1 DEF DraftOf
<1>3. CASE setting.serialised
  <2>1. \A o \in Callers : call'[o] = Idle
    BY <1>2, <1>3 DEF CallInv
  <2> QED BY <1>2, <2>1 DEF CallInv
<1>4. CASE ~setting.serialised
  <2>1. ASSUME NEW o \in Callers, call'[o] # Idle
        PROVE  Ready(DraftOf(o))'
    <3>1. o # c /\ call[o] # Idle /\ call[o] \in Call /\ DraftOf(o)' = DraftOf(o)
      BY <1>1, <1>2, <2>1
    <3>2. DraftOf(o) \in Draft
      <4>1. CASE call[o].phase = "checked"
        BY <3>1, <4>1 DEF DraftOf, Call, Idle
      <4>2. CASE call[o].phase # "checked"
        BY <3>1, <4>2 DEF DraftOf, Call, Idle, Event
      <4> QED BY <4>1, <4>2
    <3>3. Ready(DraftOf(o))
      BY <3>1 DEF CallInv
    <3> DEFINE d == DraftOf(o)
    <3>4. PICK dd \in Draft : dd = d
      BY <3>2
    <3>5. Ready(dd)'
      BY <1>4, <3>3, <3>4
    <3> QED BY <3>1, <3>4, <3>5 DEF Ready
  <2> QED BY <1>2, <1>4, <2>1 DEF CallInv
<1> QED BY <1>3, <1>4

\* What an unserialised caller found in the log is not undone by a commit.
LEMMA AppendReady ==
  ASSUME log \in Seq(Line), UNCHANGED setting, ~setting.serialised, NEW e, Appends(e),
         NEW d \in Draft, Ready(d)
  PROVE  Ready(d)'
<1> SUFFICES ASSUME d.type = "finding.created", NEW ev \in d.cites
             PROVE  View'.evidence[ev] # None
  BY DEF Ready
<1>1. /\ View \in State /\ e \in Event /\ e.draft \in Draft
      /\ View' = Project(View, e)
  BY LogFields, AppendFacts DEF Event
<1>2. ev \in EvidenceIDs /\ View.evidence[ev] # None
  BY DraftFields DEF Ready
<1>3. e.draft.type = "evidence.committed" => e.draft.content # None
  BY <1>1, DraftFields, NoneIsNoID
<1>4. \/ Project(View, e).evidence[ev] = View.evidence[ev]
      \/ e.draft.type = "evidence.committed" /\ Project(View, e).evidence[ev] = e.draft.content
  BY <1>1, <1>2, ProjectIs
<1> QED BY <1>1, <1>2, <1>3, <1>4

\* A refused commit, or a line cut short.
LEMMA EmitNothing ==
  ASSUME Inv, NEW c \in Callers, call[c].phase = "stamped", call' = [call EXCEPT ![c] = Idle],
         UNCHANGED <<setting, log, synced, promised, delivered, now>>, tail' \in {"clean", "torn"}
  PROVE  Inv'
<1>1. LogInv' /\ \A d : Ready(d)' <=> Ready(d)
  BY SameLog DEF Inv
<1>2. call' \in [Callers -> Call] /\ CallInv'
  <2>1. call[c] # Idle
    BY DEF Idle
  <2>2. \A d \in Draft : Ready(d) => Ready(d)'
    BY <1>1
  <2> QED BY <2>1, <2>2, EndedCall DEF Inv
<1>3. TypeOK'
  BY <1>2 DEF Inv, TypeOK, StoreTypeOK
<1>4. StayInv'
  BY DEF Inv, StayInv
<1> QED BY <1>1, <1>2, <1>3, <1>4 DEF Inv

\* A line that is written, with or without its sync.
LEMMA EmitLine ==
  ASSUME Inv, NEW c \in Callers, call[c].phase = "stamped", call' = [call EXCEPT ![c] = Idle],
         NEW e, e = call[c].event, Appends(e), tail' = "clean",
         UNCHANGED <<setting, delivered, now>>,
         \/ "unsynced" \in setting.writes /\ UNCHANGED <<synced, promised>>
         \/ synced' = Len(log') /\ promised' = promised \cup {<<Len(log'), e>>}
  PROVE  Inv'
<1>1. log \in Seq(Line) /\ call[c] # Idle
  BY DEF Inv, TypeOK, StoreTypeOK, Idle
<1>2. DraftOf(c) = e.draft /\ Ready(e.draft)
  BY <1>1 DEF Inv, CallInv, DraftOf
<1>3. LogInv'
  BY <1>1, <1>2, AppendKeeps DEF Inv
<1>4. call' \in [Callers -> Call] /\ CallInv'
  BY <1>1, AppendReady, EndedCall DEF Inv
<1>5. /\ log' \in Seq(Line) /\ Len(log) \in Nat /\ Len(log') = Len(log) + 1
      /\ \A i \in 1..Len(log) : log'[i] = log[i]
      /\ log'[Len(log) + 1].event = e /\ e \in Event
  BY <1>1, AppendFacts
<1>6. synced \in 0..Len(log) /\ promised \subseteq Nat \X Event
  BY DEF Inv, TypeOK, StoreTypeOK
<1>7. synced' \in 0..Len(log') /\ promised' \subseteq Nat \X Event
  BY <1>5, <1>6
<1>8. TypeOK'
  BY <1>4, <1>5, <1>7 DEF Inv, TypeOK, StoreTypeOK
<1>9. StayInv'
  <2>1. ASSUME NEW p \in promised'
        PROVE  p[1] \in 1..synced' /\ log'[p[1]].event = p[2]
    <3>1. CASE p \in promised
      <4>1. p[1] \in 1..synced /\ log[p[1]].event = p[2]
        BY <3>1 DEF Inv, StayInv
      <4>2. p[1] \in 1..Len(log) /\ p[1] \in 1..synced'
        BY <1>5, <1>6, <4>1
      <4> QED BY <1>5, <4>1, <4>2
    <3>2. CASE p \notin promised
      <4>1. p = <<Len(log'), e>> /\ synced' = Len(log')
        BY <2>1, <3>2
      <4>2. p[1] = Len(log) + 1 /\ p[2] = e
        BY <1>5, <4>1
      <4> QED BY <1>5, <4>1, <4>2
    <3> QED BY <3>1, <3>2
  <2>2. ASSUME "unsynced" \notin setting.writes
        PROVE  /\ synced' = Len(log')
               /\ \A s \in Subscribers :
                    /\ Len(delivered'[s]) <= Len(log')
                    /\ \A i \in DOMAIN delivered'[s] : delivered'[s][i] = log'[i].event
    <3>1. synced' = Len(log')
      BY <2>2
    <3>2. ASSUME NEW s \in Subscribers
          PROVE  /\ Len(delivered[s]) <= Len(log')
                 /\ \A i \in DOMAIN delivered[s] : delivered[s][i] = log'[i].event
      <4>1. /\ Len(delivered[s]) <= Len(log)
            /\ \A i \in DOMAIN delivered[s] : delivered[s][i] = log[i].event
        BY <2>2 DEF Inv, StayInv
      <4>2. Len(delivered[s]) \in Nat /\ DOMAIN delivered[s] = 1..Len(delivered[s])
        BY LenProperties DEF Inv, TypeOK, StoreTypeOK
      <4>3. \A i \in DOMAIN delivered[s] : i \in 1..Len(log)
        BY <1>5, <4>1, <4>2
      <4> QED BY <1>5, <4>1, <4>2, <4>3
    <3> QED BY <3>1, <3>2
  <2>3. setting' = setting
    OBVIOUS
  <2> QED BY <2>1, <2>2, <2>3 DEF StayInv
<1> QED BY <1>3, <1>4, <1>8, <1>9 DEF Inv

LEMMA EmitInv ==
  ASSUME Inv, NEW c \in Callers, Emit(c)
  PROVE  Inv'
<1>1. /\ tail \in {"clean", "torn"} /\ call[c] \in Call /\ call[c].phase = "stamped"
      /\ call' = [call EXCEPT ![c] = Idle] /\ UNCHANGED <<setting, delivered, now>>
  BY DEF Inv, TypeOK, StoreTypeOK, LogInv, FileLoads, Emit, Commit
<1>2. call[c].event \in Event
  BY <1>1 DEF Call
<1>3. PICK e \in Event : e = call[c].event
  BY <1>2
<1>4. \/ Refuse
      \/ Accepts(View, e) /\ \E outcome \in setting.writes : Write(e, outcome)
  BY <1>3 DEF Emit, Commit
<1>5. CASE Refuse
  <2>1. tail' \in {"clean", "torn"} /\ UNCHANGED <<log, synced, promised>>
    BY <1>1, <1>5 DEF Refuse, Repaired
  <2> QED BY <1>1, <2>1, EmitNothing
<1>6. ASSUME NEW outcome \in setting.writes, Accepts(View, e), Write(e, outcome)
      PROVE  Inv'
  <2>1. CASE outcome = "short"
    <3>1. tail' = "torn" /\ UNCHANGED <<log, synced, promised>>
      BY <1>6, <2>1 DEF Write
    <3> QED BY <1>1, <3>1, EmitNothing
  <2>2. CASE outcome # "short"
    <3>1. /\ Append1(e)
          /\ \/ "unsynced" \in setting.writes /\ UNCHANGED <<synced, promised>>
             \/ synced' = Len(log') /\ promised' = promised \cup {<<Len(log'), e>>}
      BY <1>6, <2>2 DEF Write
    <3>2. tail' = "clean"
      BY <1>1, <3>1 DEF Append1, Repaired
    <3>3. Appends(e)
      BY <1>3, <1>6, <3>1 DEF Appends, LineOf, Append1
    <3> QED BY <1>1, <1>3, <3>1, <3>2, <3>3, EmitLine
  <2> QED BY <2>1, <2>2
<1> QED BY <1>4, <1>5, <1>6

LEMMA EventsRead ==
  ASSUME Inv, NEW s \in Subscribers, Subscribe(s)
  PROVE  /\ UNCHANGED <<call, now, setting, log, synced, promised>>
         /\ tail' \in {"clean", "torn"}
         /\ Len(delivered[s]) < Len(log)
         /\ delivered' \in [Subscribers -> Seq(Event)]
         /\ Len(delivered'[s]) = Len(log)
         /\ \A i \in 1..Len(delivered[s]) : delivered'[s][i] = delivered[s][i]
         /\ \A i \in (Len(delivered[s]) + 1)..Len(log) : delivered'[s][i] = log[i].event
         /\ \A r \in Subscribers \ {s} : delivered'[r] = delivered[r]
<1> DEFINE old == delivered[s]
           more == [i \in 1..(Len(log) - Len(old)) |-> log[Len(old) + i].event]
           new == old \o more
<1>1. /\ UNCHANGED <<call, now, setting, log, synced, promised>>
      /\ Len(old) < Len(log)
      /\ delivered' = [delivered EXCEPT ![s] = new]
      /\ tail # "garbled" /\ tail' = Repaired(tail)
  BY DEF Subscribe, EventsAfter, Load
<1>2. /\ delivered \in [Subscribers -> Seq(Event)] /\ log \in Seq(Line)
      /\ tail' \in {"clean", "torn"}
  BY <1>1 DEF Inv, TypeOK, StoreTypeOK, Repaired
<1>3. /\ old \in Seq(Event) /\ Len(old) \in Nat /\ DOMAIN old = 1..Len(old)
      /\ Len(log) \in Nat /\ \A i \in 1..Len(log) : log[i].event \in Event
  BY <1>2, LenProperties, LogFields
<1>4. Len(log) - Len(old) \in Nat
  BY <1>1, <1>3
<1>5. \A i \in 1..(Len(log) - Len(old)) : log[Len(old) + i].event \in Event
  BY <1>3
<1>6. more \in Seq(Event) /\ Len(more) = Len(log) - Len(old)
  <2> DEFINE m == Len(log) - Len(old)
             f(i) == log[Len(old) + i].event
  <2>1. m \in Nat /\ more = [i \in 1..m |-> f(i)] /\ \A i \in 1..m : f(i) \in Event
    BY <1>4, <1>5
  <2> HIDE DEF m, f, more
  <2>2. more \in [1..m -> Event]
    BY <2>1
  <2> QED BY <2>1, <2>2, IsASeq, LenProperties DEF m
<1>7. \A i \in 1..(Len(log) - Len(old)) : more[i] = log[Len(old) + i].event
  OBVIOUS
<1> HIDE DEF more, old
<1>8. /\ new \in Seq(Event) /\ Len(new) = Len(log)
      /\ \A i \in 1..Len(log) : i <= Len(old) => new[i] = old[i]
      /\ \A i \in 1..Len(log) : i > Len(old) => new[i] = more[i - Len(old)]
  BY <1>3, <1>4, <1>6, ConcatProperties
<1> HIDE DEF new
<1>9. \A i \in 1..Len(old) : new[i] = old[i]
  BY <1>1, <1>3, <1>8
<1>10. ASSUME NEW i \in (Len(old) + 1)..Len(log) PROVE new[i] = log[i].event
  <2>1. i - Len(old) \in 1..(Len(log) - Len(old)) /\ Len(old) + (i - Len(old)) = i
        /\ i \in 1..Len(log) /\ i > Len(old)
    BY <1>3
  <2>2. more[i - Len(old)] = log[Len(old) + (i - Len(old))].event
    BY <1>7, <2>1
  <2> QED BY <1>8, <2>1, <2>2
<1>11. /\ delivered' \in [Subscribers -> Seq(Event)] /\ delivered'[s] = new
       /\ \A r \in Subscribers \ {s} : delivered'[r] = delivered[r]
  BY <1>1, <1>2, <1>8
<1>12. /\ Len(delivered'[s]) = Len(log)
       /\ \A i \in 1..Len(old) : delivered'[s][i] = old[i]
       /\ \A i \in (Len(old) + 1)..Len(log) : delivered'[s][i] = log[i].event
  BY <1>8, <1>9, <1>10, <1>11
<1>13. /\ UNCHANGED <<call, now, setting, log, synced, promised>>
       /\ tail' \in {"clean", "torn"}
       /\ Len(old) < Len(log)
  BY <1>1, <1>2
<1> QED BY <1>11, <1>12, <1>13 DEF old

LEMMA SubscribeInv ==
  ASSUME Inv, NEW s \in Subscribers, Subscribe(s)
  PROVE  Inv'
<1>1. /\ UNCHANGED <<call, now, setting, log, synced, promised>>
      /\ tail' \in {"clean", "torn"} /\ delivered' \in [Subscribers -> Seq(Event)]
      /\ Len(delivered'[s]) = Len(log)
      /\ \A i \in 1..Len(delivered[s]) : delivered'[s][i] = delivered[s][i]
      /\ \A i \in (Len(delivered[s]) + 1)..Len(log) : delivered'[s][i] = log[i].event
      /\ \A r \in Subscribers \ {s} : delivered'[r] = delivered[r]
  BY EventsRead
<1>2. log \in Seq(Line) /\ Len(log) \in Nat /\ delivered[s] \in Seq(Event)
      /\ Len(delivered[s]) \in Nat /\ DOMAIN delivered[s] = 1..Len(delivered[s])
  BY LogFields, LenProperties DEF Inv, TypeOK, StoreTypeOK
<1>9. TypeOK'
  BY <1>1 DEF Inv, TypeOK, StoreTypeOK
<1>10. LogInv' /\ \A d : Ready(d)' <=> Ready(d)
  BY <1>1, <1>2, SameLog DEF Inv
<1>11. StayInv'
  <2>1. ASSUME "unsynced" \notin setting.writes, NEW o \in Subscribers
        PROVE  /\ Len(delivered'[o]) <= Len(log)
               /\ \A i \in DOMAIN delivered'[o] : delivered'[o][i] = log[i].event
    <3>1. CASE o = s
      <4>1. DOMAIN delivered'[o] = 1..Len(log)
        BY <1>1, <3>1, LenProperties
      <4>2. \A i \in 1..Len(delivered[s]) : delivered[s][i] = log[i].event
        BY <1>2, <2>1 DEF Inv, StayInv
      <4>3. ASSUME NEW i \in 1..Len(log) PROVE delivered'[o][i] = log[i].event
        BY <1>1, <1>2, <3>1, <4>2
      <4> QED BY <1>1, <1>2, <3>1, <4>1, <4>3
    <3>2. CASE o # s
      <4>1. delivered'[o] = delivered[o]
        BY <1>1, <3>2
      <4> QED BY <2>1, <4>1 DEF Inv, StayInv
    <3> QED BY <3>1, <3>2
  <2> QED BY <1>1, <2>1 DEF Inv, StayInv
<1>12. CallInv'
  <2>1. ASSUME NEW o \in Callers, call'[o] # Idle
        PROVE  Ready(DraftOf(o))'
    <3>1. DraftOf(o)' = DraftOf(o) /\ Ready(DraftOf(o))
      BY <1>1, <2>1 DEF Inv, CallInv, DraftOf
    <3> QED BY <1>10, <3>1 DEF Ready
  <2> QED BY <1>1, <2>1 DEF Inv, CallInv
<1> QED BY <1>9, <1>10, <1>11, <1>12 DEF Inv

LEMMA OutageInv ==
  ASSUME Inv, Outage
  PROVE  Inv'
<1>1. PICK n \in synced..Len(log) :
        /\ log' = SubSeq(log, 1, n)
        /\ synced' = n
        /\ tail' \in {tail} \cup IF n < Len(log) THEN {"clean", "torn"} ELSE {}
        /\ UNCHANGED <<setting, promised, delivered>>
  BY DEF Outage, PowerLoss
<1>2. /\ call' = [c \in Callers |-> Idle] /\ UNCHANGED now
      /\ log \in Seq(Line) /\ synced \in 0..Len(log) /\ Len(log) \in Nat
  BY LogFields DEF Inv, TypeOK, StoreTypeOK, Outage
<1>3. Cuts(n) /\ tail' \in {"clean", "torn"}
  BY <1>1, <1>2 DEF Cuts, Inv, TypeOK, StoreTypeOK, LogInv, FileLoads
<1>4. /\ log' \in Seq(Line) /\ Len(log') = n
      /\ \A i \in 1..n : log'[i] = log[i]
  BY <1>2, <1>3, CutFacts
<1>5. TypeOK'
  BY <1>1, <1>2, <1>3, <1>4 DEF Inv, TypeOK, StoreTypeOK, Call, Idle
<1>6. LogInv'
  BY <1>1, <1>2, <1>3, CutKeeps DEF Inv
<1>7. StayInv'
  <2>1. ASSUME NEW p \in promised
        PROVE  p[1] \in 1..n /\ log'[p[1]].event = p[2]
    <3>1. p[1] \in 1..synced /\ log[p[1]].event = p[2]
      BY DEF Inv, StayInv
    <3>2. p[1] \in 1..n
      BY <1>1, <1>2, <3>1
    <3> QED BY <1>4, <3>1, <3>2
  <2>2. ASSUME "unsynced" \notin setting.writes, NEW s \in Subscribers
        PROVE  /\ Len(delivered[s]) <= n
               /\ \A i \in DOMAIN delivered[s] : delivered[s][i] = log'[i].event
    <3>1. /\ Len(delivered[s]) <= Len(log) /\ synced = Len(log)
          /\ \A i \in DOMAIN delivered[s] : delivered[s][i] = log[i].event
      BY <2>2 DEF Inv, StayInv
    <3>2. n = Len(log)
      BY <1>1, <1>2, <3>1
    <3>3. Len(delivered[s]) \in Nat /\ DOMAIN delivered[s] = 1..Len(delivered[s])
      BY LenProperties DEF Inv, TypeOK, StoreTypeOK
    <3>4. \A i \in DOMAIN delivered[s] : i \in 1..n
      BY <1>2, <3>1, <3>2, <3>3
    <3> QED BY <1>4, <3>1, <3>2, <3>4
  <2> QED BY <1>1, <1>4, <2>1, <2>2 DEF StayInv
<1>8. CallInv'
  BY <1>2 DEF CallInv
<1> QED BY <1>5, <1>6, <1>7, <1>8 DEF Inv

LEMMA KillInv ==
  ASSUME Inv, Kill
  PROVE  Inv'
<1>1. call' = [c \in Callers |-> Idle] /\ UNCHANGED <<storeVars, now>>
  BY DEF Kill
<1>2. TypeOK'
  BY <1>1 DEF Inv, TypeOK, StoreTypeOK, storeVars, Call, Idle
<1>3. LogInv'
  BY <1>1, SameLog DEF Inv, LogInv, FileLoads, storeVars
<1>4. StayInv'
  BY <1>1 DEF Inv, StayInv, storeVars
<1>5. CallInv'
  BY <1>1 DEF CallInv
<1> QED BY <1>2, <1>3, <1>4, <1>5 DEF Inv

\* Neither the clock nor a stutter is noticed.
LEMMA SameInv ==
  ASSUME Inv, UNCHANGED <<storeVars, call>>, now' \in Nat
  PROVE  Inv'
<1>1. TypeOK'
  BY DEF Inv, TypeOK, StoreTypeOK, storeVars
<1>2. LogInv' /\ \A d : Ready(d)' <=> Ready(d)
  BY SameLog DEF Inv, LogInv, FileLoads, storeVars
<1>3. StayInv'
  BY DEF Inv, StayInv, storeVars
<1>4. CallInv'
  <2>1. ASSUME NEW o \in Callers, call'[o] # Idle
        PROVE  Ready(DraftOf(o))'
    <3>1. DraftOf(o)' = DraftOf(o) /\ Ready(DraftOf(o))
      BY <2>1 DEF Inv, CallInv, DraftOf
    <3> QED BY <1>2, <3>1 DEF Ready
  <2> QED BY <2>1 DEF Inv, CallInv, storeVars
<1> QED BY <1>1, <1>2, <1>3, <1>4 DEF Inv

LEMMA NextInv == Inv /\ [Next]_vars => Inv'
<1> SUFFICES ASSUME Inv, [Next]_vars PROVE Inv'
  OBVIOUS
<1>1. now \in Nat
  BY DEF Inv, TypeOK
<1>2. CASE \E c \in Callers : Begin(c)
  BY <1>2, BeginInv
<1>3. CASE \E c \in Callers : Stamp(c)
  BY <1>3, StampInv
<1>4. CASE \E c \in Callers : Emit(c)
  BY <1>4, EmitInv
<1>5. CASE \E s \in Subscribers : Subscribe(s)
  BY <1>5, SubscribeInv
<1>6. CASE Tick
  <2>1. UNCHANGED <<storeVars, call>> /\ now' \in Nat
    BY <1>1, <1>6 DEF Tick
  <2> QED BY <2>1, SameInv
<1>7. CASE Kill
  BY <1>7, KillInv
<1>8. CASE Outage
  BY <1>8, OutageInv
<1>9. CASE UNCHANGED vars
  <2>1. UNCHANGED <<storeVars, call>> /\ now' \in Nat
    BY <1>1, <1>9 DEF vars
  <2> QED BY <2>1, SameInv
<1> QED BY <1>2, <1>3, <1>4, <1>5, <1>6, <1>7, <1>8, <1>9 DEF Next

LEMMA Invariant == Spec => []Inv
  BY InitInv, NextInv, PTL DEF Spec

-----------------------------------------------------------------------------
(* What the invariant says about the service.                               *)

\* The variables keep their types: what the store reads back is a state, and
\* what a caller holds between its check and its commit is a draft or an event.
THEOREM RuntimeTypeOK == Spec => []TypeOK
<1>1. Inv => TypeOK
  BY DEF Inv
<1> QED BY <1>1, Invariant, PTL

\* The store can always be read: a commit repairs a torn tail before it appends,
\* and every line it wrote is one its own replay accepts.
THEOREM RuntimeFileLoads == Spec => []FileLoads
<1>1. Inv => FileLoads
  BY DEF Inv, LogInv
<1> QED BY <1>1, Invariant, PTL

\* An acknowledged event keeps its cursor, and what a subscriber read is the
\* beginning of the log, over cut lines, failed syncs and losses of power.
THEOREM RuntimeEventsStay == Spec => []EventsStay
<1>1. ASSUME Inv PROVE EventsStay
  <2>1. synced \in 0..Len(log) /\ Len(log) \in Nat
    BY <1>1, LogFields DEF Inv, TypeOK, StoreTypeOK
  <2>2. \A p \in promised : p[1] <= Len(log) /\ log[p[1]].event = p[2]
    BY <1>1, <2>1 DEF Inv, StayInv
  <2> QED BY <1>1, <2>2 DEF Inv, StayInv, EventsStay
<1> QED BY <1>1, Invariant, PTL

\* A challenge has one decision, no later than it expires, with any number of
\* callers between their check and their commit: the reducer checks again.
THEOREM RuntimeDecidedOnceInTime == Spec => []DecidedOnceInTime
<1>1. ASSUME Inv PROVE DecidedOnceInTime
  <2>1. DOMAIN log = 1..Len(log) /\ Len(log) \in Nat
    BY <1>1, LogFields DEF Inv, TypeOK, StoreTypeOK
  <2>2. ASSUME NEW i \in DOMAIN log, NEW ch \in Challenges, Resolves(i, ch)
        PROVE  /\ StateAfter(i - 1).approvals[ch].decision = "open"
               /\ log[i].event.at <= StateAfter(i - 1).approvals[ch].expires
    BY <1>1, <2>2 DEF Inv, LogInv, FileLoads, Accepts, AcceptsResolution, Resolves, DraftAt
  <2>3. ASSUME NEW i \in DOMAIN log, NEW j \in DOMAIN log, NEW ch \in Challenges,
               Resolves(i, ch), Resolves(j, ch), i < j
        PROVE  FALSE
    <3>1. j - 1 \in i..Len(log)
      BY <2>1, <2>3
    <3>2. StateAfter(j - 1).approvals[ch].decision \in Decisions
      BY <1>1, <2>3, <3>1 DEF Inv, LogInv, DecidedInv
    <3> QED BY <2>2, <2>3, <3>2 DEF Decisions
  <2>4. \A i, j \in DOMAIN log : i < j \/ j < i \/ i = j
    BY <2>1
  <2> QED BY <2>2, <2>3, <2>4 DEF DecidedOnceInTime
<1> QED BY <1>1, Invariant, PTL

\* A finding cites only evidence the task has, and evidence says one thing.
THEOREM RuntimeFindingsCiteEvidence == Spec => []FindingsCiteEvidence
<1>1. ASSUME Inv PROVE FindingsCiteEvidence
  <2>1. DOMAIN log = 1..Len(log) /\ Len(log) \in Nat
    BY <1>1, LogFields DEF Inv, TypeOK, StoreTypeOK
  <2>2. Cites(View)
    BY <1>1, <2>1 DEF Inv, LogInv, CitesInv, View
  <2>3. ASSUME NEW i \in DOMAIN log, NEW j \in DOMAIN log,
               DraftAt(i).type = "evidence.committed", DraftAt(j).type = "evidence.committed",
               DraftAt(i).evidence = DraftAt(j).evidence
        PROVE  DraftAt(i).content = DraftAt(j).content
    <3>1. Len(log) \in i..Len(log) /\ Len(log) \in j..Len(log)
      BY <2>1
    <3>2. /\ View.evidence[DraftAt(i).evidence] = DraftAt(i).content
          /\ View.evidence[DraftAt(j).evidence] = DraftAt(j).content
      BY <1>1, <2>3, <3>1 DEF Inv, LogInv, EvidenceInv, View
    <3> QED BY <2>3, <3>2
  <2> QED BY <2>2, <2>3 DEF FindingsCiteEvidence, Cites
<1> QED BY <1>1, Invariant, PTL

\* Under the mutex of LocalServer, a challenge is requested and decided under one
\* confirmed scope that permits it.
THEOREM RuntimeApprovalsInScope == Spec => []ApprovalsInScope
<1>1. Inv => ApprovalsInScope
  BY DEF Inv, LogInv
<1> QED BY <1>1, Invariant, PTL

\* Under the mutex of LocalServer, an edit or a freeze continues the report it
\* was made for, and never one that is frozen.
THEOREM RuntimeReportsMoveForward == Spec => []ReportsMoveForward
<1>1. Inv => ReportsMoveForward
  BY DEF Inv, LogInv
<1> QED BY <1>1, Invariant, PTL

\* Revisions of control only grow, with any number of callers that have read the
\* same one: the reducer refuses all but the first of them.
THEOREM RuntimeControlMovesForward == Spec => []ControlMovesForward
<1>1. ASSUME Inv PROVE ControlMovesForward
  <2>1. DOMAIN log = 1..Len(log) /\ Len(log) \in Nat
    BY <1>1, LogFields DEF Inv, TypeOK, StoreTypeOK
  <2>2. ASSUME NEW i \in DOMAIN log, NEW j \in DOMAIN log, i < j,
               DraftAt(i).type \in ControlEvents, DraftAt(j).type \in ControlEvents
        PROVE  DraftAt(i).revision < DraftAt(j).revision
    <3>1. j - 1 \in i..Len(log) /\ j - 1 \in 0..Len(log)
      BY <2>1, <2>2
    <3>2. DraftAt(i).revision <= StateAfter(j - 1).revision
      BY <1>1, <2>2, <3>1 DEF Inv, LogInv, ControlInv
    <3>3. DraftAt(j).revision > StateAfter(j - 1).revision
      BY <1>1, <2>2 DEF Inv, LogInv, FileLoads, Accepts, AcceptsControl, DraftAt
    <3>4. StateAfter(j - 1) \in State /\ DraftAt(i) \in Draft /\ DraftAt(j) \in Draft
      BY <1>1, <2>1, <3>1, LogFields DEF Inv, TypeOK, StoreTypeOK
    <3>5. /\ StateAfter(j - 1).revision \in Nat /\ DraftAt(i).revision \in Nat
          /\ DraftAt(j).revision \in Nat
      BY <2>2, <3>4, DraftFields DEF State, ControlEvents
    <3> QED BY <3>2, <3>3, <3>5
  <2> QED BY <2>2 DEF ControlMovesForward
<1> QED BY <1>1, Invariant, PTL

-----------------------------------------------------------------------------
(* The file implements EventLog: every step adds one line, lets a reader     *)
(* catch up, loses lines nobody was told of, or is not noticed.              *)

LEMMA Unnoticed ==
  ASSUME UNCHANGED <<setting, log, promised, delivered>>
  PROVE  UNCHANGED Log!vars
  BY Zenon DEF Log!vars

LEMMA LineIsAdded ==
  ASSUME log \in Seq(Line), NEW e, Appends(e), UNCHANGED <<setting, delivered>>,
         \/ "unsynced" \in setting.writes /\ UNCHANGED promised
         \/ promised' = promised \cup {<<Len(log'), e>>}
  PROVE  Log!Add
<1> DEFINE cursor == Len(log) + 1
<1>1. /\ Len(log) \in Nat /\ Len(log') = cursor
      /\ \A i \in 1..Len(log) : log'[i] = log[i]
      /\ log'[cursor].event = e /\ log'[cursor].state = Project(View, e)
      /\ Accepts(View, e)
  BY AppendFacts DEF Appends
<1>2. MayFollow(log, log'[cursor])
  BY <1>1 DEF MayFollow, View, StateAfter
<1>3. \/ promised' = promised \cup {<<cursor, log'[cursor].event>>}
      \/ ~("unsynced" \notin setting.writes) /\ promised' = promised
  BY <1>1
<1>4. UNCHANGED <<delivered, "unsynced" \notin setting.writes>>
  BY Zenon
<1> QED BY <1>1, <1>2, <1>3, <1>4 DEF Log!Add

LEMMA EmitIsAdd ==
  ASSUME Inv, NEW c \in Callers, Emit(c)
  PROVE  Log!Add \/ UNCHANGED Log!vars
<1>1. log \in Seq(Line) /\ call[c] \in Call /\ call[c].phase = "stamped"
  BY DEF Inv, TypeOK, StoreTypeOK, Emit
<1>2. call[c].event \in Event
  BY <1>1 DEF Call
<1>3. PICK e \in Event : e = call[c].event
  BY <1>2
<1>4. /\ UNCHANGED <<setting, delivered>>
      /\ \/ Refuse
         \/ Accepts(View, e) /\ \E outcome \in setting.writes : Write(e, outcome)
  BY <1>3 DEF Emit, Commit
<1>5. \/ UNCHANGED <<log, promised>>
      \/ /\ Accepts(View, e) /\ Append1(e)
         /\ \/ "unsynced" \in setting.writes /\ UNCHANGED promised
            \/ promised' = promised \cup {<<Len(log'), e>>}
  BY <1>4 DEF Refuse, Write
<1>6. CASE UNCHANGED <<log, promised>>
  BY <1>4, <1>6, Unnoticed
<1>7. CASE /\ Accepts(View, e) /\ Append1(e)
           /\ \/ "unsynced" \in setting.writes /\ UNCHANGED promised
              \/ promised' = promised \cup {<<Len(log'), e>>}
  <2>1. Appends(e)
    BY <1>7 DEF Appends, LineOf, Append1
  <2> QED BY <1>1, <1>4, <1>7, <2>1, LineIsAdded
<1> QED BY <1>5, <1>6, <1>7

LEMMA SubscribeIsRead ==
  ASSUME Inv, NEW s \in Subscribers, Subscribe(s)
  PROVE  Log!Read(s)
<1>1. UNCHANGED <<log, promised, "unsynced" \notin setting.writes>>
  BY EventsRead, Zenon
<1> QED BY <1>1, EventsRead DEF Log!Read

\* Promised lines are synced, and without failing syncs all lines are.
LEMMA OutageIsLoss ==
  ASSUME Inv, Outage
  PROVE  Log!Lose \/ UNCHANGED Log!vars
<1>1. PICK n \in synced..Len(log) :
        /\ log' = SubSeq(log, 1, n)
        /\ UNCHANGED <<setting, promised, delivered>>
  BY DEF Outage, PowerLoss
<1>2. log \in Seq(Line) /\ synced \in 0..Len(log) /\ Len(log) \in Nat
  BY LogFields DEF Inv, TypeOK, StoreTypeOK
<1>3. n \in 0..Len(log)
  BY <1>1, <1>2
<1>4. CASE "unsynced" \in setting.writes
  <2>1. ASSUME NEW p \in promised PROVE p[1] <= n
    <3>1. p[1] \in 1..synced
      BY DEF Inv, StayInv
    <3> QED BY <1>1, <1>2, <3>1
  <2>2. UNCHANGED <<promised, delivered, "unsynced" \notin setting.writes>>
    BY <1>1, Zenon
  <2>3. Cuts(n)
    BY <1>1, <1>3 DEF Cuts
  <2>4. Len(log') = n /\ \A i \in 1..n : log'[i] = log[i]
    BY <1>2, <2>3, CutFacts
  <2> QED BY <1>2, <1>3, <1>4, <2>1, <2>2, <2>4 DEF Log!Lose
<1>5. CASE "unsynced" \notin setting.writes
  <2>1. n = Len(log)
    BY <1>1, <1>2, <1>5 DEF Inv, StayInv
  <2>2. Cuts(n)
    BY <1>1, <1>3 DEF Cuts
  <2>3. /\ log' \in Seq(Line) /\ Len(log') = Len(log)
        /\ \A i \in 1..Len(log) : log'[i] = log[i]
    BY <1>2, <2>1, <2>2, CutFacts
  <2>4. log' = log
    BY <1>2, <2>3, SeqEqual
  <2> QED BY <1>1, <2>4, Unnoticed
<1> QED BY <1>4, <1>5

\* The transaction log is what EventLog promises, for callers that race, lines cut
\* short and repaired, syncs that fail and machines that stop.
THEOREM RuntimeImplementsEventLog == Spec => ImplementsEventLog
<1>1. Init => Log!Init
  BY DEF Init, StoreInit, Log!Init
<1>2. ASSUME Inv, [Next]_vars
      PROVE  [Log!Next]_(Log!vars)
  <2>1. CASE \E c \in Callers : Begin(c) \/ Stamp(c)
    <3>1. PICK c \in Callers : Begin(c) \/ Stamp(c)
      BY <2>1
    <3>2. CASE Begin(c)
      <4>1. \E d : Begun(c, d)
        BY <1>2, <3>2, BeginsReady DEF Inv
      <4> QED BY <4>1, Unnoticed DEF Begun
    <3>3. CASE Stamp(c)
      BY <3>3, Unnoticed DEF Stamp, storeVars
    <3> QED BY <3>1, <3>2, <3>3
  <2>2. CASE \E c \in Callers : Emit(c)
    BY <1>2, <2>2, EmitIsAdd DEF Log!Next
  <2>3. CASE \E s \in Subscribers : Subscribe(s)
    BY <1>2, <2>3, SubscribeIsRead DEF Log!Next
  <2>4. CASE Tick \/ Kill \/ UNCHANGED vars
    BY <2>4, Unnoticed DEF Tick, Kill, vars, storeVars
  <2>5. CASE Outage
    BY <1>2, <2>5, OutageIsLoss DEF Log!Next
  <2> QED BY <1>2, <2>1, <2>2, <2>3, <2>4, <2>5 DEF Next
<1> QED BY <1>1, <1>2, Invariant, PTL DEF Spec, ImplementsEventLog, Log!Spec
=============================================================================
