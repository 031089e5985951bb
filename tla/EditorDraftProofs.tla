------------------------- MODULE EditorDraftProofs -------------------------
(***************************************************************************)
(* Proofs about EditorDraft for any drafts, texts, clients and scopes, any *)
(* number of saves and of faults: its types, which drafts were written,    *)
(* what leaves a prepared file behind, and what the file is replaced with. *)
(***************************************************************************)
EXTENDS EditorDraft, TLAPS

Crashed == \E i \in DOMAIN faults : faults[i] = "crash"

\* What the apply in progress has checked still holds, unless another program
\* wrote the file: its draft is the one that was checked, and the prepared file
\* has its text.
ApplyFollowsDraft ==
  LET d == drafts[apply.draft]
  IN /\ apply.phase \in {"checked", "prepared"} => d.status = "saved"
     /\ apply.phase = "recorded" => d.status = "applied"
     /\ apply.phase \in {"checked", "prepared", "recorded"} =>
          d.proposed = apply.text /\ (file = d.base \/ touched)
     /\ apply.phase \in {"prepared", "recorded"} => temp = apply.text

\* A prepared file that no apply in progress has made was left by a crash.
LeftoverInv ==
  temp # None /\ apply.phase \in {"idle", "checked", "replaced"} => Crashed

\* A saved draft has a text, so an apply that compares it with the manager's
\* finds one there.
SavedHasText == \A d \in Drafts : drafts[d].status = "saved" => drafts[d].proposed \in Texts

\* The inductive invariant.
Inv == TypeOK /\ SavedHasText /\ ApplyFollowsDraft /\ LeftoverInv /\ AppliedIsWritten

-----------------------------------------------------------------------------
(* Lemmas about the operators.                                              *)

\* The fields of the apply in progress.
LEMMA ApplyFields ==
  ASSUME TypeOK
  PROVE  /\ apply.phase \in {"idle", "checked", "prepared", "recorded", "replaced"}
         /\ apply.phase = "idle" <=> apply = Idle
         /\ apply.phase # "idle" => apply.draft \in Drafts /\ apply.text \in Texts
         /\ \A p \in {"checked", "prepared", "recorded", "replaced"} :
              apply.phase # "idle" =>
                /\ [apply EXCEPT !.phase = p] \in Apply
                /\ [apply EXCEPT !.phase = p].phase = p
                /\ [apply EXCEPT !.phase = p].draft = apply.draft
                /\ [apply EXCEPT !.phase = p].text = apply.text
  BY DEF TypeOK, Apply, Idle

\* A fault is added to those before it.
LEMMA FaultType ==
  ASSUME TypeOK, NEW kind \in Faults, Fault(kind)
  PROVE  /\ faults' \in Seq(Faults) /\ Len(faults') <= MaxFaults
         /\ Crashed => Crashed'
         /\ kind = "crash" => Crashed'
<1>1. faults \in Seq(Faults) /\ Len(faults) < MaxFaults /\ Len(faults) \in Nat
  BY DEF TypeOK, Fault
<1>2. faults' = Append(faults, kind)
  BY DEF Fault
<1>3. faults' \in Seq(Faults) /\ Len(faults') = Len(faults) + 1
  BY <1>1, <1>2
<1>4. /\ \A i \in 1..Len(faults) : faults'[i] = faults[i]
      /\ faults'[Len(faults) + 1] = kind
  BY <1>1, <1>2
<1>5. DOMAIN faults' = 1..(Len(faults) + 1) /\ DOMAIN faults = 1..Len(faults)
  BY <1>1, <1>3
<1>6. Len(faults') <= MaxFaults
  BY <1>1, <1>3, EditorAssumptions
<1> QED BY <1>1, <1>3, <1>4, <1>5, <1>6 DEF Crashed

\* A commit changes the draft it is about, or nothing.
LEMMA EmitType ==
  ASSUME TypeOK, NEW d \in Drafts, NEW after \in Draft, NEW outcome \in Outcomes,
         Emit(d, after, outcome)
  PROVE  /\ drafts' \in [Drafts -> Draft]
         /\ faults' \in Seq(Faults) /\ Len(faults') <= MaxFaults
         /\ Crashed => Crashed'
         /\ \/ drafts' = drafts /\ outcome = "refused"
            \/ drafts' = [drafts EXCEPT ![d] = after] /\ outcome \in {"committed", "unsynced"}
<1>1. CASE UNCHANGED faults
  BY <1>1 DEF TypeOK, Emit, Outcomes, Crashed
<1>2. CASE Fault("refused")
  BY <1>2, FaultType DEF TypeOK, Emit, Outcomes, Faults
<1>3. CASE Fault("unsynced")
  BY <1>3, FaultType DEF TypeOK, Emit, Outcomes, Faults
<1> QED BY <1>1, <1>2, <1>3 DEF Emit

LEMMA AuthorityType ==
  ASSUME AuthorityTypeOK, ChangeAuthority
  PROVE  AuthorityTypeOK'
<1>1. confirmed' \in BOOLEAN
  BY Zenon DEF AuthorityTypeOK, ChangeAuthority, ProposeScope, ConfirmScope, TakeControl
<1>2. CASE \E s \in ScopeIDs : ProposeScope(s)
  BY <1>1, <1>2 DEF AuthorityTypeOK, ProposeScope
<1>3. CASE ConfirmScope
  BY <1>1, <1>3 DEF AuthorityTypeOK, ConfirmScope
<1>4. CASE \E c \in Clients : TakeControl(c)
  BY <1>1, <1>4, AuthorityAssumptions DEF AuthorityTypeOK, TakeControl
<1> QED BY <1>2, <1>3, <1>4 DEF ChangeAuthority

\* What opening, saving and discarding make of a draft.
LEMMA DraftType ==
  ASSUME TypeOK, NEW d \in Drafts
  PROVE  /\ \A s \in ScopeIDs \cup {None} :
              [NoDraft EXCEPT !.status = "open", !.scope = s, !.base = file] \in Draft
         /\ \A t \in Texts : drafts[d].next <= MaxSaves =>
              [drafts[d] EXCEPT !.status = "saved", !.next = @ + 1, !.proposed = t] \in Draft
         /\ \A st \in {"applied", "discarded"} : [drafts[d] EXCEPT !.status = st] \in Draft
<1>1. drafts[d] \in Draft /\ file \in Texts /\ MaxSaves \in Nat
  BY EditorAssumptions DEF TypeOK
<1>2. NoDraft \in Draft
  BY <1>1 DEF NoDraft, Draft
<1>3. ASSUME NEW s \in ScopeIDs \cup {None}
      PROVE  [NoDraft EXCEPT !.status = "open", !.scope = s, !.base = file] \in Draft
  BY <1>1, <1>2 DEF Draft, NoDraft
<1>4. ASSUME NEW t \in Texts, drafts[d].next <= MaxSaves
      PROVE  [drafts[d] EXCEPT !.status = "saved", !.next = @ + 1, !.proposed = t] \in Draft
  <2>1. drafts[d].next + 1 \in 1..(MaxSaves + 1)
    BY <1>1, <1>4 DEF Draft
  <2> QED BY <1>1, <2>1 DEF Draft
<1>5. ASSUME NEW st \in {"applied", "discarded"}
      PROVE  [drafts[d] EXCEPT !.status = st] \in Draft
  BY <1>1 DEF Draft
<1> QED BY <1>3, <1>4, <1>5

-----------------------------------------------------------------------------
(* Every step preserves the invariant.                                      *)

\* A command that leaves its draft neither applied nor discarded behind it, and
\* is not part of an apply.
LEMMA EditInv ==
  ASSUME Inv, NEW d \in Drafts, NEW after \in Draft, NEW outcome \in Outcomes,
         NEW t \in Texts \cup {None},
         apply = Idle, drafts[d].status # "applied", after.status # "applied",
         after.status = "saved" => after.proposed \in Texts,
         Emit(d, after, outcome), Pending(d, t, outcome),
         UNCHANGED <<authorityVars, file, temp, apply, touched, cut, written>>
  PROVE  Inv'
<1>1. /\ drafts' \in [Drafts -> Draft]
      /\ faults' \in Seq(Faults) /\ Len(faults') <= MaxFaults
      /\ Crashed => Crashed'
      /\ drafts' = drafts \/ drafts' = [drafts EXCEPT ![d] = after]
  BY EmitType DEF Inv
<1>2. TypeOK'
  <2>1. pending' \in [Drafts -> Texts \cup {None}]
    BY DEF Inv, TypeOK, Pending
  <2>2. AuthorityTypeOK'
    BY Zenon DEF Inv, TypeOK, AuthorityTypeOK, authorityVars
  <2> QED BY <1>1, <2>1, <2>2, Zenon DEF Inv, TypeOK
<1>3. apply.phase = "idle" /\ apply' = apply
  BY DEF Idle
<1>4. ApplyFollowsDraft'
  BY <1>3 DEF ApplyFollowsDraft
<1>5. LeftoverInv'
  BY <1>1, <1>3 DEF Inv, LeftoverInv
<1>6. AppliedIsWritten'
  <2> SUFFICES ASSUME NEW e \in Drafts, drafts'[e].status = "applied"
               PROVE  e \in written' \cup cut'
    BY DEF AppliedIsWritten
  <2>1. drafts[e].status = "applied"
    BY <1>1 DEF Inv, TypeOK
  <2> QED BY <2>1, <1>3 DEF Inv, AppliedIsWritten
<1>7. SavedHasText'
  BY <1>1 DEF Inv, TypeOK, SavedHasText
<1> QED BY <1>2, <1>4, <1>5, <1>6, <1>7 DEF Inv

\* The steps of an apply, and what may come between them.
LEMMA ApplyInv ==
  ASSUME Inv,
         \/ PrepareWrite \/ RecordApply \/ ReplaceFile \/ ReplaceFails \/ FinishApply
  PROVE  Inv'
<1> DEFINE d == apply.draft
<1>t. TypeOK
  BY DEF Inv
<1>f. /\ apply.phase \in {"idle", "checked", "prepared", "recorded", "replaced"}
      /\ apply.phase = "idle" <=> apply = Idle
      /\ apply.phase # "idle" => apply.draft \in Drafts /\ apply.text \in Texts
      /\ \A p \in {"checked", "prepared", "recorded", "replaced"} :
           apply.phase # "idle" =>
             /\ [apply EXCEPT !.phase = p] \in Apply
             /\ [apply EXCEPT !.phase = p].phase = p
             /\ [apply EXCEPT !.phase = p].draft = apply.draft
             /\ [apply EXCEPT !.phase = p].text = apply.text
      /\ Idle.phase = "idle" /\ Idle \in Apply
  BY <1>t, ApplyFields DEF Idle, Apply
<1>a. AuthorityTypeOK' /\ drafts[d] = drafts[apply.draft]
  <2>1. UNCHANGED authorityVars
    BY DEF PrepareWrite, RecordApply, ReplaceFile, ReplaceFails, FinishApply
  <2> QED BY <2>1, <1>t, Zenon DEF TypeOK, AuthorityTypeOK, authorityVars
<1>s. ASSUME UNCHANGED drafts PROVE SavedHasText'
  BY <1>s DEF Inv, SavedHasText
<1>1. CASE PrepareWrite
  <2>1. CASE temp = None
    <3>1. apply' = [apply EXCEPT !.phase = "prepared"] /\ temp' = apply.text
      BY <1>1, <2>1 DEF PrepareWrite
    <3>2. /\ apply' \in Apply /\ apply'.phase = "prepared"
          /\ apply'.draft = d /\ apply'.text = apply.text
          /\ d \in Drafts /\ apply.text \in Texts
      BY <1>1, <1>f, <3>1 DEF PrepareWrite
    <3>3. TypeOK'
      BY <1>1, <1>a, <1>t, <3>1, <3>2, Zenon DEF PrepareWrite, TypeOK
    <3>4. ApplyFollowsDraft' /\ LeftoverInv'
      BY <1>1, <3>1, <3>2 DEF PrepareWrite, Inv, ApplyFollowsDraft, LeftoverInv
    <3>5. AppliedIsWritten'
      BY <1>1, <3>2 DEF PrepareWrite, Inv, AppliedIsWritten
    <3> QED BY <1>1, <1>s, <3>3, <3>4, <3>5 DEF Inv, PrepareWrite
  <2>2. CASE temp # None
    <3>1. apply' = Idle /\ UNCHANGED <<drafts, pending, file, temp, touched, cut, written, faults>>
      BY <1>1, <2>2 DEF PrepareWrite
    <3>2. TypeOK'
      BY <1>a, <1>f, <1>t, <3>1, Zenon DEF TypeOK
    <3>3. ApplyFollowsDraft' /\ LeftoverInv'
      BY <1>1, <1>f, <3>1, <2>2 DEF PrepareWrite, Inv, ApplyFollowsDraft, LeftoverInv, Crashed
    <3>4. AppliedIsWritten'
      BY <1>1, <3>1 DEF PrepareWrite, Inv, AppliedIsWritten
    <3> QED BY <1>s, <3>1, <3>2, <3>3, <3>4 DEF Inv
  <2> QED BY <2>1, <2>2
<1>2. CASE RecordApply
  <2> DEFINE after == [drafts[d] EXCEPT !.status = "applied"]
  <2>1. /\ apply.phase = "prepared" /\ apply # Idle /\ d \in Drafts
        /\ UNCHANGED <<pending, file, touched, written>>
    BY <1>2, <1>f DEF RecordApply
  <2>2. PICK outcome \in Outcomes :
          /\ Emit(d, after, outcome)
          /\ IF outcome = "committed"
               THEN apply' = [apply EXCEPT !.phase = "recorded"] /\ UNCHANGED <<temp, cut>>
               ELSE /\ apply' = Idle
                    /\ temp' = None
                    /\ cut' = IF outcome = "unsynced" THEN cut \cup {d} ELSE cut
    BY <1>2 DEF RecordApply
  <2>3. /\ after \in Draft /\ after.status = "applied" /\ after.proposed = drafts[d].proposed
        /\ after.base = drafts[d].base
    <3>1. drafts[d] \in Draft
      BY <2>1, <1>t DEF TypeOK
    <3>2. after \in Draft
      BY <2>1, <1>t, DraftType
    <3> QED BY <3>1, <3>2 DEF Draft
  <2>4. /\ drafts' \in [Drafts -> Draft]
        /\ faults' \in Seq(Faults) /\ Len(faults') <= MaxFaults
        /\ Crashed => Crashed'
        /\ \/ drafts' = drafts /\ outcome = "refused"
           \/ drafts' = [drafts EXCEPT ![d] = after] /\ outcome \in {"committed", "unsynced"}
    <3> HIDE DEF after, d
    <3> QED BY <1>t, <2>1, <2>2, <2>3, EmitType
  <2>5. \A e \in Drafts : e # d => drafts'[e] = drafts[e]
    BY <2>4, <2>1, <1>t DEF TypeOK
  <2>s. SavedHasText'
    BY <2>3, <2>4, <1>t DEF Inv, TypeOK, SavedHasText
  <2> HIDE DEF after
  <2>6. CASE outcome = "committed"
    <3>1. /\ apply' \in Apply /\ apply'.phase = "recorded"
          /\ apply'.draft = d /\ apply'.text = apply.text
          /\ UNCHANGED <<temp, cut>>
      BY <1>f, <2>1, <2>2, <2>6
    <3>2. drafts'[d] = after
      BY <2>1, <2>4, <2>6, <1>t DEF TypeOK
    <3>3. TypeOK'
      BY <1>a, <1>t, <2>1, <2>4, <3>1, Zenon DEF TypeOK
    <3>4. ApplyFollowsDraft' /\ LeftoverInv'
      BY <2>1, <2>3, <3>1, <3>2 DEF Inv, ApplyFollowsDraft, LeftoverInv
    <3>5. AppliedIsWritten'
      BY <2>1, <2>5, <3>1 DEF Inv, AppliedIsWritten
    <3> QED BY <2>s, <3>3, <3>4, <3>5 DEF Inv
  <2>7. CASE outcome # "committed"
    <3>1. /\ apply' = Idle /\ temp' = None
          /\ cut' = IF outcome = "unsynced" THEN cut \cup {d} ELSE cut
      BY <2>2, <2>7
    <3>2. TypeOK'
      <4>1. cut' \subseteq Drafts /\ temp' \in Texts \cup {None}
        BY <2>1, <3>1, <1>t DEF TypeOK
      <4> QED BY <1>a, <1>f, <1>t, <2>1, <2>4, <3>1, <4>1, Zenon DEF TypeOK
    <3>3. ApplyFollowsDraft' /\ LeftoverInv'
      BY <1>f, <3>1 DEF ApplyFollowsDraft, LeftoverInv
    <3>4. AppliedIsWritten'
      <4> SUFFICES ASSUME NEW e \in Drafts, drafts'[e].status = "applied"
                   PROVE  e \in written' \cup cut'
        BY DEF AppliedIsWritten
      <4>1. CASE e = d /\ outcome = "unsynced"
        BY <4>1, <3>1
      <4>2. CASE ~(e = d /\ outcome = "unsynced")
        <5>1. drafts'[e] = drafts[e]
          BY <4>2, <2>4, <2>5, <2>7
        <5>2. e # d
          BY <5>1, <2>1 DEF Inv, ApplyFollowsDraft
        <5> QED BY <5>1, <5>2, <2>1, <3>1 DEF Inv, AppliedIsWritten
      <4> QED BY <4>1, <4>2
    <3> QED BY <2>s, <3>2, <3>3, <3>4 DEF Inv
  <2> QED BY <2>6, <2>7
<1>3. CASE ReplaceFile
  <2>1. /\ apply.phase = "recorded" /\ d \in Drafts /\ apply.text \in Texts
        /\ file' = temp /\ temp' = None /\ written' = written \cup {d}
        /\ apply' = [apply EXCEPT !.phase = "replaced"]
        /\ UNCHANGED <<drafts, pending, touched, cut, faults>>
    BY <1>3, <1>f DEF ReplaceFile
  <2>2. /\ apply' \in Apply /\ apply'.phase = "replaced"
        /\ apply'.draft = d /\ apply'.text = apply.text
    BY <1>f, <2>1
  <2>3. TypeOK'
    <3>1. file' \in Texts /\ temp' \in Texts \cup {None} /\ written' \subseteq Drafts
      BY <2>1, <1>t DEF Inv, TypeOK, ApplyFollowsDraft
    <3> QED BY <1>a, <1>t, <2>1, <2>2, <3>1, Zenon DEF TypeOK
  <2>4. ApplyFollowsDraft' /\ LeftoverInv'
    BY <2>1, <2>2 DEF ApplyFollowsDraft, LeftoverInv
  <2>5. AppliedIsWritten'
    BY <2>1, <2>2 DEF Inv, AppliedIsWritten
  <2> QED BY <1>s, <2>1, <2>3, <2>4, <2>5 DEF Inv
<1>4. CASE ReplaceFails
  <2>1. /\ apply.phase = "recorded" /\ d \in Drafts
        /\ Fault("rename") /\ temp' = None /\ cut' = cut \cup {d} /\ apply' = Idle
        /\ UNCHANGED <<drafts, pending, file, touched, written>>
    BY <1>4, <1>f DEF ReplaceFails, Removed
  <2>2. TypeOK'
    <3>1. /\ faults' \in Seq(Faults) /\ Len(faults') <= MaxFaults
          /\ temp' \in Texts \cup {None} /\ cut' \subseteq Drafts
      BY <2>1, <1>t, FaultType DEF TypeOK, Faults
    <3> QED BY <1>a, <1>f, <1>t, <2>1, <3>1, Zenon DEF TypeOK
  <2>3. ApplyFollowsDraft' /\ LeftoverInv'
    BY <1>f, <2>1 DEF ApplyFollowsDraft, LeftoverInv
  <2>4. AppliedIsWritten'
    BY <1>f, <2>1 DEF Inv, AppliedIsWritten
  <2> QED BY <1>s, <2>1, <2>2, <2>3, <2>4 DEF Inv
<1>5. CASE FinishApply
  <2>1. /\ apply.phase = "replaced" /\ d \in Drafts /\ apply' = Idle
        /\ pending' \in {pending, [pending EXCEPT ![d] = None]}
        /\ UNCHANGED <<drafts, file, temp, touched, cut, written, faults>>
    BY <1>5, <1>f DEF FinishApply
  <2>2. TypeOK'
    <3>1. pending' \in [Drafts -> Texts \cup {None}]
      BY <2>1, <1>t DEF TypeOK
    <3> QED BY <1>a, <1>f, <1>t, <2>1, <3>1, Zenon DEF TypeOK
  <2>3. ApplyFollowsDraft' /\ LeftoverInv'
    BY <1>f, <2>1 DEF Inv, ApplyFollowsDraft, LeftoverInv, Crashed
  <2>4. AppliedIsWritten'
    BY <1>f, <2>1 DEF Inv, AppliedIsWritten
  <2> QED BY <1>s, <2>1, <2>2, <2>3, <2>4 DEF Inv
<1> QED BY <1>1, <1>2, <1>3, <1>4, <1>5

LEMMA InitInv == Init => Inv
<1> SUFFICES ASSUME Init PROVE Inv
  OBVIOUS
<1>1. apply = Idle /\ apply.phase = "idle" /\ Idle \in Apply
  BY DEF Init, Idle, Apply
<1>2. TypeOK
  <2>1. NoDraft \in Draft
    BY EditorAssumptions DEF NoDraft, Draft
  <2>2. drafts \in [Drafts -> Draft] /\ pending \in [Drafts -> Texts \cup {None}]
    BY <2>1 DEF Init
  <2>3. faults \in Seq(Faults) /\ Len(faults) <= MaxFaults
    BY EditorAssumptions DEF Init
  <2>4. AuthorityTypeOK
    <3>1. confirmed \in BOOLEAN
      BY Zenon DEF Init, AuthorityInit
    <3> QED BY <3>1, AuthorityAssumptions DEF Init, AuthorityInit, AuthorityTypeOK
  <2>5. touched \in BOOLEAN
    BY Zenon DEF Init
  <2> QED BY <1>1, <2>2, <2>3, <2>4, <2>5 DEF Init, TypeOK
<1>3. ApplyFollowsDraft /\ LeftoverInv
  BY <1>1 DEF Init, ApplyFollowsDraft, LeftoverInv
<1>4. AppliedIsWritten
  BY DEF Init, AppliedIsWritten, NoDraft
<1>5. SavedHasText
  BY DEF Init, SavedHasText, NoDraft
<1> QED BY <1>2, <1>3, <1>4, <1>5 DEF Inv

LEMMA NextInv == Inv /\ [Next]_vars => Inv'
<1> SUFFICES ASSUME Inv, [Next]_vars PROVE Inv'
  OBVIOUS
<1>t. TypeOK /\ AuthorityTypeOK
  BY DEF Inv, TypeOK
<1>f. /\ apply.phase \in {"idle", "checked", "prepared", "recorded", "replaced"}
      /\ apply.phase = "idle" <=> apply = Idle
      /\ apply.phase # "idle" => apply.draft \in Drafts /\ apply.text \in Texts
      /\ Idle.phase = "idle" /\ Idle \in Apply
  BY <1>t, ApplyFields DEF Idle, Apply
<1>1. CASE Authority
  <2>1. AuthorityTypeOK'
    BY <1>1, <1>t, AuthorityType DEF Authority
  <2>2. UNCHANGED <<drafts, pending, file, temp, apply, touched, cut, written, faults>>
    BY <1>1 DEF Authority
  <2>3. TypeOK'
    BY <1>t, <2>1, <2>2, Zenon DEF TypeOK
  <2> QED BY <2>2, <2>3 DEF Inv, ApplyFollowsDraft, LeftoverInv, Crashed, AppliedIsWritten,
                            SavedHasText
<1>2. ASSUME NEW d \in Drafts, NEW c \in Clients, NEW r \in 1..MaxRevision, Open(d, c, r)
      PROVE  Inv'
  <2> DEFINE after == [NoDraft EXCEPT !.status = "open", !.scope = scope, !.base = file]
  <2>1. PICK outcome \in Outcomes : Emit(d, after, outcome) /\ Pending(d, None, outcome)
    BY <1>2 DEF Open
  <2>2. /\ after \in Draft /\ after.status # "applied"
        /\ after.status = "saved" => after.proposed \in Texts
    <3>1. after \in Draft
      BY <1>t, DraftType DEF AuthorityTypeOK
    <3> QED BY <3>1 DEF NoDraft
  <2>3. /\ apply = Idle /\ drafts[d].status # "applied"
        /\ UNCHANGED <<authorityVars, file, temp, apply, touched, cut, written>>
    BY <1>2 DEF Open, MayEdit
  <2> HIDE DEF after
  <2> QED BY <2>1, <2>2, <2>3, EditInv
<1>3. ASSUME NEW d \in Drafts, NEW c \in Clients, NEW r \in 1..MaxRevision, NEW text \in Texts,
             Save(d, c, r, text)
      PROVE  Inv'
  <2> DEFINE after == [drafts[d] EXCEPT !.status = "saved", !.next = @ + 1, !.proposed = text]
  <2>1. PICK outcome \in Outcomes : Emit(d, after, outcome) /\ Pending(d, text, outcome)
    BY <1>3 DEF Save
  <2>2. /\ after \in Draft /\ after.status # "applied"
        /\ after.status = "saved" => after.proposed \in Texts
    <3>1. after \in Draft
      BY <1>3, <1>t, DraftType DEF Save
    <3>2. drafts[d] \in Draft
      BY <1>t DEF TypeOK
    <3> QED BY <3>1, <3>2 DEF Draft
  <2>3. /\ apply = Idle /\ drafts[d].status # "applied"
        /\ UNCHANGED <<authorityVars, file, temp, apply, touched, cut, written>>
    BY <1>3 DEF Save, MayEdit
  <2> HIDE DEF after
  <2> QED BY <2>1, <2>2, <2>3, EditInv
<1>4. ASSUME NEW d \in Drafts, NEW c \in Clients, NEW r \in 1..MaxRevision, Discard(d, c, r)
      PROVE  Inv'
  <2> DEFINE after == [drafts[d] EXCEPT !.status = "discarded"]
  <2>1. PICK outcome \in Outcomes : Emit(d, after, outcome) /\ Pending(d, None, outcome)
    BY <1>4 DEF Discard
  <2>2. /\ after \in Draft /\ after.status # "applied"
        /\ after.status = "saved" => after.proposed \in Texts
    <3>1. after \in Draft
      BY <1>t, DraftType
    <3>2. drafts[d] \in Draft
      BY <1>t DEF TypeOK
    <3> QED BY <3>1, <3>2 DEF Draft
  <2>3. /\ apply = Idle /\ drafts[d].status # "applied"
        /\ UNCHANGED <<authorityVars, file, temp, apply, touched, cut, written>>
    BY <1>4 DEF Discard, MayEdit
  <2> HIDE DEF after
  <2> QED BY <2>1, <2>2, <2>3, EditInv
<1>5. ASSUME NEW d \in Drafts, NEW c \in Clients, NEW r \in 1..MaxRevision, StartApply(d, c, r)
      PROVE  Inv'
  <2>1. /\ apply = Idle /\ drafts[d].status = "saved"
        /\ pending[d] = drafts[d].proposed /\ file = drafts[d].base
        /\ apply' = [phase |-> "checked", draft |-> d, text |-> pending[d]]
        /\ touched' = FALSE
        /\ UNCHANGED <<authorityVars, drafts, pending, file, temp, cut, written, faults>>
    BY <1>5 DEF StartApply, MayEdit, Applicable
  <2>2. apply'.phase = "checked" /\ apply'.draft = d /\ apply'.text = pending[d]
    BY <2>1
  <2>3. ApplyFollowsDraft' /\ LeftoverInv'
    BY <1>f, <2>1, <2>2 DEF Inv, ApplyFollowsDraft, LeftoverInv, Crashed
  <2>4. AppliedIsWritten'
    BY <1>f, <2>1, <2>2 DEF Inv, AppliedIsWritten
  <2>5. TypeOK'
    <3>1. pending[d] \in Texts
      BY <1>5, <2>1 DEF Inv, SavedHasText
    <3>2. apply' \in Apply
      BY <2>1, <3>1 DEF Apply
    <3>3. touched' \in BOOLEAN
      BY <2>1, Zenon
    <3> QED BY <1>t, <2>1, <3>2, <3>3, Zenon DEF TypeOK, AuthorityTypeOK, authorityVars
  <2>6. SavedHasText'
    BY <2>1 DEF Inv, SavedHasText
  <2> QED BY <2>3, <2>4, <2>5, <2>6 DEF Inv
<1>6. CASE PrepareWrite \/ RecordApply \/ ReplaceFile \/ ReplaceFails \/ FinishApply
  BY <1>6, ApplyInv
<1>7. CASE Close
  <2>1. pending' \in [Drafts -> Texts \cup {None}]
    BY <1>7 DEF Close
  <2>2. UNCHANGED <<authorityVars, drafts, file, temp, apply, touched, cut, written, faults>>
    BY <1>7 DEF Close
  <2>3. TypeOK'
    BY <1>t, <2>1, <2>2, Zenon DEF TypeOK, AuthorityTypeOK, authorityVars
  <2> QED BY <2>2, <2>3 DEF Inv, ApplyFollowsDraft, LeftoverInv, Crashed, AppliedIsWritten,
                            SavedHasText
<1>8. ASSUME NEW text \in Texts, ExternalWrite(text)
      PROVE  Inv'
  <2>1. /\ file' = text /\ touched'
        /\ UNCHANGED <<authorityVars, drafts, pending, temp, apply, cut, written, faults>>
    BY <1>8 DEF ExternalWrite
  <2>2. TypeOK'
    <3>1. touched' \in BOOLEAN
      BY <1>8, Zenon DEF ExternalWrite
    <3> QED BY <1>t, <2>1, <3>1, Zenon DEF TypeOK, AuthorityTypeOK, authorityVars
  <2> QED BY <2>1, <2>2 DEF Inv, ApplyFollowsDraft, LeftoverInv, Crashed, AppliedIsWritten,
                            SavedHasText
<1>9. CASE Crash
  <2>1. /\ Fault("crash") /\ apply' = Idle
        /\ pending' = [d \in Drafts |-> None]
        /\ cut' = IF apply.phase = "recorded" THEN cut \cup {apply.draft} ELSE cut
        /\ UNCHANGED <<authorityVars, drafts, file, temp, touched, written>>
    BY <1>9 DEF Crash
  <2>2. faults' \in Seq(Faults) /\ Len(faults') <= MaxFaults /\ Crashed'
    BY <1>t, <2>1, FaultType DEF Faults
  <2>3. ApplyFollowsDraft' /\ LeftoverInv'
    BY <1>f, <2>1, <2>2 DEF ApplyFollowsDraft, LeftoverInv
  <2>4. AppliedIsWritten'
    BY <1>f, <2>1 DEF Inv, AppliedIsWritten
  <2>5. TypeOK'
    <3>1. pending' \in [Drafts -> Texts \cup {None}] /\ cut' \subseteq Drafts
      BY <1>f, <1>t, <2>1 DEF TypeOK
    <3> QED BY <1>f, <1>t, <2>1, <2>2, <3>1, Zenon DEF TypeOK, AuthorityTypeOK, authorityVars
  <2>6. SavedHasText'
    BY <2>1 DEF Inv, SavedHasText
  <2> QED BY <2>3, <2>4, <2>5, <2>6 DEF Inv
<1>10. CASE UNCHANGED vars
  <2>1. UNCHANGED <<authorityVars, drafts, pending, file, temp, apply, touched, cut, written, faults>>
    BY <1>10 DEF vars
  <2>2. TypeOK'
    BY <1>t, <2>1, Zenon DEF TypeOK, AuthorityTypeOK, authorityVars
  <2> QED BY <2>1, <2>2 DEF Inv, ApplyFollowsDraft, LeftoverInv, Crashed, AppliedIsWritten,
                            SavedHasText
<1> QED BY <1>1, <1>2, <1>3, <1>4, <1>5, <1>6, <1>7, <1>8, <1>9, <1>10, Zenon DEF Next

LEMMA SpecInv == Spec => []Inv
<1> QED BY InitInv, NextInv, PTL DEF Spec

-----------------------------------------------------------------------------
(* The theorems.                                                            *)

\* Every reachable state is well typed: the manager's texts, the drafts of the
\* log and the apply in progress.
THEOREM EditorTypeOK == Spec => []TypeOK
<1>1. Inv => TypeOK
  BY DEF Inv
<1> QED BY <1>1, SpecInv, PTL

\* A draft the log has as applied was written, is about to be, or had its apply
\* cut short by one of three faults; nothing else comes between record and file.
THEOREM EditorAppliedIsWritten == Spec => []AppliedIsWritten
<1>1. Inv => AppliedIsWritten
  BY DEF Inv
<1> QED BY <1>1, SpecInv, PTL

\* A prepared file that blocks later applies is left by a crash and by no
\* failure of a commit, of the rename or of a check.
THEOREM EditorLeftoverMeansCrash == Spec => []LeftoverMeansCrash
<1>1. Inv => LeftoverMeansCrash
  BY DEF Inv, LeftoverInv, LeftoverMeansCrash, Crashed, Idle
<1> QED BY <1>1, SpecInv, PTL

\* The file is replaced only with the text of an applied draft, over the text
\* that draft was opened on.
THEOREM EditorPatchesAreExact == Spec => PatchesAreExact
<1> DEFINE Exact ==
      \A d \in written' \ written :
        /\ drafts[d].status = "applied" /\ drafts[d].proposed = file'
        /\ file = drafts[d].base \/ touched
<1>1. Inv /\ [Next]_vars => [Exact]_vars
  <2> SUFFICES ASSUME Inv, Next, NEW d \in written' \ written
               PROVE  /\ drafts[d].status = "applied" /\ drafts[d].proposed = file'
                      /\ file = drafts[d].base \/ touched
    OBVIOUS
  <2>1. ReplaceFile
    BY DEF Next, Authority, Open, Save, StartApply, Discard, PrepareWrite, RecordApply,
           ReplaceFails, FinishApply, Close, ExternalWrite, Crash
  <2>2. apply.phase = "recorded" /\ d = apply.draft /\ file' = temp
    BY <2>1 DEF ReplaceFile
  <2> QED BY <2>2 DEF Inv, ApplyFollowsDraft
<1> QED BY <1>1, SpecInv, PTL DEF Spec, PatchesAreExact
=============================================================================
