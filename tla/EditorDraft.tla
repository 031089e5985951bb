---------------------------- MODULE EditorDraft ----------------------------
(***************************************************************************)
(* internal/runtimeapi/editor_manager.go: drafts that change one file of   *)
(* the workspace.  The log has the drafts and the digests of their texts;  *)
(* the texts themselves are in the memory of the manager until applied.    *)
(* The server runs one command at a time; meanwhile other programs write   *)
(* the file, and the server's process may end.  A digest is as good as the *)
(* text it is of.  Read changes nothing and is left out.                   *)
(***************************************************************************)
EXTENDS TaskAuthority, Sequences

CONSTANTS Drafts,    \* draft ids
          Texts,     \* contents of the file and of patches
          MaxFaults, \* bound on the faults of a behaviour
          MaxSaves   \* bound on the saves of a draft

Faults == {"refused",   \* a commit fails and leaves no event
           "unsynced",  \* a commit fails and leaves its event
           "rename",    \* the file cannot be replaced
           "crash"}     \* the process of the server ends

ASSUME EditorAssumptions ==
  /\ MaxFaults \in Nat /\ MaxSaves \in Nat
  /\ None \notin Texts

\* EditorDraftState, as the log projects it.
Draft == [status : {"absent", "open", "saved", "applied", "discarded"},
          scope : ScopeIDs \cup {None}, base : Texts \cup {None},
          next : 1..(MaxSaves + 1), proposed : Texts \cup {None}]

NoDraft == [status |-> "absent", scope |-> None, base |-> None, next |-> 1, proposed |-> None]

Idle == [phase |-> "idle"]

\* The apply in progress, after its checks.
Apply == {Idle} \cup [phase : {"checked", "prepared", "recorded", "replaced"},
                      draft : Drafts, text : Texts]

VARIABLES
  drafts,   \* drafts[d]: what the log says of draft d
  pending,  \* pending[d]: its text in the manager's memory
  file,     \* the file the drafts are of
  temp,     \* path.cyber-code-editor.tmp
  apply,
  touched,  \* whether another program wrote the file since the apply checked it
  cut,      \* the drafts whose apply was cut short after it was recorded
  written,  \* the drafts whose text was written to the file
  faults    \* what went wrong so far

vars == <<authorityVars, drafts, pending, file, temp, apply, touched, cut, written, faults>>

TypeOK ==
  /\ AuthorityTypeOK
  /\ drafts \in [Drafts -> Draft]
  /\ pending \in [Drafts -> Texts \cup {None}]
  /\ file \in Texts
  /\ temp \in Texts \cup {None}
  /\ apply \in Apply
  /\ touched \in BOOLEAN
  /\ cut \subseteq Drafts
  /\ written \subseteq Drafts
  /\ faults \in Seq(Faults) /\ Len(faults) <= MaxFaults

Init ==
  /\ AuthorityInit
  /\ drafts = [d \in Drafts |-> NoDraft]
  /\ pending = [d \in Drafts |-> None]
  /\ file \in Texts
  /\ temp = None
  /\ apply = Idle
  /\ touched = FALSE
  /\ cut = {}
  /\ written = {}
  /\ faults = <<>>

-----------------------------------------------------------------------------
Fault(kind) ==
  /\ Len(faults) < MaxFaults
  /\ faults' = Append(faults, kind)

\* Service.Emit of an event that leaves draft d as after.
Emit(d, after, outcome) ==
  \/ /\ outcome = "committed"
     /\ drafts' = [drafts EXCEPT ![d] = after]
     /\ UNCHANGED faults
  \/ /\ outcome = "refused" /\ Fault("refused")
     /\ UNCHANGED drafts
  \/ /\ outcome = "unsynced" /\ Fault("unsynced")
     /\ drafts' = [drafts EXCEPT ![d] = after]

Outcomes == {"committed", "refused", "unsynced"}

\* A command of client c with lease r on a draft of the current scope.
MayEdit(s, c, r) == apply = Idle /\ Authorized(s, c, r)

Authority ==
  /\ apply = Idle
  /\ ChangeAuthority
  /\ UNCHANGED <<drafts, pending, file, temp, apply, touched, cut, written, faults>>

Pending(d, text, outcome) ==
  pending' = IF outcome = "committed" THEN [pending EXCEPT ![d] = text] ELSE pending

Open(d, c, r) ==
  /\ MayEdit(scope, c, r)
  /\ drafts[d].status = "absent"
  /\ \E outcome \in Outcomes :
       /\ Emit(d, [NoDraft EXCEPT !.status = "open", !.scope = scope, !.base = file], outcome)
       /\ Pending(d, None, outcome)
  /\ UNCHANGED <<authorityVars, file, temp, apply, touched, cut, written>>

Save(d, c, r, text) ==
  /\ MayEdit(drafts[d].scope, c, r)
  /\ drafts[d].status \in {"open", "saved"}
  /\ drafts[d].next <= MaxSaves
  /\ file = drafts[d].base
  /\ \E outcome \in Outcomes :
       /\ Emit(d, [drafts[d] EXCEPT !.status = "saved", !.next = @ + 1, !.proposed = text],
               outcome)
       /\ Pending(d, text, outcome)
  /\ UNCHANGED <<authorityVars, file, temp, apply, touched, cut, written>>

Discard(d, c, r) ==
  /\ MayEdit(drafts[d].scope, c, r)
  /\ drafts[d].status \in {"open", "saved"}
  /\ \E outcome \in Outcomes :
       /\ Emit(d, [drafts[d] EXCEPT !.status = "discarded"], outcome)
       /\ Pending(d, None, outcome)
  /\ UNCHANGED <<authorityVars, file, temp, apply, touched, cut, written>>

\* Close forgets the texts.
Close ==
  /\ apply = Idle
  /\ pending' = [d \in Drafts |-> None]
  /\ UNCHANGED <<authorityVars, drafts, file, temp, apply, touched, cut, written, faults>>

-----------------------------------------------------------------------------
(* Apply: check, prepare the new file beside the old one, record, replace.  *)

Applicable_AnyBase(d) == drafts[d].status = "saved" /\ pending[d] = drafts[d].proposed

Applicable_Unsaved(d) ==
  pending[d] = drafts[d].proposed /\ file = drafts[d].base

\* The draft is saved, its text is the one that was recorded, and the file is
\* still the one it was opened on.
Applicable(d) ==
  /\ drafts[d].status = "saved"
  /\ pending[d] = drafts[d].proposed
  /\ file = drafts[d].base

StartApply(d, c, r) ==
  /\ MayEdit(drafts[d].scope, c, r)
  /\ Applicable(d)
  /\ apply' = [phase |-> "checked", draft |-> d, text |-> pending[d]]
  /\ touched' = FALSE
  /\ UNCHANGED <<authorityVars, drafts, pending, file, temp, cut, written, faults>>

\* prepareEditorWrite: a file that is left over makes the command fail.
PrepareWrite ==
  /\ apply.phase = "checked"
  /\ IF temp = None
       THEN /\ temp' = apply.text
            /\ apply' = [apply EXCEPT !.phase = "prepared"]
       ELSE apply' = Idle /\ UNCHANGED temp
  /\ UNCHANGED <<authorityVars, drafts, pending, file, touched, cut, written, faults>>

RecordApply_Return ==
  /\ apply.phase = "prepared"
  /\ Emit(apply.draft, [drafts[apply.draft] EXCEPT !.status = "applied"], "committed")
  /\ apply' = Idle
  /\ temp' = None
  /\ UNCHANGED <<authorityVars, pending, file, touched, cut, written>>

RecordApply ==
  /\ apply.phase = "prepared"
  /\ \E outcome \in Outcomes :
       /\ Emit(apply.draft, [drafts[apply.draft] EXCEPT !.status = "applied"], outcome)
       /\ IF outcome = "committed"
            THEN apply' = [apply EXCEPT !.phase = "recorded"] /\ UNCHANGED <<temp, cut>>
            ELSE /\ apply' = Idle
                 /\ temp' = None
                 /\ cut' = IF outcome = "unsynced" THEN cut \cup {apply.draft} ELSE cut
  /\ UNCHANGED <<authorityVars, pending, file, touched, written>>

\* What the deferred Remove leaves of the prepared file.
Removed_Never == temp

Removed == None

ReplaceFile ==
  /\ apply.phase = "recorded"
  /\ file' = temp
  /\ temp' = None
  /\ written' = written \cup {apply.draft}
  /\ apply' = [apply EXCEPT !.phase = "replaced"]
  /\ UNCHANGED <<authorityVars, drafts, pending, touched, cut, faults>>

ReplaceFails ==
  /\ apply.phase = "recorded"
  /\ Fault("rename")
  /\ temp' = Removed
  /\ cut' = cut \cup {apply.draft}
  /\ apply' = Idle
  /\ UNCHANGED <<authorityVars, drafts, pending, file, touched, written>>

\* After the sync of the directory the text is forgotten; an error of the sync
\* leaves it.
FinishApply ==
  /\ apply.phase = "replaced"
  /\ pending' \in {pending, [pending EXCEPT ![apply.draft] = None]}
  /\ apply' = Idle
  /\ UNCHANGED <<authorityVars, drafts, file, temp, touched, cut, written, faults>>

-----------------------------------------------------------------------------
(* The environment.                                                         *)

ExternalWrite(text) ==
  /\ text # file
  /\ file' = text
  /\ touched' = TRUE
  /\ UNCHANGED <<authorityVars, drafts, pending, temp, apply, cut, written, faults>>

\* The process ends and a new one starts.
Crash ==
  /\ Fault("crash")
  /\ pending' = [d \in Drafts |-> None]
  /\ cut' = IF apply.phase = "recorded" THEN cut \cup {apply.draft} ELSE cut
  /\ apply' = Idle
  /\ UNCHANGED <<authorityVars, drafts, file, temp, touched, written>>

Next ==
  \/ Authority
  \/ \E d \in Drafts, c \in Clients, r \in 1..MaxRevision :
       \/ Open(d, c, r)
       \/ \E text \in Texts : Save(d, c, r, text)
       \/ StartApply(d, c, r)
       \/ Discard(d, c, r)
  \/ PrepareWrite
  \/ RecordApply
  \/ ReplaceFile
  \/ ReplaceFails
  \/ FinishApply
  \/ Close
  \/ \E text \in Texts : ExternalWrite(text)
  \/ Crash

Spec == Init /\ [][Next]_vars

-----------------------------------------------------------------------------
(* Properties.                                                              *)

\* The manager replaces the file only by a patch that is on record, and only
\* where it was made for: the log has the draft as applied with exactly the text
\* the file gets, also when a failed save left log and memory different, and the
\* file has the text the draft was opened on, not that of another draft nor of
\* another program, unless it was written in the moment after the check.
PatchesAreExact ==
  [][\A d \in written' \ written :
       /\ drafts[d].status = "applied" /\ drafts[d].proposed = file'
       /\ file = drafts[d].base \/ touched]_vars

\* A draft the log has as applied was written, is about to be, or its apply was
\* cut short after the record: by a crash, a failed sync or a failed rename.
AppliedIsWritten ==
  \A d \in Drafts :
    drafts[d].status = "applied" =>
      d \in written \cup cut \/ (apply.phase = "recorded" /\ apply.draft = d)

\* The prepared file, which blocks every later apply, is left only by a crash.
LeftoverMeansCrash ==
  temp # None /\ apply = Idle => \E i \in DOMAIN faults : faults[i] = "crash"
=============================================================================
