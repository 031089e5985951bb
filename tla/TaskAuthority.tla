--------------------------- MODULE TaskAuthority ---------------------------
(***************************************************************************)
(* Who may act on a task: the current scope, whether the last scope event  *)
(* confirms it, and the control lease.  The terminal and editor commands   *)
(* of LocalServer read these, and the other commands of the same server    *)
(* change them, one command at a time.                                     *)
(***************************************************************************)
EXTENDS Naturals

CONSTANTS ScopeIDs,     \* ids of scope snapshots, all of which allow the action
          Clients,      \* controllers
          MaxRevision,  \* bound on the revisions of the control lease
          None

ASSUME AuthorityAssumptions ==
  MaxRevision \in Nat /\ None \notin ScopeIDs \cup Clients

VARIABLES scope, confirmed, holder, revision

authorityVars == <<scope, confirmed, holder, revision>>

AuthorityTypeOK ==
  /\ scope \in ScopeIDs \cup {None}
  /\ confirmed \in BOOLEAN
  /\ holder \in Clients \cup {None}
  /\ revision \in 0..MaxRevision

AuthorityInit ==
  /\ scope = None
  /\ confirmed = FALSE
  /\ holder = None
  /\ revision = 0

\* A proposal replaces the scope, which is not confirmed until it is again.
ProposeScope(s) ==
  /\ scope' = s
  /\ confirmed' = FALSE
  /\ UNCHANGED <<holder, revision>>

ConfirmScope ==
  /\ scope # None
  /\ confirmed' = TRUE
  /\ UNCHANGED <<scope, holder, revision>>

TakeControl(c) ==
  /\ revision < MaxRevision
  /\ holder' = c
  /\ revision' = revision + 1
  /\ UNCHANGED <<scope, confirmed>>

ChangeAuthority ==
  \/ \E s \in ScopeIDs : ProposeScope(s)
  \/ ConfirmScope
  \/ \E c \in Clients : TakeControl(c)

\* What authorizeEditor, authorizeTerminalOpen and TerminalManager.session ask
\* of the task: the scope is s and confirmed, and client c holds the lease r.
Authorized(s, c, r) == confirmed /\ scope = s /\ holder = c /\ revision = r
=============================================================================
