-------------------------- MODULE MCRuntimeService --------------------------
(* Instances of RuntimeService for TLC.                                     *)
EXTENDS RuntimeService, TLC

CONSTANTS s1, s2

\* The scope s2 permits no challenge.
MCPermits == [s \in Scopes |-> IF s = s2 THEN {} ELSE Challenges]

\* Concurrent callers race for decisions, for control and for evidence;
\* serialised ones change the scope under challenges, and edit reports.
MCSettings ==
  {[families |-> {"scope", "approval"}, serialised |-> FALSE, writes |-> {"synced"},
    scopes |-> {s1}, maxEvents |-> 5, maxTime |-> 2],
   [families |-> {"control"}, serialised |-> FALSE, writes |-> {"synced"},
    scopes |-> {}, maxEvents |-> 4, maxTime |-> 0],
   [families |-> {"evidence", "finding"}, serialised |-> FALSE, writes |-> WriteOutcomes,
    scopes |-> {}, maxEvents |-> 3, maxTime |-> 0],
   [families |-> {"scope", "approval"}, serialised |-> TRUE,
    writes |-> {"unsynced"}, scopes |-> {s1, s2}, maxEvents |-> 5, maxTime |-> 1],
   [families |-> {"task", "report", "events"}, serialised |-> TRUE, writes |-> {"short", "synced"},
    scopes |-> {}, maxEvents |-> 3, maxTime |-> 0]}

Symmetry == Permutations(Callers) \cup Permutations(Clients)
              \cup Permutations(EvidenceIDs) \cup Permutations(Contents)
              \cup Permutations(Reports)
=============================================================================
