--------------------------- MODULE MCEditorDraft ---------------------------
(* Instances of EditorDraft for TLC.                                        *)
EXTENDS EditorDraft, TLC

Symmetry == Permutations(Drafts) \cup Permutations(Texts) \cup Permutations(Clients)
=============================================================================
