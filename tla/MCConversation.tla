--------------------------- MODULE MCConversation ---------------------------
(* A small Conversation for TLC: one caller runs turns, compacts, clears and *)
(* rewinds, another makes checkpoints of what it finds.                      *)
EXTENDS Conversation, TLC

CONSTANTS c1, c2

MCCallers == {c1, c2}

MCCalls == c1 :> {"turn", "compact", "clear", "rewind"} @@ c2 :> {"checkpoint"}
=============================================================================
