---------------------------- MODULE MCTaskSession -----------------------------
(***************************************************************************)
(* TaskSession for TLC, with all tasks in one conversation.                 *)
(***************************************************************************)
EXTENDS TaskSession

CONSTANT conv

OneConversation == [t \in Tasks |-> conv]

===============================================================================
