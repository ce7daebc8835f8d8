---------------------------- MODULE MCTaskPipeline ----------------------------
(***************************************************************************)
(* TaskPipeline for TLC.  All tasks belong to one conversation, which is    *)
(* where the operations on different tasks meet.                            *)
(***************************************************************************)
EXTENDS TaskPipeline, TLC

CONSTANT conv

OneConversation == [t \in Tasks |-> conv]

(* Workers and callers are interchangeable, and so are the messages of one  *)
(* conversation.                                                             *)
Symmetry == Permutations(Workers) \cup Permutations(Callers) \cup Permutations(Tasks)

===============================================================================
