----------------------------- MODULE MCWorkbench ------------------------------
(* Workbench for TLC: the conversations are interchangeable. *)
EXTENDS Workbench, TLC

Symmetry == Permutations(Conversations)

===============================================================================
