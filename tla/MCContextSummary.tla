--------------------------- MODULE MCContextSummary ---------------------------
(* ContextSummary for TLC: the runs are interchangeable. *)
EXTENDS ContextSummary, TLC

Symmetry == Permutations(Runs)

===============================================================================
