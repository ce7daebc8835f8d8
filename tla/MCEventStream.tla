---------------------------- MODULE MCEventStream -----------------------------
(* EventStream for TLC; emitters are interchangeable where only safety is     *)
(* checked.                                                                  *)
EXTENDS EventStream, TLC

EmitterSymmetry == Permutations(Emitters)

===============================================================================
