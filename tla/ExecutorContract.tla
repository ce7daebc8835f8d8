--------------------------- MODULE ExecutorContract ---------------------------
(***************************************************************************)
(* What the worker and the reader of results may rely on, whatever happens  *)
(* inside the graph: an attempt ends by asking for clarification, by        *)
(* success, by a cancellation or by raising; it publishes at most one       *)
(* result, only while it runs and before it succeeds; a published result is *)
(* never replaced; and nothing is attempted after a cancellation.           *)
(***************************************************************************)
EXTENDS Naturals

VARIABLES phase,      \* of the task's current attempt
          attempt,    \* its number
          published   \* the attempt that published the result, 0 if none did

vars == <<phase, attempt, published>>

Init == phase = "working" /\ attempt = 1 /\ published = 0

Ask == phase = "working" /\ phase' = "waiting" /\ UNCHANGED <<attempt, published>>

Publish == /\ phase = "working"
           /\ published = 0
           /\ published' = attempt
           /\ UNCHANGED <<phase, attempt>>

Succeed == /\ phase = "working"
           /\ published # 0
           /\ phase' = "success"
           /\ UNCHANGED <<attempt, published>>

Raise == /\ phase = "working"
         /\ phase' \in {"raised", "cancelled"}
         /\ UNCHANGED <<attempt, published>>

(* the worker fails to record the success *)
LoseSuccess == phase = "success" /\ phase' = "raised" /\ UNCHANGED <<attempt, published>>

Begin == /\ phase \in {"waiting", "raised"}
         /\ phase' = "working"
         /\ attempt' = attempt + 1
         /\ UNCHANGED published

Next == Ask \/ Publish \/ Succeed \/ Raise \/ LoseSuccess \/ Begin

Spec == Init /\ [][Next]_vars

===============================================================================
