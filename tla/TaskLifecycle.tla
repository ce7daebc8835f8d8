---------------------------- MODULE TaskLifecycle ----------------------------
(***************************************************************************)
(* What the task pipeline promises, without queue, markers, callers or     *)
(* database transactions: a task's status moves only along                 *)
(* ALLOWED_TRANSITIONS, a task is claimed by one worker at a time, and only *)
(* the worker that claimed a task ends its attempt.  The one exception is   *)
(* Withdraw, which takes a task to "cancelled" from outside: the user's     *)
(* cancellation of a task nobody runs, and the clarification timeout, which *)
(* the code applies to whatever the task has become in the meantime.        *)
(***************************************************************************)
EXTENDS TaskStatus

CONSTANT Workers

VARIABLES status,   \* the status column of each task
          holders   \* the workers executing each task

vars == <<status, holders>>

Init == /\ status = [t \in Tasks |-> "none"]
        /\ holders = [t \in Tasks |-> {}]

Move(t, s) == status' = [status EXCEPT ![t] = s]

Submit(t) == /\ status[t] = "none"
             /\ Move(t, "queued")
             /\ UNCHANGED holders

Claim(t, w) == /\ status[t] = "queued"
               /\ holders[t] = {}
               /\ Move(t, "running")
               /\ holders' = [holders EXCEPT ![t] = {w}]

(* The executing worker ends the attempt it claimed: with an outcome, or  *)
(* without one when it crashes or when the task was withdrawn under it.    *)
Settle(t, w) == /\ holders[t] = {w}
                /\ holders' = [holders EXCEPT ![t] = {}]
                /\ \/ /\ status[t] = "running"
                      /\ \E s \in ALLOWED_TRANSITIONS["running"] : Move(t, s)
                   \/ UNCHANGED status

Withdraw(t) == /\ status[t] \in {"queued", "running", "waiting_input"}
               /\ Move(t, "cancelled")
               /\ UNCHANGED holders

Requeue(t) == /\ status[t] \in {"waiting_input", "failed"}
              /\ Move(t, "queued")
              /\ UNCHANGED holders

Next == \E t \in Tasks :
          \/ Submit(t)
          \/ Withdraw(t)
          \/ Requeue(t)
          \/ \E w \in Workers : Claim(t, w) \/ Settle(t, w)

Spec == Init /\ [][Next]_vars

===============================================================================
