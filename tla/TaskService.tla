----------------------------- MODULE TaskService -----------------------------
(***************************************************************************)
(* The task rows in MySQL and the operations of services/task_service.py   *)
(* that write them.  Each operation locks the row (SELECT ... FOR UPDATE)   *)
(* before it reads it and commits once, so it is one atomic step; what it   *)
(* does in Redis after the commit is in TaskPipeline.  A refused operation  *)
(* (404, 409) changes nothing and is the absence of a step.                 *)
(*                                                                          *)
(* A task is identified by its conversation and client_msg_id, the          *)
(* idempotency key, so Tasks are the messages a client may ever submit.     *)
(* Of the event log a task's summary is kept: the status carried by the     *)
(* last task_status event, and whether the last event of all is "done".     *)
(***************************************************************************)
EXTENDS TaskStatus, Naturals

CONSTANTS ConvOf,       \* the conversation of each task
          MaxRequeue    \* bound: retries and clarifications of one task

ASSUME MaxRequeueAssumption == MaxRequeue \in Nat

VARIABLES status,     \* task_status
          cancelReq,  \* cancel_requested
          err,        \* error_code is not null
          result,     \* analysis_results and report_files rows exist
          requeues,   \* retries and clarifications so far (retry_count counts the former)
          log         \* summary of the task_events rows

rowVars == <<status, cancelReq, err, result, requeues, log>>

LogSummaries == [last : Statuses, closed : BOOLEAN]

ServiceTypeOK == /\ status \in [Tasks -> Statuses]
                 /\ cancelReq \in [Tasks -> BOOLEAN]
                 /\ err \in [Tasks -> BOOLEAN]
                 /\ result \in [Tasks -> BOOLEAN]
                 /\ requeues \in [Tasks -> Nat]
                 /\ log \in [Tasks -> LogSummaries]

ServiceInit == /\ status = [t \in Tasks |-> "none"]
               /\ cancelReq = [t \in Tasks |-> FALSE]
               /\ err = [t \in Tasks |-> FALSE]
               /\ result = [t \in Tasks |-> FALSE]
               /\ requeues = [t \in Tasks |-> 0]
               /\ log = [t \in Tasks |-> [last |-> "none", closed |-> FALSE]]

AppendStatus(t, s, closed) ==
  log' = [log EXCEPT ![t] = [last |-> s, closed |-> closed]]

(* _terminal_events and the tail of transition: a terminal status is      *)
(* followed by "done".                                                     *)
SetStatus(t, s) == /\ status' = [status EXCEPT ![t] = s]
                   /\ AppendStatus(t, s, s \in TERMINAL_TASK_STATUSES)

------------------------------------------------------------------------------
(* get_active_for_conversation: waiting_input is not active *)
ActiveIn(conv) == {t \in Tasks : ConvOf[t] = conv /\ status[t] \in ACTIVE_TASK_STATUSES}

(* create_from_message, new client_msg_id *)
CreateFromMessage(t) == /\ status[t] = "none"
                        /\ ActiveIn(ConvOf[t]) = {}
                        /\ SetStatus(t, "queued")
                        /\ UNCHANGED <<cancelReq, err, result, requeues>>

(* Mutant: a running task is cancelled at once, under its worker. *)
Cancel_Immediate(t) == /\ status[t] \in {"queued", "running", "waiting_input"}
                       /\ cancelReq' = [cancelReq EXCEPT ![t] = TRUE]
                       /\ SetStatus(t, "cancelled")
                       /\ UNCHANGED <<err, result, requeues>>

(* Mutant: the event of a cancel request already says "cancelled". *)
Cancel_Announced(t) ==
  /\ status[t] \in {"queued", "running", "waiting_input"}
  /\ cancelReq' = [cancelReq EXCEPT ![t] = TRUE]
  /\ IF status[t] = "running"
     THEN AppendStatus(t, "cancelled", TRUE) /\ UNCHANGED status
     ELSE SetStatus(t, "cancelled")
  /\ UNCHANGED <<err, result, requeues>>

(* cancel: a task nobody runs is cancelled at once, a running one is asked *)
(* to stop.                                                                 *)
Cancel(t) == /\ status[t] \in {"queued", "running", "waiting_input"}
             /\ cancelReq' = [cancelReq EXCEPT ![t] = TRUE]
             /\ IF status[t] = "running"
                THEN AppendStatus(t, "running", FALSE) /\ UNCHANGED status
                ELSE SetStatus(t, "cancelled")
             /\ UNCHANGED <<err, result, requeues>>

(* Mutant: cancel_requested survives the way back into the queue. *)
Requeue_KeepsCancel(t) == /\ requeues[t] < MaxRequeue
                          /\ SetStatus(t, "queued")
                          /\ requeues' = [requeues EXCEPT ![t] = @ + 1]
                          /\ UNCHANGED cancelReq

Requeue(t) == /\ requeues[t] < MaxRequeue
              /\ SetStatus(t, "queued")
              /\ cancelReq' = [cancelReq EXCEPT ![t] = FALSE]
              /\ requeues' = [requeues EXCEPT ![t] = @ + 1]

SubmitClarification(t) == /\ status[t] = "waiting_input"
                          /\ Requeue(t)
                          /\ UNCHANGED <<err, result>>

(* Mutant: retry leaves error_code on the row. *)
Retry_KeepsError(t) == status[t] = "failed" /\ Requeue(t) /\ UNCHANGED <<err, result>>

Retry(t) == /\ status[t] = "failed"
            /\ Requeue(t)
            /\ err' = [err EXCEPT ![t] = FALSE]
            /\ UNCHANGED result

(* Mutant: transition does not consult ALLOWED_TRANSITIONS. *)
Transition_Unchecked(t, target, code) ==
  /\ SetStatus(t, target)
  /\ err' = [err EXCEPT ![t] = @ \/ target = "failed" \/ code]
  /\ UNCHANGED <<cancelReq, result, requeues>>

(* transition(target, error_code): a target the table does not allow        *)
(* returns None.  No caller passes "queued", so the branch that re-queues    *)
(* a task here is not reached.                                              *)
Transition(t, target, code) ==
  IF target \in ALLOWED_TRANSITIONS[status[t]]
  THEN /\ SetStatus(t, target)
       /\ err' = [err EXCEPT ![t] = @ \/ target = "failed" \/ code]
       /\ UNCHANGED <<cancelReq, result, requeues>>
  ELSE UNCHANGED rowVars

------------------------------------------------------------------------------
(* Writes of the executing agent: node, tool and retry events carry the     *)
(* status "running" whatever the row says; persist inserts the result once. *)

AppendNodeEvent(t) == /\ AppendStatus(t, "running", FALSE)
                      /\ UNCHANGED <<status, cancelReq, err, result, requeues>>

PersistResult(t) ==
  /\ result' = [result EXCEPT ![t] = TRUE]
  /\ log' = IF result[t] THEN log ELSE [log EXCEPT ![t].closed = FALSE]
  /\ UNCHANGED <<status, cancelReq, err, requeues>>

===============================================================================
