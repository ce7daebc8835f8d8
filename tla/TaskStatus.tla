------------------------------ MODULE TaskStatus ------------------------------
(***************************************************************************)
(* The statuses of an analysis task and the transitions the service allows *)
(* between them (services/task_service.py).  "none" stands for a task whose *)
(* row has not been inserted yet.                                           *)
(***************************************************************************)

CONSTANT Tasks   \* the tasks: a conversation and a client_msg_id each

ACTIVE_TASK_STATUSES == {"queued", "running"}

TERMINAL_TASK_STATUSES == {"success", "failed", "cancelled"}

TaskStatuses == {"queued", "running", "waiting_input", "success", "failed", "cancelled"}

Statuses == TaskStatuses \cup {"none"}

ALLOWED_TRANSITIONS ==
  [s \in Statuses |->
     CASE s = "queued"        -> {"running", "cancelled"}
       [] s = "running"       -> {"waiting_input", "success", "failed", "cancelled"}
       [] s = "waiting_input" -> {"queued", "cancelled"}
       [] s = "failed"        -> {"queued"}
       [] OTHER               -> {}]

===============================================================================
