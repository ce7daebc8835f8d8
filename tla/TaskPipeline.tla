----------------------------- MODULE TaskPipeline -----------------------------
(***************************************************************************)
(* The API callers, the workers and the environment around the task rows   *)
(* (TaskService) and the Redis queue (TaskQueue).  A caller is an API       *)
(* request: one database commit, then its Redis commands one by one.  A     *)
(* worker runs run_forever: it recovers queued tasks, reserves one, claims  *)
(* it, executes it and acknowledges it.  Redis commands fail, database      *)
(* calls fail and processes crash between any two steps.                    *)
(***************************************************************************)
EXTENDS TaskService, TaskQueue

CONSTANTS Callers,    \* API requests in flight
          Workers,    \* worker processes
          NoTask,
          MaxFaults   \* bound: Redis and database failures and crashes

ASSUME ProcsAssumption == /\ Callers \cap Workers = {}
                          /\ NoTask \notin Tasks
ASSUME MaxFaultsAssumption == MaxFaults \in Nat

VARIABLES pc,        \* the next step of each process
          arg,       \* the task a process works on
          batch,     \* the rows a recovering worker has listed and not handled yet
          outcome,   \* the status the executor returned to each worker
          faults,    \* failures so far
          orphaned,  \* history: the worker executing the task was lost
          late,      \* history: cancelled after the last cancellation check
          asked      \* history: some user asked to cancel the task

procVars == <<pc, arg, batch, outcome>>
history == <<orphaned, late, asked>>
vars == <<rowVars, queueVars, procVars, faults, history>>

Procs == Callers \cup Workers

EnqueueLabels == {"set", "lrem", "lpush"}

CallerLabels == {"idle", "request", "clear"} \cup EnqueueLabels

(* _process between the claim and the end of its try statement *)
ExecLabels == {"check1", "exec", "check2", "finish", "cancel", "fail"}

WorkerLabels == {"idle", "expire", "recover", "load", "claim", "ack", "unmark",
                 "release", "requeue", "down"} \cup EnqueueLabels \cup ExecLabels

TypeOK == /\ ServiceTypeOK
          /\ QueueTypeOK
          /\ pc \in [Procs -> CallerLabels \cup WorkerLabels]
          /\ \A c \in Callers : pc[c] \in CallerLabels
          /\ \A w \in Workers : pc[w] \in WorkerLabels
          /\ arg \in [Procs -> Tasks \cup {NoTask}]
          /\ \A p \in Procs : pc[p] \notin {"idle", "expire", "recover", "down"}
                                => arg[p] \in Tasks
          /\ batch \in [Workers -> SUBSET Tasks]
          /\ outcome \in [Workers -> {"waiting_input", "success"}]
          /\ faults \in Nat
          /\ orphaned \in [Tasks -> BOOLEAN]
          /\ late \in [Tasks -> BOOLEAN]
          /\ asked \in [Tasks -> BOOLEAN]

Init == /\ ServiceInit
        /\ QueueInit
        /\ pc = [p \in Procs |-> "idle"]
        /\ arg = [p \in Procs |-> NoTask]
        /\ batch = [w \in Workers |-> {}]
        /\ outcome = [w \in Workers |-> "success"]
        /\ faults = 0
        /\ orphaned = [t \in Tasks |-> FALSE]
        /\ late = [t \in Tasks |-> FALSE]
        /\ asked = [t \in Tasks |-> FALSE]

Executing(w, t) == pc[w] \in ExecLabels /\ arg[w] = t

Goto(p, l) == /\ pc' = [pc EXCEPT ![p] = l]
              /\ UNCHANGED <<arg, batch, outcome>>

GotoWith(p, l, t) == /\ pc' = [pc EXCEPT ![p] = l]
                     /\ arg' = [arg EXCEPT ![p] = t]
                     /\ UNCHANGED <<batch, outcome>>

Rest(p, l) == GotoWith(p, l, NoTask)

NoFault == UNCHANGED faults

Fault == faults < MaxFaults /\ faults' = faults + 1

------------------------------------------------------------------------------
(* API operations: the committed transaction *)

(* create_from_message: a new message, or a repeated one whose task is      *)
(* still queued and is enqueued again.  (A repeated message whose task has  *)
(* left the queue changes nothing.)                                          *)
CallSend(c, t) ==
  /\ pc[c] = "idle"
  /\ \/ CreateFromMessage(t)
     \/ status[t] = "queued" /\ UNCHANGED rowVars
  /\ GotoWith(c, "set", t)
  /\ NoFault
  /\ UNCHANGED <<queueVars, history>>

CallCancel(c, t) ==
  /\ pc[c] = "idle"
  /\ Cancel(t)
  /\ GotoWith(c, "request", t)
  /\ asked' = [asked EXCEPT ![t] = TRUE]
  /\ late' = [late EXCEPT ![t] = @ \/ \E w \in Workers : pc[w] = "finish" /\ arg[w] = t]
  /\ NoFault
  /\ UNCHANGED <<queueVars, orphaned>>

CallRequeue(c, t) ==
  /\ pc[c] = "idle"
  /\ SubmitClarification(t) \/ Retry(t)
  /\ GotoWith(c, "clear", t)
  /\ late' = [late EXCEPT ![t] = FALSE]
  /\ NoFault
  /\ UNCHANGED <<queueVars, orphaned, asked>>

(* ... and the Redis commands after the commit *)

RequestCancel(c) ==
  /\ pc[c] = "request"
  /\ SetCancelKey(arg[c])
  /\ Rest(c, "idle")
  /\ NoFault
  /\ UNCHANGED <<rowVars, history>>

ClearCancel(c) ==
  /\ pc[c] = "clear"
  /\ ClearCancelKey(arg[c])
  /\ Goto(c, "set")
  /\ NoFault
  /\ UNCHANGED <<rowVars, history>>

(* Both commands are guarded by "except RedisError" and the caller goes on. *)
CallerRedisFails(c) ==
  /\ Fault
  /\ \/ pc[c] = "request" /\ Rest(c, "idle")
     \/ pc[c] = "clear" /\ Goto(c, "set")
  /\ UNCHANGED <<rowVars, queueVars, history>>

CallerCrash(c) ==
  /\ pc[c] # "idle"
  /\ Fault
  /\ Rest(c, "idle")
  /\ UNCHANGED <<rowVars, queueVars, history>>

------------------------------------------------------------------------------
(* enqueue, run by a caller (_enqueue_safely) or by a recovering worker *)

(* A caller is done whether the task was enqueued or not. *)
AfterEnqueue(p) == IF p \in Workers THEN Goto(p, "recover") ELSE Rest(p, "idle")

EnqueueSet(p) ==
  /\ pc[p] = "set"
  /\ \/ ClaimMarker(arg[p]) /\ Goto(p, "lrem")
     \/ arg[p] \in marker /\ UNCHANGED queueVars /\ AfterEnqueue(p)
  /\ NoFault
  /\ UNCHANGED <<rowVars, history>>

EnqueueLrem(p) ==
  /\ pc[p] = "lrem"
  /\ DropFromProcessing(arg[p])
  /\ Goto(p, "lpush")
  /\ NoFault
  /\ UNCHANGED <<rowVars, history>>

EnqueueLpush(p) ==
  /\ pc[p] = "lpush"
  /\ PushReady(arg[p])
  /\ AfterEnqueue(p)
  /\ NoFault
  /\ UNCHANGED <<rowVars, history>>

(* A RedisError: the marker is deleted if that command still succeeds.  A   *)
(* caller swallows the error, a worker leaves recover_queued_tasks.          *)
EnqueueFails(p) ==
  /\ pc[p] \in EnqueueLabels
  /\ Fault
  /\ \/ pc[p] # "set" /\ DeleteMarker(arg[p])
     \/ UNCHANGED queueVars
  /\ pc' = [pc EXCEPT ![p] = "idle"]
  /\ arg' = [arg EXCEPT ![p] = NoTask]
  /\ batch' = IF p \in Workers THEN [batch EXCEPT ![p] = {}] ELSE batch
  /\ UNCHANGED <<rowVars, outcome, history>>

------------------------------------------------------------------------------
(* recover_queued_tasks *)

(* list_expired_waiting.  Which of the waiting tasks are older than the      *)
(* clarification timeout is a matter of time, hence any subset.             *)
ListExpired(w) ==
  /\ pc[w] = "idle"
  /\ \E expired \in SUBSET {t \in Tasks : status[t] = "waiting_input"} :
        batch' = [batch EXCEPT ![w] = expired]
  /\ pc' = [pc EXCEPT ![w] = "expire"]
  /\ NoFault
  /\ UNCHANGED <<rowVars, queueVars, arg, outcome, history>>

(* transition(task.id, "cancelled", CLARIFICATION_TIMEOUT) on each listed    *)
(* task, whose status may have changed since.                                *)
ExpireListed(w, t) ==
  /\ pc[w] = "expire"
  /\ t \in batch[w]
  /\ Transition(t, "cancelled", TRUE)
  /\ batch' = [batch EXCEPT ![w] = @ \ {t}]
  /\ NoFault
  /\ UNCHANGED <<queueVars, pc, arg, outcome, history>>

(* Mutant: recovery lists no queued task. *)
ListQueued_None(w) ==
  /\ pc[w] = "expire"
  /\ batch[w] = {}
  /\ pc' = [pc EXCEPT ![w] = "recover"]
  /\ NoFault
  /\ UNCHANGED <<rowVars, queueVars, arg, batch, outcome, history>>

ListQueued(w) ==
  /\ pc[w] = "expire"
  /\ batch[w] = {}
  /\ batch' = [batch EXCEPT ![w] = {t \in Tasks : status[t] = "queued"}]
  /\ pc' = [pc EXCEPT ![w] = "recover"]
  /\ NoFault
  /\ UNCHANGED <<rowVars, queueVars, arg, outcome, history>>

EnqueueListed(w, t) ==
  /\ pc[w] = "recover"
  /\ t \in batch[w]
  /\ pc' = [pc EXCEPT ![w] = "set"]
  /\ arg' = [arg EXCEPT ![w] = t]
  /\ batch' = [batch EXCEPT ![w] = @ \ {t}]
  /\ NoFault
  /\ UNCHANGED <<rowVars, queueVars, outcome, history>>

RecoveryDone(w) ==
  /\ pc[w] = "recover"
  /\ batch[w] = {}
  /\ Rest(w, "idle")
  /\ NoFault
  /\ UNCHANGED <<rowVars, queueVars, history>>

------------------------------------------------------------------------------
(* process_once and _process *)

Reserve(w) ==
  /\ pc[w] = "idle"
  /\ PopReady
  /\ GotoWith(w, "load", Head(ready))
  /\ NoFault
  /\ UNCHANGED <<rowVars, history>>

(* get_by_id; a cancelled task that is still queued is cancelled at once     *)
Load(w) ==
  /\ pc[w] = "load"
  /\ LET t == arg[w] IN
       IF status[t] = "queued" /\ cancelReq[t]
       THEN Transition(t, "cancelled", FALSE) /\ Goto(w, "ack")
       ELSE /\ UNCHANGED rowVars
            /\ Goto(w, IF status[t] = "queued" THEN "claim" ELSE "ack")
  /\ NoFault
  /\ UNCHANGED <<queueVars, history>>

(* Mutant: the worker goes on when the claim returned None. *)
Claim_Ignored(w) ==
  /\ pc[w] = "claim"
  /\ Transition(arg[w], "running", FALSE)
  /\ Goto(w, "check1")
  /\ NoFault
  /\ UNCHANGED <<queueVars, history>>

(* transition(task_id, "running"): None unless the row is still queued *)
Claim(w) ==
  /\ pc[w] = "claim"
  /\ Transition(arg[w], "running", FALSE)
  /\ Goto(w, IF status[arg[w]] = "queued" THEN "check1" ELSE "ack")
  /\ NoFault
  /\ UNCHANGED <<queueVars, history>>

(* is_requested: the Redis key, then the row.  With Redis down only the row  *)
(* is consulted.                                                            *)
KeyOrRow(t) == t \in cancelKey \/ cancelReq[t]

Check(w, found, pass) ==
  /\ Goto(w, IF found THEN "cancel" ELSE pass)
  /\ UNCHANGED <<rowVars, queueVars, history>>

AfterCheck(w) == IF pc[w] = "check1" THEN "exec" ELSE "finish"

(* Mutant: no check between the executor's return and the final transition. *)
CheckCancelled_OnlyBefore(w) ==
  /\ \/ pc[w] = "check1" /\ Check(w, KeyOrRow(arg[w]), "exec")
     \/ pc[w] = "check2" /\ Check(w, FALSE, "finish")
  /\ NoFault

(* Mutant: a Redis error counts as a cancel request. *)
CheckCancelled_ErrorCancels(w) ==
  /\ pc[w] \in {"check1", "check2"}
  /\ \/ Check(w, KeyOrRow(arg[w]), AfterCheck(w)) /\ NoFault
     \/ Check(w, TRUE, AfterCheck(w)) /\ Fault

CheckCancelled(w) ==
  /\ pc[w] \in {"check1", "check2"}
  /\ \/ Check(w, KeyOrRow(arg[w]), AfterCheck(w)) /\ NoFault
     \/ Check(w, cancelReq[arg[w]], AfterCheck(w)) /\ Fault

(* executor.execute: any number of nodes, each between two checks *)
ExecNode(w) ==
  /\ pc[w] = "exec"
  /\ AppendNodeEvent(arg[w])
  /\ NoFault
  /\ UNCHANGED <<queueVars, procVars, history>>

ExecCheckCancelled(w) ==
  /\ pc[w] = "exec"
  /\ KeyOrRow(arg[w])
  /\ Check(w, TRUE, "exec")
  /\ NoFault

ExecReturn(w, s) ==
  /\ pc[w] = "exec"
  /\ IF s = "success" THEN PersistResult(arg[w]) ELSE UNCHANGED rowVars
  /\ pc' = [pc EXCEPT ![w] = "check2"]
  /\ outcome' = [outcome EXCEPT ![w] = s]
  /\ NoFault
  /\ UNCHANGED <<queueVars, arg, batch, history>>

(* Mutant: an exception of the executor is not turned into "failed". *)
ExecRaise_Swallowed(w) ==
  /\ pc[w] = "exec"
  /\ NoFault
  /\ Goto(w, "ack")
  /\ UNCHANGED <<rowVars, queueVars, history>>

(* TaskExecutionError or any other exception: of the agent, or of the       *)
(* database during a check or the final transition.                         *)
ExecRaise(w) ==
  /\ \/ pc[w] = "exec" /\ NoFault
     \/ pc[w] \in {"check1", "check2", "finish"} /\ Fault
  /\ Goto(w, "fail")
  /\ UNCHANGED <<rowVars, queueVars, history>>

(* transition to the outcome; success without a complete result raises *)
Finish(w) ==
  /\ pc[w] = "finish"
  /\ LET t == arg[w] IN
       IF outcome[w] = "success" /\ status[t] = "running" /\ ~result[t]
       THEN UNCHANGED rowVars /\ Goto(w, "fail")
       ELSE Transition(t, outcome[w], FALSE) /\ Goto(w, "ack")
  /\ NoFault
  /\ UNCHANGED <<queueVars, history>>

FinishCancelled(w) ==
  /\ pc[w] = "cancel"
  /\ Transition(arg[w], "cancelled", FALSE)
  /\ Goto(w, "ack")
  /\ NoFault
  /\ UNCHANGED <<queueVars, history>>

FinishFailed(w) ==
  /\ pc[w] = "fail"
  /\ Transition(arg[w], "failed", TRUE)
  /\ Goto(w, "ack")
  /\ NoFault
  /\ UNCHANGED <<queueVars, history>>

------------------------------------------------------------------------------
(* acknowledge, release, and the ways a worker is lost *)

Acknowledge(w) ==
  /\ pc[w] = "ack"
  /\ RemoveOne(arg[w])
  /\ Goto(w, "unmark")
  /\ NoFault
  /\ UNCHANGED <<rowVars, history>>

Unmark(w) ==
  /\ pc[w] = "unmark"
  /\ DeleteMarker(arg[w])
  /\ Rest(w, "idle")
  /\ NoFault
  /\ UNCHANGED <<rowVars, history>>

Orphan(w) == orphaned' = IF pc[w] \in ExecLabels
                         THEN [orphaned EXCEPT ![arg[w]] = TRUE] ELSE orphaned

(* A database error outside the try, or in one of its handlers, ends        *)
(* _process with an exception.                                              *)
ProcessRaises(w) ==
  /\ pc[w] \in {"load", "claim", "cancel", "fail"}
  /\ Fault
  /\ Goto(w, "release")
  /\ Orphan(w)
  /\ UNCHANGED <<rowVars, queueVars, late, asked>>

(* release: the entry goes back to the head of the queue if it is still in   *)
(* the processing list; then the exception leaves run_forever.               *)
Release(w) ==
  /\ pc[w] = "release"
  /\ RemoveOne(arg[w])
  /\ IF processing[arg[w]] > 0 THEN Goto(w, "requeue") ELSE Rest(w, "down")
  /\ NoFault
  /\ UNCHANGED <<rowVars, history>>

ReleasePush(w) ==
  /\ pc[w] = "requeue"
  /\ PushBack(arg[w])
  /\ Rest(w, "down")
  /\ NoFault
  /\ UNCHANGED <<rowVars, history>>

(* A RedisError in acknowledge or release is caught by run_forever, which    *)
(* sleeps and goes on.                                                      *)
WorkerRedisFails(w) ==
  /\ pc[w] \in {"ack", "unmark", "release", "requeue"}
  /\ Fault
  /\ Rest(w, "idle")
  /\ UNCHANGED <<rowVars, queueVars, history>>

WorkerCrash(w) ==
  /\ pc[w] \notin {"idle", "down"}
  /\ Fault
  /\ pc' = [pc EXCEPT ![w] = "down"]
  /\ arg' = [arg EXCEPT ![w] = NoTask]
  /\ batch' = [batch EXCEPT ![w] = {}]
  /\ Orphan(w)
  /\ UNCHANGED <<rowVars, queueVars, outcome, late, asked>>

(* The process supervisor starts a worker again. *)
WorkerStart(w) ==
  /\ pc[w] = "down"
  /\ Goto(w, "idle")
  /\ NoFault
  /\ UNCHANGED <<rowVars, queueVars, history>>

------------------------------------------------------------------------------
MarkerExpires(t) == ExpireMarker(t) /\ NoFault /\ UNCHANGED <<rowVars, procVars, history>>

CancelKeyExpires(t) == ExpireCancelKey(t) /\ NoFault /\ UNCHANGED <<rowVars, procVars, history>>

CallerStep(c) == \/ \E t \in Tasks : CallSend(c, t) \/ CallCancel(c, t) \/ CallRequeue(c, t)
                 \/ RequestCancel(c) \/ ClearCancel(c)
                 \/ CallerRedisFails(c) \/ CallerCrash(c)

EnqueueStep(p) == EnqueueSet(p) \/ EnqueueLrem(p) \/ EnqueueLpush(p) \/ EnqueueFails(p)

RecoveryStep(w) == \/ ListExpired(w) \/ ListQueued(w) \/ RecoveryDone(w)
                   \/ \E t \in Tasks : ExpireListed(w, t) \/ EnqueueListed(w, t)

ExecStep(w) == \/ CheckCancelled(w) \/ ExecNode(w) \/ ExecCheckCancelled(w) \/ ExecRaise(w)
               \/ \E s \in {"waiting_input", "success"} : ExecReturn(w, s)
               \/ Finish(w) \/ FinishCancelled(w) \/ FinishFailed(w)

QueueStep(w) == \/ Reserve(w) \/ Load(w) \/ Claim(w) \/ Acknowledge(w) \/ Unmark(w)
                \/ ProcessRaises(w) \/ Release(w) \/ ReleasePush(w)
                \/ WorkerRedisFails(w) \/ WorkerCrash(w) \/ WorkerStart(w)

Next == \/ \E c \in Callers : CallerStep(c)
        \/ \E p \in Procs : EnqueueStep(p)
        \/ \E w \in Workers : RecoveryStep(w) \/ ExecStep(w) \/ QueueStep(w)
        \/ \E t \in Tasks : MarkerExpires(t) \/ CancelKeyExpires(t)

Spec == Init /\ [][Next]_vars

(* Fairness for the liveness properties: a worker that is up keeps taking   *)
(* steps (the supervisor restarts a lost one), comes back to its recovery    *)
(* and to its blocking reserve again and again, and Redis expires markers.   *)
(* Nothing is assumed of the callers and nothing of the failures, which are  *)
(* bounded by MaxFaults.                                                     *)

Proceed(w) == \/ EnqueueSet(w) \/ EnqueueLrem(w) \/ EnqueueLpush(w)
              \/ ListQueued(w) \/ RecoveryDone(w)
              \/ \E t \in Tasks : ExpireListed(w, t) \/ EnqueueListed(w, t)
              \/ Load(w) \/ Claim(w) \/ CheckCancelled(w)
              \/ \E s \in {"waiting_input", "success"} : ExecReturn(w, s)
              \/ Finish(w) \/ FinishCancelled(w) \/ FinishFailed(w)
              \/ Acknowledge(w) \/ Unmark(w) \/ Release(w) \/ ReleasePush(w)
              \/ WorkerStart(w)

FairSpec == /\ Spec
            /\ \A w \in Workers : /\ WF_vars(Proceed(w))
                                  /\ SF_vars(ListExpired(w))
                                  /\ SF_vars(Reserve(w))
            /\ \A t \in Tasks : WF_vars(MarkerExpires(t))

------------------------------------------------------------------------------
(* A task the clarification timeout cancelled: the only cancellation with an *)
(* error code.                                                               *)
TimedOut(t) == status[t] = "cancelled" /\ err[t]

(* No two workers execute the same task, although the queue may deliver it   *)
(* twice: the claim under the row lock admits one.                           *)
OneExecutor == \A v, w \in Workers, t \in Tasks :
                 Executing(v, t) /\ Executing(w, t) => v = w

(* A worker executes only a task that is running, or one that the            *)
(* clarification timeout of another worker cancelled under it.               *)
ExecutorOwnsTask == \A w \in Workers, t \in Tasks :
                      Executing(w, t) => status[t] = "running" \/ TimedOut(t)

(* A running task has a worker that will end it, unless that worker crashed  *)
(* or lost the database in its last transition.                              *)
RunningHasExecutor == \A t \in Tasks :
  status[t] = "running" => orphaned[t] \/ \E w \in Workers : Executing(w, t)

(* A successful task has a complete result and no error code left over from  *)
(* an earlier attempt.                                                       *)
SuccessIsComplete == \A t \in Tasks : status[t] = "success" => result[t] /\ ~err[t]

(* A task enters the queue without a pending cancel request, so the          *)
(* cancel_requested branch of _process is never taken.                       *)
QueuedNotCancelRequested == \A t \in Tasks : status[t] = "queued" => ~cancelReq[t]

(* A cancel request accepted before the worker's last check is honoured: the *)
(* task does not end in success or in waiting_input.                         *)
CancelNotLost == \A t \in Tasks :
  status[t] \in {"success", "waiting_input"} /\ cancelReq[t] => late[t]

(* A task is cancelled only because a user asked for it or because it timed  *)
(* out, whatever Redis keys are left over.                                   *)
CancelledWasAsked == \A t \in Tasks : status[t] = "cancelled" => asked[t] \/ TimedOut(t)

(* A client that replays the event log ends with the row's status, and sees  *)
(* "done" last exactly when the task is in a terminal status (tasks that     *)
(* timed out under an executing worker excepted).                            *)
LogMatchesRow == \A t \in Tasks :
  ~TimedOut(t) => /\ log[t].last = status[t]
                  /\ log[t].closed <=> status[t] \in TERMINAL_TASK_STATUSES

holders == [t \in Tasks |-> {w \in Workers : Executing(w, t)}]

LC == INSTANCE TaskLifecycle WITH status <- status, holders <- holders

(* The pipeline implements the abstract lifecycle: statuses move along       *)
(* ALLOWED_TRANSITIONS and only the worker that claimed a task ends it.      *)
Lifecycle == LC!Spec

(* Every queued task leaves the queue although enqueues are lost, refused    *)
(* by a marker still held, or interrupted by a crash.                        *)
QueuedIsTaken == \A t \in Tasks : status[t] = "queued" ~> status[t] # "queued"

(* Every running task ends, unless its worker was lost.                      *)
RunningEnds == \A t \in Tasks :
  status[t] = "running" ~> status[t] # "running" \/ orphaned[t]

------------------------------------------------------------------------------
(* create_from_message refuses a message while the conversation has an       *)
(* active task: at most one task of a conversation is queued or running.     *)
OneActiveTask == \A t, u \in Tasks :
  /\ ConvOf[t] = ConvOf[u]
  /\ status[t] \in ACTIVE_TASK_STATUSES
  /\ status[u] \in ACTIVE_TASK_STATUSES
  => t = u

===============================================================================
