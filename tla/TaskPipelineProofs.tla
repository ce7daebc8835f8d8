-------------------------- MODULE TaskPipelineProofs --------------------------
(***************************************************************************)
(* Proofs about TaskPipeline for any sets of tasks, callers and workers and *)
(* any values of the bounds.                                                *)
(***************************************************************************)
EXTENDS TaskPipeline, TLAPS

(* What a step does to the rows and to Redis: one operation of TaskService,  *)
(* one command of TaskQueue, or nothing.  transition is never asked to queue *)
(* a task, to end one in success without its result, or to write an error     *)
(* code with any other status than these two.                                 *)
Targets == TaskStatuses \ {"queued"}

TargetOk(t, s, code) == /\ s = "success" /\ status[t] = "running" => result[t]
                        /\ code => s \in {"failed", "cancelled"}

RowStep == \/ UNCHANGED rowVars
           \/ \E t \in Tasks :
                \/ CreateFromMessage(t) \/ Cancel(t) \/ SubmitClarification(t) \/ Retry(t)
                \/ /\ \E w \in Workers : Executing(w, t)
                   /\ AppendNodeEvent(t) \/ PersistResult(t)
                \/ \E s \in Targets, code \in BOOLEAN :
                     TargetOk(t, s, code) /\ Transition(t, s, code)

QueueCommand == \/ UNCHANGED queueVars
                \/ PopReady
                \/ \E t \in Tasks :
                     \/ ClaimMarker(t) \/ DropFromProcessing(t) \/ PushReady(t)
                     \/ DeleteMarker(t) \/ RemoveOne(t) \/ PushBack(t)
                     \/ SetCancelKey(t) \/ ClearCancelKey(t) \/ ExpireMarker(t)

(* An appended status event keeps the log's summary well formed.             *)
LEMMA AppendStatusType ==
  ASSUME NEW t \in Tasks, NEW s \in Statuses, NEW closed \in BOOLEAN,
         ServiceTypeOK, AppendStatus(t, s, closed)
  PROVE  log' \in [Tasks -> LogSummaries]
<1>1. [last |-> s, closed |-> closed] \in LogSummaries
  BY DEF LogSummaries
<1>2. QED
  BY <1>1 DEF ServiceTypeOK, AppendStatus

(* Writing a status writes a well-formed row and a well-formed event.        *)
LEMMA SetStatusType ==
  ASSUME NEW t \in Tasks, NEW s \in Statuses, ServiceTypeOK, SetStatus(t, s)
  PROVE  status' \in [Tasks -> Statuses] /\ log' \in [Tasks -> LogSummaries]
<1>1. status' \in [Tasks -> Statuses]
  BY DEF ServiceTypeOK, SetStatus
<1>2. (s \in TERMINAL_TASK_STATUSES) \in BOOLEAN
  OBVIOUS
<1>3. QED
  BY <1>1, <1>2, AppendStatusType DEF SetStatus

(* Every operation of TaskService keeps the rows' types: the database        *)
(* columns hold values of their declared kinds.                              *)
LEMMA RowStepType == ServiceTypeOK /\ RowStep => ServiceTypeOK'
<1> SUFFICES ASSUME ServiceTypeOK, RowStep PROVE ServiceTypeOK'
  OBVIOUS
<1> USE DEF ServiceTypeOK, SetStatus, AppendStatus, LogSummaries, Statuses, TaskStatuses,
            TERMINAL_TASK_STATUSES
<1>1. CASE UNCHANGED rowVars
  BY <1>1 DEF rowVars
<1>2. ASSUME NEW t \in Tasks, CreateFromMessage(t) PROVE ServiceTypeOK'
  BY <1>2 DEF CreateFromMessage
<1>3. ASSUME NEW t \in Tasks, Cancel(t) PROVE ServiceTypeOK'
  <2>1. CASE status[t] = "running"
    <3>1. AppendStatus(t, "running", FALSE) /\ UNCHANGED status
      BY <1>3, <2>1 DEF Cancel
    <3>2. "running" \in Statuses /\ FALSE \in BOOLEAN
      OBVIOUS
    <3>3. log' \in [Tasks -> LogSummaries]
      BY <3>1, <3>2, AppendStatusType
    <3>4. QED
      BY <1>3, <3>1, <3>3 DEF Cancel
  <2>2. CASE status[t] # "running"
    <3>1. SetStatus(t, "cancelled")
      BY <1>3, <2>2 DEF Cancel
    <3>2. QED
      BY <1>3, <3>1, SetStatusType DEF Cancel
  <2>3. QED
    BY <2>1, <2>2
<1>4. ASSUME NEW t \in Tasks, SubmitClarification(t) PROVE ServiceTypeOK'
  BY <1>4 DEF SubmitClarification, Requeue
<1>5. ASSUME NEW t \in Tasks, Retry(t) PROVE ServiceTypeOK'
  BY <1>5 DEF Retry, Requeue
<1>6. ASSUME NEW t \in Tasks, AppendNodeEvent(t) PROVE ServiceTypeOK'
  BY <1>6 DEF AppendNodeEvent
<1>7. ASSUME NEW t \in Tasks, PersistResult(t) PROVE ServiceTypeOK'
  BY <1>7 DEF PersistResult
<1>8. ASSUME NEW t \in Tasks, NEW s \in TaskStatuses, NEW code \in BOOLEAN,
             Transition(t, s, code)
      PROVE  ServiceTypeOK'
  <2>1. CASE s \in ALLOWED_TRANSITIONS[status[t]]
    <3>1. SetStatus(t, s) /\ s \in Statuses
      BY <1>8, <2>1 DEF Transition
    <3>2. status' \in [Tasks -> Statuses] /\ log' \in [Tasks -> LogSummaries]
      BY <3>1, SetStatusType
    <3>3. err' \in [Tasks -> BOOLEAN]
      BY <1>8, <2>1 DEF Transition
    <3>4. QED
      BY <1>8, <2>1, <3>2, <3>3 DEF Transition
  <2>2. CASE s \notin ALLOWED_TRANSITIONS[status[t]]
    BY <1>8, <2>2 DEF Transition, rowVars
  <2>3. QED
    BY <2>1, <2>2
<1>9. QED
  BY <1>1, <1>2, <1>3, <1>4, <1>5, <1>6, <1>7, <1>8 DEF RowStep, Targets

(* Every Redis command keeps the queue's types: in particular no count of    *)
(* processing entries goes below zero.                                       *)
LEMMA QueueCommandType == QueueTypeOK /\ QueueCommand => QueueTypeOK'
<1> SUFFICES ASSUME QueueTypeOK, QueueCommand PROVE QueueTypeOK'
  OBVIOUS
<1> USE DEF QueueTypeOK
<1>1. CASE UNCHANGED queueVars
  BY <1>1 DEF queueVars
<1>2. CASE PopReady
  <2>1. Head(ready) \in Tasks /\ ready' \in Seq(Tasks)
    BY <1>2 DEF PopReady
  <2>2. processing' \in [Tasks -> Nat]
    BY <1>2, <2>1 DEF PopReady
  <2>3. QED
    BY <1>2, <2>1, <2>2 DEF PopReady
<1>3. ASSUME NEW t \in Tasks, PushReady(t) PROVE QueueTypeOK'
  BY <1>3 DEF PushReady
<1>4. ASSUME NEW t \in Tasks, PushBack(t) PROVE QueueTypeOK'
  BY <1>4 DEF PushBack
<1>5. ASSUME NEW t \in Tasks,
             \/ ClaimMarker(t) \/ DropFromProcessing(t) \/ DeleteMarker(t) \/ RemoveOne(t)
             \/ SetCancelKey(t) \/ ClearCancelKey(t) \/ ExpireMarker(t)
      PROVE  QueueTypeOK'
  BY <1>5 DEF ClaimMarker, DropFromProcessing, DeleteMarker, RemoveOne, SetCancelKey,
              ClearCancelKey, ExpireMarker
<1>6. QED
  BY <1>1, <1>2, <1>3, <1>4, <1>5 DEF QueueCommand

------------------------------------------------------------------------------
(* A step of the pipeline is one operation on the rows, or none.             *)
LEMMA NextIsRowStep == TypeOK /\ Next => RowStep
<1> SUFFICES ASSUME TypeOK, Next PROVE RowStep
  OBVIOUS
<1>1. ASSUME NEW c \in Callers, CallerStep(c) PROVE RowStep
  <2>1. ASSUME NEW t \in Tasks, CallSend(c, t) \/ CallCancel(c, t) \/ CallRequeue(c, t)
        PROVE  RowStep
    BY <2>1 DEF CallSend, CallCancel, CallRequeue, RowStep
  <2>2. CASE RequestCancel(c) \/ ClearCancel(c) \/ CallerRedisFails(c) \/ CallerCrash(c)
    BY <2>2 DEF RequestCancel, ClearCancel, CallerRedisFails, CallerCrash, RowStep
  <2>3. QED
    BY <1>1, <2>1, <2>2 DEF CallerStep
<1>2. ASSUME NEW p \in Procs, EnqueueStep(p) PROVE RowStep
  BY <1>2 DEF EnqueueStep, EnqueueSet, EnqueueLrem, EnqueueLpush, EnqueueFails, RowStep
<1>3. ASSUME NEW w \in Workers, RecoveryStep(w) PROVE RowStep
  <2>1. ASSUME NEW t \in Tasks, ExpireListed(w, t) PROVE RowStep
    <3>1. Transition(t, "cancelled", TRUE) /\ "cancelled" \in Targets /\ TRUE \in BOOLEAN
      BY <2>1 DEF ExpireListed, TaskStatuses, Targets
    <3>2. TargetOk(t, "cancelled", TRUE)
      BY DEF TargetOk
    <3>3. QED
      BY <3>1, <3>2 DEF RowStep
  <2>2. ASSUME NEW t \in Tasks, EnqueueListed(w, t) PROVE RowStep
    BY <2>2 DEF EnqueueListed, RowStep
  <2>3. CASE ListExpired(w) \/ ListQueued(w) \/ RecoveryDone(w)
    BY <2>3 DEF ListExpired, ListQueued, RecoveryDone, RowStep
  <2>4. QED
    BY <1>3, <2>1, <2>2, <2>3 DEF RecoveryStep
<1>4. ASSUME NEW w \in Workers, ExecStep(w) PROVE RowStep
  <2> DEFINE t == arg[w]
  <2>t. ASSUME pc[w] \in ExecLabels PROVE t \in Tasks
    BY <2>t DEF TypeOK, Procs, ExecLabels
  <2>1. CASE CheckCancelled(w) \/ ExecCheckCancelled(w) \/ ExecRaise(w)
    BY <2>1 DEF CheckCancelled, ExecCheckCancelled, ExecRaise, Check, RowStep
  <2>2. CASE ExecNode(w)
    BY <2>2, <2>t DEF ExecNode, ExecLabels, RowStep, Executing
  <2>3. ASSUME NEW s \in {"waiting_input", "success"}, ExecReturn(w, s) PROVE RowStep
    BY <2>3, <2>t DEF ExecReturn, ExecLabels, RowStep, Executing
  <2>4. CASE Finish(w)
    <3>1. outcome[w] \in Targets
      BY DEF TypeOK, TaskStatuses, Targets
    <3>2. t \in Tasks
      BY <2>4, <2>t DEF Finish, ExecLabels
    <3>3. UNCHANGED rowVars \/ (TargetOk(t, outcome[w], FALSE) /\ Transition(t, outcome[w], FALSE))
      BY <2>4 DEF Finish, TargetOk
    <3>4. QED
      BY <3>1, <3>2, <3>3 DEF RowStep
  <2>5. CASE FinishCancelled(w)
    BY <2>5, <2>t DEF FinishCancelled, ExecLabels, TaskStatuses, Targets, TargetOk, RowStep
  <2>6. CASE FinishFailed(w)
    BY <2>6, <2>t DEF FinishFailed, ExecLabels, TaskStatuses, Targets, TargetOk, RowStep
  <2>7. QED
    BY <1>4, <2>1, <2>2, <2>3, <2>4, <2>5, <2>6 DEF ExecStep
<1>5. ASSUME NEW w \in Workers, QueueStep(w) PROVE RowStep
  <2>1. CASE Load(w)
    <3>1. arg[w] \in Tasks
      BY <2>1 DEF Load, TypeOK, Procs
    <3>2. UNCHANGED rowVars \/ Transition(arg[w], "cancelled", FALSE)
      BY <2>1 DEF Load
    <3>3. QED
      BY <3>1, <3>2 DEF RowStep, TaskStatuses, Targets, TargetOk
  <2>2. CASE Claim(w)
    <3>1. arg[w] \in Tasks
      BY <2>2 DEF Claim, TypeOK, Procs
    <3>2. Transition(arg[w], "running", FALSE)
      BY <2>2 DEF Claim
    <3>3. QED
      BY <3>1, <3>2 DEF RowStep, TaskStatuses, Targets, TargetOk
  <2>3. CASE \/ Reserve(w) \/ Acknowledge(w) \/ Unmark(w) \/ ProcessRaises(w) \/ Release(w)
             \/ ReleasePush(w) \/ WorkerRedisFails(w) \/ WorkerCrash(w) \/ WorkerStart(w)
    BY <2>3 DEF Reserve, Acknowledge, Unmark, ProcessRaises, Release, ReleasePush,
                WorkerRedisFails, WorkerCrash, WorkerStart, RowStep
  <2>4. QED
    BY <1>5, <2>1, <2>2, <2>3 DEF QueueStep
<1>6. ASSUME NEW t \in Tasks, MarkerExpires(t) \/ CancelKeyExpires(t) PROVE RowStep
  BY <1>6 DEF MarkerExpires, CancelKeyExpires, RowStep
<1>7. QED
  BY <1>1, <1>2, <1>3, <1>4, <1>5, <1>6 DEF Next

(* A step of the pipeline is one Redis command, or none.                     *)
LEMMA NextIsQueueCommand == TypeOK /\ Next => QueueCommand
<1> SUFFICES ASSUME TypeOK, Next PROVE QueueCommand
  OBVIOUS
<1>a. \A p \in Procs : pc[p] \notin {"idle", "expire", "recover", "down"} => arg[p] \in Tasks
  BY DEF TypeOK
<1>1. ASSUME NEW c \in Callers, CallerStep(c) PROVE QueueCommand
  BY <1>1, <1>a DEF CallerStep, CallSend, CallCancel, CallRequeue, RequestCancel, ClearCancel,
                    CallerRedisFails, CallerCrash, QueueCommand, Procs
<1>2. ASSUME NEW p \in Procs, EnqueueStep(p) PROVE QueueCommand
  BY <1>2, <1>a DEF EnqueueStep, EnqueueSet, EnqueueLrem, EnqueueLpush, EnqueueFails,
                    EnqueueLabels, QueueCommand
<1>3. ASSUME NEW w \in Workers, RecoveryStep(w) PROVE QueueCommand
  BY <1>3 DEF RecoveryStep, ListExpired, ExpireListed, ListQueued, EnqueueListed, RecoveryDone,
              QueueCommand
<1>4. ASSUME NEW w \in Workers, ExecStep(w) PROVE QueueCommand
  BY <1>4 DEF ExecStep, CheckCancelled, Check, ExecNode, ExecCheckCancelled, ExecReturn,
              ExecRaise, Finish, FinishCancelled, FinishFailed, QueueCommand
<1>5. ASSUME NEW w \in Workers, QueueStep(w) PROVE QueueCommand
  BY <1>5, <1>a DEF QueueStep, Reserve, Load, Claim, Acknowledge, Unmark, ProcessRaises, Release,
                    ReleasePush, WorkerRedisFails, WorkerCrash, WorkerStart, QueueCommand, Procs
<1>6. ASSUME NEW t \in Tasks, MarkerExpires(t) \/ CancelKeyExpires(t) PROVE QueueCommand
  BY <1>6 DEF MarkerExpires, CancelKeyExpires, ExpireCancelKey, QueueCommand
<1>7. QED
  BY <1>1, <1>2, <1>3, <1>4, <1>5, <1>6 DEF Next

------------------------------------------------------------------------------
RestLabels == {"idle", "expire", "recover", "down"}

LabelsOf(p) == IF p \in Workers THEN WorkerLabels ELSE CallerLabels

(* The part of TypeOK about where each process is and what it works on.      *)
PcTypeOK == /\ pc \in [Procs -> CallerLabels \cup WorkerLabels]
            /\ \A p \in Procs : pc[p] \in LabelsOf(p)
            /\ arg \in [Procs -> Tasks \cup {NoTask}]
            /\ \A p \in Procs : pc[p] \notin RestLabels => arg[p] \in Tasks

HistoryTypeOK == /\ batch \in [Workers -> SUBSET Tasks]
                 /\ outcome \in [Workers -> {"waiting_input", "success"}]
                 /\ faults \in Nat
                 /\ orphaned \in [Tasks -> BOOLEAN]
                 /\ late \in [Tasks -> BOOLEAN]
                 /\ asked \in [Tasks -> BOOLEAN]

(* TypeOK is the conjunction of the types of its four parts.                 *)
LEMMA TypeOKParts ==
  TypeOK <=> ServiceTypeOK /\ QueueTypeOK /\ PcTypeOK /\ HistoryTypeOK
<1>1. ASSUME NEW p \in Procs
      PROVE  /\ p \in Callers => p \notin Workers
             /\ p \in Callers \/ p \in Workers
  BY ProcsAssumption DEF Procs
<1>2. QED
  BY <1>1 DEF TypeOK, PcTypeOK, HistoryTypeOK, RestLabels, LabelsOf, Procs

(* A process that moves to one of its own labels, with a task whenever the   *)
(* label needs one, stays well typed.                                        *)
LEMMA MoveType ==
  ASSUME PcTypeOK, NEW p \in Procs, NEW l \in LabelsOf(p), NEW t \in Tasks \cup {NoTask},
         l \notin RestLabels => t \in Tasks,
         pc' = [pc EXCEPT ![p] = l], arg' = [arg EXCEPT ![p] = t]
  PROVE  PcTypeOK'
<1>1. l \in CallerLabels \cup WorkerLabels
  BY DEF LabelsOf
<1>2. pc' \in [Procs -> CallerLabels \cup WorkerLabels]
  BY <1>1 DEF PcTypeOK
<1>3. \A q \in Procs : pc'[q] \in LabelsOf(q)
  BY DEF PcTypeOK
<1>4. arg' \in [Procs -> Tasks \cup {NoTask}]
  BY DEF PcTypeOK
<1>5. \A q \in Procs : pc'[q] \notin RestLabels => arg'[q] \in Tasks
  BY DEF PcTypeOK
<1>6. QED
  BY <1>2, <1>3, <1>4, <1>5 DEF PcTypeOK, LabelsOf

(* The same for a process that keeps its task.                               *)
LEMMA GotoType ==
  ASSUME PcTypeOK, NEW p \in Procs, NEW l \in LabelsOf(p),
         l \in RestLabels \/ arg[p] \in Tasks,
         pc' = [pc EXCEPT ![p] = l], UNCHANGED arg
  PROVE  PcTypeOK'
<1>1. arg[p] \in Tasks \cup {NoTask} /\ arg' = [arg EXCEPT ![p] = arg[p]]
  BY DEF PcTypeOK
<1>2. QED
  BY <1>1, MoveType

(* Every step leaves each process at a label of its own, working on a task   *)
(* where the label needs one.                                                *)
LEMMA NextPcType == TypeOK /\ Next => PcTypeOK'
<1> SUFFICES ASSUME TypeOK, Next PROVE PcTypeOK'
  OBVIOUS
<1>a. /\ PcTypeOK
      /\ \A c \in Callers : c \in Procs /\ LabelsOf(c) = CallerLabels
      /\ \A w \in Workers : w \in Procs /\ LabelsOf(w) = WorkerLabels
  BY TypeOKParts, ProcsAssumption DEF LabelsOf, Procs
<1>b. \A p \in Procs : pc[p] \notin RestLabels => arg[p] \in Tasks
  BY <1>a DEF PcTypeOK
<1>c. ASSUME UNCHANGED <<pc, arg>> PROVE PcTypeOK'
  BY <1>a, <1>c DEF PcTypeOK, LabelsOf
<1>1. ASSUME NEW c \in Callers, CallerStep(c) PROVE PcTypeOK'
  <2>1. ASSUME NEW t \in Tasks, CallSend(c, t) \/ CallCancel(c, t) \/ CallRequeue(c, t)
        PROVE  PcTypeOK'
    <3>1. PICK l \in {"set", "request", "clear"} : GotoWith(c, l, t)
      BY <2>1 DEF CallSend, CallCancel, CallRequeue
    <3>2. QED
      BY <1>a, <3>1, MoveType DEF GotoWith, CallerLabels, EnqueueLabels
  <2>2. CASE \/ ClearCancel(c)
             \/ CallerRedisFails(c) /\ pc[c] = "clear"
    <3>1. pc[c] = "clear" /\ Goto(c, "set")
      BY <2>2 DEF ClearCancel, CallerRedisFails
    <3>2. QED
      BY <1>a, <1>b, <3>1, GotoType DEF Goto, CallerLabels, EnqueueLabels, RestLabels
  <2>3. CASE \/ RequestCancel(c) \/ CallerCrash(c)
             \/ CallerRedisFails(c) /\ pc[c] # "clear"
    <3>1. Rest(c, "idle")
      BY <2>3 DEF RequestCancel, CallerCrash, CallerRedisFails
    <3>2. QED
      BY <1>a, <3>1, MoveType DEF Rest, GotoWith, CallerLabels, RestLabels
  <2>4. QED
    BY <1>1, <2>1, <2>2, <2>3 DEF CallerStep
<1>2. ASSUME NEW p \in Procs, EnqueueStep(p) PROVE PcTypeOK'
  <2>1. /\ pc[p] \in {"set", "lrem", "lpush"} /\ arg[p] \in Tasks
        /\ {"idle", "lrem", "lpush"} \subseteq LabelsOf(p)
    BY <1>2, <1>b DEF EnqueueStep, EnqueueSet, EnqueueLrem, EnqueueLpush, EnqueueFails,
                      EnqueueLabels, RestLabels, LabelsOf, CallerLabels, WorkerLabels
  <2>2. ASSUME NEW l \in {"lrem", "lpush"}, Goto(p, l) PROVE PcTypeOK'
    BY <1>a, <2>1, <2>2, GotoType DEF Goto
  <2>3. ASSUME AfterEnqueue(p) PROVE PcTypeOK'
    <3>1. CASE p \in Workers
      BY <1>a, <2>3, <3>1, GotoType DEF AfterEnqueue, Goto, WorkerLabels, RestLabels
    <3>2. CASE p \notin Workers
      BY <1>a, <2>1, <2>3, <3>2, MoveType DEF AfterEnqueue, Rest, GotoWith, RestLabels
    <3>3. QED
      BY <3>1, <3>2
  <2>4. ASSUME EnqueueFails(p) PROVE PcTypeOK'
    BY <1>a, <2>1, <2>4, MoveType DEF EnqueueFails, RestLabels
  <2>5. QED
    BY <1>2, <2>2, <2>3, <2>4 DEF EnqueueStep, EnqueueSet, EnqueueLrem, EnqueueLpush
<1>3. ASSUME NEW w \in Workers, RecoveryStep(w) PROVE PcTypeOK'
  <2>1. ASSUME NEW t \in Tasks, ExpireListed(w, t) PROVE PcTypeOK'
    BY <2>1, <1>c DEF ExpireListed
  <2>2. ASSUME NEW t \in Tasks, EnqueueListed(w, t) PROVE PcTypeOK'
    BY <1>a, <2>2, MoveType DEF EnqueueListed, WorkerLabels, EnqueueLabels
  <2>3. CASE ListExpired(w) \/ ListQueued(w)
    <3>1. PICK l \in {"expire", "recover"} : pc' = [pc EXCEPT ![w] = l] /\ UNCHANGED arg
      BY <2>3 DEF ListExpired, ListQueued
    <3>2. QED
      BY <1>a, <3>1, GotoType DEF WorkerLabels, RestLabels
  <2>4. CASE RecoveryDone(w)
    BY <1>a, <2>4, MoveType DEF RecoveryDone, Rest, GotoWith, WorkerLabels, RestLabels
  <2>5. QED
    BY <1>3, <2>1, <2>2, <2>3, <2>4 DEF RecoveryStep
<1>4. ASSUME NEW w \in Workers, ExecStep(w) PROVE PcTypeOK'
  <2>1. pc[w] \in ExecLabels /\ arg[w] \in Tasks
    BY <1>4, <1>a, <1>b DEF ExecStep, CheckCancelled, ExecNode, ExecCheckCancelled, ExecReturn,
          ExecRaise, Finish, FinishCancelled, FinishFailed, ExecLabels, RestLabels
  <2>2. CASE ExecNode(w)
    BY <2>2, <1>c DEF ExecNode, procVars
  <2>3. CASE ~ExecNode(w)
    <3>1. PICK l \in ExecLabels \cup {"ack"} : pc' = [pc EXCEPT ![w] = l] /\ UNCHANGED arg
      BY <1>4, <2>3 DEF ExecStep, CheckCancelled, Check, AfterCheck, ExecCheckCancelled,
            ExecReturn, ExecRaise, Finish, FinishCancelled, FinishFailed, Goto, ExecLabels
    <3>2. QED
      BY <1>a, <2>1, <3>1, GotoType DEF WorkerLabels
  <2>4. QED
    BY <2>2, <2>3
<1>5. ASSUME NEW w \in Workers, QueueStep(w) PROVE PcTypeOK'
  <2>1. CASE Reserve(w)
    <3>1. Head(ready) \in Tasks
      BY <2>1 DEF Reserve, PopReady, TypeOK, QueueTypeOK
    <3>2. QED
      BY <1>a, <2>1, <3>1, MoveType DEF Reserve, GotoWith, WorkerLabels
  <2>2. CASE \/ Load(w) \/ Claim(w) \/ Acknowledge(w) \/ ProcessRaises(w)
             \/ Release(w) /\ processing[arg[w]] > 0
    <3>1. arg[w] \in Tasks
      BY <2>2, <1>a, <1>b DEF Load, Claim, Acknowledge, ProcessRaises, Release, RestLabels
    <3>2. PICK l \in {"claim", "check1", "ack", "unmark", "release", "requeue"} :
             pc' = [pc EXCEPT ![w] = l] /\ UNCHANGED arg
      BY <2>2 DEF Load, Claim, Acknowledge, ProcessRaises, Release, Goto
    <3>3. QED
      BY <1>a, <3>1, <3>2, GotoType DEF WorkerLabels, ExecLabels
  <2>3. CASE \/ Unmark(w) \/ ReleasePush(w) \/ WorkerRedisFails(w) \/ WorkerCrash(w)
             \/ Release(w) /\ ~(processing[arg[w]] > 0)
    <3>1. PICK l \in {"idle", "down"} :
             pc' = [pc EXCEPT ![w] = l] /\ arg' = [arg EXCEPT ![w] = NoTask]
      BY <2>3 DEF Unmark, ReleasePush, WorkerRedisFails, WorkerCrash, Release, Rest, GotoWith
    <3>2. QED
      BY <1>a, <3>1, MoveType DEF WorkerLabels, RestLabels
  <2>4. CASE WorkerStart(w)
    BY <1>a, <2>4, GotoType DEF WorkerStart, Goto, WorkerLabels, RestLabels
  <2>5. QED
    BY <1>5, <2>1, <2>2, <2>3, <2>4 DEF QueueStep
<1>6. ASSUME NEW t \in Tasks, MarkerExpires(t) \/ CancelKeyExpires(t) PROVE PcTypeOK'
  BY <1>6, <1>c DEF MarkerExpires, CancelKeyExpires, procVars
<1>7. QED
  BY <1>1, <1>2, <1>3, <1>4, <1>5, <1>6 DEF Next

(* Every step keeps the remaining process variables and histories typed.     *)
LEMMA NextHistoryType == TypeOK /\ Next => HistoryTypeOK'
<1> SUFFICES ASSUME TypeOK, Next PROVE HistoryTypeOK'
  OBVIOUS
<1> USE TypeOKParts DEF HistoryTypeOK, history, procVars, NoFault, Fault, Goto, GotoWith, Rest
<1>1. ASSUME NEW c \in Callers, CallerStep(c) PROVE HistoryTypeOK'
  <2>1. ASSUME NEW t \in Tasks, CallSend(c, t) PROVE HistoryTypeOK'
    BY <2>1 DEF CallSend
  <2>2. ASSUME NEW t \in Tasks, CallCancel(c, t) PROVE HistoryTypeOK'
    <3>1. (late[t] \/ \E w \in Workers : pc[w] = "finish" /\ arg[w] = t) \in BOOLEAN
      BY DEF HistoryTypeOK
    <3>2. late' \in [Tasks -> BOOLEAN]
      BY <2>2, <3>1 DEF CallCancel
    <3>3. asked' \in [Tasks -> BOOLEAN]
      BY <2>2 DEF CallCancel
    <3>4. QED
      BY <2>2, <3>2, <3>3 DEF CallCancel
  <2>3. ASSUME NEW t \in Tasks, CallRequeue(c, t) PROVE HistoryTypeOK'
    BY <2>3 DEF CallRequeue
  <2>4. CASE RequestCancel(c) \/ ClearCancel(c) \/ CallerRedisFails(c) \/ CallerCrash(c)
    BY <2>4 DEF RequestCancel, ClearCancel, CallerRedisFails, CallerCrash
  <2>5. QED
    BY <1>1, <2>1, <2>2, <2>3, <2>4 DEF CallerStep
<1>2. ASSUME NEW p \in Procs, EnqueueStep(p) PROVE HistoryTypeOK'
  BY <1>2 DEF EnqueueStep, EnqueueSet, EnqueueLrem, EnqueueLpush, EnqueueFails, AfterEnqueue
<1>3. ASSUME NEW w \in Workers, RecoveryStep(w) PROVE HistoryTypeOK'
  BY <1>3 DEF RecoveryStep, ListExpired, ExpireListed, ListQueued, EnqueueListed, RecoveryDone
<1>4. ASSUME NEW w \in Workers, ExecStep(w) PROVE HistoryTypeOK'
  <2>1. ASSUME NEW s \in {"waiting_input", "success"}, ExecReturn(w, s) PROVE HistoryTypeOK'
    BY <2>1 DEF ExecReturn
  <2>2. CASE CheckCancelled(w) \/ ExecNode(w) \/ ExecCheckCancelled(w) \/ ExecRaise(w)
    BY <2>2 DEF CheckCancelled, Check, ExecNode, ExecCheckCancelled, ExecRaise
  <2>3. CASE Finish(w) \/ FinishCancelled(w) \/ FinishFailed(w)
    BY <2>3 DEF Finish, FinishCancelled, FinishFailed
  <2>4. QED
    BY <1>4, <2>1, <2>2, <2>3 DEF ExecStep
<1>5. ASSUME NEW w \in Workers, QueueStep(w) PROVE HistoryTypeOK'
  <2>1. ASSUME Orphan(w) PROVE orphaned' \in [Tasks -> BOOLEAN]
    BY <2>1 DEF Orphan
  <2>2. CASE ProcessRaises(w)
    BY <2>1, <2>2 DEF ProcessRaises
  <2>3. CASE WorkerCrash(w)
    <3>1. batch' \in [Workers -> SUBSET Tasks]
      BY <2>3 DEF WorkerCrash
    <3>2. QED
      BY <2>1, <2>3, <3>1 DEF WorkerCrash
  <2>4. CASE \/ Reserve(w) \/ Acknowledge(w) \/ Unmark(w) \/ Release(w)
             \/ ReleasePush(w) \/ WorkerRedisFails(w) \/ WorkerStart(w)
    BY <2>4 DEF Reserve, Acknowledge, Unmark, Release, ReleasePush, WorkerRedisFails, WorkerStart
  <2>5. CASE Load(w) \/ Claim(w)
    BY <2>5 DEF Load, Claim
  <2>6. QED
    BY <1>5, <2>2, <2>3, <2>4, <2>5 DEF QueueStep
<1>6. ASSUME NEW t \in Tasks, MarkerExpires(t) \/ CancelKeyExpires(t) PROVE HistoryTypeOK'
  BY <1>6 DEF MarkerExpires, CancelKeyExpires
<1>7. QED
  BY <1>1, <1>2, <1>3, <1>4, <1>5, <1>6 DEF Next

(* A step of the pipeline, or a stuttering step, preserves TypeOK.           *)
LEMMA TypeStep == TypeOK /\ [Next]_vars => TypeOK'
<1> SUFFICES ASSUME TypeOK, [Next]_vars PROVE TypeOK'
  OBVIOUS
<1>1. CASE Next
  <2>1. ServiceTypeOK'
    BY <1>1, NextIsRowStep, RowStepType, TypeOKParts
  <2>2. QueueTypeOK'
    BY <1>1, NextIsQueueCommand, QueueCommandType, TypeOKParts
  <2>3. PcTypeOK' /\ HistoryTypeOK'
    BY <1>1, NextPcType, NextHistoryType
  <2>4. QED
    <3>1. (TypeOK <=> ServiceTypeOK /\ QueueTypeOK /\ PcTypeOK /\ HistoryTypeOK)'
      BY TypeOKParts, PTL
    <3>2. QED
      BY <2>1, <2>2, <2>3, <3>1
<1>2. CASE UNCHANGED vars
  BY <1>2 DEF vars, rowVars, queueVars, procVars, history, TypeOK, ServiceTypeOK, QueueTypeOK
<1>3. QED
  BY <1>1, <1>2

(* Type correctness of the pipeline for every number of tasks, callers,      *)
(* workers, requeues and failures: in particular a worker past its claim     *)
(* always has a task, and the processing list never counts below zero.       *)
THEOREM TypeCorrect == Spec => []TypeOK
<1>1. Init => TypeOK
  BY DEF Init, TypeOK, ServiceInit, ServiceTypeOK, QueueInit, QueueTypeOK, LogSummaries,
         Statuses, CallerLabels, WorkerLabels, Procs
<1>2. TypeOK /\ [Next]_vars => TypeOK'
  BY TypeStep
<1>3. QED
  BY <1>1, <1>2, PTL DEF Spec

-------------------------------------------------------------------------------
(***************************************************************************)
(* Who executes a task.  Every step of the pipeline is, for the question    *)
(* who executes which task, one of six kinds (StepKinds).  From the kinds   *)
(* follow the ownership invariants and the refinement of TaskLifecycle.     *)
(* The last two sections are about the rows: what status, error code,       *)
(* result and event log promise of each other (RowInv, which rests on       *)
(* ownership), and what is known of cancellation requests (CancelInv).      *)
(***************************************************************************)

Ownership == OneExecutor /\ ExecutorOwnsTask /\ RunningHasExecutor

SameExecutors == \A w \in Workers, t \in Tasks : Executing(w, t)' <=> Executing(w, t)

OthersKeepRows(t) == \A u \in Tasks \ {t} : status'[u] = status[u] /\ err'[u] = err[u]

OrphansStay == \A t \in Tasks : orphaned[t] => orphaned'[t]

(* Nothing happens to any status. *)
Calm == SameExecutors /\ UNCHANGED <<status, err>>

(* A task nobody runs enters the queue: created, retried or clarified. *)
Enters(t) == /\ SameExecutors
             /\ status[t] \in {"none", "waiting_input", "failed"}
             /\ status' = [status EXCEPT ![t] = "queued"]
             /\ OthersKeepRows(t)

(* A task is cancelled from outside; a running one only by the timeout. *)
Withdrawn(t) == /\ SameExecutors
                /\ status[t] \in {"queued", "running", "waiting_input"}
                /\ status' = [status EXCEPT ![t] = "cancelled"]
                /\ status[t] = "running" => err'[t]
                /\ OthersKeepRows(t)

(* A worker that was not executing anything starts to execute t. *)
Claims(w, t) == /\ ~(pc[w] \in ExecLabels)
                /\ \A v \in Workers, u \in Tasks :
                     Executing(v, u)' <=> Executing(v, u) \/ (v = w /\ u = t)
                /\ status[t] = "queued"
                /\ status' = [status EXCEPT ![t] = "running"]
                /\ OthersKeepRows(t)

(* The worker executing t stops. *)
Stops(w, t) == /\ Executing(w, t)
               /\ \A v \in Workers, u \in Tasks :
                    Executing(v, u)' <=> Executing(v, u) /\ v # w

(* ... having moved t to the end of its attempt, or having lost it. *)
Settles(w, t) == /\ Stops(w, t)
                 /\ status[t] = "running"
                 /\ \E s \in ALLOWED_TRANSITIONS["running"] : status' = [status EXCEPT ![t] = s]
                 /\ OthersKeepRows(t)

Loses(w, t) == /\ Stops(w, t)
               /\ status[t] = "running" => orphaned'[t]
               /\ UNCHANGED <<status, err>>

StepKinds == /\ OrphansStay
             /\ \/ Calm
                \/ \E t \in Tasks : Enters(t) \/ Withdrawn(t)
                \/ \E w \in Workers, t \in Tasks : Claims(w, t) \/ Settles(w, t) \/ Loses(w, t)

------------------------------------------------------------------------------
(* What transition does to status and error code, allowed or not.            *)
LEMMA TransitionEffect ==
  ASSUME TypeOK, NEW t \in Tasks, NEW s \in TaskStatuses, NEW code \in BOOLEAN,
         Transition(t, s, code)
  PROVE  /\ OthersKeepRows(t)
         /\ s \notin ALLOWED_TRANSITIONS[status[t]] => UNCHANGED <<status, err>>
         /\ s \in ALLOWED_TRANSITIONS[status[t]]
              => status' = [status EXCEPT ![t] = s] /\ (code => err'[t])
<1> USE DEF TypeOK, ServiceTypeOK, OthersKeepRows
<1>1. CASE s \in ALLOWED_TRANSITIONS[status[t]]
  <2>1. /\ status' = [status EXCEPT ![t] = s]
        /\ err' = [err EXCEPT ![t] = err[t] \/ s = "failed" \/ code]
    BY <1>1 DEF Transition, SetStatus
  <2>2. code => err'[t]
    BY <2>1
  <2>3. QED
    BY <1>1, <2>1, <2>2
<1>2. CASE s \notin ALLOWED_TRANSITIONS[status[t]]
  BY <1>2 DEF Transition, rowVars
<1>3. QED
  BY <1>1, <1>2

(* The rows of the transition table the proofs use.                          *)
LEMMA TransitionTable ==
  /\ \A s \in Statuses : "running" \in ALLOWED_TRANSITIONS[s] <=> s = "queued"
  /\ \A s \in Statuses : "cancelled" \in ALLOWED_TRANSITIONS[s]
                           <=> s \in {"queued", "running", "waiting_input"}
  /\ ALLOWED_TRANSITIONS["running"] = {"waiting_input", "success", "failed", "cancelled"}
  /\ ALLOWED_TRANSITIONS["cancelled"] = {}
  BY DEF ALLOWED_TRANSITIONS, Statuses, TaskStatuses

(* A process that is no worker, or a worker that neither enters nor leaves   *)
(* the execution labels, changes no executor.                                *)
LEMMA MoveKeepsExecutors ==
  ASSUME TypeOK, NEW p \in Procs, NEW l, pc' = [pc EXCEPT ![p] = l],
         NEW a, arg' = [arg EXCEPT ![p] = a],
         p \in Workers => \/ pc[p] \notin ExecLabels /\ l \notin ExecLabels
                          \/ pc[p] \in ExecLabels /\ l \in ExecLabels /\ a = arg[p]
  PROVE  SameExecutors
<1>1. ASSUME NEW w \in Workers, NEW t \in Tasks PROVE Executing(w, t)' <=> Executing(w, t)
  <2>1. w \in Procs
    BY DEF Procs
  <2>2. CASE w = p
    BY <2>1, <2>2 DEF Executing, TypeOK
  <2>3. CASE w # p
    BY <2>1, <2>3 DEF Executing, TypeOK
  <2>4. QED
    BY <2>2, <2>3
<1>2. QED
  BY <1>1 DEF SameExecutors

(* The same when the process keeps its task.                                 *)
LEMMA GotoKeepsExecutors ==
  ASSUME TypeOK, NEW p \in Procs, NEW l, pc' = [pc EXCEPT ![p] = l], UNCHANGED arg,
         p \in Workers => (pc[p] \in ExecLabels <=> l \in ExecLabels)
  PROVE  SameExecutors
<1>1. arg' = [arg EXCEPT ![p] = arg[p]]
  BY DEF TypeOK
<1>2. QED
  BY <1>1, MoveKeepsExecutors

(* A worker that leaves the execution labels stops executing its task.       *)
LEMMA LeavingStops ==
  ASSUME TypeOK, NEW w \in Workers, NEW l, pc' = [pc EXCEPT ![w] = l],
         UNCHANGED arg \/ arg' = [arg EXCEPT ![w] = NoTask],
         pc[w] \in ExecLabels, l \notin ExecLabels
  PROVE  arg[w] \in Tasks /\ Stops(w, arg[w])
<1>1. w \in Procs /\ arg[w] \in Tasks
  BY DEF TypeOK, Procs, ExecLabels
<1>2. Executing(w, arg[w])
  BY DEF Executing
<1>3. ASSUME NEW v \in Workers, NEW u \in Tasks
      PROVE  Executing(v, u)' <=> Executing(v, u) /\ v # w
  <2>1. v \in Procs
    BY DEF Procs
  <2>2. CASE v = w
    BY <1>1, <2>2 DEF Executing, TypeOK
  <2>3. CASE v # w
    BY <1>1, <2>1, <2>3 DEF Executing, TypeOK
  <2>4. QED
    BY <2>2, <2>3
<1>4. QED
  BY <1>1, <1>2, <1>3 DEF Stops

------------------------------------------------------------------------------
(* The steps of a caller: only its commit touches a status.                  *)
LEMMA CallerKinds ==
  ASSUME TypeOK, NEW c \in Callers, CallerStep(c) PROVE StepKinds
<1>a. c \in Procs /\ c \notin Workers
  BY ProcsAssumption DEF Procs
<1> USE DEF OrphansStay, history, TypeOK, ServiceTypeOK
<1>1. ASSUME NEW t \in Tasks, CallSend(c, t) \/ CallCancel(c, t) \/ CallRequeue(c, t)
      PROVE  StepKinds
  <2>1. SameExecutors
    BY <1>a, <1>1, MoveKeepsExecutors DEF CallSend, CallCancel, CallRequeue, GotoWith
  <2>2. OrphansStay
    BY <1>1 DEF CallSend, CallCancel, CallRequeue
  <2>3. CASE CallSend(c, t) /\ UNCHANGED rowVars
    BY <2>1, <2>2, <2>3 DEF StepKinds, Calm, rowVars
  <2>4. CASE CallSend(c, t) /\ CreateFromMessage(t)
    <3>1. Enters(t)
      BY <2>1, <2>4 DEF CreateFromMessage, SetStatus, Enters, OthersKeepRows
    <3>2. QED
      BY <2>2, <3>1 DEF StepKinds
  <2>5. CASE CallCancel(c, t) /\ status[t] = "running"
    <3>1. UNCHANGED <<status, err>>
      BY <2>5 DEF CallCancel, Cancel
    <3>2. QED
      BY <2>1, <2>2, <3>1 DEF StepKinds, Calm
  <2>6. CASE CallCancel(c, t) /\ status[t] # "running"
    <3>1. Withdrawn(t)
      BY <2>1, <2>6 DEF CallCancel, Cancel, SetStatus, Withdrawn, OthersKeepRows
    <3>2. QED
      BY <2>2, <3>1 DEF StepKinds
  <2>7. CASE CallRequeue(c, t)
    <3>1. Enters(t)
      BY <2>1, <2>7 DEF CallRequeue, SubmitClarification, Retry, Requeue, SetStatus, Enters,
                        OthersKeepRows
    <3>2. QED
      BY <2>2, <3>1 DEF StepKinds
  <2>8. QED
    BY <1>1, <2>3, <2>4, <2>5, <2>6, <2>7 DEF CallSend
<1>2. CASE RequestCancel(c) \/ ClearCancel(c) \/ CallerRedisFails(c) \/ CallerCrash(c)
  <2>1. SameExecutors
    BY <1>a, <1>2, MoveKeepsExecutors, GotoKeepsExecutors
       DEF RequestCancel, ClearCancel, CallerRedisFails, CallerCrash, Rest, Goto, GotoWith
  <2>2. QED
    BY <1>2, <2>1 DEF RequestCancel, ClearCancel, CallerRedisFails, CallerCrash, StepKinds, Calm,
                      rowVars
<1>3. QED
  BY <1>1, <1>2 DEF CallerStep

(* Enqueueing touches no row and no executor.                                *)
LEMMA EnqueueKinds ==
  ASSUME TypeOK, NEW p \in Procs, EnqueueStep(p) PROVE StepKinds
<1>1. /\ pc[p] \notin ExecLabels
      /\ UNCHANGED <<rowVars, history>>
      /\ \E l \in {"idle", "recover", "lrem", "lpush"} : pc' = [pc EXCEPT ![p] = l]
      /\ UNCHANGED arg \/ arg' = [arg EXCEPT ![p] = NoTask]
  BY DEF EnqueueStep, EnqueueSet, EnqueueLrem, EnqueueLpush, EnqueueFails, AfterEnqueue, Goto,
         GotoWith, Rest, EnqueueLabels, ExecLabels
<1>2. SameExecutors
  BY <1>1, MoveKeepsExecutors, GotoKeepsExecutors DEF ExecLabels
<1>3. QED
  BY <1>1, <1>2 DEF StepKinds, Calm, OrphansStay, rowVars, history

(* Recovery executes nothing; expiring a listed task may withdraw it.        *)
LEMMA RecoveryKinds ==
  ASSUME TypeOK, NEW w \in Workers, RecoveryStep(w) PROVE StepKinds
<1>a. w \in Procs
  BY DEF Procs
<1>1. ASSUME NEW t \in Tasks, ExpireListed(w, t) PROVE StepKinds
  <2>1. SameExecutors /\ OrphansStay
    BY <1>1 DEF ExpireListed, SameExecutors, Executing, OrphansStay, history
  <2>2. Transition(t, "cancelled", TRUE) /\ "cancelled" \in TaskStatuses /\ TRUE \in BOOLEAN
    BY <1>1 DEF ExpireListed, TaskStatuses
  <2>3. status[t] \in Statuses
    BY DEF TypeOK, ServiceTypeOK
  <2>4. CASE "cancelled" \in ALLOWED_TRANSITIONS[status[t]]
    <3>1. Withdrawn(t)
      BY <2>1, <2>2, <2>3, <2>4, TransitionEffect, TransitionTable DEF Withdrawn
    <3>2. QED
      BY <2>1, <3>1 DEF StepKinds
  <2>5. CASE "cancelled" \notin ALLOWED_TRANSITIONS[status[t]]
    <3>1. UNCHANGED <<status, err>>
      BY <2>2, <2>5, TransitionEffect
    <3>2. QED
      BY <2>1, <3>1 DEF StepKinds, Calm
  <2>6. QED
    BY <2>4, <2>5
<1>2. ASSUME NEW t \in Tasks, EnqueueListed(w, t) PROVE StepKinds
  <2>1. SameExecutors
    <3>1. pc[w] \notin ExecLabels /\ "set" \notin ExecLabels
      BY <1>2 DEF EnqueueListed, ExecLabels
    <3>2. pc' = [pc EXCEPT ![w] = "set"] /\ arg' = [arg EXCEPT ![w] = t]
      BY <1>2 DEF EnqueueListed
    <3>3. QED
      BY <1>a, <3>1, <3>2, MoveKeepsExecutors
  <2>2. QED
    BY <1>2, <2>1 DEF EnqueueListed, StepKinds, Calm, OrphansStay, rowVars, history
<1>3. CASE ListExpired(w) \/ ListQueued(w)
  <2>1. SameExecutors
    BY <1>a, <1>3, GotoKeepsExecutors DEF ListExpired, ListQueued, ExecLabels
  <2>2. QED
    BY <1>3, <2>1 DEF ListExpired, ListQueued, StepKinds, Calm, OrphansStay, rowVars, history
<1>4. CASE RecoveryDone(w)
  <2>1. SameExecutors
    <3>1. pc[w] \notin ExecLabels /\ "idle" \notin ExecLabels
      BY <1>4 DEF RecoveryDone, ExecLabels
    <3>2. pc' = [pc EXCEPT ![w] = "idle"] /\ arg' = [arg EXCEPT ![w] = NoTask]
      BY <1>4 DEF RecoveryDone, Rest, GotoWith
    <3>3. QED
      BY <1>a, <3>1, <3>2, MoveKeepsExecutors
  <2>2. QED
    BY <1>4, <2>1 DEF RecoveryDone, StepKinds, Calm, OrphansStay, rowVars, history
<1>5. QED
  BY <1>1, <1>2, <1>3, <1>4 DEF RecoveryStep

(* A worker that ends its attempt with a transition settles the task it      *)
(* still owns, or loses one that was withdrawn.                              *)
LEMMA EndingKinds ==
  ASSUME TypeOK, ExecutorOwnsTask, NEW w \in Workers, pc[w] \in ExecLabels,
         NEW s \in ALLOWED_TRANSITIONS["running"], NEW code \in BOOLEAN,
         Transition(arg[w], s, code), pc' = [pc EXCEPT ![w] = "ack"], UNCHANGED arg,
         UNCHANGED history
  PROVE  StepKinds
<1> DEFINE t == arg[w]
<1>1. t \in Tasks /\ Stops(w, t)
  <2>1. "ack" \notin ExecLabels
    BY DEF ExecLabels
  <2>2. QED
    BY <2>1, LeavingStops
<1>2. OrphansStay
  BY DEF OrphansStay, history
<1>3. s \in TaskStatuses
  BY TransitionTable DEF TaskStatuses
<1>4. status[t] = "running" \/ status[t] = "cancelled"
  BY <1>1 DEF ExecutorOwnsTask, TimedOut, Stops
<1>5. CASE status[t] = "running"
  <2>1. status' = [status EXCEPT ![t] = s] /\ OthersKeepRows(t)
    BY <1>1, <1>3, <1>5, TransitionEffect
  <2>2. Settles(w, t)
    BY <1>1, <1>5, <2>1 DEF Settles
  <2>3. QED
    BY <1>1, <1>2, <2>2 DEF StepKinds
<1>6. CASE status[t] = "cancelled"
  <2>1. UNCHANGED <<status, err>>
    BY <1>1, <1>3, <1>6, TransitionEffect, TransitionTable
  <2>2. Loses(w, t)
    BY <1>1, <1>6, <2>1 DEF Loses
  <2>3. QED
    BY <1>1, <1>2, <2>2 DEF StepKinds
<1>7. QED
  BY <1>4, <1>5, <1>6

(* While it executes, a worker keeps its task; its last transition ends the  *)
(* attempt.                                                                  *)
LEMMA ExecKinds ==
  ASSUME TypeOK, ExecutorOwnsTask, NEW w \in Workers, ExecStep(w) PROVE StepKinds
<1>a. w \in Procs
  BY DEF Procs
<1>1. CASE ExecNode(w)
  BY <1>1 DEF ExecNode, AppendNodeEvent, procVars, history, StepKinds, Calm, SameExecutors,
              Executing, OrphansStay
<1>2. CASE CheckCancelled(w) \/ ExecCheckCancelled(w) \/ ExecRaise(w)
  <2>1. /\ pc[w] \in ExecLabels
        /\ \E l \in ExecLabels : pc' = [pc EXCEPT ![w] = l]
        /\ UNCHANGED <<rowVars, arg, history>>
    BY <1>2 DEF CheckCancelled, ExecCheckCancelled, ExecRaise, Check, AfterCheck, Goto, ExecLabels
  <2>2. SameExecutors
    BY <1>a, <2>1, GotoKeepsExecutors
  <2>3. QED
    BY <2>1, <2>2 DEF StepKinds, Calm, OrphansStay, rowVars, history
<1>3. ASSUME NEW s \in {"waiting_input", "success"}, ExecReturn(w, s) PROVE StepKinds
  <2>1. /\ pc[w] \in ExecLabels /\ "check2" \in ExecLabels
        /\ pc' = [pc EXCEPT ![w] = "check2"]
        /\ UNCHANGED <<status, err, arg, history>>
    BY <1>3 DEF ExecReturn, PersistResult, rowVars, ExecLabels
  <2>2. SameExecutors
    BY <1>a, <2>1, GotoKeepsExecutors
  <2>3. QED
    BY <2>1, <2>2 DEF StepKinds, Calm, OrphansStay, history
<1>4. CASE Finish(w)
  <2>1. CASE UNCHANGED rowVars /\ Goto(w, "fail")
    <3>1. pc[w] \in ExecLabels /\ "fail" \in ExecLabels
      BY <1>4 DEF Finish, ExecLabels
    <3>2. SameExecutors
      BY <1>a, <2>1, <3>1, GotoKeepsExecutors DEF Goto
    <3>3. QED
      BY <1>4, <2>1, <3>2 DEF Finish, StepKinds, Calm, OrphansStay, rowVars, history
  <2>2. CASE Transition(arg[w], outcome[w], FALSE) /\ Goto(w, "ack")
    <3>1. outcome[w] \in ALLOWED_TRANSITIONS["running"]
      BY TransitionTable DEF TypeOK
    <3>2. QED
      BY <1>4, <2>2, <3>1, EndingKinds DEF Finish, Goto, ExecLabels
  <2>3. QED
    BY <1>4, <2>1, <2>2 DEF Finish
<1>5. CASE FinishCancelled(w)
  BY <1>5, EndingKinds, TransitionTable DEF FinishCancelled, Goto, ExecLabels
<1>6. CASE FinishFailed(w)
  BY <1>6, EndingKinds, TransitionTable DEF FinishFailed, Goto, ExecLabels
<1>7. QED
  BY <1>1, <1>2, <1>3, <1>4, <1>5, <1>6 DEF ExecStep

(* A worker claims a task only from the queue: a second delivery of the same *)
(* task finds it running and claims nothing.                                 *)
LEMMA ClaimKinds ==
  ASSUME TypeOK, NEW w \in Workers, Claim(w) PROVE StepKinds
<1> DEFINE t == arg[w]
<1>1. w \in Procs /\ t \in Tasks /\ pc[w] \notin ExecLabels
  BY DEF Claim, TypeOK, Procs, ExecLabels
<1>2. OrphansStay
  BY DEF Claim, OrphansStay, history
<1>3. Transition(t, "running", FALSE) /\ "running" \in TaskStatuses /\ FALSE \in BOOLEAN
  BY DEF Claim, TaskStatuses
<1>4. CASE status[t] = "queued"
  <2>1. pc' = [pc EXCEPT ![w] = "check1"] /\ UNCHANGED arg
    BY <1>4 DEF Claim, Goto
  <2>2. ASSUME NEW v \in Workers, NEW u \in Tasks
        PROVE  Executing(v, u)' <=> Executing(v, u) \/ (v = w /\ u = t)
    <3>1. v \in Procs
      BY DEF Procs
    <3>2. CASE v = w
      BY <1>1, <2>1, <3>1, <3>2 DEF Executing, TypeOK, ExecLabels
    <3>3. CASE v # w
      BY <1>1, <2>1, <3>1, <3>3 DEF Executing, TypeOK
    <3>4. QED
      BY <3>2, <3>3
  <2>3. status' = [status EXCEPT ![t] = "running"] /\ OthersKeepRows(t)
    BY <1>1, <1>3, <1>4, TransitionEffect, TransitionTable DEF TypeOK, ServiceTypeOK
  <2>4. Claims(w, t)
    BY <1>1, <1>4, <2>2, <2>3 DEF Claims
  <2>5. QED
    BY <1>1, <1>2, <2>4 DEF StepKinds
<1>5. CASE status[t] # "queued"
  <2>1. UNCHANGED <<status, err>>
    BY <1>1, <1>3, <1>5, TransitionEffect, TransitionTable DEF TypeOK, ServiceTypeOK
  <2>2. SameExecutors
    BY <1>1, <1>5, GotoKeepsExecutors DEF Claim, Goto, ExecLabels
  <2>3. QED
    BY <1>2, <2>1, <2>2 DEF StepKinds, Calm
<1>6. QED
  BY <1>4, <1>5

(* A worker that raises or crashes orphans the task it was executing; the    *)
(* other queue steps concern no execution.                                   *)
LEMMA QueueKinds ==
  ASSUME TypeOK, NEW w \in Workers, QueueStep(w) PROVE StepKinds
<1>a. w \in Procs
  BY DEF Procs
<1>1. CASE Load(w)
  <2>1. arg[w] \in Tasks /\ pc[w] \notin ExecLabels
    BY <1>1 DEF Load, TypeOK, Procs, ExecLabels
  <2>2. PICK l \in {"ack", "claim"} : pc' = [pc EXCEPT ![w] = l] /\ UNCHANGED arg
    BY <1>1 DEF Load, Goto
  <2>3. SameExecutors
    BY <1>a, <2>1, <2>2, GotoKeepsExecutors DEF ExecLabels
  <2>4. OrphansStay
    BY <1>1 DEF Load, OrphansStay, history
  <2>5. CASE UNCHANGED rowVars
    BY <2>3, <2>4, <2>5 DEF StepKinds, Calm, rowVars
  <2>6. CASE status[arg[w]] = "queued" /\ Transition(arg[w], "cancelled", FALSE)
    <3>1. "cancelled" \in TaskStatuses /\ FALSE \in BOOLEAN
      BY DEF TaskStatuses
    <3>2. Withdrawn(arg[w])
      BY <2>1, <2>3, <2>6, <3>1, TransitionEffect, TransitionTable
         DEF Withdrawn, TypeOK, ServiceTypeOK
    <3>3. QED
      BY <2>1, <2>4, <3>2 DEF StepKinds
  <2>7. QED
    BY <1>1, <2>5, <2>6 DEF Load
<1>2. CASE Claim(w)
  BY <1>2, ClaimKinds
<1>3. CASE Reserve(w)
  <2>1. SameExecutors
    <3>1. pc[w] \notin ExecLabels /\ "load" \notin ExecLabels
      BY <1>3 DEF Reserve, ExecLabels
    <3>2. pc' = [pc EXCEPT ![w] = "load"] /\ arg' = [arg EXCEPT ![w] = Head(ready)]
      BY <1>3 DEF Reserve, GotoWith
    <3>3. QED
      BY <1>a, <3>1, <3>2, MoveKeepsExecutors
  <2>2. QED
    BY <1>3, <2>1 DEF Reserve, StepKinds, Calm, OrphansStay, rowVars, history
<1>4. CASE Acknowledge(w) \/ Unmark(w) \/ Release(w) \/ ReleasePush(w)
           \/ WorkerRedisFails(w) \/ WorkerStart(w)
  <2>1. /\ pc[w] \notin ExecLabels
        /\ \E l \in {"unmark", "idle", "down", "requeue"} : pc' = [pc EXCEPT ![w] = l]
        /\ UNCHANGED arg \/ arg' = [arg EXCEPT ![w] = NoTask]
        /\ UNCHANGED <<rowVars, history>>
    BY <1>4 DEF Acknowledge, Unmark, Release, ReleasePush, WorkerRedisFails, WorkerStart, Goto,
                Rest, GotoWith, ExecLabels
  <2>2. SameExecutors
    BY <1>a, <2>1, MoveKeepsExecutors, GotoKeepsExecutors DEF ExecLabels
  <2>3. QED
    BY <2>1, <2>2 DEF StepKinds, Calm, OrphansStay, rowVars, history
<1>5. CASE ProcessRaises(w) \/ WorkerCrash(w)
  <2>1. PICK l \in {"release", "down"} : pc' = [pc EXCEPT ![w] = l]
    BY <1>5 DEF ProcessRaises, WorkerCrash, Goto
  <2>2. /\ UNCHANGED arg \/ arg' = [arg EXCEPT ![w] = NoTask]
        /\ l \notin ExecLabels
        /\ UNCHANGED <<status, err>>
        /\ orphaned' = IF pc[w] \in ExecLabels
                        THEN [orphaned EXCEPT ![arg[w]] = TRUE] ELSE orphaned
    BY <1>5 DEF ProcessRaises, WorkerCrash, Goto, Orphan, rowVars, ExecLabels
  <2>3. OrphansStay
    BY <2>2 DEF OrphansStay, TypeOK
  <2>4. CASE pc[w] \in ExecLabels
    <3>1. arg[w] \in Tasks /\ Stops(w, arg[w])
      BY <2>1, <2>2, <2>4, LeavingStops
    <3>2. orphaned'[arg[w]]
      BY <2>2, <2>4, <3>1 DEF TypeOK
    <3>3. Loses(w, arg[w])
      BY <2>2, <3>1, <3>2 DEF Loses
    <3>4. QED
      BY <2>3, <3>1, <3>3 DEF StepKinds
  <2>5. CASE pc[w] \notin ExecLabels
    <3>1. SameExecutors
      BY <1>a, <2>1, <2>2, <2>5, MoveKeepsExecutors, GotoKeepsExecutors
    <3>2. QED
      BY <2>2, <2>3, <3>1 DEF StepKinds, Calm
  <2>6. QED
    BY <2>4, <2>5
<1>6. QED
  BY <1>1, <1>2, <1>3, <1>4, <1>5 DEF QueueStep

(* Every step of the pipeline is of one of the six kinds.                    *)
LEMMA NextKinds == TypeOK /\ ExecutorOwnsTask /\ [Next]_vars => StepKinds
<1> SUFFICES ASSUME TypeOK, ExecutorOwnsTask, [Next]_vars PROVE StepKinds
  OBVIOUS
<1>1. ASSUME NEW t \in Tasks, MarkerExpires(t) \/ CancelKeyExpires(t) PROVE StepKinds
  BY <1>1 DEF MarkerExpires, CancelKeyExpires, StepKinds, Calm, SameExecutors, Executing,
              OrphansStay, rowVars, procVars, history
<1>2. CASE UNCHANGED vars
  BY <1>2 DEF vars, StepKinds, Calm, SameExecutors, Executing, OrphansStay, rowVars, procVars,
              history
<1>3. QED
  BY <1>1, <1>2, CallerKinds, EnqueueKinds, RecoveryKinds, ExecKinds, QueueKinds DEF Next

------------------------------------------------------------------------------
(* The ownership invariants are preserved together: a claim needs a queued   *)
(* task, which by ExecutorOwnsTask nobody executes.                          *)
LEMMA OwnershipStep == TypeOK /\ Ownership /\ StepKinds /\ TypeOK' => Ownership'
<1> SUFFICES ASSUME TypeOK, Ownership, StepKinds, TypeOK' PROVE Ownership'
  OBVIOUS
<1> USE DEF Ownership, OneExecutor, ExecutorOwnsTask, RunningHasExecutor, TimedOut
<1>a. /\ status \in [Tasks -> Statuses] /\ status' \in [Tasks -> Statuses]
      /\ OrphansStay
  BY DEF TypeOK, ServiceTypeOK, StepKinds
<1>1. CASE Calm
  BY <1>a, <1>1 DEF Calm, SameExecutors, OrphansStay
<1>2. ASSUME NEW t \in Tasks, Enters(t) PROVE Ownership'
  <2>1. \A w \in Workers : ~Executing(w, t)
    BY <1>2 DEF Enters
  <2>2. OneExecutor' /\ ExecutorOwnsTask'
    BY <1>a, <1>2, <2>1 DEF Enters, SameExecutors, OthersKeepRows
  <2>3. RunningHasExecutor'
    BY <1>a, <1>2 DEF Enters, SameExecutors, OthersKeepRows, OrphansStay
  <2>4. QED
    BY <2>2, <2>3
<1>3. ASSUME NEW t \in Tasks, Withdrawn(t) PROVE Ownership'
  <2>1. \A w \in Workers : Executing(w, t) => err'[t]
    BY <1>3 DEF Withdrawn
  <2>2. OneExecutor' /\ ExecutorOwnsTask'
    BY <1>a, <1>3, <2>1 DEF Withdrawn, SameExecutors, OthersKeepRows
  <2>3. RunningHasExecutor'
    BY <1>a, <1>3 DEF Withdrawn, SameExecutors, OthersKeepRows, OrphansStay
  <2>4. QED
    BY <2>2, <2>3
<1>4. ASSUME NEW w \in Workers, NEW t \in Tasks, Claims(w, t) PROVE Ownership'
  <2>1. \A v \in Workers : ~Executing(v, t)
    BY <1>4 DEF Claims
  <2>2. \A u \in Tasks : ~Executing(w, u)
    BY <1>4 DEF Claims, Executing
  <2>3. OneExecutor'
    BY <1>4, <2>1, <2>2 DEF Claims
  <2>4. ExecutorOwnsTask'
    BY <1>a, <1>4 DEF Claims, OthersKeepRows
  <2>5. RunningHasExecutor'
    BY <1>a, <1>4 DEF Claims, OthersKeepRows, OrphansStay
  <2>6. QED
    BY <2>3, <2>4, <2>5
<1>5. ASSUME NEW w \in Workers, NEW t \in Tasks, Settles(w, t) \/ Loses(w, t)
      PROVE  Ownership'
  <2>1. Stops(w, t)
    BY <1>5 DEF Settles, Loses
  <2>2. OneExecutor'
    BY <2>1 DEF Stops
  <2>3. \A v \in Workers : ~Executing(v, t)'
    BY <2>1 DEF Stops
  <2>4. \A u \in Tasks \ {t} : status'[u] = status[u] /\ err'[u] = err[u]
    BY <1>5 DEF Settles, Loses, OthersKeepRows
  <2>5. ExecutorOwnsTask'
    BY <2>1, <2>3, <2>4 DEF Stops
  <2>6. ASSUME NEW u \in Tasks, status'[u] = "running"
        PROVE  orphaned'[u] \/ \E v \in Workers : Executing(v, u)'
    <3>1. CASE u = t
      BY <1>5, <1>a, <2>6, <3>1, TransitionTable DEF Settles, Loses
    <3>2. CASE u # t
      <4>1. \A v \in Workers : Executing(v, u) => v # w
        BY <2>1, <3>2 DEF Stops, Executing
      <4>2. QED
        BY <1>a, <2>1, <2>4, <2>6, <3>2, <4>1 DEF Stops, OrphansStay
    <3>3. QED
      BY <3>1, <3>2
  <2>7. QED
    BY <2>2, <2>5, <2>6
<1>6. QED
  BY <1>1, <1>2, <1>3, <1>4, <1>5 DEF StepKinds

(* The three ownership invariants hold in every reachable state, for every   *)
(* number of workers and tasks and whatever the queue delivers.              *)
THEOREM OwnershipInvariant == Spec => [](TypeOK /\ Ownership)
<1>1. Init => TypeOK /\ Ownership
  <2>1. Init => TypeOK
    BY DEF Init, TypeOK, ServiceInit, ServiceTypeOK, QueueInit, QueueTypeOK, LogSummaries,
           Statuses, CallerLabels, WorkerLabels, Procs
  <2>2. Init => Ownership
    BY DEF Init, ServiceInit, Ownership, OneExecutor, ExecutorOwnsTask, RunningHasExecutor,
           Executing, ExecLabels, Procs
  <2>3. QED
    BY <2>1, <2>2
<1>2. TypeOK /\ Ownership /\ [Next]_vars => (TypeOK /\ Ownership)'
  BY TypeStep, NextKinds, OwnershipStep DEF Ownership
<1>3. QED
  BY <1>1, <1>2, PTL DEF Spec

(* No two workers ever execute the same task.                                *)
THEOREM NoDoubleExecution == Spec => []OneExecutor
  BY OwnershipInvariant, PTL DEF Ownership

(* A worker executes only a running task or one the timeout took from it.    *)
THEOREM ExecutorsOwnTheirTasks == Spec => []ExecutorOwnsTask
  BY OwnershipInvariant, PTL DEF Ownership

(* A running task has an executor or was orphaned by the loss of one.        *)
THEOREM RunningTasksAreOwned == Spec => []RunningHasExecutor
  BY OwnershipInvariant, PTL DEF Ownership

------------------------------------------------------------------------------
(* Under the invariants, a step of each kind is a step of TaskLifecycle.     *)
LEMMA KindsRefine ==
  TypeOK /\ Ownership /\ StepKinds => LC!Next \/ UNCHANGED <<status, holders>>
<1> SUFFICES ASSUME TypeOK, Ownership, StepKinds
             PROVE  LC!Next \/ UNCHANGED <<status, holders>>
  OBVIOUS
<1>a. status \in [Tasks -> Statuses]
  BY DEF TypeOK, ServiceTypeOK
<1>b. ASSUME SameExecutors PROVE holders' = holders
  BY <1>b DEF SameExecutors, holders
<1>1. CASE Calm
  BY <1>1, <1>b DEF Calm
<1>2. ASSUME NEW t \in Tasks, Enters(t) PROVE LC!Next
  <2>1. holders' = holders
    BY <1>2, <1>b DEF Enters
  <2>2. LC!Submit(t) \/ LC!Requeue(t)
    BY <1>2, <2>1 DEF Enters, LC!Submit, LC!Requeue, LC!Move
  <2>3. QED
    BY <2>2 DEF LC!Next
<1>3. ASSUME NEW t \in Tasks, Withdrawn(t) PROVE LC!Next
  <2>1. holders' = holders
    BY <1>3, <1>b DEF Withdrawn
  <2>2. LC!Withdraw(t)
    BY <1>3, <2>1 DEF Withdrawn, LC!Withdraw, LC!Move
  <2>3. QED
    BY <2>2 DEF LC!Next
<1>4. ASSUME NEW w \in Workers, NEW t \in Tasks, Claims(w, t) PROVE LC!Next
  <2>1. holders[t] = {}
    BY <1>4 DEF Claims, Ownership, ExecutorOwnsTask, TimedOut, holders
  <2>2. holders' = [holders EXCEPT ![t] = {w}]
    <3>1. holders' = [u \in Tasks |-> {v \in Workers : Executing(v, u)'}]
      BY DEF holders
    <3>2. ASSUME NEW u \in Tasks
          PROVE  {v \in Workers : Executing(v, u)'} = IF u = t THEN {w} ELSE holders[u]
      BY <1>4, <2>1 DEF Claims, holders
    <3>3. QED
      BY <3>1, <3>2 DEF holders
  <2>3. LC!Claim(t, w)
    BY <1>4, <2>1, <2>2 DEF Claims, LC!Claim, LC!Move
  <2>4. QED
    BY <2>3 DEF LC!Next
<1>5. ASSUME NEW w \in Workers, NEW t \in Tasks, Settles(w, t) \/ Loses(w, t) PROVE LC!Next
  <2>1. Stops(w, t)
    BY <1>5 DEF Settles, Loses
  <2>2. holders[t] = {w}
    BY <2>1 DEF Stops, Ownership, OneExecutor, holders
  <2>3. holders' = [holders EXCEPT ![t] = {}]
    <3>1. holders' = [u \in Tasks |-> {v \in Workers : Executing(v, u)'}]
      BY DEF holders
    <3>2. ASSUME NEW u \in Tasks
          PROVE  {v \in Workers : Executing(v, u)'} = IF u = t THEN {} ELSE holders[u]
      <4>1. CASE u = t
        BY <2>1, <2>2, <4>1 DEF Stops, holders
      <4>2. CASE u # t
        <5>1. ~Executing(w, u)
          BY <2>1, <4>2 DEF Stops, Executing
        <5>2. QED
          BY <2>1, <4>2, <5>1 DEF Stops, holders
      <4>3. QED
        BY <4>1, <4>2
    <3>3. QED
      BY <3>1, <3>2 DEF holders
  <2>4. LC!Settle(t, w)
    <3>a. LC!ALLOWED_TRANSITIONS = ALLOWED_TRANSITIONS
      BY DEF LC!ALLOWED_TRANSITIONS, LC!Statuses, LC!TaskStatuses, ALLOWED_TRANSITIONS, Statuses,
             TaskStatuses
    <3>1. CASE Settles(w, t)
      BY <2>2, <2>3, <3>a, <3>1 DEF Settles, LC!Settle, LC!Move
    <3>2. CASE Loses(w, t)
      BY <2>2, <2>3, <3>2 DEF Loses, LC!Settle
    <3>3. QED
      BY <1>5, <3>1, <3>2
  <2>5. QED
    BY <2>4 DEF LC!Next
<1>6. QED
  BY <1>1, <1>2, <1>3, <1>4, <1>5 DEF StepKinds

(* The pipeline, with its queue, markers, retries, cancellations, failures   *)
(* and crashes, implements the abstract task lifecycle.                      *)
THEOREM PipelineImplementsLifecycle == Spec => Lifecycle
<1>1. Init => LC!Init
  BY DEF Init, ServiceInit, LC!Init, holders, Executing, ExecLabels, Procs
<1>2. TypeOK /\ Ownership /\ [Next]_vars => [LC!Next]_(LC!vars)
  BY NextKinds, KindsRefine DEF Ownership, LC!vars
<1>3. QED
  BY <1>1, <1>2, OwnershipInvariant, PTL DEF Spec, Lifecycle, LC!Spec


------------------------------------------------------------------------------
(* What the rows promise of each other: the error code goes with the status, *)
(* success with a result, and a queued task with no cancel request.           *)
RowInv == /\ SuccessIsComplete
          /\ QueuedNotCancelRequested
          /\ LogMatchesRow
          /\ \A t \in Tasks : /\ err[t] => status[t] \in {"failed", "cancelled"}
                              /\ status[t] = "none" => ~cancelReq[t]

(* The same of one task, of which a step on another task changes nothing.     *)
RowOk(t) ==
  /\ status[t] = "success" => result[t] /\ ~err[t]
  /\ status[t] \in {"none", "queued"} => ~cancelReq[t]
  /\ ~TimedOut(t) => /\ log[t].last = status[t]
                     /\ log[t].closed <=> status[t] \in TERMINAL_TASK_STATUSES
  /\ err[t] => status[t] \in {"failed", "cancelled"}

(* RowInv speaks of each task on its own.                                     *)
LEMMA RowsAreOk == RowInv <=> \A t \in Tasks : RowOk(t)
  BY DEF RowInv, RowOk, SuccessIsComplete, QueuedNotCancelRequested, LogMatchesRow

SameRow(t) == /\ status'[t] = status[t] /\ cancelReq'[t] = cancelReq[t] /\ err'[t] = err[t]
              /\ result'[t] = result[t] /\ log'[t] = log[t]

(* A row nobody writes stays right.                                           *)
LEMMA SameRowOk == ASSUME NEW t, RowOk(t), SameRow(t) PROVE RowOk(t)'
  BY DEF SameRow, RowOk, TimedOut

(* A status written with its event.                                           *)
LEMMA StatusWritten ==
  ASSUME TypeOK, NEW t \in Tasks, NEW s \in Statuses, SetStatus(t, s)
  PROVE  /\ status'[t] = s /\ \A u \in Tasks \ {t} : status'[u] = status[u] /\ log'[u] = log[u]
         /\ log'[t].last = s
         /\ log'[t].closed <=> s \in TERMINAL_TASK_STATUSES
<1> DEFINE e == [last |-> s, closed |-> s \in TERMINAL_TASK_STATUSES]
<1>1. log' = [log EXCEPT ![t] = e] /\ status' = [status EXCEPT ![t] = s]
  BY DEF SetStatus, AppendStatus
<1>2. e.last = s /\ (e.closed <=> s \in TERMINAL_TASK_STATUSES)
  OBVIOUS
<1> HIDE DEF e
<1>3. log'[t] = e /\ status'[t] = s
  BY <1>1 DEF TypeOK, ServiceTypeOK
<1>4. \A u \in Tasks \ {t} : status'[u] = status[u] /\ log'[u] = log[u]
  BY <1>1 DEF TypeOK, ServiceTypeOK
<1> QED
  BY <1>2, <1>3, <1>4

LEMMA RowOperation ==
  ASSUME TypeOK, ExecutorOwnsTask, RowInv, RowStep
  PROVE  RowInv'
<1> SUFFICES \A u \in Tasks : RowOk(u)'
  <2>1. (RowInv <=> \A t \in Tasks : RowOk(t))'
    BY RowsAreOk, PTL
  <2> QED
    BY <2>1
<1>a. \A u \in Tasks : RowOk(u)
  BY RowsAreOk
<1>b. "queued" \in Statuses /\ "cancelled" \in Statuses /\ Targets \subseteq Statuses
  BY DEF Statuses, TaskStatuses, Targets
<1>1. CASE UNCHANGED rowVars
  BY <1>a, <1>1, SameRowOk DEF rowVars, SameRow
<1>2. ASSUME NEW t \in Tasks, \A u \in Tasks \ {t} : SameRow(u), RowOk(t)'
      PROVE  \A u \in Tasks : RowOk(u)'
  BY <1>a, <1>2, SameRowOk
<1>3. ASSUME NEW t \in Tasks, CreateFromMessage(t)
      PROVE  \A u \in Tasks : RowOk(u)'
  <2>1. /\ status[t] = "none" /\ SetStatus(t, "queued")
        /\ UNCHANGED <<cancelReq, err, result>>
    BY <1>3 DEF CreateFromMessage
  <2>2. RowOk(t)'
    BY <1>a, <1>b, <2>1, StatusWritten DEF RowOk, TERMINAL_TASK_STATUSES
  <2>3. \A u \in Tasks \ {t} : SameRow(u)
    BY <1>b, <2>1, StatusWritten DEF SameRow
  <2> QED
    BY <1>2, <2>2, <2>3
<1>4. ASSUME NEW t \in Tasks, Cancel(t)
      PROVE  \A u \in Tasks : RowOk(u)'
  <2>1. /\ status[t] \in {"queued", "running", "waiting_input"}
        /\ cancelReq' = [cancelReq EXCEPT ![t] = TRUE]
        /\ UNCHANGED <<err, result>>
    BY <1>4 DEF Cancel
  <2>2. \A u \in Tasks \ {t} : cancelReq'[u] = cancelReq[u]
    BY <2>1 DEF TypeOK, ServiceTypeOK
  <2>3. CASE status[t] = "running"
    <3>1. AppendStatus(t, "running", FALSE) /\ UNCHANGED status
      BY <1>4, <2>3 DEF Cancel
    <3>2. \A u \in Tasks \ {t} : SameRow(u)
      BY <2>1, <2>2, <3>1 DEF SameRow, AppendStatus, TypeOK, ServiceTypeOK
    <3>3. log'[t].last = "running" /\ ~log'[t].closed
      BY <3>1 DEF AppendStatus, TypeOK, ServiceTypeOK
    <3>4. RowOk(t)'
      BY <1>a, <2>1, <2>3, <3>1, <3>3 DEF RowOk, TERMINAL_TASK_STATUSES
    <3> QED
      BY <1>2, <3>2, <3>4
  <2>4. CASE status[t] # "running"
    <3>1. SetStatus(t, "cancelled")
      BY <1>4, <2>4 DEF Cancel
    <3>2. \A u \in Tasks \ {t} : SameRow(u)
      BY <1>b, <2>1, <2>2, <3>1, StatusWritten DEF SameRow
    <3>3. RowOk(t)'
      BY <1>b, <3>1, StatusWritten DEF RowOk
    <3> QED
      BY <1>2, <3>2, <3>3
  <2> QED
    BY <2>3, <2>4
<1>5. ASSUME NEW t \in Tasks, SubmitClarification(t) \/ Retry(t)
      PROVE  \A u \in Tasks : RowOk(u)'
  <2>1. /\ SetStatus(t, "queued")
        /\ cancelReq' = [cancelReq EXCEPT ![t] = FALSE]
        /\ UNCHANGED result
    BY <1>5 DEF SubmitClarification, Retry, Requeue
  <2>2. ~err'[t] /\ \A u \in Tasks \ {t} : err'[u] = err[u]
    <3>1. CASE SubmitClarification(t)
      BY <1>a, <3>1 DEF SubmitClarification, RowOk
    <3>2. CASE Retry(t)
      BY <3>2 DEF Retry, TypeOK, ServiceTypeOK
    <3> QED
      BY <1>5, <3>1, <3>2
  <2>3. ~cancelReq'[t] /\ \A u \in Tasks \ {t} : cancelReq'[u] = cancelReq[u]
    BY <2>1 DEF TypeOK, ServiceTypeOK
  <2>4. RowOk(t)'
    BY <1>b, <2>1, <2>2, <2>3, StatusWritten DEF RowOk
  <2>5. \A u \in Tasks \ {t} : SameRow(u)
    BY <1>b, <2>1, <2>2, <2>3, StatusWritten DEF SameRow
  <2> QED
    BY <1>2, <2>4, <2>5
<1>6. ASSUME NEW t \in Tasks, NEW w \in Workers, Executing(w, t),
             AppendNodeEvent(t) \/ PersistResult(t)
      PROVE  \A u \in Tasks : RowOk(u)'
  <2>1. status[t] = "running" \/ TimedOut(t)
    BY <1>6 DEF ExecutorOwnsTask
  <2>2. UNCHANGED <<status, cancelReq, err>>
    BY <1>6 DEF AppendNodeEvent, PersistResult
  <2>3. \A u \in Tasks \ {t} : SameRow(u)
    BY <1>6, <2>2 DEF SameRow, AppendNodeEvent, AppendStatus, PersistResult, TypeOK, ServiceTypeOK
  <2>4. status[t] = "running" => log'[t].last = "running" /\ ~log'[t].closed
    <3>1. CASE AppendNodeEvent(t)
      BY <3>1 DEF AppendNodeEvent, AppendStatus, TypeOK, ServiceTypeOK
    <3>2. CASE PersistResult(t)
      <4>1. log[t] \in LogSummaries
        BY DEF TypeOK, ServiceTypeOK
      <4>2. status[t] = "running" => ~TimedOut(t)
        BY DEF TimedOut
      <4>3. status[t] = "running" => log[t].last = "running" /\ ~log[t].closed
        BY <1>a, <4>2 DEF RowOk, TERMINAL_TASK_STATUSES
      <4>4. log' = log \/ log' = [log EXCEPT ![t] = [log[t] EXCEPT !.closed = FALSE]]
        BY <3>2 DEF PersistResult, TypeOK, ServiceTypeOK
      <4>5. CASE log' = [log EXCEPT ![t] = [log[t] EXCEPT !.closed = FALSE]]
        <5>1. log'[t] = [log[t] EXCEPT !.closed = FALSE]
          BY <4>5 DEF TypeOK, ServiceTypeOK
        <5>2. log'[t].last = log[t].last /\ ~log'[t].closed
          BY <4>1, <5>1 DEF LogSummaries
        <5> QED
          BY <4>3, <5>2
      <4> QED
        BY <4>3, <4>4, <4>5
    <3> QED
      BY <1>6, <3>1, <3>2
  <2>5. RowOk(t)'
    <3>1. CASE status[t] = "running"
      BY <1>a, <2>2, <2>4, <3>1 DEF RowOk, TERMINAL_TASK_STATUSES
    <3>2. CASE TimedOut(t)
      BY <2>2, <3>2 DEF RowOk, TimedOut
    <3> QED
      BY <2>1, <3>1, <3>2
  <2> QED
    BY <1>2, <2>3, <2>5
<1>7. ASSUME NEW t \in Tasks, NEW s \in Targets, NEW code \in BOOLEAN, TargetOk(t, s, code),
             Transition(t, s, code)
      PROVE  \A u \in Tasks : RowOk(u)'
  <2>1. CASE s \notin ALLOWED_TRANSITIONS[status[t]]
    BY <1>1, <1>7, <2>1 DEF Transition
  <2>2. CASE s \in ALLOWED_TRANSITIONS[status[t]]
    <3>1. /\ SetStatus(t, s)
          /\ err' = [err EXCEPT ![t] = err[t] \/ s = "failed" \/ code]
          /\ UNCHANGED <<cancelReq, result>>
      BY <1>7, <2>2 DEF Transition
    <3>2. \A u \in Tasks \ {t} : SameRow(u)
      BY <1>b, <3>1, StatusWritten DEF SameRow, TypeOK, ServiceTypeOK
    <3>3. status[t] \notin {"failed", "cancelled"}
      BY <2>2 DEF ALLOWED_TRANSITIONS, Statuses, TaskStatuses, Targets
    <3>4. ~err[t]
      BY <1>a, <3>3 DEF RowOk
    <3>5. err'[t] = (err[t] \/ s = "failed" \/ code)
      BY <3>1 DEF TypeOK, ServiceTypeOK
    <3>6. err'[t] => s \in {"failed", "cancelled"}
      BY <1>7, <3>4, <3>5 DEF TargetOk
    <3>7. s = "success" => result[t]
      <4>1. s = "success" => status[t] = "running"
        BY <2>2 DEF ALLOWED_TRANSITIONS, Statuses, TaskStatuses, TypeOK, ServiceTypeOK
      <4> QED
        BY <1>7, <4>1 DEF TargetOk
    <3>8. s \notin {"none", "queued"}
      BY DEF Targets, TaskStatuses
    <3>9. RowOk(t)'
      BY <1>b, <3>1, <3>6, <3>7, <3>8, StatusWritten DEF RowOk
    <3> QED
      BY <1>2, <3>2, <3>9
  <2> QED
    BY <2>1, <2>2
<1> QED
  BY <1>1, <1>3, <1>4, <1>5, <1>6, <1>7 DEF RowStep

(* The promises of the rows hold in every reachable state, for any number of *)
(* tasks, callers and workers: every write goes through transition, and only  *)
(* a worker that executes a task writes its result.                           *)
THEOREM RowInvariant == Spec => []RowInv
<1>1. Init => RowInv
  BY DEF Init, ServiceInit, RowInv, SuccessIsComplete, QueuedNotCancelRequested, LogMatchesRow,
         TERMINAL_TASK_STATUSES
<1>2. TypeOK /\ Ownership /\ RowInv /\ [Next]_vars => RowInv'
  <2>1. CASE UNCHANGED vars
    BY <2>1 DEF vars, rowVars, RowInv, SuccessIsComplete, QueuedNotCancelRequested, LogMatchesRow,
                TimedOut
  <2> QED
    BY <2>1, NextIsRowStep, RowOperation DEF Ownership
<1> QED
  BY <1>1, <1>2, OwnershipInvariant, PTL DEF Spec

(* A successful task has a complete result and no error code left over from  *)
(* an earlier attempt (transition, _result_is_complete).                      *)
THEOREM SuccessHasResult == Spec => []SuccessIsComplete
BY RowInvariant, PTL DEF RowInv

(* No task waits in the queue with a pending cancel request: retry and         *)
(* submit_clarification clear the request before they queue the task.         *)
THEOREM QueuedIsNotCancelled == Spec => []QueuedNotCancelRequested
BY RowInvariant, PTL DEF RowInv

(* The event log of a task ends with the status of its row, and is closed      *)
(* exactly when that status is terminal (append_state, append_terminal).       *)
THEOREM LogFollowsRow == Spec => []LogMatchesRow
BY RowInvariant, PTL DEF RowInv

------------------------------------------------------------------------------
(* Cancellation.  A request is known to come from a user wherever it is kept  *)
(* (row, Redis key, a caller about to set the key, a worker about to cancel), *)
(* and a worker past its last check works on a task that was not cancelled    *)
(* before that check.                                                         *)
RowCancelOk(t) ==
  /\ cancelReq[t] => asked[t]
  /\ status[t] = "cancelled" => asked[t] \/ TimedOut(t)
  /\ status[t] \in {"success", "waiting_input"} /\ cancelReq[t] => late[t]

ProcCancelOk(p) ==
  /\ pc[p] \in {"request", "cancel"} => asked[arg[p]]
  /\ pc[p] = "finish" /\ cancelReq[arg[p]] => late[arg[p]]

CancelInv == /\ \A t \in Tasks : RowCancelOk(t)
             /\ \A t \in cancelKey : asked[t]
             /\ \A p \in Procs : ProcCancelOk(p)

(* What a step that is no API commit leaves alone.                            *)
Unasked == UNCHANGED <<cancelReq, late, asked>>

(* A step that moves one process and no row.                                  *)
LEMMA MoveKeepsCancel ==
  ASSUME TypeOK, CancelInv, NEW p \in Procs, NEW l, NEW a,
         pc' = [pc EXCEPT ![p] = l], arg' = [arg EXCEPT ![p] = a],
         l \in {"request", "cancel"} => asked[a],
         l = "finish" /\ cancelReq[a] => late[a],
         Unasked, \A t \in Tasks : RowCancelOk(t)', \A t \in cancelKey' : asked[t]
  PROVE  CancelInv'
<1>1. ASSUME NEW q \in Procs PROVE ProcCancelOk(q)'
  <2>1. CASE q = p
    <3>1. pc'[q] = l /\ arg'[q] = a
      BY <2>1 DEF TypeOK
    <3>2. QED
      BY <3>1 DEF ProcCancelOk, Unasked
  <2>2. CASE q # p
    <3>1. pc'[q] = pc[q] /\ arg'[q] = arg[q]
      BY <2>2 DEF TypeOK
    <3>2. QED
      BY <3>1 DEF ProcCancelOk, Unasked, CancelInv
  <2>3. QED
    BY <2>1, <2>2
<1>2. \A t \in cancelKey' : asked'[t]
  BY DEF Unasked
<1>3. QED
  BY <1>1, <1>2 DEF CancelInv

(* The same when the process keeps its task.                                  *)
LEMMA GotoKeepsCancel ==
  ASSUME TypeOK, CancelInv, NEW p \in Procs, NEW l,
         pc' = [pc EXCEPT ![p] = l], UNCHANGED arg,
         l \in {"request", "cancel"} => asked[arg[p]],
         l = "finish" /\ cancelReq[arg[p]] => late[arg[p]],
         Unasked, \A t \in Tasks : RowCancelOk(t)', \A t \in cancelKey' : asked[t]
  PROVE  CancelInv'
<1>1. arg' = [arg EXCEPT ![p] = arg[p]]
  BY DEF TypeOK
<1>2. QED
  BY <1>1, MoveKeepsCancel

(* Rows nobody writes stay right, and so do those written by an event.        *)
LEMMA SameRowsCancel ==
  ASSUME CancelInv, Unasked, UNCHANGED <<status, err>>
  PROVE  \A t \in Tasks : RowCancelOk(t)'
BY DEF CancelInv, RowCancelOk, Unasked, TimedOut

(* transition cancels what was asked to be cancelled or timed out, and ends   *)
(* an attempt only if no request is pending that is not late.                 *)
LEMMA TransitionCancel ==
  ASSUME TypeOK, CancelInv, NEW t \in Tasks, NEW s \in TaskStatuses, NEW code \in BOOLEAN,
         Transition(t, s, code), UNCHANGED <<late, asked>>,
         s = "cancelled" => asked[t] \/ code,
         s \in {"success", "waiting_input"} /\ cancelReq[t] => late[t]
  PROVE  Unasked /\ \A u \in Tasks : RowCancelOk(u)'
<1>1. Unasked
  BY DEF Transition, Unasked, rowVars
<1>2. CASE UNCHANGED <<status, err>>
  BY <1>1, <1>2, SameRowsCancel
<1>3. CASE status' = [status EXCEPT ![t] = s] /\ (code => err'[t])
  <2>1. RowCancelOk(t)'
    <3>1. status'[t] = s
      BY <1>3 DEF TypeOK, ServiceTypeOK
    <3>2. QED
      BY <1>1, <1>3, <3>1 DEF CancelInv, RowCancelOk, TimedOut, Unasked
  <2>2. ASSUME NEW u \in Tasks \ {t} PROVE RowCancelOk(u)'
    <3>1. status'[u] = status[u] /\ err'[u] = err[u]
      BY TransitionEffect DEF OthersKeepRows
    <3>2. QED
      BY <1>1, <3>1 DEF CancelInv, RowCancelOk, TimedOut, Unasked
  <2>3. QED
    BY <1>1, <2>1, <2>2
<1>4. QED
  BY <1>2, <1>3, TransitionEffect

(* An API commit: only a cancellation sets a request, and it says who asked.  *)
LEMMA CommitKeepsCancel ==
  ASSUME TypeOK, CancelInv, NEW c \in Callers, NEW t \in Tasks,
         CallSend(c, t) \/ CallCancel(c, t) \/ CallRequeue(c, t)
  PROVE  CancelInv'
<1>a. c \in Procs
  BY DEF Procs
<1>1. ASSUME NEW u \in Tasks PROVE RowCancelOk(u)'
  <2>1. RowCancelOk(u)
    BY DEF CancelInv
  <2>2. CASE u # t
    <3>1. /\ status'[u] = status[u] /\ cancelReq'[u] = cancelReq[u] /\ err'[u] = err[u]
          /\ late'[u] = late[u] /\ asked'[u] = asked[u]
      <4>1. CASE CallSend(c, t)
        BY <2>2, <4>1 DEF TypeOK, ServiceTypeOK, CallSend, CreateFromMessage, SetStatus, rowVars,
                          history
      <4>2. CASE CallCancel(c, t)
        BY <2>2, <4>2 DEF TypeOK, ServiceTypeOK, CallCancel, Cancel, SetStatus
      <4>3. CASE CallRequeue(c, t)
        BY <2>2, <4>3 DEF TypeOK, ServiceTypeOK, CallRequeue, SubmitClarification, Retry, Requeue,
                          SetStatus
      <4>4. QED
        BY <4>1, <4>2, <4>3
    <3>2. QED
      BY <2>1, <3>1 DEF RowCancelOk, TimedOut
  <2>3. CASE u = t /\ CallSend(c, t)
    BY <2>1, <2>3 DEF TypeOK, ServiceTypeOK, CallSend, CreateFromMessage, SetStatus, rowVars,
                      history, RowCancelOk, TimedOut
  <2>4. CASE u = t /\ CallCancel(c, t)
    <3>1. asked'[t] /\ status'[t] \in {"running", "cancelled"}
      BY <2>4 DEF TypeOK, ServiceTypeOK, CallCancel, Cancel, SetStatus
    <3>2. QED
      BY <2>4, <3>1 DEF RowCancelOk
  <2>5. CASE u = t /\ CallRequeue(c, t)
    <3>1. ~cancelReq'[t] /\ status'[t] = "queued"
      BY <2>5 DEF TypeOK, ServiceTypeOK, CallRequeue, SubmitClarification, Retry, Requeue,
                  SetStatus
    <3>2. QED
      BY <2>5, <3>1 DEF RowCancelOk
  <2>6. QED
    BY <2>2, <2>3, <2>4, <2>5
<1>2. \A k \in cancelKey' : asked'[k]
  BY DEF CancelInv, TypeOK, QueueTypeOK, CallSend, CallCancel, CallRequeue, queueVars, history
<1>3. /\ \E l \in {"set", "request", "clear"} : pc' = [pc EXCEPT ![c] = l]
      /\ arg' = [arg EXCEPT ![c] = t]
  BY DEF CallSend, CallCancel, CallRequeue, GotoWith
<1>4. ASSUME NEW q \in Procs, q # c PROVE ProcCancelOk(q)'
  <2>1. pc'[q] = pc[q] /\ arg'[q] = arg[q]
    BY <1>3, <1>4 DEF TypeOK
  <2>2. pc[q] \in {"request", "cancel", "finish"} => arg[q] \in Tasks
    BY DEF TypeOK
  <2>3. ProcCancelOk(q)
    BY DEF CancelInv
  <2>4. CASE CallSend(c, t)
    BY <2>1, <2>3, <2>4 DEF CallSend, CreateFromMessage, rowVars, history, ProcCancelOk
  <2>5. CASE CallRequeue(c, t)
    BY <2>1, <2>2, <2>3, <2>5 DEF CallRequeue, SubmitClarification, Retry, Requeue, ProcCancelOk,
                                  TypeOK, ServiceTypeOK
  <2>6. CASE CallCancel(c, t)
    <3>1. pc[q] = "finish" => q \in Workers
      BY DEF TypeOK, Procs, CallerLabels, EnqueueLabels
    <3>2. asked'[t] /\ \A u \in Tasks : asked[u] => asked'[u]
      BY <2>6 DEF CallCancel, TypeOK
    <3>3. \A u \in Tasks : late[u] => late'[u]
      BY <2>6 DEF CallCancel, TypeOK
    <3>4. \A u \in Tasks : u # t => cancelReq'[u] = cancelReq[u]
      BY <2>6 DEF CallCancel, Cancel, TypeOK, ServiceTypeOK
    <3>5. pc[q] = "finish" /\ arg[q] = t => late'[t]
      BY <2>6, <3>1 DEF CallCancel, TypeOK
    <3>6. QED
      BY <2>1, <2>2, <2>3, <3>2, <3>3, <3>4, <3>5 DEF ProcCancelOk
  <2>7. QED
    BY <2>4, <2>5, <2>6
<1>5. ProcCancelOk(c)'
  <2>1. arg'[c] = t /\ pc'[c] \in {"set", "request", "clear"}
    BY <1>a, <1>3 DEF TypeOK
  <2>2. pc'[c] = "request" => asked'[t]
    BY <1>a DEF CallSend, CallCancel, CallRequeue, GotoWith, TypeOK
  <2>3. QED
    BY <2>1, <2>2 DEF ProcCancelOk
<1>6. QED
  BY <1>1, <1>2, <1>4, <1>5 DEF CancelInv

(* The steps of a caller: its commit, then its Redis commands.                *)
LEMMA CallerKeepsCancel ==
  ASSUME TypeOK, CancelInv, NEW c \in Callers, CallerStep(c) PROVE CancelInv'
<1>a. c \in Procs
  BY DEF Procs
<1>1. CASE \E t \in Tasks : CallSend(c, t) \/ CallCancel(c, t) \/ CallRequeue(c, t)
  BY <1>1, CommitKeepsCancel
<1>2. CASE RequestCancel(c) \/ ClearCancel(c) \/ CallerRedisFails(c) \/ CallerCrash(c)
  <2>1. UNCHANGED <<status, err>> /\ Unasked
    BY <1>2 DEF RequestCancel, ClearCancel, CallerRedisFails, CallerCrash, rowVars, history, Unasked
  <2>2. \A t \in Tasks : RowCancelOk(t)'
    BY <2>1, SameRowsCancel
  <2>3. \A k \in cancelKey' : asked[k]
    <3>1. RequestCancel(c) => asked[arg[c]]
      BY <1>a DEF RequestCancel, CancelInv, ProcCancelOk
    <3>2. QED
      BY <1>2, <3>1 DEF RequestCancel, ClearCancel, CallerRedisFails, CallerCrash, SetCancelKey,
                        ClearCancelKey, queueVars, CancelInv
  <2>4. \E l \in {"idle", "set"} : pc' = [pc EXCEPT ![c] = l]
    BY <1>2 DEF RequestCancel, ClearCancel, CallerRedisFails, CallerCrash, Rest, Goto, GotoWith
  <2>5. UNCHANGED arg \/ arg' = [arg EXCEPT ![c] = NoTask]
    BY <1>2 DEF RequestCancel, ClearCancel, CallerRedisFails, CallerCrash, Rest, Goto, GotoWith
  <2>6. QED
    BY <1>a, <2>1, <2>2, <2>3, <2>4, <2>5, MoveKeepsCancel, GotoKeepsCancel
<1>3. QED
  BY <1>1, <1>2 DEF CallerStep

(* Enqueueing has nothing to do with cancellation.                            *)
LEMMA EnqueueKeepsCancel ==
  ASSUME TypeOK, CancelInv, NEW p \in Procs, EnqueueStep(p) PROVE CancelInv'
<1>1. /\ UNCHANGED <<status, err>> /\ Unasked
      /\ cancelKey' = cancelKey
      /\ \E l \in {"idle", "recover", "lrem", "lpush"} : pc' = [pc EXCEPT ![p] = l]
      /\ UNCHANGED arg \/ arg' = [arg EXCEPT ![p] = NoTask]
  BY DEF EnqueueStep, EnqueueSet, EnqueueLrem, EnqueueLpush, EnqueueFails, AfterEnqueue, Goto,
         GotoWith, Rest, rowVars, history, queueVars, Unasked, ClaimMarker, DropFromProcessing,
         PushReady, DeleteMarker
<1>2. \A t \in Tasks : RowCancelOk(t)'
  BY <1>1, SameRowsCancel
<1>3. \A k \in cancelKey' : asked[k]
  BY <1>1 DEF CancelInv
<1>4. QED
  BY <1>1, <1>2, <1>3, MoveKeepsCancel, GotoKeepsCancel

(* Recovery cancels only with the timeout's error code.                       *)
LEMMA RecoveryKeepsCancel ==
  ASSUME TypeOK, CancelInv, NEW w \in Workers, RecoveryStep(w) PROVE CancelInv'
<1>a. w \in Procs
  BY DEF Procs
<1>b. \A k \in cancelKey' : asked[k]
  BY DEF RecoveryStep, ListExpired, ListQueued, RecoveryDone, ExpireListed, EnqueueListed,
         queueVars, CancelInv
<1>1. ASSUME NEW t \in Tasks, ExpireListed(w, t) PROVE CancelInv'
  <2>1. Transition(t, "cancelled", TRUE) /\ UNCHANGED <<late, asked, pc, arg>>
    BY <1>1 DEF ExpireListed, history
  <2>2. Unasked /\ \A u \in Tasks : RowCancelOk(u)'
    BY <2>1, TransitionCancel DEF TaskStatuses
  <2>3. \A p \in Procs : ProcCancelOk(p)'
    BY <2>1, <2>2 DEF CancelInv, ProcCancelOk, Unasked
  <2>4. QED
    BY <1>b, <2>2, <2>3 DEF CancelInv, Unasked
<1>2. CASE \/ ListExpired(w) \/ ListQueued(w) \/ RecoveryDone(w)
           \/ \E t \in Tasks : EnqueueListed(w, t)
  <2>1. /\ UNCHANGED <<status, err>> /\ Unasked
        /\ \E l \in {"expire", "recover", "idle", "set"} : pc' = [pc EXCEPT ![w] = l]
        /\ UNCHANGED arg \/ \E a \in Tasks \cup {NoTask} : arg' = [arg EXCEPT ![w] = a]
    BY <1>2 DEF ListExpired, ListQueued, RecoveryDone, EnqueueListed, Rest, GotoWith, rowVars,
                history, Unasked
  <2>2. \A t \in Tasks : RowCancelOk(t)'
    BY <2>1, SameRowsCancel
  <2>3. QED
    BY <1>a, <1>b, <2>1, <2>2, MoveKeepsCancel, GotoKeepsCancel
<1>3. QED
  BY <1>1, <1>2 DEF RecoveryStep

(* An executing worker goes to "cancel" only if a request was made, and to    *)
(* "finish" only if none was recorded when it looked.                         *)
LEMMA ExecKeepsCancel ==
  ASSUME TypeOK, CancelInv, NEW w \in Workers, ExecStep(w) PROVE CancelInv'
<1>a. w \in Procs
  BY DEF Procs
<1>b. \A k \in cancelKey' : asked[k]
  BY DEF ExecStep, CheckCancelled, Check, ExecNode, ExecCheckCancelled, ExecReturn, ExecRaise,
         Finish, FinishCancelled, FinishFailed, queueVars, CancelInv
<1>c. pc[w] \in ExecLabels => arg[w] \in Tasks
  BY <1>a DEF TypeOK, ExecLabels
<1>d. ProcCancelOk(w)
  BY <1>a DEF CancelInv
<1>1. CASE CheckCancelled(w) \/ ExecCheckCancelled(w)
  <2>1. UNCHANGED <<status, err, arg>> /\ Unasked
    BY <1>1 DEF CheckCancelled, ExecCheckCancelled, Check, Goto, rowVars, history, Unasked
  <2>2. arg[w] \in Tasks
    BY <1>1, <1>c DEF CheckCancelled, ExecCheckCancelled, ExecLabels
  <2>3. KeyOrRow(arg[w]) => asked[arg[w]]
    BY <2>2 DEF KeyOrRow, CancelInv, RowCancelOk
  <2>4. PICK found \in BOOLEAN :
          /\ found => KeyOrRow(arg[w])
          /\ ~found => ~cancelReq[arg[w]]
          /\ \E l \in {"exec", "finish"} :
               pc' = [pc EXCEPT ![w] = IF found THEN "cancel" ELSE l]
    <3>1. CASE CheckCancelled(w)
      BY <2>2, <3>1 DEF CheckCancelled, Check, AfterCheck, Goto, KeyOrRow, TypeOK, ServiceTypeOK
    <3>2. CASE ExecCheckCancelled(w)
      BY <3>2 DEF ExecCheckCancelled, Check, Goto
    <3>3. QED
      BY <1>1, <3>1, <3>2
  <2>5. \A t \in Tasks : RowCancelOk(t)'
    BY <2>1, SameRowsCancel
  <2>6. CASE found
    BY <1>a, <1>b, <2>1, <2>3, <2>4, <2>5, <2>6, GotoKeepsCancel
  <2>7. CASE ~found
    BY <1>a, <1>b, <2>1, <2>4, <2>5, <2>7, GotoKeepsCancel
  <2>8. QED
    BY <2>6, <2>7
<1>2. CASE ExecNode(w)
  <2>1. UNCHANGED <<status, err, pc, arg>> /\ Unasked
    BY <1>2 DEF ExecNode, AppendNodeEvent, procVars, history, Unasked
  <2>2. \A t \in Tasks : RowCancelOk(t)'
    BY <2>1, SameRowsCancel
  <2>3. \A p \in Procs : ProcCancelOk(p)'
    BY <2>1 DEF CancelInv, ProcCancelOk, Unasked
  <2>4. QED
    BY <1>b, <2>1, <2>2, <2>3 DEF CancelInv, Unasked
<1>3. CASE ExecRaise(w) \/ \E s \in {"waiting_input", "success"} : ExecReturn(w, s)
  <2>1. /\ UNCHANGED <<status, err, arg>> /\ Unasked
        /\ \E l \in {"fail", "check2"} : pc' = [pc EXCEPT ![w] = l]
    BY <1>3 DEF ExecRaise, ExecReturn, PersistResult, Goto, rowVars, history, Unasked
  <2>2. \A t \in Tasks : RowCancelOk(t)'
    BY <2>1, SameRowsCancel
  <2>3. QED
    BY <1>a, <1>b, <2>1, <2>2, GotoKeepsCancel
<1>4. CASE Finish(w)
  <2>1. arg[w] \in Tasks /\ outcome[w] \in {"waiting_input", "success"}
    BY <1>4, <1>c DEF Finish, ExecLabels, TypeOK
  <2>2. cancelReq[arg[w]] => late[arg[w]]
    BY <1>4, <1>d DEF Finish, ProcCancelOk
  <2>3. /\ \E l \in {"fail", "ack"} : pc' = [pc EXCEPT ![w] = l]
        /\ UNCHANGED <<arg, late, asked>>
        /\ UNCHANGED rowVars \/ Transition(arg[w], outcome[w], FALSE)
    BY <1>4 DEF Finish, Goto, history
  <2>4. CASE UNCHANGED rowVars
    <3>1. UNCHANGED <<status, err>> /\ Unasked
      BY <2>3, <2>4 DEF rowVars, Unasked
    <3>2. \A t \in Tasks : RowCancelOk(t)'
      BY <3>1, SameRowsCancel
    <3>3. QED
      BY <1>a, <1>b, <2>3, <3>1, <3>2, GotoKeepsCancel
  <2>5. CASE Transition(arg[w], outcome[w], FALSE)
    <3>1. outcome[w] \in TaskStatuses /\ outcome[w] # "cancelled"
      BY <2>1 DEF TaskStatuses
    <3>2. Unasked /\ \A t \in Tasks : RowCancelOk(t)'
      BY <2>1, <2>2, <2>3, <2>5, <3>1, TransitionCancel
    <3>3. QED
      BY <1>a, <1>b, <2>3, <3>2, GotoKeepsCancel
  <2>6. QED
    BY <2>3, <2>4, <2>5
<1>5. CASE FinishCancelled(w)
  <2>1. arg[w] \in Tasks /\ asked[arg[w]]
    BY <1>5, <1>c, <1>d DEF FinishCancelled, ExecLabels, ProcCancelOk
  <2>2. /\ Transition(arg[w], "cancelled", FALSE) /\ UNCHANGED <<late, asked, arg>>
        /\ pc' = [pc EXCEPT ![w] = "ack"]
    BY <1>5 DEF FinishCancelled, Goto, history
  <2>3. Unasked /\ \A t \in Tasks : RowCancelOk(t)'
    BY <2>1, <2>2, TransitionCancel DEF TaskStatuses
  <2>4. QED
    BY <1>a, <1>b, <2>2, <2>3, GotoKeepsCancel
<1>6. CASE FinishFailed(w)
  <2>1. arg[w] \in Tasks
    BY <1>6, <1>c DEF FinishFailed, ExecLabels
  <2>2. /\ Transition(arg[w], "failed", TRUE) /\ UNCHANGED <<late, asked, arg>>
        /\ pc' = [pc EXCEPT ![w] = "ack"]
    BY <1>6 DEF FinishFailed, Goto, history
  <2>3. Unasked /\ \A t \in Tasks : RowCancelOk(t)'
    BY <2>1, <2>2, TransitionCancel DEF TaskStatuses
  <2>4. QED
    BY <1>a, <1>b, <2>2, <2>3, GotoKeepsCancel
<1>7. QED
  BY <1>1, <1>2, <1>3, <1>4, <1>5, <1>6 DEF ExecStep

(* Around the execution only Load cancels, and only what was asked for.       *)
LEMMA QueueKeepsCancel ==
  ASSUME TypeOK, CancelInv, NEW w \in Workers, QueueStep(w) PROVE CancelInv'
<1>a. w \in Procs
  BY DEF Procs
<1>b. \A k \in cancelKey' : asked[k]
  BY DEF QueueStep, Reserve, Load, Claim, Acknowledge, Unmark, ProcessRaises, Release, ReleasePush,
         WorkerRedisFails, WorkerCrash, WorkerStart, PopReady, RemoveOne, DeleteMarker, PushBack,
         queueVars, CancelInv
<1>1. CASE Load(w) \/ Claim(w)
  <2>1. arg[w] \in Tasks
    BY <1>1, <1>a DEF Load, Claim, TypeOK
  <2>2. /\ \E l \in {"ack", "claim", "check1"} : pc' = [pc EXCEPT ![w] = l]
        /\ UNCHANGED <<arg, late, asked>>
    BY <1>1 DEF Load, Claim, Goto, history
  <2>3. Unasked /\ \A t \in Tasks : RowCancelOk(t)'
    <3>1. CASE UNCHANGED rowVars
      <4>1. UNCHANGED <<status, err>> /\ Unasked
        BY <2>2, <3>1 DEF rowVars, Unasked
      <4>2. QED
        BY <4>1, SameRowsCancel
    <3>2. CASE cancelReq[arg[w]] /\ Transition(arg[w], "cancelled", FALSE)
      <4>1. asked[arg[w]]
        BY <2>1, <3>2 DEF CancelInv, RowCancelOk
      <4>2. QED
        BY <2>1, <2>2, <3>2, <4>1, TransitionCancel DEF TaskStatuses
    <3>3. CASE Transition(arg[w], "running", FALSE)
      BY <2>1, <2>2, <3>3, TransitionCancel DEF TaskStatuses
    <3>4. QED
      BY <1>1, <3>1, <3>2, <3>3 DEF Load, Claim
  <2>4. QED
    BY <1>a, <1>b, <2>2, <2>3, GotoKeepsCancel
<1>2. CASE \/ Reserve(w) \/ Acknowledge(w) \/ Unmark(w) \/ ProcessRaises(w) \/ Release(w)
           \/ ReleasePush(w) \/ WorkerRedisFails(w) \/ WorkerCrash(w) \/ WorkerStart(w)
  <2>1. UNCHANGED <<status, err>> /\ Unasked
    BY <1>2 DEF Reserve, Acknowledge, Unmark, ProcessRaises, Release, ReleasePush,
                WorkerRedisFails, WorkerCrash, WorkerStart, rowVars, history, Unasked
  <2>2. \E l \in {"load", "unmark", "idle", "release", "requeue", "down"} :
          pc' = [pc EXCEPT ![w] = l]
    BY <1>2 DEF Reserve, Acknowledge, Unmark, ProcessRaises, Release, ReleasePush,
                WorkerRedisFails, WorkerCrash, WorkerStart, Goto, GotoWith, Rest
  <2>3. UNCHANGED arg \/ \E a : arg' = [arg EXCEPT ![w] = a]
    BY <1>2 DEF Reserve, Acknowledge, Unmark, ProcessRaises, Release, ReleasePush,
                WorkerRedisFails, WorkerCrash, WorkerStart, Goto, GotoWith, Rest
  <2>4. \A t \in Tasks : RowCancelOk(t)'
    BY <2>1, SameRowsCancel
  <2>5. QED
    BY <1>a, <1>b, <2>1, <2>2, <2>3, <2>4, MoveKeepsCancel, GotoKeepsCancel
<1>3. QED
  BY <1>1, <1>2 DEF QueueStep

(* What is known of cancellation requests holds in every reachable state.     *)
LEMMA CancelInvariant == Spec => []CancelInv
<1>1. Init => CancelInv
  BY DEF Init, ServiceInit, QueueInit, CancelInv, RowCancelOk, ProcCancelOk
<1>2. TypeOK /\ CancelInv /\ [Next]_vars => CancelInv'
  <2>1. CASE UNCHANGED vars
    BY <2>1 DEF vars, rowVars, queueVars, procVars, history, CancelInv, RowCancelOk, ProcCancelOk,
                TimedOut
  <2>2. ASSUME TypeOK, CancelInv, NEW t \in Tasks, MarkerExpires(t) \/ CancelKeyExpires(t)
        PROVE  CancelInv'
    BY <2>2 DEF MarkerExpires, CancelKeyExpires, ExpireMarker, ExpireCancelKey, ClearCancelKey,
                rowVars, procVars, history, CancelInv, RowCancelOk, ProcCancelOk, TimedOut
  <2>3. QED
    BY <2>1, <2>2, CallerKeepsCancel, EnqueueKeepsCancel, RecoveryKeepsCancel, ExecKeepsCancel,
       QueueKeepsCancel DEF Next
<1>3. QED
  BY <1>1, <1>2, TypeCorrect, PTL DEF Spec

(* A cancel request accepted before the worker's last check is honoured, for  *)
(* any number of tasks, callers and workers: the worker passes that check     *)
(* only if neither the key nor the row shows a request.                       *)
THEOREM CancelRequestsAreHonoured == Spec => []CancelNotLost
<1>1. CancelInv => CancelNotLost
  BY DEF CancelInv, RowCancelOk, CancelNotLost
<1>2. QED
  BY <1>1, CancelInvariant, PTL

(* No task is cancelled that nobody asked to cancel and that did not time     *)
(* out, whatever cancellation keys Redis still holds from earlier attempts.   *)
THEOREM OnlyAskedIsCancelled == Spec => []CancelledWasAsked
<1>1. CancelInv => CancelledWasAsked
  BY DEF CancelInv, RowCancelOk, CancelledWasAsked
<1>2. QED
  BY <1>1, CancelInvariant, PTL

===============================================================================
