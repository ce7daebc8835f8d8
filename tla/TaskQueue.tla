------------------------------ MODULE TaskQueue ------------------------------
(***************************************************************************)
(* The Redis side of the task queue (workers/task_queue.py) and the        *)
(* cancellation marker (workers/cancellation.py): each operator is one     *)
(* Redis command, hence one atomic step.  The steps that compose them into *)
(* enqueue, reserve, acknowledge and release are processes of TaskPipeline. *)
(*                                                                         *)
(* The ready list is pushed on its left and popped on its right, so        *)
(* ready[1] is the next task delivered.  The order of the processing list  *)
(* is never observed (only LREM reads it), so it is a bag of task ids.      *)
(***************************************************************************)
EXTENDS TaskStatus, Naturals, Sequences, FiniteSets

CONSTANT MaxCopies   \* bound: copies of a task in the ready list at marker expiry

ASSUME MaxCopiesAssumption == MaxCopies \in Nat

VARIABLES ready,       \* list task_queue_name
          processing,  \* list task_queue_name:processing, as copies per task
          marker,      \* tasks with a task_queue_name:enqueued:<id> key
          cancelKey    \* tasks with an insight:task_cancel:<id> key

queueVars == <<ready, processing, marker, cancelKey>>

QueueTypeOK == /\ ready \in Seq(Tasks)
               /\ processing \in [Tasks -> Nat]
               /\ marker \subseteq Tasks
               /\ cancelKey \subseteq Tasks

QueueInit == /\ ready = <<>>
             /\ processing = [t \in Tasks |-> 0]
             /\ marker = {}
             /\ cancelKey = {}

Copies(t) == Cardinality({i \in 1..Len(ready) : ready[i] = t})

------------------------------------------------------------------------------
(* enqueue: SET marker NX EX, LREM processing 0, LPUSH ready; DEL on error *)

ClaimMarker(t) == /\ t \notin marker
                  /\ marker' = marker \cup {t}
                  /\ UNCHANGED <<ready, processing, cancelKey>>

DropFromProcessing(t) == /\ processing' = [processing EXCEPT ![t] = 0]
                         /\ UNCHANGED <<ready, marker, cancelKey>>

PushReady(t) == /\ ready' = Append(ready, t)
                /\ UNCHANGED <<processing, marker, cancelKey>>

DeleteMarker(t) == /\ marker' = marker \ {t}
                   /\ UNCHANGED <<ready, processing, cancelKey>>

(* reserve: BRPOPLPUSH ready -> processing *)
PopReady == /\ ready # <<>>
            /\ ready' = Tail(ready)
            /\ processing' = [processing EXCEPT ![Head(ready)] = @ + 1]
            /\ UNCHANGED <<marker, cancelKey>>

(* Mutant: LREM taken to remove an entry even when there is none. *)
RemoveOne_Unchecked(t) ==
  /\ processing' = [processing EXCEPT ![t] = @ - 1]
  /\ UNCHANGED <<ready, marker, cancelKey>>

(* acknowledge and release begin with LREM processing 1 *)
RemoveOne(t) ==
  /\ processing' = [processing EXCEPT ![t] = IF @ > 0 THEN @ - 1 ELSE 0]
  /\ UNCHANGED <<ready, marker, cancelKey>>

(* release ends with RPUSH ready: the task is the next one delivered *)
PushBack(t) == /\ ready' = <<t>> \o ready
               /\ UNCHANGED <<processing, marker, cancelKey>>

------------------------------------------------------------------------------
(* request (SETEX) and clear (DEL) of the cancellation marker *)

SetCancelKey(t) == /\ cancelKey' = cancelKey \cup {t}
                   /\ UNCHANGED <<ready, processing, marker>>

ClearCancelKey(t) == /\ cancelKey' = cancelKey \ {t}
                     /\ UNCHANGED <<ready, processing, marker>>

------------------------------------------------------------------------------
(* The keys' time to live: task_queue_marker_ttl_seconds may pass while the *)
(* task is still in the ready list, as long as there are fewer than         *)
(* MaxCopies copies of it there (the bound that keeps the list finite).     *)

ExpireMarker(t) == /\ t \in marker
                   /\ Copies(t) < MaxCopies
                   /\ marker' = marker \ {t}
                   /\ UNCHANGED <<ready, processing, cancelKey>>

ExpireCancelKey(t) == /\ t \in cancelKey
                      /\ ClearCancelKey(t)

===============================================================================
