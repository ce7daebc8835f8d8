----------------------------- MODULE TaskSession ------------------------------
(***************************************************************************)
(* The cancel and clarification messages of the chat WebSocket              *)
(* (api/websocket.py).  A connection has ONE ORM session for its whole life *)
(* and keeps a reference to its conversation's latest task from the first   *)
(* replay on, so that object stays in the session's identity map.  A        *)
(* rollback expires its attributes and the next query reads them again; a   *)
(* commit does not (expire_on_commit is off), and no query asks for         *)
(* populate_existing.  So after one operation of the connection committed,  *)
(* every later one locks the current row but decides on the attributes of   *)
(* that commit, and writes only those that differ from them.                *)
(*                                                                          *)
(* The handler calls require_owned, without a lock, before the operation    *)
(* locks the row.  Both are one step here: require_owned opens MySQL's      *)
(* REPEATABLE READ snapshot, next_event_seq reads from it, and every        *)
(* transaction that changes a task appends an event.  If one commits        *)
(* between the two reads the insert violates uq_task_events_task_seq, the   *)
(* transaction is rolled back and the connection is lost: WsDisconnect.     *)
(*                                                                          *)
(* A connection's operations on other tasks of the conversation hold no     *)
(* object from before; they are those of a caller that is not connected, as *)
(* are the HTTP endpoints.  Left out: the repetition of the latest task's   *)
(* own message over the connection, which leaves its transaction open.      *)
(***************************************************************************)
EXTENDS TaskPipeline

CONSTANT NoView   \* the attributes of the held object are expired

VARIABLES newest,  \* the task of each conversation that was created last
          latest,  \* the object a connection holds a reference to
          held     \* its attributes as of the connection's last commit

connVars == <<newest, latest, held>>
sessionVars == <<vars, connVars>>

Convs == {ConvOf[t] : t \in Tasks}

View(t) == [status |-> status[t], cancelReq |-> cancelReq[t]]

Connected(c) == latest[c] # NoTask

SessionInit == /\ Init
               /\ newest = [v \in Convs |-> NoTask]
               /\ latest = [c \in Callers |-> NoTask]
               /\ held = [c \in Callers |-> NoView]

------------------------------------------------------------------------------
(* The first replay, of the conversation's latest task, and the rollback     *)
(* that expires it.                                                         *)
WsConnect(c, v) ==
  /\ pc[c] = "idle" /\ ~Connected(c)
  /\ newest[v] # NoTask
  /\ latest' = [latest EXCEPT ![c] = newest[v]]
  /\ UNCHANGED <<vars, newest, held>>

(* What the operation decides on *)
Seen(c) == IF held[c] = NoView THEN View(latest[c]) ELSE held[c]

(* An attribute that is set to the value the object already has is not part *)
(* of the UPDATE statement.                                                  *)
Written(row, view, value) == IF value = view THEN row ELSE value

(* The object is left with the attributes the operation set. *)
Keep(c, s, req) == held' = [held EXCEPT ![c] = [status |-> s, cancelReq |-> req]]

Operation(c, s, req, label) ==
  /\ pc[c] = "idle" /\ Connected(c)
  /\ cancelReq' = [cancelReq EXCEPT ![latest[c]] = Written(@, Seen(c).cancelReq, req)]
  /\ Keep(c, s, req)
  /\ GotoWith(c, label, latest[c])
  /\ NoFault
  /\ UNCHANGED <<queueVars, err, result, orphaned, newest, latest>>

WsCancel(c) ==
  LET t == latest[c]  was == Seen(c).status IN
  /\ Operation(c, IF was = "running" THEN "running" ELSE "cancelled", TRUE, "request")
  /\ was \in {"queued", "running", "waiting_input"}
  /\ IF was = "running" THEN AppendStatus(t, "running", FALSE) /\ UNCHANGED status
     ELSE SetStatus(t, "cancelled")
  /\ asked' = [asked EXCEPT ![t] = TRUE]
  /\ late' = [late EXCEPT ![t] = @ \/ \E w \in Workers : pc[w] = "finish" /\ arg[w] = t]
  /\ UNCHANGED requeues

WsClarify(c) ==
  LET t == latest[c] IN
  /\ Operation(c, "queued", FALSE, "clear")
  /\ Seen(c).status = "waiting_input"
  /\ requeues[t] < MaxRequeue
  /\ SetStatus(t, "queued")
  /\ requeues' = [requeues EXCEPT ![t] = @ + 1]
  /\ late' = [late EXCEPT ![t] = FALSE]
  /\ UNCHANGED asked

(* A refusal (404, 409), an invalid message or a resume rolls back. *)
WsRollback(c) ==
  /\ pc[c] = "idle" /\ Connected(c)
  /\ held' = [held EXCEPT ![c] = NoView]
  /\ UNCHANGED <<vars, newest, latest>>

WsDisconnect(c) ==
  /\ pc[c] = "idle" /\ Connected(c)
  /\ latest' = [latest EXCEPT ![c] = NoTask]
  /\ held' = [held EXCEPT ![c] = NoView]
  /\ UNCHANGED <<vars, newest>>

(* The rest of the system; a connected caller only finishes its operation. *)
PipelineStep ==
  /\ Next
  /\ \A c \in Callers : Connected(c) /\ pc[c] = "idle" => pc'[c] = "idle"
  /\ newest' = [v \in Convs |->
       LET created == {t \in Tasks : ConvOf[t] = v /\ status[t] = "none" /\ status'[t] # "none"}
       IN  IF created = {} THEN newest[v] ELSE CHOOSE t \in created : TRUE]
  /\ UNCHANGED <<latest, held>>

SessionNext == \/ PipelineStep
               \/ \E c \in Callers, v \in Convs : WsConnect(c, v)
               \/ \E c \in Callers : WsCancel(c) \/ WsClarify(c) \/ WsRollback(c) \/ WsDisconnect(c)

SessionSpec == SessionInit /\ [][SessionNext]_sessionVars

------------------------------------------------------------------------------
(* Task statuses move only along ALLOWED_TRANSITIONS, whoever moves them     *)
(* (README: the API enforces the constraint on status transitions).          *)
StatusTransitions ==
  [][\A t \in Tasks : \/ status'[t] = status[t]
                      \/ status[t] = "none" /\ status'[t] = "queued"
                      \/ status'[t] \in ALLOWED_TRANSITIONS[status[t]]]_sessionVars

===============================================================================
