----------------------------- MODULE EventStream ------------------------------
(***************************************************************************)
(* The events of one task on their way from the task_events table to the    *)
(* browser: appended under the task's row lock and committed by several     *)
(* processes (workers, API requests), published through Redis after each    *)
(* commit (event_service.py), forwarded by the WebSocket endpoint, which    *)
(* also replays the table (api/websocket.py), and applied by the client,    *)
(* which drops what is not newer than the newest event it has seen          *)
(* (stores/chat.ts), and loads the stored messages whenever the             *)
(* conversation is opened (WorkbenchView.vue).  What events and reloads     *)
(* make of the task store is in Workbench; here it matters whether the page *)
(* knows the task.                                                          *)
(*                                                                          *)
(* An event is its event_seq and what it is.  A terminal status comes with  *)
(* "done".  A "delta" stands for the events of persist: the message_delta   *)
(* carries the whole text of the message stored in the same transaction.    *)
(***************************************************************************)
EXTENDS Naturals, Sequences, SequencesExt

CONSTANTS Emitters,     \* processes that append events of the task
          ReplayLimit,  \* task_event_replay_limit
          MaxEvents,    \* bound: events of the task
          MaxFaults     \* bound: failed publications, crashes, lost connections,
                        \* and times the conversation is opened again

ASSUME EventBoundsAssumption == /\ MaxEvents \in Nat
                                /\ MaxFaults \in Nat
                                /\ ReplayLimit \in Nat \ {0}

VARIABLES log,      \* task_events: "step", "delta" or "done", by event_seq
          outbox,   \* committed events each emitter has still to publish
          conn,     \* the WebSocket connection, as the server sees it
          sub,      \* Redis subscription: published, not forwarded yet
          replay,   \* _send_replay: read from the table, not sent yet
          resume,   \* resume_task received and not handled: its after_seq, or None
          wire,     \* the socket, from server to client
          knows,    \* client: taskStore.activeTaskId is the task
          lastSeq,  \* client: eventSeqByTask, 0 when it has no entry
          text,     \* client: how often the message shown contains its text
          loading,  \* client: getTask requests that events started, one or more,
                    \* are not finished
          missed,   \* history: since the last first replay a publication was
                    \* lost, or that replay was cut off
          faults    \* failures and further visits so far

serverVars == <<log, outbox, conn, sub, replay, resume, wire>>
clientVars == <<knows, lastSeq, text, loading>>
vars == <<serverVars, clientVars, missed, faults>>

None == MaxEvents + 1   \* no after_seq

Seqs == 1..MaxEvents

Init == /\ log = <<>> /\ outbox = [e \in Emitters |-> <<>>]
        /\ conn = "loading"
        /\ sub = <<>> /\ replay = <<>> /\ resume = None /\ wire = <<>>
        /\ knows = FALSE /\ lastSeq = 0 /\ text = 0
        /\ loading = FALSE
        /\ missed = FALSE /\ faults = 0

NoFault == UNCHANGED faults
Fault == faults < MaxFaults /\ faults' = faults + 1

------------------------------------------------------------------------------
Stored == \E i \in 1..Len(log) : log[i] = "delta"

(* append_many and the commit: consecutive numbers under the row lock.  A   *)
(* terminal status and "done" are appended together; a task has one result  *)
(* message.                                                                  *)
Emit(e) ==
  \E batch \in {<<"step">>, <<"delta">>, <<"step", "done">>} :
    /\ outbox[e] = <<>>
    /\ batch = <<"delta">> => ~Stored
    /\ Len(log) + Len(batch) <= MaxEvents
    /\ log' = log \o batch
    /\ outbox' = [outbox EXCEPT ![e] = [i \in 1..Len(batch) |-> Len(log) + i]]
    /\ NoFault
    /\ UNCHANGED <<conn, sub, replay, resume, wire, clientVars, missed>>

Listening == conn \in {"subscribed", "serving"}

(* publish: Redis delivers to the subscriptions of this moment *)
Publish(e) ==
  /\ outbox[e] # <<>>
  /\ outbox' = [outbox EXCEPT ![e] = Tail(@)]
  /\ sub' = IF Listening THEN Append(sub, Head(outbox[e])) ELSE sub
  /\ NoFault
  /\ UNCHANGED <<log, conn, replay, resume, wire, clientVars, missed>>

(* A RedisError is logged and the next event is published; a crash between  *)
(* commit and publication loses them all.                                   *)
PublishFails(e) ==
  /\ outbox[e] # <<>>
  /\ Fault
  /\ \E rest \in {<<>>, Tail(outbox[e])} : outbox' = [outbox EXCEPT ![e] = rest]
  /\ missed' = TRUE
  /\ UNCHANGED <<log, conn, sub, replay, resume, wire, clientVars>>

------------------------------------------------------------------------------
(* chat_websocket *)

(* activateConversation: the socket is closed and both stores are emptied,   *)
(* the numbers of the events included.                                       *)
Activate ==
  /\ conn # "loading"
  /\ Fault
  /\ conn' = "loading"
  /\ sub' = <<>> /\ replay' = <<>> /\ resume' = None /\ wire' = <<>>
  /\ knows' = FALSE /\ lastSeq' = 0 /\ text' = 0
  /\ UNCHANGED <<log, outbox, loading, missed>>

(* The stored messages arrive, with their texts; the page finds the task in  *)
(* them and loads it, or not, and then connects.                             *)
LoadHistory ==
  /\ conn = "loading"
  /\ conn' = "closed"
  /\ text' = IF Stored THEN 1 ELSE 0
  /\ \/ log # <<>> /\ knows' = TRUE
     \/ UNCHANGED knows
  /\ NoFault
  /\ UNCHANGED <<log, outbox, sub, replay, resume, wire, lastSeq, loading, missed>>

(* Mutant: the client does not connect again. *)
Open_Once ==
  /\ conn = "closed" /\ faults = 0
  /\ conn' = "accepted"
  /\ resume' = IF knows THEN lastSeq ELSE None
  /\ NoFault
  /\ UNCHANGED <<log, outbox, sub, replay, wire, clientVars, missed>>

(* Mutant: every connect starts with no event numbers. *)
Open_Forgets ==
  /\ conn = "closed"
  /\ conn' = "accepted"
  /\ lastSeq' = 0
  /\ resume' = IF knows THEN 0 ELSE None
  /\ NoFault
  /\ UNCHANGED <<log, outbox, sub, replay, wire, knows, text, loading, missed>>

(* connect: token, accept, and the client's onopen, which asks for what      *)
(* follows its newest event when it knows the task                           *)
Open ==
  /\ conn = "closed"
  /\ conn' = "accepted"
  /\ resume' = IF knows THEN lastSeq ELSE None
  /\ NoFault
  /\ UNCHANGED <<log, outbox, sub, replay, wire, clientVars, missed>>

(* _forward_pubsub subscribes; the endpoint waits for it before it replays *)
Subscribe ==
  /\ conn = "accepted"
  /\ conn' = "subscribed"
  /\ NoFault
  /\ UNCHANGED <<log, outbox, sub, replay, resume, wire, clientVars, missed>>

(* list_owned(after_seq): ascending, at most task_event_replay_limit *)
EventsAfter(n) ==
  LET count == IF Len(log) < n THEN 0 ELSE Len(log) - n
  IN  [i \in 1..(IF count < ReplayLimit THEN count ELSE ReplayLimit) |-> n + i]

(* Mutant: only resume_task replays. *)
ReplayLatest_None ==
  /\ conn = "subscribed"
  /\ conn' = "serving"
  /\ replay' = <<>>
  /\ missed' = (Len(log) > ReplayLimit)
  /\ NoFault
  /\ UNCHANGED <<log, outbox, sub, resume, wire, clientVars>>

(* The conversation's latest task is replayed from its first event. *)
ReplayLatest ==
  /\ conn = "subscribed"
  /\ conn' = "serving"
  /\ replay' = EventsAfter(0)
  /\ missed' = (Len(log) > ReplayLimit)
  /\ NoFault
  /\ UNCHANGED <<log, outbox, sub, resume, wire, clientVars>>

(* Client messages are read after the first replay has been sent. *)
ReplayResumed ==
  /\ conn = "serving" /\ replay = <<>> /\ resume # None
  /\ replay' = EventsAfter(resume)
  /\ resume' = None
  /\ NoFault
  /\ UNCHANGED <<log, outbox, conn, sub, wire, clientVars, missed>>

(* Replay and forwarding take turns on the socket, one event at a time. *)
SendReplayed ==
  /\ replay # <<>>
  /\ wire' = Append(wire, Head(replay))
  /\ replay' = Tail(replay)
  /\ NoFault
  /\ UNCHANGED <<log, outbox, conn, sub, resume, clientVars, missed>>

Forward ==
  /\ sub # <<>>
  /\ wire' = Append(wire, Head(sub))
  /\ sub' = Tail(sub)
  /\ NoFault
  /\ UNCHANGED <<log, outbox, conn, replay, resume, clientVars, missed>>

(* The connection is lost, or closed by the server on a RedisError. *)
Disconnect ==
  /\ conn \notin {"loading", "closed"}
  /\ Fault
  /\ conn' = "closed"
  /\ sub' = <<>> /\ replay' = <<>> /\ resume' = None /\ wire' = <<>>
  /\ UNCHANGED <<log, outbox, clientVars, missed>>

------------------------------------------------------------------------------
(* socket.onmessage *)

(* applyEvent returns early unless this holds. *)
Newer(seq) == seq > lastSeq

(* An event of a task the page does not know, and "done", reload the task.  *)
Receive ==
  /\ wire # <<>>
  /\ LET seq == Head(wire) IN
       /\ IF Newer(seq)
          THEN /\ lastSeq' = seq
               /\ text' = IF log[seq] = "delta" THEN text + 1 ELSE text
          ELSE UNCHANGED <<lastSeq, text>>
       /\ loading' = (loading \/ ~knows \/ log[seq] = "done")
  /\ knows' = TRUE
  /\ wire' = Tail(wire)
  /\ NoFault
  /\ UNCHANGED <<log, outbox, conn, sub, replay, resume, missed>>

(* taskStore.load after its await, in whatever visit the answer arrives; an   *)
(* error is ignored.                                                         *)
ApplyLoad ==
  /\ loading
  /\ loading' \in BOOLEAN
  /\ (knows' = TRUE \/ UNCHANGED knows)
  /\ NoFault
  /\ UNCHANGED <<serverVars, lastSeq, text, missed>>

Next == \/ \E e \in Emitters : Emit(e) \/ Publish(e) \/ PublishFails(e)
        \/ Activate \/ LoadHistory \/ Open \/ Subscribe \/ ReplayLatest \/ ReplayResumed
        \/ SendReplayed \/ Forward \/ Disconnect
        \/ Receive \/ ApplyLoad

Spec == Init /\ [][Next]_vars

(* Every process goes on with what it has begun, and the client connects     *)
(* again after every loss.  Nothing makes an emitter emit.                   *)
FairSpec == /\ Spec
            /\ \A e \in Emitters : WF_vars(Publish(e))
            /\ WF_vars(LoadHistory) /\ WF_vars(Open) /\ WF_vars(Subscribe) /\ WF_vars(ReplayLatest)
            /\ WF_vars(SendReplayed) /\ WF_vars(Forward) /\ WF_vars(Receive)

------------------------------------------------------------------------------
(* README promises that the client removes duplicate events.  Opening the     *)
(* conversation empties the event numbers but shows the stored texts, so the  *)
(* first replay adds the text of the last message once more (chat.ts:134).    *)
(* That is all: overlapping replays, reconnects and live events add it once.  *)
TextAtMostTwice == text <= 2

AllDelivered == /\ conn = "serving"
                /\ sub = <<>> /\ replay = <<>> /\ wire = <<>>
                /\ \A e \in Emitters : outbox[e] = <<>>
                /\ ~missed

(* Once everything under way has arrived, the client has the newest event,   *)
(* whatever was published while it connected, reconnected or was replayed    *)
(* to, unless a publication failed under the connection or the first replay   *)
(* was cut off at task_event_replay_limit.                                   *)
CaughtUp == AllDelivered => lastSeq = Len(log)

(* Every event reaches the client, or a later one does, or its publication   *)
(* was lost.                                                                 *)
EventuallySeen == \A n \in Seqs : Len(log) >= n ~> lastSeq >= n \/ missed

===============================================================================
