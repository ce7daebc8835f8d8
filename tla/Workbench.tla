------------------------------ MODULE Workbench -------------------------------
(***************************************************************************)
(* The page that shows one conversation (views/WorkbenchView.vue) with its   *)
(* stores (stores/chat.ts, stores/task.ts) and its WebSocket                 *)
(* (composables/useWebSocket.ts).  Every change of the route starts an       *)
(* activation, an async function that goes on after each await whatever has  *)
(* happened meanwhile; the answers to its requests come in any order.  The   *)
(* events of the open socket write to the same stores, and ask for the task  *)
(* and its result without waiting for the answers.                           *)
(*                                                                          *)
(* Stores are modelled by the conversations their content belongs to.        *)
(***************************************************************************)
EXTENDS Naturals, Sequences, FiniteSets

CONSTANTS Conversations,
          None,
          MaxActivations,   \* bound: changes of the route
          MaxFaults         \* bound: failed requests and lost connections

ASSUME WorkbenchAssumption == /\ None \notin Conversations
                              /\ MaxActivations \in Nat /\ MaxFaults \in Nat

VARIABLES route,       \* the conversation in the address bar
          acts,        \* the activations so far; the last one's number is activationVersion
          active,      \* chatStore.activeConversationId
          messages,    \* chatStore.messages: the conversations they are of
          task,        \* taskStore.activeTaskId, status, ...
          result,      \* taskStore.result
          loads,       \* requests that events have started: one or more of each
          overtaken,   \* history: since the last change of the route an outdated
                       \* activation has connected
          generation,  \* useWebSocket: generation
          manual,      \* useWebSocket: manuallyClosed
          socket,      \* useWebSocket: socket
          open,        \* the sockets that are really open
          tokens,      \* connect calls waiting for their token
          timer,       \* the reconnect timer: the conversation it will connect to
          faults       \* failures so far

stores == <<active, messages, task, result>>
background == <<loads, overtaken>>
realtime == <<generation, manual, socket, open, tokens, timer>>
vars == <<route, acts, stores, background, realtime, faults>>

Maybe == Conversations \cup {None}

Connections == [conv : Conversations, gen : Nat]

Requests == [conv : Conversations, of : {"task", "result"}]

TypeOK == /\ route \in Maybe
          /\ acts \in Seq([conv : Maybe, pc : {"history", "load", "result", "done"}])
          /\ active \in Maybe /\ messages \subseteq Conversations /\ task \in Maybe /\ result \in Maybe
          /\ loads \subseteq Requests /\ overtaken \in BOOLEAN
          /\ generation \in Nat /\ manual \in BOOLEAN
          /\ socket \in Connections \cup {None}
          /\ open \subseteq Connections /\ tokens \subseteq Connections
          /\ timer \in Maybe
          /\ faults \in 0..MaxFaults

Init == /\ route = None /\ acts = <<>>
        /\ active = None /\ messages = {} /\ task = None /\ result = None
        /\ loads = {} /\ overtaken = FALSE
        /\ generation = 0 /\ manual = TRUE /\ socket = None
        /\ open = {} /\ tokens = {} /\ timer = None
        /\ faults = 0

NoFault == UNCHANGED faults
Fault == faults < MaxFaults /\ faults' = faults + 1

Version == Len(acts)

At(k, pc) == k \in 1..Len(acts) /\ acts[k].pc = pc

GoTo(k, pc) == acts' = [acts EXCEPT ![k].pc = pc]

ClearStores == messages' = {} /\ task' = None /\ result' = None

------------------------------------------------------------------------------
(* useWebSocket *)

CloseSocket == /\ open' = open \ {socket}
               /\ socket' = None
               /\ timer' = None

(* disconnect(markManual = true) *)
Disconnect == /\ CloseSocket
              /\ manual' = TRUE
              /\ generation' = generation + 1
              /\ UNCHANGED tokens

(* connect: disconnect(false), a generation of its own, and the wait for     *)
(* createWebsocketToken                                                      *)
Connect(conv) == /\ CloseSocket
                 /\ manual' = FALSE
                 /\ generation' = generation + 2
                 /\ tokens' = tokens \cup {[conv |-> conv, gen |-> generation + 2]}

(* Mutant: the generation is not compared after the await. *)
TokenArrives_Unchecked(c) ==
  /\ c \in tokens
  /\ tokens' = tokens \ {c}
  /\ ~manual
  /\ socket' = c /\ open' = open \cup {c}
  /\ NoFault
  /\ UNCHANGED <<route, acts, stores, background, generation, manual, timer>>

(* The rest of connect; an outdated call gives up. *)
TokenArrives(c) ==
  /\ c \in tokens
  /\ tokens' = tokens \ {c}
  /\ IF c.gen = generation /\ ~manual
     THEN socket' = c /\ open' = open \cup {c}
     ELSE UNCHANGED <<socket, open>>
  /\ NoFault
  /\ UNCHANGED <<route, acts, stores, background, generation, manual, timer>>

(* scheduleReconnect, after a failed token request or a lost connection *)
ScheduleReconnect(c) == timer' = IF timer = None THEN c.conv ELSE timer

TokenFails(c) ==
  /\ c \in tokens
  /\ Fault
  /\ tokens' = tokens \ {c}
  /\ IF c.gen = generation /\ ~manual THEN ScheduleReconnect(c) ELSE UNCHANGED timer
  /\ UNCHANGED <<route, acts, stores, background, generation, manual, socket, open>>

ConnectionLost(c) ==
  /\ c \in open
  /\ Fault
  /\ open' = open \ {c}
  /\ IF c.gen = generation /\ ~manual THEN ScheduleReconnect(c) ELSE UNCHANGED timer
  /\ UNCHANGED <<route, acts, stores, background, generation, manual, socket, tokens>>

Reconnect ==
  /\ timer # None
  /\ Connect(timer)
  /\ NoFault
  /\ UNCHANGED <<route, acts, stores, background>>

------------------------------------------------------------------------------
(* Mutant: no early return when the route names no conversation. *)
Activate_NoReturn(conv) ==
  /\ Len(acts) < MaxActivations
  /\ route' = conv
  /\ acts' = Append(acts, [conv |-> conv, pc |-> "history"])
  /\ Disconnect
  /\ active' = conv
  /\ ClearStores
  /\ overtaken' = FALSE
  /\ UNCHANGED loads

(* activateConversation up to its first await: loadHistory has set           *)
(* activeConversationId and waits for the messages.                          *)
Activate(conv) ==
  /\ Len(acts) < MaxActivations
  /\ route' = conv
  /\ acts' = Append(acts, [conv |-> conv, pc |-> IF conv = None THEN "done" ELSE "history"])
  /\ Disconnect
  /\ active' = conv
  /\ ClearStores
  /\ overtaken' = FALSE
  /\ UNCHANGED loads

Navigate(conv) == conv # route /\ Activate(conv) /\ NoFault

(* Mutant: loadHistory does not look at activeConversationId after its await. *)
HistoryArrives_Unchecked(k) ==
  /\ At(k, "history")
  /\ LET conv == acts[k].conv IN
       /\ messages' = {conv}
       /\ IF k # Version THEN GoTo(k, "done") /\ UNCHANGED realtime
          ELSE \/ GoTo(k, "load") /\ UNCHANGED realtime
               \/ GoTo(k, "done") /\ Connect(conv)
  /\ NoFault
  /\ UNCHANGED <<route, active, task, result, background>>

(* The messages arrive.  The activation goes on if it is still the last one: *)
(* it loads the latest task, if the conversation has one, or connects.       *)
HistoryArrives(k) ==
  /\ At(k, "history")
  /\ LET conv == acts[k].conv IN
       /\ messages' = IF active = conv THEN {conv} ELSE messages
       /\ IF k # Version THEN GoTo(k, "done") /\ UNCHANGED realtime
          ELSE \/ GoTo(k, "load") /\ UNCHANGED realtime
               \/ GoTo(k, "done") /\ Connect(conv)
  /\ NoFault
  /\ UNCHANGED <<route, active, task, result, background>>

(* The request fails: the last activation leaves for the start page. *)
HistoryFails(k) ==
  /\ At(k, "history")
  /\ Fault
  /\ IF k = Version
     THEN /\ Len(acts) < MaxActivations
          /\ route' = None
          /\ acts' = Append([acts EXCEPT ![k].pc = "done"], [conv |-> None, pc |-> "done"])
          /\ Disconnect
          /\ active' = None /\ ClearStores
          /\ overtaken' = FALSE
     ELSE GoTo(k, "done") /\ UNCHANGED <<route, stores, overtaken, realtime>>
  /\ UNCHANGED loads

(* The end of an activation.  Its version is not looked at again.            *)
Finish(k) == /\ GoTo(k, "done")
             /\ Connect(acts[k].conv)
             /\ overtaken' = (overtaken \/ k # Version)

(* taskStore.load after its await; a successful task's result is awaited too *)
TaskArrives(k) ==
  /\ At(k, "load")
  /\ task' = acts[k].conv
  /\ \/ GoTo(k, "result") /\ UNCHANGED <<realtime, overtaken>>
     \/ Finish(k)
  /\ NoFault
  /\ UNCHANGED <<route, active, messages, result, loads>>

TaskFails(k) ==
  /\ At(k, "load")
  /\ Fault
  /\ task' = None /\ result' = None
  /\ Finish(k)
  /\ UNCHANGED <<route, active, messages, loads>>

ResultArrives(k) ==
  /\ At(k, "result")
  /\ \/ result' = acts[k].conv /\ NoFault
     \/ result' = None /\ Fault
  /\ Finish(k)
  /\ UNCHANGED <<route, active, messages, task, loads>>

------------------------------------------------------------------------------
(* socket.onmessage: applyEvent of both stores.  A message_delta may add its *)
(* message; an event of another task clears the result.  It and "done" load  *)
(* the task, result_ready loads the result.                                  *)
Asks(conv, what) == {[conv |-> conv, of |-> w] : w \in what}

EventArrives(c) ==
  /\ c \in open
  /\ messages' \in {messages, messages \cup {c.conv}}
  /\ task' = c.conv
  /\ result' \in IF task = c.conv THEN {result, None} ELSE {None}
  /\ \E what \in SUBSET {"task", "result"} :
        /\ task # c.conv => "task" \in what
        /\ loads' = loads \cup Asks(c.conv, what)
  /\ NoFault
  /\ UNCHANGED <<route, acts, active, overtaken, realtime>>

(* An event that is not newer is dropped, but the task is loaded all the     *)
(* same if it is another one or the event is "done".                         *)
OldEventArrives(c) ==
  /\ c \in open
  /\ loads' = loads \cup Asks(c.conv, {"task"})
  /\ NoFault
  /\ UNCHANGED <<route, acts, stores, overtaken, realtime>>

(* The answers, whatever the page shows by then *)
LoadArrives(l) ==
  /\ l \in loads
  /\ \E rest \in {loads, loads \ {l}} :
       IF l.of = "task"
       THEN /\ task' = l.conv
            /\ \E what \in SUBSET {"result"} : loads' = rest \cup Asks(l.conv, what)
            /\ UNCHANGED result /\ NoFault
       ELSE /\ loads' = rest
            /\ \/ result' = l.conv /\ NoFault
               \/ result' = None /\ Fault
            /\ UNCHANGED task
  /\ UNCHANGED <<route, acts, active, messages, overtaken, realtime>>

LoadFails(l) ==
  /\ l \in loads /\ l.of = "task"
  /\ Fault
  /\ loads' = loads \ {l}
  /\ UNCHANGED <<route, acts, stores, overtaken, realtime>>

Next == \/ \E conv \in Maybe : Navigate(conv)
        \/ \E k \in 1..MaxActivations :
              HistoryArrives(k) \/ HistoryFails(k) \/ TaskArrives(k) \/ TaskFails(k) \/ ResultArrives(k)
        \/ \E c \in tokens : TokenArrives(c) \/ TokenFails(c)
        \/ \E c \in open : ConnectionLost(c) \/ EventArrives(c) \/ OldEventArrives(c)
        \/ \E l \in loads : LoadArrives(l) \/ LoadFails(l)
        \/ Reconnect

Spec == Init /\ [][Next]_vars

------------------------------------------------------------------------------
(* Messages of another conversation reach the page in one way only: an        *)
(* outdated activation, waiting for its task when the user went on, connected *)
(* its conversation.  Late histories, token answers and reconnects of an      *)
(* earlier route bring none.                                                  *)
MessagesAreTheRoutes == messages \subseteq {route} \/ overtaken

(* However connects overlap, the page never has two sockets open (events     *)
(* would be handled for two conversations), nor one it has lost track of.    *)
OneSocket == open \subseteq {socket}

===============================================================================
