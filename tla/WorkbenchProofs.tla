--------------------------- MODULE WorkbenchProofs ----------------------------
(***************************************************************************)
(* MessagesAreTheRoutes and OneSocket for any number of conversations,      *)
(* activations and faults.                                                  *)
(*                                                                          *)
(* OneSocket rests on the generation counter: no connect call older than    *)
(* the generation opens a socket, at most one waiting call has the current  *)
(* generation, and none has it while a socket is open.                      *)
(*                                                                          *)
(* MessagesAreTheRoutes rests on what could still deliver events: while no  *)
(* outdated activation has connected, the open socket, the current connect  *)
(* call and the reconnect timer are the route's.                             *)
(***************************************************************************)
EXTENDS Workbench, TLAPS

USE DEF stores, background, realtime

Records == [conv : Maybe, pc : {"history", "load", "result", "done"}]

(* The socket's variables have their types; tokens and socket are no newer  *)
(* than the generation.                                                      *)
SocketTypes == /\ generation \in Nat
               /\ tokens \subseteq Connections
               /\ open \subseteq Connections
               /\ timer \in Maybe
               /\ acts \in Seq(Records)
               /\ messages \subseteq Conversations
               /\ loads \subseteq Requests
               /\ overtaken \in BOOLEAN

(* An activation that still waits is one of a conversation. *)
Waiting == \A k \in 1..Len(acts) : acts[k].pc # "done" => acts[k].conv \in Conversations

Generations == /\ \A c \in tokens : c.gen <= generation
               /\ \A c, d \in tokens : c.gen = generation /\ d.gen = generation => c = d
               /\ open # {} => \A c \in tokens : c.gen # generation

(* The last activation is the route's. *)
RouteIsLast == active = route /\ (acts # <<>> => acts[Len(acts)].conv = route)

FollowsRoute == \/ overtaken
                \/ /\ \A c \in open : c.conv = route
                   /\ \A c \in tokens : c.gen = generation => c.conv = route
                   /\ timer \in {None, route}

IInv == /\ SocketTypes /\ Waiting /\ Generations /\ OneSocket
        /\ RouteIsLast /\ FollowsRoute /\ MessagesAreTheRoutes

LEMMA InitIInv == Init => IInv
  <1> SUFFICES ASSUME Init PROVE IInv
    OBVIOUS
  <1>1. SocketTypes
    <2>1. acts \in Seq(Records)
      BY DEF Init
    <2>2. timer \in Maybe /\ generation \in Nat
      BY DEF Init, Maybe
    <2>3. overtaken \in BOOLEAN
      BY DEF Init
    <2>4. tokens = {} /\ open = {} /\ messages = {} /\ loads = {}
      BY DEF Init
    <2> QED
      BY <2>1, <2>2, <2>3, <2>4 DEF SocketTypes
  <1>2. Waiting /\ RouteIsLast
    BY DEF Init, Waiting, RouteIsLast
  <1>3. Generations /\ OneSocket /\ FollowsRoute /\ MessagesAreTheRoutes
    BY DEF Init, Generations, OneSocket, FollowsRoute, MessagesAreTheRoutes
  <1> QED
    BY <1>1, <1>2, <1>3 DEF IInv

------------------------------------------------------------------------------
(* What disconnect and connect do to the sockets, wherever they are called. *)

SocketOK == /\ generation \in Nat /\ tokens \subseteq Connections
            /\ open \subseteq Connections /\ timer \in Maybe
            /\ Generations /\ OneSocket

LEMMA DisconnectKeeps ==
  ASSUME SocketTypes, Generations, OneSocket, Disconnect
  PROVE  SocketOK' /\ FollowsRoute'
  <1>1. open' = {} /\ socket' = None /\ tokens' = tokens /\ generation' = generation + 1 /\ timer' = None
    BY DEF Disconnect, CloseSocket, OneSocket
  <1>2. \A c \in tokens : c.gen \in Nat /\ c.gen < generation + 1
    BY DEF SocketTypes, Connections, Generations
  <1>3. FollowsRoute'
    BY <1>1, <1>2 DEF FollowsRoute
  <1> QED
    BY <1>1, <1>2, <1>3 DEF SocketTypes, SocketOK, Generations, OneSocket, Maybe

LEMMA ConnectKeeps ==
  ASSUME SocketTypes, Generations, OneSocket, NEW conv \in Conversations, Connect(conv)
  PROVE  SocketOK' /\ (overtaken' \/ conv = route' => FollowsRoute')
  <1> DEFINE new == [conv |-> conv, gen |-> generation + 2]
  <1>1. open' = {} /\ socket' = None /\ tokens' = tokens \cup {new} /\ generation' = generation + 2 /\ timer' = None
    BY DEF Connect, CloseSocket, OneSocket
  <1>2. \A c \in tokens : c.gen \in Nat /\ c.gen < generation + 2
    BY DEF SocketTypes, Connections, Generations
  <1>3. new \in Connections /\ new.gen = generation + 2 /\ new.conv = conv
    BY DEF SocketTypes, Connections
  <1> HIDE DEF new
  <1>4. overtaken' \/ conv = route' => FollowsRoute'
    BY <1>1, <1>2, <1>3 DEF FollowsRoute
  <1> QED
    BY <1>1, <1>2, <1>3, <1>4 DEF SocketTypes, SocketOK, Generations, OneSocket, Maybe

(* Advancing an activation keeps the sequence's type and Waiting. *)
LEMMA GoToKeeps ==
  ASSUME SocketTypes, Waiting, NEW k, k \in 1..Len(acts),
         acts[k].conv \in Conversations,
         NEW p \in {"history", "load", "result", "done"}, GoTo(k, p)
  PROVE  /\ acts' \in Seq(Records) /\ Waiting'
         /\ Len(acts') = Len(acts) /\ \A j \in 1..Len(acts) : acts'[j].conv = acts[j].conv
  <1>1. acts \in Seq(Records) /\ Len(acts) \in Nat /\ acts[k] \in Records
    <2>1. acts \in Seq(Records)
      BY DEF SocketTypes, Records
    <2> QED
      BY <2>1
  <1>2. acts' = [acts EXCEPT ![k] = [acts[k] EXCEPT !.pc = p]] /\ [acts[k] EXCEPT !.pc = p] \in Records
    BY <1>1 DEF GoTo, Records
  <1>3. acts' \in Seq(Records) /\ Len(acts') = Len(acts)
    BY <1>1, <1>2
  <1>4. \A j \in 1..Len(acts) : acts'[j].conv = acts[j].conv /\ (j # k => acts'[j] = acts[j])
    BY <1>1, <1>2 DEF Records
  <1> QED
    BY <1>3, <1>4 DEF Waiting, Records

LEMMA WaitingConv ==
  ASSUME Waiting, NEW k, NEW p \in {"history", "load", "result"}, At(k, p)
  PROVE  k \in 1..Len(acts) /\ acts[k].conv \in Conversations
  BY DEF Waiting, At

------------------------------------------------------------------------------
LEMMA ActivateKeeps ==
  ASSUME IInv, NEW conv \in Maybe, Activate(conv)
  PROVE  IInv'
  <1>1. SocketOK' /\ FollowsRoute'
    BY DisconnectKeeps DEF IInv, Activate
  <1>2. acts' \in Seq(Records) /\ Waiting' /\ Len(acts') = Len(acts) + 1 /\ acts'[Len(acts')].conv = conv
    BY DEF IInv, SocketTypes, Waiting, Activate, Maybe, Records
  <1>3. RouteIsLast' /\ MessagesAreTheRoutes' /\ messages' = {} /\ loads' = loads /\ overtaken' = FALSE
    BY <1>2 DEF Activate, ClearStores, RouteIsLast, MessagesAreTheRoutes
  <1> QED
    BY <1>1, <1>2, <1>3 DEF IInv, SocketOK, SocketTypes

(* A step of a waiting activation that leaves the socket alone, or connects. *)
LEMMA ActivationKeeps ==
  ASSUME IInv, NEW k \in 1..Len(acts), acts[k].conv \in Conversations,
         NEW p \in {"history", "load", "result", "done"}, GoTo(k, p),
         UNCHANGED <<route, active, loads>>,
         \/ UNCHANGED <<realtime, overtaken>>
         \/ Connect(acts[k].conv) /\ overtaken' \in BOOLEAN
               /\ (overtaken' <=> overtaken \/ k # Version),
         messages' = messages \/ (messages' = {route} /\ route \in Conversations)
  PROVE  IInv'
  <1>1. /\ acts' \in Seq(Records) /\ Waiting'
        /\ Len(acts') = Len(acts) /\ \A j \in 1..Len(acts) : acts'[j].conv = acts[j].conv
    BY GoToKeeps DEF IInv
  <1>2. RouteIsLast'
    <2>1. Len(acts) \in 1..Len(acts) /\ acts # <<>>
      BY DEF IInv, SocketTypes
    <2> QED
      BY <1>1, <2>1 DEF IInv, RouteIsLast
  <1>3. messages' \subseteq Conversations /\ loads' \subseteq Requests /\ overtaken' \in BOOLEAN
    BY DEF IInv, SocketTypes
  <1>4. MessagesAreTheRoutes'
    BY DEF IInv, MessagesAreTheRoutes
  <1>5. SocketOK' /\ FollowsRoute'
    <2>1. CASE UNCHANGED <<realtime, overtaken>>
      BY <2>1 DEF IInv, SocketTypes, SocketOK, Generations, OneSocket, FollowsRoute
    <2>2. CASE Connect(acts[k].conv) /\ (overtaken' <=> overtaken \/ k # Version)
      <3>1. SocketOK' /\ (overtaken' \/ acts[k].conv = route' => FollowsRoute')
        BY <2>2, ConnectKeeps DEF IInv
      <3>2. k = Version => acts[k].conv = route
        BY DEF IInv, RouteIsLast, Version
      <3> QED
        BY <2>2, <3>1, <3>2
    <2> QED
      BY <2>1, <2>2
  <1> QED
    BY <1>1, <1>2, <1>3, <1>4, <1>5 DEF IInv, SocketOK, SocketTypes

LEMMA HistoryArrivesKeeps ==
  ASSUME IInv, NEW k \in 1..MaxActivations, HistoryArrives(k)
  PROVE  IInv'
  <1>1. k \in 1..Len(acts) /\ acts[k].conv \in Conversations
    BY WaitingConv DEF IInv, HistoryArrives
  <1>2. messages' = messages \/ (messages' = {route} /\ route \in Conversations)
    <2>1. messages' = IF active = acts[k].conv THEN {acts[k].conv} ELSE messages
      BY DEF HistoryArrives
    <2> QED
      BY <1>1, <2>1 DEF IInv, RouteIsLast
  <1>3. /\ UNCHANGED <<route, active, loads, overtaken>>
        /\ \/ (GoTo(k, "done") \/ GoTo(k, "load")) /\ UNCHANGED realtime
           \/ GoTo(k, "done") /\ Connect(acts[k].conv) /\ k = Version
    <2>1. UNCHANGED <<route, active, loads, overtaken>>
      BY DEF HistoryArrives
    <2>2. IF k # Version THEN GoTo(k, "done") /\ UNCHANGED realtime
          ELSE \/ GoTo(k, "load") /\ UNCHANGED realtime
               \/ GoTo(k, "done") /\ Connect(acts[k].conv)
      BY DEF HistoryArrives
    <2> HIDE DEF realtime
    <2> QED
      BY <2>1, <2>2
  <1>4. overtaken \in BOOLEAN
    BY DEF IInv, SocketTypes
  <1>5. \/ UNCHANGED <<realtime, overtaken>>
        \/ Connect(acts[k].conv) /\ overtaken' \in BOOLEAN /\ (overtaken' <=> overtaken \/ k # Version)
    BY <1>3, <1>4
  <1> QED
    BY <1>1, <1>2, <1>3, <1>5, ActivationKeeps

LEMMA HistoryFailsKeeps ==
  ASSUME IInv, NEW k \in 1..MaxActivations, HistoryFails(k)
  PROVE  IInv'
  <1>1. k \in 1..Len(acts) /\ acts[k].conv \in Conversations
    BY WaitingConv DEF IInv, HistoryFails
  <1>2. CASE k = Version
    <2>1. SocketOK' /\ FollowsRoute'
      BY <1>2, DisconnectKeeps DEF IInv, HistoryFails
    <2>2. acts' = Append([acts EXCEPT ![k].pc = "done"], [conv |-> None, pc |-> "done"])
      BY <1>2 DEF HistoryFails
    <2>3. acts' \in Seq(Records) /\ Waiting' /\ acts' # <<>> /\ acts'[Len(acts')].conv = None
      <3> DEFINE mid == [acts EXCEPT ![k].pc = "done"]
                 new == [conv |-> None, pc |-> "done"]
      <3>1. acts \in Seq(Records) /\ acts[k] \in Records
        BY <1>1 DEF IInv, SocketTypes
      <3>2. new \in Records /\ [acts[k] EXCEPT !.pc = "done"] \in Records
        BY <3>1 DEF Maybe, Records
      <3>3. mid = [acts EXCEPT ![k] = [acts[k] EXCEPT !.pc = "done"]]
        OBVIOUS
      <3>4. mid \in Seq(Records) /\ Len(mid) = Len(acts)
        BY <1>1, <3>1, <3>2, <3>3
      <3>5. \A j \in 1..Len(acts) : mid[j].conv = acts[j].conv /\ (j # k => mid[j] = acts[j])
                                    /\ mid[k].pc = "done"
        BY <3>1, <1>1 DEF Records
      <3>6. acts' \in Seq(Records) /\ Len(acts') = Len(acts) + 1 /\ acts'[Len(acts) + 1] = new
              /\ \A j \in 1..Len(acts) : acts'[j] = mid[j]
        BY <2>2, <3>2, <3>4
      <3>7. ASSUME NEW j \in 1..Len(acts'), acts'[j].pc # "done"
            PROVE  acts'[j].conv \in Conversations
        <4>1. j \in 1..Len(acts)
          BY <3>1, <3>6, <3>7
        <4>2. j # k /\ acts[j].pc # "done" /\ acts'[j].conv = acts[j].conv
          BY <3>5, <3>6, <3>7, <4>1
        <4> QED
          BY <4>1, <4>2 DEF IInv, Waiting
      <3> QED
        BY <3>1, <3>6, <3>7 DEF Waiting
    <2>4. /\ active' = None /\ route' = None /\ messages' = {} /\ overtaken' = FALSE /\ loads' = loads
      BY <1>2 DEF HistoryFails, ClearStores
    <2>5. RouteIsLast' /\ MessagesAreTheRoutes'
      BY <2>3, <2>4 DEF RouteIsLast, MessagesAreTheRoutes
    <2> QED
      BY <2>1, <2>3, <2>4, <2>5 DEF IInv, SocketOK, SocketTypes
  <1>3. CASE k # Version
    <2>1. UNCHANGED <<route, active, loads, messages>> /\ GoTo(k, "done") /\ UNCHANGED <<realtime, overtaken>>
      BY <1>3 DEF HistoryFails
    <2> QED
      BY <1>1, <2>1, ActivationKeeps
  <1> QED
    BY <1>2, <1>3

(* A task or a result arrives or fails; in the end the activation connects. *)
LEMMA TaskKeeps ==
  ASSUME IInv, NEW k \in 1..MaxActivations, TaskArrives(k) \/ TaskFails(k) \/ ResultArrives(k)
  PROVE  IInv'
  <1>1. k \in 1..Len(acts) /\ acts[k].conv \in Conversations
    BY WaitingConv DEF IInv, TaskArrives, TaskFails, ResultArrives
  <1>2. UNCHANGED <<route, active, messages, loads>>
        /\ (Finish(k) \/ (GoTo(k, "result") /\ UNCHANGED <<realtime, overtaken>>))
    BY DEF TaskArrives, TaskFails, ResultArrives
  <1>3. CASE Finish(k)
    <2>1. overtaken \in BOOLEAN
      BY DEF IInv, SocketTypes
    <2>2. GoTo(k, "done") /\ Connect(acts[k].conv) /\ overtaken' = (overtaken \/ k # Version)
      BY <1>3 DEF Finish
    <2>3. overtaken' \in BOOLEAN /\ (overtaken' <=> overtaken \/ k # Version)
      BY <2>1, <2>2
    <2> QED
      BY <1>1, <1>2, <2>2, <2>3, ActivationKeeps
  <1>4. CASE GoTo(k, "result") /\ UNCHANGED <<realtime, overtaken>>
    BY <1>1, <1>2, <1>4, ActivationKeeps
  <1> QED
    BY <1>2, <1>3, <1>4

LEMMA SocketStepKeeps ==
  ASSUME IInv,
         \/ \E c \in tokens : TokenArrives(c) \/ TokenFails(c)
         \/ \E c \in open : ConnectionLost(c)
  PROVE  IInv'
  <1> USE DEF IInv, SocketTypes, Waiting, Generations, OneSocket, RouteIsLast, FollowsRoute,
              MessagesAreTheRoutes
  <1>1. ASSUME NEW c \in tokens, TokenArrives(c) PROVE IInv'
    BY <1>1 DEF TokenArrives, Connections
  <1>2. ASSUME NEW c \in tokens, TokenFails(c) PROVE IInv'
    BY <1>2 DEF TokenFails, ScheduleReconnect, Connections, Maybe
  <1>3. ASSUME NEW c \in open, ConnectionLost(c) PROVE IInv'
    BY <1>3 DEF ConnectionLost, ScheduleReconnect, Connections, Maybe
  <1> QED
    BY <1>1, <1>2, <1>3

LEMMA ReconnectKeeps ==
  ASSUME IInv, Reconnect
  PROVE  IInv'
  <1>1. timer \in Conversations /\ (overtaken \/ timer = route)
    BY DEF IInv, SocketTypes, FollowsRoute, Reconnect, Maybe
  <1>2. SocketOK' /\ (overtaken' \/ timer = route' => FollowsRoute')
    BY <1>1, ConnectKeeps DEF IInv, Reconnect
  <1>3. UNCHANGED <<route, acts, active, messages, loads, overtaken>>
    BY DEF Reconnect
  <1> QED
    BY <1>1, <1>2, <1>3 DEF IInv, SocketOK, SocketTypes, Waiting, RouteIsLast, MessagesAreTheRoutes

(* Events add messages of the socket's conversation, and requests. *)
LEMMA EventKeeps ==
  ASSUME IInv,
         \/ \E c \in open : EventArrives(c) \/ OldEventArrives(c)
         \/ \E l \in loads : LoadArrives(l) \/ LoadFails(l)
  PROVE  IInv'
  <1>1. UNCHANGED <<route, acts, active, overtaken, realtime>>
    BY DEF EventArrives, OldEventArrives, LoadArrives, LoadFails
  <1>2. ASSUME NEW conv \in Conversations, NEW what \in SUBSET {"task", "result"}
        PROVE  Asks(conv, what) \subseteq Requests
    BY DEF Asks, Requests
  <1>3. loads' \subseteq Requests /\ messages' \subseteq Conversations /\ MessagesAreTheRoutes'
    <2>1. \A c \in open : c.conv \in Conversations /\ (overtaken \/ c.conv = route)
      BY DEF IInv, SocketTypes, Connections, FollowsRoute
    <2>2. \A l \in loads : l.conv \in Conversations
      BY DEF IInv, SocketTypes, Requests
    <2>3. ASSUME NEW c \in open, EventArrives(c)
          PROVE  loads' \subseteq Requests /\ messages' \subseteq Conversations /\ MessagesAreTheRoutes'
      BY <1>2, <2>1, <2>3 DEF EventArrives, IInv, SocketTypes, MessagesAreTheRoutes
    <2>4. ASSUME NEW c \in open, OldEventArrives(c)
          PROVE  loads' \subseteq Requests /\ messages' = messages
      BY <1>2, <2>1, <2>4 DEF OldEventArrives, IInv, SocketTypes
    <2>5. ASSUME NEW l \in loads, LoadArrives(l)
          PROVE  loads' \subseteq Requests /\ messages' = messages
      <3>1. \A what \in SUBSET {"result"} : Asks(l.conv, what) \subseteq Requests
        BY <1>2, <2>2
      <3> QED
        BY <2>5, <3>1 DEF LoadArrives, IInv, SocketTypes
    <2>6. ASSUME NEW l \in loads, LoadFails(l)
          PROVE  loads' \subseteq Requests /\ messages' = messages
      BY <2>6 DEF LoadFails, IInv, SocketTypes
    <2> QED
      BY <1>1, <2>3, <2>4, <2>5, <2>6 DEF IInv, SocketTypes, MessagesAreTheRoutes
  <1> QED
    BY <1>1, <1>3 DEF IInv, SocketTypes, Waiting, Generations, OneSocket, RouteIsLast, FollowsRoute

LEMMA StutterKeeps ==
  ASSUME IInv, UNCHANGED vars
  PROVE  IInv'
  BY DEF IInv, vars, SocketTypes, Waiting, Generations, OneSocket, RouteIsLast, FollowsRoute,
         MessagesAreTheRoutes

------------------------------------------------------------------------------
(* The inductive invariant holds in every reachable state. *)
THEOREM SocketInvariant == Spec => []IInv
  <1>1. ASSUME IInv, [Next]_vars PROVE IInv'
    <2>1. CASE Next
      BY <1>1, <2>1, ActivateKeeps, HistoryArrivesKeeps, HistoryFailsKeeps, TaskKeeps,
         SocketStepKeeps, EventKeeps, ReconnectKeeps DEF Next, Navigate
    <2>2. CASE UNCHANGED vars
      BY <1>1, <2>2, StutterKeeps
    <2> QED
      BY <1>1, <2>1, <2>2
  <1> QED
    BY InitIInv, <1>1, PTL DEF Spec

(* Histories that arrive late, token requests and reconnects of an earlier     *)
(* route, and the events of any socket bring no other conversation's messages  *)
(* to the page, unless an outdated activation has connected since the last      *)
(* change of the route (MessagesAreTheRoutes).                                  *)
THEOREM MessagesFollowTheRoute == Spec => []MessagesAreTheRoutes
  <1>1. IInv => MessagesAreTheRoutes
    BY DEF IInv
  <1> QED
    BY SocketInvariant, <1>1, PTL

(* The page never has two sockets open, however connects overlap. *)
THEOREM AtMostOneSocket == Spec => []OneSocket
  <1>1. IInv => OneSocket
    BY DEF IInv
  <1> QED
    BY SocketInvariant, <1>1, PTL

------------------------------------------------------------------------------
(* What the inductive invariant leaves open of the types: it keeps the socket's *)
(* side from being told a conversation the page never had.                      *)
Rest == /\ route \in Maybe
        /\ task \in Maybe
        /\ result \in Maybe
        /\ manual \in BOOLEAN
        /\ socket \in Connections \cup {None}
        /\ faults \in 0..MaxFaults

LEMMA RestInit == Init => Rest
  BY WorkbenchAssumption DEF Init, Rest, Maybe

LEMMA RestStep ==
  ASSUME IInv, Rest, [Next]_vars
  PROVE  Rest'
  <1> USE DEF Rest, NoFault
  <1>1. Fault => faults' \in 0..MaxFaults
    BY WorkbenchAssumption DEF Fault
  <1>2. ASSUME NEW conv \in Maybe, Navigate(conv) PROVE Rest'
    BY <1>2 DEF Navigate, Activate, ClearStores, Disconnect, CloseSocket, Maybe
  <1>3. ASSUME NEW conv, Connect(conv)
        PROVE  manual' \in BOOLEAN /\ socket' \in Connections \cup {None}
    BY <1>3 DEF Connect, CloseSocket
  <1>4. ASSUME NEW k, HistoryArrives(k) PROVE Rest'
    BY <1>3, <1>4 DEF HistoryArrives
  <1>5. ASSUME NEW k, HistoryFails(k) PROVE Rest'
    BY <1>1, <1>5 DEF HistoryFails, ClearStores, Disconnect, CloseSocket, Maybe
  <1>6. ASSUME NEW k, TaskArrives(k) \/ TaskFails(k) \/ ResultArrives(k) PROVE Rest'
    <2>1. acts[k].conv \in Maybe
      BY <1>6, WaitingConv DEF IInv, TaskArrives, TaskFails, ResultArrives, Maybe
    <2> QED
      BY <1>1, <1>3, <1>6, <2>1 DEF TaskArrives, TaskFails, ResultArrives, Finish, Maybe
  <1>7. ASSUME NEW c \in tokens, TokenArrives(c) \/ TokenFails(c) PROVE Rest'
    BY <1>1, <1>7 DEF TokenArrives, TokenFails, IInv, SocketTypes
  <1>8. ASSUME NEW c, ConnectionLost(c) PROVE Rest'
    BY <1>1, <1>8 DEF ConnectionLost
  <1>11. ASSUME NEW c \in open, EventArrives(c) \/ OldEventArrives(c) PROVE Rest'
    BY <1>11 DEF EventArrives, OldEventArrives, IInv, SocketTypes, Connections, Maybe
  <1>12. ASSUME NEW l \in loads, LoadArrives(l) \/ LoadFails(l) PROVE Rest'
    <2>1. l.conv \in Conversations
      BY DEF IInv, SocketTypes, Requests
    <2> QED
      BY <1>1, <1>12, <2>1 DEF LoadArrives, LoadFails, Maybe
  <1>9. CASE Reconnect
    BY <1>3, <1>9 DEF Reconnect
  <1>10. CASE UNCHANGED vars
    BY <1>10 DEF vars
  <1> QED
    BY <1>2, <1>4, <1>5, <1>6, <1>7, <1>8, <1>9, <1>10, <1>11, <1>12 DEF Next

(* Every store holds a conversation or nothing, and every socket belongs to a   *)
(* connect call, for any number of activations and faults.                      *)
THEOREM PageTypeCorrect == Spec => []TypeOK
  <1>1. IInv /\ Rest => TypeOK
    BY DEF IInv, Rest, SocketTypes, RouteIsLast, TypeOK, Records
  <1> QED
    BY RestInit, RestStep, SocketInvariant, <1>1, PTL DEF Spec

===============================================================================
