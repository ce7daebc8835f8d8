-------------------------- MODULE WebsocketTokenProofs --------------------------
(***************************************************************************)
(* The session that a login creates and the token that opens a WebSocket     *)
(* (LoginSession, WebsocketToken), for any number of users, callbacks,        *)
(* requests and conversations and any lifetimes.                              *)
(*                                                                           *)
(* IndInv has the reasons: a state is consumed before anything is done with   *)
(* it; a session has the subject of its callback, which has that of its flow; *)
(* a request is given one token; and who has opened has consumed.             *)
(***************************************************************************)
EXTENDS WebsocketToken, TLAPS

FlowRecord == [expires : Nat, begun : BOOLEAN, subject : Subjects \cup {NoSubject}]

IdleCallback == [pc : {"idle"}]

CallbackRecord == [pc : {"exchange", "map", "session", "done", "refused"},
                   state : Flows, code : Flows,
                   subject : Subjects \cup {NoSubject}, new : BOOLEAN]

SessionRecord == [subject : Subjects \cup {NoSubject}, expires : Nat]

CheckRecord == [pc : {"touch", "user", "authorized", "store", "answered"},
                session : Callbacks, subject : Subjects \cup {NoSubject}]

Issued == [expires : Nat, expires_at : Nat, consumed : BOOLEAN,
           conversation : Conversations]

Opening == [token : Requests, at : Nat]

LoginTypes == /\ now \in Nat
              /\ flow \in [Flows -> FlowRecord]
              /\ callback \in [Callbacks -> IdleCallback \cup CallbackRecord]
              /\ session \in [Callbacks -> SessionRecord]
              /\ loggedOut \subseteq Callbacks
              /\ checking \in [Requests -> {NoCheck} \cup CheckRecord]

TokenTypes == /\ token \in [Requests -> {NoToken} \cup Issued]
              /\ pending \subseteq Requests
              /\ opened \in Seq(Opening)

FlowInv == \A f \in Flows : flow[f].expires > 0 => flow[f].begun

CallbackInv == \A c \in Callbacks : callback[c].pc # "idle" =>
  /\ callback[c] \in CallbackRecord
  /\ flow[callback[c].state].begun
  /\ flow[callback[c].state].expires = 0
  /\ callback[c].pc = "exchange" => flow[callback[c].code].subject # NoSubject
  /\ callback[c].pc \in {"map", "session", "done"} =>
       /\ callback[c].subject # NoSubject
       /\ callback[c].subject = flow[callback[c].state].subject

OneCallback == \A c, d \in Callbacks :
  callback[c].pc # "idle" /\ callback[d].pc # "idle" /\ callback[c].state = callback[d].state
  => c = d

SessionInv == \A c \in Callbacks :
  /\ c \in loggedOut => callback[c].pc = "done" /\ session[c].expires = 0
  /\ session[c].expires > 0 => callback[c].pc = "done" /\ session[c].subject = callback[c].subject

TokenInv == \A r \in Requests :
  /\ token[r] \in Issued <=> checking[r].pc \in {"store", "answered"}
  /\ r \in pending => token[r] \in Issued

OpenedInv ==
  /\ \A i \in 1..Len(opened) : /\ token[opened[i].token] \in Issued
                               /\ token[opened[i].token].consumed
                               /\ opened[i].at < token[opened[i].token].expires_at
  /\ \A i, j \in 1..Len(opened) : opened[i].token = opened[j].token => i = j

LoginInv == LoginTypes /\ FlowInv /\ CallbackInv /\ OneCallback /\ SessionInv

IndInv == LoginInv /\ TokenTypes /\ TokenInv /\ OpenedInv

------------------------------------------------------------------------------
(* A token has more than the key of Redis. *)
LEMMA NoTokenIsNone == NoToken \notin Issued
<1>1. \A t \in Issued : "expires_at" \in DOMAIN t
  BY DEF Issued
<1>2. "expires_at" \notin DOMAIN NoToken
  BY DEF NoToken
<1> QED
  BY <1>1, <1>2

LEMMA IndInvInit == Init => IndInv
<1> SUFFICES ASSUME Init PROVE IndInv
  OBVIOUS
<1> USE DEF Init, LoginInit
<1>1. LoginTypes
  BY DEF LoginTypes, FlowRecord, IdleCallback, SessionRecord, NoSession
<1>2. FlowInv
  BY DEF FlowInv
<1>3. CallbackInv /\ OneCallback
  BY DEF CallbackInv, OneCallback
<1>4. SessionInv
  BY DEF SessionInv, NoSession
<1>5. TokenTypes
  BY DEF TokenTypes
<1>6. TokenInv
  BY NoTokenIsNone DEF TokenInv, NoCheck
<1>7. OpenedInv
  BY DEF OpenedInv
<1> QED
  BY <1>1, <1>2, <1>3, <1>4, <1>5, <1>6, <1>7 DEF IndInv, LoginInv

(* What the actions of a login leave: the check of a request that has its      *)
(* token is not done again.                                                    *)
LEMMA CallbackAt ==
  ASSUME LoginTypes, NEW c \in Callbacks, callback[c].pc # "idle"
  PROVE  callback[c] \in CallbackRecord
  BY DEF LoginTypes, IdleCallback

LEMMA LoginFlow ==
  ASSUME LoginInv, now' = now, NEW f \in Flows,
         Login(f) \/ \E u \in Subjects : Authenticate(f, u)
  PROVE  LoginInv' /\ UNCHANGED checking
<1> USE DEF LoginInv
<1>1. UNCHANGED <<callback, session, loggedOut, checking>>
  BY DEF Login, Authenticate
<1>2. CASE Login(f)
  <2>1. /\ ~flow[f].begun
        /\ flow' = [flow EXCEPT ![f].begun = TRUE, ![f].expires = now + StateTTL]
    BY <1>2 DEF Login
  <2>2. now + StateTTL \in Nat
    BY TTLAssumption DEF LoginTypes
  <2>3. flow' \in [Flows -> FlowRecord]
    BY <2>1, <2>2 DEF LoginTypes, FlowRecord
  <2>4. LoginTypes'
    BY <1>1, <2>3 DEF LoginTypes
  <2>5. /\ \A g \in Flows \ {f} : flow'[g] = flow[g]
        /\ flow'[f].begun
        /\ flow'[f].subject = flow[f].subject
    BY <2>1 DEF LoginTypes, FlowRecord
  <2>6. FlowInv'
    BY <2>5 DEF FlowInv
  <2>7. CallbackInv'
    <3> SUFFICES ASSUME NEW c \in Callbacks, callback[c].pc # "idle"
                 PROVE  CallbackInv!(c)'
      BY <1>1 DEF CallbackInv
    <3>1. callback[c] \in CallbackRecord /\ callback[c].state # f
      BY <2>1 DEF CallbackInv
    <3>2. callback[c].state \in Flows /\ callback[c].code \in Flows
      BY <3>1 DEF CallbackRecord
    <3>3. flow'[callback[c].state] = flow[callback[c].state]
      BY <2>5, <3>1, <3>2
    <3>4. flow'[callback[c].code].subject = flow[callback[c].code].subject
      BY <2>5, <3>2
    <3> QED
      BY <1>1, <3>1, <3>3, <3>4 DEF CallbackInv
  <2> QED
    BY <1>1, <2>4, <2>6, <2>7 DEF OneCallback, SessionInv
<1>3. ASSUME NEW u \in Subjects, Authenticate(f, u)
      PROVE  LoginInv'
  <2>1. /\ flow[f].subject = NoSubject
        /\ flow' = [flow EXCEPT ![f].subject = u]
    BY <1>3 DEF Authenticate
  <2>3. flow' \in [Flows -> FlowRecord]
    BY <2>1 DEF LoginTypes, FlowRecord
  <2>4. LoginTypes'
    BY <1>1, <2>3 DEF LoginTypes
  <2>5. /\ \A g \in Flows : /\ flow'[g].begun = flow[g].begun
                            /\ flow'[g].expires = flow[g].expires
        /\ \A g \in Flows : flow[g].subject # NoSubject => flow'[g].subject = flow[g].subject
    BY <2>1 DEF LoginTypes, FlowRecord
  <2>6. FlowInv'
    BY <2>5 DEF FlowInv
  <2>7. CallbackInv'
    <3> SUFFICES ASSUME NEW c \in Callbacks, callback[c].pc # "idle"
                 PROVE  CallbackInv!(c)'
      BY <1>1 DEF CallbackInv
    <3>1. callback[c] \in CallbackRecord
      BY DEF CallbackInv
    <3>2. callback[c].state \in Flows /\ callback[c].code \in Flows
      BY <3>1 DEF CallbackRecord
    <3> QED
      BY <1>1, <2>5, <3>1, <3>2 DEF CallbackInv
  <2> QED
    BY <1>1, <2>4, <2>6, <2>7 DEF OneCallback, SessionInv
<1> QED
  BY <1>1, <1>2, <1>3

LEMMA LoginCallback ==
  ASSUME LoginInv, now' = now, NEW c \in Callbacks,
         \/ \E f, g \in Flows : Callback(c, f, g)
         \/ ValidateIdToken(c) \/ MapUser(c)
  PROVE  LoginInv' /\ UNCHANGED checking
<1> USE DEF LoginInv
<1>1. UNCHANGED <<session, loggedOut, checking>>
  BY DEF Callback, ValidateIdToken, MapUser
<1>2. ASSUME NEW f \in Flows, NEW g \in Flows, Callback(c, f, g)
      PROVE  LoginInv'
  <2> DEFINE e == Exchange(c, f, g)
  <2>1. /\ callback[c].pc = "idle"
        /\ flow[g].subject # NoSubject
        /\ flow[f].expires > now
        /\ flow' = [flow EXCEPT ![f].expires = 0]
        /\ callback' = [callback EXCEPT ![c] = e]
    BY <1>2 DEF Callback, Live
  <2>2. e \in CallbackRecord /\ e.pc = "exchange" /\ e.state = f /\ e.code = g
    BY DEF Exchange, CallbackRecord
  <2>3. flow[f].begun /\ flow[f].expires # 0
    BY <2>1 DEF FlowInv, LoginTypes, FlowRecord
  <2>4. LoginTypes'
    <3>1. flow' \in [Flows -> FlowRecord]
      BY <2>1 DEF LoginTypes, FlowRecord
    <3>2. callback' \in [Callbacks -> IdleCallback \cup CallbackRecord]
      BY <2>1, <2>2 DEF LoginTypes
    <3> QED
      BY <1>1, <3>1, <3>2 DEF LoginTypes
  <2>5. \A h \in Flows : /\ flow'[h].begun = flow[h].begun
                         /\ flow'[h].subject = flow[h].subject
                         /\ flow'[h].expires = IF h = f THEN 0 ELSE flow[h].expires
    BY <2>1 DEF LoginTypes, FlowRecord
  <2>6. callback'[c] = e /\ \A d \in Callbacks \ {c} : callback'[d] = callback[d]
    BY <2>1 DEF LoginTypes
  <2>7. FlowInv'
    BY <2>5 DEF FlowInv
  <2>8. CallbackInv'
    <3> SUFFICES ASSUME NEW d \in Callbacks, callback'[d].pc # "idle"
                 PROVE  CallbackInv!(d)'
      BY DEF CallbackInv
    <3>1. CASE d = c
      BY <2>1, <2>2, <2>3, <2>5, <2>6, <3>1
    <3>2. CASE d # c
      <4>1. callback'[d] = callback[d] /\ callback[d] \in CallbackRecord
        BY <2>6, <3>2 DEF CallbackInv
      <4>2. callback[d].state \in Flows /\ callback[d].code \in Flows
        BY <4>1 DEF CallbackRecord
      <4> QED
        BY <2>5, <4>1, <4>2 DEF CallbackInv
    <3> QED
      BY <3>1, <3>2
  <2>9. OneCallback'
    <3>1. \A d \in Callbacks : callback[d].pc # "idle" => callback[d].state # f
      BY <2>3 DEF CallbackInv
    <3> QED
      BY <2>2, <2>6, <3>1 DEF OneCallback
  <2>10. SessionInv'
    <3>1. c \notin loggedOut /\ ~(session[c].expires > 0)
      BY <2>1 DEF SessionInv
    <3> QED
      BY <1>1, <2>6, <3>1 DEF SessionInv
  <2> QED
    BY <2>4, <2>7, <2>8, <2>9, <2>10
<1>3. CASE ValidateIdToken(c) \/ MapUser(c)
  <2> DEFINE x == callback[c]
             y == callback'[c]
  <2>1. x \in CallbackRecord /\ x.pc \in {"exchange", "map"}
    <3>1. x.pc \in {"exchange", "map"}
      BY <1>3 DEF ValidateIdToken, MapUser
    <3> QED
      BY <3>1, CallbackAt
  <2>2. flow' = flow
    BY <1>3 DEF ValidateIdToken, MapUser
  <2>3. \A h \in Flows : flow[h].subject \in Subjects \cup {NoSubject}
    BY DEF LoginTypes, FlowRecord
  <2>4. /\ \A d \in Callbacks \ {c} : callback'[d] = callback[d]
        /\ callback' \in [Callbacks -> IdleCallback \cup CallbackRecord]
        /\ y \in CallbackRecord
        /\ y.state = x.state
        /\ y.pc \in {"map", "session", "refused"}
        /\ y.pc \in {"map", "session"} =>
             /\ y.subject # NoSubject
             /\ y.subject = flow[x.state].subject
    <3>1. CASE ValidateIdToken(c)
      <4>1. PICK pc, u, new : 
              /\ callback' = [callback EXCEPT ![c].pc = pc, ![c].subject = u, ![c].new = new]
              /\ \/ /\ x.code = x.state
                    /\ pc = "map" /\ u = flow[x.code].subject /\ new \in BOOLEAN
                 \/ pc = "refused" /\ u = x.subject /\ new = x.new
        <5>1. CASE callback' = [callback EXCEPT ![c].pc = "refused"]
          <6>1. callback' = [callback EXCEPT ![c].pc = "refused", ![c].subject = x.subject,
                                             ![c].new = x.new]
            BY <2>1, <5>1 DEF LoginTypes, CallbackRecord
          <6> QED
            BY <6>1
        <5>2. CASE ~(callback' = [callback EXCEPT ![c].pc = "refused"])
          BY <3>1, <5>2 DEF ValidateIdToken, Step
        <5> QED
          BY <5>1, <5>2
      <4>2. x.pc = "exchange" /\ flow[x.code].subject # NoSubject
        BY <3>1 DEF ValidateIdToken, CallbackInv
      <4>3. x.code \in Flows
        BY <2>1 DEF CallbackRecord
      <4>4. u \in Subjects \cup {NoSubject} /\ new \in BOOLEAN /\ pc \in {"map", "refused"}
        BY <2>1, <2>3, <4>1, <4>3 DEF CallbackRecord
      <4>5. y = [x EXCEPT !.pc = pc, !.subject = u, !.new = new]
        BY <4>1 DEF LoginTypes
      <4>6. /\ y \in CallbackRecord /\ y.state = x.state /\ y.pc = pc /\ y.subject = u
        BY <2>1, <4>4, <4>5 DEF CallbackRecord
      <4>7. \A d \in Callbacks \ {c} : callback'[d] = callback[d]
        BY <4>1 DEF LoginTypes
      <4>8. DOMAIN callback' = Callbacks /\ callback' = [d \in Callbacks |-> callback'[d]]
        BY <4>1 DEF LoginTypes
      <4>9. callback' \in [Callbacks -> IdleCallback \cup CallbackRecord]
        BY <4>6, <4>7, <4>8 DEF LoginTypes
      <4> QED
        BY <4>1, <4>2, <4>6, <4>7, <4>9
    <3>2. CASE MapUser(c)
      <4>1. PICK pc \in {"session", "refused"} : callback' = [callback EXCEPT ![c].pc = pc]
        BY <3>2 DEF MapUser, Step
      <4>2. x.pc = "map" /\ x.subject # NoSubject /\ x.subject = flow[x.state].subject
        BY <3>2 DEF MapUser, CallbackInv
      <4>3. y = [x EXCEPT !.pc = pc]
        BY <4>1 DEF LoginTypes
      <4>4. y \in CallbackRecord /\ y.state = x.state /\ y.pc = pc /\ y.subject = x.subject
        BY <2>1, <4>3 DEF CallbackRecord
      <4>5. \A d \in Callbacks \ {c} : callback'[d] = callback[d]
        BY <4>1 DEF LoginTypes
      <4>6. callback' = [d \in Callbacks |-> callback'[d]]
        BY <4>1 DEF LoginTypes
      <4>7. callback' \in [Callbacks -> IdleCallback \cup CallbackRecord]
        BY <4>4, <4>5, <4>6 DEF LoginTypes
      <4> QED
        BY <4>2, <4>4, <4>5, <4>7
    <3> QED
      BY <1>3, <3>1, <3>2
  <2>5. LoginTypes' /\ FlowInv'
    BY <1>1, <2>2, <2>4 DEF LoginTypes, FlowInv
  <2>6. CallbackInv'
    <3> SUFFICES ASSUME NEW d \in Callbacks, callback'[d].pc # "idle"
                 PROVE  CallbackInv!(d)'
      BY DEF CallbackInv
    <3>1. CASE d = c
      <4>1. flow[x.state].begun /\ flow[x.state].expires = 0
        BY <2>1 DEF CallbackInv
      <4> QED
        BY <2>2, <2>4, <3>1, <4>1
    <3>2. CASE d # c
      BY <2>2, <2>4, <3>2 DEF CallbackInv
    <3> QED
      BY <3>1, <3>2
  <2>7. OneCallback'
    BY <2>1, <2>4 DEF OneCallback
  <2>8. SessionInv'
    <3>1. c \notin loggedOut /\ ~(session[c].expires > 0)
      BY <2>1 DEF SessionInv
    <3> QED
      BY <1>1, <2>4, <3>1 DEF SessionInv
  <2> QED
    BY <1>1, <2>5, <2>6, <2>7, <2>8
<1> HIDE DEF LoginInv
<1> QED
  BY <1>1, <1>2, <1>3

LEMMA LoginSessions ==
  ASSUME LoginInv, now' = now, NEW c \in Callbacks, CreateSession(c) \/ Logout(c)
  PROVE  LoginInv' /\ UNCHANGED checking
<1> USE DEF LoginInv
<1>1. UNCHANGED <<flow, checking>>
  BY DEF CreateSession, Logout
<1>2. CASE CreateSession(c)
  <2> DEFINE x == callback[c]
             y == callback'[c]
             e == [subject |-> x.subject, expires |-> now + SessionTTL]
  <2>1. /\ x.pc = "session"
        /\ callback' = [callback EXCEPT ![c].pc = "done"]
        /\ session' = [session EXCEPT ![c] = e]
        /\ loggedOut' = loggedOut
    BY <1>2 DEF CreateSession, Step
  <2>2. x \in CallbackRecord
    BY <2>1, CallbackAt
  <2>3. /\ \A d \in Callbacks \ {c} : callback'[d] = callback[d] /\ session'[d] = session[d]
        /\ session'[c] = e
        /\ y = [x EXCEPT !.pc = "done"]
    BY <2>1 DEF LoginTypes
  <2>4. y \in CallbackRecord /\ y.state = x.state /\ y.pc = "done" /\ y.subject = x.subject
    BY <2>2, <2>3 DEF CallbackRecord
  <2>5. e \in SessionRecord
    <3>1. now + SessionTTL \in Nat
      BY TTLAssumption DEF LoginTypes
    <3> QED
      BY <2>2, <3>1 DEF SessionRecord, CallbackRecord
  <2>6. callback' \in [Callbacks -> IdleCallback \cup CallbackRecord]
    <3>1. callback' = [d \in Callbacks |-> callback'[d]]
      BY <2>1 DEF LoginTypes
    <3> QED
      BY <2>3, <2>4, <3>1 DEF LoginTypes
  <2>7. LoginTypes' /\ FlowInv'
    BY <1>1, <2>1, <2>5, <2>6 DEF LoginTypes, FlowInv
  <2>8. CallbackInv'
    <3> SUFFICES ASSUME NEW d \in Callbacks, callback'[d].pc # "idle"
                 PROVE  CallbackInv!(d)'
      BY DEF CallbackInv
    <3>1. CASE d = c
      <4>1. /\ flow[x.state].begun
            /\ flow[x.state].expires = 0
            /\ x.subject # NoSubject
            /\ x.subject = flow[x.state].subject
        BY <2>1 DEF CallbackInv
      <4> QED
        BY <1>1, <2>4, <3>1, <4>1
    <3>2. CASE d # c
      BY <1>1, <2>3, <3>2 DEF CallbackInv
    <3> QED
      BY <3>1, <3>2
  <2>9. OneCallback'
    BY <2>1, <2>3, <2>4 DEF OneCallback
  <2>10. SessionInv'
    <3>1. c \notin loggedOut
      BY <2>1 DEF SessionInv
    <3> QED
      BY <2>1, <2>3, <2>4, <3>1 DEF SessionInv
  <2> QED
    BY <1>1, <2>7, <2>8, <2>9, <2>10
<1>3. CASE Logout(c)
  <2>1. /\ callback[c].pc = "done"
        /\ callback' = callback
        /\ session' = [session EXCEPT ![c] = NoSession]
        /\ loggedOut' = loggedOut \cup {c}
    BY <1>3 DEF Logout
  <2>2. NoSession \in SessionRecord /\ NoSession.expires = 0
    BY DEF NoSession, SessionRecord
  <2>3. LoginTypes' /\ FlowInv'
    BY <1>1, <2>1, <2>2 DEF LoginTypes, FlowInv
  <2>4. CallbackInv' /\ OneCallback'
    BY <1>1, <2>1 DEF CallbackInv, OneCallback
  <2>5. SessionInv'
    <3>1. /\ \A d \in Callbacks \ {c} : session'[d] = session[d]
          /\ session'[c] = NoSession
      BY <2>1 DEF LoginTypes
    <3> QED
      BY <2>1, <2>2, <3>1 DEF SessionInv
  <2> QED
    BY <1>1, <2>3, <2>4, <2>5
<1> HIDE DEF LoginInv
<1> QED
  BY <1>1, <1>2, <1>3

(* The check of a request: only a session whose key is there lives longer, and *)
(* a request that has its token is not checked again.                          *)
LEMMA LoginChecks ==
  ASSUME LoginInv, now' = now, NEW r \in Requests,
         \/ \E c \in Callbacks : Resolve(r, c)
         \/ Touch(r) \/ CurrentUser(r)
  PROVE  /\ LoginInv'
         /\ \A q \in Requests : checking'[q].pc \in {"store", "answered"}
                                 <=> checking[q].pc \in {"store", "answered"}
<1> USE DEF LoginInv
<1>1. UNCHANGED <<flow, callback, loggedOut>>
  BY DEF Resolve, Touch, CurrentUser
<1>2. checking[r].pc \notin {"store", "answered"}
  BY DEF Resolve, Touch, CurrentUser
<1>3. PICK v \in {NoCheck} \cup CheckRecord :
        /\ checking' = [checking EXCEPT ![r] = v]
        /\ v.pc \notin {"store", "answered"}
  <2>1. ASSUME NEW c \in Callbacks, Resolve(r, c)
        PROVE  [pc |-> "touch", session |-> c, subject |-> session[c].subject] \in CheckRecord
    BY DEF LoginTypes, SessionRecord, CheckRecord
  <2>2. CASE \E c \in Callbacks : Resolve(r, c)
    BY <2>1, <2>2 DEF Resolve
  <2>3. ASSUME checking[r].pc \in {"touch", "user"}, NEW pc \in {"user", "authorized"}
        PROVE  /\ [checking[r] EXCEPT !.pc = pc] \in CheckRecord
               /\ [checking[r] EXCEPT !.pc = pc].pc = pc
    <3>1. checking[r] \in CheckRecord
      BY <2>3 DEF LoginTypes, NoCheck
    <3> QED
      BY <3>1 DEF CheckRecord
  <2>4. \A pc : [checking EXCEPT ![r].pc = pc] = [checking EXCEPT ![r] = [checking[r] EXCEPT !.pc = pc]]
    OBVIOUS
  <2>5. CASE Touch(r)
    BY <2>3, <2>4, <2>5 DEF Touch
  <2>6. CASE CurrentUser(r)
    <3>1. NoCheck.pc = "idle"
      BY DEF NoCheck
    <3> QED
      BY <2>3, <2>4, <2>6, <3>1 DEF CurrentUser
  <2> QED
    BY <2>2, <2>5, <2>6
<1>4. /\ session' \in [Callbacks -> SessionRecord]
      /\ \A c \in Callbacks : /\ session'[c].subject = session[c].subject
                              /\ session'[c].expires > 0 => session[c].expires > 0
  <2>1. CASE session' = session
    BY <2>1 DEF LoginTypes
  <2>2. CASE session' # session
    <3>1. Touch(r)
      BY <2>2 DEF Resolve, CurrentUser
    <3> DEFINE c == checking[r].session
    <3>2. /\ session[c].expires > now
          /\ session' = [session EXCEPT ![c].expires = now + SessionTTL]
      BY <2>2, <3>1 DEF Touch, Live
    <3>3. c \in Callbacks
      BY <3>1 DEF Touch, LoginTypes, NoCheck, CheckRecord
    <3>4. now + SessionTTL \in Nat /\ session[c].expires > 0
      BY <3>2, <3>3, TTLAssumption DEF LoginTypes, SessionRecord
    <3> HIDE DEF c
    <3> QED
      BY <3>2, <3>3, <3>4 DEF LoginTypes, SessionRecord
  <2> QED
    BY <2>1, <2>2
<1>5. LoginTypes' /\ FlowInv'
  <2>1. checking' \in [Requests -> {NoCheck} \cup CheckRecord]
    BY <1>3 DEF LoginTypes
  <2> QED
    BY <1>1, <1>4, <2>1 DEF LoginTypes, FlowInv
<1>6. CallbackInv' /\ OneCallback'
  BY <1>1 DEF CallbackInv, OneCallback
<1>7. SessionInv'
  <2> SUFFICES ASSUME NEW c \in Callbacks PROVE SessionInv!(c)'
    BY DEF SessionInv
  <2>1. session[c] \in SessionRecord /\ session'[c] \in SessionRecord
    BY <1>4 DEF LoginTypes
  <2>5. session[c].expires \in Nat /\ session'[c].expires \in Nat
    BY <2>1 DEF SessionRecord
  <2>2. session[c].expires = 0 => session'[c].expires = 0
    BY <1>4, <2>5
  <2>3. c \in loggedOut => callback[c].pc = "done" /\ session'[c].expires = 0
    BY <2>2 DEF SessionInv
  <2>4. session'[c].expires > 0 => callback[c].pc = "done" /\ session'[c].subject = callback[c].subject
    BY <1>4 DEF SessionInv
  <2> QED
    BY <1>1, <2>3, <2>4
<1>8. checking'[r] = v /\ \A q \in Requests : q # r => checking'[q] = checking[q]
  BY <1>3 DEF LoginTypes
<1> HIDE DEF LoginInv
<1> QED
  BY <1>2, <1>3, <1>5, <1>6, <1>7, <1>8 DEF LoginInv

------------------------------------------------------------------------------
(* What happens at the WebSocket leaves sessions and callbacks alone. *)
LEMMA LoginUntouched ==
  ASSUME LoginInv, now' \in Nat, UNCHANGED <<flow, callback, session, loggedOut>>,
         checking' \in [Requests -> {NoCheck} \cup CheckRecord]
  PROVE  LoginInv'
  BY DEF LoginInv, LoginTypes, FlowInv, CallbackInv, OneCallback, SessionInv

(* A token is as it was for whoever has opened a connection with it. *)
LEMMA OpenedUntouched ==
  ASSUME OpenedInv, TokenTypes, UNCHANGED opened,
         \A r \in Requests : token[r] \in Issued =>
           /\ token'[r] \in Issued
           /\ token'[r].expires_at = token[r].expires_at
           /\ token[r].consumed => token'[r].consumed
  PROVE  OpenedInv'
<1>1. \A i \in 1..Len(opened) : opened[i].token \in Requests
  <2>1. \A i \in 1..Len(opened) : opened[i] \in Opening
    BY DEF TokenTypes
  <2> QED
    BY <2>1 DEF Opening
<1>2. \A i \in 1..Len(opened) : /\ token'[opened[i].token] \in Issued
                                /\ token'[opened[i].token].consumed
                                /\ opened[i].at < token'[opened[i].token].expires_at
  BY <1>1 DEF OpenedInv
<1> QED
  BY <1>2 DEF OpenedInv

(* A request is given a token after its check, and only then. *)
LEMMA TokenIssue ==
  ASSUME IndInv, NEW r \in Requests, NEW k \in Conversations, Issue(r, k)
  PROVE  IndInv'
<1> DEFINE e == [expires |-> 0, expires_at |-> now + TokenTTL,
                 consumed |-> FALSE, conversation |-> k]
<1>1. /\ checking[r].pc = "authorized"
      /\ token' = [token EXCEPT ![r] = e]
      /\ checking' = [checking EXCEPT ![r].pc = "store"]
      /\ UNCHANGED <<now, flow, callback, session, loggedOut, pending, opened>>
  BY DEF Issue
<1>2. e \in Issued
  BY TokenTTLAssumption DEF Issued, IndInv, LoginInv, LoginTypes
<1>3. token[r] \notin Issued
  BY <1>1 DEF IndInv, TokenInv
<1>4. /\ \A q \in Requests \ {r} : token'[q] = token[q] /\ checking'[q] = checking[q]
      /\ token'[r] = e
      /\ checking'[r] = [checking[r] EXCEPT !.pc = "store"]
  BY <1>1 DEF IndInv, LoginInv, LoginTypes, TokenTypes
<1>5. checking[r] \in CheckRecord
  BY <1>1 DEF IndInv, LoginInv, LoginTypes, NoCheck
<1>6. checking'[r] \in CheckRecord /\ checking'[r].pc = "store"
  BY <1>4, <1>5 DEF CheckRecord
<1>7. LoginInv'
  <2>1. checking' = [q \in Requests |-> checking'[q]]
    BY <1>1 DEF IndInv, LoginInv, LoginTypes
  <2>2. checking' \in [Requests -> {NoCheck} \cup CheckRecord]
    BY <1>4, <1>6, <2>1 DEF IndInv, LoginInv, LoginTypes
  <2> QED
    BY <1>1, <2>2, LoginUntouched DEF IndInv, LoginInv, LoginTypes
<1>8. TokenTypes'
  BY <1>1, <1>2 DEF IndInv, TokenTypes
<1>9. TokenInv'
  BY <1>1, <1>2, <1>4, <1>6 DEF IndInv, TokenInv
<1>10. OpenedInv'
  BY <1>1, <1>3, <1>4, OpenedUntouched DEF IndInv
<1> QED
  BY <1>7, <1>8, <1>9, <1>10 DEF IndInv

LEMMA TokenStore ==
  ASSUME IndInv, NEW r \in Requests, Store(r)
  PROVE  IndInv'
<1>1. /\ checking[r].pc = "store"
      /\ checking' = [checking EXCEPT ![r].pc = "answered"]
      /\ UNCHANGED <<now, flow, callback, session, loggedOut, pending, opened>>
  BY DEF Store
<1>2. /\ \A q \in Requests \ {r} : checking'[q] = checking[q]
      /\ checking'[r] = [checking[r] EXCEPT !.pc = "answered"]
  BY <1>1 DEF IndInv, LoginInv, LoginTypes
<1>3. checking[r] \in CheckRecord
  BY <1>1 DEF IndInv, LoginInv, LoginTypes, NoCheck
<1>4. checking'[r] \in CheckRecord /\ checking'[r].pc = "answered"
  BY <1>2, <1>3 DEF CheckRecord
<1>5. LoginInv'
  <2>1. checking' = [q \in Requests |-> checking'[q]]
    BY <1>1 DEF IndInv, LoginInv, LoginTypes
  <2>2. checking' \in [Requests -> {NoCheck} \cup CheckRecord]
    BY <1>2, <1>4, <2>1 DEF IndInv, LoginInv, LoginTypes
  <2> QED
    BY <1>1, <2>2, LoginUntouched DEF IndInv, LoginInv, LoginTypes
<1>6. /\ TokenTypes'
      /\ \A q \in Requests : token[q] \in Issued =>
           /\ token'[q] \in Issued
           /\ token'[q].expires_at = token[q].expires_at
           /\ token[q].consumed => token'[q].consumed
      /\ \A q \in Requests : token'[q] \in Issued => token[q] \in Issued \/ q = r
  <2>1. CASE token' = token
    BY <1>1, <2>1 DEF IndInv, TokenTypes
  <2>2. CASE token' # token
    <3>1. token' = [token EXCEPT ![r].expires = now + TokenTTL]
      BY <2>2 DEF Store
    <3>2. token[r] \in Issued
      BY <1>1 DEF IndInv, TokenInv
    <3>3. now + TokenTTL \in Nat
      BY TokenTTLAssumption DEF IndInv, LoginInv, LoginTypes
    <3>4. /\ \A q \in Requests \ {r} : token'[q] = token[q]
          /\ token'[r] = [token[r] EXCEPT !.expires = now + TokenTTL]
          /\ token' = [q \in Requests |-> token'[q]]
      BY <3>1 DEF IndInv, TokenTypes
    <3>5. /\ token'[r] \in Issued
          /\ token'[r].expires_at = token[r].expires_at
          /\ token'[r].consumed = token[r].consumed
      BY <3>2, <3>3, <3>4 DEF Issued
    <3>6. token' \in [Requests -> {NoToken} \cup Issued]
      BY <3>4, <3>5 DEF IndInv, TokenTypes
    <3> QED
      BY <1>1, <3>4, <3>5, <3>6 DEF IndInv, TokenTypes
  <2> QED
    BY <2>1, <2>2
<1>7. TokenInv'
  BY <1>1, <1>2, <1>4, <1>6 DEF IndInv, TokenInv
<1>8. OpenedInv'
  BY <1>1, <1>6, OpenedUntouched DEF IndInv
<1> QED
  BY <1>5, <1>6, <1>7, <1>8 DEF IndInv

LEMMA TokenPop ==
  ASSUME IndInv, NEW r \in Requests, NEW k \in Conversations, Pop(r, k)
  PROVE  IndInv'
<1>1. /\ token[r].expires > now
      /\ token' = [token EXCEPT ![r].expires = 0]
      /\ pending' \subseteq pending \cup {r}
      /\ UNCHANGED <<now, flow, callback, session, loggedOut, checking, opened>>
  BY DEF Pop, Live, loginVars
<1>2. token[r] \in Issued
  <2>1. ~(NoToken.expires > now)
    BY DEF NoToken, IndInv, LoginInv, LoginTypes
  <2> QED
    BY <1>1, <2>1 DEF IndInv, TokenTypes
<1>3. /\ \A q \in Requests \ {r} : token'[q] = token[q]
      /\ token'[r] = [token[r] EXCEPT !.expires = 0]
      /\ token' = [q \in Requests |-> token'[q]]
  BY <1>1 DEF IndInv, TokenTypes
<1>4. /\ token'[r] \in Issued
      /\ token'[r].expires_at = token[r].expires_at
      /\ token'[r].consumed = token[r].consumed
  BY <1>2, <1>3 DEF Issued
<1>5. LoginInv'
  BY <1>1, LoginUntouched DEF IndInv, LoginInv, LoginTypes
<1>6. TokenTypes'
  BY <1>1, <1>3, <1>4 DEF IndInv, TokenTypes
<1>7. TokenInv'
  BY <1>1, <1>2, <1>3, <1>4 DEF IndInv, TokenInv
<1>8. OpenedInv'
  BY <1>1, <1>3, <1>4, OpenedUntouched DEF IndInv
<1> QED
  BY <1>5, <1>6, <1>7, <1>8 DEF IndInv

(* The row decides: whoever has opened has consumed it. *)
LEMMA TokenConsume ==
  ASSUME IndInv, NEW r \in Requests, Consume(r)
  PROVE  IndInv'
<1> DEFINE e == [token |-> r, at |-> now]
<1>1. /\ r \in pending
      /\ pending' = pending \ {r}
      /\ UNCHANGED <<now, flow, callback, session, loggedOut, checking>>
  BY DEF Consume, loginVars
<1>2. token[r] \in Issued
  BY <1>1 DEF IndInv, TokenInv
<1>3. LoginInv'
  BY <1>1, LoginUntouched DEF IndInv, LoginInv, LoginTypes
<1>4. CASE UNCHANGED <<token, opened>>
  <2>1. TokenTypes' /\ TokenInv'
    BY <1>1, <1>4 DEF IndInv, TokenTypes, TokenInv
  <2>2. OpenedInv'
    BY <1>4, OpenedUntouched DEF IndInv
  <2> QED
    BY <1>3, <2>1, <2>2 DEF IndInv
<1>5. CASE ~token[r].consumed /\ token[r].expires_at > now /\ Accept(r)
  <2>1. /\ token' = [token EXCEPT ![r].consumed = TRUE]
        /\ opened' = Append(opened, e)
    BY <1>5 DEF Accept
  <2>2. /\ \A q \in Requests \ {r} : token'[q] = token[q]
        /\ token'[r] = [token[r] EXCEPT !.consumed = TRUE]
        /\ token' = [q \in Requests |-> token'[q]]
    BY <2>1 DEF IndInv, TokenTypes
  <2>3. /\ token'[r] \in Issued
        /\ token'[r].expires_at = token[r].expires_at
        /\ token'[r].consumed
    BY <1>2, <2>2 DEF Issued
  <2>4. e \in Opening /\ e.token = r /\ e.at = now
    BY DEF Opening, IndInv, LoginInv, LoginTypes
  <2>5. TokenTypes'
    BY <1>1, <2>1, <2>2, <2>3, <2>4 DEF IndInv, TokenTypes
  <2>6. TokenInv'
    BY <1>1, <1>2, <2>2, <2>3 DEF IndInv, TokenInv
  <2>7. /\ Len(opened) \in Nat
        /\ Len(opened') = Len(opened) + 1
        /\ opened'[Len(opened) + 1] = e
        /\ \A i \in 1..Len(opened) : opened'[i] = opened[i] /\ opened[i].token \in Requests
    <3> HIDE DEF e
    <3>1. opened \in Seq(Opening) /\ e \in Opening
      BY <2>4 DEF IndInv, TokenTypes
    <3>2. \A i \in 1..Len(opened) : opened[i] \in Opening /\ opened'[i] = opened[i]
      BY <2>1, <3>1
    <3>3. \A i \in 1..Len(opened) : opened[i].token \in Requests
      BY <3>2 DEF Opening
    <3>4. /\ Len(opened) \in Nat
          /\ Len(opened') = Len(opened) + 1
          /\ opened'[Len(opened) + 1] = e
      BY <2>1, <3>1
    <3> QED
      BY <3>2, <3>3, <3>4
  <2>8. \A i \in 1..Len(opened) : /\ opened[i].token # r
                                  /\ token'[opened[i].token] = token[opened[i].token]
    BY <1>5, <2>2, <2>7 DEF IndInv, OpenedInv
  <2>9. \A i \in 1..(Len(opened) + 1) : i \in 1..Len(opened) \/ i = Len(opened) + 1
    BY <2>7
  <2>10. now < token'[r].expires_at
    BY <1>2, <1>5, <2>3 DEF Issued, IndInv, LoginInv, LoginTypes
  <2>11. \A i \in 1..Len(opened') : /\ token'[opened'[i].token] \in Issued
                                    /\ token'[opened'[i].token].consumed
                                    /\ opened'[i].at < token'[opened'[i].token].expires_at
    <3> SUFFICES ASSUME NEW i \in 1..Len(opened')
                 PROVE  /\ token'[opened'[i].token] \in Issued
                        /\ token'[opened'[i].token].consumed
                        /\ opened'[i].at < token'[opened'[i].token].expires_at
      OBVIOUS
    <3>1. CASE i \in 1..Len(opened)
      BY <2>7, <2>8, <3>1 DEF IndInv, OpenedInv
    <3>2. CASE i = Len(opened) + 1
      BY <2>3, <2>4, <2>7, <2>10, <3>2
    <3> QED
      BY <2>7, <2>9, <3>1, <3>2
  <2>12. \A i, j \in 1..Len(opened') : opened'[i].token = opened'[j].token => i = j
    BY <2>4, <2>7, <2>8, <2>9 DEF IndInv, OpenedInv
  <2> QED
    BY <1>3, <2>5, <2>6, <2>11, <2>12 DEF IndInv, OpenedInv
<1> QED
  BY <1>4, <1>5 DEF Consume

------------------------------------------------------------------------------
LEMMA IndInvStep == IndInv /\ [Next]_vars => IndInv'
<1> SUFFICES ASSUME IndInv, [Next]_vars PROVE IndInv'
  OBVIOUS
<1>1. ASSUME LoginInv', UNCHANGED tokenVars,
             \A q \in Requests : checking'[q].pc \in {"store", "answered"}
                                 <=> checking[q].pc \in {"store", "answered"}
      PROVE  IndInv'
  BY <1>1 DEF IndInv, tokenVars, TokenTypes, TokenInv, OpenedInv
<1>2. CASE Tick /\ UNCHANGED <<loginVars, tokenVars>>
  <2>1. now' \in Nat
    BY <1>2 DEF Tick, IndInv, LoginInv, LoginTypes
  <2>2. UNCHANGED <<flow, callback, session, loggedOut, checking>>
    BY <1>2 DEF loginVars
  <2>3. LoginInv'
    BY <2>1, <2>2, LoginUntouched DEF IndInv, LoginInv, LoginTypes
  <2> QED
    BY <1>1, <1>2, <2>2, <2>3
<1>3. CASE LoginNext /\ UNCHANGED <<now, tokenVars>>
  <2>1. LoginInv
    BY DEF IndInv
  <2>2. ASSUME NEW f \in Flows, Login(f) \/ \E u \in Subjects : Authenticate(f, u)
        PROVE  IndInv'
    BY <1>1, <1>3, <2>1, <2>2, LoginFlow
  <2>3. ASSUME NEW c \in Callbacks,
               \/ \E f, g \in Flows : Callback(c, f, g)
               \/ ValidateIdToken(c) \/ MapUser(c)
        PROVE  IndInv'
    BY <1>1, <1>3, <2>1, <2>3, LoginCallback
  <2>4. ASSUME NEW c \in Callbacks, CreateSession(c) \/ Logout(c)
        PROVE  IndInv'
    BY <1>1, <1>3, <2>1, <2>4, LoginSessions
  <2>5. ASSUME NEW r \in Requests,
               \/ \E c \in Callbacks : Resolve(r, c)
               \/ Touch(r) \/ CurrentUser(r)
        PROVE  IndInv'
    BY <1>1, <1>3, <2>1, <2>5, LoginChecks
  <2> QED
    BY <1>3, <2>2, <2>3, <2>4, <2>5 DEF LoginNext
<1>4. ASSUME NEW k \in Conversations, DeleteConversation(k)
      PROVE  IndInv'
  <2>1. UNCHANGED <<now, loginVars, token, pending, opened>>
    BY <1>4 DEF DeleteConversation
  <2>2. LoginInv'
    BY <2>1, LoginUntouched DEF loginVars, IndInv, LoginInv, LoginTypes
  <2> QED
    BY <2>1, <2>2 DEF loginVars, IndInv, TokenTypes, TokenInv, OpenedInv
<1>5. CASE UNCHANGED vars
  <2>1. UNCHANGED <<now, loginVars, tokenVars>>
    BY <1>5 DEF vars
  <2>2. LoginInv'
    BY <2>1, LoginUntouched DEF loginVars, IndInv, LoginInv, LoginTypes
  <2> QED
    BY <1>1, <2>1, <2>2 DEF loginVars
<1> QED
  BY <1>2, <1>3, <1>4, <1>5, TokenIssue, TokenStore, TokenPop, TokenConsume DEF Next

THEOREM AccessIndInv == Spec => []IndInv
<1> QED
  BY IndInvInit, IndInvStep, PTL DEF Spec

(* Once a logout has been answered the session stays revoked, also when a     *)
(* request of the same session was being checked: the expiry is renewed only  *)
(* where the key still exists (session_service.py:22-29).                     *)
THEOREM LogoutIsFinal == Spec => []LoggedOutStaysOut
<1>1. IndInv => LoggedOutStaysOut
  BY DEF IndInv, LoginInv, LoginTypes, SessionInv, LoggedOutStaysOut, Live
<1> QED
  BY <1>1, AccessIndInv, PTL

(* However often the callback of an authorization request is called, and      *)
(* whatever the other callbacks do at the same time, one session at most comes *)
(* of it (oidc_service.py:73).                                                 *)
THEOREM StateIsUsedOnce == Spec => []OneLoginPerState
<1>1. IndInv => OneLoginPerState
  BY DEF IndInv, LoginInv, OneCallback, OneLoginPerState
<1> QED
  BY <1>1, AccessIndInv, PTL

(* A session is of the user who authenticated in the flow it was begun with   *)
(* (oidc_service.py:176-178).                                                  *)
THEOREM SessionIsOfItsFlow == Spec => []SessionOfItsFlow
<1>1. ASSUME IndInv, NEW c \in Callbacks, Live(session[c])
      PROVE  session[c].subject = flow[callback[c].state].subject
  <2>1. session[c].expires > 0
    BY <1>1 DEF IndInv, LoginInv, LoginTypes, SessionRecord, Live
  <2>2. callback[c].pc = "done" /\ session[c].subject = callback[c].subject
    BY <1>1, <2>1 DEF IndInv, LoginInv, SessionInv
  <2> QED
    BY <1>1, <2>2 DEF IndInv, LoginInv, CallbackInv
<1>2. IndInv => SessionOfItsFlow
  BY <1>1 DEF SessionOfItsFlow
<1> QED
  BY <1>2, AccessIndInv, PTL

(* A token opens one connection at most, before its row expires, whichever    *)
(* connections present it and however late its key was stored                 *)
(* (websocket_token_service.py:41-60, 107-123).                               *)
THEOREM TokenIsUsedOnce == Spec => []TokenOpensOnce
<1>1. IndInv => TokenOpensOnce
  BY DEF IndInv, TokenTypes, OpenedInv, TokenOpensOnce
<1> QED
  BY <1>1, AccessIndInv, PTL

===============================================================================
