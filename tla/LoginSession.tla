------------------------------ MODULE LoginSession ------------------------------
(***************************************************************************)
(* Login and the sessions it creates: the authorization request and its      *)
(* callback (services/oidc_service.py, auth_service.py, api/auth.py), the    *)
(* session in Redis (session_service.py), and the check every request begins *)
(* with (dependencies/auth.py).                                              *)
(*                                                                           *)
(* The clock counts ticks; a key of Redis is there while its expiry is later *)
(* than now, 0 standing for a key that is not set.  A flow stands for a      *)
(* state and for the nonce and the verifier stored under it.                 *)
(***************************************************************************)
EXTENDS Naturals, FiniteSets

CONSTANTS Flows,      \* authorization requests
          Subjects,   \* users of the identity provider
          Callbacks,  \* callback requests; each names the session it may create
          Requests,   \* requests of the API that may be under way at once
          StateTTL,   \* oidc_state_ttl_seconds, in ticks
          SessionTTL, \* session_ttl_seconds, in ticks
          MaxTime     \* bound: ticks of the clock

ASSUME TTLAssumption == StateTTL \in Nat \ {0} /\ SessionTTL \in Nat \ {0}

NoSubject == "nobody"

ASSUME SubjectsAssumption == NoSubject \notin Subjects

VARIABLES now,
          flow,      \* [expires, begun, subject]: the key, and who authenticated
          users,     \* the status of each subject's row, or "none"
          callback,  \* [pc, state, code, subject, new] of each callback
          session,   \* [subject, expires] of the session each callback creates
          loggedOut, \* the sessions whose logout was answered
          checking   \* the check of each request: [pc, session, subject]

loginVars == <<flow, users, callback, session, loggedOut, checking>>

Live(key) == key.expires > now

NoSession == [subject |-> NoSubject, expires |-> 0]

NoCheck == [pc |-> "idle"]

LoginInit ==
  /\ now = 0
  /\ flow = [f \in Flows |-> [expires |-> 0, begun |-> FALSE, subject |-> NoSubject]]
  /\ users \in [Subjects -> {"none", "disabled"}]
  /\ callback = [c \in Callbacks |-> [pc |-> "idle"]]
  /\ session = [c \in Callbacks |-> NoSession]
  /\ loggedOut = {}
  /\ checking = [r \in Requests |-> NoCheck]

Tick == now < MaxTime /\ now' = now + 1

------------------------------------------------------------------------------
(* create_authorization_url *)
Login(f) ==
  /\ ~flow[f].begun
  /\ flow' = [flow EXCEPT ![f].begun = TRUE, ![f].expires = now + StateTTL]
  /\ UNCHANGED <<users, callback, session, loggedOut, checking>>

(* the identity provider: a user authenticates and is sent back with a code *)
Authenticate(f, u) ==
  /\ flow[f].begun
  /\ flow[f].subject = NoSubject
  /\ flow' = [flow EXCEPT ![f].subject = u]
  /\ UNCHANGED <<users, callback, session, loggedOut, checking>>

Step(c, pc) == callback' = [callback EXCEPT ![c].pc = pc]

(* exchange_code: GETDEL of the state.  A browser may present a code that     *)
(* belongs to another of its flows, or the same state twice.                  *)
Exchange(c, f, g) ==
  [pc |-> "exchange", state |-> f, code |-> g,
   subject |-> NoSubject, new |-> FALSE]

(* Mutant: GET of the state. *)
Callback_Keeps(c, f, g) ==
  /\ callback[c].pc = "idle"
  /\ flow[g].subject # NoSubject
  /\ Live(flow[f])
  /\ callback' = [callback EXCEPT ![c] = Exchange(c, f, g)]
  /\ UNCHANGED <<flow, users, session, loggedOut, checking>>

Callback(c, f, g) ==
  /\ callback[c].pc = "idle"
  /\ flow[g].subject # NoSubject
  /\ Live(flow[f])
  /\ flow' = [flow EXCEPT ![f].expires = 0]
  /\ callback' = [callback EXCEPT ![c] = Exchange(c, f, g)]
  /\ UNCHANGED <<users, session, loggedOut, checking>>

(* The ID token of the code, which the provider is not relied upon to give    *)
(* only once: refused by its nonce, or because the provider or its keys cannot *)
(* be reached.  get_by_external_id then reads the user.                       *)
(* Mutant: the nonce is not compared. *)
ValidateIdToken_AnyNonce(c) ==
  /\ callback[c].pc = "exchange"
  /\ callback' = [callback EXCEPT ![c].pc = "map",
                    ![c].subject = flow[callback[c].code].subject,
                    ![c].new = users[flow[callback[c].code].subject] = "none"]
  /\ UNCHANGED <<flow, users, session, loggedOut, checking>>

ValidateIdToken(c) ==
  /\ callback[c].pc = "exchange"
  /\ \/ /\ callback[c].code = callback[c].state
        /\ LET u == flow[callback[c].code].subject
           IN  callback' = [callback EXCEPT ![c].pc = "map", ![c].subject = u,
                                            ![c].new = users[u] = "none"]
     \/ Step(c, "refused")
  /\ UNCHANGED <<flow, users, session, loggedOut, checking>>

(* map_user commits: of two first logins the second meets the unique key *)
MapUser(c) ==
  /\ callback[c].pc = "map"
  /\ LET u == callback[c].subject IN
     \/ /\ callback[c].new
        /\ users[u] = "none"
        /\ users' = [users EXCEPT ![u] = "active"]
        /\ Step(c, "session")
     \/ /\ callback[c].new
        /\ users[u] # "none"
        /\ Step(c, "refused")
        /\ UNCHANGED users
     \/ /\ ~callback[c].new
        /\ Step(c, "session")
        /\ UNCHANGED users
  /\ UNCHANGED <<flow, session, loggedOut, checking>>

(* session_service.create, and the cookie *)
CreateSession(c) ==
  /\ callback[c].pc = "session"
  /\ Step(c, "done")
  /\ session' = [session EXCEPT ![c] = [subject |-> callback[c].subject,
                                        expires |-> now + SessionTTL]]
  /\ UNCHANGED <<flow, users, loggedOut, checking>>

------------------------------------------------------------------------------
(* resolve: GET, and then EXPIRE, which does nothing for a key that is gone *)
Resolve(r, c) ==
  /\ checking[r].pc = "idle"
  /\ callback[c].pc = "done"
  /\ Live(session[c])
  /\ checking' = [checking EXCEPT ![r] = [pc |-> "touch", session |-> c,
                                          subject |-> session[c].subject]]
  /\ UNCHANGED <<flow, users, callback, session, loggedOut>>

(* Mutant: the session is stored again. *)
Touch_Stores(r) ==
  /\ checking[r].pc = "touch"
  /\ session' = [session EXCEPT ![checking[r].session] =
                   [subject |-> checking[r].subject, expires |-> now + SessionTTL]]
  /\ checking' = [checking EXCEPT ![r].pc = "user"]
  /\ UNCHANGED <<flow, users, callback, loggedOut>>

Touch(r) ==
  /\ checking[r].pc = "touch"
  /\ session' = IF Live(session[checking[r].session])
                THEN [session EXCEPT ![checking[r].session].expires = now + SessionTTL]
                ELSE session
  /\ checking' = [checking EXCEPT ![r].pc = "user"]
  /\ UNCHANGED <<flow, users, callback, loggedOut>>

(* get_current_user: the row must be active *)
CurrentUser(r) ==
  /\ checking[r].pc = "user"
  /\ checking' = IF users[checking[r].subject] = "active"
                 THEN [checking EXCEPT ![r].pc = "authorized"]
                 ELSE [checking EXCEPT ![r] = NoCheck]
  /\ UNCHANGED <<flow, users, callback, session, loggedOut>>

(* logout: DEL, whoever asks *)
Logout(c) ==
  /\ callback[c].pc = "done"
  /\ c \notin loggedOut
  /\ session' = [session EXCEPT ![c] = NoSession]
  /\ loggedOut' = loggedOut \cup {c}
  /\ UNCHANGED <<flow, users, callback, checking>>

LoginNext ==
  \/ \E f \in Flows : Login(f) \/ \E u \in Subjects : Authenticate(f, u)
  \/ \E c \in Callbacks :
       \/ \E f, g \in Flows : Callback(c, f, g)
       \/ ValidateIdToken(c) \/ MapUser(c) \/ CreateSession(c) \/ Logout(c)
  \/ \E r \in Requests :
       \/ \E c \in Callbacks : Resolve(r, c)
       \/ Touch(r) \/ CurrentUser(r)

------------------------------------------------------------------------------
(* Properties *)

(* An authorization request leads to one session at most, however often its   *)
(* callback is called (oidc_service.py:73, README.md:146).                    *)
OneLoginPerState == \A c, d \in Callbacks :
  /\ callback[c].pc = "done"
  /\ callback[d].pc = "done"
  /\ callback[c].state = callback[d].state
  => c = d

(* A session is of the user who authenticated in the flow it was begun with,  *)
(* whichever code the callback brought (oidc_service.py:176-178).             *)
SessionOfItsFlow == \A c \in Callbacks :
  Live(session[c]) => session[c].subject = flow[callback[c].state].subject

(* Once a logout has been answered the session stays revoked, also when a     *)
(* request of the same session was being checked (session_service.py:22-29).  *)
LoggedOutStaysOut == \A c \in loggedOut : ~Live(session[c])

===============================================================================
