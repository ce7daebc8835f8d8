----------------------------- MODULE WebsocketToken -----------------------------
(***************************************************************************)
(* The token that opens a WebSocket (services/websocket_token_service.py):   *)
(* issued to a request that has passed the check of LoginSession, stored in a *)
(* row and then in Redis, and consumed by the first connection that presents *)
(* it (api/websocket.py).                                                    *)
(***************************************************************************)
EXTENDS LoginSession, Sequences

CONSTANTS Conversations,
          TokenTTL    \* websocket_token_ttl_seconds, in ticks

ASSUME TokenTTLAssumption == TokenTTL \in Nat \ {0}

VARIABLES owner,    \* the user of each conversation; NoSubject when it is deleted
          token,    \* [expires, expires_at, consumed, conversation]: the key and
                    \* the row of the token each request is given
          pending,  \* connections that hold what GETDEL gave them
          opened    \* the connections that were accepted, in order

tokenVars == <<owner, token, pending, opened>>
vars == <<now, loginVars, tokenVars>>

NoToken == [expires |-> 0]

Init == /\ LoginInit
        /\ owner \in [Conversations -> Subjects]
        /\ token = [r \in Requests |-> NoToken]
        /\ pending = {}
        /\ opened = <<>>

(* issue: the conversation is the user's and not deleted; the row is committed *)
Issue(r, k) ==
  /\ checking[r].pc = "authorized"
  /\ owner[k] = checking[r].subject
  /\ token' = [token EXCEPT ![r] = [expires |-> 0, expires_at |-> now + TokenTTL,
                                    consumed |-> FALSE, conversation |-> k]]
  /\ checking' = [checking EXCEPT ![r].pc = "store"]
  /\ UNCHANGED <<now, flow, users, callback, session, loggedOut, owner, pending, opened>>

(* SETEX, or Redis cannot be reached: the row stays *)
Store(r) ==
  /\ checking[r].pc = "store"
  /\ \/ token' = [token EXCEPT ![r].expires = now + TokenTTL]
     \/ UNCHANGED token
  /\ checking' = [checking EXCEPT ![r].pc = "answered"]
  /\ UNCHANGED <<now, flow, users, callback, session, loggedOut, owner, pending, opened>>

(* consume: GETDEL; a connection to another conversation has used the token up *)
Pop(r, k) ==
  /\ Live(token[r])
  /\ token' = [token EXCEPT ![r].expires = 0]
  /\ pending' = IF k = token[r].conversation THEN pending \cup {r} ELSE pending
  /\ UNCHANGED <<now, loginVars, owner, opened>>

Accept(r) ==
  /\ token' = [token EXCEPT ![r].consumed = TRUE]
  /\ opened' = Append(opened, [token |-> r, at |-> now])

(* Mutant: the key of Redis is trusted. *)
Consume_TrustsKey(r) ==
  /\ r \in pending
  /\ pending' = pending \ {r}
  /\ Accept(r)
  /\ UNCHANGED <<now, loginVars, owner>>

Consume(r) ==
  /\ r \in pending
  /\ pending' = pending \ {r}
  /\ \/ /\ ~token[r].consumed
        /\ token[r].expires_at > now
        /\ Accept(r)
     \/ /\ token[r].consumed \/ token[r].expires_at <= now
        /\ UNCHANGED <<token, opened>>
  /\ UNCHANGED <<now, loginVars, owner>>

(* the conversation is deleted (Conversations) *)
DeleteConversation(k) ==
  /\ owner[k] # NoSubject
  /\ owner' = [owner EXCEPT ![k] = NoSubject]
  /\ UNCHANGED <<now, loginVars, token, pending, opened>>

Next ==
  \/ Tick /\ UNCHANGED <<loginVars, tokenVars>>
  \/ LoginNext /\ UNCHANGED <<now, tokenVars>>
  \/ \E r \in Requests :
       \/ \E k \in Conversations : Issue(r, k) \/ Pop(r, k)
       \/ Store(r) \/ Consume(r)
  \/ \E k \in Conversations : DeleteConversation(k)

Spec == Init /\ [][Next]_vars

------------------------------------------------------------------------------
(* Properties *)

(* A token opens one connection at most, before its row expires, although the *)
(* key in Redis is written later than the row and lives as long after it      *)
(* (websocket_token_service.py:41-60, 107-123; README.md:162).                 *)
TokenOpensOnce ==
  /\ \A i, j \in DOMAIN opened : opened[i].token = opened[j].token => i = j
  /\ \A i \in DOMAIN opened : opened[i].at < token[opened[i].token].expires_at

===============================================================================
