------------------------------- MODULE DataAgent -------------------------------
(***************************************************************************)
(* One call of the db_query tool: the client (agent/tools/db_query.py) posts *)
(* the question to the Data Agent and posts it again when the answer is a    *)
(* server error or does not come in time; the service                        *)
(* (data_agent/service.py) has a statement generated, or takes its own       *)
(* controlled one, checks it, executes it, and has it generated once more    *)
(* when it does not fit the objective or the database rejects it.  A request *)
(* the client has given up goes on at the server.                            *)
(*                                                                           *)
(* A month is written [year, month], 0 standing for a part that is not       *)
(* written (or that the regular expressions do not see).                     *)
(***************************************************************************)
EXTENDS Integers, FiniteSetsExt, SequencesExt

CONSTANTS Attempts,    \* range(3) of the client
          Questions,   \* the month named by the user: [year, month, padded]
          Plans,       \* the month named by the model's plan: [year, month]
          Todays       \* the date: [year, month]

ASSUME AttemptsAssumption == Attempts \in Nat \ {0}

(* what the regular expressions and the calendar let through *)
ASSUME MonthsAssumption == /\ Questions \subseteq [year : Nat, month : 0..12, padded : BOOLEAN]
                           /\ Plans \subseteq [year : Nat, month : 0..12]
                           /\ Todays \subseteq [year : Nat, month : 1..12]

VARIABLES situation,  \* what the question, the objective and the settings are like
          requests,   \* the handlers of the posted requests, in order
          client,     \* "post", "wait", "sleep" or, at the end, "ok" or "error"
          accepted    \* the statement whose rows the tool took

vars == <<situation, requests, client, accepted>>

Posts == Len(requests)

------------------------------------------------------------------------------
(* _sales_channel_comparison_sql *)

(* "06" is a month to the user and not to the regular expressions *)
Seen(question) == [year |-> question.year,
                   month |-> IF question.padded THEN 0 ELSE question.month]

(* the first year with a month, or else the first month, of this year *)
Target(texts, today) ==
  LET dated == {i \in DOMAIN texts : texts[i].year # 0 /\ texts[i].month # 0}
      months == {i \in DOMAIN texts : texts[i].month # 0}
  IN  IF dated # {} THEN texts[Min(dated)]
      ELSE IF months # {} THEN [year |-> today.year, month |-> texts[Min(months)].month]
      ELSE today

NextMonth(m) == IF m.month = 12 THEN [year |-> m.year + 1, month |-> 1]
                ELSE [m EXCEPT !.month = @ + 1]

(* Mutant: January's previous month is in the same year. *)
PreviousMonth_SameYear(m) == [m EXCEPT !.month = IF @ = 1 THEN 12 ELSE @ - 1]

PreviousMonth(m) == IF m.month = 1 THEN [year |-> m.year - 1, month |-> 12]
                    ELSE [m EXCEPT !.month = @ - 1]

(* half-open intervals, by their first days *)
Comparison(target) ==
  [current |-> <<target, NextMonth(target)>>, previous |-> <<PreviousMonth(target), target>>]

------------------------------------------------------------------------------
(* statements *)

(* a statement of the model passes the check of read-only SQL or not, and     *)
(* fits the objective or not                                                  *)
Generated == [kind : {"generated"}, safe : BOOLEAN, fits : BOOLEAN]

NoSql == [kind |-> "none", safe |-> FALSE, fits |-> FALSE]

(* the service's own statement, for the question or for the whole objective *)
Own(kind, texts) ==
  [kind |-> kind, safe |-> TRUE, fits |-> situation.fits,
   compares |-> Comparison(Target(texts, situation.today))]

Controlled == Own("controlled", <<Seen(situation.question)>>)

(* the objective quotes the question and then states the plan's period *)
Fallback == Own("fallback", <<Seen(situation.question), situation.plan>>)

Same(a, b) == IF "compares" \in DOMAIN a /\ "compares" \in DOMAIN b
              THEN a.compares = b.compares
              ELSE FALSE

(* "route": the question has the terms of the controlled route.  "quoted":    *)
(* the objective has them, as it has when the question it quotes has.         *)
(* "fits": the controlled statement passes the intent check of the objective, *)
(* which may name products or stock as well.                                  *)
Situations ==
  {s \in [route : BOOLEAN, quoted : BOOLEAN, fits : BOOLEAN, question : Questions,
          plan : Plans, today : Todays] :
     /\ s.route => s.quoted
     /\ ~s.quoted => s.fits}

------------------------------------------------------------------------------
Init == /\ situation \in Situations
        /\ requests = <<>>
        /\ client = "post"
        /\ accepted = NoSql

Running == {"schema", "generate", "validate", "intent", "execute", "regenerate", "last"}

(* the answers: 200, a refusal, a server error *)
Answers == {"ok", "refused", "failed"}

Request(r) == requests[r]

Goto(r, pc) == requests' = [requests EXCEPT ![r].pc = pc]

With(r, pc, sql) == requests' = [requests EXCEPT ![r].pc = pc, ![r].sql = sql]

At(r, pc) == requests[r].pc = pc /\ UNCHANGED <<situation, client, accepted>>

(* the engine, the allowlist or the schema may be missing: 503 *)
DescribeSchema(r) ==
  /\ At(r, "schema")
  /\ \/ Goto(r, "failed")
     \/ /\ situation.route
        /\ With(r, "validate", Controlled)
     \/ /\ ~situation.route
        /\ Goto(r, "generate")

(* _generate_initial_sql: the model answers, or fails and the fallback is     *)
(* taken if the objective allows it                                           *)
GenerateInitialSql(r) ==
  /\ At(r, "generate")
  /\ \/ \E s \in Generated :
          With(r, "validate", s)
     \/ /\ situation.quoted
        /\ With(r, "validate", Fallback)
     \/ /\ ~situation.quoted
        /\ Goto(r, "failed")

ValidateSql(r) ==
  /\ At(r, "validate")
  /\ Goto(r, IF Request(r).sql.safe THEN "intent" ELSE "refused")

(* Mutant: a regenerated statement is not checked against the objective. *)
ValidateSqlIntent_FirstOnly(r) ==
  /\ At(r, "intent")
  /\ Goto(r, IF Request(r).attempt = 0 /\ ~Request(r).sql.fits THEN "regenerate" ELSE "execute")

ValidateSqlIntent(r) ==
  /\ At(r, "intent")
  /\ \/ /\ Request(r).sql.fits
        /\ Goto(r, "execute")
     \/ /\ ~Request(r).sql.fits
        /\ Request(r).attempt = 0
        /\ Goto(r, "regenerate")
     \/ /\ ~Request(r).sql.fits
        /\ Request(r).attempt = 1
        /\ IF situation.quoted THEN With(r, "last", Fallback) ELSE Goto(r, "refused")

(* _regenerate_sql.  The fallback is not validated again. *)
(* Mutant: neither is what the model answers. *)
RegenerateSql_Unvalidated(r) ==
  /\ At(r, "regenerate")
  /\ \E s \in Generated :
       requests' = [requests EXCEPT ![r].attempt = 1,
                                    ![r].pc = "intent", ![r].sql = s]

RegenerateSql(r) ==
  /\ At(r, "regenerate")
  /\ \/ \E s \in Generated :
          requests' = [requests EXCEPT ![r].attempt = 1,
                         ![r].pc = IF s.safe THEN "intent" ELSE "refused", ![r].sql = s]
     \/ /\ situation.quoted
        /\ requests' = [requests EXCEPT ![r].attempt = 1,
                         ![r].pc = "intent", ![r].sql = Fallback]
     \/ /\ ~situation.quoted
        /\ Goto(r, "failed")

(* _execute: rows, a refused scan, a timeout, or an error of the database *)
Execute(r) ==
  /\ At(r, "execute")
  /\ \/ Goto(r, "ok")
     \/ Goto(r, "refused")
     \/ Goto(r, "failed")
     \/ /\ Request(r).attempt = 0
        /\ Goto(r, "regenerate")
     \/ /\ Request(r).attempt = 1
        /\ situation.quoted
        /\ ~Same(Fallback, Request(r).sql)
        /\ With(r, "last", Fallback)

ExecuteFallback(r) ==
  /\ At(r, "last")
  /\ Goto(r, "ok") \/ Goto(r, "refused") \/ Goto(r, "failed")

Serve(r) == \/ DescribeSchema(r) \/ GenerateInitialSql(r) \/ ValidateSql(r)
            \/ ValidateSqlIntent(r) \/ RegenerateSql(r) \/ Execute(r) \/ ExecuteFallback(r)

------------------------------------------------------------------------------
(* HttpDataAgentClient.query and DbQueryTool.run *)

NewRequest == [pc |-> "schema", sql |-> NoSql, attempt |-> 0]

(* Mutant: a second attempt is not counted. *)
Post_NotCounted ==
  /\ client \in {"post", "sleep"}
  /\ requests' = IF requests = <<>> THEN <<NewRequest>> ELSE requests
  /\ client' = "wait"
  /\ UNCHANGED <<situation, accepted>>

(* the request reaches the server, or the connection fails *)
Post ==
  /\ client \in {"post", "sleep"}
  /\ requests' = Append(requests, NewRequest)
  /\ client' = "wait"
  /\ UNCHANGED <<situation, accepted>>

GiveUpOrSleep == client' = IF Posts >= Attempts THEN "error" ELSE "sleep"

(* the answer to the request that is waited for; empty rows are an error, and *)
(* the tool checks the statement once more                                    *)
Receive ==
  /\ client = "wait"
  /\ LET request == requests[Posts] IN
     \/ /\ request.pc = "ok"
        /\ request.sql.safe
        /\ client' = "ok"
        /\ accepted' = request.sql
     \/ /\ \/ request.pc = "ok"
           \/ request.pc = "refused"
        /\ client' = "error"
        /\ UNCHANGED accepted
     \/ /\ request.pc = "failed"
        /\ GiveUpOrSleep
        /\ UNCHANGED accepted
  /\ UNCHANGED <<situation, requests>>

(* The client waits as long for an answer as the server may take for one      *)
(* execution, so the server may still be at work; or the answer is lost.      *)
TimeOut ==
  /\ client = "wait"
  /\ GiveUpOrSleep
  /\ UNCHANGED <<situation, requests, accepted>>

Client == Post \/ Receive \/ TimeOut

Over == /\ client \in {"ok", "error"}
        /\ \A r \in DOMAIN requests : requests[r].pc \in Answers
        /\ UNCHANGED vars

Next == Client \/ (\E r \in DOMAIN requests : Serve(r)) \/ Over

(* The client's coroutine and the server's handlers go on. *)
Spec == /\ Init /\ [][Next]_vars
        /\ WF_vars(Client)
        /\ \A r \in 1..Attempts : WF_vars(r \in DOMAIN requests /\ Serve(r))

------------------------------------------------------------------------------
(* Properties *)

(* No statement reaches the business database that has not passed the check   *)
(* of read-only SQL on allowed tables, whichever of the four ways a statement *)
(* takes to its execution (service.py:223, 475, 513, 577).                    *)
OnlySafeExecuted == \A r \in DOMAIN requests :
  requests[r].pc \in {"execute", "last", "ok"} => requests[r].sql.safe

(* The rows the analysis is made from answer the objective, or come from the  *)
(* controlled statement (service.py:464-495).                                 *)
AnswerFits == accepted # NoSql => accepted.fits \/ accepted.kind # "generated"

MonthNumber(m) == 12 * m.year + m.month

(* the month the user names, of the current year if he names none *)
Asked == [year |-> IF situation.question.year = 0 THEN situation.today.year
                   ELSE situation.question.year,
          month |-> situation.question.month]

PeriodsFollow(sql) ==
  LET question == situation.question
      plan == situation.plan
      current == sql.compares.current
      previous == sql.compares.previous
      read == question.month # 0 /\ ~question.padded
      planned == sql.kind = "fallback" /\ plan.year # 0 /\ plan.month # 0
  IN  /\ \A i \in 1..2 : current[i].month \in 1..12 /\ previous[i].month \in 1..12
      /\ previous[2] = current[1]
      /\ MonthNumber(current[2]) = MonthNumber(current[1]) + 1
      /\ MonthNumber(previous[2]) = MonthNumber(previous[1]) + 1
      /\ read /\ (question.year # 0 \/ ~planned) => current[1] = Asked
      /\ planned /\ ~(read /\ question.year # 0) => current[1] = plan
      /\ sql.kind = "controlled" /\ ~read => current[1] = situation.today

(* The two periods of the service's own statements are whole months that       *)
(* adjoin, also at the turn of a year.  The current one is the month the user  *)
(* names, with two exceptions, both against README.md:218-220, where the       *)
(* user's wording fixes the period and a year of the model's plan is not used: *)
(* a fallback takes the plan's month if the plan has the only year             *)
(* (service.py:469, 507, 557), and a month with a leading zero is not seen, so  *)
(* that the controlled statement compares the current month (service.py:664).  *)
PeriodsCompared ==
  \A r \in DOMAIN requests :
    requests[r].sql.kind \in {"controlled", "fallback"} => PeriodsFollow(requests[r].sql)

(* The tool call ends: an answer, or an error after the last attempt.         *)
ToolEnds == <>(client \in {"ok", "error"})

===============================================================================
