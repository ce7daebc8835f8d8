---------------------------- MODULE DataAgentProofs ----------------------------
(***************************************************************************)
(* The statements the Data Agent executes and the rows the tool takes        *)
(* (DataAgent), for any number of attempts, any questions, plans and dates,  *)
(* and however many requests the client has given up are still at work.      *)
(***************************************************************************)
EXTENDS DataAgent, WellFoundedInduction, TLAPS

Pcs == Running \cup Answers

(* "attempt" counts the regenerations *)
Statements == {NoSql} \cup Generated \cup {Controlled, Fallback}

Requests == [pc : Pcs, sql : Statements, attempt : {0, 1}]

(* the statement at each place has passed the checks before it *)
Checked(q) ==
  /\ q.pc \in {"intent", "execute", "last", "ok"} => q.sql.safe
  /\ q.pc \in {"execute", "last", "ok"} => q.sql.fits \/ q.sql.kind # "generated"

IndInv ==
  /\ requests \in Seq(Requests)
  /\ \A r \in 1..Len(requests) : Checked(requests[r])
  /\ client = "wait" => Len(requests) > 0
  /\ AnswerFits

------------------------------------------------------------------------------
(* The service's own statement is one of a fixed form. *)
LEMMA OwnStatements ==
  /\ Controlled.safe /\ Controlled.kind = "controlled"
  /\ Fallback.safe /\ Fallback.kind = "fallback"
  BY DEF Controlled, Fallback, Own

LEMMA IndInvInit == Init => IndInv
  BY DEF Init, IndInv, AnswerFits

LEMMA StatementsFixed ==
  ASSUME situation' = situation
  PROVE  Statements' = Statements /\ Requests' = Requests
  BY DEF Statements, Requests, Controlled, Fallback, Own

(* One request changes into one that is as well checked. *)
LEMMA RequestStep ==
  ASSUME IndInv, NEW r \in 1..Len(requests), NEW q \in Requests, Checked(q),
         requests' = [requests EXCEPT ![r] = q],
         UNCHANGED <<situation, client, accepted>>
  PROVE  IndInv'
<1>1. requests' \in Seq(Requests) /\ Len(requests') = Len(requests)
  BY DEF IndInv
<1>2. requests'[r] = q /\ \A s \in 1..Len(requests) : s # r => requests'[s] = requests[s]
  BY DEF IndInv
<1>3. \A s \in 1..Len(requests') : Checked(requests'[s])
  BY <1>1, <1>2 DEF IndInv
<1>4. AnswerFits'
  BY DEF IndInv, AnswerFits
<1> QED
  BY <1>1, <1>3, <1>4, StatementsFixed DEF IndInv

LEMMA AtPlace ==
  ASSUME IndInv, NEW r \in 1..Len(requests)
  PROVE  /\ requests[r] \in Requests
         /\ Checked(requests[r])
         /\ \A pc \in Pcs :
              [requests EXCEPT ![r].pc = pc] = [requests EXCEPT ![r] = [requests[r] EXCEPT !.pc = pc]]
  BY DEF IndInv

(* A request that goes on with the statement it has. *)
LEMMA GotoStep ==
  ASSUME IndInv, NEW r \in 1..Len(requests), NEW pc \in Pcs, Goto(r, pc),
         Checked([requests[r] EXCEPT !.pc = pc]),
         UNCHANGED <<situation, client, accepted>>
  PROVE  IndInv'
<1> DEFINE q == [requests[r] EXCEPT !.pc = pc]
<1>1. requests' = [requests EXCEPT ![r] = q]
  BY DEF Goto
<1>2. q \in Requests
  BY AtPlace DEF Requests
<1> QED
  BY <1>1, <1>2, RequestStep

(* A statement that is taken up: it is safe where it need not be looked at     *)
(* again.                                                                       *)
LEMMA TakenUp ==
  ASSUME IndInv, NEW r \in 1..Len(requests), NEW pc \in Pcs, NEW sql \in Statements,
         \/ requests' = [requests EXCEPT ![r].pc = pc, ![r].sql = sql]
         \/ requests' = [requests EXCEPT ![r].attempt = 1, ![r].pc = pc, ![r].sql = sql],
         \/ pc \in {"validate", "refused"}
         \/ pc = "intent" /\ sql.safe
         \/ pc = "last" /\ sql.safe /\ sql.kind # "generated",
         UNCHANGED <<situation, client, accepted>>
  PROVE  IndInv'
<1> DEFINE p == [requests[r] EXCEPT !.pc = pc, !.sql = sql]
           q == [requests[r] EXCEPT !.attempt = 1, !.pc = pc, !.sql = sql]
<1>1. /\ [requests EXCEPT ![r].pc = pc, ![r].sql = sql] = [requests EXCEPT ![r] = p]
      /\ [requests EXCEPT ![r].attempt = 1, ![r].pc = pc, ![r].sql = sql]
           = [requests EXCEPT ![r] = q]
  BY DEF IndInv
<1>2. requests[r] \in Requests
  BY AtPlace
<1>3. /\ p \in Requests /\ p.pc = pc /\ p.sql = sql
      /\ q \in Requests /\ q.pc = pc /\ q.sql = sql
  BY <1>2 DEF Requests
<1>4. Checked(p) /\ Checked(q)
  BY <1>3 DEF Checked
<1> HIDE DEF p, q
<1>5. requests' = [requests EXCEPT ![r] = p] \/ requests' = [requests EXCEPT ![r] = q]
  BY <1>1
<1> QED
  BY <1>3, <1>4, <1>5, RequestStep

LEMMA ServeStep ==
  ASSUME IndInv, NEW r \in 1..Len(requests), Serve(r)
  PROVE  IndInv'
<1>1. UNCHANGED <<situation, client, accepted>>
  BY DEF Serve, At, DescribeSchema, GenerateInitialSql, ValidateSql, ValidateSqlIntent,
         RegenerateSql, Execute, ExecuteFallback
<1>2. Controlled \in Statements /\ Fallback \in Statements /\ Generated \subseteq Statements
  BY DEF Statements
<1>3. Running \subseteq Pcs /\ Answers \subseteq Pcs
  BY DEF Pcs
<1>4. Checked(requests[r])
  BY DEF IndInv
<1>5. requests[r] \in Requests
  BY AtPlace
<1> DEFINE to(pc) == [requests[r] EXCEPT !.pc = pc]
<1>6. \A pc : to(pc).pc = pc /\ to(pc).sql = requests[r].sql
  BY <1>5 DEF Requests
<1>7. ASSUME NEW pc \in {"generate", "validate", "regenerate", "refused", "failed"}, Goto(r, pc)
      PROVE  IndInv'
  <2>1. Checked(to(pc))
    BY <1>6 DEF Checked
  <2>2. pc \in Pcs
    BY DEF Pcs, Running, Answers
  <2> QED
    BY <1>1, <1>7, <2>1, <2>2, GotoStep
<1>8. CASE DescribeSchema(r)
  <2>1. CASE With(r, "validate", Controlled)
    BY <1>1, <1>2, <1>3, <2>1, TakenUp DEF With, Running
  <2> QED
    BY <1>7, <1>8, <2>1 DEF DescribeSchema
<1>9. CASE GenerateInitialSql(r)
  <2>1. ASSUME NEW s \in Statements, With(r, "validate", s) PROVE IndInv'
    BY <1>1, <1>3, <2>1, TakenUp DEF With, Running
  <2> QED
    BY <1>2, <1>7, <1>9, <2>1 DEF GenerateInitialSql
<1>10. CASE ValidateSql(r)
  <2>1. CASE requests[r].sql.safe /\ Goto(r, "intent")
    <3>1. Checked(to("intent"))
      BY <1>6, <2>1 DEF Checked
    <3> QED
      BY <1>1, <1>3, <2>1, <3>1, GotoStep DEF Running
  <2> QED
    BY <1>7, <1>10, <2>1 DEF ValidateSql, Request
<1>11. CASE ValidateSqlIntent(r)
  <2>1. requests[r].sql.safe
    BY <1>4, <1>11 DEF ValidateSqlIntent, At, Checked
  <2>2. CASE requests[r].sql.fits /\ Goto(r, "execute")
    <3>1. Checked(to("execute"))
      BY <1>6, <2>1, <2>2 DEF Checked
    <3> QED
      BY <1>1, <1>3, <2>2, <3>1, GotoStep DEF Running
  <2>3. CASE With(r, "last", Fallback)
    BY <1>1, <1>2, <1>3, <2>3, OwnStatements, TakenUp DEF With, Running
  <2> QED
    BY <1>7, <1>11, <2>2, <2>3 DEF ValidateSqlIntent, Request
<1>12. CASE RegenerateSql(r)
  <2>1. ASSUME NEW s \in Generated, NEW pc, pc = IF s.safe THEN "intent" ELSE "refused",
               requests' = [requests EXCEPT ![r].attempt = 1, ![r].pc = pc, ![r].sql = s]
        PROVE  IndInv'
    <3>1. pc \in Pcs /\ (pc = "refused" \/ (pc = "intent" /\ s.safe))
      BY <2>1 DEF Pcs, Running, Answers
    <3> QED
      BY <1>1, <1>2, <2>1, <3>1, TakenUp
  <2>2. CASE requests' = [requests EXCEPT ![r].attempt = 1, ![r].pc = "intent",
                                          ![r].sql = Fallback]
    BY <1>1, <1>2, <1>3, <2>2, OwnStatements, TakenUp DEF Running
  <2> QED
    BY <1>7, <1>12, <2>1, <2>2 DEF RegenerateSql
<1>13. CASE Execute(r)
  <2>1. CASE Goto(r, "ok")
    <3>1. Checked(to("ok"))
      BY <1>4, <1>6, <1>13 DEF Execute, At, Checked
    <3> QED
      BY <1>1, <1>3, <2>1, <3>1, GotoStep DEF Answers
  <2>2. CASE With(r, "last", Fallback)
    BY <1>1, <1>2, <1>3, <2>2, OwnStatements, TakenUp DEF With, Running
  <2> QED
    BY <1>7, <1>13, <2>1, <2>2 DEF Execute
<1>14. CASE ExecuteFallback(r)
  <2>1. CASE Goto(r, "ok")
    <3>1. Checked(to("ok"))
      BY <1>4, <1>6, <1>14 DEF ExecuteFallback, At, Checked
    <3> QED
      BY <1>1, <1>3, <2>1, <3>1, GotoStep DEF Answers
  <2> QED
    BY <1>7, <1>14, <2>1 DEF ExecuteFallback
<1> QED
  BY <1>8, <1>9, <1>10, <1>11, <1>12, <1>13, <1>14 DEF Serve

(* The client takes the rows of an answer, and only those. *)
LEMMA ClientStep ==
  ASSUME IndInv, Client
  PROVE  IndInv'
<1>1. CASE Post
  <2>1. /\ requests' = Append(requests, NewRequest)
        /\ UNCHANGED <<situation, accepted>>
    BY <1>1 DEF Post
  <2>2. NewRequest \in Requests /\ Checked(NewRequest)
    BY DEF NewRequest, Requests, Pcs, Running, Statements, Checked
  <2> HIDE DEF NewRequest
  <2>3. /\ requests' \in Seq(Requests)
        /\ Len(requests) \in Nat
        /\ Len(requests') = Len(requests) + 1
        /\ requests'[Len(requests) + 1] = NewRequest
        /\ \A r \in 1..Len(requests) : requests'[r] = requests[r]
    BY <2>1, <2>2 DEF IndInv
  <2>4. \A r \in 1..Len(requests') : r \in 1..Len(requests) \/ r = Len(requests) + 1
    BY <2>3
  <2>5. \A r \in 1..Len(requests') : Checked(requests'[r])
    BY <2>2, <2>3, <2>4 DEF IndInv
  <2>6. Len(requests') > 0
    BY <2>3
  <2> QED
    BY <2>1, <2>3, <2>5, <2>6, StatementsFixed DEF IndInv, AnswerFits
<1>2. CASE Receive
  <2>1. UNCHANGED <<situation, requests>> /\ client = "wait"
    BY <1>2 DEF Receive
  <2>2. client' # "wait"
    BY <1>2 DEF Receive, GiveUpOrSleep
  <2>3. AnswerFits'
    <3>1. CASE accepted' = accepted
      BY <3>1 DEF IndInv, AnswerFits
    <3>2. CASE requests[Posts].pc = "ok" /\ accepted' = requests[Posts].sql
      <4>1. Posts \in 1..Len(requests)
        BY <2>1 DEF IndInv, Posts
      <4>2. Checked(requests[Posts])
        BY <4>1 DEF IndInv
      <4> QED
        BY <3>2, <4>2 DEF Checked, AnswerFits
    <3> QED
      BY <1>2, <3>1, <3>2 DEF Receive
  <2> QED
    BY <2>1, <2>2, <2>3, StatementsFixed DEF IndInv
<1>3. CASE TimeOut
  <2>1. UNCHANGED <<situation, requests, accepted>> /\ client' # "wait"
    BY <1>3 DEF TimeOut, GiveUpOrSleep
  <2> QED
    BY <2>1, StatementsFixed DEF IndInv, AnswerFits
<1> QED
  BY <1>1, <1>2, <1>3 DEF Client

LEMMA IndInvStep == IndInv /\ [Next]_vars => IndInv'
<1>1. ASSUME IndInv, NEW r \in DOMAIN requests, Serve(r)
      PROVE  IndInv'
  BY <1>1, ServeStep DEF IndInv
<1>2. ASSUME IndInv, UNCHANGED vars
      PROVE  IndInv'
  BY <1>2, StatementsFixed DEF vars, IndInv, AnswerFits
<1> QED
  BY <1>1, <1>2, ClientStep DEF Next, Over

THEOREM DataAgentIndInv == Spec => []IndInv
<1> QED
  BY IndInvInit, IndInvStep, PTL DEF Spec

(* Nothing is executed that has not passed the check of read-only SQL,        *)
(* whichever way the statement came about (service.py:223, 475, 513, 577).    *)
THEOREM ExecutedIsSafe == Spec => []OnlySafeExecuted
<1>1. IndInv => OnlySafeExecuted
  BY DEF IndInv, Checked, OnlySafeExecuted
<1> QED
  BY <1>1, DataAgentIndInv, PTL

(* The rows the tool takes answer the objective or come from the controlled   *)
(* statement, also after a request that was given up (service.py:464-495).    *)
THEOREM TakenRowsFit == Spec => []AnswerFits
<1>1. IndInv => AnswerFits
  BY DEF IndInv
<1> QED
  BY <1>1, DataAgentIndInv, PTL

------------------------------------------------------------------------------
(* The periods of the controlled statement *)

Months == [year : Nat, month : 1..12]

Written == [year : Nat, month : 0..12]

(* Half-open months that adjoin, whatever month is the current one. *)
Adjoining(target) ==
  LET current == Comparison(target).current
      previous == Comparison(target).previous
  IN  /\ \A i \in 1..2 : current[i].month \in 1..12 /\ previous[i].month \in 1..12
      /\ previous[2] = current[1]
      /\ current[1] = target
      /\ MonthNumber(current[2]) = MonthNumber(current[1]) + 1
      /\ MonthNumber(previous[2]) = MonthNumber(previous[1]) + 1

LEMMA NextMonths ==
  ASSUME NEW m \in Months
  PROVE  NextMonth(m).month \in 1..12 /\ MonthNumber(NextMonth(m)) = MonthNumber(m) + 1
<1>1. CASE m.month = 12
  BY <1>1 DEF NextMonth, MonthNumber, Months
<1>2. CASE m.month # 12
  <2>1. NextMonth(m).month = m.month + 1 /\ NextMonth(m).year = m.year
    BY <1>2 DEF NextMonth, Months
  <2> QED
    BY <1>2, <2>1 DEF MonthNumber, Months
<1> QED
  BY <1>1, <1>2

LEMMA PreviousMonths ==
  ASSUME NEW m \in Months
  PROVE  PreviousMonth(m).month \in 1..12 /\ MonthNumber(m) = MonthNumber(PreviousMonth(m)) + 1
<1>1. CASE m.month = 1
  BY <1>1 DEF PreviousMonth, MonthNumber, Months
<1>2. CASE m.month # 1
  <2>1. PreviousMonth(m).month = m.month - 1 /\ PreviousMonth(m).year = m.year
    BY <1>2 DEF PreviousMonth, Months
  <2> QED
    BY <1>2, <2>1 DEF MonthNumber, Months
<1> QED
  BY <1>1, <1>2

LEMMA ComparedMonthsAdjoin ==
  ASSUME NEW target \in Months
  PROVE  Adjoining(target)
<1>1. target.month \in 1..12
  BY DEF Months
<1>2. /\ Comparison(target).current[1] = target
      /\ Comparison(target).current[2] = NextMonth(target)
      /\ Comparison(target).previous[1] = PreviousMonth(target)
      /\ Comparison(target).previous[2] = target
  BY DEF Comparison
<1> QED
  BY <1>1, <1>2, NextMonths, PreviousMonths DEF Adjoining

LEMMA MinOfNats ==
  ASSUME NEW I \in SUBSET Nat, I # {}
  PROVE  Min(I) \in I /\ \A i \in I : Min(I) <= i
<1>1. PICK x \in I : \A y \in I : <<y, x>> \notin OpToRel(<, Nat)
  BY NatLessThanWellFounded, WFMin
<1>2. \A y \in I : ~(y < x)
  BY <1>1 DEF OpToRel
<1>3. \A y \in I : x <= y
  BY <1>2
<1> QED
  BY <1>3 DEF Min

(* The first of the texts that names a month decides, or the calendar. *)
LEMMA TargetOfTexts ==
  ASSUME NEW texts \in Seq(Written), NEW today \in Months
  PROVE  Target(texts, today) \in Months
<1> DEFINE dated == {i \in DOMAIN texts : texts[i].year # 0 /\ texts[i].month # 0}
           months == {i \in DOMAIN texts : texts[i].month # 0}
<1>0. \A i \in DOMAIN texts : texts[i] \in Written
  OBVIOUS
<1>1. ASSUME NEW I \in SUBSET Nat, I # {} PROVE Min(I) \in I
  BY <1>1, MinOfNats
<1>2. dated \in SUBSET Nat /\ months \in SUBSET Nat
  OBVIOUS
<1>3. dated # {} => texts[Min(dated)] \in Months
  <2>1. \A i \in dated : texts[i] \in Months
    BY <1>0 DEF Written, Months
  <2> HIDE DEF dated
  <2> QED
    BY <1>1, <1>2, <2>1
<1>4. months # {} => [year |-> today.year, month |-> texts[Min(months)].month] \in Months
  <2>1. \A i \in months : texts[i].month \in 1..12
    BY <1>0 DEF Written
  <2>2. today.year \in Nat
    BY DEF Months
  <2> HIDE DEF months
  <2> QED
    BY <1>1, <1>2, <2>1, <2>2 DEF Months
<1> QED
  BY <1>3, <1>4 DEF Target

(* A month the user names is the current one, of his year or of this year.      *)
LEMMA TargetOfQuestion ==
  ASSUME NEW texts \in Seq(Written), NEW today \in Months, Len(texts) > 0,
         texts[1].month # 0,
         \/ texts[1].year # 0
         \/ \A i \in 1..Len(texts) : texts[i].year = 0 \/ texts[i].month = 0
  PROVE  Target(texts, today) = [year |-> IF texts[1].year = 0 THEN today.year ELSE texts[1].year,
                                 month |-> texts[1].month]
<1> DEFINE dated == {i \in DOMAIN texts : texts[i].year # 0 /\ texts[i].month # 0}
           months == {i \in DOMAIN texts : texts[i].month # 0}
<1>1. DOMAIN texts = 1..Len(texts) /\ 1 \in DOMAIN texts /\ texts[1] \in Written
  OBVIOUS
<1>2. \A I \in SUBSET DOMAIN texts : 1 \in I => Min(I) = 1
  <2> SUFFICES ASSUME NEW I \in SUBSET DOMAIN texts, 1 \in I PROVE Min(I) = 1
    OBVIOUS
  <2>1. I \in SUBSET Nat /\ \A i \in I : i >= 1
    BY <1>1
  <2>2. Min(I) \in I /\ Min(I) <= 1
    BY <2>1, MinOfNats
  <2> QED
    BY <2>1, <2>2
<1>3. dated \in SUBSET DOMAIN texts /\ months \in SUBSET DOMAIN texts /\ 1 \in months
  BY <1>1
<1>4. CASE texts[1].year # 0
  <2>1. 1 \in dated
    BY <1>1, <1>4
  <2>2. dated # {} /\ Min(dated) = 1
    BY <1>2, <1>3, <2>1
  <2>3. Target(texts, today) = texts[1]
    BY <2>2 DEF Target
  <2> QED
    BY <1>1, <1>4, <2>3 DEF Written
<1>5. CASE texts[1].year = 0
  <2>1. dated = {}
    BY <1>1, <1>5
  <2>2. months # {} /\ Min(months) = 1
    BY <1>2, <1>3
  <2>3. Target(texts, today) = [year |-> today.year, month |-> texts[1].month]
    BY <2>1, <2>2 DEF Target
  <2> QED
    BY <1>5, <2>3
<1> QED
  BY <1>4, <1>5

(* the first text with a year and a month wins over one without *)
LEMMA TargetOfPlan ==
  ASSUME NEW texts \in Seq(Written), NEW today, Len(texts) = 2,
         texts[1].year = 0 \/ texts[1].month = 0,
         texts[2].year # 0, texts[2].month # 0
  PROVE  Target(texts, today) = texts[2]
<1> DEFINE dated == {i \in DOMAIN texts : texts[i].year # 0 /\ texts[i].month # 0}
<1>1. DOMAIN texts = 1..2
  OBVIOUS
<1>2. dated = {2}
  BY <1>1
<1>3. Min(dated) = 2
  <2>1. dated \in SUBSET Nat /\ dated # {}
    BY <1>2
  <2> QED
    BY <1>2, <2>1, MinOfNats
<1> QED
  BY <1>2, <1>3 DEF Target

LEMMA TargetOfNone ==
  ASSUME NEW text \in Written, NEW today, text.month = 0
  PROVE  Target(<<text>>, today) = today
<1>1. DOMAIN <<text>> = {1} /\ <<text>>[1] = text
  OBVIOUS
<1> QED
  BY <1>1 DEF Target

LEMMA SituationStays == [Next]_vars => UNCHANGED situation
BY DEF Next, vars, Client, Post, Receive, TimeOut, Over, Serve, DescribeSchema, GenerateInitialSql,
       ValidateSql, ValidateSqlIntent, RegenerateSql, Execute, ExecuteFallback, At

(* Both statements of the service compare months that adjoin, the current one   *)
(* being the month the question names, the plan's, or the present one.          *)
OwnInv(sql) ==
  LET question == situation.question
      plan == situation.plan
      read == question.month # 0 /\ ~question.padded
      planned == sql.kind = "fallback" /\ plan.year # 0 /\ plan.month # 0
      asked == [year |-> IF question.year = 0 THEN situation.today.year ELSE question.year,
                month |-> question.month]
      target == sql.compares.current[1]
  IN  /\ sql.compares = Comparison(target)
      /\ Adjoining(target)
      /\ read /\ (question.year # 0 \/ ~planned) => target = asked
      /\ planned /\ ~(read /\ question.year # 0) => target = plan
      /\ sql.kind = "controlled" /\ ~read => target = situation.today

LEMMA OwnPeriods ==
  ASSUME situation \in Situations
  PROVE  OwnInv(Controlled) /\ OwnInv(Fallback)
<1> DEFINE question == situation.question
           plan == situation.plan
           today == situation.today
           seen == Seen(question)
           asked == [year |-> IF question.year = 0 THEN today.year ELSE question.year,
                     month |-> question.month]
           one == <<seen>>
           both == <<seen, plan>>
<1>1. /\ question.year \in Nat /\ question.month \in 0..12
      /\ plan \in Written
      /\ today \in Months
  BY MonthsAssumption DEF Situations, Written, Months
<1>2. /\ seen \in Written
      /\ seen.year = question.year
      /\ seen.month = IF question.padded THEN 0 ELSE question.month
  BY <1>1 DEF Seen, Written
<1>3. /\ Controlled.compares = Comparison(Target(one, today))
      /\ Fallback.compares = Comparison(Target(both, today))
      /\ Fallback.kind = "fallback" /\ Controlled.kind = "controlled"
  BY DEF Controlled, Fallback, Own
<1> HIDE DEF question, plan, today, seen
<1>4. /\ one \in Seq(Written) /\ Len(one) = 1 /\ one[1] = seen
      /\ both \in Seq(Written) /\ Len(both) = 2 /\ both[1] = seen /\ both[2] = plan
  BY <1>1, <1>2
<1> HIDE DEF one, both
<1>5. /\ Adjoining(Target(one, today))
      /\ Adjoining(Target(both, today))
  BY <1>1, <1>4, TargetOfTexts, ComparedMonthsAdjoin
<1>6. ASSUME question.month # 0, ~question.padded
      PROVE  Target(one, today) = asked
  <2>1. one[1].year # 0 \/ \A i \in 1..Len(one) : one[i].year = 0 \/ one[i].month = 0
    BY <1>4
  <2>2. Len(one) > 0 /\ one[1].month # 0
    BY <1>2, <1>4, <1>6
  <2>3. Target(one, today) = [year |-> IF one[1].year = 0 THEN today.year ELSE one[1].year,
                              month |-> one[1].month]
    BY <1>1, <1>4, <2>1, <2>2, TargetOfQuestion
  <2> QED
    BY <1>2, <1>4, <1>6, <2>3
<1>7. ASSUME question.month # 0, ~question.padded,
             question.year # 0 \/ plan.year = 0 \/ plan.month = 0
      PROVE  Target(both, today) = asked
  <2>1. both[1].year # 0 \/ \A i \in 1..Len(both) : both[i].year = 0 \/ both[i].month = 0
    BY <1>2, <1>4, <1>7
  <2>2. Target(both, today) = [year |-> IF both[1].year = 0 THEN today.year ELSE both[1].year,
                               month |-> both[1].month]
    <3>1. Len(both) > 0 /\ both[1].month # 0
      BY <1>2, <1>4, <1>7
    <3> QED
      BY <1>1, <1>4, <2>1, <3>1, TargetOfQuestion
  <2> QED
    BY <1>2, <1>4, <1>7, <2>2
<1>8. ASSUME plan.year # 0, plan.month # 0,
             question.month = 0 \/ question.padded \/ question.year = 0
      PROVE  Target(both, today) = plan
  <2>1. both[1].year = 0 \/ both[1].month = 0
    BY <1>2, <1>4, <1>8
  <2>2. both[2].year # 0 /\ both[2].month # 0
    BY <1>4, <1>8
  <2> QED
    BY <1>4, <2>1, <2>2, TargetOfPlan
<1>9. ASSUME question.month = 0 \/ question.padded
      PROVE  Target(one, today) = today
  <2>1. seen.month = 0
    BY <1>2, <1>9
  <2> QED
    BY <1>2, <2>1, TargetOfNone DEF one
<1>10. \A target : Adjoining(target) => Comparison(target).current[1] = target
  BY DEF Adjoining
<1> HIDE DEF asked
<1>11. OwnInv(Controlled)
  BY <1>3, <1>5, <1>6, <1>10, <1>9 DEF OwnInv, asked, question, today, plan
<1>12. OwnInv(Fallback)
  BY <1>3, <1>5, <1>7, <1>10, <1>8 DEF OwnInv, asked, question, today, plan
<1> QED
  BY <1>11, <1>12

LEMMA OwnFollows ==
  ASSUME NEW sql, OwnInv(sql)
  PROVE  PeriodsFollow(sql)
<1> DEFINE compares == sql.compares
           target == compares.current[1]
<1>1. compares = Comparison(target) /\ Adjoining(target)
  BY DEF OwnInv
<1> HIDE DEF compares
<1>2. /\ \A i \in 1..2 : /\ compares.current[i].month \in 1..12
                        /\ compares.previous[i].month \in 1..12
      /\ compares.previous[2] = compares.current[1]
      /\ MonthNumber(compares.current[2]) = MonthNumber(compares.current[1]) + 1
      /\ MonthNumber(compares.previous[2]) = MonthNumber(compares.previous[1]) + 1
  BY <1>1 DEF Adjoining
<1> QED
  BY <1>2 DEF PeriodsFollow, Asked, OwnInv, compares

(* The two periods of every statement of the service's own are whole months     *)
(* that adjoin.  The current one is the month the user names, but a fallback    *)
(* takes the plan's if only the plan has a year, and a month with a leading     *)
(* zero is not seen (PeriodsCompared).  For any dates and however many          *)
(* requests are at work (service.py:661-682).                                   *)
THEOREM ComparedPeriods == Spec => []PeriodsCompared
<1>1. IndInv /\ situation \in Situations => PeriodsCompared
  <2> SUFFICES ASSUME IndInv, situation \in Situations, NEW r \in DOMAIN requests,
                      requests[r].sql.kind \in {"controlled", "fallback"}
               PROVE  PeriodsFollow(requests[r].sql)
    BY DEF PeriodsCompared
  <2>1. requests[r].sql \in Statements
    <3>1. requests[r] \in Requests
      BY DEF IndInv
    <3> QED
      BY <3>1 DEF Requests
  <2>2. requests[r].sql \in {Controlled, Fallback}
    BY <2>1 DEF Statements, NoSql, Generated
  <2> QED
    BY <2>2, OwnPeriods, OwnFollows
<1>2. Init => situation \in Situations
  BY DEF Init
<1>3. situation \in Situations /\ [Next]_vars => (situation \in Situations)'
  BY SituationStays DEF Situations
<1> QED
  BY <1>1, <1>2, <1>3, DataAgentIndInv, PTL DEF Spec

===============================================================================
