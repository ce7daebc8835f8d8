--------------------------- MODULE AgentGraphProofs ---------------------------
(***************************************************************************)
(* One task's executor (AgentGraph), for any requests and any number of      *)
(* failures, cancellations and attempts, and the repair of its report        *)
(* (ReportRules), for reports of any size.                                   *)
(***************************************************************************)
EXTENDS AgentGraph, FiniteSetTheorems, WellFoundedInduction, TLAPS

------------------------------------------------------------------------------
(* The inductive invariant of the control *)

Kinds == {"started", "retry", "finished", "failed", "tool_start", "tool_finish"}

Events == [node : Nodes, what : Kinds]

Errors == {"none", "agent", "invalid", "unexpected", "cancelled"}

LoopNodes == {"build_report_ir", "validate_report"}

Types == /\ node \in Nodes
         /\ step \in Working \cup Ends
         /\ error \in Errors
         /\ log \in Seq(Events)
         /\ attempt \in Nat \ {0}
         /\ result = NoResult \/ result.attempt \in Nat \ {0}
         /\ DOMAIN state = DOMAIN StartState
         /\ state.retries \in {0, 1}

(* the report is built again at most once, and only after it was refused *)
RetryInv == /\ node \notin LoopNodes \cup {"render_report"} => state.retries = 0
            /\ node = "validate_report" /\ step = "leave" /\ ~state.valid => state.retries = 1
            /\ step = "tool" \/ step = "call" \/ step = "ok" \/ step = "bad" => node \in ToolNodes
            /\ step = "body" => node \notin ToolNodes

(* what is committed, and in spite of what *)
CommitInv == /\ step \in {"persist", "compress"} /\ cancelled => late
             /\ step \in {"compress", "success"} => result # NoResult

Inv == Types /\ RetryInv /\ CommitInv

USE DEF Nodes, ToolNodes, Working, Ends, Errors, LoopNodes, Kinds

LEMMA StartStateFields ==
  /\ DOMAIN StartState
       = {"reads", "evidence", "candidates", "report", "valid", "retries", "rendered"}
  /\ StartState.retries = 0
BY DEF StartState

LEMMA InitInv == Init => Inv
BY StartStateFields DEF Init, Inv, Types, RetryInv, CommitInv, NoResult

LEMMA EmitTyped ==
  ASSUME Types, NEW w \in Kinds, Emit(w)
  PROVE  log' \in Seq(Events)
<1>1. [node |-> node, what |-> w] \in Events
  BY DEF Types, Events
<1> QED
  BY <1>1 DEF Emit, Types

LEMMA EnterInv ==
  ASSUME Inv, Enter
  PROVE  Inv'
<1>1. \A w \in Kinds : [node |-> node, what |-> w] \in Events
  BY DEF Inv, Types, Events
<1>2. log' \in Seq(Events)
  BY <1>1 DEF Enter, Inv, Types
<1> QED
  BY <1>2 DEF Inv, Types, RetryInv, CommitInv, Enter, Goto, envVars, NoTrouble

LEMMA LeaveInv ==
  ASSUME Inv, Leave
  PROVE  Inv'
<1>1. log' \in Seq(Events)
  BY EmitTyped DEF Inv, Leave
<1>2. CASE node = "ask_clarification"
  BY <1>1, <1>2 DEF Inv, Types, RetryInv, CommitInv, Leave, Goto, envVars, NoTrouble
<1>3. CASE node = "render_report"
  BY <1>1, <1>3 DEF Inv, Types, RetryInv, CommitInv, Leave, Goto, envVars, NoTrouble
<1>4. CASE node \notin {"ask_clarification", "render_report"}
  <2>1. node' = Successor /\ step' = "enter"
    BY <1>4 DEF Leave
  <2>2. /\ Successor \in Nodes
        /\ Successor \notin LoopNodes \cup {"render_report"} => state.retries = 0
    BY <1>4 DEF Successor, Inv, Types, RetryInv
  <2> QED
    BY <1>1, <2>1, <2>2 DEF Inv, Types, RetryInv, CommitInv, Leave, envVars, NoTrouble
<1> QED
  BY <1>2, <1>3, <1>4

(* what a node that has no tools may leave behind *)
Kept(n, s) ==
  /\ DOMAIN s = DOMAIN state
  /\ \/ n # "validate_report" /\ s.retries = state.retries
     \/ n = "validate_report" /\ s.valid /\ s.retries = state.retries
     \/ n = "validate_report" /\ ~s.valid /\ state.retries = 0 /\ s.retries = 1

LEMMA UpdateInv ==
  ASSUME Inv, NEW n, NEW s, Update(n, s), Kept(n, s)
  PROVE  Inv'
BY DEF Inv, Types, RetryInv, CommitInv, Update, Kept, Goto, NoEvent, NoTrouble, envVars, logVars

LEMMA RefuseInv ==
  ASSUME Inv, NEW n, NEW e \in Errors, Refuse(n, e)
  PROVE  Inv'
BY DEF Inv, Types, RetryInv, CommitInv, Refuse, Goto, NoEvent, NoTrouble, envVars, logVars

Quiet == EnterCancelled \/ LeaveCancelled \/ ModelFails \/ ToolRaises \/ ToolCancelled
           \/ Persist \/ PersistFails \/ Compress \/ EmitFails

LEMMA QuietInv ==
  ASSUME Inv, Quiet
  PROVE  Inv'
<1> USE DEF Inv, Types, RetryInv, CommitInv, Goto, NoEvent, NoTrouble, Trouble, envVars, logVars,
            graphVars
<1>1. CASE EnterCancelled
  BY <1>1 DEF EnterCancelled
<1>2. CASE LeaveCancelled
  BY <1>2 DEF LeaveCancelled
<1>3. CASE ModelFails
  BY <1>3 DEF ModelFails
<1>4. CASE ToolRaises
  BY <1>4 DEF ToolRaises
<1>5. CASE ToolCancelled
  BY <1>5 DEF ToolCancelled
<1>6. CASE Persist
  BY <1>6 DEF Persist, NoResult
<1>7. CASE PersistFails
  BY <1>7 DEF PersistFails
<1>8. CASE Compress
  BY <1>8 DEF Compress
<1>9. CASE EmitFails
  BY <1>9 DEF EmitFails
<1> QED
  BY <1>1, <1>2, <1>3, <1>4, <1>5, <1>6, <1>7, <1>8, <1>9 DEF Quiet

LEMMA ToolAnswersEffect ==
  ASSUME ToolAnswers
  PROVE  /\ step = "call"
         /\ Emit("tool_finish")
         /\ Goto("ok") \/ Goto("bad")
         /\ UNCHANGED <<state, error, envVars, result>>
BY DEF ToolAnswers

Noted == Except \/ StartTool \/ ToolAnswers

LEMMA NotedInv ==
  ASSUME Inv, Noted
  PROVE  Inv'
<1>1. log' \in Seq(Events)
  BY EmitTyped DEF Inv, Noted, Except, StartTool, ToolAnswers
<1> USE DEF Inv, Types, RetryInv, CommitInv, Goto, NoTrouble, Trouble, envVars
<1>2. CASE Except
  BY <1>1, <1>2 DEF Except
<1>3. CASE StartTool
  BY <1>1, <1>3 DEF StartTool
<1>4. CASE ToolAnswers
  BY <1>1, <1>4, ToolAnswersEffect
<1> QED
  BY <1>2, <1>3, <1>4 DEF Noted

LEMMA ToolDoneInv ==
  ASSUME Inv, ToolDone
  PROVE  Inv'
BY StartStateFields DEF Inv, Types, RetryInv, CommitInv, ToolDone, Goto, NoEvent, NoTrouble, envVars, logVars

LEMMA EnvironmentInv ==
  ASSUME Inv, UserCancels \/ UserDeletes \/ SuccessLost \/ NextAttempt \/ UNCHANGED vars
  PROVE  Inv'
<1> USE DEF Inv, Types, RetryInv, CommitInv, graphVars, logVars, envVars, vars
<1>1. CASE UserCancels
  <2>1. step \in {"persist", "compress"} => late'
    BY <1>1, Zenon DEF UserCancels
  <2> QED
    BY <1>1, <2>1 DEF UserCancels
<1>2. CASE UserDeletes
  BY <1>2 DEF UserDeletes
<1>3. CASE SuccessLost
  BY <1>3 DEF SuccessLost
<1>4. CASE NextAttempt
  BY <1>4, StartStateFields DEF NextAttempt
<1>5. CASE UNCHANGED vars
  BY <1>5
<1> QED
  BY <1>1, <1>2, <1>3, <1>4, <1>5

(* The nodes without tools, as updates and refusals. *)
LEMMA NodeSteps ==
  ASSUME Inv, \/ LoadContext \/ DefineProblem \/ AskClarification \/ BuildAnalysisPlan
              \/ ValidateData \/ BuildEvidence \/ DetermineAttribution \/ BuildReportIR
              \/ ValidateReport \/ RenderReport
  PROVE  \/ \E n \in Nodes \ ToolNodes : \E s : Update(n, s) /\ Kept(n, s)
         \/ Refuse("validate_data", "agent")
         \/ /\ Refuse("validate_report", "invalid")
            /\ ~Valid(state.report)
            /\ state.retries >= 1
<1> USE StartStateFields DEF Inv, Types, Kept
<1>1. CASE LoadContext \/ DefineProblem \/ AskClarification \/ BuildAnalysisPlan
  <2>1. \A n \in Nodes \ {"validate_report"} : Kept(n, state)
    OBVIOUS
  <2> HIDE DEF Kept
  <2> QED
    BY <1>1, <2>1 DEF LoadContext, DefineProblem, AskClarification, BuildAnalysisPlan, Unchanged
<1>2. CASE ValidateData
  <2>1. Kept("validate_data", state)
    OBVIOUS
  <2> HIDE DEF Kept
  <2> QED
    BY <1>2, <2>1 DEF ValidateData, Unchanged
<1>3. CASE BuildEvidence
  <2> DEFINE s == [state EXCEPT !.evidence = Evidence(Files, Definition)]
  <2>1. Kept("build_evidence", s)
    OBVIOUS
  <2> HIDE DEF Kept
  <2> QED
    BY <1>3, <2>1 DEF BuildEvidence
<1>4. CASE DetermineAttribution
  <2> DEFINE s == [state EXCEPT !.candidates = Conclusions(state.evidence)]
  <2>1. Kept("determine_attribution", s)
    OBVIOUS
  <2> HIDE DEF Kept
  <2> QED
    BY <1>4, <2>1 DEF DetermineAttribution
<1>5. CASE BuildReportIR
  <2> DEFINE r == IF state.retries > 0 THEN Repair(state.report) ELSE NewReport
  <2> HIDE DEF r
  <2> DEFINE s == [state EXCEPT !.report = r, !.valid = FALSE]
  <2>1. Kept("build_report_ir", s)
    OBVIOUS
  <2> HIDE DEF Kept
  <2> QED
    BY <1>5, <2>1 DEF BuildReportIR, r
<1>6. CASE ValidateReport
  <2> DEFINE s == [state EXCEPT !.valid = TRUE]
             t == [state EXCEPT !.valid = FALSE, !.retries = @ + 1]
  <2>1. Kept("validate_report", s)
    OBVIOUS
  <2>2. ~(state.retries >= 1) => Kept("validate_report", t)
    OBVIOUS
  <2> HIDE DEF Kept
  <2> QED
    BY <1>6, <2>1, <2>2 DEF ValidateReport
<1>7. CASE RenderReport
  <2> DEFINE s == [state EXCEPT !.rendered = TRUE]
  <2>1. Kept("render_report", s)
    OBVIOUS
  <2> HIDE DEF Kept
  <2> QED
    BY <1>7, <2>1 DEF RenderReport
<1> QED
  BY <1>1, <1>2, <1>3, <1>4, <1>5, <1>6, <1>7

(* A step of the specification, by its kind. *)
LEMMA Steps ==
  ASSUME Inv, [Next]_vars
  PROVE  \/ Enter \/ Leave \/ Quiet \/ Noted \/ ToolDone
         \/ \E n \in Nodes \ ToolNodes : \E s : Update(n, s) /\ Kept(n, s)
         \/ Refuse("validate_data", "agent")
         \/ /\ Refuse("validate_report", "invalid")
            /\ ~Valid(state.report)
            /\ state.retries >= 1
         \/ UserCancels \/ UserDeletes \/ SuccessLost \/ NextAttempt \/ UNCHANGED vars
<1>1. CASE \/ LoadContext \/ DefineProblem \/ AskClarification \/ BuildAnalysisPlan
           \/ ValidateData \/ BuildEvidence \/ DetermineAttribution \/ BuildReportIR
           \/ ValidateReport \/ RenderReport
  BY <1>1, NodeSteps
<1> QED
  BY <1>1 DEF Next, Executor, Environment, Over, Quiet, Noted

LEMMA NextInv ==
  ASSUME Inv, [Next]_vars
  PROVE  Inv'
BY Steps, EnterInv, LeaveInv, QuietInv, NotedInv, ToolDoneInv, UpdateInv, RefuseInv, EnvironmentInv

THEOREM Invariant == Spec => []Inv
BY InitInv, NextInv, PTL DEF Spec

------------------------------------------------------------------------------
(* What the worker may rely on *)

(* Only Persist writes the result, and only the first of its attempts. *)
LEMMA ResultSteps ==
  ASSUME Inv, [Next]_vars
  PROVE  \/ UNCHANGED result
         \/ /\ step = "persist" /\ step' = "compress"
            /\ result = NoResult
            /\ result'.attempt = attempt
            /\ UNCHANGED <<attempt, error, cancelled, late>>
<1> USE DEF envVars, graphVars, logVars, vars
<1>1. CASE Quiet
  <2>1. CASE Persist
    BY <2>1 DEF Persist, Goto
  <2> QED
    BY <1>1, <2>1 DEF Quiet, EnterCancelled, LeaveCancelled, ModelFails, ToolRaises, ToolCancelled,
                      PersistFails, Compress, EmitFails
<1>2. CASE Noted
  BY <1>2, ToolAnswersEffect DEF Noted, Except, StartTool
<1> QED
  BY Steps, <1>1, <1>2 DEF Enter, Leave, ToolDone, Update, Refuse, UserCancels, UserDeletes,
                           SuccessLost, NextAttempt

(* A report is not committed after a cancellation that precedes the last       *)
(* check, at whichever node or tool it came (runtime.py:27, 40, 81, 100).       *)
THEOREM CancellationRespected == Spec => CancelStopsReport
<1>1. Inv /\ [Next]_vars => [result' # result => ~cancelled \/ late]_vars
  BY ResultSteps DEF Inv, CommitInv
<1> QED
  BY <1>1, Invariant, PTL DEF Spec, CancelStopsReport

LEMMA ContractInit == Init => EC!Init
BY DEF Init, EC!Init, Phase, NoResult

(* Every step of the graph is a step of the contract, or none of its business. *)
LEMMA ContractStep ==
  ASSUME Inv, [Next]_vars
  PROVE  [EC!Next]_(EC!vars)
<1> USE DEF envVars, graphVars, logVars, vars, Goto, Inv, Types
<1> DEFINE Still == UNCHANGED <<Phase, attempt, result.attempt>>
<1> HIDE DEF Still
<1>0. /\ Still => UNCHANGED EC!vars
      /\ (/\ Phase' = Phase /\ attempt' = attempt /\ result' = result) => Still
  BY DEF EC!vars, Still
<1>1. ASSUME step \in Working, step' \in Working, UNCHANGED <<attempt, result>>
      PROVE  Still
  BY <1>0, <1>1 DEF Phase
<1>2. ASSUME step \in Working, step' = "raised", UNCHANGED <<attempt, result>>
      PROVE  EC!Next
  BY <1>2 DEF Phase, EC!Next, EC!Raise
<1>3. CASE Enter
  BY <1>0, <1>1, <1>3 DEF Enter
<1>4. CASE Leave
  <2>1. CASE node = "ask_clarification"
    BY <1>4, <2>1 DEF Leave, Phase, EC!Next, EC!Ask
  <2>2. CASE node # "ask_clarification"
    BY <1>0, <1>1, <1>4, <2>2 DEF Leave
  <2> QED
    BY <2>1, <2>2
<1>5. CASE Quiet
  <2>1. CASE Persist
    <3>1. CASE UNCHANGED result
      BY <1>0, <1>1, <2>1, <3>1 DEF Persist
    <3>2. CASE result = NoResult /\ result' = [attempt |-> attempt, report |-> state.report]
      BY <2>1, <3>2 DEF Persist, Phase, NoResult, EC!Next, EC!Publish
    <3> QED
      BY <2>1, <3>1, <3>2 DEF Persist
  <2>2. CASE Compress
    <3>1. result.attempt # 0
      BY <2>2 DEF Compress, CommitInv
    <3> QED
      BY <2>2, <3>1 DEF Compress, Phase, EC!Next, EC!Succeed
  <2> QED
    BY <1>0, <1>1, <1>2, <1>5, <2>1, <2>2
       DEF Quiet, EnterCancelled, LeaveCancelled, ModelFails, ToolRaises, ToolCancelled,
           PersistFails, EmitFails
<1>6. CASE Noted
  BY <1>0, <1>1, <1>2, <1>6, ToolAnswersEffect DEF Noted, Except, StartTool
<1>7. CASE ToolDone
  BY <1>0, <1>1, <1>7 DEF ToolDone
<1>8. ASSUME NEW n, NEW s, Update(n, s)
      PROVE  Still
  BY <1>1, <1>8 DEF Update
<1>9. ASSUME NEW n, NEW e, Refuse(n, e)
      PROVE  Still
  BY <1>1, <1>9 DEF Refuse
<1>10. CASE UserCancels \/ UserDeletes \/ UNCHANGED vars
  BY <1>0, <1>10 DEF UserCancels, UserDeletes, Phase
<1>11. CASE SuccessLost
  BY <1>11 DEF SuccessLost, Phase, EC!Next, EC!LoseSuccess
<1>12. CASE NextAttempt
  BY <1>12 DEF NextAttempt, Phase, EC!Next, EC!Begin
<1> QED
  BY Steps, <1>0, <1>3, <1>4, <1>5, <1>6, <1>7, <1>8, <1>9, <1>10, <1>11, <1>12

(* The executor keeps its contract: at most one result, published before the   *)
(* success it stands for and never replaced, and no attempt after a             *)
(* cancellation (executor.py:100-124, stage_five_result_service.py:47-51).      *)
THEOREM ContractKept == Spec => Contract
BY ContractInit, ContractStep, Invariant, PTL DEF Spec, Contract, EC!Spec

------------------------------------------------------------------------------
(* The timeline of an attempt *)

LastEvent == log[Len(log)]

(* the newest event is one of these, of the node at work *)
Newest(kinds) == log # <<>> /\ LastEvent.node = node /\ LastEvent.what \in kinds

Finished == log # <<>> /\ LastEvent.what = "finished"

(* where an execution is, told by the newest event *)
PlaceInv ==
  /\ step = "enter" => \/ log = <<>>
                       \/ /\ Finished
                          /\ LastEvent.node # node
                          /\ node = "build_report_ir" /\ state.retries > 0 =>
                               LastEvent.node = "validate_report"
  /\ step = "body" => Newest({"started"})
  /\ step = "tool" => Newest({"started", "tool_finish"})
  /\ step = "call" => Newest({"tool_start"})
  /\ step \in {"ok", "bad"} => Newest({"tool_finish"})
  /\ step = "leave" => Newest({"started", "tool_finish"})
  /\ step = "except" => /\ Newest({"started", "tool_start", "tool_finish"})
                        /\ LastEvent.what = "tool_start" => error = "unexpected"
  /\ step \in {"persist", "compress", "waiting", "success"} => Finished
  /\ step = "raised" => log = <<>> \/ LastEvent.what \in {"finished", "failed"}

(* "failed" is the last event there is, so the error it is about does not change *)
FailedInv == step # "raised" => \A i \in 1..Len(log) : log[i].what # "failed"

Chained == \A i \in 2..Len(log) : Follows(log[i - 1], log[i])

TimelineInv == lost \/ (PlaceInv /\ FailedInv /\ Chained)

LEMMA TimelineInit == Init => TimelineInv
BY DEF Init, TimelineInv, PlaceInv, FailedInv, Chained

(* What appending an event does. *)
LEMMA Appended ==
  ASSUME Types, NEW e \in Events, log' = Append(log, e)
  PROVE  /\ LastEvent' = e
         /\ log' # <<>>
         /\ Len(log) \in Nat /\ Len(log') = Len(log) + 1
         /\ \A i \in 1..Len(log) : log'[i] = log[i]
         /\ log'[Len(log) + 1] = e
BY DEF Types, LastEvent

LEMMA ChainGrows ==
  ASSUME Types, Chained, FailedInv, step # "raised", UNCHANGED error,
         NEW e \in Events, log' = Append(log, e),
         log = <<>> \/ Follows(LastEvent, e)
  PROVE  Chained' /\ (e.what # "failed" => FailedInv')
<1>1. ASSUME NEW i \in 2..Len(log) PROVE Follows(log[i - 1], log[i])'
  <2>1. i \in 1..Len(log) /\ i - 1 \in 1..Len(log)
    BY <1>1
  <2>2. log'[i] = log[i] /\ log'[i - 1] = log[i - 1]
    BY <2>1, Appended
  <2>3. Follows(log[i - 1], log[i])
    BY <1>1 DEF Chained
  <2> QED
    BY <2>2, <2>3 DEF Follows
<1>2. ASSUME NEW i, i = Len(log) + 1, log # <<>> PROVE Follows(log[i - 1], log[i])'
  <2>1. log'[i - 1] = LastEvent /\ log'[i] = e
    <3>1. Len(log) \in Nat \ {0} /\ i - 1 = Len(log)
      BY <1>2 DEF Types
    <3>2. log'[Len(log)] = LastEvent /\ log'[Len(log) + 1] = e
      BY <3>1, Appended DEF LastEvent
    <3> QED
      BY <1>2, <3>1, <3>2
  <2> QED
    BY <1>2, <2>1 DEF Follows
<1>3. Chained'
  <2> SUFFICES ASSUME NEW i \in 2..Len(log') PROVE Follows(log[i - 1], log[i])'
    BY DEF Chained
  <2>1. i \in 2..Len(log) \/ (i = Len(log) + 1 /\ Len(log) > 0)
    BY Appended
  <2>2. Len(log) > 0 => log # <<>>
    OBVIOUS
  <2> QED
    BY <1>1, <1>2, <2>1, <2>2
<1>4. e.what # "failed" => FailedInv'
  BY Appended DEF FailedInv
<1> QED
  BY <1>3, <1>4

LEMMA EnterTimeline ==
  ASSUME Inv, ~lost, PlaceInv, FailedInv, Chained, Enter
  PROVE  TimelineInv'
<1> DEFINE started == [node |-> node, what |-> "started"]
           retry == [node |-> node, what |-> "retry"]
<1>1. started \in Events /\ retry \in Events
  BY DEF Inv, Types, Events
<1>2. Types /\ step = "enter" /\ UNCHANGED <<node, error, lost>>
  BY DEF Inv, Enter, Goto
<1>3. \/ log = <<>>
      \/ Finished /\ LastEvent.node # node
  BY <1>2 DEF PlaceInv
<1>4. CASE log' = Append(log, started)
  <2>1. log = <<>> \/ Follows(LastEvent, started)
    BY <1>3 DEF Follows, Finished
  <2>2. Chained' /\ FailedInv' /\ LastEvent' = started /\ log' # <<>>
    BY <1>1, <1>2, <1>4, <2>1, ChainGrows, Appended
  <2> QED
    BY <1>2, <2>2 DEF TimelineInv, PlaceInv, Newest, Enter, Goto
<1>5. CASE /\ node = "build_report_ir" /\ state.retries > 0
           /\ log' = Append(Append(log, retry), started)
  <2>1. log = <<>> \/ Follows(LastEvent, retry)
    BY <1>2, <1>3, <1>5 DEF PlaceInv, Follows, Finished
  <2> DEFINE l == Append(log, retry)
  <2>2. l \in Seq(Events) /\ Len(l) = Len(log) + 1 /\ l # <<>>
    BY <1>1, <1>2 DEF Types
  <2>3. \A i \in 1..Len(l) : l[i].what # "failed"
    BY <1>1, <1>2, <2>2 DEF Types, FailedInv
  <2>4. \A i \in 2..Len(l) : Follows(l[i - 1], l[i])
    <3> SUFFICES ASSUME NEW i \in 2..Len(l) PROVE Follows(l[i - 1], l[i])
      OBVIOUS
    <3>1. CASE i \in 2..Len(log)
      <4>1. l[i] = log[i] /\ l[i - 1] = log[i - 1]
        BY <1>1, <1>2, <3>1 DEF Types
      <4> QED
        BY <3>1, <4>1 DEF Chained
    <3>2. CASE i = Len(log) + 1
      <4>1. Len(log) \in Nat \ {0} /\ i - 1 = Len(log) /\ log # <<>>
        BY <1>2, <2>2, <3>2 DEF Types
      <4>2. l[Len(log) + 1] = retry /\ l[Len(log)] = log[Len(log)]
        BY <1>1, <1>2, <4>1 DEF Types
      <4> QED
        BY <2>1, <3>2, <4>1, <4>2 DEF LastEvent
    <3> QED
      BY <1>2, <2>2, <3>1, <3>2 DEF Types
  <2>5. l[Len(l)] = retry
    BY <1>1, <1>2 DEF Types
  <2> HIDE DEF l
  <2>6. Follows(l[Len(l)], started)
    BY <2>5 DEF Follows
  <2>7. /\ Len(log') = Len(l) + 1 /\ log' \in Seq(Events) /\ Len(l) \in Nat \ {0}
        /\ \A i \in 1..Len(l) : log'[i] = l[i]
        /\ log'[Len(l) + 1] = started
    BY <1>1, <1>5, <2>2 DEF l
  <2>8. Chained'
    <3> SUFFICES ASSUME NEW i \in 2..Len(log') PROVE Follows(log[i - 1], log[i])'
      BY DEF Chained
    <3>1. CASE i \in 2..Len(l)
      <4>1. log'[i] = l[i] /\ log'[i - 1] = l[i - 1]
        BY <2>7, <3>1
      <4> QED
        BY <1>2, <2>4, <3>1, <4>1 DEF Follows
    <3>2. CASE i = Len(l) + 1
      <4>1. log'[i] = started /\ log'[i - 1] = l[Len(l)]
        BY <2>7, <3>2
      <4> QED
        BY <1>2, <2>6, <4>1 DEF Follows
    <3> QED
      BY <2>7, <3>1, <3>2
  <2>9. FailedInv' /\ LastEvent' = started /\ log' # <<>>
    BY <2>3, <2>7 DEF FailedInv, LastEvent
  <2> QED
    BY <1>2, <2>8, <2>9 DEF TimelineInv, PlaceInv, Newest, Enter, Goto
<1> QED
  BY <1>4, <1>5 DEF Enter

LEMMA EmitGrows ==
  ASSUME Types, Chained, FailedInv, step # "raised", UNCHANGED error, NEW w \in Kinds, Emit(w),
         log # <<>>, Follows(LastEvent, [node |-> node, what |-> w])
  PROVE  /\ Chained'
         /\ w # "failed" => FailedInv'
         /\ log' # <<>>
         /\ LastEvent' = [node |-> node, what |-> w]
         /\ UNCHANGED lost
<1>1. [node |-> node, what |-> w] \in Events
  BY DEF Types, Events
<1> QED
  BY <1>1, ChainGrows, Appended DEF Emit

LEMMA LeaveTimeline ==
  ASSUME Inv, ~lost, PlaceInv, FailedInv, Chained, Leave
  PROVE  TimelineInv'
<1>1. Types /\ step = "leave" /\ Newest({"started", "tool_finish"}) /\ UNCHANGED <<error, state>>
  BY DEF Inv, Leave, PlaceInv
<1>2. /\ Chained' /\ FailedInv' /\ log' # <<>> /\ UNCHANGED lost
      /\ LastEvent'.node = node /\ LastEvent'.what = "finished"
  <2>1. Follows(LastEvent, [node |-> node, what |-> "finished"])
    BY <1>1 DEF Newest, Follows
  <2> QED
    BY <1>1, <2>1, EmitGrows DEF Leave, Newest
<1>3. Finished'
  BY <1>2 DEF Finished
<1>4. CASE node \in {"ask_clarification", "render_report"}
  BY <1>2, <1>3, <1>4 DEF Leave, Goto, TimelineInv, PlaceInv
<1>5. CASE node \notin {"ask_clarification", "render_report"}
  <2>1. node' = Successor /\ step' = "enter"
    BY <1>5 DEF Leave
  <2>2. Successor # node
    BY <1>1, <1>5 DEF Successor, Types
  <2>3. Successor = "build_report_ir" => node \in {"determine_attribution", "validate_report"}
    BY <1>1, <1>5 DEF Successor, Types
  <2>4. node = "determine_attribution" => state.retries = 0
    BY DEF Inv, RetryInv
  <2> QED
    BY <1>1, <1>2, <1>3, <2>1, <2>2, <2>3, <2>4 DEF TimelineInv, PlaceInv
<1> QED
  BY <1>4, <1>5

LEMMA NotedTimeline ==
  ASSUME Inv, ~lost, PlaceInv, FailedInv, Chained, Noted
  PROVE  TimelineInv'
<1>0. Types
  BY DEF Inv
<1>1. CASE Except
  <2>1. step = "except" /\ Newest({"started", "tool_start", "tool_finish"}) /\ UNCHANGED error
    BY <1>1 DEF Except, PlaceInv
  <2>2. Follows(LastEvent, [node |-> node, what |-> "failed"])
    BY <1>1, <2>1 DEF Newest, Follows, PlaceInv
  <2>3. /\ Chained' /\ UNCHANGED lost /\ LastEvent'.what = "failed"
    BY <1>0, <1>1, <2>1, <2>2, EmitGrows DEF Except, Newest
  <2> QED
    BY <1>1, <2>3 DEF Except, Goto, TimelineInv, PlaceInv, FailedInv
<1>2. CASE StartTool
  <2>1. step = "tool" /\ Newest({"started", "tool_finish"}) /\ UNCHANGED error
    BY <1>2 DEF StartTool, PlaceInv
  <2>2. Follows(LastEvent, [node |-> node, what |-> "tool_start"])
    BY <2>1 DEF Newest, Follows
  <2>3. /\ Chained' /\ FailedInv' /\ UNCHANGED lost /\ log' # <<>>
        /\ LastEvent'.what = "tool_start" /\ LastEvent'.node = node
    BY <1>0, <1>2, <2>1, <2>2, EmitGrows DEF StartTool, Newest
  <2> QED
    BY <1>2, <2>3 DEF StartTool, Goto, TimelineInv, PlaceInv, Newest
<1>3. CASE ToolAnswers
  <2>1. step = "call" /\ Newest({"tool_start"}) /\ UNCHANGED error /\ Emit("tool_finish")
    BY <1>3, ToolAnswersEffect DEF PlaceInv
  <2>2. Follows(LastEvent, [node |-> node, what |-> "tool_finish"])
    BY <2>1 DEF Newest, Follows
  <2>3. /\ Chained' /\ FailedInv' /\ UNCHANGED lost /\ log' # <<>>
        /\ LastEvent'.what = "tool_finish" /\ LastEvent'.node = node
    BY <1>0, <2>1, <2>2, EmitGrows DEF Newest
  <2> QED
    BY <1>3, <2>3, ToolAnswersEffect DEF Goto, TimelineInv, PlaceInv, Newest
<1> QED
  BY <1>1, <1>2, <1>3 DEF Noted

(* the steps that write no event *)
LEMMA SilentTimeline ==
  ASSUME Inv, ~lost, PlaceInv, FailedInv, Chained, UNCHANGED logVars, step # "raised",
         PlaceInv'
  PROVE  TimelineInv'
<1>1. \A a, b \in Events : b.what # "failed" => (Follows(a, b)' <=> Follows(a, b))
  BY DEF Follows, Events
<1>2. Chained'
  BY <1>1 DEF Chained, FailedInv, logVars, Inv, Types
<1>3. FailedInv'
  BY DEF FailedInv, logVars
<1> QED
  BY <1>2, <1>3 DEF TimelineInv

LEMMA QuietTimeline ==
  ASSUME Inv, ~lost, PlaceInv, FailedInv, Chained, Quiet
  PROVE  TimelineInv'
<1>1. CASE EmitFails
  BY <1>1 DEF EmitFails, TimelineInv
<1>2. CASE ~EmitFails
  <2>1. UNCHANGED logVars /\ step # "raised"
    BY <1>2 DEF Quiet, EnterCancelled, LeaveCancelled, ModelFails, ToolRaises, ToolCancelled,
                Persist, PersistFails, Compress, NoEvent
  <2>2. UNCHANGED <<log, node>>
    BY <1>2, <2>1 DEF Quiet, EnterCancelled, LeaveCancelled, ModelFails, ToolRaises, ToolCancelled,
                      Persist, PersistFails, Compress, Goto, logVars
  <2>3. PlaceInv'
    <3> USE DEF PlaceInv, Newest, Finished, LastEvent, Goto
    <3>1. CASE EnterCancelled
      BY <2>2, <3>1 DEF EnterCancelled
    <3>2. CASE LeaveCancelled
      BY <2>2, <3>2 DEF LeaveCancelled
    <3>3. CASE ModelFails
      BY <2>2, <3>3 DEF ModelFails
    <3>4. CASE ToolRaises
      BY <2>2, <3>4 DEF ToolRaises
    <3>5. CASE ToolCancelled
      BY <2>2, <3>5 DEF ToolCancelled
    <3>6. CASE Persist \/ PersistFails \/ Compress
      BY <2>2, <3>6 DEF Persist, PersistFails, Compress
    <3> QED
      BY <1>2, <3>1, <3>2, <3>3, <3>4, <3>5, <3>6 DEF Quiet
  <2> QED
    BY <2>1, <2>3, SilentTimeline
<1> QED
  BY <1>1, <1>2

LEMMA NodeTimeline ==
  ASSUME Inv, ~lost, PlaceInv, FailedInv, Chained,
         \/ ToolDone
         \/ \E n \in Nodes \ ToolNodes : \E s : Update(n, s) /\ Kept(n, s)
         \/ \E n, e : Refuse(n, e)
  PROVE  TimelineInv'
<1> USE DEF PlaceInv, Newest, Finished, LastEvent, Goto, NoEvent, logVars
<1>1. CASE ToolDone
  <2>1. PlaceInv'
    BY <1>1 DEF ToolDone
  <2> QED
    BY <1>1, <2>1, SilentTimeline DEF ToolDone
<1>2. ASSUME NEW n, NEW s, Update(n, s)
      PROVE  TimelineInv'
  <2>1. PlaceInv'
    BY <1>2 DEF Update
  <2> QED
    BY <1>2, <2>1, SilentTimeline DEF Update
<1>3. ASSUME NEW n, NEW e, Refuse(n, e)
      PROVE  TimelineInv'
  <2>1. PlaceInv'
    BY <1>3 DEF Refuse
  <2> QED
    BY <1>3, <2>1, SilentTimeline DEF Refuse
<1> QED
  BY <1>1, <1>2, <1>3

LEMMA EnvironmentTimeline ==
  ASSUME Inv, TimelineInv,
         UserCancels \/ UserDeletes \/ SuccessLost \/ NextAttempt \/ UNCHANGED vars
  PROVE  TimelineInv'
<1>1. CASE UserCancels \/ UserDeletes \/ UNCHANGED vars
  <2>1. UNCHANGED <<node, step, state, error, log, lost>>
    BY <1>1 DEF UserCancels, UserDeletes, vars, graphVars, logVars
  <2> QED
    BY <2>1 DEF TimelineInv, PlaceInv, Newest, Finished, LastEvent, FailedInv, Chained, Follows
<1>2. CASE SuccessLost
  <2>1. UNCHANGED logVars /\ UNCHANGED node /\ step = "success" /\ step' = "raised"
    BY <1>2 DEF SuccessLost
  <2>2. CASE ~lost
    <3>1. PlaceInv'
      BY <2>1, <2>2 DEF TimelineInv, PlaceInv, Finished, LastEvent, logVars
    <3> QED
      BY <2>1, <2>2, <3>1, SilentTimeline DEF TimelineInv
  <2>3. CASE lost
    BY <2>1, <2>3 DEF TimelineInv, logVars
  <2> QED
    BY <2>2, <2>3
<1>3. CASE NextAttempt
  BY <1>3 DEF NextAttempt, TimelineInv, PlaceInv, FailedInv, Chained
<1> QED
  BY <1>1, <1>2, <1>3

(* once an event is lost, the rest of the attempt's timeline says nothing *)
LEMMA LostTimeline ==
  ASSUME lost, [Next]_vars
  PROVE  lost' \/ NextAttempt
<1> USE DEF NoEvent, logVars, graphVars, Emit
<1>1. CASE UNCHANGED vars
  BY <1>1 DEF vars
<1>2. CASE ToolAnswers
  BY <1>2, ToolAnswersEffect
<1> QED
  BY <1>1, <1>2
     DEF Next, Executor, Environment, Over, Enter, EnterCancelled, Leave, LeaveCancelled, Except,
         LoadContext, DefineProblem, AskClarification, BuildAnalysisPlan, ValidateData,
         BuildEvidence, DetermineAttribution, BuildReportIR, ValidateReport, RenderReport,
         Unchanged, Update, Refuse, StartTool, ToolRaises, ToolCancelled, ToolDone, Persist,
         PersistFails, Compress, EmitFails, ModelFails, UserCancels, UserDeletes, SuccessLost

LEMMA TimelineNext ==
  ASSUME Inv, TimelineInv, [Next]_vars
  PROVE  TimelineInv'
<1>1. CASE lost
  BY <1>1, LostTimeline, EnvironmentTimeline DEF TimelineInv
<1>2. CASE ~lost
  <2>1. PlaceInv /\ FailedInv /\ Chained
    BY <1>2 DEF TimelineInv
  <2> QED
    BY <1>2, <2>1, Steps, EnterTimeline, LeaveTimeline, QuietTimeline, NotedTimeline,
       NodeTimeline, EnvironmentTimeline
<1> QED
  BY <1>1, <1>2

(* The events of an attempt are nested, and every start has its end when the   *)
(* attempt is over, unless an event could not be written or a tool raised       *)
(* (runtime.py:36-101).                                                         *)
THEOREM TimelinePaired == Spec => []EventsPaired
<1>1. Inv /\ TimelineInv => EventsPaired
  BY DEF Inv, TimelineInv, PlaceInv, Finished, LastEvent, Chained, EventsPaired
<1> QED
  BY <1>1, TimelineInit, TimelineNext, Invariant, PTL DEF Spec

------------------------------------------------------------------------------
(* How often a node is started *)

StartOf(n) == [node |-> n, what |-> "started"]

StartsIn(l, n) == Cardinality({i \in DOMAIN l : l[i] = StartOf(n)})

(* the order in which the nodes are met *)
Rank(n) == CASE n = "load_context" -> 1
             [] n = "define_problem" -> 2
             [] n \in {"ask_clarification", "build_analysis_plan"} -> 3
             [] n = "query_data" -> 4
             [] n = "validate_data" -> 5
             [] n = "analyze_with_pandas" -> 6
             [] n = "build_evidence" -> 7
             [] n = "determine_attribution" -> 8
             [] n = "build_report_ir" -> 9
             [] n = "validate_report" -> 10
             [] n = "render_report" -> 11

(* met in this round *)
Met(n) == Rank(n) < Rank(node) \/ (Rank(n) = Rank(node) /\ step # "enter")

(* how often the loop has been taken before this round *)
Rounds == IF node = "validate_report" /\ step = "leave" /\ ~state.valid THEN 0 ELSE state.retries

Limit(n) == (IF Met(n) THEN 1 ELSE 0) + (IF n \in LoopNodes THEN Rounds ELSE 0)

StartsInv == \A n \in Nodes : StartsIn(log, n) <= Limit(n)

LEMMA Ranks ==
  /\ Rank("load_context") = 1
  /\ Rank("define_problem") = 2
  /\ Rank("ask_clarification") = 3
  /\ Rank("build_analysis_plan") = 3
  /\ Rank("query_data") = 4
  /\ Rank("validate_data") = 5
  /\ Rank("analyze_with_pandas") = 6
  /\ Rank("build_evidence") = 7
  /\ Rank("determine_attribution") = 8
  /\ Rank("build_report_ir") = 9
  /\ Rank("validate_report") = 10
  /\ Rank("render_report") = 11
  /\ \A n \in Nodes : Rank(n) \in Nat
BY DEF Rank

LEMMA StartsTyped ==
  ASSUME NEW l \in Seq(Events), NEW n
  PROVE  StartsIn(l, n) \in Nat
<1>1. DOMAIN l = 1..Len(l) /\ Len(l) \in Nat
  OBVIOUS
<1> DEFINE S == {i \in DOMAIN l : l[i] = StartOf(n)}
<1>2. IsFiniteSet(1..Len(l)) /\ S \subseteq 1..Len(l)
  BY <1>1, FS_Interval
<1> HIDE DEF S
<1>3. Cardinality(S) \in Nat
  BY <1>2, FS_Subset, FS_CardinalityType
<1> QED
  BY <1>3 DEF StartsIn, S

LEMMA StartsGrow ==
  ASSUME NEW l \in Seq(Events), NEW e \in Events, NEW n
  PROVE  StartsIn(Append(l, e), n) = StartsIn(l, n) + (IF e = StartOf(n) THEN 1 ELSE 0)
<1> DEFINE m == Append(l, e)
           S == {i \in DOMAIN l : l[i] = StartOf(n)}
           T == {i \in DOMAIN m : m[i] = StartOf(n)}
<1>1. DOMAIN l = 1..Len(l) /\ Len(l) \in Nat
  OBVIOUS
<1>2. DOMAIN m = 1..(Len(l) + 1) /\ m[Len(l) + 1] = e /\ \A i \in 1..Len(l) : m[i] = l[i]
  OBVIOUS
<1> HIDE DEF m
<1>3. IsFiniteSet(S) /\ Cardinality(S) \in Nat
  <2>1. IsFiniteSet(1..Len(l)) /\ S \subseteq 1..Len(l)
    BY <1>1, FS_Interval
  <2> HIDE DEF S
  <2> QED
    BY <2>1, FS_Subset, FS_CardinalityType
<1>4. StartsIn(l, n) = Cardinality(S) /\ StartsIn(Append(l, e), n) = Cardinality(T)
  BY DEF StartsIn, m
<1>5. CASE e = StartOf(n)
  <2>1. T = S \cup {Len(l) + 1} /\ Len(l) + 1 \notin S
    BY <1>1, <1>2, <1>5
  <2>2. Cardinality(T) = Cardinality(S) + 1
    BY <1>3, <2>1, FS_AddElement
  <2> HIDE DEF S, T
  <2> QED
    BY <1>3, <1>4, <1>5, <2>2
<1>6. CASE e # StartOf(n)
  <2>1. T = S
    BY <1>1, <1>2, <1>6
  <2> HIDE DEF S, T
  <2> QED
    BY <1>3, <1>4, <1>6, <2>1
<1> QED
  BY <1>5, <1>6

LimitsTyped == \A n : Limit(n) \in Nat /\ Limit(n) <= IF n \in LoopNodes THEN 2 ELSE 1

LEMMA LimitTyped == Types => LimitsTyped
<1> SUFFICES ASSUME Types, NEW n
             PROVE  Limit(n) \in Nat /\ Limit(n) <= IF n \in LoopNodes THEN 2 ELSE 1
  BY DEF LimitsTyped
<1>1. Rounds \in {0, 1}
  BY DEF Types, Rounds
<1>2. CASE Met(n)
  BY <1>1, <1>2 DEF Limit
<1>3. CASE ~Met(n)
  BY <1>1, <1>3 DEF Limit
<1> QED
  BY <1>2, <1>3

LEMMA LimitTypedNext == Types' => LimitsTyped'
BY LimitTyped, PTL

LEMMA LimitGrows ==
  ASSUME Types, Types', NEW n,
         Met(n) => Met(n)',
         n \in LoopNodes => Rounds' >= Rounds
  PROVE  Limit(n)' >= Limit(n)
<1> DEFINE a == IF n \in LoopNodes THEN Rounds ELSE 0
           b == IF n \in LoopNodes THEN Rounds' ELSE 0
<1>1. Rounds \in {0, 1} /\ Rounds' \in {0, 1}
  BY DEF Types, Rounds
<1>2. a \in Nat /\ b \in Nat /\ b >= a
  BY <1>1
<1>3. /\ Met(n) => Limit(n) = 1 + a
      /\ ~Met(n) => Limit(n) = 0 + a
  BY DEF Limit
<1>4. /\ Met(n)' => Limit(n)' = 1 + b
      /\ ~Met(n)' => Limit(n)' = 0 + b
  BY DEF Limit
<1> HIDE DEF a, b
<1> QED
  BY <1>2, <1>3, <1>4

LEMMA StartsInit == Init => StartsInv
<1> SUFFICES ASSUME Init PROVE StartsInv
  OBVIOUS
<1>1. \A n : {i \in DOMAIN log : log[i] = StartOf(n)} = {}
  BY DEF Init
<1>2. \A n : StartsIn(log, n) = 0
  BY <1>1, FS_EmptySet DEF StartsIn
<1>3. \A n : Limit(n) \in Nat
  BY InitInv, LimitTyped DEF Inv, LimitsTyped
<1> QED
  BY <1>2, <1>3 DEF StartsInv

(* a step that starts no node keeps the bound if the limits do not fall *)
LEMMA StartsStay ==
  ASSUME Inv, StartsInv, Inv',
         \/ UNCHANGED log
         \/ \E e \in Events : e.what # "started" /\ log' = Append(log, e),
         \A n \in Nodes : Limit(n)' >= Limit(n)
  PROVE  StartsInv'
<1> SUFFICES ASSUME NEW n \in Nodes PROVE StartsIn(log', n) <= Limit(n)'
  BY DEF StartsInv
<1>1. StartsIn(log', n) = StartsIn(log, n)
  <2>1. ASSUME NEW e \in Events, e.what # "started", log' = Append(log, e)
        PROVE  StartsIn(log', n) = StartsIn(log, n)
    <3>1. e # StartOf(n)
      BY <2>1 DEF StartOf
    <3>2. StartsIn(log, n) \in Nat
      BY StartsTyped DEF Inv, Types
    <3> QED
      BY <2>1, <3>1, <3>2, StartsGrow DEF Inv, Types
  <2> QED
    BY <2>1
<1>2. StartsIn(log, n) \in Nat
  BY StartsTyped DEF Inv, Types
<1>3. Limit(n) \in Nat /\ Limit(n)' \in Nat
  BY LimitTyped, LimitTypedNext DEF Inv, LimitsTyped
<1> QED
  BY <1>1, <1>2, <1>3 DEF StartsInv

LEMMA EnterStarts ==
  ASSUME Inv, StartsInv, Enter, Inv'
  PROVE  StartsInv'
<1> DEFINE retry == [node |-> node, what |-> "retry"]
<1>1. StartOf(node) \in Events /\ retry \in Events /\ \A n : retry # StartOf(n)
  BY DEF Inv, Types, Events, StartOf
<1> SUFFICES ASSUME NEW n \in Nodes PROVE StartsIn(log', n) <= Limit(n)'
  BY DEF StartsInv
<1>2. StartsIn(log', n) = StartsIn(log, n) + (IF StartOf(node) = StartOf(n) THEN 1 ELSE 0)
  <2>1. log \in Seq(Events) /\ StartsIn(log, n) \in Nat
    BY StartsTyped DEF Inv, Types
  <2>2. CASE log' = Append(log, StartOf(node))
    BY <1>1, <2>1, <2>2, StartsGrow
  <2>3. CASE log' = Append(Append(log, retry), StartOf(node))
    <3>1. Append(log, retry) \in Seq(Events)
      BY <1>1, <2>1
    <3>2. StartsIn(Append(log, retry), n) = StartsIn(log, n)
      <4>1. StartsIn(Append(log, retry), n) = StartsIn(log, n) + 0
        BY <1>1, <2>1, StartsGrow
      <4> QED
        BY <2>1, <4>1
    <3>3. StartsIn(Append(Append(log, retry), StartOf(node)), n)
            = StartsIn(Append(log, retry), n) + (IF StartOf(node) = StartOf(n) THEN 1 ELSE 0)
      BY <1>1, <3>1, StartsGrow
    <3> QED
      BY <2>3, <3>2, <3>3
  <2> QED
    BY <2>2, <2>3 DEF Enter, StartOf
<1>3. StartOf(node) = StartOf(n) => n = node
  BY DEF StartOf
<1>4. step = "enter" /\ step' # "enter" /\ step' # "leave" /\ UNCHANGED <<node, state>>
  BY DEF Enter, Goto
<1>5. Limit(n)' >= Limit(n) + (IF n = node THEN 1 ELSE 0)
  <2>1. Rank(n) \in Nat /\ Rank(node) \in Nat
    BY Ranks DEF Inv, Types
  <2>2. Rounds' = Rounds /\ Rounds \in {0, 1}
    BY <1>4 DEF Rounds, Inv, Types
  <2>3. CASE n = node
    <3>1. Met(n)' /\ ~Met(n)
      BY <1>4, <2>1, <2>3 DEF Met
    <3> QED
      BY <2>2, <2>3, <3>1 DEF Limit
  <2>4. CASE n # node
    <3>1. Met(n) => Met(n)'
      BY <1>4 DEF Met, Rank
    <3> QED
      BY <2>2, <2>4, <3>1, LimitGrows, LimitTyped, LimitTypedNext DEF Inv, LimitsTyped
  <2> QED
    BY <2>3, <2>4
<1>6. StartsIn(log, n) \in Nat /\ StartsIn(log, n) <= Limit(n)
  BY StartsTyped DEF StartsInv, Inv, Types
<1>7. Limit(n) \in Nat /\ Limit(n)' \in Nat
  BY LimitTyped, LimitTypedNext DEF Inv, LimitsTyped
<1> QED
  BY <1>2, <1>3, <1>5, <1>6, <1>7

LEMMA LeaveStarts ==
  ASSUME Inv, StartsInv, Leave, Inv'
  PROVE  StartsInv'
<1>1. /\ step = "leave" /\ UNCHANGED state
      /\ [node |-> node, what |-> "finished"] \in Events
      /\ log' = Append(log, [node |-> node, what |-> "finished"])
  BY DEF Leave, Emit, Inv, Types, Events
<1>2. CASE node \in {"ask_clarification", "render_report"}
  <2>1. UNCHANGED node /\ step' # "enter"
    BY <1>2 DEF Leave, Goto
  <2>2. \A n : Met(n) => Met(n)'
    BY <1>1, <2>1 DEF Met, Rank
  <2>3. Rounds' >= Rounds
    BY <1>1, <1>2, <2>1 DEF Rounds, Inv, Types
  <2> QED
    BY <1>1, <2>2, <2>3, LimitGrows, StartsStay DEF Inv
<1>3. CASE /\ node \notin {"ask_clarification", "render_report"}
           /\ node # "validate_report" \/ state.valid
  <2>1. node' = Successor /\ step' = "enter"
    BY <1>3 DEF Leave
  <2>2. Rank(Successor) > Rank(node)
    BY <1>3, Ranks DEF Successor, Inv, Types
  <2>3. Rank(node) \in Nat /\ Rank(Successor) \in Nat
    BY <2>1, Ranks DEF Inv, Types
  <2>4. \A n \in Nodes : Met(n) => Met(n)'
    <3> SUFFICES ASSUME NEW n \in Nodes, Met(n) PROVE Rank(n) < Rank(Successor)
      BY <2>1 DEF Met
    <3>1. Rank(n) \in Nat
      BY Ranks
    <3> QED
      BY <2>2, <2>3, <3>1 DEF Met
  <2>5. Rounds' >= Rounds
    BY <1>1, <1>3, <2>1 DEF Rounds, Inv, Types
  <2> QED
    BY <1>1, <2>4, <2>5, LimitGrows, StartsStay DEF Inv
<1>4. CASE node = "validate_report" /\ ~state.valid
  <2>1. node' = "build_report_ir" /\ step' = "enter"
    BY <1>4 DEF Leave, Successor
  <2>2. state.retries = 1
    BY <1>1, <1>4 DEF Inv, RetryInv
  <2>3. Rounds = 0 /\ Rounds' = 1
    BY <1>1, <1>4, <2>1, <2>2 DEF Rounds
  <2>4. ASSUME NEW n \in Nodes PROVE Limit(n)' >= Limit(n)
    <3>1. CASE n \in LoopNodes
      <4>1. Limit(n) \in Nat /\ Limit(n) <= 1
        <5>1. CASE Met(n)
          BY <2>3, <3>1, <5>1 DEF Limit
        <5>2. CASE ~Met(n)
          BY <2>3, <3>1, <5>2 DEF Limit
        <5> QED
          BY <5>1, <5>2
      <4>2. ~Met(n)'
        BY <2>1, <3>1, Ranks DEF Met, Rank
      <4>3. Limit(n)' = 1
        BY <2>3, <3>1, <4>2 DEF Limit
      <4> QED
        BY <4>1, <4>3
    <3>2. CASE n \notin LoopNodes
      <4>1. Met(n) => Met(n)'
        <5>1. n # "render_report" => Rank(n) < 9
          BY <3>2, Ranks
        <5>2. ~(11 < 10) /\ Rank("render_report") = 11 /\ Rank("validate_report") = 10
              /\ Rank("build_report_ir") = 9
          BY Ranks
        <5> QED
          BY <1>4, <2>1, <5>1, <5>2 DEF Met, Rank
      <4> QED
        BY <3>2, <4>1, LimitGrows DEF Inv
    <3> QED
      BY <3>1, <3>2
  <2> QED
    BY <1>1, <2>4, StartsStay
<1> QED
  BY <1>2, <1>3, <1>4

(* the node stays the same, and it has been entered if it was *)
LEMMA SameNodeStarts ==
  ASSUME Inv, StartsInv, Inv', UNCHANGED node,
         \/ UNCHANGED log
         \/ \E e \in Events : e.what # "started" /\ log' = Append(log, e),
         step' = "enter" => step = "enter",
         Rounds' >= Rounds
  PROVE  StartsInv'
<1>1. \A n \in Nodes : Met(n) => Met(n)'
  BY DEF Met, Rank
<1> QED
  BY <1>1, LimitGrows, StartsStay DEF Inv

LEMMA OtherStarts ==
  ASSUME Inv, StartsInv, Inv',
         \/ Quiet \/ Noted \/ ToolDone
         \/ \E n \in Nodes \ ToolNodes : \E s : Update(n, s) /\ Kept(n, s)
         \/ \E n, e : Refuse(n, e)
         \/ UserCancels \/ UserDeletes \/ SuccessLost \/ UNCHANGED vars
  PROVE  StartsInv'
<1> USE DEF graphVars, logVars, vars, Goto, NoEvent, Inv, Types, Rounds
<1>1. CASE Quiet
  <2>1. /\ UNCHANGED <<log, node, state>> /\ step' # "enter" /\ step' # "leave"
    BY <1>1 DEF Quiet, EnterCancelled, LeaveCancelled, ModelFails, ToolRaises, ToolCancelled,
                Persist, PersistFails, Compress, EmitFails
  <2> QED
    BY <2>1, SameNodeStarts
<1>2. CASE Noted
  <2>1. UNCHANGED <<node, state>> /\ step' # "enter" /\ step' # "leave"
    BY <1>2, ToolAnswersEffect DEF Noted, Except, StartTool
  <2>2. \E w \in Kinds \ {"started"} : Emit(w)
    BY <1>2, ToolAnswersEffect DEF Noted, Except, StartTool
  <2>3. \E e \in Events : e.what # "started" /\ log' = Append(log, e)
    BY <2>2 DEF Emit, Events
  <2> QED
    BY <2>1, <2>3, SameNodeStarts
<1>3. CASE ToolDone
  <2>1. UNCHANGED <<log, node>> /\ step' # "enter"
    BY <1>3 DEF ToolDone
  <2>2. Rounds' >= Rounds
    BY <1>3 DEF ToolDone, RetryInv
  <2> QED
    BY <2>1, <2>2, SameNodeStarts
<1>4. ASSUME NEW n, NEW s, Update(n, s), Kept(n, s)
      PROVE  StartsInv'
  <2>1. UNCHANGED <<log, node>> /\ step' = "leave" /\ step = "body" /\ node = n /\ state' = s
    BY <1>4 DEF Update
  <2>2. Rounds' >= Rounds
    BY <1>4, <2>1 DEF Kept
  <2> QED
    BY <2>1, <2>2, SameNodeStarts
<1>5. ASSUME NEW n, NEW e, Refuse(n, e)
      PROVE  StartsInv'
  BY <1>5, SameNodeStarts DEF Refuse
<1>6. CASE UserCancels \/ UserDeletes \/ UNCHANGED vars
  <2>1. UNCHANGED <<log, node, state, step>>
    BY <1>6 DEF UserCancels, UserDeletes
  <2> QED
    BY <2>1, SameNodeStarts
<1>7. CASE SuccessLost
  BY <1>7, SameNodeStarts DEF SuccessLost
<1> QED
  BY <1>1, <1>2, <1>3, <1>4, <1>5, <1>6, <1>7

LEMMA NextAttemptStarts ==
  ASSUME Inv', NextAttempt
  PROVE  StartsInv'
<1>1. log' = <<>>
  BY DEF NextAttempt
<1>2. \A n : {i \in DOMAIN log' : log'[i] = StartOf(n)} = {}
  BY <1>1
<1>3. \A n : StartsIn(log', n) = 0
  BY <1>2, FS_EmptySet DEF StartsIn
<1>4. \A n : Limit(n)' \in Nat
  BY LimitTypedNext DEF Inv, LimitsTyped
<1> QED
  BY <1>3, <1>4 DEF StartsInv

LEMMA StartsNext ==
  ASSUME Inv, StartsInv, [Next]_vars
  PROVE  StartsInv'
<1>1. Inv'
  BY NextInv
<1> QED
  BY <1>1, Steps, EnterStarts, LeaveStarts, OtherStarts, NextAttemptStarts

(* An attempt starts no node twice, but for the loop of build_report_ir and     *)
(* validate_report, which it takes at most once more (graph.py:84-88,           *)
(* validate_report.py:15): it is bounded whatever the data is like.             *)
THEOREM AttemptIsBounded == Spec => []AttemptBounded
<1>1. Inv /\ StartsInv => AttemptBounded
  <2> SUFFICES ASSUME Inv, StartsInv, NEW n \in Nodes
               PROVE  Starts(n) <= IF n \in LoopNodes THEN 2 ELSE 1
    BY DEF AttemptBounded
  <2>1. Starts(n) = StartsIn(log, n)
    BY DEF Starts, StartsIn, StartOf
  <2>2. StartsIn(log, n) \in Nat /\ StartsIn(log, n) <= Limit(n)
    BY StartsTyped DEF StartsInv, Inv, Types
  <2> QED
    BY <2>1, <2>2, LimitTyped DEF Inv, LimitsTyped
<1> QED
  BY <1>1, StartsInit, StartsNext, Invariant, PTL DEF Spec


------------------------------------------------------------------------------
(* The repair of a report (ReportRules), for reports of any size: what it      *)
(* keeps satisfies the rules the report was refused for, and nothing in it      *)
(* claims more than it did before.                                              *)

USE DEF Lists, Required

(* What a repaired list is a restriction of. *)
LEMMA KeptAreOk ==
  ASSUME NEW list
  PROVE  /\ \A p \in DOMAIN unique_validated_items(list) :
              /\ p \in DOMAIN list
              /\ unique_validated_items(list)[p] = list[p]
              /\ list[p].ok
              /\ list[p].id # 0
         /\ \A p \in DOMAIN validated_items(list) :
              /\ p \in DOMAIN list
              /\ validated_items(list)[p] = list[p]
              /\ list[p].ok
  BY DEF unique_validated_items, validated_items, Keep, FirstOfId, OkPositions

(* Of two positions with the same id the first alone is kept. *)
LEMMA KeptAreUnique ==
  ASSUME NEW list, NEW P, P \subseteq Nat
  PROVE  \A p, q \in FirstOfId(list, P) : list[p].id = list[q].id => p = q
<1> SUFFICES ASSUME NEW p \in FirstOfId(list, P), NEW q \in FirstOfId(list, P),
                    list[p].id = list[q].id
             PROVE  p = q
  OBVIOUS
<1>1. p <= q /\ q <= p
  BY DEF FirstOfId
<1>2. p \in Nat /\ q \in Nat
  BY DEF FirstOfId
<1> QED
  BY <1>1, <1>2

LEMMA UniqueItems ==
  ASSUME NEW list, DOMAIN list \subseteq Nat
  PROVE  UniqueIds(unique_validated_items(list))
<1>1. OkPositions(list) \subseteq Nat
  BY DEF OkPositions
<1>2. \A p, q \in FirstOfId(list, OkPositions(list)) : list[p].id = list[q].id => p = q
  BY <1>1, KeptAreUnique
<1> QED
  BY <1>2 DEF UniqueIds, unique_validated_items, Keep

(* What the repair relies on: numbered lists, and conclusions with the fields  *)
(* of a conclusion, whatever their values.                                      *)
ConclusionFields == {"id", "shape", "status", "needed", "conf", "cites"}

Shaped(r) == /\ DOMAIN r = Lists
             /\ \A l \in Lists : DOMAIN r[l] \subseteq Nat
             /\ \A p \in DOMAIN r["attribution_conclusions"] :
                   DOMAIN r["attribution_conclusions"][p] = ConclusionFields

LEMMA PayloadsAreShaped ==
  ASSUME NEW r, IsPayload(r)
  PROVE  Shaped(r)
<1>1. \A c \in Conclusion : DOMAIN c = ConclusionFields
  BY DEF Conclusion, ConclusionFields
<1>2. IsList(r["attribution_conclusions"], Conclusion)
  BY DEF IsPayload, ItemOf
<1>3. \A l \in Lists : DOMAIN r[l] \subseteq Nat
  BY DEF IsPayload, IsList
<1> QED
  BY <1>1, <1>2, <1>3 DEF Shaped, IsList, IsPayload

(* What the repair does to one conclusion: it may cite what is left of the    *)
(* evidence, and a claim that what it cites does not carry is withdrawn.      *)
LEMMA RepairedConclusion ==
  ASSUME NEW c, DOMAIN c = ConclusionFields, NEW evidence
  PROVE  LET d == RepairConclusion(c, evidence)
         IN  /\ DOMAIN d = ConclusionFields
             /\ d.id = c.id
             /\ d.cites \subseteq c.cites \cap Ids(evidence)
             /\ d.status = "confirmed" =>
                  /\ c.status = "confirmed"
                  /\ d.cites # {}
                  /\ ~d.needed
                  /\ Verified(evidence, d.cites)
             /\ d.conf \in {c.conf, AtMost(c.conf, 49), AtMost(c.conf, 70)}
<1> DEFINE cites == c.cites \cap Ids(evidence)
           d == RepairConclusion(c, evidence)
<1>1. CASE cites = {}
  <2>1. d = [c EXCEPT !.cites = {}, !.status = "to_verify", !.needed = TRUE,
                      !.conf = AtMost(c.conf, 49)]
    BY <1>1 DEF RepairConclusion
  <2> QED
    BY <2>1 DEF ConclusionFields
<1>2. CASE cites # {} /\ c.status = "confirmed" /\ (c.needed \/ ~Verified(evidence, cites))
  <2>1. d = [c EXCEPT !.cites = cites, !.status = "probable", !.needed = TRUE,
                      !.conf = AtMost(c.conf, 70)]
    BY <1>2 DEF RepairConclusion
  <2> QED
    BY <2>1 DEF ConclusionFields
<1>3. CASE cites # {} /\ ~(c.status = "confirmed" /\ (c.needed \/ ~Verified(evidence, cites)))
  <2>1. d = [c EXCEPT !.cites = cites]
    BY <1>3 DEF RepairConclusion
  <2>2. /\ DOMAIN d = ConclusionFields
        /\ d.id = c.id
        /\ d.cites = cites
        /\ d.status = c.status
        /\ d.needed = c.needed
        /\ d.conf = c.conf
    BY <2>1 DEF ConclusionFields
  <2> QED
    BY <1>3, <2>2
<1> QED
  BY <1>1, <1>2, <1>3

(* The conclusions that are kept, each repaired and then valid.               *)
LEMMA KeptConclusions ==
  ASSUME NEW list, NEW evidence
  PROVE  LET kept == RepairConclusions(list, evidence)
         IN  \A p \in DOMAIN kept :
               /\ p \in FirstOfId(list, DOMAIN list)
               /\ p \in DOMAIN list
               /\ kept[p] = RepairConclusion(list[p], evidence)
               /\ ConclusionOk(kept[p])
  BY DEF RepairConclusions, FirstOfId

LEMMA UniqueConclusions ==
  ASSUME NEW list, NEW evidence, DOMAIN list \subseteq Nat,
         \A p \in DOMAIN list : DOMAIN list[p] = ConclusionFields
  PROVE  UniqueIds(RepairConclusions(list, evidence))
<1> DEFINE kept == RepairConclusions(list, evidence)
<1>1. \A p \in DOMAIN kept : /\ p \in FirstOfId(list, DOMAIN list)
                             /\ kept[p].id = list[p].id
  BY KeptConclusions, RepairedConclusion
<1>2. \A p, q \in FirstOfId(list, DOMAIN list) : list[p].id = list[q].id => p = q
  BY KeptAreUnique
<1> QED
  BY <1>1, <1>2 DEF UniqueIds

LEMMA RepairOfShaped ==
  ASSUME NEW r, Shaped(r)
  PROVE  /\ Shaped(Repair(r))
         /\ NothingEmpty(Repair(r)) => Valid(Repair(r))
<1> DEFINE s == Repair(r)
           evidence == unique_validated_items(r["evidence_list"])
           list == r["attribution_conclusions"]
           kept == RepairConclusions(list, evidence)
<1>1. /\ s["evidence_list"] = evidence
      /\ s["attribution_conclusions"] = kept
      /\ s["visualizations"] = unique_validated_items(r["visualizations"])
      /\ s["source_files"] = unique_validated_items(r["source_files"])
      /\ s["key_metrics"] = validated_items(r["key_metrics"])
      /\ s["next_actions"] = validated_items(r["next_actions"])
  BY DEF Repair
<1>2. /\ DOMAIN list \subseteq Nat
      /\ \A p \in DOMAIN list : DOMAIN list[p] = ConclusionFields
      /\ DOMAIN r["evidence_list"] \subseteq Nat
  BY DEF Shaped
<1>3. ItemsOk(s)
  <2>1. \A l \in Lists \ {"attribution_conclusions"} : \A p \in DOMAIN s[l] : s[l][p].ok
    BY <1>1, KeptAreOk
  <2>2. \A p \in DOMAIN kept : ConclusionOk(kept[p])
    BY KeptConclusions
  <2> QED
    BY <1>1, <2>1, <2>2 DEF ItemsOk
<1>4. ReferencesOk(s)
  <2>1. UniqueIds(evidence)
    BY <1>2, UniqueItems
  <2>2. UniqueIds(kept)
    BY <1>2, UniqueConclusions
  <2>3. ASSUME NEW p \in DOMAIN kept
        PROVE  /\ kept[p].cites \subseteq Ids(evidence)
               /\ kept[p].status = "confirmed" => /\ kept[p].cites # {}
                                                  /\ ~kept[p].needed
                                                  /\ Verified(evidence, kept[p].cites)
    <3>1. kept[p] = RepairConclusion(list[p], evidence) /\ p \in DOMAIN list
      BY KeptConclusions
    <3> QED
      BY <1>2, <3>1, RepairedConclusion
  <2> QED
    BY <1>1, <2>1, <2>2, <2>3 DEF ReferencesOk
<1>5. Shaped(s)
  <2>1. DOMAIN s = Lists
    BY DEF Repair
  <2>2. \A l \in Lists : DOMAIN s[l] \subseteq DOMAIN r[l]
    BY <1>1, KeptAreOk, KeptConclusions
  <2>3. \A p \in DOMAIN kept : DOMAIN kept[p] = ConclusionFields
    BY <1>2, KeptConclusions, RepairedConclusion
  <2> HIDE DEF s
  <2> QED
    BY <1>1, <2>1, <2>2, <2>3 DEF Shaped
<1> QED
  BY <1>3, <1>4, <1>5 DEF Valid


(* A report that the repair leaves anything of is a valid one: nothing in it  *)
(* cites evidence that was removed, and nothing is confirmed by evidence that *)
(* is not verified (report_validator.py:37-138, schemas/report.py:94-135).    *)
THEOREM RepairIsValid ==
  ASSUME NEW r, IsPayload(r), NothingEmpty(Repair(r))
  PROVE  Valid(Repair(r))
BY PayloadsAreShaped, RepairOfShaped

(* The repair adds no conclusion and strengthens none: what it keeps has the  *)
(* id it had, cites no more than it did, is confirmed only if it was, and is  *)
(* given no more confidence, unless that was negative                         *)
(* (report_validator.py:85-121).                                              *)
THEOREM RepairClaimsNoMore ==
  ASSUME NEW r, IsPayload(r)
  PROVE  LET before == r["attribution_conclusions"]
             after == Repair(r)["attribution_conclusions"]
         IN  \A p \in DOMAIN after :
               /\ p \in DOMAIN before
               /\ after[p].id = before[p].id
               /\ after[p].cites \subseteq before[p].cites
               /\ after[p].status = "confirmed" => before[p].status = "confirmed"
               /\ after[p].conf <= before[p].conf \/ after[p].conf = 0
<1> DEFINE evidence == unique_validated_items(r["evidence_list"])
           before == r["attribution_conclusions"]
           after == Repair(r)["attribution_conclusions"]
<1>1. after = RepairConclusions(before, evidence)
  BY DEF Repair
<1>2. IsList(before, Conclusion)
  BY DEF IsPayload, ItemOf
<1> SUFFICES ASSUME NEW p \in DOMAIN after
             PROVE  /\ p \in DOMAIN before
                    /\ after[p].id = before[p].id
                    /\ after[p].cites \subseteq before[p].cites
                    /\ after[p].status = "confirmed" => before[p].status = "confirmed"
                    /\ after[p].conf <= before[p].conf \/ after[p].conf = 0
  OBVIOUS
<1>3. p \in DOMAIN before /\ after[p] = RepairConclusion(before[p], evidence)
  BY <1>1, KeptConclusions
<1>4. before[p] \in Conclusion
  BY <1>2, <1>3 DEF IsList
<1>5. DOMAIN before[p] = ConclusionFields /\ before[p].conf \in Int
  BY <1>4 DEF Conclusion, ConclusionFields
<1>6. \A m \in {49, 70} : \/ AtMost(before[p].conf, m) <= before[p].conf
                          \/ AtMost(before[p].conf, m) = 0
  BY <1>5 DEF AtMost, safe_confidence
<1>7. /\ after[p].id = before[p].id
      /\ after[p].cites \subseteq before[p].cites
      /\ after[p].status = "confirmed" => before[p].status = "confirmed"
      /\ after[p].conf \in {before[p].conf, AtMost(before[p].conf, 49), AtMost(before[p].conf, 70)}
  BY <1>3, <1>5, RepairedConclusion
<1> QED
  BY <1>3, <1>5, <1>6, <1>7

------------------------------------------------------------------------------
(* Why a report is given up *)

(* What the report is built of is numbered from 1, as the lists of the report   *)
(* themselves are, before and after a repair.                                   *)
NumberedInv == /\ DOMAIN state.evidence \subseteq Nat
               /\ DOMAIN state.candidates \subseteq Nat
               /\ Shaped(state.report)

GivenUp(r) == \E l \in Required : DOMAIN r[l] = {}

(* built for the second time, and not yet validated *)
BuiltAgain == /\ state.retries = 1
              /\ \/ node = "build_report_ir" /\ step = "leave"
                 \/ node = "validate_report" /\ step \in {"enter", "body"}

RefusalInv == /\ NumberedInv
              /\ answers \in Requests
              /\ BuiltAgain => Valid(state.report) \/ GivenUp(state.report)
              /\ error # "none" => step \in {"except", "raised"}
              /\ error = "invalid" => GivenUp(state.report)

LEMMA Numbered ==
  ASSUME NEW s, NEW t, NEW n
  PROVE  /\ DOMAIN (s \o t) \subseteq Nat
         /\ DOMAIN Take(s, n) \subseteq Nat
<1>1. DOMAIN (s \o t) \subseteq Nat
  OBVIOUS
<1>2. \A m : DOMAIN SubSeq(s, 1, m) \subseteq Nat
  OBVIOUS
<1> QED
  BY <1>1, <1>2 DEF Take

LEMMA EvidenceNumbered ==
  ASSUME NEW files, NEW def
  PROVE  DOMAIN Evidence(files, def) \subseteq Nat
<1>1. DOMAIN MetricEvidence(files, def, AnalyzedFiles(files, def)) \subseteq Nat
  BY Numbered DEF MetricEvidence
<1> QED
  BY <1>1, Numbered DEF Evidence

LEMMA ConclusionsNumbered ==
  ASSUME NEW evidence
  PROVE  DOMAIN Conclusions(evidence) \subseteq Nat
<1> DEFINE conclude(es, confidence) == [j \in DOMAIN es |-> Conclude(evidence, es[j], confidence)]
           comparison == conclude(Take(OfKind(evidence, "comparison"), 1), 98)
           declines == conclude(Take(Declines(evidence), DeclinesNamed), 95)
           risks == conclude(Take(OfKind(evidence, "inventory_risk"), RisksNamed), 90)
           found == comparison \o declines \o risks
           open == [status |-> "to_verify", conf |-> 45, needed |-> TRUE,
                    cites |-> {e \in DOMAIN evidence : e <= 3}]
<1>1. Conclusions(evidence) = IF found # <<>> THEN found ELSE <<open>>
  BY DEF Conclusions
<1>2. DOMAIN found \subseteq Nat
  <2> HIDE DEF comparison, declines, risks
  <2> QED
    BY Numbered
<1>3. DOMAIN <<open>> \subseteq Nat
  <2> HIDE DEF open
  <2> QED
    OBVIOUS
<1> HIDE DEF found, open
<1> QED
  BY <1>1, <1>2, <1>3

LEMMA KeyMetricsNumbered == DOMAIN KeyMetrics \subseteq Nat
BY Numbered DEF KeyMetrics

LEMMA NewReportShaped ==
  ASSUME DOMAIN state.evidence \subseteq Nat, DOMAIN state.candidates \subseteq Nat,
         answers \in Requests
  PROVE  Shaped(NewReport)
<1> DEFINE r == NewReport
           conclusion(c) == [id |-> c, shape |-> TRUE, status |-> state.candidates[c].status,
                             needed |-> state.candidates[c].needed,
                             conf |-> state.candidates[c].conf,
                             cites |-> state.candidates[c].cites]
<1>1. /\ DOMAIN r = Lists
      /\ r["key_metrics"] = KeyMetrics
      /\ DOMAIN r["evidence_list"] = DOMAIN state.evidence
      /\ r["attribution_conclusions"] = [c \in DOMAIN state.candidates |-> conclusion(c)]
      /\ DOMAIN r["next_actions"] = 1..3
      /\ r["visualizations"] = <<>>
      /\ DOMAIN r["source_files"] = DOMAIN Files
  BY DEF NewReport, Accepted
<1>2. \A c : DOMAIN conclusion(c) = ConclusionFields
  BY DEF ConclusionFields
<1>3. DOMAIN Files \subseteq Nat
  BY FilesAssumption DEF Files
<1> HIDE DEF r, conclusion
<1>4. \A p \in DOMAIN r["attribution_conclusions"] :
         DOMAIN r["attribution_conclusions"][p] = ConclusionFields
  BY <1>1, <1>2
<1>5. \A l \in Lists : DOMAIN r[l] \subseteq Nat
  BY <1>1, <1>3, KeyMetricsNumbered
<1> QED
  BY <1>1, <1>4, <1>5 DEF Shaped, r

LEMMA RefusalInit == Init => RefusalInv
<1> SUFFICES ASSUME Init PROVE RefusalInv
  OBVIOUS
<1>1. /\ DOMAIN state.evidence = {}
      /\ DOMAIN state.candidates = {}
      /\ state.report = [l \in Lists |-> <<>>]
  BY DEF Init, StartState
<1> QED
  BY <1>1 DEF Init, RefusalInv, NumberedInv, Shaped, BuiltAgain

UnchangedData == UNCHANGED <<state.evidence, state.candidates, state.report>>

(* The nodes that write the data of the report, and no other step does. *)
LEMMA DataSteps ==
  ASSUME Inv, [Next]_vars
  PROVE  \/ UnchangedData
         \/ /\ BuildEvidence
            /\ state'.evidence = Evidence(Files, Definition)
            /\ UNCHANGED <<state.candidates, state.report>>
         \/ /\ DetermineAttribution
            /\ state'.candidates = Conclusions(state.evidence)
            /\ UNCHANGED <<state.evidence, state.report>>
         \/ /\ BuildReportIR
            /\ state'.report = IF state.retries > 0 THEN Repair(state.report) ELSE NewReport
            /\ state'.retries = state.retries
            /\ UNCHANGED <<state.evidence, state.candidates>>
         \/ NextAttempt
<1> USE DEF envVars, graphVars, logVars, vars
<1>0. /\ UNCHANGED state => UnchangedData
      /\ DOMAIN state = {"reads", "evidence", "candidates", "report", "valid", "retries", "rendered"}
  BY StartStateFields DEF UnchangedData, Inv, Types
<1>1. CASE LoadContext \/ DefineProblem \/ AskClarification \/ BuildAnalysisPlan \/ ValidateData
  BY <1>0, <1>1 DEF LoadContext, DefineProblem, AskClarification, BuildAnalysisPlan, ValidateData,
                    Unchanged, Update, Refuse
<1>2. CASE BuildEvidence
  <2>1. state' = [state EXCEPT !.evidence = Evidence(Files, Definition)]
    BY <1>2 DEF BuildEvidence, Update
  <2> QED
    BY <1>0, <1>2, <2>1
<1>3. CASE DetermineAttribution
  <2>1. state' = [state EXCEPT !.candidates = Conclusions(state.evidence)]
    BY <1>3 DEF DetermineAttribution, Update
  <2> QED
    BY <1>0, <1>3, <2>1
<1>4. CASE BuildReportIR
  <2> DEFINE r == IF state.retries > 0 THEN Repair(state.report) ELSE NewReport
  <2>1. state' = [state EXCEPT !.report = r, !.valid = FALSE]
    BY <1>4 DEF BuildReportIR, Update
  <2> HIDE DEF r
  <2>2. state'.report = r /\ UNCHANGED <<state.evidence, state.candidates, state.retries>>
    BY <1>0, <2>1
  <2> QED
    BY <1>4, <2>2 DEF r
<1>5. CASE ValidateReport
  <2>1. \/ state' = [state EXCEPT !.valid = TRUE]
        \/ state' = [state EXCEPT !.valid = FALSE, !.retries = @ + 1]
        \/ state' = state
    BY <1>5 DEF ValidateReport, Update, Refuse
  <2> QED
    BY <1>0, <2>1 DEF UnchangedData
<1>6. CASE RenderReport
  <2>1. state' = [state EXCEPT !.rendered = TRUE]
    BY <1>6 DEF RenderReport, Update
  <2> QED
    BY <1>0, <2>1 DEF UnchangedData
<1>7. CASE ToolDone
  <2>1. state' = [state EXCEPT !.reads = @ + 1] \/ state' = state
    BY <1>7 DEF ToolDone
  <2> QED
    BY <1>0, <2>1 DEF UnchangedData
<1> QED
  BY <1>0, <1>1, <1>2, <1>3, <1>4, <1>5, <1>6, <1>7
     DEF Next, Executor, Environment, Over, Enter, EnterCancelled, Leave, LeaveCancelled, Except,
         StartTool, ToolAnswers, ToolRaises, ToolCancelled, Persist, PersistFails, Compress,
         EmitFails, ModelFails, UserCancels, UserDeletes, SuccessLost

LEMMA NumberedNext ==
  ASSUME Inv, RefusalInv, [Next]_vars
  PROVE  NumberedInv'
<1> USE DEF RefusalInv, NumberedInv
<1>1. CASE UnchangedData
  BY <1>1 DEF UnchangedData
<1>2. CASE /\ state'.evidence = Evidence(Files, Definition)
           /\ UNCHANGED <<state.candidates, state.report>>
  BY <1>2, EvidenceNumbered
<1>3. CASE /\ state'.candidates = Conclusions(state.evidence)
           /\ UNCHANGED <<state.evidence, state.report>>
  BY <1>3, ConclusionsNumbered
<1>4. CASE /\ state'.report = IF state.retries > 0 THEN Repair(state.report) ELSE NewReport
           /\ UNCHANGED <<state.evidence, state.candidates>>
  BY <1>4, NewReportShaped, RepairOfShaped
<1>5. CASE NextAttempt
  <2>1. /\ DOMAIN state'.evidence = {}
        /\ DOMAIN state'.candidates = {}
        /\ state'.report = [l \in Lists |-> <<>>]
    BY <1>5 DEF NextAttempt, StartState
  <2> QED
    BY <2>1 DEF Shaped
<1> QED
  BY DataSteps, <1>1, <1>2, <1>3, <1>4, <1>5

(* A report that is refused a second time has been repaired, and the repair     *)
(* leaves nothing to refuse but a list without items.                           *)
LEMMA RefusalNext ==
  ASSUME Inv, RefusalInv, [Next]_vars
  PROVE  RefusalInv'
<1> USE DEF envVars, graphVars, logVars, vars, Goto, Inv, Types, NoEvent, NoTrouble, Trouble
<1>1. NumberedInv'
  BY NumberedNext
<1>2. answers' \in Requests
  <2>1. answers' = answers \/ answers' \in Stressed
    BY Steps, ToolAnswersEffect
       DEF Enter, Leave, Quiet, Noted, ToolDone, Update, Refuse, UserCancels, UserDeletes,
           SuccessLost, NextAttempt, EnterCancelled, LeaveCancelled, ModelFails, ToolRaises,
           ToolCancelled, Persist, PersistFails, Compress, EmitFails, Except, StartTool
  <2> QED
    BY <2>1, StressedAssumption DEF RefusalInv
<1>3. error' # "none" => step' \in {"except", "raised"}
  BY Steps, ToolAnswersEffect
     DEF RefusalInv, Enter, Leave, Quiet, Noted, ToolDone, Update, Refuse, UserCancels, UserDeletes,
         SuccessLost, NextAttempt, EnterCancelled, LeaveCancelled, ModelFails, ToolRaises,
         ToolCancelled, Persist, PersistFails, Compress, EmitFails, Except, StartTool
<1>4. error' = "invalid" => GivenUp(state'.report)
  <2>1. CASE Refuse("validate_report", "invalid") /\ ~Valid(state.report) /\ state.retries >= 1
    BY <2>1 DEF Refuse, RefusalInv, BuiltAgain
  <2>2. CASE error' = error
    <3>1. step = "body" => error = "none"
      BY DEF RefusalInv
    <3>2. CASE state'.report = state.report
      BY <2>2, <3>2 DEF RefusalInv
    <3>3. CASE BuildReportIR
      BY <2>2, <3>1, <3>3 DEF BuildReportIR, Update
    <3>4. CASE NextAttempt
      BY <3>4 DEF NextAttempt
    <3> QED
      BY DataSteps, <3>2, <3>3, <3>4 DEF UnchangedData
  <2>3. error' = error \/ error' # "invalid"
        \/ (Refuse("validate_report", "invalid") /\ ~Valid(state.report) /\ state.retries >= 1)
    BY Steps, ToolAnswersEffect
       DEF Enter, Leave, Quiet, Noted, ToolDone, Update, Refuse, UserCancels, UserDeletes,
           SuccessLost, NextAttempt, EnterCancelled, LeaveCancelled, ModelFails, ToolRaises,
           ToolCancelled, Persist, PersistFails, Compress, EmitFails, Except, StartTool
  <2> QED
    BY <2>1, <2>2, <2>3
<1>5. BuiltAgain' => Valid(state'.report) \/ GivenUp(state'.report)
  <2> SUFFICES ASSUME BuiltAgain'
               PROVE  Valid(state'.report) \/ GivenUp(state'.report)
    OBVIOUS
  <2>1. \/ Update("build_report_ir", state') /\ state'.retries = state.retries
        \/ UNCHANGED state /\ BuiltAgain
    <3>1. CASE Enter
      BY <3>1 DEF Enter, BuiltAgain
    <3>2. CASE Leave
      <4>1. node = "build_report_ir"
        BY <3>2 DEF Leave, BuiltAgain, Successor
      <4> QED
        BY <3>2, <4>1 DEF Leave, BuiltAgain
    <3>3. ASSUME NEW n \in Nodes \ ToolNodes, NEW s, Update(n, s), Kept(n, s)
          PROVE  Update("build_report_ir", state') /\ state'.retries = state.retries
      BY <3>3 DEF Update, Kept, BuiltAgain
    <3>4. CASE Quiet \/ Noted \/ ToolDone \/ Refuse("validate_data", "agent")
                 \/ Refuse("validate_report", "invalid") \/ SuccessLost \/ NextAttempt
      BY <3>4, ToolAnswersEffect
         DEF BuiltAgain, Quiet, Noted, ToolDone, Refuse, SuccessLost, NextAttempt, EnterCancelled,
             LeaveCancelled, ModelFails, ToolRaises, ToolCancelled, Persist, PersistFails, Compress,
             EmitFails, Except, StartTool
    <3>5. CASE UserCancels \/ UserDeletes \/ UNCHANGED vars
      BY <3>5 DEF UserCancels, UserDeletes, BuiltAgain
    <3> QED
      BY Steps, <3>1, <3>2, <3>3, <3>4, <3>5
  <2>2. CASE UNCHANGED state /\ BuiltAgain
    BY <2>2 DEF RefusalInv
  <2>3. CASE Update("build_report_ir", state') /\ state'.retries = state.retries
    <3>1. state.retries = 1 /\ node = "build_report_ir" /\ step = "body"
      BY <2>3 DEF Update, BuiltAgain
    <3>2. BuildReportIR
      BY <2>3, <3>1, ToolAnswersEffect
         DEF Next, Executor, Environment, Over, Enter, EnterCancelled, Leave, LeaveCancelled, Except,
             LoadContext, DefineProblem, AskClarification, BuildAnalysisPlan, ValidateData,
             BuildEvidence, DetermineAttribution, ValidateReport, RenderReport, Unchanged, Update,
             Refuse, StartTool, ToolRaises, ToolCancelled, ToolDone, Persist, PersistFails, Compress,
             EmitFails, ModelFails, UserCancels, UserDeletes, SuccessLost, NextAttempt
    <3>3. state'.report = Repair(state.report)
      <4> DEFINE r == Repair(state.report)
      <4>1. state' = [state EXCEPT !.report = r, !.valid = FALSE]
        BY <3>1, <3>2 DEF BuildReportIR, Update
      <4> HIDE DEF r
      <4>2. state'.report = r
        BY <4>1, StartStateFields
      <4> QED
        BY <4>2 DEF r
    <3> QED
      BY <3>3, RepairOfShaped DEF RefusalInv, NumberedInv, NothingEmpty, GivenUp
  <2> QED
    BY <2>1, <2>2, <2>3
<1> QED
  BY <1>1, <1>2, <1>3, <1>4, <1>5 DEF RefusalInv

(* A report is given up only because nothing was left of one of its required    *)
(* lists: every other defect is repaired, and the repaired report is valid      *)
(* (report_validator.py:23-69, validate_report.py:15).                          *)
THEOREM RefusedOnlyWhenEmpty == Spec => []RepairedUnlessEmpty
<1>1. RefusalInv => RepairedUnlessEmpty
  BY DEF RefusalInv, RepairedUnlessEmpty, GivenUp
<1> QED
  BY <1>1, RefusalInit, RefusalNext, Invariant, PTL DEF Spec

------------------------------------------------------------------------------
(* Sums *)


(* Induction over the naturals, for a set. *)
LEMMA SetInduction ==
  ASSUME NEW S, 0 \in S, \A n \in Nat : n \in S => n + 1 \in S
  PROVE  Nat \subseteq S
<1> DEFINE T == {n \in Nat : n \notin S}
<1>1. IsWellFoundedOn(OpToRel(<, Nat), Nat)
  BY NatLessThanWellFounded
<1>2. SUFFICES ASSUME T # {} PROVE FALSE
  OBVIOUS
<1>3. PICK x \in T : \A y \in T : <<y, x>> \notin OpToRel(<, Nat)
  BY <1>1, <1>2, WFMin
<1>4. \A y \in T : ~(y < x)
  BY <1>3 DEF OpToRel
<1>5. x # 0 /\ x - 1 \in Nat /\ x - 1 < x
  OBVIOUS
<1>6. x - 1 \in S
  BY <1>4, <1>5
<1>7. x - 1 + 1 = x
  OBVIOUS
<1> QED
  BY <1>5, <1>6, <1>7

(* the element a fold takes first *)
Pick(s) == CHOOSE x \in s : TRUE

(* one unfolding of the fold's recursive function *)
Unfolded(f, g, S) == [s \in SUBSET S |-> IF s = {} THEN 0 ELSE g[Pick(s)] + f[s \ {Pick(s)}]]

IsSum(f, g, S) == f = Unfolded(f, g, S)

Sums(g) == CHOOSE f : IsSum(f, g, DOMAIN g)

(* FoldFunction(+, 0, g) is the value at DOMAIN g of a function that satisfies *)
(* the recursive equation of the fold.                                         *)
LEMMA FoldIsSum ==
  ASSUME NEW g
  PROVE  FoldFunction(+, 0, g) = Sums(g)[DOMAIN g]
<1>1. FoldFunction(+, 0, g) = FoldFunctionOnSet(+, 0, g, DOMAIN g)
  BY DEF FoldFunction
<1>2. FoldFunctionOnSet(+, 0, g, DOMAIN g) = Sums(g)[DOMAIN g]
  BY DEF FoldFunctionOnSet, MapThenFoldSet, IsSum, Unfolded, Pick, Sums
<1> QED
  BY <1>1, <1>2

LEMMA SmallerSubset ==
  ASSUME NEW S, IsFiniteSet(S), NEW s \in SUBSET S, s # {}
  PROVE  /\ Pick(s) \in s
         /\ s \ {Pick(s)} \in SUBSET S
         /\ Cardinality(s) \in Nat \ {0}
         /\ Cardinality(s \ {Pick(s)}) = Cardinality(s) - 1
<1>1. IsFiniteSet(s)
  BY FS_Subset
<1>2. Pick(s) \in s
  BY DEF Pick
<1> QED
  BY <1>1, <1>2, FS_RemoveElement, FS_CardinalityType, FS_EmptySet

(* The equation has a solution: one that is right up to n elements gives one   *)
(* that is right up to n + 1.                                                  *)
LEMMA SumExists ==
  ASSUME NEW g, NEW S, IsFiniteSet(S)
  PROVE  \E f : IsSum(f, g, S)
<1> DEFINE Good(f, n) == \A s \in SUBSET S : Cardinality(s) <= n => f[s] = Unfolded(f, g, S)[s]
           N == {n \in Nat : \E f : Good(f, n)}
<1>1. 0 \in N
  <2> DEFINE f0 == [s \in SUBSET S |-> 0]
  <2>1. \A s \in SUBSET S : Cardinality(s) <= 0 => s = {}
    BY FS_Subset, FS_EmptySet, FS_CardinalityType
  <2>2. Good(f0, 0)
    BY <2>1 DEF Unfolded
  <2> QED
    BY <2>2
<1>2. ASSUME NEW n \in Nat, n \in N PROVE n + 1 \in N
  <2>1. PICK f : Good(f, n)
    BY <1>2
  <2> DEFINE h == Unfolded(f, g, S)
  <2>2. ASSUME NEW s \in SUBSET S, Cardinality(s) <= n + 1
        PROVE  h[s] = Unfolded(h, g, S)[s]
    <3>1. CASE s = {}
      BY <3>1 DEF Unfolded
    <3>2. CASE s # {}
      <4>1. /\ s \ {Pick(s)} \in SUBSET S
            /\ Cardinality(s \ {Pick(s)}) <= n
        BY <2>2, <3>2, SmallerSubset
      <4>2. f[s \ {Pick(s)}] = h[s \ {Pick(s)}]
        BY <2>1, <4>1
      <4> HIDE DEF h
      <4>3. Unfolded(f, g, S)[s] = Unfolded(h, g, S)[s]
        BY <3>2, <4>2 DEF Unfolded
      <4> QED
        BY <4>3 DEF h
    <3> QED
      BY <3>1, <3>2
  <2> HIDE DEF h
  <2>3. Good(h, n + 1)
    BY <2>2
  <2> QED
    BY <2>3
<1>3. Cardinality(S) \in N
  <2> HIDE DEF N
  <2> QED
    BY <1>1, <1>2, SetInduction, FS_CardinalityType
<1>4. PICK f : Good(f, Cardinality(S))
  BY <1>3
<1> DEFINE h == Unfolded(f, g, S)
<1>5. \A s \in SUBSET S : f[s] = h[s]
  BY <1>4, FS_Subset
<1>6. \A s \in SUBSET S : s \ {Pick(s)} \in SUBSET S
  OBVIOUS
<1>7. h = Unfolded(h, g, S)
  BY <1>5, <1>6 DEF Unfolded
<1> QED
  BY <1>7 DEF IsSum

LEMMA SumUnfolds ==
  ASSUME NEW g, IsFiniteSet(DOMAIN g)
  PROVE  /\ Sums(g)[{}] = 0
         /\ \A s \in SUBSET DOMAIN g :
              s # {} => Sums(g)[s] = g[Pick(s)] + Sums(g)[s \ {Pick(s)}]
<1>1. IsSum(Sums(g), g, DOMAIN g)
  BY SumExists DEF Sums
<1> QED
  BY <1>1 DEF IsSum, Unfolded

(* every subset of S is in G that has all its next smaller ones in G *)
Grows(S, G) == \A s \in SUBSET S : s # {} /\ (\A x \in s : s \ {x} \in G) => s \in G

(* Induction over the subsets of a finite set, for a set of subsets. *)
LEMMA SubsetInduction ==
  ASSUME NEW S, IsFiniteSet(S), NEW G, {} \in G, Grows(S, G)
  PROVE  SUBSET S \subseteq G
<1> DEFINE N == {k \in Nat : \A s \in SUBSET S : Cardinality(s) <= k => s \in G}
<1>1. \A s \in SUBSET S :
        /\ IsFiniteSet(s)
        /\ Cardinality(s) \in Nat
        /\ Cardinality(s) <= 0 => s = {}
  BY FS_Subset, FS_EmptySet, FS_CardinalityType
<1>2. 0 \in N
  BY <1>1
<1>3. ASSUME NEW k \in Nat, k \in N PROVE k + 1 \in N
  <2>1. ASSUME NEW s \in SUBSET S, Cardinality(s) <= k + 1 PROVE s \in G
    <3>1. ASSUME NEW x \in s PROVE s \ {x} \in G
      <4>1. Cardinality(s \ {x}) = Cardinality(s) - 1
        BY <1>1, FS_RemoveElement
      <4>2. s \ {x} \in SUBSET S /\ Cardinality(s \ {x}) <= k
        BY <1>1, <2>1, <4>1
      <4> QED
        BY <1>3, <4>2
    <3>2. s = {} \/ s # {}
      OBVIOUS
    <3> QED
      BY <3>1, <3>2 DEF Grows
  <2> QED
    BY <2>1
<1> HIDE DEF N
<1>4. Cardinality(S) \in N
  BY <1>1, <1>2, <1>3, SetInduction
<1>5. \A s \in SUBSET S : Cardinality(s) <= Cardinality(S)
  BY FS_Subset
<1> QED
  BY <1>4, <1>5 DEF N

LEMMA SumsTyped ==
  ASSUME NEW S, IsFiniteSet(S), NEW g \in [S -> Int]
  PROVE  \A s \in SUBSET S : Sums(g)[s] \in Int
<1> DEFINE G == {s \in SUBSET S : Sums(g)[s] \in Int}
<1>1. {} \in G
  BY SumUnfolds
<1>2. ASSUME NEW s \in SUBSET S, s # {}, \A x \in s : s \ {x} \in G
      PROVE  s \in G
  <2>1. Pick(s) \in s
    BY <1>2, SmallerSubset
  <2>2. Sums(g)[s \ {Pick(s)}] \in Int
    BY <1>2, <2>1
  <2>3. g[Pick(s)] \in Int
    BY <2>1
  <2>4. Sums(g)[s] = g[Pick(s)] + Sums(g)[s \ {Pick(s)}]
    BY <1>2, SumUnfolds
  <2> QED
    BY <2>2, <2>3, <2>4
<1> HIDE DEF G
<1>3. SUBSET S \subseteq G
  BY <1>1, <1>2, SubsetInduction DEF Grows
<1> QED
  BY <1>3 DEF G

LEMMA SumTyped ==
  ASSUME NEW S, IsFiniteSet(S), NEW g \in [S -> Int]
  PROVE  Sum(g) \in Int
BY SumsTyped, FoldIsSum DEF Sum

(* F grows by g[x] with every element x. *)
Additive(F, g, S) == \A s \in SUBSET S : \A x \in s : F[s] = g[x] + F[s \ {x}]

(* Any element may be taken first. *)
LEMMA SumStep ==
  ASSUME NEW S, IsFiniteSet(S), NEW g \in [S -> Int]
  PROVE  Additive(Sums(g), g, S)
<1> DEFINE G == {s \in SUBSET S : \A x \in s : Sums(g)[s] = g[x] + Sums(g)[s \ {x}]}
<1>1. {} \in G
  OBVIOUS
<1>2. ASSUME NEW s \in SUBSET S, s # {}, \A x \in s : s \ {x} \in G
      PROVE  s \in G
  <2> DEFINE p == Pick(s)
  <2>0. p \in s
    BY <1>2, SmallerSubset
  <2>1. p \in s /\ Sums(g)[s] = g[p] + Sums(g)[s \ {p}]
    BY <1>2, <2>0, SumUnfolds
  <2> HIDE DEF p
  <2>2. ASSUME NEW x \in s, x # p
        PROVE  Sums(g)[s] = g[x] + Sums(g)[s \ {x}]
    <3> DEFINE r == (s \ {p}) \ {x}
    <3>1. (s \ {x}) \ {p} = r /\ r \in SUBSET S
      OBVIOUS
    <3>2. Sums(g)[s \ {p}] = g[x] + Sums(g)[r]
      BY <1>2, <2>1, <2>2
    <3>3. Sums(g)[s \ {x}] = g[p] + Sums(g)[r]
      BY <1>2, <2>1, <2>2, <3>1
    <3>4. g[x] \in Int /\ g[p] \in Int /\ Sums(g)[r] \in Int
      BY <2>1, <3>1, SumsTyped
    <3> HIDE DEF r
    <3> QED
      BY <2>1, <3>2, <3>3, <3>4
  <2> QED
    BY <2>1, <2>2
<1> HIDE DEF G
<1>3. SUBSET S \subseteq G
  BY <1>1, <1>2, SubsetInduction DEF Grows
<1> QED
  BY <1>3 DEF G, Additive

(* The sum is the only additive function of the subsets. *)
LEMMA SumUnique ==
  ASSUME NEW S, IsFiniteSet(S), NEW g, DOMAIN g = S, NEW F, F[{}] = 0, Additive(F, g, S)
  PROVE  Sum(g) = F[S]
<1> DEFINE G == {s \in SUBSET S : Sums(g)[s] = F[s]}
<1>1. {} \in G
  BY SumUnfolds
<1>2. ASSUME NEW s \in SUBSET S, s # {}, \A x \in s : s \ {x} \in G
      PROVE  s \in G
  <2>1. Pick(s) \in s /\ Sums(g)[s] = g[Pick(s)] + Sums(g)[s \ {Pick(s)}]
    BY <1>2, SumUnfolds, SmallerSubset
  <2> QED
    BY <1>2, <2>1 DEF Additive
<1> HIDE DEF G
<1>3. SUBSET S \subseteq G
  BY <1>1, <1>2, SubsetInduction DEF Grows
<1>4. Sums(g)[S] = F[S]
  BY <1>3 DEF G
<1> QED
  BY <1>4, FoldIsSum DEF Sum

LEMMA SumOfPart ==
  ASSUME NEW S, IsFiniteSet(S), NEW g \in [S -> Int], NEW T, T \subseteq S
  PROVE  Sum([i \in T |-> g[i]]) = Sums(g)[T]
<1> DEFINE h == [i \in T |-> g[i]]
<1>1. IsFiniteSet(T)
  BY FS_Subset
<1>2. Additive(Sums(g), h, T)
  <2>1. \A s \in SUBSET T : s \in SUBSET S /\ \A x \in s : h[x] = g[x]
    OBVIOUS
  <2>2. Additive(Sums(g), g, S)
    BY SumStep
  <2> HIDE DEF h
  <2> QED
    BY <2>1, <2>2 DEF Additive
<1>3. Sums(g)[{}] = 0
  BY SumUnfolds
<1>4. DOMAIN h = T
  OBVIOUS
<1> HIDE DEF h
<1>5. Sum(h) = Sums(g)[T]
  BY <1>1, <1>2, <1>3, <1>4, SumUnique
<1> QED
  BY <1>5 DEF h

LEMMA SumDifference ==
  ASSUME NEW S, IsFiniteSet(S), NEW g \in [S -> Int], NEW h \in [S -> Int]
  PROVE  Sum([x \in S |-> g[x] - h[x]]) = Sum(g) - Sum(h)
<1> DEFINE d == [x \in S |-> g[x] - h[x]]
           F == [s \in SUBSET S |-> Sums(g)[s] - Sums(h)[s]]
<1>1. F[{}] = 0
  BY SumUnfolds
<1>2. ASSUME NEW s \in SUBSET S, NEW x \in s
      PROVE  F[s] = d[x] + F[s \ {x}]
  <2>1. /\ Sums(g)[s] = g[x] + Sums(g)[s \ {x}]
        /\ Sums(h)[s] = h[x] + Sums(h)[s \ {x}]
    BY SumStep DEF Additive
  <2>2. Sums(g)[s \ {x}] \in Int /\ Sums(h)[s \ {x}] \in Int /\ g[x] \in Int /\ h[x] \in Int
    BY SumsTyped
  <2>3. /\ F[s] = Sums(g)[s] - Sums(h)[s]
        /\ F[s \ {x}] = Sums(g)[s \ {x}] - Sums(h)[s \ {x}]
        /\ d[x] = g[x] - h[x]
    OBVIOUS
  <2> HIDE DEF d, F
  <2> QED
    BY <2>1, <2>2, <2>3
<1>3. F[S] = Sum(g) - Sum(h)
  BY FoldIsSum DEF Sum
<1>4. DOMAIN d = S
  OBVIOUS
<1> HIDE DEF d, F
<1>5. Sum(d) = F[S]
  BY <1>1, <1>2, <1>4, SumUnique DEF Additive
<1> QED
  BY <1>3, <1>5 DEF d

(* Two functions that differ in one place differ by it in their sums. *)
LEMMA SumChange ==
  ASSUME NEW S, IsFiniteSet(S), NEW g \in [S -> Int], NEW h \in [S -> Int],
         NEW d \in S, \A x \in S \ {d} : g[x] = h[x]
  PROVE  Sum(g) = (g[d] - h[d]) + Sum(h)
<1>1. /\ Sums(g)[S] = g[d] + Sums(g)[S \ {d}]
      /\ Sums(h)[S] = h[d] + Sums(h)[S \ {d}]
  <2>1. Additive(Sums(g), g, S) /\ Additive(Sums(h), h, S)
    BY SumStep
  <2> QED
    BY <2>1 DEF Additive
<1>2. [x \in S \ {d} |-> g[x]] = [x \in S \ {d} |-> h[x]]
  OBVIOUS
<1>3. /\ Sum([x \in S \ {d} |-> g[x]]) = Sums(g)[S \ {d}]
      /\ Sum([x \in S \ {d} |-> h[x]]) = Sums(h)[S \ {d}]
  BY SumOfPart
<1>4. Sums(g)[S \ {d}] = Sums(h)[S \ {d}]
  BY <1>2, <1>3, Zenon
<1>5. g[d] \in Int /\ h[d] \in Int /\ Sums(h)[S \ {d}] \in Int
  BY SumsTyped
<1>6. Sum(g) = Sums(g)[S] /\ Sum(h) = Sums(h)[S]
  BY FoldIsSum DEF Sum
<1> QED
  BY <1>1, <1>4, <1>5, <1>6

(* A sum can be taken class by class. *)
LEMMA SumByClass ==
  ASSUME NEW S, IsFiniteSet(S), NEW g \in [S -> Int],
         NEW D, IsFiniteSet(D), NEW c \in [S -> D]
  PROVE  Sum([d \in D |-> Sum([i \in {j \in S : c[j] = d} |-> g[i]])]) = Sum(g)
<1> DEFINE part(s, d) == {i \in s : c[i] = d}
           H(s) == [d \in D |-> Sums(g)[part(s, d)]]
           F == [s \in SUBSET S |-> Sum(H(s))]
<1>1. \A s \in SUBSET S : H(s) \in [D -> Int]
  BY SumsTyped
<1>2. F[{}] = 0
  <2> DEFINE zero == [d \in D |-> 0]
             Z == [s \in SUBSET D |-> 0]
  <2>1. \A d \in D : part({}, d) = {}
    OBVIOUS
  <2>2. H({}) = zero
    BY <2>1, SumUnfolds
  <2>3. Sum(zero) = Z[D]
    <3>1. Additive(Z, zero, D)
      BY DEF Additive
    <3>2. DOMAIN zero = D /\ Z[{}] = 0
      OBVIOUS
    <3> HIDE DEF zero, Z
    <3> QED
      BY <3>1, <3>2, SumUnique
  <2> HIDE DEF H, zero
  <2> QED
    BY <2>2, <2>3
<1>3. ASSUME NEW s \in SUBSET S, NEW x \in s
      PROVE  F[s] = g[x] + F[s \ {x}]
  <2> DEFINE r == s \ {x}
  <2>1. r \in SUBSET S /\ c[x] \in D /\ g[x] \in Int
    OBVIOUS
  <2>2. \A d \in D \ {c[x]} : part(s, d) = part(r, d)
    OBVIOUS
  <2>3. /\ x \in part(s, c[x])
        /\ part(r, c[x]) = part(s, c[x]) \ {x}
        /\ part(s, c[x]) \in SUBSET S
    OBVIOUS
  <2>4. Sums(g)[part(s, c[x])] = g[x] + Sums(g)[part(r, c[x])]
    <3> HIDE DEF part, r
    <3> QED
      BY <2>3, SumStep DEF Additive
  <2>5. \A d \in D \ {c[x]} : H(s)[d] = H(r)[d]
    <3> HIDE DEF part, r
    <3> QED
      BY <2>2
  <2>6. H(s)[c[x]] = g[x] + H(r)[c[x]]
    <3> HIDE DEF part, r
    <3> QED
      BY <2>1, <2>4
  <2>7. F[s] = Sum(H(s)) /\ F[r] = Sum(H(r))
    OBVIOUS
  <2>8. H(s) \in [D -> Int] /\ H(r) \in [D -> Int]
    BY <1>1, <2>1
  <2> HIDE DEF H, F
  <2>9. Sum(H(s)) = (H(s)[c[x]] - H(r)[c[x]]) + Sum(H(r))
    <3>1. \A a, b : a \in [D -> Int] /\ b \in [D -> Int] /\ (\A d \in D \ {c[x]} : a[d] = b[d])
                    => Sum(a) = (a[c[x]] - b[c[x]]) + Sum(b)
      BY <2>1, SumChange
    <3> QED
      BY <2>5, <2>8, <3>1
  <2>10. H(r)[c[x]] \in Int /\ Sum(H(r)) \in Int
    <3>1. \A a \in [D -> Int] : Sum(a) \in Int
      BY SumTyped
    <3> QED
      BY <2>1, <2>8, <3>1
  <2>11. Sum(H(s)) = g[x] + Sum(H(r))
    BY <2>1, <2>6, <2>9, <2>10
  <2> QED
    BY <2>7, <2>11 DEF r
<1>4. F[S] = Sum([d \in D |-> Sum([i \in {j \in S : c[j] = d} |-> g[i]])])
  <2>1. \A d \in D : Sums(g)[part(S, d)] = Sum([i \in {j \in S : c[j] = d} |-> g[i]])
    BY SumOfPart
  <2>2. H(S) = [d \in D |-> Sum([i \in {j \in S : c[j] = d} |-> g[i]])]
    <3> HIDE DEF part
    <3> QED
      BY <2>1
  <2>3. F[S] = Sum(H(S))
    OBVIOUS
  <2> HIDE DEF H, F
  <2> QED
    BY <2>2, <2>3
<1> HIDE DEF F
<1>5. Sum(g) = F[S]
  BY <1>2, <1>3, SumUnique DEF Additive
<1> QED
  BY <1>4, <1>5

(* c gives every element of D one name in J. *)
Renames(c, J, D) == /\ c \in [J -> D]
                    /\ \A j, k \in J : c[j] = c[k] => j = k
                    /\ \A d \in D : \E j \in J : c[j] = d

SumOfNamed(g, c, J) == Sum([j \in J |-> g[c[j]]])

(* A sum does not depend on how its places are named. *)
LEMMA SumReindexed ==
  ASSUME NEW J, IsFiniteSet(J), NEW D, IsFiniteSet(D), NEW g \in [D -> Int],
         NEW c, Renames(c, J, D)
  PROVE  SumOfNamed(g, c, J) = Sum(g)
<1> DEFINE h == [j \in J |-> g[c[j]]]
           image(s) == {c[j] : j \in s}
           F == [s \in SUBSET J |-> Sums(g)[image(s)]]
<1>0. /\ c \in [J -> D]
      /\ \A j, k \in J : c[j] = c[k] => j = k
      /\ \A d \in D : \E j \in J : c[j] = d
  BY DEF Renames
<1>1. image({}) = {} /\ image(J) = D
  BY <1>0
<1>2. ASSUME NEW s \in SUBSET J, NEW x \in s
      PROVE  F[s] = h[x] + F[s \ {x}]
  <2>1. /\ image(s) \in SUBSET D
        /\ c[x] \in image(s)
        /\ image(s \ {x}) = image(s) \ {c[x]}
    BY <1>0
  <2>2. Additive(Sums(g), g, D)
    BY SumStep
  <2>3. /\ F[s] = Sums(g)[image(s)]
        /\ F[s \ {x}] = Sums(g)[image(s \ {x})]
        /\ h[x] = g[c[x]]
    OBVIOUS
  <2> HIDE DEF image, F, h
  <2>4. Sums(g)[image(s)] = g[c[x]] + Sums(g)[image(s) \ {c[x]}]
    BY <2>1, <2>2 DEF Additive
  <2>5. F[s \ {x}] = Sums(g)[image(s) \ {c[x]}]
    BY <2>1, <2>3
  <2> QED
    BY <2>3, <2>4, <2>5
<1>3. F[{}] = 0 /\ F[J] = Sum(g)
  <2> HIDE DEF image
  <2>1. F[{}] = Sums(g)[{}] /\ F[J] = Sums(g)[D]
    BY <1>1
  <2> HIDE DEF F
  <2> QED
    BY <2>1, SumUnfolds, FoldIsSum DEF Sum
<1>4. DOMAIN h = J
  OBVIOUS
<1> HIDE DEF h, F
<1>5. Additive(F, h, J)
  BY <1>2 DEF Additive
<1>6. Sum(h) = F[J]
  BY <1>3, <1>4, <1>5, SumUnique
<1> QED
  BY <1>3, <1>6 DEF h, SumOfNamed

------------------------------------------------------------------------------
(* Orders and concatenations *)

LEMMA ImageFinite ==
  ASSUME NEW f, IsFiniteSet(DOMAIN f)
  PROVE  IsFiniteSet({f[x] : x \in DOMAIN f})
<1> DEFINE T == {f[x] : x \in DOMAIN f}
           g == [x \in DOMAIN f |-> f[x]]
<1>1. g \in Surjection(DOMAIN f, T)
  BY DEF Surjection
<1> QED
  BY <1>1, FS_Surjection

StrictOrder(S, pairs) ==
  /\ \A x \in S : <<x, x>> \notin pairs
  /\ \A x, y, z \in S : <<x, y>> \in pairs /\ <<y, z>> \in pairs => <<x, z>> \in pairs
  /\ \A x, y \in S : x # y => <<x, y>> \in pairs \/ <<y, x>> \in pairs

(* Every rank is taken once: InOrder lists the elements of its set. *)
LEMMA OrderListsAll ==
  ASSUME NEW S, IsFiniteSet(S), NEW pairs, StrictOrder(S, pairs)
  PROVE  LET s == InOrder(S, pairs)
             n == Cardinality(S)
         IN  /\ s \in [1..n -> S]
             /\ \A j, k \in 1..n : s[j] = s[k] => j = k
             /\ \A x \in S : \E j \in 1..n : s[j] = x
<1> DEFINE n == Cardinality(S)
           before(x) == {y \in S : <<y, x>> \in pairs}
           rank == [x \in S |-> Cardinality(before(x))]
<1>1. n \in Nat
  BY FS_CardinalityType
<1>2. \A x, y \in S : /\ before(x) \subseteq S
                      /\ y \in before(x) <=> <<y, x>> \in pairs
  OBVIOUS
<1> HIDE DEF before
<1>3. \A x \in S : /\ IsFiniteSet(before(x))
                   /\ Cardinality(before(x)) \in Nat
                   /\ Cardinality(before(x)) < n
  <2> TAKE x \in S
  <2>1. before(x) \in SUBSET S /\ before(x) # S
    BY <1>2 DEF StrictOrder
  <2> QED
    BY <2>1, FS_Subset, FS_CardinalityType
<1>4. \A x, y \in S : <<x, y>> \in pairs => Cardinality(before(x)) < Cardinality(before(y))
  <2> SUFFICES ASSUME NEW x \in S, NEW y \in S, <<x, y>> \in pairs
               PROVE  Cardinality(before(x)) < Cardinality(before(y))
    OBVIOUS
  <2>1. x \in before(y) /\ x \notin before(x)
    BY <1>2 DEF StrictOrder
  <2>2. before(x) \subseteq before(y)
    BY <1>2 DEF StrictOrder
  <2>3. before(x) # before(y)
    BY <2>1
  <2> QED
    BY <1>3, <2>2, <2>3, FS_Subset
<1>5. rank \in [S -> 0..(n - 1)]
  BY <1>1, <1>3
<1>6. \A x, y \in S : rank[x] = rank[y] => x = y
  <2> SUFFICES ASSUME NEW x \in S, NEW y \in S, rank[x] = rank[y]
               PROVE  x = y
    OBVIOUS
  <2>1. Cardinality(before(x)) = Cardinality(before(y)) /\ Cardinality(before(y)) \in Nat
    BY <1>3
  <2>2. <<x, y>> \notin pairs /\ <<y, x>> \notin pairs
    BY <1>4, <2>1
  <2> QED
    BY <2>2 DEF StrictOrder
<1> HIDE DEF rank
<1>7. rank \in Surjection(S, 0..(n - 1))
  <2>1. rank \in Injection(S, 0..(n - 1))
    BY <1>5, <1>6 DEF Injection, IsInjective
  <2>2. IsFiniteSet(0..(n - 1)) /\ Cardinality(0..(n - 1)) = n
    <3>1. 0..(n - 1) = {} => n = 0
      BY <1>1
    <3> QED
      BY <1>1, <3>1, FS_Interval
  <2> QED
    BY <2>1, <2>2, FS_Injection
<1> DEFINE s == InOrder(S, pairs)
<1>8. s = [i \in 1..n |-> CHOOSE x \in S : Cardinality(before(x)) = i - 1]
  BY DEF InOrder, before
<1>9. ASSUME NEW i \in 1..n
      PROVE  s[i] \in S /\ rank[s[i]] = i - 1
  <2>1. i - 1 \in 0..(n - 1)
    BY <1>1
  <2>2. PICK x \in S : rank[x] = i - 1
    BY <1>7, <2>1 DEF Surjection
  <2>3. \A y \in S : rank[y] = Cardinality(before(y))
    BY DEF rank
  <2>4. s[i] = CHOOSE y \in S : Cardinality(before(y)) = i - 1
    BY <1>8
  <2> HIDE DEF s
  <2> QED
    BY <2>2, <2>3, <2>4
<1>10. DOMAIN s = 1..n /\ s = [i \in 1..n |-> s[i]]
  <2> DEFINE x(i) == CHOOSE y \in S : Cardinality(before(y)) = i - 1
  <2>1. s = [i \in 1..n |-> x(i)]
    BY <1>8
  <2> HIDE DEF x, s
  <2> QED
    BY <2>1
<1> HIDE DEF s
<1>11. s \in [1..n -> S]
  BY <1>9, <1>10
<1>12. \A j, k \in 1..n : s[j] = s[k] => j = k
  <2> TAKE j, k \in 1..n
  <2>1. rank[s[j]] = j - 1 /\ rank[s[k]] = k - 1 /\ j \in Int /\ k \in Int
    BY <1>9
  <2>2. j - 1 = k - 1 => j = k
    BY <2>1
  <2> QED
    BY <2>1, <2>2
<1>13. ASSUME NEW x \in S PROVE \E j \in 1..n : s[j] = x
  <2> DEFINE j == rank[x] + 1
  <2>1. j \in 1..n /\ j - 1 = rank[x]
    BY <1>1, <1>5
  <2> HIDE DEF j
  <2>2. s[j] = x
    BY <1>6, <1>9, <2>1
  <2> QED
    BY <2>1, <2>2
<1> QED
  BY <1>11, <1>12, <1>13 DEF s

LEMMA AscendingLists ==
  ASSUME NEW S, IsFiniteSet(S), S \subseteq Int
  PROVE  Ascending(S) \in Seq(S)
<1> DEFINE pairs == {p \in S \X S : p[1] < p[2]}
<1>1. \A x, y \in S : <<x, y>> \in pairs <=> x < y
  OBVIOUS
<1> HIDE DEF pairs
<1>2. StrictOrder(S, pairs)
  BY <1>1 DEF StrictOrder
<1>3. Ascending(S) = InOrder(S, pairs)
  BY DEF Ascending, pairs
<1>4. InOrder(S, pairs) \in [1..Cardinality(S) -> S]
  BY <1>2, OrderListsAll
<1> QED
  BY <1>3, <1>4, FS_CardinalityType

LEMMA MaxExists ==
  ASSUME NEW S, IsFiniteSet(S), S \subseteq Int, S # {}
  PROVE  Max(S) \in S /\ \A y \in S : y <= Max(S)
<1> DEFINE G == {s \in SUBSET S : s = {} \/ \E x \in s : \A y \in s : x >= y}
<1>1. {} \in G
  OBVIOUS
<1>2. ASSUME NEW s \in SUBSET S, s # {}, \A x \in s : s \ {x} \in G
      PROVE  s \in G
  <2>1. PICK x \in s : TRUE
    BY <1>2
  <2>2. CASE s \ {x} = {}
    <3>1. \A y \in s : y = x
      BY <2>2
    <3> QED
      BY <3>1
  <2>3. CASE s \ {x} # {}
    <3>1. PICK m \in s \ {x} : \A y \in s \ {x} : m >= y
      BY <1>2, <2>3
    <3>2. x \in Int /\ m \in Int /\ s \subseteq Int
      OBVIOUS
    <3>3. CASE m >= x
      <4>1. \A y \in s : m >= y
        BY <3>1, <3>3
      <4> QED
        BY <4>1
    <3>4. CASE ~(m >= x)
      <4>1. \A y \in s : x >= y
        BY <3>1, <3>2, <3>4
      <4> QED
        BY <4>1
    <3> QED
      BY <3>3, <3>4
  <2> QED
    BY <2>2, <2>3
<1> HIDE DEF G
<1>3. SUBSET S \subseteq G
  BY <1>1, <1>2, SubsetInduction DEF Grows
<1>4. \E x \in S : \A y \in S : x >= y
  BY <1>3 DEF G
<1>5. Max(S) = CHOOSE x \in S : \A y \in S : x >= y
  BY DEF Max
<1>6. Max(S) \in S /\ \A y \in S : Max(S) >= y
  BY <1>4, <1>5
<1> QED
  BY <1>6

LEMMA OrderIsSequence ==
  ASSUME NEW S, IsFiniteSet(S), NEW pairs
  PROVE  \E T : InOrder(S, pairs) \in Seq(T)
<1> DEFINE s == InOrder(S, pairs)
           n == Cardinality(S)
<1>0. n \in Nat
  BY FS_CardinalityType
<1>1. DOMAIN s = 1..n /\ s = [i \in 1..n |-> s[i]]
  <2> DEFINE x(i) == CHOOSE x \in S : Cardinality({y \in S : <<y, x>> \in pairs}) = i - 1
  <2>1. s = [i \in 1..n |-> x(i)]
    BY DEF InOrder
  <2> HIDE DEF x, s
  <2> QED
    BY <2>1
<1> HIDE DEF s, n
<1>2. s \in Seq({s[i] : i \in 1..n})
  BY <1>0, <1>1
<1> QED
  BY <1>2 DEF s

(* one unfolding of the recursive function of FlattenSeq *)
Joined(f, seqs) ==
  [i \in 1..Len(seqs) |-> IF i = 1 THEN seqs[i] ELSE f[i - 1] \o seqs[i]]

IsFlatten(f, seqs) == f = Joined(f, seqs)

Flatten(seqs) == CHOOSE f : IsFlatten(f, seqs)

LEMMA FlattenSeqIsFlatten ==
  ASSUME NEW seqs, Len(seqs) # 0
  PROVE  FlattenSeq(seqs) = Flatten(seqs)[Len(seqs)]
BY DEF FlattenSeq, Flatten, IsFlatten, Joined

LEMMA FlattenExists ==
  ASSUME NEW S, NEW seqs \in Seq(S)
  PROVE  \E f : IsFlatten(f, seqs)
<1> DEFINE Right(f, n) == \A i \in 1..Len(seqs) : i <= n => f[i] = Joined(f, seqs)[i]
           N == {n \in Nat : \E f : Right(f, n)}
<1>0. Len(seqs) \in Nat
  OBVIOUS
<1>1. 0 \in N
  BY <1>0
<1>2. ASSUME NEW n \in Nat, n \in N PROVE n + 1 \in N
  <2>1. PICK f : Right(f, n)
    BY <1>2
  <2> DEFINE h == Joined(f, seqs)
  <2>2. ASSUME NEW i \in 1..Len(seqs), i <= n + 1
        PROVE  h[i] = Joined(h, seqs)[i]
    <3>1. CASE i = 1
      BY <3>1 DEF Joined
    <3>2. CASE i # 1
      <4>1. i - 1 \in 1..Len(seqs) /\ i - 1 <= n
        BY <1>0, <2>2, <3>2
      <4>2. f[i - 1] = h[i - 1]
        BY <2>1, <4>1
      <4> HIDE DEF h
      <4>3. Joined(f, seqs)[i] = Joined(h, seqs)[i]
        BY <3>2, <4>2 DEF Joined
      <4> QED
        BY <4>3 DEF h
    <3> QED
      BY <3>1, <3>2
  <2> HIDE DEF h
  <2>3. Right(h, n + 1)
    BY <2>2
  <2> QED
    BY <2>3
<1>3. Len(seqs) \in N
  <2> HIDE DEF N
  <2> QED
    BY <1>0, <1>1, <1>2, SetInduction
<1>4. PICK f : Right(f, Len(seqs))
  BY <1>3
<1> DEFINE h == Joined(f, seqs)
<1>5. \A i \in 1..Len(seqs) : f[i] = h[i]
  BY <1>0, <1>4
<1>6. \A i \in 1..Len(seqs) : i # 1 => i - 1 \in 1..Len(seqs)
  BY <1>0
<1>7. h = Joined(h, seqs)
  BY <1>5, <1>6 DEF Joined
<1> QED
  BY <1>7 DEF IsFlatten

(* What a concatenation holds comes from its parts. *)
LEMMA FlattenHolds ==
  ASSUME NEW T, NEW seqs \in Seq(Seq(T))
  PROVE  FlattenSeq(seqs) \in Seq(T)
<1> DEFINE f == Flatten(seqs)
           N == {n \in Nat : \A i \in 1..Len(seqs) : i <= n => f[i] \in Seq(T)}
<1>0. Len(seqs) \in Nat /\ \A i \in 1..Len(seqs) : seqs[i] \in Seq(T)
  OBVIOUS
<1>1. f = Joined(f, seqs)
  BY FlattenExists DEF Flatten, IsFlatten
<1>2. \A i \in 1..Len(seqs) : f[i] = IF i = 1 THEN seqs[i] ELSE f[i - 1] \o seqs[i]
  <2> HIDE DEF f
  <2> QED
    BY <1>1 DEF Joined
<1> HIDE DEF f
<1>3. 0 \in N
  BY <1>0
<1>4. ASSUME NEW n \in Nat, n \in N PROVE n + 1 \in N
  <2>1. ASSUME NEW i \in 1..Len(seqs), i <= n + 1 PROVE f[i] \in Seq(T)
    <3>1. CASE i = 1
      BY <1>0, <1>2, <3>1
    <3>2. CASE i # 1
      <4>1. i - 1 \in 1..Len(seqs) /\ i - 1 <= n
        BY <1>0, <2>1, <3>2
      <4>2. f[i - 1] \in Seq(T) /\ seqs[i] \in Seq(T)
        BY <1>0, <1>4, <4>1
      <4>3. f[i - 1] \o seqs[i] \in Seq(T)
        BY <4>2
      <4> QED
        BY <1>2, <3>2, <4>3
    <3> QED
      BY <3>1, <3>2
  <2> QED
    BY <2>1
<1> HIDE DEF N
<1>5. Len(seqs) \in N
  BY <1>0, <1>3, <1>4, SetInduction
<1>6. CASE Len(seqs) # 0
  <2>1. f[Len(seqs)] \in Seq(T)
    BY <1>0, <1>5, <1>6 DEF N
  <2> QED
    BY <1>6, <2>1, FlattenSeqIsFlatten DEF f
<1>7. CASE Len(seqs) = 0
  <2>1. FlattenSeq(seqs) = seqs
    BY <1>7 DEF FlattenSeq
  <2>2. seqs = <<>>
    BY <1>7
  <2> QED
    BY <2>1, <2>2
<1> QED
  BY <1>6, <1>7

------------------------------------------------------------------------------
(* The evidence of the files *)

LEMMA TakeHolds ==
  ASSUME NEW T, NEW s \in Seq(T), NEW n \in Nat
  PROVE  Take(s, n) \in Seq(T)
<1> DEFINE m == IF Len(s) < n THEN Len(s) ELSE n
<1>1. m \in Nat /\ m <= Len(s)
  OBVIOUS
<1> HIDE DEF m
<1>2. SubSeq(s, 1, m) \in Seq(T)
  BY <1>1
<1> QED
  BY <1>2 DEF Take, m

(* A sequence mapped item by item is a sequence. *)
LEMMA MapHolds ==
  ASSUME NEW S, NEW T, NEW s \in Seq(S), NEW g, \A x \in S : g[x] \in T
  PROVE  [j \in DOMAIN s |-> g[s[j]]] \in Seq(T)
<1>1. DOMAIN s = 1..Len(s) /\ Len(s) \in Nat /\ \A j \in DOMAIN s : s[j] \in S
  OBVIOUS
<1> QED
  BY <1>1

LEMMA RowsFinite ==
  ASSUME NEW f \in File
  PROVE  /\ f.rows \in Seq(Row)
         /\ Rows(f) = 1..Len(f.rows)
         /\ IsFiniteSet(Rows(f))
<1>1. f.rows \in Seq(Row)
  BY DEF File
<1>2. Rows(f) = 1..Len(f.rows)
  BY <1>1 DEF Rows
<1> QED
  BY <1>1, <1>2, FS_Interval

LEMMA InMonthIsRows ==
  ASSUME NEW f, NEW m
  PROVE  InMonth(f, m) \subseteq Rows(f)
BY DEF InMonth, Dated

LEMMA DimensionsFinite ==
  ASSUME NEW f \in File, NEW I, I \subseteq Rows(f)
  PROVE  IsFiniteSet({f.rows[i].dim : i \in I})
<1> DEFINE g == [i \in I |-> f.rows[i].dim]
<1>1. IsFiniteSet(DOMAIN g)
  BY RowsFinite, FS_Subset
<1>2. IsFiniteSet({g[i] : i \in DOMAIN g})
  BY <1>1, ImageFinite
<1> QED
  BY <1>2

LEMMA ChangesIsSequence ==
  ASSUME NEW f \in File, NEW def
  PROVE  \E T : Changes(f, def) \in Seq(T)
<1> DEFINE D == DimensionsIn(f, TargetMonth(def)) \cup DimensionsIn(f, BaselineMonth(def))
           h == [d \in D |-> [dim |-> d, change |-> Minus(DimTotal(f, TargetMonth(def), d),
                                                          DimTotal(f, BaselineMonth(def), d))]]
           items == {h[d] : d \in D}
<1>1. \A m : IsFiniteSet(DimensionsIn(f, m))
  BY InMonthIsRows, DimensionsFinite DEF DimensionsIn
<1>2. IsFiniteSet(D)
  BY <1>1, FS_Union
<1>3. IsFiniteSet(items)
  BY <1>2, ImageFinite
<1>4. \E pairs : Changes(f, def) = InOrder(items, pairs)
  <2>1. items = {[dim |-> d, change |-> Minus(DimTotal(f, TargetMonth(def), d),
                                              DimTotal(f, BaselineMonth(def), d))] : d \in D}
    OBVIOUS
  <2> HIDE DEF items
  <2> QED
    BY <2>1 DEF Changes
<1> QED
  BY <1>3, <1>4, OrderIsSequence

LEMMA RisksIsSequence ==
  ASSUME NEW f \in File, NEW def
  PROVE  \E T : Risks(f, def) \in Seq(T)
<1>1. Scoped(f, def) \subseteq Rows(f)
  BY InMonthIsRows DEF Scoped
<1>2. IsFiniteSet({f.rows[i].dim : i \in Scoped(f, def)})
  BY <1>1, DimensionsFinite
<1>3. \A P : P \subseteq {f.rows[i].dim : i \in Scoped(f, def)} => \E T : Ascending(P) \in Seq(T)
  BY <1>2, FS_Subset, OrderIsSequence DEF Ascending
<1>4. \E P : /\ P \subseteq {f.rows[i].dim : i \in Scoped(f, def)}
             /\ Risks(f, def) = IF def.scenario = "inventory_anomaly" THEN Ascending(P) ELSE <<>>
  BY DEF Risks
<1>5. <<>> \in Seq({})
  OBVIOUS
<1> QED
  BY <1>3, <1>4, <1>5

LEMMA AnalyzedFilesListed ==
  ASSUME NEW files \in Seq(File), NEW def
  PROVE  AnalyzedFiles(files, def) \in Seq(DOMAIN files)
<1> DEFINE S == {k \in DOMAIN files : Analyzed(files[k], def)}
<1>1. DOMAIN files = 1..Len(files)
  OBVIOUS
<1>2. S \subseteq DOMAIN files /\ S \subseteq Int
  BY <1>1
<1>3. IsFiniteSet(S)
  BY <1>1, <1>2, FS_Interval, FS_Subset
<1>4. AnalyzedFiles(files, def) = Ascending(S)
  BY DEF AnalyzedFiles
<1> HIDE DEF S
<1>5. Ascending(S) \in Seq(S)
  BY <1>2, <1>3, AscendingLists
<1> QED
  BY <1>2, <1>4, <1>5

(* what an item of evidence says of its file *)
Honest(item, files, def) ==
  /\ item.file \in DOMAIN files
  /\ item.quality = "verified" => evidence_quality(files[item.file]) = "verified"
  /\ item.kind = "comparison" => item.change = Comparison(files[item.file], def).change

Comparisons(files, def) ==
  {EvidenceOf(files, k, "comparison", Comparison(files[k], def).change) : k \in DOMAIN files}

Others(files, def) ==
  (UNION {{EvidenceOf(files, k, "dimension_change",
                      Take(Changes(files[k], def), ItemsPerDimension)[j].change) :
             j \in DOMAIN Take(Changes(files[k], def), ItemsPerDimension)} : k \in DOMAIN files})
  \cup {EvidenceOf(files, k, "inventory_risk", 0) : k \in DOMAIN files}
  \cup {EvidenceOf(files, k, "metric", 0) : k \in DOMAIN files}
  \cup {[EvidenceOf(files, k, "metric", 0) EXCEPT !.quality = "limited"] : k \in DOMAIN files}

LEMMA ItemsHonest ==
  ASSUME NEW files, NEW def, NEW item \in Comparisons(files, def) \cup Others(files, def)
  PROVE  Honest(item, files, def)
<1>1. \A k, kind, change : /\ EvidenceOf(files, k, kind, change).kind = kind
                           /\ EvidenceOf(files, k, kind, change).file = k
                           /\ EvidenceOf(files, k, kind, change).change = change
                           /\ EvidenceOf(files, k, kind, change).quality = evidence_quality(files[k])
  BY DEF EvidenceOf
<1>2. CASE item \in Comparisons(files, def)
  BY <1>1, <1>2 DEF Comparisons, Honest
<1>3. CASE \E k \in DOMAIN files : \E kind \in {"dimension_change", "inventory_risk", "metric"} :
             \E change : item = EvidenceOf(files, k, kind, change)
  BY <1>1, <1>3 DEF Honest
<1>4. CASE \E k \in DOMAIN files :
             item = [EvidenceOf(files, k, "metric", 0) EXCEPT !.quality = "limited"]
  <2>1. PICK k \in DOMAIN files :
           item = [EvidenceOf(files, k, "metric", 0) EXCEPT !.quality = "limited"]
    BY <1>4
  <2>2. item.file = k /\ item.kind = "metric" /\ item.quality = "limited"
    BY <2>1 DEF EvidenceOf
  <2> QED
    BY <2>2 DEF Honest
<1> QED
  BY <1>2, <1>3, <1>4 DEF Others

LEMMA ComparisonItems ==
  ASSUME NEW files, NEW def, NEW ks \in Seq(DOMAIN files)
  PROVE  ComparisonEvidence(files, def, ks) \in Seq(Comparisons(files, def))
<1> DEFINE item(k) == EvidenceOf(files, k, "comparison", Comparison(files[k], def).change)
           part(k) == IF HasComparison(files[k], def) THEN <<item(k)>> ELSE <<>>
           parts == [j \in DOMAIN ks |-> part(ks[j])]
<1>1. ComparisonEvidence(files, def, ks) = FlattenSeq(parts)
  BY DEF ComparisonEvidence, Concat
<1>2. \A k \in DOMAIN files : item(k) \in Comparisons(files, def)
  BY DEF Comparisons
<1> HIDE DEF item
<1>3. \A k \in DOMAIN files : part(k) \in Seq(Comparisons(files, def))
  BY <1>2
<1> HIDE DEF part
<1>4. parts \in Seq(Seq(Comparisons(files, def)))
  <2> DEFINE g == [k \in DOMAIN files |-> part(k)]
  <2>1. \A k \in DOMAIN files : g[k] \in Seq(Comparisons(files, def))
    BY <1>3
  <2>2. \A j \in DOMAIN ks : ks[j] \in DOMAIN files
    OBVIOUS
  <2>3. parts = [j \in DOMAIN ks |-> g[ks[j]]]
    BY <2>2
  <2> HIDE DEF g
  <2> QED
    BY <2>1, <2>3, MapHolds
<1> QED
  BY <1>1, <1>4, FlattenHolds

LEMMA ChangeItems ==
  ASSUME NEW files \in Seq(File), NEW def, NEW ks \in Seq(DOMAIN files)
  PROVE  ChangeEvidence(files, def, ks) \in Seq(Others(files, def))
<1> DEFINE items(k) == Take(Changes(files[k], def), ItemsPerDimension)
           item(k, j) == EvidenceOf(files, k, "dimension_change", items(k)[j].change)
           part(k) == IF HasChanges(files[k], def) THEN [j \in DOMAIN items(k) |-> item(k, j)]
                                                   ELSE <<>>
           parts == [j \in DOMAIN ks |-> part(ks[j])]
<1>1. ChangeEvidence(files, def, ks) = FlattenSeq(parts)
  BY DEF ChangeEvidence, Concat
<1>2. \A k \in DOMAIN files : \A j \in DOMAIN items(k) : item(k, j) \in Others(files, def)
  BY DEF Others
<1>3. \A k \in DOMAIN files : \E T : items(k) \in Seq(T)
  <2> TAKE k \in DOMAIN files
  <2>1. files[k] \in File
    OBVIOUS
  <2>2. PICK T : Changes(files[k], def) \in Seq(T)
    BY <2>1, ChangesIsSequence
  <2>3. items(k) \in Seq(T)
    BY <2>2, TakeHolds, CitedAssumption
  <2> QED
    BY <2>3
<1> HIDE DEF items, item
<1>4. \A k \in DOMAIN files : part(k) \in Seq(Others(files, def))
  <2> TAKE k \in DOMAIN files
  <2>1. DOMAIN items(k) = 1..Len(items(k)) /\ Len(items(k)) \in Nat
    BY <1>3
  <2> QED
    BY <1>2, <2>1
<1> HIDE DEF part
<1>5. parts \in Seq(Seq(Others(files, def)))
  <2> DEFINE g == [k \in DOMAIN files |-> part(k)]
  <2>1. \A k \in DOMAIN files : g[k] \in Seq(Others(files, def))
    BY <1>4
  <2>2. \A j \in DOMAIN ks : ks[j] \in DOMAIN files
    OBVIOUS
  <2>3. parts = [j \in DOMAIN ks |-> g[ks[j]]]
    BY <2>2
  <2> HIDE DEF g
  <2> QED
    BY <2>1, <2>3, MapHolds
<1> QED
  BY <1>1, <1>5, FlattenHolds

LEMMA RiskItems ==
  ASSUME NEW files \in Seq(File), NEW def, NEW ks \in Seq(DOMAIN files)
  PROVE  RiskEvidence(files, def, ks) \in Seq(Others(files, def))
<1> DEFINE risks(k) == Risks(files[k], def)
           item(k) == EvidenceOf(files, k, "inventory_risk", 0)
           part(k) == [j \in DOMAIN risks(k) |-> item(k)]
           parts == [j \in DOMAIN ks |-> part(ks[j])]
<1>1. RiskEvidence(files, def, ks) = Take(FlattenSeq(parts), RisksCited)
  BY DEF RiskEvidence, Concat
<1>2. \A k \in DOMAIN files : item(k) \in Others(files, def)
  BY DEF Others
<1>3. \A k \in DOMAIN files : \E T : risks(k) \in Seq(T)
  BY RisksIsSequence
<1> HIDE DEF risks, item
<1>4. \A k \in DOMAIN files : part(k) \in Seq(Others(files, def))
  <2> TAKE k \in DOMAIN files
  <2>1. DOMAIN risks(k) = 1..Len(risks(k)) /\ Len(risks(k)) \in Nat
    BY <1>3
  <2> QED
    BY <1>2, <2>1
<1> HIDE DEF part
<1>5. parts \in Seq(Seq(Others(files, def)))
  <2> DEFINE g == [k \in DOMAIN files |-> part(k)]
  <2>1. \A k \in DOMAIN files : g[k] \in Seq(Others(files, def))
    BY <1>4
  <2>2. \A j \in DOMAIN ks : ks[j] \in DOMAIN files
    OBVIOUS
  <2>3. parts = [j \in DOMAIN ks |-> g[ks[j]]]
    BY <2>2
  <2> HIDE DEF g
  <2> QED
    BY <2>1, <2>3, MapHolds
<1> HIDE DEF parts
<1> QED
  BY <1>1, <1>5, FlattenHolds, TakeHolds, CitedAssumption

LEMMA MetricItems ==
  ASSUME NEW files, NEW def, NEW ks \in Seq(DOMAIN files)
  PROVE  MetricEvidence(files, def, ks) \in Seq(Others(files, def))
<1> DEFINE item(k) == EvidenceOf(files, k, "metric", 0)
           limited(k) == [item(k) EXCEPT !.quality = "limited"]
           s == [j \in DOMAIN ks |-> IF ScopeVerified(files[ks[j]], def) THEN item(ks[j])
                                                                        ELSE limited(ks[j])]
<1>1. MetricEvidence(files, def, ks) = Take(s, MetricsCited)
  BY DEF MetricEvidence
<1>2. \A k \in DOMAIN files : item(k) \in Others(files, def) /\ limited(k) \in Others(files, def)
  BY DEF Others
<1> HIDE DEF item, limited
<1>3. s \in Seq(Others(files, def))
  BY <1>2
<1> HIDE DEF s
<1> QED
  BY <1>1, <1>3, TakeHolds, CitedAssumption

(* Evidence is about one of the files, is verified only if the file is free of  *)
(* defects, and a comparison is the one of its file.                            *)
LEMMA EvidenceIsHonest ==
  ASSUME NEW files \in Seq(File), NEW def
  PROVE  \A e \in DOMAIN Evidence(files, def) : Honest(Evidence(files, def)[e], files, def)
<1> DEFINE ks == AnalyzedFiles(files, def)
           T == Comparisons(files, def) \cup Others(files, def)
           c == ComparisonEvidence(files, def, ks)
           d == ChangeEvidence(files, def, ks)
           r == RiskEvidence(files, def, ks)
           m == MetricEvidence(files, def, ks)
<1>1. Evidence(files, def) = IF c \o d \o r = <<>> THEN m ELSE c \o d \o r
  BY DEF Evidence
<1>2. ks \in Seq(DOMAIN files)
  BY AnalyzedFilesListed
<1> HIDE DEF ks
<1>3. /\ c \in Seq(Comparisons(files, def))
      /\ d \in Seq(Others(files, def))
      /\ r \in Seq(Others(files, def))
      /\ m \in Seq(Others(files, def))
  BY <1>2, ComparisonItems, ChangeItems, RiskItems, MetricItems
<1> HIDE DEF c, d, r, m
<1>4. c \in Seq(T) /\ d \in Seq(T) /\ r \in Seq(T) /\ m \in Seq(T)
  BY <1>3
<1> HIDE DEF T
<1>5. Evidence(files, def) \in Seq(T)
  BY <1>1, <1>4
<1> QED
  BY <1>5, ItemsHonest DEF T

------------------------------------------------------------------------------
(* What a committed report rests on *)

LoopOrRender == {"build_report_ir", "validate_report", "render_report"}

EvidenceInv ==
  /\ \A e \in DOMAIN state.evidence : Honest(state.evidence[e], Files, Definition)
  /\ node \notin LoopOrRender => DOMAIN state.report["evidence_list"] = {}
  /\ \A p \in DOMAIN state.report["evidence_list"] :
       /\ p \in DOMAIN state.evidence
       /\ state.report["evidence_list"][p].id = p
       /\ state.report["evidence_list"][p].quality = state.evidence[p].quality

(* only a valid report is rendered, and what is committed is what was rendered *)
RenderedInv ==
  /\ node = "validate_report" /\ step = "leave" /\ state.valid => Valid(state.report)
  /\ node = "render_report" => Valid(state.report)
  /\ step \in {"persist", "compress", "success"} => node = "render_report"

CommittedInv ==
  /\ result.attempt <= attempt
  /\ result.attempt = attempt => /\ step \in {"compress", "success", "raised"}
                                 /\ node = "render_report"
                                 /\ result.report = state.report

BackedInv == EvidenceInv /\ RenderedInv /\ CommittedInv

LEMMA NodeMoves ==
  ASSUME Inv, [Next]_vars
  PROVE  /\ NextAttempt \/ UNCHANGED <<answers, attempt>>
         /\ \/ UNCHANGED node
            \/ Leave /\ node' = Successor /\ step' = "enter"
            \/ NextAttempt
BY Steps, ToolAnswersEffect
   DEF Enter, Leave, Quiet, Noted, ToolDone, Update, Refuse, UserCancels, UserDeletes, SuccessLost,
       NextAttempt, EnterCancelled, LeaveCancelled, ModelFails, ToolRaises, ToolCancelled, Persist,
       PersistFails, Compress, EmitFails, Except, StartTool, Goto, envVars, graphVars, vars

LEMMA FilesAreTables ==
  ASSUME answers \in Requests
  PROVE  Files \in Seq(File)
BY FilesAssumption DEF Files

LEMMA NewEvidenceList ==
  LET list == NewReport["evidence_list"]
  IN  /\ DOMAIN list = DOMAIN state.evidence
      /\ \A p \in DOMAIN list : list[p].id = p /\ list[p].quality = state.evidence[p].quality
<1>1. NewReport["evidence_list"] = [e \in DOMAIN state.evidence |->
                                      [id |-> e, ok |-> TRUE, quality |-> state.evidence[e].quality]]
  BY DEF NewReport
<1> QED
  BY <1>1

LEMMA EvidenceInit == Init => EvidenceInv
<1> SUFFICES ASSUME Init PROVE EvidenceInv
  OBVIOUS
<1>1. DOMAIN state.evidence = {} /\ DOMAIN state.report["evidence_list"] = {}
  BY DEF Init, StartState
<1> QED
  BY <1>1 DEF EvidenceInv

LEMMA EvidenceNext ==
  ASSUME Inv, RefusalInv, EvidenceInv, [Next]_vars
  PROVE  EvidenceInv'
<1> USE DEF EvidenceInv
<1>1. CASE NextAttempt
  <2>1. DOMAIN state'.evidence = {} /\ DOMAIN state'.report["evidence_list"] = {}
    BY <1>1 DEF NextAttempt, StartState
  <2> QED
    BY <2>1
<1>2. ASSUME ~NextAttempt, UNCHANGED <<state.evidence, state.report>>
      PROVE  EvidenceInv'
  <2>1. Files' = Files /\ Definition' = Definition
    BY <1>2, NodeMoves DEF Files, Definition
  <2>2. node' \notin LoopOrRender => node \notin LoopOrRender
    <3>1. node \in LoopOrRender /\ Leave /\ node' = Successor => node' \in LoopOrRender
      <4>1. node = "render_report" => ~(Leave /\ step' = "enter")
        BY DEF Leave, Goto
      <4> QED
        BY <1>2, <4>1, NodeMoves DEF LoopOrRender, Successor
    <3> QED
      BY <1>2, <3>1, NodeMoves
  <2> QED
    BY <1>2, <2>1, <2>2
<1>3. CASE BuildEvidence /\ state'.evidence = Evidence(Files, Definition) /\ UNCHANGED state.report
  <2>1. node = "build_evidence" /\ node' = node /\ answers' = answers
    BY <1>3 DEF BuildEvidence, Update, Goto, envVars
  <2>2. Files' = Files /\ Definition' = Definition
    BY <2>1 DEF Files, Definition
  <2>3. \A e \in DOMAIN state'.evidence : Honest(state'.evidence[e], Files, Definition)
    BY <1>3, FilesAreTables, EvidenceIsHonest DEF RefusalInv
  <2>4. DOMAIN state'.report["evidence_list"] = {}
    BY <1>3, <2>1 DEF LoopOrRender
  <2> QED
    BY <2>2, <2>3, <2>4
<1>4. CASE /\ BuildReportIR
           /\ state'.report = IF state.retries > 0 THEN Repair(state.report) ELSE NewReport
           /\ UNCHANGED state.evidence
  <2>1. node = "build_report_ir" /\ node' = node /\ answers' = answers
    BY <1>4 DEF BuildReportIR, Update, Goto, envVars
  <2>2. Files' = Files /\ Definition' = Definition
    BY <2>1 DEF Files, Definition
  <2>3. node' \in LoopOrRender
    BY <2>1 DEF LoopOrRender
  <2> DEFINE list == state'.report["evidence_list"]
  <2>4. CASE state'.report = Repair(state.report)
    <3>1. list = unique_validated_items(state.report["evidence_list"])
      BY <2>4 DEF Repair
    <3>2. \A p \in DOMAIN list : /\ p \in DOMAIN state.report["evidence_list"]
                                 /\ list[p] = state.report["evidence_list"][p]
      BY <3>1, KeptAreOk
    <3> HIDE DEF list
    <3>3. \A p \in DOMAIN list : /\ p \in DOMAIN state.evidence
                                 /\ list[p].id = p
                                 /\ list[p].quality = state.evidence[p].quality
      BY <3>2
    <3> QED
      BY <1>4, <2>2, <2>3, <3>3 DEF list
  <2>5. CASE state'.report = NewReport
    <3>1. /\ DOMAIN list = DOMAIN state.evidence
          /\ \A p \in DOMAIN list : list[p].id = p /\ list[p].quality = state.evidence[p].quality
      BY <2>5, NewEvidenceList
    <3> QED
      BY <1>4, <2>2, <2>3, <3>1
  <2> QED
    BY <1>4, <2>4, <2>5
<1> QED
  BY <1>1, <1>2, <1>3, <1>4, DataSteps DEF UnchangedData

LEMMA RenderedInit == Init => RenderedInv
BY DEF Init, RenderedInv

LEMMA RenderedNext ==
  ASSUME Inv, RenderedInv, [Next]_vars
  PROVE  RenderedInv'
<1> USE DEF RenderedInv
<1>1. step' \in {"persist", "compress", "success"} => node' = "render_report"
  BY Steps, ToolAnswersEffect
     DEF Enter, Leave, Quiet, Noted, ToolDone, Update, Refuse, UserCancels, UserDeletes, SuccessLost,
         NextAttempt, EnterCancelled, LeaveCancelled, ModelFails, ToolRaises, ToolCancelled, Persist,
         PersistFails, Compress, EmitFails, Except, StartTool, Goto, envVars, graphVars, vars
<1>2. node \in {"validate_report", "render_report"} /\ ~NextAttempt => UNCHANGED state.report
  BY DataSteps DEF UnchangedData, BuildEvidence, DetermineAttribution, BuildReportIR, Update
<1>3. node' = "render_report" => Valid(state'.report)
  <2>1. CASE Leave /\ node' = Successor /\ step' = "enter" /\ node' = "render_report"
    <3>1. node \in Nodes \ {"ask_clarification", "render_report"}
      BY <2>1 DEF Leave, Goto, Inv, Types
    <3>2. node = "validate_report" /\ state.valid
      BY <2>1, <3>1 DEF Successor
    <3> QED
      BY <2>1, <3>2 DEF Leave
  <2>2. CASE NextAttempt
    BY <2>2 DEF NextAttempt
  <2> QED
    BY <1>2, <2>1, <2>2, NodeMoves
<1>4. node' = "validate_report" /\ step' = "leave" /\ state'.valid => Valid(state'.report)
  <2> SUFFICES ASSUME node' = "validate_report", step' = "leave", state'.valid
               PROVE  Valid(state'.report)
    OBVIOUS
  <2>1. node = "validate_report"
    BY NodeMoves DEF NextAttempt
  <2>2. \/ step = "leave" /\ UNCHANGED state
        \/ ValidateReport /\ step = "body"
    BY <2>1, ToolAnswersEffect
       DEF Next, Executor, Environment, Over, Enter, EnterCancelled, Leave, LeaveCancelled, Except,
           LoadContext, DefineProblem, AskClarification, BuildAnalysisPlan, ValidateData,
           BuildEvidence, DetermineAttribution, BuildReportIR, RenderReport, Unchanged, Update,
           Refuse, StartTool, ToolRaises, ToolCancelled, ToolDone, Persist, PersistFails, Compress,
           EmitFails, ModelFails, UserCancels, UserDeletes, SuccessLost, NextAttempt, Goto,
           ValidateReport, envVars, graphVars, vars, Inv, RetryInv
  <2>3. CASE ValidateReport
    <3>1. \/ Valid(state.report) /\ UNCHANGED state.report
          \/ state' = [state EXCEPT !.valid = FALSE, !.retries = @ + 1]
      BY <1>2, <2>1, <2>3 DEF ValidateReport, Update, Refuse, Goto, NextAttempt
    <3>2. state' # [state EXCEPT !.valid = FALSE, !.retries = @ + 1]
      BY StartStateFields DEF Inv, Types
    <3> QED
      BY <3>1, <3>2
  <2> QED
    BY <2>1, <2>2, <2>3
<1> QED
  BY <1>1, <1>3, <1>4

LEMMA CommittedInit == Init => CommittedInv
BY DEF Init, CommittedInv, NoResult

LEMMA CommittedNext ==
  ASSUME Inv, RenderedInv, CommittedInv, [Next]_vars
  PROVE  CommittedInv'
<1> USE DEF CommittedInv
<1>0. attempt \in Nat \ {0}
  BY DEF Inv, Types
<1>1. CASE Persist
  <2>1. CASE UNCHANGED result
    BY <1>1, <2>1 DEF Persist, Goto, envVars
  <2>2. CASE result' = [attempt |-> attempt, report |-> state.report]
    BY <1>0, <1>1, <2>2 DEF Persist, Goto, envVars, RenderedInv
  <2> QED
    BY <1>1, <2>1, <2>2 DEF Persist
<1>2. CASE NextAttempt
  <2>1. result.attempt \in Nat
    BY DEF Inv, Types, NoResult
  <2> QED
    BY <1>0, <1>2, <2>1 DEF NextAttempt
<1>3. CASE ~Persist /\ ~NextAttempt
  <2>1. UNCHANGED <<result, attempt>>
    BY <1>3, Steps, ToolAnswersEffect
       DEF Enter, Leave, Quiet, Noted, ToolDone, Update, Refuse, UserCancels, UserDeletes,
           SuccessLost, EnterCancelled, LeaveCancelled, ModelFails, ToolRaises, ToolCancelled,
           PersistFails, Compress, EmitFails, Except, StartTool, envVars, vars
  <2>2. ASSUME result.attempt = attempt
        PROVE  /\ step' \in {"compress", "success", "raised"}
               /\ UNCHANGED <<node, state>>
    BY <1>3, <2>2, Steps, ToolAnswersEffect
       DEF Enter, Leave, Quiet, Noted, ToolDone, Update, Refuse, UserCancels, UserDeletes,
           SuccessLost, EnterCancelled, LeaveCancelled, ModelFails, ToolRaises, ToolCancelled,
           PersistFails, Compress, EmitFails, Except, StartTool, Goto, envVars, graphVars, vars
  <2> QED
    BY <2>1, <2>2
<1> QED
  BY <1>1, <1>2, <1>3

(* a file without a defect *)
LEMMA VerifiedIsSound ==
  ASSUME NEW f \in File, evidence_quality(f) = "verified"
  PROVE  /\ \A i, j \in Rows(f) : f.rows[i] = f.rows[j] => i = j
         /\ \A i \in Rows(f) : f.rows[i].value # Null
         /\ Dated(f) # {}
<1>1. ~Defective(f)
  BY DEF evidence_quality
<1>2. Rows(f) \subseteq Int
  BY RowsFinite
<1>3. \A i, j \in Rows(f) : f.rows[i] = f.rows[j] => ~(i < j)
  BY <1>1 DEF Defective
<1>4. \A i, j \in Rows(f) : f.rows[i] = f.rows[j] => i = j
  <2> TAKE i, j \in Rows(f)
  <2>1. f.rows[i] = f.rows[j] => ~(i < j) /\ ~(j < i)
    BY <1>3
  <2>2. i \in Int /\ j \in Int
    BY <1>2
  <2> QED
    BY <2>1, <2>2
<1> QED
  BY <1>1, <1>4 DEF Defective

LEMMA TotalIsSum ==
  ASSUME NEW f \in File, Complete(f), NEW m
  PROVE  Total(f, InMonth(f, m)) = SumOf(f, m) /\ SumOf(f, m) \in Int
<1> DEFINE I == {j \in Rows(f) : f.rows[j].date \div 100 = m}
           g == [i \in I |-> f.rows[i].value]
<1>1. \A i \in Rows(f) : f.rows[i].value \in Int \cup {Null, Inf, Text}
  <2> TAKE i \in Rows(f)
  <2>1. f.rows[i] \in Row
    BY RowsFinite
  <2> QED
    BY <2>1 DEF Row
<1>2. \A i \in Rows(f) : f.rows[i].value \in Int /\ f.rows[i].value # Inf
  BY <1>1 DEF Complete
<1>3. InMonth(f, m) \cap Numeric(f) = I
  BY DEF Complete, InMonth, Dated, Numeric, MonthOf
<1>4. IsFiniteSet(I)
  BY RowsFinite, FS_Subset
<1>5. ~ \E i \in I : f.rows[i].value = Inf
  BY <1>2
<1>6. Total(f, InMonth(f, m)) = Sum(g)
  BY <1>3, <1>5 DEF Total
<1>7. SumOf(f, m) = Sum(g)
  BY DEF SumOf
<1>8. g \in [I -> Int]
  BY <1>2
<1> HIDE DEF g
<1> QED
  BY <1>4, <1>6, <1>7, <1>8, SumTyped

LEMMA ChangeIsOfTheSums ==
  ASSUME NEW f \in File, NEW def, Complete(f)
  PROVE  LET last == Max(TrendMonths(f))
             base == IF def.baseline = "previous_period"
                     THEN Max(TrendMonths(f) \ {last}) ELSE last - 12
         IN  Comparison(f, def).change = SumOf(f, last) - SumOf(f, base)
<1> DEFINE last == Max(TrendMonths(f))
           base == IF def.baseline = "previous_period"
                   THEN Max(TrendMonths(f) \ {last}) ELSE last - 12
           a == Total(f, InMonth(f, last))
           b == Total(f, InMonth(f, base))
<1>1. Comparison(f, def).change = Minus(a, b)
  <2>1. ComparedMonths(f, def) = <<last, base>>
    BY DEF ComparedMonths
  <2> HIDE DEF last, base
  <2> QED
    BY <2>1 DEF Comparison
<1>2. a = SumOf(f, last) /\ b = SumOf(f, base) /\ a \in Int /\ b \in Int
  BY TotalIsSum
<1> HIDE DEF last, base, a, b
<1>3. Minus(a, b) = a - b
  BY <1>2, NullAssumption DEF Minus
<1>4. Comparison(f, def).change = SumOf(f, last) - SumOf(f, base)
  BY <1>1, <1>2, <1>3
<1> QED
  BY <1>4 DEF last, base

LEMMA ValidIsBacked ==
  ASSUME answers \in Requests, BackedInv, result.attempt = attempt
  PROVE  ConfirmedIsBacked
<1> DEFINE r == state.report
           conclusions == r["attribution_conclusions"]
           list == r["evidence_list"]
<1>1. result.report = r /\ Valid(r)
  BY DEF BackedInv, CommittedInv, RenderedInv
<1> SUFFICES ASSUME NEW c \in DOMAIN conclusions, conclusions[c].status = "confirmed",
                    NEW e \in conclusions[c].cites
             PROVE  LET item == state.evidence[e]
                        f == Files[item.file]
                        last == Max(TrendMonths(f))
                        base == IF Definition.baseline = "previous_period"
                                THEN Max(TrendMonths(f) \ {last}) ELSE last - 12
                    IN  /\ \A i, j \in Rows(f) : f.rows[i] = f.rows[j] => i = j
                        /\ \A i \in Rows(f) : f.rows[i].value # Null
                        /\ Dated(f) # {}
                        /\ item.kind = "comparison" /\ Complete(f) =>
                           item.change = SumOf(f, last) - SumOf(f, base)
  <2>1. \A c \in DOMAIN conclusions : conclusions[c].status = "confirmed" =>
           conclusions[c].cites # {}
    BY <1>1 DEF Valid, ReferencesOk
  <2> QED
    BY <1>1, <2>1 DEF ConfirmedIsBacked
<1> DEFINE item == state.evidence[e]
           f == Files[item.file]
           last == Max(TrendMonths(f))
           base == IF Definition.baseline = "previous_period"
                   THEN Max(TrendMonths(f) \ {last}) ELSE last - 12
<1>2. conclusions[c].cites \subseteq Ids(list) /\ Verified(list, conclusions[c].cites)
  BY <1>1 DEF Valid, ReferencesOk
<1>3. PICK p \in DOMAIN list : list[p].id = e /\ list[p].quality = "verified"
  BY <1>2 DEF Ids, Verified
<1>4. p = e /\ e \in DOMAIN state.evidence /\ item.quality = "verified"
  BY <1>3 DEF BackedInv, EvidenceInv
<1>5. Honest(item, Files, Definition)
  BY <1>4 DEF BackedInv, EvidenceInv
<1>6. f \in File /\ evidence_quality(f) = "verified"
  <2>1. item.file \in DOMAIN Files /\ evidence_quality(f) = "verified"
    BY <1>4, <1>5 DEF Honest
  <2> QED
    BY <2>1, FilesAreTables
<1>7. item.kind = "comparison" => item.change = Comparison(f, Definition).change
  BY <1>5 DEF Honest
<1> HIDE DEF item, f
<1>8. item.kind = "comparison" /\ Complete(f) =>
        item.change = SumOf(f, last) - SumOf(f, base)
  BY <1>6, <1>7, ChangeIsOfTheSums
<1> QED
  BY <1>6, <1>8, VerifiedIsSound DEF f, item

(* A conclusion that a committed report calls confirmed rests on evidence, all  *)
(* of it from files without repeated rows and without empty cells in the         *)
(* metric, some row of which has a date; and the change it names is that of the  *)
(* file's sums, if every cell of the metric is a number and every row has a      *)
(* date.  Whatever the model, the repair and earlier attempts did                *)
(* (build_evidence.py, determine_attribution.py, schemas/report.py:94-135).      *)
THEOREM ConfirmedBacked == Spec => []ConfirmedIsBacked
<1>1. Init => BackedInv
  BY EvidenceInit, RenderedInit, CommittedInit DEF BackedInv
<1>2. Inv /\ RefusalInv /\ BackedInv /\ [Next]_vars => BackedInv'
  BY EvidenceNext, RenderedNext, CommittedNext DEF BackedInv
<1>3. RefusalInv /\ BackedInv => ConfirmedIsBacked
  BY ValidIsBacked DEF RefusalInv, ConfirmedIsBacked
<1> QED
  BY <1>1, <1>2, <1>3, Invariant, RefusalInit, RefusalNext, PTL DEF Spec

------------------------------------------------------------------------------
(* The breakdown of a change *)

LEMMA TrendMonthsFinite ==
  ASSUME NEW f \in File
  PROVE  IsFiniteSet(TrendMonths(f)) /\ TrendMonths(f) \subseteq Int
<1> DEFINE I == Dated(f) \cap Numeric(f)
           g == [i \in I |-> MonthOf(f.rows[i].date)]
<1>1. I \subseteq Rows(f)
  BY DEF Dated
<1>2. IsFiniteSet(DOMAIN g)
  BY <1>1, RowsFinite, FS_Subset
<1>3. TrendMonths(f) = IF f.dated THEN {g[i] : i \in DOMAIN g} ELSE {}
  BY DEF TrendMonths
<1>4. \A i \in I : MonthOf(f.rows[i].date) \in Int
  <2> TAKE i \in I
  <2>1. f.rows[i] \in Row /\ f.rows[i].date # Null
    BY <1>1, RowsFinite DEF Dated
  <2>2. f.rows[i].date \in Int
    BY <2>1 DEF Row
  <2> QED
    BY <2>2 DEF MonthOf
<1>5. \A i \in DOMAIN g : g[i] \in Int
  BY <1>4
<1> HIDE DEF g
<1>6. IsFiniteSet({g[i] : i \in DOMAIN g})
  BY <1>2, ImageFinite
<1>7. CASE f.dated
  <2>1. TrendMonths(f) = {g[i] : i \in DOMAIN g}
    BY <1>3, <1>7
  <2> QED
    BY <1>5, <1>6, <2>1
<1>8. CASE ~f.dated
  BY <1>3, <1>8, FS_EmptySet
<1> QED
  BY <1>7, <1>8

(* The comparison is about the target month and its baseline. *)
LEMMA ComparisonOfTarget ==
  ASSUME NEW f \in File, NEW def, HasComparison(f, def), HasChanges(f, def),
         TargetMonth(def) = Max(TrendMonths(f)),
         \/ def.baseline = "year_over_year"
         \/ TargetMonth(def) - 1 \in TrendMonths(f)
  PROVE  Comparison(f, def).change = Minus(Total(f, InMonth(f, TargetMonth(def))),
                                           Total(f, InMonth(f, BaselineMonth(def))))
<1> DEFINE T == TrendMonths(f)
           m == Max(T)
<1>1. IsFiniteSet(T) /\ T \subseteq Int
  BY TrendMonthsFinite
<1>2. T # {}
  BY FS_EmptySet DEF HasComparison
<1>3. m \in Int /\ m \in T /\ \A y \in T : y <= m
  BY <1>1, <1>2, MaxExists
<1> HIDE DEF T
<1>4. CASE def.baseline = "previous_period"
  <2>1. m - 1 \in T \ {m}
    BY <1>3, <1>4 DEF T
  <2>2. \A y \in T \ {m} : y <= m - 1
    BY <1>1, <1>3
  <2>3. /\ Max(T \ {m}) \in T \ {m}
        /\ \A y \in T \ {m} : y <= Max(T \ {m})
    <3>1. T \ {m} # {} /\ T \ {m} \subseteq Int
      BY <1>1, <2>1
    <3>2. IsFiniteSet(T \ {m})
      BY <1>1, FS_Subset
    <3> QED
      BY <3>1, <3>2, MaxExists
  <2>4. Max(T \ {m}) = m - 1
    <3>1. Max(T \ {m}) \in Int
      BY <1>1, <2>3
    <3>2. Max(T \ {m}) <= m - 1 /\ m - 1 <= Max(T \ {m})
      BY <2>1, <2>2, <2>3
    <3> QED
      BY <1>3, <3>1, <3>2
  <2>5. ComparedMonths(f, def) = <<m, m - 1>>
    BY <1>4, <2>4 DEF ComparedMonths, T
  <2>6. BaselineMonth(def) = m - 1
    BY <1>4 DEF BaselineMonth, T
  <2> HIDE DEF m
  <2> QED
    BY <2>5, <2>6 DEF Comparison, m, T
<1>5. CASE def.baseline = "year_over_year"
  <2>1. ComparedMonths(f, def) = <<m, m - 12>>
    BY <1>5 DEF ComparedMonths, T
  <2>2. BaselineMonth(def) = m - 12
    BY <1>5 DEF BaselineMonth, T
  <2> HIDE DEF m
  <2> QED
    BY <2>1, <2>2 DEF Comparison, m, T
<1> QED
  BY <1>4, <1>5 DEF HasChanges

(* A sum that is not null is one of integers, and can be taken by dimension. *)
LEMMA TotalByDimension ==
  ASSUME NEW f \in File, NEW m, Total(f, InMonth(f, m)) # Null,
         NEW D, IsFiniteSet(D), DimensionsIn(f, m) \subseteq D
  PROVE  /\ [d \in D |-> DimTotal(f, m, d)] \in [D -> Int]
         /\ Sum([d \in D |-> DimTotal(f, m, d)]) = Total(f, InMonth(f, m))
<1> DEFINE S == InMonth(f, m) \cap Numeric(f)
           g == [i \in S |-> f.rows[i].value]
           c == [i \in S |-> f.rows[i].dim]
           part(d) == {j \in S : c[j] = d}
<1>1. ~ \E i \in S : f.rows[i].value = Inf
  BY DEF Total
<1>2. Total(f, InMonth(f, m)) = Sum(g)
  BY <1>1 DEF Total
<1>3. S \subseteq Rows(f)
  BY InMonthIsRows
<1>4. IsFiniteSet(S)
  BY <1>3, RowsFinite, FS_Subset
<1>5. g \in [S -> Int]
  <2> SUFFICES ASSUME NEW i \in S PROVE f.rows[i].value \in Int
    OBVIOUS
  <2>1. f.rows[i] \in Row
    BY <1>3, RowsFinite
  <2>2. f.rows[i].value \in Int \cup {Null, Inf, Text}
    BY <2>1 DEF Row
  <2>3. f.rows[i].value \notin {Null, Text}
    BY DEF Numeric
  <2> QED
    BY <1>1, <2>2, <2>3
<1>6. c \in [S -> D]
  BY DEF DimensionsIn
<1>7. \A d \in D : /\ DimTotal(f, m, d) = Sum([i \in part(d) |-> g[i]])
                   /\ DimTotal(f, m, d) \in Int
  <2> TAKE d \in D
  <2>1. {i \in InMonth(f, m) : f.rows[i].dim = d} \cap Numeric(f) = part(d)
    OBVIOUS
  <2>2. DimTotal(f, m, d) = Sum([i \in part(d) |-> f.rows[i].value])
    BY <1>1, <2>1 DEF DimTotal, Total
  <2>3. [i \in part(d) |-> f.rows[i].value] = [i \in part(d) |-> g[i]]
    OBVIOUS
  <2>4. part(d) \subseteq S
    OBVIOUS
  <2> HIDE DEF part, S, g
  <2>5. DimTotal(f, m, d) = Sum([i \in part(d) |-> g[i]])
    BY <2>2, <2>3, Zenon
  <2>6. IsFiniteSet(part(d))
    BY <1>4, <2>4, FS_Subset
  <2>7. [i \in part(d) |-> g[i]] \in [part(d) -> Int]
    BY <1>5, <2>4
  <2>8. Sum([i \in part(d) |-> g[i]]) \in Int
    BY <2>6, <2>7, SumTyped
  <2> QED
    BY <2>5, <2>8
<1> HIDE DEF S, g, c
<1>8. Sum([d \in D |-> Sum([i \in part(d) |-> g[i]])]) = Sum(g)
  BY <1>4, <1>5, <1>6, SumByClass
<1> HIDE DEF part
<1>9. [d \in D |-> DimTotal(f, m, d)] = [d \in D |-> Sum([i \in part(d) |-> g[i]])]
  BY <1>7
<1> QED
  BY <1>2, <1>7, <1>8, <1>9

DimensionsCompared(f, def) ==
  DimensionsIn(f, TargetMonth(def)) \cup DimensionsIn(f, BaselineMonth(def))

(* The dimension values are listed once each, whatever their order. *)
LEMMA ChangesListed ==
  ASSUME NEW f \in File, NEW def, NEW a \in [DimensionsCompared(f, def) -> Int],
         \A d \in DimensionsCompared(f, def) :
           a[d] = Minus(DimTotal(f, TargetMonth(def), d), DimTotal(f, BaselineMonth(def), d))
  PROVE  LET changes == Changes(f, def)
         IN  Sum([j \in DOMAIN changes |-> changes[j].change]) = Sum(a)
<1> DEFINE D == DimensionsCompared(f, def)
           h == [d \in D |-> [dim |-> d, change |-> a[d]]]
           items == {h[d] : d \in D}
           before(x, y) == \/ Size(x.change) > Size(y.change)
                           \/ Size(x.change) = Size(y.change) /\ x.dim < y.dim
           pairs == {p \in items \X items : before(p[1], p[2])}
           changes == Changes(f, def)
           n == Cardinality(items)
<1>1. IsFiniteSet(D) /\ D \subseteq Int
  <2>1. \A m : IsFiniteSet(DimensionsIn(f, m))
    BY InMonthIsRows, DimensionsFinite DEF DimensionsIn
  <2>2. \A i \in Rows(f) : f.rows[i].dim \in Int
    <3> TAKE i \in Rows(f)
    <3>1. f.rows[i] \in Row
      BY RowsFinite
    <3> QED
      BY <3>1 DEF Row
  <2>3. \A m : DimensionsIn(f, m) \subseteq Int
    BY <2>2, InMonthIsRows DEF DimensionsIn
  <2> QED
    BY <2>1, <2>3, FS_Union DEF DimensionsCompared
<1>2. IsFiniteSet(items)
  BY <1>1, ImageFinite
<1>3. changes = InOrder(items, pairs)
  <2>1. items = {[dim |-> d, change |-> Minus(DimTotal(f, TargetMonth(def), d),
                                              DimTotal(f, BaselineMonth(def), d))] : d \in D}
    OBVIOUS
  <2> HIDE DEF items
  <2> QED
    BY <2>1 DEF Changes, DimensionsCompared
<1>4. \A d \in D : h[d] \in items /\ h[d].dim = d /\ h[d].change = a[d]
  OBVIOUS
<1>5. \A x \in items : x.dim \in D /\ x = h[x.dim] /\ x.change = a[x.dim]
  OBVIOUS
<1>6. \A x, y \in items : <<x, y>> \in pairs <=> before(x, y)
  OBVIOUS
<1> HIDE DEF h, items, pairs, changes
<1>7. StrictOrder(items, pairs)
  <2>1. \A x \in items : x.dim \in Int /\ Size(x.change) \in Int
    <3> TAKE x \in items
    <3>1. x.dim \in Int /\ x.change \in Int
      BY <1>1, <1>5
    <3> QED
      BY <3>1 DEF Size
  <2>2. \A x, y \in items : x # y => x.dim # y.dim
    BY <1>5
  <2>3. \A x, y, z \in items : before(x, y) /\ before(y, z) => before(x, z)
    BY <2>1
  <2>4. \A x, y \in items : x # y => before(x, y) \/ before(y, x)
    BY <2>1, <2>2
  <2>5. \A x \in items : ~before(x, x)
    BY <2>1
  <2> HIDE DEF before
  <2> QED
    BY <1>6, <2>3, <2>4, <2>5 DEF StrictOrder
<1>8. /\ changes \in [1..n -> items]
      /\ \A j, k \in 1..n : changes[j] = changes[k] => j = k
      /\ \A x \in items : \E j \in 1..n : changes[j] = x
  BY <1>2, <1>3, <1>7, OrderListsAll
<1>9. IsFiniteSet(1..n)
  BY <1>2, FS_CardinalityType, FS_Interval
<1> HIDE DEF n
<1> DEFINE c == [j \in 1..n |-> changes[j].dim]
<1>10. c \in [1..n -> D]
  BY <1>5, <1>8
<1>11. \A j, k \in 1..n : c[j] = c[k] => j = k
  BY <1>5, <1>8
<1>12. \A d \in D : \E j \in 1..n : c[j] = d
  BY <1>4, <1>8
<1>13. [j \in DOMAIN changes |-> changes[j].change] = [j \in 1..n |-> a[c[j]]]
  BY <1>5, <1>8
<1>20. a \in [D -> Int]
  OBVIOUS
<1> HIDE DEF c, D
<1>14. Sum([j \in 1..n |-> a[c[j]]]) = Sum(a)
  <2>1. Renames(c, 1..n, D)
    BY <1>10, <1>11, <1>12 DEF Renames
  <2>2. SumOfNamed(a, c, 1..n) = Sum(a)
    BY <1>1, <1>9, <1>20, <2>1, SumReindexed
  <2> QED
    BY <2>2 DEF SumOfNamed
<1>15. Sum([j \in DOMAIN changes |-> changes[j].change]) = Sum(a)
  BY <1>13, <1>14, Zenon
<1> QED
  BY <1>15 DEF changes

LEMMA BreakdownOfFile ==
  ASSUME NEW f \in File, NEW def, HasComparison(f, def), HasChanges(f, def),
         TargetMonth(def) = Max(TrendMonths(f)),
         \/ def.baseline = "year_over_year"
         \/ TargetMonth(def) - 1 \in TrendMonths(f),
         Comparison(f, def).change # Null
  PROVE  LET changes == Changes(f, def)
         IN  Sum([j \in DOMAIN changes |-> changes[j].change]) = Comparison(f, def).change
<1> DEFINE m == TargetMonth(def)
           b == BaselineMonth(def)
           D == DimensionsCompared(f, def)
           g == [d \in D |-> DimTotal(f, m, d)]
           h == [d \in D |-> DimTotal(f, b, d)]
           a == [d \in D |-> g[d] - h[d]]
           x == Total(f, InMonth(f, m))
           y == Total(f, InMonth(f, b))
<1>1. Comparison(f, def).change = Minus(x, y)
  BY ComparisonOfTarget
<1>2. x # Null /\ y # Null /\ Minus(x, y) = x - y
  BY <1>1 DEF Minus
<1>3. IsFiniteSet(D)
  <2>1. \A k : IsFiniteSet(DimensionsIn(f, k))
    BY InMonthIsRows, DimensionsFinite DEF DimensionsIn
  <2> QED
    BY <2>1, FS_Union DEF DimensionsCompared
<1>4. /\ g \in [D -> Int] /\ Sum(g) = x
      /\ h \in [D -> Int] /\ Sum(h) = y
  <2>1. DimensionsIn(f, m) \subseteq D /\ DimensionsIn(f, b) \subseteq D
    BY DEF DimensionsCompared
  <2> HIDE DEF D, m, b
  <2> QED
    BY <1>2, <1>3, <2>1, TotalByDimension
<1>5. \A d \in D : /\ g[d] = DimTotal(f, m, d) /\ h[d] = DimTotal(f, b, d)
                   /\ a[d] = g[d] - h[d]
  OBVIOUS
<1> HIDE DEF g, h, x, y
<1>6. Sum(a) = x - y
  <2> HIDE DEF D
  <2> QED
    BY <1>3, <1>4, SumDifference
<1>7. a \in [D -> Int]
  BY <1>4
<1> HIDE DEF a
<1>8. \A d \in D : a[d] = Minus(DimTotal(f, m, d), DimTotal(f, b, d))
  <2> TAKE d \in D
  <2>1. g[d] \in Int /\ h[d] \in Int
    BY <1>4
  <2> QED
    BY <1>5, <2>1, NullAssumption DEF Minus
<1>9. LET changes == Changes(f, def)
      IN  Sum([j \in DOMAIN changes |-> changes[j].change]) = Sum(a)
  BY <1>7, <1>8, ChangesListed
<1> QED
  BY <1>1, <1>2, <1>6, <1>9

(* An attempt that got past the analysis has finite totals. *)
Analysed == \/ node \in {"build_evidence", "determine_attribution"} \cup LoopOrRender
            \/ node = "analyze_with_pandas" /\ step \in {"ok", "leave"}

AnalyzedInv == Analysed => ~PandasRaises(Files, Definition)

LEMMA AnalysisAnswers ==
  ASSUME ToolAnswers
  PROVE  node = "analyze_with_pandas" => ~PandasRaises(Files, Definition)
BY DEF ToolAnswers

LEMMA AnalyzedInit == Init => AnalyzedInv
BY DEF Init, AnalyzedInv, Analysed, LoopOrRender

(* the analysis is passed by an answer of the tool *)
LEMMA AnalysisSteps ==
  ASSUME Inv, [Next]_vars, Analysed', ~NextAttempt
  PROVE  Analysed \/ (ToolAnswers /\ node = "analyze_with_pandas")
<1>1. CASE Leave /\ node' = Successor /\ step' = "enter"
  <2>1. node \in Nodes \ {"ask_clarification", "render_report"}
    BY <1>1 DEF Leave, Goto, Inv, Types
  <2>2. node' \in {"build_evidence", "determine_attribution"} \cup LoopOrRender
    BY <1>1 DEF Analysed, LoopOrRender
  <2>3. step = "leave"
    BY <1>1 DEF Leave
  <2> QED
    BY <1>1, <2>1, <2>2, <2>3 DEF Analysed, LoopOrRender, Successor
<1>2. CASE UNCHANGED node /\ node = "analyze_with_pandas" /\ ~Leave
  <2>1. step' \in {"ok", "leave"}
    BY <1>2 DEF Analysed, LoopOrRender
  <2>2. step \in {"ok", "leave"} \/ ToolAnswers
    BY <1>2, <2>1, Steps, ToolAnswersEffect
       DEF Enter, Quiet, Noted, ToolDone, Update, Refuse, UserCancels, UserDeletes, SuccessLost,
           EnterCancelled, LeaveCancelled, ModelFails, ToolRaises, ToolCancelled, Persist,
           PersistFails, Compress, EmitFails, Except, StartTool, Goto, envVars, graphVars, vars
  <2> QED
    BY <1>2, <2>2 DEF Analysed, LoopOrRender
<1>3. CASE UNCHANGED node /\ node # "analyze_with_pandas"
  BY <1>3 DEF Analysed, LoopOrRender
<1>4. CASE UNCHANGED node /\ Leave
  BY <1>4 DEF Leave, Goto, Analysed
<1> QED
  BY <1>1, <1>2, <1>3, <1>4, NodeMoves

LEMMA AnalyzedNext ==
  ASSUME Inv, AnalyzedInv, [Next]_vars
  PROVE  AnalyzedInv'
<1>1. CASE NextAttempt
  BY <1>1 DEF NextAttempt, AnalyzedInv, Analysed, LoopOrRender
<1>2. CASE ~NextAttempt
  <2> SUFFICES ASSUME Analysed'
               PROVE  ~PandasRaises(Files', Definition')
    BY DEF AnalyzedInv
  <2>1. Files' = Files /\ Definition' = Definition
    BY <1>2, NodeMoves DEF Files, Definition
  <2>2. ~PandasRaises(Files, Definition)
    BY <1>2, AnalysisSteps, AnalysisAnswers DEF AnalyzedInv
  <2> QED
    BY <2>1, <2>2
<1> QED
  BY <1>1, <1>2

LEMMA FiniteAddsUp ==
  ASSUME answers \in Requests, CommittedInv, AnalyzedInv, result.attempt = attempt
  PROVE  BreakdownAddsUp
<1>1. Files \in Seq(File) /\ ~PandasRaises(Files, Definition)
  BY FilesAreTables DEF CommittedInv, AnalyzedInv, Analysed, LoopOrRender
<1>2. ASSUME NEW k \in DOMAIN Files,
             Analyzed(Files[k], Definition), HasComparison(Files[k], Definition),
             HasChanges(Files[k], Definition),
             TargetMonth(Definition) = Max(TrendMonths(Files[k])),
             \/ Definition.baseline = "year_over_year"
             \/ TargetMonth(Definition) - 1 \in TrendMonths(Files[k])
      PROVE  LET changes == Changes(Files[k], Definition)
             IN  Sum([j \in DOMAIN changes |-> changes[j].change])
                   = Comparison(Files[k], Definition).change
  <2>1. Files[k] \in File
    BY <1>1
  <2>2. Comparison(Files[k], Definition).change # Null
    BY <1>1, <1>2 DEF PandasRaises
  <2> QED
    BY <1>2, <2>1, <2>2, BreakdownOfFile
<1> QED
  BY <1>2, Zenon DEF BreakdownAddsUp

(* When a committed report's comparison and its breakdown are about the same     *)
(* months, the changes of the dimension's values add up to the headline change,  *)
(* for files of any size: no row is counted in two values or in none             *)
(* (pandas_analyze.py:352-385, 421-506).                                         *)
THEOREM BreakdownsAddUp == Spec => []BreakdownAddsUp
<1>1. RefusalInv /\ CommittedInv /\ AnalyzedInv => BreakdownAddsUp
  BY FiniteAddsUp DEF RefusalInv, BreakdownAddsUp
<1>2. Init => RenderedInv /\ CommittedInv /\ AnalyzedInv
  BY RenderedInit, CommittedInit, AnalyzedInit
<1>3. Inv /\ RenderedInv /\ CommittedInv /\ AnalyzedInv /\ [Next]_vars
        => RenderedInv' /\ CommittedInv' /\ AnalyzedInv'
  BY RenderedNext, CommittedNext, AnalyzedNext
<1> QED
  BY <1>1, <1>2, <1>3, Invariant, RefusalInit, RefusalNext, PTL DEF Spec

===============================================================================
