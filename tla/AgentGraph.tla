------------------------------ MODULE AgentGraph ------------------------------
(***************************************************************************)
(* One task's executor (agent/executor.py): the graph of agent/graph.py,    *)
(* every node wrapped by AgentRuntime.wrap_node, every tool called through  *)
(* run_tool, the repair of an invalid report, and the result committed by   *)
(* StageFiveResultService.  The environment is the user (who cancels,       *)
(* answers, retries, deletes the conversation), the model and the data      *)
(* sources, and the database, which may fail under any event or commit.     *)
(*                                                                          *)
(* "answers" is what the model and the data sources will say during the     *)
(* attempt:                                                                 *)
(*   [missing, definition, files]                                           *)
(* The data of the report is Analysis, its validation and repair            *)
(* ReportRules.                                                             *)
(***************************************************************************)
EXTENDS Analysis, ReportRules

CONSTANTS Requests,      \* the answers that may be met
          Stressed,      \* those under which the environment interferes
          MaxTrouble,    \* bound: failures and moves of the user
          MaxAttempts    \* bound: executions of the task

ASSUME StressedAssumption == Stressed \subseteq Requests

(* data_files is a list of tables *)
ASSUME FilesAssumption == \A a \in Requests : a.files \in Seq(File)

VARIABLES node,       \* the node being executed
          step,       \* where in it, or in the executor, the execution is
          answers,
          state,      \* the AgentState
          error,      \* the exception raised
          log,        \* history: the node and tool events of this attempt
          lost,       \* history: an event of this attempt failed to be written
          cancelled,  \* what check_cancelled finds
          late,       \* history: cancelled after the last check
          deleted,    \* the conversation is deleted
          result,     \* the analysis_results row
          attempt,
          trouble     \* failures and user moves so far

graphVars == <<node, step, state, error>>
logVars == <<log, lost>>
envVars == <<answers, cancelled, late, deleted, attempt>>
vars == <<graphVars, logVars, envVars, result, trouble>>

Nodes == {"load_context", "define_problem", "ask_clarification", "build_analysis_plan",
          "query_data", "validate_data", "analyze_with_pandas", "build_evidence",
          "determine_attribution", "build_report_ir", "validate_report", "render_report"}

ToolNodes == {"query_data", "analyze_with_pandas"}

(* steps of an execution that is under way, and how it ends *)
Working == {"enter", "body", "tool", "call", "ok", "bad", "leave", "except",
            "persist", "compress"}

Ends == {"waiting", "success", "raised"}

NoResult == [attempt |-> 0]

StartState == [reads |-> 0, evidence |-> <<>>, candidates |-> <<>>,
               report |-> [l \in Lists |-> <<>>], valid |-> FALSE, retries |-> 0,
               rendered |-> FALSE]

Init == /\ node = "load_context"
        /\ step = "enter"
        /\ answers \in Requests
        /\ state = StartState
        /\ error = "none"
        /\ log = <<>>
        /\ lost = FALSE
        /\ cancelled = FALSE
        /\ late = FALSE
        /\ deleted = FALSE
        /\ result = NoResult
        /\ attempt = 1
        /\ trouble = IF answers \in Stressed THEN 0 ELSE MaxTrouble

Trouble == trouble < MaxTrouble /\ trouble' = trouble + 1

NoTrouble == UNCHANGED trouble

Emit(what) == log' = Append(log, [node |-> node, what |-> what]) /\ UNCHANGED lost

NoEvent == UNCHANGED logVars

Goto(s) == step' = s /\ UNCHANGED node

Files == answers.files
Definition == answers.definition

------------------------------------------------------------------------------
(* wrap_node *)

(* the edges of the graph *)
Successor ==
  CASE node = "load_context" -> "define_problem"
    [] node = "define_problem" -> IF answers.missing THEN "ask_clarification"
                                                     ELSE "build_analysis_plan"
    [] node = "build_analysis_plan" -> "query_data"
    [] node = "query_data" -> "validate_data"
    [] node = "validate_data" -> "analyze_with_pandas"
    [] node = "analyze_with_pandas" -> "build_evidence"
    [] node = "build_evidence" -> "determine_attribution"
    [] node = "determine_attribution" -> "build_report_ir"
    [] node = "build_report_ir" -> "validate_report"
    [] node = "validate_report" -> IF state.valid THEN "render_report" ELSE "build_report_ir"

(* check_cancelled and the events before the try statement: what they raise *)
(* leaves the graph at once                                                  *)
Enter ==
  /\ step = "enter"
  /\ ~cancelled
  /\ LET started == Append(log, [node |-> node, what |-> "started"])
         retry == Append(log, [node |-> node, what |-> "retry"])
     IN  log' = IF node = "build_report_ir" /\ state.retries > 0
                THEN Append(retry, [node |-> node, what |-> "started"])
                ELSE started
  /\ Goto(IF node \in ToolNodes THEN "tool" ELSE "body")
  /\ NoTrouble
  /\ UNCHANGED <<state, error, lost, envVars, result>>

EnterCancelled ==
  /\ step = "enter"
  /\ cancelled
  /\ Goto("raised")
  /\ error' = "cancelled"
  /\ NoEvent
  /\ NoTrouble
  /\ UNCHANGED <<state, envVars, result>>

(* the node's update has been computed; check_cancelled; the "finished" event *)
(* Mutant: no check after the node. *)
Leave_NoCheck ==
  /\ step = "leave"
  /\ Emit("finished")
  /\ CASE node = "ask_clarification" -> Goto("waiting")
       [] node = "render_report"     -> Goto("persist")
       [] OTHER                      -> node' = Successor /\ step' = "enter"
  /\ NoTrouble
  /\ UNCHANGED <<state, error, envVars, result>>

Leave ==
  /\ step = "leave"
  /\ ~cancelled
  /\ Emit("finished")
  /\ CASE node = "ask_clarification" -> Goto("waiting")
       [] node = "render_report"     -> Goto("persist")
       [] OTHER                      -> node' = Successor /\ step' = "enter"
  /\ NoTrouble
  /\ UNCHANGED <<state, error, envVars, result>>

LeaveCancelled ==
  /\ step = "leave"
  /\ cancelled
  /\ Goto("except")
  /\ error' = "cancelled"
  /\ NoEvent
  /\ NoTrouble
  /\ UNCHANGED <<state, envVars, result>>

(* except: the "failed" event, and the exception leaves the graph *)
(* Mutant: only the failures the nodes know of are reported. *)
Except_AgentErrorsOnly ==
  /\ step = "except"
  /\ IF error \in {"agent", "invalid"} THEN Emit("failed") ELSE NoEvent
  /\ Goto("raised")
  /\ NoTrouble
  /\ UNCHANGED <<state, error, envVars, result>>

Except ==
  /\ step = "except"
  /\ Emit("failed")
  /\ Goto("raised")
  /\ NoTrouble
  /\ UNCHANGED <<state, error, envVars, result>>

(* An event that cannot be written raises: outside the try statement at once, *)
(* inside it into the except clause.                                          *)
EmitFails ==
  /\ Trouble
  /\ \/ step \in {"enter", "leave"} /\ ~cancelled /\ Goto("raised")
     \/ step = "except" /\ Goto("raised")
     \/ step = "tool" /\ ~cancelled /\ Goto("except")
     \/ step = "call" /\ Goto("except")
  /\ error' = "unexpected"
  /\ lost' = TRUE
  /\ UNCHANGED <<state, log, envVars, result>>

(* a node returns its update, or raises *)
Update(n, s) ==
  /\ step = "body"
  /\ node = n
  /\ state' = s
  /\ Goto("leave")
  /\ NoEvent
  /\ NoTrouble
  /\ UNCHANGED <<error, envVars, result>>

Refuse(n, e) ==
  /\ step = "body"
  /\ node = n
  /\ error' = e
  /\ Goto("except")
  /\ NoEvent
  /\ NoTrouble
  /\ UNCHANGED <<state, envVars, result>>

------------------------------------------------------------------------------
(* the nodes without tools *)

Unchanged(n) == Update(n, state)

LoadContext == Unchanged("load_context")

(* the model's services may raise *)
DefineProblem == Unchanged("define_problem")
AskClarification == Unchanged("ask_clarification")
BuildAnalysisPlan == Unchanged("build_analysis_plan")

ModelFails ==
  /\ Trouble
  /\ step = "body"
  /\ node \in {"define_problem", "ask_clarification", "build_analysis_plan"}
  /\ error' = "agent"
  /\ Goto("except")
  /\ NoEvent
  /\ UNCHANGED <<state, envVars, result>>

ValidateData == IF DataUsable(Files) /\ MetricFound(Files)
                THEN Unchanged("validate_data")
                ELSE Refuse("validate_data", "agent")

BuildEvidence == Update("build_evidence",
                        [state EXCEPT !.evidence = Evidence(Files, Definition)])

DetermineAttribution == Update("determine_attribution",
                               [state EXCEPT !.candidates = Conclusions(state.evidence)])

KeyMetrics ==
  LET ks == AnalyzedFiles(Files, Definition)
      values == [j \in DOMAIN ks |-> Total(Files[ks[j]], Scoped(Files[ks[j]], Definition))]
                  \o Concat(ks, LAMBDA k : ScenarioMetrics(Files[k], Definition))
  IN  [j \in DOMAIN values |-> [id |-> j, ok |-> values[j] # Null]]

Accepted(ids) == [j \in ids |-> [id |-> j, ok |-> TRUE]]

(* what is built from the data is accepted by its schema, but for a metric   *)
(* without a value; the charts are left out                                  *)
NewReport ==
  [l \in Lists |->
     CASE l = "key_metrics" -> KeyMetrics
       [] l = "evidence_list" ->
            [e \in DOMAIN state.evidence |->
               [id |-> e, ok |-> TRUE, quality |-> state.evidence[e].quality]]
       [] l = "attribution_conclusions" ->
            [c \in DOMAIN state.candidates |->
               [id |-> c, shape |-> TRUE, status |-> state.candidates[c].status,
                needed |-> state.candidates[c].needed, conf |-> state.candidates[c].conf,
                cites |-> state.candidates[c].cites]]
       [] l = "next_actions" -> Accepted(1..3)
       [] l = "visualizations" -> <<>>
       [] l = "source_files" -> Accepted(DOMAIN Files)]

BuildReportIR ==
  Update("build_report_ir",
         [state EXCEPT !.report = IF state.retries > 0 THEN Repair(state.report) ELSE NewReport,
                       !.valid = FALSE])

(* Mutant: a report is repaired as often as it takes. *)
ValidateReport_Unbounded ==
  IF Valid(state.report) THEN Update("validate_report", [state EXCEPT !.valid = TRUE])
  ELSE Update("validate_report", [state EXCEPT !.valid = FALSE, !.retries = 1])

ValidateReport ==
  IF Valid(state.report) THEN Update("validate_report", [state EXCEPT !.valid = TRUE])
  ELSE IF state.retries >= 1 THEN Refuse("validate_report", "invalid")
  ELSE Update("validate_report", [state EXCEPT !.valid = FALSE, !.retries = @ + 1])

(* the three files of the task are written over *)
RenderReport == Update("render_report", [state EXCEPT !.rendered = TRUE])

------------------------------------------------------------------------------
(* run_tool *)

StartTool ==
  /\ step = "tool"
  /\ ~cancelled
  /\ Emit("tool_start")
  /\ Goto("call")
  /\ NoTrouble
  /\ UNCHANGED <<state, error, envVars, result>>

(* the operation answers "ok" or not, and the "finish" event is written *)
ToolAnswers ==
  LET readable == Files[state.reads + 1].readable
      analyzed == /\ \A k \in DOMAIN Files : Files[k].readable
                  /\ AnalyzedFiles(Files, Definition) # <<>>
      ok == IF node = "query_data" THEN readable ELSE analyzed
  IN  /\ step = "call"
      /\ node = "analyze_with_pandas" => ~PandasRaises(Files, Definition)
      /\ Emit("tool_finish")
      /\ \/ /\ ok
            /\ Goto("ok")
            /\ NoTrouble
         \/ /\ ~ok
            /\ Goto("bad")
            /\ NoTrouble
         \/ /\ node = "query_data"
            /\ Goto("bad")
            /\ Trouble
      /\ UNCHANGED <<state, error, envVars, result>>

(* an operation that raises passes run_tool by: no "finish" event *)
ToolRaises ==
  /\ step = "call"
  /\ \/ /\ node = "analyze_with_pandas"
        /\ PandasRaises(Files, Definition)
        /\ NoTrouble
     \/ Trouble
  /\ error' = "unexpected"
  /\ Goto("except")
  /\ NoEvent
  /\ UNCHANGED <<state, envVars, result>>

(* the check before the tool and the one after it *)
ToolCancelled ==
  /\ step \in {"tool", "ok", "bad"}
  /\ cancelled
  /\ error' = "cancelled"
  /\ Goto("except")
  /\ NoEvent
  /\ NoTrouble
  /\ UNCHANGED <<state, envVars, result>>

ToolDone ==
  /\ ~cancelled
  /\ \/ /\ step = "ok"
        /\ node = "query_data"
        /\ state' = [state EXCEPT !.reads = @ + 1]
        /\ Goto(IF state.reads + 1 < Len(Files) THEN "tool" ELSE "leave")
        /\ UNCHANGED error
     \/ /\ step = "ok"
        /\ node = "analyze_with_pandas"
        /\ Goto("leave")
        /\ UNCHANGED <<state, error>>
     \/ /\ step = "bad"
        /\ Goto("except")
        /\ error' = "agent"
        /\ UNCHANGED state
  /\ NoEvent
  /\ NoTrouble
  /\ UNCHANGED <<envVars, result>>

------------------------------------------------------------------------------
(* LangGraphTaskExecutor.execute after the graph *)

(* Mutant: a later attempt's result replaces the one that exists. *)
Persist_Replaces ==
  /\ step = "persist"
  /\ ~deleted
  /\ result' = [attempt |-> attempt, report |-> state.report]
  /\ Goto("compress")
  /\ NoEvent
  /\ NoTrouble
  /\ UNCHANGED <<state, error, envVars>>

(* An existing result is returned as it is, even if the conversation has     *)
(* been deleted.                                                             *)
Persist ==
  /\ step = "persist"
  /\ \/ result # NoResult /\ UNCHANGED result
     \/ /\ result = NoResult
        /\ ~deleted
        /\ result' = [attempt |-> attempt, report |-> state.report]
  /\ Goto("compress")
  /\ NoEvent
  /\ NoTrouble
  /\ UNCHANGED <<state, error, envVars>>

PersistFails ==
  /\ step = "persist"
  /\ \/ result = NoResult /\ deleted /\ NoTrouble
     \/ Trouble
  /\ error' = "unexpected"
  /\ Goto("raised")
  /\ NoEvent
  /\ UNCHANGED <<state, envVars, result>>

(* whatever the compression of the context raises is only logged *)
Compress ==
  /\ step = "compress"
  /\ Goto("success")
  /\ NoEvent
  /\ NoTrouble
  /\ UNCHANGED <<state, error, envVars, result>>

------------------------------------------------------------------------------
(* the environment *)

UserCancels ==
  /\ Trouble
  /\ step \in Working
  /\ ~cancelled
  /\ cancelled' = TRUE
  /\ late' = (step \in {"persist", "compress"})
  /\ UNCHANGED <<graphVars, logVars, answers, deleted, attempt, result>>

UserDeletes ==
  /\ Trouble
  /\ ~deleted
  /\ deleted' = TRUE
  /\ UNCHANGED <<graphVars, logVars, answers, cancelled, late, attempt, result>>

(* The worker could not commit the success, or was cancelled too late for    *)
(* the executor; the task is failed with its result.                          *)
SuccessLost ==
  /\ Trouble
  /\ step = "success"
  /\ ~cancelled
  /\ step' = "raised"
  /\ error' = "unexpected"
  /\ UNCHANGED <<node, state, logVars, envVars, result>>

(* a clarification is submitted, or the failed task is retried *)
NextAttempt ==
  /\ Trouble
  /\ \/ step = "waiting"
     \/ step = "raised" /\ error # "cancelled"
  /\ attempt < MaxAttempts
  /\ attempt' = attempt + 1
  /\ answers' \in Stressed
  /\ node' = "load_context"
  /\ step' = "enter"
  /\ state' = StartState
  /\ error' = "none"
  /\ log' = <<>>
  /\ lost' = FALSE
  /\ cancelled' = FALSE
  /\ late' = FALSE
  /\ UNCHANGED <<deleted, result>>

Executor == \/ Enter \/ EnterCancelled \/ Leave \/ LeaveCancelled \/ Except
            \/ LoadContext \/ DefineProblem \/ AskClarification \/ BuildAnalysisPlan
            \/ ValidateData \/ BuildEvidence \/ DetermineAttribution \/ BuildReportIR
            \/ ValidateReport \/ RenderReport
            \/ StartTool \/ ToolAnswers \/ ToolRaises \/ ToolCancelled \/ ToolDone
            \/ Persist \/ PersistFails \/ Compress

Environment == EmitFails \/ ModelFails \/ UserCancels \/ UserDeletes \/ SuccessLost
                 \/ NextAttempt

(* Only an attempt that is over may stop: a step in Working is never the last. *)
Over == step \in Ends /\ UNCHANGED vars

Next == Executor \/ Environment \/ Over

Spec == Init /\ [][Next]_vars

------------------------------------------------------------------------------
(* Properties *)

(* Whatever happens in the graph, the executor keeps its contract: one result *)
(* at most, committed before the success it stands for, never replaced by a   *)
(* later attempt, and no attempt after a cancellation (executor.py:100-124,   *)
(* stage_five_result_service.py:47-51).                                       *)
Phase == CASE step \in Working -> "working"
           [] step = "raised" /\ error = "cancelled" -> "cancelled"
           [] OTHER -> step

EC == INSTANCE ExecutorContract WITH phase <- Phase, attempt <- attempt, published <- result.attempt

Contract == EC!Spec

(* An attempt is bounded: no node is started twice, except that the loop of  *)
(* build_report_ir and validate_report is taken at most once more             *)
(* (graph.py:84-88, validate_report.py:15).  As no step in Working is a        *)
(* deadlock, the attempt ends.                                                *)
Starts(n) == Cardinality({i \in DOMAIN log : log[i] = [node |-> n, what |-> "started"]})

AttemptBounded ==
  \A n \in Nodes :
    Starts(n) <= IF n \in {"build_report_ir", "validate_report"} THEN 2 ELSE 1

(* A report is given up only because nothing was left of one of its required  *)
(* lists: every other defect is repaired (report_validator.py:23-69).         *)
RepairedUnlessEmpty ==
  error = "invalid" => \E l \in Required : DOMAIN state.report[l] = {}

(* a number in every cell of the metric, a date in every row *)
Complete(f) == \A i \in Rows(f) : /\ f.rows[i].value \notin {Null, Inf, Text}
                                 /\ f.rows[i].date # Null

SumOf(f, m) == Sum([i \in {j \in Rows(f) : f.rows[j].date \div 100 = m} |-> f.rows[i].value])

(* A conclusion that a committed report calls confirmed rests on evidence     *)
(* (README.md:226), all of it from files without repeated rows and without    *)
(* empty cells in the metric, some row of which has a date.  Cells of text    *)
(* and rows without a readable date do not stand in the way; the change named *)
(* is compared with the file's sums only where there are none of them.        *)
ConfirmedIsBacked ==
  result.attempt = attempt =>
    LET conclusions == result.report["attribution_conclusions"] IN
    \A c \in DOMAIN conclusions : conclusions[c].status = "confirmed" =>
       /\ conclusions[c].cites # {}
       /\ \A e \in conclusions[c].cites :
            LET item == state.evidence[e]
                f == Files[item.file]
                last == Max(TrendMonths(f))
                base == IF Definition.baseline = "previous_period"
                        THEN Max(TrendMonths(f) \ {last}) ELSE last - 12
            IN  /\ \A i, j \in Rows(f) : f.rows[i] = f.rows[j] => i = j
                /\ \A i \in Rows(f) : f.rows[i].value # Null
                /\ Dated(f) # {}
                /\ item.kind = "comparison" /\ Complete(f) =>
                   item.change = SumOf(f, last) - SumOf(f, base)

(* The changes of the dimension's values, when they are computed for the      *)
(* months of the headline comparison, add up to it: the report's breakdown    *)
(* does not contradict its headline (pandas_analyze.py:352-385, 421-506).     *)
BreakdownAddsUp ==
  result.attempt = attempt =>
    \A k \in DOMAIN Files :
      LET f == Files[k]
          m == TargetMonth(Definition)
          changes == Changes(f, Definition)
      IN  /\ Analyzed(f, Definition)
          /\ HasComparison(f, Definition)
          /\ HasChanges(f, Definition)
          /\ m = Max(TrendMonths(f))
          /\ \/ Definition.baseline = "year_over_year"
             \/ m - 1 \in TrendMonths(f)
          => Sum([j \in DOMAIN changes |-> changes[j].change])
               = Comparison(f, Definition).change

(* which event may follow which in the log of an attempt *)
Follows(a, b) ==
  CASE b.what = "started" -> \/ a.what = "finished" /\ a.node # b.node
                             \/ a.what = "retry" /\ a.node = b.node
    [] b.what = "retry" -> a.what = "finished" /\ a.node = "validate_report"
    [] b.what = "tool_finish" -> a.what = "tool_start" /\ a.node = b.node
    [] b.what = "failed" -> /\ a.what \in {"started", "tool_start", "tool_finish"}
                            /\ a.what = "tool_start" => error = "unexpected"
                            /\ a.node = b.node
    [] OTHER -> a.what \in {"started", "tool_finish"} /\ a.node = b.node

(* The timeline of an attempt is well-formed: events are nested, every start  *)
(* has its end when the attempt is over, unless the database refused an event *)
(* or the tool raised (runtime.py:36-101; README.md:181).                     *)
EventsPaired ==
  lost \/ /\ \A i \in 2..Len(log) : Follows(log[i - 1], log[i])
          /\ step \in Ends /\ log # <<>> => log[Len(log)].what \in {"finished", "failed"}

(* A cancellation that precedes the last check keeps the report from being    *)
(* committed, whichever node or tool was at work when it came                 *)
(* (runtime.py:27, 40, 81, 100).                                              *)
CancelStopsReport == [][result' # result => ~cancelled \/ late]_vars

(* pandas_analyze computes "the metrics, the monthly trend, the baseline      *)
(* comparison ... within the time range" (README.md:178): the month whose     *)
(* comparison the report gives is one of the months asked for.                *)
ComparisonInScope ==
  result.attempt = attempt =>
    \A k \in DOMAIN Files :
      LET f == Files[k] IN
      Analyzed(f, Definition) /\ ScopeVerified(f, Definition) /\ HasComparison(f, Definition)
        => Comparison(f, Definition).months[1] \in Definition.range.months

===============================================================================
