# Formal model of Insight-Agent

TLA+ modules for the business-analysis assistant in this repository: a FastAPI
backend with MySQL and Redis, worker processes that run a LangGraph agent, a
separate data agent that turns questions into SQL, and a Vue client. The modules
are translated from the code; TLC checks them on small instances and TLAPS
proves the theorems listed below for every value of the constants. All paths
are relative to the repository; `services/`, `workers/`, `api/`, `agent/` ...
are under `src/backend/app/`, `views/`, `stores/`, `composables/` under
`src/frontend/src/`.

## 1. Inventory

| Component | State it keeps | Operations | What makes it correct |
|---|---|---|---|
| Task service (`services/task_service.py`) | `analysis_tasks` rows: status, `cancel_requested`, error, retry count; `task_events` | create_from_message, cancel, submit_clarification, retry, transition | status moves along `ALLOWED_TRANSITIONS`; one active task per conversation; a cancel is honoured; success has a result; the event log ends in the row's status |
| Task queue (`workers/task_queue.py`) | ready list, processing list, enqueue markers with a time to live | enqueue, reserve, acknowledge, release | a queued task is delivered in the end; a second delivery does no harm |
| Cancellation marker (`workers/cancellation.py`) | one Redis key per task | request, clear, is_requested | a lost or left-over key neither loses nor invents a cancellation |
| Worker (`workers/task_worker.py`) | none of its own, the task it holds | recover_queued_tasks, process_once, _process | one executor per task; a running task has one or was lost with it |
| Agent graph (`agent/graph.py`, `agent/nodes/`) | the graph's state, node events, result rows | twelve nodes, two tools, routing, one repair of the report, the committed result | one result per task, before its success, never replaced; a cancelled attempt publishes nothing; node events come in pairs; the repair is bounded |
| Events (`services/event_service.py`, `api/websocket.py`) | numbered events, Redis channel, sockets | append, publish, subscribe, replay, resume | the client ends up with the newest event; a message's text is added once to what is shown |
| WebSocket token (`services/websocket_token_service.py`) | Redis key and audit row | issue, consume | a token opens one connection, of its conversation, in its life |
| Context and summaries (`services/context_summary_service.py`, `agent/nodes/load_context.py`) | messages, `context_summaries` | compress_if_needed, load_context | later contexts start from later summaries; no message falls between summary and context; the newest are given; texts keep their budget |
| Report rules (`services/report_validator.py`, `schemas/report.py`, `agent/nodes/build_evidence.py`, `determine_attribution.py`) | the report under construction | validate, repair | a repaired report is valid unless a required list is left empty; limited evidence never makes a conclusion `confirmed` |
| Data agent and client (`data_agent/`, `agent/tools/db_query.py`) | none | generate, check, execute, regenerate; retry | nothing unchecked is executed; the answer fits the question; comparison periods are adjacent months; the call ends |
| Conversations, attachments (`services/conversation_service.py`, `attachment_service.py`) | conversations, attachment rows and files | create, update, delete, list; upload, delete, bind to a message | a message's attachments keep row and file; nothing is added to a deleted conversation; pages are complete |
| Login and sessions (`services/oidc_service.py`, `session_service.py`) | authorization states, sessions | start, callback, logout, check and extend | a state leads to one session, of the user who authenticated; a logout is final |
| Pandas analysis (`agent/tools/pandas_analyze.py`) | none | scope, totals, trend, comparison, breakdown, inventory risks | the parts of a change add up to it; null and infinite sums reach no conclusion as numbers |
| Web client (`views/WorkbenchView.vue`, `stores/`, `composables/useWebSocket.ts`) | stores, one socket, timers | switch conversation, connect, reconnect, apply events, reload | the page shows the conversation in the address bar and the task's status |

How they interact. The API process commits to MySQL first and then issues Redis
commands (enqueue, cancellation marker, publish), so a failure in between leaves
the two apart; the workers' recovery, which lists rows and enqueues them again,
is what brings them together. Workers and API processes share the rows (under
row locks), the Redis lists and keys (one command at a time) and the event log.
Events reach the client twice, through Pub/Sub and through replay of the table.
The client's store is written by events, by HTTP answers and by the route.

What is hard to test here: deliveries that happen twice or not at all; crashes
and Redis errors between two commands; a cancel that meets a finishing worker; a
list read in one transaction and acted on in the next; ORM objects older than
the lock they are decided on under; replay that overlaps live delivery; answers that
arrive after the user has moved on. `PROJECT.json` lists each hazard with its line
and the properties aimed at it.

## 2. Modules and their correspondence to the code

| Module | Stands for | State |
|---|---|---|
| `TaskStatus` | the status sets and `ALLOWED_TRANSITIONS` | none |
| `TaskService` | the committed part of each operation of `TaskService`; the agent's writes | `status`, `cancelReq`, `err`, `result`, `requeues`, `log` |
| `TaskQueue` | one operator per Redis command of the queue and the marker; key expiry | `ready`, `processing`, `marker`, `cancelKey` |
| `TaskPipeline` | composes the two: callers, workers, failures, crashes, restarts | `pc`, `arg`, `batch`, `outcome` per process |
| `TaskLifecycle` | abstract: what a user and the worker that claimed a task may do to it | `status`, `holders` |
| `TaskSession` | extends `TaskPipeline` with the WebSocket's cancel and clarification: one ORM session per connection, whose object of the latest task is as old as the connection's last commit | `newest`, `latest`, `held` |
| `EventStream` | event log, publication, subscription, replay, resume, the socket, the client's deduplication, its reloads of the stored messages (the task store is in `Workbench`) | `log`, `sub`, `replay`, `wire`, `lastSeq`, `text` ... |
| `Workbench` | activations of conversations, the stores, the socket's generations, the events it delivers and the requests they start | `acts`, `messages`, `task`, `loads`, `open`, `tokens` ... |
| `ContextSummary` | messages, summaries, the text budget, what load_context gives of each message | `messages`, `summaries`, `context`, `view` |
| `Analysis` | `validate_data`, `analyze_with_pandas`, `build_evidence`, `determine_attribution` as operators on tables of rows | none |
| `ReportRules` | the schema `ReportIR` as the predicate `Valid`, `ReportValidator.repair` as the operator `Repair` | none |
| `AgentGraph` | the executor: every node wrapped by `AgentRuntime`, tool calls, routing, the committed result, the environment; uses `Analysis` and `ReportRules` | `node`, `step`, `state`, `error`, `log`, `result`, `attempt` ... |
| `ExecutorContract` | abstract: how an attempt may end and what it may publish | `phase`, `attempt`, `published` |
| `DataAgent` | one `db_query` call: the client's posts, the server's handlers, the statements and their periods | `situation`, `requests`, `client`, `accepted` |
| `Conversations` | transactions on one conversation, its messages and attachments, files, a reader of pages | `status`, `messages`, `row`, `files`, `request`, `reader` ... |
| `LoginSession` | authorization request and callback, sessions in Redis, the check of each request, a clock | `flow`, `callback`, `session`, `checking` ... |
| `WebsocketToken` | extends `LoginSession`: a checked request is issued a token, a connection consumes it | `token`, `pending`, `opened` ... |
| `TaskPipelineProofs`, `WorkbenchProofs`, `EventStreamProofs`, `ConversationsProofs`, `WebsocketTokenProofs`, `DataAgentProofs`, `AgentGraphProofs`, `ContextSummaryProofs` | theorems | |
| `MC...` | constants and symmetry for TLC | |

Conventions. A process's `pc` names its next step; one action is one database
transaction or one Redis command, which is the grain at which other processes can
come in between. An operation that locks its row before reading it and commits
once is one step. A refusal (404, 409) changes nothing and is no action. Failures
are actions with the guard `Fault`, which counts them. Variables marked
`history` record what happened and guard nothing. Operators named `X_Variant`
after a "Mutant" comment are the faults each property is tried against; no
specification uses them.

Data. A task is its idempotency key. A processing list is a bag, since only `LREM` reads
it. The event log keeps in `TaskService` two facts (the status of the last status
event, whether "done" is last) and in `EventStream` each event's number and whether it is a
step, the text of a message (`delta`) or "done"; there `text` counts how often the message shown contains its
text. Messages in `ContextSummary` are lengths. Stores in `Workbench` are the
conversations their content came from. For `TaskPipeline` the executor's work is any
number of node events between cancellation checks, ended by an outcome or an
exception; `AgentGraph` is what happens inside.

The data of a report. A table has a date, one dimension, the requested metric and a second number per
row; months are counted without gaps over the years. `Null`, `Inf` and `Text` are cells
that are empty, infinite, or not a number: the first two reach the sums, text
disappears with the empty cells in `to_numeric`. An item of a report list is its id, whether its own
schema accepts it and, where a rule reads them, its quality, status, citations and
confidence. A list is a function from positions, so that dropping items keeps
the others where they are, which is what the order "first of an id" needs. Left out:
charts, anomalies, structure shares, impact levels, the trend's tail, the cap of
100 risks, all texts, and time ranges that `apply_time_scope` does not support (they are `other`).

A statement of `DataAgent` is what the checks tell apart: passes the read-only check,
fits the objective, is the service's own (and then which months it compares). The
question and the plan each name a month or not; `padded` months are those written with a leading
zero, which the regular expressions do not see.

The database is MySQL at its default isolation: a transaction's unlocked reads come from the
snapshot of the first one, locking reads see the newest row. `Conversations`
keeps of a snapshot what is used later (`newest`, `read`). Operations whose reads all follow their
lock are one step. So is an operation of `TaskSession`, whose unlocked `require_owned` comes before the lock:
every transaction that changes a task appends an event, so if one commits between the two, the number
`next_event_seq` reads from the snapshot is taken, the insert violates `uq_task_events_task_seq`, the transaction
is rolled back and the connection is lost (`WsDisconnect`). The HTTP endpoints open their snapshot even earlier
(`get_current_user`), with the same outcome: the request fails and changes nothing.

## 3. Runs

| Run | What is asked | Outcome |
|---|---|---|
| `task_pipeline` | 1 task, 2 workers, 1 caller, 1 requeue, 1 failure or crash: all safety properties of the pipeline, and `Lifecycle`, i.e. `TaskPipeline` implements `TaskLifecycle` | holds |
| `task_liveness` | 1 worker, 2 failures: `QueuedIsTaken`, `RunningEnds` | holds |
| `task_parallel` | one active task per conversation | violated: finding 1 |
| `session_transitions` | statuses move along the table | violated: finding 2 |
| `event_stream` | `CaughtUp`, `TextAtMostTwice`, `EventuallySeen`: 2 emitters, 3 events, replay limit 2, 1 failure or further visit | holds |
| `workbench` | `MessagesAreTheRoutes`, `OneSocket`: 4 route changes, 1 failure | holds |
| `context_summary` | `ContextsGoForward`, `SummaryFits`, `RecentGiven` | holds |
| `agent_graph` | `RepairedUnlessEmpty`, `ConfirmedIsBacked`, `BreakdownAddsUp`, `EventsPaired`, `AttemptBounded`, `CancelStopsReport` and `Contract`, i.e. `AgentGraph` implements `ExecutorContract` | holds |
| `analysis_period` | a report compares only months of its range | violated: finding 3 |
| `data_agent` | `OnlySafeExecuted`, `AnswerFits`, `PeriodsCompared`, `ToolEnds` | holds |
| `conversations` | `BoundAttachmentsKept`, `NewNumberIsFree`, `PagesComplete`, `NothingInDeleted` | holds |
| `access` | `OneLoginPerState`, `SessionOfItsFlow`, `LoggedOutStaysOut`, `TokenOpensOnce` | holds |

What the passing runs show of the task pipeline: two deliveries of a task meet in
the claim and one is dropped (`OneExecutor`); only the executor, or the
clarification timeout, ends a running task (`ExecutorOwnsTask`); a running task
without an executor was lost in a crash or a failed handler (`RunningHasExecutor`);
a success has a result and no old error (`SuccessIsComplete`); a cancel
accepted before the worker's last check prevents success (`CancelNotLost`) and no
task is cancelled unasked (`CancelledWasAsked`); the replayed log ends with the row's
status and "done" (`LogMatchesRow`).

These hold for the HTTP operations and the workers, which decide on the row they have
locked. A WebSocket connection, which the client uses whenever it is open, does not always: its endpoint keeps the object
of the latest task, and once an operation of the connection has committed, later ones
decide on that object's attributes (a refusal expires them). `TaskSession` is the same system with such
connections. Statuses move against the table there (`session_transitions`): after a clarification over the connection
the object stays `queued`, and a cancel is taken after the task failed or succeeded. With the instance of
that run `ExecutorOwnsTask` and `LogMatchesRow` fail for the same reason; the other invariants of
the pipeline did not, but they are not claimed for `TaskSession`. All of them are guaranteed once the locking read refreshes the object
(`populate_existing`).

What the others show. Inside the executor, whatever fails, is cancelled, deleted or
retried: a task has one result, stored before its success and never replaced
(`Contract`); a cancellation that came before the last check keeps the result from being stored
(`CancelStopsReport`); each node event that starts is closed unless an event could
not be written, also for nodes and tools that raise (`EventsPaired`; a tool that raises leaves its own
start open, which the property names); no node runs a third time (`AttemptBounded`). For
every table: the repair of a report gives a valid one unless a required list is empty
(`RepairedUnlessEmpty`), a confirmed conclusion rests on evidence that is all from files
without repeated rows, without empty cells of the metric and with some dated row, and if moreover every cell of the
metric is a number and every row is dated, the change it names is the one between the file's sums, to the previous
period or to the year before (`ConfirmedIsBacked`: a text cell or an unreadable date does not make a file less than verified, so the change may
then be of fewer rows than the file has), and the changes by dimension add up to the headline's
(`BreakdownAddsUp`). On the page, late answers and reconnects of an earlier
route never bring another conversation's messages; only an outdated activation that waits for its task and then
connects does (`MessagesAreTheRoutes` names it). Compressions that overlap may leave two summaries of one stretch, or commit
the shorter one last; a context still never falls back behind an earlier one (`ContextsGoForward`), and the newest messages
are in it, each cut to `ContentLimit` characters (`RecentGiven`). However replays, reconnects and live events
overlap, a served client ends with the newest event (`CaughtUp`) and adds a message's text once to what was stored (`TextAtMostTwice`).
In the data agent all four ways a statement can reach the
database lead through the read-only check, and the rows of a statement the model wrote fit the objective. In
`Conversations` the lock of a deletion and the update of a submitted message
decide between them which comes first; messages number without gaps although answers and
results compute their number before they lock (they fail when it is taken, the new message of a user never does). In `access` a
`GETDEL` decides between two callbacks or two connections, and the row's expiry between the
token and its longer-lived key.

### Bounds

`MaxRequeue` bounds retries and clarifications of a task (1 is enough for a new
attempt to meet leftovers of the one before it). `MaxCopies` bounds the copies of a task in
the ready list at which its marker may still expire: with 2 the same task is delivered up to three times, with 0
the marker expires only once the task is out of the list. `MaxFaults`
counts Redis errors, database errors and crashes together; one of them at every
point is the case the code's handlers are written for, two are used where the property is
about coming back. Two workers are needed for double execution, one task for
everything that concerns one row; two tasks share one conversation where operations on
different tasks meet. `MaxEvents` 3 with
`ReplayLimit` 2 makes a batch of two, an overlap and a cut-off replay possible.
`MaxFaults` of `EventStream` also counts
visits: its one fault is a lost publication, a lost connection or a second visit, at every point.
`MaxActivations` 4 allows a conversation to be left and come back to with
both activations waiting, and 1 failure a reconnect or a failed request among them. In `ContextSummary` the limits keep the proportions of their
defaults (retain : context : threshold = 10 : 20 : 30, characters
12000 : 12000 : 4000, the last also for `ContentLimit`) and 7 messages, shorter or longer than `ContentLimit`, give two summaries.
`agent_graph` takes every table of up to four out of eleven rows (two dimensions, months 1, 2, 13 and 14,
so that both a month and a year lie between neighbours; a missing date; an empty, an infinite and a text cell) under six
definitions, and pairs of tables; the data decides the whole execution, so
failures, cancellations, deletion and retries (`MaxTrouble` 3, `MaxAttempts` 3) are tried with the four `Stressed`
requests only, which take every route. The list limits (5, 20, 3, ...) are 1 or 2, so that they cut. `data_agent` allows two posts instead of three: a third meets nothing that the second does not
(requests do not share state). `conversations` has three concurrent requests, two attachments, three
messages and pages of two. `access` has two flows, callbacks and subjects, one request at a time,
lifetimes of 1 and 2 ticks of 4.
`CHECK_DEADLOCK FALSE` stands where a bound, not the program, ends the behaviour
(events, messages, route changes, logins run out); the pipeline, the graph and the data agent are checked for
deadlock. In the last two `Over` stutters once an attempt has ended, so a deadlock
would be an execution that stops in the middle.
Symmetry is used in safety runs only.

### Fairness

`TaskPipeline!FairSpec`: weak fairness of a worker's own next step, because
`run_forever` loops and `WorkerStart` stands for the process supervisor; strong
fairness of `ListExpired` and `Reserve`, because the loop returns to both and neither can
starve the other (recovery runs every iteration, the reserve blocks for a moment);
weak fairness of marker expiry, because Redis expires keys. Nothing is assumed of users and
API processes; failures need no assumption, being bounded. An
executor's run is assumed to end (`ExecReturn` is part of the worker's step): model and
tool calls have timeouts. `EventStream!FairSpec`: emitters publish what
they have committed, the endpoint and the client handle what they have received,
the client connects again after every loss (`scheduleReconnect`). No emitter is
forced to emit, and no reload of the task is forced to be answered. `DataAgent!Spec`: weak fairness of
the client's coroutine (its timeout is one of its steps) and of each handler of the server. `AgentGraph` states no fairness: that an attempt ends follows from
`AttemptBounded` and the absence of deadlock.

## 4. Theorems

Proved with TLAPS, from the named assumptions on the constants only (processes
of two kinds are distinct, `NoTask` is no task, bounds are natural numbers).

* `TaskPipelineProofs!TypeCorrect`: `TypeOK` is inductive. It carries two facts beyond
  types: a process past its first step has a task, and no processing count is negative.
* `TaskPipelineProofs`: `NoDoubleExecution` (`OneExecutor`), `ExecutorsOwnTheirTasks`
  (`ExecutorOwnsTask`), `RunningTasksAreOwned` (`RunningHasExecutor`), all from
  one inductive invariant, `OwnershipInvariant`. `OneExecutor` is not inductive:
  that a claim finds nobody executing needs that an executed task is
  never `queued`, which is `ExecutorOwnsTask`, whose exception (a task that timed out under
  its executor) is stable only because a cancelled task is never queued again. One lemma per
  action says which tasks' status and executors it touches (`StepKinds`); the invariant and the
  refinement are both proved from that classification.
* `TaskPipelineProofs!PipelineImplementsLifecycle`: every step of `TaskPipeline` is a
  step of `TaskLifecycle` or a stutter, with `holders` mapped to the workers that execute a task. The
  invariant above is used for the steps that settle or drop a task.
* `WorkbenchProofs`: `MessagesFollowTheRoute` and `AtMostOneSocket`. The socket
  property needs three facts about generations: no token request is newer than the counter, at most one is
  current, and none is current while a socket is open. The messages property needs to know what can still deliver
events: while no outdated activation has connected, the open socket, the current connect call and the reconnect timer
are the route's (`FollowsRoute`); an activation belongs to the route while it is the last.
* `EventStreamProofs`: `ClientCaughtUp` (`CaughtUp`), for any
  numbers of emitters, events and failures and any replay limit. The invariant says where an event can be: while the
  connection is served and nothing was missed, every committed event the client has not
  reached is in an outbox, the subscription, the replay or on the wire (`NoneLost`), and nothing
  uncommitted is anywhere (`Committed`). It holds because the endpoint subscribes before it reads the
  table: the order of `Subscribe` and `ReplayLatest` is what `PublishKeeps` and `ReplayLatestKeeps` use. `TextAddedOnce`
  (`TextAtMostTwice`) needs that a task has one `delta` (`OneDelta`) and that a text added in this visit is of an event not beyond the
  newest (`Received`).

* rows: `SuccessHasResult`, `QueuedIsNotCancelled` and `LogFollowsRow` are the parts of
  `RowInvariant`, which adds that an error code goes with `failed` or `cancelled` only. It rests on ownership:
  a node event says "running" and reopens the log, which is right only because whoever writes it executes
  a task that is running or timed out.
* cancellation: `CancelRequestsAreHonoured` (`CancelNotLost`) and `OnlyAskedIsCancelled`
  (`CancelledWasAsked`). `CancelInv` says where a request can be (row, key, a caller about to set the key, a worker about
  to cancel) and that each was asked for, and that a worker past its last check has no request on its row that is not `late`.
* `ConversationsProofs`: `AttachmentsAreKept`, `NumberIsFree`, `DeletedIsClosed`. The invariant: messages are
  numbered without a gap (so the highest number is their count); one request at most is adding a user's message, and
  the number it has read is still the highest; an upload, a deletion and the removal of a file have
  their attachment to themselves, so a row a message refers to is neither pending nor being removed.
* `WebsocketTokenProofs`: `LogoutIsFinal`, `StateIsUsedOnce`, `SessionIsOfItsFlow`, `TokenIsUsedOnce`. `AccessIndInv` covers login
  and token together: a callback past its `GETDEL` has consumed its state and every other finds it gone, a session
  carries the subject of its callback's flow, a request is issued one token, and who opened a connection has consumed its row.
* `DataAgentProofs`: `ExecutedIsSafe` and `TakenRowsFit`. Per request, the statement has passed the checks that come
  before the place it is at (`Checked`), also after a regeneration and for the statements of the service itself.
* `AgentGraphProofs`: `RepairIsValid` and `RepairClaimsNoMore`, for reports of any size. What the runs check of small
  reports (`agent_graph`) holds of the operators whatever the model wrote.
* `AgentGraphProofs`, the executor. `Inv` relates the place in the graph to what is recorded: the report is built again
  at most once and only after it was refused, a cancellation at `persist` or later came after the last check, and no success is without
  a result. From it follow `CancellationRespected` (`CancelStopsReport`) and `ContractKept` (`Contract`), the refinement
  of `ExecutorContract` action by action. `TimelineInv` says which start event is still
  open at each step (`TimelinePaired`, of `EventsPaired`). `StartsInv` counts how often each node may have been entered from
  the edges of the graph (`AttemptIsBounded`, of `AttemptBounded`). `RefusalInv` follows the model's report from the draft through
  the repair, whose result `RepairOfShaped` describes (`RefusedOnlyWhenEmpty`, of `RepairedUnlessEmpty`; it needs
  `FilesAssumption`: the data files are a list of tables).
* `AgentGraphProofs`, the data, for tables of any size. `ConfirmedBacked` (`ConfirmedIsBacked`, for both baselines): `EvidenceInv` says that each item of
  evidence names a file, its quality and, for a comparison, its change (`EvidenceIsHonest`), and that the report's list of evidence is a part
  of it; `RenderedInv` that only a valid report is rendered; `CommittedInv` that what is committed in an attempt is what
  that attempt rendered. A retry that finds the result of an earlier attempt is outside the property. `BreakdownsAddUp` (`BreakdownAddsUp`):
  an attempt past `analyze_with_pandas` has finite totals (`AnalyzedInv`), and then the sum over the listed dimension
  values is the difference of two sums taken class by class (`SumByClass`, `SumDifference`, `SumReindexed`).
  `Sum` is a fold and `Concat` a recursive function of the community modules; that each has a solution, and what it
  holds, is proved by induction over subsets and lengths from the least element of a well-founded order. Besides `FilesAssumption`
  the two theorems need `NullAssumption` (no value is not a number) and `CitedAssumption` (the list limits
  are natural numbers). Values are integers: rounding of floating-point sums is not modelled.
* `ContextSummaryProofs`: `GoForward` (`ContextsGoForward`), `Fits` (`SummaryFits`), `RecentMessagesGiven` (`RecentGiven`). The
  order of contexts follows from what backs them: no context starts after more messages than
  some summary of the table covers (`ContextsBacked`), none of which is removed, and `load_context` takes a summary of the most messages. What a run has read stays true of the
  messages it counts (`ViewsSound`), so no insert, however late, covers the newest `Retain`. The summary lengths are
  sums over a fold; the module proves by well-founded induction over subsets that such a sum exists and unfolds, and from
  that what a merged summary may weigh.
* `WorkbenchProofs!PageTypeCorrect`: `TypeOK` with every request, activation and generation in range.
* `ConversationsProofs!PagesAreComplete`: what a reader has collected, with what its next page begins at,
  is everything that was there when it began; `Below` is stated as a ranking, so that the prover can see it.
* `DataAgentProofs!ComparedPeriods`: the two periods of every statement the service itself writes are whole adjoining
  months, also over a turn of the year; the current one is the month the user names, with the two exceptions of section 5, for which
  it says what is compared instead (`MonthsAssumption`: months are numbered).

Only model-checked: liveness (`QueuedIsTaken`, `RunningEnds`, `EventuallySeen`, `ToolEnds`: fairness and ENABLED are
beyond the prover), and the type invariants of the smaller modules beyond the types their
proofs need.

## 5. Findings

1. **Two active tasks** (`task_parallel`): `retry` and `submit_clarification`
   do not look at the conversation's other tasks, as `create_from_message` does.
2. **Status of an old object under the lock** (`session_transitions`): a WebSocket connection keeps the latest task's
   object (`api/websocket.py:186`) in its one ORM session, and a commit does not expire it. After a clarification over the connection, a later
   cancel locks the row but decides on `queued` and writes `cancelled` over `failed` or `success`.
3. **Comparison outside the range** (`analysis_period`): `pandas_analyze` computes trend and
   comparison from the whole file, so a report about February may be headed by the change of a later month.

Where the code is known to do otherwise than a document says, without a run of its own: the models do what the code does, and the
property named with each says what remains true there.

* The text of the last answer appears twice: opening a conversation empties the event numbers (`stores/chat.ts:155`) and loads the stored
  messages, and the first replay appends the text from its `message_delta` again (`stores/chat.ts:134`); README.md:166 promises
  that duplicate events are removed (`TextAtMostTwice`).
* Another conversation's task stays on the page: an activation that waits for `getTask` does not compare its version
  afterwards (`views/WorkbenchView.vue:45`); its answer fills the task store of the next conversation, and it connects its own.
  README.md:240 promises that a switch restores the conversation's own task and result (`MessagesAreTheRoutes`, of the messages only).
* Messages are in neither summary nor context: a context loads 20, a summary is made of 30 or of many
  characters, and only after a success (`agent/nodes/load_context.py:39`). README.md:235 promises the latest summary and
  the uncovered messages (`RecentGiven`).
* The fallback of the controlled statement parses the whole objective, which quotes the plan, so a month the user
  names without a year gives way to the plan's (`data_agent/service.py:469, 507, 557`); README.md:219-220 and the comment at `data_agent/service.py:196`
  say that the user's wording decides. A month with a leading zero is not recognised and becomes the current one (`PeriodsCompared`).

Behaviour met while modelling that no document speaks against, so no run refutes it; the
properties name each as their exception, or the models contain it:

* A crash of a worker leaves its task `running` for good, recovery lists queued tasks only
  (`orphaned` in `RunningHasExecutor` and `RunningEnds`).
* Recovery cancels what it listed as expired earlier; a task clarified since is cancelled while
  queued or running (the exception of `ExecutorOwnsTask`).
* A live event that overtakes the replay, or another process's event, makes the client drop
  the older ones, with whatever text they carry; a replay cut off at `task_event_replay_limit` likewise (`CaughtUp` speaks of
  the newest event only, and names the cut-off).
* A late answer of `getTask` overwrites the status of newer events.
* The lists of conversations page by `updated_at`, which changes between pages.
* An update of a conversation that read it before its deletion revives it (`CommitUpdate`).
* With two tasks in one conversation, an answer to a question and a result may compute the same message number;
  the later one fails on the unique key, a result with its whole task (`CommitAdd`).
* A commit of an upload whose answer is lost leaves a row without a file (`EndUpload`); the client never learns its id.
* A tool that raises leaves its start event without an end. A cancellation inside a node is
  logged as the node's failure, and if that event cannot be written, the task ends as failed.
* A retry after a lost success writes the three report files again and then returns the stored
  result, whose checksums are those of the first files.
* Data files with text cells or unreadable dates count as verified (the second part of `ConfirmedIsBacked` leaves them out).
* A task cancelled or clarified while a WebSocket or HTTP request is between its first read and its insert makes
  that request fail on the event's number; the WebSocket is closed by it.
* Over a WebSocket, a repeated `client_msg_id` of the latest task returns it without ending the transaction, which keeps the
  conversation locked until the connection's next operation (not modelled). A cancel that follows an HTTP retry over a
  connection whose object is already `cancel_requested` changes no attribute and leaves the request to the Redis key.
* Session and token are checked when a WebSocket is opened, not again: a logout or a deleted
  conversation leaves it open.

## 6. Not modelled, and the plan

Not modelled for good: pandas' own arithmetic beyond sums, SQL parsing and prompt texts, rendering,
log redaction, HTTP plumbing, settings (values are constants), Vue components, operations that only read.

Next:

1. `TaskPipeline` with `AgentGraph` as its executor, i.e. `ExecNode`, `ExecReturn` and `ExecRaise` shown to be what
   `ExecutorContract` allows.
2. The sidebar's list of conversations and its pages.

## 7. Running

In this directory, with the TLA+ tools and community modules:

    tlc -workers 2 -config task_pipeline.cfg MCTaskPipeline.tla
    tlapm TaskPipelineProofs.tla

`PROJECT.json` pairs every configuration with its module, its properties and the expected outcome,
and maps every definition to the lines it stands for.
