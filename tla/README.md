# HostTraceAI: TLA+ models, checks and proofs

HostTraceAI runs language-model agents that call tools. Its core is a Go server
(`internal/`) in which many goroutines meet: HTTP handlers that run an agent for
minutes or hours, tool calls that wait for a human's approval, workers that run
tools, users who stop or interrupt runs, sweeps and reconcilers on tickers. This
directory models that core, checks it with TLC and proves theorems about it with
TLAPS.

## The system

| component | state | operations | hard because |
|---|---|---|---|
| Approval gate (`handler/hitl*.go`, `multiagent/hitl_middleware.go`) | rows of `hitl_interrupts` and `hitl_conversation_configs`; the maps `runtime`, `pending`, `approvedExec`; one channel per interrupt | intercept, insert, register, wait, decide, dismiss, time out, audit, track, record the result, restart | three places hold one approval and are updated one at a time; row updates ignore their errors |
| Running tasks (`handler/task_manager.go` and the handlers that use it) | `tasks` by conversation, `completedTasks`, per task: status, cancel function, hooks, running tool | StartTask, BindTaskCancel, bind and unbind hooks, CancelTask, UpdateTaskStatus, FinishTask, sweep | every method locks by itself and finds the task by conversation id; copies are called after the lock is released |
| Eino session (`multiagent/eino_run_runtime_session.go`, `eino_turn_loop_*.go`) | turn loop, native cancel cause | open, push an interrupt, cancel, close | called by cancel requests while it closes |
| Execution service (`mcp/execution_service.go`) | `entries`, `abortUserNotes`; per entry a status, a context, a done channel | Submit, worker, Wait, Cancel, CancelAll, eviction | the agent stops waiting and comes back, entries are evicted, writes fail |
| Execution records (`database/monitor.go`, `monitor/reconcile.go`) | `tool_executions` | save, cleanup at startup, periodic reconciliation | three writers of one row |
| Batch queues (`handler/batch_*.go`) | `queues`, `taskCancels`, `singleRunTasks`; rows of queues and tasks | create, start, claim, finish, pause, rerun, delete, reload | several workers per queue, memory beside database, pause and rerun during a run |
| Task event bus (`handler/task_event_bus.go`, `agent.go`) | listeners by conversation, a channel each | subscribe, unsubscribe, publish, close | publishing and closing work on copies of the set of listeners, and find it by conversation id |
| Workflow engine (`workflow/`, `handler/workflow_run.go`) | rows of `workflow_runs`, checkpoint files, `hitlWaiters`; graph state | run, branch, join, interrupt, wait for approval, resume | a stream and requests drive one run; position and status are stored apart |
| External MCP servers (`mcp/external_manager.go`, `connection_recovery.go`, `client_sdk.go`) | `configs`, `clients`, circuit breakers, call slots; `reconnectLastTry`, `reconnecting` | start, stop, configure, remove, connect, call, mark dead, reconnect | limits change while calls wait or run; goroutines, timers and users connect one server |
| Finalizer (`agentfinalizer/`) | none | decide whether an answer may be delivered | a decision table with retries around it |
| Tool guard, RBAC, sessions, rate limit (`toolguard/`, `security/`) | rules, sessions, buckets | check | sequential |
| The rest (config, uploads, robots, knowledge, notifications, UI) | | | I/O and parsing |

How they meet: a stream handler activates the approval gate, starts a task and
runs the agent in segments. Each tool call passes the gate
(`interceptHITLForEinoTool`), is submitted to an execution service, which tells
the task table about the running tool and writes its record. A cancel request
goes through the task table into the session and the context of the segment, and
through the tool canceller into the execution service. `FinishTask` removes the
task, ends its tools and closes the event bus.

What makes each correct, in a sentence:

* gate: nothing given to a human runs without its own acknowledged approval, the
  audit row says what happened, nobody waits for an answer that cannot come;
* tasks: one run per conversation, always registered under its current context; a
  stop ends the run; a stuck conversation is released;
* executions: what is at work can be found and cancelled; the record only moves
  forward, and reaches a verdict or "orphaned";
* batch queues: a verdict belongs to the round whose worker reports it, memory
  says what a restart would read, executors end;
* workflow approvals: a run that is offered for approval can be resumed, at the node
  that is shown, and a stream that has yet to decide there is not run twice;
* event bus: a listener hears the last event before its stream ends, and is let go;
* external servers: no call slot is lost whatever the configuration becomes; a
  dead connection is replaced, by one attempt at a time.

## Modules

| module | what it is |
|---|---|
| `HumanApproval` | abstract: what the approval gate promises about every tool call |
| `HitlManager` | the approval gate of one conversation; implements `HumanApproval` |
| `HitlManagerProofs` | its theorems |
| `MCHitlManager` | instances for TLC |
| `AgentTaskManager` | the task table with handlers, cancel requests and sweep, for one conversation |
| `AgentTaskManagerProofs` | its theorems |
| `MCAgentTaskManager` | instances for TLC |
| `ToolExecutionLog` | abstract: what the table `tool_executions` promises its readers |
| `ExecutionService` | workers, waiters, cancellation, eviction, reconciler, restart; implements `ToolExecutionLog` |
| `ExecutionServiceProofs` | its theorems, the refinement among them |
| `MCExecutionService` | instances for TLC |
| `BatchTaskManager` | one batch queue: requests, executors, workers, database, restarts |
| `BatchTaskManagerProofs` | its theorems |
| `MCBatchTaskManager` | instances for TLC |
| `ExternalMCPCalls` | calls of external tools: policy, circuit breaker, slots, new configurations |
| `ExternalMCPCallsProofs` | its theorems |
| `MCExternalMCPCalls` | instances for TLC |
| `ExternalMCPClients` | the connection of one external server: connecting, dying, reconnecting, requests |
| `ExternalMCPClientsProofs` | its theorems |
| `MCExternalMCPClients` | instances for TLC |
| `WorkflowApproval` | the approval nodes of one workflow run: stream, requests, checkpoint, row |
| `WorkflowApprovalProofs` | its theorems |
| `MCWorkflowApproval` | instances for TLC |
| `TaskEventBus` | the mirror of a task's events: requests, listeners, FinishTask, sweep |
| `TaskEventBusProofs` | its theorems |
| `MCTaskEventBus` | instances for TLC |

`PROJECT.json` maps every definition to the lines it models. Operators marked
"Faulty variant" are not part of a specification: each replaces one definition to
show that a property can fail (`mutants` in `PROJECT.json`).

### HitlManager and HumanApproval

The conversation is fixed, so the maps of `HITLManager` lose their key. A tool
call stands for its own interrupt (its id is a fresh uuid). `row` is the row of
`hitl_interrupts`, `pending` the map, `ch` the channel of capacity one, `pc` the
place of the call's goroutine: `inserting` (INSERT) -> `registering` (map) ->
`waiting` (select) -> `deciding` (UPDATE) -> `leaving` (deferred delete) ->
`tracking` or `rejected` or `failed` -> `executing` -> `done`; with the audit
agent `reviewing` takes the place of map and wait. Each critical section and each
SQL statement is one action, so dismissals, decisions, the timeout, the end of a
context and a restart fall between any two of them. The setting of the
conversation may change at any moment (`ActivateConversation`,
`DeactivateConversation`, `UpsertConfig`): this covers the handlers of other
requests. `LostWrites` says whether an UPDATE whose error the code discards may
be lost.

`HumanApproval` has two variables: the stage of each call (`new`, `asked` or
`audited`, `approved`, `refused`, `ran`) and the verdicts the server accepted for it.
A call is let through or asked about, the first accepted answer moves an asked call
on, later ones change nothing, an open call may be given up, and an approved one may
run. `Approval == INSTANCE HumanApproval WITH ...` takes the stage (`Stage`) from the
place of the goroutine, the decision it took (`got`) and, before it took one, the
channel; the accepted verdicts (`Accepted`) are those of requests that were or
will be answered with 200. `ApprovalRefinement` is `Approval!Spec`.

Left out: edited arguments and payloads, the global white list, listings,
`EnsureSchema`'s rewriting of assistant messages after a restart.

### AgentTaskManager

One conversation again. A handler's life is `idle` -> `starting` -> `running` ->
`ended` or `erred` -> (`rebind` -> `restatus` -> `starting`) ... -> `finish` ->
`tail` -> `done`. A segment's context is the pair (handler, segment); `cause` is
the cause it was cancelled with and `native` the cause handed to the session.
`task` holds what `AgentTask` holds: status, cancel function, hook and its
version, running tool. A cancel request first makes its snapshot under the lock
and then calls the copies in the order of `CancelTask`. Stream handlers finish a
task only after `StartTask` succeeded; robot handlers defer `FinishTask` before
they call `StartTask`, as in `ProcessMessageForRobot`. An open session may refuse an
interrupt, because its loop can stop by itself.

The copies are the point of `CopiesHitOneSegment`: when a request uses them, the
session may be closed and the handler in another segment, and hook and cancel
function are bound, unbound and replaced in separate calls; but what they still
reach belongs to one segment, the one whose session was open when they were made.

Left out: supplement notes, the slot of the Eino execute tool, the event bus (see
`TaskEventBus`), the expiry of the history. Time is left out: the sweep may take any task that is
cancelling.

### ExecutionService and ToolExecutionLog

`entries` is the in-memory table, `row` the status column of `tool_executions`.
The worker's steps follow `runWorker` and `finishEntry`: `SaveQueued`, `PreRun`,
`MarkRunning`, `RunReturns`, `TakeNote`, `Settle`, `Persist`, `CallOnDone`,
`CloseDone`. Eviction (`Forgotten`) happens in `Submit`, as in the code. A tick of
the reconciler asks for the live ids, reads the rows, and updates them one by one;
the minimum age is the set `young`, left before a tick starts because the tick
fixes its cutoff first. `Lossy` executions may lose any write. `Restart` stops
every goroutine and runs the startup cleanup.

`ToolExecutionLog` has one variable and two actions: a record moves to a higher
rank (none, queued, running, orphaned, verdict), or a new process gives up what
is running. `ExecutionService` declares the refinement as an instance of it,
`Log == INSTANCE ToolExecutionLog WITH ...`, with `row` mapped to itself and
`Verdicts` as the set of verdicts; `LogRefinement` is its specification.

Left out: results and their size limits, partial output, retention, deletion of
records through the monitor page.

### BatchTaskManager

One queue. `status` and `task` are the queue in memory, `row` and `taskRow` its
rows in `batch_task_queues` and `batch_tasks`; every method writes the row first
and leaves memory alone when the write fails (`Fails`, at most `MaxFaults` failed
writes and restarts together). `mark` is `queueExecutors`, `single`
`singleRunTasks`, `cancels` the map `taskCancels`. An executor is named after the
request that launched it and has one worker per slot:

* worker: `claim` (ClaimNextPendingTask) -> `announce` (status running) ->
  `prepare` -> `register` (SetTaskCancel) -> `run` -> `leave` (deferred removal of
  the cancel function) -> `claim`; without a task `poll` or `stopped`; in a single
  run `take`, `pausing`;
* executor: `running` -> `tasks` -> `complete` (tryFinalizeBatchQueue, a read of the
  tasks and a write of the status) -> `unmark` -> `ended`;
* request: start, pause, rerun, single run, delete, add or remove a task, and the
  scheduler's tick `cron`; each handler goes through its own checks, resets and
  marks in the order of `agent.go`.

`round` counts the resets of a task and exists only for the properties. A restart
ends every goroutine and clears memory; the next request loads the queue again. A
task that is removed from the list keeps the status "removed": ids are random and
never used again, so a worker that still holds one can only miss. A start may be
refused at the last moment because the agent a queue wants is disabled
(`RefuseDisabled`). Loading a queue that memory has lost is one step of the model;
in the code (`batch_task_manager.go:279`) the rows are read first and published under
the lock later, and of two overlapping loads the slower one may publish older rows.
That takes a queue that is not in memory and has rows while the process runs, which
only a DELETE that failed or a failed read at the start of the process leaves behind.

What the model shows of the code beyond its properties: a start right after a
pause is answered "started" while the old executor still holds the mark, so the
queue stays paused (`agent.go:2382`); a pause between a claim and `SetTaskCancel`
(`batch_queue_executor.go:221`) cancels nothing; after a restart or a failed write
a task left "running" in memory keeps the workers polling for ever, which
`ExecutorEnds` names as its exception; the forced unmark of a single run
(`agent.go:2308`) lets two executors run side by side, which is why three
properties are stated as long as no single run was asked for (`Orderly`). A rerun, a
single run and a tick of the scheduler look at the status and reset tasks in separate
steps, and only then take the mark (`agent.go:2078`, `2381`): of two of them the
second may reset a task that the executor of the first is at. With two reruns,
two single runs, a rerun or a single run beside a tick, `VerdictIsOfThisRound` fails
without its hypothesis `ResetsApart`, which excludes these pairs; any number of ticks
is harmless, because a tick takes the mark before it resets.

### ExternalMCPCalls

Each call goes `policy` -> `circuit` -> `connection` -> `global` -> `server` ->
`running` -> `report` -> `release` -> `done`; any check may end it in `report`. A
call keeps in `config` the configuration whose channels it waits for: a new
configuration (`ConfigureResilience`) replaces the channels and forgets the breakers, and
calls of the old one give back to the old channels. Cancellation may come at
every step. Time is a clock that counts `openFor` down.

### ExternalMCPClients

One server. `client` are the client objects with the goroutine that connects each
(`dial` -> `register` -> `clear` -> `list` -> `listing`), `session` the connection
inside, which may break at any moment; `use` are calls and listings of tools,
which find a dead connection, mark it (`mark`) and schedule a reconnection
(`schedule`); `thread` holds timers and goroutines of `tryReconnect` and the
requests of users, both of which pass through `startClient` (`read` -> `look` ->
`judge` -> `close` -> `delete` -> `recheck` -> `write` -> `store`). `last` is the
back-off: `recent` until the interval has passed. The manager's lock is kept for
longer than one action by `connectClient` only, so it is modelled by `MayRead` and
`MayWrite`.

`Prompt` is a timing assumption: goroutines on their way through the manager's
maps are faster than dialling, timers, the breaking of connections and people.
Without it the interleavings of three goroutines in `startClient` do not fit into
a run, and two attempts may overlap: one can read the registered client before
another replaces it. The model keeps the following behaviours of the code, which
no comment rules out: a server that connects and dies again is reconnected
without an interval, because `onClientConnected` clears the back-off; stop, remove
or start during a connection leaves an open session behind, because
`connectClient` registers its client whatever has happened since; `startClient`
writes its copy of the configuration back as enabled after it last looked, so a
stop in between is undone.

### WorkflowApproval

One run. `row` is its row in `workflow_runs` (status, pending node, and the decision
in the pending value), `checkpoint` the file of `fileCheckPointStore`, `waiter` the
channel in `hitlWaiters`. The approval nodes are numbered in the order in which
the graph reaches them; other nodes are not seen. The stream's goroutine goes

`graph` -> `await` (interrupted; `extractAwaitingHITL` writes the row) -> `pause`
(`RunRoleBoundWorkflow` writes it again) -> `register` -> `look` -> `wait` (channel
or ticker) -> `unregister` -> `decide` -> `load` (Invoke from the checkpoint) ->
`graph`,

a request `record` -> `notify` -> `again` (no channel at the first look) -> `send` (delegated,
from either of them) or `reread` -> `decide` -> `load`
-> `graph` -> `await`. Both share the actions at the graph (`GraphStep`). Any write
of the row may fail, as every caller discards the error or returns on it
(`MaxLost`). `Restart` ends every goroutine and empties `hitlWaiters`; row and
checkpoint stay. `passed` and `shared` are history variables.

`Prompt` is a timing assumption: a request looks for a waiter for half a second
(`workflow_run.go:145`: eleven looks, 50 ms apart), and no passage of the stream
through the places that only lead from the graph to its wait and back (`Brief`: the
writes of the row, the registration, taking a decision) lasts that long. So when the
request gives up, the stream has been at the graph, in its wait or at its end at some
moment since the first look that failed: `Settle` notes that moment in `settled`, and
`Patient` asks for it. Nothing is assumed of where the stream is at the last look,
or of what it does until the request has read the row again: it may just have written
"awaiting" for the next node and not yet have registered its channel, and then the
request does run the graph beside it (`NotBesideStream` below). What remains true is
`OnlyOvertakenJoin`: that happens only to a request which the stream has overtaken,
by taking a decision at the node the request was made for. `TypeOK` and
`AwaitingCanResume` hold without the assumption, and are proved without it.
`DelegatedIsHeard` excepts a run that two goroutines had in hand (`shared`): the second
one may move the row back to the node that was shown.

What the model shows beyond its properties: nothing looks at a run whose process
stopped while its status was "running", it keeps that status for good; two
requests for a run that lost its stream both resume it (`shared`); a decision that
is recorded after another one replaces it in the row.

### TaskEventBus

One conversation. `subs` is its entry of `TaskEventBus.subs`, `chan` and `closed` are
the listeners' channels. `Publish` fills `left` with a copy of `subs`; `Send` is
`sendNonBlocking` for one listener of the copy, atomic under the listener's own lock.
`CloseConversation` moves `subs` into `cut`, `CloseOnce` closes one listener of it.
`FinishTask` is called by a request that had a task, and by the sweep; both remove
whatever task the conversation has. A request publishes its first event before
`StartTask`, so a refused one publishes, too. Progress may come from any goroutine of
the run, also after the handler has gone on; "done" and the events of a refused
request come from the handler, which waits for its sends. A listener looks for a
task (`Attach`), registers (`Subscribe`), reads until its channel is closed and
empty or its client goes, and unregisters. `found`, `due` and `closer` are history
variables. That the sweep only takes a task that has long been cancelling is left
to `AgentTaskManager`: here it may come at any time, once.

`DoneIsHeard` excepts a full channel, because dropping events is documented
(`task_event_bus.go:85`), and a stream that somebody else's `FinishTask` ended.

## Runs

A run states what TLC alone can tell or should find out first. The types of
`HitlManager`, `ExternalMCPCalls`, `ExternalMCPClients` and `TaskEventBus`, and `FlagHasHolder`, are
proved for every value of the constants and not repeated in a run.

| run | instance | shows |
|---|---|---|
| `hitl_gate` | 2 calls of one tool, 2 requests, 1 restart, human reviewer, no lost write | the safety of the gate |
| `hitl_live` | 1 call, 2 requests, 1 restart, both reviewers, lost writes, fairness | every wait ends, and the gate implements `HumanApproval` |
| `task_table` | 2 stream handlers of 2 segments, 2 cancel requests | the safety of the table |
| `task_sweep` | a stream and a robot handler of 2 segments, 1 cancel request, sweep, fairness of the sweep only | history and release |
| `exec_service` | 2 executions in a table of one, 1 waiter, no restart | eviction, waiting, reconciler |
| `exec_record` | 1 execution, every outcome, hard timeout, lost writes, 2 restarts, 1 waiter | refinement, type, closing of stale records |
| `batch_queue` | 1 task and a second that may be added, 2 workers per executor, four mixes of up to 4 requests, 1 failed write or restart, fairness | safety of the queue; completed is final; executors end |
| `ext_calls` | 2 calls, 2 servers, 3 configurations that lower, raise and lift the limits, threshold 1, cooldown 1, fairness | slots, limits, every call ends |
| `ext_clients` | 2 client objects, 1 user, 2 reconnections at once, 1 request of any kind, `Prompt`, fairness | self-healing |
| `ext_reconnect` | 1 client object, 1 reconnection | finding: the manager locks itself out |
| `bus_listeners` | 2 requests of 2 events and "done", 1 listener with room for 1 event, sweep, fairness | the account of listeners, the last event, listeners are let go |
| `workflow_approval` | 3 approval nodes, 2 requests, 1 failed write, 1 restart, `Prompt`, fairness | resumable, only overtaken requests join the stream, delegated decisions are heard |

Why the bounds are enough for what they are used for. The gate's properties speak
of one call and at most two requests for it, or of two calls that exchange
results; a second restart finds no state the first did not leave. The table's
properties speak of two handlers, and of a copy made in one segment and used in
the next, which takes two segments; two cancel requests are needed for a native
cancel and a stop that overlap. Eviction needs one execution at work and one that
is submitted; the record's properties are about one record. The properties of a
batch queue relate a worker to its task, to another worker or to a request that
comes between two of its steps: two workers, a task, one that is added and every
pair of requests of the mixes do that, and a single fault separates any two of the writes. Slots
need two calls that compete and a configuration replaced twice while they do, so
that a token of the first returns under the third. Two reconnections at once are a
detection beside a timer; two client objects the one being replaced and its
successor, used again once nobody refers to them. Three approval nodes are one that
is passed, one that waits and one more that a resumption could wrongly reach; two
requests are the one that lost the race and the one that won it. One listener is enough for the
bus, which treats each by itself, and the proof holds for any number; room for one event fills with every event that is not
read at once. Where the proofs below exist they remove the bounds altogether.
Deadlock is not checked: calls, requests and executions are finite and used once,
so the models really stop. `EveryWaitEnds`, `CancellingReleased`, `StaleRowClosed`,
`ExecutorEnds`, `CallEnds`, `DeadIsReplaced`, `DelegatedIsHeard` and
`ListenersAreReleased` check what deadlock would stand for.

### Fairness

* `hitl_live`: weak fairness of each goroutine's own steps. Go schedules runnable
  goroutines, the timer of a positive timeout fires, `select` picks a ready
  branch. Nothing is assumed of operators or of the tool itself.
* `task_sweep`: weak fairness of the sweep, which runs on a ticker of the
  process. Handlers may be stuck for ever: this is what the sweep is for.
* `exec_record`: weak fairness of the reconciler's ticker; strong fairness of the
  ageing of an execution (time passes) and of a successful update, which says that
  the database does not refuse the same update for ever.
* `batch_queue`: weak fairness of each worker and executor goroutine. An agent run
  ends (it has a timeout); nothing is assumed of requests.
* `ext_calls`: weak fairness of each call's worker and of a cancelled call's answer;
  strong fairness of taking a slot, because a goroutine blocked in a channel send
  is served in order. A server may keep a call for ever: `CallEnds` names it.
* `ext_clients`, `ext_reconnect`: weak fairness of every goroutine and timer
  (dialling has a timeout), strong fairness of the back-off's clock, which
  runs on while connections come and go.
* `workflow_approval`: weak fairness of the stream's goroutine and of each request
  that was made: nodes end, the ticker ticks. Nobody need make a request, and a
  wait need not be given up.
* `bus_listeners`: weak fairness of every request that was made, of the sends and closings
  and of the listeners' handlers. A run ends (it has a timeout); clients that stay
  take what they are written. Nobody need ask, and the sweep need not come.

### Finding

* `DeadIsMarked` (`external_manager.go:1539`): `connectClient` lists the tools of its
  new client while it holds the manager's read lock; a connection that dies there
  is marked by a function that asks for the write lock, and from then on nobody
  gets the lock.

### Known disagreements

Each of these properties states what a comment says and fails in the model. They
have a configuration, but no run of the list above; `tlc -config X.cfg` on the MC
module of the component prints the behaviour.

* `MirrorOfRunningTask` (`TaskEventMirror.cfg`,
  `eino_single_agent.go:183`): a stream request that is refused
  because a task runs, or because its channel is misconfigured, publishes its error
  and its "done" to the listeners of the task that runs, which `agent.go:1725` calls
  subscribers of the running task's events.
* `OnlyOwnerFinishes` (`AgentTaskRobot.cfg`, `agent.go:895`): a refused robot message
  removes the running task of another request, the very thing
  `eino_single_agent.go:130` warns of; a third request may then start a second run.
* `ResultOnOwnRow` (`HitlResultOnOwnRow.cfg`, `hitl_execution.go:26`): approved
  executions are registered without a tool call id, so results are matched by tool
  name; with two calls of one tool the results are exchanged.
* `StopHonoured` (`AgentTaskStop.cfg`, `task_manager.go:491`): a stop between two
  segments cancels the context of the old one; the run continues.
* `ToolKilledOnlyWhenOver` (`AgentTaskTools.cfg`, `task_manager.go:549`): the tail of
  `FinishTask` ends tools by conversation, also those of a run started meanwhile.
* `SessionKeepsHook` (`AgentTaskHook.cfg`, `task_manager.go:232`): the hook is to be the
  one of the segment that is running; when the sweep has removed a task whose
  handler goes on, two runs bind and unbind their hooks in the one task that is left.
* `WaitSeesCallback` (`ExecutionWait.cfg`, `execution_service.go:325`): an entry
  evicted between its verdict and its callback lets `Wait` answer early from the
  stored record.
* `CooldownNotRestarted` (`ExternalMCPCircuit.cfg`, `external_manager.go:779`): a call
  that the open circuit refuses is counted as a failure by its own OnDone and
  restarts the cooldown, which `config.go:1070` describes as the time after the
  circuit broke: callers who keep trying keep the circuit open.
* `OpenWhileRunning` (`TaskEventCut.cfg`, `task_manager.go:556`): the channels are to be
  closed when the task ends (`task_event_bus.go:104`); `FinishTask` asks for it after
  the task has left the table and its tools were cancelled, and cuts off whoever
  listens to a task started meanwhile.
* `OneNodePerDecision` (`WorkflowOneNode.cfg`, `hitl_wait.go:34`): `HITLDecision` is
  described as a decision on a workflow approval node, but the waiter is found by
  run. The stream may take a decision from the row just before its request looks
  for the waiter; the request's retry then finds the waiter of the next node and
  hands it the same decision: one approval passes two nodes.
* `NotBesideStream` (`WorkflowBeside.cfg`, `eino_compile.go:137`): "ResumeWorkflowRun
  continues a run paused at HITL". A request looks in vain while the stream, which has
  read a decision in the row, is in the graph; the stream is interrupted before the
  next node and writes "awaiting" (`eino_compile.go:74`), and before it registers its
  channel (`runner.go:141`) the request looks for the last time, reads "awaiting" and
  runs the graph from the same checkpoint. Every single step of the stream is quick.
  The shortest behaviour, which TLC prints, is another one: the stream's context ends
  as the request gives up, and the row still says "awaiting" when it is read again.

## Proofs

`HitlManagerProofs` (for every value of the constants that satisfies
`HitlAssumption`):

* `GateInvariant`: `GateInv` is inductive. It conjoins `TypeOK`, `ReviewerInv`
  (the reviewer is fixed for the time of the wait, and a goroutine is only where
  that reviewer leads), `ApprovalInv` (an approving end of the wait, or an
  approval in a channel, comes from an acknowledged request for that call),
  `RequestInv` (what a request holds between its two steps), `RowInv` (which rows
  may be pending), `FirstAckWins` and `WaiterAnswerable`. `NoUnapprovedRun` is not
  inductive alone: that a call in `ran` was approved follows from the approval
  having been in its channel, which follows from the request being acknowledged
  in the step that fills the channel.
* from it `TypeCorrect`, `ApprovalGate`, `FirstAcknowledgedDecision`,
  `WaitersStayAnswerable`;
* with a second invariant (`RecordInv`) about what is on the row at each place of
  the goroutine, `DecidedRowsStand` and `PendingRowsHaveGoroutines`;
* with a third (`QueueInv`) about the queue of approved executions, the action
  property `ResultsRecordedOnce`: the queue names no call twice, and only calls that
  ran and have no result. That a call cannot be queued again rests on its goroutine
  being past the place that queues, and on rows without a result before that place;
* `ImplementsApproval`, the refinement of `HumanApproval`, with a fourth
  (`PathInv`): before its wait nothing has decided a call, neither in its channel nor
  in its goroutine, a waiting goroutine has taken nothing yet, and a call is executing
  only when its tool was called. Without it a call could meet the gate already decided,
  or end as refused after its tool ran, and `HumanApproval` has no such step. A step of
  a goroutine moves one call on (`OneGoesOn`), a dismissal or a restart gives some up,
  and a send is an answer (`SendIsAnswer`), which decides only while the channel is
  empty and the goroutine still waits.

`AgentTaskManagerProofs` (under `TaskAssumption` and `NoTaskAssumption`):

* for any mix, with robots and sweep: `TypeCorrect` (`SegmentInv` adds that only a
  run that decided to go on is below the last segment) and `TasksAreAccounted`
  (`AccountInv` adds that an idle handler has started nothing, so that a start is
  its first and a removal, by whoever makes it, is its task's only one);
* under `StreamsOnly` (no robot request and no sweep; with either of them the
  statements are false, as the known disagreements show) `TableInvariant`:
  `TypeOK`, `OwnerInv` (a handler between its successful StartTask and its
  FinishTask owns the registered task, whose cancel function is that of its
  current segment; a task in the table has such a handler), `HookInv` (a hook
  belongs to an open session and carries the version that session will
  unregister), `CopyInv` (hook and cancel function that were copied together are of
  one segment), and an idle sweep;
* from it, in the same setting, `RunStaysRegistered`, `OneRun` (which follows from it
  and is in no run) and the action properties `CopiesAreOfOneSegment` and
  `StoppedSegmentsAreLast`.

`ExecutionServiceProofs` (under `ExecutionAssumption`, for any numbers of
executions and waiters, any size of the table and any lost writes): `Inv` conjoins
the types, what the status in memory and the row may say at each place of a worker
(`PlaceInv`: a verdict is in the table only after `finishEntry` put it there),
`RunningIsCancellable`, what the reconciler knows between its steps (`TickInv`: an
execution at work was among the live ids or is too young for this tick, and what
was collected for closing is not at work and never will be) and that a closed
channel means a verdict (`WaitInv`). From it:

* `AtWorkIsFound`, `RunningIsNotOrphaned`, `AnswersAreVerdicts`; `TypeCorrect`
  needs a finite set of executions besides, because start times are counted;
* `ImplementsLog`: every write of a row is a step of `ToolExecutionLog` to a higher
  rank, a restart is the log's, everything else leaves the rows alone.

`BatchTaskManagerProofs` (under `BatchAssumption`, for any mix of requests and any
number of tasks, workers and faults): `TypeCorrect`; `MemoryIsStored`; `OneExecutor`,
that `ExecutorInv` is inductive: unless the mix has a single run, whoever has work in
hand, from the request that set the mark to the last worker, is the one executor
that holds the mark; from it `DeletesAreSafe` and `CompletionIsLast`.
`BatchInvariant` adds three parts to it:

* `PlaceInv`, which requests and tasks belong to which place;
* `WorkInv` (under `Orderly` and `ResetsApart`): the task of a worker is "running" in
  memory, which is why nobody else can claim it and why the list cannot be edited; so
  no two workers are at one task, and the function registered under its id is that
  of the worker at its run: `RunsCanBeCancelled`;
* `ResetInv` (under `ResetsApart` alone, beside single runs): between its look at the
  status and its reset, a rerun is on a completed queue and a single run on a task
  with a verdict that no worker is at, and nothing the other requests do can change
  that: `VerdictsAreOfTheRound`. What makes it hold when two executors work side by
  side is that a claim takes pending tasks only.

`ExternalMCPCallsProofs` (under `CallsAssumption`, for any numbers of calls, servers
and configurations): the invariant `Inv` adds to the types that a call holds the
slots of its place (`HeldInv`), that tokens are counted by the calls that hold
them (`SlotsAccounted`) and that no channel is overfull (`WithinRoom`); counting
needs lemmas on the cardinality of the set of holders when one joins or leaves.
From it `TypeCorrect`, `NoSlotLost` and `LimitsHold`: the calls at work under a
configuration are among the holders of its tokens.

`ExternalMCPClientsProofs` (under `ClientsAssumption`): with or without `Prompt`,
`TypeCorrect` and `FlagIsHeld`; `FlagHasHolder` is inductive beside `TypeOK`, because
whoever sets the flag keeps a place that clears it, and every step out of these
places clears it. Under `Prompt`, for histories without requests of users (`Calm`; a
stop or start overtakes anything), `HealInvariant`: `HealInv` conjoins `StartInv`
(until the client of the start-up is registered nobody else is at work), `DialInv`
(a client that is dialling is in nobody's hands but its goroutine's), `ConnectInv`
(who has a connection is the registered client, and the goroutine that connects it
is where `by` says) and `TryInv` (an attempt at work without the flag, a second
attempt beside one, and an attempt within the interval all mean that the registered
client is connected or about to be, so that they will turn back; and nobody
is connected while an attempt replaces the client). The flag alone does not keep
attempts apart, because a connection clears it under an attempt's feet. From it
`HealingIsAlone` and `BackOffIsKept`.

`WorkflowApprovalProofs` (under `ApprovalAssumption`, with or without `Prompt`): `Inv`
adds to the types what a goroutine's place says of its node (`PlaceInv`), that a
goroutine on its way to the row has stored a checkpoint (`CheckpointInv`) and, for
histories without a failed write in which one goroutine at a time had the run in
hand, that checkpoint, row and goroutine name the same node and that nobody is at
the graph while the row says "awaiting" (`ExactInv`). The last is what makes a
request that re-reads the status alone, or known to `shared`. From it `TypeCorrect`
and `OfferedRunsResume`. For the action property
`OvertakenRequests`, which is about `Prompt`, `AloneInv` says what holds until a request
joins the stream: every request that was made is at the stream's node or behind it
(`Follows`), past its wait if it has seen the stream out of a passage, past its channel
if it has given up; the stream has a channel registered while it waits; and row and
checkpoint name no node ahead of the stream's. It needs neither `ExactInv` nor the
absence of failed writes.

`TaskEventBusProofs` (under `BusAssumption`): `BusInv` adds to the types that only a
closing `FinishTask` has listeners taken out, none of them registered (`CutInv`), and
what a listener's place says of its channel (`PlaceInv`); from it `TypeCorrect` and
`ListenersAccounted`. For `LastEventFirst`, `FinishInv` says that whoever closes a
channel has finished sending its "done", and `DueInv` that a "done" that is due is
being sent, in the channel or written, as long as nobody else closed the channel:
when a stream has ended, the first two are over.

Only model-checked: the liveness properties, which are out of the prover's reach:
`EveryWaitEnds`, `CancellingReleased`, `StaleRowClosed`, `ExecutorEnds`, `CallEnds`,
`DeadIsReplaced`, `DelegatedIsHeard`, `ListenersAreReleased`. Every invariant and every
action property that a run checks is also a theorem.

## Not modelled

In the order in which they would be worth adding:

1. `AgentSession`: gate and table together for one conversation, with
   `activateHITLForConversation` and the deferred `DeactivateConversation` around
   `StartTask` (`eino_single_agent.go:109-137`). What such a composition could say of
   a refused duplicate request is false by reading the code: the hazards name it.
2. The graph of a workflow: joins, branches and approval nodes that become ready
   together (one decision then passes all of them, `graph_types.go`), and the state
   that `ResumeWorkflowRun` starts afresh (`eino_compile.go:160`).
3. `Finalizer`: the decision table as an operator over all inputs.
Within the modelled components each module's head says what it leaves out.
Not suited: user interface, plugins, skills and tool descriptions (data),
configuration parsing, request handlers that only validate and store, database
access without a protocol of its own, command execution (process I/O), retrieval
and model calls. They are most of the source by lines and hold none of the state
the components above share.
