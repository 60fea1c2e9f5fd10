-------------------------- MODULE AgentTaskManager --------------------------
(***************************************************************************)
(* The table of running agent tasks (handler/task_manager.go) together     *)
(* with the three kinds of goroutines that meet in it, for one             *)
(* conversation: the request handlers that run the agent                   *)
(* (eino_single_agent.go, multi_agent.go, the robot path of agent.go), the *)
(* cancel requests of users (CancelAgentLoop), and the sweep that removes  *)
(* tasks stuck in "cancelling".  Every method of the table takes and       *)
(* releases its lock by itself and finds the task by conversation id, so   *)
(* between two calls of one goroutine the task may be another one.         *)
(*                                                                         *)
(* A run is a sequence of segments; each segment has a context of its own, *)
(* and the table holds the function that cancels the latest one and a hook *)
(* into the Eino session of the segment.  Left out: the supplement texts,  *)
(* the event bus, the Eino execute slot, the expiry of the history.        *)
(***************************************************************************)
EXTENDS Naturals, FiniteSets

CONSTANTS
  Handlers,     \* requests to run the agent in the conversation
  Robots,       \* those that come from the chat robots
  Stoppers,     \* cancel requests
  StuckSweep,   \* whether the sweep of stuck tasks runs
  MaxSegments,  \* bound on the segments of one run
  NoTask, NoHook, NoOne

ASSUME TaskAssumption ==
  /\ Robots \subseteq Handlers
  /\ StuckSweep \in BOOLEAN
  /\ MaxSegments \in Nat \ {0}
  /\ NoOne \notin Handlers
  /\ NoHook \notin Handlers \X (1..MaxSegments)

VARIABLES
  task,     \* AgentTaskManager.tasks of the conversation, or NoTask
  pc,       \* where each handler is
  seg,      \* the current segment of each handler
  cause,    \* the cause of the context of that segment, "none" while alive
  native,   \* the cause handed to the session's own cancel hook
  bound,    \* the hook version each handler's session unregisters
  tool,     \* the MCP tool of each handler: none, running or killed
  started,  \* handlers whose StartTask succeeded
  hist,     \* completedTasks: how often each handler's task was put there
  req,      \* the cancel requests
  sweep     \* where the sweep is

vars == <<task, pc, seg, cause, native, bound, tool, started, hist, req, sweep>>
runVars == <<seg, cause, native, bound>>

Segments == 1..MaxSegments
Causes == {"stop", "interrupt"}
Ctxs == Handlers \X Segments

Tasks == [owner : Handlers,
          status : {"running", "cancelling", "cancelled", "failed", "incomplete"},
          cancel : Ctxs, hook : Ctxs \cup {NoHook}, version : Nat,
          tool : Handlers \cup {NoOne}]

ASSUME NoTaskAssumption == NoTask \notin Tasks

\* Handlers between a successful StartTask and their deferred FinishTask.
RunPcs == {"starting", "running", "ended", "erred", "rebind", "restatus"}

TypeOK ==
  /\ task \in Tasks \cup {NoTask}
  /\ pc \in [Handlers -> RunPcs \cup {"idle", "finish", "tail", "done"}]
  /\ seg \in [Handlers -> Segments]
  /\ cause \in [Handlers -> Causes \cup {"none"}]
  /\ native \in [Handlers -> Causes \cup {"none"}]
  /\ bound \in [Handlers -> Nat]
  /\ tool \in [Handlers -> {"none", "running", "killed"}]
  /\ started \subseteq Handlers
  /\ hist \in [Handlers -> Nat]
  /\ req \in [Stoppers ->
       [pc : {"idle", "snapshot", "push", "runtime", "ctx", "tools", "ok",
              "notfound"},
        kind : Causes \cup {"none"}, cancel : Ctxs \cup {NoHook},
        hook : Ctxs \cup {NoHook}]]
  /\ sweep \in {"idle", "finish", "tail"}

Init ==
  /\ task = NoTask
  /\ pc = [h \in Handlers |-> "idle"]
  /\ seg = [h \in Handlers |-> 1]
  /\ cause = [h \in Handlers |-> "none"]
  /\ native = [h \in Handlers |-> "none"]
  /\ bound = [h \in Handlers |-> 0]
  /\ tool = [h \in Handlers |-> "none"]
  /\ started = {}
  /\ hist = [h \in Handlers |-> 0]
  /\ req = [s \in Stoppers |->
             [pc |-> "idle", kind |-> "none", cancel |-> NoHook, hook |-> NoHook]]
  /\ sweep = "idle"

Goto(h, next) == pc' = [pc EXCEPT ![h] = next]

-----------------------------------------------------------------------------
(* Methods of the table: what each makes of the task it finds.             *)

\* UpdateTaskStatus: whatever the status was.
WithStatus(status) ==
  IF task = NoTask THEN NoTask ELSE [task EXCEPT !.status = status]

\* Faulty variant: the kind of the cancel is stored as the status.
StatusForRaw(kind) == kind

\* The status a cancel request leaves: an interrupted run stays running.
StatusFor(kind) == IF kind = "stop" THEN "cancelling" ELSE "running"

\* Faulty variant: the history is written, the entry stays in the table.
RemoveTaskFromNowhere ==
  /\ UNCHANGED task
  /\ hist' = [hist EXCEPT ![task.owner] = @ + 1]

\* The removal in FinishTask, of whichever task the conversation has.
RemoveTask ==
  /\ task' = NoTask
  /\ hist' = [hist EXCEPT ![task.owner] = @ + 1]

\* toolCanceler: every tool of the conversation that still runs.
KillTools ==
  tool' = [h \in Handlers |-> IF tool[h] = "running" THEN "killed" ELSE tool[h]]

-----------------------------------------------------------------------------
(* A handler.                                                              *)

\* A stream request fails before it starts (no configuration, unknown channel)
\* and still writes its status to the conversation's task.
RejectConfig(h) ==
  /\ pc[h] = "idle" /\ h \notin Robots
  /\ task' = WithStatus("failed")
  /\ Goto(h, "done")
  /\ UNCHANGED <<runVars, tool, started, hist, req, sweep>>

\* StartTask.  A refused stream handler ends; a refused robot handler runs the
\* FinishTask it deferred before calling StartTask.
StartTask(h) ==
  /\ pc[h] = "idle"
  /\ IF task = NoTask
     THEN /\ task' = [owner |-> h, status |-> "running", cancel |-> <<h, 1>>,
                      hook |-> NoHook, version |-> 0, tool |-> NoOne]
          /\ started' = started \cup {h}
          /\ Goto(h, IF h \in Robots THEN "running" ELSE "starting")
     ELSE /\ Goto(h, IF h \in Robots THEN "finish" ELSE "done")
          /\ UNCHANGED <<task, started>>
  /\ UNCHANGED <<runVars, tool, hist, req, sweep>>

\* BindAgentTurnLoopInterrupt and BindAgentRuntimeCancel when the session of
\* the segment opens; the two version counters move together.
BindHooks(h) ==
  /\ pc[h] = "starting"
  /\ IF task = NoTask
     THEN bound' = [bound EXCEPT ![h] = 0] /\ UNCHANGED task
     ELSE /\ task' = [task EXCEPT !.hook = <<h, seg[h]>>,
                                  !.version = @ + 1]
          /\ bound' = [bound EXCEPT ![h] = task.version + 1]
  /\ Goto(h, "running")
  /\ UNCHANGED <<seg, cause, native, tool, started, hist, req, sweep>>

\* Faulty variant: the version of the hook before the last is unregistered.
UnboundTooOld(h) ==
  IF task # NoTask /\ bound[h] # 0 /\ task.version = bound[h] - 1
  THEN [task EXCEPT !.hook = NoHook] ELSE task

\* The unregister functions: they compare version numbers, which start again
\* with every task.
Unbound(h) ==
  IF task # NoTask /\ bound[h] # 0 /\ task.version = bound[h]
  THEN [task EXCEPT !.hook = NoHook] ELSE task

\* The session of the segment closes: without an error, which takes a live
\* context, or with one.
SegmentEnds(h) ==
  /\ pc[h] = "running"
  /\ task' = Unbound(h)
  /\ \/ cause[h] = "none" /\ Goto(h, IF h \in Robots THEN "finish" ELSE "ended")
     \/ Goto(h, "erred")
  /\ UNCHANGED <<runVars, tool, started, hist, req, sweep>>

\* RegisterRunningTool; the tool itself may outlive its segment.
ToolStarts(h) ==
  /\ pc[h] = "running" /\ tool[h] = "none" /\ cause[h] = "none"
  /\ tool' = [tool EXCEPT ![h] = "running"]
  /\ task' = IF task = NoTask THEN task ELSE [task EXCEPT !.tool = h]
  /\ UNCHANGED <<pc, runVars, started, hist, req, sweep>>

\* UnregisterRunningTool: only a matching registration is cleared.
ToolEnds(h) ==
  /\ tool[h] # "none"
  /\ tool' = [tool EXCEPT ![h] = "none"]
  /\ task' = IF task # NoTask /\ task.tool = h
             THEN [task EXCEPT !.tool = NoOne] ELSE task
  /\ UNCHANGED <<pc, runVars, started, hist, req, sweep>>

\* Faulty variant: the back-off does not look at the context.
ContinueRunRegardless(h) ==
  /\ pc[h] = "ended" /\ seg[h] < MaxSegments
  /\ Goto(h, "rebind")
  /\ UNCHANGED <<task, runVars, tool, started, hist, req, sweep>>

\* tryContinueOnEinoEmptyResponse and tryAutoContinueAfterFinalization back off
\* first and give up if the context is done by then.
ContinueRun(h) ==
  /\ pc[h] = "ended" /\ seg[h] < MaxSegments
  /\ cause[h] = "none"
  /\ Goto(h, "rebind")
  /\ UNCHANGED <<task, runVars, tool, started, hist, req, sweep>>

\* The answer is delivered; a decision that is not final marks the task.
Deliver(h) ==
  /\ pc[h] = "ended"
  /\ task' \in {task, WithStatus("incomplete")}
  /\ Goto(h, "finish")
  /\ UNCHANGED <<runVars, tool, started, hist, req, sweep>>

\* The cause of a failed segment: its context's; with a live context the error
\* may be the cancel of the session or one of its own.
RunCauses(h) == IF cause[h] # "none" THEN {cause[h]} ELSE {"none", native[h]}

\* The error branches of the run loop; a timeout counts as a failure.
HandleError(h, c) ==
  /\ pc[h] = "erred" /\ c \in RunCauses(h)
  /\ IF c = "interrupt" /\ h \notin Robots
     THEN seg[h] < MaxSegments /\ Goto(h, "rebind") /\ UNCHANGED task
     ELSE /\ task' = IF h \in Robots THEN task
                     ELSE WithStatus(IF c = "stop" THEN "cancelled" ELSE "failed")
          /\ Goto(h, "finish")
  /\ UNCHANGED <<runVars, tool, started, hist, req, sweep>>

\* Faulty variant: the new context is not bound to the task.
RebindWithoutBind(h) ==
  /\ pc[h] = "rebind"
  /\ seg' = [seg EXCEPT ![h] = @ + 1]
  /\ cause' = [cause EXCEPT ![h] = "none"]
  /\ native' = [native EXCEPT ![h] = "none"]
  /\ Goto(h, "restatus")
  /\ UNCHANGED <<task, bound, tool, started, hist, req, sweep>>

\* A new context detached from the old one, and BindTaskCancel.
Rebind(h) ==
  /\ pc[h] = "rebind"
  /\ seg' = [seg EXCEPT ![h] = @ + 1]
  /\ cause' = [cause EXCEPT ![h] = "none"]
  /\ native' = [native EXCEPT ![h] = "none"]
  /\ task' = IF task = NoTask THEN task
             ELSE [task EXCEPT !.cancel = <<h, seg[h] + 1>>]
  /\ Goto(h, "restatus")
  /\ UNCHANGED <<bound, tool, started, hist, req, sweep>>

\* UpdateTaskStatus "running", and the next segment.
Restatus(h) ==
  /\ pc[h] = "restatus"
  /\ task' = WithStatus("running")
  /\ Goto(h, "starting")
  /\ UNCHANGED <<runVars, tool, started, hist, req, sweep>>

\* The deferred FinishTask, under the lock.
FinishTask(h) ==
  /\ pc[h] = "finish"
  /\ IF task = NoTask
     THEN Goto(h, "done") /\ UNCHANGED <<task, hist>>
     ELSE RemoveTask /\ Goto(h, "tail")
  /\ UNCHANGED <<runVars, tool, started, req, sweep>>

\* The rest of FinishTask, the lock released.
FinishTail(h) ==
  /\ pc[h] = "tail"
  /\ KillTools
  /\ Goto(h, "done")
  /\ UNCHANGED <<task, runVars, started, hist, req, sweep>>

-----------------------------------------------------------------------------
(* A cancel request.                                                       *)

Answer(s, next) == req' = [req EXCEPT ![s].pc = next]

\* CancelAgentLoop, stop: the tools of the conversation first.
BeginStop(s) ==
  /\ req[s].pc = "idle"
  /\ KillTools
  /\ req' = [req EXCEPT ![s].pc = "snapshot", ![s].kind = "stop"]
  /\ UNCHANGED <<task, pc, runVars, started, hist, sweep>>

\* CancelAgentLoop, interrupt and continue: a registered tool is ended and the
\* run goes on; without one the reasoning itself is cut.
BeginInterrupt(s) ==
  /\ req[s].pc = "idle"
  /\ IF task = NoTask
     THEN Answer(s, "notfound") /\ UNCHANGED tool
     ELSE IF task.tool = NoOne
     THEN /\ req' = [req EXCEPT ![s].pc = "snapshot", ![s].kind = "interrupt"]
          /\ UNCHANGED tool
     ELSE IF tool[task.tool] = "running"
     THEN tool' = [tool EXCEPT ![task.tool] = "killed"] /\ Answer(s, "ok")
     ELSE Answer(s, "notfound") /\ UNCHANGED tool
  /\ UNCHANGED <<task, pc, runVars, started, hist, sweep>>

\* CancelTask, under the lock: the status, and copies of the cancel function
\* and of the hooks.
Snapshot(s) ==
  /\ req[s].pc = "snapshot"
  /\ IF task = NoTask THEN Answer(s, "notfound") /\ UNCHANGED task
     ELSE IF task.status = "cancelling" THEN Answer(s, "ok") /\ UNCHANGED task
     ELSE /\ task' = WithStatus(StatusFor(req[s].kind))
          /\ req' = [req EXCEPT ![s] =
               [pc |-> IF task.hook = NoHook THEN "ctx"
                       ELSE IF req[s].kind = "interrupt" THEN "push"
                       ELSE "runtime",
                kind |-> req[s].kind, cancel |-> task.cancel,
                hook |-> task.hook]]
  /\ UNCHANGED <<pc, runVars, tool, started, hist, sweep>>

\* Whether the session a copied hook belongs to still takes new items.
LoopOpen(s) ==
  \E h \in Handlers : /\ req[s].hook = <<h, seg[h]>>
                      /\ pc[h] = "running" /\ native[h] # "stop"

\* The interrupt as a new item of the turn loop; accepted, it is all.  A loop that
\* has stopped by itself refuses, although its session is still open.
PushInterrupt(s) ==
  /\ req[s].pc = "push"
  /\ \/ LoopOpen(s) /\ Answer(s, "ok")
     \/ Answer(s, "runtime")
  /\ UNCHANGED <<task, pc, runVars, tool, started, hist, sweep>>

\* The session's own cancel.  It takes up to seconds; an interrupt it accepts
\* needs no more, a stop goes on to the context.
RuntimeCancel(s) ==
  /\ req[s].pc = "runtime"
  /\ native' = [h \in Handlers |-> IF req[s].hook = <<h, seg[h]>>
                                   THEN req[s].kind ELSE native[h]]
  /\ \/ req[s].kind = "interrupt" /\ LoopOpen(s) /\ Answer(s, "ok")
     \/ Answer(s, "ctx")
  /\ UNCHANGED <<task, pc, seg, cause, bound, tool, started, hist, sweep>>

\* The copied cancel function: only the context it was made for, and only if
\* that one has no cause yet.
CancelCtx(s) ==
  /\ req[s].pc = "ctx"
  /\ cause' = [h \in Handlers |->
                 IF req[s].cancel = <<h, seg[h]>> /\ cause[h] = "none"
                 THEN req[s].kind ELSE cause[h]]
  /\ Answer(s, IF req[s].kind = "stop" THEN "tools" ELSE "ok")
  /\ UNCHANGED <<task, pc, seg, native, bound, tool, started, hist, sweep>>

StopTools(s) ==
  /\ req[s].pc = "tools"
  /\ KillTools
  /\ Answer(s, "ok")
  /\ UNCHANGED <<task, pc, runVars, started, hist, sweep>>

-----------------------------------------------------------------------------
(* cleanupStuckCancelling.                                                 *)

\* Faulty variant: tasks that are not cancelling are collected.
SweepCollectOthers ==
  /\ StuckSweep /\ sweep = "idle"
  /\ task # NoTask /\ task.status # "cancelling"
  /\ sweep' = "finish"
  /\ UNCHANGED <<task, pc, runVars, tool, started, hist, req>>

\* Under the lock: a task that has been cancelling for long enough (time is
\* left out: any one that is cancelling).
SweepCollect ==
  /\ StuckSweep /\ sweep = "idle"
  /\ task # NoTask /\ task.status = "cancelling"
  /\ sweep' = "finish"
  /\ UNCHANGED <<task, pc, runVars, tool, started, hist, req>>

\* FinishTask of the conversation, the lock taken again.
SweepFinish ==
  /\ sweep = "finish"
  /\ IF task = NoTask
     THEN sweep' = "idle" /\ UNCHANGED <<task, hist>>
     ELSE RemoveTask /\ sweep' = "tail"
  /\ UNCHANGED <<pc, runVars, tool, started, req>>

SweepTail ==
  /\ sweep = "tail"
  /\ KillTools
  /\ sweep' = "idle"
  /\ UNCHANGED <<task, pc, runVars, started, hist, req>>

-----------------------------------------------------------------------------
HandlerStep(h) ==
  \/ RejectConfig(h)
  \/ StartTask(h)
  \/ BindHooks(h)
  \/ SegmentEnds(h)
  \/ ToolStarts(h)
  \/ ToolEnds(h)
  \/ ContinueRun(h)
  \/ Deliver(h)
  \/ \E c \in Causes \cup {"none"} : HandleError(h, c)
  \/ Rebind(h)
  \/ Restatus(h)
  \/ FinishTask(h)
  \/ FinishTail(h)

StopperStep(s) ==
  \/ BeginStop(s)
  \/ BeginInterrupt(s)
  \/ Snapshot(s)
  \/ PushInterrupt(s)
  \/ RuntimeCancel(s)
  \/ CancelCtx(s)
  \/ StopTools(s)

SweepStep == SweepCollect \/ SweepFinish \/ SweepTail

Next ==
  \/ \E h \in Handlers : HandlerStep(h)
  \/ \E s \in Stoppers : StopperStep(s)
  \/ SweepStep

Spec == Init /\ [][Next]_vars

\* The sweep runs on a ticker of the process; nothing is assumed of the
\* handlers, which may be stuck in a step for good.
FairSpec == Spec /\ WF_vars(SweepStep)

-----------------------------------------------------------------------------
(* Properties.  The first four are about the table without its sweep and   *)
(* without robot requests: with either of them two runs can overlap, and   *)
(* the claims at the end show what is lost then.                           *)

\* Two handlers never run the agent in one conversation at the same time:
\* neither a duplicate request nor the end of an earlier run lets a second
\* one start.  It follows from RunIsRegistered.
OneRunPerConversation ==
  \A g, h \in Handlers : pc[g] \in RunPcs /\ pc[h] \in RunPcs => g = h

\* While a run is going on, in every window between two of its calls, it is the
\* registered task, and the cancel function in the table is the one of the
\* context its current segment runs under.
RunIsRegistered ==
  \A h \in Handlers : pc[h] \in RunPcs =>
    task # NoTask /\ task.owner = h /\ task.cancel = <<h, seg[h]>>

\* CancelTask copies the cancel function and the hook, which are bound in separate
\* calls, and uses the copies after it has released the lock, when the handler may
\* have gone on: whatever they still reach, the context and the session that are
\* cut belong to one segment, the one whose session the request found open.
CopiesHitOneSegment ==
  [][\A s \in Stoppers : req[s].hook # NoHook /\ req'[s] # req[s] =>
       \A h \in Handlers : cause'[h] # cause[h] \/ native'[h] # native[h] =>
         req[s].hook = <<h, seg[h]>>]_vars

\* A stop that reached the context of a segment before the handler decided to
\* go on makes that segment the last one.
StoppedSegmentIsLast ==
  [][\A h \in Handlers : cause[h] = "stop" /\ pc[h] # "rebind" =>
       pc'[h] # "rebind" /\ seg'[h] = seg[h]]_vars

\* Whoever removes it - its handler, a robot's refused request or the sweep -
\* a started task is either in the table or once in the history.
StartedTaskAccounted ==
  \A h \in Handlers :
    /\ hist[h] \in {0, 1}
    /\ h \in started <=> hist[h] = 1 \/ (task # NoTask /\ task.owner = h)
    /\ hist[h] = 1 => ~(task # NoTask /\ task.owner = h)

\* A conversation does not stay in "cancelling", even if the handler of its
\* task never takes another step.
CancellingReleased ==
  \A h \in Handlers :
    LET Cancelling == /\ task # NoTask
                      /\ task.owner = h /\ task.status = "cancelling"
    IN  Cancelling ~> ~Cancelling

\* Claimed by the code: only the handler that started a task, or the sweep,
\* removes it.
OnlyOwnerFinishes ==
  [][task # NoTask /\ task' = NoTask =>
       pc[task.owner] = "finish" \/ sweep = "finish"]_vars

\* A stop request whose cancel function has been called on a run of h.
StopDelivered(h) ==
  \E s \in Stoppers :
    /\ req[s].kind = "stop" /\ req[s].pc \in {"tools", "ok"}
    /\ req[s].cancel # NoHook /\ req[s].cancel[1] = h

\* Claimed by the code: once a stop has gone through, the run begins no further
\* segment.
StopHonoured ==
  [][\A h \in Handlers : StopDelivered(h) => seg'[h] = seg[h]]_vars

\* Claimed by the code: a tool is ended only by a cancel request or because the
\* task of its own run is over.
ToolKilledOnlyWhenOver ==
  [][\A h \in Handlers : tool[h] = "running" /\ tool'[h] = "killed" =>
       \/ hist[h] > 0
       \/ \E s \in Stoppers : req'[s] # req[s]]_vars

\* Claimed by the code ("the cancel hook of the segment that is running",
\* task_manager.go:232): as long as its session is open, the task of a run holds the
\* session's own hook.
SessionKeepsHook ==
  \A h \in Handlers :
    pc[h] = "running" /\ bound[h] # 0 /\ task # NoTask /\ task.owner = h =>
      task.hook = <<h, seg[h]>>
=============================================================================
