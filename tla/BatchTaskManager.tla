-------------------------- MODULE BatchTaskManager --------------------------
(***************************************************************************)
(* One batch queue (handler/batch_task_manager.go, batch_queue_executor.go *)
(* and the handlers of agent.go that use them).  A queue is in memory and  *)
(* in two tables; an executor runs its tasks with several workers; users   *)
(* start, pause, rerun, delete and edit the queue, or run a single task of *)
(* it, while the workers are at work.  Writes to the database may fail and *)
(* the process may stop at any point.                                      *)
(*                                                                         *)
(* Left out: messages and results, titles, roles and agent modes, the      *)
(* times kept with the statuses, the arithmetic of cron expressions,       *)
(* CurrentIndex (no claim reads it), CancelQueue, GetNextTask and          *)
(* MoveToNextTask (nothing calls them), a queue created although its       *)
(* INSERT failed.  Loading a queue that memory has lost is one step; in    *)
(* the code two loads may overlap, and the slower one publish older rows.  *)
(***************************************************************************)
EXTENDS Naturals, FiniteSets

CONSTANTS
  Tasks,        \* task ids, numbered as the list of the queue orders them
  FirstTasks,   \* the tasks the queue is created with
  Slots,        \* the concurrency of the queue: one worker of an executor each
  Requests,     \* requests of users and ticks of the scheduler, each made once
  Mixes,        \* the mixes of request kinds to be considered
  MaxFaults,    \* bound on failed database writes and process restarts together
  NoTask, NoWorker

\* A request of the kind "none" is never made.
Kinds == {"start", "pause", "rerun", "cron", "single", "delete", "add", "remove", "none"}

ASSUME BatchAssumption ==
  /\ Tasks \subseteq Nat /\ FirstTasks \subseteq Tasks
  /\ Mixes \subseteq [Requests -> Kinds]
  /\ MaxFaults \in Nat
  /\ NoTask \notin Tasks /\ NoWorker \notin Requests \X Slots

\* An executor is known by the request that launched it.
Workers == Requests \X Slots

VARIABLES
  kind,      \* what each request asks for; never changes
  loaded,    \* the queue is in BatchTaskManager.queues
  status,    \* its status in memory
  task,      \* the statuses of its tasks in memory
  row,       \* its status in batch_task_queues, "none" without a row
  taskRow,   \* the statuses in batch_tasks
  mark,      \* queueExecutors: an executor is marked active
  single,    \* singleRunTasks: the only task to be run
  cancels,   \* taskCancels: whose cancel function is registered for each task
  worker,    \* the worker goroutines
  executor,  \* the executeBatchQueue goroutines
  req,       \* the requests
  round,     \* how often each task was reset, a history variable
  faults     \* the failed writes and restarts so far

queue == <<loaded, status, task, row, taskRow>>
run == <<mark, single, cancels, worker, executor>>
bounds == <<round, faults>>
vars == <<kind, queue, run, req, bounds>>

QueueStatuses == {"pending", "running", "paused", "completed", "cancelled"}
Verdicts == {"completed", "failed", "cancelled"}
\* A task is "absent" before it is added; the id of a removed one is not used again.
TaskStatuses == {"absent", "removed", "pending", "running"} \cup Verdicts
WorkerPcs == {"none", "claim", "poll", "announce", "prepare", "register", "run",
              "leave", "take", "pausing", "stopped"}
ExecutorPcs == {"none", "running", "tasks", "complete", "unmark", "ended"}
RequestPcs == {"idle", "reset", "clear", "mark", "launch", "go", "siblings",
               "prepare", "flag", "force", "unflag", "done"}

WorkerStates ==
  [pc : WorkerPcs, task : Tasks \cup {NoTask}, cancelled : BOOLEAN, round : Nat]
RequestStates ==
  [pc : RequestPcs, task : Tasks \cup {NoTask}, siblings : SUBSET Tasks,
   resets : BOOLEAN, resumes : BOOLEAN]

\* A worker between the claim of its task and the report on it.
Busy(w) == worker[w].pc \in {"announce", "prepare", "register", "run"}
\* No single run was asked for so far: nobody recycles the mark of an executor.
Orderly == \A r \in Requests : kind[r] = "single" => req[r].pc = "idle"
\* No reset of tasks may meet the executor that another one launches.
ResetsApart ==
  \A r, q \in Requests :
    kind[r] \in {"rerun", "single"} /\ kind[q] \in {"rerun", "single", "cron"} => r = q

TypeOK ==
  /\ kind \in [Requests -> Kinds]
  /\ loaded \in BOOLEAN
  /\ status \in QueueStatuses
  /\ task \in [Tasks -> TaskStatuses]
  /\ row \in QueueStatuses \cup {"none"}
  /\ taskRow \in [Tasks -> TaskStatuses]
  /\ mark \in BOOLEAN
  /\ single \in Tasks \cup {NoTask}
  /\ cancels \in [Tasks -> Workers \cup {NoWorker}]
  /\ worker \in [Workers -> WorkerStates]
  /\ executor \in [Requests -> ExecutorPcs]
  /\ req \in [Requests -> RequestStates]
  /\ round \in [Tasks -> Nat]
  /\ faults \in 0..MaxFaults

NoWork == [pc |-> "none", task |-> NoTask, cancelled |-> FALSE, round |-> 0]
NewRequest == [pc |-> "idle", task |-> NoTask, siblings |-> {}, resets |-> FALSE,
               resumes |-> FALSE]

\* CreateBatchQueue.
Init ==
  /\ kind \in Mixes
  /\ loaded = TRUE
  /\ status = "pending" /\ row = "pending"
  /\ task = [t \in Tasks |-> IF t \in FirstTasks THEN "pending" ELSE "absent"]
  /\ taskRow = task
  /\ mark = FALSE
  /\ single = NoTask
  /\ cancels = [t \in Tasks |-> NoWorker]
  /\ worker = [w \in Workers |-> NoWork]
  /\ executor = [r \in Requests |-> "none"]
  /\ req = [r \in Requests |-> NewRequest]
  /\ round = [t \in Tasks |-> 0]
  /\ faults = 0

-----------------------------------------------------------------------------
(* The methods of the manager, each one critical section.                  *)

Succeeds == UNCHANGED faults
Fails == faults < MaxFaults /\ faults' = faults + 1

\* UpdateQueueStatus: the row first; without it memory stays as it is.
UpdateQueueStatus(s) ==
  \/ loaded /\ Succeeds /\ status' = s /\ row' = s
  \/ loaded /\ Fails /\ UNCHANGED <<status, row>>
  \/ ~loaded /\ UNCHANGED <<status, row, faults>>

Present == {t \in Tasks : task[t] \notin {"absent", "removed"}}
Unfinished == {t \in Tasks : task[t] \in {"pending", "running"}}

\* Faulty variant: memory first, whatever becomes of the row.
UpdateTaskStatusMemoryFirst(t, s) ==
  IF loaded /\ t \in Present
  THEN /\ task' = [task EXCEPT ![t] = s]
       /\ \/ Succeeds /\ taskRow' = [taskRow EXCEPT ![t] = s]
          \/ Fails /\ UNCHANGED taskRow
  ELSE UNCHANGED <<task, taskRow, faults>>

\* UpdateTaskStatus, by the id of the task; nothing happens to a task that is
\* no longer in the list.
UpdateTaskStatus(t, s) ==
  IF loaded /\ t \in Present
  THEN \/ Succeeds /\ task' = [task EXCEPT ![t] = s]
          /\ taskRow' = [taskRow EXCEPT ![t] = s]
       \/ Fails /\ UNCHANGED <<task, taskRow>>
  ELSE UNCHANGED <<task, taskRow, faults>>

\* The workers whose cancel functions are registered notice the end of their
\* context; the functions are called after the lock is released, when a worker
\* that already left ignores it.
DrainTaskCancels ==
  /\ cancels' = [t \in Tasks |-> NoWorker]
  /\ worker' = [w \in Workers |->
       IF worker[w].pc = "run" /\ \E t \in Tasks : cancels[t] = w
       THEN [worker[w] EXCEPT !.cancelled = TRUE] ELSE worker[w]]

\* batchQueueExecutionShouldStop
ShouldStop == ~loaded \/ status \in {"cancelled", "completed", "paused"}

Step(w, next) == worker' = [worker EXCEPT ![w].pc = next]
\* The worker is done with its task.
Drop(w, next) == worker' = [worker EXCEPT ![w] = [NoWork EXCEPT !.pc = next]]

-----------------------------------------------------------------------------
(* The workers and the executor.                                           *)

\* The top of runBatchQueueWorker's loop and ClaimNextPendingTask, which checks
\* the queue again: the first pending task of the list, or the single one; only
\* memory says that it runs.
ClaimTask(w) ==
  LET claimable == {t \in Tasks : task[t] = "pending" /\ single \in {NoTask, t}}
  IN /\ worker[w].pc = "claim"
     /\ IF ~ShouldStop /\ claimable # {}
        THEN \E t \in claimable :
               /\ \A u \in claimable : t <= u
               /\ task' = [task EXCEPT ![t] = "running"]
               /\ worker' = [worker EXCEPT ![w] =
                    [pc |-> "announce", task |-> t, cancelled |-> FALSE,
                     round |-> round[t]]]
        ELSE Step(w, IF ShouldStop THEN "stopped" ELSE "poll") /\ UNCHANGED task
     /\ UNCHANGED <<kind, loaded, status, row, taskRow, mark, single, cancels,
                    executor, req, bounds>>

\* Faulty variant: a worker that finds no pending task waits for more.
PollForever(w) ==
  /\ worker[w].pc = "poll"
  /\ Step(w, "claim")
  /\ UNCHANGED <<kind, queue, mark, single, cancels, executor, req, bounds>>

\* Nothing to claim: the worker comes back while other tasks run.
Poll(w) ==
  /\ worker[w].pc = "poll"
  /\ Step(w, IF loaded /\ \E t \in Tasks : task[t] = "running"
             THEN "claim" ELSE "stopped")
  /\ UNCHANGED <<kind, queue, mark, single, cancels, executor, req, bounds>>

\* The worker looks the queue up again and stores that its task runs.
Announce(w) ==
  /\ worker[w].pc = "announce"
  /\ IF loaded THEN UpdateTaskStatus(worker[w].task, "running") /\ Step(w, "prepare")
     ELSE Drop(w, "stopped") /\ UNCHANGED <<task, taskRow, faults>>
  /\ UNCHANGED <<kind, loaded, status, row, mark, single, cancels, executor, req,
                 round>>

\* executeOneBatchSubTask first makes a conversation for the task, unless its
\* owner is gone or the conversation cannot be created.
Prepare(w) ==
  /\ worker[w].pc = "prepare"
  /\ \/ UpdateTaskStatus(worker[w].task, "failed") /\ Step(w, "take")
     \/ UpdateTaskStatus(worker[w].task, "running") /\ Step(w, "register")
  /\ UNCHANGED <<kind, loaded, status, row, mark, single, cancels, executor, req,
                 round>>

\* Only once StartTask has accepted the task comes SetTaskCancel: a pause before
\* it cancels nothing.
Register(w) ==
  /\ worker[w].pc = "register"
  /\ \/ /\ cancels' = [cancels EXCEPT ![worker[w].task] = w]
        /\ Step(w, "run")
        /\ UNCHANGED <<task, taskRow, faults>>
     \/ /\ UpdateTaskStatus(worker[w].task, "failed")
        /\ Step(w, "leave")
        /\ UNCHANGED cancels
  /\ UNCHANGED <<kind, loaded, status, row, mark, single, executor, req, round>>

\* The run ends, by itself, by its timeout, by a stop of its conversation or
\* because it was cancelled, and its verdict is stored under the task's id.
Report(w) ==
  /\ worker[w].pc = "run"
  /\ \E v \in Verdicts : UpdateTaskStatus(worker[w].task, v)
  /\ Step(w, "leave")
  /\ UNCHANGED <<kind, loaded, status, row, mark, single, cancels, executor, req,
                 round>>

\* Deferred SetTaskCancel(nil), by the id of the task.
Leave(w) ==
  /\ worker[w].pc = "leave"
  /\ cancels' = [cancels EXCEPT ![worker[w].task] = NoWorker]
  /\ worker' = [worker EXCEPT ![w] = [NoWork EXCEPT !.pc = "take", !.task = worker[w].task]]
  /\ UNCHANGED <<kind, queue, mark, single, executor, req, bounds>>

\* TakeSingleRunTaskIfMatch
TakeSingleRun(w) ==
  /\ worker[w].pc = "take"
  /\ IF single = worker[w].task THEN single' = NoTask /\ Drop(w, "pausing")
     ELSE Drop(w, "claim") /\ UNCHANGED single
  /\ UNCHANGED <<kind, queue, mark, cancels, executor, req, bounds>>

PauseAfterSingle(w) ==
  /\ worker[w].pc = "pausing"
  /\ UpdateQueueStatus("paused")
  /\ Step(w, "stopped")
  /\ UNCHANGED <<kind, loaded, task, taskRow, mark, single, cancels, executor, req,
                 round>>

WorkerStep(w) ==
  \/ ClaimTask(w)
  \/ Poll(w)
  \/ Announce(w)
  \/ Prepare(w)
  \/ Register(w)
  \/ Report(w)
  \/ Leave(w)
  \/ TakeSingleRun(w)
  \/ PauseAfterSingle(w)

Advance(r, next) == executor' = [executor EXCEPT ![r] = next]

\* executeBatchQueue waits for its workers; tryFinalizeBatchQueue reads the
\* status, then the tasks, and then writes.
WorkersReturn(r) ==
  /\ executor[r] = "running"
  /\ \A s \in Slots : worker[<<r, s>>].pc = "stopped"
  /\ Advance(r, IF loaded /\ status = "running" THEN "tasks" ELSE "unmark")
  /\ UNCHANGED <<kind, queue, mark, single, cancels, worker, req, bounds>>

HasPendingOrRunningTasks(r) ==
  /\ executor[r] = "tasks"
  /\ Advance(r, IF loaded /\ Unfinished # {} THEN "unmark" ELSE "complete")
  /\ UNCHANGED <<kind, queue, mark, single, cancels, worker, req, bounds>>

Complete(r) ==
  /\ executor[r] = "complete"
  /\ UpdateQueueStatus("completed")
  /\ Advance(r, "unmark")
  /\ UNCHANGED <<kind, loaded, task, taskRow, mark, single, cancels, worker, req,
                 round>>

\* UnmarkQueueExecutor, deferred.
Unmark(r) ==
  /\ executor[r] = "unmark"
  /\ mark' = FALSE
  /\ Advance(r, "ended")
  /\ UNCHANGED <<kind, queue, single, cancels, worker, req, bounds>>

ExecutorStep(r) ==
  \/ WorkersReturn(r)
  \/ HasPendingOrRunningTasks(r)
  \/ Complete(r)
  \/ Unmark(r)

-----------------------------------------------------------------------------
(* The requests.                                                           *)

Goto(r, next) == req' = [req EXCEPT ![r].pc = next]

\* StartBatchQueue forgets a single run; the tool that starts queues and
\* CreateBatchQueue's execute-now do not.
ClearSingleRunTask(r) ==
  /\ \/ req[r].pc = "idle" /\ kind[r] = "start"
     \/ req[r].pc = "clear"
  /\ single' \in {single, NoTask}
  /\ Goto(r, "mark")
  /\ UNCHANGED <<kind, queue, mark, cancels, worker, executor, bounds>>

\* Faulty variant: the rerun does not look at the status.
RerunAnyBatchQueue(r) ==
  /\ req[r].pc = "idle" /\ kind[r] = "rerun"
  /\ Goto(r, IF loaded THEN "reset" ELSE "done")
  /\ UNCHANGED <<kind, queue, run, bounds>>

\* RerunBatchQueue, for what is completed or cancelled.
RerunBatchQueue(r) ==
  /\ req[r].pc = "idle" /\ kind[r] = "rerun"
  /\ Goto(r, IF loaded /\ status \in {"completed", "cancelled"}
             THEN "reset" ELSE "done")
  /\ UNCHANGED <<kind, queue, run, bounds>>

\* A tick of batchQueueSchedulerLoop that finds the queue due.
ScheduleTick(r) ==
  /\ req[r].pc = "idle" /\ kind[r] = "cron"
  /\ Goto(r, IF loaded /\ status \in {"pending", "completed"} THEN "mark" ELSE "done")
  /\ UNCHANGED <<kind, queue, run, bounds>>

\* ResetQueueForRerun: every task is pending again, whatever it was.
ResetQueueForRerun(r) ==
  /\ req[r].pc = "reset"
  /\ \/ /\ loaded /\ Succeeds
        /\ status' = "pending" /\ row' = "pending"
        /\ task' = [t \in Tasks |-> IF t \in Present THEN "pending" ELSE task[t]]
        /\ taskRow' = [t \in Tasks |-> IF t \in Present THEN "pending" ELSE taskRow[t]]
        /\ round' = [t \in Tasks |-> IF t \in Present THEN round[t] + 1 ELSE round[t]]
        /\ Goto(r, IF kind[r] = "cron" THEN "go" ELSE "clear")
        /\ UNCHANGED mark
     \/ /\ IF loaded THEN Fails ELSE Succeeds
        /\ mark' = (mark /\ kind[r] # "cron")
        /\ Goto(r, "done")
        /\ UNCHANGED <<status, row, task, taskRow, round>>
  /\ UNCHANGED <<kind, loaded, single, cancels, worker, executor>>

\* Faulty variant: the mark is not looked at.
TryMarkAnyway(r) ==
  /\ req[r].pc = "mark"
  /\ mark' = TRUE
  /\ Goto(r, "launch")
  /\ UNCHANGED <<kind, queue, single, cancels, worker, executor, bounds>>

\* startBatchQueueExecution takes the mark; without it the request is answered
\* as if it had started the queue.
TryMarkQueueExecutor(r) ==
  /\ req[r].pc = "mark"
  /\ mark' = TRUE
  /\ Goto(r, IF mark THEN "done" ELSE "launch")
  /\ UNCHANGED <<kind, queue, single, cancels, worker, executor, bounds>>

\* It reads the status under the mark and gives the mark back when it refuses.
Launch(r) ==
  /\ req[r].pc = "launch"
  /\ LET allowed == loaded /\ status \in (IF kind[r] = "cron"
                                          THEN {"pending", "completed"}
                                          ELSE {"pending", "paused"})
     IN /\ mark' = allowed
        /\ Goto(r, IF ~allowed THEN IF kind[r] = "single" THEN "unflag" ELSE "done"
                   ELSE IF kind[r] = "cron" THEN "reset" ELSE "go")
  /\ UNCHANGED <<kind, queue, single, cancels, worker, executor, bounds>>

\* It refuses a queue for several agents while the configuration has them disabled,
\* a queue that is due after it has been reset.
RefuseDisabled(r) ==
  /\ req[r].pc = "go"
  /\ mark' = FALSE
  /\ Goto(r, IF kind[r] = "single" THEN "unflag" ELSE "done")
  /\ UNCHANGED <<kind, queue, single, cancels, worker, executor, bounds>>

\* The status is written and, written or not, the executor starts.
Go(r) ==
  /\ req[r].pc = "go"
  /\ UpdateQueueStatus("running")
  /\ Advance(r, "running")
  /\ worker' = [w \in Workers |->
                  IF w[1] = r THEN [worker[w] EXCEPT !.pc = "claim"] ELSE worker[w]]
  /\ Goto(r, "done")
  /\ UNCHANGED <<kind, loaded, task, taskRow, mark, single, cancels, round>>

\* Faulty variant: the cancel functions stay registered and are not called.
PauseWithoutCancel(r) ==
  /\ req[r].pc = "idle" /\ kind[r] = "pause"
  /\ IF loaded /\ status = "running"
     THEN UpdateQueueStatus("paused") /\ cancels' = [t \in Tasks |-> NoWorker]
          /\ UNCHANGED worker
     ELSE UNCHANGED <<status, row, faults, cancels, worker>>
  /\ Goto(r, "done")
  /\ UNCHANGED <<kind, loaded, task, taskRow, mark, single, executor, round>>

\* PauseQueue
PauseQueue(r) ==
  /\ req[r].pc = "idle" /\ kind[r] = "pause"
  /\ \/ /\ loaded /\ status = "running" /\ Succeeds
        /\ status' = "paused" /\ row' = "paused"
        /\ DrainTaskCancels
     \/ /\ IF loaded /\ status = "running" THEN Fails ELSE Succeeds
        /\ UNCHANGED <<status, row, cancels, worker>>
  /\ Goto(r, "done")
  /\ UNCHANGED <<kind, loaded, task, taskRow, mark, single, executor, round>>

\* PrepareSingleTaskRun, the first half: of a paused queue the running tasks
\* are cancelled, and the siblings among them are to be marked so.
PrepareSingle(r) ==
  /\ req[r].pc = "idle" /\ kind[r] = "single"
  /\ \/ \E t \in Present :
          /\ loaded /\ status # "running" /\ task[t] # "running"
          /\ req' = [req EXCEPT ![r] =
               [pc |-> "siblings", task |-> t,
                siblings |-> IF status = "paused"
                             THEN {u \in Tasks : task[u] = "running"} ELSE {},
                resets |-> task[t] # "pending",
                resumes |-> status \in {"completed", "cancelled"}]]
          /\ IF status = "paused" THEN DrainTaskCancels ELSE UNCHANGED <<cancels, worker>>
     \/ Goto(r, "done") /\ UNCHANGED <<cancels, worker>>
  /\ UNCHANGED <<kind, queue, mark, single, executor, bounds>>

CancelSiblings(r) ==
  /\ req[r].pc = "siblings"
  /\ IF req[r].siblings = {}
     THEN Goto(r, "prepare") /\ UNCHANGED <<task, taskRow, faults>>
     ELSE \E t \in req[r].siblings :
            /\ UpdateTaskStatus(t, "cancelled")
            /\ req' = [req EXCEPT ![r].siblings = @ \ {t}]
  /\ UNCHANGED <<kind, loaded, status, row, run, round>>

\* The second half: what was decided in the first is applied, whatever the
\* status is by now.
ResetSingle(r) ==
  /\ req[r].pc = "prepare"
  /\ LET t == req[r].task IN
     \/ /\ loaded /\ t \in Present /\ Succeeds
        /\ IF req[r].resets
           THEN /\ task' = [task EXCEPT ![t] = "pending"]
                /\ taskRow' = [taskRow EXCEPT ![t] = "pending"]
                /\ round' = [round EXCEPT ![t] = @ + 1]
           ELSE UNCHANGED <<task, taskRow, round>>
        /\ IF req[r].resumes THEN status' = "paused" /\ row' = "paused"
           ELSE UNCHANGED <<status, row>>
        /\ Goto(r, "flag")
     \/ /\ IF loaded /\ t \in Present THEN Fails ELSE Succeeds
        /\ req' = [req EXCEPT ![r] = [NewRequest EXCEPT !.pc = "done"]]
        /\ UNCHANGED <<status, row, task, taskRow, round>>
  /\ UNCHANGED <<kind, loaded, run>>

SetSingleRunTask(r) ==
  /\ req[r].pc = "flag"
  /\ single' = req[r].task
  /\ req' = [req EXCEPT ![r] = [NewRequest EXCEPT !.pc = "force"]]
  /\ UNCHANGED <<kind, queue, mark, cancels, worker, executor, bounds>>

\* RunSingleBatchTask takes the mark of a paused queue from an executor that
\* may still be at work.
ForceUnmark(r) ==
  /\ req[r].pc = "force"
  /\ mark' = (mark /\ ~(loaded /\ status = "paused"))
  /\ Goto(r, "mark")
  /\ UNCHANGED <<kind, queue, single, cancels, worker, executor, bounds>>

ClearRefusedSingle(r) ==
  /\ req[r].pc = "unflag"
  /\ single' = NoTask
  /\ Goto(r, "done")
  /\ UNCHANGED <<kind, queue, mark, cancels, worker, executor, bounds>>

\* Faulty variant: only the status is checked.
DeleteQueueUnmarked(r) ==
  /\ req[r].pc = "idle" /\ kind[r] = "delete"
  /\ IF loaded /\ status # "running"
     THEN /\ loaded' = FALSE
          /\ cancels' = [t \in Tasks |-> NoWorker]
          /\ row' = "none" /\ taskRow' = [t \in Tasks |-> "absent"]
     ELSE UNCHANGED <<loaded, cancels, row, taskRow>>
  /\ Goto(r, "done")
  /\ UNCHANGED <<kind, status, task, mark, single, worker, executor, bounds>>

\* DeleteQueue: when the rows cannot be deleted the queue still leaves memory.
DeleteQueue(r) ==
  /\ req[r].pc = "idle" /\ kind[r] = "delete"
  /\ IF loaded /\ ~mark /\ status # "running"
     THEN /\ loaded' = FALSE
          /\ cancels' = [t \in Tasks |-> NoWorker]
          /\ \/ Succeeds /\ row' = "none" /\ taskRow' = [t \in Tasks |-> "absent"]
             \/ Fails /\ UNCHANGED <<row, taskRow>>
     ELSE UNCHANGED <<loaded, cancels, row, taskRow, faults>>
  /\ Goto(r, "done")
  /\ UNCHANGED <<kind, status, task, mark, single, worker, executor, round>>

\* queueAllowsTaskListMutationLocked
MayEditList == loaded /\ status # "running" /\ \A t \in Tasks : task[t] # "running"

\* AddTaskToQueue and DeleteTask; both undo or skip what the database refuses.
EditList(r) ==
  /\ req[r].pc = "idle" /\ kind[r] \in {"add", "remove"}
  /\ \/ /\ MayEditList /\ Succeeds
        /\ \E t \in Tasks :
             /\ IF kind[r] = "remove" THEN t \in Present
                ELSE task[t] = "absent" /\ \A u \in Tasks : task[u] # "absent" => u < t
             /\ LET s == IF kind[r] = "add" THEN "pending" ELSE "removed"
                IN task' = [task EXCEPT ![t] = s] /\ taskRow' = [taskRow EXCEPT ![t] = s]
     \/ UNCHANGED <<task, taskRow>> /\ (Succeeds \/ Fails)
  /\ Goto(r, "done")
  /\ UNCHANGED <<kind, loaded, status, row, run, round>>

RequestStep(r) ==
  \/ ClearSingleRunTask(r)
  \/ RerunBatchQueue(r)
  \/ ScheduleTick(r)
  \/ ResetQueueForRerun(r)
  \/ TryMarkQueueExecutor(r)
  \/ Launch(r)
  \/ RefuseDisabled(r)
  \/ Go(r)
  \/ PauseQueue(r)
  \/ PrepareSingle(r)
  \/ CancelSiblings(r)
  \/ ResetSingle(r)
  \/ SetSingleRunTask(r)
  \/ ForceUnmark(r)
  \/ ClearRefusedSingle(r)
  \/ DeleteQueue(r)
  \/ EditList(r)

-----------------------------------------------------------------------------
(* The process.                                                            *)

\* Faulty variant: a missing row is not noticed.
LoadRowsUnchecked ==
  /\ loaded' = TRUE
  /\ status' = row /\ task' = taskRow
  /\ UNCHANGED <<row, taskRow>>

\* loadQueueFromDB
LoadRows ==
  /\ loaded' = (row # "none")
  /\ status' = IF row = "none" THEN status ELSE row
  /\ task' = IF row = "none" THEN task ELSE taskRow
  /\ UNCHANGED <<row, taskRow>>

\* GetBatchQueue finds in the tables a queue that memory no longer has.
GetBatchQueue ==
  /\ ~loaded /\ row # "none"
  /\ LoadRows
  /\ UNCHANGED <<kind, run, req, bounds>>

\* The process stops and starts; LoadFromDB takes the rows as they are.
Restart ==
  /\ Fails
  /\ LoadRows
  /\ mark' = FALSE /\ single' = NoTask
  /\ cancels' = [t \in Tasks |-> NoWorker]
  /\ worker' = [w \in Workers |->
                  IF worker[w].pc = "none" THEN NoWork ELSE [NoWork EXCEPT !.pc = "stopped"]]
  /\ executor' = [r \in Requests |-> IF executor[r] = "none" THEN "none" ELSE "ended"]
  /\ req' = [r \in Requests |-> IF req[r].pc = "idle" THEN req[r]
                                ELSE [NewRequest EXCEPT !.pc = "done"]]
  /\ UNCHANGED <<kind, round>>

Next ==
  \/ \E w \in Workers : WorkerStep(w)
  \/ \E r \in Requests : ExecutorStep(r) \/ RequestStep(r)
  \/ GetBatchQueue
  \/ Restart

Spec == Init /\ [][Next]_vars

\* Go runs its goroutines; a run ends at the latest with its six hours.
FairSpec ==
  /\ Spec
  /\ \A w \in Workers : WF_vars(WorkerStep(w))
  /\ \A r \in Requests : WF_vars(ExecutorStep(r))

-----------------------------------------------------------------------------
(* Properties.                                                             *)

\* Every method writes the row before the memory: what memory says of the queue
\* is what a restarted process would read, but for a task whose worker has not
\* yet stored that it runs.
MemoryFollowsDatabase ==
  loaded => /\ row = status
            /\ \A t \in Tasks : \/ task[t] = taskRow[t]
                                \/ task[t] = "running" /\ taskRow[t] = "pending"

\* A worker reports under the id of its task, so nobody may reset the task
\* while the worker is at work on it: its verdict would be taken for the next
\* round's, and a second worker could claim the task beside it.  Two resets at once,
\* or a rerun beside the scheduler, do that: neither takes the mark first.
VerdictIsOfThisRound ==
  ResetsApart => \A w \in Workers : Busy(w) => worker[w].round = round[worker[w].task]

\* Cancel functions are registered and removed by the task's id, and drained by
\* a pause: a worker at its run either still has its own function registered or
\* has been cancelled, so a pause always reaches it.
RunCanBeCancelled ==
  Orderly /\ ResetsApart => \A w \in Workers : worker[w].pc = "run" =>
    worker[w].cancelled \/ cancels[worker[w].task] = w

\* tryFinalizeBatchQueue reads the status and the tasks one after the other and
\* then writes; still, a queue is completed only when no worker is at a task.
CompletedIsOver ==
  Orderly /\ loaded /\ status = "completed" => \A w \in Workers : ~Busy(w)

\* DeleteQueue is refused while an executor is active: no worker loses the
\* queue under its feet.
DeletedOnlyWhenIdle ==
  Orderly /\ ~loaded => \A w \in Workers : ~Busy(w)

\* Workers that find nothing to claim come back while others run; they all
\* return in the end, and with them the executor, unless memory has a task that
\* runs without a worker: a restart or a failed write leaves one behind, and the
\* workers then wait for it for ever.
ExecutorEnds ==
  (\E r \in Requests : executor[r] = "running") ~>
    \/ \A r \in Requests : executor[r] # "running"
    \/ \E t \in Tasks : /\ task[t] = "running"
                        /\ \A w \in Workers : Busy(w) => worker[w].task # t
=============================================================================
