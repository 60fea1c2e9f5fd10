-------------------------- MODULE ExecutionService --------------------------
(***************************************************************************)
(* Tool executions (mcp/execution_service.go) with the record each leaves  *)
(* in tool_executions (database/monitor.go) and the reconciler that closes *)
(* records nobody works on (monitor/reconcile.go).  An execution is a      *)
(* worker goroutine; the agent that submitted it may stop waiting and come *)
(* back later, users may cancel it, the in-memory table forgets finished   *)
(* entries above a limit, writes to the table fail silently, and the       *)
(* process may stop at any point.                                          *)
(*                                                                         *)
(* Left out: arguments, results beyond their kind, partial output.         *)
(***************************************************************************)
EXTENDS Naturals, FiniteSets

CONSTANTS
  Execs,        \* executions, each submitted at most once
  Waiters,      \* calls of Wait
  MaxInMemory,  \* maxInMemory, the limit of the in-memory table
  Timed,        \* executions submitted with a hard timeout
  Outcomes,     \* what tools do beside noticing their context
  Lossy,        \* executions whose writes to tool_executions may fail
  MaxRestarts,  \* bound on process restarts
  NoExec

ASSUME ExecutionAssumption ==
  /\ MaxInMemory \in Nat \ {0}
  /\ Timed \subseteq Execs
  /\ "ok" \in Outcomes /\ Outcomes \subseteq {"ok", "blocked", "failure"}
  /\ Lossy \subseteq Execs
  /\ MaxRestarts \in Nat
  /\ NoExec \notin Execs

VARIABLES
  entries,   \* executions in the in-memory table
  status,    \* entry.exec.Status; the entry outlives its place in the table
  result,    \* what the tool returned to its worker, until finishEntry stores it
  note,      \* abortUserNotes: executions with a pending user note
  ctx,       \* the context of each worker: alive, or why it ended (once done is
             \* closed nobody asks why)
  pc,        \* where the worker of each execution is
  done,      \* executions whose done channel is closed
  called,    \* how often OnDone was called
  row,       \* the stored status
  births,    \* submission order, the start times
  young,     \* executions submitted less than staleRunningMinAge ago
  wait,      \* the calls of Wait
  tick,      \* the reconciler: idle, or the live ids or stale rows it collected
  restarts

vars == <<entries, status, result, note, ctx, pc, done, called, row, births,
          young, wait, tick, restarts>>
memory == <<entries, status, result, note, ctx, done, called, births, young>>

Verdicts == {"completed", "blocked", "failed", "cancelled", "hard_timeout"}
Results == {"ok", "blocked", "failure", "cancelled", "deadline"}
WorkerPcs == {"submitting", "prerun", "markrunning", "run", "finish", "settle",
              "persist", "callback", "close"}
Log == INSTANCE ToolExecutionLog WITH Execs <- Execs, Verdicts <- Verdicts, row <- row

Terminal(e) == status[e] \in Verdicts
Alive(e) == pc[e] \in WorkerPcs

TypeOK ==
  /\ entries \subseteq Execs
  /\ status \in [Execs -> {"none", "queued", "running"} \cup Verdicts]
  /\ result \in [Execs -> Results \cup {"none"}]
  /\ note \subseteq Execs
  /\ ctx \in [Execs -> {"alive", "cancelled", "deadline"}]
  /\ pc \in [Execs -> WorkerPcs \cup {"none", "closed", "dead"}]
  /\ done \subseteq Execs
  /\ called \in [Execs -> Nat]
  /\ row \in [Execs -> Log!Statuses]
  /\ births \in [Execs -> Nat]
  /\ young \subseteq Execs
  /\ wait \in [Waiters ->
       [pc : {"idle", "waiting", "returned"},
        exec : Execs \cup {NoExec}]]
  /\ tick \in [pc : {"idle", "active", "stale"}, ids : SUBSET Execs]
  /\ restarts \in 0..MaxRestarts

Init ==
  /\ entries = {}
  /\ status = [e \in Execs |-> "none"]
  /\ result = [e \in Execs |-> "none"]
  /\ note = {}
  /\ ctx = [e \in Execs |-> "alive"]
  /\ pc = [e \in Execs |-> "none"]
  /\ done = {}
  /\ called = [e \in Execs |-> 0]
  /\ row = [e \in Execs |-> "none"]
  /\ births = [e \in Execs |-> 0]
  /\ young = {}
  /\ wait = [w \in Waiters |-> [pc |-> "idle", exec |-> NoExec]]
  /\ tick = [pc |-> "idle", ids |-> {}]
  /\ restarts = 0

Goto(e, next) == pc' = [pc EXCEPT ![e] = next]

\* SaveToolExecution, INSERT OR REPLACE; its error is only logged.
Save(e, value) ==
  \/ row' = [row EXCEPT ![e] = value]
  \/ e \in Lossy /\ UNCHANGED row

-----------------------------------------------------------------------------
(* Submit and the worker.                                                  *)

\* Faulty variant: the oldest entries go, whether they have finished or not.
ForgottenOldest(table) ==
  {e \in table : Cardinality({d \in table : births[d] < births[e]})
                  < Cardinality(table) - MaxInMemory}

\* cleanupOldEntriesLocked: above the limit the terminal entries that started
\* first are forgotten, as many as are needed.
Forgotten(table) ==
  LET over == IF Cardinality(table) > MaxInMemory
              THEN Cardinality(table) - MaxInMemory ELSE 0
      terminal == {e \in table : Terminal(e)}
  IN {e \in terminal :
        Cardinality({d \in terminal : births[d] < births[e]}) < over}

\* Submit, under the lock.
Submit(e) ==
  /\ pc[e] = "none"
  /\ status' = [status EXCEPT ![e] = "queued"]
  /\ entries' = (entries \cup {e}) \ Forgotten(entries \cup {e})
  /\ births' = [births EXCEPT ![e] =
                  Cardinality({d \in Execs : pc[d] # "none"}) + 1]
  /\ young' = young \cup {e}
  /\ Goto(e, "submitting")
  /\ UNCHANGED <<result, note, ctx, done, called, row, wait, tick, restarts>>

\* Submit stores the queued record and starts the worker.
SaveQueued(e) ==
  /\ pc[e] = "submitting"
  /\ Save(e, "queued")
  /\ Goto(e, "prerun")
  /\ UNCHANGED <<memory, wait, tick, restarts>>

\* A worker can report that its context ended only when it did.
FromContext(e) == {r \in {"cancelled", "deadline"} : r = ctx[e]}

\* runWorker: preRun waits for admission; the guard, the connection or the end
\* of the context while it waits for a slot may refuse.
PreRun(e) ==
  /\ pc[e] = "prerun"
  /\ \/ Goto(e, "markrunning") /\ UNCHANGED result
     \/ \E r \in (Outcomes \ {"ok"}) \cup FromContext(e) :
          result' = [result EXCEPT ![e] = r] /\ Goto(e, "finish")
  /\ UNCHANGED <<entries, status, note, ctx, done, called, row, births, young,
                 wait, tick, restarts>>

\* markEntryRunning, the lock and then the write, seen from outside as the
\* status first.
MarkRunning(e) ==
  /\ pc[e] = "markrunning"
  /\ IF status[e] = "queued"
     THEN status' = [status EXCEPT ![e] = "running"] /\ UNCHANGED <<row, pc>>
     ELSE Save(e, "running") /\ Goto(e, "run") /\ UNCHANGED status
  /\ UNCHANGED <<entries, result, note, ctx, done, called, births, young, wait,
                 tick, restarts>>

\* The tool returns a result (a background wait counts as "ok"), is blocked by
\* the guard, fails, panics or returns an error result ("failure"), or notices
\* that its context ended.
RunReturns(e) ==
  /\ pc[e] = "run"
  /\ \E r \in Outcomes \cup FromContext(e) :
       result' = [result EXCEPT ![e] = r]
  /\ Goto(e, "finish")
  /\ UNCHANGED <<entries, status, note, ctx, done, called, row, births, young,
                 wait, tick, restarts>>

\* finishEntry takes the user's note first: unless the guard blocked the call,
\* the result becomes the partial output with the note, an error result.
TakeNote(e) ==
  /\ pc[e] = "finish"
  /\ note' = note \ {e}
  /\ result' = IF e \in note /\ result[e] # "blocked"
               THEN [result EXCEPT ![e] = "cancelled"] ELSE result
  /\ Goto(e, "settle")
  /\ UNCHANGED <<entries, status, ctx, done, called, row, births, young, wait,
                 tick, restarts>>

\* Faulty variant: the hard timeout is not mapped to a stored status.
VerdictOfUnmapped(r) ==
  CASE r = "ok"        -> "completed"
    [] r = "failure"   -> "failed"
    [] OTHER           -> r

\* The switch of finishEntry.
VerdictOf(r) ==
  CASE r = "ok"        -> "completed"
    [] r = "blocked"   -> "blocked"
    [] r = "cancelled" -> "cancelled"
    [] r = "deadline"  -> "hard_timeout"
    [] OTHER           -> "failed"

\* finishEntry, under the lock.
Settle(e) ==
  /\ pc[e] = "settle"
  /\ status' = [status EXCEPT ![e] = VerdictOf(result[e])]
  /\ result' = [result EXCEPT ![e] = "none"]
  /\ Goto(e, "persist")
  /\ UNCHANGED <<entries, note, ctx, done, called, row, births, young,
                 wait, tick, restarts>>

\* finishEntry, the lock released.
Persist(e) ==
  /\ pc[e] = "persist"
  /\ Save(e, status[e])
  /\ Goto(e, "callback")
  /\ UNCHANGED <<memory, wait, tick, restarts>>

CallOnDone(e) ==
  /\ pc[e] = "callback"
  /\ called' = [called EXCEPT ![e] = @ + 1]
  /\ Goto(e, "close")
  /\ UNCHANGED <<entries, status, result, note, ctx, done, row, births, young,
                 wait, tick, restarts>>

\* runWorker's deferred end: the context is released, then done is closed.
CloseDone(e) ==
  /\ pc[e] = "close"
  /\ ctx' = [ctx EXCEPT ![e] = "cancelled"]
  /\ done' = done \cup {e}
  /\ Goto(e, "closed")
  /\ UNCHANGED <<entries, status, result, note, called, row, births, young,
                 wait, tick, restarts>>

-----------------------------------------------------------------------------
(* Users and agents.                                                       *)

\* Cancel and CancelAll: a live entry, with or without a note.
Cancel(e, withNote) ==
  /\ e \in entries /\ ~Terminal(e)
  /\ note' = IF withNote THEN note \cup {e} ELSE note
  /\ ctx' = [ctx EXCEPT ![e] = IF @ = "alive" THEN "cancelled" ELSE @]
  /\ UNCHANGED <<entries, status, result, pc, done, called, row, births, young,
                 wait, tick, restarts>>

\* The hard timeout of the worker's context, while the worker still looks at it.
HardTimeout(e) ==
  /\ e \in Timed /\ pc[e] \in {"prerun", "run"} /\ ctx[e] = "alive"
  /\ ctx' = [ctx EXCEPT ![e] = "deadline"]
  /\ UNCHANGED <<entries, status, result, note, pc, done, called, row, births,
                 young, wait, tick, restarts>>

Return(w, outcome, e) ==
  wait' = [wait EXCEPT ![w] = [pc |-> outcome, exec |-> e]]

\* Wait, the lookup: an entry is waited for, without one the stored record is
\* the answer (an unknown id is an error and left out).
WaitBegins(w, e) ==
  /\ wait[w].pc = "idle"
  /\ IF e \in entries THEN Return(w, "waiting", e)
     ELSE row[e] # "none" /\ Return(w, "returned", e)
  /\ UNCHANGED <<memory, pc, row, tick, restarts>>

WaitSeesDone(w) ==
  /\ wait[w].pc = "waiting" /\ wait[w].exec \in done
  /\ Return(w, "returned", wait[w].exec)
  /\ UNCHANGED <<memory, pc, row, tick, restarts>>

\* Faulty variant: the timeout is not reported.
WaitTimesOutSilently(w) ==
  /\ wait[w].pc = "waiting"
  /\ Return(w, "returned", wait[w].exec)
  /\ UNCHANGED <<memory, pc, row, tick, restarts>>

\* The wait times out or its caller goes away: the state so far, with an error.
\* The caller may come back (wait_tool_execution).
WaitTimesOut(w) ==
  /\ wait[w].pc = "waiting"
  /\ Return(w, "idle", NoExec)
  /\ UNCHANGED <<memory, pc, row, tick, restarts>>

-----------------------------------------------------------------------------
(* The reconciler and the process.                                         *)

\* An execution reaches the minimum age of the reconciler.  A tick fixes its
\* cutoff before anything else, so none gets old in the middle of one.
GetsOld(e) ==
  /\ e \in young /\ tick.pc = "idle"
  /\ young' = young \ {e}
  /\ UNCHANGED <<entries, status, result, note, ctx, pc, done, called, row,
                 births, wait, tick, restarts>>

\* Faulty variant: a finished execution counts as live while it is in memory.
TickActiveAll ==
  /\ tick.pc = "idle"
  /\ tick' = [pc |-> "active", ids |-> entries]
  /\ UNCHANGED <<memory, pc, row, wait, restarts>>

\* ReconcileStaleRunning asks the services for their live executions first.
TickActive ==
  /\ tick.pc = "idle"
  /\ tick' = [pc |-> "active", ids |-> {e \in entries : ~Terminal(e)}]
  /\ UNCHANGED <<memory, pc, row, wait, restarts>>

\* Faulty variant: no minimum age.
TickSelectAll ==
  /\ tick.pc = "active"
  /\ tick' = [pc |-> "stale",
              ids |-> {e \in Execs : row[e] = "running"} \ tick.ids]
  /\ UNCHANGED <<memory, pc, row, wait, restarts>>

\* FinalizeStaleRunningToolExecutions, the SELECT.
TickSelect ==
  /\ tick.pc = "active"
  /\ tick' = [pc |-> "stale",
              ids |-> {e \in Execs : row[e] = "running" /\ e \notin young} \ tick.ids]
  /\ UNCHANGED <<memory, pc, row, wait, restarts>>

\* Faulty variant: the UPDATE is by id alone.
TickUpdateById(e) ==
  /\ tick.pc = "stale" /\ e \in tick.ids
  /\ Save(e, "orphaned")
  /\ tick' = [tick EXCEPT !.ids = @ \ {e}]
  /\ UNCHANGED <<memory, pc, wait, restarts>>

\* One UPDATE ... WHERE id=? AND status='running'.
TickUpdate(e) ==
  /\ tick.pc = "stale" /\ e \in tick.ids
  /\ IF row[e] = "running" THEN Save(e, "orphaned") ELSE UNCHANGED row
  /\ tick' = [tick EXCEPT !.ids = @ \ {e}]
  /\ UNCHANGED <<memory, pc, wait, restarts>>

TickEnds ==
  /\ tick.pc = "stale" /\ tick.ids = {}
  /\ tick' = [pc |-> "idle", ids |-> {}]
  /\ UNCHANGED <<memory, pc, row, wait, restarts>>

\* The process stops and starts: memory is lost and every record left running
\* is marked orphaned.
Restart ==
  /\ restarts < MaxRestarts
  /\ restarts' = restarts + 1
  /\ entries' = {} /\ note' = {} /\ done' = {}
  /\ pc' = [e \in Execs |-> IF Alive(e) THEN "dead" ELSE pc[e]]
  /\ wait' = [w \in Waiters |-> IF wait[w].pc = "waiting"
                                THEN [pc |-> "idle", exec |-> NoExec] ELSE wait[w]]
  /\ tick' = [pc |-> "idle", ids |-> {}]
  /\ \/ Log!GiveUpRunning
     \/ Lossy # {} /\ UNCHANGED row
  /\ result' = [e \in Execs |-> "none"]
  /\ ctx' = [e \in Execs |-> IF Alive(e) THEN "cancelled" ELSE ctx[e]]
  /\ UNCHANGED <<status, called, births, young>>

-----------------------------------------------------------------------------
WorkerStep(e) ==
  \/ SaveQueued(e)
  \/ PreRun(e)
  \/ MarkRunning(e)
  \/ RunReturns(e)
  \/ TakeNote(e)
  \/ Settle(e)
  \/ Persist(e)
  \/ CallOnDone(e)
  \/ CloseDone(e)

Tick == TickActive \/ TickSelect \/ (\E e \in Execs : TickUpdate(e)) \/ TickEnds

Next ==
  \/ \E e \in Execs :
       \/ Submit(e)
       \/ WorkerStep(e)
       \/ \E n \in BOOLEAN : Cancel(e, n)
       \/ HardTimeout(e)
       \/ GetsOld(e)
  \/ \E w \in Waiters :
       \/ \E e \in Execs : WaitBegins(w, e)
       \/ WaitSeesDone(w)
       \/ WaitTimesOut(w)
  \/ Tick
  \/ Restart

Spec == Init /\ [][Next]_vars

\* The ticker of the reconciler never stops, time passes, and the database does
\* not refuse the same update for ever.
FairSpec ==
  /\ Spec
  /\ WF_vars(Tick)
  /\ \A e \in Execs :
       /\ SF_vars(GetsOld(e))
       /\ SF_vars(TickUpdate(e) /\ row'[e] = "orphaned")

-----------------------------------------------------------------------------
(* Properties.                                                             *)

\* Everything that writes tool_executions (the worker's three saves, the
\* startup cleanup, the stale-row reconciler racing with both) moves a record
\* forward only: no verdict of a worker is ever overwritten.
LogRefinement == Log!Spec

\* The reconciler asks for the live executions before it reads the table, and
\* an execution submitted in between is too young: a tool that is running is
\* never declared orphaned, however long it has been running.
LiveRunNotOrphaned == \A e \in Execs : pc[e] = "run" => row[e] # "orphaned"

\* cleanupOldEntriesLocked may forget only what has its verdict: an execution
\* at work stays in the table, where Cancel, CancelAll and the reconciler look.
RunningIsCancellable ==
  \A e \in Execs : Alive(e) /\ ~Terminal(e) => e \in entries

\* Wait returns without an error only for an execution that has its verdict,
\* or one that a previous process left behind; even when the table forgot the
\* entry between Submit and Wait.
WaitAnswersAfterVerdict ==
  \A w \in Waiters : wait[w].pc = "returned" =>
    Terminal(wait[w].exec) \/ pc[wait[w].exec] = "dead"

\* A record left "running" by a worker that is gone, because its last write
\* failed or the process stopped, does not stay so.
StaleRowClosed ==
  \A e \in Execs :
    (row[e] = "running" /\ pc[e] \in {"closed", "dead"}) ~> row[e] # "running"

\* What the comment of snapshotEntry claims of Wait: an answer without an error
\* comes after the verdict was stored and OnDone was called.
WaitSeesCallback ==
  \A w \in Waiters : wait[w].pc = "returned" => called[wait[w].exec] = 1
=============================================================================
