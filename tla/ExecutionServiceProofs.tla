----------------------- MODULE ExecutionServiceProofs -----------------------
(* Theorems about tool executions, for every number of executions, waiters   *)
(* and restarts, every limit of the table and whichever writes fail; the     *)
(* implementation of ToolExecutionLog among them.                            *)
EXTENDS ExecutionService, FiniteSetTheorems, TLAPS

Live(e) == Alive(e) /\ ~Terminal(e)

\* Types, as far as the invariants need them.
TypeInv ==
  /\ entries \subseteq Execs
  /\ status \in [Execs -> {"none", "queued", "running"} \cup Verdicts]
  /\ pc \in [Execs -> WorkerPcs \cup {"none", "closed", "dead"}]
  /\ done \subseteq Execs
  /\ row \in [Execs -> Log!Statuses]
  /\ wait \in [Waiters -> [pc : {"idle", "waiting", "returned"},
                           exec : Execs \cup {NoExec}]]
  /\ tick \in [pc : {"idle", "active", "stale"}, ids : SUBSET Execs]

\* How far the status in memory and the stored one have come at each place of the
\* worker: a verdict is in the table only after finishEntry put it there.
Place(e) ==
  /\ pc[e] = "none" => status[e] = "none"
  /\ pc[e] \in {"submitting", "prerun"} => status[e] = "queued"
  /\ pc[e] = "run" => status[e] = "running"
  /\ pc[e] \in {"markrunning", "finish", "settle"} => status[e] \in {"queued", "running"}
  /\ pc[e] \in {"persist", "callback", "close", "closed"} => status[e] \in Verdicts
  /\ pc[e] \in {"none", "submitting"} => row[e] = "none"
  /\ pc[e] \in {"prerun", "markrunning"} => row[e] \in {"none", "queued"}
  /\ pc[e] = "run" => row[e] \in {"none", "queued", "running"}
  /\ pc[e] \in {"finish", "settle", "persist"} =>
       row[e] \in {"none", "queued", "running", "orphaned"}

PlaceInv == \A e \in Execs : Place(e)

\* The tick knows of every execution at work, or it is too young; what it is about
\* to close is not at work and never will be.
TickInv ==
  /\ tick.pc = "active" => \A e \in Execs : Live(e) => e \in tick.ids \/ e \in young
  /\ tick.pc = "stale" => \A e \in tick.ids : pc[e] # "none" /\ ~Live(e)

\* A closed channel and an answered wait mean a verdict.
WaitInv ==
  /\ \A e \in done : status[e] \in Verdicts
  /\ \A w \in Waiters : wait[w].pc = "returned" =>
       wait[w].exec \in Execs
       /\ (status[wait[w].exec] \in Verdicts \/ pc[wait[w].exec] = "dead")

Inv == TypeInv /\ PlaceInv /\ RunningIsCancellable /\ TickInv /\ WaitInv

-----------------------------------------------------------------------------
(* Steps.                                                                  *)

\* A write gives the row its new value or leaves it, and touches no other row.
LEMMA SaveWrites ==
  ASSUME TypeInv, NEW e \in Execs, NEW value \in Log!Statuses, Save(e, value)
  PROVE  /\ row' \in [Execs -> Log!Statuses]
         /\ row'[e] \in {value, row[e]}
         /\ \A d \in Execs : d # e => row'[d] = row[d]
  BY DEF TypeInv, Save

\* The invariant survives whatever one worker does, when the worker's own place
\* does, nothing at work leaves the table and a verdict stays one.
LEMMA OneWorkerMoves ==
  ASSUME Inv, NEW e \in Execs,
         pc' \in [Execs -> WorkerPcs \cup {"none", "closed", "dead"}],
         status' \in [Execs -> {"none", "queued", "running"} \cup Verdicts],
         row' \in [Execs -> Log!Statuses],
         \A d \in Execs : d # e =>
           pc'[d] = pc[d] /\ status'[d] = status[d] /\ row'[d] = row[d],
         pc[e] # "none", pc[e] # "dead", pc'[e] # "none",
         Place(e)', Live(e)' => Live(e),
         status[e] \in Verdicts => status'[e] \in Verdicts,
         done' \subseteq done \cup {e}, e \in done' => status'[e] \in Verdicts,
         UNCHANGED <<entries, young, wait, tick>>
  PROVE  Inv'
<1>1. TypeInv'
  BY DEF Inv, TypeInv
<1>2. PlaceInv'
  BY DEF Inv, PlaceInv, Place
<1>3. \A d \in Execs : Live(d)' => Live(d)
  BY DEF Live, Alive, Terminal
<1>4. RunningIsCancellable'
  BY <1>3 DEF Inv, RunningIsCancellable, Live
<1>5. TickInv'
  <2>1. tick.pc = "stale" => tick.ids \subseteq Execs
    BY DEF Inv, TypeInv
  <2> QED
    BY <1>3, <2>1 DEF Inv, TickInv
<1>6. WaitInv'
  <2>1. \A d \in done' : status'[d] \in Verdicts
    BY DEF Inv, WaitInv, TypeInv
  <2>2. ASSUME NEW w \in Waiters, wait'[w].pc = "returned"
        PROVE  wait'[w].exec \in Execs
               /\ (status'[wait'[w].exec] \in Verdicts \/ pc'[wait'[w].exec] = "dead")
    BY <2>2 DEF Inv, WaitInv
  <2> QED
    BY <2>1, <2>2 DEF WaitInv
<1> QED
  BY <1>1, <1>2, <1>4, <1>5, <1>6 DEF Inv

\* A worker that only moves on keeps the type of pc.
LEMMA GotoMoves ==
  ASSUME TypeInv, NEW e \in Execs, NEW next \in WorkerPcs \cup {"closed"}, Goto(e, next)
  PROVE  /\ pc' \in [Execs -> WorkerPcs \cup {"none", "closed", "dead"}]
         /\ pc'[e] = next
         /\ \A d \in Execs : d # e => pc'[d] = pc[d]
  BY DEF TypeInv, Goto

\* A new entry: nothing at work is forgotten for it (cleanupOldEntriesLocked).
LEMMA SubmitKeepsInv ==
  ASSUME Inv, NEW e \in Execs, Submit(e)
  PROVE  Inv'
<1>0. TypeInv /\ Place(e) /\ pc[e] = "none"
  BY DEF Inv, PlaceInv, Submit
<1>1. /\ pc' \in [Execs -> WorkerPcs \cup {"none", "closed", "dead"}]
      /\ pc'[e] = "submitting"
      /\ \A d \in Execs : d # e => pc'[d] = pc[d]
  BY <1>0, GotoMoves DEF Submit, WorkerPcs
<1>2. /\ status' \in [Execs -> {"none", "queued", "running"} \cup Verdicts]
      /\ status'[e] = "queued"
      /\ \A d \in Execs : d # e => status'[d] = status[d]
  BY <1>0 DEF Submit, TypeInv
<1>3. \A d \in Forgotten(entries \cup {e}) : Terminal(d)
  BY DEF Forgotten
<1>4. status[e] = "none" /\ ~Terminal(e)
  BY <1>0 DEF Place, Terminal, Verdicts
<1>5. entries' = (entries \cup {e}) \ Forgotten(entries \cup {e})
  BY DEF Submit
<1>6. TypeInv'
  <2>1. entries' \subseteq Execs
    BY <1>0, <1>5 DEF TypeInv
  <2> QED
    BY <1>0, <1>1, <1>2, <2>1 DEF TypeInv, Submit
<1>7. PlaceInv'
  <2>1. Place(e)'
    BY <1>0, <1>1, <1>2 DEF Place, Submit
  <2>2. ASSUME NEW d \in Execs, d # e PROVE Place(d)'
    BY <1>1, <1>2, <2>2 DEF Inv, PlaceInv, Place, Submit
  <2> QED
    BY <2>1, <2>2 DEF PlaceInv
<1>8. \A d \in Execs : d # e /\ Live(d)' => Live(d)
  BY <1>1, <1>2 DEF Live, Alive, Terminal
<1>9. RunningIsCancellable'
  <2>1. ASSUME NEW d \in Execs, Live(d)' PROVE d \in entries'
    <3>1. CASE d = e
      BY <1>3, <1>4, <1>5, <3>1
    <3>2. CASE d # e
      <4>1. d \in entries /\ ~Terminal(d)
        BY <1>8, <2>1, <3>2 DEF Inv, RunningIsCancellable, Live
      <4> QED
        BY <1>3, <1>5, <4>1
    <3> QED
      BY <3>1, <3>2
  <2> QED
    BY <2>1 DEF RunningIsCancellable, Live
<1>10. TickInv'
  <2>1. tick' = tick /\ young' = young \cup {e}
    BY DEF Submit
  <2>2. tick.pc = "stale" => \A d \in tick.ids : d \in Execs /\ d # e
    BY <1>0 DEF Inv, TypeInv, TickInv
  <2>3. tick.pc = "active" => \A d \in Execs : Live(d)' => d \in tick.ids \/ d \in young'
    BY <1>8, <2>1 DEF Inv, TickInv
  <2>4. tick.pc = "stale" => \A d \in tick.ids : pc'[d] # "none" /\ ~Live(d)'
    BY <1>1, <1>8, <2>2 DEF Inv, TickInv
  <2> QED
    BY <2>1, <2>3, <2>4 DEF TickInv
<1>11. WaitInv'
  <2>1. wait' = wait /\ done' = done
    BY DEF Submit
  <2>2. \A d \in done : d # e
    BY <1>4 DEF Inv, WaitInv, Terminal
  <2>3. ASSUME NEW w \in Waiters, wait[w].pc = "returned"
        PROVE  wait[w].exec \in Execs /\ wait[w].exec # e
    BY <1>0, <1>4, <2>3 DEF Inv, WaitInv, Terminal
  <2> QED
    BY <1>1, <1>2, <2>1, <2>2, <2>3 DEF Inv, WaitInv, TypeInv
<1> QED
  BY <1>6, <1>7, <1>9, <1>10, <1>11 DEF Inv

\* runWorker from its start to its end.
LEMMA WorkerKeepsInv ==
  ASSUME Inv, NEW e \in Execs, WorkerStep(e)
  PROVE  Inv'
<1>0. TypeInv /\ Place(e)
  BY DEF Inv, PlaceInv
<1>a. /\ status \in [Execs -> {"none", "queued", "running"} \cup Verdicts]
      /\ row \in [Execs -> Log!Statuses]
      /\ {"queued", "running", "orphaned"} \cup Verdicts \subseteq Log!Statuses
  BY <1>0 DEF TypeInv, Log!Statuses
<1>1. CASE SaveQueued(e)
  <2>1. /\ pc' \in [Execs -> WorkerPcs \cup {"none", "closed", "dead"}]
        /\ pc'[e] = "prerun" /\ \A d \in Execs : d # e => pc'[d] = pc[d]
    BY <1>0, <1>1, GotoMoves DEF SaveQueued, WorkerPcs
  <2>2. /\ row' \in [Execs -> Log!Statuses] /\ row'[e] \in {"queued", row[e]}
        /\ \A d \in Execs : d # e => row'[d] = row[d]
    BY <1>0, <1>1, <1>a, SaveWrites DEF SaveQueued
  <2>3. UNCHANGED <<entries, status, done, young, wait, tick>> /\ pc[e] = "submitting"
    BY <1>1 DEF SaveQueued, memory
  <2>4. Place(e)' /\ (Live(e)' => Live(e))
    BY <1>0, <2>1, <2>2, <2>3 DEF Place, Live, Alive, Terminal, WorkerPcs
  <2>5. e \in done' => status'[e] \in Verdicts
    BY <2>3 DEF Inv, WaitInv
  <2> QED
    BY <1>a, <2>1, <2>2, <2>3, <2>4, <2>5, OneWorkerMoves
<1>2. CASE PreRun(e)
  <2>1. PICK next \in {"markrunning", "finish"} : Goto(e, next)
    BY <1>2 DEF PreRun
  <2>2. /\ pc' \in [Execs -> WorkerPcs \cup {"none", "closed", "dead"}]
        /\ pc'[e] = next /\ \A d \in Execs : d # e => pc'[d] = pc[d]
    BY <1>0, <2>1, GotoMoves DEF WorkerPcs
  <2>3. UNCHANGED <<entries, status, done, row, young, wait, tick>> /\ pc[e] = "prerun"
    BY <1>2 DEF PreRun
  <2>4. Place(e)' /\ (Live(e)' => Live(e))
    BY <1>0, <2>2, <2>3 DEF Place, Live, Alive, Terminal, WorkerPcs
  <2>5. e \in done' => status'[e] \in Verdicts
    BY <2>3 DEF Inv, WaitInv
  <2> QED
    BY <1>a, <2>2, <2>3, <2>4, <2>5, OneWorkerMoves
<1>3. CASE MarkRunning(e)
  <2>1. CASE status[e] = "queued"
    <3>1. /\ status' \in [Execs -> {"none", "queued", "running"} \cup Verdicts]
          /\ status'[e] = "running" /\ \A d \in Execs : d # e => status'[d] = status[d]
      BY <1>3, <1>a, <2>1 DEF MarkRunning
    <3>2. UNCHANGED <<entries, pc, done, row, young, wait, tick>> /\ pc[e] = "markrunning"
      BY <1>3, <2>1 DEF MarkRunning
    <3>3. Place(e)' /\ (Live(e)' => Live(e)) /\ status[e] \notin Verdicts
      BY <1>0, <2>1, <3>1, <3>2 DEF Place, Live, Alive, Terminal, WorkerPcs, Verdicts
    <3>4. e \notin done'
      BY <3>2, <3>3 DEF Inv, WaitInv
    <3>5. pc' \in [Execs -> WorkerPcs \cup {"none", "closed", "dead"}]
      BY <1>0, <3>2 DEF TypeInv
    <3> QED
      BY <1>a, <3>1, <3>2, <3>3, <3>4, <3>5, OneWorkerMoves
  <2>2. CASE status[e] # "queued"
    <3>1. /\ pc' \in [Execs -> WorkerPcs \cup {"none", "closed", "dead"}]
          /\ pc'[e] = "run" /\ \A d \in Execs : d # e => pc'[d] = pc[d]
      BY <1>0, <1>3, <2>2, GotoMoves DEF MarkRunning, WorkerPcs
    <3>2. /\ row' \in [Execs -> Log!Statuses] /\ row'[e] \in {"running", row[e]}
          /\ \A d \in Execs : d # e => row'[d] = row[d]
      BY <1>0, <1>3, <1>a, <2>2, SaveWrites DEF MarkRunning
    <3>3. UNCHANGED <<entries, status, done, young, wait, tick>> /\ pc[e] = "markrunning"
      BY <1>3, <2>2 DEF MarkRunning
    <3>4. Place(e)' /\ (Live(e)' => Live(e))
      BY <1>0, <2>2, <3>1, <3>2, <3>3 DEF Place, Live, Alive, Terminal, WorkerPcs
    <3>5. e \in done' => status'[e] \in Verdicts
      BY <3>3 DEF Inv, WaitInv
    <3> QED
      BY <1>a, <3>1, <3>2, <3>3, <3>4, <3>5, OneWorkerMoves
  <2> QED
    BY <2>1, <2>2
<1>4. CASE RunReturns(e)
  <2>1. /\ pc' \in [Execs -> WorkerPcs \cup {"none", "closed", "dead"}]
        /\ pc'[e] = "finish" /\ \A d \in Execs : d # e => pc'[d] = pc[d]
    BY <1>0, <1>4, GotoMoves DEF RunReturns, WorkerPcs
  <2>2. UNCHANGED <<entries, status, done, row, young, wait, tick>> /\ pc[e] = "run"
    BY <1>4 DEF RunReturns
  <2>3. Place(e)' /\ (Live(e)' => Live(e))
    BY <1>0, <2>1, <2>2 DEF Place, Live, Alive, Terminal, WorkerPcs
  <2>4. e \in done' => status'[e] \in Verdicts
    BY <2>2 DEF Inv, WaitInv
  <2> QED
    BY <1>a, <2>1, <2>2, <2>3, <2>4, OneWorkerMoves
<1>5. CASE TakeNote(e)
  <2>1. /\ pc' \in [Execs -> WorkerPcs \cup {"none", "closed", "dead"}]
        /\ pc'[e] = "settle" /\ \A d \in Execs : d # e => pc'[d] = pc[d]
    BY <1>0, <1>5, GotoMoves DEF TakeNote, WorkerPcs
  <2>2. UNCHANGED <<entries, status, done, row, young, wait, tick>> /\ pc[e] = "finish"
    BY <1>5 DEF TakeNote
  <2>3. Place(e)' /\ (Live(e)' => Live(e))
    BY <1>0, <2>1, <2>2 DEF Place, Live, Alive, Terminal, WorkerPcs
  <2>4. e \in done' => status'[e] \in Verdicts
    BY <2>2 DEF Inv, WaitInv
  <2> QED
    BY <1>a, <2>1, <2>2, <2>3, <2>4, OneWorkerMoves
<1>6. CASE Settle(e)
  <2>1. /\ pc' \in [Execs -> WorkerPcs \cup {"none", "closed", "dead"}]
        /\ pc'[e] = "persist" /\ \A d \in Execs : d # e => pc'[d] = pc[d]
    BY <1>0, <1>6, GotoMoves DEF Settle, WorkerPcs
  <2>2. VerdictOf(result[e]) \in Verdicts
    BY DEF VerdictOf, Verdicts
  <2>3. /\ status' \in [Execs -> {"none", "queued", "running"} \cup Verdicts]
        /\ status'[e] \in Verdicts /\ \A d \in Execs : d # e => status'[d] = status[d]
    BY <1>6, <1>a, <2>2 DEF Settle
  <2>4. UNCHANGED <<entries, done, row, young, wait, tick>> /\ pc[e] = "settle"
    BY <1>6 DEF Settle
  <2>5. Place(e)' /\ (Live(e)' => Live(e))
    BY <1>0, <2>1, <2>3, <2>4 DEF Place, Live, Alive, Terminal, WorkerPcs
  <2> QED
    BY <1>a, <2>1, <2>3, <2>4, <2>5, OneWorkerMoves
<1>7. CASE Persist(e)
  <2>1. /\ pc' \in [Execs -> WorkerPcs \cup {"none", "closed", "dead"}]
        /\ pc'[e] = "callback" /\ \A d \in Execs : d # e => pc'[d] = pc[d]
    BY <1>0, <1>7, GotoMoves DEF Persist, WorkerPcs
  <2>2. UNCHANGED <<entries, status, done, young, wait, tick>> /\ pc[e] = "persist"
    BY <1>7 DEF Persist, memory
  <2>3. status[e] \in Verdicts
    BY <1>0, <2>2 DEF Place
  <2>4. /\ row' \in [Execs -> Log!Statuses]
        /\ \A d \in Execs : d # e => row'[d] = row[d]
    BY <1>0, <1>7, <1>a, <2>3, SaveWrites DEF Persist
  <2>5. Place(e)' /\ (Live(e)' => Live(e))
    BY <1>0, <2>1, <2>2, <2>3 DEF Place, Live, Alive, Terminal, WorkerPcs
  <2> QED
    BY <1>a, <2>1, <2>2, <2>3, <2>4, <2>5, OneWorkerMoves
<1>8. CASE CallOnDone(e)
  <2>1. /\ pc' \in [Execs -> WorkerPcs \cup {"none", "closed", "dead"}]
        /\ pc'[e] = "close" /\ \A d \in Execs : d # e => pc'[d] = pc[d]
    BY <1>0, <1>8, GotoMoves DEF CallOnDone, WorkerPcs
  <2>2. UNCHANGED <<entries, status, done, row, young, wait, tick>> /\ pc[e] = "callback"
    BY <1>8 DEF CallOnDone
  <2>3. Place(e)' /\ (Live(e)' => Live(e)) /\ status[e] \in Verdicts
    BY <1>0, <2>1, <2>2 DEF Place, Live, Alive, Terminal, WorkerPcs
  <2> QED
    BY <1>a, <2>1, <2>2, <2>3, OneWorkerMoves
<1>9. CASE CloseDone(e)
  <2>1. /\ pc' \in [Execs -> WorkerPcs \cup {"none", "closed", "dead"}]
        /\ pc'[e] = "closed" /\ \A d \in Execs : d # e => pc'[d] = pc[d]
    BY <1>0, <1>9, GotoMoves DEF CloseDone
  <2>2. /\ UNCHANGED <<entries, status, row, young, wait, tick>> /\ pc[e] = "close"
        /\ done' = done \cup {e}
    BY <1>9 DEF CloseDone
  <2>3. Place(e)' /\ (Live(e)' => Live(e)) /\ status[e] \in Verdicts
    BY <1>0, <2>1, <2>2 DEF Place, Live, Alive, Terminal, WorkerPcs
  <2> QED
    BY <1>a, <2>1, <2>2, <2>3, OneWorkerMoves
<1> QED
  BY <1>1, <1>2, <1>3, <1>4, <1>5, <1>6, <1>7, <1>8, <1>9 DEF WorkerStep

\* Steps that leave workers, statuses and the table alone: cancellations, timeouts
\* and what time does.
LEMMA QuietStep ==
  ASSUME Inv, UNCHANGED <<entries, status, pc, done, row, wait>>, TickInv',
         tick' \in [pc : {"idle", "active", "stale"}, ids : SUBSET Execs]
  PROVE  Inv'
<1>1. TypeInv'
  BY DEF Inv, TypeInv
<1>2. PlaceInv'
  BY DEF Inv, PlaceInv, Place
<1>3. RunningIsCancellable' /\ WaitInv'
  BY DEF Inv, RunningIsCancellable, WaitInv, Alive, Terminal
<1> QED
  BY <1>1, <1>2, <1>3 DEF Inv

\* Cancel, the hard timeout and ageing.
LEMMA UserKeepsInv ==
  ASSUME Inv, NEW e \in Execs,
         (\E n \in BOOLEAN : Cancel(e, n)) \/ HardTimeout(e) \/ GetsOld(e)
  PROVE  Inv'
<1>1. UNCHANGED <<entries, status, pc, done, row, wait, tick>>
  BY DEF Cancel, HardTimeout, GetsOld
<1>2. young' = young \/ tick.pc = "idle"
  BY DEF Cancel, HardTimeout, GetsOld
<1>3. TickInv'
  BY <1>1, <1>2 DEF Inv, TickInv, Live, Alive, Terminal
<1> QED
  BY <1>1, <1>3, QuietStep DEF Inv, TypeInv

\* The calls of Wait: the lookup finds an entry, or a record whose worker has gone.
LEMMA WaitKeepsInv ==
  ASSUME Inv, NEW w \in Waiters,
         (\E e \in Execs : WaitBegins(w, e)) \/ WaitSeesDone(w) \/ WaitTimesOut(w)
  PROVE  Inv'
<1>0. TypeInv /\ UNCHANGED <<entries, status, pc, done, row, young, tick>>
  BY DEF Inv, WaitBegins, WaitSeesDone, WaitTimesOut, memory
<1>1. ASSUME NEW outcome \in {"idle", "waiting", "returned"}, NEW e \in Execs \cup {NoExec},
             Return(w, outcome, e),
             outcome = "returned" =>
               e \in Execs /\ (status[e] \in Verdicts \/ pc[e] = "dead")
      PROVE  Inv'
  <2>1. wait' = [wait EXCEPT ![w] = [pc |-> outcome, exec |-> e]]
    BY <1>1 DEF Return
  <2>2. TypeInv'
    BY <1>0, <2>1 DEF TypeInv
  <2>3. WaitInv'
    BY <1>0, <1>1, <2>1 DEF Inv, WaitInv, TypeInv
  <2>4. PlaceInv' /\ RunningIsCancellable' /\ TickInv'
    BY <1>0 DEF Inv, PlaceInv, Place, RunningIsCancellable, TickInv, Live, Alive, Terminal
  <2> QED
    BY <2>2, <2>3, <2>4 DEF Inv
<1>2. ASSUME NEW e \in Execs, WaitBegins(w, e) PROVE Inv'
  <2>1. CASE e \in entries
    BY <1>1, <1>2, <2>1 DEF WaitBegins
  <2>2. CASE e \notin entries
    <3>1. row[e] # "none" /\ Return(w, "returned", e)
      BY <1>2, <2>2 DEF WaitBegins
    <3>2. status[e] \in Verdicts \/ pc[e] = "dead"
      <4>1. ~Live(e)
        BY <2>2 DEF Inv, RunningIsCancellable, Live
      <4>2. Place(e) /\ pc[e] \in WorkerPcs \cup {"none", "closed", "dead"}
        BY <1>0 DEF Inv, PlaceInv, TypeInv
      <4> QED
        BY <3>1, <4>1, <4>2 DEF Place, Live, Alive, Terminal
    <3> QED
      BY <1>1, <3>1, <3>2
  <2> QED
    BY <2>1, <2>2
<1>3. CASE WaitSeesDone(w)
  <2>1. wait[w].exec \in Execs /\ status[wait[w].exec] \in Verdicts
    BY <1>0, <1>3 DEF WaitSeesDone, Inv, WaitInv, TypeInv
  <2> QED
    BY <1>1, <1>3, <2>1 DEF WaitSeesDone
<1>4. CASE WaitTimesOut(w)
  BY <1>1, <1>4 DEF WaitTimesOut
<1> QED
  BY <1>2, <1>3, <1>4

\* The reconciler asks first and reads later; what it collects is not at work.
LEMMA TickKeepsInv == ASSUME Inv, Tick PROVE Inv'
<1>0. TypeInv
  BY DEF Inv
<1>1. CASE TickActive
  <2>1. /\ tick' = [pc |-> "active", ids |-> {e \in entries : ~Terminal(e)}]
        /\ UNCHANGED <<entries, status, pc, done, row, wait, young>>
    BY <1>1 DEF TickActive, memory
  <2>2. \A e \in Execs : Live(e)' => e \in tick'.ids
    BY <2>1 DEF Inv, RunningIsCancellable, Live, Alive, Terminal
  <2>3. TickInv'
    BY <2>1, <2>2 DEF TickInv
  <2>4. tick' \in [pc : {"idle", "active", "stale"}, ids : SUBSET Execs]
    BY <1>0, <2>1 DEF TypeInv
  <2> QED
    BY <2>1, <2>3, <2>4, QuietStep
<1>2. CASE TickSelect
  <2>1. /\ tick.pc = "active"
        /\ tick' = [pc |-> "stale",
             ids |-> {e \in Execs : row[e] = "running" /\ e \notin young} \ tick.ids]
        /\ UNCHANGED <<entries, status, pc, done, row, wait, young>>
    BY <1>2 DEF TickSelect, memory
  <2>2. ASSUME NEW e \in tick'.ids PROVE pc'[e] # "none" /\ ~Live(e)'
    <3>1. e \in Execs /\ row[e] = "running" /\ e \notin young /\ e \notin tick.ids
      BY <2>1, <2>2
    <3>2. ~Live(e)
      BY <2>1, <3>1 DEF Inv, TickInv
    <3>3. pc[e] # "none"
      BY <3>1 DEF Inv, PlaceInv, Place
    <3> QED
      BY <2>1, <3>2, <3>3 DEF Live, Alive, Terminal
  <2>3. TickInv'
    BY <2>1, <2>2 DEF TickInv
  <2>4. tick' \in [pc : {"idle", "active", "stale"}, ids : SUBSET Execs]
    BY <2>1
  <2> QED
    BY <2>1, <2>3, <2>4, QuietStep
<1>3. ASSUME NEW e \in Execs, TickUpdate(e) PROVE Inv'
  <2>1. /\ tick.pc = "stale" /\ e \in tick.ids
        /\ tick' = [tick EXCEPT !.ids = @ \ {e}]
        /\ UNCHANGED <<entries, status, pc, done, wait, young>>
    BY <1>3 DEF TickUpdate, memory
  <2>2. pc[e] # "none" /\ ~Live(e)
    BY <2>1 DEF Inv, TickInv
  <2>3. /\ row' \in [Execs -> Log!Statuses]
        /\ \A d \in Execs : d # e => row'[d] = row[d]
        /\ row'[e] = row[e] \/ (row[e] = "running" /\ row'[e] = "orphaned")
    <3>1. CASE row[e] = "running"
      <4>1. Save(e, "orphaned") /\ "orphaned" \in Log!Statuses
        BY <1>3, <3>1 DEF TickUpdate, Log!Statuses
      <4> QED
        BY <1>0, <3>1, <4>1, SaveWrites
    <3>2. CASE row[e] # "running"
      BY <1>0, <1>3, <3>2 DEF TickUpdate, TypeInv
    <3> QED
      BY <3>1, <3>2
  <2>4. TypeInv'
    <3>1. tick' \in [pc : {"idle", "active", "stale"}, ids : SUBSET Execs]
      BY <1>0, <2>1 DEF TypeInv
    <3> QED
      BY <1>0, <2>1, <2>3, <3>1 DEF TypeInv
  <2>5. PlaceInv'
    <3>1. Place(e) /\ pc[e] \in WorkerPcs \cup {"none", "closed", "dead"}
      BY <1>0 DEF Inv, PlaceInv, TypeInv
    <3>2. Place(e)'
      BY <2>1, <2>2, <2>3, <3>1 DEF Place, Live, Alive, Terminal, WorkerPcs, Verdicts
    <3>3. ASSUME NEW d \in Execs, d # e PROVE Place(d)'
      BY <2>1, <2>3, <3>3 DEF Inv, PlaceInv, Place
    <3> QED
      BY <3>2, <3>3 DEF PlaceInv
  <2>6. TickInv'
    <3>1. tick'.pc = "stale" /\ tick'.ids \subseteq tick.ids
      BY <1>0, <2>1 DEF TypeInv
    <3> QED
      BY <2>1, <3>1 DEF Inv, TickInv, Live, Alive, Terminal
  <2>7. RunningIsCancellable' /\ WaitInv'
    BY <2>1 DEF Inv, RunningIsCancellable, WaitInv, Alive, Terminal
  <2> QED
    BY <2>4, <2>5, <2>6, <2>7 DEF Inv
<1>4. CASE TickEnds
  <2>1. /\ tick' = [pc |-> "idle", ids |-> {}]
        /\ UNCHANGED <<entries, status, pc, done, row, wait, young>>
    BY <1>4 DEF TickEnds, memory
  <2>2. TickInv' /\ tick' \in [pc : {"idle", "active", "stale"}, ids : SUBSET Execs]
    BY <2>1 DEF TickInv
  <2> QED
    BY <2>1, <2>2, QuietStep
<1> QED
  BY <1>1, <1>2, <1>3, <1>4 DEF Tick

\* A restart: workers die, waits end, records left running are given up.
LEMMA RestartKeepsInv == ASSUME Inv, Restart PROVE Inv'
<1>0. TypeInv
  BY DEF Inv
<1>1. /\ entries' = {} /\ done' = {} /\ status' = status
      /\ tick' = [pc |-> "idle", ids |-> {}]
      /\ pc' = [e \in Execs |-> IF Alive(e) THEN "dead" ELSE pc[e]]
      /\ wait' = [w \in Waiters |-> IF wait[w].pc = "waiting"
                    THEN [pc |-> "idle", exec |-> NoExec] ELSE wait[w]]
  BY DEF Restart
<1>2. \A e \in Execs : pc'[e] = "dead" \/ (pc'[e] = pc[e] /\ ~Alive(e))
  BY <1>1
<1>3. \A e \in Execs : row'[e] = row[e] \/ (row[e] = "running" /\ row'[e] = "orphaned")
  BY <1>0 DEF Restart, TypeInv, Log!GiveUpRunning
<1>4. row' \in [Execs -> Log!Statuses]
  <2>1. CASE Log!GiveUpRunning
    <3>1. row' = [e \in Execs |-> IF row[e] = "running" THEN "orphaned" ELSE row[e]]
      BY <2>1 DEF Log!GiveUpRunning
    <3> QED
      BY <1>0, <3>1 DEF TypeInv, Log!Statuses
  <2>2. CASE UNCHANGED row
    BY <1>0, <2>2 DEF TypeInv
  <2> QED
    BY <2>1, <2>2 DEF Restart
<1>5. TypeInv'
  <2>1. pc' \in [Execs -> WorkerPcs \cup {"none", "closed", "dead"}]
    BY <1>0, <1>1 DEF TypeInv
  <2>2. wait' \in [Waiters -> [pc : {"idle", "waiting", "returned"},
                               exec : Execs \cup {NoExec}]]
    BY <1>0, <1>1 DEF TypeInv
  <2> QED
    BY <1>0, <1>1, <1>4, <2>1, <2>2 DEF TypeInv
<1>6. PlaceInv'
  <2>1. ASSUME NEW e \in Execs PROVE Place(e)'
    <3>1. Place(e)
      BY DEF Inv, PlaceInv
    <3>2. CASE pc'[e] = "dead"
      BY <3>2 DEF Place
    <3>3. CASE pc'[e] = pc[e] /\ ~Alive(e)
      <4>1. pc[e] \in {"none", "closed", "dead"}
        BY <1>0, <3>3 DEF TypeInv, Alive
      <4> QED
        BY <1>1, <1>3, <3>1, <3>3, <4>1 DEF Place
    <3> QED
      BY <1>2, <3>2, <3>3
  <2> QED
    BY <2>1 DEF PlaceInv
<1>7. \A e \in Execs : ~Alive(e)'
  BY <1>2 DEF Alive, WorkerPcs
<1>8. RunningIsCancellable' /\ TickInv'
  BY <1>1, <1>7 DEF RunningIsCancellable, TickInv
<1>9. WaitInv'
  <2>1. ASSUME NEW w \in Waiters, wait'[w].pc = "returned"
        PROVE  wait'[w] = wait[w] /\ wait[w].pc = "returned"
    BY <1>1, <2>1
  <2>2. \A e \in Execs : pc[e] = "dead" => pc'[e] = "dead"
    BY <1>1
  <2> QED
    BY <1>1, <2>1, <2>2 DEF Inv, WaitInv
<1> QED
  BY <1>5, <1>6, <1>8, <1>9 DEF Inv

\* The types of what the invariant does not speak of.
RestInv ==
  /\ result \in [Execs -> Results \cup {"none"}]
  /\ note \subseteq Execs
  /\ ctx \in [Execs -> {"alive", "cancelled", "deadline"}]
  /\ called \in [Execs -> Nat]
  /\ births \in [Execs -> Nat]
  /\ young \subseteq Execs
  /\ restarts \in 0..MaxRestarts

\* They are kept by every step.
LEMMA RestKept ==
  ASSUME IsFiniteSet(Execs), RestInv, [Next]_vars
  PROVE  RestInv'
<1> USE ExecutionAssumption
<1>1. ASSUME NEW e \in Execs, Submit(e) PROVE RestInv'
  <2>1. Cardinality({d \in Execs : pc[d] # "none"}) \in Nat
    BY FS_Subset, FS_CardinalityType
  <2> QED
    BY <1>1, <2>1 DEF RestInv, Submit
<1>2. ASSUME NEW e \in Execs, SaveQueued(e) \/ MarkRunning(e) \/ Persist(e)
      PROVE  RestInv'
  BY <1>2 DEF RestInv, SaveQueued, MarkRunning, Persist, memory
<1>3. ASSUME NEW e \in Execs, PreRun(e) \/ RunReturns(e) PROVE RestInv'
  <2>1. Outcomes \cup FromContext(e) \subseteq Results
    BY DEF FromContext, Results
  <2>2. PICK r \in Results \cup {"none"} :
          result' = [result EXCEPT ![e] = r] \/ UNCHANGED result
    BY <1>3, <2>1 DEF PreRun, RunReturns
  <2>3. result' \in [Execs -> Results \cup {"none"}]
    BY <2>2 DEF RestInv
  <2> QED
    BY <1>3, <2>3 DEF RestInv, PreRun, RunReturns
<1>4. ASSUME NEW e \in Execs, TakeNote(e) \/ Settle(e) \/ CallOnDone(e) \/ CloseDone(e)
      PROVE  RestInv'
  BY <1>4 DEF RestInv, TakeNote, Settle, CallOnDone, CloseDone, Results
<1>5. ASSUME NEW e \in Execs, (\E n \in BOOLEAN : Cancel(e, n)) \/ HardTimeout(e) \/ GetsOld(e)
      PROVE  RestInv'
  BY <1>5 DEF RestInv, Cancel, HardTimeout, GetsOld
<1>6. ASSUME NEW w \in Waiters,
             (\E e \in Execs : WaitBegins(w, e)) \/ WaitSeesDone(w) \/ WaitTimesOut(w)
      PROVE  RestInv'
  BY <1>6 DEF RestInv, WaitBegins, WaitSeesDone, WaitTimesOut, memory
<1>7. CASE Tick
  BY <1>7 DEF RestInv, Tick, TickActive, TickSelect, TickUpdate, TickEnds, memory
<1>8. CASE Restart
  <2>1. restarts' \in 0..MaxRestarts
    BY <1>8 DEF RestInv, Restart
  <2>2. ctx' = [e \in Execs |-> IF Alive(e) THEN "cancelled" ELSE ctx[e]]
        /\ result' = [e \in Execs |-> "none"] /\ note' = {}
        /\ UNCHANGED <<called, births, young>>
    BY <1>8 DEF Restart
  <2> QED
    BY <2>1, <2>2 DEF RestInv
<1>9. CASE UNCHANGED vars
  BY <1>9 DEF RestInv, vars
<1> QED
  BY <1>1, <1>2, <1>3, <1>4, <1>5, <1>6, <1>7, <1>8, <1>9 DEF Next, WorkerStep

-----------------------------------------------------------------------------
(* The theorems.                                                           *)

\* The inductive invariant holds in every reachable state.
THEOREM ServiceInvariant == Spec => []Inv
<1>1. Init => Inv
  <2> SUFFICES ASSUME Init PROVE Inv
    OBVIOUS
  <2>1. TypeInv
    BY DEF Init, TypeInv, Log!Statuses
  <2>2. PlaceInv
    BY DEF Init, PlaceInv, Place
  <2>3. RunningIsCancellable /\ TickInv /\ WaitInv
    BY DEF Init, RunningIsCancellable, TickInv, WaitInv, Alive, WorkerPcs
  <2> QED
    BY <2>1, <2>2, <2>3 DEF Inv
<1>2. Inv /\ [Next]_vars => Inv'
  <2> SUFFICES ASSUME Inv, [Next]_vars PROVE Inv'
    OBVIOUS
  <2>1. CASE UNCHANGED vars
    BY <2>1 DEF vars, Inv, TypeInv, PlaceInv, Place, RunningIsCancellable, TickInv,
                WaitInv, Live, Alive, Terminal
  <2> QED
    BY <2>1, SubmitKeepsInv, WorkerKeepsInv, UserKeepsInv, WaitKeepsInv, TickKeepsInv,
       RestartKeepsInv DEF Next
<1> QED
  BY <1>1, <1>2, PTL DEF Spec

\* Type correctness, for any finite set of executions (start times are counted).
THEOREM TypeCorrect == ASSUME IsFiniteSet(Execs) PROVE Spec => []TypeOK
<1>1. Init => RestInv
  BY ExecutionAssumption DEF Init, RestInv
<1>2. RestInv /\ [Next]_vars => RestInv'
  BY RestKept
<1>3. Inv /\ RestInv => TypeOK
  BY DEF Inv, TypeInv, RestInv, TypeOK
<1> QED
  BY <1>1, <1>2, <1>3, ServiceInvariant, PTL DEF Spec

\* An execution at work stays where Cancel and the reconciler look, however small
\* the table (cleanupOldEntriesLocked).
THEOREM AtWorkIsFound == Spec => []RunningIsCancellable
<1>1. Inv => RunningIsCancellable
  BY DEF Inv
<1> QED
  BY <1>1, ServiceInvariant, PTL

\* A tool that is running is never declared orphaned (ReconcileStaleRunning).
THEOREM RunningIsNotOrphaned == Spec => []LiveRunNotOrphaned
<1>1. Inv => LiveRunNotOrphaned
  BY DEF Inv, PlaceInv, Place, LiveRunNotOrphaned
<1> QED
  BY <1>1, ServiceInvariant, PTL

\* An answer of Wait without an error comes after the verdict.
THEOREM AnswersAreVerdicts == Spec => []WaitAnswersAfterVerdict
<1>1. Inv => WaitAnswersAfterVerdict
  BY DEF Inv, WaitInv, WaitAnswersAfterVerdict, Terminal
<1> QED
  BY <1>1, ServiceInvariant, PTL

\* A write of a later status is a step of the abstract log.
LEMMA WriteIsRecord ==
  ASSUME TypeInv, NEW e \in Execs, NEW value \in Log!Statuses, Save(e, value),
         Log!Rank(value) > Log!Rank(row[e]),
         value = "orphaned" => row[e] = "running"
  PROVE  [Log!Next]_row
<1>1. CASE row' = [row EXCEPT ![e] = value]
  <2>1. Log!Record(e, value)
    BY <1>1 DEF Log!Record
  <2> QED
    BY <2>1 DEF Log!Next
<1>2. CASE UNCHANGED row
  BY <1>2
<1> QED
  BY <1>1, <1>2 DEF Save

\* The service implements the log: no writer of tool_executions, whichever writes
\* fail and whenever the process stops, ever moves a record backwards.
THEOREM ImplementsLog == Spec => LogRefinement
<1>1. Init => Log!Init
  BY DEF Init, Log!Init
<1>2. Inv /\ [Next]_vars => [Log!Next]_row
  <2> SUFFICES ASSUME Inv, [Next]_vars PROVE [Log!Next]_row
    OBVIOUS
  <2>0. TypeInv /\ \A e \in Execs : Place(e) /\ row[e] \in Log!Statuses
    BY DEF Inv, PlaceInv, TypeInv
  <2>1. ASSUME NEW e \in Execs, SaveQueued(e) PROVE [Log!Next]_row
    <3>1. Save(e, "queued") /\ row[e] = "none"
      BY <2>0, <2>1 DEF SaveQueued, Place
    <3>2. "queued" \in Log!Statuses /\ Log!Rank("queued") > Log!Rank("none")
      BY DEF Log!Statuses, Log!Rank
    <3> QED
      BY <2>0, <3>1, <3>2, WriteIsRecord
  <2>2. ASSUME NEW e \in Execs, MarkRunning(e) PROVE [Log!Next]_row
    <3>1. UNCHANGED row \/ (Save(e, "running") /\ row[e] \in {"none", "queued"})
      BY <2>0, <2>2 DEF MarkRunning, Place
    <3>2. "running" \in Log!Statuses
          /\ \A old \in {"none", "queued"} : Log!Rank("running") > Log!Rank(old)
      BY DEF Log!Statuses, Log!Rank
    <3> QED
      BY <2>0, <3>1, <3>2, WriteIsRecord
  <2>3. ASSUME NEW e \in Execs, Persist(e) PROVE [Log!Next]_row
    <3>1. /\ Save(e, status[e]) /\ status[e] \in Verdicts
          /\ row[e] \in {"none", "queued", "running", "orphaned"}
      BY <2>0, <2>3 DEF Persist, Place
    <3>2. /\ Verdicts \subseteq Log!Statuses
          /\ \A v \in Verdicts, old \in {"none", "queued", "running", "orphaned"} :
               Log!Rank(v) > Log!Rank(old) /\ v # "orphaned"
      BY DEF Log!Statuses, Log!Rank, Verdicts
    <3> QED
      BY <2>0, <3>1, <3>2, WriteIsRecord
  <2>4. ASSUME NEW e \in Execs, TickUpdate(e) PROVE [Log!Next]_row
    <3>1. UNCHANGED row \/ (Save(e, "orphaned") /\ row[e] = "running")
      BY <2>4 DEF TickUpdate
    <3>2. "orphaned" \in Log!Statuses /\ Log!Rank("orphaned") > Log!Rank("running")
      BY DEF Log!Statuses, Log!Rank
    <3> QED
      BY <2>0, <3>1, <3>2, WriteIsRecord
  <2>5. CASE Restart
    BY <2>5 DEF Restart, Log!Next
  <2>6. ASSUME NEW e \in Execs,
               PreRun(e) \/ RunReturns(e) \/ TakeNote(e) \/ Settle(e) \/ CallOnDone(e)
               \/ CloseDone(e) \/ Submit(e) \/ (\E n \in BOOLEAN : Cancel(e, n))
               \/ HardTimeout(e) \/ GetsOld(e)
               \/ (\E w \in Waiters : WaitBegins(w, e))
        PROVE  UNCHANGED row
    BY <2>6 DEF PreRun, RunReturns, TakeNote, Settle, CallOnDone, CloseDone, Submit,
                Cancel, HardTimeout, GetsOld, WaitBegins
  <2>7. ASSUME NEW w \in Waiters, WaitSeesDone(w) \/ WaitTimesOut(w)
        PROVE  UNCHANGED row
    BY <2>7 DEF WaitSeesDone, WaitTimesOut
  <2>8. CASE TickActive \/ TickSelect \/ TickEnds \/ UNCHANGED vars
    BY <2>8 DEF TickActive, TickSelect, TickEnds, vars
  <2> QED
    BY <2>1, <2>2, <2>3, <2>4, <2>5, <2>6, <2>7, <2>8 DEF Next, WorkerStep, Tick
<1> QED
  BY <1>1, <1>2, ServiceInvariant, PTL DEF Spec, LogRefinement, Log!Spec
=============================================================================
