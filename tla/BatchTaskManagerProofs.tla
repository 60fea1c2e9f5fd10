----------------------- MODULE BatchTaskManagerProofs -----------------------
(***************************************************************************)
(* What holds of a batch queue for any tasks, any number of workers and of *)
(* requests, and any number of failed writes and restarts.                 *)
(***************************************************************************)
EXTENDS BatchTaskManager, TLAPS

-----------------------------------------------------------------------------
(* Type correctness.                                                       *)

\* A worker that moves on is still well-formed.
LEMMA WorkerMoves ==
  ASSUME NEW f \in [Workers -> WorkerStates], NEW w \in Workers,
         NEW next \in WorkerPcs
  PROVE  /\ [f EXCEPT ![w].pc = next] \in [Workers -> WorkerStates]
         /\ [f EXCEPT ![w] = [NoWork EXCEPT !.pc = next]] \in [Workers -> WorkerStates]
  BY DEF WorkerStates, NoWork, WorkerPcs

\* So is a request.
LEMMA RequestMoves ==
  ASSUME NEW f \in [Requests -> RequestStates], NEW r \in Requests,
         NEW next \in RequestPcs
  PROVE  /\ [f EXCEPT ![r].pc = next] \in [Requests -> RequestStates]
         /\ [f EXCEPT ![r] = [NewRequest EXCEPT !.pc = next]]
              \in [Requests -> RequestStates]
  BY DEF RequestStates, NewRequest, RequestPcs

\* A queue status is written, or not.
LEMMA QueueStatusType ==
  ASSUME TypeOK, NEW s \in QueueStatuses, UpdateQueueStatus(s)
  PROVE  status' \in QueueStatuses /\ row' \in QueueStatuses \cup {"none"}
         /\ faults' \in 0..MaxFaults
  BY BatchAssumption DEF TypeOK, UpdateQueueStatus, Succeeds, Fails

\* A task status is written, or not.
LEMMA TaskStatusType ==
  ASSUME TypeOK, NEW t, NEW s \in TaskStatuses, UpdateTaskStatus(t, s)
  PROVE  /\ task' \in [Tasks -> TaskStatuses] /\ taskRow' \in [Tasks -> TaskStatuses]
         /\ faults' \in 0..MaxFaults
  BY BatchAssumption DEF TypeOK, UpdateTaskStatus, Succeeds, Fails

\* Draining marks workers and empties the table.
LEMMA DrainType ==
  ASSUME TypeOK, DrainTaskCancels
  PROVE  /\ cancels' \in [Tasks -> Workers \cup {NoWorker}]
         /\ worker' \in [Workers -> WorkerStates]
  BY DEF TypeOK, DrainTaskCancels, WorkerStates

\* Every variable keeps its type in every step.
LEMMA TypeStep ==
  ASSUME TypeOK, [Next]_vars
  PROVE  TypeOK'
<1> USE BatchAssumption DEF queue, run, bounds, ExecutorPcs, RequestPcs,
     WorkerPcs, QueueStatuses, TaskStatuses, Verdicts
<1>1. ASSUME NEW w \in Workers, ClaimTask(w) PROVE TypeOK'
  <2>1. ASSUME NEW t \in Tasks
        PROVE  [worker EXCEPT ![w] = [pc |-> "announce", task |-> t, cancelled |-> FALSE,
                                      round |-> round[t]]] \in [Workers -> WorkerStates]
    BY DEF TypeOK, WorkerStates
  <2>2. \A next \in WorkerPcs : [worker EXCEPT ![w].pc = next] \in [Workers -> WorkerStates]
    BY WorkerMoves DEF TypeOK
  <2>3. worker' \in [Workers -> WorkerStates]
    BY <1>1, <2>1, <2>2 DEF ClaimTask, Step
  <2>4. task' \in [Tasks -> TaskStatuses]
    BY <1>1 DEF ClaimTask, TypeOK
  <2> QED
    BY <1>1, <2>3, <2>4 DEF ClaimTask, TypeOK
<1>2. ASSUME NEW w \in Workers, Poll(w) PROVE TypeOK'
  BY <1>2, WorkerMoves, QueueStatusType, TaskStatusType DEF Poll, Step, Drop,
       TypeOK, Succeeds, Fails
<1>3. ASSUME NEW w \in Workers, Announce(w) PROVE TypeOK'
  <2>1. worker' \in [Workers -> WorkerStates]
    <3>1. \A next \in WorkerPcs :
            /\ [worker EXCEPT ![w].pc = next] \in [Workers -> WorkerStates]
            /\ [worker EXCEPT ![w] = [NoWork EXCEPT !.pc = next]]
                 \in [Workers -> WorkerStates]
      BY WorkerMoves DEF TypeOK
    <3> QED
      BY <1>3, <3>1 DEF Announce, Step, Drop
  <2>2. /\ task' \in [Tasks -> TaskStatuses] /\ taskRow' \in [Tasks -> TaskStatuses]
        /\ faults' \in 0..MaxFaults
    BY <1>3, TaskStatusType DEF Announce, TypeOK
  <2> QED
    BY <1>3, <2>1, <2>2 DEF Announce, TypeOK
<1>4. ASSUME NEW w \in Workers, Prepare(w) PROVE TypeOK'
  <2>1. worker' \in [Workers -> WorkerStates]
    <3>1. \A next \in WorkerPcs :
            /\ [worker EXCEPT ![w].pc = next] \in [Workers -> WorkerStates]
            /\ [worker EXCEPT ![w] = [NoWork EXCEPT !.pc = next]]
                 \in [Workers -> WorkerStates]
      BY WorkerMoves DEF TypeOK
    <3> QED
      BY <1>4, <3>1 DEF Prepare, Step, Drop
  <2>2. /\ task' \in [Tasks -> TaskStatuses] /\ taskRow' \in [Tasks -> TaskStatuses]
        /\ faults' \in 0..MaxFaults
    BY <1>4, TaskStatusType DEF Prepare, TypeOK
  <2> QED
    BY <1>4, <2>1, <2>2 DEF Prepare, TypeOK
<1>5. ASSUME NEW w \in Workers, Register(w) PROVE TypeOK'
  <2>1. worker' \in [Workers -> WorkerStates]
    <3>1. \A next \in WorkerPcs :
            [worker EXCEPT ![w].pc = next] \in [Workers -> WorkerStates]
      BY WorkerMoves DEF TypeOK
    <3> QED
      BY <1>5, <3>1 DEF Register, Step
  <2>2. /\ task' \in [Tasks -> TaskStatuses] /\ taskRow' \in [Tasks -> TaskStatuses]
        /\ faults' \in 0..MaxFaults
    BY <1>5, TaskStatusType DEF Register, TypeOK
  <2>3. cancels' \in [Tasks -> Workers \cup {NoWorker}]
    BY <1>5 DEF Register, TypeOK
  <2> QED
    BY <1>5, <2>1, <2>2, <2>3 DEF Register, TypeOK
<1>6. ASSUME NEW w \in Workers, Report(w) PROVE TypeOK'
  BY <1>6, WorkerMoves, QueueStatusType, TaskStatusType DEF Report, Step,
       Drop, TypeOK, Succeeds, Fails
<1>7. ASSUME NEW w \in Workers, Leave(w) PROVE TypeOK'
  <2>1. worker[w].task \in Tasks \cup {NoTask}
    BY DEF TypeOK, WorkerStates
  <2>2. worker' \in [Workers -> WorkerStates]
    BY <1>7, <2>1 DEF Leave, NoWork, TypeOK, WorkerStates
  <2> QED
    BY <1>7, <2>2 DEF Leave, TypeOK
<1>8. ASSUME NEW w \in Workers, TakeSingleRun(w) PROVE TypeOK'
  <2>1. \A next \in WorkerPcs : [worker EXCEPT ![w] = [NoWork EXCEPT !.pc = next]]
                                  \in [Workers -> WorkerStates]
    BY WorkerMoves DEF TypeOK
  <2>2. worker' \in [Workers -> WorkerStates]
    BY <1>8, <2>1 DEF TakeSingleRun, Drop
  <2> QED
    BY <1>8, <2>2 DEF TakeSingleRun, TypeOK
<1>9. ASSUME NEW w \in Workers, PauseAfterSingle(w) PROVE TypeOK'
  BY <1>9, WorkerMoves, QueueStatusType, TaskStatusType DEF PauseAfterSingle,
       Step, Drop, TypeOK, Succeeds, Fails
<1>10. ASSUME NEW r \in Requests, WorkersReturn(r) PROVE TypeOK'
  BY <1>10, QueueStatusType DEF WorkersReturn, Advance, TypeOK
<1>11. ASSUME NEW r \in Requests, HasPendingOrRunningTasks(r) PROVE TypeOK'
  BY <1>11, QueueStatusType DEF HasPendingOrRunningTasks, Advance, TypeOK
<1>12. ASSUME NEW r \in Requests, Complete(r) PROVE TypeOK'
  BY <1>12, QueueStatusType DEF Complete, Advance, TypeOK
<1>13. ASSUME NEW r \in Requests, Unmark(r) PROVE TypeOK'
  BY <1>13, QueueStatusType DEF Unmark, Advance, TypeOK
<1>14. ASSUME NEW r \in Requests, ClearSingleRunTask(r) PROVE TypeOK'
  BY <1>14, RequestMoves, QueueStatusType, TaskStatusType, DrainType DEF
       ClearSingleRunTask, Goto, TypeOK, Succeeds, Fails
<1>15. ASSUME NEW r \in Requests, RerunBatchQueue(r) PROVE TypeOK'
  BY <1>15, RequestMoves, QueueStatusType, TaskStatusType, DrainType DEF
       RerunBatchQueue, Goto, TypeOK, Succeeds, Fails
<1>16. ASSUME NEW r \in Requests, ScheduleTick(r) PROVE TypeOK'
  BY <1>16, RequestMoves, QueueStatusType, TaskStatusType, DrainType DEF
       ScheduleTick, Goto, TypeOK, Succeeds, Fails
<1>17. ASSUME NEW r \in Requests, ResetQueueForRerun(r) PROVE TypeOK'
  <2>1. req' \in [Requests -> RequestStates]
    <3>1. \A next \in RequestPcs :
            /\ [req EXCEPT ![r].pc = next] \in [Requests -> RequestStates]
            /\ [req EXCEPT ![r] = [NewRequest EXCEPT !.pc = next]]
                 \in [Requests -> RequestStates]
      BY RequestMoves DEF TypeOK
    <3> QED
      <4>1. PICK next \in {"go", "clear", "done"} : Goto(r, next)
        BY <1>17, Zenon DEF ResetQueueForRerun
      <4> QED
        BY <3>1, <4>1 DEF Goto
  <2>2. /\ task' \in [Tasks -> TaskStatuses] /\ taskRow' \in [Tasks -> TaskStatuses]
        /\ round' \in [Tasks -> Nat]
    BY <1>17 DEF ResetQueueForRerun, TypeOK
  <2>3. /\ status' \in QueueStatuses /\ row' \in QueueStatuses \cup {"none"}
        /\ faults' \in 0..MaxFaults
    BY <1>17 DEF ResetQueueForRerun, TypeOK, Succeeds, Fails
  <2>4. mark' \in BOOLEAN
    BY <1>17, Zenon DEF ResetQueueForRerun, TypeOK
  <2> QED
    BY <1>17, <2>1, <2>2, <2>3, <2>4 DEF ResetQueueForRerun, TypeOK
<1>18. ASSUME NEW r \in Requests, TryMarkQueueExecutor(r) PROVE TypeOK'
  BY <1>18, RequestMoves, QueueStatusType, TaskStatusType, DrainType DEF
       TryMarkQueueExecutor, Goto, TypeOK, Succeeds, Fails
<1>19. ASSUME NEW r \in Requests, Launch(r) \/ RefuseDisabled(r) PROVE TypeOK'
  <2>1. CASE Launch(r)
    BY <2>1, RequestMoves DEF Launch, Goto, TypeOK
  <2>2. CASE RefuseDisabled(r)
    BY <2>2, RequestMoves DEF RefuseDisabled, Goto, TypeOK
  <2> QED
    BY <1>19, <2>1, <2>2
<1>20. ASSUME NEW r \in Requests, Go(r) PROVE TypeOK'
  <2>1. req' \in [Requests -> RequestStates]
    <3>1. \A next \in RequestPcs :
            /\ [req EXCEPT ![r].pc = next] \in [Requests -> RequestStates]
            /\ [req EXCEPT ![r] = [NewRequest EXCEPT !.pc = next]]
                 \in [Requests -> RequestStates]
      BY RequestMoves DEF TypeOK
    <3> QED
      BY <1>20, <3>1 DEF Go, Goto
  <2>2. worker' \in [Workers -> WorkerStates]
    BY <1>20 DEF Go, TypeOK, WorkerStates
  <2>3. /\ status' \in QueueStatuses /\ row' \in QueueStatuses \cup {"none"}
        /\ faults' \in 0..MaxFaults
    BY <1>20, QueueStatusType DEF Go
  <2>4. executor' \in [Requests -> ExecutorPcs]
    BY <1>20 DEF Go, Advance, TypeOK
  <2> QED
    BY <1>20, <2>1, <2>2, <2>3, <2>4 DEF Go, TypeOK
<1>21. ASSUME NEW r \in Requests, PauseQueue(r) PROVE TypeOK'
  <2>1. req' \in [Requests -> RequestStates]
    <3>1. \A next \in RequestPcs :
            /\ [req EXCEPT ![r].pc = next] \in [Requests -> RequestStates]
            /\ [req EXCEPT ![r] = [NewRequest EXCEPT !.pc = next]]
                 \in [Requests -> RequestStates]
      BY RequestMoves DEF TypeOK
    <3> QED
      BY <1>21, <3>1 DEF PauseQueue, Goto
  <2>2. /\ worker' \in [Workers -> WorkerStates]
        /\ cancels' \in [Tasks -> Workers \cup {NoWorker}]
    BY <1>21, DrainType DEF PauseQueue, TypeOK
  <2>3. /\ status' \in QueueStatuses /\ row' \in QueueStatuses \cup {"none"}
        /\ faults' \in 0..MaxFaults
    BY <1>21 DEF PauseQueue, TypeOK, Succeeds, Fails
  <2> QED
    BY <1>21, <2>1, <2>2, <2>3 DEF PauseQueue, TypeOK
<1>22. ASSUME NEW r \in Requests, PrepareSingle(r) PROVE TypeOK'
  <2>1. req' \in [Requests -> RequestStates]
    <3>1. [req EXCEPT ![r].pc = "done"] \in [Requests -> RequestStates]
      BY RequestMoves DEF TypeOK
    <3>2. ASSUME NEW t \in Tasks, NEW d \in BOOLEAN, NEW e \in BOOLEAN,
                 NEW S \in SUBSET Tasks
          PROVE  [req EXCEPT ![r] = [pc |-> "siblings", task |-> t, siblings |-> S,
                                     resets |-> d, resumes |-> e]]
                   \in [Requests -> RequestStates]
      BY DEF TypeOK, RequestStates
    <3>3. CASE Goto(r, "done")
      BY <3>1, <3>3 DEF Goto
    <3>4. CASE ~Goto(r, "done")
      <4>1. PICK t \in Present :
              req' = [req EXCEPT ![r] =
                [pc |-> "siblings", task |-> t,
                 siblings |-> IF status = "paused"
                              THEN {u \in Tasks : task[u] = "running"} ELSE {},
                 resets |-> task[t] # "pending",
                 resumes |-> status \in {"completed", "cancelled"}]]
        BY <1>22, <3>4, Zenon DEF PrepareSingle
      <4>2. t \in Tasks
        BY DEF Present
      <4> DEFINE S == IF status = "paused" THEN {u \in Tasks : task[u] = "running"}
                      ELSE {}
      <4>3. S \in SUBSET Tasks
        OBVIOUS
      <4>4. (task[t] # "pending") \in BOOLEAN
        BY Zenon
      <4>5. (status \in {"completed", "cancelled"}) \in BOOLEAN
        BY SMT
      <4> HIDE DEF S
      <4> QED
        BY <4>1, <4>2, <4>3, <4>4, <4>5, <3>2 DEF S
    <3> QED
      BY <3>3, <3>4
  <2>2. /\ worker' \in [Workers -> WorkerStates]
        /\ cancels' \in [Tasks -> Workers \cup {NoWorker}]
    <3>1. DrainTaskCancels \/ UNCHANGED <<cancels, worker>>
      BY <1>22 DEF PrepareSingle
    <3> QED
      BY <3>1, DrainType DEF TypeOK
  <2> QED
    BY <1>22, <2>1, <2>2 DEF PrepareSingle, TypeOK
<1>23. ASSUME NEW r \in Requests, CancelSiblings(r) PROVE TypeOK'
  <2>1. req' \in [Requests -> RequestStates]
    <3>1. [req EXCEPT ![r].pc = "prepare"] \in [Requests -> RequestStates]
      BY RequestMoves DEF TypeOK
    <3>2. ASSUME NEW t \in Tasks
          PROVE  [req EXCEPT ![r].siblings = @ \ {t}] \in [Requests -> RequestStates]
      <4>1. req[r] \in RequestStates /\ req \in [Requests -> RequestStates]
        BY DEF TypeOK
      <4>2. [req[r] EXCEPT !.siblings = @ \ {t}] \in RequestStates
        BY <4>1 DEF RequestStates
      <4> QED
        BY <4>1, <4>2
    <3>3. req[r].siblings \subseteq Tasks
      BY DEF TypeOK, RequestStates
    <3> QED
      BY <1>23, <3>1, <3>2, <3>3 DEF CancelSiblings, Goto
  <2>2. /\ task' \in [Tasks -> TaskStatuses] /\ taskRow' \in [Tasks -> TaskStatuses]
        /\ faults' \in 0..MaxFaults
    BY <1>23, TaskStatusType DEF CancelSiblings, TypeOK
  <2> QED
    BY <1>23, <2>1, <2>2 DEF CancelSiblings, TypeOK
<1>24. ASSUME NEW r \in Requests, ResetSingle(r) PROVE TypeOK'
  <2>1. req' \in [Requests -> RequestStates]
    <3>1. \A next \in RequestPcs :
            /\ [req EXCEPT ![r].pc = next] \in [Requests -> RequestStates]
            /\ [req EXCEPT ![r] = [NewRequest EXCEPT !.pc = next]]
                 \in [Requests -> RequestStates]
      BY RequestMoves DEF TypeOK
    <3> QED
      BY <1>24, <3>1 DEF ResetSingle, Goto
  <2>2. /\ task' \in [Tasks -> TaskStatuses] /\ taskRow' \in [Tasks -> TaskStatuses]
        /\ round' \in [Tasks -> Nat]
    BY <1>24 DEF ResetSingle, TypeOK
  <2>3. /\ status' \in QueueStatuses /\ row' \in QueueStatuses \cup {"none"}
        /\ faults' \in 0..MaxFaults
    BY <1>24 DEF ResetSingle, TypeOK, Succeeds, Fails
  <2> QED
    BY <1>24, <2>1, <2>2, <2>3 DEF ResetSingle, TypeOK
<1>25. ASSUME NEW r \in Requests, SetSingleRunTask(r) PROVE TypeOK'
  <2>1. req' \in [Requests -> RequestStates]
    <3>1. \A next \in RequestPcs :
            /\ [req EXCEPT ![r].pc = next] \in [Requests -> RequestStates]
            /\ [req EXCEPT ![r] = [NewRequest EXCEPT !.pc = next]]
                 \in [Requests -> RequestStates]
      BY RequestMoves DEF TypeOK
    <3> QED
      BY <1>25, <3>1 DEF SetSingleRunTask, Goto
  <2>2. single' \in Tasks \cup {NoTask}
    BY <1>25 DEF SetSingleRunTask, TypeOK, RequestStates
  <2> QED
    BY <1>25, <2>1, <2>2 DEF SetSingleRunTask, TypeOK
<1>26. ASSUME NEW r \in Requests, ForceUnmark(r) PROVE TypeOK'
  BY <1>26, RequestMoves, QueueStatusType, TaskStatusType, DrainType DEF
       ForceUnmark, Goto, TypeOK, Succeeds, Fails
<1>27. ASSUME NEW r \in Requests, ClearRefusedSingle(r) PROVE TypeOK'
  BY <1>27, RequestMoves, QueueStatusType, TaskStatusType, DrainType DEF
       ClearRefusedSingle, Goto, TypeOK, Succeeds, Fails
<1>28. ASSUME NEW r \in Requests, DeleteQueue(r) PROVE TypeOK'
  <2>1. req' \in [Requests -> RequestStates]
    <3>1. \A next \in RequestPcs :
            /\ [req EXCEPT ![r].pc = next] \in [Requests -> RequestStates]
            /\ [req EXCEPT ![r] = [NewRequest EXCEPT !.pc = next]]
                 \in [Requests -> RequestStates]
      BY RequestMoves DEF TypeOK
    <3> QED
      BY <1>28, <3>1 DEF DeleteQueue, Goto
  <2>2. /\ taskRow' \in [Tasks -> TaskStatuses] /\ row' \in QueueStatuses \cup {"none"}
        /\ cancels' \in [Tasks -> Workers \cup {NoWorker}]
    BY <1>28 DEF DeleteQueue, TypeOK
  <2>3. faults' \in 0..MaxFaults
    BY <1>28 DEF DeleteQueue, TypeOK, Succeeds, Fails
  <2>4. loaded' \in BOOLEAN
    BY <1>28, Zenon DEF DeleteQueue, TypeOK
  <2> QED
    BY <1>28, <2>1, <2>2, <2>3, <2>4 DEF DeleteQueue, TypeOK
<1>29. ASSUME NEW r \in Requests, EditList(r) PROVE TypeOK'
  <2>1. req' \in [Requests -> RequestStates]
    <3>1. \A next \in RequestPcs :
            /\ [req EXCEPT ![r].pc = next] \in [Requests -> RequestStates]
            /\ [req EXCEPT ![r] = [NewRequest EXCEPT !.pc = next]]
                 \in [Requests -> RequestStates]
      BY RequestMoves DEF TypeOK
    <3> QED
      BY <1>29, <3>1 DEF EditList, Goto
  <2>2. task' \in [Tasks -> TaskStatuses] /\ taskRow' \in [Tasks -> TaskStatuses]
    BY <1>29 DEF EditList, TypeOK
  <2>3. faults' \in 0..MaxFaults
    BY <1>29 DEF EditList, TypeOK, Succeeds, Fails
  <2> QED
    BY <1>29, <2>1, <2>2, <2>3 DEF EditList, TypeOK
<1>30. ASSUME GetBatchQueue PROVE TypeOK'
  BY <1>30 DEF GetBatchQueue, LoadRows, TypeOK, Fails, NoWork, NewRequest
<1>31. ASSUME Restart PROVE TypeOK'
  <2>1. worker' \in [Workers -> WorkerStates]
    BY <1>31 DEF Restart, NoWork, TypeOK, WorkerStates
  <2>2. req' \in [Requests -> RequestStates]
    BY <1>31 DEF Restart, NewRequest, TypeOK, RequestStates
  <2>3. /\ executor' \in [Requests -> ExecutorPcs] /\ faults' \in 0..MaxFaults
        /\ cancels' \in [Tasks -> Workers \cup {NoWorker}]
    BY <1>31 DEF Restart, Fails, TypeOK
  <2>4. /\ loaded' \in BOOLEAN /\ status' \in QueueStatuses
        /\ task' \in [Tasks -> TaskStatuses] /\ UNCHANGED <<row, taskRow>>
    BY <1>31 DEF Restart, LoadRows, TypeOK
  <2> QED
    BY <1>31, <2>1, <2>2, <2>3, <2>4 DEF Restart, TypeOK
<1>32. CASE UNCHANGED vars
  BY <1>32 DEF vars, TypeOK
<1> QED
  BY <1>1, <1>2, <1>3, <1>4, <1>5, <1>6, <1>7, <1>8, <1>9, <1>10, <1>11,
       <1>12, <1>13, <1>14, <1>15, <1>16, <1>17, <1>18, <1>19, <1>20, <1>21,
       <1>22, <1>23, <1>24, <1>25, <1>26, <1>27, <1>28, <1>29, <1>30, <1>31,
       <1>32 DEF Next, WorkerStep, ExecutorStep, RequestStep

-----------------------------------------------------------------------------
(* Memory and the tables.                                                  *)

\* A queue status written keeps both in step.
LEMMA QueueStatusFollows ==
  ASSUME MemoryFollowsDatabase, NEW s, UpdateQueueStatus(s), UNCHANGED <<loaded, task, taskRow>>
  PROVE  MemoryFollowsDatabase'
  BY DEF MemoryFollowsDatabase, UpdateQueueStatus

\* A task status written does too.
LEMMA TaskStatusFollows ==
  ASSUME TypeOK, MemoryFollowsDatabase, NEW t, NEW s, UpdateTaskStatus(t, s),
         UNCHANGED <<loaded, status, row>>
  PROVE  MemoryFollowsDatabase'
  BY DEF TypeOK, MemoryFollowsDatabase, UpdateTaskStatus

\* Every step keeps memory and tables in step.
LEMMA MemoryStep ==
  ASSUME TypeOK, MemoryFollowsDatabase, [Next]_vars
  PROVE  MemoryFollowsDatabase'
<1> USE DEF queue, run, bounds
<1>1. ASSUME NEW w \in Workers, ClaimTask(w) PROVE MemoryFollowsDatabase'
  BY <1>1 DEF ClaimTask, TypeOK, MemoryFollowsDatabase
<1>2. ASSUME NEW w \in Workers, Poll(w) PROVE MemoryFollowsDatabase'
  BY <1>2 DEF Poll, MemoryFollowsDatabase
<1>3. ASSUME NEW w \in Workers, Announce(w) PROVE MemoryFollowsDatabase'
  <2>1. CASE loaded
    BY <1>3, <2>1, TaskStatusFollows DEF Announce
  <2>2. CASE ~loaded
    BY <1>3, <2>2 DEF Announce, MemoryFollowsDatabase
  <2> QED
    BY <2>1, <2>2
<1>4. ASSUME NEW w \in Workers, Prepare(w) PROVE MemoryFollowsDatabase'
  BY <1>4, TaskStatusFollows DEF Prepare
<1>5. ASSUME NEW w \in Workers, Register(w) PROVE MemoryFollowsDatabase'
  <2>1. CASE UNCHANGED <<task, taskRow>>
    BY <1>5, <2>1 DEF Register, MemoryFollowsDatabase
  <2>2. CASE UpdateTaskStatus(worker[w].task, "failed")
    BY <1>5, <2>2, TaskStatusFollows DEF Register
  <2> QED
    BY <1>5, <2>1, <2>2 DEF Register
<1>6. ASSUME NEW w \in Workers, Report(w) PROVE MemoryFollowsDatabase'
  BY <1>6, TaskStatusFollows DEF Report
<1>7. ASSUME NEW w \in Workers, Leave(w) PROVE MemoryFollowsDatabase'
  BY <1>7 DEF Leave, MemoryFollowsDatabase
<1>8. ASSUME NEW w \in Workers, TakeSingleRun(w) PROVE MemoryFollowsDatabase'
  BY <1>8 DEF TakeSingleRun, MemoryFollowsDatabase
<1>9. ASSUME NEW w \in Workers, PauseAfterSingle(w) PROVE MemoryFollowsDatabase'
  BY <1>9, QueueStatusFollows DEF PauseAfterSingle
<1>10. ASSUME NEW r \in Requests, WorkersReturn(r) PROVE MemoryFollowsDatabase'
  BY <1>10 DEF WorkersReturn, MemoryFollowsDatabase
<1>11. ASSUME NEW r \in Requests, HasPendingOrRunningTasks(r) PROVE MemoryFollowsDatabase'
  BY <1>11 DEF HasPendingOrRunningTasks, MemoryFollowsDatabase
<1>12. ASSUME NEW r \in Requests, Complete(r) PROVE MemoryFollowsDatabase'
  BY <1>12, QueueStatusFollows DEF Complete
<1>13. ASSUME NEW r \in Requests, Unmark(r) PROVE MemoryFollowsDatabase'
  BY <1>13 DEF Unmark, MemoryFollowsDatabase
<1>14. ASSUME NEW r \in Requests, ClearSingleRunTask(r) PROVE MemoryFollowsDatabase'
  BY <1>14 DEF ClearSingleRunTask, MemoryFollowsDatabase
<1>15. ASSUME NEW r \in Requests, RerunBatchQueue(r) PROVE MemoryFollowsDatabase'
  BY <1>15 DEF RerunBatchQueue, MemoryFollowsDatabase
<1>16. ASSUME NEW r \in Requests, ScheduleTick(r) PROVE MemoryFollowsDatabase'
  BY <1>16 DEF ScheduleTick, MemoryFollowsDatabase
<1>17. ASSUME NEW r \in Requests, ResetQueueForRerun(r) PROVE MemoryFollowsDatabase'
  BY <1>17 DEF ResetQueueForRerun, TypeOK, MemoryFollowsDatabase, Present
<1>18. ASSUME NEW r \in Requests, TryMarkQueueExecutor(r) PROVE MemoryFollowsDatabase'
  BY <1>18 DEF TryMarkQueueExecutor, MemoryFollowsDatabase
<1>19. ASSUME NEW r \in Requests, Launch(r) \/ RefuseDisabled(r)
       PROVE  MemoryFollowsDatabase'
  BY <1>19 DEF Launch, RefuseDisabled, MemoryFollowsDatabase
<1>20. ASSUME NEW r \in Requests, Go(r) PROVE MemoryFollowsDatabase'
  BY <1>20, QueueStatusFollows DEF Go
<1>21. ASSUME NEW r \in Requests, PauseQueue(r) PROVE MemoryFollowsDatabase'
  BY <1>21 DEF PauseQueue, MemoryFollowsDatabase
<1>22. ASSUME NEW r \in Requests, PrepareSingle(r) PROVE MemoryFollowsDatabase'
  BY <1>22 DEF PrepareSingle, MemoryFollowsDatabase
<1>23. ASSUME NEW r \in Requests, CancelSiblings(r) PROVE MemoryFollowsDatabase'
  <2>1. CASE req[r].siblings = {}
    BY <1>23, <2>1 DEF CancelSiblings, MemoryFollowsDatabase
  <2>2. CASE req[r].siblings # {}
    BY <1>23, <2>2, TaskStatusFollows DEF CancelSiblings
  <2> QED
    BY <2>1, <2>2
<1>24. ASSUME NEW r \in Requests, ResetSingle(r) PROVE MemoryFollowsDatabase'
  BY <1>24 DEF ResetSingle, TypeOK, MemoryFollowsDatabase
<1>25. ASSUME NEW r \in Requests, SetSingleRunTask(r) PROVE MemoryFollowsDatabase'
  BY <1>25 DEF SetSingleRunTask, MemoryFollowsDatabase
<1>26. ASSUME NEW r \in Requests, ForceUnmark(r) PROVE MemoryFollowsDatabase'
  BY <1>26 DEF ForceUnmark, MemoryFollowsDatabase
<1>27. ASSUME NEW r \in Requests, ClearRefusedSingle(r) PROVE MemoryFollowsDatabase'
  BY <1>27 DEF ClearRefusedSingle, MemoryFollowsDatabase
<1>28. ASSUME NEW r \in Requests, DeleteQueue(r) PROVE MemoryFollowsDatabase'
  BY <1>28 DEF DeleteQueue, TypeOK, MemoryFollowsDatabase
<1>29. ASSUME NEW r \in Requests, EditList(r) PROVE MemoryFollowsDatabase'
  BY <1>29 DEF EditList, TypeOK, MemoryFollowsDatabase, Present, MayEditList
<1>30. ASSUME GetBatchQueue PROVE MemoryFollowsDatabase'
  BY <1>30 DEF GetBatchQueue, MemoryFollowsDatabase, LoadRows
<1>31. ASSUME Restart PROVE MemoryFollowsDatabase'
  BY <1>31 DEF Restart, MemoryFollowsDatabase, LoadRows
<1>32. CASE UNCHANGED vars
  BY <1>32 DEF vars, MemoryFollowsDatabase
<1> QED
  BY <1>1, <1>2, <1>3, <1>4, <1>5, <1>6, <1>7, <1>8, <1>9, <1>10, <1>11,
       <1>12, <1>13, <1>14, <1>15, <1>16, <1>17, <1>18, <1>19, <1>20, <1>21,
       <1>22, <1>23, <1>24, <1>25, <1>26, <1>27, <1>28, <1>29, <1>30, <1>31,
       <1>32 DEF Next, WorkerStep, ExecutorStep, RequestStep

-----------------------------------------------------------------------------
(* One executor at a time.                                                 *)

\* Request r has the mark: it is about to launch an executor, or its executor
\* has not given the mark back.
Holds(r) ==
  \/ req[r].pc \in {"launch", "go"}
  \/ req[r].pc = "reset" /\ kind[r] = "cron"
  \/ executor[r] \in {"running", "tasks", "complete", "unmark"}

\* Until a single run takes the mark from an executor at work, the mark has one
\* holder; it keeps the queue in memory, and nobody else completes it.
MarkInv ==
  /\ \A r \in Requests : executor[r] # "none" => req[r].pc = "done"
  /\ \A r \in Requests :
       req[r].pc \notin {"siblings", "prepare", "flag", "force", "unflag"}
  /\ \A r \in Requests : Holds(r) => mark /\ \A q \in Requests : Holds(q) => q = r
  /\ \A r \in Requests : Holds(r) /\ req[r].pc # "launch" => loaded
  /\ \A r \in Requests :
       req[r].pc = "go" \/ executor[r] \in {"running", "tasks", "complete"}
         => status # "completed"
  /\ \A w \in Workers :
       worker[w].pc \notin {"none", "stopped"} => executor[w[1]] = "running"

ExecutorInv == Orderly => MarkInv

\* The program counters after a worker moved on.
LEMMA StepPc ==
  ASSUME TypeOK, NEW w \in Workers, NEW next, Step(w, next) \/ Drop(w, next)
  PROVE  \A v \in Workers : worker'[v].pc = IF v = w THEN next ELSE worker[v].pc
  BY DEF TypeOK, WorkerStates, Step, Drop, NoWork

\* The program counters after a request moved on.
LEMMA GotoPc ==
  ASSUME TypeOK, NEW r \in Requests, NEW next, Goto(r, next)
  PROVE  \A q \in Requests : req'[q].pc = IF q = r THEN next ELSE req[q].pc
  BY DEF TypeOK, RequestStates, Goto


\* A request that was made stays made, and asks for what it asked.
LEMMA MadeStays ==
  ASSUME TypeOK, [Next]_vars
  PROVE  UNCHANGED kind /\ \A r \in Requests : req[r].pc # "idle" => req'[r].pc # "idle"
<1> USE DEF queue, run, bounds
<1>1. ASSUME NEW w \in Workers, WorkerStep(w) PROVE UNCHANGED <<kind, req>>
  BY <1>1 DEF WorkerStep, ClaimTask, Poll, Announce, Prepare, Register, Report, Leave,
              TakeSingleRun, PauseAfterSingle
<1>2. ASSUME NEW r \in Requests, ExecutorStep(r) PROVE UNCHANGED <<kind, req>>
  BY <1>2 DEF ExecutorStep, WorkersReturn, HasPendingOrRunningTasks, Complete, Unmark
<1>3. ASSUME NEW r \in Requests, RequestStep(r)
      PROVE  /\ UNCHANGED kind
             /\ \A q \in Requests : req[q].pc # "idle" => req'[q].pc # "idle"
  <2>1. \A next \in RequestPcs \ {"idle"} :
          Goto(r, next) => \A q \in Requests : req[q].pc # "idle" => req'[q].pc # "idle"
    BY GotoPc
  <2>2. CASE \/ ClearSingleRunTask(r) \/ RerunBatchQueue(r) \/ ScheduleTick(r)
             \/ TryMarkQueueExecutor(r) \/ Launch(r) \/ RefuseDisabled(r) \/ Go(r)
    BY <2>1, <2>2 DEF ClearSingleRunTask, RerunBatchQueue, ScheduleTick,
         TryMarkQueueExecutor, Launch, RefuseDisabled, Go, RequestPcs
  <2>3. CASE ResetQueueForRerun(r) \/ PauseQueue(r) \/ DeleteQueue(r) \/ EditList(r)
    BY <2>1, <2>3 DEF ResetQueueForRerun, PauseQueue, DeleteQueue, EditList, RequestPcs
  <2>4. CASE PrepareSingle(r) \/ CancelSiblings(r) \/ ResetSingle(r)
    BY ZenonT(40), <2>1, <2>4 DEF PrepareSingle, CancelSiblings, ResetSingle, RequestPcs, TypeOK,
         RequestStates, NewRequest
  <2>5. CASE SetSingleRunTask(r) \/ ForceUnmark(r) \/ ClearRefusedSingle(r)
    BY <2>1, <2>5 DEF SetSingleRunTask, ForceUnmark, ClearRefusedSingle, RequestPcs,
         TypeOK, RequestStates, NewRequest
  <2> QED
    BY <1>3, <2>2, <2>3, <2>4, <2>5 DEF RequestStep
<1>4. CASE GetBatchQueue \/ UNCHANGED vars
  BY <1>4 DEF GetBatchQueue, vars
<1>5. CASE Restart
  BY <1>5 DEF Restart, NewRequest
<1> QED
  BY <1>1, <1>2, <1>3, <1>4, <1>5 DEF Next

\* A step of a worker that already is at work, that touches neither the
\* requests nor the executors and completes nothing.
LEMMA WorkerKeeps ==
  ASSUME TypeOK, MarkInv, NEW w \in Workers, NEW next,
         Step(w, next) \/ Drop(w, next), worker[w].pc \notin {"none", "stopped"},
         UNCHANGED <<kind, loaded, mark, executor, req>>,
         status' = status \/ status' # "completed"
  PROVE  MarkInv'
  BY StepPc DEF MarkInv, Holds

\* A step of a request that neither takes nor gives up the mark.
LEMMA RequestKeeps ==
  ASSUME TypeOK, MarkInv, NEW r \in Requests, NEW next, Goto(r, next),
         req[r].pc # "done", ~Holds(r),
         next \in {"idle", "reset", "clear", "mark", "done"},
         next = "reset" => kind[r] # "cron",
         UNCHANGED <<kind, loaded, mark, executor>>,
         \A w \in Workers : worker'[w].pc = worker[w].pc,
         status' = status \/ status' # "completed"
  PROVE  MarkInv'
  BY GotoPc DEF MarkInv, Holds

\* Either the tasks are all reset, or nothing but the mark changes.
LEMMA ResetCases ==
  ASSUME NEW r \in Requests, ResetQueueForRerun(r)
  PROVE  \/ /\ loaded /\ UNCHANGED mark
            /\ status' = "pending" /\ row' = "pending"
            /\ task' = [t \in Tasks |-> IF t \in Present THEN "pending" ELSE task[t]]
            /\ taskRow' = [t \in Tasks |-> IF t \in Present THEN "pending" ELSE taskRow[t]]
            /\ round' = [t \in Tasks |-> IF t \in Present THEN round[t] + 1 ELSE round[t]]
            /\ Goto(r, IF kind[r] = "cron" THEN "go" ELSE "clear")
         \/ /\ mark' = (mark /\ kind[r] # "cron") /\ Goto(r, "done")
            /\ UNCHANGED status /\ UNCHANGED row
            /\ UNCHANGED task /\ UNCHANGED taskRow /\ UNCHANGED round
<1>1. \/ /\ loaded /\ Succeeds
         /\ status' = "pending" /\ row' = "pending"
         /\ task' = [t \in Tasks |-> IF t \in Present THEN "pending" ELSE task[t]]
         /\ taskRow' = [t \in Tasks |-> IF t \in Present THEN "pending" ELSE taskRow[t]]
         /\ round' = [t \in Tasks |-> IF t \in Present THEN round[t] + 1 ELSE round[t]]
         /\ Goto(r, IF kind[r] = "cron" THEN "go" ELSE "clear")
         /\ UNCHANGED mark
      \/ /\ IF loaded THEN Fails ELSE Succeeds
         /\ mark' = (mark /\ kind[r] # "cron")
         /\ Goto(r, "done")
         /\ UNCHANGED <<status, row, task, taskRow, round>>
  BY DEF ResetQueueForRerun
<1>2. UNCHANGED <<status, row, task, taskRow, round>> =>
        /\ UNCHANGED status /\ UNCHANGED row
        /\ UNCHANGED task /\ UNCHANGED taskRow /\ UNCHANGED round
  OBVIOUS
<1> QED
  BY <1>1, <1>2, Zenon

\* Every step keeps the mark with one holder.
LEMMA ExecutorStepInv ==
  ASSUME TypeOK, ExecutorInv, [Next]_vars
  PROVE  ExecutorInv'
<1> SUFFICES ASSUME Orderly, Orderly', MarkInv PROVE MarkInv'
  BY MadeStays DEF ExecutorInv, Orderly
<1> USE DEF queue, run, bounds
<1>1. ASSUME NEW w \in Workers, ClaimTask(w) PROVE MarkInv'
  BY <1>1, StepPc DEF ClaimTask, Step, TypeOK, WorkerStates, NoWork,
       MarkInv, Holds
<1>2. ASSUME NEW w \in Workers, Poll(w) PROVE MarkInv'
  BY <1>2, WorkerKeeps DEF Poll, UpdateQueueStatus
<1>3. ASSUME NEW w \in Workers, Announce(w) PROVE MarkInv'
  BY <1>3, WorkerKeeps DEF Announce, UpdateQueueStatus
<1>4. ASSUME NEW w \in Workers, Prepare(w) PROVE MarkInv'
  BY <1>4, WorkerKeeps DEF Prepare, UpdateQueueStatus
<1>5. ASSUME NEW w \in Workers, Register(w) PROVE MarkInv'
  BY <1>5, WorkerKeeps DEF Register
<1>6. ASSUME NEW w \in Workers, Report(w) PROVE MarkInv'
  BY <1>6, WorkerKeeps DEF Report, UpdateQueueStatus
<1>7. ASSUME NEW w \in Workers, Leave(w) PROVE MarkInv'
  BY <1>7, StepPc DEF Leave, Step, TypeOK, WorkerStates, NoWork, MarkInv,
       Holds
<1>8. ASSUME NEW w \in Workers, TakeSingleRun(w) PROVE MarkInv'
  BY <1>8, WorkerKeeps DEF TakeSingleRun, UpdateQueueStatus
<1>9. ASSUME NEW w \in Workers, PauseAfterSingle(w) PROVE MarkInv'
  BY <1>9, WorkerKeeps DEF PauseAfterSingle, UpdateQueueStatus
<1>10. ASSUME NEW r \in Requests, WorkersReturn(r) PROVE MarkInv'
  <2>1. \A w \in Workers : w[1] = r => worker[w].pc = "stopped"
    BY <1>10 DEF WorkersReturn, Workers
  <2>2. executor' \in [Requests -> ExecutorPcs]
        /\ \A q \in Requests : q # r => executor'[q] = executor[q]
        /\ executor[r] = "running"
        /\ executor'[r] \in {"tasks", "unmark"}
    BY <1>10 DEF WorkersReturn, Advance, TypeOK, ExecutorPcs
  <2>3. executor'[r] = "tasks" => status # "completed"
    BY <1>10 DEF WorkersReturn, Advance, TypeOK
  <2>4. \A w \in Workers : w[1] \in Requests
    BY DEF Workers
  <2> QED
    BY <1>10, <2>1, <2>2, <2>3, <2>4 DEF WorkersReturn, MarkInv, Holds
<1>11. ASSUME NEW r \in Requests, HasPendingOrRunningTasks(r) PROVE MarkInv'
  BY <1>11 DEF HasPendingOrRunningTasks, Advance, UpdateQueueStatus, TypeOK,
       MarkInv, Holds
<1>12. ASSUME NEW r \in Requests, Complete(r) PROVE MarkInv'
  BY <1>12 DEF Complete, Advance, UpdateQueueStatus, TypeOK, MarkInv,
       Holds
<1>13. ASSUME NEW r \in Requests, Unmark(r) PROVE MarkInv'
  BY <1>13 DEF Unmark, Advance, UpdateQueueStatus, TypeOK, MarkInv,
       Holds
<1>14. ASSUME NEW r \in Requests, ClearSingleRunTask(r) PROVE MarkInv'
  BY <1>14, RequestKeeps DEF ClearSingleRunTask, MarkInv, Holds
<1>15. ASSUME NEW r \in Requests, RerunBatchQueue(r) PROVE MarkInv'
  <2>1. PICK next \in {"reset", "done"} : Goto(r, next)
    BY <1>15 DEF RerunBatchQueue
  <2>2. /\ req[r].pc = "idle" /\ kind[r] = "rerun"
        /\ UNCHANGED <<kind, loaded, status, mark, executor, worker>>
    BY <1>15 DEF RerunBatchQueue
  <2> QED
    BY <2>1, <2>2, RequestKeeps DEF MarkInv, Holds
<1>16. ASSUME NEW r \in Requests, ScheduleTick(r) PROVE MarkInv'
  BY <1>16, GotoPc DEF ScheduleTick, TypeOK, MarkInv, Holds
<1>17. ASSUME NEW r \in Requests, ResetQueueForRerun(r) PROVE MarkInv'
  <2>0. req[r].pc = "reset" /\ UNCHANGED <<kind, loaded, worker, executor>>
    BY <1>17 DEF ResetQueueForRerun
  <2>1. kind[r] = "cron" => Holds(r)
    BY <2>0 DEF Holds
  <2>2. CASE /\ Goto(r, IF kind[r] = "cron" THEN "go" ELSE "clear")
             /\ UNCHANGED mark /\ loaded /\ status' = "pending"
    <3>1. \A q \in Requests : req'[q].pc =
            IF q = r THEN IF kind[r] = "cron" THEN "go" ELSE "clear" ELSE req[q].pc
      BY <2>2, GotoPc
    <3>2. \A q \in Requests : Holds(q)' => Holds(q)
      BY <2>0, <2>1, <3>1 DEF Holds
    <3> QED
      BY <2>0, <2>1, <2>2, <3>1, <3>2 DEF MarkInv, Holds
  <2>3. CASE /\ Goto(r, "done") /\ mark' = (mark /\ kind[r] # "cron") /\ UNCHANGED status
    <3>1. \A q \in Requests : req'[q].pc = IF q = r THEN "done" ELSE req[q].pc
      BY <2>3, GotoPc
    <3>2. \A q \in Requests : Holds(q)' => Holds(q) /\ q # r
      BY <2>0, <3>1 DEF Holds, MarkInv
    <3>3. ASSUME NEW q \in Requests, Holds(q)' PROVE mark'
      <4>1. mark /\ kind[r] # "cron"
        BY <2>1, <3>2, <3>3 DEF MarkInv
      <4> QED
        BY <2>3, <4>1, Zenon
    <3>4. \A q \in Requests : Holds(q)' /\ req'[q].pc # "launch" => loaded'
      BY <2>0, <3>1, <3>2 DEF MarkInv
    <3> QED
      BY <2>0, <2>3, <3>1, <3>2, <3>3, <3>4 DEF MarkInv
  <2> QED
    BY <1>17, <2>2, <2>3, ResetCases, Zenon
<1>18. ASSUME NEW r \in Requests, TryMarkQueueExecutor(r) PROVE MarkInv'
  <2>1. \A q \in Requests : req'[q].pc =
          IF q = r THEN IF mark THEN "done" ELSE "launch" ELSE req[q].pc
    BY <1>18, GotoPc DEF TryMarkQueueExecutor
  <2>2. /\ req[r].pc = "mark" /\ mark' = TRUE
        /\ UNCHANGED <<kind, loaded, status, worker, executor>>
    BY <1>18 DEF TryMarkQueueExecutor
  <2>3. CASE mark
    <3>1. \A q \in Requests : Holds(q)' => Holds(q)
      BY <2>1, <2>2, <2>3 DEF Holds
    <3> QED
      BY <2>1, <2>2, <2>3, <3>1 DEF MarkInv, Holds
  <2>4. CASE ~mark
    <3>1. \A q \in Requests : Holds(q)' => q = r
      BY <2>1, <2>2, <2>4 DEF Holds, MarkInv
    <3> QED
      BY <2>1, <2>2, <2>4, <3>1 DEF MarkInv, Holds
  <2> QED
    BY <2>3, <2>4
<1>19. ASSUME NEW r \in Requests, Launch(r) PROVE MarkInv'
  <2>1. PICK next \in {"unflag", "done", "reset", "go"} :
          /\ Goto(r, next)
          /\ next = "unflag" => kind[r] = "single"
          /\ next = "reset" => kind[r] = "cron"
          /\ IF next \in {"reset", "go"}
             THEN mark' /\ loaded /\ status \in {"pending", "paused", "completed"}
             ELSE ~mark'
          /\ next = "go" => status # "completed"
    BY <1>19 DEF Launch
  <2>2. \A q \in Requests : req'[q].pc = IF q = r THEN next ELSE req[q].pc
    BY <2>1, GotoPc
  <2>3. /\ req[r].pc = "launch" /\ kind[r] # "single"
        /\ UNCHANGED <<kind, loaded, status, worker, executor>>
    BY <1>19 DEF Launch, Orderly
  <2> QED
    BY <2>1, <2>2, <2>3 DEF MarkInv, Holds
<1>19a. ASSUME NEW r \in Requests, RefuseDisabled(r) PROVE MarkInv'
  <2>1. Goto(r, "done")
    BY <1>19a DEF RefuseDisabled, Orderly
  <2>2. \A q \in Requests : req'[q].pc = IF q = r THEN "done" ELSE req[q].pc
    BY <2>1, GotoPc
  <2>3. /\ req[r].pc = "go"
        /\ UNCHANGED <<kind, loaded, status, worker, executor>>
    BY <1>19a DEF RefuseDisabled
  <2>4. \A q \in Requests : ~Holds(q)'
    BY <2>2, <2>3 DEF MarkInv, Holds
  <2> QED
    BY <2>2, <2>3, <2>4 DEF MarkInv, Holds
<1>20. ASSUME NEW r \in Requests, Go(r) PROVE MarkInv'
  <2>1. \A w \in Workers : worker'[w].pc = IF w[1] = r THEN "claim" ELSE worker[w].pc
    BY <1>20 DEF Go, TypeOK, WorkerStates
  <2>2. /\ \A q \in Requests : executor'[q] = IF q = r THEN "running" ELSE executor[q]
        /\ \A q \in Requests : req'[q].pc = IF q = r THEN "done" ELSE req[q].pc
    BY <1>20, GotoPc DEF Go, Advance, TypeOK
  <2>3. /\ UNCHANGED <<kind, loaded, mark>> /\ req[r].pc = "go"
        /\ status' = status \/ status' # "completed"
    BY <1>20 DEF Go, UpdateQueueStatus
  <2>4. \A w \in Workers : w[1] \in Requests
    BY DEF Workers
  <2> QED
    BY <2>1, <2>2, <2>3, <2>4 DEF MarkInv, Holds
<1>21. ASSUME NEW r \in Requests, PauseQueue(r) PROVE MarkInv'
  <2>1. \A w \in Workers : worker'[w].pc = worker[w].pc
    BY <1>21 DEF PauseQueue, DrainTaskCancels, TypeOK, WorkerStates
  <2>2. status' = status \/ status' # "completed"
    BY <1>21 DEF PauseQueue
  <2>3. /\ UNCHANGED <<kind, loaded, mark, executor>> /\ Goto(r, "done")
        /\ req[r].pc = "idle"
    BY <1>21 DEF PauseQueue
  <2>4. ~Holds(r)
    BY <2>3 DEF MarkInv, Holds
  <2> QED
    BY <2>1, <2>2, <2>3, <2>4, RequestKeeps
<1>22. ASSUME NEW r \in Requests, PrepareSingle(r) PROVE MarkInv'
  BY <1>22, MadeStays DEF PrepareSingle, Goto, Orderly, TypeOK, RequestStates
<1>23. ASSUME NEW r \in Requests, CancelSiblings(r) PROVE MarkInv'
  BY <1>23 DEF CancelSiblings, MarkInv, Holds
<1>24. ASSUME NEW r \in Requests, ResetSingle(r) PROVE MarkInv'
  BY <1>24 DEF ResetSingle, MarkInv, Holds
<1>25. ASSUME NEW r \in Requests, SetSingleRunTask(r) PROVE MarkInv'
  BY <1>25 DEF SetSingleRunTask, MarkInv, Holds
<1>26. ASSUME NEW r \in Requests, ForceUnmark(r) PROVE MarkInv'
  BY <1>26 DEF ForceUnmark, MarkInv, Holds
<1>27. ASSUME NEW r \in Requests, ClearRefusedSingle(r) PROVE MarkInv'
  BY <1>27 DEF ClearRefusedSingle, MarkInv, Holds
<1>28. ASSUME NEW r \in Requests, DeleteQueue(r) PROVE MarkInv'
  <2>1. \A q \in Requests : req'[q].pc = IF q = r THEN "done" ELSE req[q].pc
    BY <1>28, GotoPc DEF DeleteQueue
  <2>2. /\ req[r].pc = "idle" /\ UNCHANGED <<kind, status, mark, worker, executor>>
        /\ UNCHANGED loaded \/ ~mark
    BY <1>28 DEF DeleteQueue
  <2> QED
    BY <2>1, <2>2 DEF MarkInv, Holds
<1>29. ASSUME NEW r \in Requests, EditList(r) PROVE MarkInv'
  BY <1>29, RequestKeeps DEF EditList, MarkInv, Holds
<1>30. ASSUME GetBatchQueue PROVE MarkInv'
  BY <1>30 DEF GetBatchQueue, LoadRows, MarkInv, Holds
<1>31. ASSUME Restart PROVE MarkInv'
  BY <1>31 DEF Restart, LoadRows, NoWork, NewRequest, TypeOK, RequestStates,
       WorkerStates, MarkInv, Holds
<1>32. CASE UNCHANGED vars
  BY <1>32 DEF vars, MarkInv, Holds
<1> QED
  BY <1>1, <1>2, <1>3, <1>4, <1>5, <1>6, <1>7, <1>8, <1>9, <1>10, <1>11,
       <1>12, <1>13, <1>14, <1>15, <1>16, <1>17, <1>18, <1>19, <1>19a, <1>20,
       <1>21,
       <1>22, <1>23, <1>24, <1>25, <1>26, <1>27, <1>28, <1>29, <1>30, <1>31,
       <1>32 DEF Next, WorkerStep, ExecutorStep, RequestStep

-----------------------------------------------------------------------------
(* The rounds of the tasks.                                                *)

\* What the place of a request or a worker says, whatever the others do.
PlaceInv ==
  /\ \A r \in Requests :
       /\ req[r].pc = "reset" => kind[r] \in {"rerun", "cron"}
       /\ req[r].pc \in {"siblings", "prepare", "flag", "force", "unflag"} =>
            kind[r] = "single"
       /\ req[r].pc \in {"siblings", "prepare"} => req[r].task \in Tasks
  /\ \A w \in Workers : Busy(w) \/ worker[w].pc \in {"leave", "take"} =>
       worker[w].task \in Tasks
  /\ status # "cancelled" /\ row # "cancelled"

\* A worker with a task, until its cancel function is removed.
AtTask(w) == Busy(w) \/ worker[w].pc = "leave"

\* No two workers have the same task: the task runs, in memory, until its worker
\* reports, and it is not pending again before the worker has left it.
WorkInv ==
  ResetsApart /\ Orderly =>
    /\ \A w \in Workers : Busy(w) => task[worker[w].task] = "running"
    /\ \A w \in Workers : worker[w].pc = "leave" =>
         task[worker[w].task] \notin {"absent", "pending"}
    /\ \A v, w \in Workers :
         AtTask(v) /\ AtTask(w) /\ worker[v].task = worker[w].task => v = w
    /\ \A w \in Workers : worker[w].pc = "run" =>
         worker[w].cancelled \/ cancels[worker[w].task] = w

\* A rerun that is about to reset the tasks has the queue completed, and a single
\* run has nobody at work on the task it is about to reset.
ResetInv ==
  ResetsApart =>
    /\ \A r \in Requests : req[r].pc = "reset" /\ kind[r] = "rerun" =>
         row \in {"completed", "none"}
    /\ \A r \in Requests :
         req[r].pc \in {"siblings", "prepare"} /\ req[r].resets =>
           /\ task[req[r].task] \notin {"absent", "pending", "running"}
           /\ taskRow[req[r].task] \notin {"pending", "running"}
           /\ row # "none" => taskRow[req[r].task] # "absent"
           /\ \A w \in Workers : Busy(w) => worker[w].task # req[r].task
    /\ \A w \in Workers : Busy(w) => worker[w].round = round[worker[w].task]

\* A status other than "cancelled" is written, or none.
LEMMA NeverCancelled ==
  ASSUME PlaceInv, NEW s, s # "cancelled", UpdateQueueStatus(s)
  PROVE  status' # "cancelled" /\ row' # "cancelled"
  BY DEF PlaceInv, UpdateQueueStatus

\* The places after the step of one worker.
LEMMA PlaceOfWorker ==
  ASSUME PlaceInv, NEW w \in Workers, UNCHANGED <<kind, req>>,
         \A v \in Workers : v # w => worker'[v] = worker[v],
         worker'[w].pc \in {"announce", "prepare", "register", "run", "leave", "take"}
           => worker'[w].task \in Tasks,
         status' # "cancelled", row' # "cancelled"
  PROVE  PlaceInv'
  BY DEF PlaceInv, Busy

\* The places after the step of one request.
LEMMA PlaceOfRequest ==
  ASSUME PlaceInv, NEW r \in Requests, UNCHANGED kind,
         \A q \in Requests : q # r => req'[q] = req[q],
         req'[r].pc = "reset" => kind[r] \in {"rerun", "cron"},
         req'[r].pc \in {"siblings", "prepare", "flag", "force", "unflag"} =>
           kind[r] = "single",
         req'[r].pc \in {"siblings", "prepare"} => req'[r].task \in Tasks,
         \A w \in Workers : worker'[w].task = worker[w].task
                            /\ (worker'[w].pc = worker[w].pc \/ worker'[w].pc = "claim"),
         status' # "cancelled", row' # "cancelled"
  PROVE  PlaceInv'
  BY DEF PlaceInv, Busy

\* The record of a worker or of a request after it moved on.
LEMMA Moved ==
  ASSUME TypeOK
  PROVE  /\ \A w \in Workers : \A next :
              Step(w, next) => /\ \A v \in Workers : v # w => worker'[v] = worker[v]
                               /\ worker'[w].pc = next
                               /\ worker'[w].task = worker[w].task
                               /\ worker'[w].round = worker[w].round
                               /\ worker'[w].cancelled = worker[w].cancelled
         /\ \A w \in Workers : \A next :
              Drop(w, next) => /\ \A v \in Workers : v # w => worker'[v] = worker[v]
                               /\ worker'[w].pc = next
         /\ \A r \in Requests : \A next :
              Goto(r, next) => /\ \A q \in Requests : q # r => req'[q] = req[q]
                               /\ req'[r].pc = next
                               /\ req'[r].task = req[r].task
                               /\ req'[r].resets = req[r].resets
  BY DEF TypeOK, WorkerStates, RequestStates, Step, Drop, Goto, NoWork

\* Every step leaves requests and workers in their places.
LEMMA PlaceStep ==
  ASSUME TypeOK, PlaceInv, [Next]_vars
  PROVE  PlaceInv'
<1> USE DEF queue, run, bounds
<1>0. status # "cancelled" /\ row # "cancelled"
  BY DEF PlaceInv
<1>1. ASSUME NEW w \in Workers, ClaimTask(w) PROVE PlaceInv'
  <2>1. UNCHANGED <<kind, req, status, row>>
    BY <1>1 DEF ClaimTask
  <2>2. CASE \E next \in {"stopped", "poll"} : Step(w, next)
    BY <1>0, <2>1, <2>2, Moved, PlaceOfWorker
  <2>3. CASE \E t \in Tasks : worker' = [worker EXCEPT ![w] =
               [pc |-> "announce", task |-> t, cancelled |-> FALSE, round |-> round[t]]]
    <3>1. /\ \A v \in Workers : v # w => worker'[v] = worker[v]
          /\ worker'[w].task \in Tasks
      BY <2>3 DEF TypeOK
    <3> QED
      BY <1>0, <2>1, <3>1, PlaceOfWorker
  <2> QED
    BY <1>1, <2>2, <2>3 DEF ClaimTask
<1>2. ASSUME NEW w \in Workers, Poll(w) \/ Announce(w) \/ Prepare(w) \/ Register(w) \/ Report(w)
      PROVE  PlaceInv'
  <2>1. UNCHANGED <<kind, req, status, row>>
    BY <1>2 DEF Poll, Announce, Prepare, Register, Report
  <2>2. \/ \E next \in {"claim", "stopped"} : Step(w, next)
        \/ Busy(w) /\ \E next \in WorkerPcs : Step(w, next)
        \/ Drop(w, "stopped")
    BY <1>2 DEF Poll, Announce, Prepare, Register, Report, Busy, WorkerPcs
  <2>3. Busy(w) => worker[w].task \in Tasks
    BY DEF PlaceInv
  <2> QED
    BY <1>0, <2>1, <2>2, <2>3, Moved, PlaceOfWorker
<1>3. ASSUME NEW w \in Workers, Leave(w) PROVE PlaceInv'
  <2>1. worker[w].task \in Tasks
    BY <1>3 DEF Leave, PlaceInv
  <2>2. /\ \A v \in Workers : v # w => worker'[v] = worker[v]
        /\ worker'[w].task = worker[w].task
    BY <1>3 DEF Leave, TypeOK, NoWork
  <2>3. UNCHANGED <<kind, req, status, row>>
    BY <1>3 DEF Leave
  <2> QED
    BY <1>0, <2>1, <2>2, <2>3, PlaceOfWorker
<1>4. ASSUME NEW w \in Workers, TakeSingleRun(w) \/ PauseAfterSingle(w) PROVE PlaceInv'
  <2>1. \E next \in {"pausing", "claim", "stopped"} : Step(w, next) \/ Drop(w, next)
    BY <1>4 DEF TakeSingleRun, PauseAfterSingle
  <2>2. UNCHANGED <<kind, req>> /\ status' # "cancelled" /\ row' # "cancelled"
    BY <1>0, <1>4, NeverCancelled DEF TakeSingleRun, PauseAfterSingle
  <2> QED
    BY <2>1, <2>2, Moved, PlaceOfWorker
<1>5. ASSUME NEW r \in Requests, ExecutorStep(r) PROVE PlaceInv'
  <2>1. UNCHANGED <<kind, req, worker>>
    BY <1>5 DEF ExecutorStep, WorkersReturn, HasPendingOrRunningTasks, Complete, Unmark
  <2>2. status' # "cancelled" /\ row' # "cancelled"
    BY <1>0, <1>5, NeverCancelled
       DEF ExecutorStep, WorkersReturn, HasPendingOrRunningTasks, Complete, Unmark
  <2> QED
    BY <2>1, <2>2 DEF PlaceInv, Busy
<1>6. ASSUME NEW r \in Requests,
             \/ ClearSingleRunTask(r) \/ RerunBatchQueue(r) \/ ScheduleTick(r)
             \/ TryMarkQueueExecutor(r) \/ Launch(r) \/ RefuseDisabled(r) \/ ForceUnmark(r)
             \/ ClearRefusedSingle(r)
      PROVE  PlaceInv'
  <2>1. PICK next \in {"mark", "reset", "done", "launch", "unflag", "go"} :
          /\ Goto(r, next)
          /\ next = "reset" => kind[r] \in {"rerun", "cron"}
          /\ next = "unflag" => kind[r] = "single"
    BY <1>6 DEF ClearSingleRunTask, RerunBatchQueue, ScheduleTick, TryMarkQueueExecutor,
                Launch, RefuseDisabled, ForceUnmark, ClearRefusedSingle
  <2>2. UNCHANGED <<kind, status, row, worker>>
    BY <1>6 DEF ClearSingleRunTask, RerunBatchQueue, ScheduleTick, TryMarkQueueExecutor,
                Launch, RefuseDisabled, ForceUnmark, ClearRefusedSingle
  <2> QED
    BY <1>0, <2>1, <2>2, Moved, PlaceOfRequest
<1>7. ASSUME NEW r \in Requests, ResetQueueForRerun(r) \/ DeleteQueue(r) \/ EditList(r)
      PROVE  PlaceInv'
  <2>1. PICK next \in {"go", "clear", "done"} : Goto(r, next)
    <3>1. ResetQueueForRerun(r) => \E next \in {"go", "clear", "done"} : Goto(r, next)
      BY ResetCases
    <3>2. DeleteQueue(r) \/ EditList(r) => Goto(r, "done")
      BY DEF DeleteQueue, EditList
    <3> QED
      BY <1>7, <3>1, <3>2
  <2>2. UNCHANGED <<kind, worker>>
    BY <1>7 DEF ResetQueueForRerun, DeleteQueue, EditList
  <2>3. status' # "cancelled" /\ row' # "cancelled"
    <3>1. ResetQueueForRerun(r) => \/ UNCHANGED status /\ UNCHANGED row
                                   \/ status' = "pending" /\ row' = "pending"
      BY ResetCases, Zenon
    <3>2. DeleteQueue(r) => UNCHANGED status /\ row' \in {row, "none"}
      BY DEF DeleteQueue
    <3>3. EditList(r) => UNCHANGED <<status, row>>
      BY DEF EditList
    <3> QED
      BY <1>0, <1>7, <3>1, <3>2, <3>3
  <2> QED
    BY <2>1, <2>2, <2>3, Moved, PlaceOfRequest
<1>8. ASSUME NEW r \in Requests, Go(r) \/ PauseQueue(r) PROVE PlaceInv'
  <2>1. Goto(r, "done") /\ UNCHANGED kind
    BY <1>8 DEF Go, PauseQueue
  <2>2. \A w \in Workers : worker'[w].task = worker[w].task
                           /\ (worker'[w].pc = worker[w].pc \/ worker'[w].pc = "claim")
    <3>1. CASE Go(r)
      BY <3>1 DEF Go, TypeOK, WorkerStates
    <3>2. CASE PauseQueue(r)
      <4>1. DrainTaskCancels \/ UNCHANGED worker
        BY <3>2 DEF PauseQueue
      <4> QED
        BY <4>1 DEF DrainTaskCancels, TypeOK, WorkerStates
    <3> QED
      BY <1>8, <3>1, <3>2
  <2>3. status' # "cancelled" /\ row' # "cancelled"
    BY <1>0, <1>8, NeverCancelled DEF Go, PauseQueue
  <2> QED
    BY <2>1, <2>2, <2>3, Moved, PlaceOfRequest
<1>9. ASSUME NEW r \in Requests, PrepareSingle(r) PROVE PlaceInv'
  <2>1. \A w \in Workers : worker'[w].task = worker[w].task /\ worker'[w].pc = worker[w].pc
    <3>1. DrainTaskCancels \/ UNCHANGED worker
      BY <1>9 DEF PrepareSingle
    <3> QED
      BY <3>1 DEF DrainTaskCancels, TypeOK, WorkerStates
  <2>2. kind[r] = "single" /\ UNCHANGED <<kind, status, row>>
    BY <1>9 DEF PrepareSingle
  <2>3. /\ \A q \in Requests : q # r => req'[q] = req[q]
        /\ \/ req'[r].pc = "done"
           \/ req'[r].pc = "siblings" /\ req'[r].task \in Tasks
    <3>1. CASE Goto(r, "done")
      BY <3>1 DEF Goto, TypeOK, RequestStates
    <3>2. ASSUME NEW t \in Present, NEW S, NEW d, NEW e,
                 req' = [req EXCEPT ![r] = [pc |-> "siblings", task |-> t,
                                            siblings |-> S, resets |-> d, resumes |-> e]]
          PROVE  /\ \A q \in Requests : q # r => req'[q] = req[q]
                 /\ req'[r].pc = "siblings" /\ req'[r].task \in Tasks
      BY <3>2 DEF Present, TypeOK
    <3>3. CASE ~Goto(r, "done")
      <4>1. PICK t \in Present :
              req' = [req EXCEPT ![r] =
                [pc |-> "siblings", task |-> t,
                 siblings |-> IF status = "paused"
                              THEN {u \in Tasks : task[u] = "running"} ELSE {},
                 resets |-> task[t] # "pending",
                 resumes |-> status \in {"completed", "cancelled"}]]
        BY <1>9, <3>3, Zenon DEF PrepareSingle
      <4> QED
        BY <3>2, <4>1, Zenon
    <3> QED
      BY <3>1, <3>3
  <2> QED
    BY <1>0, <2>1, <2>2, <2>3, PlaceOfRequest
<1>10. ASSUME NEW r \in Requests, CancelSiblings(r) PROVE PlaceInv'
  <2>1. kind[r] = "single" /\ req[r].task \in Tasks
    BY <1>10 DEF CancelSiblings, PlaceInv
  <2>2. UNCHANGED <<kind, status, row, worker>>
    BY <1>10 DEF CancelSiblings
  <2>3. /\ \A q \in Requests : q # r => req'[q] = req[q]
        /\ req'[r].task = req[r].task /\ req'[r].pc \in {"siblings", "prepare"}
    <3>1. req[r].pc = "siblings"
          /\ \/ Goto(r, "prepare")
             \/ \E t \in req[r].siblings : req' = [req EXCEPT ![r].siblings = @ \ {t}]
      BY <1>10 DEF CancelSiblings
    <3>2. CASE Goto(r, "prepare")
      BY <3>2, Moved
    <3>3. CASE \E t \in req[r].siblings : req' = [req EXCEPT ![r].siblings = @ \ {t}]
      BY <3>1, <3>3 DEF TypeOK, RequestStates
    <3> QED
      BY <3>1, <3>2, <3>3
  <2> QED
    BY <1>0, <2>1, <2>2, <2>3, PlaceOfRequest
<1>11. ASSUME NEW r \in Requests, ResetSingle(r) \/ SetSingleRunTask(r) PROVE PlaceInv'
  <2>1. kind[r] = "single"
    BY <1>11 DEF ResetSingle, SetSingleRunTask, PlaceInv
  <2>2. UNCHANGED <<kind, worker>> /\ status' # "cancelled" /\ row' # "cancelled"
    BY <1>0, <1>11 DEF ResetSingle, SetSingleRunTask
  <2>3. /\ \A q \in Requests : q # r => req'[q] = req[q]
        /\ req'[r].pc \in {"flag", "force", "done"}
    BY <1>11 DEF ResetSingle, SetSingleRunTask, Goto, TypeOK, RequestStates, NewRequest
  <2> QED
    BY <2>1, <2>2, <2>3, PlaceOfRequest
<1>12. ASSUME GetBatchQueue \/ UNCHANGED vars PROVE PlaceInv'
  <2>1. UNCHANGED <<kind, req, worker>> /\ status' # "cancelled" /\ row' # "cancelled"
    BY <1>0, <1>12 DEF GetBatchQueue, LoadRows, vars
  <2> QED
    BY <2>1 DEF PlaceInv, Busy
<1>13. ASSUME Restart PROVE PlaceInv'
  <2>1. UNCHANGED kind /\ status' # "cancelled" /\ row' # "cancelled"
    BY <1>0, <1>13 DEF Restart, LoadRows
  <2>2. \A w \in Workers : worker'[w].pc \in {"none", "stopped"}
    BY <1>13 DEF Restart, NoWork
  <2>3. \A r \in Requests : req'[r].pc \in {"idle", "done"}
    BY <1>13 DEF Restart, NewRequest
  <2> QED
    BY <2>1, <2>2, <2>3 DEF PlaceInv, Busy
<1> QED
  BY <1>1, <1>2, <1>3, <1>4, <1>5, <1>6, <1>7, <1>8, <1>9, <1>10, <1>11, <1>12, <1>13
     DEF Next, WorkerStep, RequestStep

\* The inductive invariant of a batch queue.
BatchInv ==
  /\ TypeOK
  /\ MemoryFollowsDatabase
  /\ ExecutorInv
  /\ PlaceInv
  /\ WorkInv
  /\ ResetInv

\* What the mixes of requests are never changes, and single runs stay asked for.
LEMMA Apart ==
  ASSUME TypeOK, [Next]_vars
  PROVE  UNCHANGED kind /\ (ResetsApart' <=> ResetsApart) /\ (Orderly' => Orderly)
  BY MadeStays DEF ResetsApart, Orderly

\* A worker that is not stopped has its executor, the queue and the mark.
LEMMA WorkersHaveQueue ==
  ASSUME BatchInv, Orderly, NEW w \in Workers, worker[w].pc \notin {"none", "stopped"}
  PROVE  /\ loaded /\ mark /\ status # "completed"
         /\ w[1] \in Requests /\ executor[w[1]] = "running" /\ Holds(w[1])
<1>1. w[1] \in Requests
  BY DEF Workers
<1> QED
  BY <1>1 DEF BatchInv, ExecutorInv, MarkInv, Holds

\* A rerun that is about to reset a queue has nobody at work in it.
LEMMA RerunUndisturbed ==
  ASSUME BatchInv, ResetsApart,
         NEW r \in Requests, req[r].pc = "reset", kind[r] = "rerun", loaded
  PROVE  /\ Orderly /\ status = "completed"
         /\ \A w \in Workers : worker[w].pc \in {"none", "stopped"}
         /\ \A q \in Requests : /\ executor[q] \notin {"running", "tasks", "complete"}
                                /\ req[q].pc # "go"
<1>1. Orderly
  BY DEF ResetsApart, Orderly
<1>2. status = "completed"
  BY DEF BatchInv, ResetInv, MemoryFollowsDatabase, TypeOK, QueueStatuses
<1>3. \A w \in Workers : worker[w].pc \in {"none", "stopped"}
  BY <1>1, <1>2, WorkersHaveQueue
<1> QED
  BY <1>1, <1>2, <1>3 DEF BatchInv, ExecutorInv, MarkInv

\* A step in which no worker takes or writes a task and no tasks are reset.
LEMMA FewerAtWork ==
  ASSUME BatchInv, [Next]_vars, UNCHANGED <<round, task, taskRow>>,
         \A v \in Workers : worker'[v] = worker[v] \/ ~AtTask(v)',
         ResetsApart /\ Orderly => \A v \in Workers :
           AtTask(v)' => cancels'[worker[v].task] = cancels[worker[v].task],
         \A r \in Requests : req'[r].pc \in {"siblings", "prepare"} /\ req'[r].resets =>
           /\ req[r].pc \in {"siblings", "prepare"} /\ req[r].resets
           /\ req'[r].task = req[r].task,
         ResetsApart => \A r \in Requests : req'[r].pc = "reset" /\ kind[r] = "rerun" =>
           row' \in {"completed", "none"},
         row' # "none" => row # "none"
  PROVE  WorkInv' /\ ResetInv'
<1>1. UNCHANGED kind /\ (ResetsApart' <=> ResetsApart) /\ (Orderly' => Orderly)
  BY Apart DEF BatchInv
<1>2. WorkInv'
  BY <1>1 DEF BatchInv, WorkInv, AtTask, Busy
<1>3. ResetInv'
  BY <1>1 DEF BatchInv, ResetInv, AtTask, Busy
<1> QED
  BY <1>2, <1>3

\* A worker writes the status of its task.
LEMMA TaskWritten ==
  ASSUME BatchInv, [Next]_vars, NEW w \in Workers, Busy(w),
         NEW s \in {"running"} \cup Verdicts, UpdateTaskStatus(worker[w].task, s),
         NEW next \in {"prepare", "register", "leave", "take"}, Step(w, next),
         next \in {"prepare", "register"} => s = "running",
         UNCHANGED <<round, req, row, cancels>>
  PROVE  WorkInv' /\ ResetInv'
<1> DEFINE t == worker[w].task
<1>0. UNCHANGED kind /\ (ResetsApart' <=> ResetsApart) /\ (Orderly' => Orderly)
  BY Apart DEF BatchInv
<1>1. t \in Tasks
  BY DEF BatchInv, PlaceInv
<1>2. /\ \A u \in Tasks : u # t => task'[u] = task[u] /\ taskRow'[u] = taskRow[u]
      /\ task'[t] = task[t] \/ task'[t] = s
  BY DEF UpdateTaskStatus, BatchInv, TypeOK
<1>3. /\ \A v \in Workers : v # w => worker'[v] = worker[v]
      /\ worker'[w].pc = next /\ worker'[w].task = t
      /\ worker'[w].round = worker[w].round
  BY Moved DEF BatchInv
<1>4. \A v \in Workers : /\ worker'[v].task = worker[v].task
                         /\ worker'[v].round = worker[v].round
                         /\ Busy(v)' => Busy(v)
                         /\ AtTask(v)' => AtTask(v)
                         /\ v # w => worker'[v] = worker[v]
  BY <1>3 DEF AtTask, Busy
<1>5. \A v \in Workers : AtTask(v) => worker[v].task \in Tasks
  BY DEF BatchInv, PlaceInv, AtTask
<1>6. WorkInv'
  <2> SUFFICES ASSUME ResetsApart, Orderly
               PROVE  /\ \A v \in Workers : Busy(v)' => task'[worker'[v].task] = "running"
                      /\ \A v \in Workers : worker'[v].pc = "leave" =>
                           task'[worker'[v].task] \notin {"absent", "pending"}
                      /\ \A v, u \in Workers :
                           AtTask(v)' /\ AtTask(u)' /\ worker'[v].task = worker'[u].task
                             => v = u
                      /\ \A v \in Workers : worker'[v].pc = "run" =>
                           worker'[v].cancelled \/ cancels'[worker'[v].task] = v
    BY <1>0 DEF WorkInv
  <2>1. task[t] = "running" /\ task'[t] \notin {"absent", "pending"}
    BY <1>2 DEF BatchInv, WorkInv, Verdicts
  <2>2. \A v \in Workers : v # w /\ AtTask(v) => worker[v].task # t
    BY DEF BatchInv, WorkInv, AtTask
  <2>3. \A v \in Workers : v # w /\ AtTask(v) => task'[worker[v].task] = task[worker[v].task]
    BY <1>2, <1>5, <2>2
  <2>4. \A v \in Workers : Busy(v)' => task'[worker'[v].task] = "running"
    <3>1. Busy(w)' => task'[t] = "running"
      BY <1>2, <1>3, <2>1 DEF Busy
    <3> QED
      BY <1>3, <1>4, <2>3, <3>1 DEF BatchInv, WorkInv, AtTask
  <2>5. \A v \in Workers : worker'[v].pc = "leave" =>
          task'[worker'[v].task] \notin {"absent", "pending"}
    BY <1>3, <1>4, <2>1, <2>3 DEF BatchInv, WorkInv, AtTask
  <2>6. \A v, u \in Workers :
          AtTask(v)' /\ AtTask(u)' /\ worker'[v].task = worker'[u].task => v = u
    BY <1>4 DEF BatchInv, WorkInv
  <2>7. \A v \in Workers : worker'[v].pc = "run" =>
          worker'[v].cancelled \/ cancels'[worker'[v].task] = v
    BY <1>3, <1>4 DEF BatchInv, WorkInv
  <2> QED
    BY <2>4, <2>5, <2>6, <2>7
<1>7. ResetInv'
  <2>1. ResetsApart => \A r \in Requests :
          req[r].pc \in {"siblings", "prepare"} /\ req[r].resets =>
            req[r].task # t /\ req[r].task \in Tasks
    BY DEF BatchInv, ResetInv, PlaceInv
  <2>2. ResetsApart => \A r \in Requests :
          req[r].pc \in {"siblings", "prepare"} /\ req[r].resets =>
            task'[req[r].task] = task[req[r].task] /\ taskRow'[req[r].task] = taskRow[req[r].task]
    BY <1>2, <2>1
  <2> QED
    BY <1>0, <1>4, <2>2 DEF BatchInv, ResetInv
<1> QED
  BY <1>6, <1>7

\* A worker that claims a task is the only one at it, and knows its round.
LEMMA ClaimKeepsRounds ==
  ASSUME BatchInv, [Next]_vars, NEW w \in Workers, ClaimTask(w)
  PROVE  WorkInv' /\ ResetInv'
<1>0. UNCHANGED kind /\ (ResetsApart' <=> ResetsApart) /\ (Orderly' => Orderly)
  BY Apart DEF BatchInv
<1>1. UNCHANGED <<round, row, taskRow, cancels, req>>
  BY DEF ClaimTask, bounds
<1>2. CASE \E next \in {"stopped", "poll"} : Step(w, next) /\ UNCHANGED task
  <2>1. UNCHANGED task /\ \A v \in Workers : worker'[v] = worker[v] \/ ~AtTask(v)'
    BY <1>2, Moved DEF BatchInv, AtTask, Busy
  <2> QED
    BY <1>1, <2>1, FewerAtWork DEF BatchInv, ResetInv
<1>3. CASE \E t \in Tasks :
             /\ task[t] = "pending"
             /\ task' = [task EXCEPT ![t] = "running"]
             /\ worker' = [worker EXCEPT ![w] =
                  [pc |-> "announce", task |-> t, cancelled |-> FALSE, round |-> round[t]]]
  <2> PICK t \in Tasks :
             /\ task[t] = "pending"
             /\ task' = [task EXCEPT ![t] = "running"]
             /\ worker' = [worker EXCEPT ![w] =
                  [pc |-> "announce", task |-> t, cancelled |-> FALSE, round |-> round[t]]]
    BY <1>3
  <2>1. /\ \A v \in Workers : v # w => worker'[v] = worker[v]
        /\ worker'[w].pc = "announce" /\ worker'[w].task = t /\ worker'[w].round = round[t]
    BY DEF BatchInv, TypeOK
  <2>2. task'[t] = "running" /\ \A u \in Tasks : u # t => task'[u] = task[u]
    BY DEF BatchInv, TypeOK
  <2>3. WorkInv'
    <3> SUFFICES ASSUME ResetsApart, Orderly
                 PROVE  /\ \A v \in Workers : Busy(v)' => task'[worker'[v].task] = "running"
                        /\ \A v \in Workers : worker'[v].pc = "leave" =>
                             task'[worker'[v].task] \notin {"absent", "pending"}
                        /\ \A v, u \in Workers :
                             AtTask(v)' /\ AtTask(u)' /\ worker'[v].task = worker'[u].task
                               => v = u
                        /\ \A v \in Workers : worker'[v].pc = "run" =>
                             worker'[v].cancelled \/ cancels'[worker'[v].task] = v
      BY <1>0 DEF WorkInv
    <3>1. \A v \in Workers : AtTask(v) => worker[v].task \in Tasks \ {t}
      BY DEF BatchInv, WorkInv, PlaceInv, AtTask
    <3>2. \A v \in Workers : AtTask(v) => task'[worker[v].task] = task[worker[v].task]
      BY <2>2, <3>1
    <3>3. \A v \in Workers : Busy(v)' => task'[worker'[v].task] = "running"
      BY <2>1, <2>2, <3>2 DEF BatchInv, WorkInv, AtTask, Busy
    <3>4. \A v \in Workers : worker'[v].pc = "leave" =>
            task'[worker'[v].task] \notin {"absent", "pending"}
      BY <2>1, <3>2 DEF BatchInv, WorkInv, AtTask
    <3>5. \A v, u \in Workers :
            AtTask(v)' /\ AtTask(u)' /\ worker'[v].task = worker'[u].task => v = u
      BY <2>1, <3>1 DEF BatchInv, WorkInv, AtTask, Busy
    <3>6. \A v \in Workers : worker'[v].pc = "run" =>
            worker'[v].cancelled \/ cancels'[worker'[v].task] = v
      BY <1>1, <2>1 DEF BatchInv, WorkInv
    <3> QED
      BY <3>3, <3>4, <3>5, <3>6
  <2>4. ResetInv'
    <3>1. ResetsApart => \A r \in Requests :
            req[r].pc \in {"siblings", "prepare"} /\ req[r].resets =>
              req[r].task \in Tasks \ {t}
      BY DEF BatchInv, ResetInv, PlaceInv
    <3>2. \A v \in Workers : Busy(v)' => \/ Busy(v) /\ worker'[v] = worker[v]
                                         \/ worker'[v].task = t /\ worker'[v].round = round[t]
      BY <2>1 DEF Busy
    <3> QED
      BY <1>0, <1>1, <2>2, <3>1, <3>2 DEF BatchInv, ResetInv
  <2> QED
    BY <2>3, <2>4
<1> QED
  BY <1>2, <1>3 DEF ClaimTask

\* The cancel function of a worker is registered under a task that is its own.
LEMMA RegisterKeepsRounds ==
  ASSUME BatchInv, [Next]_vars, NEW w \in Workers, Register(w)
  PROVE  WorkInv' /\ ResetInv'
<1>0. UNCHANGED kind /\ (ResetsApart' <=> ResetsApart) /\ (Orderly' => Orderly)
  BY Apart DEF BatchInv
<1>1. Busy(w) /\ UNCHANGED <<round, req, row>>
  BY DEF Register, Busy
<1>2. CASE UpdateTaskStatus(worker[w].task, "failed") /\ Step(w, "leave") /\ UNCHANGED cancels
  BY <1>1, <1>2, TaskWritten DEF Verdicts
<1>3. CASE /\ cancels' = [cancels EXCEPT ![worker[w].task] = w]
           /\ Step(w, "run")
           /\ UNCHANGED <<task, taskRow, faults>>
  <2>1. /\ \A v \in Workers : v # w => worker'[v] = worker[v]
        /\ worker'[w].pc = "run" /\ worker'[w].task = worker[w].task
        /\ worker'[w].round = worker[w].round
    BY <1>3, Moved DEF BatchInv
  <2>2. \A v \in Workers : /\ worker'[v].task = worker[v].task
                           /\ worker'[v].round = worker[v].round
                           /\ Busy(v)' => Busy(v)
                           /\ AtTask(v)' => AtTask(v)
                           /\ worker'[v].pc = "leave" => worker[v].pc = "leave"
    BY <1>1, <2>1 DEF Busy, AtTask
  <2>3. worker[w].task \in Tasks
    BY <1>1 DEF BatchInv, PlaceInv
  <2>4. /\ cancels'[worker[w].task] = w
        /\ \A u \in Tasks : u # worker[w].task => cancels'[u] = cancels[u]
    BY <1>3, <2>3 DEF BatchInv, TypeOK
  <2>5. WorkInv'
    <3> SUFFICES ASSUME ResetsApart, Orderly, NEW v \in Workers, worker'[v].pc = "run"
                 PROVE  worker'[v].cancelled \/ cancels'[worker'[v].task] = v
      BY <1>0, <1>3, <2>2 DEF BatchInv, WorkInv
    <3>1. CASE v = w
      BY <2>1, <2>4, <3>1
    <3>2. CASE v # w
      <4>1. worker'[v] = worker[v] /\ worker[v].task # worker[w].task
        BY <1>1, <2>1, <3>2 DEF BatchInv, WorkInv, AtTask, Busy
      <4>2. worker[v].task \in Tasks
        BY <4>1 DEF BatchInv, PlaceInv, Busy
      <4> QED
        BY <2>4, <4>1, <4>2 DEF BatchInv, WorkInv
    <3> QED
      BY <3>1, <3>2
  <2>6. ResetInv'
    BY <1>0, <1>1, <1>3, <2>2 DEF BatchInv, ResetInv
  <2> QED
    BY <2>5, <2>6
<1> QED
  BY <1>2, <1>3 DEF Register

\* No step of a worker brings two to one task or a verdict to another round.
LEMMA WorkersKeepRounds ==
  ASSUME BatchInv, [Next]_vars, NEW w \in Workers, WorkerStep(w)
  PROVE  WorkInv' /\ ResetInv'
<1> USE DEF queue, run, bounds
<1>1. CASE Poll(w) \/ PauseAfterSingle(w) \/ TakeSingleRun(w)
  <2>1. UNCHANGED <<round, task, taskRow, cancels, req>>
    BY <1>1 DEF Poll, PauseAfterSingle, TakeSingleRun
  <2>2. \A v \in Workers : worker'[v] = worker[v] \/ ~AtTask(v)'
    BY <1>1, Moved DEF BatchInv, Poll, PauseAfterSingle, TakeSingleRun, AtTask, Busy
  <2>3. row' = row \/ (loaded /\ row' = "paused" /\ worker[w].pc = "pausing")
    BY <1>1 DEF Poll, PauseAfterSingle, TakeSingleRun, UpdateQueueStatus
  <2>4. ResetsApart => \A r \in Requests : req'[r].pc = "reset" /\ kind[r] = "rerun" =>
          row' \in {"completed", "none"}
    BY <2>1, <2>3, RerunUndisturbed DEF BatchInv, ResetInv
  <2>5. row' # "none" => row # "none"
    BY <2>3 DEF BatchInv, MemoryFollowsDatabase, TypeOK, QueueStatuses
  <2> QED
    BY <2>1, <2>2, <2>4, <2>5, FewerAtWork
<1>2. CASE Announce(w)
  <2>1. CASE loaded
    BY <1>2, <2>1, TaskWritten DEF Announce, Busy
  <2>2. CASE ~loaded
    <3>1. UNCHANGED <<round, task, taskRow, cancels, req, row>> /\ Drop(w, "stopped")
      BY <1>2, <2>2 DEF Announce
    <3>2. \A v \in Workers : worker'[v] = worker[v] \/ ~AtTask(v)'
      BY <3>1, Moved DEF BatchInv, AtTask, Busy
    <3> QED
      BY <3>1, <3>2, FewerAtWork DEF BatchInv, ResetInv
  <2> QED
    BY <2>1, <2>2
<1>3. CASE Prepare(w)
  BY <1>3, TaskWritten DEF Prepare, Busy, Verdicts
<1>4. CASE Report(w)
  BY <1>4, TaskWritten DEF Report, Busy
<1>5. CASE Leave(w)
  <2>1. UNCHANGED <<round, task, taskRow, req, row>>
    BY <1>5 DEF Leave
  <2>2. /\ \A v \in Workers : v # w => worker'[v] = worker[v]
        /\ worker'[w].pc = "take"
    BY <1>5 DEF Leave, BatchInv, TypeOK, WorkerStates, NoWork
  <2>3. \A v \in Workers : worker'[v] = worker[v] \/ ~AtTask(v)'
    BY <2>2 DEF AtTask, Busy
  <2>4. ASSUME ResetsApart, Orderly, NEW v \in Workers, AtTask(v)'
        PROVE  cancels'[worker[v].task] = cancels[worker[v].task]
    <3>1. v # w /\ AtTask(v) /\ AtTask(w)
      BY <1>5, <2>2, <2>4 DEF Leave, AtTask, Busy
    <3>2. worker[v].task # worker[w].task /\ worker[v].task \in Tasks
      BY <2>4, <3>1 DEF BatchInv, WorkInv, PlaceInv, AtTask
    <3> QED
      BY <1>5, <3>2 DEF Leave, BatchInv, TypeOK
  <2> QED
    BY <2>1, <2>3, <2>4, FewerAtWork DEF BatchInv, ResetInv
<1> QED
  BY <1>1, <1>2, <1>3, <1>4, <1>5, ClaimKeepsRounds, RegisterKeepsRounds DEF WorkerStep

\* Executors touch no task.
LEMMA ExecutorsKeepRounds ==
  ASSUME BatchInv, [Next]_vars, NEW r \in Requests, ExecutorStep(r)
  PROVE  WorkInv' /\ ResetInv'
<1> USE DEF queue, run, bounds
<1>1. UNCHANGED <<round, task, taskRow, cancels, req, worker>>
  BY DEF ExecutorStep, WorkersReturn, HasPendingOrRunningTasks, Complete, Unmark
<1>2. row' = row \/ (loaded /\ row' = "completed")
  BY DEF ExecutorStep, WorkersReturn, HasPendingOrRunningTasks, Complete, Unmark,
         UpdateQueueStatus
<1>3. row' # "none" => row # "none"
  BY <1>2 DEF BatchInv, MemoryFollowsDatabase, TypeOK, QueueStatuses
<1>4. ResetsApart => \A q \in Requests : req'[q].pc = "reset" /\ kind[q] = "rerun" =>
        row' \in {"completed", "none"}
  BY <1>1, <1>2 DEF BatchInv, ResetInv
<1> QED
  BY <1>1, <1>3, <1>4, FewerAtWork

\* A step of a request that writes no task: the status it writes, if it writes
\* one, is not missed by a rerun.
LEMMA QuietRequest ==
  ASSUME BatchInv, [Next]_vars, NEW r \in Requests,
         UNCHANGED <<round, task, taskRow, cancels>>,
         \A v \in Workers : worker'[v] = worker[v] \/ ~AtTask(v)',
         \A q \in Requests : q # r => req'[q] = req[q],
         req'[r].pc = "reset" => row = "completed" \/ kind[r] = "cron",
         req'[r].pc \notin {"siblings", "prepare"},
         row' = row \/ (req[r].pc = "go" /\ req'[r].pc = "done" /\ loaded)
  PROVE  WorkInv' /\ ResetInv'
<1>1. row' # "none" => row # "none"
  BY DEF BatchInv, MemoryFollowsDatabase, TypeOK, QueueStatuses
<1>2. ASSUME ResetsApart, NEW q \in Requests, req'[q].pc = "reset", kind[q] = "rerun"
      PROVE  row' \in {"completed", "none"}
  <2>1. CASE req[r].pc = "go" /\ req'[r].pc = "done" /\ loaded
    BY <1>2, <2>1, RerunUndisturbed DEF BatchInv
  <2>2. CASE row' = row
    BY <1>2, <2>2 DEF BatchInv, ResetInv
  <2> QED
    BY <2>1, <2>2
<1> QED
  BY <1>1, <1>2, FewerAtWork

\* Most steps of requests leave the tasks and their workers alone.
LEMMA QuietRequestsKeepRounds ==
  ASSUME BatchInv, [Next]_vars, NEW r \in Requests,
         \/ ClearSingleRunTask(r) \/ RerunBatchQueue(r) \/ ScheduleTick(r)
         \/ TryMarkQueueExecutor(r) \/ Launch(r) \/ RefuseDisabled(r) \/ Go(r)
         \/ SetSingleRunTask(r) \/ ForceUnmark(r) \/ ClearRefusedSingle(r)
  PROVE  WorkInv' /\ ResetInv'
<1> USE DEF queue, run, bounds
<1>1. UNCHANGED <<round, task, taskRow, cancels>>
  BY DEF ClearSingleRunTask, RerunBatchQueue, ScheduleTick, TryMarkQueueExecutor,
         Launch, RefuseDisabled, Go, SetSingleRunTask, ForceUnmark, ClearRefusedSingle
<1>2. \A v \in Workers : worker'[v] = worker[v] \/ ~AtTask(v)'
  <2>1. CASE Go(r)
    BY <2>1 DEF Go, BatchInv, TypeOK, WorkerStates, AtTask, Busy
  <2> QED
    BY <2>1 DEF ClearSingleRunTask, RerunBatchQueue, ScheduleTick, TryMarkQueueExecutor,
         Launch, RefuseDisabled, SetSingleRunTask, ForceUnmark, ClearRefusedSingle
<1>3. row' = row \/ (req[r].pc = "go" /\ req'[r].pc = "done" /\ loaded)
  BY Moved DEF BatchInv, ClearSingleRunTask, RerunBatchQueue, ScheduleTick,
         TryMarkQueueExecutor, Launch, RefuseDisabled, Go, SetSingleRunTask, ForceUnmark,
         ClearRefusedSingle, UpdateQueueStatus
<1>4. \/ \E next \in {"mark", "launch", "go", "done", "unflag"} : Goto(r, next)
      \/ \E next \in {"reset"} : Goto(r, next) /\ (row = "completed" \/ kind[r] = "cron")
      \/ req' = [req EXCEPT ![r] = [NewRequest EXCEPT !.pc = "force"]]
  <2>1. CASE RerunBatchQueue(r)
    BY <2>1 DEF RerunBatchQueue, BatchInv, PlaceInv, MemoryFollowsDatabase
  <2> QED
    BY <2>1 DEF ClearSingleRunTask, ScheduleTick, TryMarkQueueExecutor,
         Launch, RefuseDisabled, Go, SetSingleRunTask, ForceUnmark, ClearRefusedSingle
<1>5. /\ \A q \in Requests : q # r => req'[q] = req[q]
      /\ req'[r].pc = "reset" => row = "completed" \/ kind[r] = "cron"
      /\ req'[r].pc \notin {"siblings", "prepare"}
  BY <1>4, Moved DEF BatchInv, TypeOK, RequestStates, NewRequest
<1> QED
  BY <1>1, <1>2, <1>3, <1>5, QuietRequest

\* What a drain leaves of the workers: those at their runs are cancelled when
\* their functions were registered.
LEMMA Drained ==
  ASSUME TypeOK, DrainTaskCancels, NEW v \in Workers
  PROVE  /\ worker'[v].pc = worker[v].pc /\ worker'[v].task = worker[v].task
         /\ worker'[v].round = worker[v].round
         /\ worker[v].pc = "run" /\ (\E t \in Tasks : cancels[t] = v) =>
              worker'[v].cancelled
         /\ worker[v].cancelled => worker'[v].cancelled
<1>1. worker[v] \in WorkerStates /\ worker'[v] =
        IF worker[v].pc = "run" /\ \E t \in Tasks : cancels[t] = v
        THEN [worker[v] EXCEPT !.cancelled = TRUE] ELSE worker[v]
  BY DEF TypeOK, DrainTaskCancels
<1> QED
  BY <1>1 DEF WorkerStates

\* A pause reaches every worker at its run.
LEMMA PauseKeepsRounds ==
  ASSUME BatchInv, [Next]_vars, NEW r \in Requests, PauseQueue(r)
  PROVE  WorkInv' /\ ResetInv'
<1> USE DEF queue, run, bounds
<1>0. UNCHANGED kind /\ (ResetsApart' <=> ResetsApart) /\ (Orderly' => Orderly)
  BY Apart DEF BatchInv
<1>1. /\ UNCHANGED <<round, task, taskRow>>
      /\ \A q \in Requests : q # r => req'[q] = req[q]
      /\ req'[r].pc = "done"
  BY Moved DEF PauseQueue, BatchInv
<1>2. CASE UNCHANGED <<status, row, cancels, worker>>
  BY <1>1, <1>2, QuietRequest
<1>3. CASE loaded /\ status = "running" /\ row' = "paused" /\ DrainTaskCancels
  <2>1. \A v \in Workers :
          /\ worker'[v].task = worker[v].task /\ worker'[v].round = worker[v].round
          /\ worker'[v].pc = worker[v].pc
          /\ Busy(v)' = Busy(v) /\ AtTask(v)' = AtTask(v)
    BY <1>3, Drained DEF BatchInv, Busy, AtTask
  <2>2. WorkInv'
    <3> SUFFICES ASSUME ResetsApart, Orderly, NEW v \in Workers, worker'[v].pc = "run"
                 PROVE  worker'[v].cancelled \/ cancels'[worker'[v].task] = v
      BY <1>0, <1>1, <2>1 DEF BatchInv, WorkInv
    <3>1. worker[v].pc = "run" /\ worker[v].task \in Tasks
      BY <2>1 DEF BatchInv, PlaceInv, Busy
    <3>2. worker[v].cancelled \/ cancels[worker[v].task] = v
      BY <3>1 DEF BatchInv, WorkInv
    <3> QED
      BY <1>3, <3>1, <3>2, Drained DEF BatchInv
  <2>3. ASSUME ResetsApart, NEW q \in Requests, kind[q] = "rerun" PROVE req[q].pc # "reset"
    BY <1>3, <2>3, RerunUndisturbed
  <2>4. row # "none"
    BY <1>3 DEF BatchInv, MemoryFollowsDatabase
  <2>5. ResetInv'
    BY <1>0, <1>1, <2>1, <2>3, <2>4 DEF BatchInv, ResetInv
  <2> QED
    BY <2>2, <2>5
<1> QED
  BY <1>2, <1>3 DEF PauseQueue

\* A single run is asked for: the queue is no longer orderly.
LEMMA SingleDisorders ==
  ASSUME TypeOK, NEW r \in Requests, kind[r] = "single", req'[r].pc # "idle", UNCHANGED kind
  PROVE  WorkInv'
  BY DEF WorkInv, Orderly

\* A single run decides to reset a task that nobody is at work on.
LEMMA PrepareKeepsRounds ==
  ASSUME BatchInv, [Next]_vars, NEW r \in Requests, PrepareSingle(r)
  PROVE  WorkInv' /\ ResetInv'
<1> USE DEF queue, run, bounds
<1>0. UNCHANGED kind /\ (ResetsApart' <=> ResetsApart)
  BY Apart DEF BatchInv
<1>1. kind[r] = "single" /\ req[r].pc = "idle" /\ UNCHANGED <<round, task, taskRow, row>>
  BY DEF PrepareSingle
<1>2. CASE Goto(r, "done") /\ UNCHANGED <<cancels, worker>>
  BY <1>1, <1>2, Moved, QuietRequest DEF BatchInv
<1>3. CASE \E t \in Present :
          /\ loaded /\ status # "running" /\ task[t] # "running"
          /\ req' = [req EXCEPT ![r] =
               [pc |-> "siblings", task |-> t,
                siblings |-> IF status = "paused"
                             THEN {u \in Tasks : task[u] = "running"} ELSE {},
                resets |-> task[t] # "pending",
                resumes |-> status \in {"completed", "cancelled"}]]
          /\ IF status = "paused" THEN DrainTaskCancels ELSE UNCHANGED <<cancels, worker>>
  <2> PICK t \in Present :
          /\ loaded /\ status # "running" /\ task[t] # "running"
          /\ req' = [req EXCEPT ![r] =
               [pc |-> "siblings", task |-> t,
                siblings |-> IF status = "paused"
                             THEN {u \in Tasks : task[u] = "running"} ELSE {},
                resets |-> task[t] # "pending",
                resumes |-> status \in {"completed", "cancelled"}]]
          /\ IF status = "paused" THEN DrainTaskCancels ELSE UNCHANGED <<cancels, worker>>
    BY <1>3
  <2>1. /\ \A q \in Requests : q # r => req'[q] = req[q]
        /\ req'[r].pc = "siblings" /\ req'[r].task = t
        /\ req'[r].resets <=> task[t] # "pending"
    BY DEF BatchInv, TypeOK
  <2>2. WorkInv'
    BY <1>0, <1>1, <2>1, SingleDisorders DEF BatchInv
  <2>3. \A v \in Workers :
          /\ worker'[v].task = worker[v].task /\ worker'[v].round = worker[v].round
          /\ Busy(v)' <=> Busy(v)
    BY Drained DEF BatchInv, Busy
  <2>4. ResetsApart => \A v \in Workers : Busy(v) => worker[v].task # t
    BY <1>1 DEF ResetsApart, Orderly, BatchInv, WorkInv
  <2>5. task[t] # "pending" => /\ task[t] \notin {"absent", "pending", "running"}
                               /\ taskRow[t] \notin {"pending", "running", "absent"}
    BY DEF BatchInv, MemoryFollowsDatabase, Present
  <2>6. ResetInv'
    BY <1>0, <1>1, <2>1, <2>3, <2>4, <2>5 DEF BatchInv, ResetInv
  <2> QED
    BY <2>2, <2>6
<1> QED
  BY <1>2, <1>3 DEF PrepareSingle

\* The siblings of a single run are cancelled, and its task is reset, with nobody
\* at work on that task.
LEMMA SingleKeepsRounds ==
  ASSUME BatchInv, [Next]_vars, NEW r \in Requests, CancelSiblings(r) \/ ResetSingle(r)
  PROVE  WorkInv' /\ ResetInv'
<1> USE DEF queue, run, bounds
<1>0. UNCHANGED kind /\ (ResetsApart' <=> ResetsApart)
  BY Apart DEF BatchInv
<1>1. kind[r] = "single" /\ UNCHANGED <<worker, cancels>>
  BY DEF CancelSiblings, ResetSingle, BatchInv, PlaceInv
<1>2. req'[r].pc # "idle" /\ \A q \in Requests : q # r => req'[q] = req[q]
  BY DEF CancelSiblings, ResetSingle, Goto, BatchInv, TypeOK, RequestStates, NewRequest
<1>3. WorkInv'
  BY <1>0, <1>1, <1>2, SingleDisorders DEF BatchInv
<1>4. ASSUME CancelSiblings(r) PROVE ResetInv'
  <2>1. /\ req'[r].pc \in {"siblings", "prepare"} /\ UNCHANGED <<row, round>>
        /\ req'[r].task = req[r].task /\ req'[r].resets = req[r].resets
        /\ req[r].pc = "siblings"
    BY <1>4 DEF CancelSiblings, Goto, BatchInv, TypeOK, RequestStates
  <2>2. \A u \in Tasks : /\ task'[u] = task[u] \/ task'[u] = "cancelled"
                         /\ taskRow'[u] = taskRow[u] \/ taskRow'[u] = "cancelled"
    <3>1. CASE UNCHANGED <<task, taskRow, faults>>
      BY <3>1
    <3>2. CASE \E t \in req[r].siblings : UpdateTaskStatus(t, "cancelled")
      <4> PICK t \in Tasks : UpdateTaskStatus(t, "cancelled")
        BY <3>2 DEF BatchInv, TypeOK, RequestStates
      <4> QED
        BY DEF UpdateTaskStatus, BatchInv, TypeOK
    <3> QED
      BY <1>4, <3>1, <3>2 DEF CancelSiblings
  <2>3. \A q \in Requests : req[q].pc \in {"siblings", "prepare"} => req[q].task \in Tasks
    BY DEF BatchInv, PlaceInv
  <2> QED
    BY <1>0, <1>1, <1>2, <2>1, <2>2, <2>3 DEF BatchInv, ResetInv, Busy
<1>5. ASSUME ResetSingle(r) PROVE ResetInv'
  <2>1. /\ req[r].pc = "prepare" /\ req'[r].pc \in {"flag", "done"}
        /\ req[r].task \in Tasks
    BY <1>5 DEF ResetSingle, Goto, BatchInv, PlaceInv, TypeOK, RequestStates, NewRequest
  <2>2. \/ UNCHANGED round
        \/ req[r].resets /\ round' = [round EXCEPT ![req[r].task] = @ + 1]
    BY <1>5 DEF ResetSingle
  <2>3. ASSUME ResetsApart, NEW w \in Workers, Busy(w)
        PROVE  round'[worker[w].task] = round[worker[w].task]
    BY <2>1, <2>2, <2>3 DEF BatchInv, ResetInv, PlaceInv, TypeOK
  <2>4. ASSUME ResetsApart, NEW q \in Requests, q # r
        PROVE  /\ kind[q] \notin {"rerun", "single"}
               /\ req[q].pc \notin {"siblings", "prepare"}
    BY <1>1, <2>4 DEF BatchInv, PlaceInv, ResetsApart
  <2> QED
    BY <1>0, <1>1, <1>2, <2>1, <2>3, <2>4 DEF BatchInv, ResetInv, Busy
<1> QED
  BY <1>3, <1>4, <1>5

\* DeleteQueue and EditList leave the tasks of the workers alone.
LEMMA DeleteKeepsRounds ==
  ASSUME BatchInv, [Next]_vars, NEW r \in Requests, DeleteQueue(r)
  PROVE  WorkInv' /\ ResetInv'
<1>0. UNCHANGED kind /\ (ResetsApart' <=> ResetsApart) /\ (Orderly' => Orderly)
  BY Apart DEF BatchInv
<1>1. /\ UNCHANGED <<round, task, worker>>
      /\ \A q \in Requests : q # r => req'[q] = req[q]
      /\ req'[r].pc = "done"
  BY Moved DEF DeleteQueue, BatchInv
<1>2. CASE UNCHANGED <<loaded, cancels, row, taskRow, faults>>
  BY <1>1, <1>2, QuietRequest
<1>3. CASE /\ ~mark
           /\ \/ row' = "none" /\ taskRow' = [t \in Tasks |-> "absent"]
              \/ UNCHANGED <<row, taskRow>>
  <2>1. Orderly => \A v \in Workers : worker[v].pc \in {"none", "stopped"}
    BY <1>3, WorkersHaveQueue
  <2>2. WorkInv'
    BY <1>0, <1>1, <2>1 DEF WorkInv, Busy, AtTask
  <2>3. \A q \in Requests : req[q].pc \in {"siblings", "prepare"} => req[q].task \in Tasks
    BY DEF BatchInv, PlaceInv
  <2>4. ResetInv'
    BY <1>0, <1>1, <1>3, <2>3 DEF BatchInv, ResetInv, Busy
  <2> QED
    BY <2>2, <2>4
<1> QED
  BY <1>2, <1>3 DEF DeleteQueue

LEMMA EditKeepsRounds ==
  ASSUME BatchInv, [Next]_vars, NEW r \in Requests, EditList(r)
  PROVE  WorkInv' /\ ResetInv'
<1> USE DEF queue, run, bounds
<1>0. UNCHANGED kind /\ (ResetsApart' <=> ResetsApart) /\ (Orderly' => Orderly)
  BY Apart DEF BatchInv
<1>1. /\ UNCHANGED <<round, worker, cancels, row>>
      /\ \A q \in Requests : q # r => req'[q] = req[q]
      /\ req'[r].pc = "done"
  BY Moved DEF EditList, BatchInv
<1>2. CASE UNCHANGED <<task, taskRow>>
  BY <1>1, <1>2, QuietRequest
<1>3. CASE /\ MayEditList
           /\ \E t \in Tasks : \E s \in {"pending", "removed"} :
                /\ s = "pending" => task[t] = "absent"
                /\ task' = [task EXCEPT ![t] = s] /\ taskRow' = [taskRow EXCEPT ![t] = s]
  <2> PICK t \in Tasks, s \in {"pending", "removed"} :
                /\ s = "pending" => task[t] = "absent"
                /\ task' = [task EXCEPT ![t] = s] /\ taskRow' = [taskRow EXCEPT ![t] = s]
    BY <1>3
  <2>1. /\ \A u \in Tasks : u # t => task'[u] = task[u] /\ taskRow'[u] = taskRow[u]
        /\ task'[t] = s /\ taskRow'[t] = s
    BY DEF BatchInv, TypeOK
  <2>2. WorkInv'
    <3> SUFFICES ASSUME ResetsApart, Orderly
                 PROVE  /\ \A v \in Workers : ~Busy(v)
                        /\ \A v \in Workers : worker[v].pc = "leave" =>
                             task'[worker[v].task] \notin {"absent", "pending"}
      BY <1>0, <1>1 DEF BatchInv, WorkInv, AtTask, Busy
    <3>1. \A v \in Workers : AtTask(v) => worker[v].task \in Tasks
      BY DEF BatchInv, PlaceInv, AtTask
    <3>2. \A v \in Workers : ~Busy(v)
      BY <1>3, <3>1 DEF MayEditList, BatchInv, WorkInv, AtTask
    <3>3. \A v \in Workers : worker[v].pc = "leave" =>
            task'[worker[v].task] \notin {"absent", "pending"}
      BY <2>1, <3>1 DEF BatchInv, WorkInv, AtTask
    <3> QED
      BY <3>2, <3>3
  <2>3. \A q \in Requests : req[q].pc \in {"siblings", "prepare"} => req[q].task \in Tasks
    BY DEF BatchInv, PlaceInv
  <2>4. ResetInv'
    BY <1>0, <1>1, <2>1, <2>3 DEF BatchInv, ResetInv, Busy
  <2> QED
    BY <2>2, <2>4
<1> QED
  BY <1>2, <1>3 DEF EditList

\* All tasks are reset only while no worker has one.
LEMMA ResetKeepsRounds ==
  ASSUME BatchInv, [Next]_vars, NEW r \in Requests, ResetQueueForRerun(r)
  PROVE  WorkInv' /\ ResetInv'
<1> USE DEF queue, run, bounds
<1>0. UNCHANGED kind /\ (ResetsApart' <=> ResetsApart) /\ (Orderly' => Orderly)
  BY Apart DEF BatchInv
<1>1. /\ req[r].pc = "reset" /\ kind[r] \in {"rerun", "cron"}
      /\ UNCHANGED <<cancels, worker>>
  BY DEF ResetQueueForRerun, BatchInv, PlaceInv
<1>2. \A next : Goto(r, next) => /\ \A q \in Requests : q # r => req'[q] = req[q]
                                 /\ req'[r].pc = next
  BY Moved DEF BatchInv
<1>3. CASE /\ Goto(r, "done")
           /\ UNCHANGED status /\ UNCHANGED row
           /\ UNCHANGED task /\ UNCHANGED taskRow /\ UNCHANGED round
  BY <1>1, <1>2, <1>3, QuietRequest
<1>4. CASE loaded /\ Goto(r, IF kind[r] = "cron" THEN "go" ELSE "clear")
  <2>1. ResetsApart => Orderly /\ \A v \in Workers : worker[v].pc \in {"none", "stopped"}
    <3> SUFFICES ASSUME ResetsApart
                 PROVE  Orderly /\ \A v \in Workers : worker[v].pc \in {"none", "stopped"}
      OBVIOUS
    <3>1. CASE kind[r] = "rerun"
      BY <1>1, <1>4, <3>1, RerunUndisturbed
    <3>2. CASE kind[r] = "cron"
      <4>1. Orderly
        BY <3>2 DEF ResetsApart, Orderly
      <4>2. Holds(r) /\ executor[r] = "none"
        BY <1>1, <3>2, <4>1 DEF Holds, BatchInv, ExecutorInv, MarkInv, TypeOK
      <4>3. MarkInv
        BY <4>1 DEF BatchInv, ExecutorInv
      <4>4. \A v \in Workers : worker[v].pc \notin {"none", "stopped"} =>
              v[1] \in Requests /\ executor[v[1]] = "running" /\ Holds(v[1])
        BY <4>1, WorkersHaveQueue
      <4> QED
        BY <4>1, <4>2, <4>3, <4>4 DEF MarkInv
    <3> QED
      BY <1>1, <3>1, <3>2
  <2>2. ResetsApart => \A q \in Requests :
          /\ req'[q].pc = "reset" => kind[q] # "rerun"
          /\ req'[q].pc \notin {"siblings", "prepare"}
    BY <1>1, <1>2, <1>4 DEF BatchInv, PlaceInv, ResetsApart
  <2>3. WorkInv'
    BY <1>0, <1>1, <2>1 DEF WorkInv, Busy, AtTask
  <2>4. ResetInv'
    BY <1>0, <1>1, <2>1, <2>2 DEF ResetInv, Busy
  <2> QED
    BY <2>3, <2>4
<1> QED
  BY <1>3, <1>4, ResetCases

\* Nor do the steps of requests.
LEMMA RequestsKeepRounds ==
  ASSUME BatchInv, [Next]_vars, NEW r \in Requests, RequestStep(r)
  PROVE  WorkInv' /\ ResetInv'
BY QuietRequestsKeepRounds, PauseKeepsRounds, PrepareKeepsRounds, SingleKeepsRounds,
   DeleteKeepsRounds, EditKeepsRounds, ResetKeepsRounds DEF RequestStep

\* A queue that is read from the tables, or a new process, has no worker at a task.
LEMMA ProcessKeepsRounds ==
  ASSUME BatchInv, [Next]_vars, GetBatchQueue \/ Restart
  PROVE  WorkInv' /\ ResetInv'
<1> USE DEF queue, run, bounds
<1>0. UNCHANGED kind /\ (ResetsApart' <=> ResetsApart) /\ (Orderly' => Orderly)
  BY Apart DEF BatchInv
<1>1. CASE GetBatchQueue
  <2>1. /\ ~loaded /\ row # "none" /\ task' = taskRow
        /\ UNCHANGED <<row, taskRow, worker, cancels, req, round>>
    BY <1>1 DEF GetBatchQueue, LoadRows
  <2>2. Orderly => \A v \in Workers : worker[v].pc \in {"none", "stopped"}
    BY <2>1, WorkersHaveQueue
  <2>3. WorkInv'
    BY <1>0, <2>1, <2>2 DEF WorkInv, Busy, AtTask
  <2>4. ResetInv'
    BY <1>0, <2>1 DEF BatchInv, ResetInv, Busy
  <2> QED
    BY <2>3, <2>4
<1>2. CASE Restart
  <2>1. \A v \in Workers : worker'[v].pc \in {"none", "stopped"}
    BY <1>2 DEF Restart, NoWork
  <2>2. \A q \in Requests : req'[q].pc \in {"idle", "done"}
    BY <1>2 DEF Restart, NewRequest
  <2> QED
    BY <2>1, <2>2 DEF WorkInv, ResetInv, Busy, AtTask
<1> QED
  BY <1>1, <1>2

\* Every step keeps the rounds of the tasks and their workers together.
LEMMA RoundStep ==
  ASSUME BatchInv, [Next]_vars
  PROVE  WorkInv' /\ ResetInv'
<1>1. CASE UNCHANGED vars
  BY <1>1 DEF vars, queue, run, bounds, BatchInv, WorkInv, ResetInv, ResetsApart, Orderly,
       AtTask, Busy
<1> QED
  BY <1>1, WorkersKeepRounds, ExecutorsKeepRounds, RequestsKeepRounds, ProcessKeepsRounds
     DEF Next

-----------------------------------------------------------------------------
(* The theorems.                                                           *)

\* Every variable keeps its type.
THEOREM TypeCorrect == Spec => []TypeOK
<1>1. Init => TypeOK
  <2> SUFFICES ASSUME Init PROVE TypeOK
    OBVIOUS
  <2>1. kind \in [Requests -> Kinds] /\ faults \in 0..MaxFaults /\ round \in [Tasks -> Nat]
    BY BatchAssumption DEF Init
  <2>2. task \in [Tasks -> TaskStatuses] /\ taskRow \in [Tasks -> TaskStatuses]
    BY DEF Init, TaskStatuses
  <2>3. worker \in [Workers -> WorkerStates] /\ req \in [Requests -> RequestStates]
    BY DEF Init, WorkerStates, NoWork, WorkerPcs, RequestStates, NewRequest,
         RequestPcs
  <2>4. /\ status \in QueueStatuses /\ row \in QueueStatuses \cup {"none"}
        /\ executor \in [Requests -> ExecutorPcs]
        /\ cancels \in [Tasks -> Workers \cup {NoWorker}]
    BY DEF Init, QueueStatuses, ExecutorPcs
  <2> QED
    BY <2>1, <2>2, <2>3, <2>4 DEF Init, TypeOK
<1> QED
  BY <1>1, TypeStep, PTL DEF Spec

\* A restarted process reads what memory said, whichever writes failed.
THEOREM MemoryIsStored == Spec => []MemoryFollowsDatabase
<1>1. Init => MemoryFollowsDatabase
  BY DEF Init, MemoryFollowsDatabase
<1>2. TypeOK /\ MemoryFollowsDatabase /\ [Next]_vars => MemoryFollowsDatabase'
  BY MemoryStep
<1> QED
  BY <1>1, <1>2, TypeCorrect, PTL DEF Spec

\* The mark keeps executors apart.
THEOREM OneExecutor == Spec => []ExecutorInv
<1>1. Init => ExecutorInv
  BY DEF Init, ExecutorInv, MarkInv, Holds, NoWork, NewRequest
<1>2. TypeOK /\ ExecutorInv /\ [Next]_vars => ExecutorInv'
  BY ExecutorStepInv
<1> QED
  BY <1>1, <1>2, TypeCorrect, PTL DEF Spec

\* No worker loses its queue to a delete.
THEOREM DeletesAreSafe == Spec => []DeletedOnlyWhenIdle
<1>1. TypeOK /\ ExecutorInv => DeletedOnlyWhenIdle
  <2>1. \A w \in Workers : w[1] \in Requests
    BY DEF Workers
  <2> QED
    BY <2>1 DEF TypeOK, ExecutorInv, MarkInv, Holds, DeletedOnlyWhenIdle, Busy
<1> QED
  BY <1>1, TypeCorrect, OneExecutor, PTL

\* A queue is completed after its last worker is done.
THEOREM CompletionIsLast == Spec => []CompletedIsOver
<1>1. TypeOK /\ ExecutorInv => CompletedIsOver
  <2>1. \A w \in Workers : w[1] \in Requests
    BY DEF Workers
  <2> QED
    BY <2>1 DEF TypeOK, ExecutorInv, MarkInv, CompletedIsOver, Busy
<1> QED
  BY <1>1, TypeCorrect, OneExecutor, PTL
\* The marks, the rounds and the registrations of a queue fit together.
THEOREM BatchInvariant == Spec => []BatchInv
<1>1. Init => PlaceInv /\ WorkInv /\ ResetInv
  <2> SUFFICES ASSUME Init PROVE PlaceInv /\ WorkInv /\ ResetInv
    OBVIOUS
  <2>1. /\ \A r \in Requests : req[r].pc = "idle"
        /\ \A w \in Workers : worker[w].pc = "none"
    BY DEF Init, NoWork, NewRequest
  <2>2. status # "cancelled" /\ row # "cancelled"
    BY DEF Init
  <2> QED
    BY <2>1, <2>2 DEF PlaceInv, WorkInv, ResetInv, Busy, AtTask
<1>2. TypeOK /\ PlaceInv /\ [Next]_vars => PlaceInv'
  BY PlaceStep
<1>3. /\ TypeOK /\ MemoryFollowsDatabase /\ ExecutorInv /\ PlaceInv /\ WorkInv /\ ResetInv
      /\ [Next]_vars
      => WorkInv' /\ ResetInv'
  BY RoundStep DEF BatchInv
<1> QED
  BY <1>1, <1>2, <1>3, TypeCorrect, MemoryIsStored, OneExecutor, PTL DEF Spec, BatchInv

\* A worker reports on the round of the task that it claimed.
THEOREM VerdictsAreOfTheRound == Spec => []VerdictIsOfThisRound
<1>1. BatchInv => VerdictIsOfThisRound
  BY DEF BatchInv, ResetInv, VerdictIsOfThisRound
<1> QED
  BY <1>1, BatchInvariant, PTL

\* A pause reaches every worker that is at its run.
THEOREM RunsCanBeCancelled == Spec => []RunCanBeCancelled
<1>1. BatchInv => RunCanBeCancelled
  BY DEF BatchInv, WorkInv, RunCanBeCancelled
<1> QED
  BY <1>1, BatchInvariant, PTL
=============================================================================
