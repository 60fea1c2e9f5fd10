----------------------- MODULE AgentTaskManagerProofs -----------------------
(***************************************************************************)
(* What the task table guarantees for any number of requests: its types    *)
(* and its history always; the rest when no robot request and no sweep     *)
(* meets the stream requests and the cancel requests (with either,         *)
(* OnlyOwnerFinishes fails and so do these).                               *)
(***************************************************************************)
EXTENDS AgentTaskManager, TLAPS

\* The setting of most theorems.
StreamsOnly == Robots = {} /\ StuckSweep = FALSE

\* Whoever meets in the table: every variable has its type, because a handler goes
\* on to another segment only while there is one.
SegmentInv ==
  /\ TypeOK
  /\ \A h \in Handlers : pc[h] = "rebind" => seg[h] < MaxSegments

\* Whoever meets in the table: a handler that has not begun has started nothing.
AccountInv ==
  /\ SegmentInv
  /\ StartedTaskAccounted
  /\ \A h \in Handlers : pc[h] = "idle" => h \notin started

\* From StartTask to the deferred FinishTask a handler owns the task: no other
\* goroutine removes or replaces it.
OwnerInv ==
  \A h \in Handlers :
    /\ pc[h] \in RunPcs \cup {"finish"} => task # NoTask /\ task.owner = h
    /\ pc[h] \in RunPcs => task.cancel = <<h, seg[h]>>
    /\ pc[h] = "rebind" => seg[h] < MaxSegments
    /\ pc[h] = "idle" => seg[h] = 1

\* The session of a segment unregisters the hook it registered: the version it
\* remembers is still the current one.
HookInv ==
  /\ task # NoTask /\ task.hook # NoHook =>
       pc[task.owner] = "running" /\ task.hook = <<task.owner, seg[task.owner]>>
  /\ \A h \in Handlers :
       pc[h] = "running" => bound[h] # 0 /\ bound[h] = task.version

\* A hook and a cancel function that were copied together belong to one segment.
CopyInv == \A s \in Stoppers : req[s].hook \in {NoHook, req[s].cancel}

\* The inductive invariant of the table.
TableInv ==
  /\ TypeOK
  /\ OwnerInv
  /\ HookInv
  /\ CopyInv
  /\ sweep = "idle"

-----------------------------------------------------------------------------
(* Type correctness.                                                       *)

\* The cancel requests of TypeOK.
StopRecords ==
  [Stoppers ->
     [pc : {"idle", "snapshot", "push", "runtime", "ctx", "tools", "ok",
            "notfound"},
      kind : Causes \cup {"none"}, cancel : Ctxs \cup {NoHook},
      hook : Ctxs \cup {NoHook}]]

\* A cancel request that moves on is still well-formed.
LEMMA AnswerType ==
  ASSUME NEW f \in StopRecords, NEW s \in Stoppers,
         NEW next \in {"snapshot", "push", "runtime", "ctx", "tools", "ok",
                      "notfound"}
  PROVE  /\ [f EXCEPT ![s].pc = next] \in StopRecords
         /\ \A kind \in Causes :
              [f EXCEPT ![s].pc = next, ![s].kind = kind] \in StopRecords
  BY ZenonT(40) DEF StopRecords

\* The updates of the table leave a well-formed task.
LEMMA TaskUpdate ==
  ASSUME NEW t \in Tasks
  PROVE  /\ \A status \in {"running", "cancelling", "cancelled", "failed",
                         "incomplete"} : [t EXCEPT !.status = status] \in Tasks
         /\ \A hook \in Ctxs : [t EXCEPT !.hook = hook, !.version = @ + 1] \in Tasks
<1>1. ASSUME NEW status \in {"running", "cancelling", "cancelled", "failed",
                            "incomplete"}
      PROVE  [t EXCEPT !.status = status] \in Tasks
  BY DEF Tasks
<1>2. ASSUME NEW hook \in Ctxs
      PROVE  [t EXCEPT !.hook = hook, !.version = @ + 1] \in Tasks
  <2>1. t.version + 1 \in Nat
    BY DEF Tasks
  <2>2. \A v \in Nat : [t EXCEPT !.hook = hook, !.version = v] \in Tasks
    BY DEF Tasks
  <2> QED
    BY <2>1, <2>2
<1> QED
  BY <1>1, <1>2

\* Every variable keeps its type in every step.
LEMMA TypeStep ==
  ASSUME SegmentInv, [Next]_vars
  PROVE  TypeOK'
<1> USE TaskAssumption, NoTaskAssumption
    DEF TypeOK, SegmentInv, Tasks, Ctxs, Segments, Causes, RunPcs, runVars, Goto
<1>1. ASSUME NEW h \in Handlers, RejectConfig(h) PROVE TypeOK'
  BY <1>1 DEF RejectConfig, WithStatus
<1>2. ASSUME NEW h \in Handlers, StartTask(h) PROVE TypeOK'
  BY <1>2 DEF StartTask
<1>3. ASSUME NEW h \in Handlers, BindHooks(h) PROVE TypeOK'
  <2>1. task' \in Tasks \cup {NoTask}
    <3>1. CASE task = NoTask
      BY <1>3, <3>1 DEF BindHooks
    <3>2. CASE task # NoTask
      <4>1. task \in Tasks /\ <<h, seg[h]>> \in Ctxs
        BY <3>2
      <4>2. task' = [task EXCEPT !.hook = <<h, seg[h]>>, !.version = @ + 1]
        BY <1>3, <3>2 DEF BindHooks
      <4> HIDE DEF Tasks, Ctxs
      <4> QED
        BY <4>1, <4>2, TaskUpdate
    <3> QED
      BY <3>1, <3>2
  <2>2. bound' \in [Handlers -> Nat]
    <3>1. task # NoTask => task.version + 1 \in Nat
      OBVIOUS
    <3> QED
      BY <1>3, <3>1 DEF BindHooks
  <2> QED
    BY <1>3, <2>1, <2>2 DEF BindHooks
<1>4. ASSUME NEW h \in Handlers, SegmentEnds(h) PROVE TypeOK'
  BY <1>4 DEF SegmentEnds, Unbound
<1>5. ASSUME NEW h \in Handlers, ToolStarts(h) PROVE TypeOK'
  BY <1>5 DEF ToolStarts
<1>6. ASSUME NEW h \in Handlers, ToolEnds(h) PROVE TypeOK'
  BY <1>6 DEF ToolEnds
<1>7. ASSUME NEW h \in Handlers, ContinueRun(h) PROVE TypeOK'
  BY <1>7 DEF ContinueRun
<1>8. ASSUME NEW h \in Handlers, Deliver(h) PROVE TypeOK'
  BY <1>8 DEF Deliver, WithStatus
<1>9. ASSUME NEW h \in Handlers, NEW c \in Causes \cup {"none"}, HandleError(h, c) PROVE TypeOK'
  BY <1>9 DEF HandleError, WithStatus, RunCauses
<1>10. ASSUME NEW h \in Handlers, Rebind(h) PROVE TypeOK'
  <2>1. <<h, seg[h] + 1>> \in Ctxs /\ seg[h] + 1 \in Segments
    BY <1>10 DEF Rebind
  <2> QED
    BY <1>10, <2>1 DEF Rebind
<1>11. ASSUME NEW h \in Handlers, Restatus(h) PROVE TypeOK'
  BY <1>11 DEF Restatus, WithStatus
<1>12. ASSUME NEW h \in Handlers, FinishTask(h) PROVE TypeOK'
  BY <1>12 DEF FinishTask, RemoveTask
<1>13. ASSUME NEW h \in Handlers, FinishTail(h) PROVE TypeOK'
  BY <1>13 DEF FinishTail, KillTools
<1>14. ASSUME NEW s \in Stoppers, BeginStop(s) PROVE TypeOK'
  <2>1. req' \in StopRecords
    BY ZenonT(40), <1>14, AnswerType DEF BeginStop, StopRecords
  <2> QED
    BY <1>14, <2>1 DEF BeginStop, KillTools, StopRecords
<1>15. ASSUME NEW s \in Stoppers, BeginInterrupt(s) PROVE TypeOK'
  <2>0. req \in StopRecords
    BY DEF StopRecords
  <2>1. \A next \in {"snapshot", "ok", "notfound"} :
          /\ [req EXCEPT ![s].pc = next] \in StopRecords
          /\ [req EXCEPT ![s].pc = next, ![s].kind = "interrupt"] \in StopRecords
    BY <2>0, AnswerType
  <2>2. \/ UNCHANGED tool
        \/ /\ task.tool \in Handlers
           /\ tool' = [tool EXCEPT ![task.tool] = "killed"]
    BY <1>15 DEF BeginInterrupt
  <2>3. req' \in StopRecords
    BY ZenonT(40), <1>15, <2>1 DEF BeginInterrupt, Answer
  <2> QED
    BY <1>15, <2>2, <2>3 DEF BeginInterrupt, StopRecords
<1>16. ASSUME NEW s \in Stoppers, Snapshot(s) PROVE TypeOK'
  <2>1. CASE task = NoTask \/ task.status = "cancelling"
    <3>1. task' = task /\ (Answer(s, "ok") \/ Answer(s, "notfound"))
      BY <1>16, <2>1, Zenon DEF Snapshot
    <3>2. req' \in StopRecords
      <4>1. /\ [req EXCEPT ![s].pc = "ok"] \in StopRecords
            /\ [req EXCEPT ![s].pc = "notfound"] \in StopRecords
        <5>1. req \in StopRecords
          BY DEF StopRecords
        <5> QED
          BY <5>1, AnswerType
      <4> QED
        BY <3>1, <4>1 DEF Answer
    <3> QED
      BY <1>16, <3>1, <3>2 DEF Snapshot, StopRecords
  <2>2. CASE task # NoTask /\ task.status # "cancelling"
    <3>1. task' \in Tasks
      <4>1. task \in Tasks /\ task' = [task EXCEPT !.status = StatusFor(req[s].kind)]
        BY <1>16, <2>2 DEF Snapshot, WithStatus
      <4>2. StatusFor(req[s].kind) \in {"running", "cancelling"}
        BY DEF StatusFor
      <4> HIDE DEF Tasks
      <4> QED
        BY <4>1, <4>2, TaskUpdate
    <3>2. req' \in StopRecords
      BY <1>16, <2>2 DEF Snapshot, StopRecords
    <3> QED
      BY <1>16, <3>1, <3>2 DEF Snapshot, StopRecords
  <2> QED
    BY <2>1, <2>2
<1>17. ASSUME NEW s \in Stoppers, PushInterrupt(s) PROVE TypeOK'
  <2>0. req \in StopRecords
    BY DEF StopRecords
  <2>1. \A next \in {"ok", "runtime"} : [req EXCEPT ![s].pc = next] \in StopRecords
    BY <2>0, AnswerType
  <2>2. req' \in StopRecords
    BY <1>17, <2>1, Zenon DEF PushInterrupt, Answer
  <2> QED
    BY <1>17, <2>2 DEF PushInterrupt, StopRecords
<1>18. ASSUME NEW s \in Stoppers, RuntimeCancel(s) PROVE TypeOK'
  BY SMTT(30), <1>18 DEF RuntimeCancel, Answer
<1>19. ASSUME NEW s \in Stoppers, CancelCtx(s) PROVE TypeOK'
  BY SMTT(30), <1>19 DEF CancelCtx, Answer
<1>20. ASSUME NEW s \in Stoppers, StopTools(s) PROVE TypeOK'
  BY <1>20 DEF StopTools, KillTools, Answer
<1>21. ASSUME SweepStep PROVE TypeOK'
  BY <1>21 DEF SweepStep, SweepCollect, SweepFinish, SweepTail, RemoveTask, KillTools
<1>22. CASE UNCHANGED vars
  BY <1>22 DEF vars
<1> QED
  BY <1>1, <1>2, <1>3, <1>4, <1>5, <1>6, <1>7, <1>8, <1>9, <1>10, <1>11, <1>12, <1>13, <1>14, <1>15, <1>16, <1>17, <1>18, <1>19, <1>20, <1>21, <1>22 DEF Next, HandlerStep, StopperStep, SweepStep

-----------------------------------------------------------------------------
(* The inductive invariant.                                                *)

\* What a step may make of the task another handler owns: nothing but its
\* status and its tool.
KeepsTask ==
  /\ task' = NoTask <=> task = NoTask
  /\ task # NoTask => /\ task'.owner = task.owner /\ task'.cancel = task.cancel
                      /\ task'.hook = task.hook /\ task'.version = task.version

\* A new status, or a new tool, keeps the rest of the task.
LEMMA StatusKeepsTask ==
  ASSUME TypeOK,
         \/ UNCHANGED task
         \/ \E status \in {"running", "cancelling", "cancelled", "failed",
                           "incomplete"} : task' = WithStatus(status)
         \/ task # NoTask /\ \E g \in Handlers \cup {NoOne} :
                               task' = [task EXCEPT !.tool = g]
  PROVE  KeepsTask
<1>1. CASE task = NoTask
  BY <1>1 DEF KeepsTask, WithStatus
<1>2. CASE task # NoTask
  <2>1. task \in Tasks
    BY <1>2 DEF TypeOK
  <2>2. \A g \in Handlers \cup {NoOne} : [task EXCEPT !.tool = g] \in Tasks
    BY <2>1 DEF Tasks
  <2>3. task' \in Tasks
    BY <1>2, <2>1, <2>2, TaskUpdate DEF WithStatus
  <2> QED
    BY <1>2, <2>1, <2>3, NoTaskAssumption DEF KeepsTask, WithStatus, Tasks
<1> QED
  BY <1>1, <1>2

\* Cancel requests change only the status of the task.
LEMMA StopperFrame ==
  ASSUME TypeOK, NEW s \in Stoppers, StopperStep(s)
  PROVE  KeepsTask /\ UNCHANGED <<pc, seg, bound, sweep>>
<1>1. CASE Snapshot(s)
  <2>1. StatusFor(req[s].kind) \in {"running", "cancelling"}
    BY DEF StatusFor
  <2>2. task' = task \/ task' = WithStatus(StatusFor(req[s].kind))
    BY <1>1 DEF Snapshot
  <2> QED
    BY <1>1, <2>1, <2>2, StatusKeepsTask DEF Snapshot, runVars
<1>2. CASE ~Snapshot(s)
  <2>1. UNCHANGED <<task, pc, seg, bound, sweep>>
    BY <1>2 DEF StopperStep, BeginStop, BeginInterrupt, PushInterrupt,
                RuntimeCancel, CancelCtx, StopTools, runVars
  <2> QED
    BY <2>1, StatusKeepsTask
<1> QED
  BY <1>1, <1>2

\* The steps of a handler that leave owner, cancel function and hook alone.
QuietStep(h) ==
  \/ RejectConfig(h) \/ ToolStarts(h) \/ ToolEnds(h) \/ ContinueRun(h)
  \/ Deliver(h) \/ (\E c \in Causes \cup {"none"} : HandleError(h, c))
  \/ Restatus(h) \/ FinishTail(h)

\* What the quiet steps keep, and where they take the handler.
LEMMA QuietFrame ==
  ASSUME TypeOK, NEW h \in Handlers, QuietStep(h)
  PROVE  /\ KeepsTask /\ UNCHANGED <<seg, bound, sweep>>
         /\ \A g \in Handlers : g # h => pc'[g] = pc[g]
         /\ pc'[h] \in RunPcs => pc[h] \in RunPcs
         /\ pc'[h] = "finish" => pc[h] \in RunPcs \cup {"finish"}
         /\ pc'[h] = "rebind" => pc[h] = "rebind" \/ seg[h] < MaxSegments
         /\ pc'[h] = "idle" => pc[h] = "idle"
         /\ pc[h] = "running" => pc'[h] = "running"
         /\ pc'[h] = "running" => pc[h] = "running"
<1>1. KeepsTask
  <2>1. CASE RejectConfig(h) \/ Deliver(h) \/ Restatus(h)
    BY <2>1, StatusKeepsTask DEF RejectConfig, Deliver, Restatus
  <2>2. CASE \E c \in Causes \cup {"none"} : HandleError(h, c)
    BY <2>2, StatusKeepsTask DEF HandleError
  <2>3. CASE ToolStarts(h) \/ ToolEnds(h)
    BY <2>3, StatusKeepsTask DEF ToolStarts, ToolEnds
  <2>4. CASE ContinueRun(h) \/ FinishTail(h)
    BY <2>4, StatusKeepsTask DEF ContinueRun, FinishTail
  <2> QED
    BY <2>1, <2>2, <2>3, <2>4 DEF QuietStep
<1>2. UNCHANGED <<seg, bound, sweep>>
  BY DEF QuietStep, RejectConfig, ToolStarts, ToolEnds, ContinueRun, Deliver,
         HandleError, Restatus, FinishTail, runVars
<1>3. CASE ToolStarts(h) \/ ToolEnds(h)
  BY <1>1, <1>2, <1>3 DEF ToolStarts, ToolEnds, RunPcs
<1>4. CASE RejectConfig(h) \/ ContinueRun(h) \/ Deliver(h)
  BY <1>1, <1>2, <1>4 DEF RejectConfig, ContinueRun, Deliver, Goto, RunPcs, TypeOK
<1>5. CASE \E c \in Causes \cup {"none"} : HandleError(h, c)
  BY <1>1, <1>2, <1>5 DEF HandleError, Goto, RunPcs, TypeOK
<1>6. CASE Restatus(h) \/ FinishTail(h)
  BY <1>1, <1>2, <1>6 DEF Restatus, FinishTail, Goto, RunPcs, TypeOK
<1> QED
  BY <1>3, <1>4, <1>5, <1>6 DEF QuietStep

\* Every kind of step in the setting of the theorems.
LEMMA NextCases ==
  ASSUME StreamsOnly, sweep = "idle", [Next]_vars
  PROVE  \/ \E h \in Handlers : \/ QuietStep(h) \/ StartTask(h) \/ BindHooks(h)
                                \/ SegmentEnds(h) \/ Rebind(h) \/ FinishTask(h)
         \/ \E s \in Stoppers : StopperStep(s)
         \/ UNCHANGED vars
  BY DEF Next, HandlerStep, QuietStep, SweepStep, SweepCollect, SweepFinish,
         SweepTail, StreamsOnly

\* The owner stays the owner.
LEMMA OwnerStep ==
  ASSUME StreamsOnly, TableInv, [Next]_vars
  PROVE  OwnerInv'
<1> USE DEF TableInv, OwnerInv
<1>1. ASSUME NEW h \in Handlers, QuietStep(h) PROVE OwnerInv'
  BY <1>1, QuietFrame DEF KeepsTask, RunPcs
<1>2. ASSUME NEW h \in Handlers, StartTask(h) PROVE OwnerInv'
  <2>1. CASE task = NoTask
    <3>1. /\ task' = [owner |-> h, status |-> "running", cancel |-> <<h, 1>>,
                      hook |-> NoHook, version |-> 0, tool |-> NoOne]
          /\ pc' = [pc EXCEPT ![h] = "starting"] /\ UNCHANGED seg
      BY <1>2, <2>1 DEF StartTask, Goto, StreamsOnly, runVars
    <3>2. task' \in Tasks
      BY <3>1, TaskAssumption DEF Tasks, Ctxs, Segments
    <3>3. \A g \in Handlers : pc[g] \notin RunPcs \cup {"finish"}
      BY <2>1
    <3>4. seg[h] = 1
      BY <1>2 DEF StartTask
    <3> QED
      BY <3>1, <3>2, <3>3, <3>4, NoTaskAssumption DEF TypeOK, RunPcs
  <2>2. CASE task # NoTask
    BY <1>2, <2>2 DEF StartTask, Goto, StreamsOnly, runVars, TypeOK, RunPcs
  <2> QED
    BY <2>1, <2>2
<1>3. ASSUME NEW h \in Handlers, BindHooks(h) PROVE OwnerInv'
  <2>1. task \in Tasks /\ <<h, seg[h]>> \in Ctxs
    BY <1>3 DEF BindHooks, TypeOK, RunPcs, Ctxs
  <2>2. task' = [task EXCEPT !.hook = <<h, seg[h]>>, !.version = @ + 1]
    BY <1>3, <2>1, NoTaskAssumption DEF BindHooks
  <2>3. task' \in Tasks
    BY <2>1, <2>2, TaskUpdate
  <2>4. task'.owner = task.owner /\ task'.cancel = task.cancel
    BY <2>1, <2>2 DEF Tasks
  <2> QED
    BY <1>3, <2>3, <2>4, NoTaskAssumption DEF BindHooks, Goto, TypeOK, RunPcs
<1>4. ASSUME NEW h \in Handlers, SegmentEnds(h) PROVE OwnerInv'
  <2>1. task \in Tasks
    BY <1>4 DEF SegmentEnds, TypeOK, RunPcs
  <2>2. task' \in Tasks /\ task'.owner = task.owner /\ task'.cancel = task.cancel
    BY <1>4, <2>1 DEF SegmentEnds, Unbound, Tasks
  <2> QED
    BY <1>4, <2>2, NoTaskAssumption
       DEF SegmentEnds, Goto, TypeOK, RunPcs, runVars, StreamsOnly
<1>5. ASSUME NEW h \in Handlers, Rebind(h) PROVE OwnerInv'
  <2>1. task \in Tasks /\ task.owner = h /\ <<h, seg[h] + 1>> \in Ctxs
    BY <1>5, TaskAssumption DEF Rebind, TypeOK, RunPcs, Ctxs, Segments
  <2>2. task' \in Tasks /\ task'.owner = h /\ task'.cancel = <<h, seg[h] + 1>>
    BY <1>5, <2>1, NoTaskAssumption DEF Rebind, Tasks
  <2>3. \A g \in Handlers : g # h => pc[g] \notin RunPcs \cup {"finish"}
    BY <2>1
  <2> QED
    BY SMTT(30), <1>5, <2>2, <2>3, NoTaskAssumption DEF Rebind, Goto, TypeOK, RunPcs
<1>6. ASSUME NEW h \in Handlers, FinishTask(h) PROVE OwnerInv'
  BY <1>6 DEF FinishTask, RemoveTask, Goto, TypeOK, RunPcs, runVars
<1>7. ASSUME NEW s \in Stoppers, StopperStep(s) PROVE OwnerInv'
  BY <1>7, StopperFrame DEF KeepsTask
<1>8. CASE UNCHANGED vars
  BY <1>8 DEF vars
<1> QED
  BY <1>1, <1>2, <1>3, <1>4, <1>5, <1>6, <1>7, <1>8, NextCases

\* The hook of a closed session leaves the table with it.
LEMMA HookStep ==
  ASSUME StreamsOnly, TableInv, [Next]_vars
  PROVE  HookInv'
<1> USE DEF TableInv, OwnerInv, HookInv
<1>1. ASSUME NEW h \in Handlers, QuietStep(h) PROVE HookInv'
  <2>1. task # NoTask => task.owner \in Handlers
    BY DEF TypeOK, Tasks
  <2> QED
    BY <1>1, <2>1, QuietFrame DEF KeepsTask, RunPcs
<1>2. ASSUME NEW h \in Handlers, StartTask(h) PROVE HookInv'
  <2>1. CASE task = NoTask
    BY <1>2, <2>1 DEF StartTask, Goto, StreamsOnly, TypeOK, RunPcs, runVars
  <2>2. CASE task # NoTask
    BY <1>2, <2>2 DEF StartTask, Goto, StreamsOnly, TypeOK, RunPcs, Tasks, runVars
  <2> QED
    BY <2>1, <2>2
<1>3. ASSUME NEW h \in Handlers, BindHooks(h) PROVE HookInv'
  <2>1. task \in Tasks /\ task.owner = h /\ task # NoTask
    BY <1>3 DEF BindHooks, TypeOK, RunPcs
  <2>2. task' = [task EXCEPT !.hook = <<h, seg[h]>>, !.version = @ + 1]
        /\ bound' = [bound EXCEPT ![h] = task.version + 1]
    BY <1>3, <2>1 DEF BindHooks
  <2>3. /\ task'.owner = h /\ task'.hook = <<h, seg[h]>>
        /\ task'.version = task.version + 1 /\ task'.version # 0
    BY <2>1, <2>2 DEF Tasks
  <2>4. \A g \in Handlers : g # h => pc[g] # "running"
    BY <2>1 DEF RunPcs
  <2> QED
    BY <1>3, <2>2, <2>3, <2>4 DEF BindHooks, Goto, TypeOK
<1>4. ASSUME NEW h \in Handlers, SegmentEnds(h) PROVE HookInv'
  <2>1. /\ task \in Tasks /\ task.owner = h
        /\ bound[h] # 0 /\ bound[h] = task.version
    BY <1>4 DEF SegmentEnds, TypeOK, RunPcs
  <2>2. task' = [task EXCEPT !.hook = NoHook]
    BY <1>4, <2>1, NoTaskAssumption DEF SegmentEnds, Unbound
  <2>3. task'.hook = NoHook /\ task'.version = task.version
    BY <2>1, <2>2 DEF Tasks
  <2>4. \A g \in Handlers : pc'[g] # "running"
    BY <1>4, <2>1 DEF SegmentEnds, Goto, TypeOK, RunPcs
  <2> QED
    BY <2>3, <2>4
<1>5. ASSUME NEW h \in Handlers, Rebind(h) PROVE HookInv'
  <2>1. /\ task \in Tasks /\ task.owner = h /\ task.hook = NoHook
        /\ \A g \in Handlers : pc'[g] # "running"
    BY <1>5 DEF Rebind, Goto, TypeOK, RunPcs
  <2>2. task'.hook = NoHook
    BY <1>5, <2>1, NoTaskAssumption DEF Rebind, Tasks
  <2> QED
    BY <2>1, <2>2
<1>6. ASSUME NEW h \in Handlers, FinishTask(h) PROVE HookInv'
  BY <1>6 DEF FinishTask, RemoveTask, Goto, TypeOK, RunPcs, runVars
<1>7. ASSUME NEW s \in Stoppers, StopperStep(s) PROVE HookInv'
  <2>1. task # NoTask => task.owner \in Handlers
    BY DEF TypeOK, Tasks
  <2> QED
    BY <1>7, <2>1, StopperFrame DEF KeepsTask, RunPcs
<1>8. CASE UNCHANGED vars
  BY <1>8 DEF vars
<1> QED
  BY <1>1, <1>2, <1>3, <1>4, <1>5, <1>6, <1>7, <1>8, NextCases

\* Handlers do not touch the cancel requests.
LEMMA HandlerKeepsRequests ==
  ASSUME NEW h \in Handlers, HandlerStep(h)
  PROVE  UNCHANGED req
  BY DEF HandlerStep, RejectConfig, StartTask, BindHooks, SegmentEnds, ToolStarts, ToolEnds,
     ContinueRun, Deliver, HandleError, Rebind, Restatus, FinishTask, FinishTail

\* A request copies hook and cancel function together, and keeps them.
LEMMA CopyStep ==
  ASSUME StreamsOnly, TableInv, [Next]_vars
  PROVE  CopyInv'
<1>0. TypeOK /\ CopyInv
  BY DEF TableInv
<1>1. ASSUME NEW s \in Stoppers, Snapshot(s) PROVE CopyInv'
  <2>1. CASE \E next : Answer(s, next)
    BY <1>0, <2>1 DEF Answer, CopyInv, TypeOK
  <2>2. CASE ~\E next : Answer(s, next)
    <3>1. task # NoTask
      BY <1>1, <2>2 DEF Snapshot
    <3>2. /\ req'[s].cancel = task.cancel /\ req'[s].hook = task.hook
          /\ \A x \in Stoppers : x # s => req'[x] = req[x]
      BY <1>0, <1>1, <2>2 DEF Snapshot, TypeOK
    <3>3. task.owner \in Handlers
      BY <1>0, <3>1 DEF TypeOK, Tasks
    <3>4. task.hook \in {NoHook, task.cancel}
      BY <3>1, <3>3 DEF TableInv, OwnerInv, HookInv, RunPcs
    <3> QED
      BY <1>0, <3>2, <3>4 DEF CopyInv
  <2> QED
    BY <2>1, <2>2
<1>2. ASSUME NEW s \in Stoppers, StopperStep(s), ~Snapshot(s) PROVE CopyInv'
  <2>1. \A x \in Stoppers : req'[x].hook = req[x].hook /\ req'[x].cancel = req[x].cancel
    BY <1>0, <1>2 DEF StopperStep, BeginStop, BeginInterrupt, PushInterrupt, RuntimeCancel,
                      CancelCtx, StopTools, Answer, TypeOK
  <2> QED
    BY <1>0, <2>1 DEF CopyInv
<1>3. CASE UNCHANGED req
  BY <1>0, <1>3 DEF CopyInv
<1>4. SweepStep => UNCHANGED req
  BY DEF SweepStep, SweepCollect, SweepFinish, SweepTail
<1> QED
  BY <1>1, <1>2, <1>3, <1>4, HandlerKeepsRequests DEF Next, vars

\* What a copied hook or cancel function cuts is the segment both belong to.
LEMMA CopyUseStep ==
  ASSUME TableInv, [Next]_vars, NEW s \in Stoppers, req[s].hook # NoHook, req'[s] # req[s],
         NEW h \in Handlers, cause'[h] # cause[h] \/ native'[h] # native[h]
  PROVE  req[s].hook = <<h, seg[h]>>
<1>0. TypeOK /\ req[s].hook = req[s].cancel
  BY DEF TableInv, CopyInv
<1>1. SweepStep => UNCHANGED req
  BY DEF SweepStep, SweepCollect, SweepFinish, SweepTail
<1>2. PICK x \in Stoppers : StopperStep(x)
  BY <1>1, HandlerKeepsRequests DEF Next, vars
<1>3. x = s
  BY <1>0, <1>2 DEF StopperStep, BeginStop, BeginInterrupt, Snapshot, PushInterrupt,
     RuntimeCancel, CancelCtx, StopTools, Answer, TypeOK
<1>4. RuntimeCancel(s) \/ CancelCtx(s)
  BY <1>2, <1>3 DEF StopperStep, BeginStop, BeginInterrupt, Snapshot, PushInterrupt,
     StopTools, runVars
<1> QED
  BY <1>0, <1>4 DEF RuntimeCancel, CancelCtx, TypeOK

\* No handler step turns a stopped segment into a further one.
LEMMA StopStep ==
  ASSUME StreamsOnly, TableInv, [Next]_vars, NEW h \in Handlers,
         cause[h] = "stop", pc[h] # "rebind"
  PROVE  pc'[h] # "rebind" /\ seg'[h] = seg[h]
<1>1. ASSUME NEW g \in Handlers, HandlerStep(g)
      PROVE  pc'[h] # "rebind" /\ seg'[h] = seg[h]
  <2> USE DEF TableInv, TypeOK, Goto, runVars
  <2>1. CASE ContinueRun(g) \/ (\E c \in Causes \cup {"none"} : HandleError(g, c))
    BY <2>1 DEF ContinueRun, HandleError, RunCauses
  <2>2. CASE Rebind(g) \/ Restatus(g)
    BY <2>2 DEF Rebind, Restatus
  <2>3. CASE ~(ContinueRun(g) \/ (\E c \in Causes \cup {"none"} : HandleError(g, c))
               \/ Rebind(g) \/ Restatus(g))
    BY <1>1, <2>3 DEF HandlerStep, RejectConfig, StartTask, BindHooks,
       SegmentEnds, ToolStarts, ToolEnds, Deliver, FinishTask, FinishTail
  <2> QED
    BY <2>1, <2>2, <2>3
<1>2. ASSUME NEW s \in Stoppers, StopperStep(s) PROVE UNCHANGED <<pc, seg>>
  BY <1>2, StopperFrame DEF TableInv
<1>3. ~SweepStep
  BY DEF SweepStep, SweepCollect, SweepFinish, SweepTail, TableInv, StreamsOnly
<1> QED
  BY <1>1, <1>2, <1>3 DEF Next, vars

-----------------------------------------------------------------------------
(* The history, with robots and sweep.                                     *)

\* A handler is on its way to another segment only while there is one.
LEMMA SegmentStep ==
  ASSUME SegmentInv, [Next]_vars
  PROVE  \A h \in Handlers : pc'[h] = "rebind" => seg'[h] < MaxSegments
<1>0. TypeOK
  BY DEF SegmentInv
<1>1. ASSUME NEW h \in Handlers, HandlerStep(h)
      PROVE  /\ \A g \in Handlers : g # h => pc'[g] = pc[g] /\ seg'[g] = seg[g]
             /\ pc'[h] = "rebind" => seg'[h] < MaxSegments
  <2>1. CASE QuietStep(h)
    BY <1>0, <2>1, QuietFrame DEF SegmentInv
  <2>2. CASE ~QuietStep(h)
    BY <1>0, <1>1, <2>2
       DEF HandlerStep, QuietStep, StartTask, BindHooks, SegmentEnds, Rebind, FinishTask,
           Goto, runVars, TypeOK, SegmentInv
  <2> QED
    BY <2>1, <2>2
<1>2. ASSUME NEW s \in Stoppers, StopperStep(s) PROVE UNCHANGED <<pc, seg>>
  BY <1>0, <1>2, StopperFrame
<1>3. CASE SweepStep \/ UNCHANGED vars
  BY <1>3 DEF SweepStep, SweepCollect, SweepFinish, SweepTail, runVars, vars, SegmentInv
<1> QED
  BY <1>1, <1>2, <1>3 DEF Next, SegmentInv

\* The task, if there is one, keeps its owner.
KeepsOwner ==
  /\ task' = NoTask <=> task = NoTask
  /\ task # NoTask => task'.owner = task.owner

\* What neither starts nor removes a task keeps the account.
LEMMA OwnerKeepsAccount ==
  ASSUME StartedTaskAccounted, KeepsOwner, UNCHANGED <<hist, started>>
  PROVE  StartedTaskAccounted'
  BY DEF StartedTaskAccounted, KeepsOwner

\* A removal puts the owner's task into the history, for the first time.
LEMMA RemovalKeepsAccount ==
  ASSUME TypeOK, StartedTaskAccounted, task # NoTask, RemoveTask, UNCHANGED started
  PROVE  StartedTaskAccounted'
<1>1. task.owner \in Handlers
  BY DEF TypeOK, Tasks
<1>2. hist[task.owner] = 0
  BY <1>1 DEF StartedTaskAccounted
<1>3. /\ hist'[task.owner] = 1 /\ task' = NoTask
      /\ \A h \in Handlers : h # task.owner => hist'[h] = hist[h]
  BY <1>1, <1>2 DEF RemoveTask, TypeOK
<1>4. ASSUME NEW h \in Handlers, h # task.owner
      PROVE  hist'[h] \in {0, 1} /\ (h \in started <=> hist'[h] = 1)
  BY <1>3, <1>4 DEF StartedTaskAccounted
<1>5. task.owner \in started
  BY <1>1 DEF StartedTaskAccounted
<1> QED
  BY <1>3, <1>4, <1>5 DEF StartedTaskAccounted

\* The account is kept by every step, whoever takes it.
LEMMA AccountStep ==
  ASSUME AccountInv, [Next]_vars
  PROVE  AccountInv'
<1>0. TypeOK /\ SegmentInv /\ StartedTaskAccounted
  BY DEF AccountInv, SegmentInv
<1>1. SegmentInv'
  BY <1>0, TypeStep, SegmentStep DEF SegmentInv
<1>2. ASSUME NEW h \in Handlers, HandlerStep(h)
      PROVE  /\ StartedTaskAccounted'
             /\ \A g \in Handlers : pc'[g] = "idle" => g \notin started'
  <2>1. CASE QuietStep(h)
    <3>1. KeepsOwner
      BY <1>0, <2>1, QuietFrame DEF KeepsTask, KeepsOwner
    <3>2. UNCHANGED <<hist, started>>
      BY <2>1 DEF QuietStep, RejectConfig, ToolStarts, ToolEnds, ContinueRun, Deliver,
                  HandleError, Restatus, FinishTail
    <3>3. \A g \in Handlers : pc'[g] = "idle" => pc[g] = "idle"
      BY <1>0, <2>1, QuietFrame
    <3> QED
      BY <1>0, <3>1, <3>2, <3>3, OwnerKeepsAccount DEF AccountInv
  <2>2. CASE StartTask(h)
    <3>1. \A g \in Handlers : pc'[g] = "idle" => g # h /\ pc[g] = "idle"
      BY <1>0, <2>2 DEF StartTask, Goto, TypeOK
    <3>2. CASE task = NoTask
      <4>1. /\ task' = [owner |-> h, status |-> "running", cancel |-> <<h, 1>>,
                        hook |-> NoHook, version |-> 0, tool |-> NoOne]
            /\ started' = started \cup {h} /\ UNCHANGED hist /\ h \notin started
        BY <2>2, <3>2 DEF StartTask, AccountInv
      <4>2. task' \in Tasks
        BY <4>1, TaskAssumption DEF Tasks, Ctxs, Segments
      <4>3. task' # NoTask /\ task'.owner = h
        BY <4>1, <4>2, NoTaskAssumption
      <4>4. hist[h] # 1
        BY <1>0, <4>1 DEF StartedTaskAccounted
      <4>5. StartedTaskAccounted'
        BY <1>0, <3>2, <4>1, <4>3, <4>4 DEF StartedTaskAccounted
      <4> QED
        BY <3>1, <4>1, <4>5 DEF AccountInv
    <3>3. CASE task # NoTask
      <4>1. UNCHANGED <<task, started, hist>>
        BY <2>2, <3>3 DEF StartTask
      <4> QED
        BY <1>0, <3>1, <4>1, OwnerKeepsAccount DEF KeepsOwner, AccountInv
    <3> QED
      BY <3>2, <3>3
  <2>3. CASE BindHooks(h) \/ SegmentEnds(h) \/ Rebind(h)
    <3>1. UNCHANGED <<hist, started>>
          /\ \A g \in Handlers : pc'[g] = "idle" => pc[g] = "idle"
      BY <1>0, <2>3 DEF BindHooks, SegmentEnds, Rebind, runVars, Goto, TypeOK
    <3>2. CASE task = NoTask
      BY <1>0, <2>3, <3>1, <3>2, OwnerKeepsAccount
         DEF KeepsOwner, BindHooks, SegmentEnds, Unbound, Rebind, AccountInv
    <3>3. CASE task # NoTask
      <4>1. task' \in Tasks \cup {NoTask} /\ task \in Tasks
        BY <1>0, <1>1, <3>3 DEF SegmentInv, TypeOK
      <4>2. \/ task' = task
            \/ task' = [task EXCEPT !.hook = <<h, seg[h]>>, !.version = @ + 1]
            \/ task' = [task EXCEPT !.hook = NoHook]
            \/ task' = [task EXCEPT !.cancel = <<h, seg[h] + 1>>]
        BY <2>3, <3>3 DEF BindHooks, SegmentEnds, Unbound, Rebind
      <4>3. task'.owner = task.owner /\ task' \in Tasks
        <5>2. task'.owner = task.owner
          BY <4>1, <4>2 DEF Tasks
        <5>3. /\ <<h, seg[h]>> \in Ctxs
              /\ Rebind(h) => <<h, seg[h] + 1>> \in Ctxs
          BY <1>0, TaskAssumption DEF TypeOK, SegmentInv, Rebind, Segments, Ctxs
        <5>4. /\ [task EXCEPT !.hook = NoHook] \in Tasks
              /\ \A c \in Ctxs : [task EXCEPT !.cancel = c] \in Tasks
          BY <4>1 DEF Tasks
        <5>5. \/ task' = task
              \/ task' = [task EXCEPT !.hook = <<h, seg[h]>>, !.version = @ + 1]
              \/ task' = [task EXCEPT !.hook = NoHook]
              \/ \E c \in Ctxs : task' = [task EXCEPT !.cancel = c]
          <6>1. CASE Rebind(h)
            BY <3>3, <5>3, <6>1, Zenon DEF Rebind
          <6>2. CASE BindHooks(h) \/ SegmentEnds(h)
            BY <3>3, <6>2, Zenon DEF BindHooks, SegmentEnds, Unbound
          <6> QED
            BY <2>3, <6>1, <6>2
        <5>6. task' \in Tasks
          BY <4>1, <5>3, <5>4, <5>5, TaskUpdate
        <5> QED
          BY <5>2, <5>6
      <4> QED
        BY <1>0, <3>1, <3>3, <4>3, NoTaskAssumption, OwnerKeepsAccount
           DEF KeepsOwner, AccountInv
    <3> QED
      BY <3>2, <3>3
  <2>4. CASE FinishTask(h)
    <3>1. UNCHANGED started /\ \A g \in Handlers : pc'[g] = "idle" => pc[g] = "idle"
      BY <1>0, <2>4 DEF FinishTask, Goto, TypeOK
    <3>2. CASE task = NoTask
      BY <1>0, <2>4, <3>1, <3>2, OwnerKeepsAccount DEF FinishTask, KeepsOwner, AccountInv
    <3>3. CASE task # NoTask
      BY <1>0, <2>4, <3>1, <3>3, RemovalKeepsAccount DEF FinishTask, AccountInv
    <3> QED
      BY <3>2, <3>3
  <2> QED
    BY <1>2, <2>1, <2>2, <2>3, <2>4 DEF HandlerStep, QuietStep
<1>3. ASSUME NEW s \in Stoppers, StopperStep(s)
      PROVE  StartedTaskAccounted' /\ UNCHANGED <<pc, started>>
  <2>1. KeepsOwner /\ UNCHANGED pc
    BY <1>0, <1>3, StopperFrame DEF KeepsTask, KeepsOwner
  <2>2. UNCHANGED <<hist, started>>
    BY <1>3 DEF StopperStep, BeginStop, BeginInterrupt, Snapshot, PushInterrupt,
                RuntimeCancel, CancelCtx, StopTools
  <2> QED
    BY <1>0, <2>1, <2>2, OwnerKeepsAccount
<1>4. CASE SweepStep
  <2>1. UNCHANGED <<pc, started>>
    BY <1>4 DEF SweepStep, SweepCollect, SweepFinish, SweepTail
  <2>2. \/ UNCHANGED <<task, hist>>
        \/ task # NoTask /\ RemoveTask
    BY <1>4 DEF SweepStep, SweepCollect, SweepFinish, SweepTail
  <2>3. StartedTaskAccounted'
    BY <1>0, <2>1, <2>2, OwnerKeepsAccount, RemovalKeepsAccount DEF KeepsOwner
  <2> QED
    BY <1>1, <2>1, <2>3 DEF AccountInv
<1>5. CASE UNCHANGED vars
  <2>1. UNCHANGED <<task, hist, started, pc>>
    BY <1>5 DEF vars
  <2> QED
    BY <1>0, <1>1, <2>1, OwnerKeepsAccount DEF AccountInv, KeepsOwner
<1> QED
  BY <1>1, <1>2, <1>3, <1>4, <1>5 DEF Next, AccountInv

-----------------------------------------------------------------------------
(* The theorems.                                                           *)

\* The table's invariant, for any number of stream and cancel requests.
THEOREM TableInvariant ==
  ASSUME StreamsOnly
  PROVE  Spec => []TableInv
<1>1. Init => TableInv
  BY TaskAssumption
     DEF Init, TableInv, TypeOK, OwnerInv, HookInv, CopyInv, RunPcs,
         Segments
<1>2. TableInv /\ [Next]_vars => TableInv'
  <2> SUFFICES ASSUME TableInv, [Next]_vars PROVE TableInv'
    OBVIOUS
  <2>1. sweep' = "idle"
    <3>1. ASSUME NEW h \in Handlers, HandlerStep(h) PROVE UNCHANGED sweep
      BY <3>1 DEF HandlerStep, RejectConfig, StartTask, BindHooks, SegmentEnds,
         ToolStarts, ToolEnds, ContinueRun, Deliver, HandleError, Rebind,
         Restatus, FinishTask, FinishTail
    <3>2. ASSUME NEW s \in Stoppers, StopperStep(s) PROVE UNCHANGED sweep
      BY <3>2, StopperFrame DEF TableInv
    <3>3. ~SweepStep
      BY DEF SweepStep, SweepCollect, SweepFinish, SweepTail, TableInv,
             StreamsOnly
    <3> QED
      BY <3>1, <3>2, <3>3 DEF Next, vars, TableInv
  <2>2. SegmentInv
    BY DEF SegmentInv, TableInv, OwnerInv
  <2> QED
    BY <2>1, <2>2, TypeStep, OwnerStep, HookStep, CopyStep DEF TableInv
<1> QED
  BY <1>1, <1>2, PTL DEF Spec

\* Every variable keeps its type, with robots and sweep, too.
THEOREM TypeCorrect == Spec => []TypeOK
<1>1. Init => SegmentInv
  BY TaskAssumption DEF Init, SegmentInv, TypeOK, RunPcs, Segments
<1>2. SegmentInv /\ [Next]_vars => SegmentInv'
  BY TypeStep, SegmentStep DEF SegmentInv
<1>3. SegmentInv => TypeOK
  BY DEF SegmentInv
<1> QED
  BY <1>1, <1>2, <1>3, PTL DEF Spec

\* However handlers, refused robot requests and the sweep take turns with
\* FinishTask: every started task is in the table or once in the history.
THEOREM TasksAreAccounted == Spec => []StartedTaskAccounted
<1>1. Init => AccountInv
  BY TaskAssumption
     DEF Init, AccountInv, SegmentInv, StartedTaskAccounted, TypeOK, RunPcs, Segments
<1>2. AccountInv /\ [Next]_vars => AccountInv'
  BY AccountStep
<1>3. AccountInv => StartedTaskAccounted
  BY DEF AccountInv
<1> QED
  BY <1>1, <1>2, <1>3, PTL DEF Spec

\* A run in progress is the registered one, and a cancel request taken from the
\* table reaches its current segment.
THEOREM RunStaysRegistered ==
  ASSUME StreamsOnly
  PROVE  Spec => []RunIsRegistered
<1>1. TableInv => RunIsRegistered
  BY DEF TableInv, OwnerInv, RunIsRegistered
<1> QED
  BY <1>1, TableInvariant, PTL

\* The conversation never has two runs.
THEOREM OneRun ==
  ASSUME StreamsOnly
  PROVE  Spec => []OneRunPerConversation
<1>1. TableInv => OneRunPerConversation
  BY DEF TableInv, OwnerInv, OneRunPerConversation
<1> QED
  BY <1>1, TableInvariant, PTL

\* Whatever the copies of a cancel request still reach when they are used, it is the
\* segment whose session was open when they were made.
THEOREM CopiesAreOfOneSegment ==
  ASSUME StreamsOnly
  PROVE  Spec => CopiesHitOneSegment
<1>1. TableInv /\ [Next]_vars =>
        [\A s \in Stoppers : req[s].hook # NoHook /\ req'[s] # req[s] =>
           \A h \in Handlers : cause'[h] # cause[h] \/ native'[h] # native[h] =>
             req[s].hook = <<h, seg[h]>>]_vars
  BY CopyUseStep
<1> QED
  BY <1>1, TableInvariant, PTL DEF Spec, CopiesHitOneSegment

\* A stop that arrived before the decision to go on ends the run.
THEOREM StoppedSegmentsAreLast ==
  ASSUME StreamsOnly
  PROVE  Spec => StoppedSegmentIsLast
<1>1. TableInv /\ [Next]_vars =>
        [\A h \in Handlers : cause[h] = "stop" /\ pc[h] # "rebind" =>
           pc'[h] # "rebind" /\ seg'[h] = seg[h]]_vars
  BY StopStep
<1> QED
  BY <1>1, TableInvariant, PTL DEF Spec, StoppedSegmentIsLast
=============================================================================
