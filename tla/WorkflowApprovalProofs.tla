----------------------- MODULE WorkflowApprovalProofs -----------------------
(* Theorems about the approval nodes of a workflow run, for every number of  *)
(* nodes, requests, failed writes and restarts, with or without the timing   *)
(* assumption.                                                               *)
EXTENDS WorkflowApproval, TLAPS

\* What a goroutine's place says of its node and its decision: without it the row
\* could name a node past the last.
PlaceInv ==
  \A x \in Runners :
    /\ run[x].pc = "graph" => run[x].node \in 1..Last + 1
    /\ run[x].pc \in {"await", "pause"} => run[x].node \in Nodes
    /\ run[x].pc = "load" => run[x].by \in Requests

\* The checkpoint is there before the row says that the run waits.
CheckpointInv ==
  /\ row.status = "awaiting" => checkpoint # 0
  /\ \A x \in Runners : run[x].pc \in {"await", "pause"} => checkpoint # 0

\* With one goroutine at the run and no failed write, checkpoint and row agree.
ExactInv ==
  lost = 0 /\ ~shared =>
    /\ \A x, y \in Runners : AtRun(x) /\ AtRun(y) => x = y
    /\ row.status = "awaiting" => checkpoint = row.node
    /\ \A x \in Runners : run[x].pc \in {"await", "pause"} => checkpoint = run[x].node
    /\ \A x \in Runners : run[x].pc \in {"load", "graph", "await"} => row.status # "awaiting"
    /\ \A r \in Requests : run[r].pc # "pause"

Inv == TypeOK /\ PlaceInv /\ CheckpointInv /\ ExactInv

-----------------------------------------------------------------------------
(* Steps.                                                                  *)

\* Whatever goes on, only requests are counted as settled.
LEMMA SettledAreRequests ==
  ASSUME TypeOK, Next
  PROVE  settled' \subseteq Requests
<1>1. Settle
  BY Zenon DEF Next, GraphStep, Interrupt, Complete, Fail, Await, Decide, Load, Finish, Goto,
        WaitStep, Pause, RegisterHITLWaiter, ReadDecision, Receive, GiveUp, Takes,
        UnregisterHITLWaiter, ResumeRun, RequestStep, RecordDecision, LoadWaiter,
        SendDecision, Reread, Restart
<1> QED
  BY <1>1 DEF TypeOK, Settle

\* A goroutine that only moves on keeps a state of its type.
LEMMA GotoKeepsType ==
  ASSUME run \in [Runners -> RunStates], NEW x \in Runners, NEW pc,
         pc \in {"done", "notify", "again", "reread", "decide", "await", "pause", "register",
                 "look", "wait", "load", "send"},
         Goto(x, pc)
  PROVE  /\ run' \in [Runners -> RunStates]
         /\ run'[x].pc = pc /\ run'[x].node = run[x].node /\ run'[x].by = run[x].by
         /\ run'[x].approves = run[x].approves
         /\ \A y \in Runners : y # x => run'[y] = run[y]
<1>1. [run[x] EXCEPT !.pc = pc] \in RunStates
  BY DEF RunStates
<1>2. run' = [run EXCEPT ![x] = [run[x] EXCEPT !.pc = pc]]
  BY DEF Goto
<1> QED
  BY <1>1, <1>2 DEF RunStates

\* A write leaves the row as it is only by counting a failure.
LEMMA WriteKeepsType ==
  ASSUME TypeOK, NEW new \in RowStates, Write(new)
  PROVE  /\ row' \in RowStates /\ lost' \in 0..MaxLost
         /\ lost' = 0 => lost = 0 /\ row' = new
         /\ row' = new \/ row' = row
  BY ApprovalAssumption DEF TypeOK, Write

\* The invariant is kept by the goroutines at the graph.
LEMMA GraphKeepsInv ==
  ASSUME Inv, NEW x \in Runners, GraphStep(x)
  PROVE  Inv'
<1>s. settled' \subseteq Requests
  BY SettledAreRequests DEF Inv, Next, WaitStep
<1> USE <1>s
<1> USE ApprovalAssumption
<1>1. CASE Interrupt(x)
  <2> USE <1>1 DEF Interrupt
  <2>1. run' \in [Runners -> RunStates] /\ run'[x].pc = "await"
        /\ run'[x].node = run[x].node /\ run'[x].by = run[x].by
        /\ \A y \in Runners : y # x => run'[y] = run[y]
    BY GotoKeepsType DEF Inv, TypeOK
  <2>2. run[x].node \in Nodes /\ checkpoint' = run[x].node
    BY DEF Inv, PlaceInv, TypeOK, RunStates, Nodes
  <2>3. TypeOK'
    BY <2>1, <2>2 DEF Inv, TypeOK, Nodes
  <2>4. PlaceInv'
    BY <2>1, <2>2 DEF Inv, PlaceInv, Nodes
  <2>5. CheckpointInv'
    BY <2>1, <2>2 DEF Inv, CheckpointInv, Nodes
  <2>6. AtRun(x)
    BY DEF AtRun
  <2>7. \A y \in Runners : AtRun(y)' => AtRun(y)
    BY <2>1, <2>6 DEF AtRun
  <2>8. ExactInv'
    BY <2>1, <2>2, <2>6, <2>7 DEF Inv, ExactInv, AtRun, Runners
  <2> QED
    BY <2>3, <2>4, <2>5, <2>8 DEF Inv
<1>2. CASE Complete(x) \/ Fail(x)
  <2>1. PICK s \in {"completed", "failed"} : Finish(x, s)
    BY <1>2 DEF Complete, Fail
  <2>2. UNCHANGED <<checkpoint, waiter, passed, shared, restarts>>
    BY <1>2 DEF Complete, Fail
  <2>3. run' \in [Runners -> RunStates] /\ run'[x].pc = "done"
        /\ \A y \in Runners : y # x => run'[y] = run[y]
    BY <2>1, GotoKeepsType DEF Inv, TypeOK, Finish
  <2>4. [row EXCEPT !.status = s] \in RowStates
    BY DEF Inv, TypeOK, RowStates
  <2>5. /\ row' \in RowStates /\ lost' \in 0..MaxLost
        /\ lost' = 0 => lost = 0 /\ row' = [row EXCEPT !.status = s]
        /\ row' = [row EXCEPT !.status = s] \/ row' = row
    BY <2>1, <2>4, WriteKeepsType DEF Inv, Finish
  <2>6. (row'.status = "awaiting" => row.status = "awaiting") /\ row'.node = row.node
    BY <2>5 DEF Inv, TypeOK, RowStates
  <2>7. TypeOK'
    BY <2>2, <2>3, <2>5 DEF Inv, TypeOK
  <2>8. PlaceInv' /\ CheckpointInv'
    BY <2>2, <2>3, <2>6 DEF Inv, PlaceInv, CheckpointInv
  <2>9. ExactInv'
    BY <2>2, <2>3, <2>5, <2>6 DEF Inv, ExactInv, AtRun, Runners
  <2> QED
    BY <2>7, <2>8, <2>9 DEF Inv
<1>3. CASE Await(x)
  <2> USE <1>3 DEF Await
  <2> DEFINE new == [status |-> "awaiting", node |-> run[x].node, decision |-> NoRequest]
  <2>1. run' \in [Runners -> RunStates]
        /\ run'[x].pc = (IF x = Stream THEN "pause" ELSE "done")
        /\ run'[x].node = run[x].node
        /\ \A y \in Runners : y # x => run'[y] = run[y]
    BY GotoKeepsType DEF Inv, TypeOK
  <2>2. run[x].node \in Nodes /\ checkpoint # 0
    BY DEF Inv, PlaceInv, CheckpointInv
  <2>3. new \in RowStates
    BY <2>2 DEF RowStates, Nodes, Decisions
  <2>4. /\ row' \in RowStates /\ lost' \in 0..MaxLost
        /\ lost' = 0 => lost = 0 /\ row' = new
        /\ row' = new \/ row' = row
    BY <2>3, WriteKeepsType DEF Inv
  <2>5. TypeOK'
    BY <2>1, <2>4 DEF Inv, TypeOK
  <2>6. PlaceInv' /\ CheckpointInv'
    BY <2>1, <2>2 DEF Inv, PlaceInv, CheckpointInv
  <2>7. AtRun(x)
    BY DEF AtRun
  <2>8. \A y \in Runners : AtRun(y)' => AtRun(y)
    BY <2>1, <2>7 DEF AtRun
  <2>9. ExactInv'
    <3>1. SUFFICES ASSUME lost' = 0, ~shared'
                   PROVE  /\ \A y, z \in Runners : AtRun(y)' /\ AtRun(z)' => y = z
                          /\ row'.status = "awaiting" => checkpoint' = row'.node
                          /\ \A y \in Runners : run'[y].pc \in {"await", "pause"} =>
                               checkpoint' = run'[y].node
                          /\ \A y \in Runners : run'[y].pc \in {"load", "graph", "await"} =>
                               row'.status # "awaiting"
                          /\ \A r \in Requests : run'[r].pc # "pause"
      BY DEF ExactInv
    <3>2. lost = 0 /\ ~shared /\ row' = new
      BY <3>1, <2>4
    <3>3. checkpoint = run[x].node /\ \A y \in Runners : AtRun(y) => y = x
      BY <3>2, <2>7 DEF Inv, ExactInv
    <3>4. \A y \in Runners : run'[y].pc \in {"load", "graph", "await"} => FALSE
      BY <3>3, <2>1 DEF AtRun, Runners
    <3> QED
      BY <3>2, <3>3, <3>4, <2>1, <2>8 DEF Inv, ExactInv, Runners
  <2> QED
    BY <2>5, <2>6, <2>9 DEF Inv
<1>4. CASE Decide(x)
  <2> USE <1>4 DEF Decide
  <2>1. PICK s \in {"cancelled", "rejected", "running"}, pc \in {"done", "load"} :
          /\ Write([row EXCEPT !.status = s]) /\ Goto(x, pc)
          /\ pc = "load" => run[x].by # NoRequest
    BY Zenon DEF Finish, Approves
  <2>2. run' \in [Runners -> RunStates] /\ run'[x].pc = pc /\ run'[x].by = run[x].by
        /\ \A y \in Runners : y # x => run'[y] = run[y]
    BY <2>1, GotoKeepsType DEF Inv, TypeOK
  <2>3. [row EXCEPT !.status = s] \in RowStates
    BY <2>1 DEF Inv, TypeOK, RowStates
  <2>4. /\ row' \in RowStates /\ lost' \in 0..MaxLost
        /\ lost' = 0 => lost = 0 /\ row' = [row EXCEPT !.status = s]
        /\ row' = [row EXCEPT !.status = s] \/ row' = row
    BY <2>1, <2>3, WriteKeepsType DEF Inv
  <2>5. (row'.status = "awaiting" => row.status = "awaiting") /\ row'.node = row.node
    BY <2>1, <2>4 DEF Inv, TypeOK, RowStates
  <2>6. TypeOK'
    BY <2>2, <2>4 DEF Inv, TypeOK
  <2>7. pc = "load" => run[x].by \in Requests
    BY <2>1 DEF Inv, TypeOK, RunStates, Decisions
  <2>8. PlaceInv'
    BY <2>1, <2>2, <2>7 DEF Inv, PlaceInv
  <2>9. CheckpointInv'
    BY <2>1, <2>2, <2>5 DEF Inv, CheckpointInv
  <2>10. AtRun(x)
    BY DEF AtRun
  <2>11. \A y \in Runners : AtRun(y)' => AtRun(y)
    BY <2>2, <2>10 DEF AtRun
  <2>12. lost' = 0 => row'.status # "awaiting"
    BY <2>1, <2>4 DEF Inv, TypeOK, RowStates
  <2>13. ExactInv'
    BY <2>1, <2>2, <2>4, <2>5, <2>11, <2>12 DEF Inv, ExactInv, Runners
  <2> QED
    BY <2>6, <2>8, <2>9, <2>13 DEF Inv
<1>5. CASE Load(x)
  <2> USE <1>5 DEF Load
  <2>1. [run[x] EXCEPT !.pc = "graph", !.node = checkpoint + 1] \in RunStates
    <3>1. checkpoint + 1 \in 0..Last + 1 /\ run[x] \in RunStates
      BY DEF Inv, TypeOK
    <3> HIDE <1>5
    <3> QED
      BY <3>1 DEF RunStates
  <2>2. run' \in [Runners -> RunStates] /\ run'[x].pc = "graph"
        /\ run'[x].node = checkpoint + 1
        /\ \A y \in Runners : y # x => run'[y] = run[y]
    BY <2>1 DEF Inv, TypeOK, RunStates
  <2>3. passed' \in [Nodes -> SUBSET Requests]
    BY DEF Inv, TypeOK, PlaceInv
  <2>4. TypeOK'
    BY <2>2, <2>3 DEF Inv, TypeOK
  <2>5. PlaceInv' /\ CheckpointInv'
    BY <2>2 DEF Inv, TypeOK, PlaceInv, CheckpointInv
  <2>6. AtRun(x)
    BY DEF AtRun
  <2>7. \A y \in Runners : AtRun(y)' => AtRun(y)
    BY <2>2, <2>6 DEF AtRun
  <2>8. ExactInv'
    BY <2>2, <2>7 DEF Inv, ExactInv, Runners
  <2> QED
    BY <2>4, <2>5, <2>8 DEF Inv
<1> QED
  BY <1>1, <1>2, <1>3, <1>4, <1>5 DEF GraphStep

-----------------------------------------------------------------------------
(* The stream at an approval node, the requests and restarts.              *)

\* The second write of the pending value.
LEMMA PauseKeepsInv == ASSUME Inv, Pause PROVE Inv'
<1>s. settled' \subseteq Requests
  BY SettledAreRequests DEF Inv, Next, WaitStep
<1> USE <1>s
<1> USE ApprovalAssumption DEF Pause
<1> DEFINE new ==
      [status |-> "awaiting", node |-> run[Stream].node, decision |-> NoRequest]
<1>1. /\ run' \in [Runners -> RunStates] /\ run'[Stream].pc = "register"
      /\ \A y \in Runners : y # Stream => run'[y] = run[y]
  BY GotoKeepsType DEF Inv, TypeOK, Runners
<1>2. run[Stream].node \in Nodes /\ checkpoint # 0
  BY DEF Inv, PlaceInv, CheckpointInv, Runners
<1>3. new \in RowStates
  BY <1>2 DEF RowStates, Nodes, Decisions
<1>4. /\ row' \in RowStates /\ lost' \in 0..MaxLost
      /\ lost' = 0 => lost = 0 /\ row' = new
      /\ row' = new \/ row' = row
  BY <1>3, WriteKeepsType DEF Inv
<1>5. TypeOK'
  BY <1>1, <1>4 DEF Inv, TypeOK
<1>6. PlaceInv' /\ CheckpointInv'
  BY <1>1, <1>2 DEF Inv, PlaceInv, CheckpointInv
<1>7. AtRun(Stream)
  BY DEF AtRun
<1>8. \A y \in Runners : AtRun(y)' => AtRun(y)
  BY <1>1, <1>7 DEF AtRun
<1>9. ExactInv'
  <2>1. SUFFICES ASSUME lost' = 0, ~shared'
                 PROVE  /\ \A y, z \in Runners : AtRun(y)' /\ AtRun(z)' => y = z
                        /\ row'.status = "awaiting" => checkpoint' = row'.node
                        /\ \A y \in Runners : run'[y].pc \in {"await", "pause"} =>
                             checkpoint' = run'[y].node
                        /\ \A y \in Runners : run'[y].pc \in {"load", "graph", "await"} =>
                             row'.status # "awaiting"
                        /\ \A r \in Requests : run'[r].pc # "pause"
    BY DEF ExactInv
  <2>2. lost = 0 /\ ~shared /\ row' = new
    BY <2>1, <1>4
  <2>3. checkpoint = run[Stream].node /\ \A y \in Runners : AtRun(y) => y = Stream
    BY <2>2, <1>7 DEF Inv, ExactInv, Runners
  <2>4. \A y \in Runners : run'[y].pc \in {"load", "graph", "await"} => FALSE
    BY <2>3, <1>1 DEF AtRun, Runners
  <2> QED
    BY <2>2, <2>3, <2>4, <1>1, <1>8 DEF Inv, ExactInv, Runners
<1> QED
  BY <1>5, <1>6, <1>9 DEF Inv

\* Steps that leave row, checkpoint and the history alone, and bring no goroutine
\* to the run.
LEMMA QuietStep ==
  ASSUME Inv, TypeOK', UNCHANGED <<checkpoint, shared>>,
         lost' = 0 => lost = 0,
         row'.status = row.status, row'.node = row.node,
         \A x \in Runners : \/ run'[x].pc = run[x].pc /\ run'[x].node = run[x].node
                                                       /\ run'[x].by = run[x].by
                            \/ /\ AtRun(x)' => AtRun(x)
                               /\ run'[x].pc \notin {"graph", "load", "await", "pause"}
  PROVE  Inv'
<1>1. \A x \in Runners : AtRun(x)' => AtRun(x)
  BY DEF AtRun
<1>2. PlaceInv'
  BY DEF Inv, PlaceInv
<1>3. CheckpointInv'
  BY DEF Inv, CheckpointInv
<1>4. ExactInv'
  BY <1>1 DEF Inv, ExactInv, Runners
<1> QED
  BY <1>2, <1>3, <1>4 DEF Inv

\* The other steps of the wait.
LEMMA WaitKeepsInv ==
  ASSUME Inv,
         \/ RegisterHITLWaiter \/ ReadDecision \/ Receive \/ GiveUp \/ UnregisterHITLWaiter
  PROVE  Inv'
<1>s. settled' \subseteq Requests
  BY SettledAreRequests DEF Inv, Next, WaitStep
<1> USE <1>s
<1> USE ApprovalAssumption
<1>0. Stream \in Runners /\ TypeOK
  BY DEF Runners, Inv
<1>1. CASE RegisterHITLWaiter
  <2>1. run' \in [Runners -> RunStates] /\ run'[Stream].pc = "look"
        /\ \A y \in Runners : y # Stream => run'[y] = run[y]
    BY <1>0, <1>1, GotoKeepsType DEF TypeOK, RegisterHITLWaiter
  <2>2. TypeOK'
    BY <1>0, <1>1, <2>1 DEF TypeOK, RegisterHITLWaiter, WaiterStates, Unset, Decisions
  <2> QED
    BY <1>1, <2>1, <2>2, QuietStep DEF RegisterHITLWaiter, AtRun
<1>2. ASSUME NEW d \in Decisions, Takes(d),
             UNCHANGED <<row, checkpoint, passed, shared, lost, restarts>>,
             waiter' \in WaiterStates, run[Stream].pc \in {"look", "wait"}
      PROVE  Inv'
  <2>1. [run[Stream] EXCEPT !.pc = "unregister", !.by = d] \in RunStates
    BY ZenonT(40), <1>0, <1>2 DEF TypeOK, RunStates
  <2>2. run' \in [Runners -> RunStates] /\ run'[Stream].pc = "unregister"
        /\ \A y \in Runners : y # Stream => run'[y] = run[y]
    BY <1>0, <1>2, <2>1 DEF TypeOK, Takes, RunStates
  <2>3. TypeOK'
    BY <1>0, <1>2, <2>2 DEF TypeOK
  <2> QED
    BY <1>2, <2>2, <2>3, QuietStep DEF AtRun
<1>3. CASE ReadDecision
  <2>1. CASE row.decision = NoRequest
    <3>1. run' \in [Runners -> RunStates] /\ run'[Stream].pc = "wait"
          /\ \A y \in Runners : y # Stream => run'[y] = run[y]
      BY <1>0, <1>3, <2>1, GotoKeepsType DEF TypeOK, ReadDecision
    <3>2. TypeOK'
      BY <1>0, <1>3, <3>1 DEF TypeOK, ReadDecision
    <3> QED
      BY <1>3, <3>1, <3>2, QuietStep DEF ReadDecision, AtRun
  <2>2. CASE row.decision # NoRequest
    <3>1. row.decision \in Decisions /\ waiter \in WaiterStates
      BY <1>0 DEF TypeOK, RowStates
    <3> QED
      BY <1>2, <1>3, <2>2, <3>1 DEF ReadDecision
  <2> QED
    BY <2>1, <2>2
<1>4. CASE Receive
  <2>1. waiter.decision \in Decisions /\ waiter' \in WaiterStates
    BY <1>0, <1>4 DEF TypeOK, Receive, WaiterStates, Decisions
  <2> QED
    BY <1>2, <1>4, <2>1 DEF Receive
<1>5. CASE GiveUp
  BY <1>0, <1>2, <1>5 DEF GiveUp, TypeOK, Decisions
<1>6. CASE UnregisterHITLWaiter
  <2>1. /\ run' \in [Runners -> RunStates] /\ run'[Stream].pc = "decide"
        /\ \A y \in Runners : y # Stream =>
             run'[y].pc = run[y].pc /\ run'[y].node = run[y].node /\ run'[y].by = run[y].by
    <3>1. /\ [run[Stream] EXCEPT !.pc = "decide"] \in RunStates
          /\ \A y \in Runners : [run[y] EXCEPT !.found = FALSE] \in RunStates
      BY ZenonT(40), <1>0 DEF TypeOK, RunStates
    <3>2. run' = [y \in Runners |->
            IF y = Stream THEN [run[y] EXCEPT !.pc = "decide"]
                          ELSE [run[y] EXCEPT !.found = FALSE]]
      BY <1>6 DEF UnregisterHITLWaiter
    <3>3. run' \in [Runners -> RunStates]
      <4> HIDE DEF RunStates
      <4> QED
        BY <3>1, <3>2
    <3>4. run'[Stream].pc = "decide"
      BY <1>0, <3>2 DEF TypeOK, RunStates
    <3>5. ASSUME NEW y \in Runners, y # Stream
          PROVE  run'[y].pc = run[y].pc /\ run'[y].node = run[y].node /\ run'[y].by = run[y].by
      <4>1. run'[y] = [run[y] EXCEPT !.found = FALSE] /\ run[y] \in RunStates
        BY <1>0, <3>2, <3>5 DEF TypeOK
      <4> QED
        BY <4>1 DEF RunStates
    <3> QED
      BY <3>3, <3>4, <3>5
  <2>2. TypeOK'
    BY <1>0, <1>6, <2>1 DEF TypeOK, UnregisterHITLWaiter, WaiterStates, Unset, Decisions
  <2>3. AtRun(Stream)
    BY <1>6 DEF UnregisterHITLWaiter, AtRun
  <2> QED
    BY <1>6, <2>1, <2>2, <2>3, QuietStep DEF UnregisterHITLWaiter
<1> QED
  BY <1>1, <1>3, <1>4, <1>5, <1>6

\* Requests, up to the moment one takes the run in hand.
LEMMA RequestKeepsInv ==
  ASSUME Inv, NEW r \in Requests, ResumeRun(r) \/ RequestStep(r)
  PROVE  Inv'
<1>s. settled' \subseteq Requests
  BY SettledAreRequests DEF Inv, Next, WaitStep
<1> USE <1>s
<1> USE ApprovalAssumption
<1>0. r \in Runners /\ r # Stream /\ TypeOK
  BY DEF Runners, Inv
<1>1. CASE ResumeRun(r)
  <2>1. PICK approves \in BOOLEAN, pc \in {"record", "done"} :
          run' = [run EXCEPT ![r] = [run[r] EXCEPT
            !.pc = pc, !.node = row.node, !.by = r, !.approves = approves]]
    BY <1>1 DEF ResumeRun
  <2>2. [run[r] EXCEPT !.pc = pc, !.node = row.node, !.by = r, !.approves = approves]
          \in RunStates
    <3>1. run[r] \in RunStates /\ row.node \in 0..Last + 1 /\ r \in Decisions
      BY <1>0 DEF TypeOK, RowStates, Decisions
    <3> QED
      BY <2>1, <3>1 DEF RunStates
  <2>3. run' \in [Runners -> RunStates] /\ run'[r].pc = pc
        /\ \A y \in Runners : y # r => run'[y] = run[y]
    BY <1>0, <2>1, <2>2 DEF TypeOK, RunStates
  <2>4. TypeOK'
    BY <1>0, <1>1, <2>3 DEF TypeOK, ResumeRun
  <2> QED
    BY <1>0, <1>1, <2>1, <2>3, <2>4, QuietStep DEF ResumeRun, AtRun
<1>2. CASE RecordDecision(r)
  <2>1. PICK pc \in {"notify", "done"} : Goto(r, pc)
    BY <1>2 DEF RecordDecision
  <2>2. run' \in [Runners -> RunStates] /\ run'[r].pc = pc
        /\ \A y \in Runners : y # r => run'[y] = run[y]
    BY <1>0, <2>1, GotoKeepsType DEF TypeOK
  <2>3. /\ row' \in RowStates /\ row'.status = row.status /\ row'.node = row.node
        /\ lost' \in 0..MaxLost /\ (lost' = 0 => lost = 0)
    BY <1>0, <1>2 DEF TypeOK, RecordDecision, RowStates, Decisions
  <2>4. TypeOK'
    BY <1>0, <1>2, <2>2, <2>3 DEF TypeOK, RecordDecision
  <2> QED
    BY <1>0, <1>2, <2>1, <2>2, <2>3, <2>4, QuietStep DEF RecordDecision, AtRun
<1>3. CASE LoadWaiter(r)
  <2>1. CASE waiter.set
    <3>1. [run[r] EXCEPT !.pc = "send", !.found = TRUE] \in RunStates
      BY ZenonT(40), <1>0 DEF TypeOK, RunStates
    <3>2. run' \in [Runners -> RunStates] /\ run'[r].pc = "send"
          /\ \A y \in Runners : y # r => run'[y] = run[y]
      BY ZenonT(40), <1>0, <1>3, <2>1, <3>1 DEF TypeOK, RunStates, LoadWaiter
    <3>3. TypeOK'
      BY <1>0, <1>3, <3>2 DEF TypeOK, LoadWaiter
    <3> QED
      BY <1>0, <1>3, <3>2, <3>3, QuietStep DEF LoadWaiter, AtRun
  <2>2. CASE ~waiter.set
    <3>0. PICK pc \in {"again", "reread"} : Goto(r, pc)
      BY <1>3, <2>2 DEF LoadWaiter
    <3>1. run' \in [Runners -> RunStates] /\ run'[r].pc = pc
          /\ \A y \in Runners : y # r => run'[y] = run[y]
      BY <1>0, <3>0, GotoKeepsType DEF TypeOK
    <3>2. TypeOK'
      BY <1>0, <1>3, <3>1 DEF TypeOK, LoadWaiter
    <3> QED
      BY <1>0, <1>3, <3>0, <3>1, <3>2, QuietStep DEF LoadWaiter, AtRun
  <2> QED
    BY <2>1, <2>2
<1>4. CASE SendDecision(r)
  <2>1. [run[r] EXCEPT !.pc = "done", !.delegated = TRUE] \in RunStates
    BY ZenonT(40), <1>0 DEF TypeOK, RunStates
  <2>2. run' \in [Runners -> RunStates] /\ run'[r].pc = "done"
        /\ \A y \in Runners : y # r => run'[y] = run[y]
    BY <1>0, <1>4, <2>1 DEF TypeOK, RunStates, SendDecision
  <2>3. waiter' \in WaiterStates
    BY <1>0, <1>4 DEF TypeOK, SendDecision, WaiterStates, Decisions
  <2>4. TypeOK'
    BY <1>0, <1>4, <2>2, <2>3 DEF TypeOK, SendDecision
  <2> QED
    BY <1>0, <1>4, <2>2, <2>4, QuietStep DEF SendDecision, AtRun
<1>5. CASE Reread(r)
  <2>1. CASE Goto(r, "done") /\ UNCHANGED shared
    <3>1. run' \in [Runners -> RunStates] /\ run'[r].pc = "done"
          /\ \A y \in Runners : y # r => run'[y] = run[y]
      BY <1>0, <2>1, GotoKeepsType DEF TypeOK
    <3>2. TypeOK'
      BY <1>0, <1>5, <2>1, <3>1 DEF TypeOK, Reread
    <3> QED
      BY <1>0, <1>5, <2>1, <3>1, <3>2, QuietStep DEF Reread, AtRun
  <2>2. CASE /\ row.status = "awaiting"
             /\ Goto(r, "decide")
             /\ shared' = (shared \/ \E x \in Runners \ {r} : AtRun(x))
    <3>1. run' \in [Runners -> RunStates] /\ run'[r].pc = "decide"
          /\ \A y \in Runners : y # r => run'[y] = run[y]
      BY <1>0, <2>2, GotoKeepsType DEF TypeOK
    <3>2. TypeOK'
      BY <1>0, <1>5, <2>2, <3>1 DEF TypeOK, Reread
    <3>3. PlaceInv' /\ CheckpointInv'
      BY <1>5, <3>1 DEF Inv, PlaceInv, CheckpointInv, Reread
    <3>4. ~shared' => ~shared /\ \A y \in Runners \ {r} : ~AtRun(y)
      BY <2>2
    <3>5. \A y \in Runners \ {r} : AtRun(y)' => AtRun(y)
      BY <3>1 DEF AtRun
    <3>6. ExactInv'
      BY <1>5, <3>1, <3>4, <3>5 DEF Inv, ExactInv, Reread, Runners
    <3> QED
      BY <3>2, <3>3, <3>6 DEF Inv
  <2> QED
    BY <1>5, <2>1, <2>2 DEF Reread
<1> QED
  BY <1>1, <1>2, <1>3, <1>4, <1>5 DEF RequestStep

\* A goroutine that has not begun has its type.
LEMMA IdleIsTyped == Idle \in RunStates
  BY ApprovalAssumption DEF Idle, RunStates, Decisions

\* A restart ends every goroutine.
LEMMA RestartKeepsInv == ASSUME Inv, Restart PROVE Inv'
<1>s. settled' \subseteq Requests
  BY SettledAreRequests DEF Inv, Next, WaitStep
<1> USE <1>s
<1> USE ApprovalAssumption
<1>0. TypeOK
  BY DEF Inv
<1>1. \A x \in Runners :
        /\ run'[x] \in RunStates
        /\ run'[x] = run[x] \/ run'[x].pc = "done"
  <2>1. ASSUME NEW x \in Runners
        PROVE  run'[x] \in RunStates /\ (run'[x] = run[x] \/ run'[x].pc = "done")
    <3>1. run[x] \in RunStates
      BY <1>0 DEF TypeOK
    <3>2. /\ [Idle EXCEPT !.pc = "done", !.approves = run[x].approves] \in RunStates
          /\ [Idle EXCEPT !.pc = "done", !.approves = run[x].approves].pc = "done"
      BY <3>1, IdleIsTyped DEF RunStates
    <3>3. run'[x] = IF run[x].pc = "idle" THEN run[x]
                    ELSE [Idle EXCEPT !.pc = "done", !.approves = run[x].approves]
      BY DEF Restart
    <3> QED
      BY <3>1, <3>2, <3>3
  <2> QED
    BY <2>1
<1>2. TypeOK'
  <2>1. run' = [x \in Runners |-> run'[x]]
    BY DEF Restart
  <2>2. run' \in [Runners -> RunStates]
    BY <1>1, <2>1
  <2>3. waiter' \in WaiterStates /\ restarts' \in 0..MaxRestarts
    <3>1. restarts \in 0..MaxRestarts /\ restarts < MaxRestarts /\ restarts' = restarts + 1
      BY <1>0 DEF TypeOK, Restart
    <3>2. waiter' = Unset
      BY DEF Restart
    <3>3. Unset \in WaiterStates
      BY DEF WaiterStates, Unset, Decisions
    <3> QED
      BY <3>1, <3>2, <3>3
  <2> QED
    BY <1>0, <2>2, <2>3 DEF TypeOK, Restart
<1> QED
  BY <1>1, <1>2, QuietStep DEF Restart, AtRun

-----------------------------------------------------------------------------
(* Requests beside the stream.                                             *)

\* Where the stream is with a node that the row has named.
AtNode == {"pause", "register", "look", "wait", "unregister", "decide", "load"}

\* What a request that was made for a node knows of the stream: the stream is at
\* that node or past it, past its wait if the request has seen it out of a passage,
\* and past its channel if the request has given up looking for one.
Follows(r) ==
  run[r].pc \in {"record", "notify", "again", "reread"} =>
    \/ run[r].node < run[Stream].node
    \/ /\ run[r].node = run[Stream].node
       /\ run[Stream].pc \in AtNode
       /\ run[r].pc = "again" /\ r \in settled =>
            run[Stream].pc \in {"wait", "unregister", "decide", "load"}
       /\ run[r].pc = "reread" /\ Prompt => run[Stream].pc \in {"decide", "load"}

\* As long as the stream alone has the run in hand, its node is the one the row and
\* the checkpoint name while it has not gone on, there is a channel while it waits,
\* and every request that was made is at its node or behind it.
AloneInv ==
  AtRun(Stream) /\ ~shared =>
    /\ run[Stream].pc \in AtNode \cup {"graph", "await"}
    /\ run[Stream].pc # "graph" => checkpoint = run[Stream].node
    /\ row.status = "awaiting" =>
         \/ row.node < run[Stream].node
         \/ row.node = run[Stream].node /\ run[Stream].pc \in AtNode
    /\ run[Stream].pc \in {"look", "wait", "unregister"} => waiter.set
    /\ \A r \in Requests :
         /\ ~AtRun(r)
         /\ run[r].pc \in {"idle", "record", "notify"} => r \notin settled
         /\ Follows(r)

\* The places and nodes of the goroutines after one of them went on.
LEMMA GotoPlaces ==
  ASSUME TypeOK, NEW x \in Runners, NEW pc, Goto(x, pc)
  PROVE  /\ \A y \in Runners : run'[y].pc = IF y = x THEN pc ELSE run[y].pc
         /\ \A y \in Runners : run'[y].node = run[y].node
         /\ Settle
  BY DEF TypeOK, RunStates, Goto

\* Nodes can be compared.
LEMMA NodesAreNumbers ==
  ASSUME TypeOK
  PROVE  row.node \in Nat /\ \A x \in Runners : run[x].node \in Nat
  BY ApprovalAssumption DEF TypeOK, RowStates, RunStates

\* The stream does not leave the requests behind it out of sight: when it moves,
\* they stay at its node or behind it.
LEMMA RequestsFollow ==
  ASSUME TypeOK, AloneInv, AtRun(Stream), ~shared, Settle,
         \A r \in Requests : run'[r].pc = run[r].pc /\ run'[r].node = run[r].node,
         \/ run[Stream].pc \notin AtNode /\ run'[Stream].node = run[Stream].node
         \/ run'[Stream].node = run[Stream].node + 1
         \/ /\ run'[Stream].node = run[Stream].node /\ run'[Stream].pc \in AtNode
            /\ run[Stream].pc \in {"wait", "unregister", "decide", "load"} =>
                 run'[Stream].pc \in {"wait", "unregister", "decide", "load"}
            /\ run[Stream].pc \in {"decide", "load"} => run'[Stream].pc \in {"decide", "load"}
  PROVE  \A r \in Requests :
           /\ ~AtRun(r)'
           /\ run'[r].pc \in {"idle", "record", "notify"} => r \notin settled'
           /\ Follows(r)'
<1> SUFFICES ASSUME NEW r \in Requests
             PROVE  /\ ~AtRun(r)'
                    /\ run'[r].pc \in {"idle", "record", "notify"} => r \notin settled'
                    /\ Follows(r)'
  OBVIOUS
<1>1. r \in Runners /\ r # Stream /\ Stream \in Runners
  BY ApprovalAssumption DEF Runners
<1>2. /\ ~AtRun(r) /\ Follows(r)
      /\ run[r].pc \in {"idle", "record", "notify"} => r \notin settled
  BY DEF AloneInv
<1>3. run[r].node \in Nat /\ run[Stream].node \in Nat
  BY <1>1, NodesAreNumbers
<1>4. ~AtRun(r)'
  BY <1>1, <1>2 DEF AtRun
<1>5. run'[r].pc \in {"idle", "record", "notify"} => r \notin settled'
  BY <1>2 DEF Settle
<1>6. Follows(r)'
  <2>1. CASE run[Stream].pc \notin AtNode /\ run'[Stream].node = run[Stream].node
    BY <1>2, <1>3, <2>1 DEF Follows
  <2>2. CASE run'[Stream].node = run[Stream].node + 1
    BY <1>2, <1>3, <2>2 DEF Follows
  <2>3. CASE /\ run'[Stream].node = run[Stream].node /\ run'[Stream].pc \in AtNode
             /\ run[Stream].pc \in {"wait", "unregister", "decide", "load"} =>
                  run'[Stream].pc \in {"wait", "unregister", "decide", "load"}
             /\ run[Stream].pc \in {"decide", "load"} => run'[Stream].pc \in {"decide", "load"}
    <3>1. r \in settled' => r \in settled \/ run'[Stream].pc \notin Brief
      BY DEF Settle
    <3>2. run'[Stream].pc \notin Brief => run'[Stream].pc = "wait"
      BY <2>3 DEF AtNode, Brief
    <3> QED
      BY <1>2, <1>3, <2>3, <3>1, <3>2 DEF Follows
  <2> QED
    BY <2>1, <2>2, <2>3
<1> QED
  BY <1>4, <1>5, <1>6

\* A request that moves up to its second read of the row, while the stream stays
\* where it is, leaves the stream alone with the run.
LEMMA RequestMoves ==
  ASSUME TypeOK, AloneInv, NEW r \in Requests, Settle, shared' = shared,
         \A x \in Runners \ {r} : run'[x].pc = run[x].pc /\ run'[x].node = run[x].node,
         checkpoint' = checkpoint, waiter'.set = waiter.set,
         row'.status = row.status, row'.node = row.node,
         AtRun(r)' => AtRun(r),
         AtRun(Stream) /\ ~shared =>
           /\ Follows(r)'
           /\ run'[r].pc \in {"idle", "record", "notify"} => run[r].pc \in {"idle", "record"}
  PROVE  AloneInv'
<1>1. /\ \A q \in Requests : q \in Runners /\ q # Stream
      /\ Stream \in Runners \ {r}
  BY ApprovalAssumption DEF Runners
<1> SUFFICES ASSUME AtRun(Stream)', ~shared'
             PROVE  /\ run'[Stream].pc \in AtNode \cup {"graph", "await"}
                    /\ run'[Stream].pc # "graph" => checkpoint' = run'[Stream].node
                    /\ row'.status = "awaiting" =>
                         \/ row'.node < run'[Stream].node
                         \/ row'.node = run'[Stream].node /\ run'[Stream].pc \in AtNode
                    /\ run'[Stream].pc \in {"look", "wait", "unregister"} => waiter'.set
                    /\ \A q \in Requests :
                         /\ ~AtRun(q)'
                         /\ run'[q].pc \in {"idle", "record", "notify"} => q \notin settled'
                         /\ Follows(q)'
  BY DEF AloneInv
<1>2. AtRun(Stream) /\ ~shared
  BY <1>1 DEF AtRun
<1>3. ASSUME NEW q \in Requests
      PROVE  /\ ~AtRun(q)'
             /\ run'[q].pc \in {"idle", "record", "notify"} => q \notin settled'
             /\ Follows(q)'
  <2>1. /\ ~AtRun(q) /\ Follows(q)
        /\ run[q].pc \in {"idle", "record", "notify"} => q \notin settled
    BY <1>2 DEF AloneInv
  <2>2. ~AtRun(q)'
    BY <1>1, <2>1 DEF AtRun
  <2>3. run'[q].pc \in {"idle", "record", "notify"} => q \notin settled'
    BY <1>1, <1>2, <2>1 DEF Settle
  <2>4. CASE q = r
    BY <1>2, <2>2, <2>3, <2>4
  <2>5. CASE q # r
    <3>1. run'[q].pc = run[q].pc /\ run'[q].node = run[q].node
          /\ run'[Stream].pc = run[Stream].pc /\ run'[Stream].node = run[Stream].node
      BY <1>1, <2>5
    <3>2. run[Stream].pc \in AtNode \ Brief => run[Stream].pc = "wait"
      BY DEF AtNode, Brief
    <3>3. q \in settled' => q \in settled \/ run[Stream].pc \notin Brief
      BY <3>1 DEF Settle
    <3>4. Follows(q)'
      BY <2>1, <3>1, <3>2, <3>3 DEF Follows
    <3> QED
      BY <2>2, <2>3, <3>4
  <2> QED
    BY <2>4, <2>5
<1> QED
  BY <1>1, <1>2, <1>3 DEF AloneInv

\* The stream's own moves, at the graph and at its wait.
LEMMA StreamMoves ==
  ASSUME TypeOK, AloneInv, AtRun(Stream), Settle, UNCHANGED shared,
         \A r \in Requests : run'[r].pc = run[r].pc /\ run'[r].node = run[r].node,
         AtRun(Stream)' /\ ~shared =>
           /\ run'[Stream].pc \in AtNode \cup {"graph", "await"}
           /\ run'[Stream].pc # "graph" => checkpoint' = run'[Stream].node
           /\ row'.status = "awaiting" =>
                \/ row'.node < run'[Stream].node
                \/ row'.node = run'[Stream].node /\ run'[Stream].pc \in AtNode
           /\ run'[Stream].pc \in {"look", "wait", "unregister"} => waiter'.set
           /\ \/ run[Stream].pc \notin AtNode /\ run'[Stream].node = run[Stream].node
              \/ run'[Stream].node = run[Stream].node + 1
              \/ /\ run'[Stream].node = run[Stream].node /\ run'[Stream].pc \in AtNode
                 /\ run[Stream].pc \in {"wait", "unregister", "decide", "load"} =>
                      run'[Stream].pc \in {"wait", "unregister", "decide", "load"}
                 /\ run[Stream].pc \in {"decide", "load"} =>
                      run'[Stream].pc \in {"decide", "load"}
  PROVE  AloneInv'
<1>1. CASE AtRun(Stream)' /\ ~shared'
  <2>1. \A r \in Requests :
          /\ ~AtRun(r)'
          /\ run'[r].pc \in {"idle", "record", "notify"} => r \notin settled'
          /\ Follows(r)'
    BY <1>1, RequestsFollow
  <2> QED
    BY <1>1, <2>1 DEF AloneInv
<1>2. CASE ~(AtRun(Stream)' /\ ~shared')
  BY <1>2 DEF AloneInv
<1> QED
  BY <1>1, <1>2

\* What the goroutines do at the graph: a request is not there while the stream is
\* alone with the run.
LEMMA GraphKeepsAlone ==
  ASSUME TypeOK, AloneInv, NEW x \in Runners, GraphStep(x)
  PROVE  AloneInv'
<1>0. /\ Stream \in Runners /\ Runners = Requests \cup {Stream}
      /\ \A r \in Requests : r \in Runners /\ r # Stream
  BY ApprovalAssumption DEF Runners
<1>n. row.node \in Nat /\ \A y \in Runners : run[y].node \in Nat
  BY NodesAreNumbers
<1>1. /\ AtRun(x) /\ UNCHANGED <<waiter, shared>>
      /\ \A y \in Runners \ {x} : run'[y] = run[y]
  BY DEF GraphStep, Interrupt, Complete, Fail, Await, Decide, Load, Finish, Goto, AtRun, TypeOK
<1>2. CASE x # Stream
  <2>1. run'[Stream] = run[Stream] /\ x \in Requests
    BY <1>0, <1>1, <1>2
  <2>2. AtRun(Stream)' => AtRun(Stream)
    BY <2>1 DEF AtRun
  <2> QED
    BY <1>1, <2>1, <2>2 DEF AloneInv
<1>3. CASE x = Stream
  <2>1. \A r \in Requests : run'[r].pc = run[r].pc /\ run'[r].node = run[r].node
    BY <1>0, <1>1, <1>3
  <2>2. CASE Interrupt(Stream)
    <3>1. /\ run'[Stream].pc = "await" /\ run'[Stream].node = run[Stream].node
          /\ Settle
      BY <1>0, <2>2, GotoPlaces DEF Interrupt
    <3>2. run[Stream].pc = "graph" /\ checkpoint' = run[Stream].node /\ UNCHANGED row
      BY <2>2 DEF Interrupt
    <3>3. run[Stream].pc \notin AtNode
      BY <3>2 DEF AtNode
    <3>4. ~shared /\ row.status = "awaiting" => row.node < run[Stream].node
      BY <1>1, <1>3, <3>3 DEF AloneInv
    <3> QED
      BY <1>1, <1>3, <2>1, <3>1, <3>2, <3>3, <3>4, StreamMoves
  <2>3. CASE Complete(Stream) \/ Fail(Stream)
    <3>1. PICK s \in {"completed", "failed"} : Finish(Stream, s)
      BY <2>3 DEF Complete, Fail
    <3>2. run'[Stream].pc = "done"
      BY <1>0, <3>1, GotoPlaces DEF Finish
    <3> QED
      BY <3>2 DEF AloneInv, AtRun
  <2>4. CASE Await(Stream)
    <3>1. /\ run'[Stream].pc = "pause" /\ run'[Stream].node = run[Stream].node
          /\ Settle
      BY <1>0, <2>4, GotoPlaces DEF Await
    <3>2. /\ run[Stream].pc = "await" /\ UNCHANGED checkpoint
          /\ row' = row \/ row' = [status |-> "awaiting", node |-> run[Stream].node,
                                    decision |-> NoRequest]
      BY <2>4 DEF Await, Write
    <3>3. run[Stream].pc \notin AtNode /\ run'[Stream].pc \in AtNode
      BY <3>1, <3>2 DEF AtNode
    <3>4. ~shared => checkpoint = run[Stream].node
      BY <1>1, <1>3, <3>2 DEF AloneInv
    <3>5. ~shared /\ row'.status = "awaiting" =>
            row'.node < run[Stream].node \/ row'.node = run[Stream].node
      BY <1>1, <1>3, <3>2 DEF AloneInv
    <3> QED
      BY <1>1, <1>3, <2>1, <3>1, <3>2, <3>3, <3>4, <3>5, StreamMoves
  <2>5. CASE Decide(Stream)
    <3>1. PICK s \in {"cancelled", "rejected", "running"}, pc \in {"done", "load"} :
            Write([row EXCEPT !.status = s]) /\ Goto(Stream, pc)
      BY <2>5, Zenon DEF Decide, Finish
    <3>2. /\ run'[Stream].pc = pc /\ run'[Stream].node = run[Stream].node
          /\ Settle
      BY <1>0, <3>1, GotoPlaces
    <3>3. run[Stream].pc = "decide" /\ UNCHANGED checkpoint
      BY <2>5 DEF Decide
    <3>4. row'.node = row.node /\ (row'.status = "awaiting" => row.status = "awaiting")
      BY <3>1 DEF Write, TypeOK, RowStates
    <3>5. CASE pc = "done"
      BY <3>2, <3>5 DEF AloneInv, AtRun
    <3>6. CASE pc = "load"
      <4>1. run[Stream].pc \in AtNode /\ run'[Stream].pc \in AtNode
        BY <3>2, <3>3, <3>6 DEF AtNode
      <4>2. ~shared =>
              /\ checkpoint = run[Stream].node
              /\ row.status = "awaiting" => row.node < run[Stream].node
                                             \/ row.node = run[Stream].node
        BY <1>1, <1>3, <3>3 DEF AloneInv
      <4> QED
        BY <1>1, <1>3, <2>1, <3>2, <3>3, <3>4, <3>6, <4>1, <4>2, StreamMoves
    <3> QED
      BY <3>5, <3>6
  <2>6. CASE Load(Stream)
    <3>1. /\ run'[Stream].pc = "graph" /\ run'[Stream].node = checkpoint + 1
          /\ Settle
      BY <1>0, <2>6 DEF Load, TypeOK, RunStates
    <3>2. run[Stream].pc = "load" /\ UNCHANGED <<row, checkpoint>>
      BY <2>6 DEF Load
    <3>3. ~shared =>
            /\ checkpoint = run[Stream].node
            /\ row.status = "awaiting" => row.node < run[Stream].node
                                           \/ row.node = run[Stream].node
      BY <1>1, <1>3, <3>2 DEF AloneInv
    <3>4. ~shared /\ row'.status = "awaiting" => row'.node < run'[Stream].node
      BY <1>0, <1>n, <3>1, <3>2, <3>3
    <3> QED
      BY <1>1, <1>3, <2>1, <3>1, <3>2, <3>3, <3>4, StreamMoves
  <2> QED
    BY <1>3, <2>2, <2>3, <2>4, <2>5, <2>6 DEF GraphStep
<1> QED
  BY <1>2, <1>3

\* The stream's wait: it has a channel as long as it waits.
LEMMA WaitKeepsAlone ==
  ASSUME TypeOK, AloneInv, WaitStep \/ GiveUp
  PROVE  AloneInv'
<1>0. /\ Stream \in Runners /\ \A r \in Requests : r \in Runners /\ r # Stream
  BY ApprovalAssumption DEF Runners
<1>1. PICK pc \in {"register", "look", "wait", "unregister", "decide"} :
        /\ run'[Stream].pc = pc /\ run'[Stream].node = run[Stream].node /\ Settle
        /\ \A r \in Requests : run'[r].pc = run[r].pc /\ run'[r].node = run[r].node
        /\ run[Stream].pc \in {"pause", "register", "look", "wait", "unregister"}
        /\ run[Stream].pc = "unregister" => pc = "decide"
        /\ run[Stream].pc = "wait" => pc \in {"wait", "unregister"}
        /\ pc = "look" => waiter'.set
        /\ pc \in {"wait", "unregister"} =>
             run[Stream].pc \in {"look", "wait"} /\ waiter'.set = waiter.set
  <2>1. CASE Pause
    BY <1>0, <2>1, GotoPlaces DEF Pause
  <2>2. CASE RegisterHITLWaiter
    BY <1>0, <2>2, GotoPlaces DEF RegisterHITLWaiter, Unset
  <2>3. CASE ReadDecision
    <3>1. /\ run[Stream].pc \in {"look", "wait"} /\ UNCHANGED waiter
          /\ Goto(Stream, "wait") \/ Takes(row.decision)
      BY <2>3 DEF ReadDecision
    <3>2. CASE Goto(Stream, "wait")
      BY <1>0, <3>1, <3>2, GotoPlaces
    <3>3. CASE Takes(row.decision)
      <4>1. /\ run'[Stream].pc = "unregister" /\ run'[Stream].node = run[Stream].node
            /\ \A r \in Requests : run'[r] = run[r]
            /\ Settle
        BY <1>0, <3>3 DEF Takes, TypeOK, RunStates
      <4> QED
        BY <3>1, <4>1
    <3> QED
      BY <3>1, <3>2, <3>3
  <2>4. CASE Receive
    BY <1>0, <2>4 DEF Receive, Takes, TypeOK, RunStates, WaiterStates
  <2>5. CASE GiveUp
    BY <1>0, <2>5 DEF GiveUp, Takes, TypeOK, RunStates
  <2>6. CASE UnregisterHITLWaiter
    BY <1>0, <2>6 DEF UnregisterHITLWaiter, TypeOK, RunStates
  <2> QED
    BY <2>1, <2>2, <2>3, <2>4, <2>5, <2>6 DEF WaitStep
<1>2. /\ UNCHANGED <<checkpoint, shared>>
      /\ \/ UNCHANGED row
         \/ row' = [status |-> "awaiting", node |-> run[Stream].node, decision |-> NoRequest]
  BY DEF WaitStep, Pause, Write, RegisterHITLWaiter, ReadDecision, Receive, GiveUp,
         UnregisterHITLWaiter
<1>3. AtRun(Stream) /\ run[Stream].pc \in AtNode /\ run'[Stream].pc \in AtNode
  BY <1>1 DEF AtRun, AtNode
<1>4. ~shared =>
        /\ checkpoint = run[Stream].node
        /\ row.status = "awaiting" => row.node < run[Stream].node
                                       \/ row.node = run[Stream].node
        /\ run[Stream].pc \in {"look", "wait"} => waiter.set
  BY <1>1, <1>3 DEF AloneInv
<1>5. ~shared /\ row'.status = "awaiting" =>
        row'.node < run[Stream].node \/ row'.node = run[Stream].node
  BY <1>2, <1>4
<1> QED
  BY <1>1, <1>2, <1>3, <1>4, <1>5, StreamMoves

\* What a request does: it stays at the stream's node or behind it, and the run is
\* shared from the moment it joins the stream.
LEMMA RequestKeepsAlone ==
  ASSUME TypeOK, AloneInv, NEW r \in Requests, ResumeRun(r) \/ RequestStep(r)
  PROVE  AloneInv'
<1>0. r \in Runners /\ Stream \in Runners /\ r # Stream
  BY ApprovalAssumption DEF Runners
<1>1. CASE ResumeRun(r)
  <2>1. /\ run[r].pc = "idle" /\ Settle /\ UNCHANGED <<row, checkpoint, waiter, shared>>
        /\ run'[r].pc = (IF row.status = "awaiting" THEN "record" ELSE "done")
        /\ run'[r].node = row.node
        /\ \A x \in Runners \ {r} : run'[x] = run[x]
    BY ZenonT(60), <1>0, <1>1 DEF ResumeRun, TypeOK, RunStates
  <2>2. ASSUME AtRun(Stream), ~shared PROVE Follows(r)'
    <3>1. row.status = "awaiting" =>
            \/ row.node < run[Stream].node
            \/ row.node = run[Stream].node /\ run[Stream].pc \in AtNode
      BY <2>2 DEF AloneInv
    <3> QED
      BY <1>0, <2>1, <3>1 DEF Follows
  <2>3. ~AtRun(r)'
    BY <1>0, <2>1 DEF AtRun
  <2> QED
    BY <2>1, <2>2, <2>3, RequestMoves
<1>2. CASE RecordDecision(r)
  <2>1. PICK pc \in {"notify", "done"} : Goto(r, pc)
    BY <1>2 DEF RecordDecision
  <2>2. /\ run[r].pc = "record" /\ UNCHANGED <<checkpoint, waiter, shared>>
        /\ row'.status = row.status /\ row'.node = row.node
    BY <1>2 DEF RecordDecision, TypeOK, RowStates
  <2>3. /\ run'[r].pc = pc /\ run'[r].node = run[r].node /\ Settle
        /\ \A x \in Runners \ {r} : run'[x].pc = run[x].pc /\ run'[x].node = run[x].node
    BY <1>0, <2>1, GotoPlaces
  <2>4. ASSUME AtRun(Stream), ~shared PROVE Follows(r)'
    <3>1. Follows(r)
      BY <2>4 DEF AloneInv
    <3> QED
      BY <1>0, <2>2, <2>3, <3>1 DEF Follows
  <2>5. ~AtRun(r)'
    BY <1>0, <2>3 DEF AtRun
  <2> QED
    BY <2>2, <2>3, <2>4, <2>5, RequestMoves
<1>3. CASE LoadWaiter(r)
  <2>1. /\ run[r].pc \in {"notify", "again"}
        /\ UNCHANGED <<row, checkpoint, waiter, shared>>
    BY <1>3 DEF LoadWaiter
  <2>2. CASE waiter.set
    <3>0. run' = [run EXCEPT ![r] = [@ EXCEPT !.pc = "send", !.found = TRUE]] /\ Settle
      BY <1>3, <2>2 DEF LoadWaiter
    <3>1. /\ run'[r].pc = "send" /\ Settle /\ \A x \in Runners \ {r} : run'[x] = run[x]
      BY <1>0, <3>0 DEF TypeOK, RunStates
    <3>2. ~AtRun(r)' /\ Follows(r)'
      BY <1>0, <3>1 DEF AtRun, Follows
    <3> QED
      BY <2>1, <3>1, <3>2, RequestMoves
  <2>3. CASE ~waiter.set
    <3>1. PICK pc \in {"again", "reread"} :
            /\ Goto(r, pc)
            /\ pc = "again" => run[r].pc = "notify"
            /\ pc = "reread" => run[r].pc = "again" /\ Patient(r)
      BY <1>3, <2>3 DEF LoadWaiter
    <3>2. /\ run'[r].pc = pc /\ run'[r].node = run[r].node /\ Settle
          /\ \A x \in Runners \ {r} : run'[x].pc = run[x].pc /\ run'[x].node = run[x].node
      BY <1>0, <3>1, GotoPlaces
    <3>3. ASSUME AtRun(Stream), ~shared PROVE Follows(r)'
      <4>0. run'[Stream].pc = run[Stream].pc /\ run'[Stream].node = run[Stream].node
        BY <1>0, <3>2
      <4>1. /\ run[r].node < run[Stream].node
               \/ /\ run[r].node = run[Stream].node
                  /\ run[Stream].pc \in AtNode
                  /\ run[r].pc = "again" /\ r \in settled =>
                       run[Stream].pc \in {"wait", "unregister", "decide", "load"}
            /\ run[r].pc = "notify" => r \notin settled
            /\ run[Stream].pc \in {"look", "wait", "unregister"} => waiter.set
        BY <2>1, <3>3 DEF AloneInv, Follows
      <4>2. CASE pc = "again"
        <5>0. r \notin settled
          BY <3>1, <4>1, <4>2
        <5>1. r \in settled' => run[Stream].pc \notin Brief
          BY <3>2, <4>0, <5>0 DEF Settle
        <5>2. run[Stream].pc \in AtNode \ Brief => run[Stream].pc = "wait"
          BY DEF AtNode, Brief
        <5> QED
          <6>1. run'[r].pc = "again" /\ run'[r].node = run[r].node
            BY <3>2, <4>2
          <6>2. r \in settled' /\ run[Stream].pc \in AtNode => run'[Stream].pc = "wait"
            BY <4>0, <5>1, <5>2
          <6>3. \/ run'[r].node < run'[Stream].node
                \/ run'[r].node = run'[Stream].node /\ run'[Stream].pc \in AtNode
            BY <4>0, <4>1, <6>1
          <6> QED
            BY <4>0, <6>1, <6>2, <6>3 DEF Follows
      <4>3. CASE pc = "reread"
        <5>1. Prompt => r \in settled /\ run[r].pc = "again"
          BY <3>1, <4>3 DEF Patient
        <5> QED
          BY <2>3, <3>2, <4>0, <4>1, <4>3, <5>1 DEF Follows
      <4> QED
        BY <4>2, <4>3
    <3>4. ~AtRun(r)'
      BY <1>0, <3>2 DEF AtRun
    <3>5. run'[r].pc \notin {"idle", "record", "notify"}
      BY <3>2
    <3> QED
      BY <2>1, <3>2, <3>3, <3>4, <3>5, RequestMoves
  <2> QED
    BY <2>2, <2>3
<1>4. CASE SendDecision(r)
  <2>1. /\ run'[r].pc = "done" /\ Settle /\ \A x \in Runners \ {r} : run'[x] = run[x]
        /\ UNCHANGED <<row, checkpoint, shared>> /\ waiter'.set = waiter.set
    BY <1>0, <1>4 DEF SendDecision, TypeOK, RunStates, WaiterStates
  <2>2. ~AtRun(r)' /\ Follows(r)'
    BY <1>0, <2>1 DEF AtRun, Follows
  <2> QED
    BY <2>1, <2>2, RequestMoves
<1>5. CASE Reread(r)
  <2>1. CASE Goto(r, "done") /\ UNCHANGED shared
    <3>1. /\ run'[r].pc = "done" /\ Settle
          /\ \A x \in Runners \ {r} : run'[x].pc = run[x].pc /\ run'[x].node = run[x].node
      BY <1>0, <2>1, GotoPlaces
    <3>2. ~AtRun(r)' /\ Follows(r)' /\ UNCHANGED <<row, checkpoint, waiter>>
      BY <1>0, <1>5, <3>1 DEF AtRun, Follows, Reread
    <3> QED
      BY <2>1, <3>1, <3>2, RequestMoves
  <2>2. CASE /\ Goto(r, "decide")
             /\ shared' = (shared \/ \E x \in Runners \ {r} : AtRun(x))
    <3>1. AtRun(Stream)' => AtRun(Stream)
      BY <1>0, <2>2, GotoPlaces DEF AtRun
    <3>2. AtRun(Stream) => shared'
      BY <1>0, <2>2
    <3> QED
      BY <3>1, <3>2 DEF AloneInv
  <2> QED
    BY <1>5, <2>1, <2>2 DEF Reread
<1> QED
  BY <1>1, <1>2, <1>3, <1>4, <1>5 DEF RequestStep

\* After a restart there is no stream.
LEMMA RestartKeepsAlone ==
  ASSUME TypeOK, AloneInv, Restart
  PROVE  AloneInv'
<1>1. Stream \in Runners
  BY DEF Runners
<1>2. CASE run[Stream].pc = "idle"
  <2>1. run'[Stream].pc = "idle" /\ UNCHANGED shared
    BY <1>1, <1>2 DEF Restart
  <2>2. AtRun(Stream) /\ shared
    BY <1>2 DEF AloneInv, AtRun, AtNode
  <2> QED
    BY <2>1, <2>2 DEF AloneInv
<1>3. CASE run[Stream].pc # "idle"
  <2>1. run'[Stream].pc = "done"
    BY <1>1, <1>3 DEF Restart, Idle
  <2> QED
    BY <2>1 DEF AloneInv, AtRun
<1> QED
  BY <1>2, <1>3

\* Every step keeps what the requests know of the stream.
LEMMA StepKeepsAlone ==
  ASSUME TypeOK, AloneInv, [Next]_vars
  PROVE  AloneInv'
<1>1. CASE Next
  BY <1>1, GraphKeepsAlone, WaitKeepsAlone, RequestKeepsAlone, RestartKeepsAlone DEF Next
<1>2. CASE UNCHANGED vars
  BY <1>2 DEF vars, AloneInv, Follows, AtRun
<1> QED
  BY <1>1, <1>2

\* A request takes the run up by its second read of the row only; a stream that has
\* the run alone is then past the node, or past its channel.
LEMMA OvertakenStep ==
  ASSUME TypeOK, AloneInv, [Next]_vars, NEW r \in Requests,
         Prompt, ~shared, AtRun(Stream), ~AtRun(r), AtRun(r)'
  PROVE  run[Stream].node > run[r].node \/ run[Stream].pc \in {"decide", "load"}
<1>0. /\ r \in Runners /\ Stream \in Runners /\ r # Stream
      /\ run[r].node \in Nat /\ run[Stream].node \in Nat
  BY ApprovalAssumption, NodesAreNumbers DEF Runners
<1>1. \A q \in Requests : run'[q] = run[q] => q # r
  BY <1>0 DEF AtRun
<1>2. run'[r] # run[r]
  BY <1>1
<1>3. Next
  BY <1>2 DEF vars
<1>4. ASSUME NEW x \in Runners, GraphStep(x) PROVE FALSE
  <2>1. AtRun(x) /\ \A y \in Runners \ {x} : run'[y] = run[y]
    BY <1>4 DEF GraphStep, Interrupt, Complete, Fail, Await, Decide, Load, Finish, Goto,
                AtRun, TypeOK
  <2> QED
    BY <1>0, <1>2, <2>1
<1>5. ASSUME WaitStep \/ GiveUp PROVE FALSE
  <2>1. run'[r].pc = run[r].pc
    BY <1>0, <1>5 DEF WaitStep, Pause, RegisterHITLWaiter, ReadDecision, Receive, GiveUp, Takes,
                UnregisterHITLWaiter, Goto, TypeOK, RunStates
  <2> QED
    BY <1>0, <2>1 DEF AtRun
<1>6. ASSUME Restart PROVE FALSE
  <2>1. run'[r].pc \in {"idle", "done"}
    BY <1>0, <1>6 DEF Restart, Idle
  <2> QED
    BY <1>0, <2>1 DEF AtRun
<1>7. ASSUME NEW q \in Requests, ResumeRun(q) \/ RequestStep(q)
      PROVE  run[Stream].node > run[r].node \/ run[Stream].pc \in {"decide", "load"}
  <2>0. q \in Runners /\ q # Stream
    BY <1>7, ApprovalAssumption DEF Runners
  <2>1. \A y \in Runners \ {q} : run'[y] = run[y]
    BY <1>7 DEF ResumeRun, RequestStep, RecordDecision, LoadWaiter, SendDecision, Reread, Goto,
                TypeOK
  <2>2. q = r
    BY <1>0, <1>2, <2>1
  <2>3. CASE Reread(r)
    <3>1. Follows(r) /\ run[r].pc = "reread"
      BY <2>3 DEF AloneInv, Reread
    <3> QED
      BY <1>0, <3>1 DEF Follows
  <2>4. CASE ResumeRun(r) \/ RecordDecision(r) \/ LoadWaiter(r) \/ SendDecision(r)
    <3>1. \/ \E pc \in {"notify", "again", "reread", "done"} : Goto(r, pc)
          \/ run' = [run EXCEPT ![r] = [@ EXCEPT !.pc = "send", !.found = TRUE]]
          \/ ResumeRun(r) \/ SendDecision(r)
      BY <2>4 DEF RecordDecision, LoadWaiter
    <3>2. run'[r].pc \in {"record", "notify", "again", "send", "reread", "done"}
      <4>1. CASE \E pc \in {"notify", "again", "reread", "done"} : Goto(r, pc)
        BY <1>0, <4>1, GotoPlaces
      <4>2. CASE run' = [run EXCEPT ![r] = [@ EXCEPT !.pc = "send", !.found = TRUE]]
        BY <1>0, <4>2 DEF TypeOK, RunStates
      <4>3. CASE ResumeRun(r)
        BY <1>0, <4>3 DEF ResumeRun, TypeOK, RunStates
      <4>4. CASE SendDecision(r)
        BY <1>0, <4>4 DEF SendDecision, TypeOK, RunStates
      <4> QED
        BY <3>1, <4>1, <4>2, <4>3, <4>4
    <3> QED
      BY <1>0, <3>2 DEF AtRun
  <2> QED
    BY <1>7, <2>2, <2>3, <2>4 DEF RequestStep
<1> QED
  BY <1>3, <1>4, <1>5, <1>6, <1>7 DEF Next

-----------------------------------------------------------------------------
(* The theorems.                                                           *)

\* The inductive invariant holds in every reachable state.
LEMMA InvAlways == Spec => []Inv
<1> USE ApprovalAssumption
<1>1. Init => Inv
  <2> SUFFICES ASSUME Init PROVE Inv
    OBVIOUS
  <2>1. \A x \in Runners : run[x] \in RunStates /\ run[x].pc \in {"graph", "idle"}
                           /\ (run[x].pc = "graph" => run[x].node = 1 /\ x = Stream)
    <3>1. ASSUME NEW x \in Runners
          PROVE  run[x] \in RunStates /\ run[x].pc \in {"graph", "idle"}
                 /\ (run[x].pc = "graph" => run[x].node = 1 /\ x = Stream)
      <4>1. run[x] = IF x = Stream THEN [Idle EXCEPT !.pc = "graph", !.node = 1] ELSE Idle
        BY DEF Init
      <4>2. [Idle EXCEPT !.pc = "graph", !.node = 1] \in RunStates
        <5>1. 1 \in 0..Last + 1
          OBVIOUS
        <5> QED
          BY <5>1 DEF Idle, RunStates, Decisions
      <4>3. /\ Idle.pc = "idle"
            /\ [Idle EXCEPT !.pc = "graph", !.node = 1].pc = "graph"
            /\ [Idle EXCEPT !.pc = "graph", !.node = 1].node = 1
        BY DEF Idle
      <4> QED
        BY <4>1, <4>2, <4>3, IdleIsTyped
    <3> QED
      BY <3>1
  <2>2. TypeOK
    <3>1. run = [x \in Runners |-> run[x]]
      BY DEF Init
    <3>2. run \in [Runners -> RunStates]
      BY <2>1, <3>1
    <3>3. row \in RowStates /\ waiter \in WaiterStates
      BY DEF Init, RowStates, WaiterStates, Unset, Decisions
    <3>4. checkpoint \in 0..Last /\ shared \in BOOLEAN /\ lost \in 0..MaxLost
          /\ restarts \in 0..MaxRestarts
      <4>1. checkpoint = 0 /\ shared = FALSE /\ lost = 0 /\ restarts = 0
        BY DEF Init
      <4>2. 0 \in 0..Last /\ 0 \in 0..MaxLost /\ 0 \in 0..MaxRestarts
        OBVIOUS
      <4> QED
        BY <4>1, <4>2
    <3>5. passed \in [Nodes -> SUBSET Requests]
      BY DEF Init
    <3>6. settled \subseteq Requests
      BY DEF Init
    <3> QED
      BY <3>2, <3>3, <3>4, <3>5, <3>6 DEF TypeOK
  <2>3. PlaceInv /\ CheckpointInv
    BY <2>1 DEF Init, PlaceInv, CheckpointInv
  <2>4. ExactInv
    BY <2>1 DEF Init, ExactInv, AtRun, Runners
  <2> QED
    BY <2>2, <2>3, <2>4 DEF Inv
<1>2. Inv /\ [Next]_vars => Inv'
  <2> SUFFICES ASSUME Inv, [Next]_vars PROVE Inv'
    OBVIOUS
  <2>1. CASE UNCHANGED vars
    BY <2>1 DEF vars, Inv, TypeOK, PlaceInv, CheckpointInv, ExactInv, AtRun
  <2> QED
    BY <2>1, GraphKeepsInv, PauseKeepsInv, WaitKeepsInv, RequestKeepsInv, RestartKeepsInv
       DEF Next, WaitStep
<1> QED
  BY <1>1, <1>2, PTL DEF Spec

\* Every variable keeps its type: no row ever names a node past the last.
THEOREM TypeCorrect == Spec => []TypeOK
<1>1. Inv => TypeOK
  BY DEF Inv
<1> QED
  BY <1>1, InvAlways, PTL

\* However often the process restarts and writes of the row fail: a run that is
\* offered for approval can be resumed (extractAwaitingHITL after the checkpoint).
THEOREM OfferedRunsResume == Spec => []AwaitingCanResume
<1>1. Inv => AwaitingCanResume
  BY DEF Inv, CheckpointInv, ExactInv, AwaitingCanResume
<1> QED
  BY <1>1, InvAlways, PTL

\* OnlyOvertakenJoin: unless a request has been overtaken by the stream's own
\* decision, it does not take up a run that the stream has in hand, however many
\* nodes, requests, failed writes and restarts there are.
THEOREM OvertakenRequests == Spec => OnlyOvertakenJoin
<1>1. Init => AloneInv
  <2> SUFFICES ASSUME Init PROVE AloneInv
    OBVIOUS
  <2>1. /\ Stream \in Runners /\ \A r \in Requests : r \in Runners /\ r # Stream
    BY ApprovalAssumption DEF Runners
  <2>2. run[Stream].pc = "graph" /\ row.status = "running" /\ settled = {}
    BY <2>1 DEF Init, Idle
  <2>3. \A r \in Requests : run[r].pc = "idle"
    BY <2>1 DEF Init, Idle
  <2>4. \A r \in Requests : ~AtRun(r) /\ Follows(r)
    BY <2>1, <2>3 DEF AtRun, Follows
  <2> QED
    BY <2>2, <2>4 DEF AloneInv
<1>2. TypeOK /\ AloneInv /\ [Next]_vars => AloneInv'
  BY StepKeepsAlone
<1>3. TypeOK /\ AloneInv /\ [Next]_vars =>
        [\A r \in Requests :
           Prompt /\ ~shared /\ AtRun(Stream) /\ ~AtRun(r) /\ AtRun(r)' =>
             run[Stream].node > run[r].node \/ run[Stream].pc \in {"decide", "load"}]_vars
  BY OvertakenStep
<1> QED
  BY <1>1, <1>2, <1>3, TypeCorrect, PTL DEF Spec, OnlyOvertakenJoin
=============================================================================
