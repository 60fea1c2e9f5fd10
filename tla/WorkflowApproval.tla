-------------------------- MODULE WorkflowApproval --------------------------
(***************************************************************************)
(* The approval nodes of one workflow run (workflow/runner.go, hitl_wait.go,*)
(* eino_compile.go, handler/workflow_run.go, the rows of workflow_runs).   *)
(* The goroutine of the chat stream runs the graph until it is interrupted *)
(* before an approval node; the graph's position goes into a checkpoint    *)
(* file, the pending node into the row of the run, and the stream waits    *)
(* for a decision in a channel and, twice a second, in the row.  A request *)
(* records its decision, notifies the waiting stream and, when it finds    *)
(* none, resumes the run itself from the checkpoint.                       *)
(*                                                                         *)
(* Left out: what nodes do and produce, branches without approval nodes    *)
(* and approval nodes that become ready together, comments and prompts, a  *)
(* definition that is changed or deleted while its run waits, callers      *)
(* without a stream (no handler is one).                                   *)
(***************************************************************************)
EXTENDS Naturals, FiniteSets

CONSTANTS
  Last,         \* the approval nodes are 1..Last, in the order of the graph
  Requests,     \* calls of ResumeRun, each made once
  Stream,       \* the goroutine of RunRoleBoundWorkflow
  NoRequest,
  Prompt,       \* the timing assumption of Patient is made
  MaxLost,      \* bound on failed writes of the row
  MaxRestarts   \* bound on restarts of the process

ASSUME ApprovalAssumption ==
  /\ Last \in Nat \ {0} /\ MaxLost \in Nat /\ MaxRestarts \in Nat
  /\ Stream \notin Requests /\ NoRequest \notin Requests
  /\ Prompt \in BOOLEAN

Nodes == 1..Last
Runners == Requests \cup {Stream}
Decisions == Requests \cup {NoRequest}

VARIABLES
  row,          \* the row of the run, with the request whose decision it holds
  checkpoint,   \* the node before which the stored checkpoint resumes, 0 for none
  waiter,       \* the channel in hitlWaiters, with the decision in it
  run,          \* the goroutines
  passed,       \* the decisions on which each node was passed, a history variable
  shared,       \* two goroutines had the run in hand at once, a history variable
  lost, restarts,
  settled       \* requests in whose looking time the stream was not brief

vars == <<row, checkpoint, waiter, run, passed, shared, lost, restarts, settled>>

RowStates ==
  [status : {"running", "awaiting", "completed", "rejected", "failed", "cancelled"},
   node : 0..Last, decision : Decisions]
\* "unset" when the map has no channel of the run.
WaiterStates == [set : BOOLEAN, decision : Decisions]
\* node: for a goroutine at the graph the approval node ahead of it, for a request
\* the node that was pending when it was made.
RunStates ==
  [pc : {"idle", "record", "notify", "again", "send", "reread", "graph", "await", "pause",
         "register", "look", "wait", "unregister", "decide", "load", "done"},
   node : 0..Last + 1, by : Decisions, approves : BOOLEAN, found : BOOLEAN,
   delegated : BOOLEAN]

TypeOK ==
  /\ row \in RowStates
  /\ checkpoint \in 0..Last
  /\ waiter \in WaiterStates
  /\ run \in [Runners -> RunStates]
  /\ passed \in [Nodes -> SUBSET Requests]
  /\ shared \in BOOLEAN
  /\ lost \in 0..MaxLost
  /\ restarts \in 0..MaxRestarts
  /\ settled \subseteq Requests

Unset == [set |-> FALSE, decision |-> NoRequest]
Idle == [pc |-> "idle", node |-> 0, by |-> NoRequest, approves |-> FALSE,
         found |-> FALSE, delegated |-> FALSE]

\* CreateWorkflowRun has succeeded.
Init ==
  /\ row = [status |-> "running", node |-> 0, decision |-> NoRequest]
  /\ checkpoint = 0
  /\ waiter = Unset
  /\ run = [x \in Runners |->
       IF x = Stream THEN [Idle EXCEPT !.pc = "graph", !.node = 1] ELSE Idle]
  /\ passed = [n \in Nodes |-> {}]
  /\ shared = FALSE
  /\ lost = 0 /\ restarts = 0
  /\ settled = {}

\* The goroutine has the run in hand, or is about to.
AtRun(x) ==
  IF x = Stream THEN run[x].pc # "done"
                ELSE run[x].pc \in {"decide", "load", "graph", "await"}
Approves(d) == d # NoRequest /\ run[d].approves

\* Where the stream only passes, from the graph to the wait and back.
Brief == {"await", "pause", "register", "look", "unregister", "decide", "load"}
\* A request looks for the stream's channel for half a second.
Settle ==
  settled' = settled \cup
    {r \in Requests : run'[r].pc = "again" /\ run'[Stream].pc \notin Brief}
\* No single passage of the stream lasts half a second: when the request gives up,
\* the stream has been out of one at some moment since the first look.  It may be
\* in another one now.
Patient(r) == Prompt => r \in settled

Goto(x, pc) == run' = [run EXCEPT ![x].pc = pc] /\ Settle
\* An update of the row whose error is discarded, or ends the stream without
\* another write.
Write(new) ==
  \/ row' = new /\ UNCHANGED lost
  \/ lost < MaxLost /\ lost' = lost + 1 /\ UNCHANGED row
Finish(x, status) == Write([row EXCEPT !.status = status]) /\ Goto(x, "done")

-----------------------------------------------------------------------------
(* The graph, run by the stream or by a request.                           *)

\* Faulty variant: the checkpoint is not stored.
InterruptUnsaved(x) ==
  /\ run[x].pc = "graph" /\ run[x].node <= Last
  /\ Goto(x, "await")
  /\ UNCHANGED <<row, checkpoint, waiter, passed, shared, lost, restarts>>

\* Invoke is interrupted: the checkpoint is stored before it returns.
Interrupt(x) ==
  /\ run[x].pc = "graph" /\ run[x].node <= Last
  /\ checkpoint' = run[x].node
  /\ Goto(x, "await")
  /\ UNCHANGED <<row, waiter, passed, shared, lost, restarts>>

Complete(x) ==
  /\ run[x].pc = "graph" /\ run[x].node = Last + 1
  /\ Finish(x, "completed")
  /\ UNCHANGED <<checkpoint, waiter, passed, shared, restarts>>

\* A node fails, the context ends or the checkpoint cannot be stored.
Fail(x) ==
  /\ run[x].pc = "graph"
  /\ Finish(x, "failed")
  /\ UNCHANGED <<checkpoint, waiter, passed, shared, restarts>>

\* extractAwaitingHITL; the new pending value holds no decision.  A request that
\* resumed the run leaves it here.
Await(x) ==
  /\ run[x].pc = "await"
  /\ Write([status |-> "awaiting", node |-> run[x].node, decision |-> NoRequest])
  /\ Goto(x, IF x = Stream THEN "pause" ELSE "done")
  /\ UNCHANGED <<checkpoint, waiter, passed, shared, restarts>>

\* A decision that was taken: SetWorkflowRunStatus, or the end of the run.
Decide(x) ==
  /\ run[x].pc = "decide"
  /\ \/ run[x].by = NoRequest /\ Finish(x, "cancelled")
     \/ run[x].by # NoRequest /\ ~Approves(run[x].by) /\ Finish(x, "rejected")
     \/ /\ Approves(run[x].by)
        /\ Write([row EXCEPT !.status = "running"])
        /\ Goto(x, "load")
  /\ UNCHANGED <<checkpoint, waiter, passed, shared, restarts>>

\* Faulty variant: the node after the approved one is skipped.
LoadPast(x) ==
  /\ run[x].pc = "load"
  /\ run' = [run EXCEPT ![x] = [@ EXCEPT !.pc = "graph", !.node = checkpoint + 2]]
  /\ passed' = [n \in Nodes |->
       IF n = checkpoint THEN passed[n] \cup {run[x].by} ELSE passed[n]]
  /\ Settle
  /\ UNCHANGED <<row, checkpoint, waiter, shared, lost, restarts>>

\* Invoke resumes from whatever checkpoint is stored and runs its node, which the
\* decision approves.
Load(x) ==
  /\ run[x].pc = "load"
  /\ run' = [run EXCEPT ![x] = [@ EXCEPT !.pc = "graph", !.node = checkpoint + 1]]
  /\ passed' = [n \in Nodes |->
       IF n = checkpoint THEN passed[n] \cup {run[x].by} ELSE passed[n]]
  /\ Settle
  /\ UNCHANGED <<row, checkpoint, waiter, shared, lost, restarts>>

GraphStep(x) ==
  Interrupt(x) \/ Complete(x) \/ Fail(x) \/ Await(x) \/ Decide(x) \/ Load(x)

-----------------------------------------------------------------------------
(* The stream at an approval node.                                         *)

\* RunRoleBoundWorkflow writes the pending value a second time.
Pause ==
  /\ run[Stream].pc = "pause"
  /\ Write([status |-> "awaiting", node |-> run[Stream].node, decision |-> NoRequest])
  /\ Goto(Stream, "register")
  /\ UNCHANGED <<checkpoint, waiter, passed, shared, restarts>>

RegisterHITLWaiter ==
  /\ run[Stream].pc = "register"
  /\ waiter' = [Unset EXCEPT !.set = TRUE]
  /\ Goto(Stream, "look")
  /\ UNCHANGED <<row, checkpoint, passed, shared, lost, restarts>>

Takes(d) ==
  /\ run' = [run EXCEPT ![Stream] = [@ EXCEPT !.pc = "unregister", !.by = d]]
  /\ Settle

\* readHITLDecisionFromDB, at once and then on every tick.
ReadDecision ==
  /\ run[Stream].pc \in {"look", "wait"}
  /\ IF row.decision = NoRequest THEN Goto(Stream, "wait") ELSE Takes(row.decision)
  /\ UNCHANGED <<row, checkpoint, waiter, passed, shared, lost, restarts>>

Receive ==
  /\ run[Stream].pc = "wait" /\ waiter.decision # NoRequest
  /\ Takes(waiter.decision)
  /\ waiter' = [waiter EXCEPT !.decision = NoRequest]
  /\ UNCHANGED <<row, checkpoint, passed, shared, lost, restarts>>

\* The context ends, or the row cannot be read.
GiveUp ==
  /\ run[Stream].pc \in {"look", "wait"}
  /\ Takes(NoRequest)
  /\ UNCHANGED <<row, checkpoint, waiter, passed, shared, lost, restarts>>

\* A request that has found this channel holds one nobody reads any more.
UnregisterHITLWaiter ==
  /\ run[Stream].pc = "unregister"
  /\ waiter' = Unset
  /\ run' = [x \in Runners |->
       IF x = Stream THEN [run[x] EXCEPT !.pc = "decide"]
                     ELSE [run[x] EXCEPT !.found = FALSE]]
  /\ Settle
  /\ UNCHANGED <<row, checkpoint, passed, shared, lost, restarts>>

WaitStep ==
  \/ Pause \/ RegisterHITLWaiter \/ ReadDecision \/ Receive \/ UnregisterHITLWaiter

-----------------------------------------------------------------------------
(* ResumeRun.                                                              *)

ResumeRun(r) ==
  /\ run[r].pc = "idle"
  /\ \E approves \in BOOLEAN :
       run' = [run EXCEPT ![r] = [@ EXCEPT
         !.pc = IF row.status = "awaiting" THEN "record" ELSE "done",
         !.node = row.node, !.by = r, !.approves = approves]]
  /\ Settle
  /\ UNCHANGED <<row, checkpoint, waiter, passed, shared, lost, restarts>>

\* RecordWorkflowRunHITLDecision; nobody looks whether it changed a row.
RecordDecision(r) ==
  /\ run[r].pc = "record"
  /\ \/ /\ row' = IF row.status = "awaiting" THEN [row EXCEPT !.decision = r] ELSE row
        /\ Goto(r, "notify")
        /\ UNCHANGED lost
     \/ /\ lost < MaxLost /\ lost' = lost + 1
        /\ Goto(r, "done")
        /\ UNCHANGED row
  /\ UNCHANGED <<checkpoint, waiter, passed, shared, restarts>>

\* Faulty variant: a run without a waiter counts as notified.
LoadWaiterAlways(r) ==
  /\ run[r].pc = "notify"
  /\ run' = [run EXCEPT ![r] = [@ EXCEPT !.pc = "send", !.found = waiter.set]]
  /\ Settle
  /\ UNCHANGED <<row, checkpoint, waiter, passed, shared, lost, restarts>>

\* Faulty variant: the request looks for the channel once.
LoadWaiterOnce(r) ==
  /\ run[r].pc = "notify"
  /\ IF waiter.set
     THEN run' = [run EXCEPT ![r] = [@ EXCEPT !.pc = "send", !.found = TRUE]] /\ Settle
     ELSE Goto(r, "reread")
  /\ UNCHANGED <<row, checkpoint, waiter, passed, shared, lost, restarts>>

\* NotifyHITLDecision, which ResumeRun repeats for half a second when it
\* finds no channel.
LoadWaiter(r) ==
  /\ run[r].pc \in {"notify", "again"}
  /\ IF waiter.set
     THEN run' = [run EXCEPT ![r] = [@ EXCEPT !.pc = "send", !.found = TRUE]] /\ Settle
     ELSE \/ run[r].pc = "notify" /\ Goto(r, "again")
          \/ run[r].pc = "again" /\ Patient(r) /\ Goto(r, "reread")
  /\ UNCHANGED <<row, checkpoint, waiter, passed, shared, lost, restarts>>

\* The send of NotifyHITLDecision: a channel that is full, or that nobody reads,
\* counts as notified, too.
SendDecision(r) ==
  /\ run[r].pc = "send"
  /\ waiter' = IF run[r].found /\ waiter.decision = NoRequest
               THEN [waiter EXCEPT !.decision = r] ELSE waiter
  /\ run' = [run EXCEPT ![r] = [@ EXCEPT !.pc = "done", !.delegated = TRUE]]
  /\ Settle
  /\ UNCHANGED <<row, checkpoint, passed, shared, lost, restarts>>

\* ResumeWorkflowRun reads the row again, and the definition; it fails when it
\* cannot.
Reread(r) ==
  /\ run[r].pc = "reread"
  /\ \/ /\ row.status = "awaiting"
        /\ Goto(r, "decide")
        /\ shared' = (shared \/ \E x \in Runners \ {r} : AtRun(x))
     \/ Goto(r, "done") /\ UNCHANGED shared
  /\ UNCHANGED <<row, checkpoint, waiter, passed, lost, restarts>>

RequestStep(r) == RecordDecision(r) \/ LoadWaiter(r) \/ SendDecision(r) \/ Reread(r)

\* The process stops and starts again; row and checkpoint stay.
Restart ==
  /\ restarts < MaxRestarts
  /\ restarts' = restarts + 1
  /\ waiter' = Unset
  /\ run' = [x \in Runners |->
       IF run[x].pc = "idle" THEN run[x]
       ELSE [Idle EXCEPT !.pc = "done", !.approves = run[x].approves]]
  /\ Settle
  /\ UNCHANGED <<row, checkpoint, passed, shared, lost>>

Next ==
  \/ \E x \in Runners : GraphStep(x)
  \/ WaitStep \/ GiveUp
  \/ \E r \in Requests : ResumeRun(r) \/ RequestStep(r)
  \/ Restart

Spec == Init /\ [][Next]_vars

\* Goroutines run, nodes end, tickers tick.  Nobody need decide anything.
FairSpec ==
  /\ Spec
  /\ WF_vars(GraphStep(Stream) \/ WaitStep)
  /\ \A r \in Requests : WF_vars(GraphStep(r) \/ RequestStep(r))

-----------------------------------------------------------------------------
(* Properties.                                                             *)

\* Checkpoint file and row are written one after the other, and writes of the
\* row may fail: a run that is offered for approval, also after a restart, has a
\* checkpoint to resume from; and unless a write failed or two goroutines had the
\* run in hand at once, it resumes exactly at the node the row names.
AwaitingCanResume ==
  row.status = "awaiting" =>
    /\ checkpoint # 0
    /\ lost = 0 /\ ~shared => checkpoint = row.node

\* The first request that takes up the run beside its stream has been overtaken: the
\* stream, for whose channel it looked in vain, has taken a decision at the node that
\* was shown to the user, and may be on its way to another one.  A stream that still
\* has to decide there is never doubled, whatever writes fail.
OnlyOvertakenJoin ==
  [][\A r \in Requests :
       Prompt /\ ~shared /\ AtRun(Stream) /\ ~AtRun(r) /\ AtRun(r)' =>
         run[Stream].node > run[r].node \/ run[Stream].pc \in {"decide", "load"}]_vars

\* A request that is told its decision was delegated is heard, although the
\* pending value is written twice and the decision may reach a channel nobody
\* reads: the run does not stay at the node that was shown to the user.  Excepted are
\* failed writes, the end of the process, and a run that two goroutines had in hand.
DelegatedIsHeard ==
  \A r \in Requests :
    run[r].pc = "done" /\ run[r].delegated
      ~> \/ row.status # "awaiting" \/ row.node # run[r].node
         \/ lost > 0 \/ restarts > 0 \/ shared

\* "ResumeWorkflowRun continues a run paused at HITL" (eino_compile.go:137): never one
\* that its stream goes on with.
NotBesideStream ==
  Prompt /\ lost = 0 => \A r \in Requests : AtRun(r) => ~AtRun(Stream)

\* "HITLDecision is a human decision on a workflow approval node" (hitl_wait.go:14):
\* one decision lets the run pass one node.
OneNodePerDecision ==
  \A r \in Requests : Cardinality({n \in Nodes : r \in passed[n]}) <= 1
=============================================================================
