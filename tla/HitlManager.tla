---------------------------- MODULE HitlManager ----------------------------
(***************************************************************************)
(* The approval gate in front of tool calls (handler/hitl.go,              *)
(* hitl_execution.go, hitl_audit_agent.go, multiagent/hitl_middleware.go), *)
(* for one conversation.  Every tool call of the agent runs in a goroutine *)
(* of its own and meets, in any order: HTTP decisions and dismissals, the  *)
(* approval timeout, the cancellation of its context, and a restart of the *)
(* process.  Three places hold the state of one approval: the row of       *)
(* hitl_interrupts, the in-memory map `pending', and a channel of capacity *)
(* one; the code updates them one at a time.                               *)
(*                                                                         *)
(* Names: a call stands for its own interrupt id (a fresh uuid, at most    *)
(* one per call).  Comments, payloads and edited arguments are left out.   *)
(***************************************************************************)
EXTENDS Naturals, SequencesExt

CONSTANTS
  Calls,        \* tool calls, each passing the gate once
  Requests,     \* HTTP requests to /hitl/decision and /hitl/dismiss
  Tools,        \* tool names
  ToolOf,       \* the tool each call names
  Exempt,       \* the approval-free tools (SensitiveTools, a white list)
  HasTimeout,   \* whether the approval timeout is positive
  LostWrites,   \* whether an UPDATE whose error is discarded may be lost
  Reviewers,    \* the reviewers a setting may name
  MaxRestarts,  \* bound on process restarts
  NoCall        \* no call

ASSUME HitlAssumption ==
  /\ ToolOf \in [Calls -> Tools]
  /\ Exempt \subseteq Tools
  /\ "human" \in Reviewers /\ Reviewers \subseteq {"human", "audit_agent"}
  /\ HasTimeout \in BOOLEAN /\ LostWrites \in BOOLEAN
  /\ MaxRestarts \in Nat
  /\ NoCall \notin Calls

VARIABLES
  row,          \* the row of each interrupt: status, decision, decided_by
  pending,      \* HITLManager.pending
  ch,           \* decideCh of each pendingInterrupt, capacity one
  pc,           \* where the goroutine of each call is
  rev,          \* the reviewer each call read from the runtime configuration
  got,          \* what ended the wait of each call
  ctxDone,      \* calls whose run context is done
  runtime,      \* HITLManager.runtime: "off" or the reviewer
  stored,       \* the row of hitl_conversation_configs
  approvedExec, \* approved calls still waiting for their tool_result
  exec,         \* whose result is recorded on each interrupt's row
  ran,          \* calls whose tool was invoked
  req,          \* the HTTP requests
  restarts

vars == <<row, pending, ch, pc, rev, got, ctxDone, runtime, stored,
          approvedExec, exec, ran, req, restarts>>
callVars == <<pc, rev, got, ctxDone>>

Verdicts == {"approve", "reject"}
Reasons == Verdicts \cup {"timeout", "cancelled"}
ActivePcs == {"inserting", "registering", "waiting", "deciding", "leaving",
              "reviewing", "tracking", "executing", "rejected", "failed"}
Active(c) == pc[c] \in ActivePcs

NoRow == [status |-> "none", decision |-> "none", by |-> "none"]
NoReq == [pc |-> "idle", call |-> NoCall, verb |-> "none"]
PendingRow(c) == row[c].status = "pending"

TypeOK ==
  /\ row \in [Calls ->
       [status : {"none", "pending", "decided", "timeout", "cancelled"},
        decision : Verdicts \cup {"none"},
        by : Reviewers \cup {"system", "none"}]]
  /\ pending \subseteq Calls
  /\ ch \in [Calls -> Verdicts \cup {"none"}]
  /\ pc \in [Calls -> ActivePcs \cup {"idle", "done", "dead"}]
  /\ rev \in [Calls -> Reviewers \cup {"none"}]
  /\ got \in [Calls -> Reasons \cup {"none"}]
  /\ ctxDone \subseteq Calls
  /\ runtime \in Reviewers \cup {"off"}
  /\ stored \in [enabled : BOOLEAN, reviewer : Reviewers]
  /\ approvedExec \in Seq(Calls)
  /\ exec \in [Calls -> Calls \cup {NoCall}]
  /\ ran \subseteq Calls
  /\ req \in [Requests ->
       [pc : {"idle", "found", "updated", "ok", "refused", "dead"},
        call : Calls \cup {NoCall}, verb : Verdicts \cup {"dismiss", "none"}]]
  /\ restarts \in 0..MaxRestarts

Init ==
  /\ row = [c \in Calls |-> NoRow]
  /\ pending = {}
  /\ ch = [c \in Calls |-> "none"]
  /\ pc = [c \in Calls |-> "idle"]
  /\ rev = [c \in Calls |-> "none"]
  /\ got = [c \in Calls |-> "none"]
  /\ ctxDone = {}
  /\ runtime = "off"
  /\ stored = [enabled |-> FALSE, reviewer |-> "human"]
  /\ approvedExec = <<>>
  /\ exec = [c \in Calls |-> NoCall]
  /\ ran = {}
  /\ req = [q \in Requests |-> NoReq]
  /\ restarts = 0

-----------------------------------------------------------------------------
(* Configuration of the conversation.                                      *)

\* A run or a configuration request puts its reviewer, or "off", in force.
ActivateConversation(r) ==
  /\ runtime' = r
  /\ UNCHANGED <<row, pending, ch, callVars, stored, approvedExec, exec, ran,
                 req, restarts>>

\* activateHITLForConversation when the run's request carries no setting: the
\* stored one comes into force.
ActivateStored ==
  ActivateConversation(IF stored.enabled THEN stored.reviewer ELSE "off")

\* Deferred by the handler that runs the agent.
DeactivateConversation == ActivateConversation("off")

\* PUT of the conversation's setting.  Writing the white list to config.yaml
\* may fail after the setting is stored: it is then not put in force.
UpsertConfig(cfg) ==
  /\ stored' = cfg
  /\ \/ runtime' = IF cfg.enabled THEN cfg.reviewer ELSE "off"
     \/ UNCHANGED runtime
  /\ UNCHANGED <<row, pending, ch, callVars, approvedExec, exec, ran, req,
                 restarts>>

-----------------------------------------------------------------------------
(* The goroutine of a tool call.                                           *)

NeedsApproval(c) == runtime # "off" /\ ToolOf[c] \notin Exempt

\* shouldInterrupt: the reviewer is read once and used for the whole wait.
Intercept(c) ==
  /\ pc[c] = "idle"
  /\ IF NeedsApproval(c)
     THEN /\ pc' = [pc EXCEPT ![c] = "inserting"]
          /\ rev' = [rev EXCEPT ![c] = runtime]
          /\ UNCHANGED ran
     ELSE /\ pc' = [pc EXCEPT ![c] = "executing"]
          /\ ran' = ran \cup {c}
          /\ UNCHANGED rev
  /\ UNCHANGED <<row, pending, ch, got, ctxDone, runtime, stored,
                 approvedExec, exec, req, restarts>>

\* CreatePendingInterrupt, the database half: the row, then the stored setting
\* is switched on if a page reload would show it off.
InsertRow(c) ==
  /\ pc[c] = "inserting"
  /\ row' = [row EXCEPT ![c] =
               [status |-> "pending", decision |-> "none", by |-> "none"]]
  /\ \/ stored' = [stored EXCEPT !.enabled = TRUE]
     \/ LostWrites /\ UNCHANGED stored
  /\ pc' = [pc EXCEPT ![c] =
              IF rev[c] = "human" THEN "registering" ELSE "reviewing"]
  /\ UNCHANGED <<pending, ch, rev, got, ctxDone, runtime, approvedExec, exec,
                 ran, req, restarts>>

\* The INSERT fails: the middleware returns the error, the tool is not called.
InsertFails(c) ==
  /\ pc[c] = "inserting"
  /\ pc' = [pc EXCEPT ![c] = "failed"]
  /\ UNCHANGED <<row, pending, ch, rev, got, ctxDone, runtime, stored,
                 approvedExec, exec, ran, req, restarts>>

\* CreatePendingInterrupt, the memory half: only a human's interrupt is listed.
Register(c) ==
  /\ pc[c] = "registering"
  /\ pending' = pending \cup {c}
  /\ pc' = [pc EXCEPT ![c] = "waiting"]
  /\ UNCHANGED <<row, ch, rev, got, ctxDone, runtime, stored, approvedExec,
                 exec, ran, req, restarts>>

\* One branch of waitDecision's select was chosen.
WaitEnds(c, reason) ==
  /\ pc[c] = "waiting"
  /\ pc' = [pc EXCEPT ![c] = "deciding"]
  /\ got' = [got EXCEPT ![c] = reason]
  /\ UNCHANGED <<row, pending, rev, ctxDone, runtime, stored, approvedExec,
                 exec, ran, req, restarts>>

TakeDecision(c) ==
  /\ ch[c] # "none"
  /\ ch' = [ch EXCEPT ![c] = "none"]
  /\ WaitEnds(c, ch[c])

\* Faulty variant: the timer is armed for timeouts of zero and below.
TimesOutInverted(c) == ~HasTimeout /\ WaitEnds(c, "timeout") /\ UNCHANGED ch

TimesOut(c) == HasTimeout /\ WaitEnds(c, "timeout") /\ UNCHANGED ch

SeesCancel(c) == c \in ctxDone /\ WaitEnds(c, "cancelled") /\ UNCHANGED ch

\* auditAgentReview: the model's verdict, or "reject" when the call to it fails
\* or its context is done.
AuditReview(c, verdict) ==
  /\ pc[c] = "reviewing"
  /\ c \in ctxDone => verdict = "reject"
  /\ pc' = [pc EXCEPT ![c] = "deciding"]
  /\ got' = [got EXCEPT ![c] = verdict]
  /\ UNCHANGED <<row, pending, ch, rev, ctxDone, runtime, stored,
                 approvedExec, exec, ran, req, restarts>>

\* Faulty variant: a wait that ends without a verdict carries no decision.
DecisionOfLeftEmpty(reason) == IF reason \in Verdicts THEN reason ELSE "none"

\* The decision each end of the wait stands for.
DecisionOf(reason) == IF reason \in Verdicts THEN reason ELSE "reject"

DecidedRow(c) ==
  [status   |-> IF got[c] \in Verdicts THEN "decided" ELSE got[c],
   decision |-> DecisionOf(got[c]),
   by       |-> IF got[c] \in Verdicts THEN rev[c] ELSE "system"]

\* Where a call goes once its wait is over: an error of the wait ends the tool
\* call, a rejection becomes a soft result, anything else lets the tool run.
AfterWait(reason) ==
  IF reason = "cancelled" THEN "failed"
  ELSE IF DecisionOf(reason) = "reject" THEN "rejected" ELSE "tracking"

\* The UPDATE of the row, which no WHERE clause restricts to pending rows and
\* whose error is discarded.
WriteDecision(c) ==
  /\ pc[c] = "deciding"
  /\ \/ row' = [row EXCEPT ![c] = DecidedRow(c)]
     \/ LostWrites /\ UNCHANGED row
  /\ pc' = [pc EXCEPT ![c] =
              IF rev[c] = "human" THEN "leaving" ELSE AfterWait(got[c])]
  /\ UNCHANGED <<pending, ch, rev, got, ctxDone, runtime, stored,
                 approvedExec, exec, ran, req, restarts>>

\* waitDecision's deferred delete; a wait ended by its context cancels the run.
LeaveWait(c) ==
  /\ pc[c] = "leaving"
  /\ pending' = pending \ {c}
  /\ pc' = [pc EXCEPT ![c] = AfterWait(got[c])]
  /\ ctxDone' = IF got[c] = "cancelled"
                THEN ctxDone \cup {d \in Calls : Active(d)} ELSE ctxDone
  /\ UNCHANGED <<row, ch, rev, got, runtime, stored, approvedExec, exec, ran,
                 req, restarts>>

\* TrackApprovedHitlExecution, then the middleware calls the tool.
TrackAndRun(c) ==
  /\ pc[c] = "tracking"
  /\ approvedExec' = Append(approvedExec, c)
  /\ pc' = [pc EXCEPT ![c] = "executing"]
  /\ ran' = ran \cup {c}
  /\ UNCHANGED <<row, pending, ch, rev, got, ctxDone, runtime, stored, exec,
                 req, restarts>>

\* popApprovedInterruptForTool: a tracked entry carries no tool call id (the
\* interceptor has none), so the first entry of the same tool is taken.
Tracked(c, i) ==
  /\ ToolOf[approvedExec[i]] = ToolOf[c]
  /\ \A j \in 1..(i - 1) : ToolOf[approvedExec[j]] # ToolOf[c]

\* Faulty variant: the entry is read and left in the queue.
ToolResultWithoutPop(c) ==
  /\ pc[c] \in {"executing", "rejected", "failed"}
  /\ pc' = [pc EXCEPT ![c] = "done"]
  /\ \/ /\ \A i \in 1..Len(approvedExec) : ~Tracked(c, i)
        /\ UNCHANGED exec
     \/ \E i \in 1..Len(approvedExec) :
          Tracked(c, i) /\ exec' = [exec EXCEPT ![approvedExec[i]] = c]
  /\ UNCHANGED <<row, pending, ch, rev, got, ctxDone, runtime, stored, ran,
                 approvedExec, req, restarts>>

\* Every tool_result event, also those of rejected and failed calls, is handed
\* to recordHitlToolExecutionResult.
ToolResult(c) ==
  /\ pc[c] \in {"executing", "rejected", "failed"}
  /\ pc' = [pc EXCEPT ![c] = "done"]
  /\ \/ /\ \A i \in 1..Len(approvedExec) : ~Tracked(c, i)
        /\ UNCHANGED <<approvedExec, exec>>
     \/ \E i \in 1..Len(approvedExec) :
          /\ Tracked(c, i)
          /\ approvedExec' = RemoveAt(approvedExec, i)
          /\ \/ exec' = [exec EXCEPT ![approvedExec[i]] = c]
             \/ LostWrites /\ UNCHANGED exec
  /\ UNCHANGED <<row, pending, ch, rev, got, ctxDone, runtime, stored, ran,
                 req, restarts>>

-----------------------------------------------------------------------------
(* HTTP requests about an interrupt that has a row.                        *)

Reply(q, answer) == req' = [req EXCEPT ![q].pc = answer]

\* ResolveInterrupt, under the read lock: the pending interrupt or a conflict.
ResolveLookup(q, c, verdict) ==
  /\ req[q].pc = "idle"
  /\ row[c].status # "none"
  /\ req' = [req EXCEPT ![q] =
               [pc |-> IF c \in pending THEN "found" ELSE "refused",
                call |-> c, verb |-> verdict]]
  /\ UNCHANGED <<row, pending, ch, callVars, runtime, stored, approvedExec,
                 exec, ran, restarts>>

\* Faulty variant: a later decision replaces the one in the channel.
ResolveSendReplacing(q) ==
  /\ req[q].pc = "found"
  /\ ch' = [ch EXCEPT ![req[q].call] = req[q].verb]
  /\ Reply(q, "ok")
  /\ UNCHANGED <<row, pending, callVars, runtime, stored, approvedExec, exec,
                 ran, restarts>>

\* ResolveInterrupt, the lock released: the send that never blocks.
ResolveSend(q) ==
  /\ req[q].pc = "found"
  /\ LET c == req[q].call IN
       IF ch[c] = "none"
       THEN ch' = [ch EXCEPT ![c] = req[q].verb] /\ Reply(q, "ok")
       ELSE UNCHANGED ch /\ Reply(q, "refused")
  /\ UNCHANGED <<row, pending, callVars, runtime, stored, approvedExec, exec,
                 ran, restarts>>

\* Faulty variant: the UPDATE has no WHERE status='pending'.
DismissUpdateAnyRow(q, c) ==
  /\ req[q].pc = "idle"
  /\ row[c].status # "none"
  /\ req' = [req EXCEPT ![q] =
               [pc |-> "updated", call |-> c, verb |-> "dismiss"]]
  /\ row' = [row EXCEPT ![c] = [status |-> "cancelled",
                               decision |-> "reject", by |-> "human"]]
  /\ UNCHANGED <<pending, ch, callVars, runtime, stored, approvedExec, exec,
                 ran, restarts>>

\* DismissHITLInterrupt: the guarded UPDATE; no row affected is a 404.
DismissUpdate(q, c) ==
  /\ req[q].pc = "idle"
  /\ row[c].status # "none"
  /\ req' = [req EXCEPT ![q] =
               [pc |-> IF PendingRow(c) THEN "updated" ELSE "refused",
                call |-> c, verb |-> "dismiss"]]
  /\ row' = IF PendingRow(c)
            THEN [row EXCEPT ![c] = [status |-> "cancelled",
                                     decision |-> "reject", by |-> "human"]]
            ELSE row
  /\ UNCHANGED <<pending, ch, callVars, runtime, stored, approvedExec, exec,
                 ran, restarts>>

\* Faulty variant: the interrupt leaves the map and nothing is sent.
DismissDrainSilently(q) ==
  /\ req[q].pc = "updated"
  /\ pending' = pending \ {req[q].call}
  /\ Reply(q, "ok")
  /\ UNCHANGED <<row, ch, callVars, runtime, stored, approvedExec, exec, ran,
                 restarts>>

\* DismissHITLInterrupt, under the lock: take the interrupt out of the map and
\* leave a rejection in its channel unless an answer is already there.
DismissDrain(q) ==
  /\ req[q].pc = "updated"
  /\ LET c == req[q].call IN
       IF c \in pending
       THEN /\ pending' = pending \ {c}
            /\ ch' = IF ch[c] = "none" THEN [ch EXCEPT ![c] = "reject"] ELSE ch
       ELSE UNCHANGED <<pending, ch>>
  /\ Reply(q, "ok")
  /\ UNCHANGED <<row, callVars, runtime, stored, approvedExec, exec, ran,
                 restarts>>

-----------------------------------------------------------------------------
(* Cancellation and restart.                                               *)

\* The run is stopped or times out: the contexts of its calls are done.
CancelRun ==
  /\ ctxDone' = ctxDone \cup {c \in Calls : Active(c)}
  /\ ctxDone' # ctxDone
  /\ UNCHANGED <<row, pending, ch, pc, rev, got, runtime, stored,
                 approvedExec, exec, ran, req, restarts>>

\* The context of one tool call ends by itself (a deadline of the call).
ToolCtxEnds(c) ==
  /\ Active(c) /\ c \notin ctxDone
  /\ ctxDone' = ctxDone \cup {c}
  /\ UNCHANGED <<row, pending, ch, pc, rev, got, runtime, stored,
                 approvedExec, exec, ran, req, restarts>>

\* Faulty variant: rows left pending by the previous process stay pending.
RestartKeepingRows ==
  /\ restarts < MaxRestarts
  /\ restarts' = restarts + 1
  /\ pc' = [c \in Calls |-> IF Active(c) THEN "dead" ELSE pc[c]]
  /\ pending' = {}
  /\ ch' = [c \in Calls |-> "none"]
  /\ runtime' = "off"
  /\ approvedExec' = <<>>
  /\ req' = [q \in Requests |-> IF req[q].pc \in {"found", "updated"}
                                THEN [req[q] EXCEPT !.pc = "dead"] ELSE req[q]]
  /\ UNCHANGED <<row, rev, got, ctxDone, stored, exec, ran>>

\* The process stops and starts again: memory is lost, then EnsureSchema closes
\* the rows nobody waits for.
Restart ==
  /\ restarts < MaxRestarts
  /\ restarts' = restarts + 1
  /\ pc' = [c \in Calls |-> IF Active(c) THEN "dead" ELSE pc[c]]
  /\ pending' = {}
  /\ ch' = [c \in Calls |-> "none"]
  /\ runtime' = "off"
  /\ approvedExec' = <<>>
  /\ req' = [q \in Requests |-> IF req[q].pc \in {"found", "updated"}
                                THEN [req[q] EXCEPT !.pc = "dead"] ELSE req[q]]
  /\ \/ row' = [c \in Calls |-> IF PendingRow(c)
                  THEN [status |-> "cancelled", decision |-> "reject",
                        by |-> "system"]
                  ELSE row[c]]
     \/ LostWrites /\ UNCHANGED row
  /\ UNCHANGED <<rev, got, ctxDone, stored, exec, ran>>

-----------------------------------------------------------------------------
CallStep(c) ==
  \/ Intercept(c)
  \/ InsertRow(c)
  \/ InsertFails(c)
  \/ Register(c)
  \/ TakeDecision(c)
  \/ TimesOut(c)
  \/ SeesCancel(c)
  \/ \E v \in Verdicts : AuditReview(c, v)
  \/ WriteDecision(c)
  \/ LeaveWait(c)
  \/ TrackAndRun(c)
  \/ ToolResult(c)

RequestStep(q) ==
  \/ \E c \in Calls, v \in Verdicts : ResolveLookup(q, c, v)
  \/ ResolveSend(q)
  \/ \E c \in Calls : DismissUpdate(q, c)
  \/ DismissDrain(q)

Next ==
  \/ \E c \in Calls : CallStep(c) \/ ToolCtxEnds(c)
  \/ \E q \in Requests : RequestStep(q)
  \/ \E r \in Reviewers : ActivateConversation(r)
  \/ ActivateStored
  \/ DeactivateConversation
  \/ \E cfg \in [enabled : BOOLEAN, reviewer : Reviewers] : UpsertConfig(cfg)
  \/ CancelRun
  \/ Restart

Spec == Init /\ [][Next]_vars

\* A goroutine past its wait keeps running; a wait ends when an answer, its
\* timer or its context is ready.
Progress(c) ==
  \/ InsertRow(c) \/ Register(c)
  \/ TakeDecision(c) \/ TimesOut(c) \/ SeesCancel(c)
  \/ \E v \in Verdicts : AuditReview(c, v)
  \/ WriteDecision(c) \/ LeaveWait(c) \/ TrackAndRun(c)

FairSpec == Spec /\ \A c \in Calls : WF_vars(Progress(c))

-----------------------------------------------------------------------------
(* Properties.                                                             *)

AckedDecision(q, c) ==
  req[q].pc = "ok" /\ req[q].call = c /\ req[q].verb \in Verdicts

\* How far a call is, as HumanApproval sees it: what ended the wait tells more than
\* the channel, which a late request may fill again.
Stage(c) ==
  CASE c \in ran                                       -> "ran"
    [] c \notin ran /\ pc[c] = "idle"                  -> "new"
    [] c \notin ran /\ pc[c] \in {"rejected", "failed", "done", "dead"} -> "refused"
    [] OTHER -> LET known == IF got[c] # "none" THEN got[c] ELSE ch[c]
                IN IF known = "approve" THEN "approved"
                   ELSE IF known # "none" THEN "refused"
                   ELSE IF rev[c] = "human" THEN "asked" ELSE "audited"

\* The verdicts the server accepted (200) for a call.
Accepted(c) == {v \in Verdicts : \E q \in Requests : AckedDecision(q, c) /\ req[q].verb = v}

Approval == INSTANCE HumanApproval
  WITH stage <- [c \in Calls |-> Stage(c)], answers <- [c \in Calls |-> Accepted(c)]

\* The gate, in which an approval is spread over a request, a row, a channel and a
\* goroutine that are updated one at a time, decides every call once: the first
\* accepted verdict decides, and no step brings a refused call back.
ApprovalRefinement == Approval!Spec

\* A tool call that was given to a human runs only if the server accepted (200)
\* a request approving that very call: no timeout, cancellation, dismissal,
\* rejection or restart lets it through.
NoUnapprovedRun ==
  \A c \in ran : rev[c] = "human" =>
    \E q \in Requests : AckedDecision(q, c) /\ req[q].verb = "approve"

\* Once written, the outcome of a wait stays on its row: what the audit trail
\* says of a call that ran, was refused or was given up is what happened to it,
\* although a dismissal, the timeout and a restart write the same row.
DecidedRowStands ==
  ~LostWrites => \A c \in Calls :
    /\ got[c] # "none"
    /\ pc[c] \in {"leaving", "tracking", "executing", "rejected", "failed", "done"}
    => row[c] = DecidedRow(c)

\* As long as the goroutine waits, the decision the server accepted first is
\* the one in its channel: no later decision or dismissal replaces it.
FirstAckWins ==
  \A c \in Calls, q \in Requests :
    pc[c] = "waiting" /\ AckedDecision(q, c) => ch[c] = req[q].verb

\* A waiting goroutine can always be answered: it is in the map, or an answer is
\* already in its channel; and while its row is listed as pending it is in the
\* map.  Without a timeout nothing else would ever release it.
WaiterAnswerable ==
  \A c \in Calls : pc[c] = "waiting" =>
    /\ c \in pending \/ ch[c] # "none"
    /\ PendingRow(c) => c \in pending

\* A row listed as pending belongs to a live goroutine that will still write it,
\* also across restarts: the operator is never shown an approval that nothing
\* can ever resolve.
PendingRowHasGoroutine ==
  ~LostWrites => \A c \in Calls : PendingRow(c) =>
    pc[c] \in {"registering", "waiting", "reviewing", "deciding"}

\* The execution result recorded on an interrupt is never replaced, and it is
\* recorded only on the row of a call whose tool was called.
ResultRecordedOnce ==
  [][\A c \in Calls : exec'[c] # exec[c] => exec[c] = NoCall /\ c \in ran]_vars

\* With a positive timeout every wait comes to an end, whatever the operators,
\* dismissals and cancellations do.
EveryWaitEnds ==
  \A c \in Calls : pc[c] = "waiting" ~>
    pc[c] \in {"executing", "rejected", "failed", "done", "dead"}

\* Claimed by the code: among the calls that went through approval, the result
\* written back to an approved interrupt is that of the call it approved.
ResultOnOwnRow ==
  \A c \in Calls : exec[c] # NoCall /\ rev[exec[c]] # "none" => exec[c] = c
=============================================================================
