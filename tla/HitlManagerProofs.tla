------------------------- MODULE HitlManagerProofs -------------------------
(***************************************************************************)
(* What the approval gate guarantees for any number of calls, requests,    *)
(* tools and restarts, with lost writes or without.  The inductive         *)
(* invariant relates the four places an approval passes through: the HTTP  *)
(* request, the channel, what the goroutine took, and the tool call.       *)
(* The gate implements HumanApproval, in which a call has only a stage.    *)
(***************************************************************************)
EXTENDS HitlManager, TLAPS

\* Some request approving c was answered with 200.
Approved(c) ==
  \E q \in Requests : AckedDecision(q, c) /\ req[q].verb = "approve"

\* The reviewer is read when the gate is entered, and decides the path.
ReviewerInv ==
  \A c \in Calls :
    /\ pc[c] = "idle" => rev[c] = "none" /\ got[c] = "none"
    /\ pc[c] \in {"registering", "waiting", "leaving"} => rev[c] = "human"
    /\ pc[c] = "reviewing" => rev[c] # "human"
    /\ pc[c] \in {"deciding", "leaving"} => got[c] # "none"
    /\ pc[c] = "tracking" => got[c] = "approve"

\* An approval is somewhere between its request and the tool.
ApprovalInv ==
  \A c \in Calls :
    /\ ch[c] = "approve" => Approved(c)
    /\ rev[c] = "human" /\ got[c] = "approve" => Approved(c)
    /\ c \in ran => pc[c] # "idle" /\ (rev[c] = "human" => Approved(c))

\* What a request under way knows of its call.
RequestInv ==
  \A q \in Requests :
    /\ req[q].pc = "found" => req[q].call \in Calls /\ req[q].verb \in Verdicts
    /\ req[q].pc = "updated" => /\ req[q].call \in Calls
                                /\ req[q].verb = "dismiss"
                                /\ row[req[q].call].status \notin {"none", "pending"}
    /\ req[q].pc \in {"found", "ok"} /\ req[q].verb \in Verdicts
       => \A c \in Calls : req[q].call = c =>
            pc[c] \notin {"idle", "inserting", "registering", "reviewing"}

\* A row exists once its call is past the insert, not before.
RowInv ==
  \A c \in Calls :
    /\ pc[c] \in {"idle", "inserting"} => row[c].status = "none"
    /\ c \in pending => /\ rev[c] = "human"
                        /\ pc[c] \in {"waiting", "deciding", "leaving"}

\* The inductive invariant of the gate.
GateInv ==
  /\ TypeOK
  /\ ReviewerInv
  /\ ApprovalInv
  /\ RequestInv
  /\ RowInv
  /\ FirstAckWins
  /\ WaiterAnswerable

\* With no write lost the rows tell the truth as well.
RecordInv ==
  /\ DecidedRowStands
  /\ PendingRowHasGoroutine
  /\ \A c \in Calls : pc[c] \in {"inserting", "registering", "waiting"} => got[c] = "none"

-----------------------------------------------------------------------------
(* Type correctness.                                                       *)

\* The queue without one of its entries is a queue.
LEMMA RemoveAtType ==
  ASSUME NEW S, NEW s \in Seq(S), NEW i \in 1..Len(s)
  PROVE  RemoveAt(s, i) \in Seq(S)
  BY DEF RemoveAt

\* The requests of TypeOK.
RequestRecords ==
  [Requests -> [pc : {"idle", "found", "updated", "ok", "refused", "dead"},
                call : Calls \cup {NoCall},
                verb : Verdicts \cup {"dismiss", "none"}]]

\* An answer leaves the requests well-formed.
LEMMA ReplyType ==
  ASSUME NEW f \in RequestRecords, NEW q \in Requests,
         NEW answer \in {"idle", "found", "updated", "ok", "refused", "dead"}
  PROVE  [f EXCEPT ![q].pc = answer] \in RequestRecords
  BY DEF RequestRecords

\* And so is the reply to a request.
LEMMA ReplyTyped ==
  ASSUME req \in RequestRecords, NEW q \in Requests,
         NEW answer \in {"idle", "found", "updated", "ok", "refused", "dead"},
         Reply(q, answer)
  PROVE  req' \in RequestRecords
  BY ReplyType DEF Reply

\* Every variable keeps its type in every step.
LEMMA TypeStep == TypeOK /\ RequestInv /\ [Next]_vars => TypeOK'
<1> SUFFICES ASSUME TypeOK, RequestInv, [Next]_vars PROVE TypeOK'
  OBVIOUS
<1> USE HitlAssumption DEF TypeOK, callVars, Verdicts, Reasons, ActivePcs

<1>1. ASSUME NEW c \in Calls, Intercept(c) PROVE TypeOK'
  <2>1. CASE NeedsApproval(c)
    <3>1. runtime \in Reviewers
      BY <2>1 DEF NeedsApproval
    <3>2. rev' \in [Calls -> Reviewers \cup {"none"}]
      BY <1>1, <2>1, <3>1 DEF Intercept
    <3> QED
      BY <1>1, <2>1, <3>2 DEF Intercept
  <2>2. CASE ~NeedsApproval(c)
    BY <1>1, <2>2 DEF Intercept
  <2> QED
    BY <2>1, <2>2

<1>2. ASSUME NEW c \in Calls, InsertRow(c) PROVE TypeOK'
  BY <1>2 DEF InsertRow

<1>3. ASSUME NEW c \in Calls, InsertFails(c) PROVE TypeOK'
  BY <1>3 DEF InsertFails

<1>4. ASSUME NEW c \in Calls, Register(c) PROVE TypeOK'
  BY <1>4 DEF Register

<1>5. ASSUME NEW c \in Calls, TakeDecision(c) PROVE TypeOK'
  BY <1>5 DEF TakeDecision, WaitEnds

<1>6. ASSUME NEW c \in Calls, TimesOut(c) PROVE TypeOK'
  BY <1>6 DEF TimesOut, WaitEnds

<1>7. ASSUME NEW c \in Calls, SeesCancel(c) PROVE TypeOK'
  BY <1>7 DEF SeesCancel, WaitEnds

<1>8. ASSUME NEW c \in Calls, NEW v \in Verdicts, AuditReview(c, v) PROVE TypeOK'
  BY <1>8 DEF AuditReview

<1>9. ASSUME NEW c \in Calls, WriteDecision(c) PROVE TypeOK'
  BY <1>9 DEF WriteDecision, DecidedRow, DecisionOf, AfterWait, Verdicts

<1>10. ASSUME NEW c \in Calls, LeaveWait(c) PROVE TypeOK'
  BY <1>10 DEF LeaveWait, AfterWait, DecisionOf

<1>11. ASSUME NEW c \in Calls, TrackAndRun(c) PROVE TypeOK'
  BY <1>11 DEF TrackAndRun

<1>12. ASSUME NEW c \in Calls, ToolResult(c) PROVE TypeOK'
  <2>1. CASE UNCHANGED <<approvedExec, exec>>
    BY <1>12, <2>1 DEF ToolResult
  <2>2. ASSUME NEW i \in 1..Len(approvedExec),
               approvedExec' = RemoveAt(approvedExec, i),
               exec' \in {exec, [exec EXCEPT ![approvedExec[i]] = c]}
        PROVE  TypeOK'
    <3>1. approvedExec' \in Seq(Calls)
      BY <2>2, RemoveAtType
    <3>2. exec' \in [Calls -> Calls \cup {NoCall}]
      BY <2>2
    <3> QED
      BY <1>12, <3>1, <3>2 DEF ToolResult
  <2> QED
    BY <1>12, <2>1, <2>2 DEF ToolResult

<1>13. ASSUME NEW c \in Calls, ToolCtxEnds(c) PROVE TypeOK'
  BY <1>13 DEF ToolCtxEnds

<1>14. ASSUME NEW q \in Requests, NEW c \in Calls, NEW v \in Verdicts, ResolveLookup(q, c, v) PROVE TypeOK'
  BY <1>14 DEF ResolveLookup

<1>15. ASSUME NEW q \in Requests, ResolveSend(q) PROVE TypeOK'
  <2>1. req[q].call \in Calls /\ req[q].verb \in Verdicts
    BY <1>15 DEF ResolveSend, RequestInv
  <2>2. \/ ch' = ch /\ Reply(q, "refused")
        \/ ch' = [ch EXCEPT ![req[q].call] = req[q].verb] /\ Reply(q, "ok")
    BY <1>15, Zenon DEF ResolveSend
  <2>3. req' \in RequestRecords
    BY <2>2, ReplyTyped DEF RequestRecords
  <2>4. ch' \in [Calls -> Verdicts \cup {"none"}]
    BY <2>1, <2>2
  <2> QED
    BY <1>15, <2>3, <2>4 DEF ResolveSend, RequestRecords

<1>16. ASSUME NEW q \in Requests, NEW c \in Calls, DismissUpdate(q, c) PROVE TypeOK'
  BY <1>16 DEF DismissUpdate, PendingRow

<1>17. ASSUME NEW q \in Requests, DismissDrain(q) PROVE TypeOK'
  <2>1. req' \in RequestRecords
    BY <1>17, ReplyType DEF DismissDrain, Reply, RequestRecords
  <2>2. ch' \in [Calls -> Verdicts \cup {"none"}] /\ pending' \subseteq Calls
    BY <1>17 DEF DismissDrain
  <2> QED
    BY <1>17, <2>1, <2>2 DEF DismissDrain, RequestRecords

<1>18. ASSUME NEW r \in Reviewers, ActivateConversation(r) PROVE TypeOK'
  BY <1>18 DEF ActivateConversation

<1>19. ASSUME ActivateStored PROVE TypeOK'
  BY <1>19 DEF ActivateStored, ActivateConversation

<1>20. ASSUME DeactivateConversation PROVE TypeOK'
  BY <1>20 DEF DeactivateConversation, ActivateConversation

<1>21. ASSUME NEW cfg \in [enabled : BOOLEAN, reviewer : Reviewers], UpsertConfig(cfg) PROVE TypeOK'
  BY <1>21 DEF UpsertConfig

<1>22. ASSUME CancelRun PROVE TypeOK'
  BY <1>22 DEF CancelRun

<1>23. ASSUME Restart PROVE TypeOK'
  <2>1. row' \in [Calls ->
          [status : {"none", "pending", "decided", "timeout", "cancelled"},
           decision : Verdicts \cup {"none"},
           by : Reviewers \cup {"system", "none"}]]
    BY <1>23 DEF Restart, PendingRow
  <2>2. req' \in RequestRecords
    <3>1. \A q \in Requests : req'[q] \in {req[q], [req EXCEPT ![q].pc = "dead"][q]}
      BY <1>23 DEF Restart
    <3>2. \A q \in Requests : [req EXCEPT ![q].pc = "dead"] \in RequestRecords
      BY ReplyType DEF RequestRecords
    <3>3. req' = [q \in Requests |-> req'[q]]
      BY <1>23 DEF Restart
    <3> QED
      BY <3>1, <3>2, <3>3 DEF RequestRecords
  <2>3. pc' \in [Calls -> ActivePcs \cup {"idle", "done", "dead"}]
    BY <1>23 DEF Restart
  <2> QED
    BY <1>23, <2>1, <2>2, <2>3 DEF Restart, RequestRecords

<1>24. CASE UNCHANGED vars
  BY <1>24 DEF vars

<1> QED
  BY <1>1, <1>2, <1>3, <1>4, <1>5, <1>6, <1>7, <1>8, <1>9, <1>10, <1>11, <1>12, <1>13, <1>14, <1>15, <1>16, <1>17, <1>18, <1>19, <1>20, <1>21, <1>22, <1>23, <1>24
     DEF Next, CallStep, RequestStep

-----------------------------------------------------------------------------
(* The inductive invariant, one lemma per conjunct.                        *)

\* What is outside the goroutines of the calls.
OutsideStep ==
  \/ \E r \in Reviewers : ActivateConversation(r)
  \/ ActivateStored
  \/ DeactivateConversation
  \/ \E cfg \in [enabled : BOOLEAN, reviewer : Reviewers] : UpsertConfig(cfg)
  \/ CancelRun
  \/ \E c \in Calls : ToolCtxEnds(c)

\* The steps of Next, one kind at a time.
LEMMA NextCases ==
  ASSUME [Next]_vars
  PROVE  \/ \E c \in Calls : CallStep(c)
         \/ \E q \in Requests : RequestStep(q)
         \/ OutsideStep
         \/ Restart
         \/ UNCHANGED vars
  BY DEF Next, OutsideStep

\* The configuration and the contexts are all that the outside steps change.
LEMMA OutsideFrame ==
  ASSUME OutsideStep
  PROVE  UNCHANGED <<row, pending, ch, pc, rev, got, approvedExec, exec, ran, req>>
  BY DEF OutsideStep, ActivateConversation, ActivateStored, UpsertConfig,
         DeactivateConversation, CancelRun, ToolCtxEnds, callVars

\* HTTP requests leave the goroutines where they are.
LEMMA RequestFrame ==
  ASSUME NEW q \in Requests, RequestStep(q)
  PROVE  UNCHANGED <<pc, rev, got, ran>>
  BY DEF RequestStep, ResolveLookup, ResolveSend, DismissUpdate, DismissDrain,
         callVars

\* Goroutines leave the requests where they are.
LEMMA CallFrame ==
  ASSUME NEW c \in Calls, CallStep(c)
  PROVE  UNCHANGED req
  BY DEF CallStep, Intercept, InsertRow, InsertFails, Register, TakeDecision,
         TimesOut, SeesCancel, WaitEnds, AuditReview, WriteDecision, LeaveWait,
         TrackAndRun, ToolResult

\* The step of one goroutine moves that one alone.
LEMMA CallMovesOne ==
  ASSUME TypeOK, NEW c \in Calls, CallStep(c), NEW d \in Calls, d # c
  PROVE  /\ pc'[d] = pc[d] /\ rev'[d] = rev[d] /\ got'[d] = got[d]
         /\ ch'[d] = ch[d] /\ row'[d] = row[d]
         /\ (d \in pending' <=> d \in pending) /\ (d \in ran' <=> d \in ran)
<1> USE DEF TypeOK
<1>1. CASE Intercept(c) \/ InsertRow(c) \/ InsertFails(c) \/ Register(c)
  BY <1>1 DEF Intercept, InsertRow, InsertFails, Register
<1>2. CASE TakeDecision(c) \/ TimesOut(c) \/ SeesCancel(c)
  BY <1>2 DEF TakeDecision, TimesOut, SeesCancel, WaitEnds
<1>3. CASE \E v \in Verdicts : AuditReview(c, v)
  BY <1>3 DEF AuditReview
<1>4. CASE WriteDecision(c) \/ LeaveWait(c) \/ TrackAndRun(c) \/ ToolResult(c)
  BY <1>4 DEF WriteDecision, LeaveWait, TrackAndRun, ToolResult
<1> QED
  BY <1>1, <1>2, <1>3, <1>4 DEF CallStep

\* An answered request is not answered again.
LEMMA AnswerStands ==
  ASSUME TypeOK, [Next]_vars, NEW q \in Requests, req[q].pc = "ok"
  PROVE  req'[q] = req[q]
<1>1. CASE \E p \in Requests : RequestStep(p)
  BY <1>1 DEF RequestStep, ResolveLookup, ResolveSend, DismissUpdate,
              DismissDrain, Reply, TypeOK
<1>2. CASE Restart
  BY <1>2 DEF Restart
<1> QED
  BY <1>1, <1>2, NextCases, CallFrame, OutsideFrame DEF vars

\* An approval that was accepted stays accepted.
LEMMA ApprovedStands ==
  ASSUME TypeOK, [Next]_vars, NEW c \in Calls, Approved(c)
  PROVE  Approved(c)'
  BY AnswerStands DEF Approved, AckedDecision

\* The reviewer read at the gate decides the path of the call.
LEMMA ReviewerStep ==
  ASSUME TypeOK, ReviewerInv, RequestInv, ApprovalInv, [Next]_vars
  PROVE  ReviewerInv'
<1>1. ASSUME NEW c \in Calls, CallStep(c) PROVE ReviewerInv'
  <2> SUFFICES
        /\ pc'[c] = "idle" => rev'[c] = "none" /\ got'[c] = "none"
        /\ pc'[c] \in {"registering", "waiting", "leaving"} => rev'[c] = "human"
        /\ pc'[c] = "reviewing" => rev'[c] # "human"
        /\ pc'[c] \in {"deciding", "leaving"} => got'[c] # "none"
        /\ pc'[c] = "tracking" => got'[c] = "approve"
    BY <1>1, CallMovesOne, ZenonT(30) DEF ReviewerInv
  <2> USE DEF ReviewerInv, TypeOK
  <2>1. CASE Intercept(c) \/ InsertRow(c) \/ InsertFails(c) \/ Register(c)
    BY <2>1 DEF Intercept, InsertRow, InsertFails, Register
  <2>2. CASE TakeDecision(c) \/ TimesOut(c) \/ SeesCancel(c)
    BY <2>2 DEF TakeDecision, TimesOut, SeesCancel, WaitEnds
  <2>3. CASE \E v \in Verdicts : AuditReview(c, v)
    BY <2>3 DEF AuditReview, Verdicts
  <2>4. CASE WriteDecision(c) \/ LeaveWait(c)
    BY <2>4 DEF WriteDecision, LeaveWait, AfterWait, DecisionOf, Verdicts
  <2>5. CASE TrackAndRun(c) \/ ToolResult(c)
    BY <2>5 DEF TrackAndRun, ToolResult
  <2> QED
    BY <1>1, <2>1, <2>2, <2>3, <2>4, <2>5 DEF CallStep
<1>2. CASE \E q \in Requests : RequestStep(q)
  BY <1>2, RequestFrame DEF ReviewerInv
<1>3. CASE Restart
  BY <1>3 DEF Restart, ReviewerInv, TypeOK
<1> QED
  BY <1>1, <1>2, <1>3, NextCases, OutsideFrame DEF ReviewerInv, vars

\* An approval reaches the channel, the goroutine and the tool only from an
\* accepted request.
LEMMA ApprovalStep ==
  ASSUME TypeOK, ReviewerInv, RequestInv, ApprovalInv, [Next]_vars
  PROVE  ApprovalInv'
<1>1. ASSUME NEW c \in Calls, CallStep(c) PROVE ApprovalInv'
  <2> SUFFICES
        /\ ch'[c] = "approve" => Approved(c)'
        /\ rev'[c] = "human" /\ got'[c] = "approve" => Approved(c)'
        /\ c \in ran' => pc'[c] # "idle" /\ (rev'[c] = "human" => Approved(c)')
    BY <1>1, CallMovesOne, ApprovedStands DEF ApprovalInv
  <2>0. Approved(c) => Approved(c)'
    BY ApprovedStands
  <2> USE <2>0 DEF ReviewerInv, ApprovalInv, TypeOK
  <2>1. CASE Intercept(c)
    BY <2>1 DEF Intercept
  <2>2. CASE InsertRow(c) \/ InsertFails(c) \/ Register(c)
    BY <2>2 DEF InsertRow, InsertFails, Register
  <2>3. CASE TakeDecision(c) \/ TimesOut(c) \/ SeesCancel(c)
    BY <2>3 DEF TakeDecision, TimesOut, SeesCancel, WaitEnds
  <2>4. CASE \E v \in Verdicts : AuditReview(c, v)
    BY <2>4 DEF AuditReview
  <2>5. CASE WriteDecision(c) \/ LeaveWait(c)
    BY <2>5 DEF WriteDecision, LeaveWait, AfterWait
  <2>6. CASE TrackAndRun(c) \/ ToolResult(c)
    BY <2>6 DEF TrackAndRun, ToolResult
  <2> QED
    BY <1>1, <2>1, <2>2, <2>3, <2>4, <2>5, <2>6 DEF CallStep
<1>2. ASSUME NEW q \in Requests, RequestStep(q) PROVE ApprovalInv'
  <2> SUFFICES ASSUME NEW c \in Calls, ch'[c] = "approve", ch[c] # "approve"
               PROVE  Approved(c)'
    BY <1>2, RequestFrame, ApprovedStands DEF ApprovalInv
  <2>1. ResolveSend(q)
    BY <1>2 DEF RequestStep, ResolveLookup, DismissUpdate, DismissDrain, TypeOK
  <2>2. req[q].call = c /\ req[q].verb = "approve" /\ Reply(q, "ok")
    BY <2>1 DEF ResolveSend, RequestInv, TypeOK
  <2> QED
    BY <2>2 DEF Approved, AckedDecision, Reply, TypeOK, Verdicts
<1>3. CASE Restart
  BY <1>3, ApprovedStands DEF Restart, ApprovalInv, TypeOK
<1> QED
  BY <1>1, <1>2, <1>3, NextCases, OutsideFrame, ApprovedStands
     DEF ApprovalInv, vars

\* A request under way stays about a call that is past its registration.
LEMMA RequestInvStep ==
  ASSUME TypeOK, ReviewerInv, RequestInv, RowInv, [Next]_vars
  PROVE  RequestInv'
<1>1. ASSUME NEW c \in Calls, CallStep(c) PROVE RequestInv'
  <2>1. row[c].status \notin {"none", "pending"} =>
          row'[c].status \notin {"none", "pending"}
    <3> USE DEF TypeOK
    <3>1. CASE InsertRow(c)
      BY <3>1 DEF InsertRow, RowInv
    <3>2. CASE WriteDecision(c)
      <4>1. got[c] \in Reasons
        BY <3>2 DEF WriteDecision, ReviewerInv
      <4>2. DecidedRow(c).status \notin {"none", "pending"}
        BY <4>1 DEF DecidedRow, Reasons, Verdicts
      <4> QED
        BY <3>2, <4>2 DEF WriteDecision
    <3> QED
      BY <1>1, <3>1, <3>2
         DEF CallStep, Intercept, InsertFails, Register, TakeDecision, TimesOut,
             SeesCancel, WaitEnds, AuditReview, LeaveWait, TrackAndRun, ToolResult
  <2>2. pc[c] \notin {"idle", "inserting", "registering", "reviewing"} =>
          pc'[c] \notin {"idle", "inserting", "registering", "reviewing"}
    BY <1>1 DEF CallStep, Intercept, InsertRow, InsertFails, Register,
                TakeDecision, TimesOut, SeesCancel, WaitEnds, AuditReview,
                WriteDecision, LeaveWait, TrackAndRun, ToolResult, AfterWait,
                TypeOK
  <2> QED
    BY <1>1, <2>1, <2>2, CallFrame, CallMovesOne DEF RequestInv
<1>2. ASSUME NEW q \in Requests, RequestStep(q) PROVE RequestInv'
  <2> USE DEF TypeOK, RequestInv
  <2>1. ASSUME NEW c \in Calls, NEW v \in Verdicts, ResolveLookup(q, c, v)
        PROVE  RequestInv'
    <3>1. \A p \in Requests : p # q => req'[p] = req[p]
      BY <2>1 DEF ResolveLookup
    <3>2. /\ req'[q].call = c /\ req'[q].verb = v
          /\ req'[q].pc = "found" \/ req'[q].pc = "refused"
          /\ req'[q].pc = "found" => c \in pending
      BY <2>1 DEF ResolveLookup
    <3>3. UNCHANGED <<row, pc>>
      BY <2>1 DEF ResolveLookup, callVars
    <3> QED
      BY <3>1, <3>2, <3>3 DEF RowInv
  <2>2. CASE ResolveSend(q)
    <3>1. \A p \in Requests : p # q => req'[p] = req[p]
      BY <2>2 DEF ResolveSend, Reply
    <3>2. /\ req[q].pc = "found"
          /\ req'[q].call = req[q].call /\ req'[q].verb = req[q].verb
          /\ req'[q].pc = "ok" \/ req'[q].pc = "refused"
      BY <2>2 DEF ResolveSend, Reply
    <3>3. UNCHANGED <<row, pc>>
      BY <2>2 DEF ResolveSend, callVars
    <3> QED
      BY <3>1, <3>2, <3>3
  <2>3. ASSUME NEW c \in Calls, DismissUpdate(q, c) PROVE RequestInv'
    BY <2>3 DEF DismissUpdate, PendingRow, callVars, Verdicts
  <2>4. CASE DismissDrain(q)
    BY <2>4 DEF DismissDrain, Reply, callVars, Verdicts
  <2> QED
    BY <1>2, <2>1, <2>2, <2>3, <2>4 DEF RequestStep
<1>3. CASE Restart
  BY <1>3 DEF Restart, RequestInv, TypeOK
<1> QED
  BY <1>1, <1>2, <1>3, NextCases, OutsideFrame DEF RequestInv, vars

\* A row is written only past the insert, and the map lists only human waits.
LEMMA RowStep ==
  ASSUME TypeOK, ReviewerInv, RequestInv, RowInv, [Next]_vars
  PROVE  RowInv'
<1>1. ASSUME NEW c \in Calls, CallStep(c) PROVE RowInv'
  <2> SUFFICES
        /\ pc'[c] \in {"idle", "inserting"} => row'[c].status = "none"
        /\ c \in pending' => /\ rev'[c] = "human"
                             /\ pc'[c] \in {"waiting", "deciding", "leaving"}
    <3>1. ASSUME NEW d \in Calls, d # c
          PROVE  /\ pc'[d] \in {"idle", "inserting"} => row'[d].status = "none"
                 /\ d \in pending' =>
                      /\ rev'[d] = "human"
                      /\ pc'[d] \in {"waiting", "deciding", "leaving"}
      BY <1>1, <3>1, CallMovesOne DEF RowInv
    <3> QED
      BY <3>1 DEF RowInv
  <2> USE DEF RowInv, ReviewerInv, TypeOK
  <2>1. CASE Intercept(c) \/ InsertRow(c) \/ InsertFails(c) \/ Register(c)
    BY <2>1 DEF Intercept, InsertRow, InsertFails, Register
  <2>2. CASE TakeDecision(c) \/ TimesOut(c) \/ SeesCancel(c)
    BY <2>2 DEF TakeDecision, TimesOut, SeesCancel, WaitEnds
  <2>3. CASE \E v \in Verdicts : AuditReview(c, v)
    BY <2>3 DEF AuditReview
  <2>4. CASE WriteDecision(c) \/ LeaveWait(c)
    BY <2>4 DEF WriteDecision, LeaveWait, AfterWait
  <2>5. CASE TrackAndRun(c) \/ ToolResult(c)
    BY <2>5 DEF TrackAndRun, ToolResult
  <2> QED
    BY <1>1, <2>1, <2>2, <2>3, <2>4, <2>5 DEF CallStep
<1>2. ASSUME NEW q \in Requests, RequestStep(q) PROVE RowInv'
  <2>1. pending' \subseteq pending
    BY <1>2 DEF RequestStep, ResolveLookup, ResolveSend, DismissUpdate,
                DismissDrain
  <2>2. \A c \in Calls : row[c].status = "none" => row'[c] = row[c]
    BY <1>2 DEF RequestStep, ResolveLookup, ResolveSend, DismissUpdate,
                DismissDrain, PendingRow, TypeOK
  <2> QED
    BY <1>2, <2>1, <2>2, RequestFrame DEF RowInv
<1>3. CASE Restart
  BY <1>3 DEF Restart, RowInv, PendingRow, Active, ActivePcs, TypeOK
<1> QED
  BY <1>1, <1>2, <1>3, NextCases, OutsideFrame DEF RowInv, vars

\* No later request replaces the first accepted decision.
LEMMA FirstAckStep ==
  ASSUME TypeOK, RequestInv, FirstAckWins, [Next]_vars
  PROVE  FirstAckWins'
<1> SUFFICES ASSUME NEW c \in Calls, NEW q \in Requests,
                    pc'[c] = "waiting", AckedDecision(q, c)'
             PROVE  ch'[c] = req'[q].verb
  BY DEF FirstAckWins
<1>1. ASSUME NEW d \in Calls, CallStep(d) PROVE ch'[c] = req'[q].verb
  <2>1. AckedDecision(q, c)
    BY <1>1, CallFrame DEF AckedDecision
  <2>2. CASE d # c
    BY <1>1, <2>1, <2>2, CallFrame, CallMovesOne DEF FirstAckWins
  <2>3. CASE d = c
    <3>1. pc[c] # "registering"
      BY <2>1 DEF RequestInv, AckedDecision
    <3> QED
      BY <1>1, <2>3, <3>1
         DEF CallStep, Intercept, InsertRow, InsertFails, Register,
             TakeDecision, TimesOut, SeesCancel, WaitEnds, AuditReview,
             WriteDecision, LeaveWait, TrackAndRun, ToolResult, AfterWait, TypeOK
  <2> QED
    BY <2>2, <2>3
<1>2. ASSUME NEW p \in Requests, RequestStep(p) PROVE ch'[c] = req'[q].verb
  <2>1. pc[c] = "waiting"
    BY <1>2, RequestFrame
  <2>2. CASE AckedDecision(q, c)
    <3>1. ch[c] = req[q].verb /\ ch[c] # "none" /\ req'[q] = req[q]
      BY <2>1, <2>2, AnswerStands DEF FirstAckWins, AckedDecision, Verdicts
    <3>2. ch'[c] = ch[c]
      BY <1>2, <3>1 DEF RequestStep, ResolveLookup, ResolveSend, DismissUpdate,
                        DismissDrain, TypeOK
    <3> QED
      BY <3>1, <3>2
  <2>3. CASE ~AckedDecision(q, c)
    <3>1. req'[q] # req[q] /\ req'[q].pc = "ok" /\ req'[q].call = c
          /\ req'[q].verb \in Verdicts
      BY <2>3 DEF AckedDecision
    <3>2. p = q
      BY <1>2, <3>1 DEF RequestStep, ResolveLookup, ResolveSend, DismissUpdate,
                        DismissDrain, Reply, TypeOK
    <3>3. \A d \in Calls : /\ ~DismissUpdate(q, d)
                           /\ \A v \in Verdicts : ~ResolveLookup(q, d, v)
      BY <3>1 DEF DismissUpdate, ResolveLookup, TypeOK
    <3>4. ~DismissDrain(q)
      BY <3>1 DEF DismissDrain, Reply, RequestInv, TypeOK, Verdicts
    <3>5. ResolveSend(q)
      BY <1>2, <3>2, <3>3, <3>4 DEF RequestStep
    <3>6. req'[q].call = req[q].call /\ req'[q].verb = req[q].verb
      BY <3>5 DEF ResolveSend, Reply, TypeOK
    <3>7. ch' = [ch EXCEPT ![req[q].call] = req[q].verb]
      BY <3>1, <3>5 DEF ResolveSend, Reply, TypeOK
    <3> QED
      BY <3>1, <3>6, <3>7 DEF TypeOK
  <2> QED
    BY <2>2, <2>3
<1>3. CASE Restart
  BY <1>3 DEF Restart, Active, ActivePcs, TypeOK
<1> QED
  BY <1>1, <1>2, <1>3, NextCases, OutsideFrame
     DEF FirstAckWins, AckedDecision, vars

\* A waiting goroutine leaves the map only with an answer in its channel.
LEMMA AnswerableStep ==
  ASSUME TypeOK, RequestInv, RowInv, WaiterAnswerable, [Next]_vars
  PROVE  WaiterAnswerable'
<1> SUFFICES ASSUME NEW c \in Calls, pc'[c] = "waiting"
             PROVE  /\ c \in pending' \/ ch'[c] # "none"
                    /\ row'[c].status = "pending" => c \in pending'
  BY DEF WaiterAnswerable, PendingRow
<1> USE DEF WaiterAnswerable, PendingRow, TypeOK
<1>1. ASSUME NEW d \in Calls, CallStep(d), d # c
      PROVE  /\ c \in pending' \/ ch'[c] # "none"
             /\ row'[c].status = "pending" => c \in pending'
  BY <1>1, CallMovesOne
<1>2. CASE CallStep(c)
  BY <1>2 DEF CallStep, Intercept, InsertRow, InsertFails, Register,
              TakeDecision, TimesOut, SeesCancel, WaitEnds, AuditReview,
              WriteDecision, LeaveWait, TrackAndRun, ToolResult, AfterWait
<1>3. ASSUME NEW q \in Requests, RequestStep(q)
      PROVE  /\ c \in pending' \/ ch'[c] # "none"
             /\ row'[c].status = "pending" => c \in pending'
  <2>1. pc[c] = "waiting"
    BY <1>3, RequestFrame
  <2>2. ASSUME NEW d \in Calls, NEW v \in Verdicts, ResolveLookup(q, d, v)
        PROVE  UNCHANGED <<pending, ch, row>>
    BY <2>2 DEF ResolveLookup
  <2>3. CASE ResolveSend(q)
    BY <2>1, <2>3 DEF ResolveSend, RequestInv, Verdicts
  <2>4. ASSUME NEW d \in Calls, DismissUpdate(q, d)
        PROVE  /\ UNCHANGED <<pending, ch>>
               /\ row'[c].status = "pending" => row[c].status = "pending"
    BY <2>4 DEF DismissUpdate
  <2>5. CASE DismissDrain(q)
    <3>1. CASE req[q].call \in pending
      BY ZenonT(40), <2>1, <2>5, <3>1 DEF DismissDrain, RequestInv
    <3>2. CASE req[q].call \notin pending
      BY <2>1, <2>5, <3>2, Zenon DEF DismissDrain
    <3> QED
      BY <3>1, <3>2
  <2> QED
    BY <1>3, <2>1, <2>2, <2>3, <2>4, <2>5 DEF RequestStep
<1>4. CASE Restart
  BY <1>4 DEF Restart, Active, ActivePcs
<1> QED
  BY <1>1, <1>2, <1>3, <1>4, NextCases, OutsideFrame DEF vars

-----------------------------------------------------------------------------
(* The theorems.                                                           *)

\* The gate's invariant is established by the initial state and kept by every
\* step, for any numbers of calls, requests and restarts.
THEOREM GateInvariant == Spec => []GateInv
<1>1. Init => GateInv
  BY HitlAssumption
     DEF Init, GateInv, TypeOK, ReviewerInv, ApprovalInv, RequestInv, RowInv,
         FirstAckWins, WaiterAnswerable, AckedDecision, PendingRow, NoRow, NoReq
<1>2. GateInv /\ [Next]_vars => GateInv'
  BY TypeStep, ReviewerStep, ApprovalStep, RequestInvStep, RowStep,
     FirstAckStep, AnswerableStep DEF GateInv
<1> QED
  BY <1>1, <1>2, PTL DEF Spec

\* TypeOK holds in every behaviour; the channel holds verdicts only because a
\* request under way was one (RequestInv).
THEOREM TypeCorrect == Spec => []TypeOK
  BY GateInvariant, PTL DEF GateInv

\* A call given to a human runs its tool only after a request approving that
\* very call was accepted.
THEOREM ApprovalGate == Spec => []NoUnapprovedRun
<1>1. GateInv => NoUnapprovedRun
  BY DEF GateInv, TypeOK, ApprovalInv, Approved, NoUnapprovedRun
<1> QED
  BY <1>1, GateInvariant, PTL

\* While the goroutine waits, the first accepted decision is the one it gets.
THEOREM FirstAcknowledgedDecision == Spec => []FirstAckWins
  BY GateInvariant, PTL DEF GateInv

\* No waiting goroutine is out of reach of an answer.
THEOREM WaitersStayAnswerable == Spec => []WaiterAnswerable
  BY GateInvariant, PTL DEF GateInv

-----------------------------------------------------------------------------
(* The rows.                                                               *)

\* The row an outcome leaves is not pending: dismissals and restarts pass it by.
LEMMA DecidedRowStatus ==
  ASSUME TypeOK, NEW c \in Calls, got[c] # "none"
  PROVE  DecidedRow(c).status \notin {"none", "pending"}
<1>1. got[c] \in Reasons
  BY DEF TypeOK
<1> QED
  BY <1>1 DEF DecidedRow, Reasons, Verdicts

\* The rows of decided and of pending calls through the step of one goroutine.
LEMMA RecordCallStep ==
  ASSUME GateInv, RecordInv, NEW c \in Calls, CallStep(c)
  PROVE  RecordInv'
<1> SUFFICES
      /\ ~LostWrites =>
           /\ got'[c] # "none" /\ pc'[c] \in {"leaving", "tracking", "executing",
                                            "rejected", "failed", "done"}
              => row'[c] = DecidedRow(c)'
           /\ row'[c].status = "pending" =>
                pc'[c] \in {"registering", "waiting", "reviewing", "deciding"}
      /\ pc'[c] \in {"inserting", "registering", "waiting"} => got'[c] = "none"
  <2>1. ASSUME NEW d \in Calls, d # c
        PROVE  /\ pc'[d] = pc[d] /\ got'[d] = got[d] /\ row'[d] = row[d]
               /\ DecidedRow(d)' = DecidedRow(d)
    BY <2>1, CallMovesOne DEF GateInv, DecidedRow
  <2> QED
    BY <2>1 DEF RecordInv, DecidedRowStands, PendingRowHasGoroutine, PendingRow
<1> USE DEF GateInv, TypeOK, ReviewerInv, RowInv, RecordInv, DecidedRowStands,
            PendingRowHasGoroutine, PendingRow
<1>1. CASE Intercept(c) \/ InsertRow(c) \/ InsertFails(c) \/ Register(c)
  BY <1>1 DEF Intercept, InsertRow, InsertFails, Register
<1>2. CASE TakeDecision(c) \/ TimesOut(c) \/ SeesCancel(c)
  BY <1>2 DEF TakeDecision, TimesOut, SeesCancel, WaitEnds
<1>3. CASE \E v \in Verdicts : AuditReview(c, v)
  BY <1>3 DEF AuditReview
<1>4. CASE WriteDecision(c)
  <2>1. DecidedRow(c)' = DecidedRow(c)
    BY <1>4 DEF WriteDecision, DecidedRow
  <2>2. DecidedRow(c).status # "pending"
    BY <1>4, DecidedRowStatus DEF WriteDecision
  <2>3. ~LostWrites => row'[c] = DecidedRow(c)
    BY <1>4 DEF WriteDecision
  <2>4. pc'[c] \notin {"inserting", "registering", "waiting"}
    BY <1>4 DEF WriteDecision, AfterWait
  <2> QED
    BY <2>1, <2>2, <2>3, <2>4
<1>5. CASE LeaveWait(c) \/ TrackAndRun(c) \/ ToolResult(c)
  <2>1. /\ DecidedRow(c)' = DecidedRow(c) /\ UNCHANGED <<row, got>>
        /\ pc[c] \in {"leaving", "tracking", "executing", "rejected", "failed"}
    BY <1>5 DEF LeaveWait, TrackAndRun, ToolResult, DecidedRow
  <2>2. pc'[c] \notin {"inserting", "registering", "waiting"}
    BY <1>5 DEF LeaveWait, TrackAndRun, ToolResult, AfterWait
  <2> QED
    BY <2>1, <2>2
<1> QED
  BY <1>1, <1>2, <1>3, <1>4, <1>5 DEF CallStep

\* The rows through every step.
LEMMA RecordStep ==
  ASSUME GateInv, RecordInv, [Next]_vars
  PROVE  RecordInv'
<1>1. ASSUME NEW q \in Requests, RequestStep(q) PROVE RecordInv'
  <2>1. UNCHANGED <<pc, rev, got>> /\ \A c \in Calls : DecidedRow(c)' = DecidedRow(c)
    BY <1>1, RequestFrame DEF DecidedRow
  <2>2. \A c \in Calls : \/ row'[c] = row[c]
                         \/ PendingRow(c) /\ row'[c].status = "cancelled"
    BY <1>1 DEF RequestStep, ResolveLookup, ResolveSend, DismissUpdate,
                DismissDrain, PendingRow, GateInv, TypeOK
  <2>3. \A c \in Calls : got[c] # "none" => DecidedRow(c).status # "pending"
    BY DecidedRowStatus DEF GateInv
  <2> QED
    BY <2>1, <2>2, <2>3
       DEF RecordInv, DecidedRowStands, PendingRowHasGoroutine, PendingRow
<1>2. CASE Restart
  <2>1. /\ UNCHANGED <<rev, got>> /\ \A c \in Calls : DecidedRow(c)' = DecidedRow(c)
        /\ \A c \in Calls : pc'[c] = pc[c] \/ pc'[c] = "dead"
    BY <1>2 DEF Restart, DecidedRow, GateInv, TypeOK
  <2>2. ~LostWrites => \A c \in Calls :
          \/ row'[c] = row[c] /\ ~PendingRow(c)
          \/ PendingRow(c) /\ row'[c].status = "cancelled"
    BY <1>2 DEF Restart, PendingRow, GateInv, TypeOK
  <2>3. \A c \in Calls : got[c] # "none" => DecidedRow(c).status # "pending"
    BY DecidedRowStatus DEF GateInv
  <2> QED
    BY <2>1, <2>2, <2>3
       DEF RecordInv, DecidedRowStands, PendingRowHasGoroutine, PendingRow
<1>3. CASE OutsideStep \/ UNCHANGED vars
  BY <1>3, OutsideFrame
     DEF RecordInv, DecidedRowStands, PendingRowHasGoroutine, PendingRow,
         DecidedRow, vars
<1> QED
  BY <1>1, <1>2, <1>3, NextCases, RecordCallStep

\* Unless a write is lost, rows are right in every behaviour.
LEMMA RecordInvariant == Spec => []RecordInv
<1>1. Init => RecordInv
  BY DEF Init, RecordInv, DecidedRowStands, PendingRowHasGoroutine, PendingRow,
         NoRow
<1> QED
  BY <1>1, RecordStep, GateInvariant, PTL DEF Spec

\* Unless a write is lost, the outcome written for a call stays on its row.
THEOREM DecidedRowsStand == Spec => []DecidedRowStands
  BY RecordInvariant, PTL DEF RecordInv

\* Unless a write is lost, a pending row has a goroutine that will write it.
THEOREM PendingRowsHaveGoroutines == Spec => []PendingRowHasGoroutine
  BY RecordInvariant, PTL DEF RecordInv

-----------------------------------------------------------------------------
(* The queue of approved calls.                                            *)

\* Where a call is before it can be tracked.
Untracked == {"idle", "inserting", "registering", "waiting", "deciding",
              "leaving", "reviewing", "tracking"}

\* A call enters the queue once, when its tool is called, and leaves it with the
\* first result: until then its row has none.
QueueInv ==
  /\ \A i, j \in 1..Len(approvedExec) :
       approvedExec[i] = approvedExec[j] => i = j
  /\ \A i \in 1..Len(approvedExec) :
       /\ approvedExec[i] \in ran
       /\ exec[approvedExec[i]] = NoCall
       /\ pc[approvedExec[i]] \notin Untracked
  /\ \A c \in Calls : pc[c] \in Untracked => exec[c] = NoCall

\* What is left of a sequence without its entry i.
LEMMA RemoveAtEntries ==
  ASSUME NEW S, NEW s \in Seq(S), NEW i \in 1..Len(s)
  PROVE  /\ Len(RemoveAt(s, i)) = Len(s) - 1
         /\ \A k \in 1..(Len(s) - 1) :
              RemoveAt(s, i)[k] = IF k < i THEN s[k] ELSE s[k + 1]
  BY SMTT(30) DEF RemoveAt

\* A step of a call that does not touch queue and results, and that does not
\* bring a call back to where it is untracked.
LEMMA QueueKept ==
  ASSUME TypeOK, QueueInv, UNCHANGED <<approvedExec, exec>>, ran \subseteq ran',
         \A c \in Calls : pc'[c] \in Untracked => pc[c] \in Untracked
  PROVE  QueueInv'
<1>1. \A i \in 1..Len(approvedExec) : approvedExec[i] \in Calls
  BY DEF TypeOK
<1> QED
  BY <1>1 DEF QueueInv

\* TrackAndRun: the call was not in the queue.
LEMMA TrackKeepsQueue ==
  ASSUME TypeOK, QueueInv, NEW c \in Calls, TrackAndRun(c)
  PROVE  QueueInv'
<1> DEFINE n == Len(approvedExec)
<1>1. n \in Nat /\ \A i \in 1..n : approvedExec[i] \in Calls /\ approvedExec[i] # c
  BY DEF TypeOK, QueueInv, TrackAndRun, Untracked
<1>2. /\ Len(approvedExec') = n + 1
      /\ \A i \in 1..(n + 1) :
           approvedExec'[i] = IF i = n + 1 THEN c ELSE approvedExec[i]
  BY DEF TypeOK, TrackAndRun
<1>3. /\ UNCHANGED exec /\ exec[c] = NoCall
      /\ ran' = ran \cup {c}
      /\ \A d \in Calls : pc'[d] = IF d = c THEN "executing" ELSE pc[d]
  BY DEF TypeOK, QueueInv, TrackAndRun, Untracked
<1>4. \A i, j \in 1..(n + 1) : approvedExec'[i] = approvedExec'[j] => i = j
  BY <1>1, <1>2 DEF QueueInv
<1>5. \A i \in 1..(n + 1) : /\ approvedExec'[i] \in ran'
                            /\ exec'[approvedExec'[i]] = NoCall
                            /\ pc'[approvedExec'[i]] \notin Untracked
  <2> SUFFICES ASSUME NEW i \in 1..(n + 1)
               PROVE  /\ approvedExec'[i] \in ran'
                      /\ exec'[approvedExec'[i]] = NoCall
                      /\ pc'[approvedExec'[i]] \notin Untracked
    OBVIOUS
  <2>1. CASE i = n + 1
    BY <1>2, <1>3, <2>1 DEF Untracked
  <2>2. CASE i \in 1..n
    BY <1>1, <1>2, <1>3, <2>2 DEF QueueInv
  <2> QED
    BY <1>1, <2>1, <2>2
<1>6. \A d \in Calls : pc'[d] \in Untracked => exec'[d] = NoCall
  BY <1>3 DEF QueueInv, Untracked
<1> QED
  BY <1>2, <1>4, <1>5, <1>6 DEF QueueInv

\* ToolResult: the entry that is taken has its result, the others have none.
LEMMA ResultKeepsQueue ==
  ASSUME TypeOK, QueueInv, NEW c \in Calls, ToolResult(c)
  PROVE  QueueInv'
<1> DEFINE n == Len(approvedExec)
<1>0. n \in Nat /\ \A i \in 1..n : approvedExec[i] \in Calls
  BY DEF TypeOK
<1>1. /\ UNCHANGED ran
      /\ \A d \in Calls : pc'[d] = IF d = c THEN "done" ELSE pc[d]
  BY DEF TypeOK, ToolResult
<1>2. CASE UNCHANGED <<approvedExec, exec>>
  BY <1>1, <1>2, QueueKept DEF Untracked
<1>3. ASSUME NEW i \in 1..n, approvedExec' = RemoveAt(approvedExec, i),
             exec' = [exec EXCEPT ![approvedExec[i]] = c] \/ UNCHANGED exec
      PROVE  QueueInv'
  <2> DEFINE old(k) == IF k < i THEN k ELSE k + 1
  <2>1. /\ Len(approvedExec') = n - 1
        /\ \A k \in 1..(n - 1) : approvedExec'[k] = approvedExec[old(k)]
    <3>1. approvedExec \in Seq(Calls)
      BY DEF TypeOK
    <3>2. /\ Len(RemoveAt(approvedExec, i)) = n - 1
          /\ \A k \in 1..(n - 1) : RemoveAt(approvedExec, i)[k] =
               IF k < i THEN approvedExec[k] ELSE approvedExec[k + 1]
      BY <3>1, RemoveAtEntries, Zenon
    <3> QED
      BY <1>3, <3>2
  <2>2. /\ \A k \in 1..(n - 1) : old(k) \in 1..n /\ old(k) # i
        /\ \A k, l \in 1..(n - 1) : old(k) = old(l) => k = l
    BY <1>0
  <2>3. \A d \in Calls : d # approvedExec[i] => exec'[d] = exec[d]
    BY <1>3 DEF TypeOK
  <2> HIDE DEF old
  <2>4. ASSUME NEW k \in 1..(n - 1), NEW l \in 1..(n - 1), approvedExec'[k] = approvedExec'[l]
        PROVE  k = l
    <3>1. /\ old(k) \in 1..n /\ old(l) \in 1..n
          /\ approvedExec[old(k)] = approvedExec[old(l)]
      BY <2>1, <2>2, <2>4
    <3>2. old(k) = old(l)
      BY <3>1 DEF QueueInv
    <3> QED
      BY <2>2, <3>2
  <2>5. \A k \in 1..(n - 1) : approvedExec'[k] # approvedExec[i]
    BY <2>1, <2>2 DEF QueueInv
  <2>6. ASSUME NEW k \in 1..(n - 1)
        PROVE  /\ approvedExec'[k] \in ran'
               /\ exec'[approvedExec'[k]] = NoCall
               /\ pc'[approvedExec'[k]] \notin Untracked
    <3>1. old(k) \in 1..n /\ approvedExec'[k] = approvedExec[old(k)]
      BY <2>1, <2>2
    <3>2. /\ approvedExec'[k] \in Calls
          /\ approvedExec'[k] \in ran
          /\ exec[approvedExec'[k]] = NoCall
          /\ pc[approvedExec'[k]] \notin Untracked
      BY <1>0, <3>1 DEF QueueInv
    <3> QED
      BY <1>1, <2>3, <2>5, <3>2 DEF Untracked
  <2>7. ASSUME NEW d \in Calls, pc'[d] \in Untracked
        PROVE  exec'[d] = NoCall
    <3>1. pc[d] \in Untracked /\ exec[d] = NoCall
      BY <1>1, <2>7 DEF QueueInv, Untracked
    <3>2. d # approvedExec[i]
      BY <3>1 DEF QueueInv
    <3> QED
      BY <2>3, <3>1, <3>2
  <2> QED
    BY <2>1, <2>4, <2>6, <2>7 DEF QueueInv
<1> QED
  BY <1>2, <1>3 DEF ToolResult

\* Every step keeps the queue in order.
LEMMA QueueStep ==
  ASSUME TypeOK, QueueInv, [Next]_vars
  PROVE  QueueInv'
<1>1. ASSUME NEW c \in Calls, CallStep(c) PROVE QueueInv'
  <2>1. CASE Intercept(c) \/ InsertRow(c) \/ InsertFails(c) \/ Register(c)
    <3>1. pc[c] \in Untracked /\ UNCHANGED <<approvedExec, exec>> /\ ran \subseteq ran'
      BY <2>1 DEF Intercept, InsertRow, InsertFails, Register, Untracked
    <3> QED
      BY <1>1, <3>1, CallMovesOne, QueueKept
  <2>2. CASE TakeDecision(c) \/ TimesOut(c) \/ SeesCancel(c)
    <3>1. pc[c] \in Untracked /\ UNCHANGED <<approvedExec, exec, ran>>
      BY <2>2 DEF TakeDecision, TimesOut, SeesCancel, WaitEnds, Untracked
    <3> QED
      BY <1>1, <3>1, CallMovesOne, QueueKept
  <2>3. CASE (\E v \in Verdicts : AuditReview(c, v)) \/ WriteDecision(c) \/ LeaveWait(c)
    <3>1. pc[c] \in Untracked /\ UNCHANGED <<approvedExec, exec, ran>>
      BY <2>3 DEF AuditReview, WriteDecision, LeaveWait, Untracked
    <3> QED
      BY <1>1, <3>1, CallMovesOne, QueueKept
  <2> QED
    BY <1>1, <2>1, <2>2, <2>3, TrackKeepsQueue, ResultKeepsQueue DEF CallStep
<1>2. ASSUME NEW q \in Requests, RequestStep(q) PROVE QueueInv'
  <2>1. UNCHANGED <<approvedExec, exec, ran, pc>>
    BY <1>2 DEF RequestStep, ResolveLookup, ResolveSend, DismissUpdate,
                DismissDrain, callVars
  <2> QED
    BY <2>1, QueueKept
<1>3. CASE Restart
  <2>1. /\ approvedExec' = <<>> /\ UNCHANGED <<exec, ran>>
        /\ \A c \in Calls : pc'[c] \in Untracked => pc[c] \in Untracked
    BY <1>3 DEF Restart, Untracked
  <2> QED
    BY <2>1 DEF QueueInv
<1>4. CASE OutsideStep \/ UNCHANGED vars
  BY <1>4, OutsideFrame, QueueKept DEF vars
<1> QED
  BY <1>1, <1>2, <1>3, <1>4, NextCases

\* A result is written to a row only when its entry is taken from the queue.
LEMMA ResultFromQueue ==
  ASSUME TypeOK, QueueInv, [Next]_vars, NEW c \in Calls, exec'[c] # exec[c]
  PROVE  exec[c] = NoCall /\ c \in ran
<1>1. PICK d \in Calls : ToolResult(d)
  <2>1. ASSUME NEW d \in Calls, CallStep(d), ~ToolResult(d) PROVE UNCHANGED exec
    BY <2>1 DEF CallStep, Intercept, InsertRow, InsertFails, Register,
                TakeDecision, TimesOut, SeesCancel, WaitEnds, AuditReview,
                WriteDecision, LeaveWait, TrackAndRun
  <2>2. ASSUME NEW q \in Requests, RequestStep(q) PROVE UNCHANGED exec
    BY <2>2 DEF RequestStep, ResolveLookup, ResolveSend, DismissUpdate,
                DismissDrain
  <2>3. Restart \/ OutsideStep \/ UNCHANGED vars => UNCHANGED exec
    BY OutsideFrame DEF Restart, vars
  <2> QED
    BY <2>1, <2>2, <2>3, NextCases
<1>2. PICK i \in 1..Len(approvedExec) : exec' = [exec EXCEPT ![approvedExec[i]] = d]
  BY <1>1 DEF ToolResult
<1>3. c = approvedExec[i]
  BY <1>2 DEF TypeOK
<1> QED
  BY <1>3 DEF QueueInv

\* However calls of one tool overlap, restart or lose writes: a result is recorded
\* on an interrupt at most once, and only after its tool was called (ToolResult).
THEOREM ResultsRecordedOnce == Spec => ResultRecordedOnce
<1>1. Init => QueueInv
  BY DEF Init, QueueInv
<1>2. TypeOK /\ QueueInv /\ [Next]_vars
      => [\A c \in Calls : exec'[c] # exec[c] => exec[c] = NoCall /\ c \in ran]_vars
  BY ResultFromQueue
<1> QED
  BY <1>1, <1>2, QueueStep, TypeCorrect, PTL DEF Spec, ResultRecordedOnce

-----------------------------------------------------------------------------
(* The gate implements HumanApproval.                                      *)

\* What the stage of a call rests on besides GateInv: nothing has decided it before
\* its wait, and a call is executing only when its tool was called.
PathInv ==
  \A c \in Calls :
    /\ pc[c] \in {"idle", "inserting", "registering", "reviewing"} =>
         ch[c] = "none" /\ got[c] = "none"
    /\ pc[c] = "waiting" => got[c] = "none"
    /\ pc[c] = "executing" => c \in ran

\* The steps of a goroutine keep PathInv.
LEMMA PathCallStep ==
  ASSUME TypeOK, PathInv, NEW c \in Calls, CallStep(c)
  PROVE  PathInv'
<1> SUFFICES /\ pc'[c] \in {"idle", "inserting", "registering", "reviewing"} =>
                  ch'[c] = "none" /\ got'[c] = "none"
             /\ pc'[c] = "waiting" => got'[c] = "none"
             /\ pc'[c] = "executing" => c \in ran'
  BY CallMovesOne, ZenonT(40) DEF PathInv
<1> USE DEF TypeOK, PathInv
<1>1. CASE Intercept(c)
  BY <1>1 DEF Intercept
<1>2. CASE InsertRow(c) \/ InsertFails(c) \/ Register(c)
  BY <1>2 DEF InsertRow, InsertFails, Register
<1>3. CASE TakeDecision(c) \/ TimesOut(c) \/ SeesCancel(c)
  BY <1>3 DEF TakeDecision, TimesOut, SeesCancel, WaitEnds
<1>4. CASE \E v \in Verdicts : AuditReview(c, v)
  BY <1>4 DEF AuditReview
<1>5. CASE WriteDecision(c) \/ LeaveWait(c)
  BY <1>5 DEF WriteDecision, LeaveWait, AfterWait
<1>6. CASE TrackAndRun(c) \/ ToolResult(c)
  BY <1>6 DEF TrackAndRun, ToolResult
<1> QED
  BY <1>1, <1>2, <1>3, <1>4, <1>5, <1>6 DEF CallStep

\* A request fills the channel only of a call that waits, or waited.
LEMMA PathRequestStep ==
  ASSUME GateInv, PathInv, NEW q \in Requests, RequestStep(q)
  PROVE  PathInv'
<1> USE DEF GateInv, TypeOK
<1>1. UNCHANGED <<pc, got, ran>>
  BY RequestFrame
<1>2. ASSUME NEW c \in Calls, ch'[c] # ch[c]
      PROVE  pc[c] \notin {"idle", "inserting", "registering", "reviewing"}
  <2>1. CASE ResolveSend(q)
    BY <1>2, <2>1 DEF ResolveSend, RequestInv
  <2>2. CASE DismissDrain(q)
    BY <1>2, <2>2 DEF DismissDrain, RowInv
  <2>3. CASE \/ \E d \in Calls, v \in Verdicts : ResolveLookup(q, d, v)
             \/ \E d \in Calls : DismissUpdate(q, d)
    BY <1>2, <2>3 DEF ResolveLookup, DismissUpdate
  <2> QED
    BY <2>1, <2>2, <2>3 DEF RequestStep
<1> QED
  BY <1>1, <1>2 DEF PathInv

\* So does every step.
LEMMA PathStep ==
  ASSUME GateInv, PathInv, [Next]_vars
  PROVE  PathInv'
<1>1. CASE Restart
  BY <1>1 DEF Restart, PathInv, GateInv, TypeOK
<1>2. CASE OutsideStep \/ UNCHANGED vars
  BY <1>2, OutsideFrame DEF PathInv, vars
<1> QED
  BY <1>1, <1>2, NextCases, PathCallStep, PathRequestStep DEF GateInv

\* The stages HumanApproval knows, and how one call may go on from one to another.
Onward(old, new) ==
  \/ old = new
  \/ old = "new" /\ new \in {"ran", "asked", "audited"}
  \/ old = "audited" /\ new \in {"approved", "refused"}
  \/ old \in {"asked", "approved"} /\ new = "refused"
  \/ old = "approved" /\ new = "ran"

\* Such a move of one call is a step of HumanApproval.
LEMMA OneGoesOn ==
  ASSUME NEW c \in Calls, Onward(Stage(c), Stage(c)'),
         \A d \in Calls : d # c => Stage(d)' = Stage(d),
         \A d \in Calls : Accepted(d)' = Accepted(d)
  PROVE  [Approval!Next]_<<[d \in Calls |-> Stage(d)], [d \in Calls |-> Accepted(d)]>>
<1> DEFINE stages == [d \in Calls |-> Stage(d)]
           accepted == [d \in Calls |-> Accepted(d)]
<1>1. accepted' = accepted /\ stages' = [stages EXCEPT ![c] = Stage(c)']
  OBVIOUS
<1>2. stages[c] = Stage(c)
  OBVIOUS
<1>3. CASE Stage(c)' = Stage(c)
  <2>1. stages' = stages
    BY <1>3
  <2> QED
    BY <1>1, <2>1
<1>4. CASE Stage(c) = "new" /\ Stage(c)' \in {"ran", "asked", "audited"}
  <2>1. Approval!Enter(c)
    BY <1>1, <1>2, <1>4 DEF Approval!Enter, Approval!Becomes
  <2> QED
    BY <2>1 DEF Approval!Next
<1>5. CASE Stage(c) = "audited" /\ Stage(c)' \in {"approved", "refused"}
  <2>1. \E v \in Approval!Verdicts : Approval!After(v) = Stage(c)'
    BY <1>5 DEF Approval!Verdicts, Approval!After
  <2>2. \E v \in Approval!Verdicts : Approval!Audit(c, v)
    BY <1>1, <1>2, <1>5, <2>1 DEF Approval!Audit, Approval!Becomes
  <2> QED
    BY <2>2 DEF Approval!Next
<1>6. CASE Stage(c) \in {"asked", "approved"} /\ Stage(c)' = "refused"
  <2>1. Approval!GiveUp({c})
    BY <1>1, <1>2, <1>6 DEF Approval!GiveUp, Approval!Open
  <2> QED
    BY <2>1 DEF Approval!Next
<1>7. CASE Stage(c) = "approved" /\ Stage(c)' = "ran"
  <2>1. Approval!Run(c)
    BY <1>1, <1>2, <1>7 DEF Approval!Run, Approval!Becomes
  <2> QED
    BY <2>1 DEF Approval!Next
<1> QED
  BY <1>3, <1>4, <1>5, <1>6, <1>7 DEF Onward

\* A goroutine brings its call onward.
LEMMA CallGoesOn ==
  ASSUME GateInv, PathInv, NEW c \in Calls, CallStep(c)
  PROVE  Onward(Stage(c), Stage(c)')
<1> USE DEF GateInv, TypeOK, PathInv, Stage, Onward
<1>1. CASE Intercept(c)
  BY <1>1, HitlAssumption DEF Intercept
<1>2. CASE InsertRow(c) \/ InsertFails(c) \/ Register(c)
  BY <1>2 DEF InsertRow, InsertFails, Register
<1>3. CASE TakeDecision(c)
  BY <1>3 DEF TakeDecision, WaitEnds, Verdicts
<1>4. CASE TimesOut(c) \/ SeesCancel(c)
  BY <1>4 DEF TimesOut, SeesCancel, WaitEnds, ReviewerInv, Verdicts
<1>5. CASE \E v \in Verdicts : AuditReview(c, v)
  BY <1>5 DEF AuditReview, ReviewerInv, Verdicts
<1>6. CASE WriteDecision(c) \/ LeaveWait(c)
  BY <1>6 DEF WriteDecision, LeaveWait, AfterWait, DecisionOf, ReviewerInv, Verdicts, Reasons
<1>7. CASE TrackAndRun(c)
  BY <1>7 DEF TrackAndRun, ReviewerInv
<1>8. CASE ToolResult(c)
  BY <1>8 DEF ToolResult
<1> QED
  BY <1>1, <1>2, <1>3, <1>4, <1>5, <1>6, <1>7, <1>8 DEF CallStep

\* Requests that stay what they are, or are and become no accepted verdict.
LEMMA SameAccepted ==
  ASSUME \A q \in Requests :
           \/ req'[q] = req[q]
           \/ \A d \in Calls : ~AckedDecision(q, d) /\ ~AckedDecision(q, d)'
  PROVE  \A d \in Calls : Accepted(d)' = Accepted(d)
  BY DEF Accepted, AckedDecision

\* A verdict that is accepted decides a call that waits for one, and no other.
LEMMA SendIsAnswer ==
  ASSUME GateInv, PathInv, NEW q \in Requests, ResolveSend(q)
  PROVE  [Approval!Next]_<<[d \in Calls |-> Stage(d)], [d \in Calls |-> Accepted(d)]>>
<1> DEFINE stages == [d \in Calls |-> Stage(d)]
           accepted == [d \in Calls |-> Accepted(d)]
<1>0. TypeOK /\ UNCHANGED <<pc, rev, got, ran>> /\ req[q].pc = "found"
  BY DEF GateInv, ResolveSend, callVars
<1>1. PICK c \in Calls, v \in Verdicts :
        /\ req[q].call = c /\ req[q].verb = v
        /\ pc[c] \notin {"idle", "inserting", "registering", "reviewing"}
  BY <1>0 DEF GateInv, RequestInv
<1>2. \A p \in Requests : p # q => req'[p] = req[p]
  BY <1>0 DEF ResolveSend, Reply, TypeOK
<1>3. CASE ch[c] # "none"
  <2>1. UNCHANGED ch /\ Reply(q, "refused")
    BY <1>1, <1>3 DEF ResolveSend
  <2>2. req'[q].pc = "refused"
    BY <1>0, <2>1 DEF Reply, TypeOK
  <2>3. accepted' = accepted
    <3>1. \A d \in Calls : ~AckedDecision(q, d) /\ ~AckedDecision(q, d)'
      BY <1>0, <2>2 DEF AckedDecision
    <3> QED
      BY <1>2, <3>1, SameAccepted
  <2>4. stages' = stages
    BY <1>0, <2>1 DEF Stage
  <2> QED
    BY <2>3, <2>4
<1>4. CASE ch[c] = "none"
  <2>1. ch' = [ch EXCEPT ![c] = v] /\ Reply(q, "ok")
    BY <1>1, <1>4 DEF ResolveSend
  <2>2. req'[q].pc = "ok" /\ req'[q].call = c /\ req'[q].verb = v
    BY <1>0, <1>1, <2>1 DEF Reply, TypeOK
  <2>3. \A d \in Calls : Accepted(d)' = IF d = c THEN Accepted(d) \cup {v} ELSE Accepted(d)
    <3>1. \A d \in Calls : ~AckedDecision(q, d)
      BY <1>0 DEF AckedDecision
    <3>2. \A d \in Calls : AckedDecision(q, d)' <=> d = c
      BY <1>1, <2>2 DEF AckedDecision
    <3>3. \A p \in Requests, d \in Calls : p # q =>
            (AckedDecision(p, d)' <=> AckedDecision(p, d)) /\ req'[p].verb = req[p].verb
      BY <1>2 DEF AckedDecision
    <3>4. ASSUME NEW d \in Calls, NEW u \in Verdicts
          PROVE  u \in Accepted(d)' <=> (u \in Accepted(d) \/ (d = c /\ u = v))
      BY <2>2, <3>1, <3>2, <3>3 DEF Accepted
    <3>5. \A d \in Calls : Accepted(d) \subseteq Verdicts /\ Accepted(d)' \subseteq Verdicts
      BY DEF Accepted
    <3> QED
      BY <1>1, <3>4, <3>5
  <2>4. accepted' = [accepted EXCEPT ![c] = @ \cup {v}]
    BY <1>1, <2>3
  <2>5. /\ Stage(c) \notin {"new", "audited"}
        /\ Stage(c)' = IF Stage(c) = "asked" THEN Approval!After(v) ELSE Stage(c)
    BY <1>0, <1>1, <1>4, <2>1
       DEF Stage, Approval!After, Verdicts, GateInv, ReviewerInv, PathInv, TypeOK, ActivePcs
  <2>6. \A d \in Calls : d # c => Stage(d)' = Stage(d)
    BY <1>0, <1>1, <2>1 DEF Stage, TypeOK
  <2>7. Approval!Answer(c, v)
    <3>1. stages[c] = Stage(c)
      BY <1>1
    <3>2. IF stages[c] = "asked" THEN stages' = [stages EXCEPT ![c] = Approval!After(v)]
          ELSE stages' = stages
      BY <1>1, <2>5, <2>6
    <3> QED
      BY <2>4, <2>5, <3>1, <3>2 DEF Approval!Answer, Approval!Becomes
  <2> QED
    BY <1>1, <2>7 DEF Approval!Next, Approval!Verdicts, Verdicts
<1> QED
  BY <1>3, <1>4

\* A dismissal gives up a call that waits and has no answer.
LEMMA DrainGivesUp ==
  ASSUME GateInv, PathInv, NEW q \in Requests, DismissDrain(q)
  PROVE  [Approval!Next]_<<[d \in Calls |-> Stage(d)], [d \in Calls |-> Accepted(d)]>>
<1>0. TypeOK /\ UNCHANGED <<pc, rev, got, ran>> /\ req[q].pc = "updated"
  BY DEF GateInv, DismissDrain, callVars
<1>1. PICK c \in Calls : req[q].call = c /\ req[q].verb = "dismiss"
  BY <1>0 DEF GateInv, RequestInv
<1>2. \A d \in Calls : Accepted(d)' = Accepted(d)
  <2>1. /\ \A p \in Requests : p # q => req'[p] = req[p]
        /\ req'[q].verb = "dismiss"
    BY <1>0, <1>1 DEF DismissDrain, Reply, TypeOK
  <2>2. \A d \in Calls : ~AckedDecision(q, d) /\ ~AckedDecision(q, d)'
    BY <1>1, <2>1 DEF AckedDecision, Verdicts
  <2> QED
    BY <2>1, <2>2, SameAccepted
<1>3. /\ \A d \in Calls : d # c => ch'[d] = ch[d]
      /\ ch'[c] = ch[c] \/ (c \in pending /\ ch[c] = "none" /\ ch'[c] = "reject")
  BY <1>0, <1>1 DEF DismissDrain, TypeOK
<1>4. \A d \in Calls : d # c => Stage(d)' = Stage(d)
  BY <1>0, <1>3 DEF Stage
<1>5. Onward(Stage(c), Stage(c)')
  <2>1. CASE ch'[c] = ch[c]
    <3>1. Stage(c)' = Stage(c)
      BY <1>0, <2>1 DEF Stage
    <3> QED
      BY <3>1 DEF Onward
  <2>2. CASE c \in pending /\ ch[c] = "none" /\ ch'[c] = "reject"
    <3>1. rev[c] = "human" /\ pc[c] \in {"waiting", "deciding", "leaving"}
      BY <1>1, <2>2 DEF GateInv, RowInv
    <3> QED
      BY <1>0, <2>2, <3>1 DEF Stage, Onward
  <2> QED
    BY <1>3, <2>1, <2>2
<1> QED
  BY <1>1, <1>2, <1>4, <1>5, OneGoesOn

\* The lookups of requests change nothing that HumanApproval sees.
LEMMA LookupChangesNothing ==
  ASSUME GateInv, NEW q \in Requests, NEW c \in Calls,
         DismissUpdate(q, c) \/ \E v \in Verdicts : ResolveLookup(q, c, v)
  PROVE  [Approval!Next]_<<[d \in Calls |-> Stage(d)], [d \in Calls |-> Accepted(d)]>>
<1>1. UNCHANGED <<pc, rev, got, ran, ch>> /\ req[q].pc = "idle"
  BY DEF DismissUpdate, ResolveLookup, callVars
<1>2. /\ \A p \in Requests : p # q => req'[p] = req[p]
      /\ req'[q].pc # "ok"
  BY DEF DismissUpdate, ResolveLookup, GateInv, TypeOK
<1>3. \A d \in Calls : ~AckedDecision(q, d) /\ ~AckedDecision(q, d)'
  BY <1>1, <1>2 DEF AckedDecision
<1>4. \A d \in Calls : Accepted(d)' = Accepted(d)
  BY <1>2, <1>3, SameAccepted
<1>5. \A d \in Calls : Stage(d)' = Stage(d)
  BY <1>1 DEF Stage
<1> QED
  BY <1>4, <1>5

\* The end of the process gives up every call whose tool was not called yet.
LEMMA RestartGivesUp ==
  ASSUME GateInv, PathInv, Restart
  PROVE  [Approval!Next]_<<[d \in Calls |-> Stage(d)], [d \in Calls |-> Accepted(d)]>>
<1> DEFINE stages == [d \in Calls |-> Stage(d)]
           S == {c \in Calls : Stage(c) \in Approval!Open}
<1>1. \A d \in Calls : Accepted(d)' = Accepted(d)
  <2>1. \A q \in Requests : req'[q] = req[q]
             \/ (req[q].pc \in {"found", "updated"} /\ req'[q].pc = "dead")
    BY DEF Restart, GateInv, TypeOK
  <2> QED
    BY <2>1, SameAccepted DEF AckedDecision
<1>2. \A c \in Calls : Stage(c)' = IF c \in S THEN "refused" ELSE stages[c]
  <2>0. TAKE c \in Calls
  <2>1. /\ UNCHANGED <<rev, got, ran>> /\ ch'[c] = "none"
        /\ pc'[c] = IF pc[c] \in ActivePcs THEN "dead" ELSE pc[c]
        /\ pc[c] \in ActivePcs \cup {"idle", "done", "dead"}
    BY DEF Restart, Active, GateInv, TypeOK
  <2> QED
    BY <2>1 DEF Stage, Approval!Open, ActivePcs
<1>3. Approval!GiveUp(S)
  BY <1>1, <1>2 DEF Approval!GiveUp
<1> QED
  BY <1>3 DEF Approval!Next

\* The gate implements HumanApproval: whatever requests, dismissals, timeouts,
\* cancellations, lost writes and restarts do, a call runs only by the verdict that
\* was accepted first, or by its audit, and a refused call never does (hitl.go).
THEOREM ImplementsApproval == Spec => ApprovalRefinement
<1>1. Init => PathInv /\ Approval!Init
  BY DEF Init, PathInv, Approval!Init, Stage, Accepted, AckedDecision, NoReq
<1>2. GateInv /\ PathInv /\ [Next]_vars =>
        [Approval!Next]_<<[c \in Calls |-> Stage(c)], [c \in Calls |-> Accepted(c)]>>
  <2> SUFFICES ASSUME GateInv, PathInv, [Next]_vars
               PROVE  [Approval!Next]_<<[d \in Calls |-> Stage(d)], [d \in Calls |-> Accepted(d)]>>
    OBVIOUS
  <2>1. ASSUME NEW c \in Calls, CallStep(c)
        PROVE  [Approval!Next]_<<[d \in Calls |-> Stage(d)], [d \in Calls |-> Accepted(d)]>>
    <3>1. \A d \in Calls : d # c => Stage(d)' = Stage(d)
      BY <2>1, CallMovesOne DEF Stage, GateInv
    <3>2. \A d \in Calls : Accepted(d)' = Accepted(d)
      BY <2>1, CallFrame DEF Accepted, AckedDecision
    <3> QED
      BY <2>1, <3>1, <3>2, CallGoesOn, OneGoesOn
  <2>2. CASE \E q \in Requests : RequestStep(q)
    BY <2>2, SendIsAnswer, DrainGivesUp, LookupChangesNothing DEF RequestStep
  <2>3. CASE OutsideStep \/ UNCHANGED vars
    <3>1. UNCHANGED <<ch, pc, rev, got, ran, req>>
      BY <2>3, OutsideFrame DEF vars
    <3>2. \A d \in Calls : Stage(d)' = Stage(d) /\ Accepted(d)' = Accepted(d)
      BY <3>1 DEF Stage, Accepted, AckedDecision
    <3> QED
      BY <3>2
  <2> QED
    BY <2>1, <2>2, <2>3, NextCases, RestartGivesUp
<1> QED
  BY <1>1, <1>2, PathStep, GateInvariant, PTL DEF Spec, ApprovalRefinement, Approval!Spec
=============================================================================
