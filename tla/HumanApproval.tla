--------------------------- MODULE HumanApproval ---------------------------
(***************************************************************************)
(* What the approval gate promises about every tool call, whatever happens *)
(* to its requests, rows, channels and goroutines: a call is let through   *)
(* because it needs no approval, or because its reviewer approved it; the  *)
(* first answer that is accepted for a call decides, and a call that was   *)
(* refused or given up never runs.                                         *)
(***************************************************************************)
CONSTANT Calls    \* tool calls, each passing the gate once

VARIABLES
  stage,          \* how far each call is
  answers         \* the verdicts the server accepted for each call

Verdicts == {"approve", "reject"}
Open == {"asked", "audited", "approved"}
Stages == {"new", "refused", "ran"} \cup Open

\* Where a verdict leads.
After(verdict) == IF verdict = "approve" THEN "approved" ELSE "refused"

Init ==
  /\ stage = [c \in Calls |-> "new"]
  /\ answers = [c \in Calls |-> {}]

Becomes(c, s) == stage' = [stage EXCEPT ![c] = s]

\* A call meets the gate: it is let through, or a user or the audit agent is asked.
Enter(c) ==
  /\ stage[c] = "new"
  /\ \E s \in {"ran", "asked", "audited"} : Becomes(c, s)
  /\ UNCHANGED answers

\* The server accepts a user's verdict.  It decides when the call still waits for
\* one, and changes nothing when it comes late.
Answer(c, verdict) ==
  /\ stage[c] \notin {"new", "audited"}
  /\ answers' = [answers EXCEPT ![c] = @ \cup {verdict}]
  /\ IF stage[c] = "asked" THEN Becomes(c, After(verdict)) ELSE UNCHANGED stage

\* The audit agent decides a call it was given.
Audit(c, verdict) ==
  /\ stage[c] = "audited"
  /\ Becomes(c, After(verdict))
  /\ UNCHANGED answers

\* Calls are given up: by a timeout, a dismissal, the end of their context, a
\* failed write or the end of the process.  An approved one may be among them.
GiveUp(S) ==
  /\ \A c \in S : stage[c] \in Open
  /\ stage' = [c \in Calls |-> IF c \in S THEN "refused" ELSE stage[c]]
  /\ UNCHANGED answers

\* The tool of an approved call is called.
Run(c) ==
  /\ stage[c] = "approved"
  /\ Becomes(c, "ran")
  /\ UNCHANGED answers

Next ==
  \/ \E c \in Calls : Enter(c) \/ Run(c)
  \/ \E c \in Calls, v \in Verdicts : Answer(c, v) \/ Audit(c, v)
  \/ \E S \in SUBSET Calls : GiveUp(S)

Spec == Init /\ [][Next]_<<stage, answers>>
=============================================================================
