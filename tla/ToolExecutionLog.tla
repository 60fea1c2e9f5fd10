-------------------------- MODULE ToolExecutionLog --------------------------
(***************************************************************************)
(* What the table tool_executions promises to its readers (the monitor     *)
(* page, the finalizer, the waiting agents), whoever writes it: the record *)
(* of an execution only moves forward, and a verdict is never rewritten.   *)
(* "orphaned" says that nobody is known to work on the execution; a worker *)
(* that was only slow may still deliver its verdict.                       *)
(***************************************************************************)
EXTENDS Naturals

CONSTANTS
  Execs,     \* execution ids
  Verdicts   \* the statuses a finished worker can report

VARIABLE row \* the status stored for each execution, "none" without a record

Statuses == {"none", "queued", "running", "orphaned"} \cup Verdicts

Rank(status) ==
  CASE status = "none"     -> 0
    [] status = "queued"   -> 1
    [] status = "running"  -> 2
    [] status = "orphaned" -> 3
    [] OTHER               -> 4

Init == row = [e \in Execs |-> "none"]

\* A writer moves one record forward; steps may be skipped when writes fail.
Record(e, status) ==
  /\ Rank(status) > Rank(row[e])
  /\ status = "orphaned" => row[e] = "running"
  /\ row' = [row EXCEPT ![e] = status]

\* A new process gives up every record the last one left running.
GiveUpRunning ==
  row' = [e \in Execs |-> IF row[e] = "running" THEN "orphaned" ELSE row[e]]

Next ==
  \/ \E e \in Execs, status \in Statuses : Record(e, status)
  \/ GiveUpRunning

Spec == Init /\ [][Next]_row
=============================================================================
