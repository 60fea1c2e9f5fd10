------------------------- MODULE MCExecutionService -------------------------
(* Model-checking instances of ExecutionService.                           *)
EXTENDS ExecutionService

CONSTANTS e1, e2, w1

TwoExecs == {e1, e2}
OneWaiter == {w1}
OneExec == {e1}
NoExecs == {}
OnlyOk == {"ok"}
AllOutcomes == {"ok", "blocked", "failure"}
=============================================================================
