--------------------------- MODULE MCTaskEventBus ---------------------------
(* Instances of TaskEventBus for TLC. *)
EXTENDS TaskEventBus

CONSTANTS r1, r2, l1
=============================================================================
