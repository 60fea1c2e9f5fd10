------------------------- MODULE MCBatchTaskManager -------------------------
(* BatchTaskManager with one task (another may be added), two workers         *)
(* and several mixes of requests.                                             *)
EXTENDS BatchTaskManager, TLC

CONSTANTS r1, r2, r3, r4

Mix(k1, k2, k3, k4) == (r1 :> k1) @@ (r2 :> k2) @@ (r3 :> k3) @@ (r4 :> k4)

MCMixes == {
  Mix("start", "pause", "single", "none"),
  Mix("start", "pause", "rerun", "delete"),
  Mix("start", "pause", "cron", "start"),
  Mix("start", "pause", "add", "remove") }
=============================================================================
