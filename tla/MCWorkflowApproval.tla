------------------------- MODULE MCWorkflowApproval -------------------------
(* WorkflowApproval with two or three approval nodes and one or two           *)
(* requests.                                                                  *)
EXTENDS WorkflowApproval

CONSTANTS r1, r2
=============================================================================
