--------------------------- MODULE MCWakeService ---------------------------
(* WakeService on one pane of Claude's.                                       *)
EXTENDS WakeService

CONSTANTS claude
=============================================================================
