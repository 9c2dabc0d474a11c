------------------------- MODULE MCStructuredTurns -------------------------
(* StructuredTurns on small sets of prompts.                                  *)
EXTENDS StructuredTurns, TLC

CONSTANTS m1, p1, p2, s1, c1, c2
=============================================================================
