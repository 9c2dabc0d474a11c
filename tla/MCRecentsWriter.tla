-------------------------- MODULE MCRecentsWriter --------------------------
(* A small instance of RecentsWriter for TLC.                                 *)
EXTENDS RecentsWriter

CONSTANTS c1, c2, c3
=============================================================================
