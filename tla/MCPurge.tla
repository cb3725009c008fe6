------------------------------ MODULE MCPurge -------------------------------
(* Small instances of Purge.                                               *)
EXTENDS Purge

CONSTANTS x1, x2
=============================================================================
