---------------------------- MODULE MCPrintAgent ----------------------------
(* Small instances of PrintAgent for TLC. *)
EXTENDS PrintAgent

CONSTANTS j1, j2
=============================================================================
