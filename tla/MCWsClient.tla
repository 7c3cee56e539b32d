----------------------------- MODULE MCWsClient -----------------------------
(* Small instances of WsClient for TLC. *)
EXTENDS WsClient

CONSTANTS m1, m2, m3
=============================================================================
