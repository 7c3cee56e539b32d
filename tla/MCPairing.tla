----------------------------- MODULE MCPairing -----------------------------
\* Pairing with two agentIds.
EXTENDS Pairing

CONSTANTS a1, a2
=============================================================================
