---------------------------- MODULE MCAgentTasks ----------------------------
\* AgentTasks with three different printer lists.
EXTENDS AgentTasks

CONSTANTS p1, p2, p3
=============================================================================
