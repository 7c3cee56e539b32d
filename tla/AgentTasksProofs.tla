-------------------------- MODULE AgentTasksProofs --------------------------
(***************************************************************************)
(* Proofs about the tasks of Agent.run for every set of printer lists.     *)
(***************************************************************************)
EXTENDS AgentTasks, TLAPS

\* TasksTypeOK and OnlineIsShown are inductive together: every write of
\* "disconnected" to status.json comes with the end of the connection.
TasksInv == TasksTypeOK /\ OnlineIsShown

\* run() before the first connection.
LEMMA InitTasksInv == TasksInit => TasksInv
  BY ListsAssumption DEF TasksInit, TasksInv, TasksTypeOK, OnlineIsShown

\* The connection loop: whatever it does to status.json it does with the connection.
LEMMA ConnectionKeepsInv ==
  ASSUME TasksInv, Authenticates \/ ConnectionStep
  PROVE  TasksInv'
  <1> USE DEF TasksInv, TasksTypeOK, OnlineIsShown, syncVars
  <1>1. CASE Authenticates
    BY <1>1 DEF Authenticates
  <1>2. CASE Connects
    BY <1>2 DEF Connects
  <1>3. CASE ConnectingFails
    BY <1>3 DEF ConnectingFails
  <1>4. CASE Greet
    BY <1>4 DEF Greet
  <1>5. CASE GreetingDiscovers
    BY <1>5 DEF GreetingDiscovers
  <1>6. CASE GreetingFails
    BY <1>6 DEF GreetingFails
  <1>7. CASE GreetingSends
    BY <1>7 DEF GreetingSends, SendList
  <1>8. CASE Disconnects
    BY <1>8 DEF Disconnects
  <1> QED BY <1>1, <1>2, <1>3, <1>4, <1>5, <1>6, <1>7, <1>8 DEF ConnectionStep

\* The heartbeat only ever writes "connected".
LEMMA HeartbeatKeepsInv ==
  ASSUME TasksInv, HeartbeatDue \/ HeartbeatSent
  PROVE  TasksInv'
  BY DEF TasksInv, TasksTypeOK, OnlineIsShown, HeartbeatDue, HeartbeatSent, connVars,
         syncVars

\* The periodic sync does not touch the connection or status.json.
LEMMA CheckKeepsInv ==
  ASSUME TasksInv,
         CheckDue \/ CheckDiscovers \/ CheckFails \/ CheckSends \/ IntervalElapses
  PROVE  TasksInv'
  <1> USE DEF TasksInv, TasksTypeOK, OnlineIsShown, connVars
  <1>1. CASE CheckDue
    BY <1>1 DEF CheckDue
  <1>2. CASE CheckDiscovers \/ CheckFails
    BY <1>2 DEF CheckDiscovers, CheckFails
  <1>3. CASE CheckSends
    BY <1>3 DEF CheckSends, SendList
  <1>4. CASE IntervalElapses
    BY <1>4 DEF IntervalElapses
  <1> QED BY <1>1, <1>2, <1>3, <1>4

\* A socket that fails does so before run_forever notices.
LEMMA EnvironmentKeepsInv ==
  ASSUME TasksInv, PrintersChange \/ LinkFails \/ StopAgent
  PROVE  TasksInv'
  <1> USE DEF TasksInv, TasksTypeOK, OnlineIsShown, connVars, syncVars
  <1>1. CASE PrintersChange
    BY <1>1 DEF PrintersChange
  <1>2. CASE LinkFails
    BY <1>2 DEF LinkFails
  <1>3. CASE StopAgent
    BY <1>3 DEF StopAgent
  <1> QED BY <1>1, <1>2, <1>3

\* Both halves of TasksInv hold in every state of every behaviour.
THEOREM TasksInvariance == TasksSpec => []TasksInv
  <1>1. ASSUME TasksInv, [TasksNext]_tasksVars PROVE TasksInv'
    <2>1. CASE TasksNext
      BY <1>1, <2>1, ConnectionKeepsInv, HeartbeatKeepsInv, CheckKeepsInv,
         EnvironmentKeepsInv DEF TasksNext
    <2>2. CASE UNCHANGED tasksVars
      BY <1>1, <2>2 DEF tasksVars, connVars, syncVars, TasksInv, TasksTypeOK,
         OnlineIsShown
    <2> QED BY <1>1, <2>1, <2>2
  <1> QED BY <1>1, InitTasksInv, PTL DEF TasksSpec

\* The state keeps its shape; `connected` is set exactly while there is an
\* authenticated connection, whatever the interleaving of the tasks.
THEOREM ConnectedIsExact == TasksSpec => []TasksTypeOK
  <1>1. TasksInv => TasksTypeOK
    BY DEF TasksInv
  <1> QED BY <1>1, TasksInvariance, PTL

\* `status` never shows a working connection as disconnected.
THEOREM WorkingIsShown == TasksSpec => []OnlineIsShown
  <1>1. TasksInv => OnlineIsShown
    BY DEF TasksInv
  <1> QED BY <1>1, TasksInvariance, PTL
=============================================================================
