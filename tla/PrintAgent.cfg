SPECIFICATION AgentSpec
CONSTANTS
  j1 = j1
  j2 = j2
  NoJob = NoJob
  Jobs = {j1}
  Cancellable = {j1}
  Faulty = {}
  Cleanable = {}
  MaxPolls = 1
  ScheduleLen = 1
  HandshakeErrors = FALSE
  MaxCrashes = 1
  MaxOutages = 1
CHECK_DEADLOCK FALSE
INVARIANT AgentInv
INVARIANT HubTellsTheTruth
PROPERTY HubLearnsVerdict
