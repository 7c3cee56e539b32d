SPECIFICATION AgentSpec
CONSTANTS
  j1 = j1
  j2 = j2
  NoJob = NoJob
  Jobs = {j1}
  Cancellable = {}
  Faulty = {}
  Cleanable = {}
  MaxPolls = 1
  ScheduleLen = 1
  HandshakeErrors = FALSE
  MaxCrashes = 1
  MaxOutages = 0
CHECK_DEADLOCK FALSE
INVARIANT HubAcceptsAll
