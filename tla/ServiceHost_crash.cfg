SPECIFICATION HostSpec
CONSTANTS
  JoinTimeout = 1
  RestartWait = 2
  Secrets = {1, 2, 3}
PROPERTY CrashedAgentReturns
