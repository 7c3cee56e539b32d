SPECIFICATION WsSpec
CONSTANTS
  m1 = m1
  m2 = m2
  m3 = m3
  Msgs = {m1, m2, m3}
  ScheduleLen = 2
  HandshakeErrors = TRUE
CHECK_DEADLOCK FALSE
INVARIANT WsInv
INVARIANT NothingDroppedByClient
INVARIANT NothingStranded
 
 
