SPECIFICATION Spec
CONSTANTS
  MaxSessions = 2
  Slots = {1, 2, 3}
  MaxAttempts = 1
  MaxRequests = 2
  MaxFaults = 1
INVARIANTS TypeOK SockIsLive OnlineIsBacked
PROPERTIES Reconnects
CHECK_DEADLOCK FALSE
