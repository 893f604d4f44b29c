SPECIFICATION HistorySpec
CONSTANTS
  MaxSessions = 2
  Slots = {1, 2, 3}
  MaxAttempts = 1
  MaxRequests = 2
  MaxFaults = 1
INVARIANTS DisconnectIsFinal
CHECK_DEADLOCK FALSE
