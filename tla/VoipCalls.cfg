SPECIFICATION Spec
CONSTANTS
    Peers = {p}
    Handlers = {h}
    Kinds = {"call", "accept", "leave", "end"}
    MaxSocks = 2
    MaxManagers = 2
    MaxInits = 2
    MaxCalls = 1
INVARIANTS TypeOK SignalsOnLiveSocket
PROPERTIES ReadyAgain
CHECK_DEADLOCK FALSE
