SPECIFICATION Spec
CONSTANTS
    Peers = {p, q}
    Handlers = {h}
    Kinds = {"call", "video", "adhoc", "auto"}
    MaxSocks = 2
    MaxManagers = 2
    MaxInits = 2
    MaxCalls = 2
INVARIANT CallNeverCuts
CHECK_DEADLOCK FALSE
