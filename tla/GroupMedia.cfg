SPECIFICATION Spec
CONSTANTS
  Transactions = {1, 2}
  Devices = {d1}
  Senders = {s1}
  Keys = {k1}
  CallKey = CallKey
  NoKey = NoKey
  Apps = {a1}
  Net = Net
  MaxAttempts = 2
INVARIANTS TypeOK LiveRegistryKeepsKeys RegistryNotAhead
PROPERTIES PublishedUpToDate SignalingNeverGoesBack EndClears
\* A call that ended leaves nothing to do.
CHECK_DEADLOCK FALSE
