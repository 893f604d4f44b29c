\* Two application goroutines and Net: three that may end the call.
SPECIFICATION RelaySpec
CONSTANTS
  Entries = {e1}
  Handles = {h1}
  Apps = {a1, a2}
  Net = net
  None = None
  MaxAnswers = 1
  DuplicateOffers = FALSE
INVARIANTS
  TypeOK
  NoOrphanMedia
  OneLoopPerEntry
  OnEndAtMostOnce
  AcceptsMatchAnswers
  EveryHandleIsTold
PROPERTIES
  MediaLivesAsPromised
  EndIsReported
  MediaStops
CHECK_DEADLOCK FALSE
