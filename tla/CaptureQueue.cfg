\* Five events: the queue's two limits, the batch's two limits and the
\* collector's are all reached.  Long is refused by the collector (9 > 8) and
\* a batch over the limit of a batch on its own; two Wide are a batch (2 + 4
\* units) of 9 bytes.
SPECIFICATION Spec
CONSTANTS
  EventSizes <- Sizes
  MaxQueueEvents = 3
  MaxQueueBytes = 9
  MaxBatchEvents = 2
  MaxBatchBytes = 6
  CollectorBytes = 8
  MaxCaptures = 5
  MaxStops = 1
INVARIANTS TypeOK Bounded NothingLost
PROPERTIES DeliversAsALog Settles
CHECK_DEADLOCK FALSE
