\* Two feeders, each with a process that exits twice by itself.
SPECIFICATION Spec
CONSTANTS
  MaxFeeders = 2
  MaxRestarts = 2
  Interval = 2
  MaxLag = 0
  Pause = 3
INVARIANTS
  TypeOK
  OneFeeder
  Paced
PROPERTIES
  StreamsAsASource
CHECK_DEADLOCK FALSE
