SPECIFICATION SafetySpec
CONSTANTS
  Entries = {e1, e2}
  Handles = {h1, h2}
  Apps = {a1}
  Net = net
  None = None
  MaxAnswers = 1
  DuplicateOffers = TRUE
SYMMETRY Symmetry
INVARIANTS
  OneLoopPerEntry
CHECK_DEADLOCK FALSE
