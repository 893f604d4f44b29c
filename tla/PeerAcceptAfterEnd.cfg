SPECIFICATION SafetySpec
CONSTANTS
  Entries = {e1}
  Handles = {h1}
  Apps = {a1}
  Net = net
  None = None
  MaxAnswers = 1
  DuplicateOffers = FALSE
PROPERTIES
  NoAcceptAfterEnd
CHECK_DEADLOCK FALSE
