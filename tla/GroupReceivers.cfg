\* Three transactions: an installed, a due and a future epoch at once.  No
\* symmetry: the abstract specification is a temporal property.
SPECIFICATION Spec
CONSTANTS
  Transactions = {1, 2, 3}
  Devices = {d1, d2}
  Senders = {s1, s2}
  Keys = {k1, k2}
  CallKey = CallKey
  NoKey = NoKey
INVARIANTS TypeOK KeyAgreement Converges
PROPERTIES AgreesOnEpochs
