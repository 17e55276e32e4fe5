SPECIFICATION FairSpec
CONSTANTS
  u1 = u1
  u2 = u2
  w1 = w1
  w2 = w2
  Users = {u1, u2}
  Splits <- SmallSplits
  Workers = {w1, w2}
  Edits = {"queued", "canceled"}
  MaxDeliveries = 2
INVARIANTS
  TypeOK
  OneMessage
  RowTellsTheTruth
  CompletedMeansSettled
PROPERTIES
  CompletesUndisturbed
CHECK_DEADLOCK FALSE
