SPECIFICATION Spec
CONSTANTS
  o1 = o1
  o2 = o2
  o3 = o3
  mother = mother
  child = child
  child2 = child2
  new = new
  missed = missed
  invalid = invalid
  Orders = {o1, o2, o3}
  Mother = mother
  Children = {child}
  Statuses = {new, missed}
  StatusType <- TwoStatuses
  Transitions <- AllPairs
  Positions = {0, 1, 2, 3, 4}
  ClientsInRange = TRUE
  Last = 9
  MaxSort = 5
  NoAnswerLimit = 1
  MaxNoAnswer = 0
SYMMETRY Cards
INVARIANTS
  TypeOK
  NoSharedPosition
  ChildColumnsContiguous
PROPERTIES
  NeighboursKeepOrder
CHECK_DEADLOCK FALSE
