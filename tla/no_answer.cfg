SPECIFICATION FairSpec
CONSTANTS
  o1 = o1
  o2 = o2
  o3 = o3
  mother = mother
  child = child
  child2 = child2
  new = new
  missed = missed
  invalid = invalid
  Orders = {o1, o2}
  Mother = mother
  Children = {}
  Statuses = {new, missed, invalid}
  StatusType <- ThreeStatuses
  Transitions <- AllPairs
  Positions = {1}
  ClientsInRange = TRUE
  Last = 9
  MaxSort = 2
  NoAnswerLimit = 1
  MaxNoAnswer = 3
PROPERTIES
  MotherDueSettled
CHECK_DEADLOCK FALSE
