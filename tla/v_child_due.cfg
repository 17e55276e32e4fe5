SPECIFICATION FairSpec
CONSTANTS
  o1 = o1
  o2 = o2
  o3 = o3
  mother = mother
  child = child
  child2 = child2
  new = new
  missed = missed
  invalid = invalid
  Orders = {o1}
  Mother = mother
  Children = {child}
  Statuses = {new, missed}
  StatusType <- TwoStatuses
  Transitions <- AllPairs
  Positions = {1}
  ClientsInRange = TRUE
  Last = 9
  MaxSort = 1
  NoAnswerLimit = 1
  MaxNoAnswer = 1
PROPERTIES
  ChildDueSettled
CHECK_DEADLOCK FALSE
