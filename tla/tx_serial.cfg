SPECIFICATION Spec
CONSTANTS
  c1 = c1
  c2 = c2
  o1 = o1
  o2 = o2
  o3 = o3
  mother = mother
  child = child
  child2 = child2
  new = new
  ready = ready
  Free = Free
  Connections = {c1}
  Orders = {o1, o2}
  Mother = mother
  Children = {child}
  Statuses = {new, ready}
  Transitions <- AllPairs
  Positions = {0, 1, 2, 3}
  Last = 5
  MaxSort = 4
  Scopes <- SuperAdmin
  Ops = {"create", "update", "across", "within", "resort", "delete", "transfer", "take", "restore", "call"}
  MaxJobs = 5
  Boards <- EmptyBoard
PROPERTIES
  ImplementsBoard
CHECK_DEADLOCK FALSE
