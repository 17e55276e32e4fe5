SPECIFICATION Spec
CONSTANTS
  c1 = c1
  c2 = c2
  o1 = o1
  o2 = o2
  o3 = o3
  mother = mother
  child = child
  child2 = child2
  new = new
  ready = ready
  Free = Free
  Connections = {c1, c2}
  Orders = {o1, o2, o3}
  Mother = mother
  Children = {child, child2}
  Statuses = {new}
  Transitions <- AllPairs
  Positions = {1}
  Last = 9
  MaxSort = 8
  Scopes <- EveryScope
  Ops = {"transfer", "restore"}
  MaxJobs = 2
  Boards <- SmallBoard
INVARIANTS
  HistoryNamesOwner
CHECK_DEADLOCK FALSE
