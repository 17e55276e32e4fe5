SPECIFICATION CronSpec
CONSTANTS
  o1 = o1
  o2 = o2
  o3 = o3
  mother = mother
  new = new
  Orders = {o1, o2, o3}
  Mother = mother
  Children = {}
  Statuses = {new}
  StatusType <- OpenOnly
  Transitions = {}
  Positions = {1}
  ClientsInRange = TRUE
  Last = 9
  MaxSort = 5
  NoAnswerLimit = 3
  MaxNoAnswer = 0
  TriggerStatuses = {new}
INVARIANTS
  NoSharedPositionAfterCron
CHECK_DEADLOCK FALSE
