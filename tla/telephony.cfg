SPECIFICATION Spec
CONSTANTS
  x = x
  y = y
  operator = operator
  NoOne = NoOne
  MaxCalls = 2
  MaxWire = 1
  Operators = {x, y}
  Active = {x, y}
  Roles <- OneRole
  MaxOrders = 3
  NoAnswerLimit = 1
  MaxEdits = 1
  MaxMishaps = 1
SYMMETRY Colleagues
INVARIANTS
  TypeOK
  OneOperatorPerRole
  CommentedOnce
  NoAnswerCountedOnce
  ConversationNoted
PROPERTIES
  NoSecondOrder
CHECK_DEADLOCK FALSE
