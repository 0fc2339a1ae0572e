SPECIFICATION Spec
CONSTANTS
  Clients = {c1}
  Worker = w
  Monitor = m
  Blocks = {b1, b2}
  NoReq = NoReq
  IdSpan = 2
  Repeat = 1
  MaxNew = 2
  NsMayFail = FALSE
CHECK_DEADLOCK FALSE
PROPERTIES RestartsAtHead
