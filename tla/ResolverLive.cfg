SPECIFICATION FairSpec
CONSTANTS
  Clients = {c1}
  Worker = w
  Monitor = m
  Blocks = {b1}
  NoReq = NoReq
  IdSpan = 2
  Repeat = 2
  MaxNew = 2
  NsMayFail = TRUE
CHECK_DEADLOCK FALSE
PROPERTIES Finishes
