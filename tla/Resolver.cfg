SPECIFICATION Spec
CONSTANTS
  Clients = {c1}
  Worker = w
  Monitor = m
  Blocks = {b1, b2}
  NoReq = NoReq
  IdSpan = 2
  Repeat = 1
  MaxNew = 2
  NsMayFail = TRUE
CHECK_DEADLOCK FALSE
INVARIANTS QueueSound NoLeak CancelSafe SendBound
PROPERTIES NoSilentEnd
