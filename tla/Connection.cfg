SPECIFICATION Spec
CONSTANTS
  Workers = {w1, w2}
  Nobody = Nobody
  Chunk = 2
  SndBuf = 1
  MaxOut = 2
  MaxIn = 2
  Interrupts = TRUE
CHECK_DEADLOCK FALSE
INVARIANTS ServedByOne InOrder EventOrder
