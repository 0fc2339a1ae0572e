SPECIFICATION Spec
CONSTANTS
  Workers = {w1}
  Nobody = Nobody
  Chunk = 2
  SndBuf = 1
  MaxOut = 3
  MaxIn = 1
  Interrupts = FALSE
CHECK_DEADLOCK FALSE
INVARIANTS NoGap
