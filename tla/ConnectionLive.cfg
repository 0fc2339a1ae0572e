SPECIFICATION FairSpec
CONSTANTS
  Workers = {w1, w2}
  Nobody = Nobody
  Chunk = 2
  SndBuf = 1
  MaxOut = 1
  MaxIn = 1
  Interrupts = FALSE
CHECK_DEADLOCK FALSE
PROPERTIES ConnectSettles Departs Ends
