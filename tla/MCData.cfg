SPECIFICATION MCSpec
CONSTANTS
  CR = CR
  LF = LF
  Bytes = {x, CR, LF}
  ItemSize = 2
  MaxCall = 3
  MaxQueue = 4
  MaxPackets = 2
  PageSize = 2
  ItemSizes = {1, 2}
  MaxPages = 2
  NameSize = 8
  MaxFound = 16
  Wrap = 65536
  MaxJumps = 2
  Texts <- MCTexts
  Rooms <- MCRooms
  Shorts <- MCShorts
  Encodings <- MCEncodings
  Replies <- MCReplies
  Cuts <- MCCuts
  Quads <- MCQuads
  Times <- MCTimes
  MaxDatagrams = 2
  Processors = 2
  Callers = {c1, c2}
INVARIANTS TypeOK PageOwned StartedOnce ReplyRead QueryRead ValuesKept DatagramsKept
PROPERTIES IsByteQueue IsPacketQueue
CHECK_DEADLOCK FALSE
