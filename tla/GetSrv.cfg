SPECIFICATION FairSpec
CONSTANTS
  h1 = h1
  h2 = h2
  h3 = h3
  cut = cut
  a1 = a1
  a2 = a2
  b1 = b1
  c1 = c1
  Hosts = {h1, h2, h3}
  AddressesOf <- MCAddressesOf
  Kept <- MCKept
  Answers <- MCAnswers
  MaxReplies = 2
CHECK_DEADLOCK FALSE
INVARIANTS ToldOnce NoneSkipped InPriority
PROPERTIES Progresses
