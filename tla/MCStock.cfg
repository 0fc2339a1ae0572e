SPECIFICATION MCSpec
CONSTANTS
  Objects = {o1, o2}
  NoObject = NoObject
  SlotSpan = 3
  Serials = 4
  PageSize = 1
  MaxSlots = 2
INVARIANTS TypeOK FreeListExact IdsLeadHome
PROPERTIES IsRegistry NoEarlyReuse
