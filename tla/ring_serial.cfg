SPECIFICATION FairSpec
CONSTANTS
  Producers = {p1, p2}
  Consumers = {c1}
  Items = {a, b}
  Torn = torn
  Size = 3
  SerialPush = TRUE
  SerialPop = TRUE
INVARIANTS
  TypeOK
  NoLostSlot
  NoDataRace
PROPERTIES
  ClaimedSlotIsFree
  ImplementsFifo
  CallsReturn
