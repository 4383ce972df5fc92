SPECIFICATION FairSpec
CONSTANTS
  Producers = {p1}
  Consumers = {c1, c2}
  Items = {a}
  Torn = torn
  Size = 2
  SerialPush = TRUE
  SerialPop = FALSE
PROPERTIES
  SlotBecomesReadable
