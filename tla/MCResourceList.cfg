SPECIFICATION Spec
CONSTANTS
  Announced <- MCAnnounced
  Cut = 0
  HashMapOrder <- MCHashMapOrder
  AtGeorgiaTech = TRUE
  MaxReceivers = 2
  MaxIntents = 2
INVARIANTS
  TypeOK
  ListIsPrefix
PROPERTY WakesUp
CHECK_DEADLOCK FALSE
