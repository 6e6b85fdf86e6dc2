SPECIFICATION ServerSpec
CONSTANT MaxDaemons = 4
INVARIANTS
  ServerTypeOK
  KillsInOrder
PROPERTIES
  LoneStartListens
  ButtonEndsAll
CHECK_DEADLOCK FALSE
