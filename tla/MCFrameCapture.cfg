SPECIFICATION Spec
CONSTANTS
  NumCpu = 2
  Lines = 2
  RawLines = 3
  Values = {1, 2}
  MaxLive = 5
INVARIANTS
  TypeOK
  LinesInPlace
PROPERTY
  CatchesUp
CHECK_DEADLOCK FALSE
