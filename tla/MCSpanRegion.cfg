SPECIFICATION Spec
CONSTANTS
  Width = 3
  Height = 3
  NoCoord = 99
  MaxRects = 2
  MaxInverted = 1
  MarkCorners <- MCMarkCorners
  RequestCorners <- MCRequestCorners
INVARIANTS
  WellFormed
  SentOnce
PROPERTY WalksEnd
PROPERTY RefinesPixelSets
