SPECIFICATION Spec
CONSTANTS
  Cases <- MCCases
  Grey <- MCGrey
  CorreMax = 2
  LinesMaxSize = 6
  MaxRectSize = 6
  MaxRectWidth = 3
  TileSize = 2
  MinSplitSize = 4
  MinSolidSize = 3
INVARIANTS
  TypeOK
  AsAnnounced
  Tiles
  SolidIsSolid
