SPECIFICATION Spec
CONSTANTS
  Clients = {c1}
  Width = 3
  Height = 1
  Words = {0, 1}
  Zero = 0
  ToRfb <- MCToRfb
  NoPicture = NoPicture
  RequestRects <- MCRequestRects
  EncodingLists <- MCEncodingLists
  CursorRect <- MCCursorRect
  CursorMask <- MCCursorMask
  CursorPixel = 20
INVARIANT ModifiedRegionComplete
CHECK_DEADLOCK FALSE
