SPECIFICATION Spec
CONSTANTS
  Clients = {c1, c2}
  Width = 1
  Height = 1
  Words = {0, 1}
  Zero = 0
  ToRfb <- MCToRfb
  NoPicture = NoPicture
  RequestRects <- MCRequestRects
  EncodingLists <- MCNoEncodings
  CursorRect <- MCCursorRect
  CursorMask <- MCCursorMask
  CursorPixel = 20
PROPERTIES
  RequestAnswered
  ClosedIsForgotten
CHECK_DEADLOCK FALSE
