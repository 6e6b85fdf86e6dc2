SPECIFICATION Spec
CONSTANTS
  Clients = {c1, c2}
  NoClient = NoClient
  Departed = Departed
  Width = 5
  Columns <- MCColumns
INVARIANT GestureHasOneViewer
