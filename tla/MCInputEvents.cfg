SPECIFICATION Spec
CONSTANTS
  Clients = {c1, c2}
  NoClient = NoClient
  Departed = Departed
  Width = 5
  Columns <- MCColumns
INVARIANTS
  TypeOK
  GestureBelongsToOwner
  TouchFollowsButton
  ButtonsStayDown
  TypedAsAsked
PROPERTY
  PointerGivenBack
