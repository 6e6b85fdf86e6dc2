SPECIFICATION Spec
CONSTANTS
  Speakers = {"desktop", "client"}
  Addresses <- MCAddresses
  Address <- MCAddress
  Off = "10.0.0.20"
  Pids = {1, 2, 3}
  None = None
  MaxShells = 2
  Empty = Empty
INVARIANTS
  TypeOK
  FileFollowsToggle
  StaleOnlyByMissedKill
PROPERTY SpeakerPlays
CHECK_DEADLOCK FALSE
