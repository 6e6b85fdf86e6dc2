SPECIFICATION Spec
CONSTANTS
  Width = 4
  Height = 3
INVARIANTS
  TypeOK
  CoveredExactlyWhenCoverable
  ScanIsFold
CHECK_DEADLOCK FALSE
