CONSTANTS
  j1 = j1
  j2 = j2
  j3 = j3
  Jobs = {j1, j2, j3}
  NoJob = NoJob
  Slots = 2
  PageSize = 3
  Histories <- Inherited
  MaxOthers = 1

SPECIFICATION Spec
SYMMETRY Symmetry
INVARIANTS
  TypeOK
  OthersUntouched
  OldestSurvives
  FailedRemovedNothing
  SingleIfSerial
PROPERTIES
  HealsDuplicates
CHECK_DEADLOCK FALSE
