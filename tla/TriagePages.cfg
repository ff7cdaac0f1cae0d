CONSTANTS
  j1 = j1
  j2 = j2
  j3 = j3
  Jobs = {j1, j2}
  NoJob = NoJob
  Slots = 1
  PageSize = 2
  Histories <- Fresh
  MaxOthers = 2

SPECIFICATION Spec
INVARIANT SingleIfUnraced
CHECK_DEADLOCK FALSE
