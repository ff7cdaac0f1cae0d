CONSTANTS
  j1 = j1
  j2 = j2
  j3 = j3
  Jobs = {j1, j2}
  NoJob = NoJob
  Slots = 2
  PageSize = 3
  Histories <- Fresh
  MaxOthers = 0

SPECIFICATION Spec
INVARIANT SingleComment
CHECK_DEADLOCK FALSE
