CONSTANTS
  max_files = 2
  max_patch_bytes = 13
  MIN_PER_FILE_BYTES = 9
  MaxFiles = 1
  MaxBytes = 13
  LineBytes = {2}
  HeaderBytes = {3}
  Starts <- SomeStarts

SPECIFICATION Spec
INVARIANTS
  OnlyAccepted
CHECK_DEADLOCK FALSE
