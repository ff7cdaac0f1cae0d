CONSTANTS
  max_files = 2
  max_patch_bytes = 13
  MIN_PER_FILE_BYTES = 9
  MaxFiles = 3
  MaxBytes = 20
  LineBytes = {2}
  HeaderBytes = {3}
  Starts <- SomeStarts

SPECIFICATION Spec
INVARIANTS
  TypeOK
  DigestBounded
  LabelsCommentable
  SameLines
  NumbersTrue
CHECK_DEADLOCK FALSE
