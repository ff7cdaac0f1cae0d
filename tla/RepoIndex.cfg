CONSTANTS
  Names = {"new", "run", "Cfg", "fn"}
  NoName = "-"
  Patterns = {"fn", "todo"}
  BODY_LINES = 4
  BODY_BYTES = 9
  SIG_CHARS = 1
  SITES_PER_NAME = 2
  Limits <- SmallLimits
  MAX_INDEX_BYTES = 19
  MAX_FILE_BYTES = 11
  MAX_IDENTS = 3
  MAX_HINTS = 2
  HINT_BYTES = 1
  TOOL_DEFS = 2
  GREP_DEFAULT = 2
  GREP_MAX = 3
  GREP_LINE_CAP = 1
  READ_RETURN_CAP = 8
  LIST_CAP = 2
  PATH_BYTES = 1
  NOTE_BYTES = 1
  ECHO = 2
  Asked = {9}
  Paths = {1, 2, 3}
  RustPaths = {1, 2}
  Entries <- SomeEntries
  Raws <- SomeRaws
  Unusable = {"fn"}
  MaxEntries = 2
  MaxTokens = 3

SPECIFICATION Spec
INVARIANTS
  TypeOK
  IndexFaithful
  ContextBounded
  ContextComplete
  BodyExact
  AnswersBounded
CHECK_DEADLOCK FALSE
