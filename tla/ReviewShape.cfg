CONSTANTS
  MAX_ITEMS = 2
  MAX_TURNS = 2
  CRITIQUE_MAX_TURNS = 1
  RETRY_TURNS = 1
  Lenses = 2
  MAX_TOOL_OUTPUT_BYTES = 1
  MaxOutput = 1
  SNAP_WINDOW = 2
  Answers <- SomeAnswers
  Commentable <- Hunk
  Accepted <- Hunk
  Quotes <- Code
  MaxPushes = 1
  CallIds = {"a"}
  CallTurns <- SomeTurns
  Objects <- SomeObjects
  Strings <- SomeStrings
  MaxObjects = 3

SPECIFICATION CSpec
INVARIANT ShapeGate
CHECK_DEADLOCK FALSE
