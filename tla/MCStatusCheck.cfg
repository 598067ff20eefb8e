SPECIFICATION StatusSpec
CONSTANTS
  POLL = 1
  CheckerPolls <- MCCheckerPolls
  QUERIES = 3
  MIN_AGE = 3
  Jumps <- MCJumps
  AgeCap = 4
INVARIANT CheckTypeOK
PROPERTIES
  PollingIsKnown
  AnswerIsRecent
