SPECIFICATION ConfigSpec
CONSTANTS
  None = None
  Documents <- MCDocuments
  Replies <- MCReplies
  Words <- MCWords
  Number <- MCNumber
  Matches <- MCMatches
  Maps <- MCMaps
  fencing_time_sec = 30
  U64_RANGE = 1000000
INVARIANTS
  ConfigTypeOK
  ParsedAsMeant
  WarningIsExact
