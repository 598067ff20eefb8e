SPECIFICATION ClaimsSpec
CONSTANTS
  Missing = Missing
  MapNames <- MCMapNames
  Replies <- MCReplies
  ActiveSets <- MCActiveSets
  target_wwids = {}
  max_failures = 2
  U64_MAX = 3
INVARIANT OmissionIsNotDeath
