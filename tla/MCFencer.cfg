SPECIFICATION ObserverSpec
CONSTANTS
  Missing = Missing
  MapNames <- MCMapNames
  Replies <- MCReplies
  ActiveSets <- MCActiveSets
  target_wwids = {}
  max_failures = 2
  U64_MAX = 3
INVARIANTS
  AllTypesOK
  FenceExactlyOnSustainedLoss
  LatchExact
  MemoryPruned
PROPERTIES
  LatchOutlivesRecovery
