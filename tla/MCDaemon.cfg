SPECIFICATION ObserverSpec
CONSTANTS
  Missing = Missing
  MapNames = {"a"}
  Replies <- MCReplies
  ActiveSets <- MCActiveSets
  target_wwids = {}
  max_failures = 2
  U64_MAX = 3
  VMs <- MCVMs
  LunsOf <- MCLunsOf
  discovery_interval = 2
  discovery_max_retries = 0
  discovery_backoff_base = 1
  discovery_backoff_max = 1
  U64_BITS = 1
  FailureCap = 2
  poll_interval = 1
  QueryTicks = 1
  DiscoveryTicks = 1
  MaxLag = 2
  FaultSets <- MCFaultSets
  Watch <- MCWatch
INVARIANTS
  AllTypesOK
  SustainedLossFences
  BlindnessIsVisible
PROPERTY DecisionsUseCurrentVMs
