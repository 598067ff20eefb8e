SPECIFICATION DiscoverySpec
CONSTANTS
  VMs <- MCVMs
  LunsOf <- MCLunsOf
  discovery_interval = 60
  discovery_max_retries = 5
  discovery_backoff_base = 1
  discovery_backoff_max = 30
  U64_BITS = 64
  FailureCap = 70
PROPERTY BackoffNeverShrinks
