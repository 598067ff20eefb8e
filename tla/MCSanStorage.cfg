SPECIFICATION SanSpec
CONSTANTS
  VMs <- MCVMs
  Config <- MCConfig
  Attached <- MCAttached
  Section = Section
  NoNumber = NoNumber
  DmDevices <- MCDevices
  Worlds <- MCWorlds
  Modes <- MCModes
INVARIANTS
  SanTypeOK
  LunsAreExact
PROPERTY DiscoveryEnds
