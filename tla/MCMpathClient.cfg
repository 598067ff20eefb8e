SPECIFICATION ClientSpec
CONSTANTS
  Commands <- MCCommands
  ShowMaps = "maps"
  Known <- MCKnown
  Overlong = {"overlong"}
  WithNul = {"nul"}
  Invalid = {9}
  Setups <- MCSetups
  NoMaps <- MCNoMaps
  HANG_PARTS = 1
  BACKLOG = 1
  Conns <- MCConns
  Callers = {"main"}
  MAX_REPLY_LEN = 4
  CONNECT_TIMEOUT = 1
  REPLY_TIMEOUT = 2
INVARIANTS
  ClientTypeOK
  RotationIsComplete
  ReplyIsFaithful
  QueryBounded
PROPERTY ConnectionsReleased
