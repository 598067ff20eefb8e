SPECIFICATION FairSpec
CONSTANT SysRqSequences <- MCSysRqSequences
INVARIANTS
  TypeOK
  RebootAttempted
  SequenceIsWritten
PROPERTIES
  SyncPrecedesRest
  SequenceEnds
