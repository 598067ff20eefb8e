SPECIFICATION FairSpec
CONSTANTS
  Threads <- MCThreads
  Main = "main"
  Keys <- MCKeys
  KeysOf <- MCKeysOf
  Prefixes <- MCPrefixes
  WriterIds = {w1, w2}
  None = None
  MaxVersion = 2
INVARIANTS
  TypeOK
  OneWriter
  SnapshotStaysCurrent
  FlushCoversExit
  QuietFileIsCurrent
PROPERTIES
  FileNeverGoesBack
  ImplementsRegister
  ChangesArePublished
  QueuedWriterProceeds
