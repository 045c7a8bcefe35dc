CONSTANTS
  Sources = {s1}
  NoSource = NoSource
  SessionErrors = {"500"}
  None = None
  MaxCalls = 2
SPECIFICATION FairSpec
CHECK_DEADLOCK FALSE
PROPERTY SyncEnds
PROPERTY ImplementsInterface
