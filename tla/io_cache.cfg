CONSTANTS
  NBlocks = 3
  Data <- Two
  Zero = 0
  CACHE_SIZE = 2
  WRITE_DIRECT_SIZE = 2
  MaxCount = 3
  Channels <- Reporting
  None = None
SPECIFICATION Spec
INVARIANTS UniqueCopies CleanIsOnDisk IoInv
PROPERTIES IsBlockStore WritesThrough
