CONSTANTS
  NBlocks = 3
  Data <- Two
  Zero = 0
  CACHE_SIZE = 2
  WRITE_DIRECT_SIZE = 2
  MaxCount = 3
  Channels <- Evicting
  None = None
SPECIFICATION HSpec
PROPERTY FlushIsHonest
