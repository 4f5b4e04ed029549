CONSTANTS
  NodeCount <- TangleCount
  arg_array <- Tangle
  RoundsUp = TRUE
  fuzz_level = 0
  Bitmaps <- AnyBitmap
  Heaps <- AnyMemory
  MaxCalls = 1
SPECIFICATION FairSpec
INVARIANTS
  TypeOK
  OpenOnce
PROPERTY AllPrinted
CHECK_DEADLOCK FALSE
