CONSTANTS
  NodeCount <- SliceCount
  arg_array <- Mke2fsSlice
  RoundsUp = FALSE
  fuzz_level = 0
  Bitmaps <- AnyBitmap
  Heaps <- Memories
SPECIFICATION FairSelectSpec
INVARIANTS
  SelectTypeOK
  MutexExclusive
  MustChildSelected
  PrunedForPeer
  SelectInv
PROPERTY SelectionTerminates
CHECK_DEADLOCK FALSE
