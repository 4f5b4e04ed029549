CONSTANTS
  NodeCount <- Mke2fsCount
  arg_array <- Mke2fsTree
  RoundsUp = FALSE
  fuzz_level = 0
  Bitmaps <- FewBitmaps
  Heaps <- CleanMemory
  MaxCalls = 1
SPECIFICATION Spec
INVARIANTS
  MutexExclusive
  MustChildSelected
  EmittedOnce
  BuffersSuffice
CHECK_DEADLOCK FALSE
