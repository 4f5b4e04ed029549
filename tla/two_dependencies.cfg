CONSTANTS
  NodeCount <- TwoDependenciesCount
  arg_array <- TwoDependencies
  RoundsUp = FALSE
  fuzz_level = 0
  Bitmaps <- AnyBitmap
  Heaps <- CleanMemory
  MaxCalls = 1
SPECIFICATION Spec
INVARIANTS
  DependenciesSelected
CHECK_DEADLOCK FALSE
