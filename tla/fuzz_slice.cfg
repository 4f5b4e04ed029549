CONSTANTS
  NodeCount <- SliceCount
  arg_array <- Mke2fsSlice
  RoundsUp = FALSE
  fuzz_level = 0
  Bitmaps <- AnyBitmap
  Heaps <- CleanMemory
  MaxCalls = 2
SPECIFICATION Spec
INVARIANTS
  MustHavesSelected
  DependenciesSelected
  SelectionJustified
  EmittedOnce
  ChildInsideParent
  ArgsSeparated
  NoDanglingOperator
  NoJunk
CHECK_DEADLOCK FALSE
