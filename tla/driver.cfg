CONSTANTS
  tmp = tmp
  other = other
  Dirs <- TwoDirs
  DefaultDir = tmp
  MaxRuns = 4
SPECIFICATION Spec
INVARIANTS TypeOK AgesItsOwnImage CleanWhenFinished
PROPERTY NeverFormatsMounted
CHECK_DEADLOCK FALSE
