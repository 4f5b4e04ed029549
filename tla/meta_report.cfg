CONSTANTS
  Images <- OneImage
  Rand <- Numbers
SPECIFICATION Spec
INVARIANT ReportIsTrue
CHECK_DEADLOCK FALSE
