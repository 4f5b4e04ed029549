CONSTANTS
  Images <- AllImages
  Rand <- Numbers
SPECIFICATION FairSpec
INVARIANTS
  TypeOK
  InsideImage
  InsideMetadata
PROPERTY Ends
CHECK_DEADLOCK FALSE
