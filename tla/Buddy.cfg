SPECIFICATION FairSpec
CONSTANTS
  MAX_ORDER = 3
  MAX_PAGES = 8
  Frames <- MCFrames
INVARIANTS
  TypeOK
  NoOverlap
  BitmapAgrees
  FullyMerged
  MergeFindsBuddy
  PagesConserved
PROPERTIES
  NoneMeansNoRun
  CallsReturn
