SPECIFICATION Spec
CONSTANTS
  PAGE_SIZE = 4
  HUGE_PAGE_SIZE = 8
  MAX_RANGES = 3
  MemoryMaps <- MCMemoryMaps
  Counts = {0, 1, 2, 3}
  None = None
INVARIANTS
  FramesConserved
  AllocNeverPanics
  NoneMeansNoMemoryWhenMerged
PROPERTIES
  MergedAfterFree
  AnswersFit
CHECK_DEADLOCK FALSE
