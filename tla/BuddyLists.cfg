SPECIFICATION Spec
CONSTANTS
  MAX_ORDER = 3
  MAX_PAGES = 8
  Frames <- MCFrames
  None = None
  Junk = Junk
INVARIANTS
  DoublyLinked
PROPERTY
  Refinement
