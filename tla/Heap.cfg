SPECIFICATION Spec
CONSTANTS
  PAGE_SIZE = 4096
  HEADER_SIZE = 24
  Sizes = {1024, 2048}
  Pages = {p1, p2, p3, p4}
  Managed = {p1, p2, p3}
  LayoutSizes <- MCLayoutSizes
  None = None
SYMMETRY Symmetry
INVARIANTS
  SlotsExact
  PartialExact
  PagesAccounted
  ObjectsPlaced
PROPERTY
  NullMeansExhausted
