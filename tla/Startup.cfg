SPECIFICATION Spec
CONSTANTS
  PAGE_SIZE = 4096
  HUGE_PAGE_SIZE = 8192
  MAX_RANGES = 3
  MemoryMaps <- MCMemoryMaps
  Counts = {1}
  HEADER_SIZE = 24
  Sizes = {2048}
  Pages <- MCPages
  LayoutSizes = {2000, 4096}
  None = None
  MAX_PAGES = 4
  Modes <- MCModes
  MaxTables = 2
INVARIANTS
  HandoverExact
PROPERTY
  BytesRouted
CHECK_DEADLOCK FALSE
