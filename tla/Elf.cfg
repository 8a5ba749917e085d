SPECIFICATION Spec
CONSTANTS
  PAGE_SIZE = 2
  StackBottom = 8
  USER_STACK_TOP = 10
  ADDRESS_END = 16
  KernelPages = {12}
  Files <- MCFiles
  Frames = {f1, f2, f3, f4, f5, f6}
  MaxLoads = 2
SYMMETRY Symmetry
INVARIANTS
  ImageExact
  FramesAccounted
  LoadsExactlyLoadable
CHECK_DEADLOCK FALSE
