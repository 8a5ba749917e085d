SPECIFICATION Spec
CONSTANTS
  N = 3
  Callers = {0}
  Gens = {0, 1}
  QuietStart = TRUE
INVARIANTS
  UserRegistersKept
  CallsWellFormed
PROPERTY
  ResumesExactly
