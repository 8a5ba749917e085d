SPECIFICATION Spec
CONSTANTS
  N = 3
  Callers <- TwoOfThree
  Devices = {"timer"}
  EVENT_QUEUE_SIZE = 2
  Failures = {}
INVARIANTS
  SyscallFrameIntact
CHECK_DEADLOCK FALSE
