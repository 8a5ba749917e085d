SPECIFICATION Spec
CONSTANTS
  N = 1
  Callers <- OneTask
  Devices = {"timer"}
  EVENT_QUEUE_SIZE = 2
  Failures = {}
INVARIANTS
  TickNeverBlocks
CHECK_DEADLOCK FALSE
