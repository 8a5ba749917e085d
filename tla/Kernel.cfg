SPECIFICATION FairSpec
CONSTANTS
  N = 3
  Callers <- OneTask
  Devices = {"timer", "event", "byte"}
  EVENT_QUEUE_SIZE = 2
  Failures = {"fault", "panic"}
INVARIANTS
  TypeOK
  SerialNeverContended
  EntryIsMasked
  RunsCurrent
  TickWaitsOnlyForBoot
PROPERTIES
  EveryTaskRuns
  SyscallsReturn
CHECK_DEADLOCK FALSE
