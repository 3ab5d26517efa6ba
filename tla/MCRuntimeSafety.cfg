SPECIFICATION Spec
CONSTANTS
  None = None
  CommandCapacity = 1
  InboxCapacity = 1
  InstructionBatch = 2
  ExecutionDeadline = 3
  ScheduledUart <- ScheduledTwo
  StartPaused = FALSE
  Limits = {1}
  Inspections = {}
  Units = {0, 1}
  Addresses <- Addresses1
  Breakpoints = {0}
  MaxBytes = 2
  MaxTicks = 4
INVARIANTS
  RuntimeTypeOK
  SavedOrReported
  HaltedStatusExact
  DeadlineKept
  StopMatchesBreakpoint
  InputInOrder
PROPERTIES
  ScheduledOnTime
  ResumeSkipsOnlyBreakpoint
  LifecycleRefined
CHECK_DEADLOCK FALSE
