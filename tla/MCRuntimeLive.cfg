SPECIFICATION Spec
CONSTANTS
  None = None
  CommandCapacity = 2
  InboxCapacity = 0
  InstructionBatch = 1
  ExecutionDeadline = None
  ScheduledUart <- ScheduledNone
  StartPaused = TRUE
  Limits = {1}
  Inspections = {i1}
  Units = {}
  Addresses <- Addresses2
  Breakpoints = {1}
  MaxBytes = 0
  MaxTicks = 1
PROPERTIES
  ShutdownStops
  InspectionAnswered
  PauseTakesEffect
CHECK_DEADLOCK FALSE
