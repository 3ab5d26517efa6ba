SPECIFICATION TuiSpec
CONSTANTS
  None = None
  CommandCapacity = 2
  InboxCapacity = 0
  InstructionBatch = 1
  ExecutionDeadline = None
  ScheduledUart <- ScheduledNone
  StartPaused = TRUE
  Limits = {1}
  Inspections = {"Primary"}
  Units = {}
  Addresses <- AddressesOne
  Breakpoints = {}
  MaxBytes = 0
  MaxTicks = 1
  Panes <- PanesOne
INVARIANTS
  BarPausesGuest
  PaneCurrent
PROPERTIES
  BarHonoured
CHECK_DEADLOCK FALSE
