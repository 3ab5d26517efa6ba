SPECIFICATION RunnerSpec
CONSTANTS
  None = None
  CommandCapacity = 1
  InboxCapacity = 0
  InstructionBatch = 1
  ExecutionDeadline = 2
  ScheduledUart <- ScheduledOne
  StartPaused = FALSE
  Limits = {}
  Inspections = {"Peripherals", "Mmu", "Events", "Execution"}
  Units = {0, 1}
  Addresses <- AddressesTwo
  Breakpoints = {0}
  MaxBytes = 0
  MaxTicks = 3
  Jobs <- SmallJobs
  RamBase = 4
  RamSize = 4
INVARIANT VerdictExact
PROPERTY RunnerReturns
CHECK_DEADLOCK FALSE
