\* Block requests on two units of one and two sectors, write-back and reset;
\* the timer is off and no UART is in use.
SPECIFICATION Spec
CONSTANTS
  None = None
  Bytes = {0}
  RxCapacity = 1
  TxCapacity = 1
  MediaSectors <- TwoUnits
  RamSectors = 2
  SectorValues = {0, 1}
  BlankSector = 0
  CompletionDelay = 1
  TraceValues = {}
  LogCapacity = 1
  ExceptionKinds = {}
  EnableWrites = {}
  PriorityWrites = {}
  RamWrites <- FirstSector
  ActivePorts = {}
  PeriodWrites = {}
  ControlWrites <- TimerOff
  RegisterWrites <- BlockRegisterWrites
  CommandWrites = {1, 2}
  MaxTicks = 2
  MaxQueued = 2
INVARIANTS RequestDueAhead CompletionHonest UnsavedIsDirty
PROPERTIES RequestSnapshotKept OnlyRequestedSectorsChange
CHECK_DEADLOCK FALSE
