\* Runs of one and two instructions with and without a deadline, the timer as
\* the interrupt source, traps of every kind.
SPECIFICATION BackendSpec
CONSTANTS
  None = None
  Bytes = {0}
  RxCapacity = 1
  TxCapacity = 1
  MediaSectors <- NoMedia
  RamSectors = 1
  SectorValues = {0}
  BlankSector = 0
  CompletionDelay = 1
  TraceValues = {0}
  LogCapacity = 1
  ExceptionKinds = {"Interrupt", "SupervisorCall", "DataAbort"}
  EnableWrites <- AllSources
  PriorityWrites = {}
  RamWrites = {}
  ActivePorts = {}
  PeriodWrites = {1}
  ControlWrites <- TimerIrq
  RegisterWrites <- NoRegisterWrites
  CommandWrites = {}
  MaxTicks = 5
  MaxQueued = 2
  SyncKinds = {"SupervisorCall"}
  FaultKinds = {"DataAbort"}
  Budgets = {1, 2}
  Horizons = {1, 2}
INVARIANTS DeadlineRespected RunLength 
PROPERTIES DeferredExceptionEntered
CHECK_DEADLOCK FALSE
