\* Interrupt levels, the timer and the claim: UART bytes, SysTick and an idle
\* block unit without media, whose commands complete with an error.
SPECIFICATION Spec
CONSTANTS
  None = None
  Bytes = {0}
  RxCapacity = 1
  TxCapacity = 1
  MediaSectors <- NoMedia
  RamSectors = 1
  SectorValues = {0}
  BlankSector = 0
  CompletionDelay = 2
  TraceValues = {}
  LogCapacity = 1
  ExceptionKinds = {}
  EnableWrites <- ClaimEnables
  PriorityWrites <- UartLast
  RamWrites = {}
  ActivePorts = {"Uart0"}
  PeriodWrites = {1, 2}
  ControlWrites <- TimerControls
  RegisterWrites <- NoRegisterWrites
  CommandWrites = {1}
  MaxTicks = 3
  MaxQueued = 2
INVARIANTS TypeOK PendingMatchesLevels TimerArmed
PROPERTIES ClaimRetained ClaimIsMostUrgent
CHECK_DEADLOCK FALSE
