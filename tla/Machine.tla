------------------------------ MODULE Machine ------------------------------
(***************************************************************************)
(* The single-owner guest machine of minemu-core: the devices on the MMIO  *)
(* bus, virtual time, and the bounded observation logs. An MMIO access     *)
(* drains the devices' level signals before it returns; bytes delivered by *)
(* the runtime and a failed flush leave theirs queued on the channel.      *)
(***************************************************************************)
EXTENDS SysTick, Uart, BlockDevice

CONSTANTS
  TraceValues,      \* values the guest writes to the trace device
  LogCapacity,      \* entries the trace and event logs hold (4096)
  ExceptionKinds,   \* exceptions the CPU adapter enters
  \* what the guest may write: the accesses decode_mmio admits
  EnableWrites,     \* sets of sources written to ENABLE
  PriorityWrites,   \* pairs of a source and a priority byte
  PeriodWrites,     \* SysTick periods
  ControlWrites,    \* sets of SysTick control bits
  RegisterWrites,   \* [lba, count, dma, unit -> set of values]
  CommandWrites,    \* block commands
  RamWrites,        \* pairs of a RAM sector and the content stored there
  ActivePorts,      \* the UARTs in use
  \* bounds of a finite instance
  MaxTicks,         \* virtual time at which the model stops
  MaxQueued         \* signals on the channel and staged trace writes

ASSUME MachineAssumption ==
  /\ LogCapacity \in Nat \ {0}
  /\ EnableWrites \subseteq SUBSET Sources
  /\ PriorityWrites \subseteq Sources \X PriorityValues
  /\ PeriodWrites \subseteq Nat \ {0}
  /\ ControlWrites \subseteq SUBSET ControlBits
  /\ DOMAIN RegisterWrites = {"lba", "count", "dma", "unit"}
  /\ RegisterWrites["lba"] \subseteq Nat
  /\ RegisterWrites["count"] \subseteq Nat
  /\ RegisterWrites["dma"] \subseteq Int
  /\ RegisterWrites["unit"] \subseteq Nat
  /\ CommandWrites \subseteq Nat
  /\ RamWrites \subseteq RamAddresses \X SectorValues
  /\ ActivePorts \subseteq Ports
  /\ MaxTicks \in Nat
  /\ MaxQueued \in Nat

VARIABLES
  ticks,    \* virtual time
  staged,   \* trace writes of instructions that have not retired
  trace,    \* committed trace events
  events    \* observable events: trace events and exceptions

intcVars  == <<intc, channel>>
blockVars == <<block, media, dirty, ram, file>>
logVars   == <<staged, trace, events>>
vars      == <<intc, channel, systick, uarts, block, media, dirty, ram, file,
               ticks, staged, trace, events>>

-----------------------------------------------------------------------------
(* Level signals *)

\* The interrupt level each device asserts now.
Level(s) ==
  CASE s = "SysTick" -> SysTickIrq(systick)
    [] s \in Ports   -> UartIrq(uarts[s])
    [] s = "Block"   -> BlockIrq(block)

\* A bus access that leaves the controller at c and has queued `sent`.
Bus(c, sent) ==
  /\ intc' = ProcessSignals(c, channel \o sent)
  /\ channel' = <<>>

\* A signal queued outside the bus; the next drain receives it.
Queue(sent) ==
  /\ Len(channel) + Len(sent) <= MaxQueued
  /\ channel' = channel \o sent
  /\ UNCHANGED intc

\* configured_machine attaches media through the device's update function,
\* which queues one signal per attachment.
AttachSignals(n) == [i \in 1 .. n |-> Signal("Block", FALSE)]

AttachedCount == (IF Attached(0) THEN 1 ELSE 0) + (IF Attached(1) THEN 1 ELSE 0)

-----------------------------------------------------------------------------
(* Interrupt-controller registers *)

\* A read without side effect, of any device, still drains the channel.
ReadRegister ==
  /\ Bus(intc, <<>>)
  /\ UNCHANGED <<systick, uarts, blockVars, ticks, logVars>>

WriteEnable(sources) ==
  /\ Bus(SetEnabled(intc, sources), <<>>)
  /\ UNCHANGED <<systick, uarts, blockVars, ticks, logVars>>

WritePriority(s, priority) ==
  /\ Bus(SetPriority(intc, s, priority), <<>>)
  /\ UNCHANGED <<systick, uarts, blockVars, ticks, logVars>>

\* Mutant: the claim is chosen before the queued signals are received.
ReadClaimStale ==
  /\ Bus(Claim(intc), <<>>)
  /\ UNCHANGED <<systick, uarts, blockVars, ticks, logVars>>

ReadClaim ==
  /\ Bus(Claim(ProcessSignals(intc, channel)), <<>>)
  /\ UNCHANGED <<systick, uarts, blockVars, ticks, logVars>>

\* Any other value is rejected and changes nothing.
WriteEoi(id) ==
  /\ EoiAccepted(intc, id)
  /\ Bus(Eoi(intc), <<>>)
  /\ UNCHANGED <<systick, uarts, blockVars, ticks, logVars>>

-----------------------------------------------------------------------------
(* SysTick registers: every update ends by sending the level *)

SysTickUpdate(t) ==
  /\ systick' = t
  /\ Bus(intc, <<Signal("SysTick", SysTickIrq(t))>>)
  /\ UNCHANGED <<uarts, blockVars, ticks, logVars>>

WritePeriod(period) == SysTickUpdate(SetPeriod(systick, period, ticks))

WriteControl(bits) == SysTickUpdate(SetControl(systick, bits, ticks))

WriteSysTickAck == SysTickUpdate(SysTickAck(systick))

-----------------------------------------------------------------------------
(* UART registers *)

ReadRxData(p) ==
  /\ uarts' = [uarts EXCEPT ![p] = ReadRx(@)]
  /\ Bus(intc, <<Signal(p, UartIrq(ReadRx(uarts[p])))>>)
  /\ UNCHANGED <<systick, blockVars, ticks, logVars>>

\* Transmission has no interrupt and sends no signal.
WriteTxData(p, byte) ==
  /\ uarts' = [uarts EXCEPT ![p] = WriteTx(@, byte)]
  /\ Bus(intc, <<>>)
  /\ UNCHANGED <<systick, blockVars, ticks, logVars>>

WriteUartControl(p, irqEnabled) ==
  /\ uarts' = [uarts EXCEPT ![p] = SetUartControl(@, irqEnabled)]
  /\ Bus(intc, <<Signal(p, UartIrq(SetUartControl(uarts[p], irqEnabled)))>>)
  /\ UNCHANGED <<systick, blockVars, ticks, logVars>>

\* The runtime hands a host byte straight to the port, outside the bus.
DeliverUart(p, byte) ==
  /\ uarts' = [uarts EXCEPT ![p] = Receive(@, byte)]
  /\ Queue(<<Signal(p, UartIrq(Receive(uarts[p], byte)))>>)
  /\ UNCHANGED <<systick, blockVars, ticks, logVars>>

-----------------------------------------------------------------------------
(* Block-device registers: every update ends by sending the level *)

BlockUpdate(b) ==
  /\ block' = b
  /\ Bus(intc, <<Signal("Block", BlockIrq(b))>>)
  /\ UNCHANGED <<systick, uarts, media, dirty, ram, file, ticks, logVars>>

WriteBlockRegister(register, v) ==
  BlockUpdate(CASE register = "lba"   -> SetLba(block, v)
                [] register = "count" -> SetSectorCount(block, v)
                [] register = "dma"   -> SetDmaAddress(block, v)
                [] register = "unit"  -> SetUnit(block, v))

WriteBlockControl(irqEnabled) == BlockUpdate(SetBlockControl(block, irqEnabled))

WriteBlockCommand(command) == BlockUpdate(Command(block, command, ticks))

WriteBlockAck == BlockUpdate(BlockAck(block))

-----------------------------------------------------------------------------
(* Trace device, guest RAM *)

WriteTrace(value) ==
  /\ Len(staged) < MaxQueued
  /\ staged' = Append(staged, value)
  /\ Bus(intc, <<>>)
  /\ UNCHANGED <<systick, uarts, blockVars, ticks, trace, events>>

StoreRam(address, value) ==
  /\ ram' = [ram EXCEPT ![address] = value]
  /\ UNCHANGED <<intcVars, systick, uarts, block, media, dirty, file, ticks,
                 logVars>>

-----------------------------------------------------------------------------
(* Virtual time *)

\* Pushing one by one onto a queue that drops its oldest entry when full.
KeepLast(queue, capacity) ==
  IF Len(queue) <= capacity
    THEN queue
    ELSE SubSeq(queue, Len(queue) - capacity + 1, Len(queue))

TraceEvent(tick, value) == [tick |-> tick, value |-> value]

Retired(tick) == [i \in 1 .. Len(staged) |-> TraceEvent(tick, staged[i])]

\* Machine::advance_ticks(1), then the events the caller records.
AdvanceTicks(recorded) ==
  LET now  == ticks + 1
      t    == SysTickAdvanceTo(systick, now)
      due  == Due(block, now)
      b    == IF due THEN Completed(block) ELSE block
      sent == <<Signal("SysTick", SysTickIrq(t))>>
                \o (IF due THEN <<Signal("Block", BlockIrq(b))>> ELSE <<>>)
  IN  /\ ticks < MaxTicks
      /\ ticks' = now
      /\ systick' = t
      /\ block' = b
      /\ ram'   = IF due THEN RamAfter(block.active, media, ram) ELSE ram
      /\ media' = IF due THEN MediaAfter(block.active, media, ram) ELSE media
      /\ dirty' = IF due THEN DirtyAfter(block.active, dirty) ELSE dirty
      /\ Bus(intc, sent)
      /\ staged' = <<>>
      /\ trace'  = KeepLast(trace \o Retired(now), LogCapacity)
      /\ events' = KeepLast(events \o Retired(now) \o recorded, LogCapacity)
      /\ UNCHANGED <<uarts, file>>

FinishInstruction == AdvanceTicks(<<>>)

EnterException(kind) == AdvanceTicks(<<[exception |-> kind]>>)

-----------------------------------------------------------------------------
(* Host side: observation, write-back, reset *)

\* Machine::status and MmioBus::inspect drain the channel.
Observe ==
  /\ Bus(intc, <<>>)
  /\ UNCHANGED <<systick, uarts, blockVars, ticks, logVars>>

\* Mutant: a failed flush forgets the dirty sectors.
FlushForgetting(u) ==
  /\ Attached(u) /\ dirty[u] # {}
  /\ dirty' = [dirty EXCEPT ![u] = {}]
  /\ \/ /\ file' = [file EXCEPT ![u] = media[u]]
        /\ UNCHANGED <<block, intcVars>>
     \/ /\ \E damaged \in {file[u], None} : file' = [file EXCEPT ![u] = damaged]
        /\ block' = FlushFailed(block)
        /\ Queue(<<Signal("Block", BlockIrq(FlushFailed(block)))>>)
  /\ UNCHANGED <<systick, uarts, media, ram, ticks, logVars>>

\* Writing the whole medium to the host file succeeds, or fails and leaves
\* the file as it was or damaged; a clean unit is not written at all.
Flush(u) ==
  /\ Attached(u) /\ dirty[u] # {}
  /\ \/ /\ file' = [file EXCEPT ![u] = media[u]]
        /\ dirty' = [dirty EXCEPT ![u] = {}]
        /\ UNCHANGED <<block, intcVars>>
     \/ /\ \E damaged \in {file[u], None} : file' = [file EXCEPT ![u] = damaged]
        /\ block' = FlushFailed(block)
        /\ Queue(<<Signal("Block", BlockIrq(FlushFailed(block)))>>)
        /\ UNCHANGED dirty
  /\ UNCHANGED <<systick, uarts, media, ram, ticks, logVars>>

\* Emulator::reset once its flush has left no unit dirty: a fresh machine with
\* media read back from the host files.
Reset ==
  /\ \A u \in Units : dirty[u] = {}
  /\ intc' = IntcInit
  /\ channel' = AttachSignals(2 * AttachedCount)
  /\ systick' = SysTickInit
  /\ uarts' = [p \in Ports |-> UartInit]
  /\ block' = BlockInit
  /\ media' = [u \in Units |-> IF Attached(u) THEN file[u] ELSE media[u]]
  /\ ram' = [a \in RamAddresses |-> BlankSector]
  /\ ticks' = 0
  /\ staged' = <<>> /\ trace' = <<>> /\ events' = <<>>
  /\ UNCHANGED <<dirty, file>>

-----------------------------------------------------------------------------
Init ==
  /\ intc = IntcInit
  /\ channel = AttachSignals(AttachedCount)
  /\ systick = SysTickInit
  /\ uarts = [p \in Ports |-> UartInit]
  /\ block = BlockInit
  /\ media = [u \in Units |-> BlankImage(u)]
  /\ dirty = [u \in Units |-> {}]
  /\ ram = [a \in RamAddresses |-> BlankSector]
  /\ file = media
  /\ ticks = 0
  /\ staged = <<>> /\ trace = <<>> /\ events = <<>>

\* What one guest instruction does to the machine while it executes, an EOI aside.
OtherAccess ==
  \/ ReadRegister
  \/ \E sources \in EnableWrites : WriteEnable(sources)
  \/ \E w \in PriorityWrites : WritePriority(w[1], w[2])
  \/ ReadClaim
  \/ \E period \in PeriodWrites : WritePeriod(period)
  \/ \E bits \in ControlWrites : WriteControl(bits)
  \/ WriteSysTickAck
  \/ \E p \in ActivePorts : ReadRxData(p)
  \/ \E p \in ActivePorts, byte \in Bytes : WriteTxData(p, byte)
  \/ \E p \in ActivePorts, irqEnabled \in BOOLEAN : WriteUartControl(p, irqEnabled)
  \/ \E register \in DOMAIN RegisterWrites :
       \E v \in RegisterWrites[register] : WriteBlockRegister(register, v)
  \/ \E irqEnabled \in BOOLEAN : WriteBlockControl(irqEnabled)
  \/ \E command \in CommandWrites : WriteBlockCommand(command)
  \/ WriteBlockAck
  \/ \E value \in TraceValues : WriteTrace(value)
  \/ \E w \in RamWrites : StoreRam(w[1], w[2])

Access == OtherAccess \/ \E s \in Sources : WriteEoi(SourceId[s])

Tick == FinishInstruction \/ \E kind \in ExceptionKinds : EnterException(kind)

Guest == Access \/ Tick

\* What the runtime does to the machine between runs.
HostAccess ==
  \/ \E p \in ActivePorts, byte \in Bytes : DeliverUart(p, byte)
  \/ Observe
  \/ \E u \in Units : Flush(u)

Host == HostAccess \/ Reset

Next == Guest \/ Host

Spec == Init /\ [][Next]_vars

-----------------------------------------------------------------------------
(* Properties *)

LogEntries ==
  [tick : Nat, value : TraceValues] \cup [exception : ExceptionKinds]

\* Every variable of the machine holds a value of its type.
TypeOK ==
  /\ intc \in IntcType
  /\ channel \in Seq(Signals)
  /\ systick \in SysTickType
  /\ uarts \in [Ports -> UartType]
  /\ block \in BlockType
  /\ media \in [Units -> UNION {Images(u) : u \in Units}]
  /\ \A u \in Units : media[u] \in Images(u)
  /\ dirty \in [Units -> SUBSET Nat]
  /\ ram \in [RamAddresses -> SectorValues]
  /\ file \in [Units -> (UNION {Images(u) : u \in Units}) \cup {None}]
  /\ \A u \in Units : file[u] \in Images(u) \cup {None}
  /\ ticks \in Nat
  /\ staged \in Seq(TraceValues)
  /\ trace \in Seq([tick : Nat, value : TraceValues])
  /\ events \in Seq(LogEntries)

\* No level change is ever lost or resurrected on its way to the controller:
\* receiving what is queued leaves PENDING equal to the levels the devices
\* assert, whichever of the bus, the runtime's direct byte delivery, a failed
\* flush or a reset queued the signals (process_signals, signal_interrupt).
PendingMatchesLevels ==
  Drained(intc.pending, channel) = {s \in Sources : Level(s)}

\* A running SysTick is armed, for an instant that is still ahead and at most
\* one period away; a stopped one is not (set_period, set_control, advance_to).
TimerArmed ==
  /\ systick.deadline # None =>
       /\ systick.enabled
       /\ ticks < systick.deadline
       /\ systick.deadline <= ticks + systick.period
  /\ systick.enabled /\ systick.period # 0 => systick.deadline # None

\* A request in flight is due within the completion delay and has not been
\* missed (command, advance_to).
RequestDueAhead ==
  block.active # None =>
    /\ ticks < block.active.deadline
    /\ block.active.deadline <= ticks + CompletionDelay

\* STATUS never shows success while a request is in flight, nor an error
\* without completion, whatever mixture of busy rejections, failed flushes,
\* acknowledgements and completions preceded it.
CompletionHonest ==
  /\ block.complete /\ block.error = "None" => block.active = None
  /\ block.error # "None" => block.complete

\* Guest data that the host file does not hold is marked for write-back, also
\* after a flush that failed midway and after a reset.
UnsavedIsDirty ==
  \A u \in Units : Attached(u) /\ file[u] # media[u] => dirty[u] # {}

\* A claim is kept until the EOI of its own source or a reset: no other access (a
\* second claim, new enables or priorities, a drain in which its level falls), no tick,
\* nothing the host does and no EOI of another source drops it or swaps it
\* (claim, eoi, process_signals).
ClaimRetained ==
  [][intc.claim # None /\ intc'.claim # intc.claim =>
       ~(\/ OtherAccess \/ Tick \/ HostAccess
         \/ \E s \in Sources \ {intc.claim} : WriteEoi(SourceId[s]))]_vars

\* A new claim names an enabled source whose device asserts its level at that
\* moment, and none that also does takes precedence, however the signals
\* reached the controller.
ClaimIsMostUrgent ==
  [][intc.claim = None /\ intc'.claim # None =>
       LET asserted == {s \in intc.enabled : Level(s)}
       IN  /\ intc'.claim \in asserted
           /\ \A t \in asserted \ {intc'.claim} :
                ~Precedes(intc, t, intc'.claim)]_vars

\* The request in flight keeps the register values it was issued with until the
\* tick of its deadline, when it leaves (or a reset drops it).
RequestSnapshotKept ==
  [][block.active # None =>
       \/ block'.active = block.active
       \/ block'.active = None /\ ticks' \in {block.active.deadline, 0}]_vars

\* A request moves all of its sectors or none, and says which: after one that reports
\* success RAM and the medium agree on every sector it names, and only the side it
\* writes has changed, there; after one that reports an error neither has.
Transferred(r) ==
  /\ block'.error # "None" => media' = media /\ ram' = ram
  /\ block'.error = "None" =>
       /\ \A i \in 0 .. (r.count - 1) : ram'[r.dma + i] = media'[r.unit][r.lba + i]
       /\ r.command = 1 => media' = media
       /\ r.command = 2 => ram' = ram
       /\ \A a \in RamAddresses \ (r.dma .. (r.dma + r.count - 1)) : ram'[a] = ram[a]

\* A medium changes only at the deadline of a write request for its own unit,
\* and only in the sectors the request names; a request that completes then has
\* transferred all it names or nothing (execute).
OnlyRequestedSectorsChange ==
  [][/\ \A u \in Units : media'[u] # media[u] =>
          /\ block.active # None
          /\ block.active.unit = u /\ block.active.command = 2
          /\ ticks' = block.active.deadline
          /\ \A lba \in Lbas(u) \ Sectors(block.active) :
               media'[u][lba] = media[u][lba]
     /\ block.active # None /\ ticks' = block.active.deadline => Transferred(block.active)
    ]_vars

=============================================================================
