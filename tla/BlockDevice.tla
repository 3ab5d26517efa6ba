---------------------------- MODULE BlockDevice ----------------------------
(***************************************************************************)
(* The two-unit write-back block device of minemu-core: command registers, *)
(* one request in flight at a time, media held in memory, the sectors      *)
(* written since the last flush, and the host files behind the media.      *)
(*                                                                         *)
(* A DMA address is a RAM sector number; every address that is unaligned   *)
(* or outside RAM is a number outside 0 .. RamSectors - 1.                 *)
(***************************************************************************)
EXTENDS InterruptController

CONSTANTS
  MediaSectors,      \* sectors of each unit's medium; 0 when none is attached
  RamSectors,        \* sectors of RAM reachable by DMA
  SectorValues,      \* contents of a sector
  BlankSector,       \* the content of zeroed RAM and of the initial media
  CompletionDelay    \* ticks from command to completion (32 in the machine)

UNIT_COUNT == 2

Units == 0 .. (UNIT_COUNT - 1)

ASSUME BlockAssumption ==
  /\ MediaSectors \in [Units -> Nat]
  /\ RamSectors \in Nat \ {0}
  /\ BlankSector \in SectorValues
  /\ CompletionDelay \in Nat \ {0}
  /\ \A u \in Units : None \notin [0 .. (MediaSectors[u] - 1) -> SectorValues]

VARIABLES
  block,    \* guest-visible registers and the request in flight
  media,    \* media[u][lba]: the write-back bytes of unit u
  dirty,    \* dirty[u]: sectors written since the last successful flush
  ram,      \* RAM by sector
  file      \* host file of each unit; None after a write that failed midway

Lbas(u) == 0 .. (MediaSectors[u] - 1)

Images(u) == [Lbas(u) -> SectorValues]

RamAddresses == 0 .. (RamSectors - 1)

Attached(u) == u \in Units /\ MediaSectors[u] > 0

BlockErrors == {"None", "NoMedia", "Busy", "InvalidCommand", "InvalidDma",
                "InvalidLba", "DeferredPersistence", "InvalidUnit"}

Requests == [command : Nat, lba : Nat, count : Nat, dma : Int, unit : Nat,
             deadline : Nat]

BlockInit == [ lba |-> 0, count |-> 0, dma |-> 0, unit |-> 0,
               irqEnabled |-> FALSE,
               complete   |-> FALSE,
               error      |-> "None",
               active     |-> None ]

BlankImage(u) == [lba \in Lbas(u) |-> BlankSector]

BlockIrq(b) == b.irqEnabled /\ b.complete

SetLba(b, v) == [b EXCEPT !.lba = v]

SetSectorCount(b, v) == [b EXCEPT !.count = v]

SetDmaAddress(b, v) == [b EXCEPT !.dma = v]

SetUnit(b, v) == [b EXCEPT !.unit = v]

SetBlockControl(b, irqEnabled) == [b EXCEPT !.irqEnabled = irqEnabled]

Request(b, command, now) ==
  [ command |-> command, lba |-> b.lba, count |-> b.count, dma |-> b.dma,
    unit |-> b.unit, deadline |-> now + CompletionDelay ]

\* Mutant: a command written while busy replaces the request in flight.
CommandReplacing(b, command, now) ==
  [b EXCEPT !.complete = FALSE,
            !.error    = "None",
            !.active   = Request(b, command, now)]

\* Mutant: a command leaves the completion of the previous one standing.
CommandKeepingStatus(b, command, now) ==
  IF b.active # None
    THEN [b EXCEPT !.complete = TRUE, !.error = "Busy"]
    ELSE [b EXCEPT !.active = Request(b, command, now)]

Command(b, command, now) ==
  IF b.active # None
    THEN [b EXCEPT !.complete = TRUE, !.error = "Busy"]
    ELSE [b EXCEPT !.complete = FALSE,
                   !.error    = "None",
                   !.active   = Request(b, command, now)]

BlockAck(b) == [b EXCEPT !.complete = FALSE, !.error = "None"]

\* Mutant: a request is missed at its own deadline.
DueLate(b, now) == b.active # None /\ b.active.deadline < now

Due(b, now) == b.active # None /\ b.active.deadline <= now

DmaOutsideRam(r) ==
  r.count = 0 \/ r.dma \notin RamAddresses \/ r.dma + r.count > RamSectors

\* What a request that is due reports, tested in the code's order.
Outcome(r) ==
  IF r.unit \notin Units THEN "InvalidUnit"
  ELSE IF r.command \notin {1, 2} THEN "InvalidCommand"
  ELSE IF DmaOutsideRam(r) THEN "InvalidDma"
  ELSE IF ~Attached(r.unit) THEN "NoMedia"
  ELSE IF r.lba + r.count > MediaSectors[r.unit] THEN "InvalidLba"
  ELSE "None"

Reads(r) == Outcome(r) = "None" /\ r.command = 1

Writes(r) == Outcome(r) = "None" /\ r.command = 2

\* RAM after a request: a read copies the addressed sectors into it.
RamAfter(r, m, mem) ==
  IF Reads(r)
    THEN [a \in RamAddresses |->
            IF a \in r.dma .. (r.dma + r.count - 1)
              THEN m[r.unit][r.lba + (a - r.dma)] ELSE mem[a]]
    ELSE mem

Sectors(r) == r.lba .. (r.lba + r.count - 1)

\* Mutant: a write ignores LBA and stores from the start of the medium.
MediaAfterFromStart(r, m, mem) ==
  IF Writes(r)
    THEN [m EXCEPT ![r.unit] = [lba \in Lbas(r.unit) |->
            IF lba < r.count THEN mem[r.dma + lba] ELSE @[lba]]]
    ELSE m

MediaAfter(r, m, mem) ==
  IF Writes(r)
    THEN [m EXCEPT ![r.unit] = [lba \in Lbas(r.unit) |->
            IF lba \in Sectors(r) THEN mem[r.dma + (lba - r.lba)] ELSE @[lba]]]
    ELSE m

DirtyAfter(r, d) ==
  IF Writes(r) THEN [d EXCEPT ![r.unit] = @ \cup Sectors(r)] ELSE d

Completed(b) ==
  [b EXCEPT !.active = None, !.error = Outcome(b.active), !.complete = TRUE]

FlushFailed(b) ==
  [b EXCEPT !.error = "DeferredPersistence", !.complete = TRUE]

BlockType ==
  [ lba : Nat, count : Nat, dma : Int, unit : Nat,
    irqEnabled : BOOLEAN,
    complete   : BOOLEAN,
    error      : BlockErrors,
    active     : Requests \cup {None} ]

=============================================================================
