# A TLA+ verification project for minemu

minemu is a deterministic emulator of a small A32 teaching computer: a Rust
workspace with a guest machine (devices, virtual time, physical memory), an
adapter that runs guest instructions in the Unicorn engine, a runtime service
that owns the machine on a thread of its own, and two front ends (a headless test
runner and a terminal UI). The modules here model the parts in which order, time
and failure matter. Paths below are relative to the repository's `crates/`.

## 1. Inventory

| Component | State | Operations | Interacts with |
|---|---|---|---|
| Interrupt controller (`minemu-core/src/interrupt.rs`) | PENDING, ENABLE, priorities, claim, an unbounded channel of level signals | drain, claim, EOI, register writes | every device sends; bus, adapter and status reads drain |
| SysTick (`systick.rs`) | period, control, pending, absolute deadline | set period/control, ack, advance | one level signal per update and tick |
| UARTs (`uart.rs`) | bounded receive FIFO and transmit history | receive, read, write, control | the runtime delivers bytes outside the bus |
| Block device (`block.rs`) | registers, the request in flight, media, dirty sectors | command, ack, completion with DMA, flush | RAM; host files through the runtime |
| Trace device, event log (`trace.rs`, `machine.rs`) | staged writes, two bounded logs | stage, retire, record | retired by the machine's ticks |
| Machine and bus (`machine.rs`, `bus.rs`) | virtual time, the devices | MMIO access, finish instruction, enter exception, status, reset | owned by the adapter |
| CPU adapter (`minemu-unicorn/src/backend.rs`) | the engine, a deferred exception, what hooks recorded | run up to a budget and a tick deadline | steps the machine; called by the service |
| MMU and virtual TLB (`mmu.rs`, adapter hooks) | TTBR0, enable, VBAR, last fault; the engine's translations | walk, CP15 operations | page tables in RAM |
| Runtime service (`minemu-runtime/src/service.rs`) | lifecycle, limit, pending breakpoint, scheduled input; shared: command channel, UART inbox, status | pause, resume, reset, inspect, shutdown, drop, batches | clients on other threads |
| Headless runner (`minemu/src/runner.rs`) | a runtime handle, the two statuses, the inspections collected | check the manifest, spawn, poll, inspect, shut down, assert | client of the service; reads the media files afterwards |
| Terminal UI (`minemu/src/tui`) | input mode, cached status, pending inspections | tick, actions, commands | client of the service |
| Memory pane (`minemu/src/tui/widgets/primary.rs`) | subview, two cursors and windows, the size of the pane, bytes received | motions, goto, search, resize, refresh, answers | inspections of the service, answered later and in any order |
| Image tools (`minemu-image/src`, `minemu-platform/src/image.rs`) | the inputs of a builder; files | pack, parse, validate, boot plan | the runner and the UI load what the packer wrote, or any other file |
| RNG, MMIO decoding, A32 decoding, exception tables, CLI, container | seed; otherwise none | pure | |

What is hard here, and where it bites, is the list of hazards in `PROJECT.json`:
level signals that travel through a queue drained by some paths only; a block
request that spans many ticks while registers, flushes and resets go on; batches
whose ticks are applied after the fact; exceptions that straddle a tick deadline;
a service that is told things through a bounded channel that may refuse them;
write-back that may fail at any point, half-way included; clients that judge or show a
guest by answers that arrive late; and image files whose ranges meet at their ends.

What makes each component correct:

- controller: PENDING equals the levels the devices assert once the queue is
  received; a claim names the most urgent enabled source and is kept until its own EOI;
- timer: armed exactly while running, for an instant ahead;
- block device: a request keeps the registers it was issued with, completes when
  due, transfers all the sectors it names or none and touches no other, and unsaved data
  stays marked;
- MMU: after TLBIALL every translation in use is the one a walk would give, the
  walks themselves disturb nothing but access bits, and neither ROM nor devices open
  up, whatever the tables hold;
- adapter: never crosses the tick boundary, enters a deferred exception before anything
  else happens to the guest, and commits what a run writes to the trace within that run;
- service: accepted commands take effect, media are saved or the failure is
  published, the status of a halted guest is exact, time-bound input and the
  deadline are exact, a resume skips nothing but the breakpoint it stopped at;
- terminal UI: although it decides from an old copy of the status, the command bar
  pauses the guest and leaves it as the user asked, and a pane ends up showing the
  guest as it is;
- memory pane: a motion leaves the cursor visible in a window of mapped memory, and the
  bytes under the addresses shown are theirs;
- headless runner: its verdict is what is true of the guest the run ended with and of
  the files, and it returns;
- image tools: exactly the valid files are accepted, a packed image holds its inputs and
  nothing else, and booting an accepted image loads every segment intact.

## 2. Modules

```
InterruptController <- SysTick, Uart, BlockDevice <- Machine <- Backend
                                                        |          |
                                                 MachineProofs  BackendProofs
Mmu <- MmuProofs
Lifecycle <- Runtime <- RuntimeProofs
                     <- Tui <- TuiProofs
                     <- Runner <- RunnerProofs
Image <- ImageProofs
MemoryPane <- MemoryPaneProofs
```

- `InterruptController`, `SysTick`, `Uart`, `BlockDevice`: the state of one device
  each and its operations as operators on that state, named after the methods.
- `Machine`: composes the devices on the bus. One action per register access, per
  tick and per host operation. `Bus` is the draining of the signal channel that
  ends every access; `Queue` is a signal sent outside the bus.
- `Backend`: extends `Machine` with the adapter's `run`: a run is *Executing* (one
  step per instruction, virtual time frozen), *Retiring* (the ticks, one by one),
  perhaps *Entering* an exception, then *Idle*, when the runtime owns the machine.
- `Mmu`: the walker, the CP15 operations that control it, and the translations the
  engine keeps. `Fill` is the hook `virtual_tlb_callback`, which guest misses (`Miss`)
  and host inspections (`InspectVirtual`) share. The history variable `changed` says
  whether tables, TTBR0 or SCTLR.M changed since the last TLBIALL, that is, whether the
  guest owes one; `failed` remembers which access the recorded fault is about.
- `Lifecycle`: the abstract specification of what a client may observe of a
  service's lifecycle.
- `Runtime`: the service thread and its clients. Its points are the places where
  the thread can be overtaken: *Starting*, *Commands* (`try_recv`), *Waiting*
  (`recv_timeout`), *Running* (one batch), *Stopping* (between the announcement and
  the write-back), *Done*.
- `Tui`: extends `Runtime` with one client, the terminal UI. A turn of its loop is
  `TickStatus` (copy the status), `TickPoll` (collect answers), `Process` (one queued
  action at a time), `Event` (a key or a click becomes actions) and `Process` again;
  the service thread may step between any two of them. `Processing` an action sends at
  most one command, which a full channel may refuse.
- `Runner`: extends `Runtime` with the other client, `minemu test` and `minemu run
  --headless`. `Spawn`, `Poll`, `TakeExecutionStatus`, four times `Ask` and `Receive`,
  `Close`, `TakeShutdownStatus` and the two assertions are the steps of `run_image` and
  of `execute` in order; `Serve` is a step of the service between any two of them.
- `Image`: the packer (`AddModule`, `Build`), any other file (the `Alter` actions change
  fields of a packed one), the parser (`Parse`) and the boot plan applied step by step
  (`BootPlan`, `ApplyCopy`, `WriteBootInfo`). `ValidFile` is the format document's
  definition over sets of bytes, against which the parser's comparisons of range ends
  are checked.
- `MemoryPane`: the primary pane of the inspect view, one action per event it handles,
  one per kind of answer, and the failure of any request.
- `MC*`: the values of set-valued constants of the instances.
- `*Proofs`: the theorems. `TuiProofs` and `RunnerProofs` also extend `RuntimeProofs`, whose
  invariant they contain.

How code is abstracted. A DMA address is a RAM sector; a sector's content is a
value of a small set; a host file is the image it holds, or `None` when a write
stopped midway. An unaligned or outside address is a number outside RAM. Guest
code is any sequence of accesses (`Access`), which is what the adapter sees of it.
In `Mmu` an address is a page number, a page is RAM, ROM, a device or unmapped, and a
word is its valid bit, its page and its set of low bits; one word type serves both
levels because the code reads raw words. The engine (external) keeps a translation per
page, kind of access and privilege, as the adapter's tests
`read_tlb_entry_does_not_bypass_later_write_protection` and
`ttbr_switch_requires_and_honors_tlbiall` show, and may drop one to make room. Any store
counts as a change of the tables: `CoherentTlb` then claims less, never more. CP15 reads
change nothing and have no action; errors of the engine itself (a flush that fails, an
access to an unmapped physical page with the MMU off) end the run and are left out.
In `Runtime` the guest is its time, its program counter in words and the units whose
media are not saved; a batch may do to it whatever `Backend` allows: no more than
`budget + 1` ticks and never over the boundary (`RunLength`, `DeadlineRespected`). A
batch of no ticks is possible (a guest at its end address). One of the two UART
inboxes is modelled: they are independent and identical. Status texts are reduced to
their kind. `run_batch` never returns `Err`, so that arm of the service loop has no
action; a reset's engine is assumed to accept its program counter. Undecodable MMIO
accesses appear as faults of the adapter, not as bus accesses.

In `Tui` a pane has one inspection it requests (it is neither scrolled nor switched to
another subview), an answer is the guest it describes, and a poll collects all answers
that have arrived at once. The space key and the key after it are one event: the mode
between them touches nothing. A command that neither runs, stops nor shows anything
(help, `:set`, `:translate`, a text that does not parse) closes the bar as a cancel does.
`suppress_input_resume` is kept clear while no bar has paused a guest, since it is read
only together with `resume_after_input`. Three parts of the state are history and decide
nothing: `asked` (what the user wants of the guest when the bar closes), `refused` (panes
whose last request the channel refused) and `unseen` (the guest changed since the App
last saw its status change).

In `Runner` what an inspection shows is represented by the program counter of the guest
it was taken from, and what a test expects of it by one such value; that the four
answers come from one guest is what `VerdictExact` has to establish. A text that is
empty is expected of every output and needs none. The `pause` and `wait_for` behind the
polling loop are never reached: the loop ends only when the guest no longer runs, and
no one else resumes it. A manifest that does not parse and a file that cannot be read
are `Refuse`.

In `Image` a file is what its bytes decode to, with sizes and addresses scaled down: a
record is two bytes, an instruction two, RAM eight. Tables are occupied before they are
decoded, so no two records are read from the same bytes. Fields that must hold a fixed
value are one flag per record, a name is a number which is also its length, a payload
byte is its owner and its linked address. What occupies the file is a set of spans, and the
tables are in the order of a stable sort (`SortedBy`), as Rust's `sort_by` is. In `MemoryPane` bytes are represented by the
window they answer, and a match of a search is chosen when it is requested. The history
variable `lost` holds the requests the channel refused or the service failed: the pane
then keeps what it has, and a dialog says so. Differences of 32 bits that go below zero
are computed as a build without overflow checks computes them.

## 3. Runs

| Run | Instance | Shows |
|---|---|---|
| `machine_irq` | one UART of capacity 1, SysTick periods 1 and 2, an empty block unit, 3 ticks, 2 queued signals | `TypeOK`, `PendingMatchesLevels`, `TimerArmed`, `ClaimRetained`, `ClaimIsMostUrgent` |
| `machine_block` | units of one and two sectors, two sectors of RAM, two contents, delay 1, 2 ticks | `RequestDueAhead`, `CompletionHonest`, `UnsavedIsDirty`, `RequestSnapshotKept`, `OnlyRequestedSectorsChange` |
| `backend` | budgets and deadlines of 1 and 2, a synchronous exception, a fault, both stops, SysTick interrupts, 5 ticks | `DeadlineRespected`, `RunLength`, `TraceInRun`, `DeferredExceptionEntered` |
| `runtime_safety` | channel of 1, inbox of 1, batches of 2, deadline 3, inputs at two ticks, two units, a breakpoint at the entry | the safety properties of the service and `LifecycleRefined` |
| `runtime_live` | channel of 2, an inspection, no deadline, one tick of guest time and then batches of none for ever | `ShutdownStops`, `InspectionAnswered`, `PauseTakesEffect` |
| `tui` | channel of 2, batches of 1, runs without a limit and of one instruction, one pane, one tick, resets | `BarPausesGuest`, `BarHonoured`, `PaneCurrent` |
| `mmu` | tables of two entries, a ROM page that names a table, two RAM pages that serve as directory, table and data, a device, a hole, room for two translations | `MmuTypeOK`, `CoherentTlb`, `TlbIsolated`, `OnlyAccessBitsWritten` |
| `runner` | a channel of 1, batches of 1, deadline 2, an input at tick 1, two units, two runs and fourteen tests that differ in what they expect and are given | `VerdictExact`, `RunnerReturns` |
| `image` | kernels of one to three segments around the bootstrap entry, the workspace and the end of RAM, up to two of five modules, then up to two altered fields | `ParseExact`, `BuildFaithful`, `BootLoads` |
| `memory_pane` | three regions of eight bytes with gaps, an address space of sixteen, panes of 1x2, 3x2 and 2x4 bytes, two requests in flight, five events | `ShownBytesCurrent`, `MotionShowsCursor` |
| `runtime_shutdown`, `memory_pane_resize` | | the first two findings of section 5 |

Bounds. `MaxTicks` stops virtual time, `MaxQueued` the signals and staged writes a
host can pile up, `MaxBytes` the bytes clients send. They are enough for the cases
that matter: a timer that expires twice and is changed in between, a request that
meets a busy rejection, a flush failure, an acknowledgement and its completion, an
exception on either side of a deadline, an inbox that overflows, a deadline that
coincides with an input. Where the interesting state is a full queue, the capacity
is 1. In `runtime_safety`, `MaxTicks` lies beyond the deadline, so that an overrun would
show. In `tui` the channel of 2 is the smallest
that both accepts a pause and a request and refuses the next command; one tick is enough
because a reset starts virtual time again, so that the guest changes without end.
`runner` sets the deadline one
tick below `MaxTicks`. In `image`, `MaxModules` of 2 meets equal names, the order of
names and the tables of two modules; `MaxAltered` of 2 lets two fields be wrong together
(a segment and its table, an address and its alias, a size and an offset), and
`Offsets`, `Lengths` and `Addresses` contain the values on both sides of every limit. In
`memory_pane`, `MaxEvents` of 5 is a change of view, a subview, two sizes and a motion;
of the `Counts`, 3 crosses a row, a window and, with the words, the gap between two regions,
and 17 is more than an address can hold;
`MaxPending` of 2 lets an old answer arrive after a newer request.
`mmu` needs no bound on time: its state is finite. The other runs have
`CHECK_DEADLOCK FALSE`: their models stop at `MaxTicks`, and the service really ends.

Fairness. `Runtime`'s `Spec` has weak fairness of the service thread (the operating
system schedules it; none of its steps waits for anything but time) and of the
return of `join` once the thread has ended. Clients are under no obligation.
`PauseTakesEffect` and `ShutdownStops` need no fairness of a single action: the
service receives all commands between two batches. `Runner` adds weak
fairness of the runner's own thread (`Step`), which the operating system schedules too:
its polling loop sleeps and looks again, and its calls return once the service has
answered. `RunnerReturns` excuses one case, a guest that runs for ever without reaching
its deadline: the deadline counts virtual time, which does not pass for a guest at its
end address. `Tui`, `Image` and `MemoryPane` state safety only, without
fairness. `PaneCurrent` excludes one case (`unseen`): the App notices changes by comparing
statuses, so a guest that changes and comes back to an equal status between two looks (a
reset after a run, back at the state it had shown) is not noticed.

## 4. Proofs

All theorems hold for every value of the constants that satisfies the named
assumptions of the modules.

`MachineProofs`: `TypeOK` is inductive by itself. `PendingMatchesLevels` rests on one
lemma about `Drained` (receiving a sequence and then one more signal sets that source
to its level and leaves the others), `TimerArmed` and `RequestDueAhead` are inductive
with the type, `CompletionHonest` and `UnsavedIsDirty` likewise. The action properties
(`RequestSnapshotKept`, `OnlyRequestedSectorsChange`, `ClaimRetained`,
`ClaimIsMostUrgent`) follow from the type, the last one also from `PendingMatchesLevels`,
since the controller decides from PENDING what is promised of the levels. `ClaimRetained`
names the steps that may not touch a held claim, all but the EOI of its own source and a
reset; draining signals into the controller, which most of them do, changes PENDING only
(`ClaimKept`), and a second read of the claim register finds the claim held (`HeldClaimStays`).
`OnlyRequestedSectorsChange` also says what a completion did: by `RequestDueAhead` the only
step that arrives at the deadline is the tick that executes the request, and
`TransferEffect` shows that it moved every sector named, or none and reported an error.

`BackendProofs`: every action of the adapter contains an action of `Machine` or leaves its
variables alone, so the inductive steps of `MachineProofs` can be cited
(`BackendStepIsMachineStep`). For `DeadlineRespected` and `RunLength` the inductive
invariant counts what a run may still cost in each phase: the instructions not yet retired and the entry that
may follow fit below the boundary and within the budget. `DeferredExceptionEntered` needs
that no batch is under way while an exception waits (`DeferredIdle`). For `TraceInRun` the
invariant (`TracePending`) says that while writes are staged the run still owes a tick: of an
instruction that completed, or of the trap that ended the batch. The case that needs it is
a fetch that faults uncounted right after a single instruction: taking the fault off the
count leaves no completed instruction, and the entry's tick is what commits the write.

`MmuProofs`: `CoherentTlb` is inductive together with the type, because of one fact
(`MarkingIsHarmless`): a word that a walk marks has just granted an access, so one of its
permission bits is set, so no walk that succeeded can have read it as a directory entry,
whose low bits must be clear; and Accessed and Dirty decide nothing. That holds for
self-mapped tables too. `TlbIsolated` follows from `CoherentTlb` and the adapter's refusal
of device fetches (`FetchesNoDevice`).

`RuntimeProofs`: the inductive invariant is the conjunction of the type, the agreement
of the thread's point with what it has published (`ThreadConsistent`), the safety
properties, that a pending breakpoint is one the guest stands on (`BreakpointKnown`),
and that the scheduled inputs left are not behind virtual time (`InputsAhead`). The action
properties and `LifecycleRefined` follow from it step by step.

`RunnerProofs`: every step of the composition is a step of `Runtime` or leaves it alone
(`RunnerTakesRuntimeSteps`), so the invariant of `RuntimeProofs` holds. To it `RunnerInv` adds what a
runner may have queued (`OnlyInspections`), that a guest seen halted never runs again
(`StaysHalted`), that therefore what was collected describes the guest the service still
holds (`CollectedCurrent`), and that the verdict was computed from it (`Judged`).
`VerdictExact` follows, with `SavedOrReported` for the files.

`TuiProofs`: `TuiInv` is the invariant of `RuntimeProofs` together with the shape of the
App's action queue (`ActionsShape`), that while a bar that paused the guest is open nothing
queued sets the guest going but what the user asked for (`BarHolds`), that a queued
inspection is awaited and the only one of its pane (`InspectionsAwaited`), that an answer
not yet polled describes the guest of now unless a change is still unnoticed
(`AnswersFresh`), and that a pane shows the guest, has an answer that does, or has a request
under way (`PanesHold`). The App's polling resets `reply`, which no client of `Runtime`
does, so `TickPollPreserves` shows separately that the service's invariant survives it.

`MemoryPaneProofs`: `PaneInv` says that the pane has a size it can have and cursors that are
addresses of memory (`Placed`), that its windows have that size and begin with a row,
wherever they are (`Settled`), that searches find mapped addresses (`FindsMapped`), and
`ShownBytesCurrent`. It does not say that windows are mapped, which the finding of section 5
refutes; `MotionShowsCursor` holds all the same, because a motion places a window that does
not show its cursor anew. The arithmetic is about `RoundDown` and regions of whole rows.

`ImageProofs`: `ParsesExact` shows, for files of any number of records, that comparing
range ends decides the disjointness of sets of bytes that `ValidFile` asks for, except for
an empty range, which overlaps what it lies inside and shares no byte with it
(`EmptyTableInside`; of the tables only the module table can be empty in a valid file). For
`BootLoads` the invariant says that the segments already copied are in place and what lies
outside them is untouched; a later copy disturbs no earlier one because `KernelValid` separates them. For
`BuildFaithful` the packer's layout is characterised (`PlacedFacts`, `EndToEnd`): its spans
lie one behind the other, so no two share a byte, every payload byte is stored once, and the
tables found through the header are the inputs in order. Until a field is altered the file
is what the packer wrote (`BuildInv`).

Assumptions. They are the named `ASSUME`s of the modules, which TLC evaluates on every
instance. The ones that say more than a type: the runner inspects what `Order` lists, its
guests start running, have a deadline and no limit of instructions, and only tests have media
assertions (`RunnerAssumption`); regions and the address space are whole rows,
and a window fits every region (`PaneAssumption`: the regions are 64 KiB and more, rows 4 or
8 bytes, so a terminal of fewer than 8192 lines); the boot workspace lies in RAM and RAM's
two aliases are apart (`ImageAssumption`), as the constants of `mmap.rs` have it.

Recursion. The provers cannot instantiate an induction theorem. Facts about recursive
functions (`Placed`) and the existence of sorted orders are proved by least counterexample
instead (`LeastElement`, from the library's `WFMin`, which takes a set and no operator).

What proving changed. Three statements or definitions did not survive: `PaneCurrent` spoke
of every guest the App last saw paused, and is false when a resume fails at a breakpoint, so
it is stated for a guest whose published lifecycle is `Paused`; a `CASE` of `Tui` had overlapping arms;
and the sort of `Image` was undefined on equal keys, where Rust's is stable.

Only model-checked: the four liveness properties (`ShutdownStops`, `InspectionAnswered`,
`PauseTakesEffect`, `RunnerReturns`), since fairness and `ENABLED` are out of the prover's
reach. Every other property of a passing run is a theorem.

## 5. Findings

Three runs show that the code does not do what it or the documents say.

1. `runtime_shutdown` (`ShutdownReturns`): `shutdown` ignores that a full channel
   refused its command and then waits for the thread (`service.rs:109`).
2. `memory_pane_resize` (`WindowMapped`): `ensure_cursor_visible` decides from a range of
   the previous size whether the cursor is visible. Move the cursor to the second row of
   RAM, make the pane one row high, make it larger again: the new start is the cursor
   less the window, below the region, and the difference to its base underflows
   (`primary.rs:338`, `343`, `346`), which panics where overflow is checked and otherwise
   requests a window outside mapped memory. `primary.rs:348` asserts "cursor window
   remains in mapped memory".
3. `image` (`ParseExact`, `ValidAccepted`): `parse` occupies the module table also when it has
   no records (`format.rs:58`), and the comparison of range ends lets a span without bytes
   overlap the one it lies inside (`format.rs:235`, `272`). A file without modules whose
   `module_table_offset` is in the middle of the header, the kernel table or a payload is
   refused; `docs/platform/system-image-v1.md:149` (VALID-001) says "Empty ranges occupy no
   bytes." `ValidFile` is the document's definition. `ParseExact`, which holds, says that these
   are the only valid files refused; `ValidAccepted`, which says that none is, is violated
   in the same instance: pack a kernel without modules, set the offset to 3, parse. The
   packer never writes such a file (`BuildFaithful`).

Five more promises the code does not keep are stated in the modules and checked by no
run; giving one to TLC as an invariant or property of the run in parentheses shows it.

- `TraceTicksExact` (`backend`): a batch's trace writes are all committed with
  the tick after the batch's first instruction (`backend.rs:207`, `trace.rs:39`), while
  `docs/platform/devices-v1.md` (TRACE-001) promises the tick of the issuing
  instruction and `docs/dev/headless-testing.md` that the batch size does not affect
  timing precision. (Needs `LogCapacity` of 2.)
- `FaultAddressVirtual` (`mmu`): an MMIO access the bus rejects is recorded with its
  physical address (`backend.rs:594`, `922`, `951`); FAULT-003 of
  `docs/platform/exceptions-and-mmu-v1.md` requires the faulting virtual address.
- `FaultIsGuests` (`mmu`): inspecting virtual memory that is not mapped goes
  through the guest's hook and replaces DFSR and DFAR (`backend.rs:840`); FAULT-005 says
  they are kept until another fault or reset.
- `CancelKeepsLimit` (`tui`): opening the command bar over a run of COUNT
  instructions drops the limit, and cancelling resumes without one (`tui/app.rs:334`,
  `service.rs:650`); `docs/dev/tui.md` calls the pause temporary and promises a pause
  after COUNT instructions.
- `BootPlanTotal` (`image`): `parse` accepts a segment without payload whose offset lies
  outside the image (a test of `minemu-image` asks for it), and `boot_plan`, used by
  tests only, slices the image with that offset and panics (`boot.rs:35`).

Some remarks that are not findings. A retained claim is claimed again, so an interrupt
unmasked before EOI is entered although its device no longer asserts it; the documents
retain the claim and also ask for a claimable source at entry.
In the memory pane, a request that fails leaves the bytes of the window before
under the new addresses (`ShownBytesCurrent` excludes it: the dialog reports the failure),
the virtual window opens at the program counter of the last execution inspection,
however old, and `nav_disassembly` multiplies without saturating. The documented enable
sequence (CP15-004) invalidates
before it sets SCTLR.M; translations filled in between, with the MMU off, survive, so
`CoherentTlb` needs the TLBIALL after the change that CP15-003 asks for. And a supervisor
fetch from a device page that a table makes executable is refused after the walk has set
Accessed, which WALK-006 allows or forbids depending on whether the translation or the
access is meant.

## 6. Plan

1. `Mmu` composed with the adapter: CP15 operations as stops of a run.
2. `MemoryPane` composed with `Tui`; the secondary pane's and the console's scroll
   positions and their polling.
3. MMIO decoding and the RNG as pure algorithms.

## 7. Not modelled

The UI's drawing and layout and argument parsing (output only); the reading of ELF, TOML
and hexadecimal text (third-party crates and conversions with no state); the contents of
inspections; the boot ROM's instructions, instruction decoding and exception tables
(pure tables); the RNG; host time. `PROJECT.json` lists every component with its status.
