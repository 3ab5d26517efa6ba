------------------------------- MODULE Backend -------------------------------
(***************************************************************************)
(* The Unicorn adapter of minemu-unicorn. A run executes up to a budget of *)
(* guest instructions in one engine call and only then accounts for their  *)
(* ticks, so every MMIO access of the batch sees the virtual time at which *)
(* the batch began. It then enters the exception that ended the batch, or  *)
(* delivers an interrupt. A run given a tick deadline never crosses it: a  *)
(* synchronous exception whose entry would is deferred to a later run.     *)
(***************************************************************************)
EXTENDS Machine

CONSTANTS
  SyncKinds,     \* exceptions raised by an instruction that itself costs a tick
  FaultKinds,    \* exceptions raised instead of completing an instruction
  Budgets,       \* instruction budgets the runtime passes
  Horizons       \* distances to the tick deadlines the runtime passes

\* Instructions that end the batch and complete.
StopKinds == {"Breakpoint", "Cp15"}

ASSUME BackendAssumption ==
  /\ SyncKinds \cap FaultKinds = {}
  /\ "Interrupt" \notin SyncKinds \cup FaultKinds
  /\ SyncKinds \cup FaultKinds \cup {"Interrupt"} \subseteq ExceptionKinds
  /\ StopKinds \cap (SyncKinds \cup FaultKinds) = {}
  /\ None \notin SyncKinds \cup FaultKinds \cup StopKinds
  /\ Budgets \subseteq Nat \ {0}
  /\ Horizons \subseteq Nat

VARIABLES
  cpu,   \* [masked : CPSR.I, deferred : an exception still to be entered]
  run    \* the run in progress, or the last one when it is idle

backendVars == <<vars, cpu, run>>

\* CPSR.I is set when the engine is created (the Cortex-A9 reset value).
CpuInit == [masked |-> TRUE, deferred |-> None]

IdleRun == [ phase |-> "Idle", budget |-> 0, deadline |-> None, started |-> 0,
             executed |-> 0, trap |-> None, left |-> 0, entering |-> None ]

Deadlines == {None} \cup {ticks + h : h \in Horizons}

Reached(deadline) == deadline # None /\ deadline <= ticks

Clipped(budget, deadline) ==
  IF deadline # None /\ deadline - ticks < budget THEN deadline - ticks ELSE budget

Begin(budget, deadline, phase) ==
  [ IdleRun EXCEPT !.phase = phase, !.budget = budget, !.deadline = deadline,
                   !.started = ticks ]

-----------------------------------------------------------------------------
(* Before the batch *)

\* A run that may not pass its deadline yet returns at once and changes nothing.
ResumeDeferredException(budget, deadline) ==
  /\ run.phase = "Idle" /\ cpu.deferred # None /\ ~Reached(deadline)
  /\ EnterException(cpu.deferred)
  /\ cpu' = [masked |-> TRUE, deferred |-> None]
  /\ run' = Begin(budget, deadline, "Idle")

\* Mutant: a batch starts although an exception waits to be entered.
StartableEarly(deadline) == run.phase = "Idle" /\ ~Reached(deadline)

Startable(deadline) ==
  run.phase = "Idle" /\ cpu.deferred = None /\ ~Reached(deadline)

\* With a deadline, an interrupt is looked for first. deliver_irq reads the
\* claim, then enters; nothing runs between the two.
DeliverIrqFirst(budget, deadline) ==
  /\ Startable(deadline) /\ deadline # None /\ ~cpu.masked
  /\ ReadClaim /\ intc'.claim # None
  /\ run' = [Begin(budget, deadline, "Entering") EXCEPT !.entering = "Interrupt"]
  /\ UNCHANGED cpu

StartBatch(budget, deadline) ==
  /\ Startable(deadline)
  /\ IF deadline # None /\ ~cpu.masked
       THEN ReadClaim /\ intc'.claim = None
       ELSE UNCHANGED vars
  /\ run' = Begin(Clipped(budget, deadline), deadline, "Executing")
  /\ UNCHANGED cpu

-----------------------------------------------------------------------------
(* The batch *)

\* One instruction: an access, a change of CPSR.I, or neither.
Execute ==
  /\ run.phase = "Executing" /\ run.executed < run.budget
  /\ run' = [run EXCEPT !.executed = @ + 1]
  /\ \/ Access /\ UNCHANGED cpu
     \/ \E masked \in BOOLEAN : cpu' = [cpu EXCEPT !.masked = masked]
                                /\ UNCHANGED vars

\* The budget is spent, or the engine stopped early (end address, error).
StopBatch ==
  /\ run.phase = "Executing"
  /\ run' = [run EXCEPT !.phase = "Retiring", !.left = run.executed]
  /\ UNCHANGED <<vars, cpu>>

\* Mutant: the trapping instruction is accounted as completed as well.
TrapCompleting(kind, counted) ==
  /\ run.phase = "Executing" /\ run.executed < run.budget
  /\ counted \/ kind \in FaultKinds
  /\ LET executed == IF counted THEN run.executed + 1 ELSE run.executed
     IN  run' = [run EXCEPT !.phase = "Retiring", !.executed = executed,
                            !.trap = kind, !.left = executed]
  /\ UNCHANGED <<vars, cpu>>

\* An instruction that ends the batch. The instruction counter has counted it,
\* so one that did not complete is taken off again; whether a fetch that faults
\* was counted is up to the engine.
Trap(kind, counted) ==
  /\ run.phase = "Executing" /\ run.executed < run.budget
  /\ counted \/ kind \in FaultKinds
  /\ LET executed  == IF counted THEN run.executed + 1 ELSE run.executed
         completed == IF kind \in StopKinds \/ executed = 0 THEN executed
                                                           ELSE executed - 1
     IN  run' = [run EXCEPT !.phase = "Retiring", !.executed = executed,
                            !.trap = kind, !.left = completed]
  /\ UNCHANGED <<vars, cpu>>

-----------------------------------------------------------------------------
(* After the batch *)

\* The ticks of the batch's completed instructions, one by one.
Retire ==
  /\ run.phase = "Retiring" /\ run.left > 0
  /\ FinishInstruction
  /\ run' = [run EXCEPT !.left = @ - 1]
  /\ UNCHANGED cpu

Retiring(trap) == run.phase = "Retiring" /\ run.left = 0 /\ run.trap = trap

\* Mutant: the entry of a trapped instruction is never deferred.
FinishSynchronousNow(kind) ==
  /\ Retiring(kind) /\ kind \in SyncKinds
  /\ FinishInstruction
  /\ run' = [run EXCEPT !.phase = "Entering", !.entering = kind]
  /\ UNCHANGED cpu

FinishSynchronousException(kind) ==
  /\ Retiring(kind) /\ kind \in SyncKinds
  /\ FinishInstruction
  /\ IF run.deadline # None /\ ticks + 1 = run.deadline
       THEN /\ cpu' = [cpu EXCEPT !.deferred = kind]
            /\ run' = [run EXCEPT !.phase = "Idle"]
       ELSE /\ run' = [run EXCEPT !.phase = "Entering", !.entering = kind]
            /\ UNCHANGED cpu

\* Mutant: the entry of a fault is recorded but costs no tick.
FinishFaultFree(kind) ==
  /\ Retiring(kind) /\ kind \in FaultKinds
  /\ events' = Append(events, [exception |-> kind])
  /\ UNCHANGED <<intcVars, systick, uarts, blockVars, ticks, staged, trace>>
  /\ cpu' = [cpu EXCEPT !.masked = TRUE]
  /\ run' = [run EXCEPT !.phase = "Idle"]

FinishFault(kind) ==
  /\ Retiring(kind) /\ kind \in FaultKinds
  /\ EnterException(kind)
  /\ cpu' = [cpu EXCEPT !.masked = TRUE]
  /\ run' = [run EXCEPT !.phase = "Idle"]

FinishStop(kind) ==
  /\ Retiring(kind) /\ kind \in StopKinds
  /\ run' = [run EXCEPT !.phase = "Idle"]
  /\ UNCHANGED <<vars, cpu>>

FinishBatch ==
  /\ Retiring(None)
  /\ UNCHANGED cpu
  /\ IF Reached(run.deadline) \/ cpu.masked
       THEN UNCHANGED vars /\ run' = [run EXCEPT !.phase = "Idle"]
       ELSE /\ ReadClaim
            /\ run' = IF intc'.claim = None
                        THEN [run EXCEPT !.phase = "Idle"]
                        ELSE [run EXCEPT !.phase = "Entering",
                                         !.entering = "Interrupt"]

\* The tick of the entry, the event, and the CPSR the vector starts with.
Enter ==
  /\ run.phase = "Entering"
  /\ EnterException(run.entering)
  /\ cpu' = [cpu EXCEPT !.masked = TRUE]
  /\ run' = [run EXCEPT !.phase = "Idle"]

-----------------------------------------------------------------------------
(* Between runs the runtime owns the machine; a reset replaces the backend. *)

HostStep ==
  /\ run.phase = "Idle"
  /\ \/ HostAccess /\ UNCHANGED <<cpu, run>>
     \/ Reset /\ cpu' = CpuInit /\ run' = IdleRun

BackendInit == Init /\ cpu = CpuInit /\ run = IdleRun

BackendNext ==
  \/ \E budget \in Budgets : \E deadline \in Deadlines :
       \/ ResumeDeferredException(budget, deadline)
       \/ DeliverIrqFirst(budget, deadline)
       \/ StartBatch(budget, deadline)
  \/ Execute
  \/ StopBatch
  \/ \E kind \in SyncKinds \cup FaultKinds \cup StopKinds, counted \in BOOLEAN :
       Trap(kind, counted)
  \/ Retire
  \/ \E kind \in SyncKinds : FinishSynchronousException(kind)
  \/ \E kind \in FaultKinds : FinishFault(kind)
  \/ \E kind \in StopKinds : FinishStop(kind)
  \/ FinishBatch
  \/ Enter
  \/ HostStep

BackendSpec == BackendInit /\ [][BackendNext]_backendVars

-----------------------------------------------------------------------------
(* Properties *)

BackendTypeOK ==
  /\ cpu \in [masked : BOOLEAN, deferred : SyncKinds \cup {None}]
  /\ run \in [ phase    : {"Idle", "Executing", "Retiring", "Entering"},
               budget   : Nat, deadline : Nat \cup {None}, started : Nat,
               executed : Nat, left : Nat,
               trap     : SyncKinds \cup FaultKinds \cup StopKinds \cup {None},
               entering : SyncKinds \cup {"Interrupt", None} ]

\* Virtual time never crosses the boundary a run was given, whichever mixture of
\* completed instructions, faults, deferred or immediate exception entries and
\* interrupts the run goes through (run_with_tick_deadline).
DeadlineRespected == run.deadline # None => ticks <= run.deadline

\* A run costs at most one tick more than its budget: the entry of the exception
\* or interrupt that ends it.
RunLength == ticks <= run.started + run.budget + 1

\* An exception deferred at a deadline is the next thing that happens to the
\* guest: no instruction, tick or interrupt comes before its entry.
DeferredExceptionEntered ==
  [][cpu.deferred # None =>
       \/ UNCHANGED <<cpu, run, ticks>>
       \/ /\ cpu'.deferred = None
          /\ events' # <<>>
          /\ events'[Len(events')] = [exception |-> cpu.deferred]
       \/ run' = IdleRun /\ ticks' = 0]_backendVars

\* What a run's instructions write to the trace is committed by that run, with its first
\* tick: however the batch ends, a fetch fault that the engine has not counted included,
\* no write is left for a later run to commit or for the host to miss in the log
\* (run_with_tick_deadline, TraceDevice::retire).
TraceInRun ==
  staged # <<>> => run.phase \in {"Executing", "Retiring"} /\ ticks = run.started

\* Each trace write of a run carries the tick its own instruction retires at, so
\* two writes never share one (an instruction writes the device once). The code does
\* not satisfy it: README, section 5.
TraceTicksExact ==
  \A i, j \in 1 .. Len(trace) : i < j => trace[i].tick < trace[j].tick

=============================================================================
