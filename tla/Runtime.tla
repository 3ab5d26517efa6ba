------------------------------- MODULE Runtime -------------------------------
(***************************************************************************)
(* The emulator service of minemu-runtime: one thread that owns the        *)
(* machine, fed by clients through a bounded command channel and a bounded *)
(* UART inbox, observed through a status record it publishes.              *)
(*                                                                         *)
(* The guest is reduced to what the service can tell apart: virtual time,  *)
(* the program counter, and the units whose media the host files do not    *)
(* hold. A batch obeys the contract of Backend (DeadlineRespected and      *)
(* RunLength): it never crosses its tick boundary and costs at most one    *)
(* tick more than its budget.                                              *)
(***************************************************************************)
EXTENDS Integers, Sequences, FiniteSetsExt

CONSTANTS
  None,
  CommandCapacity,      \* commands the channel holds
  InboxCapacity,        \* bytes the UART inbox holds
  InstructionBatch,     \* instructions of an unbounded batch
  ExecutionDeadline,    \* tick at which the service pauses, or None
  ScheduledUart,        \* ticks of the scheduled inputs, sorted
  StartPaused,
  Limits,               \* limits clients pass to resume_for
  Inspections,          \* inspection requests clients make
  Units,                \* block units backed by a host file
  Addresses,            \* guest addresses, counted in words; 0 is the entry
  Breakpoints,          \* addresses of breakpoint instructions
  MaxBytes,             \* bound: bytes clients send
  MaxTicks              \* bound: virtual time without a deadline

ASSUME RuntimeAssumption ==
  /\ None \notin Int
  /\ None \notin {"Deadline", "Breakpoint", "Limit", "Batch", "Error"}
  /\ CommandCapacity \in Nat \ {0}
  /\ InboxCapacity \in Nat
  /\ InstructionBatch \in Nat \ {0}
  /\ ExecutionDeadline \in Nat \cup {None}
  /\ ScheduledUart \in Seq(Nat)
  /\ \A i, j \in 1 .. Len(ScheduledUart) :
       i < j => ScheduledUart[i] <= ScheduledUart[j]
  /\ StartPaused \in BOOLEAN
  /\ Limits \subseteq Nat \ {0}
  /\ Addresses \subseteq Nat /\ 0 \in Addresses
  /\ Breakpoints \subseteq Addresses /\ \A b \in Breakpoints : b + 1 \in Addresses
  /\ MaxBytes \in Nat
  /\ MaxTicks \in Nat

VARIABLES
  service,     \* the thread: [point, lifecycle, remaining, breakpoint]
  guest,       \* [ticks, pc, unsaved]
  scheduled,   \* scheduled inputs not yet delivered
  status,      \* published: [lifecycle, stop, error, ticks]
  queue,       \* commands accepted and not yet received
  inbox,       \* UART bytes not yet drained
  fed,         \* UART bytes given to the machine
  reply,       \* what became of each inspection request
  handle       \* "Open", "Joining" (inside shutdown), "Joined", "Dropped"

hostVars == <<reply, handle>>
vars == <<service, guest, scheduled, status, queue, inbox, fed, reply, handle>>

Commands ==
  [op : {"Pause", "Reset", "Shutdown"}]
    \cup [op : {"Resume"}, limit : Limits \cup {None}]
    \cup [op : {"Inspect"}, id : Inspections]

Pause == [op |-> "Pause"]
Reset == [op |-> "Reset"]
Shutdown == [op |-> "Shutdown"]
Resume(limit) == [op |-> "Resume", limit |-> limit]
Inspect(id) == [op |-> "Inspect", id |-> id]

Lower(a, b) == IF a < b THEN a ELSE b

-----------------------------------------------------------------------------
(* Clients *)

Alive == service.point # "Done"

\* try_send: a full or disconnected channel refuses the command.
Accepts == Alive /\ Len(queue) < CommandCapacity

Send(command) ==
  /\ handle \in {"Open", "Joining"} /\ Accepts
  /\ queue' = Append(queue, command)
  /\ UNCHANGED <<service, guest, scheduled, status, inbox, fed, hostVars>>

RequestInspection(id) ==
  /\ handle \in {"Open", "Joining"} /\ Accepts /\ reply[id] = "None"
  /\ queue' = Append(queue, Inspect(id))
  /\ reply' = [reply EXCEPT ![id] = "Queued"]
  /\ UNCHANGED <<service, guest, scheduled, status, inbox, fed, handle>>

\* shutdown ignores a refused command, then joins the thread.
ShutdownCall ==
  /\ handle = "Open"
  /\ handle' = "Joining"
  /\ queue' = IF Accepts THEN Append(queue, Shutdown) ELSE queue
  /\ UNCHANGED <<service, guest, scheduled, status, inbox, fed, reply>>

JoinReturns ==
  /\ handle = "Joining" /\ ~Alive
  /\ handle' = "Joined"
  /\ UNCHANGED <<service, guest, scheduled, status, queue, inbox, fed, reply>>

\* Dropping the handle also disconnects the channel.
Drop ==
  /\ handle \in {"Open", "Joined"}
  /\ handle' = "Dropped"
  /\ queue' = IF Accepts THEN Append(queue, Shutdown) ELSE queue
  /\ UNCHANGED <<service, guest, scheduled, status, inbox, fed, reply>>

\* Bytes are numbered in the order they are sent.
SendUart ==
  /\ handle # "Dropped" /\ InboxCapacity > 0
  /\ LET next == 1 + (IF inbox # <<>> THEN inbox[Len(inbox)]
                      ELSE IF fed # <<>> THEN fed[Len(fed)] ELSE 0)
     IN  /\ next <= MaxBytes
         /\ inbox' = Append(IF Len(inbox) = InboxCapacity THEN Tail(inbox) ELSE inbox,
                            next)
  /\ UNCHANGED <<service, guest, scheduled, status, queue, fed, hostVars>>

-----------------------------------------------------------------------------
(* The service thread *)

\* publish keeps an earlier stop or error that it is not given a new one for.
Publish(lifecycle, stop, error) ==
  status' = [ lifecycle |-> lifecycle,
              stop      |-> IF stop = None THEN status.stop ELSE stop,
              error     |-> IF error = None THEN status.error ELSE error,
              ticks     |-> guest'.ticks ]

\* Mutant: the machine's status is not refreshed.
PublishClearingStopStale(lifecycle) ==
  status' = [status EXCEPT !.lifecycle = lifecycle, !.stop = None]

PublishClearingStop(lifecycle) ==
  status' = [status EXCEPT !.lifecycle = lifecycle, !.stop = None,
                           !.ticks = guest'.ticks]

\* Writing the unsaved units back: those in `failed` stay unsaved.
Flushed(failed) == [guest EXCEPT !.unsaved = failed]
FlushError(failed) == IF failed = {} THEN None ELSE "Error"

\* Mutant: the receiving end outlives the thread, and the requests in it.
ExitKeepingQueue ==
  /\ service' = [service EXCEPT !.point = "Done"]
  /\ UNCHANGED <<queue, reply>>

\* The thread ends; the channel goes with it, and so do the queued requests.
Exit ==
  /\ service' = [service EXCEPT !.point = "Done"]
  /\ queue' = <<>>
  /\ reply' = [id \in Inspections |-> IF reply[id] = "Queued" THEN "Stopped"
                                                             ELSE reply[id]]

\* Emulator::new reads the media and creates the engine; either may fail.
Start ==
  /\ service.point = "Starting"
  /\ LET first == IF StartPaused THEN "Paused" ELSE "Running"
     IN  \/ /\ service' = [service EXCEPT !.point = "Commands", !.lifecycle = first]
            /\ UNCHANGED guest
            /\ Publish(first, None, None)
            /\ UNCHANGED <<queue, reply>>
         \/ /\ Exit
            /\ status' = [status EXCEPT !.lifecycle = "Failed", !.error = "Error"]
            /\ UNCHANGED guest
  /\ UNCHANGED <<scheduled, inbox, fed, handle>>

Receiving(op) ==
  /\ service.point \in {"Commands", "Waiting"}
  /\ queue # <<>> /\ Head(queue).op = op

Received == queue' = Tail(queue)

Unhandled == UNCHANGED <<scheduled, inbox, fed, handle>>

\* A command that does not apply in the current state is dropped.
Ignore ==
  /\ \/ Receiving("Pause") /\ service.lifecycle # "Running"
     \/ Receiving("Resume") /\ service.lifecycle # "Paused"
  /\ Received
  /\ service' = [service EXCEPT !.point = "Commands"]
  /\ UNCHANGED <<guest, status, reply>> /\ Unhandled

\* Mutant: a pause reports no flush failure.
DoPauseSilently ==
  /\ Receiving("Pause") /\ service.lifecycle = "Running"
  /\ Received
  /\ service' = [service EXCEPT !.point = "Commands", !.lifecycle = "Paused",
                                !.remaining = None]
  /\ \E failed \in SUBSET guest.unsaved :
       guest' = Flushed(failed) /\ Publish("Paused", None, None)
  /\ UNCHANGED reply /\ Unhandled

\* Mutant: a pause ends the bounded run but not the run.
DoPauseLimitOnly ==
  /\ Receiving("Pause") /\ service.lifecycle = "Running"
  /\ Received
  /\ service' = [service EXCEPT !.point = "Commands", !.remaining = None]
  /\ UNCHANGED guest
  /\ Publish("Running", None, None)
  /\ UNCHANGED reply /\ Unhandled

DoPause ==
  /\ Receiving("Pause") /\ service.lifecycle = "Running"
  /\ Received
  /\ service' = [service EXCEPT !.point = "Commands", !.lifecycle = "Paused",
                                !.remaining = None]
  /\ \E failed \in SUBSET guest.unsaved :
       guest' = Flushed(failed) /\ Publish("Paused", None, FlushError(failed))
  /\ UNCHANGED reply /\ Unhandled

\* A guest paused on a breakpoint instruction resumes behind it.
PastBreakpoint ==
  [guest EXCEPT !.pc = IF service.breakpoint = @ THEN @ + 1 ELSE @]

\* Mutant: the stop that is over stays published.
DoResumeKeepingStop ==
  /\ Receiving("Resume") /\ service.lifecycle = "Paused"
  /\ Received
  /\ guest' = PastBreakpoint
  /\ service' = [service EXCEPT !.point = "Commands", !.lifecycle = "Running",
                                !.remaining = Head(queue).limit,
                                !.breakpoint = None]
  /\ Publish("Running", None, None)
  /\ UNCHANGED reply /\ Unhandled

\* Moving the program counter may fail only when a breakpoint is pending.
DoResume ==
  /\ Receiving("Resume") /\ service.lifecycle = "Paused"
  /\ \/ /\ Received
        /\ guest' = PastBreakpoint
        /\ service' = [service EXCEPT !.point = "Commands", !.lifecycle = "Running",
                                      !.remaining = Head(queue).limit,
                                      !.breakpoint = None]
        /\ PublishClearingStop("Running")
        /\ UNCHANGED reply
     \/ /\ service.breakpoint # None
        /\ Exit
        /\ UNCHANGED guest
        /\ Publish("Failed", None, "Error")
  /\ Unhandled

\* The machine of a reset, once everything is written back.
FreshGuest == [ticks |-> 0, pc |-> 0, unsaved |-> {}]

\* Mutant: the breakpoint of the old machine is kept.
DoResetKeepingBreakpoint ==
  /\ Receiving("Reset")
  /\ Received
  /\ \/ /\ guest' = FreshGuest
        /\ service' = [service EXCEPT !.point = "Commands"]
        /\ PublishClearingStop(service.lifecycle)
     \/ /\ \E failed \in SUBSET guest.unsaved : guest' = Flushed(failed)
        /\ service' = [service EXCEPT !.point = "Commands"]
        /\ Publish(service.lifecycle, None, "Error")
  /\ UNCHANGED reply /\ Unhandled

\* The flush may fail, or the media cannot be read back: the old machine stays.
DoReset ==
  /\ Receiving("Reset")
  /\ Received
  /\ \/ /\ guest' = FreshGuest
        /\ service' = [service EXCEPT !.point = "Commands", !.breakpoint = None]
        /\ PublishClearingStop(service.lifecycle)
     \/ /\ \E failed \in SUBSET guest.unsaved : guest' = Flushed(failed)
        /\ service' = [service EXCEPT !.point = "Commands"]
        /\ Publish(service.lifecycle, None, "Error")
  /\ UNCHANGED reply /\ Unhandled

DoInspect ==
  /\ Receiving("Inspect")
  /\ Received
  /\ reply' = [reply EXCEPT ![Head(queue).id] = "Answered"]
  /\ service' = [service EXCEPT !.point = "Commands"]
  /\ UNCHANGED <<guest, status>> /\ Unhandled

\* Mutant: the service stops without announcing it.
BeginStopSilently ==
  /\ service' = [service EXCEPT !.point = "Stopping"]
  /\ UNCHANGED <<guest, status>>

\* stop publishes Stopping, writes back, then publishes the outcome.
BeginStop ==
  /\ service' = [service EXCEPT !.point = "Stopping"]
  /\ UNCHANGED guest
  /\ Publish("Stopping", None, None)

DoShutdown ==
  /\ Receiving("Shutdown")
  /\ Received
  /\ BeginStop
  /\ UNCHANGED reply /\ Unhandled

\* Mutant: a service whose clients are gone keeps waiting.
DisconnectedIgnored ==
  /\ service.point \in {"Commands", "Waiting"} /\ queue = <<>> /\ handle = "Dropped"
  /\ service' = [service EXCEPT !.point = "Commands"]
  /\ UNCHANGED <<guest, status, queue, reply>> /\ Unhandled

Disconnected ==
  /\ service.point \in {"Commands", "Waiting"} /\ queue = <<>> /\ handle = "Dropped"
  /\ BeginStop
  /\ UNCHANGED <<queue, reply>> /\ Unhandled

FinishStop ==
  /\ service.point = "Stopping"
  /\ \E failed \in SUBSET guest.unsaved :
       /\ guest' = Flushed(failed)
       /\ IF failed = {} THEN Publish("Stopped", None, None)
                         ELSE Publish("Failed", None, "Error")
  /\ Exit
  /\ Unhandled

\* try_recv finds the channel empty: run a batch, or wait for a command.
NoCommand ==
  /\ service.point = "Commands" /\ queue = <<>> /\ handle # "Dropped"
  /\ service' = [service EXCEPT !.point = IF service.lifecycle = "Running"
                                            THEN "Running" ELSE "Waiting"]
  /\ UNCHANGED <<guest, status, queue, reply>> /\ Unhandled

\* recv_timeout expires.
Timeout ==
  /\ service.point = "Waiting" /\ queue = <<>> /\ handle # "Dropped"
  /\ service' = [service EXCEPT !.point = "Commands"]
  /\ UNCHANGED <<guest, status, queue, reply>> /\ Unhandled

-----------------------------------------------------------------------------
(* One turn of a running service *)

\* The inputs at the front of the queue that are due go to the machine.
DeliverScheduled ==
  \E due \in 0 .. Len(scheduled) :
    /\ \A i \in 1 .. due : scheduled[i] <= guest.ticks
    /\ due < Len(scheduled) => scheduled[due + 1] > guest.ticks
    /\ scheduled' = SubSeq(scheduled, due + 1, Len(scheduled))

PastDeadline == ExecutionDeadline # None /\ guest.ticks >= ExecutionDeadline

DeadlineReached ==
  /\ service.point = "Running" /\ PastDeadline
  /\ DeliverScheduled
  /\ service' = [service EXCEPT !.point = "Commands", !.lifecycle = "Paused"]
  /\ \E failed \in SUBSET guest.unsaved :
       guest' = Flushed(failed) /\ Publish("Paused", "Deadline", FlushError(failed))
  /\ UNCHANGED <<queue, inbox, fed, reply, handle>>

\* Mutant: the bytes stay in the inbox.
DrainCopying ==
  /\ fed' = fed \o inbox
  /\ UNCHANGED inbox

Drain ==
  /\ fed' = fed \o inbox
  /\ inbox' = <<>>

\* Mutant: a batch may run over the next scheduled input.
BoundariesWithoutInput == {ExecutionDeadline} \ {None}

\* Mutant: a batch may run over the execution deadline.
BoundariesWithoutDeadline ==
  IF scheduled' = <<>> THEN {} ELSE {Head(scheduled')}

\* The ticks a batch that starts now may not cross.
Boundaries ==
  {boundary \in ({ExecutionDeadline} \ {None})
                  \cup (IF scheduled' = <<>> THEN {} ELSE {Head(scheduled')}) :
     boundary > guest.ticks}

Budget ==
  LET asked == IF service.remaining = None
                 THEN InstructionBatch ELSE Lower(service.remaining, InstructionBatch)
  IN  IF Boundaries = {} THEN asked
      ELSE Lower(asked, Min(Boundaries) - guest.ticks)

\* run_batch: what a batch may make of the guest is what Backend establishes of run and
\* run_until_tick. No batch leaves the model's bound on time.
Batch(after) ==
  /\ after.ticks - guest.ticks \in 0 .. (Budget + 1)
  /\ \A boundary \in Boundaries : after.ticks <= boundary
  /\ after.ticks <= MaxTicks
  /\ after.pc \in Addresses
  /\ guest.unsaved \subseteq after.unsaved /\ after.unsaved \subseteq Units

Guests == [ticks : guest.ticks .. (guest.ticks + InstructionBatch + 1),
           pc : Addresses, unsaved : SUBSET Units]

\* Mutant: the subtraction does not saturate.
LeftNegative(after) ==
  IF service.remaining = None THEN None
  ELSE service.remaining - (after.ticks - guest.ticks)

\* remaining.saturating_sub(executed)
Left(after) ==
  LET executed == after.ticks - guest.ticks
  IN  IF service.remaining = None THEN None
      ELSE IF executed >= service.remaining THEN 0 ELSE service.remaining - executed

\* The turn up to the end of the batch, which leaves the guest as `after`.
Turn(after) ==
  /\ service.point = "Running" /\ ~PastDeadline
  /\ DeliverScheduled
  /\ Drain
  /\ Batch(after)
  /\ UNCHANGED handle

\* The engine fails: what can be written back is, and the service ends.
BatchFails ==
  \E after \in Guests :
    /\ Turn(after)
    /\ \E failed \in SUBSET after.unsaved :
         guest' = [after EXCEPT !.unsaved = failed]
    /\ Publish("Failed", "Error", "Error")
    /\ Exit

\* The guest executed a breakpoint instruction and still stands on it.
BatchHitsBreakpoint ==
  \E after \in Guests :
    /\ Turn(after)
    /\ after.pc \in Breakpoints /\ after.ticks > guest.ticks
    /\ \E failed \in SUBSET after.unsaved :
         /\ guest' = [after EXCEPT !.unsaved = failed]
         /\ Publish("Paused", "Breakpoint", FlushError(failed))
    /\ service' = [service EXCEPT !.point = "Commands", !.lifecycle = "Paused",
                                  !.remaining = None, !.breakpoint = after.pc]
    /\ UNCHANGED <<queue, reply>>

BatchReachesLimit ==
  \E after \in Guests :
    /\ Turn(after)
    /\ Left(after) = 0
    /\ \E failed \in SUBSET after.unsaved :
         /\ guest' = [after EXCEPT !.unsaved = failed]
         /\ Publish("Paused", "Limit", FlushError(failed))
    /\ service' = [service EXCEPT !.point = "Commands", !.lifecycle = "Paused",
                                  !.remaining = None]
    /\ UNCHANGED <<queue, reply>>

\* Any other stop; it is published when the status period has elapsed.
BatchEnds ==
  \E after \in Guests :
    /\ Turn(after)
    /\ Left(after) # 0
    /\ guest' = after
    /\ service' = [service EXCEPT !.point = "Commands", !.remaining = Left(after)]
    /\ Publish("Running", "Batch", None) \/ UNCHANGED status
    /\ UNCHANGED <<queue, reply>>

-----------------------------------------------------------------------------
Init ==
  /\ service = [point |-> "Starting", lifecycle |-> "Starting",
                remaining |-> None, breakpoint |-> None]
  /\ guest = FreshGuest
  /\ scheduled = ScheduledUart
  /\ status = [lifecycle |-> "Starting", stop |-> None, error |-> None, ticks |-> 0]
  /\ queue = <<>> /\ inbox = <<>> /\ fed = <<>>
  /\ reply = [id \in Inspections |-> "None"]
  /\ handle = "Open"

Client ==
  \/ Send(Pause) \/ Send(Reset)
  \/ \E limit \in Limits \cup {None} : Send(Resume(limit))
  \/ \E id \in Inspections : RequestInspection(id)
  \/ ShutdownCall \/ JoinReturns \/ Drop \/ SendUart

Service ==
  \/ Start
  \/ Ignore \/ DoPause \/ DoResume \/ DoReset \/ DoInspect \/ DoShutdown
  \/ Disconnected \/ FinishStop \/ NoCommand \/ Timeout
  \/ DeadlineReached
  \/ BatchFails \/ BatchHitsBreakpoint \/ BatchReachesLimit \/ BatchEnds

Next == Client \/ Service

\* The thread is scheduled until it ends, and the operating system completes a
\* join of a thread that has ended.
Spec == Init /\ [][Next]_vars /\ WF_vars(Service) /\ WF_vars(JoinReturns)

-----------------------------------------------------------------------------
(* Properties *)

Services ==
  [ point      : {"Starting", "Commands", "Waiting", "Running", "Stopping", "Done"},
    lifecycle  : {"Starting", "Running", "Paused"},
    remaining  : Nat \cup {None},
    breakpoint : Addresses \cup {None} ]

Statuses ==
  [ lifecycle : {"Starting", "Running", "Paused", "Stopping", "Stopped", "Failed"},
    stop      : {None, "Deadline", "Breakpoint", "Limit", "Batch", "Error"},
    error     : {None, "Error"},
    ticks     : Nat ]

RuntimeTypeOK ==
  /\ service \in Services
  /\ guest \in [ticks : Nat, pc : Addresses, unsaved : SUBSET Units]
  /\ scheduled \in Seq(Nat)
  /\ status \in Statuses
  /\ queue \in Seq(Commands)
  /\ inbox \in Seq(Nat) /\ fed \in Seq(Nat)
  /\ reply \in [Inspections -> {"None", "Queued", "Answered", "Stopped"}]
  /\ handle \in {"Open", "Joining", "Joined", "Dropped"}

\* Whatever sequence of pauses, resets, breakpoints, limits, errors and shutdowns
\* led there, a guest that does not run has its block media in the host files or
\* a published error, and Stopped is published only when every file is written
\* (stop, publish and Emulator::flush).
SavedOrReported ==
  /\ status.lifecycle \in {"Paused", "Stopped", "Failed"} =>
       guest.unsaved = {} \/ status.error # None
  /\ status.lifecycle = "Stopped" => guest.unsaved = {}

\* The status of a guest that does not run is not stale: its tick is the
\* machine's, also after a reset or a failed one.
HaltedStatusExact ==
  status.lifecycle \in {"Paused", "Stopped", "Failed"} => status.ticks = guest.ticks

\* Virtual time stops at the execution deadline, whatever the instruction batch,
\* the limits of resumes and the scheduled inputs.
DeadlineKept == ExecutionDeadline # None => guest.ticks <= ExecutionDeadline

\* A scheduled input is given to the machine at its tick: never early, and never
\* late because a batch ran over it.
ScheduledOnTime ==
  [][scheduled' # scheduled =>
       \A i \in 1 .. (Len(scheduled) - Len(scheduled')) :
         scheduled[i] = guest.ticks]_vars

\* A resume moves the program counter only when the guest is stopped at the
\* breakpoint instruction it stands on: an instruction is never skipped because
\* of a breakpoint met before a reset.
ResumeSkipsOnlyBreakpoint ==
  [][service.lifecycle = "Paused" /\ service'.lifecycle = "Running"
       /\ guest'.pc # guest.pc
     => status.stop = "Breakpoint" /\ guest.pc \in Breakpoints]_vars

\* A paused service says that it stopped at a breakpoint exactly when a resume
\* will step over one: the published stop is not one of an earlier pause.
StopMatchesBreakpoint ==
  status.lifecycle = "Paused" =>
    (status.stop = "Breakpoint" <=> service.breakpoint # None)

\* The machine receives the bytes clients sent in their order and once each, and
\* loses bytes only while the inbox is full, the oldest first.
InputInOrder ==
  /\ \A i \in 1 .. (Len(fed) - 1) : fed[i] < fed[i + 1]
  /\ \A i \in 1 .. (Len(inbox) - 1) : inbox[i + 1] = inbox[i] + 1
  /\ inbox # <<>> =>
       LET last == IF fed = <<>> THEN 0 ELSE fed[Len(fed)]
       IN  \/ inbox[1] = last + 1
           \/ inbox[1] > last /\ Len(inbox) = InboxCapacity

\* The published lifecycle is one a client may rely on.
Published == INSTANCE Lifecycle WITH state <- status.lifecycle
LifecycleRefined == Published!Spec

\* A queued shutdown, or the loss of the handle, ends the thread, even when the
\* channel was full at that moment and the guest runs for ever.
ShutdownStops ==
  (handle = "Dropped" \/ \E i \in 1 .. Len(queue) : queue[i] = Shutdown)
    ~> service.point = "Done"

\* A client that waits for an inspection is released: it gets its answer or
\* learns that the runtime stopped.
InspectionAnswered ==
  \A id \in Inspections : reply[id] = "Queued" ~> reply[id] # "Queued"

\* A queued pause takes effect although the guest never yields.
PauseTakesEffect ==
  (\E i \in 1 .. Len(queue) : queue[i] = Pause) ~> status.lifecycle # "Running"

\* A client inside shutdown returns once the thread has stopped, which it waits
\* for ("Queues shutdown and waits for the emulator thread to stop").
ShutdownReturns == handle = "Joining" ~> handle = "Joined"

=============================================================================
