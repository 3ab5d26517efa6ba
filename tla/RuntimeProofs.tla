---------------------------- MODULE RuntimeProofs ----------------------------
(* Invariants of the runtime service for every value of its constants. *)
EXTENDS Runtime, SequenceTheorems, TLAPS

-----------------------------------------------------------------------------
(* The inductive invariant *)

\* Where the thread is, what it believes, and what it has published.
ThreadConsistent ==
  /\ service.point = "Starting" =>
       /\ service.lifecycle = "Starting" /\ status.lifecycle = "Starting"
       /\ service.breakpoint = None /\ status.stop = None
       /\ guest.unsaved = {} /\ guest.ticks = status.ticks
  /\ service.point \in {"Commands", "Waiting", "Running"} =>
       /\ service.lifecycle \in {"Running", "Paused"}
       /\ status.lifecycle = service.lifecycle
  /\ service.point = "Running" => service.lifecycle = "Running"
  /\ service.point = "Stopping" => status.lifecycle = "Stopping"
  /\ service.point = "Done" => status.lifecycle \in {"Stopped", "Failed"}

\* The breakpoint a resume steps over, and the stop a pause has published.
BreakpointKnown ==
  /\ service.breakpoint # None => service.breakpoint \in Breakpoints
  /\ service.point \in {"Commands", "Waiting", "Running"} =>
       (status.stop = "Breakpoint" <=> service.breakpoint # None)
  /\ service.lifecycle = "Running" /\ service.point \in {"Commands", "Waiting", "Running"}
       => service.breakpoint = None

\* The scheduled inputs lie ahead, in order.
InputsAhead ==
  /\ \A i \in 1 .. Len(scheduled) : scheduled[i] >= guest.ticks
  /\ \A i, j \in 1 .. Len(scheduled) : i < j => scheduled[i] <= scheduled[j]

IInv ==
  /\ RuntimeTypeOK
  /\ ThreadConsistent
  /\ SavedOrReported
  /\ HaltedStatusExact
  /\ BreakpointKnown
  /\ DeadlineKept
  /\ InputsAhead

-----------------------------------------------------------------------------
LEMMA InitHolds == Init => IInv
BY RuntimeAssumption DEF Init, IInv, RuntimeTypeOK, ThreadConsistent, SavedOrReported,
   HaltedStatusExact, BreakpointKnown, DeadlineKept, InputsAhead, FreshGuest, Services,
   Statuses

\* Appending to a queue and taking its head.
LEMMA QueueFacts ==
  ASSUME NEW S, NEW q \in Seq(S)
  PROVE  /\ \A e \in S : Append(q, e) \in Seq(S)
         /\ q # <<>> => Head(q) \in S /\ Tail(q) \in Seq(S)
BY HeadTailProperties, AppendProperties

\* What publishing makes of the status.
LEMMA PublishFacts ==
  ASSUME NEW lifecycle \in {"Starting", "Running", "Paused", "Stopping", "Stopped",
                            "Failed"},
         NEW stop \in {None, "Deadline", "Breakpoint", "Limit", "Batch", "Error"},
         NEW error \in {None, "Error"},
         status \in Statuses, guest'.ticks \in Nat
  PROVE  /\ Publish(lifecycle, stop, error) =>
              /\ status' \in Statuses
              /\ status'.lifecycle = lifecycle
              /\ status'.stop = (IF stop = None THEN status.stop ELSE stop)
              /\ status'.error = (IF error = None THEN status.error ELSE error)
              /\ status'.ticks = guest'.ticks
         /\ PublishClearingStop(lifecycle) =>
              /\ status' \in Statuses
              /\ status'.lifecycle = lifecycle /\ status'.stop = None
              /\ status'.error = status.error
              /\ status'.ticks = guest'.ticks
<1>1. status.stop \in {None, "Deadline", "Breakpoint", "Limit", "Batch", "Error"}
      /\ status.error \in {None, "Error"}
  BY DEF Statuses
<1> DEFINE s == IF stop = None THEN status.stop ELSE stop
           e == IF error = None THEN status.error ELSE error
<1>2. /\ s \in {None, "Deadline", "Breakpoint", "Limit", "Batch", "Error"}
      /\ e \in {None, "Error"}
  BY <1>1
<1>3. ASSUME Publish(lifecycle, stop, error)
      PROVE  status' = [lifecycle |-> lifecycle, stop |-> s, error |-> e,
                        ticks |-> guest'.ticks]
  BY <1>3 DEF Publish
<1>4. ASSUME PublishClearingStop(lifecycle)
      PROVE  status' = [lifecycle |-> lifecycle, stop |-> None, error |-> status.error,
                        ticks |-> guest'.ticks]
  BY <1>4 DEF PublishClearingStop, Statuses
<1> HIDE DEF s, e
<1>5. ASSUME Publish(lifecycle, stop, error)
      PROVE  /\ status' \in Statuses
             /\ status'.lifecycle = lifecycle /\ status'.stop = s
             /\ status'.error = e /\ status'.ticks = guest'.ticks
  BY <1>2, <1>3, <1>5 DEF Statuses
<1>6. ASSUME PublishClearingStop(lifecycle)
      PROVE  /\ status' \in Statuses
             /\ status'.lifecycle = lifecycle /\ status'.stop = None
             /\ status'.error = status.error /\ status'.ticks = guest'.ticks
  BY <1>1, <1>4, <1>6 DEF Statuses
<1> QED BY <1>5, <1>6 DEF s, e

LEMMA CommandTypes ==
  /\ Pause \in Commands /\ Reset \in Commands /\ Shutdown \in Commands
  /\ \A limit \in Limits \cup {None} : Resume(limit) \in Commands
  /\ \A id \in Inspections : Inspect(id) \in Commands
BY DEF Commands, Pause, Reset, Shutdown, Resume, Inspect

LEMMA CommandFields ==
  ASSUME NEW c \in Commands
  PROVE  /\ c.op = "Resume" => c.limit \in Limits \cup {None}
         /\ c.op = "Inspect" => c.id \in Inspections
BY DEF Commands

-----------------------------------------------------------------------------
\* No client touches what the thread owns or publishes.
LEMMA ClientPreserves == IInv /\ Client => IInv'
<1> SUFFICES ASSUME IInv, Client PROVE IInv'
  OBVIOUS
<1>1. ASSUME UNCHANGED <<service, guest, scheduled, status>>, RuntimeTypeOK'
      PROVE  IInv'
  BY <1>1 DEF IInv, ThreadConsistent, SavedOrReported, HaltedStatusExact,
     BreakpointKnown, DeadlineKept, InputsAhead
<1>2. /\ UNCHANGED <<service, guest, scheduled, status>>
      /\ fed' = fed
  BY DEF Client, Send, RequestInspection, ShutdownCall, JoinReturns, Drop, SendUart,
     hostVars
<1>3. queue' \in Seq(Commands)
  <2>1. queue' = queue \/ \E c \in Commands : queue' = Append(queue, c)
    BY CommandTypes DEF Client, Send, RequestInspection, ShutdownCall, JoinReturns,
       Drop, SendUart, hostVars
  <2>2. queue \in Seq(Commands)
    BY DEF IInv, RuntimeTypeOK
  <2> QED BY <2>1, <2>2, QueueFacts
<1>4. inbox' \in Seq(Nat)
  <2>1. CASE SendUart
    <3>1. inbox \in Seq(Nat) /\ fed \in Seq(Nat)
      BY DEF IInv, RuntimeTypeOK
    <3>2. inbox # <<>> => inbox[Len(inbox)] \in Nat /\ Tail(inbox) \in Seq(Nat)
      BY <3>1, QueueFacts
    <3>3. fed # <<>> => fed[Len(fed)] \in Nat
      BY <3>1
    <3>4. InboxCapacity \in Nat /\ (Len(inbox) = InboxCapacity /\ InboxCapacity > 0
                                     => inbox # <<>>)
      BY <3>1, RuntimeAssumption
    <3>5. \A b \in Seq(Nat), n \in Nat : Append(b, n) \in Seq(Nat)
      OBVIOUS
    <3> DEFINE last == IF inbox # <<>> THEN inbox[Len(inbox)]
                       ELSE IF fed # <<>> THEN fed[Len(fed)] ELSE 0
               kept == IF Len(inbox) = InboxCapacity THEN Tail(inbox) ELSE inbox
    <3>6. last \in Nat
      BY <3>2, <3>3
    <3>7. kept \in Seq(Nat)
      BY <2>1, <3>1, <3>2, <3>4 DEF SendUart
    <3>8. inbox' = Append(kept, 1 + last)
      BY <2>1 DEF SendUart
    <3> HIDE DEF last, kept
    <3> QED BY <3>5, <3>6, <3>7, <3>8
  <2> QED BY <2>1 DEF IInv, RuntimeTypeOK, Client, Send, RequestInspection,
       ShutdownCall, JoinReturns, Drop, hostVars
<1>5. /\ reply' \in [Inspections -> {"None", "Queued", "Answered", "Stopped"}]
      /\ handle' \in {"Open", "Joining", "Joined", "Dropped"}
  BY DEF IInv, RuntimeTypeOK, Client, Send, RequestInspection, ShutdownCall,
     JoinReturns, Drop, SendUart, hostVars
<1> QED BY <1>1, <1>2, <1>3, <1>4, <1>5 DEF IInv, RuntimeTypeOK

-----------------------------------------------------------------------------
\* The facts the steps of the thread share.
LEMMA ServiceFacts ==
  ASSUME IInv
  PROVE  /\ service \in Services /\ status \in Statuses
         /\ guest.ticks \in Nat /\ guest.pc \in Addresses /\ guest.unsaved \subseteq Units
         /\ service.remaining \in Nat \cup {None}
         /\ service.breakpoint \in Addresses \cup {None}
         /\ scheduled \in Seq(Nat) /\ queue \in Seq(Commands)
         /\ inbox \in Seq(Nat) /\ fed \in Seq(Nat)
         /\ reply \in [Inspections -> {"None", "Queued", "Answered", "Stopped"}]
         /\ handle \in {"Open", "Joining", "Joined", "Dropped"}
         /\ 0 \in Addresses
         /\ None \notin {"Deadline", "Breakpoint", "Limit", "Batch", "Error"}
BY RuntimeAssumption DEF IInv, RuntimeTypeOK, Services

\* A received command leaves a queue of commands.
LEMMA ReceivedFacts ==
  ASSUME IInv, NEW op, Receiving(op), Received
  PROVE  /\ queue' \in Seq(Commands) /\ Head(queue) \in Commands
         /\ service.point \in {"Commands", "Waiting"}
BY ServiceFacts, QueueFacts DEF Receiving, Received

LEMMA ExitFacts ==
  ASSUME IInv, Exit
  PROVE  /\ service' \in Services /\ service'.point = "Done"
         /\ service'.breakpoint = service.breakpoint
         /\ queue' \in Seq(Commands)
         /\ reply' \in [Inspections -> {"None", "Queued", "Answered", "Stopped"}]
<1>1. service' \in Services /\ service'.point = "Done"
      /\ service'.breakpoint = service.breakpoint
  BY ServiceFacts DEF Exit, Services
<1>2. queue' \in Seq(Commands)
  BY DEF Exit
<1>3. reply' \in [Inspections -> {"None", "Queued", "Answered", "Stopped"}]
  BY ServiceFacts DEF Exit
<1> QED BY <1>1, <1>2, <1>3

\* Moving the thread to another point, keeping the rest of what it knows.
LEMMA PointFacts ==
  ASSUME IInv,
         NEW point \in {"Starting", "Commands", "Waiting", "Running", "Stopping", "Done"},
         service' = [service EXCEPT !.point = point]
  PROVE  /\ service' \in Services /\ service'.point = point
         /\ service'.lifecycle = service.lifecycle
         /\ service'.remaining = service.remaining
         /\ service'.breakpoint = service.breakpoint
BY ServiceFacts DEF Services

LEMMA StartPreserves == IInv /\ Start => IInv'
<1> SUFFICES ASSUME IInv, Start PROVE IInv'
  OBVIOUS
<1> USE ServiceFacts
<1> DEFINE first == IF StartPaused THEN "Paused" ELSE "Running"
<1>1. /\ UNCHANGED <<guest, scheduled, inbox, fed, handle>>
      /\ service.point = "Starting"
  BY DEF Start
<1>2. CASE /\ service' = [service EXCEPT !.point = "Commands", !.lifecycle = first]
           /\ Publish(first, None, None)
           /\ UNCHANGED <<queue, reply>>
  <2>1. first \in {"Paused", "Running"}
    OBVIOUS
  <2> HIDE DEF first
  <2>2. /\ service' \in Services /\ service'.point = "Commands"
        /\ service'.lifecycle = first /\ service'.breakpoint = service.breakpoint
    BY <1>2, <2>1 DEF Services
  <2>3. /\ status' \in Statuses /\ status'.lifecycle = first
        /\ status'.stop = status.stop /\ status'.error = status.error
        /\ status'.ticks = guest.ticks
    BY <1>1, <1>2, <2>1, PublishFacts
  <2> QED BY <1>1, <1>2, <2>1, <2>2, <2>3 DEF IInv, RuntimeTypeOK, ThreadConsistent,
       SavedOrReported, HaltedStatusExact, BreakpointKnown, DeadlineKept, InputsAhead
<1>3. CASE /\ Exit
           /\ status' = [status EXCEPT !.lifecycle = "Failed", !.error = "Error"]
  <2>1. /\ status' \in Statuses /\ status'.lifecycle = "Failed"
        /\ status'.stop = status.stop /\ status'.error = "Error"
        /\ status'.ticks = status.ticks
    BY <1>3 DEF Statuses
  <2> QED BY <1>1, <1>3, <2>1, ExitFacts DEF IInv, RuntimeTypeOK, ThreadConsistent,
       SavedOrReported, HaltedStatusExact, BreakpointKnown, DeadlineKept, InputsAhead
<1> QED BY <1>2, <1>3 DEF Start

\* Commands that change neither the guest nor the status, and waiting.
LEMMA QuietPreserves ==
  ASSUME IInv, Ignore \/ DoInspect \/ NoCommand \/ Timeout PROVE IInv'
<1> USE ServiceFacts
<1>1. UNCHANGED <<guest, status, scheduled, inbox, fed, handle>>
  BY DEF Ignore, DoInspect, NoCommand, Timeout, Unhandled
<1>2. \E point \in {"Commands", "Waiting", "Running"} :
        /\ service' = [service EXCEPT !.point = point]
        /\ point = "Running" => service.lifecycle = "Running"
  BY DEF Ignore, DoInspect, NoCommand, Timeout
<1>3. service.point \in {"Commands", "Waiting"}
  BY DEF Ignore, DoInspect, NoCommand, Timeout, Receiving
<1>4. queue' \in Seq(Commands)
  BY ReceivedFacts DEF Ignore, DoInspect, NoCommand, Timeout
<1>5. reply' \in [Inspections -> {"None", "Queued", "Answered", "Stopped"}]
  BY DEF Ignore, DoInspect, NoCommand, Timeout
<1>6. PICK point \in {"Commands", "Waiting", "Running"} :
        /\ service' = [service EXCEPT !.point = point]
        /\ point = "Running" => service.lifecycle = "Running"
  BY <1>2
<1>7. /\ service' \in Services /\ service'.point = point
      /\ service'.lifecycle = service.lifecycle
      /\ service'.breakpoint = service.breakpoint
  BY <1>6, PointFacts
<1> QED BY <1>1, <1>3, <1>4, <1>5, <1>6, <1>7 DEF IInv, RuntimeTypeOK, ThreadConsistent,
     SavedOrReported, HaltedStatusExact, BreakpointKnown, DeadlineKept, InputsAhead

\* A step that pauses the guest: `failed` units could not be written back.
LEMMA PausePreserves == IInv /\ DoPause => IInv'
<1> SUFFICES ASSUME IInv, DoPause PROVE IInv'
  OBVIOUS
<1> USE ServiceFacts
<1>1. PICK failed \in SUBSET guest.unsaved :
        guest' = Flushed(failed) /\ Publish("Paused", None, FlushError(failed))
  BY DEF DoPause
<1>2. /\ guest' \in [ticks : Nat, pc : Addresses, unsaved : SUBSET Units]
      /\ guest'.ticks = guest.ticks /\ guest'.unsaved = failed
  BY <1>1 DEF Flushed, IInv, RuntimeTypeOK
<1>3. /\ FlushError(failed) \in {None, "Error"}
      /\ FlushError(failed) = None <=> failed = {}
  BY DEF FlushError
<1>4. /\ status' \in Statuses /\ status'.lifecycle = "Paused"
      /\ status'.stop = status.stop /\ status'.ticks = guest'.ticks
      /\ failed = {} \/ status'.error # None
  BY <1>1, <1>2, <1>3, PublishFacts
<1>5. /\ service' \in Services /\ service'.point = "Commands"
      /\ service'.lifecycle = "Paused" /\ service'.breakpoint = service.breakpoint
  BY DEF DoPause, Services
<1>6. /\ UNCHANGED <<scheduled, inbox, fed, handle, reply>>
      /\ queue' \in Seq(Commands)
      /\ service.point \in {"Commands", "Waiting"}
  BY ReceivedFacts DEF DoPause, Unhandled
<1> QED BY <1>2, <1>4, <1>5, <1>6 DEF IInv, RuntimeTypeOK, ThreadConsistent,
     SavedOrReported, HaltedStatusExact, BreakpointKnown, DeadlineKept, InputsAhead

LEMMA ResumePreserves == IInv /\ DoResume => IInv'
<1> SUFFICES ASSUME IInv, DoResume PROVE IInv'
  OBVIOUS
<1> USE ServiceFacts
<1>1. /\ UNCHANGED <<scheduled, inbox, fed, handle>>
      /\ service.point \in {"Commands", "Waiting"} /\ service.lifecycle = "Paused"
  BY DEF DoResume, Unhandled, Receiving
<1>2. CASE /\ Received
           /\ guest' = PastBreakpoint
           /\ service' = [service EXCEPT !.point = "Commands", !.lifecycle = "Running",
                                         !.remaining = Head(queue).limit,
                                         !.breakpoint = None]
           /\ PublishClearingStop("Running")
           /\ UNCHANGED reply
  <2>1. /\ queue' \in Seq(Commands)
        /\ Head(queue).limit \in Nat \cup {None}
    BY <1>2, ReceivedFacts, CommandFields, RuntimeAssumption DEF DoResume, Receiving
  <2>2. /\ service' \in Services /\ service'.point = "Commands"
        /\ service'.lifecycle = "Running" /\ service'.breakpoint = None
    BY <1>2, <2>1 DEF Services
  <2>3. service.breakpoint # None => service.breakpoint + 1 \in Addresses
    BY RuntimeAssumption DEF IInv, BreakpointKnown
  <2>4. /\ guest' \in [ticks : Nat, pc : Addresses, unsaved : SUBSET Units]
        /\ guest'.ticks = guest.ticks /\ guest'.unsaved = guest.unsaved
    <3> DEFINE pc == IF service.breakpoint = guest.pc THEN guest.pc + 1 ELSE guest.pc
    <3>1. pc \in Addresses
      <4>1. guest.pc \in Addresses /\ guest.pc # None
        <5>1. \A a \in Addresses : a \in Int
          BY RuntimeAssumption
        <5>2. \A a \in Int : a # None
          BY RuntimeAssumption
        <5> QED BY <5>1, <5>2, Zenon
      <4>2. service.breakpoint = guest.pc => guest.pc + 1 \in Addresses
        BY <2>3, <4>1
      <4> QED BY <4>1, <4>2
    <3>2. guest' = [guest EXCEPT !.pc = pc]
      BY <1>2 DEF PastBreakpoint
    <3> HIDE DEF pc
    <3> QED BY <3>1, <3>2 DEF IInv, RuntimeTypeOK
  <2>5. /\ status' \in Statuses /\ status'.lifecycle = "Running"
        /\ status'.stop = None
    BY <1>2, <2>4, PublishFacts
  <2> QED BY <1>1, <1>2, <2>1, <2>2, <2>4, <2>5 DEF IInv, RuntimeTypeOK, ThreadConsistent,
       SavedOrReported, HaltedStatusExact, BreakpointKnown, DeadlineKept, InputsAhead
<1>3. CASE Exit /\ UNCHANGED guest /\ Publish("Failed", None, "Error")
  <2>1. /\ status' \in Statuses /\ status'.lifecycle = "Failed"
        /\ status'.error = "Error" /\ status'.ticks = guest.ticks
    BY <1>3, PublishFacts
  <2> QED BY <1>1, <1>3, <2>1, ExitFacts DEF IInv, RuntimeTypeOK, ThreadConsistent,
       SavedOrReported, HaltedStatusExact, BreakpointKnown, DeadlineKept, InputsAhead
<1> QED BY <1>2, <1>3 DEF DoResume

LEMMA ResetPreserves == IInv /\ DoReset => IInv'
<1> SUFFICES ASSUME IInv, DoReset PROVE IInv'
  OBVIOUS
<1> USE ServiceFacts
<1>1. /\ UNCHANGED <<scheduled, inbox, fed, handle, reply>>
      /\ queue' \in Seq(Commands)
      /\ service.point \in {"Commands", "Waiting"}
  BY ReceivedFacts DEF DoReset, Unhandled
<1>2. service.lifecycle \in {"Running", "Paused"}
  BY <1>1 DEF IInv, ThreadConsistent
<1>3. CASE /\ guest' = FreshGuest
           /\ service' = [service EXCEPT !.point = "Commands", !.breakpoint = None]
           /\ PublishClearingStop(service.lifecycle)
  <2>1. /\ guest' \in [ticks : Nat, pc : Addresses, unsaved : SUBSET Units]
        /\ guest'.ticks = 0 /\ guest'.unsaved = {}
    BY <1>3 DEF FreshGuest
  <2>2. /\ service' \in Services /\ service'.point = "Commands"
        /\ service'.lifecycle = service.lifecycle /\ service'.breakpoint = None
    BY <1>3 DEF Services
  <2>3. /\ status' \in Statuses /\ status'.lifecycle = service.lifecycle
        /\ status'.stop = None /\ status'.ticks = 0
    BY <1>2, <1>3, <2>1, PublishFacts
  <2>4. \A i \in 1 .. Len(scheduled) : scheduled[i] >= 0
    OBVIOUS
  <2>5. ExecutionDeadline # None => 0 <= ExecutionDeadline
    BY RuntimeAssumption
  <2> QED BY <1>1, <1>2, <2>1, <2>2, <2>3, <2>4, <2>5 DEF IInv, RuntimeTypeOK, ThreadConsistent,
       SavedOrReported, HaltedStatusExact, BreakpointKnown, DeadlineKept, InputsAhead
<1>4. CASE /\ \E failed \in SUBSET guest.unsaved : guest' = Flushed(failed)
           /\ service' = [service EXCEPT !.point = "Commands"]
           /\ Publish(service.lifecycle, None, "Error")
  <2>1. /\ guest' \in [ticks : Nat, pc : Addresses, unsaved : SUBSET Units]
        /\ guest'.ticks = guest.ticks
    BY <1>4 DEF Flushed, IInv, RuntimeTypeOK
  <2>2. /\ service' \in Services /\ service'.point = "Commands"
        /\ service'.lifecycle = service.lifecycle
        /\ service'.breakpoint = service.breakpoint
    BY <1>4, PointFacts
  <2>3. /\ status' \in Statuses /\ status'.lifecycle = service.lifecycle
        /\ status'.stop = status.stop /\ status'.error = "Error"
        /\ status'.ticks = guest'.ticks
    BY <1>2, <1>4, <2>1, PublishFacts
  <2> QED BY <1>1, <1>2, <2>1, <2>2, <2>3 DEF IInv, RuntimeTypeOK, ThreadConsistent,
       SavedOrReported, HaltedStatusExact, BreakpointKnown, DeadlineKept, InputsAhead
<1> QED BY <1>3, <1>4 DEF DoReset

LEMMA StopPreserves ==
  ASSUME IInv, DoShutdown \/ Disconnected \/ FinishStop PROVE IInv'
<1> USE ServiceFacts
<1>1. CASE DoShutdown \/ Disconnected
  <2>1. BeginStop /\ UNCHANGED <<guest, scheduled, inbox, fed, handle, reply>>
    BY <1>1 DEF DoShutdown, Disconnected, Unhandled, BeginStop
  <2>2. queue' \in Seq(Commands)
    BY <1>1, ReceivedFacts DEF DoShutdown, Disconnected
  <2>3. service' \in Services /\ service'.point = "Stopping"
        /\ service'.breakpoint = service.breakpoint
    BY <2>1, PointFacts DEF BeginStop
  <2>4. status' \in Statuses /\ status'.lifecycle = "Stopping"
    BY <2>1, PublishFacts DEF BeginStop
  <2> QED BY <2>1, <2>2, <2>3, <2>4 DEF IInv, RuntimeTypeOK, ThreadConsistent,
       SavedOrReported, HaltedStatusExact, BreakpointKnown, DeadlineKept, InputsAhead
<1>2. CASE FinishStop
  <2>1. PICK failed \in SUBSET guest.unsaved :
          /\ guest' = Flushed(failed)
          /\ IF failed = {} THEN Publish("Stopped", None, None)
                            ELSE Publish("Failed", None, "Error")
    BY <1>2 DEF FinishStop
  <2>2. /\ guest' \in [ticks : Nat, pc : Addresses, unsaved : SUBSET Units]
        /\ guest'.ticks = guest.ticks /\ guest'.unsaved = failed
    BY <2>1 DEF Flushed, IInv, RuntimeTypeOK
  <2>3. /\ status' \in Statuses /\ status'.ticks = guest'.ticks
        /\ \/ failed = {} /\ status'.lifecycle = "Stopped"
           \/ status'.error = "Error" /\ status'.lifecycle = "Failed"
    BY <2>1, <2>2, PublishFacts
  <2>4. Exit /\ UNCHANGED <<scheduled, inbox, fed, handle>>
    BY <1>2 DEF FinishStop, Unhandled
  <2> QED BY <2>2, <2>3, <2>4, ExitFacts DEF IInv, RuntimeTypeOK, ThreadConsistent,
       SavedOrReported, HaltedStatusExact, BreakpointKnown, DeadlineKept, InputsAhead
<1> QED BY <1>1, <1>2

-----------------------------------------------------------------------------
(* A turn of the running service *)

\* Delivery removes inputs that are due, now, and keeps the others in order.
LEMMA DeliveryFacts ==
  ASSUME IInv, DeliverScheduled
  PROVE  /\ scheduled' \in Seq(Nat)
         /\ \A i \in 1 .. Len(scheduled') : scheduled'[i] >= guest.ticks
         /\ \A i, j \in 1 .. Len(scheduled') : i < j => scheduled'[i] <= scheduled'[j]
         /\ \A i \in 1 .. (Len(scheduled) - Len(scheduled')) :
              scheduled[i] = guest.ticks
         /\ scheduled' # <<>> => Head(scheduled') > guest.ticks
<1> USE ServiceFacts
<1>1. PICK due \in 0 .. Len(scheduled) :
        /\ \A i \in 1 .. due : scheduled[i] <= guest.ticks
        /\ due < Len(scheduled) => scheduled[due + 1] > guest.ticks
        /\ scheduled' = SubSeq(scheduled, due + 1, Len(scheduled))
  BY DEF DeliverScheduled
<1>2. /\ scheduled' \in Seq(Nat) /\ Len(scheduled') = Len(scheduled) - due
      /\ \A i \in 1 .. Len(scheduled') : scheduled'[i] = scheduled[due + i]
  BY <1>1
<1>3. /\ \A i \in 1 .. Len(scheduled) : scheduled[i] >= guest.ticks
      /\ \A i, j \in 1 .. Len(scheduled) : i < j => scheduled[i] <= scheduled[j]
  BY DEF IInv, InputsAhead
<1>4. \A i \in 1 .. Len(scheduled') : due + i \in 1 .. Len(scheduled)
  BY <1>2
<1>5. \A i \in 1 .. Len(scheduled') : scheduled'[i] >= guest.ticks
  BY <1>2, <1>3, <1>4
<1>6. \A i, j \in 1 .. Len(scheduled') : i < j => scheduled'[i] <= scheduled'[j]
  <2> SUFFICES ASSUME NEW i \in 1 .. Len(scheduled'), NEW j \in 1 .. Len(scheduled'),
                      i < j
               PROVE  scheduled'[i] <= scheduled'[j]
    OBVIOUS
  <2>1. /\ due + i \in 1 .. Len(scheduled) /\ due + j \in 1 .. Len(scheduled)
        /\ due + i < due + j
    BY <1>2
  <2>2. scheduled[due + i] <= scheduled[due + j]
    BY <1>3, <2>1
  <2> QED BY <1>2, <2>2
<1>7. \A i \in 1 .. (Len(scheduled) - Len(scheduled')) : scheduled[i] = guest.ticks
  <2> SUFFICES ASSUME NEW i \in 1 .. (Len(scheduled) - Len(scheduled'))
               PROVE  scheduled[i] = guest.ticks
    OBVIOUS
  <2>1. i \in 1 .. due /\ i \in 1 .. Len(scheduled)
    BY <1>2
  <2> QED BY <1>1, <1>3, <2>1
<1>8. scheduled' # <<>> => Head(scheduled') > guest.ticks
  <2> SUFFICES ASSUME scheduled' # <<>> PROVE Head(scheduled') > guest.ticks
    OBVIOUS
  <2>1. Head(scheduled') = scheduled'[1] /\ 1 \in 1 .. Len(scheduled')
    BY <1>2
  <2> QED BY <1>1, <1>2, <2>1
<1> QED BY <1>2, <1>5, <1>6, <1>7, <1>8

LEMMA DeadlinePreserves == IInv /\ DeadlineReached => IInv'
<1> SUFFICES ASSUME IInv, DeadlineReached PROVE IInv'
  OBVIOUS
<1> USE ServiceFacts
<1>1. PICK failed \in SUBSET guest.unsaved :
        guest' = Flushed(failed) /\ Publish("Paused", "Deadline", FlushError(failed))
  BY DEF DeadlineReached
<1>2. /\ guest' \in [ticks : Nat, pc : Addresses, unsaved : SUBSET Units]
      /\ guest'.ticks = guest.ticks /\ guest'.unsaved = failed
  BY <1>1 DEF Flushed, IInv, RuntimeTypeOK
<1>3. /\ FlushError(failed) \in {None, "Error"}
      /\ FlushError(failed) = None <=> failed = {}
  BY DEF FlushError
<1>4. /\ status' \in Statuses /\ status'.lifecycle = "Paused"
      /\ status'.stop = "Deadline" /\ status'.ticks = guest'.ticks
      /\ failed = {} \/ status'.error # None
  BY <1>1, <1>2, <1>3, PublishFacts
<1>5. /\ service' \in Services /\ service'.point = "Commands"
      /\ service'.lifecycle = "Paused" /\ service'.breakpoint = service.breakpoint
  BY DEF DeadlineReached, Services
<1>6. /\ UNCHANGED <<queue, inbox, fed, handle, reply>>
      /\ service.point = "Running"
  BY DEF DeadlineReached
<1>7. InputsAhead' /\ scheduled' \in Seq(Nat)
  BY <1>2, DeliveryFacts DEF DeadlineReached, InputsAhead
<1> QED BY <1>2, <1>4, <1>5, <1>6, <1>7 DEF IInv, RuntimeTypeOK, ThreadConsistent,
     SavedOrReported, HaltedStatusExact, BreakpointKnown, DeadlineKept

\* A batch moves time forward, but neither over the deadline nor over an input.
LEMMA TurnFacts ==
  ASSUME IInv, NEW after \in Guests, Turn(after)
  PROVE  /\ after \in [ticks : Nat, pc : Addresses, unsaved : SUBSET Units]
         /\ scheduled' \in Seq(Nat) /\ inbox' \in Seq(Nat) /\ fed' \in Seq(Nat)
         /\ handle' = handle
         /\ service.point = "Running" /\ service.lifecycle = "Running"
         /\ status.lifecycle = "Running" /\ status.stop # "Breakpoint"
         /\ service.breakpoint = None
         /\ after.ticks >= guest.ticks
         /\ ExecutionDeadline # None => after.ticks <= ExecutionDeadline
         /\ \A i \in 1 .. Len(scheduled') : scheduled'[i] >= after.ticks
         /\ \A i, j \in 1 .. Len(scheduled') : i < j => scheduled'[i] <= scheduled'[j]
<1> USE ServiceFacts
<1>1. /\ after \in [ticks : Nat, pc : Addresses, unsaved : SUBSET Units]
      /\ after.ticks >= guest.ticks
  BY RuntimeAssumption DEF Guests
<1>2. /\ service.point = "Running" /\ service.lifecycle = "Running"
      /\ status.lifecycle = "Running" /\ status.stop # "Breakpoint"
      /\ service.breakpoint = None
  BY DEF Turn, IInv, ThreadConsistent, BreakpointKnown
<1>3. handle' = handle /\ inbox' \in Seq(Nat) /\ fed' \in Seq(Nat)
  <2>1. handle' = handle /\ inbox' = <<>> /\ fed' = fed \o inbox
    BY DEF Turn, Drain
  <2>2. fed \o inbox \in Seq(Nat)
    BY ConcatProperties
  <2> QED BY <2>1, <2>2
<1>4. ExecutionDeadline # None => after.ticks <= ExecutionDeadline
  <2> SUFFICES ASSUME ExecutionDeadline # None PROVE after.ticks <= ExecutionDeadline
    OBVIOUS
  <2>1. ExecutionDeadline \in Nat /\ guest.ticks < ExecutionDeadline
    BY RuntimeAssumption DEF Turn, PastDeadline
  <2>2. ExecutionDeadline \in Boundaries
    BY <2>1 DEF Boundaries
  <2> QED BY <2>2 DEF Turn, Batch
<1>5. \A i \in 1 .. Len(scheduled') : scheduled'[i] >= after.ticks
  <2> SUFFICES ASSUME NEW i \in 1 .. Len(scheduled') PROVE scheduled'[i] >= after.ticks
    OBVIOUS
  <2>1. /\ scheduled' # <<>> /\ scheduled' \in Seq(Nat)
        /\ Head(scheduled') > guest.ticks
        /\ Head(scheduled') = scheduled'[1] /\ 1 \in 1 .. Len(scheduled')
    BY DeliveryFacts DEF Turn
  <2>2. Head(scheduled') \in Boundaries
    BY <2>1 DEF Boundaries
  <2>3. after.ticks <= scheduled'[1]
    BY <2>1, <2>2 DEF Turn, Batch
  <2>4. scheduled'[1] <= scheduled'[i]
    BY <2>1, DeliveryFacts DEF Turn
  <2> QED BY <1>1, <2>1, <2>3, <2>4
<1> QED BY <1>1, <1>2, <1>3, <1>4, <1>5, DeliveryFacts DEF Turn

\* A batch after which the guest stops running.
LEMMA HaltFacts ==
  ASSUME IInv, NEW after \in Guests, Turn(after),
         NEW failed \in SUBSET after.unsaved,
         guest' = [after EXCEPT !.unsaved = failed]
  PROVE  /\ guest' \in [ticks : Nat, pc : Addresses, unsaved : SUBSET Units]
         /\ guest'.ticks = after.ticks /\ guest'.unsaved = failed
         /\ FlushError(failed) \in {None, "Error"}
         /\ FlushError(failed) = None <=> failed = {}
<1>1. /\ guest' \in [ticks : Nat, pc : Addresses, unsaved : SUBSET Units]
      /\ guest'.ticks = after.ticks /\ guest'.unsaved = failed
  BY TurnFacts
<1>2. /\ FlushError(failed) \in {None, "Error"}
      /\ FlushError(failed) = None <=> failed = {}
  BY ServiceFacts DEF FlushError
<1> QED BY <1>1, <1>2

LEMMA FailPreserves == IInv /\ BatchFails => IInv'
<1> SUFFICES ASSUME IInv, BatchFails PROVE IInv'
  OBVIOUS
<1>1. PICK after \in Guests :
        /\ Turn(after)
        /\ \E failed \in SUBSET after.unsaved :
             guest' = [after EXCEPT !.unsaved = failed]
        /\ Publish("Failed", "Error", "Error")
        /\ Exit
  BY DEF BatchFails
<1>2. PICK failed \in SUBSET after.unsaved : guest' = [after EXCEPT !.unsaved = failed]
  BY <1>1
<1>3. /\ guest' \in [ticks : Nat, pc : Addresses, unsaved : SUBSET Units]
      /\ guest'.ticks = after.ticks
  BY <1>1, <1>2, HaltFacts
<1>4. /\ status' \in Statuses /\ status'.lifecycle = "Failed"
      /\ status'.error = "Error" /\ status'.ticks = guest'.ticks
  BY <1>1, <1>3, PublishFacts, ServiceFacts
<1> QED BY <1>1, <1>3, <1>4, TurnFacts, ExitFacts, ServiceFacts DEF IInv, RuntimeTypeOK, ThreadConsistent,
       SavedOrReported, HaltedStatusExact, BreakpointKnown, DeadlineKept, InputsAhead

LEMMA BreakpointPreserves == IInv /\ BatchHitsBreakpoint => IInv'
<1> SUFFICES ASSUME IInv, BatchHitsBreakpoint PROVE IInv'
  OBVIOUS
<1>0. PICK after \in Guests : \E failed \in SUBSET after.unsaved :
        /\ Turn(after)
        /\ after.pc \in Breakpoints
        /\ guest' = [after EXCEPT !.unsaved = failed]
        /\ Publish("Paused", "Breakpoint", FlushError(failed))
        /\ service' = [service EXCEPT !.point = "Commands", !.lifecycle = "Paused",
                                      !.remaining = None, !.breakpoint = after.pc]
        /\ UNCHANGED <<queue, reply>>
  BY DEF BatchHitsBreakpoint
<1>1. PICK failed \in SUBSET after.unsaved :
        /\ Turn(after)
        /\ after.pc \in Breakpoints
        /\ guest' = [after EXCEPT !.unsaved = failed]
        /\ Publish("Paused", "Breakpoint", FlushError(failed))
        /\ service' = [service EXCEPT !.point = "Commands", !.lifecycle = "Paused",
                                      !.remaining = None, !.breakpoint = after.pc]
        /\ UNCHANGED <<queue, reply>>
  BY <1>0
<1>2. /\ guest' \in [ticks : Nat, pc : Addresses, unsaved : SUBSET Units]
      /\ guest'.ticks = after.ticks /\ guest'.unsaved = failed
      /\ FlushError(failed) \in {None, "Error"}
      /\ FlushError(failed) = None <=> failed = {}
  BY <1>1, HaltFacts
<1>3. /\ status' \in Statuses /\ status'.lifecycle = "Paused"
      /\ status'.stop = "Breakpoint" /\ status'.ticks = guest'.ticks
      /\ failed = {} \/ status'.error # None
  BY <1>1, <1>2, PublishFacts, ServiceFacts
<1>4. after.pc \in Addresses /\ after.pc # None
  <2>1. \A a \in Breakpoints : a \in Addresses /\ a \in Int
    BY RuntimeAssumption
  <2>2. \A a \in Int : a # None
    BY RuntimeAssumption
  <2> QED BY <1>1, <2>1, <2>2, Zenon
<1>5. /\ service' \in Services /\ service'.point = "Commands"
      /\ service'.lifecycle = "Paused" /\ service'.breakpoint = after.pc
  BY <1>1, <1>4, ServiceFacts DEF Services
<1> QED BY <1>1, <1>2, <1>3, <1>4, <1>5, TurnFacts, ServiceFacts DEF IInv, RuntimeTypeOK, ThreadConsistent,
       SavedOrReported, HaltedStatusExact, BreakpointKnown, DeadlineKept, InputsAhead

LEMMA LimitPreserves == IInv /\ BatchReachesLimit => IInv'
<1> SUFFICES ASSUME IInv, BatchReachesLimit PROVE IInv'
  OBVIOUS
<1>0. PICK after \in Guests : \E failed \in SUBSET after.unsaved :
        /\ Turn(after)
        /\ guest' = [after EXCEPT !.unsaved = failed]
        /\ Publish("Paused", "Limit", FlushError(failed))
        /\ service' = [service EXCEPT !.point = "Commands", !.lifecycle = "Paused",
                                      !.remaining = None]
        /\ UNCHANGED <<queue, reply>>
  BY DEF BatchReachesLimit
<1>1. PICK failed \in SUBSET after.unsaved :
        /\ Turn(after)
        /\ guest' = [after EXCEPT !.unsaved = failed]
        /\ Publish("Paused", "Limit", FlushError(failed))
        /\ service' = [service EXCEPT !.point = "Commands", !.lifecycle = "Paused",
                                      !.remaining = None]
        /\ UNCHANGED <<queue, reply>>
  BY <1>0
<1>2. /\ guest' \in [ticks : Nat, pc : Addresses, unsaved : SUBSET Units]
      /\ guest'.ticks = after.ticks /\ guest'.unsaved = failed
      /\ FlushError(failed) \in {None, "Error"}
      /\ FlushError(failed) = None <=> failed = {}
  BY <1>1, HaltFacts
<1>3. /\ status' \in Statuses /\ status'.lifecycle = "Paused"
      /\ status'.stop = "Limit" /\ status'.ticks = guest'.ticks
      /\ failed = {} \/ status'.error # None
  BY <1>1, <1>2, PublishFacts, ServiceFacts
<1>4. /\ service' \in Services /\ service'.point = "Commands"
      /\ service'.lifecycle = "Paused" /\ service'.breakpoint = service.breakpoint
  BY <1>1, ServiceFacts DEF Services
<1> QED BY <1>1, <1>2, <1>3, <1>4, TurnFacts, ServiceFacts DEF IInv, RuntimeTypeOK, ThreadConsistent,
       SavedOrReported, HaltedStatusExact, BreakpointKnown, DeadlineKept, InputsAhead

LEMMA EndPreserves == IInv /\ BatchEnds => IInv'
<1> SUFFICES ASSUME IInv, BatchEnds PROVE IInv'
  OBVIOUS
<1>1. PICK after \in Guests :
        /\ Turn(after)
        /\ guest' = after
        /\ service' = [service EXCEPT !.point = "Commands", !.remaining = Left(after)]
        /\ Publish("Running", "Batch", None) \/ UNCHANGED status
        /\ UNCHANGED <<queue, reply>>
  BY DEF BatchEnds
<1>2. after.ticks \in Nat /\ after.ticks >= guest.ticks /\ guest.ticks \in Nat
  BY <1>1, TurnFacts, ServiceFacts
<1>3. Left(after) \in Nat \cup {None}
  BY <1>2, ServiceFacts DEF Left
<1>4. /\ service' \in Services /\ service'.point = "Commands"
      /\ service'.lifecycle = service.lifecycle
      /\ service'.breakpoint = service.breakpoint
  BY <1>1, <1>3, ServiceFacts DEF Services
<1>5. /\ status' \in Statuses /\ status'.lifecycle = "Running"
      /\ status'.stop # "Breakpoint"
  BY <1>1, <1>2, PublishFacts, TurnFacts, ServiceFacts
<1> QED BY <1>1, <1>4, <1>5, TurnFacts, ServiceFacts DEF IInv, RuntimeTypeOK, ThreadConsistent,
       SavedOrReported, HaltedStatusExact, BreakpointKnown, DeadlineKept, InputsAhead

-----------------------------------------------------------------------------
(* The invariant is inductive *)

LEMMA NextPreserves == IInv /\ [Next]_vars => IInv'
<1> SUFFICES ASSUME IInv, [Next]_vars PROVE IInv'
  OBVIOUS
<1>1. CASE UNCHANGED vars
  BY <1>1 DEF vars, IInv, RuntimeTypeOK, ThreadConsistent, SavedOrReported,
     HaltedStatusExact, BreakpointKnown, DeadlineKept, InputsAhead
<1>2. CASE Client
  BY <1>2, ClientPreserves
<1>3. CASE Service
  BY <1>3, StartPreserves, QuietPreserves, PausePreserves, ResumePreserves,
     ResetPreserves, StopPreserves, DeadlinePreserves, FailPreserves,
     BreakpointPreserves, LimitPreserves, EndPreserves DEF Service
<1> QED BY <1>1, <1>2, <1>3 DEF Next

LEMMA Inductive == Spec => []IInv
BY InitHolds, NextPreserves, PTL DEF Spec

-----------------------------------------------------------------------------
(* Theorems *)

\* The state of the service, the guest and the channels keeps its type.
THEOREM RuntimeTypeCorrect == Spec => []RuntimeTypeOK
<1>1. IInv => RuntimeTypeOK
  BY DEF IInv
<1> QED BY <1>1, Inductive, PTL

\* A guest that does not run is saved or its failure to be saved is published, for
\* any number of units and whatever the clients send.
THEOREM MediaSavedOrReported == Spec => []SavedOrReported
<1>1. IInv => SavedOrReported
  BY DEF IInv
<1> QED BY <1>1, Inductive, PTL

\* The published tick of a guest that does not run is the machine's.
THEOREM HaltedStatusCorrect == Spec => []HaltedStatusExact
<1>1. IInv => HaltedStatusExact
  BY DEF IInv
<1> QED BY <1>1, Inductive, PTL

\* No batch size, limit or schedule takes the guest past the execution deadline.
THEOREM ExecutionDeadlineKept == Spec => []DeadlineKept
<1>1. IInv => DeadlineKept
  BY DEF IInv
<1> QED BY <1>1, Inductive, PTL

\* A published breakpoint stop is the one the next resume steps over.
THEOREM BreakpointStopCorrect == Spec => []StopMatchesBreakpoint
<1>1. IInv => StopMatchesBreakpoint
  BY DEF IInv, StopMatchesBreakpoint, BreakpointKnown, ThreadConsistent, RuntimeTypeOK,
     Services
<1> QED BY <1>1, Inductive, PTL

\* Scheduled inputs are delivered at their tick.
THEOREM ScheduledInputsOnTime == Spec => ScheduledOnTime
<1>1. ASSUME IInv, [Next]_vars, scheduled' # scheduled
      PROVE  \A i \in 1 .. (Len(scheduled) - Len(scheduled')) :
               scheduled[i] = guest.ticks
  <2>1. DeliverScheduled
    BY <1>1 DEF Next, Client, Service, Send, RequestInspection, ShutdownCall,
       JoinReturns, Drop, SendUart, Start, Ignore, DoPause, DoResume, DoReset, DoInspect,
       DoShutdown, Disconnected, FinishStop, NoCommand, Timeout, Unhandled,
       DeadlineReached, BatchFails, BatchHitsBreakpoint, BatchReachesLimit, BatchEnds,
       Turn, vars
  <2> QED BY <1>1, <2>1, DeliveryFacts
<1> QED BY <1>1, Inductive, PTL DEF Spec, ScheduledOnTime

\* A resume skips nothing but the breakpoint instruction the guest stopped at.
THEOREM ResumeSkipsNothingElse == Spec => ResumeSkipsOnlyBreakpoint
<1>1. ASSUME IInv, [Next]_vars,
             service.lifecycle = "Paused", service'.lifecycle = "Running",
             guest'.pc # guest.pc
      PROVE  status.stop = "Breakpoint" /\ guest.pc \in Breakpoints
  <2>1. DoResume
    <3>1. CASE Client \/ UNCHANGED vars
      BY <1>1, <3>1 DEF Client, Send, RequestInspection, ShutdownCall, JoinReturns, Drop,
         SendUart, vars
    <3>2. CASE Start
      BY <1>1, <3>2 DEF Start, IInv, ThreadConsistent
    <3>3. CASE Ignore \/ DoInspect \/ DoShutdown \/ Disconnected \/ NoCommand \/ Timeout
      BY <1>1, <3>3 DEF Ignore, DoInspect, DoShutdown, Disconnected, BeginStop, NoCommand,
         Timeout
    <3>4. CASE DoPause \/ DeadlineReached
      BY <1>1, <3>4, ServiceFacts DEF DoPause, DeadlineReached, Services
    <3>5. CASE DoReset
      BY <1>1, <3>5, ServiceFacts, ReceivedFacts
         DEF DoReset, Services, IInv, ThreadConsistent
    <3>6. CASE FinishStop
      BY <1>1, <3>6, ServiceFacts DEF FinishStop, Exit, Services
    <3>7. CASE BatchFails \/ BatchHitsBreakpoint \/ BatchReachesLimit \/ BatchEnds
      BY <1>1, <3>7, TurnFacts
         DEF BatchFails, BatchHitsBreakpoint, BatchReachesLimit, BatchEnds
    <3> QED BY <1>1, <3>1, <3>2, <3>3, <3>4, <3>5, <3>6, <3>7 DEF Next, Service
  <2>2. guest.pc = service.breakpoint
    BY <1>1, <2>1, ServiceFacts DEF DoResume, PastBreakpoint, IInv, RuntimeTypeOK
  <2>3. service.breakpoint # None
    <3>1. \A a \in Addresses : a \in Int
      BY RuntimeAssumption
    <3>2. \A a \in Int : a # None
      BY RuntimeAssumption
    <3>3. guest.pc \in Addresses
      BY <1>1, ServiceFacts
    <3> QED BY <2>2, <3>1, <3>2, <3>3, Zenon
  <2> QED BY <1>1, <2>1, <2>2, <2>3 DEF DoResume, Receiving, IInv, BreakpointKnown
<1> QED BY <1>1, Inductive, PTL DEF Spec, ResumeSkipsOnlyBreakpoint

\* Publishing changes the lifecycle to the one given.
LEMMA PublishedLifecycle ==
  ASSUME IInv, NEW lifecycle, NEW stop, NEW error
  PROVE  /\ Publish(lifecycle, stop, error) => status'.lifecycle = lifecycle
         /\ PublishClearingStop(lifecycle) => status'.lifecycle = lifecycle
<1>1. ASSUME Publish(lifecycle, stop, error) PROVE status'.lifecycle = lifecycle
  <2> DEFINE s == IF stop = None THEN status.stop ELSE stop
             e == IF error = None THEN status.error ELSE error
  <2>1. status' = [lifecycle |-> lifecycle, stop |-> s, error |-> e,
                   ticks |-> guest'.ticks]
    BY <1>1 DEF Publish
  <2> HIDE DEF s, e
  <2> QED BY <2>1
<1>2. ASSUME PublishClearingStop(lifecycle) PROVE status'.lifecycle = lifecycle
  <2>1. status \in Statuses
    BY ServiceFacts
  <2> QED BY <1>2, <2>1 DEF PublishClearingStop, Statuses
<1> QED BY <1>1, <1>2

\* Every status a client can read follows the lifecycle: a step of the service is a
\* step of Lifecycle or changes nothing a client of it sees.
THEOREM PublishesLifecycle == Spec => LifecycleRefined
<1>1. Init => Published!Init
  BY DEF Init, Published!Init
<1>2. ASSUME IInv, [Next]_vars PROVE [Published!Next]_(status.lifecycle)
  <2> USE DEF Published!Next, Published!Start, Published!Pause, Published!Resume,
              Published!Stop, Published!Finish, Published!Fail, Published!Final
  <2>1. CASE Client \/ UNCHANGED vars
    BY <1>2, <2>1 DEF Client, Send, RequestInspection, ShutdownCall, JoinReturns, Drop,
       SendUart, vars
  <2>2. CASE Start
    <3>1. status.lifecycle = "Starting"
      BY <1>2, <2>2 DEF Start, IInv, ThreadConsistent
    <3>2. status'.lifecycle \in {"Running", "Paused", "Failed"}
      BY <1>2, <2>2, PublishedLifecycle, ServiceFacts DEF Start, Statuses
    <3> QED BY <3>1, <3>2
  <2>3. CASE Ignore \/ DoInspect \/ NoCommand \/ Timeout
    BY <1>2, <2>3 DEF Ignore, DoInspect, NoCommand, Timeout
  <2>4. CASE DoPause
    BY <1>2, <2>4, PublishedLifecycle DEF DoPause, Receiving, IInv, ThreadConsistent
  <2>5. CASE DoResume
    BY <1>2, <2>5, PublishedLifecycle DEF DoResume, Receiving, IInv, ThreadConsistent
  <2>6. CASE DoReset
    BY <1>2, <2>6, PublishedLifecycle DEF DoReset, Receiving, IInv, ThreadConsistent
  <2>7. CASE DoShutdown \/ Disconnected
    BY <1>2, <2>7, PublishedLifecycle
       DEF DoShutdown, Disconnected, BeginStop, Receiving, IInv, ThreadConsistent
  <2>8. CASE FinishStop
    <3>1. status.lifecycle = "Stopping"
      BY <1>2, <2>8 DEF FinishStop, IInv, ThreadConsistent
    <3>2. status'.lifecycle \in {"Stopped", "Failed"}
      BY <1>2, <2>8, PublishedLifecycle DEF FinishStop
    <3> QED BY <3>1, <3>2
  <2>9. CASE DeadlineReached
    BY <1>2, <2>9, PublishedLifecycle DEF DeadlineReached, IInv, ThreadConsistent
  <2>10. CASE BatchFails \/ BatchHitsBreakpoint \/ BatchReachesLimit \/ BatchEnds
    BY <1>2, <2>10, PublishedLifecycle, TurnFacts
       DEF BatchFails, BatchHitsBreakpoint, BatchReachesLimit, BatchEnds
  <2> QED BY <1>2, <2>1, <2>2, <2>3, <2>4, <2>5, <2>6, <2>7, <2>8, <2>9, <2>10
       DEF Next, Service
<1> QED BY <1>1, <1>2, Inductive, PTL DEF Spec, LifecycleRefined, Published!Spec

-----------------------------------------------------------------------------
(* The UART inbox *)

\* A push into the inbox extends it by the next byte, or slides it by one byte.
LEMMA SendKeepsOrder == IInv /\ InputInOrder /\ SendUart => InputInOrder'
<1> SUFFICES ASSUME IInv, InputInOrder, SendUart PROVE InputInOrder'
  OBVIOUS
<1> DEFINE fedLast == IF fed = <<>> THEN 0 ELSE fed[Len(fed)]
           last == IF inbox # <<>> THEN inbox[Len(inbox)] ELSE fedLast
<1>1. /\ inbox \in Seq(Nat) /\ fed \in Seq(Nat) /\ Len(inbox) \in Nat
      /\ InboxCapacity \in Nat /\ InboxCapacity > 0 /\ fed' = fed
  BY ServiceFacts, RuntimeAssumption DEF SendUart
<1>2. fedLast \in Nat
  BY <1>1
<1>3. last \in Nat
  BY <1>1, <1>2
<1>4. inbox' = Append(IF Len(inbox) = InboxCapacity THEN Tail(inbox) ELSE inbox, 1 + last)
  BY DEF SendUart
<1>5. /\ \A i \in 1 .. (Len(fed) - 1) : fed[i] < fed[i + 1]
      /\ \A i \in 1 .. (Len(inbox) - 1) : inbox[i + 1] = inbox[i] + 1
      /\ inbox # <<>> => \/ inbox[1] = fedLast + 1
                         \/ inbox[1] > fedLast /\ Len(inbox) = InboxCapacity
  BY DEF InputInOrder
<1>6. ASSUME inbox' # <<>>,
             \A i \in 1 .. (Len(inbox') - 1) : inbox'[i + 1] = inbox'[i] + 1,
             \/ inbox'[1] = fedLast + 1
             \/ inbox'[1] > fedLast /\ Len(inbox') = InboxCapacity
      PROVE  InputInOrder'
  BY <1>1, <1>5, <1>6 DEF InputInOrder
<1>7. CASE inbox = <<>>
  <2>1. last = fedLast /\ Len(inbox) # InboxCapacity
    BY <1>1, <1>7
  <2> HIDE DEF fedLast, last
  <2>2. inbox' = Append(<<>>, 1 + fedLast)
    BY <1>4, <1>7, <2>1
  <2>3. inbox' # <<>> /\ Len(inbox') = 1 /\ inbox'[1] = fedLast + 1
    BY <1>2, <2>2
  <2> QED BY <1>6, <2>3
<1>8. CASE inbox # <<>> /\ Len(inbox) # InboxCapacity
  <2>1. last = inbox[Len(inbox)] /\ Len(inbox) >= 1
    BY <1>1, <1>8
  <2> HIDE DEF fedLast, last
  <2>2. inbox' = Append(inbox, 1 + last)
    BY <1>4, <1>8
  <2>3. /\ Len(inbox') = Len(inbox) + 1 /\ inbox'[Len(inbox) + 1] = 1 + last
        /\ \A i \in 1 .. Len(inbox) : inbox'[i] = inbox[i]
    BY <1>1, <1>3, <2>2
  <2>4. \A i \in 1 .. (Len(inbox') - 1) : inbox'[i + 1] = inbox'[i] + 1
    <3> SUFFICES ASSUME NEW i \in 1 .. (Len(inbox') - 1)
                 PROVE  inbox'[i + 1] = inbox'[i] + 1
      OBVIOUS
    <3>1. CASE i = Len(inbox)
      BY <1>1, <1>3, <2>1, <2>3, <3>1
    <3>2. CASE i \in 1 .. (Len(inbox) - 1)
      BY <1>1, <1>5, <2>3, <3>2
    <3> QED BY <1>1, <2>3, <3>1, <3>2
  <2>5. inbox'[1] = fedLast + 1
    BY <1>1, <1>5, <1>8, <2>1, <2>3
  <2>6. inbox' # <<>>
    BY <1>1, <2>3
  <2> QED BY <1>6, <2>4, <2>5, <2>6
<1>9. CASE inbox # <<>> /\ Len(inbox) = InboxCapacity
  <2>1. last = inbox[Len(inbox)] /\ Len(inbox) >= 1
    BY <1>1, <1>9
  <2>2. inbox[1] \in Nat /\ inbox[1] > fedLast
    BY <1>1, <1>2, <1>5, <1>9, <2>1
  <2> HIDE DEF fedLast, last
  <2> DEFINE t == Tail(inbox)
  <2>3. /\ t \in Seq(Nat) /\ Len(t) = Len(inbox) - 1
        /\ \A i \in 1 .. Len(t) : t[i] = inbox[i + 1]
    BY <1>1, <1>9, <2>1
  <2>4. inbox' = Append(t, 1 + last)
    BY <1>4, <1>9
  <2> HIDE DEF t
  <2>5. /\ Len(inbox') = Len(inbox) /\ inbox'[Len(inbox)] = 1 + last
        /\ \A i \in 1 .. (Len(inbox) - 1) : inbox'[i] = inbox[i + 1]
    BY <1>1, <1>3, <2>1, <2>3, <2>4
  <2>6. \A i \in 1 .. (Len(inbox') - 1) : inbox'[i + 1] = inbox'[i] + 1
    <3> SUFFICES ASSUME NEW i \in 1 .. (Len(inbox) - 1)
                 PROVE  inbox'[i + 1] = inbox'[i] + 1
      BY <2>5
    <3>1. CASE i = Len(inbox) - 1
      BY <1>1, <1>3, <2>1, <2>5, <3>1
    <3>2. CASE i \in 1 .. (Len(inbox) - 2)
      <4>1. inbox'[i + 1] = inbox[i + 2] /\ inbox'[i] = inbox[i + 1]
        BY <1>1, <2>5, <3>2
      <4>2. inbox[(i + 1) + 1] = inbox[i + 1] + 1
        BY <1>1, <1>5, <3>2
      <4> QED BY <4>1, <4>2
    <3> QED BY <1>1, <3>1, <3>2
  <2>7. inbox'[1] > fedLast
    <3>1. CASE Len(inbox) = 1
      BY <1>2, <2>1, <2>2, <2>5, <3>1
    <3>2. CASE Len(inbox) > 1
      <4>1. inbox'[1] = inbox[2] /\ inbox[2] = inbox[1] + 1
        BY <1>1, <1>5, <2>5, <3>2
      <4> QED BY <1>2, <2>2, <4>1
    <3>3. Len(inbox) = 1 \/ Len(inbox) > 1
      <4>1. \A n \in Nat : n >= 1 => n = 1 \/ n > 1
        OBVIOUS
      <4>2. Len(inbox) \in Nat
        BY <1>1
      <4>3. Len(inbox) >= 1
        BY <2>1
      <4> QED BY <4>1, <4>2, <4>3, Zenon
    <3> QED BY <3>1, <3>2, <3>3
  <2>8. inbox' # <<>>
    BY <1>1, <2>1, <2>5
  <2> QED BY <1>6, <1>9, <2>5, <2>6, <2>7, <2>8
<1> QED BY <1>7, <1>8, <1>9

\* Draining appends the inbox to what the machine has received.
LEMMA DrainKeepsOrder == IInv /\ InputInOrder /\ Drain => InputInOrder'
<1> SUFFICES ASSUME IInv, InputInOrder, Drain PROVE InputInOrder'
  OBVIOUS
<1>1. inbox \in Seq(Nat) /\ fed \in Seq(Nat)
  BY ServiceFacts
<1>2. fed' = fed \o inbox /\ inbox' = <<>>
  BY DEF Drain
<1>0. /\ \A i \in 1 .. (Len(fed) - 1) : fed[i] < fed[i + 1]
      /\ \A i \in 1 .. (Len(inbox) - 1) : inbox[i + 1] = inbox[i] + 1
  BY DEF InputInOrder
<1>3. /\ fed' \in Seq(Nat) /\ Len(fed') = Len(fed) + Len(inbox)
      /\ Len(fed) \in Nat /\ Len(inbox) \in Nat
      /\ \A i \in 1 .. Len(fed) : fed'[i] = fed[i]
      /\ \A i \in 1 .. Len(inbox) : fed'[Len(fed) + i] = inbox[i]
  BY <1>1, <1>2, ConcatProperties, LenProperties
<1>4. \A k \in 1 .. Len(inbox) : fed'[Len(fed) + k] = inbox[k]
  BY <1>3
<1>5. \A i \in 1 .. (Len(fed') - 1) : fed'[i] < fed'[i + 1]
  <2> SUFFICES ASSUME NEW i \in 1 .. (Len(fed') - 1) PROVE fed'[i] < fed'[i + 1]
    OBVIOUS
  <2>1. CASE i \in 1 .. (Len(fed) - 1)
    <3>0. i \in 1 .. Len(fed) /\ i + 1 \in 1 .. Len(fed)
      BY <1>3, <2>1
    <3>1. fed'[i] = fed[i] /\ fed'[i + 1] = fed[i + 1]
      BY <1>3, <3>0
    <3> QED BY <1>0, <2>1, <3>1
  <2>2. CASE i = Len(fed)
    <3>1. fed # <<>> /\ inbox # <<>> /\ Len(inbox) >= 1
      BY <1>1, <1>3, <2>2
    <3>2. inbox[1] > fed[Len(fed)]
      BY <1>1, <3>1 DEF InputInOrder
    <3>3. fed'[i + 1] = inbox[1] /\ fed'[i] = fed[Len(fed)]
      BY <1>3, <2>2, <3>1
    <3> QED BY <1>1, <3>1, <3>2, <3>3
  <2>3. CASE i > Len(fed)
    <3> DEFINE j == i - Len(fed)
    <3>1. j \in 1 .. (Len(inbox) - 1) /\ i = Len(fed) + j /\ j + 1 \in 1 .. Len(inbox)
      BY <1>3, <2>3
    <3> HIDE DEF j
    <3>2. inbox[j + 1] = inbox[j] + 1 /\ inbox[j] \in Nat
      BY <1>0, <1>1, <3>1
    <3>3. fed'[i] = inbox[j] /\ fed'[i + 1] = inbox[j + 1]
      <4>0. j \in 1 .. Len(inbox) /\ j + 1 \in 1 .. Len(inbox) /\ i = Len(fed) + j
        BY <1>3, <3>1
      <4>1. fed'[Len(fed) + j] = inbox[j]
        BY <1>4, <4>0, Zenon
      <4>2. fed'[Len(fed) + (j + 1)] = inbox[j + 1]
        BY <1>4, <4>0, Zenon
      <4>3. Len(fed) + (j + 1) = i + 1
        BY <1>3, <3>1
      <4> QED BY <4>0, <4>1, <4>2, <4>3, Zenon
    <3> QED BY <3>2, <3>3
  <2> QED BY <1>3, <2>1, <2>2, <2>3
<1> QED BY <1>2, <1>5 DEF InputInOrder

\* Clients' bytes reach the machine in order and once, and only an overflow of the
\* inbox loses any, for every capacity.
THEOREM UartInputInOrder == Spec => []InputInOrder
<1>1. Init => InputInOrder
  BY DEF Init, InputInOrder
<1>2. ASSUME IInv, InputInOrder, [Next]_vars PROVE InputInOrder'
  <2>1. SendUart \/ Drain \/ UNCHANGED <<inbox, fed>>
    BY <1>2 DEF Next, Client, Service, Send, RequestInspection, ShutdownCall,
       JoinReturns, Drop, Start, Ignore, DoPause, DoResume, DoReset, DoInspect,
       DoShutdown, Disconnected, FinishStop, NoCommand, Timeout, Unhandled,
       DeadlineReached, BatchFails, BatchHitsBreakpoint, BatchReachesLimit, BatchEnds,
       Turn, vars
  <2>2. CASE UNCHANGED <<inbox, fed>>
    BY <1>2, <2>2 DEF InputInOrder
  <2> QED BY <1>2, <2>1, <2>2, SendKeepsOrder, DrainKeepsOrder
<1> QED BY <1>1, <1>2, Inductive, PTL DEF Spec

=============================================================================
