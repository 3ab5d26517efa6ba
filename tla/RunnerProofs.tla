----------------------------- MODULE RunnerProofs -----------------------------
(* The verdict of the headless runner for every value of its constants. *)
EXTENDS Runner, RuntimeProofs, FiniteSetTheorems

-----------------------------------------------------------------------------
(* The inductive invariant *)

Machines == [ticks : Nat, pc : Addresses, unsaved : SUBSET Units]

RunnerTypeOK ==
  /\ job \in Jobs
  /\ runner \in
       [ point     : {"Setup", "Polling", "Halted", "Asking", "Receiving", "Closing",
                      "Joining", "Collected", "Judging", "Media", "Returned"},
         execution : Statuses \cup {None},
         answer    : Machines \cup {None},
         answers   : [Inspections -> Machines \cup {None}],
         shutdown  : Statuses \cup {None},
         verdict   : {None, "Refused", "Aborted", "Ok", "Unmet"} ]

\* The runner sends inspections, and a shutdown only as it closes the handle.
OnlyInspections ==
  /\ \A i \in 1 .. Len(queue) : queue[i].op \in {"Inspect", "Shutdown"}
  /\ runner.point \in {"Setup", "Polling", "Halted", "Asking", "Receiving", "Closing"} =>
       /\ handle = "Open"
       /\ \A i \in 1 .. Len(queue) : queue[i].op = "Inspect"
       /\ service.point # "Stopping" /\ status.lifecycle # "Stopped"

\* The runner has seen the guest halted.
Past == runner.point \notin {"Setup", "Polling"} /\ runner.verdict # "Refused"

\* A guest that was seen halted never runs again.
StaysHalted ==
  /\ Past => /\ service.point \notin {"Starting", "Running"}
             /\ service.point \in {"Commands", "Waiting"} => service.lifecycle = "Paused"
  /\ runner.point \in {"Setup", "Polling", "Halted"} =>
       queue = <<>> /\ \A id \in Inspections : reply[id] = "None"
  /\ runner.verdict # None <=> runner.point = "Returned"

\* What the runner has collected describes the guest the service still holds.
CollectedCurrent ==
  /\ Past /\ (\E id \in Inspections : reply[id] = "Answered") =>
       runner.answer # None /\ runner.answer.pc = guest.pc
  /\ Past => \A id \in Inspections :
       runner.answers[id] # None => runner.answers[id].pc = guest.pc
  /\ Past /\ runner.point # "Halted" =>
       /\ runner.execution \in Statuses
       /\ runner.execution.lifecycle \in {"Paused", "Failed"}
       /\ runner.execution.ticks = guest.ticks
       /\ runner.execution.lifecycle = "Failed" =>
            service.point = "Done" /\ status.lifecycle = "Failed"
  /\ runner.point \in {"Setup", "Polling", "Halted"} =>
       \A id \in Inspections : runner.answers[id] = None
  /\ runner.point \in {"Asking", "Receiving"} =>
       Open # {} /\ runner.execution.lifecycle = "Paused"
  /\ Past /\ runner.point \notin {"Halted", "Asking", "Receiving"}
       /\ runner.verdict # "Aborted" /\ runner.execution.lifecycle = "Paused" =>
         \A id \in Inspections : runner.answers[id] # None

Expected ==
  ResultHolds /\ \A assertion \in job.block_media : MediaHolds(assertion)

\* The service has ended, and the verdict follows from what was collected.
Judged ==
  /\ runner.point \in {"Collected", "Judging", "Media"} \/ runner.verdict \in {"Ok", "Unmet"} =>
       service.point = "Done" /\ runner.shutdown = status
  /\ runner.point = "Media" => ResultHolds
  /\ runner.verdict = "Ok" => Expected
  /\ runner.verdict = "Unmet" => ~Expected

RunnerInv ==
  /\ IInv
  /\ RunnerTypeOK
  /\ OnlyInspections
  /\ StaysHalted
  /\ CollectedCurrent
  /\ Judged

-----------------------------------------------------------------------------
(* Steps of the service *)

\* The service empties the channel from its front.
LEMMA ServiceQueue ==
  ASSUME IInv, Service
  PROVE  queue' = queue \/ (queue # <<>> /\ queue' = Tail(queue)) \/ queue' = <<>>
BY DEF Service, Start, Ignore, DoPause, DoResume, DoReset, DoInspect, DoShutdown,
   Disconnected, FinishStop, NoCommand, Timeout, DeadlineReached, BatchFails,
   BatchHitsBreakpoint, BatchReachesLimit, BatchEnds, Exit, Received, Receiving

\* What all queued commands are, those left after a step are.
LEMMA QueuedStays ==
  ASSUME IInv, Service, NEW ops, \A i \in 1 .. Len(queue) : queue[i].op \in ops
  PROVE  \A i \in 1 .. Len(queue') : queue'[i].op \in ops
<1>1. queue \in Seq(Commands)
  BY DEF IInv, RuntimeTypeOK
<1>2. CASE queue # <<>> /\ queue' = Tail(queue)
  <2>1. /\ Len(queue') = Len(queue) - 1
        /\ \A i \in 1 .. Len(queue') : queue'[i] = queue[i + 1]
    BY <1>1, <1>2, HeadTailProperties
  <2>2. Len(queue) \in Nat
    BY <1>1
  <2> QED BY <2>1, <2>2
<1> QED BY <1>2, ServiceQueue

\* Without commands that set it going, a halted guest stays as it is.
LEMMA HaltedGuestStays ==
  ASSUME IInv, Service,
         \A i \in 1 .. Len(queue) : queue[i].op \in {"Inspect", "Shutdown"},
         service.point \notin {"Starting", "Running"},
         service.point \in {"Commands", "Waiting"} => service.lifecycle = "Paused"
  PROVE  /\ service.point # "Done"
         /\ guest'.pc = guest.pc /\ guest'.ticks = guest.ticks
         /\ service'.point \notin {"Starting", "Running"}
         /\ service'.point \in {"Commands", "Waiting"} => service'.lifecycle = "Paused"
<1>1. service \in Services /\ queue \in Seq(Commands)
      /\ guest \in [ticks : Nat, pc : Addresses, unsaved : SUBSET Units]
  BY DEF IInv, RuntimeTypeOK
<1>2. ASSUME NEW op, Receiving(op) PROVE op \in {"Inspect", "Shutdown"}
  <2>1. queue # <<>> /\ queue[1].op = op
    BY <1>2, <1>1 DEF Receiving
  <2> QED BY <2>1, <1>1
<1>3. ~Receiving("Pause") /\ ~Receiving("Resume") /\ ~Receiving("Reset")
  BY <1>2
<1>4. \/ DoInspect \/ DoShutdown \/ Disconnected \/ FinishStop \/ NoCommand \/ Timeout
  BY <1>3 DEF Service, Start, Ignore, DoPause, DoResume, DoReset, DeadlineReached,
     BatchFails, BatchHitsBreakpoint, BatchReachesLimit, BatchEnds, Turn
<1>5. CASE DoInspect \/ DoShutdown \/ Disconnected \/ NoCommand \/ Timeout
  BY <1>5, <1>1 DEF DoInspect, DoShutdown, Disconnected, NoCommand, Timeout, BeginStop,
     Services, Receiving
<1>6. CASE FinishStop
  BY <1>6, <1>1 DEF FinishStop, Exit, Flushed, Services
<1> QED BY <1>4, <1>5, <1>6

\* A service nobody asks to stop does not.
LEMMA UnaskedGoesOn ==
  ASSUME IInv, Service, handle = "Open",
         \A i \in 1 .. Len(queue) : queue[i].op = "Inspect",
         service.point # "Stopping", status.lifecycle # "Stopped"
  PROVE  /\ service'.point # "Stopping" /\ status'.lifecycle # "Stopped"
         /\ handle' = "Open"
<1>1. service \in Services /\ queue \in Seq(Commands) /\ status \in Statuses
  BY DEF IInv, RuntimeTypeOK
<1>2. ~Receiving("Shutdown")
  <2> SUFFICES ASSUME Receiving("Shutdown") PROVE FALSE
    OBVIOUS
  <2>1. queue # <<>> /\ queue[1].op = "Shutdown"
    BY <1>1 DEF Receiving
  <2> QED BY <2>1, <1>1
<1>3. ~DoShutdown /\ ~Disconnected /\ ~FinishStop
  BY <1>2 DEF DoShutdown, Disconnected, FinishStop
<1>4. service'.point # "Stopping"
  BY <1>1, <1>3 DEF Service, Start, Ignore, DoPause, DoResume, DoReset, DoInspect, NoCommand,
     Timeout, DeadlineReached, BatchFails, BatchHitsBreakpoint, BatchReachesLimit,
     BatchEnds, Exit, Services
<1>5. handle' = "Open"
  BY DEF Service, Start, Ignore, DoPause, DoResume, DoReset, DoInspect, DoShutdown,
     Disconnected, FinishStop, NoCommand, Timeout, DeadlineReached, BatchFails,
     BatchHitsBreakpoint, BatchReachesLimit, BatchEnds, Unhandled, Turn
<1>6. status'.lifecycle # "Stopped"
  <2>1. service.lifecycle # "Stopped"
    BY <1>1 DEF Services
  <2>2. CASE Start
    BY <1>1, <2>2, PublishedLifecycle DEF Start, Statuses
  <2>3. CASE Ignore \/ DoInspect \/ NoCommand \/ Timeout
    BY <2>3 DEF Ignore, DoInspect, NoCommand, Timeout
  <2>4. CASE DoPause \/ DoResume \/ DoReset \/ DeadlineReached
    BY <2>1, <2>4, PublishedLifecycle DEF DoPause, DoResume, DoReset, DeadlineReached
  <2>5. CASE BatchFails \/ BatchHitsBreakpoint \/ BatchReachesLimit \/ BatchEnds
    BY <2>5, PublishedLifecycle
       DEF BatchFails, BatchHitsBreakpoint, BatchReachesLimit, BatchEnds
  <2> QED BY <1>3, <2>2, <2>3, <2>4, <2>5 DEF Service
<1> QED BY <1>4, <1>5, <1>6

-----------------------------------------------------------------------------
(* The invariant is inductive *)

LEMMA RunnerStarts == RunnerInit => RunnerInv
<1> SUFFICES ASSUME RunnerInit PROVE RunnerInv
  OBVIOUS
<1>1. IInv
  BY InitHolds DEF RunnerInit
<1>2. RunnerTypeOK
  BY RunnerAssumption DEF RunnerInit, RunnerTypeOK
<1>3. /\ queue = <<>> /\ handle = "Open" /\ service.point = "Starting"
      /\ status.lifecycle = "Starting" /\ \A id \in Inspections : reply[id] = "None"
      /\ runner.point = "Setup" /\ runner.verdict = None
      /\ \A id \in Inspections : runner.answers[id] = None
  BY DEF RunnerInit, Init
<1>4. ~Past /\ runner.verdict \notin {"Ok", "Unmet"}
  BY <1>3, RunnerAssumption DEF Past
<1>5. OnlyInspections
  BY <1>3 DEF OnlyInspections
<1>6. StaysHalted
  BY <1>3, <1>4 DEF StaysHalted
<1>7. CollectedCurrent
  BY <1>3, <1>4 DEF CollectedCurrent
<1>8. Judged
  BY <1>3, <1>4 DEF Judged
<1> QED BY <1>1, <1>2, <1>5, <1>6, <1>7, <1>8 DEF RunnerInv

\* The inspections of Order, and the first that is open.
LEMMA OpenFacts ==
  ASSUME RunnerTypeOK
  PROVE  /\ DOMAIN Order = 1 .. 4
         /\ {"Peripherals", "Mmu", "Events", "Execution"} \subseteq Inspections
         /\ Open \subseteq 1 .. 4 /\ IsFiniteSet(Open)
         /\ \A i \in 1 .. 4 : Order[i] \in Inspections
         /\ \A i, j \in 1 .. 4 : Order[i] = Order[j] => i = j
         /\ \A id \in Inspections : \E i \in 1 .. 4 : id = Order[i]
         /\ Open # {} => /\ Min(Open) \in Open
                         /\ Current \in Inspections /\ runner.answers[Current] = None
<1>a. DOMAIN Order = 1 .. 4
  BY DEF Order
<1>b. Order[1] = "Peripherals"
  BY DEF Order
<1>c. Order[2] = "Mmu"
  BY DEF Order
<1>d. Order[3] = "Events"
  BY DEF Order
<1>e. Order[4] = "Execution"
  BY DEF Order
<1>1. /\ DOMAIN Order = 1 .. 4
      /\ \A i, j \in 1 .. 4 : Order[i] = Order[j] => i = j
  <2>1. \A i \in 1 .. 4 : i = 1 \/ i = 2 \/ i = 3 \/ i = 4
    OBVIOUS
  <2> QED BY <1>a, <1>b, <1>c, <1>d, <1>e, <2>1
<1>2. /\ \A i \in 1 .. 4 : Order[i] \in Inspections
      /\ \A id \in Inspections : \E i \in 1 .. 4 : id = Order[i]
  BY <1>1, RunnerAssumption
<1>3. Open \subseteq 1 .. 4
  BY <1>1 DEF Open
<1>4. IsFiniteSet(Open)
  <2>1. IsFiniteSet(1 .. 4)
    BY FS_Interval, 1 \in Int, 4 \in Int, Zenon
  <2> QED BY <1>3, <2>1, FS_Subset
<1>5. ASSUME Open # {}
      PROVE  Min(Open) \in Open
  <2>1. \E x \in Open : \A y \in Open : x =< y
    <3>1. CASE 1 \in Open
      BY <1>3, <3>1
    <3>2. CASE 1 \notin Open /\ 2 \in Open
      BY <1>3, <3>2
    <3>3. CASE 1 \notin Open /\ 2 \notin Open /\ 3 \in Open
      BY <1>3, <3>3
    <3>4. CASE 1 \notin Open /\ 2 \notin Open /\ 3 \notin Open
      <4>1. \A i \in 1 .. 4 : i = 1 \/ i = 2 \/ i = 3 \/ i = 4
        OBVIOUS
      <4>2. \A i \in Open : i = 4
        BY <1>3, <3>4, <4>1
      <4> QED BY <1>5, <4>2
    <3> QED BY <3>1, <3>2, <3>3, <3>4
  <2> QED BY <2>1 DEF Min
<1>6. Open # {} => Current \in Inspections /\ runner.answers[Current] = None
  BY <1>2, <1>3, <1>5 DEF Current, Open
<1>7. {"Peripherals", "Mmu", "Events", "Execution"} \subseteq Inspections
  BY <1>2, <1>b, <1>c, <1>d, <1>e
<1> QED BY <1>1, <1>2, <1>3, <1>4, <1>5, <1>6, <1>7

\* Every step of the composition is one of Runtime, or leaves it alone.
LEMMA RunnerTakesRuntimeSteps ==
  ASSUME RunnerInv, [RunnerNext]_runnerVars PROVE [Next]_vars
<1>1. CASE Ask
  <2>1. Current \in Inspections
    BY <1>1, OpenFacts DEF RunnerInv, CollectedCurrent, Ask, At
  <2> QED BY <1>1, <2>1 DEF Ask, Next, Client
<1>2. CASE ~Ask
  BY <1>2 DEF RunnerNext, runnerVars, Serve, Step, Refuse, Spawn, Poll, TakeExecutionStatus,
     Receive, Abort, Close, TakeShutdownStatus, Collect, AssertResult, AssertBlockMedia,
     Next, Client
<1> QED BY <1>1, <1>2

\* A service that has ended takes no step.
LEMMA ServiceAlive == ASSUME Service PROVE service.point # "Done"
BY DEF Service, Start, Ignore, DoPause, DoResume, DoReset, DoInspect, DoShutdown,
   Disconnected, FinishStop, NoCommand, Timeout, DeadlineReached, BatchFails,
   BatchHitsBreakpoint, BatchReachesLimit, BatchEnds, Receiving, Turn

\* Only an inspection answers a request, and it leaves the guest alone.
LEMMA AnsweredWithGuest ==
  ASSUME IInv, Service, NEW id \in Inspections,
         reply'[id] # reply[id], queue = <<>> \/ reply'[id] = "Answered"
  PROVE  /\ queue # <<>> => guest' = guest
         /\ queue = <<>> => reply[id] = "Queued"
<1>1. reply \in [Inspections -> {"None", "Queued", "Answered", "Stopped"}]
  BY DEF IInv, RuntimeTypeOK
<1>2. reply' = reply \/ DoInspect \/ Exit
  BY DEF Service, Start, Ignore, DoPause, DoResume, DoReset, DoShutdown,
     Disconnected, FinishStop, NoCommand, Timeout, DeadlineReached, BatchFails,
     BatchHitsBreakpoint, BatchReachesLimit, BatchEnds
<1>3. CASE DoInspect
  BY <1>3 DEF DoInspect, Receiving
<1>4. CASE Exit
  <2>1. reply'[id] = IF reply[id] = "Queued" THEN "Stopped" ELSE reply[id]
    BY <1>4 DEF Exit
  <2> QED BY <1>1, <2>1
<1> QED BY <1>2, <1>3, <1>4

LEMMA ServePreserves == ASSUME RunnerInv, Serve PROVE RunnerInv'
<1>1. Service /\ job' = job /\ IInv
  BY DEF Serve, RunnerInv
<1>2. IInv'
  BY <1>1, NextPreserves DEF Next
<1>3. RunnerTypeOK /\ RuntimeTypeOK
  BY DEF RunnerInv, IInv
<1>4. /\ runner'.point = runner.point /\ runner'.execution = runner.execution
      /\ runner'.answers = runner.answers /\ runner'.shutdown = runner.shutdown
      /\ runner'.verdict = runner.verdict
      /\ runner'.answer \in {runner.answer, guest}
      /\ (\E id \in Inspections : reply'[id] = "Answered" /\ reply[id] # "Answered") =>
           runner'.answer = guest
      /\ (~\E id \in Inspections : reply'[id] = "Answered" /\ reply[id] # "Answered") =>
           runner'.answer = runner.answer
  BY <1>3 DEF Serve, RunnerTypeOK
<1>5. RunnerTypeOK'
  BY <1>1, <1>3 DEF Serve, RunnerTypeOK, RuntimeTypeOK, Machines
<1>6. service.point # "Done" /\ (Past' <=> Past)
  BY <1>1, <1>4, ServiceAlive DEF Past
<1>7. OnlyInspections'
  <2>1. \A i \in 1 .. Len(queue') : queue'[i].op \in {"Inspect", "Shutdown"}
    BY <1>1, QueuedStays DEF RunnerInv, OnlyInspections
  <2>2. ASSUME runner.point \in {"Setup", "Polling", "Halted", "Asking", "Receiving",
                                 "Closing"}
        PROVE  /\ \A i \in 1 .. Len(queue') : queue'[i].op \in {"Inspect"}
               /\ handle' = "Open"
               /\ service'.point # "Stopping" /\ status'.lifecycle # "Stopped"
    BY <1>1, <2>2, QueuedStays, UnaskedGoesOn DEF RunnerInv, OnlyInspections
  <2> QED BY <1>4, <2>1, <2>2 DEF OnlyInspections
<1>8. ASSUME Past
      PROVE  /\ guest'.pc = guest.pc /\ guest'.ticks = guest.ticks
             /\ service'.point \notin {"Starting", "Running"}
             /\ service'.point \in {"Commands", "Waiting"} => service'.lifecycle = "Paused"
  BY <1>1, <1>8, HaltedGuestStays DEF RunnerInv, OnlyInspections, StaysHalted
<1>9. StaysHalted'
  <2>1. ASSUME runner.point \in {"Setup", "Polling", "Halted"}
        PROVE  queue' = <<>> /\ \A id \in Inspections : reply'[id] = "None"
    <3>1. queue = <<>> /\ \A id \in Inspections : reply[id] = "None"
      BY <2>1 DEF RunnerInv, StaysHalted
    <3>2. queue' = <<>>
      BY <1>1, <3>1, ServiceQueue
    <3>3. \A id \in Inspections : reply'[id] = "None"
      BY <1>1, <3>1, AnsweredWithGuest
    <3> QED BY <3>2, <3>3
  <2>2. runner.verdict # None <=> runner.point = "Returned"
    BY DEF RunnerInv, StaysHalted
  <2> QED BY <1>4, <1>6, <1>8, <2>1, <2>2 DEF StaysHalted
<1>10. CollectedCurrent'
  <2>1. CollectedCurrent
    BY DEF RunnerInv
  <2>2. ASSUME Past, NEW id \in Inspections, reply'[id] = "Answered"
        PROVE  runner'.answer # None /\ runner'.answer.pc = guest'.pc
    <3>1. CASE \E other \in Inspections :
                 reply'[other] = "Answered" /\ reply[other] # "Answered"
      <4>1. runner'.answer = guest
        BY <1>4, <3>1
      <4> QED BY <1>3, <1>8, <2>2, <4>1, RunnerAssumption DEF RuntimeTypeOK
    <3>2. CASE ~\E other \in Inspections :
                 reply'[other] = "Answered" /\ reply[other] # "Answered"
      <4>1. runner'.answer = runner.answer /\ reply[id] = "Answered"
        BY <1>4, <2>2, <3>2
      <4> QED BY <1>8, <2>1, <2>2, <4>1 DEF CollectedCurrent
    <3> QED BY <3>1, <3>2
  <2>3. ASSUME Past
        PROVE  \A id \in Inspections :
                 runner'.answers[id] # None => runner'.answers[id].pc = guest'.pc
    BY <1>4, <1>8, <2>1, <2>3 DEF CollectedCurrent
  <2>4. ASSUME Past, runner.point # "Halted"
        PROVE  /\ runner'.execution \in Statuses
               /\ runner'.execution.lifecycle \in {"Paused", "Failed"}
               /\ runner'.execution.ticks = guest'.ticks
               /\ runner'.execution.lifecycle # "Failed"
    BY <1>4, <1>6, <1>8, <2>1, <2>4 DEF CollectedCurrent
  <2>5. Open' = Open
    BY <1>4 DEF Open
  <2>6. /\ runner.point \in {"Setup", "Polling", "Halted"} =>
             \A id \in Inspections : runner'.answers[id] = None
        /\ runner.point \in {"Asking", "Receiving"} =>
             Open' # {} /\ runner'.execution.lifecycle = "Paused"
        /\ Past /\ runner.point \notin {"Halted", "Asking", "Receiving"}
             /\ runner.verdict # "Aborted" /\ runner'.execution.lifecycle = "Paused" =>
               \A id \in Inspections : runner'.answers[id] # None
    BY <1>4, <2>1, <2>5 DEF CollectedCurrent
  <2>7. (Past /\ \E id \in Inspections : reply[id] = "Answered")' =>
          runner'.answer # None /\ runner'.answer.pc = guest'.pc
    BY <1>6, <2>2
  <2> QED BY <1>4, <1>6, <2>3, <2>4, <2>6, <2>7 DEF CollectedCurrent
<1>11. Judged'
  BY <1>4, <1>6 DEF RunnerInv, Judged
<1> QED BY <1>2, <1>5, <1>7, <1>9, <1>10, <1>11 DEF RunnerInv

\* The runner's own steps keep the runtime's invariant and the job.
LEMMA StepKeepsRuntime ==
  ASSUME RunnerInv, Step PROVE IInv' /\ job' = job
<1>1. [RunnerNext]_runnerVars
  BY DEF RunnerNext
<1>2. IInv
  BY DEF RunnerInv
<1>3. IInv'
  BY <1>1, <1>2, RunnerTakesRuntimeSteps, NextPreserves
<1> QED BY <1>3 DEF Step

\* Before the service is there to be waited for.
LEMMA SetupPreserves ==
  ASSUME RunnerInv, Step, Refuse \/ Spawn PROVE RunnerInv'
<1>1. IInv' /\ job' = job
  BY StepKeepsRuntime
<1>2. /\ service' = service /\ status' = status /\ queue' = queue
      /\ reply' = reply /\ handle' = handle /\ runner.point = "Setup"
  BY DEF Refuse, Spawn, vars, At
<1>3. RunnerTypeOK
  BY DEF RunnerInv
<1>4. /\ runner'.answers = runner.answers
      /\ \/ runner'.point = "Polling" /\ runner'.verdict = runner.verdict
         \/ runner'.point = "Returned" /\ runner'.verdict = "Refused"
  BY <1>3 DEF Refuse, Spawn, Return, Goto, RunnerTypeOK
<1>5. RunnerTypeOK'
  BY <1>1, <1>3 DEF Refuse, Spawn, Return, Goto, RunnerTypeOK
<1>6. runner.verdict = None
  BY <1>2, <1>3 DEF RunnerInv, StaysHalted, RunnerTypeOK
<1>7. OnlyInspections'
  BY <1>2, <1>4 DEF RunnerInv, OnlyInspections
<1>8. ~Past'
  BY <1>4 DEF Past
<1>9. StaysHalted'
  BY <1>2, <1>4, <1>6, <1>8, RunnerAssumption DEF RunnerInv, StaysHalted
<1>10. CollectedCurrent'
  BY <1>2, <1>4, <1>8 DEF RunnerInv, CollectedCurrent
<1>11. Judged'
  BY <1>4, <1>6, RunnerAssumption DEF Judged
<1> QED BY <1>1, <1>5, <1>7, <1>9, <1>10, <1>11 DEF RunnerInv

\* The guest is seen halted: the service published so, and stays so.
LEMMA PollPreserves ==
  ASSUME RunnerInv, Step, Poll PROVE RunnerInv'
<1>1. IInv' /\ job' = job /\ IInv
  BY StepKeepsRuntime DEF RunnerInv
<1>2. /\ service' = service /\ status' = status /\ queue' = queue /\ guest' = guest
      /\ reply' = reply /\ handle' = handle /\ runner.point = "Polling"
      /\ status.lifecycle \in {"Paused", "Stopped", "Failed"}
  BY DEF Poll, vars, At
<1>3. RunnerTypeOK
  BY DEF RunnerInv
<1>4. /\ runner'.answers = runner.answers /\ runner'.answer = runner.answer
      /\ runner'.point = "Halted" /\ runner'.verdict = runner.verdict
  BY <1>3 DEF Poll, Goto, RunnerTypeOK
<1>5. RunnerTypeOK'
  BY <1>1, <1>3 DEF Poll, Goto, RunnerTypeOK
<1>6. runner.verdict = None
  BY <1>2, <1>3 DEF RunnerInv, StaysHalted, RunnerTypeOK
<1>7. OnlyInspections'
  BY <1>2, <1>4 DEF RunnerInv, OnlyInspections
<1>8. /\ service.point \notin {"Starting", "Running"}
      /\ service.point \in {"Commands", "Waiting"} => service.lifecycle = "Paused"
  BY <1>1, <1>2 DEF IInv, ThreadConsistent
<1>9. StaysHalted'
  BY <1>2, <1>4, <1>6, <1>8 DEF RunnerInv, StaysHalted
<1>10. CollectedCurrent'
  BY <1>2, <1>4 DEF RunnerInv, CollectedCurrent, StaysHalted
<1>11. Judged'
  BY <1>4, <1>6, RunnerAssumption DEF Judged
<1> QED BY <1>1, <1>5, <1>7, <1>9, <1>10, <1>11 DEF RunnerInv

\* The status is taken of a guest that stays as it is.
LEMMA TakeExecutionPreserves ==
  ASSUME RunnerInv, Step, TakeExecutionStatus PROVE RunnerInv'
<1>1. IInv' /\ job' = job /\ IInv
  BY StepKeepsRuntime DEF RunnerInv
<1>2. /\ service' = service /\ status' = status /\ queue' = queue /\ guest' = guest
      /\ reply' = reply /\ handle' = handle /\ runner.point = "Halted"
  BY DEF TakeExecutionStatus, vars, At
<1>3. RunnerTypeOK /\ status \in Statuses
  BY <1>1 DEF RunnerInv, IInv, RuntimeTypeOK
<1>4. /\ runner'.answers = runner.answers /\ runner'.answer = runner.answer
      /\ runner'.execution = status /\ runner'.verdict = runner.verdict
      /\ status.lifecycle = "Paused" => runner'.point = "Asking"
      /\ status.lifecycle # "Paused" => runner'.point = "Closing"
  BY <1>3 DEF TakeExecutionStatus, RunnerTypeOK
<1>5. RunnerTypeOK'
  BY <1>1, <1>3 DEF TakeExecutionStatus, RunnerTypeOK
<1>6. runner.verdict = None /\ Past /\ Past'
  BY <1>2, <1>3, <1>4, RunnerAssumption DEF RunnerInv, StaysHalted, RunnerTypeOK, Past
<1>7. OnlyInspections'
  BY <1>2, <1>4 DEF RunnerInv, OnlyInspections
<1>8. StaysHalted'
  BY <1>2, <1>4, <1>6 DEF RunnerInv, StaysHalted
<1>9. status.lifecycle \in {"Paused", "Failed"}
      /\ (status.lifecycle = "Failed" => service.point = "Done")
  BY <1>1, <1>2, <1>3, <1>6 DEF RunnerInv, IInv, RuntimeTypeOK, Services, ThreadConsistent,
     OnlyInspections, StaysHalted
<1>10. status.ticks = guest.ticks
  BY <1>1, <1>9 DEF IInv, HaltedStatusExact
<1>11. Open' # {}
  <2>1. \A i \in 1 .. 4 : Order[i] \in Inspections /\ i \in DOMAIN Order
    BY <1>3, OpenFacts
  <2>2. 1 \in Open'
    BY <1>2, <1>4, <2>1 DEF RunnerInv, CollectedCurrent, Open
  <2> QED BY <2>2
<1>12. CollectedCurrent'
  BY <1>2, <1>3, <1>4, <1>6, <1>9, <1>10, <1>11 DEF RunnerInv, CollectedCurrent, StaysHalted
<1>13. Judged'
  BY <1>4, <1>6, RunnerAssumption DEF Judged
<1> QED BY <1>1, <1>5, <1>7, <1>8, <1>12, <1>13 DEF RunnerInv

\* What all queued commands and a new one are, those of the longer queue are.
LEMMA AppendedStays ==
  ASSUME NEW ops, queue \in Seq(Commands), NEW c \in Commands, c.op \in ops,
         \A i \in 1 .. Len(queue) : queue[i].op \in ops
  PROVE  \A i \in 1 .. Len(Append(queue, c)) : Append(queue, c)[i].op \in ops
<1>1. /\ Len(Append(queue, c)) = Len(queue) + 1
      /\ \A i \in 1 .. Len(queue) : Append(queue, c)[i] = queue[i]
      /\ Append(queue, c)[Len(queue) + 1] = c
  BY AppendProperties
<1>2. Len(queue) \in Nat
  OBVIOUS
<1> QED BY <1>1, <1>2

LEMMA AskPreserves ==
  ASSUME RunnerInv, Step, Ask PROVE RunnerInv'
<1>1. IInv' /\ job' = job /\ IInv
  BY StepKeepsRuntime DEF RunnerInv
<1>2. RunnerTypeOK /\ RuntimeTypeOK /\ runner.point = "Asking"
  BY <1>1 DEF RunnerInv, IInv, Ask, At
<1>3. Current \in Inspections
  BY <1>2, OpenFacts DEF RunnerInv, CollectedCurrent
<1>4. /\ service' = service /\ status' = status /\ guest' = guest /\ handle' = handle
      /\ queue' = Append(queue, Inspect(Current))
      /\ \A id \in Inspections : reply'[id] = "Answered" => reply[id] = "Answered"
  BY <1>2, <1>3 DEF Ask, RequestInspection, RuntimeTypeOK
<1>5. /\ runner'.answers = runner.answers /\ runner'.answer = runner.answer
      /\ runner'.execution = runner.execution /\ runner'.verdict = runner.verdict
      /\ runner'.point = "Receiving"
  BY <1>2 DEF Ask, Goto, RunnerTypeOK
<1>6. RunnerTypeOK'
  BY <1>1, <1>2 DEF Ask, Goto, RunnerTypeOK
<1>7. runner.verdict = None /\ Past /\ Past' /\ Open' = Open
  BY <1>2, <1>5, RunnerAssumption DEF RunnerInv, StaysHalted, Past, Open
<1>8. OnlyInspections'
  <2>1. Inspect(Current) \in Commands /\ Inspect(Current).op \in {"Inspect"}
    BY <1>3, CommandTypes DEF Inspect
  <2>2. \A i \in 1 .. Len(queue) : queue[i].op \in {"Inspect"}
    BY <1>2 DEF RunnerInv, OnlyInspections
  <2>3. \A i \in 1 .. Len(queue') : queue'[i].op \in {"Inspect"}
    BY <1>2, <1>4, <2>1, <2>2, AppendedStays DEF RuntimeTypeOK
  <2> QED BY <1>2, <1>4, <1>5, <2>3 DEF RunnerInv, OnlyInspections
<1>9. StaysHalted'
  BY <1>2, <1>4, <1>5, <1>7 DEF RunnerInv, StaysHalted
<1>10. CollectedCurrent'
  BY <1>2, <1>4, <1>5, <1>7 DEF RunnerInv, CollectedCurrent
<1>11. Judged'
  BY <1>5, <1>7, RunnerAssumption DEF Judged
<1> QED BY <1>1, <1>6, <1>8, <1>9, <1>10, <1>11 DEF RunnerInv

\* The answer was taken from the guest that is still there; the last one closes.
LEMMA ReceivePreserves ==
  ASSUME RunnerInv, Step, Receive PROVE RunnerInv'
<1>1. IInv' /\ job' = job /\ IInv
  BY StepKeepsRuntime DEF RunnerInv
<1>2. RunnerTypeOK /\ runner.point = "Receiving" /\ reply[Current] = "Answered"
  BY DEF RunnerInv, Receive, At
<1>3. Open # {} /\ Current \in Inspections
  BY <1>2, OpenFacts DEF RunnerInv, CollectedCurrent
<1>4. /\ service' = service /\ status' = status /\ queue' = queue /\ guest' = guest
      /\ reply' = reply /\ handle' = handle
  BY DEF Receive, vars
<1>5. /\ runner'.answers = [runner.answers EXCEPT ![Current] = runner.answer]
      /\ runner'.answer = runner.answer
      /\ runner'.execution = runner.execution /\ runner'.verdict = runner.verdict
      /\ Cardinality(Open) = 1 => runner'.point = "Closing"
      /\ Cardinality(Open) # 1 => runner'.point = "Asking"
  BY <1>2 DEF Receive, RunnerTypeOK
<1>6. RunnerTypeOK'
  BY <1>1, <1>2 DEF Receive, RunnerTypeOK
<1>7. runner.verdict = None /\ Past /\ Past'
  BY <1>2, <1>5, RunnerAssumption DEF RunnerInv, StaysHalted, Past
<1>8. runner.answer # None /\ runner.answer.pc = guest.pc
  BY <1>2, <1>3, <1>7 DEF RunnerInv, CollectedCurrent
<1>9. \A id \in Inspections :
        runner'.answers[id] = IF id = Current THEN runner.answer ELSE runner.answers[id]
  BY <1>2, <1>5 DEF RunnerTypeOK
<1>10. ASSUME Cardinality(Open) = 1
       PROVE  \A id \in Inspections : runner'.answers[id] # None
  <2>1. PICK x : Open = {x}
    BY <1>2, <1>10, OpenFacts, FS_Singleton
  <2>2. Min(Open) = x
    BY <1>2, <1>3, <2>1, OpenFacts
  <2>3. \A i \in 1 .. 4 : i # x => runner.answers[Order[i]] # None
    BY <1>2, <2>1, OpenFacts DEF Open
  <2>4. \A id \in Inspections : id # Current => runner.answers[id] # None
    BY <1>2, <2>2, <2>3, OpenFacts DEF Current
  <2> QED BY <1>8, <1>9, <2>4
<1>11. ASSUME Cardinality(Open) # 1
       PROVE  Open' # {}
  <2>1. PICK i \in Open : i # Min(Open)
    <3> SUFFICES ASSUME \A i \in Open : i = Min(Open) PROVE FALSE
      OBVIOUS
    <3>1. Open = {Min(Open)}
      BY <1>2, <1>3, OpenFacts
    <3> QED BY <1>11, <3>1, FS_Singleton
  <2>2. i \in 1 .. 4 /\ Min(Open) \in 1 .. 4
    BY <1>2, <1>3, OpenFacts
  <2>3. Order[i] # Current /\ Order[i] \in Inspections
    BY <1>2, <2>1, <2>2, OpenFacts DEF Current
  <2>4. i \in Open'
    BY <1>9, <2>1, <2>3 DEF Open
  <2> QED BY <2>4
<1>12. OnlyInspections'
  BY <1>2, <1>4, <1>5 DEF RunnerInv, OnlyInspections
<1>13. StaysHalted'
  BY <1>2, <1>4, <1>5, <1>7 DEF RunnerInv, StaysHalted
<1>14. CollectedCurrent'
  BY <1>2, <1>4, <1>5, <1>7, <1>8, <1>9, <1>10, <1>11 DEF RunnerInv, CollectedCurrent
<1>15. Judged'
  BY <1>5, <1>7, RunnerAssumption DEF Judged
<1> QED BY <1>1, <1>6, <1>12, <1>13, <1>14, <1>15 DEF RunnerInv

\* What dropping or closing the handle does to the channel.
LEMMA HandleFacts ==
  ASSUME RunnerInv, Drop \/ ShutdownCall
  PROVE  /\ service' = service /\ status' = status /\ guest' = guest /\ reply' = reply
         /\ \A i \in 1 .. Len(queue') : queue'[i].op \in {"Inspect", "Shutdown"}
<1>1. queue \in Seq(Commands)
  BY DEF RunnerInv, IInv, RuntimeTypeOK
<1>2. Shutdown \in Commands /\ Shutdown.op \in {"Inspect", "Shutdown"}
  BY CommandTypes DEF Shutdown
<1>3. \A i \in 1 .. Len(queue) : queue[i].op \in {"Inspect", "Shutdown"}
  BY DEF RunnerInv, OnlyInspections
<1>4. queue' = queue \/ queue' = Append(queue, Shutdown)
  BY DEF Drop, ShutdownCall
<1>5. \A i \in 1 .. Len(queue') : queue'[i].op \in {"Inspect", "Shutdown"}
  BY <1>1, <1>2, <1>3, <1>4, AppendedStays
<1> QED BY <1>5 DEF Drop, ShutdownCall

LEMMA AbortPreserves ==
  ASSUME RunnerInv, Step, Abort PROVE RunnerInv'
<1>1. IInv' /\ job' = job /\ Drop
  BY StepKeepsRuntime DEF Abort
<1>2. RunnerTypeOK /\ runner.point \in {"Asking", "Receiving"}
  BY DEF RunnerInv, Abort, At
<1>3. /\ service' = service /\ status' = status /\ guest' = guest /\ reply' = reply
      /\ \A i \in 1 .. Len(queue') : queue'[i].op \in {"Inspect", "Shutdown"}
  BY <1>1, HandleFacts
<1>4. /\ runner'.answers = runner.answers /\ runner'.answer = runner.answer
      /\ runner'.execution = runner.execution
      /\ runner'.point = "Returned" /\ runner'.verdict = "Aborted"
  BY <1>2 DEF Abort, Return, RunnerTypeOK
<1>5. RunnerTypeOK'
  BY <1>1, <1>2 DEF Abort, Return, RunnerTypeOK
<1>6. runner.verdict = None /\ Past /\ Past'
  BY <1>2, <1>4, RunnerAssumption DEF RunnerInv, StaysHalted, Past
<1>7. OnlyInspections'
  BY <1>3, <1>4 DEF OnlyInspections
<1>8. StaysHalted'
  BY <1>3, <1>4, <1>6, RunnerAssumption DEF RunnerInv, StaysHalted
<1>9. CollectedCurrent'
  BY <1>2, <1>3, <1>4, <1>6 DEF RunnerInv, CollectedCurrent
<1>10. Judged'
  BY <1>4 DEF Judged
<1> QED BY <1>1, <1>5, <1>7, <1>8, <1>9, <1>10 DEF RunnerInv

LEMMA ClosePreserves ==
  ASSUME RunnerInv, Step, Close PROVE RunnerInv'
<1>1. IInv' /\ job' = job /\ ShutdownCall
  BY StepKeepsRuntime DEF Close
<1>2. RunnerTypeOK /\ runner.point = "Closing"
  BY DEF RunnerInv, Close, At
<1>3. /\ service' = service /\ status' = status /\ guest' = guest /\ reply' = reply
      /\ \A i \in 1 .. Len(queue') : queue'[i].op \in {"Inspect", "Shutdown"}
  BY <1>1, HandleFacts
<1>4. /\ runner'.answers = runner.answers /\ runner'.answer = runner.answer
      /\ runner'.execution = runner.execution
      /\ runner'.point = "Joining" /\ runner'.verdict = runner.verdict
  BY <1>2 DEF Close, Goto, RunnerTypeOK
<1>5. RunnerTypeOK'
  BY <1>1, <1>2 DEF Close, Goto, RunnerTypeOK
<1>6. runner.verdict = None /\ Past /\ Past'
  BY <1>2, <1>4, RunnerAssumption DEF RunnerInv, StaysHalted, Past
<1>7. OnlyInspections'
  BY <1>3, <1>4 DEF OnlyInspections
<1>8. StaysHalted'
  BY <1>3, <1>4, <1>6 DEF RunnerInv, StaysHalted
<1>9. CollectedCurrent'
  BY <1>2, <1>3, <1>4, <1>6 DEF RunnerInv, CollectedCurrent
<1>10. Judged'
  BY <1>4, <1>6, RunnerAssumption DEF Judged
<1> QED BY <1>1, <1>5, <1>7, <1>8, <1>9, <1>10 DEF RunnerInv

LEMMA TakeShutdownPreserves ==
  ASSUME RunnerInv, Step, TakeShutdownStatus PROVE RunnerInv'
<1>1. IInv' /\ job' = job /\ IInv
  BY StepKeepsRuntime DEF RunnerInv
<1>2. RunnerTypeOK /\ runner.point = "Joining" /\ status \in Statuses
  BY <1>1 DEF RunnerInv, TakeShutdownStatus, At, IInv, RuntimeTypeOK
<1>3. /\ service' = service /\ status' = status /\ guest' = guest /\ reply' = reply
      /\ queue' = queue /\ service.point = "Done"
  BY DEF TakeShutdownStatus, JoinReturns, Alive
<1>4. /\ runner'.answers = runner.answers /\ runner'.answer = runner.answer
      /\ runner'.execution = runner.execution /\ runner'.shutdown = status
      /\ runner'.point = "Collected" /\ runner'.verdict = runner.verdict
  BY <1>2 DEF TakeShutdownStatus, RunnerTypeOK
<1>5. RunnerTypeOK'
  BY <1>1, <1>2 DEF TakeShutdownStatus, RunnerTypeOK
<1>6. runner.verdict = None /\ Past /\ Past'
  BY <1>2, <1>4, RunnerAssumption DEF RunnerInv, StaysHalted, Past
<1>7. OnlyInspections'
  BY <1>3, <1>4 DEF RunnerInv, OnlyInspections
<1>8. StaysHalted'
  BY <1>3, <1>4, <1>6 DEF RunnerInv, StaysHalted
<1>9. CollectedCurrent'
  BY <1>2, <1>3, <1>4, <1>6 DEF RunnerInv, CollectedCurrent
<1>10. Judged'
  BY <1>3, <1>4, <1>6, RunnerAssumption DEF Judged
<1> QED BY <1>1, <1>5, <1>7, <1>8, <1>9, <1>10 DEF RunnerInv

\* What a verdict follows from is what was collected.
LEMMA ExpectedStays ==
  ASSUME job' = job, guest' = guest, runner'.answers = runner.answers,
         runner'.execution = runner.execution, runner'.shutdown = runner.shutdown
  PROVE  (ResultHolds' <=> ResultHolds) /\ (Expected' <=> Expected)
<1>1. ResultHolds' <=> ResultHolds
  BY DEF ResultHolds, RuntimeFailed, Holds
<1>2. \A assertion : MediaHolds(assertion)' <=> MediaHolds(assertion)
  BY DEF MediaHolds, Attached
<1> QED BY <1>1, <1>2 DEF Expected

\* Once everything is collected the service has ended and nothing changes any more.
LEMMA JudgePreserves ==
  ASSUME RunnerInv, Step, Collect \/ AssertResult \/ AssertBlockMedia PROVE RunnerInv'
<1>1. IInv' /\ job' = job
  BY StepKeepsRuntime
<1>2. RunnerTypeOK /\ runner.point \in {"Collected", "Judging", "Media"}
  BY DEF RunnerInv, Collect, AssertResult, AssertBlockMedia, At
<1>3. /\ service' = service /\ status' = status /\ guest' = guest /\ reply' = reply
      /\ \A i \in 1 .. Len(queue') : queue'[i].op \in {"Inspect", "Shutdown"}
  <2>1. CASE Collect
    BY <2>1, HandleFacts DEF Collect
  <2>2. CASE AssertResult \/ AssertBlockMedia
    BY <2>2 DEF AssertResult, AssertBlockMedia, vars, RunnerInv, OnlyInspections
  <2> QED BY <2>1, <2>2
<1>4. /\ runner'.answers = runner.answers /\ runner'.answer = runner.answer
      /\ runner'.execution = runner.execution /\ runner'.shutdown = runner.shutdown
      /\ \/ runner'.point \in {"Judging", "Media"} /\ runner'.verdict = runner.verdict
         \/ runner'.point = "Returned" /\ runner'.verdict \in {"Ok", "Unmet"}
  BY <1>2 DEF Collect, AssertResult, AssertBlockMedia, Goto, Return, RunnerTypeOK
<1>5. RunnerTypeOK'
  BY <1>1, <1>2 DEF Collect, AssertResult, AssertBlockMedia, Goto, Return, RunnerTypeOK
<1>6. runner.verdict = None /\ Past /\ Past'
  BY <1>2, <1>4, RunnerAssumption DEF RunnerInv, StaysHalted, Past
<1>7. OnlyInspections'
  BY <1>3, <1>4 DEF OnlyInspections
<1>8. StaysHalted'
  BY <1>3, <1>4, <1>6, RunnerAssumption DEF RunnerInv, StaysHalted
<1>9. CollectedCurrent'
  BY <1>2, <1>3, <1>4, <1>6, RunnerAssumption DEF RunnerInv, CollectedCurrent
<1>10. Judged'
  <2>1. (ResultHolds' <=> ResultHolds) /\ (Expected' <=> Expected)
    BY <1>1, <1>3, <1>4, ExpectedStays
  <2>2. service.point = "Done" /\ runner.shutdown = status
    BY <1>2 DEF RunnerInv, Judged
  <2>3. runner'.point = "Media" => ResultHolds
    BY <1>2 DEF Collect, AssertResult, AssertBlockMedia, Goto, Return, RunnerTypeOK
  <2>4. ASSUME runner'.verdict \in {"Ok", "Unmet"}
        PROVE  runner'.verdict = "Ok" <=> Expected
    <3>1. CASE Collect
      BY <1>2, <1>6, <2>4, <3>1, RunnerAssumption DEF Collect, Goto, RunnerTypeOK
    <3>2. CASE AssertResult
      BY <1>2, <1>6, <2>4, <3>2, RunnerAssumption DEF AssertResult, Goto, Return,
         RunnerTypeOK, Expected
    <3>3. CASE AssertBlockMedia
      BY <1>2, <2>4, <3>3 DEF AssertBlockMedia, Return, At, RunnerTypeOK, Expected,
         RunnerInv, Judged
    <3> QED BY <3>1, <3>2, <3>3
  <2> QED BY <1>3, <1>4, <2>1, <2>2, <2>3, <2>4 DEF Judged
<1> QED BY <1>1, <1>5, <1>7, <1>8, <1>9, <1>10 DEF RunnerInv

LEMMA RunnerStutters ==
  ASSUME RunnerInv, UNCHANGED runnerVars PROVE RunnerInv'
<1>1. /\ service' = service /\ guest' = guest /\ scheduled' = scheduled /\ status' = status
      /\ queue' = queue /\ inbox' = inbox /\ fed' = fed /\ reply' = reply
      /\ handle' = handle /\ job' = job /\ runner' = runner
  BY DEF runnerVars, vars
<1>2. IInv'
  BY <1>1, NextPreserves DEF RunnerInv, vars
<1>3. RunnerTypeOK' /\ OnlyInspections' /\ StaysHalted'
  BY <1>1 DEF RunnerInv, RunnerTypeOK, OnlyInspections, StaysHalted, Past
<1>4. CollectedCurrent'
  BY <1>1 DEF RunnerInv, CollectedCurrent, Past, Open
<1>5. Judged'
  BY <1>1, ExpectedStays DEF RunnerInv, Judged
<1> QED BY <1>2, <1>3, <1>4, <1>5 DEF RunnerInv

LEMMA RunnerInductive == RunnerSpec => []RunnerInv
<1>1. RunnerInv /\ [RunnerNext]_runnerVars => RunnerInv'
  BY ServePreserves, SetupPreserves, PollPreserves, TakeExecutionPreserves, AskPreserves,
     ReceivePreserves, AbortPreserves, ClosePreserves, TakeShutdownPreserves,
     JudgePreserves, RunnerStutters DEF RunnerNext, Step
<1> QED BY <1>1, RunnerStarts, PTL DEF RunnerSpec

-----------------------------------------------------------------------------
(* The verdict *)

\* What was collected says what is true of the guest the run left.
LEMMA CollectedIsTrue ==
  ASSUME RunnerInv, runner.verdict \in {"Ok", "Unmet"}
  PROVE  Expected <=> TrueOfGuest
<1>1. IInv /\ RunnerTypeOK /\ Past /\ runner.point = "Returned"
  BY RunnerAssumption DEF RunnerInv, StaysHalted, Past
<1>2. service.point = "Done" /\ runner.shutdown = status
  BY DEF RunnerInv, Judged
<1>3. status.lifecycle \in {"Stopped", "Failed"}
  BY <1>1, <1>2 DEF IInv, ThreadConsistent
<1>4. status.lifecycle = "Stopped" => guest.unsaved = {}
  BY <1>1 DEF IInv, SavedOrReported
<1>5. /\ runner.execution.lifecycle \in {"Paused", "Failed"}
      /\ runner.execution.ticks = guest.ticks
      /\ runner.execution.lifecycle = "Failed" => status.lifecycle = "Failed"
      /\ runner.execution.lifecycle = "Paused" =>
           \A id \in Inspections : runner.answers[id] # None
      /\ \A id \in Inspections : runner.answers[id] # None => runner.answers[id].pc = guest.pc
  BY <1>1 DEF RunnerInv, CollectedCurrent
<1>6. RuntimeFailed <=> status.lifecycle = "Failed"
  BY <1>2, <1>5 DEF RuntimeFailed
<1>7. \A o \in DOMAIN Source : Source[o] \in Inspections
  <2>1. \A o \in DOMAIN Source : Source[o] \in {"Peripherals", "Mmu", "Events", "Execution"}
    BY DEF Source
  <2>2. {"Peripherals", "Mmu", "Events", "Execution"} \subseteq Inspections
    BY <1>1, OpenFacts
  <2> QED BY <2>1, <2>2
<1>8. ASSUME status.lifecycle = "Stopped"
      PROVE  ResultHolds <=>
               (job.kind = "Test" =>
                  /\ \A o \in DOMAIN Source : job.values[o] \in {None, guest.pc}
                  /\ job.ticks_at_least # None => guest.ticks >= job.ticks_at_least
                  /\ job.execution_lifecycle \in {None, "Paused"}
                  /\ job.shutdown_lifecycle \in {None, "Stopped"})
  <2>1. runner.execution.lifecycle = "Paused" /\ ~RuntimeFailed
    BY <1>5, <1>6, <1>8
  <2>2. \A o \in DOMAIN Source : Holds(o) <=> job.values[o] \in {None, guest.pc}
    BY <1>5, <1>7, <2>1 DEF Holds
  <2> QED BY <1>2, <1>5, <1>8, <2>1, <2>2 DEF ResultHolds
<1>9. ASSUME guest.unsaved = {}
      PROVE  \A assertion :
               MediaHolds(assertion) <=> assertion.inside /\ assertion.unit \in Attached
  BY <1>9 DEF MediaHolds
<1>10. job.kind # "Test" => job.block_media = {}
  BY <1>1, RunnerAssumption DEF RunnerTypeOK
<1>11. CASE status.lifecycle = "Failed"
  BY <1>6, <1>11 DEF Expected, ResultHolds, TrueOfGuest
<1>12. CASE status.lifecycle = "Stopped"
  BY <1>4, <1>8, <1>9, <1>10, <1>12 DEF Expected, TrueOfGuest
<1> QED BY <1>3, <1>11, <1>12

\* A job that was run to its end succeeds exactly when what it expects is true of
\* the guest the run ended with and of the host files: however the service thread
\* interleaves with the runner, the four inspections and the two statuses describe
\* one guest (run_image, assert_result, assert_block_media).
THEOREM VerdictCorrect == RunnerSpec => []VerdictExact
<1>1. RunnerInv => VerdictExact
  <2> SUFFICES ASSUME RunnerInv, runner.verdict \in {"Ok", "Unmet"}
               PROVE  runner.verdict = "Ok" <=> TrueOfGuest
    BY DEF VerdictExact
  <2>1. Expected <=> TrueOfGuest
    BY CollectedIsTrue
  <2>2. runner.verdict = "Ok" <=> Expected
    BY DEF RunnerInv, Judged
  <2> QED BY <2>1, <2>2
<1> QED BY <1>1, RunnerInductive, PTL

=============================================================================
