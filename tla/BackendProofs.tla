---------------------------- MODULE BackendProofs ----------------------------
(* What the batching adapter promises of a run, for every value of the        *)
(* constants: its ticks, its deferred exceptions and its trace writes.        *)
EXTENDS Backend, MachineProofs

\* An exception about to be entered is a real one.
EntryNamed == run.phase = "Entering" => run.entering \in SyncKinds \cup {"Interrupt"}

BackendInv == TypeOK /\ UnsavedIsDirty /\ BackendTypeOK /\ EntryNamed

\* Each step of the adapter is one of the machine or leaves it alone, so the machine's
\* inductive steps can be cited here.
LEMMA BackendStepIsMachineStep ==
  BackendInv /\ [BackendNext]_backendVars => [Next]_vars
<1> SUFFICES ASSUME BackendInv, [BackendNext]_backendVars PROVE [Next]_vars
  OBVIOUS
<1>1. ASSUME NEW kind \in ExceptionKinds, EnterException(kind) PROVE Next
  BY <1>1 DEF Next, Guest, Tick
<1>2. CASE FinishInstruction
  BY <1>2 DEF Next, Guest, Tick
<1>3. CASE ReadClaim
  BY <1>3 DEF Next, Guest, Access, OtherAccess
<1>4. ASSUME NEW budget \in Budgets, NEW deadline \in Deadlines,
             \/ ResumeDeferredException(budget, deadline)
             \/ DeliverIrqFirst(budget, deadline)
             \/ StartBatch(budget, deadline)
      PROVE  [Next]_vars
  <2>1. CASE ResumeDeferredException(budget, deadline)
    <3>1. cpu.deferred \in ExceptionKinds /\ EnterException(cpu.deferred)
      BY <2>1, BackendAssumption DEF ResumeDeferredException, BackendInv, BackendTypeOK
    <3> QED BY <1>1, <3>1
  <2>2. CASE DeliverIrqFirst(budget, deadline) \/ StartBatch(budget, deadline)
    BY <1>3, <2>2 DEF DeliverIrqFirst, StartBatch
  <2> QED BY <1>4, <2>1, <2>2
<1>5. CASE Execute
  BY <1>5 DEF Execute, Next, Guest
<1>6. CASE StopBatch \/ \E kind, counted : Trap(kind, counted)
  BY <1>6 DEF StopBatch, Trap
<1>7. CASE Retire \/ \E kind : FinishSynchronousException(kind)
  BY <1>2, <1>7 DEF Retire, FinishSynchronousException
<1>8. ASSUME NEW kind \in FaultKinds, FinishFault(kind) PROVE Next
  BY <1>1, <1>8, BackendAssumption DEF FinishFault
<1>9. CASE FinishBatch \/ \E kind : FinishStop(kind)
  BY <1>3, <1>9 DEF FinishBatch, FinishStop
<1>10. CASE Enter
  <2>1. run.entering \in ExceptionKinds /\ EnterException(run.entering)
    BY <1>10, BackendAssumption DEF Enter, BackendInv, EntryNamed
  <2> QED BY <1>1, <2>1
<1>11. CASE HostStep
  BY <1>11 DEF HostStep, Next, Host
<1>12. CASE UNCHANGED backendVars
  BY <1>12 DEF backendVars
<1>13. ASSUME NEW kind, NEW counted, Trap(kind, counted) PROVE [Next]_vars
  BY <1>6, <1>13
<1>14. ASSUME NEW kind, FinishStop(kind) \/ FinishSynchronousException(kind)
       PROVE [Next]_vars
  BY <1>7, <1>9, <1>14
<1> QED BY <1>4, <1>5, <1>6, <1>7, <1>8, <1>9, <1>10, <1>11, <1>12, <1>13, <1>14
    DEF BackendNext

RunType ==
  [ phase    : {"Idle", "Executing", "Retiring", "Entering"},
    budget   : Nat, deadline : Nat \cup {None}, started : Nat,
    executed : Nat, left : Nat,
    trap     : SyncKinds \cup FaultKinds \cup StopKinds \cup {None},
    entering : SyncKinds \cup {"Interrupt", None} ]

CpuType == [masked : BOOLEAN, deferred : SyncKinds \cup {None}]

LEMMA BeginType ==
  ASSUME TypeOK, NEW budget \in Nat, NEW deadline \in Deadlines,
         NEW phase \in {"Idle", "Executing", "Retiring", "Entering"}
  PROVE  Begin(budget, deadline, phase) \in RunType
<1>1. deadline \in Nat \cup {None}
  BY BackendAssumption DEF Deadlines, TypeOK
<1>2. ticks \in Nat
  BY DEF TypeOK
<1> QED BY <1>1, <1>2 DEF Begin, IdleRun, RunType

LEMMA ClippedType ==
  ASSUME TypeOK, NEW budget \in Nat, NEW deadline \in Deadlines, ~Reached(deadline)
  PROVE  Clipped(budget, deadline) \in Nat
<1>1. deadline \in Nat \cup {None} /\ ticks \in Nat
  BY BackendAssumption DEF Deadlines, TypeOK
<1> QED BY <1>1 DEF Clipped, Reached

LEMMA BackendTypeStep ==
  BackendInv /\ [BackendNext]_backendVars => (BackendTypeOK /\ EntryNamed)'
<1> SUFFICES ASSUME BackendInv, [BackendNext]_backendVars
             PROVE  cpu' \in CpuType /\ run' \in RunType /\ EntryNamed'
  BY DEF BackendTypeOK, RunType, CpuType
<1>0. TypeOK /\ cpu \in CpuType /\ run \in RunType /\ EntryNamed
  BY DEF BackendInv, BackendTypeOK, RunType, CpuType
<1> DEFINE Good == cpu' \in CpuType /\ run' \in RunType /\ EntryNamed'
<1>1. ASSUME NEW budget \in Budgets, NEW deadline \in Deadlines,
             ResumeDeferredException(budget, deadline)
      PROVE  Good
  <2>1. budget \in Nat
    BY BackendAssumption
  <2>2. run' = Begin(budget, deadline, "Idle")
    BY <1>1 DEF ResumeDeferredException
  <2>3. run' \in RunType
    BY <1>0, <2>1, <2>2, BeginType
  <2>4. run'.phase = "Idle"
    BY <2>2 DEF Begin, IdleRun
  <2> QED BY <1>1, <2>3, <2>4 DEF ResumeDeferredException, CpuType, EntryNamed
<1>2. ASSUME NEW budget \in Budgets, NEW deadline \in Deadlines,
             DeliverIrqFirst(budget, deadline)
      PROVE  Good
  <2>1. budget \in Nat
    BY BackendAssumption
  <2>2. Begin(budget, deadline, "Entering") \in RunType
    BY <1>0, <2>1, BeginType
  <2>3. run' = [Begin(budget, deadline, "Entering") EXCEPT !.entering = "Interrupt"]
    BY <1>2 DEF DeliverIrqFirst
  <2>4. run' \in RunType /\ run'.entering = "Interrupt"
    BY <2>2, <2>3 DEF RunType
  <2> QED BY <1>0, <1>2, <2>4 DEF DeliverIrqFirst, EntryNamed
<1>3. ASSUME NEW budget \in Budgets, NEW deadline \in Deadlines,
             StartBatch(budget, deadline)
      PROVE  Good
  <2>1. Clipped(budget, deadline) \in Nat
    BY <1>0, <1>3, BackendAssumption, ClippedType DEF StartBatch, Startable
  <2>2. run' = Begin(Clipped(budget, deadline), deadline, "Executing")
    BY <1>3 DEF StartBatch
  <2>3. run' \in RunType
    BY <1>0, <2>1, <2>2, BeginType
  <2>4. run'.phase = "Executing"
    BY <2>2 DEF Begin, IdleRun
  <2> QED BY <1>0, <1>3, <2>3, <2>4 DEF StartBatch, EntryNamed
<1>4. CASE Execute
  <2>1. run' \in RunType /\ run'.phase = "Executing"
    BY <1>0, <1>4 DEF Execute, RunType
  <2>2. cpu' \in CpuType
    BY <1>0, <1>4 DEF Execute, CpuType
  <2> QED BY <2>1, <2>2 DEF EntryNamed
<1>5. CASE StopBatch
  BY <1>0, <1>5 DEF StopBatch, RunType, EntryNamed
<1>6. ASSUME NEW kind \in SyncKinds \cup FaultKinds \cup StopKinds,
             NEW counted \in BOOLEAN, Trap(kind, counted)
      PROVE  Good
  <2> DEFINE executed  == IF counted THEN run.executed + 1 ELSE run.executed
             completed == IF kind \in StopKinds \/ executed = 0 THEN executed
                                                                ELSE executed - 1
  <2>1. executed \in Nat
    BY <1>0 DEF RunType
  <2>2. completed \in Nat
    BY <2>1
  <2>3. /\ run' = [run EXCEPT !.phase = "Retiring", !.executed = executed,
                              !.trap = kind, !.left = completed]
        /\ cpu' = cpu
    BY <1>6 DEF Trap
  <2> HIDE DEF executed, completed
  <2> QED BY <1>0, <2>1, <2>2, <2>3 DEF RunType, EntryNamed
<1>7. CASE Retire
  BY <1>0, <1>7 DEF Retire, RunType, EntryNamed
<1>8. ASSUME NEW kind \in SyncKinds, FinishSynchronousException(kind) PROVE Good
  <2>1. \/ cpu' = [cpu EXCEPT !.deferred = kind] /\ run' = [run EXCEPT !.phase = "Idle"]
        \/ cpu' = cpu /\ run' = [run EXCEPT !.phase = "Entering", !.entering = kind]
    BY <1>8 DEF FinishSynchronousException
  <2>2. CASE cpu' = [cpu EXCEPT !.deferred = kind] /\ run' = [run EXCEPT !.phase = "Idle"]
    BY <1>0, <2>2 DEF RunType, CpuType, EntryNamed
  <2>3. CASE cpu' = cpu /\ run' = [run EXCEPT !.phase = "Entering", !.entering = kind]
    BY <1>0, <2>3 DEF RunType, EntryNamed
  <2> QED BY <2>1, <2>2, <2>3
<1>9. ASSUME NEW kind \in FaultKinds, FinishFault(kind) PROVE Good
  BY <1>0, <1>9 DEF FinishFault, RunType, CpuType, EntryNamed
<1>10. ASSUME NEW kind \in StopKinds, FinishStop(kind) PROVE Good
  BY <1>0, <1>10 DEF FinishStop, RunType, EntryNamed
<1>11. CASE FinishBatch
  <2>1. cpu' = cpu
    BY <1>11 DEF FinishBatch
  <2>2. run' \in {[run EXCEPT !.phase = "Idle"],
                  [run EXCEPT !.phase = "Entering", !.entering = "Interrupt"]}
    BY <1>11 DEF FinishBatch
  <2> QED BY <1>0, <2>1, <2>2 DEF RunType, EntryNamed
<1>12. CASE Enter
  BY <1>0, <1>12 DEF Enter, RunType, CpuType, EntryNamed
<1>13. CASE HostStep
  <2>1. CASE cpu' = cpu /\ run' = run
    BY <1>0, <2>1 DEF EntryNamed
  <2>2. CASE cpu' = CpuInit /\ run' = IdleRun
    BY <2>2 DEF CpuInit, IdleRun, RunType, CpuType, EntryNamed
  <2> QED BY <1>13, <2>1, <2>2 DEF HostStep
<1>14. CASE UNCHANGED backendVars
  BY <1>0, <1>14 DEF backendVars, EntryNamed
<1> QED BY <1>1, <1>2, <1>3, <1>4, <1>5, <1>6, <1>7, <1>8, <1>9, <1>10, <1>11,
           <1>12, <1>13, <1>14
    DEF BackendNext

LEMMA BackendInvariant == BackendSpec => []BackendInv
<1>1. BackendInit => BackendInv
  <2> SUFFICES ASSUME BackendInit PROVE BackendInv
    OBVIOUS
  <2>1. TypeOK /\ UnsavedIsDirty
    BY InitType DEF BackendInit, Init, UnsavedIsDirty
  <2>2. BackendTypeOK /\ EntryNamed
    BY DEF BackendInit, CpuInit, IdleRun, BackendTypeOK, EntryNamed
  <2> QED BY <2>1, <2>2 DEF BackendInv
<1>2. BackendInv /\ [BackendNext]_backendVars => BackendInv'
  BY BackendStepIsMachineStep, NextType, UnsavedStep, BackendTypeStep DEF BackendInv
<1> QED BY <1>1, <1>2, PTL DEF BackendSpec

-----------------------------------------------------------------------------
(* The tick budget of a run *)

\* Ticks still owed for the instruction that ended the batch.
Owed == IF run.trap \in SyncKinds \cup FaultKinds THEN 1 ELSE 0

Within(n) ==
  /\ n <= run.started + run.budget
  /\ run.deadline # None => n <= run.deadline

\* How much of its budget and of the way to its deadline a run may have used in
\* each phase; inductive with the types, unlike the two bounds it implies.
OnTime ==
  /\ run.phase = "Executing" =>
       /\ run.executed <= run.budget /\ run.trap = None
       /\ ticks = run.started
       /\ Within(ticks + run.budget)
  /\ run.phase = "Retiring" => Within(ticks + run.left + Owed)
  /\ run.phase = "Entering" =>
       /\ Within(ticks)
       /\ run.deadline # None => ticks + 1 <= run.deadline
  /\ run.phase = "Idle" => DeadlineRespected /\ RunLength

LEMMA TickCosts ==
  /\ FinishInstruction => ticks' = ticks + 1
  /\ \A kind : EnterException(kind) => ticks' = ticks + 1
  /\ ReadClaim => ticks' = ticks
BY DEF FinishInstruction, EnterException, AdvanceTicks, ReadClaim

LEMMA OnTimeStep == BackendInv /\ OnTime /\ [BackendNext]_backendVars => OnTime'
<1> SUFFICES ASSUME BackendInv, OnTime, [BackendNext]_backendVars PROVE OnTime'
  OBVIOUS
<1>0. /\ ticks \in Nat /\ run \in RunType
      /\ run.budget \in Nat /\ run.started \in Nat /\ run.left \in Nat
      /\ run.executed \in Nat /\ run.deadline \in Nat \cup {None}
  BY DEF BackendInv, BackendTypeOK, TypeOK, RunType
<1>a. None \notin Nat
  BY NoneAssumption
<1> USE DEF Within, Owed, OnTime, DeadlineRespected, RunLength
<1>1. ASSUME NEW budget \in Budgets, NEW deadline \in Deadlines,
             ResumeDeferredException(budget, deadline)
      PROVE  OnTime'
  <2>1. /\ ticks' = ticks + 1 /\ ~Reached(deadline)
        /\ run' = Begin(budget, deadline, "Idle")
    BY <1>1, TickCosts DEF ResumeDeferredException
  <2>2. /\ run'.phase = "Idle" /\ run'.budget = budget
        /\ run'.deadline = deadline /\ run'.started = ticks
    BY <2>1 DEF Begin, IdleRun
  <2>3. budget \in Nat /\ deadline \in Nat \cup {None}
    BY <1>0, BackendAssumption DEF Deadlines
  <2> QED BY <1>0, <1>a, <2>1, <2>2, <2>3 DEF Reached
<1>2. ASSUME NEW budget \in Budgets, NEW deadline \in Deadlines,
             DeliverIrqFirst(budget, deadline)
      PROVE  OnTime'
  <2>1. /\ ticks' = ticks /\ ~Reached(deadline)
        /\ run' = [Begin(budget, deadline, "Entering") EXCEPT !.entering = "Interrupt"]
    BY <1>2, TickCosts DEF DeliverIrqFirst, Startable
  <2>2. /\ run'.phase = "Entering" /\ run'.budget = budget
        /\ run'.deadline = deadline /\ run'.started = ticks
    BY <2>1 DEF Begin, IdleRun
  <2>3. budget \in Nat /\ deadline \in Nat \cup {None}
    BY <1>0, BackendAssumption DEF Deadlines
  <2> QED BY <1>0, <1>a, <2>1, <2>2, <2>3 DEF Reached
<1>3. ASSUME NEW budget \in Budgets, NEW deadline \in Deadlines,
             StartBatch(budget, deadline)
      PROVE  OnTime'
  <2>1. /\ ticks' = ticks /\ ~Reached(deadline)
        /\ run' = Begin(Clipped(budget, deadline), deadline, "Executing")
    BY <1>3, TickCosts DEF StartBatch, Startable, vars
  <2>2. /\ run'.phase = "Executing" /\ run'.budget = Clipped(budget, deadline)
        /\ run'.deadline = deadline /\ run'.started = ticks
        /\ run'.executed = 0 /\ run'.trap = None
    BY <2>1 DEF Begin, IdleRun
  <2>3. budget \in Nat /\ deadline \in Nat \cup {None}
    BY <1>0, BackendAssumption DEF Deadlines
  <2>4. /\ Clipped(budget, deadline) \in Nat
        /\ deadline # None => ticks + Clipped(budget, deadline) <= deadline
    BY <1>0, <2>1, <2>3 DEF Clipped, Reached
  <2> QED BY <1>0, <2>1, <2>2, <2>3, <2>4
<1>4. CASE Execute
  <2>1. ticks' = ticks
    BY <1>4, AccessKeepsTime DEF Execute, vars
  <2>2. /\ run'.phase = "Executing" /\ run'.budget = run.budget
        /\ run'.deadline = run.deadline /\ run'.started = run.started
        /\ run'.executed = run.executed + 1 /\ run'.trap = run.trap
        /\ run.phase = "Executing" /\ run.executed < run.budget
    BY <1>0, <1>4 DEF Execute, RunType
  <2> QED BY <1>0, <2>1, <2>2
<1>5. CASE StopBatch
  <2>1. /\ ticks' = ticks /\ run.phase = "Executing"
        /\ run'.phase = "Retiring" /\ run'.budget = run.budget
        /\ run'.deadline = run.deadline /\ run'.started = run.started
        /\ run'.left = run.executed /\ run'.trap = run.trap
    BY <1>0, <1>5 DEF StopBatch, RunType, vars
  <2>2. Owed' = 0
    BY <2>1, BackendAssumption
  <2> HIDE DEF Owed
  <2> QED BY <1>0, <2>1, <2>2
<1>6. ASSUME NEW kind \in SyncKinds \cup FaultKinds \cup StopKinds,
             NEW counted \in BOOLEAN, Trap(kind, counted)
      PROVE  OnTime'
  <2> DEFINE executed  == IF counted THEN run.executed + 1 ELSE run.executed
             completed == IF kind \in StopKinds \/ executed = 0 THEN executed
                                                                ELSE executed - 1
  <2>1. /\ ticks' = ticks /\ run.phase = "Executing" /\ run.executed < run.budget
        /\ run' = [run EXCEPT !.phase = "Retiring", !.executed = executed,
                              !.trap = kind, !.left = completed]
    BY <1>6 DEF Trap, vars
  <2>2. executed \in Nat /\ executed <= run.budget /\ run.budget > 0
    BY <1>0, <2>1
  <2>3. /\ completed \in Nat
        /\ completed + (IF kind \in SyncKinds \cup FaultKinds THEN 1 ELSE 0)
             <= run.budget
    BY <1>0, <2>2, BackendAssumption
  <2> HIDE DEF executed, completed
  <2>4. /\ run'.phase = "Retiring" /\ run'.budget = run.budget
        /\ run'.deadline = run.deadline /\ run'.started = run.started
        /\ run'.left = completed /\ run'.trap = kind
    BY <1>0, <2>1 DEF RunType
  <2> QED BY <1>0, <2>1, <2>3, <2>4
<1>7. CASE Retire
  <2>1. /\ ticks' = ticks + 1 /\ run.phase = "Retiring" /\ run.left > 0
        /\ run'.phase = "Retiring" /\ run'.budget = run.budget
        /\ run'.deadline = run.deadline /\ run'.started = run.started
        /\ run'.left = run.left - 1 /\ run'.trap = run.trap
    BY <1>0, <1>7, TickCosts DEF Retire, RunType
  <2> QED BY <1>0, <2>1
<1>8. ASSUME NEW kind \in SyncKinds, FinishSynchronousException(kind) PROVE OnTime'
  <2>1. /\ ticks' = ticks + 1 /\ run.phase = "Retiring" /\ run.left = 0
        /\ run.trap = kind
        /\ run'.budget = run.budget
        /\ run'.deadline = run.deadline /\ run'.started = run.started
        /\ IF run.deadline # None /\ ticks + 1 = run.deadline
             THEN run'.phase = "Idle" ELSE run'.phase = "Entering"
    BY <1>0, <1>8, TickCosts DEF FinishSynchronousException, Retiring, RunType
  <2> QED BY <1>0, <1>a, <2>1
<1>9. ASSUME NEW kind \in FaultKinds, FinishFault(kind) PROVE OnTime'
  <2>1. /\ ticks' = ticks + 1 /\ run.phase = "Retiring" /\ run.left = 0
        /\ run.trap = kind /\ run'.phase = "Idle"
        /\ run'.budget = run.budget
        /\ run'.deadline = run.deadline /\ run'.started = run.started
    BY <1>0, <1>9, TickCosts DEF FinishFault, Retiring, RunType
  <2> QED BY <1>0, <1>a, <2>1
<1>10. ASSUME NEW kind \in StopKinds, FinishStop(kind) PROVE OnTime'
  <2>1. /\ ticks' = ticks /\ run.phase = "Retiring" /\ run.left = 0
        /\ run'.phase = "Idle" /\ run'.budget = run.budget
        /\ run'.deadline = run.deadline /\ run'.started = run.started
    BY <1>0, <1>10 DEF FinishStop, Retiring, RunType, vars
  <2> QED BY <1>0, <1>a, <2>1
<1>11. CASE FinishBatch
  <2>1. /\ ticks' = ticks /\ run.phase = "Retiring" /\ run.left = 0
        /\ run'.budget = run.budget
        /\ run'.deadline = run.deadline /\ run'.started = run.started
        /\ \/ run'.phase = "Idle"
           \/ run'.phase = "Entering" /\ ~Reached(run.deadline)
    <3>1. ticks' = ticks /\ run.phase = "Retiring" /\ run.left = 0
      BY <1>11, TickCosts DEF FinishBatch, Retiring, vars
    <3>2. \/ run' = [run EXCEPT !.phase = "Idle"]
          \/ /\ run' = [run EXCEPT !.phase = "Entering", !.entering = "Interrupt"]
             /\ ~Reached(run.deadline)
      BY <1>11 DEF FinishBatch
    <3> QED BY <1>0, <3>1, <3>2 DEF RunType
  <2> QED BY <1>0, <1>a, <2>1 DEF Reached
<1>12. CASE Enter
  <2>1. /\ ticks' = ticks + 1 /\ run.phase = "Entering"
        /\ run'.phase = "Idle" /\ run'.budget = run.budget
        /\ run'.deadline = run.deadline /\ run'.started = run.started
    BY <1>0, <1>12, TickCosts DEF Enter, RunType
  <2> QED BY <1>0, <1>a, <2>1
<1>13. CASE HostStep
  <2>1. CASE HostAccess /\ UNCHANGED <<cpu, run>>
    <3>1. ticks' = ticks /\ run' = run
      BY <2>1, HostKeepsTime
    <3> QED BY <3>1
  <2>2. CASE Reset /\ run' = IdleRun
    BY <2>2 DEF Reset, IdleRun
  <2> QED BY <1>13, <2>1, <2>2 DEF HostStep
<1>14. CASE UNCHANGED backendVars
  BY <1>14 DEF backendVars, vars
<1> QED BY <1>1, <1>2, <1>3, <1>4, <1>5, <1>6, <1>7, <1>8, <1>9, <1>10, <1>11,
           <1>12, <1>13, <1>14
    DEF BackendNext

LEMMA OnTimeAlways == BackendSpec => []OnTime
<1>1. BackendInit => OnTime
  BY DEF BackendInit, Init, IdleRun, OnTime, DeadlineRespected, RunLength
<1>2. BackendInv /\ OnTime /\ [BackendNext]_backendVars => OnTime'
  BY OnTimeStep
<1> QED BY <1>1, <1>2, BackendInvariant, PTL DEF BackendSpec

LEMMA OnTimeBounds ==
  BackendInv /\ OnTime => DeadlineRespected /\ RunLength
<1> SUFFICES ASSUME BackendInv, OnTime PROVE DeadlineRespected /\ RunLength
  OBVIOUS
<1>1. /\ ticks \in Nat /\ run.budget \in Nat /\ run.started \in Nat
      /\ run.left \in Nat /\ run.deadline \in Nat \cup {None}
      /\ run.phase \in {"Idle", "Executing", "Retiring", "Entering"}
  BY DEF BackendInv, BackendTypeOK, TypeOK
<1> QED BY <1>1 DEF OnTime, Within, Owed, DeadlineRespected, RunLength

\* A run never crosses the tick deadline it was given, which is what keeps the
\* runtime's scheduled input and execution deadline exact.
THEOREM DeadlinesHold == BackendSpec => []DeadlineRespected
BY BackendInvariant, OnTimeAlways, OnTimeBounds, PTL

\* A run overshoots its instruction budget by at most one tick.
THEOREM RunsAreBounded == BackendSpec => []RunLength
BY BackendInvariant, OnTimeAlways, OnTimeBounds, PTL

-----------------------------------------------------------------------------
(* The deferred exception *)

\* No batch is under way while an exception waits for the next run.
DeferredIdle == cpu.deferred # None => run.phase = "Idle"

LEMMA KeepLastKeepsLast ==
  ASSUME NEW S, NEW q \in Seq(S), q # <<>>, NEW capacity \in Nat \ {0}
  PROVE  /\ KeepLast(q, capacity) # <<>>
         /\ KeepLast(q, capacity)[Len(KeepLast(q, capacity))] = q[Len(q)]
<1>1. Len(q) \in Nat \ {0}
  BY EmptySeq, LenProperties
<1>2. CASE Len(q) <= capacity
  BY <1>2 DEF KeepLast
<1>3. CASE Len(q) > capacity
  <2> DEFINE kept == SubSeq(q, Len(q) - capacity + 1, Len(q))
  <2>1. kept = [i \in 1 .. capacity |-> q[i + Len(q) - capacity]]
    BY <1>1, <1>3
  <2>2. KeepLast(q, capacity) = kept
    BY <1>1, <1>3 DEF KeepLast
  <2>3. Len(kept) = capacity /\ kept[capacity] = q[Len(q)]
    BY <1>1, <1>3, <2>1
  <2> HIDE DEF kept
  <2> QED BY <2>2, <2>3
<1> QED BY <1>1, <1>2, <1>3

LEMMA EntryRecorded ==
  ASSUME TypeOK, NEW kind \in ExceptionKinds, EnterException(kind)
  PROVE  events' # <<>> /\ events'[Len(events')] = [exception |-> kind]
<1> DEFINE before == events \o Retired(ticks + 1)
           entry  == [exception |-> kind]
           all    == before \o <<entry>>
<1>1. ticks + 1 \in Nat
  BY DEF TypeOK
<1>2. before \in Seq(LogEntries) /\ <<entry>> \in Seq(LogEntries)
  BY <1>1, RetiredType, ConcatProperties DEF TypeOK, LogEntries
<1>3. events' = KeepLast(all, LogCapacity)
  BY DEF EnterException, AdvanceTicks
<1> HIDE DEF before
<1>4. all \in Seq(LogEntries) /\ all # <<>> /\ all[Len(all)] = entry
  BY <1>2
<1> HIDE DEF all
<1> QED BY <1>3, <1>4, KeepLastKeepsLast, MachineAssumption

\* The steps of the adapter, by what they do to an exception that waits.
LEMMA DeferredStep ==
  ASSUME BackendInv, DeferredIdle, [BackendNext]_backendVars
  PROVE  /\ DeferredIdle'
         /\ cpu.deferred # None =>
              \/ UNCHANGED <<cpu, run, ticks>>
              \/ EnterException(cpu.deferred) /\ cpu'.deferred = None
              \/ run' = IdleRun /\ ticks' = 0
<1> DEFINE Good ==
      /\ DeferredIdle'
      /\ cpu.deferred # None =>
           \/ UNCHANGED <<cpu, run, ticks>>
           \/ EnterException(cpu.deferred) /\ cpu'.deferred = None
           \/ run' = IdleRun /\ ticks' = 0
<1>0. cpu \in CpuType /\ run \in RunType
  BY DEF BackendInv, BackendTypeOK, RunType, CpuType
<1> USE DEF DeferredIdle
<1>1. ASSUME NEW budget \in Budgets, NEW deadline \in Deadlines,
             \/ ResumeDeferredException(budget, deadline)
             \/ DeliverIrqFirst(budget, deadline)
             \/ StartBatch(budget, deadline)
      PROVE  Good
  <2>1. CASE ResumeDeferredException(budget, deadline)
    BY <2>1 DEF ResumeDeferredException
  <2>2. CASE DeliverIrqFirst(budget, deadline) \/ StartBatch(budget, deadline)
    BY <2>2 DEF DeliverIrqFirst, StartBatch, Startable
  <2> QED BY <1>1, <2>1, <2>2
<1>2. CASE run.phase # "Idle" /\ cpu'.deferred = cpu.deferred
  BY <1>2
<1>3. CASE Execute
  <2>1. run.phase # "Idle" /\ cpu'.deferred = cpu.deferred
    BY <1>0, <1>3 DEF Execute, CpuType
  <2> QED BY <1>2, <2>1
<1>4. CASE StopBatch \/ Retire \/ FinishBatch
  BY <1>2, <1>4 DEF StopBatch, Retire, FinishBatch, Retiring
<1>5. ASSUME NEW kind, NEW counted, Trap(kind, counted) PROVE Good
  BY <1>2, <1>5 DEF Trap
<1>6. ASSUME NEW kind, FinishSynchronousException(kind) PROVE Good
  <2>1. run.phase # "Idle"
    BY <1>6 DEF FinishSynchronousException, Retiring
  <2>2. CASE run.deadline # None /\ ticks + 1 = run.deadline
    <3>1. run'.phase = "Idle"
      BY <1>0, <1>6, <2>2 DEF FinishSynchronousException, RunType
    <3> QED BY <2>1, <3>1
  <2>3. CASE ~(run.deadline # None /\ ticks + 1 = run.deadline)
    BY <1>2, <1>6, <2>1, <2>3 DEF FinishSynchronousException
  <2> QED BY <2>2, <2>3
<1>7. ASSUME NEW kind, FinishFault(kind) \/ FinishStop(kind) PROVE Good
  <2>1. run.phase # "Idle" /\ cpu'.deferred = cpu.deferred
    BY <1>0, <1>7 DEF FinishFault, FinishStop, Retiring, CpuType
  <2> QED BY <1>2, <2>1
<1>8. CASE Enter
  <2>1. run.phase # "Idle" /\ cpu'.deferred = cpu.deferred
    BY <1>0, <1>8 DEF Enter, CpuType
  <2> QED BY <1>2, <2>1
<1>9. CASE HostStep
  <2>1. CASE HostAccess /\ UNCHANGED <<cpu, run>>
    BY <2>1, HostKeepsTime
  <2>2. CASE Reset /\ cpu' = CpuInit /\ run' = IdleRun
    BY <2>2 DEF Reset, CpuInit
  <2> QED BY <1>9, <2>1, <2>2 DEF HostStep
<1>10. CASE UNCHANGED backendVars
  BY <1>10 DEF backendVars, vars
<1> QED BY <1>1, <1>3, <1>4, <1>5, <1>6, <1>7, <1>8, <1>9, <1>10 DEF BackendNext

\* An exception deferred at a deadline is entered before the guest does anything
\* else, or a reset drops it (resume_deferred_exception).
THEOREM DeferredIsEntered == BackendSpec => DeferredExceptionEntered
<1>1. BackendInit => DeferredIdle
  BY DEF BackendInit, CpuInit, DeferredIdle
<1>2. BackendInv /\ DeferredIdle /\ [BackendNext]_backendVars => DeferredIdle'
  BY DeferredStep
<1>3. BackendInv /\ DeferredIdle /\ [BackendNext]_backendVars =>
        [cpu.deferred # None =>
           \/ UNCHANGED <<cpu, run, ticks>>
           \/ /\ cpu'.deferred = None
              /\ events' # <<>>
              /\ events'[Len(events')] = [exception |-> cpu.deferred]
           \/ run' = IdleRun /\ ticks' = 0]_backendVars
  <2>1. BackendInv => (cpu.deferred # None => cpu.deferred \in ExceptionKinds)
    BY BackendAssumption DEF BackendInv, BackendTypeOK
  <2> QED BY <2>1, DeferredStep, EntryRecorded DEF BackendInv
<1> QED BY <1>1, <1>2, <1>3, BackendInvariant, PTL
        DEF BackendSpec, DeferredExceptionEntered

-----------------------------------------------------------------------------
(* The trace writes of a run *)

\* While writes are staged the run still owes a tick that will commit them: one of a
\* completed instruction, or the one its trap costs.
TracePending ==
  staged # <<>> =>
    \/ run.phase = "Executing" /\ run.executed > 0
    \/ /\ run.phase = "Retiring" /\ ticks = run.started
       /\ run.left > 0 \/ run.trap \in SyncKinds \cup FaultKinds

\* Every tick commits what is staged; claim reads and the host leave it alone.
LEMMA StagedEffect ==
  /\ FinishInstruction => staged' = <<>>
  /\ \A kind : EnterException(kind) => staged' = <<>>
  /\ ReadClaim => staged' = staged
  /\ HostAccess => staged' = staged
  /\ Reset => staged' = <<>>
BY DEF FinishInstruction, EnterException, AdvanceTicks, ReadClaim, HostAccess, DeliverUart,
       Observe, Flush, Reset, logVars

LEMMA TraceStep ==
  BackendInv /\ OnTime /\ TracePending /\ [BackendNext]_backendVars => TracePending'
<1> SUFFICES ASSUME BackendInv, OnTime, TracePending, [BackendNext]_backendVars
             PROVE  TracePending'
  OBVIOUS
<1>0. ticks \in Nat /\ run \in RunType /\ run.executed \in Nat /\ run.left \in Nat
  BY DEF BackendInv, TypeOK, BackendTypeOK, RunType
<1>1. CASE staged' = <<>>
  BY <1>1 DEF TracePending
<1>2. ASSUME NEW budget \in Budgets, NEW deadline \in Deadlines,
             \/ ResumeDeferredException(budget, deadline)
             \/ DeliverIrqFirst(budget, deadline)
             \/ StartBatch(budget, deadline)
      PROVE  staged' = <<>>
  BY <1>2, StagedEffect
  DEF ResumeDeferredException, DeliverIrqFirst, StartBatch, Startable, TracePending, vars,
      logVars
<1>3. CASE Execute
  BY <1>0, <1>3 DEF Execute, TracePending, RunType
<1>4. CASE StopBatch
  BY <1>0, <1>4 DEF StopBatch, TracePending, OnTime, RunType, vars, logVars
<1>5. ASSUME NEW kind \in SyncKinds \cup FaultKinds \cup StopKinds, NEW counted \in BOOLEAN,
             Trap(kind, counted), staged # <<>>
      PROVE  TracePending'
  <2>1. /\ run.phase = "Executing" /\ run.executed > 0 /\ ticks = run.started
        /\ UNCHANGED ticks
    BY <1>5 DEF Trap, TracePending, OnTime, vars
  <2>2. /\ run'.phase = "Retiring" /\ run'.started = run.started /\ run'.trap = kind
        /\ kind \in StopKinds => run'.left > 0
    BY <1>0, <1>5, <2>1, BackendAssumption DEF Trap, RunType
  <2> QED BY <1>5, <2>1, <2>2 DEF TracePending
<1>6. ASSUME NEW kind \in SyncKinds \cup FaultKinds \cup StopKinds, NEW counted \in BOOLEAN,
             Trap(kind, counted)
      PROVE  TracePending'
  BY <1>1, <1>5, <1>6 DEF Trap, vars, logVars
<1>7. CASE Retire \/ Enter
  BY <1>1, <1>7, StagedEffect DEF Retire, Enter
<1>8. ASSUME NEW kind, FinishSynchronousException(kind) \/ FinishFault(kind)
      PROVE  TracePending'
  BY <1>1, <1>8, StagedEffect DEF FinishSynchronousException, FinishFault
<1>9. ASSUME NEW kind \in StopKinds, FinishStop(kind) PROVE TracePending'
  <2>1. staged = <<>>
    BY <1>9, BackendAssumption DEF FinishStop, Retiring, TracePending
  <2> QED BY <1>1, <1>9, <2>1 DEF FinishStop, vars, logVars
<1>10. CASE FinishBatch
  <2>1. staged = <<>>
    BY <1>10, BackendAssumption DEF FinishBatch, Retiring, TracePending
  <2> QED BY <1>1, <1>10, <2>1, StagedEffect DEF FinishBatch, vars, logVars
<1>11. CASE HostStep
  <2>1. staged = <<>>
    BY <1>11 DEF HostStep, TracePending
  <2> QED BY <1>1, <1>11, <2>1, StagedEffect DEF HostStep
<1>12. CASE UNCHANGED backendVars
  BY <1>12 DEF backendVars, TracePending, vars, logVars
<1> QED BY <1>1, <1>2, <1>3, <1>4, <1>6, <1>7, <1>8, <1>9, <1>10, <1>11, <1>12
    DEF BackendNext

\* Every trace write is committed by the run that made it, with the run's first tick,
\* however the batch ended (run_with_tick_deadline, retire).
THEOREM TraceStaysInRun == BackendSpec => []TraceInRun
<1>1. BackendInit => TracePending
  BY DEF BackendInit, Init, TracePending
<1>2. BackendInv /\ OnTime /\ TracePending /\ [BackendNext]_backendVars => TracePending'
  BY TraceStep
<1>3. OnTime /\ TracePending => TraceInRun
  BY DEF OnTime, TracePending, TraceInRun
<1> QED BY <1>1, <1>2, <1>3, BackendInvariant, OnTimeAlways, PTL DEF BackendSpec

=============================================================================
