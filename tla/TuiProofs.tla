------------------------------ MODULE TuiProofs ------------------------------
(* The command bar and the panes for every value of the constants. *)
EXTENDS Tui, RuntimeProofs, WellFoundedInduction

-----------------------------------------------------------------------------
(* The inductive invariant *)

Acts ==
  [act : {"SetMode"}, mode : {"Normal", "Command"}]
    \cup [act : {"SelectView"}, view : Views]
    \cup [act : {"Start"}, limit : Limits \cup {None}]
    \cup [act : {"ToggleView", "ToggleRun", "Stop", "Reset", "Quit"}]
    \cup [act : {"Request", "Refresh"}, pane : InspectPanes]

Apps ==
  [ turn : {"Starting", "Handle", "Poll", "Act", "Dropping"}, cached : Statuses,
    actions : Seq(Acts), view : Views, mode : {"Normal", "Command"},
    resume : BOOLEAN, suppress : BOOLEAN, quit : BOOLEAN,
    refused : SUBSET InspectPanes, asked : {"Nothing", "Count", "Halt", "Run"} ]

TuiTypeOK ==
  /\ app \in Apps
  /\ app.turn = "Starting" => app.view = "Runtime" /\ app.actions = <<>>

Quiet(q) == \A i \in 1 .. Len(q) : q[i].act \in {"Request", "Refresh"}

\* The App queues at most a command and the close of its bar, and what panes ask.
ActionsShape ==
  \/ Quiet(app.actions)
  \/ app.actions # <<>> /\ Head(app.actions).act # "Start" /\ Quiet(Tail(app.actions))
  \/ Len(app.actions) = 2 /\ app.actions[2] = SetMode("Normal")

\* A bar that paused the guest is open, and nothing sets the guest going but what
\* the user asked for.
BarHolds ==
  app.resume =>
    /\ app.mode = "Command"
    /\ app.asked = "Halt" => app.suppress /\ ~WillRun
    /\ app.asked \in {"Nothing", "Count"} => ~app.suppress /\ ~WillRun
    /\ app.asked = "Run" =>
         app.actions # <<>> /\ Head(app.actions) = SetMode("Normal")

\* A queued inspection is the only one of its pane, and is awaited.
InspectionsAwaited ==
  /\ \A i \in 1 .. Len(queue) : queue[i].op = "Inspect" => reply[queue[i].id] = "Queued"
  /\ \A i, j \in 1 .. Len(queue) :
       queue[i].op = "Inspect" /\ queue[j].op = "Inspect" /\ queue[i].id = queue[j].id
         => i = j
  /\ \A pane \in InspectPanes : reply[pane] = "Stopped" => ~Alive

\* An answer not yet polled describes the guest, unless the guest has changed and
\* the App has not noticed, or is about to poll.
AnswersFresh ==
  \A pane \in InspectPanes :
    reply[pane] = "Answered" => answer[pane] = guest \/ unseen \/ app.turn = "Poll"

\* A pane of the inspect view.
Due(pane) == \E i \in 1 .. Len(app.actions) :
               app.actions[i] \in {Refresh(pane), Request(pane)}

PaneHolds(pane) ==
  \/ Due(pane)
  \/ reply[pane] = "Queued"
  \/ reply[pane] = "Answered" /\ answer[pane] = guest
  \/ reply[pane] = "None" /\ shown[pane] = guest

PanesHold ==
  Alive /\ app.view = "Inspect" /\ app.cached.lifecycle = "Paused" /\ ~unseen =>
    \A pane \in InspectPanes \ app.refused : PaneHolds(pane)

TuiInv ==
  /\ IInv
  /\ TuiTypeOK
  /\ ActionsShape
  /\ BarHolds
  /\ InspectionsAwaited
  /\ AnswersFresh
  /\ PanesHold

-----------------------------------------------------------------------------
(* When the queued commands set the guest running *)

RunOps == {"Pause", "Resume"}

\* What WillRun says of a queue and a lifecycle, without the largest position.
Runs(q, lifecycle) ==
  \/ lifecycle = "Running" /\ \A j \in 1 .. Len(q) : q[j].op \notin RunOps
  \/ \E i \in 1 .. Len(q) :
       q[i].op = "Resume" /\ \A j \in 1 .. Len(q) : j > i => q[j].op \notin RunOps

\* A set of positions has a largest member.
LEMMA LargestPosition ==
  ASSUME NEW n \in Nat, NEW T \in SUBSET (1 .. n), T # {}
  PROVE  Max(T) \in T /\ \A y \in T : y <= Max(T)
<1> DEFINE D == {n - x : x \in T}
           R == OpToRel(<, Nat)
<1>0. \A x \in T : x \in 1 .. n /\ n - x \in Nat
  OBVIOUS
<1>1. D \subseteq Nat /\ D # {}
  BY <1>0, Zenon
<1>2. IsWellFoundedOn(R, Nat)
  BY NatLessThanWellFounded
<1>3. \A x, y \in Nat : x < y => <<x, y>> \in R
  BY DEF OpToRel
<1> HIDE DEF R, D
<1>4. PICK d \in D : \A e \in D : ~(<<e, d>> \in R)
  BY <1>1, <1>2, WFMin, Zenon
<1>5. \A e \in D : d <= e
  <2>1. \A e \in D : e \in Nat /\ d \in Nat /\ ~(e < d)
    BY <1>1, <1>3, <1>4, Zenon
  <2> QED BY <2>1
<1>6. PICK x \in T : d = n - x
  BY DEF D
<1>7. \A y \in T : x >= y
  <2>1. \A y \in T : d <= n - y
    BY <1>5, Zenon DEF D
  <2> QED BY <2>1, <1>0, <1>6
<1>8. \E z \in T : \A y \in T : z >= y
  BY <1>7
<1>9. Max(T) \in T /\ \A y \in T : Max(T) >= y
  BY <1>8, Zenon DEF Max
<1>10. \A a, b \in 1 .. n : a >= b => b <= a
  OBVIOUS
<1> QED BY <1>9, <1>10

LEMMA LatestDecides ==
  ASSUME NEW q \in Seq(Commands), NEW lifecycle
  PROVE  LET last == {i \in DOMAIN q : q[i].op \in {"Pause", "Resume"}}
         IN  (IF last = {} THEN lifecycle = "Running" ELSE q[Max(last)].op = "Resume")
               <=> Runs(q, lifecycle)
<1> DEFINE last == {i \in DOMAIN q : q[i].op \in {"Pause", "Resume"}}
<1>1. Len(q) \in Nat /\ DOMAIN q = 1 .. Len(q)
  OBVIOUS
<1>2. CASE last = {}
  <2>1. \A j \in 1 .. Len(q) : q[j].op \notin {"Pause", "Resume"}
    BY <1>1, <1>2
  <2> QED BY <2>1, <1>2 DEF Runs, RunOps
<1>3. CASE last # {}
  <2>1. last \in SUBSET (1 .. Len(q))
    BY <1>1
  <2> DEFINE m == Max(last)
  <2>2. m \in last /\ \A y \in last : y <= m
    BY <1>1, <1>3, <2>1, LargestPosition
  <2> HIDE DEF m
  <2>3. \A j \in 1 .. Len(q) : q[j].op \in RunOps => j \in last
    BY <1>1 DEF RunOps
  <2>4. m \in 1 .. Len(q) /\ q[m].op \in RunOps
    BY <2>1, <2>2 DEF RunOps
  <2> HIDE DEF last
  <2>5. \A j \in 1 .. Len(q) : j > m => q[j].op \notin RunOps
    BY <1>1, <2>2, <2>3, <2>4
  <2>6. q[m].op = "Resume" => Runs(q, lifecycle)
    BY <2>4, <2>5 DEF Runs
  <2>7. ASSUME Runs(q, lifecycle) PROVE q[m].op = "Resume"
    <3>1. PICK i \in 1 .. Len(q) : q[i].op = "Resume"
            /\ \A j \in 1 .. Len(q) : j > i => q[j].op \notin RunOps
      BY <2>4, <2>7 DEF Runs
    <3>2. ~(m > i) /\ ~(i > m)
      BY <2>4, <2>5, <3>1 DEF RunOps
    <3>3. m = i
      BY <3>2, <2>4, <1>1
    <3> QED BY <3>1, <3>3
  <2>8. (IF last = {} THEN lifecycle = "Running" ELSE q[m].op = "Resume")
          <=> Runs(q, lifecycle)
    BY <1>3, <2>6, <2>7
  <2> QED BY <2>8 DEF m, last
<1> QED BY <1>2, <1>3

LEMMA WillRunMeans ==
  ASSUME queue \in Seq(Commands)
  PROVE  WillRun <=> Alive /\ Runs(queue, service.lifecycle)
BY LatestDecides, Zenon DEF WillRun

LEMMA WillRunMeansNext ==
  ASSUME queue' \in Seq(Commands)
  PROVE  WillRun' <=> Alive' /\ Runs(queue', service'.lifecycle)
BY LatestDecides, Zenon DEF WillRun

\* The command appended last decides, when it is a pause or a resume.
LEMMA AppendedDecides ==
  ASSUME NEW q \in Seq(Commands), NEW c \in Commands, NEW lifecycle
  PROVE  /\ c.op = "Resume" => Runs(Append(q, c), lifecycle)
         /\ c.op = "Pause" => ~Runs(Append(q, c), lifecycle)
         /\ c.op \notin RunOps => (Runs(Append(q, c), lifecycle) <=> Runs(q, lifecycle))
<1> DEFINE n == Len(q)
           r == Append(q, c)
<1>1. /\ n \in Nat /\ Len(r) = n + 1 /\ r[n + 1] = c
      /\ \A j \in 1 .. n : r[j] = q[j]
  BY AppendProperties
<1> HIDE DEF r, n
<1>2. ASSUME c.op = "Resume" PROVE Runs(r, lifecycle)
  BY <1>1, <1>2 DEF Runs
<1>3. ASSUME c.op = "Pause" PROVE ~Runs(r, lifecycle)
  BY <1>1, <1>3 DEF Runs, RunOps
<1>4. ASSUME c.op \notin RunOps PROVE Runs(r, lifecycle) <=> Runs(q, lifecycle)
  <2>1. ASSUME Runs(q, lifecycle) PROVE Runs(r, lifecycle)
    BY <1>1, <1>4, <2>1 DEF Runs, n
  <2>2. ASSUME Runs(r, lifecycle) PROVE Runs(q, lifecycle)
    BY <1>1, <1>4, <2>2 DEF Runs, RunOps, n
  <2> QED BY <2>1, <2>2
<1> QED BY <1>2, <1>3, <1>4 DEF r

\* Receiving a command does not set going what the queue would not.
LEMMA ReceivedDecides ==
  ASSUME NEW q \in Seq(Commands), q # <<>>, NEW before, NEW after,
         ~Runs(q, before),
         after = "Running" =>
           \/ Head(q).op = "Resume"
           \/ before = "Running" /\ Head(q).op # "Pause"
  PROVE  ~Runs(Tail(q), after)
<1> DEFINE n == Len(q)
           r == Tail(q)
<1>1. /\ n \in Nat \ {0} /\ Len(r) = n - 1 /\ Head(q) = q[1]
      /\ \A j \in 1 .. n - 1 : r[j] = q[j + 1]
  BY HeadTailProperties
<1> HIDE DEF r
<1>2. ASSUME NEW i \in 1 .. Len(r), r[i].op = "Resume",
             \A j \in 1 .. Len(r) : j > i => r[j].op \notin RunOps
      PROVE  FALSE
  <2>1. i + 1 \in 1 .. n /\ q[i + 1].op = "Resume"
    BY <1>1, <1>2
  <2>2. ASSUME NEW j \in 1 .. n, j > i + 1 PROVE q[j].op \notin RunOps
    <3>1. j - 1 \in 1 .. n - 1 /\ j - 1 > i /\ (j - 1) + 1 = j
      BY <2>2, <1>1
    <3> QED BY <3>1, <1>1, <1>2
  <2> QED BY <2>1, <2>2 DEF Runs
<1>3. ASSUME after = "Running", \A j \in 1 .. Len(r) : r[j].op \notin RunOps
      PROVE  FALSE
  <2>1. \A j \in 1 .. n : j > 1 => q[j].op \notin RunOps
    <3>1. \A j \in 1 .. n : j > 1 => j - 1 \in 1 .. n - 1 /\ (j - 1) + 1 = j
      BY <1>1
    <3> QED BY <3>1, <1>1, <1>3
  <2>2. CASE Head(q).op = "Resume"
    BY <2>1, <2>2, <1>1 DEF Runs
  <2>3. CASE before = "Running" /\ Head(q).op \notin RunOps
    <3>1. \A j \in 1 .. n : j = 1 \/ j > 1
      BY <1>1
    <3>2. \A j \in 1 .. n : q[j].op \notin RunOps
      BY <2>1, <2>3, <1>1, <3>1
    <3> QED BY <2>3, <3>2 DEF Runs
  <2> QED BY <1>3, <2>2, <2>3 DEF RunOps
<1> QED BY <1>2, <1>3 DEF Runs, r

-----------------------------------------------------------------------------
(* Steps of the service *)

\* Only a received resume sets the guest running.
LEMMA ServiceLifecycle ==
  ASSUME IInv, Service
  PROVE  \/ service'.point = "Done" /\ queue' = <<>>
         \/ queue' = queue /\ (service'.lifecycle = "Running" => service.lifecycle = "Running")
         \/ /\ queue # <<>> /\ queue' = Tail(queue)
            /\ service'.lifecycle = "Running" =>
                 \/ Head(queue).op = "Resume"
                 \/ service.lifecycle = "Running" /\ Head(queue).op # "Pause"
<1>1. service \in Services
  BY DEF IInv, RuntimeTypeOK
<1>2. CASE Start
  BY <1>1, <1>2, TuiAssumption DEF Start, Exit, Services
<1>3. CASE Ignore \/ DoPause \/ DoReset \/ DoInspect \/ DoShutdown
  BY <1>1, <1>3 DEF Ignore, DoPause, DoReset, DoInspect, DoShutdown, BeginStop, Received,
     Receiving, Services
<1>4. CASE DoResume
  BY <1>1, <1>4 DEF DoResume, Received, Receiving, Services, Exit
<1>5. CASE Disconnected \/ NoCommand \/ Timeout
  BY <1>1, <1>5 DEF Disconnected, NoCommand, Timeout, BeginStop, Services
<1>6. CASE FinishStop \/ BatchFails
  BY <1>1, <1>6 DEF FinishStop, BatchFails, Exit, Services
<1>7. CASE DeadlineReached \/ BatchHitsBreakpoint \/ BatchReachesLimit \/ BatchEnds
  BY <1>1, <1>7 DEF DeadlineReached, BatchHitsBreakpoint, BatchReachesLimit, BatchEnds,
     Services
<1> QED BY <1>2, <1>3, <1>4, <1>5, <1>6, <1>7 DEF Service

LEMMA ServiceKeepsPaused ==
  ASSUME IInv, IInv', Service, ~WillRun
  PROVE  ~WillRun'
<1>1. queue \in Seq(Commands) /\ queue' \in Seq(Commands)
  BY DEF IInv, RuntimeTypeOK
<1>2. Alive
  BY DEF Service, Alive, Start, Ignore, DoPause, DoResume, DoReset, DoInspect, DoShutdown,
     Disconnected, FinishStop, NoCommand, Timeout, DeadlineReached, BatchFails,
     BatchHitsBreakpoint, BatchReachesLimit, BatchEnds, Turn, Receiving
<1>3. ~Runs(queue, service.lifecycle)
  BY <1>1, <1>2, WillRunMeans
<1>4. CASE service'.point = "Done"
  BY <1>4 DEF WillRun, Alive
<1>5. CASE queue' = queue /\ (service'.lifecycle = "Running" => service.lifecycle = "Running")
  BY <1>1, <1>3, <1>5, WillRunMeansNext DEF Runs
<1>6. CASE /\ queue # <<>> /\ queue' = Tail(queue)
           /\ service'.lifecycle = "Running" =>
                \/ Head(queue).op = "Resume"
                \/ service.lifecycle = "Running" /\ Head(queue).op # "Pause"
  <2>1. ~Runs(Tail(queue), service'.lifecycle)
    BY <1>1, <1>3, <1>6, ReceivedDecides
  <2> QED BY <1>1, <1>6, <2>1, WillRunMeansNext
<1> QED BY <1>4, <1>5, <1>6, ServiceLifecycle

\* What a step of the service makes of the inspections.
LEMMA ServiceAnswers ==
  ASSUME IInv, Service
  PROVE  \/ reply' = reply /\ (queue' = queue \/ (queue # <<>> /\ queue' = Tail(queue)))
         \/ /\ queue # <<>> /\ queue' = Tail(queue) /\ Head(queue).op = "Inspect"
            /\ reply' = [reply EXCEPT ![Head(queue).id] = "Answered"]
            /\ guest' = guest
         \/ /\ service'.point = "Done" /\ queue' = <<>>
            /\ reply' = [id \in Inspections |-> IF reply[id] = "Queued" THEN "Stopped"
                                                                       ELSE reply[id]]
BY DEF Service, Start, Ignore, DoPause, DoResume, DoReset, DoInspect, DoShutdown,
   Disconnected, FinishStop, NoCommand, Timeout, DeadlineReached, BatchFails,
   BatchHitsBreakpoint, BatchReachesLimit, BatchEnds, Exit, Received, Receiving, IInv,
   RuntimeTypeOK, Services

LEMMA ServiceKeepsAwaited ==
  ASSUME IInv, IInv', Service, InspectionsAwaited
  PROVE  /\ InspectionsAwaited'
         /\ \A pane \in InspectPanes :
              /\ Alive' /\ reply'[pane] # reply[pane] =>
                   reply[pane] = "Queued" /\ reply'[pane] = "Answered"
              /\ reply'[pane] = "Answered" => reply[pane] \in {"Queued", "Answered"}
<1>1. /\ queue \in Seq(Commands) /\ queue' \in Seq(Commands)
      /\ reply \in [Inspections -> {"None", "Queued", "Answered", "Stopped"}]
      /\ service.point # "Done" => Alive
  BY DEF IInv, RuntimeTypeOK, Alive
<1>2. Alive
  BY DEF Service, Alive, Start, Ignore, DoPause, DoResume, DoReset, DoInspect, DoShutdown,
     Disconnected, FinishStop, NoCommand, Timeout, DeadlineReached, BatchFails,
     BatchHitsBreakpoint, BatchReachesLimit, BatchEnds, Turn, Receiving
<1>3. ASSUME queue # <<>>, queue' = Tail(queue)
      PROVE  /\ Len(queue) \in Nat \ {0} /\ Head(queue) = queue[1]
             /\ Len(queue') = Len(queue) - 1
             /\ \A i \in 1 .. Len(queue') : queue'[i] = queue[i + 1] /\ i + 1 \in 1 .. Len(queue)
  <2>1. Len(queue') = Len(queue) - 1 /\ \A i \in 1 .. Len(queue') : queue'[i] = queue[i + 1]
    BY <1>1, <1>3, HeadTailProperties
  <2>2. Len(queue) \in Nat \ {0} /\ Head(queue) = queue[1]
    BY <1>1, <1>3
  <2> QED BY <2>1, <2>2
<1>4. \A pane \in InspectPanes : pane \in Inspections /\ reply[pane] # "Stopped"
  BY <1>2, TuiAssumption DEF InspectionsAwaited
<1>5. CASE reply' = reply /\ (queue' = queue \/ (queue # <<>> /\ queue' = Tail(queue)))
  <2>1. CASE queue' = queue
    BY <1>4, <1>5, <2>1 DEF InspectionsAwaited
  <2>2. CASE queue # <<>> /\ queue' = Tail(queue)
    <3>1. \A i \in 1 .. Len(queue') : queue'[i].op = "Inspect" => reply'[queue'[i].id] = "Queued"
      BY <1>3, <1>5, <2>2 DEF InspectionsAwaited
    <3>2. \A i, j \in 1 .. Len(queue') :
            queue'[i].op = "Inspect" /\ queue'[j].op = "Inspect"
              /\ queue'[i].id = queue'[j].id => i = j
      <4>1. \A i, j \in 1 .. Len(queue') :
              queue'[i].op = "Inspect" /\ queue'[j].op = "Inspect"
              /\ queue'[i].id = queue'[j].id => i + 1 = j + 1
        BY <1>3, <2>2 DEF InspectionsAwaited
      <4> QED BY <4>1, <1>3, <2>2
    <3> QED BY <1>4, <1>5, <3>1, <3>2 DEF InspectionsAwaited
  <2> QED BY <1>5, <2>1, <2>2
<1>6. CASE /\ queue # <<>> /\ queue' = Tail(queue) /\ Head(queue).op = "Inspect"
           /\ reply' = [reply EXCEPT ![Head(queue).id] = "Answered"]
  <2> DEFINE id == Head(queue).id
  <2>1. id \in Inspections /\ 1 \in 1 .. Len(queue) /\ reply[id] = "Queued"
    <3>1. Head(queue) \in Commands
      BY <1>1, <1>6, QueueFacts
    <3>2. id \in Inspections
      BY <3>1, <1>6, CommandFields
    <3>3. 1 \in 1 .. Len(queue)
      BY <1>3, <1>6
    <3> QED BY <3>2, <3>3, <1>3, <1>6 DEF InspectionsAwaited
  <2> HIDE DEF id
  <2>2. reply'[id] = "Answered" /\ \A p \in Inspections : p # id => reply'[p] = reply[p]
    BY <1>1, <1>6, <2>1 DEF id
  <2>3. \A i \in 1 .. Len(queue') :
          queue'[i].op = "Inspect" =>
            queue'[i].id \in Inspections /\ queue'[i].id # id
    <3> SUFFICES ASSUME NEW i \in 1 .. Len(queue'), queue'[i].op = "Inspect"
                 PROVE  queue'[i].id \in Inspections /\ queue'[i].id # id
      OBVIOUS
    <3>1. queue'[i] = queue[i + 1] /\ i + 1 \in 1 .. Len(queue) /\ i + 1 # 1 /\ queue[1].id = id
      BY <1>3, <1>6 DEF id
    <3>2. queue[i + 1] \in Commands
      BY <1>1, <3>1
    <3>3. queue[i + 1].id # id
      BY <3>1, <2>1, <1>3, <1>6 DEF InspectionsAwaited
    <3> QED BY <3>1, <3>2, <3>3, CommandFields
  <2>4. \A i \in 1 .. Len(queue') : queue'[i].op = "Inspect" => reply'[queue'[i].id] = "Queued"
    BY <1>3, <1>6, <2>2, <2>3 DEF InspectionsAwaited
  <2>5. \A i, j \in 1 .. Len(queue') :
          queue'[i].op = "Inspect" /\ queue'[j].op = "Inspect"
            /\ queue'[i].id = queue'[j].id => i = j
    <3>1. \A i, j \in 1 .. Len(queue') :
            queue'[i].op = "Inspect" /\ queue'[j].op = "Inspect"
            /\ queue'[i].id = queue'[j].id => i + 1 = j + 1
      BY <1>3, <1>6 DEF InspectionsAwaited
    <3> QED BY <3>1, <1>3, <1>6
  <2> QED BY <1>4, <2>1, <2>2, <2>4, <2>5 DEF InspectionsAwaited
<1>7. CASE /\ service'.point = "Done" /\ queue' = <<>>
           /\ reply' = [id \in Inspections |-> IF reply[id] = "Queued" THEN "Stopped"
                                                                      ELSE reply[id]]
  BY <1>4, <1>7 DEF InspectionsAwaited, Alive
<1> QED BY <1>5, <1>6, <1>7, ServiceAnswers

\* A step of the service leaves the App alone.
LEMMA ServePreserves ==
  ASSUME TuiInv, Serve
  PROVE  TuiInv'
<1>1. IInv /\ Service /\ app' = app /\ shown' = shown
  BY DEF TuiInv, Serve
<1>2. IInv'
  BY <1>1, NextPreserves DEF Next
<1>3. TuiTypeOK' /\ ActionsShape'
  BY <1>1 DEF TuiInv, TuiTypeOK, ActionsShape, Quiet
<1>4. BarHolds'
  <2>1. ~WillRun => ~WillRun'
    BY <1>1, <1>2, ServiceKeepsPaused
  <2> QED BY <1>1, <2>1 DEF TuiInv, BarHolds
<1>5. /\ InspectionsAwaited'
      /\ \A pane \in InspectPanes :
           /\ Alive' /\ reply'[pane] # reply[pane] =>
                reply[pane] = "Queued" /\ reply'[pane] = "Answered"
           /\ reply'[pane] = "Answered" => reply[pane] \in {"Queued", "Answered"}
  BY <1>1, <1>2, ServiceKeepsAwaited DEF TuiInv
<1>6. /\ \A pane \in InspectPanes :
           answer'[pane] = IF reply[pane] = "Queued" /\ reply'[pane] = "Answered"
                             THEN guest ELSE answer[pane]
      /\ ~unseen' => ~unseen /\ guest' = guest
  BY DEF Serve
<1>7. AnswersFresh'
  <2> SUFFICES ASSUME NEW pane \in InspectPanes, reply'[pane] = "Answered", ~unseen',
                      app.turn # "Poll"
               PROVE  answer'[pane] = guest'
    BY <1>1, Zenon DEF AnswersFresh
  <2>1. CASE reply[pane] = "Queued"
    BY <1>6, <2>1
  <2>2. CASE reply[pane] = "Answered"
    BY <1>6, <2>2 DEF TuiInv, AnswersFresh
  <2> QED BY <1>5, <2>1, <2>2
<1>8. PanesHold'
  <2> SUFFICES ASSUME Alive', app.view = "Inspect", app.cached.lifecycle = "Paused",
                      ~unseen', NEW pane \in InspectPanes \ app.refused
               PROVE  PaneHolds(pane)'
    BY <1>1, Zenon DEF PanesHold
  <2>1. Alive
    BY <1>1 DEF Service, Alive, Start, Ignore, DoPause, DoResume, DoReset, DoInspect,
       DoShutdown, Disconnected, FinishStop, NoCommand, Timeout, DeadlineReached,
       BatchFails, BatchHitsBreakpoint, BatchReachesLimit, BatchEnds, Turn, Receiving
  <2>2. PaneHolds(pane)
    BY <1>6, <2>1 DEF TuiInv, PanesHold
  <2>3. Due(pane)' <=> Due(pane)
    BY <1>1, Zenon DEF Due, Refresh, Request
  <2>4. CASE reply'[pane] = reply[pane]
    BY <1>1, <1>6, <2>2, <2>3, <2>4 DEF PaneHolds
  <2>5. CASE reply[pane] = "Queued" /\ reply'[pane] = "Answered"
    BY <1>6, <2>5 DEF PaneHolds
  <2> QED BY <1>5, <2>4, <2>5
<1> QED BY <1>2, <1>3, <1>4, <1>5, <1>7, <1>8 DEF TuiInv

-----------------------------------------------------------------------------
(* Steps of the App *)

\* Sending a command that is not a resume sets nothing going; a pause stops it.
LEMMA SendFacts ==
  ASSUME IInv, NEW c \in Commands, queue' = Append(queue, c), Alive,
         UNCHANGED <<service, reply>>, InspectionsAwaited, c.op # "Inspect",
         queue' \in Seq(Commands)
  PROVE  /\ c.op = "Pause" => ~WillRun'
         /\ c.op = "Resume" => WillRun'
         /\ c.op # "Resume" /\ ~WillRun => ~WillRun'
         /\ InspectionsAwaited'
<1>1. queue \in Seq(Commands) /\ queue' = Append(queue, c) /\ Alive
      /\ UNCHANGED <<service, reply>>
  BY DEF IInv, RuntimeTypeOK
<1>2. Alive'
  BY <1>1 DEF Alive
<1>3. /\ c.op = "Pause" => ~WillRun'
      /\ c.op = "Resume" => WillRun'
      /\ c.op # "Resume" /\ ~WillRun => ~WillRun'
  BY <1>1, <1>2, WillRunMeans, WillRunMeansNext, AppendedDecides DEF RunOps
<1>4. /\ Len(queue) \in Nat /\ Len(queue') = Len(queue) + 1
      /\ queue'[Len(queue) + 1] = c
      /\ \A i \in 1 .. Len(queue) : queue'[i] = queue[i]
  BY <1>1, AppendProperties
<1>5. \A i \in 1 .. Len(queue') : queue'[i].op = "Inspect" =>
        i \in 1 .. Len(queue) /\ queue'[i] = queue[i]
  BY <1>4
<1>6. InspectionsAwaited'
  BY <1>1, <1>5 DEF InspectionsAwaited, Alive
<1> QED BY <1>1, <1>3, <1>6

LEMMA RequestFacts ==
  ASSUME IInv, IInv', NEW id \in Inspections, RequestInspection(id), InspectionsAwaited
  PROVE  /\ UNCHANGED <<service, guest, status>>
         /\ ~WillRun => ~WillRun'
         /\ reply'[id] = "Queued" /\ reply[id] = "None"
         /\ \A pane \in Inspections : pane # id => reply'[pane] = reply[pane]
         /\ InspectionsAwaited'
<1>1. /\ queue \in Seq(Commands) /\ queue' \in Seq(Commands)
      /\ reply \in [Inspections -> {"None", "Queued", "Answered", "Stopped"}]
  BY DEF IInv, RuntimeTypeOK
<1>2. /\ queue' = Append(queue, Inspect(id)) /\ Alive /\ reply[id] = "None"
      /\ UNCHANGED <<service, guest, status>>
      /\ reply' = [reply EXCEPT ![id] = "Queued"]
  BY DEF RequestInspection, Accepts
<1>3. Inspect(id) \in Commands /\ Inspect(id).op = "Inspect" /\ Inspect(id).id = id
  BY CommandTypes DEF Inspect
<1>4. ~WillRun => ~WillRun'
  BY <1>1, <1>2, <1>3, WillRunMeans, WillRunMeansNext, AppendedDecides DEF RunOps, Alive
<1>5. reply'[id] = "Queued" /\ \A pane \in Inspections : pane # id => reply'[pane] = reply[pane]
  BY <1>1, <1>2
<1>6. /\ Len(queue) \in Nat /\ Len(queue') = Len(queue) + 1
      /\ queue'[Len(queue) + 1] = Inspect(id)
      /\ \A i \in 1 .. Len(queue) : queue'[i] = queue[i]
  BY <1>1, <1>2, <1>3, AppendProperties
<1>7. \A i \in 1 .. Len(queue) : queue[i].op = "Inspect" =>
        queue[i].id \in Inspections /\ queue[i].id # id /\ reply'[queue[i].id] = "Queued"
  BY <1>1, <1>2, <1>5, CommandFields DEF InspectionsAwaited
<1>8. \A i \in 1 .. Len(queue') : i \in 1 .. Len(queue) \/ i = Len(queue) + 1
  BY <1>6
<1>9. \A i \in 1 .. Len(queue') : queue'[i].op = "Inspect" => reply'[queue'[i].id] = "Queued"
  BY <1>3, <1>5, <1>6, <1>7, <1>8
<1>10. \A i, j \in 1 .. Len(queue') :
         queue'[i].op = "Inspect" /\ queue'[j].op = "Inspect" /\ queue'[i].id = queue'[j].id
           => i = j
  BY <1>3, <1>6, <1>7, <1>8 DEF InspectionsAwaited
<1>11. \A pane \in InspectPanes : reply'[pane] = "Stopped" => ~Alive'
  <2>1. \A pane \in InspectPanes : reply'[pane] = "Stopped" => reply[pane] = "Stopped"
    BY <1>5, TuiAssumption
  <2> QED BY <1>2, <2>1 DEF InspectionsAwaited, Alive
<1> QED BY <1>2, <1>4, <1>5, <1>9, <1>10, <1>11 DEF InspectionsAwaited

LEMMA RefreshesFacts ==
  /\ Refreshes \in Seq(Acts) /\ Quiet(Refreshes)
  /\ \A pane \in InspectPanes : \E i \in 1 .. Len(Refreshes) : Refreshes[i] = Refresh(pane)
<1>1. /\ Panes \in Seq(InspectPanes) /\ Len(Panes) \in Nat /\ DOMAIN Panes = 1 .. Len(Panes)
      /\ \A i \in 1 .. Len(Panes) : Panes[i] \in InspectPanes
  BY TuiAssumption
<1>2. \A pane \in InspectPanes :
        /\ Refresh(pane) \in [act : {"Request", "Refresh"}, pane : InspectPanes]
        /\ Refresh(pane).act = "Refresh"
  BY DEF Refresh
<1>3. \A i \in 1 .. Len(Panes) : Refresh(Panes[i]) \in Acts
  BY <1>1, <1>2 DEF Acts
<1>4. Refreshes = [i \in 1 .. Len(Panes) |-> Refresh(Panes[i])]
  BY <1>1 DEF Refreshes
<1>5. Refreshes \in Seq(Acts) /\ Len(Refreshes) = Len(Panes)
  BY <1>1, <1>3, <1>4
<1>6. \A i \in 1 .. Len(Refreshes) : Refreshes[i] = Refresh(Panes[i])
  BY <1>4, <1>5
<1>7. Quiet(Refreshes)
  BY <1>1, <1>2, <1>5, <1>6 DEF Quiet
<1>8. \A pane \in InspectPanes : \E i \in 1 .. Len(Panes) : pane = Panes[i]
  BY <1>1 DEF InspectPanes
<1> QED BY <1>5, <1>6, <1>7, <1>8

\* Joining two queues of actions.
LEMMA JoinedFacts ==
  ASSUME NEW p \in Seq(Acts), NEW q \in Seq(Acts)
  PROVE  /\ p \o q \in Seq(Acts)
         /\ Quiet(p) /\ Quiet(q) => Quiet(p \o q)
         /\ \A i \in 1 .. Len(p) : i \in 1 .. Len(p \o q) /\ (p \o q)[i] = p[i]
         /\ \A i \in 1 .. Len(q) :
              \E j \in 1 .. Len(p \o q) : (p \o q)[j] = q[i]
<1>1. /\ p \o q \in Seq(Acts) /\ Len(p \o q) = Len(p) + Len(q)
      /\ Len(p) \in Nat /\ Len(q) \in Nat
      /\ \A i \in 1 .. Len(p) + Len(q) :
           (p \o q)[i] = IF i <= Len(p) THEN p[i] ELSE q[i - Len(p)]
  BY ConcatProperties
<1>2. \A i \in 1 .. Len(p) : i \in 1 .. Len(p \o q) /\ (p \o q)[i] = p[i]
  BY <1>1
<1>3. ASSUME NEW i \in 1 .. Len(q)
      PROVE  Len(p) + i \in 1 .. Len(p \o q) /\ (p \o q)[Len(p) + i] = q[i]
  BY <1>1
<1>4. ASSUME Quiet(p), Quiet(q) PROVE Quiet(p \o q)
  <2> SUFFICES ASSUME NEW i \in 1 .. Len(p \o q)
               PROVE  (p \o q)[i].act \in {"Request", "Refresh"}
    BY DEF Quiet
  <2>1. CASE i <= Len(p)
    BY <1>1, <1>4, <2>1 DEF Quiet
  <2>2. CASE ~(i <= Len(p))
    <3>1. i - Len(p) \in 1 .. Len(q) /\ (p \o q)[i] = q[i - Len(p)]
      BY <1>1, <2>2
    <3> QED BY <1>4, <3>1 DEF Quiet
  <2> QED BY <2>1, <2>2
<1> QED BY <1>1, <1>2, <1>3, <1>4

LEMMA PushFacts ==
  ASSUME NEW a \in Apps, NEW q \in Seq(Acts)
  PROVE  /\ Push(a, q) \in Apps
         /\ Push(a, q).actions = a.actions \o q
         /\ Push(a, q).turn = a.turn /\ Push(a, q).cached = a.cached
         /\ Push(a, q).view = a.view /\ Push(a, q).mode = a.mode
         /\ Push(a, q).resume = a.resume /\ Push(a, q).suppress = a.suppress
         /\ Push(a, q).refused = a.refused /\ Push(a, q).asked = a.asked
<1>1. a.actions \in Seq(Acts)
  BY DEF Apps
<1>2. a.actions \o q \in Seq(Acts)
  BY <1>1, JoinedFacts
<1> DEFINE joined == a.actions \o q
<1>3. Push(a, q) = [a EXCEPT !.actions = joined]
  BY DEF Push
<1> HIDE DEF joined
<1>4. joined \in Seq(Acts)
  BY <1>2 DEF joined
<1>5. Push(a, q) \in Apps
  BY <1>3, <1>4 DEF Apps
<1>6. /\ Push(a, q).actions = joined
      /\ Push(a, q).turn = a.turn /\ Push(a, q).cached = a.cached
      /\ Push(a, q).view = a.view /\ Push(a, q).mode = a.mode
      /\ Push(a, q).resume = a.resume /\ Push(a, q).suppress = a.suppress
      /\ Push(a, q).refused = a.refused /\ Push(a, q).asked = a.asked
  BY <1>3 DEF Apps
<1> QED BY <1>5, <1>6 DEF joined

LEMMA PoppedFacts ==
  ASSUME TuiInv, Processing
  PROVE  /\ Popped \in Apps /\ Popped.actions = Tail(app.actions)
         /\ app.actions \in Seq(Acts) /\ app.actions # <<>>
         /\ Tail(app.actions) \in Seq(Acts) /\ Action \in Acts
         /\ Popped.turn = app.turn /\ Popped.cached = app.cached
         /\ Popped.view = app.view /\ Popped.mode = app.mode
         /\ Popped.resume = app.resume /\ Popped.suppress = app.suppress
         /\ Popped.refused = app.refused /\ Popped.asked = app.asked
<1>1. app \in Apps /\ app.actions \in Seq(Acts) /\ app.actions # <<>>
  BY DEF TuiInv, TuiTypeOK, Apps, Processing
<1>2. Head(app.actions) \in Acts /\ Tail(app.actions) \in Seq(Acts)
  BY <1>1, QueueFacts
<1> DEFINE rest == Tail(app.actions)
<1>3. Popped = [app EXCEPT !.actions = rest]
  BY DEF Popped
<1> HIDE DEF rest
<1>4. rest \in Seq(Acts)
  BY <1>2 DEF rest
<1>5. Popped \in Apps
  BY <1>1, <1>3, <1>4 DEF Apps
<1>6. /\ Popped.actions = rest
      /\ Popped.turn = app.turn /\ Popped.cached = app.cached
      /\ Popped.view = app.view /\ Popped.mode = app.mode
      /\ Popped.resume = app.resume /\ Popped.suppress = app.suppress
      /\ Popped.refused = app.refused /\ Popped.asked = app.asked
  BY <1>1, <1>3 DEF Apps
<1> QED BY <1>1, <1>2, <1>5, <1>6 DEF rest, Action

LEMMA HeldFacts ==
  ASSUME TuiInv, Processing, NEW asked \in {"Nothing", "Count", "Halt", "Run"}
  PROVE  /\ Held(asked) \in Apps /\ Held(asked).actions = Tail(app.actions)
         /\ Held(asked).turn = app.turn /\ Held(asked).cached = app.cached
         /\ Held(asked).view = app.view /\ Held(asked).mode = app.mode
         /\ Held(asked).resume = app.resume /\ Held(asked).suppress = app.resume
         /\ Held(asked).refused = app.refused
         /\ app.resume => Held(asked).asked = asked
<1>1. app \in Apps
  BY DEF TuiInv, TuiTypeOK
<1> DEFINE said == IF Popped.resume THEN asked ELSE Popped.asked
<1>2. said \in {"Nothing", "Count", "Halt", "Run"} /\ (app.resume => said = asked)
  BY PoppedFacts DEF Apps
<1>3. Held(asked) = [[Popped EXCEPT !.asked = said] EXCEPT !.suppress = app.resume]
  BY PoppedFacts DEF Held, Asked, Apps
<1> HIDE DEF said
<1>4. app.resume \in BOOLEAN
  BY <1>1 DEF Apps
<1>5. Held(asked) \in Apps
  BY <1>2, <1>3, <1>4, PoppedFacts DEF Apps
<1>6. /\ Held(asked).actions = Popped.actions
      /\ Held(asked).turn = Popped.turn /\ Held(asked).cached = Popped.cached
      /\ Held(asked).view = Popped.view /\ Held(asked).mode = Popped.mode
      /\ Held(asked).resume = Popped.resume /\ Held(asked).suppress = app.resume
      /\ Held(asked).refused = Popped.refused
      /\ Held(asked).asked = said
  BY <1>3, PoppedFacts DEF Apps
<1> QED BY <1>2, <1>5, <1>6, PoppedFacts

LEMMA UnchangedFacts ==
  ASSUME TuiInv, UNCHANGED vars
  PROVE  /\ IInv' /\ InspectionsAwaited' /\ (WillRun' <=> WillRun)
         /\ UNCHANGED <<service, guest, status, queue, reply>>
<1>1. IInv'
  BY NextPreserves DEF TuiInv
<1>2. UNCHANGED <<service, guest, status, queue, reply>>
  BY DEF vars
<1> QED BY <1>1, <1>2 DEF TuiInv, InspectionsAwaited, WillRun, Alive

LEMMA DeliverFacts ==
  ASSUME TuiInv, NEW s, NEW r,
         NEW c \in {Pause, Reset} \cup {Resume(limit) : limit \in Limits \cup {None}},
         Deliver(c, s, r)
  PROVE  /\ IInv' /\ InspectionsAwaited'
         /\ UNCHANGED <<service, guest, status, reply>>
         /\ c.op # "Resume" /\ ~WillRun => ~WillRun'
         /\ \/ /\ app' = s /\ Accepts
               /\ c.op = "Pause" => ~WillRun'
               /\ c.op = "Resume" => WillRun'
            \/ app' = r /\ ~Accepts
<1>1. c \in Commands /\ c.op # "Inspect"
  BY CommandTypes DEF Pause, Reset, Resume
<1>2. CASE Send(c) /\ app' = s
  <2>1. Client
    BY <1>2 DEF Client
  <2>2. IInv'
    BY <2>1, ClientPreserves DEF TuiInv
  <2>3. queue' \in Seq(Commands)
    BY <2>2 DEF IInv, RuntimeTypeOK
  <2>4. /\ Accepts /\ Alive /\ queue' = Append(queue, c)
        /\ UNCHANGED <<service, guest, status, reply>>
    BY <1>2 DEF Send, Accepts, hostVars
  <2> QED BY <1>1, <1>2, <2>2, <2>3, <2>4, SendFacts DEF TuiInv
<1>3. CASE ~Accepts /\ UNCHANGED vars /\ app' = r
  BY <1>3, UnchangedFacts
<1> QED BY <1>2, <1>3 DEF Deliver

LEMMA StopFacts ==
  ASSUME TuiInv, NEW a \in Apps, NEW then \in Seq(Acts), Quiet(then), Stop(a, then)
  PROVE  /\ IInv' /\ InspectionsAwaited'
         /\ UNCHANGED <<service, guest, status, reply>>
         /\ ~WillRun => ~WillRun'
         /\ \E q \in Seq(Acts) :
              /\ Quiet(q) /\ app' = Push(a, q)
              /\ \A i \in 1 .. Len(then) : \E j \in 1 .. Len(q) : q[j] = then[i]
<1> DEFINE both == Refreshes \o then
<1>1. /\ both \in Seq(Acts) /\ Quiet(both)
      /\ \A i \in 1 .. Len(then) : \E j \in 1 .. Len(both) : both[j] = then[i]
  BY RefreshesFacts, JoinedFacts
<1>2. CASE a.cached.lifecycle = "Running"
  <2>1. Deliver(Pause, Push(a, both), Push(a, then)) /\ Pause.op = "Pause"
    BY <1>2 DEF Stop, Pause
  <2> HIDE DEF both
  <2>2. /\ IInv' /\ InspectionsAwaited'
        /\ UNCHANGED <<service, guest, status, reply>>
        /\ ~WillRun => ~WillRun'
        /\ app' = Push(a, both) \/ app' = Push(a, then)
    BY <2>1, DeliverFacts
  <2> QED BY <1>1, <2>2
<1>3. CASE a.cached.lifecycle # "Running"
  <2>1. UNCHANGED vars /\ (app' = Push(a, both) \/ app' = Push(a, then))
    BY <1>3 DEF Stop, Locally
  <2> HIDE DEF both
  <2> QED BY <1>1, <2>1, UnchangedFacts
<1> QED BY <1>2, <1>3

LEMMA ClosingFacts ==
  ASSUME NEW t \in Seq(Acts), Len(t) = 1, NEW q \in Seq(Acts), Quiet(q)
  PROVE  t \o q # <<>> /\ Head(t \o q) = t[1] /\ Quiet(Tail(t \o q))
<1> DEFINE u == t \o q
<1>0. /\ u \in Seq(Acts) /\ Len(u) = Len(t) + Len(q) /\ Len(q) \in Nat
      /\ \A i \in 1 .. Len(t) + Len(q) :
           u[i] = IF i <= Len(t) THEN t[i] ELSE q[i - Len(t)]
  <2>1. ASSUME NEW a \in Seq(Acts), NEW b \in Seq(Acts)
        PROVE  /\ a \o b \in Seq(Acts) /\ Len(a \o b) = Len(a) + Len(b) /\ Len(b) \in Nat
               /\ \A i \in 1 .. Len(a) + Len(b) :
                    (a \o b)[i] = IF i <= Len(a) THEN a[i] ELSE b[i - Len(a)]
    BY ConcatProperties
  <2> QED BY <2>1, Zenon
<1>1. /\ u \in Seq(Acts) /\ Len(u) = 1 + Len(q) /\ Len(q) \in Nat
      /\ \A i \in 1 .. 1 + Len(q) : u[i] = IF i <= 1 THEN t[i] ELSE q[i - 1]
  <2> HIDE DEF u
  <2> QED BY <1>0
<1> HIDE DEF u
<1>2. u # <<>> /\ Head(u) = t[1]
  BY <1>1
<1>3. /\ Len(Tail(u)) = Len(q)
      /\ \A i \in 1 .. Len(Tail(u)) : Tail(u)[i] = u[i + 1]
  BY <1>1, <1>2, HeadTailProperties
<1>4. \A i \in 1 .. Len(q) : u[i + 1] = q[i]
  BY <1>1
<1>5. Quiet(Tail(u))
  BY <1>3, <1>4 DEF Quiet
<1> QED BY <1>2, <1>5 DEF u

\* The shape of the queue of actions once one is processed.
LEMMA ShapeKept ==
  ASSUME TuiInv, Processing, NEW q \in Seq(Acts), Quiet(q),
         app'.actions = Tail(app.actions) \o q
  PROVE  /\ ActionsShape'
         /\ Action.act = "Start" =>
              app'.actions # <<>> /\ Head(app'.actions) = SetMode("Normal")
<1> DEFINE s == app.actions
           t == Tail(app.actions)
           u == app'.actions
<1>1. /\ s \in Seq(Acts) /\ s # <<>> /\ t \in Seq(Acts) /\ Action = s[1]
      /\ Len(s) \in Nat \ {0} /\ Len(t) = Len(s) - 1
      /\ \A i \in 1 .. Len(t) : t[i] = s[i + 1]
  BY PoppedFacts, HeadTailProperties DEF Action
<1>2. CASE Quiet(s)
  <2>1. Quiet(t) /\ Action.act # "Start"
    BY <1>1, <1>2 DEF Quiet
  <2> QED BY <1>1, <2>1, JoinedFacts DEF ActionsShape
<1>3. CASE Head(s).act # "Start" /\ Quiet(t)
  BY <1>1, <1>3, JoinedFacts DEF ActionsShape, Action
<1>4. CASE Len(s) = 2 /\ s[2] = SetMode("Normal")
  <2>1. Len(t) = 1 /\ t[1] = SetMode("Normal")
    BY <1>1, <1>4
  <2>2. u # <<>> /\ Head(u) = SetMode("Normal") /\ Quiet(Tail(u))
    BY <1>1, <2>1, ClosingFacts
  <2>3. SetMode("Normal").act # "Start"
    BY DEF SetMode
  <2> QED BY <2>2, <2>3 DEF ActionsShape
<1> QED BY <1>2, <1>3, <1>4 DEF TuiInv, ActionsShape

\* What waits in the queue goes on waiting when another action is processed.
LEMMA DueKept ==
  ASSUME TuiInv, Processing, NEW q \in Seq(Acts), NEW pane \in InspectPanes,
         app'.actions = Tail(app.actions) \o q,
         Due(pane), Action \notin {Refresh(pane), Request(pane)}
  PROVE  Due(pane)'
<1> DEFINE s == app.actions
           t == Tail(app.actions)
<1>1. /\ s \in Seq(Acts) /\ s # <<>> /\ t \in Seq(Acts) /\ Action = s[1]
      /\ Len(s) \in Nat \ {0} /\ Len(t) = Len(s) - 1
      /\ \A i \in 1 .. Len(t) : t[i] = s[i + 1]
  BY PoppedFacts, HeadTailProperties DEF Action
<1>2. PICK i \in 1 .. Len(s) : s[i] \in {Refresh(pane), Request(pane)}
  BY DEF Due
<1>3. i # 1
  BY <1>1, <1>2
<1>4. i - 1 \in 1 .. Len(t) /\ t[i - 1] = s[i]
  BY <1>1, <1>2, <1>3
<1>5. i - 1 \in 1 .. Len(t \o q) /\ (t \o q)[i - 1] = t[i - 1]
  BY <1>1, <1>4, JoinedFacts, Zenon
<1>6. i - 1 \in 1 .. Len(app'.actions) /\ app'.actions[i - 1] = s[i]
  BY <1>4, <1>5, Zenon
<1> QED BY <1>2, <1>6 DEF Due, Refresh, Request

LEMMA DuePushed ==
  ASSUME NEW t \in Seq(Acts), NEW q \in Seq(Acts), NEW pane \in InspectPanes,
         app'.actions = t \o q,
         \E i \in 1 .. Len(q) : q[i] \in {Refresh(pane), Request(pane)}
  PROVE  Due(pane)'
<1>1. PICK i \in 1 .. Len(q) : q[i] \in {Refresh(pane), Request(pane)}
  OBVIOUS
<1>2. PICK j \in 1 .. Len(t \o q) : (t \o q)[j] = q[i]
  BY JoinedFacts, Zenon
<1>3. j \in 1 .. Len(app'.actions) /\ app'.actions[j] = q[i]
  BY <1>2, Zenon
<1> QED BY <1>1, <1>3 DEF Due, Refresh, Request

\* Processing an action that asks for no inspection.
LEMMA ProcessedPreserves ==
  ASSUME TuiInv, Processing, IInv', InspectionsAwaited', BarHolds',
         UNCHANGED <<service, guest, reply, shown, answer, unseen>>,
         app' \in Apps, app'.turn = app.turn, app'.cached = app.cached,
         Action.act \notin {"Request", "Refresh"},
         NEW q \in Seq(Acts), Quiet(q), app'.actions = Tail(app.actions) \o q,
         \/ app'.view = app.view /\ app'.refused = app.refused
         \/ app'.view = "Runtime"
         \/ \A pane \in InspectPanes : \E i \in 1 .. Len(q) : q[i] = Refresh(pane)
  PROVE  TuiInv'
<1>1. TuiTypeOK'
  BY DEF Processing, TuiTypeOK
<1>2. ActionsShape'
  BY ShapeKept
<1>3. AnswersFresh'
  BY DEF TuiInv, AnswersFresh
<1>4. PanesHold'
  <2> SUFFICES ASSUME Alive', app'.view = "Inspect", app'.cached.lifecycle = "Paused",
                      ~unseen', NEW pane \in InspectPanes \ app'.refused
               PROVE  PaneHolds(pane)'
    BY Zenon DEF PanesHold
  <2>1. CASE app'.view = app.view /\ app'.refused = app.refused
    <3>1. PaneHolds(pane)
      BY <2>1 DEF TuiInv, PanesHold, Alive
    <3>2. Action \notin {Refresh(pane), Request(pane)}
      BY DEF Refresh, Request
    <3>3. CASE Due(pane)
      BY <3>2, <3>3, DueKept DEF PaneHolds
    <3>4. CASE ~Due(pane)
      BY <3>1, <3>4 DEF PaneHolds
    <3> QED BY <3>3, <3>4
  <2>2. CASE \A p \in InspectPanes : \E i \in 1 .. Len(q) : q[i] = Refresh(p)
    BY <2>2, DuePushed, PoppedFacts DEF PaneHolds
  <2> QED BY <2>1, <2>2
<1> QED BY <1>1, <1>2, <1>3, <1>4 DEF TuiInv

LEMMA NothingPushed ==
  ASSUME NEW t \in Seq(Acts)
  PROVE  <<>> \in Seq(Acts) /\ Quiet(<<>>) /\ t \o <<>> = t
BY DEF Quiet

\* What closing a bar that paused the guest must leave behind.
Honours ==
  app.resume /\ ~app'.resume =>
    /\ app.asked = "Halt" => ~WillRun'
    /\ app.asked \in {"Nothing", "Count"} /\ Accepts => WillRun'

LEMMA ProcessModePreserves ==
  ASSUME TuiInv, Processing, ProcessMode, UNCHANGED <<shown, answer, unseen>>
  PROVE  TuiInv' /\ Honours
<1>1. /\ app \in Apps /\ Popped \in Apps /\ Action \in Acts /\ Action.act = "SetMode"
      /\ Tail(app.actions) \in Seq(Acts)
      /\ app.resume \in BOOLEAN /\ app.suppress \in BOOLEAN
  BY PoppedFacts DEF TuiInv, TuiTypeOK, ProcessMode, Apps
<1>2. Action.mode \in {"Normal", "Command"} /\ app.mode \in {"Normal", "Command"}
  BY <1>1 DEF Acts, Apps
<1>3. Action.act \notin {"Request", "Refresh"}
  BY <1>1
<1>4. ASSUME IInv', InspectionsAwaited', BarHolds', UNCHANGED <<service, guest, reply>>,
             app' \in Apps, app'.actions = Popped.actions, app'.turn = Popped.turn,
             app'.cached = Popped.cached, app'.view = Popped.view,
             app'.refused = Popped.refused
      PROVE  TuiInv'
  <2>1. app'.actions = Tail(app.actions) \o <<>>
    BY <1>1, <1>4, PoppedFacts, NothingPushed
  <2> QED BY <1>1, <1>3, <1>4, <2>1, PoppedFacts, NothingPushed, ProcessedPreserves
<1>5. CASE Action.mode = app.mode
  <2>1. UNCHANGED vars /\ app' = Popped
    BY <1>1, <1>5 DEF ProcessMode, Locally
  <2>2. IInv' /\ InspectionsAwaited' /\ (WillRun' <=> WillRun)
        /\ UNCHANGED <<service, guest, reply>>
    BY <2>1, UnchangedFacts
  <2>3. app.resume => app.asked # "Run"
    BY <1>5 DEF TuiInv, BarHolds, SetMode, Action
  <2>4. BarHolds'
    BY <2>1, <2>2, <2>3, PoppedFacts DEF TuiInv, BarHolds, Apps
  <2>5. TuiInv'
    BY <1>1, <1>4, <2>1, <2>2, <2>4
  <2> QED BY <2>1, <2>5, PoppedFacts DEF Honours
<1>6. CASE Action.mode # app.mode /\ Action.mode = "Command"
  <2>0. ~app.resume
    BY <1>2, <1>6 DEF TuiInv, BarHolds
  <2>1. OpenBar(Popped)
    BY <1>1, <1>6 DEF ProcessMode
  <2> DEFINE opened == [Popped EXCEPT !.mode = "Command"]
             paused == [opened EXCEPT !.resume = TRUE, !.suppress = FALSE,
                                      !.asked = Interrupted]
  <2>2. /\ opened \in Apps /\ opened.actions = Popped.actions /\ opened.turn = Popped.turn
        /\ opened.cached = Popped.cached /\ opened.view = Popped.view
        /\ opened.refused = Popped.refused /\ opened.resume = app.resume
    BY <1>1, PoppedFacts DEF Apps
  <2>3. Interrupted \in {"Nothing", "Count"}
    BY DEF Interrupted
  <2>5. /\ paused \in Apps /\ paused.actions = Popped.actions /\ paused.turn = Popped.turn
        /\ paused.cached = Popped.cached /\ paused.view = Popped.view
        /\ paused.refused = Popped.refused /\ paused.resume = TRUE
        /\ paused.suppress = FALSE /\ paused.asked = Interrupted /\ paused.mode = "Command"
    BY <1>1, <2>3 DEF Apps
  <2>6. /\ IInv' /\ InspectionsAwaited' /\ UNCHANGED <<service, guest, reply>>
        /\ app' = opened \/ (app' = paused /\ ~WillRun')
    <3>1. CASE Popped.cached.lifecycle = "Running"
      <4>1. Deliver(Pause, paused, opened) /\ Pause.op = "Pause"
        BY <2>1, <3>1 DEF OpenBar, Pause
      <4> HIDE DEF paused, opened
      <4> QED BY <4>1, DeliverFacts
    <3>2. CASE Popped.cached.lifecycle # "Running"
      <4>1. UNCHANGED vars /\ app' = opened
        BY <2>1, <3>2 DEF OpenBar, Locally
      <4> HIDE DEF paused, opened
      <4> QED BY <4>1, UnchangedFacts
    <3> QED BY <3>1, <3>2
  <2> HIDE DEF paused, opened
  <2>7. BarHolds'
    BY <2>0, <2>2, <2>3, <2>5, <2>6 DEF BarHolds
  <2>8. TuiInv'
    BY <1>1, <1>4, <2>2, <2>5, <2>6, <2>7
  <2> QED BY <2>0, <2>8 DEF Honours
<1>7. CASE Action.mode # app.mode /\ Action.mode = "Normal"
  <2>1. CloseBar(Popped)
    BY <1>1, <1>7 DEF ProcessMode
  <2> DEFINE closed == [Popped EXCEPT !.mode = "Normal", !.resume = FALSE,
                                      !.suppress = FALSE, !.asked = "Nothing"]
  <2>2. /\ closed \in Apps /\ closed.actions = Popped.actions /\ closed.turn = Popped.turn
        /\ closed.cached = Popped.cached /\ closed.view = Popped.view
        /\ closed.refused = Popped.refused /\ closed.resume = FALSE
    BY <1>1 DEF Apps
  <2>3. CASE app.resume /\ ~app.suppress
    <3>1. Deliver(Resume(None), closed, closed) /\ Resume(None).op = "Resume"
      BY <2>1, <2>3, PoppedFacts DEF CloseBar, Resume
    <3> HIDE DEF closed
    <3>2. /\ IInv' /\ InspectionsAwaited' /\ UNCHANGED <<service, guest, reply>>
          /\ app' = closed /\ (Accepts => WillRun')
      BY <3>1, DeliverFacts
    <3>3. BarHolds' /\ app.asked # "Halt"
      BY <2>2, <2>3, <3>2 DEF BarHolds, TuiInv
    <3>4. TuiInv'
      BY <1>1, <1>4, <2>2, <3>2, <3>3
    <3> QED BY <3>2, <3>3, <3>4 DEF Honours
  <2>4. CASE ~(app.resume /\ ~app.suppress)
    <3>1. UNCHANGED vars /\ app' = closed
      BY <2>1, <2>4, PoppedFacts DEF CloseBar, Locally
    <3> HIDE DEF closed
    <3>2. /\ IInv' /\ InspectionsAwaited' /\ UNCHANGED <<service, guest, reply>>
          /\ (WillRun' <=> WillRun)
      BY <3>1, UnchangedFacts
    <3>3. BarHolds'
      BY <2>2, <3>1 DEF BarHolds
    <3>4. TuiInv'
      BY <1>1, <1>4, <2>2, <3>1, <3>2, <3>3
    <3>5. app.resume => app.asked \notin {"Nothing", "Count"} /\ (app.asked = "Halt" => ~WillRun)
      BY <2>4 DEF TuiInv, BarHolds
    <3> QED BY <3>2, <3>4, <3>5 DEF Honours
  <2> QED BY <2>3, <2>4
<1> QED BY <1>2, <1>5, <1>6, <1>7

\* What an action that touches neither mode nor inspections does to the bar.
LEMMA ProcessRunPreserves ==
  ASSUME TuiInv, Processing, ProcessRun, UNCHANGED <<shown, answer, unseen>>
  PROVE  TuiInv' /\ Honours
<1>1. /\ app \in Apps /\ Action \in Acts /\ Tail(app.actions) \in Seq(Acts)
      /\ Action.act \in {"ToggleRun", "Start", "Stop"}
      /\ app.resume \in BOOLEAN
  BY PoppedFacts DEF TuiInv, TuiTypeOK, ProcessRun, Apps
<1>2. app.resume => app.asked # "Run" /\ ~WillRun
  <2>1. Action # SetMode("Normal")
    BY <1>1 DEF SetMode
  <2>2. app.asked \in {"Nothing", "Count", "Halt", "Run"}
    BY <1>1 DEF Apps
  <2> QED BY <2>1, <2>2 DEF TuiInv, BarHolds, Action
<1>3. ASSUME NEW what \in {"Halt", "Run"}, NEW q \in Seq(Acts), Quiet(q),
             IInv', InspectionsAwaited', BarHolds', UNCHANGED <<service, guest, reply>>,
             app' = Push(Held(what), q)
      PROVE  TuiInv' /\ Honours
  <2> DEFINE h == Held(what)
  <2>1. /\ h \in Apps /\ h.actions = Tail(app.actions) /\ h.turn = app.turn
        /\ h.cached = app.cached /\ h.view = app.view /\ h.resume = app.resume
        /\ h.refused = app.refused
    BY HeldFacts
  <2> HIDE DEF h
  <2>2. app' = Push(h, q)
    BY <1>3 DEF h
  <2>3. /\ app' \in Apps /\ app'.actions = Tail(app.actions) \o q /\ app'.turn = app.turn
        /\ app'.cached = app.cached /\ app'.view = app.view /\ app'.resume = app.resume
        /\ app'.refused = app.refused
    <3>1. /\ Push(h, q) \in Apps
          /\ Push(h, q).actions = h.actions \o q
          /\ Push(h, q).turn = h.turn /\ Push(h, q).cached = h.cached
          /\ Push(h, q).view = h.view /\ Push(h, q).mode = h.mode
          /\ Push(h, q).resume = h.resume /\ Push(h, q).suppress = h.suppress
          /\ Push(h, q).refused = h.refused /\ Push(h, q).asked = h.asked
      BY <1>3, <2>1, PushFacts, Zenon
    <3> QED BY <2>1, <2>2, <3>1, Zenon
  <2>4. TuiInv'
    BY <1>1, <1>3, <2>3, ProcessedPreserves
  <2> QED BY <2>3, <2>4 DEF Honours
<1>4. ASSUME NEW what \in {"Halt", "Run"}, IInv', InspectionsAwaited', BarHolds',
             UNCHANGED <<service, guest, reply>>, app' = Held(what)
      PROVE  TuiInv' /\ Honours
  <2>1. Held(what) \in Apps /\ Held(what).actions \in Seq(Acts)
    BY <1>1, HeldFacts
  <2>2. Push(Held(what), <<>>) = Held(what)
    <3> DEFINE h == Held(what)
    <3>1. h \in Apps /\ h.actions \in Seq(Acts)
      BY <2>1
    <3> HIDE DEF h
    <3>2. h.actions \o <<>> = h.actions
      BY <3>1, NothingPushed
    <3>3. Push(h, <<>>) = h
      BY <3>1, <3>2 DEF Push, Apps
    <3> QED BY <3>3 DEF h
  <2>3. <<>> \in Seq(Acts) /\ Quiet(<<>>)
    BY <2>1, NothingPushed
  <2>4. app' = Push(Held(what), <<>>)
    BY <1>4, <2>2
  <2> QED BY <1>3, <1>4, <2>3, <2>4
<1>5. ASSUME Stop(Held("Halt"), <<>>)
      PROVE  TuiInv' /\ Honours
  <2>1. Held("Halt") \in Apps
    BY HeldFacts
  <2>2. /\ IInv' /\ InspectionsAwaited' /\ UNCHANGED <<service, guest, reply>>
        /\ ~WillRun => ~WillRun'
        /\ \E q \in Seq(Acts) : Quiet(q) /\ app' = Push(Held("Halt"), q)
    <3>1. <<>> \in Seq(Acts) /\ Quiet(<<>>)
      BY <1>1, NothingPushed
    <3> QED BY <1>5, <2>1, <3>1, StopFacts
  <2>3. PICK q \in Seq(Acts) : Quiet(q) /\ app' = Push(Held("Halt"), q)
    BY <2>2
  <2>4. /\ app'.resume = app.resume /\ app'.mode = app.mode
        /\ app'.suppress = app.resume /\ (app.resume => app'.asked = "Halt")
    <3>1. /\ app'.resume = Held("Halt").resume /\ app'.mode = Held("Halt").mode
          /\ app'.suppress = Held("Halt").suppress /\ app'.asked = Held("Halt").asked
      BY <2>1, <2>3, PushFacts
    <3> QED BY <3>1, HeldFacts
  <2>5. BarHolds'
    BY <1>2, <2>2, <2>4 DEF TuiInv, BarHolds
  <2> QED BY <1>3, <2>2, <2>3, <2>5
<1>6. ASSUME NEW limit \in Limits \cup {None}, StartEmulation(Held("Run"), limit),
             app.resume => Action.act = "Start"
      PROVE  TuiInv' /\ Honours
  <2>1. /\ IInv' /\ InspectionsAwaited' /\ UNCHANGED <<service, guest, reply>>
        /\ app' = Held("Run")
    <3>1. CASE Held("Run").cached.lifecycle = "Paused" \/ Held("Run").resume
      <4>1. Deliver(Resume(limit), Held("Run"), Held("Run"))
        BY <1>6, <3>1 DEF StartEmulation
      <4> QED BY <4>1, DeliverFacts
    <3>2. CASE ~(Held("Run").cached.lifecycle = "Paused" \/ Held("Run").resume)
      <4>1. UNCHANGED vars /\ app' = Held("Run")
        BY <1>6, <3>2 DEF StartEmulation, Locally
      <4> QED BY <4>1, UnchangedFacts
    <3> QED BY <3>1, <3>2
  <2>2. BarHolds'
    <3>1. app'.actions = Tail(app.actions) \o <<>>
      BY <1>1, <2>1, HeldFacts, NothingPushed
    <3>2. app.resume => app'.actions # <<>> /\ Head(app'.actions) = SetMode("Normal")
      BY <1>1, <1>6, <3>1, ShapeKept, NothingPushed
    <3> QED BY <2>1, <3>2, HeldFacts DEF TuiInv, BarHolds, SetMode
  <2> QED BY <1>4, <2>1, <2>2
<1>7. ASSUME Locally(Held("Run")), ~app.resume
      PROVE  TuiInv' /\ Honours
  <2>1. UNCHANGED vars /\ app' = Held("Run")
    BY <1>7 DEF Locally
  <2>2. BarHolds'
    BY <1>7, <2>1, HeldFacts DEF BarHolds
  <2> QED BY <1>4, <2>1, <2>2, UnchangedFacts
<1>8. CASE Action.act = "ToggleRun"
  <2>1. \/ Stop(Held("Halt"), <<>>)
        \/ ~app.resume /\ StartEmulation(Held("Run"), None)
        \/ ~app.resume /\ Locally(Held("Run"))
    BY <1>1, <1>8 DEF ProcessRun
  <2> QED BY <1>5, <1>6, <1>7, <2>1
<1>9. CASE Action.act = "Start"
  <2>1. Action.limit \in Limits \cup {None}
    BY <1>1, <1>9 DEF Acts
  <2>2. StartEmulation(Held("Run"), Action.limit)
    BY <1>1, <1>9 DEF ProcessRun
  <2> QED BY <1>6, <1>9, <2>1, <2>2
<1>10. CASE Action.act = "Stop"
  BY <1>1, <1>5, <1>10 DEF ProcessRun
<1> QED BY <1>1, <1>8, <1>9, <1>10

LEMMA ProcessLastPreserves ==
  ASSUME TuiInv, Processing, ProcessReset \/ ProcessQuit,
         UNCHANGED <<shown, answer, unseen>>
  PROVE  TuiInv' /\ Honours
<1>1. /\ app \in Apps /\ Action \in Acts /\ Tail(app.actions) \in Seq(Acts)
      /\ Action.act \in {"Reset", "Quit"}
      /\ app.resume \in BOOLEAN
  BY PoppedFacts DEF TuiInv, TuiTypeOK, ProcessReset, ProcessQuit, Apps
<1>2. app.resume => ~WillRun
  <2>1. Action # SetMode("Normal")
    BY <1>1 DEF SetMode
  <2>2. app.asked \in {"Nothing", "Count", "Halt", "Run"}
    BY <1>1 DEF Apps
  <2> QED BY <2>1, <2>2 DEF TuiInv, BarHolds, Action
<1> DEFINE h == Held("Halt")
           ended == [h EXCEPT !.quit = TRUE]
<1>3. /\ h \in Apps /\ h.actions = Tail(app.actions) /\ h.turn = app.turn
      /\ h.cached = app.cached /\ h.view = app.view /\ h.resume = app.resume
      /\ h.refused = app.refused /\ h.mode = app.mode /\ h.suppress = app.resume
      /\ (app.resume => h.asked = "Halt")
  BY HeldFacts
<1>4. /\ IInv' /\ InspectionsAwaited' /\ UNCHANGED <<service, guest, reply>>
      /\ ~WillRun => ~WillRun'
      /\ app' = Push(h, Refreshes) \/ app' = h \/ app' = ended
  <2>1. CASE ProcessReset
    <3>1. Deliver(Reset, Push(h, Refreshes), h) /\ Reset.op = "Reset"
      BY <2>1 DEF ProcessReset, Reset
    <3> HIDE DEF h, ended
    <3> QED BY <3>1, DeliverFacts
  <2>2. CASE ProcessQuit
    <3>1. UNCHANGED vars /\ app' = ended
      BY <2>2 DEF ProcessQuit, Locally
    <3> HIDE DEF h, ended
    <3> QED BY <3>1, UnchangedFacts
  <2> QED BY <2>1, <2>2
<1> HIDE DEF h
<1>5. \E q \in Seq(Acts) :
        /\ Quiet(q) /\ app' \in Apps /\ app'.actions = Tail(app.actions) \o q
        /\ app'.turn = app.turn /\ app'.cached = app.cached /\ app'.view = app.view
        /\ app'.resume = app.resume /\ app'.refused = app.refused
        /\ app'.mode = app.mode /\ app'.suppress = app.resume
        /\ (app.resume => app'.asked = "Halt")
  <2>1. Tail(app.actions) \o <<>> = Tail(app.actions) /\ <<>> \in Seq(Acts) /\ Quiet(<<>>)
    BY <1>1, NothingPushed
  <2>2. CASE app' = Push(h, Refreshes)
    <3>1. /\ Push(h, Refreshes) \in Apps
          /\ Push(h, Refreshes).actions = h.actions \o Refreshes
          /\ Push(h, Refreshes).turn = h.turn /\ Push(h, Refreshes).cached = h.cached
          /\ Push(h, Refreshes).view = h.view /\ Push(h, Refreshes).mode = h.mode
          /\ Push(h, Refreshes).resume = h.resume /\ Push(h, Refreshes).suppress = h.suppress
          /\ Push(h, Refreshes).refused = h.refused /\ Push(h, Refreshes).asked = h.asked
      BY <1>3, RefreshesFacts, PushFacts, Zenon
    <3> QED BY <1>3, <2>2, <3>1, RefreshesFacts, Zenon
  <2>3. CASE app' = h
    BY <1>3, <2>1, <2>3
  <2>4. CASE app' = ended
    <3>1. /\ ended \in Apps /\ ended.actions = h.actions /\ ended.turn = h.turn
          /\ ended.cached = h.cached /\ ended.view = h.view /\ ended.resume = h.resume
          /\ ended.refused = h.refused /\ ended.mode = h.mode
          /\ ended.suppress = h.suppress /\ ended.asked = h.asked
      BY <1>3 DEF Apps
    <3> HIDE DEF ended
    <3> QED BY <1>3, <2>1, <2>4, <3>1
  <2> QED BY <1>4, <2>2, <2>3, <2>4
<1>6. BarHolds'
  BY <1>2, <1>4, <1>5 DEF TuiInv, BarHolds
<1>7. TuiInv'
  BY <1>1, <1>4, <1>5, <1>6, ProcessedPreserves
<1> QED BY <1>5, <1>7 DEF Honours

\* Selecting a view, as the App holds it before anything is queued or sent.
LEMMA SelectPreserves ==
  ASSUME TuiInv, Processing, Action.act \in {"SelectView", "ToggleView"},
         NEW view \in Views, Select(Popped, view), UNCHANGED <<shown, answer, unseen>>
  PROVE  TuiInv' /\ Honours
<1>1. /\ app \in Apps /\ Popped \in Apps /\ Action \in Acts
      /\ Tail(app.actions) \in Seq(Acts) /\ app.resume \in BOOLEAN
  BY PoppedFacts DEF TuiInv, TuiTypeOK, Apps
<1>2. app.resume => ~WillRun /\ app.asked # "Run"
  <2>1. Action # SetMode("Normal")
    BY <1>1 DEF SetMode
  <2>2. app.asked \in {"Nothing", "Count", "Halt", "Run"}
    BY <1>1 DEF Apps
  <2> QED BY <2>1, <2>2 DEF TuiInv, BarHolds, Action
<1> DEFINE held == IF view = "Inspect"
                     THEN [Asked(Popped, "Halt") EXCEPT !.suppress = Popped.resume]
                     ELSE [Popped EXCEPT !.refused = {}]
           moved == [held EXCEPT !.view = view]
<1>3. /\ held \in Apps /\ held.actions = Tail(app.actions) /\ held.turn = app.turn
      /\ held.cached = app.cached /\ held.view = app.view /\ held.mode = app.mode
      /\ held.resume = app.resume
      /\ view = "Inspect" => /\ held.suppress = app.resume /\ held.refused = app.refused
                             /\ app.resume => held.asked = "Halt"
      /\ view # "Inspect" => held.suppress = app.suppress /\ held.asked = app.asked
  <2>1. CASE view = "Inspect"
    <3>1. held = Held("Halt")
      BY <2>1, PoppedFacts DEF Held
    <3> HIDE DEF held
    <3> QED BY <2>1, <3>1, HeldFacts
  <2>2. CASE view # "Inspect"
    <3>1. held = [Popped EXCEPT !.refused = {}]
      BY <2>2
    <3> HIDE DEF held
    <3>2. /\ held \in Apps /\ held.actions = Popped.actions /\ held.turn = Popped.turn
          /\ held.cached = Popped.cached /\ held.view = Popped.view
          /\ held.mode = Popped.mode /\ held.resume = Popped.resume
          /\ held.suppress = Popped.suppress /\ held.asked = Popped.asked
      BY <1>1, <3>1 DEF Apps
    <3> QED BY <2>2, <3>2, PoppedFacts
  <2> QED BY <2>1, <2>2
<1>4. \/ app.view = view /\ Locally(held)
      \/ app.view # view /\ Stop(moved, Entered(view))
      \/ app.view # view /\ Locally(Push(moved, Entered(view)))
  BY PoppedFacts DEF Select
<1> HIDE DEF held
<1>5. /\ moved \in Apps /\ moved.actions = held.actions /\ moved.turn = held.turn
      /\ moved.cached = held.cached /\ moved.view = view /\ moved.mode = held.mode
      /\ moved.resume = held.resume /\ moved.suppress = held.suppress
      /\ moved.asked = held.asked
  BY <1>3 DEF Apps
<1> HIDE DEF moved
<1>6. /\ Entered(view) \in Seq(Acts) /\ Quiet(Entered(view))
      /\ view = "Inspect" => Entered(view) = Refreshes
      /\ <<>> \in Seq(Acts) /\ Quiet(<<>>) /\ Tail(app.actions) \o <<>> = Tail(app.actions)
  BY <1>1, RefreshesFacts, NothingPushed DEF Entered
<1>7. ASSUME NEW a \in {held, moved}, NEW q \in Seq(Acts), app' = Push(a, q)
      PROVE  /\ app' \in Apps /\ app'.actions = Tail(app.actions) \o q
             /\ app'.turn = app.turn /\ app'.cached = app.cached
             /\ app'.view = a.view /\ app'.mode = app.mode
             /\ app'.resume = app.resume /\ app'.suppress = held.suppress
             /\ app'.asked = held.asked /\ app'.refused = a.refused
  <2>1. /\ a \in Apps /\ a.actions = Tail(app.actions) /\ a.turn = app.turn
        /\ a.cached = app.cached /\ a.mode = app.mode /\ a.resume = app.resume
        /\ a.suppress = held.suppress /\ a.asked = held.asked
    BY <1>3, <1>5, <1>7
  <2>2. /\ Push(a, q) \in Apps /\ Push(a, q).actions = a.actions \o q
        /\ Push(a, q).turn = a.turn /\ Push(a, q).cached = a.cached
        /\ Push(a, q).view = a.view /\ Push(a, q).mode = a.mode
        /\ Push(a, q).resume = a.resume /\ Push(a, q).suppress = a.suppress
        /\ Push(a, q).refused = a.refused /\ Push(a, q).asked = a.asked
    BY <2>1, PushFacts, Zenon
  <2> QED BY <1>7, <2>1, <2>2, Zenon
<1>8. ASSUME app'.resume = app.resume, app'.suppress = held.suppress,
             app'.asked = held.asked, app'.mode = app.mode, ~WillRun => ~WillRun'
      PROVE  BarHolds' /\ Honours
  <2>1. app.resume => app'.asked # "Run" /\ ~WillRun'
    BY <1>2, <1>3, <1>8
  <2>2. CASE view = "Inspect"
    BY <1>3, <1>8, <2>1, <2>2 DEF TuiInv, BarHolds, Honours
  <2>3. CASE view # "Inspect"
    BY <1>3, <1>8, <2>1, <2>3 DEF TuiInv, BarHolds, Honours
  <2> QED BY <2>2, <2>3
<1>9. ASSUME NEW q \in Seq(Acts), Quiet(q), app' = Push(moved, q), app.view # view,
             view = "Inspect" =>
               \A i \in 1 .. Len(Refreshes) : \E j \in 1 .. Len(q) : q[j] = Refreshes[i],
             IInv', InspectionsAwaited', UNCHANGED <<service, guest, reply>>,
             ~WillRun => ~WillRun'
      PROVE  TuiInv' /\ Honours
  <2>1. /\ app' \in Apps /\ app'.actions = Tail(app.actions) \o q
        /\ app'.turn = app.turn /\ app'.cached = app.cached
        /\ app'.view = view /\ app'.mode = app.mode
        /\ app'.resume = app.resume /\ app'.suppress = held.suppress
        /\ app'.asked = held.asked
    BY <1>5, <1>7, <1>9
  <2>2. BarHolds' /\ Honours
    BY <1>8, <1>9, <2>1
  <2>3. \/ app'.view = "Runtime"
        \/ \A pane \in InspectPanes : \E i \in 1 .. Len(q) : q[i] = Refresh(pane)
    <3>1. CASE view = "Inspect"
      <4> SUFFICES ASSUME NEW pane \in InspectPanes
                   PROVE  \E i \in 1 .. Len(q) : q[i] = Refresh(pane)
        OBVIOUS
      <4>1. PICK i \in 1 .. Len(Refreshes) : Refreshes[i] = Refresh(pane)
        BY RefreshesFacts
      <4>2. PICK j \in 1 .. Len(q) : q[j] = Refreshes[i]
        BY <1>9, <3>1
      <4> QED BY <4>1, <4>2
    <3> QED BY <2>1, <3>1 DEF Views
  <2> QED BY <1>1, <1>9, <2>1, <2>2, <2>3, ProcessedPreserves
<1>10. CASE app.view = view /\ Locally(held)
  <2>1. UNCHANGED vars /\ app' = held
    BY <1>10 DEF Locally
  <2>2. /\ IInv' /\ InspectionsAwaited' /\ UNCHANGED <<service, guest, reply>>
        /\ ~WillRun => ~WillRun'
    BY <2>1, UnchangedFacts
  <2>3. BarHolds' /\ Honours
    BY <1>3, <1>8, <2>1, <2>2
  <2>4. app'.actions = Tail(app.actions) \o <<>>
    BY <1>3, <1>6, <2>1
  <2>5. app'.view = app.view /\ (app'.refused = app.refused \/ app'.view = "Runtime")
    BY <1>3, <1>10, <2>1 DEF Views
  <2>6. app' \in Apps /\ app'.turn = app.turn /\ app'.cached = app.cached
    BY <1>3, <2>1
  <2> QED BY <1>1, <1>6, <2>2, <2>3, <2>4, <2>5, <2>6, ProcessedPreserves
<1>11. CASE app.view # view /\ Stop(moved, Entered(view))
  <2>1. /\ IInv' /\ InspectionsAwaited' /\ UNCHANGED <<service, guest, reply>>
        /\ ~WillRun => ~WillRun'
        /\ \E q \in Seq(Acts) :
             /\ Quiet(q) /\ app' = Push(moved, q)
             /\ \A i \in 1 .. Len(Entered(view)) : \E j \in 1 .. Len(q) : q[j] = Entered(view)[i]
    BY <1>5, <1>6, <1>11, StopFacts
  <2>2. PICK q \in Seq(Acts) :
          /\ Quiet(q) /\ app' = Push(moved, q)
          /\ \A i \in 1 .. Len(Entered(view)) : \E j \in 1 .. Len(q) : q[j] = Entered(view)[i]
    BY <2>1
  <2> QED BY <1>6, <1>9, <1>11, <2>1, <2>2
<1>12. CASE app.view # view /\ Locally(Push(moved, Entered(view)))
  <2>1. UNCHANGED vars /\ app' = Push(moved, Entered(view))
    BY <1>12 DEF Locally
  <2>2. /\ IInv' /\ InspectionsAwaited' /\ UNCHANGED <<service, guest, reply>>
        /\ ~WillRun => ~WillRun'
    BY <2>1, UnchangedFacts
  <2> QED BY <1>6, <1>9, <1>12, <2>1, <2>2
<1> QED BY <1>4, <1>10, <1>11, <1>12

LEMMA ProcessViewPreserves ==
  ASSUME TuiInv, Processing, ProcessView, UNCHANGED <<shown, answer, unseen>>
  PROVE  TuiInv' /\ Honours
<1>1. Action \in Acts /\ app \in Apps
  BY PoppedFacts DEF TuiInv, TuiTypeOK
<1>2. CASE Action.act = "SelectView" /\ Select(Popped, Action.view)
  <2>1. Action.view \in Views
    BY <1>1, <1>2 DEF Acts
  <2> QED BY <1>2, <2>1, SelectPreserves
<1>3. CASE Action.act = "ToggleView" /\ Select(Popped, CHOOSE view \in Views : view # app.view)
  <2>1. \E view \in Views : view # app.view
    BY <1>1 DEF Apps, Views
  <2>2. (CHOOSE view \in Views : view # app.view) \in Views
    BY <2>1, Zenon
  <2> QED BY <1>3, <2>2, SelectPreserves
<1> QED BY <1>2, <1>3 DEF ProcessView

\* Processing what a pane asks for: the other panes are not affected.
LEMMA PaneActionPreserves ==
  ASSUME TuiInv, Processing, IInv', InspectionsAwaited', ~WillRun => ~WillRun',
         Action.act \in {"Request", "Refresh"},
         UNCHANGED <<service, guest, shown, answer, unseen>>,
         \A pane \in InspectPanes : pane # Action.pane => reply'[pane] = reply[pane],
         app' \in Apps, app'.turn = app.turn, app'.cached = app.cached,
         app'.view = app.view, app'.mode = app.mode, app'.resume = app.resume,
         app'.suppress = app.suppress, app'.asked = app.asked,
         \A pane \in InspectPanes \ app'.refused :
           pane # Action.pane => pane \notin app.refused,
         NEW q \in Seq(Acts), Quiet(q), app'.actions = Tail(app.actions) \o q,
         reply'[Action.pane] = "Answered" => reply[Action.pane] = "Answered",
         Alive /\ app.view = "Inspect" /\ ~unseen =>
           \/ Action.pane \in app'.refused
           \/ \E i \in 1 .. Len(q) : q[i] = Request(Action.pane)
           \/ reply'[Action.pane] = "Queued"
           \/ reply'[Action.pane] = "Answered" /\ answer[Action.pane] = guest
  PROVE  TuiInv' /\ Honours
<1>1. app \in Apps /\ Action \in Acts /\ Tail(app.actions) \in Seq(Acts)
  BY PoppedFacts DEF TuiInv, TuiTypeOK
<1>2. Action.pane \in InspectPanes
  BY <1>1 DEF Acts
<1>3. TuiTypeOK' /\ ActionsShape'
  BY ShapeKept DEF Processing, TuiTypeOK
<1>4. BarHolds' /\ Honours
  <2>1. app.resume => app.asked # "Run"
    <3>1. Action # SetMode("Normal")
      BY DEF SetMode
    <3> QED BY <3>1 DEF TuiInv, BarHolds, Action
  <2> QED BY <2>1 DEF TuiInv, BarHolds, Honours
<1>5. AnswersFresh'
  <2>1. \A pane \in InspectPanes : reply'[pane] = "Answered" => reply[pane] = "Answered"
    OBVIOUS
  <2> QED BY <2>1 DEF TuiInv, AnswersFresh
<1>6. PanesHold'
  <2> SUFFICES ASSUME Alive', app'.view = "Inspect", app'.cached.lifecycle = "Paused",
                      ~unseen', NEW pane \in InspectPanes \ app'.refused
               PROVE  PaneHolds(pane)'
    BY Zenon DEF PanesHold
  <2>1. Alive /\ app.view = "Inspect" /\ app.cached.lifecycle = "Paused" /\ ~unseen
    BY DEF Alive
  <2>2. CASE pane = Action.pane
    <3>1. CASE \E i \in 1 .. Len(q) : q[i] = Request(pane)
      BY <1>1, <3>1, DuePushed DEF PaneHolds
    <3>2. CASE reply'[pane] = "Queued" \/ (reply'[pane] = "Answered" /\ answer[pane] = guest)
      BY <3>2 DEF PaneHolds
    <3> QED BY <2>1, <2>2, <3>1, <3>2
  <2>3. CASE pane # Action.pane
    <3>1. PaneHolds(pane)
      BY <2>1, <2>3 DEF TuiInv, PanesHold
    <3>2. Action \notin {Refresh(pane), Request(pane)}
      BY <2>3 DEF Refresh, Request
    <3>3. CASE Due(pane)
      BY <3>2, <3>3, DueKept DEF PaneHolds
    <3>4. CASE ~Due(pane)
      BY <2>3, <3>1, <3>4 DEF PaneHolds
    <3> QED BY <3>3, <3>4
  <2> QED BY <2>2, <2>3
<1> QED BY <1>3, <1>4, <1>5, <1>6 DEF TuiInv

LEMMA ProcessRefreshPreserves ==
  ASSUME TuiInv, Processing, ProcessRefresh, UNCHANGED <<shown, answer, unseen>>
  PROVE  TuiInv' /\ Honours
<1>1. /\ app \in Apps /\ Action \in Acts /\ Tail(app.actions) \in Seq(Acts)
      /\ Action.act = "Refresh" /\ Popped \in Apps
  BY PoppedFacts DEF TuiInv, TuiTypeOK, ProcessRefresh
<1>2. Action.pane \in InspectPanes
  BY <1>1 DEF Acts
<1> DEFINE r == Request(Action.pane)
           q == IF app.view = "Inspect" THEN <<r>> ELSE <<>>
<1>3. r \in Acts /\ r.act = "Request"
  BY <1>2 DEF Request, Acts
<1> HIDE DEF r
<1>4. /\ q \in Seq(Acts) /\ Quiet(q)
      /\ app.view = "Inspect" => \E i \in 1 .. Len(q) : q[i] = r
      /\ Tail(app.actions) \o <<>> = Tail(app.actions)
  BY <1>1, <1>3, NothingPushed DEF Quiet
<1>5. UNCHANGED vars /\ app' = IF app.view = "Inspect" THEN Push(Popped, <<r>>) ELSE Popped
  BY DEF ProcessRefresh, Locally, r
<1>6. /\ app' \in Apps /\ app'.turn = app.turn /\ app'.cached = app.cached
      /\ app'.view = app.view /\ app'.mode = app.mode /\ app'.resume = app.resume
      /\ app'.suppress = app.suppress /\ app'.asked = app.asked
      /\ app'.refused = app.refused /\ app'.actions = Tail(app.actions) \o q
  <2>1. CASE app.view = "Inspect"
    <3>1. app' = Push(Popped, q)
      BY <1>5, <2>1
    <3> HIDE DEF q
    <3>2. /\ Push(Popped, q) \in Apps /\ Push(Popped, q).actions = Popped.actions \o q
          /\ Push(Popped, q).turn = Popped.turn /\ Push(Popped, q).cached = Popped.cached
          /\ Push(Popped, q).view = Popped.view /\ Push(Popped, q).mode = Popped.mode
          /\ Push(Popped, q).resume = Popped.resume
          /\ Push(Popped, q).suppress = Popped.suppress
          /\ Push(Popped, q).refused = Popped.refused
          /\ Push(Popped, q).asked = Popped.asked
      BY <1>1, <1>4, PushFacts, Zenon
    <3> QED BY <3>1, <3>2, PoppedFacts, Zenon
  <2>2. CASE app.view # "Inspect"
    <3>1. app' = Popped /\ q = <<>>
      BY <1>5, <2>2
    <3> QED BY <1>4, <3>1, PoppedFacts
  <2> QED BY <2>1, <2>2
<1> HIDE DEF q
<1>7. /\ IInv' /\ InspectionsAwaited' /\ (~WillRun => ~WillRun')
      /\ UNCHANGED <<service, guest, reply>>
  BY <1>5, UnchangedFacts
<1>8. app.view = "Inspect" => \E i \in 1 .. Len(q) : q[i] = Request(Action.pane)
  BY <1>4 DEF r
<1>9. Action.act \in {"Request", "Refresh"}
  BY <1>1
<1> QED BY <1>4, <1>6, <1>7, <1>8, <1>9, PaneActionPreserves

LEMMA ProcessRequestPreserves ==
  ASSUME TuiInv, Processing, ProcessRequest, UNCHANGED <<shown, answer, unseen>>
  PROVE  TuiInv' /\ Honours
<1>1. /\ app \in Apps /\ Action \in Acts /\ Tail(app.actions) \in Seq(Acts)
      /\ Action.act = "Request" /\ Popped \in Apps /\ IInv
  BY PoppedFacts DEF TuiInv, TuiTypeOK, ProcessRequest
<1> DEFINE pane == Action.pane
<1>2. /\ pane \in InspectPanes /\ pane \in Inspections
      /\ reply \in [Inspections -> {"None", "Queued", "Answered", "Stopped"}]
  BY <1>1, TuiAssumption DEF Acts, IInv, RuntimeTypeOK
<1>3. Action.act \in {"Request", "Refresh"}
  BY <1>1
<1>4. <<>> \in Seq(Acts) /\ Quiet(<<>>) /\ Tail(app.actions) \o <<>> = Tail(app.actions)
  BY <1>1, NothingPushed
<1>5. ASSUME NEW refused \in SUBSET InspectPanes,
             app' = [Popped EXCEPT !.refused = refused]
      PROVE  /\ app' \in Apps /\ app'.turn = app.turn /\ app'.cached = app.cached
             /\ app'.view = app.view /\ app'.mode = app.mode /\ app'.resume = app.resume
             /\ app'.suppress = app.suppress /\ app'.asked = app.asked
             /\ app'.refused = refused /\ app'.actions = Tail(app.actions) \o <<>>
  <2>1. /\ app' \in Apps /\ app'.turn = Popped.turn /\ app'.cached = Popped.cached
        /\ app'.view = Popped.view /\ app'.mode = Popped.mode
        /\ app'.resume = Popped.resume /\ app'.suppress = Popped.suppress
        /\ app'.asked = Popped.asked /\ app'.refused = refused
        /\ app'.actions = Popped.actions
    BY <1>1, <1>5 DEF Apps
  <2> QED BY <1>4, <2>1, PoppedFacts
<1>6. app.refused \in SUBSET InspectPanes /\ Popped.refused = app.refused
  BY <1>1, PoppedFacts DEF Apps
<1>7. CASE reply[pane] # "None" /\ Locally(Popped)
  <2>1. UNCHANGED vars /\ app' = Popped
    BY <1>7 DEF Locally
  <2>2. app' = [Popped EXCEPT !.refused = app.refused]
    BY <1>1, <1>6, <2>1 DEF Apps
  <2>3. /\ IInv' /\ InspectionsAwaited' /\ (~WillRun => ~WillRun')
        /\ UNCHANGED <<service, guest, reply>>
    BY <2>1, UnchangedFacts
  <2>4. Alive /\ ~unseen =>
          reply[pane] = "Queued" \/ (reply[pane] = "Answered" /\ answer[pane] = guest)
    BY <1>2, <1>7 DEF TuiInv, InspectionsAwaited, AnswersFresh, Processing
  <2>5. /\ app' \in Apps /\ app'.turn = app.turn /\ app'.cached = app.cached
        /\ app'.view = app.view /\ app'.mode = app.mode /\ app'.resume = app.resume
        /\ app'.suppress = app.suppress /\ app'.asked = app.asked
        /\ app'.refused = app.refused /\ app'.actions = Tail(app.actions) \o <<>>
    BY <1>5, <1>6, <2>2
  <2> QED BY <1>3, <1>4, <2>3, <2>4, <2>5, PaneActionPreserves
<1>8. CASE RequestInspection(pane) /\ app' = [Popped EXCEPT !.refused = @ \ {pane}]
  <2>1. Client
    BY <1>2, <1>8 DEF Client
  <2>2. IInv'
    BY <1>1, <2>1, ClientPreserves
  <2>3. /\ UNCHANGED <<service, guest>> /\ (~WillRun => ~WillRun')
        /\ reply'[pane] = "Queued"
        /\ \A p \in Inspections : p # pane => reply'[p] = reply[p]
        /\ InspectionsAwaited'
    BY <1>1, <1>2, <1>8, <2>2, RequestFacts DEF TuiInv
  <2>4. \A p \in InspectPanes : p # pane => reply'[p] = reply[p]
    BY <2>3, TuiAssumption
  <2>5. app' = [Popped EXCEPT !.refused = app.refused \ {pane}]
    BY <1>1, <1>6, <1>8 DEF Apps
  <2>6. app.refused \ {pane} \in SUBSET InspectPanes
    BY <1>6
  <2>7. /\ app' \in Apps /\ app'.turn = app.turn /\ app'.cached = app.cached
        /\ app'.view = app.view /\ app'.mode = app.mode /\ app'.resume = app.resume
        /\ app'.suppress = app.suppress /\ app'.asked = app.asked
        /\ app'.refused = app.refused \ {pane}
        /\ app'.actions = Tail(app.actions) \o <<>>
    BY <1>5, <2>5, <2>6
  <2>8. \A p \in InspectPanes \ app'.refused : p # pane => p \notin app.refused
    BY <2>7
  <2> QED BY <1>3, <1>4, <2>2, <2>3, <2>4, <2>7, <2>8, PaneActionPreserves
<1>9. CASE ~Accepts /\ Locally([Popped EXCEPT !.refused = @ \cup {pane}])
  <2>1. UNCHANGED vars /\ app' = [Popped EXCEPT !.refused = app.refused \cup {pane}]
    BY <1>1, <1>6, <1>9 DEF Locally, Apps
  <2>2. /\ IInv' /\ InspectionsAwaited' /\ (~WillRun => ~WillRun')
        /\ UNCHANGED <<service, guest, reply>>
    BY <2>1, UnchangedFacts
  <2>3. app.refused \cup {pane} \in SUBSET InspectPanes
    BY <1>2, <1>6
  <2>4. /\ app' \in Apps /\ app'.turn = app.turn /\ app'.cached = app.cached
        /\ app'.view = app.view /\ app'.mode = app.mode /\ app'.resume = app.resume
        /\ app'.suppress = app.suppress /\ app'.asked = app.asked
        /\ app'.refused = app.refused \cup {pane}
        /\ app'.actions = Tail(app.actions) \o <<>>
    BY <1>5, <2>1, <2>3
  <2>5. /\ \A p \in InspectPanes \ app'.refused : p # pane => p \notin app.refused
        /\ pane \in app'.refused
    BY <2>4
  <2> QED BY <1>3, <1>4, <2>2, <2>4, <2>5, PaneActionPreserves
<1> QED BY <1>7, <1>8, <1>9 DEF ProcessRequest

LEMMA ProcessPreserves ==
  ASSUME TuiInv, Process
  PROVE  TuiInv' /\ Honours
BY ProcessModePreserves, ProcessViewPreserves, ProcessRunPreserves, ProcessLastPreserves,
   ProcessRefreshPreserves, ProcessRequestPreserves DEF Process

-----------------------------------------------------------------------------
(* The loop of the App *)

LEMMA BeginPreserves ==
  ASSUME TuiInv, Begin
  PROVE  TuiInv' /\ Honours
<1>1. app \in Apps /\ status \in Statuses /\ app.turn = "Starting" /\ app.view = "Runtime"
  BY DEF TuiInv, TuiTypeOK, IInv, RuntimeTypeOK, Begin
<1>2. /\ IInv' /\ InspectionsAwaited' /\ (WillRun' <=> WillRun)
      /\ UNCHANGED <<service, guest, reply, shown, answer, unseen>>
  BY UnchangedFacts DEF Begin
<1>3. /\ app' \in Apps /\ app'.turn \in {"Handle", "Dropping"} /\ app'.view = app.view
      /\ app'.mode = app.mode /\ app'.resume = app.resume /\ app'.suppress = app.suppress
      /\ app'.asked = app.asked /\ app'.actions = app.actions
  BY <1>1 DEF Begin, Apps
<1>4. TuiTypeOK' /\ ActionsShape' /\ BarHolds' /\ PanesHold'
  BY <1>1, <1>2, <1>3 DEF TuiInv, TuiTypeOK, ActionsShape, Quiet, BarHolds, PanesHold
<1>5. AnswersFresh'
  BY <1>1, <1>2 DEF TuiInv, AnswersFresh
<1> QED BY <1>2, <1>3, <1>4, <1>5 DEF TuiInv, Honours

LEMMA TickStatusPreserves ==
  ASSUME TuiInv, TickStatus
  PROVE  TuiInv' /\ Honours
<1>1. /\ app \in Apps /\ status \in Statuses /\ app.turn = "Handle" /\ app.actions = <<>>
  BY DEF TuiInv, TuiTypeOK, IInv, RuntimeTypeOK, TickStatus, Idle
<1>2. /\ IInv' /\ InspectionsAwaited' /\ (WillRun' <=> WillRun)
      /\ UNCHANGED <<service, guest, reply, shown, answer>>
  BY UnchangedFacts DEF TickStatus
<1> DEFINE a == [app EXCEPT !.turn = "Poll", !.cached = status]
           q == IF status # app.cached /\ status.lifecycle = "Paused"
                  THEN Refreshes ELSE <<>>
<1>3. /\ a \in Apps /\ a.actions = <<>> /\ a.turn = "Poll" /\ a.cached = status
      /\ a.view = app.view /\ a.mode = app.mode /\ a.resume = app.resume
      /\ a.suppress = app.suppress /\ a.refused = app.refused /\ a.asked = app.asked
  BY <1>1 DEF Apps
<1>4. q \in Seq(Acts) /\ Quiet(q) /\ <<>> \in Seq(Acts) /\ <<>> \o q = q
  BY RefreshesFacts DEF Quiet
<1>5. app' = Push(a, q)
  BY DEF TickStatus
<1>6. q = Refreshes \/ q = <<>>
  OBVIOUS
<1>7. status # app.cached /\ status.lifecycle = "Paused" => q = Refreshes
  OBVIOUS
<1> HIDE DEF a, q
<1>8. /\ app' \in Apps /\ app'.actions = q /\ app'.turn = "Poll" /\ app'.cached = status
      /\ app'.view = app.view /\ app'.mode = app.mode /\ app'.resume = app.resume
      /\ app'.suppress = app.suppress /\ app'.refused = app.refused
      /\ app'.asked = app.asked
  <2>1. /\ Push(a, q) \in Apps /\ Push(a, q).actions = a.actions \o q
        /\ Push(a, q).turn = a.turn /\ Push(a, q).cached = a.cached
        /\ Push(a, q).view = a.view /\ Push(a, q).mode = a.mode
        /\ Push(a, q).resume = a.resume /\ Push(a, q).suppress = a.suppress
        /\ Push(a, q).refused = a.refused /\ Push(a, q).asked = a.asked
    BY <1>3, <1>4, PushFacts, Zenon
  <2> QED BY <1>3, <1>4, <1>5, <2>1, Zenon
<1>9. TuiTypeOK' /\ ActionsShape' /\ AnswersFresh'
  BY <1>4, <1>8 DEF TuiTypeOK, ActionsShape, Quiet, AnswersFresh
<1>10. BarHolds' /\ Honours
  BY <1>1, <1>2, <1>8 DEF TuiInv, BarHolds, Honours
<1>11. PanesHold'
  <2> SUFFICES ASSUME Alive', app'.view = "Inspect", app'.cached.lifecycle = "Paused",
                      ~unseen', NEW pane \in InspectPanes \ app'.refused
               PROVE  PaneHolds(pane)'
    BY Zenon DEF PanesHold
  <2>1. CASE status # app.cached
    <3>1. app'.actions = <<>> \o Refreshes
      BY <1>4, <1>7, <1>8, <2>1
    <3>2. Due(pane)'
      <4>1. \E i \in 1 .. Len(Refreshes) : Refreshes[i] \in {Refresh(pane), Request(pane)}
        <5>1. pane \in InspectPanes
          OBVIOUS
        <5>2. PICK i \in 1 .. Len(Refreshes) : Refreshes[i] = Refresh(pane)
          BY <5>1, RefreshesFacts
        <5> QED BY <5>2
      <4> QED BY <1>4, <3>1, <4>1, RefreshesFacts, DuePushed
    <3> QED BY <3>2 DEF PaneHolds
  <2>2. CASE status = app.cached
    <3>1. ~unseen /\ Alive
      BY <1>2, <2>2 DEF TickStatus, Alive
    <3>2. PaneHolds(pane)
      BY <1>8, <2>2, <3>1 DEF TuiInv, PanesHold
    <3>3. ~Due(pane)
      BY <1>1 DEF Due
    <3> QED BY <1>2, <3>2, <3>3 DEF PaneHolds
  <2> QED BY <2>1, <2>2
<1> QED BY <1>2, <1>9, <1>10, <1>11 DEF TuiInv

LEMMA TickPollPreserves ==
  ASSUME TuiInv, TickPoll
  PROVE  TuiInv' /\ Honours
<1>1. /\ app \in Apps /\ IInv /\ Inspections = InspectPanes
      /\ reply \in [InspectPanes -> {"None", "Queued", "Answered", "Stopped"}]
  BY TuiAssumption DEF TuiInv, TuiTypeOK, IInv, RuntimeTypeOK
<1>2. /\ UNCHANGED <<service, guest, scheduled, status, queue, inbox, fed, handle, unseen>>
      /\ app' = [app EXCEPT !.turn = "Act"]
  BY DEF TickPoll, Collect
<1>3. ASSUME NEW pane \in InspectPanes
      PROVE  /\ reply'[pane] = IF reply[pane] \in {"Answered", "Stopped"} THEN "None"
                                                                         ELSE reply[pane]
             /\ shown'[pane] = IF reply[pane] = "Answered" THEN answer[pane]
                                                           ELSE shown[pane]
             /\ answer'[pane] = IF reply[pane] \in {"Answered", "Stopped"} THEN None
                                                                          ELSE answer[pane]
  BY DEF TickPoll, Collect
<1>4. reply' \in [Inspections -> {"None", "Queued", "Answered", "Stopped"}]
  BY <1>1 DEF TickPoll, Collect
<1>5. IInv'
  BY <1>1, <1>2, <1>4 DEF IInv, RuntimeTypeOK, ThreadConsistent, SavedOrReported,
     HaltedStatusExact, BreakpointKnown, DeadlineKept, InputsAhead
<1>6. WillRun' <=> WillRun
  BY <1>2 DEF WillRun, Alive
<1>7. /\ app' \in Apps /\ app'.turn = "Act" /\ app'.cached = app.cached
      /\ app'.view = app.view /\ app'.mode = app.mode /\ app'.resume = app.resume
      /\ app'.suppress = app.suppress /\ app'.refused = app.refused
      /\ app'.asked = app.asked /\ app'.actions = app.actions
  BY <1>1, <1>2 DEF Apps
<1>8. TuiTypeOK' /\ ActionsShape'
  BY <1>7 DEF TuiInv, TuiTypeOK, ActionsShape, Quiet
<1>9. BarHolds' /\ Honours
  BY <1>6, <1>7 DEF TuiInv, BarHolds, Honours
<1>10. InspectionsAwaited'
  <2>1. \A i \in 1 .. Len(queue) : queue[i].op = "Inspect" => queue[i].id \in InspectPanes
    <3>1. queue \in Seq(Commands)
      BY <1>1 DEF IInv, RuntimeTypeOK
    <3> QED BY <1>1, <3>1, CommandFields
  <2>2. \A i \in 1 .. Len(queue) : queue[i].op = "Inspect" => reply'[queue[i].id] = "Queued"
    BY <1>3, <2>1 DEF TuiInv, InspectionsAwaited
  <2>3. \A pane \in InspectPanes : reply'[pane] # "Stopped"
    BY <1>1, <1>3
  <2> QED BY <1>2, <2>2, <2>3 DEF TuiInv, InspectionsAwaited
<1>11. AnswersFresh'
  BY <1>3 DEF AnswersFresh
<1>12. PanesHold'
  <2> SUFFICES ASSUME Alive', app'.view = "Inspect", app'.cached.lifecycle = "Paused",
                      ~unseen', NEW pane \in InspectPanes \ app'.refused
               PROVE  PaneHolds(pane)'
    BY Zenon DEF PanesHold
  <2>1. PaneHolds(pane)
    BY <1>2, <1>7 DEF TuiInv, PanesHold, Alive
  <2>2. Due(pane)' <=> Due(pane)
    BY <1>7 DEF Due, Refresh, Request
  <2> QED BY <1>2, <1>3, <2>1, <2>2 DEF PaneHolds
<1> QED BY <1>5, <1>8, <1>9, <1>10, <1>11, <1>12 DEF TuiInv

LEMMA OneAction ==
  ASSUME NEW q \in Seq(Acts), Len(q) = 1
  PROVE  q # <<>> /\ Head(q) = q[1] /\ Quiet(Tail(q))
<1>1. q # <<>> /\ Head(q) = q[1]
  <2>1. ASSUME NEW S, NEW s \in Seq(S), Len(s) > 0
        PROVE  s # <<>> /\ Head(s) = s[1]
    BY <2>1
  <2>2. Len(q) > 0
    OBVIOUS
  <2> QED BY <2>1, <2>2
<1>2. Len(Tail(q)) = 0
  BY <1>1, HeadTailProperties
<1>3. ASSUME NEW t, Len(t) = 0 PROVE Quiet(t)
  BY <1>3 DEF Quiet
<1> QED BY <1>1, <1>2, <1>3

LEMMA RoutedPreserves ==
  ASSUME TuiInv, NEW q \in Seq(Acts), Routed(q),
         \/ q = <<>>
         \/ Len(q) = 1 /\ q[1].act # "Start"
         \/ Len(q) = 2 /\ q[2] = SetMode("Normal")
  PROVE  TuiInv' /\ Honours
<1>1. app \in Apps /\ app.turn = "Act" /\ app.actions = <<>>
  BY DEF TuiInv, TuiTypeOK, Routed, Idle
<1>2. /\ IInv' /\ InspectionsAwaited' /\ (WillRun' <=> WillRun)
      /\ UNCHANGED <<service, guest, reply, shown, answer, unseen>>
  BY UnchangedFacts DEF Routed
<1>3. /\ app' \in Apps /\ app'.turn = "Handle" /\ app'.cached = app.cached
      /\ app'.view = app.view /\ app'.mode = app.mode /\ app'.resume = app.resume
      /\ app'.suppress = app.suppress /\ app'.refused = app.refused
      /\ app'.asked = app.asked /\ app'.actions = q
  BY <1>1 DEF Routed, Apps
<1>4. ActionsShape'
  <2>1. CASE q = <<>>
    BY <1>3, <2>1 DEF ActionsShape, Quiet
  <2>2. CASE Len(q) = 1 /\ q[1].act # "Start"
    <3>1. q # <<>> /\ Head(q) = q[1] /\ Quiet(Tail(q))
      BY <2>2, OneAction, Zenon
    <3> QED BY <1>3, <2>2, <3>1 DEF ActionsShape
  <2>3. CASE Len(q) = 2 /\ q[2] = SetMode("Normal")
    BY <1>3, <2>3 DEF ActionsShape
  <2> QED BY <2>1, <2>2, <2>3
<1>5. TuiTypeOK'
  BY <1>3 DEF TuiTypeOK
<1>6. BarHolds' /\ Honours
  BY <1>1, <1>2, <1>3 DEF TuiInv, BarHolds, Honours
<1>7. AnswersFresh'
  BY <1>1, <1>2 DEF TuiInv, AnswersFresh
<1>8. PanesHold'
  <2> SUFFICES ASSUME Alive', app'.view = "Inspect", app'.cached.lifecycle = "Paused",
                      ~unseen', NEW pane \in InspectPanes \ app'.refused
               PROVE  PaneHolds(pane)'
    BY Zenon DEF PanesHold
  <2>1. PaneHolds(pane)
    BY <1>2, <1>3 DEF TuiInv, PanesHold, Alive
  <2>2. ~Due(pane)
    BY <1>1 DEF Due
  <2> QED BY <1>2, <2>1, <2>2 DEF PaneHolds
<1> QED BY <1>2, <1>4, <1>5, <1>6, <1>7, <1>8 DEF TuiInv

LEMMA EventPreserves ==
  ASSUME TuiInv, Event
  PROVE  TuiInv' /\ Honours
<1>1. /\ \A mode \in {"Normal", "Command"} :
           SetMode(mode) \in Acts /\ SetMode(mode).act = "SetMode"
      /\ \A view \in Views : SelectView(view) \in Acts /\ SelectView(view).act = "SelectView"
      /\ \A limit \in Limits \cup {None} : StartRun(limit) \in Acts
      /\ \A a \in {ToggleView, ToggleRun, StopRun, ResetGuest, Quit} : a \in Acts
      /\ ToggleRun.act = "ToggleRun"
  BY DEF Acts, SetMode, SelectView, StartRun, ToggleView, ToggleRun, StopRun, ResetGuest,
     Quit
<1>2. ASSUME NEW a \in Acts, a.act # "Start", Routed(<<a>>)
      PROVE  TuiInv' /\ Honours
  <2>1. <<a>> \in Seq(Acts) /\ Len(<<a>>) = 1 /\ <<a>>[1] = a
    OBVIOUS
  <2> QED BY <1>2, <2>1, RoutedPreserves
<1>3. ASSUME NEW a \in Acts, Routed(<<a, SetMode("Normal")>>)
      PROVE  TuiInv' /\ Honours
  <2> DEFINE b == SetMode("Normal")
  <2>1. b \in Acts
    BY <1>1
  <2> HIDE DEF b
  <2>2. <<a, b>> \in Seq(Acts) /\ Len(<<a, b>>) = 2 /\ <<a, b>>[2] = b
    BY <2>1
  <2>3. Routed(<<a, b>>)
    BY <1>3 DEF b
  <2>4. <<a, b>>[2] = SetMode("Normal")
    BY <2>2 DEF b
  <2> QED BY <2>2, <2>3, <2>4, RoutedPreserves
<1>4. CASE NoEvent
  <2>1. <<>> \in Seq(Acts) /\ Routed(<<>>)
    BY <1>4 DEF NoEvent
  <2> QED BY <2>1, RoutedPreserves
<1>5. CASE OpenCommand
  <2>1. SetMode("Command") \in Acts /\ SetMode("Command").act # "Start"
        /\ Routed(<<SetMode("Command")>>)
    BY <1>1, <1>5 DEF OpenCommand
  <2> QED BY <1>2, <2>1
<1>6. CASE Cancel
  <2>1. SetMode("Normal") \in Acts /\ SetMode("Normal").act # "Start"
        /\ Routed(<<SetMode("Normal")>>)
    BY <1>1, <1>6 DEF Cancel
  <2> QED BY <1>2, <2>1
<1>7. CASE Leader
  <2>1. PICK a \in {SelectView(view) : view \in Views} \cup {ToggleRun} : Routed(<<a>>)
    BY <1>7 DEF Leader
  <2>2. a \in Acts /\ a.act # "Start"
    BY <1>1, <2>1
  <2> QED BY <1>2, <2>1, <2>2
<1>8. CASE Execute
  <2>1. PICK a \in {SelectView(view) : view \in Views}
                     \cup {StartRun(limit) : limit \in Limits \cup {None}}
                     \cup {ToggleView, ToggleRun, StopRun, ResetGuest, Quit} :
               Routed(<<a, SetMode("Normal")>>)
    BY <1>8 DEF Execute
  <2>2. a \in Acts
    BY <1>1, <2>1
  <2> QED BY <1>3, <2>1, <2>2
<1>9. CASE Click
  <2>1. PICK view \in Views : Routed(<<SelectView(view)>>)
    BY <1>9 DEF Click
  <2>2. SelectView(view) \in Acts /\ SelectView(view).act # "Start"
    BY <1>1
  <2> QED BY <1>2, <2>1, <2>2
<1> QED BY <1>4, <1>5, <1>6, <1>7, <1>8, <1>9 DEF Event

LEMMA ClosePreserves ==
  ASSUME TuiInv, Close
  PROVE  TuiInv' /\ Honours
<1>1. Client /\ UNCHANGED <<app, shown, answer, unseen>>
  BY DEF Close, Client
<1>2. IInv /\ IInv'
  BY <1>1, ClientPreserves DEF TuiInv
<1>3. /\ UNCHANGED <<service, guest, reply>>
      /\ queue' = queue \/ (Alive /\ queue' = Append(queue, Shutdown))
  BY DEF Close, ShutdownCall, JoinReturns, Drop, Accepts
<1>4. InspectionsAwaited' /\ (~WillRun => ~WillRun')
  <2>1. CASE queue' = queue
    BY <1>3, <2>1 DEF TuiInv, InspectionsAwaited, WillRun, Alive
  <2>2. CASE Alive /\ queue' = Append(queue, Shutdown)
    <3>1. Shutdown \in Commands /\ Shutdown.op = "Shutdown" /\ queue' \in Seq(Commands)
      BY <1>2, CommandTypes DEF Shutdown, IInv, RuntimeTypeOK
    <3> QED BY <1>2, <1>3, <2>2, <3>1, SendFacts DEF TuiInv
  <2> QED BY <1>3, <2>1, <2>2
<1>5. TuiTypeOK' /\ ActionsShape' /\ BarHolds' /\ Honours
  BY <1>1, <1>4 DEF TuiInv, TuiTypeOK, ActionsShape, Quiet, BarHolds, Honours
<1>6. AnswersFresh'
  BY <1>1, <1>3 DEF TuiInv, AnswersFresh
<1>7. PanesHold'
  <2> SUFFICES ASSUME Alive', app'.view = "Inspect", app'.cached.lifecycle = "Paused",
                      ~unseen', NEW pane \in InspectPanes \ app'.refused
               PROVE  PaneHolds(pane)'
    BY Zenon DEF PanesHold
  <2>1. PaneHolds(pane)
    BY <1>1, <1>3 DEF TuiInv, PanesHold, Alive
  <2>2. Due(pane)' <=> Due(pane)
    BY <1>1 DEF Due, Refresh, Request
  <2> QED BY <1>1, <1>3, <2>1, <2>2 DEF PaneHolds
<1> QED BY <1>2, <1>4, <1>5, <1>6, <1>7 DEF TuiInv

-----------------------------------------------------------------------------
(* The theorems *)

LEMMA TuiStarts == TuiInit => TuiInv
<1> SUFFICES ASSUME TuiInit PROVE TuiInv
  OBVIOUS
<1>1. IInv
  BY InitHolds DEF TuiInit
<1>2. status \in Statuses
  BY <1>1 DEF IInv, RuntimeTypeOK
<1>3. TuiTypeOK
  <2>1. <<>> \in Seq(Acts)
    OBVIOUS
  <2> QED BY <1>2, <2>1 DEF TuiInit, TuiTypeOK, Apps, Views
<1>4. \A pane \in InspectPanes : reply[pane] = "None"
  BY TuiAssumption DEF TuiInit, Init
<1>5. InspectionsAwaited
  BY <1>4 DEF TuiInit, Init, InspectionsAwaited
<1>6. ActionsShape /\ BarHolds /\ AnswersFresh /\ PanesHold
  BY <1>4 DEF TuiInit, ActionsShape, Quiet, BarHolds, AnswersFresh, PanesHold
<1> QED BY <1>1, <1>3, <1>5, <1>6 DEF TuiInv

LEMMA TuiStep == TuiInv /\ [TuiNext]_tuiVars => TuiInv' /\ [Honours]_tuiVars
<1> SUFFICES ASSUME TuiInv, [TuiNext]_tuiVars PROVE TuiInv' /\ [Honours]_tuiVars
  OBVIOUS
<1>1. CASE Serve
  <2>1. Honours
    BY <1>1 DEF Serve, Honours
  <2> QED BY <1>1, <2>1, ServePreserves
<1>2. CASE UNCHANGED tuiVars
  <2>1. UNCHANGED <<vars, app, shown, answer, unseen>>
    BY <1>2 DEF tuiVars
  <2>2. /\ IInv' /\ InspectionsAwaited' /\ (WillRun' <=> WillRun)
        /\ UNCHANGED <<service, guest, reply>>
    BY <2>1, UnchangedFacts
  <2>3. TuiTypeOK' /\ ActionsShape' /\ BarHolds'
    BY <2>1, <2>2 DEF TuiInv, TuiTypeOK, ActionsShape, Quiet, BarHolds
  <2>4. AnswersFresh'
    BY <2>1, <2>2 DEF TuiInv, AnswersFresh
  <2>5. PanesHold'
    BY <2>1, <2>2 DEF TuiInv, PanesHold, PaneHolds, Alive, Due, Refresh, Request
  <2> QED BY <1>2, <2>2, <2>3, <2>4, <2>5 DEF TuiInv
<1> QED BY <1>1, <1>2, BeginPreserves, TickStatusPreserves, TickPollPreserves,
        ProcessPreserves, EventPreserves, ClosePreserves DEF TuiNext

LEMMA TuiInductive == TuiSpec => []TuiInv
BY TuiStarts, TuiStep, PTL DEF TuiSpec

\* While the bar is open over a guest the App says it has paused, the guest is paused
\* or about to be, whatever commands, panes and limits there are (App::set_mode).
THEOREM BarPauses == TuiSpec => []BarPausesGuest
<1>1. TuiInv => BarPausesGuest
  <2> SUFFICES ASSUME TuiInv, app.resume, app.actions = <<>> PROVE ~WillRun
    BY DEF BarPausesGuest
  <2>1. app.asked \in {"Nothing", "Count", "Halt", "Run"}
    BY DEF TuiInv, TuiTypeOK, Apps
  <2> QED BY <2>1 DEF TuiInv, BarHolds
<1> QED BY <1>1, TuiInductive, PTL

\* A bar that paused the guest leaves it as the user asked when it closes
\* (App::set_mode, App::select_view and the lifecycle commands).
THEOREM BarLeavesAsAsked == TuiSpec => BarHonoured
<1>1. TuiInv /\ [TuiNext]_tuiVars =>
        [app.resume /\ ~app'.resume =>
           /\ app.asked = "Halt" => ~WillRun'
           /\ app.asked \in {"Nothing", "Count"} /\ Accepts => WillRun']_tuiVars
  BY TuiStep DEF Honours
<1> QED BY <1>1, TuiInductive, PTL DEF TuiSpec, BarHonoured

\* An inspection pane of a paused guest shows the guest as it is, for any number of
\* panes (App::tick, RuntimeController::request and poll).
THEOREM PanesAreCurrent == TuiSpec => []PaneCurrent
<1>1. TuiInv => PaneCurrent
  <2> SUFFICES ASSUME TuiInv, app.view = "Inspect", Idle("Act"),
                      status.lifecycle = "Paused", app.cached.lifecycle = "Paused",
                      ~unseen, NEW pane \in InspectPanes \ app.refused,
                      reply[pane] = "None"
               PROVE  shown[pane] = guest
    BY DEF PaneCurrent
  <2>1. Alive
    BY DEF TuiInv, IInv, ThreadConsistent, Alive
  <2>2. PaneHolds(pane)
    BY <2>1 DEF TuiInv, PanesHold
  <2>3. ~Due(pane)
    BY DEF Idle, Due
  <2> QED BY <2>2, <2>3 DEF PaneHolds
<1> QED BY <1>1, TuiInductive, PTL

=============================================================================
