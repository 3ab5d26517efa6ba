--------------------------------- MODULE Tui ---------------------------------
(***************************************************************************)
(* The terminal UI of minemu as a client of Runtime: the App, its          *)
(* RuntimeController and the panes that show inspections.                  *)
(*                                                                         *)
(* The App decides from a copy of the status it takes once per turn of its *)
(* loop. A key becomes actions; they are processed one after another, and  *)
(* each sends at most one command, while the service thread runs freely.   *)
(* The panes of the runtime view, which poll, and what a pane is scrolled   *)
(* to are left out, as are the keys that touch neither the run nor the     *)
(* inspections (typing, help, focus, layout): a turn without an event.     *)
(***************************************************************************)
EXTENDS Runtime

CONSTANT Panes     \* the panes of the inspect view, in the order they update

Views == {"Runtime", "Inspect"}

InspectPanes == {Panes[i] : i \in DOMAIN Panes}

\* Each pane has one inspection it requests.
ASSUME TuiAssumption ==
  Panes \in Seq(Inspections) /\ Inspections = InspectPanes /\ StartPaused

VARIABLES
  app,       \* the App
  shown,     \* the guest each pane shows, or None
  answer,    \* the guest an answer not yet polled describes, or None
  unseen     \* history: the guest changed since the App last noticed a change

tuiVars == <<vars, app, shown, answer, unseen>>

\* Actions the App queues for itself.
SetMode(mode) == [act |-> "SetMode", mode |-> mode]
SelectView(view) == [act |-> "SelectView", view |-> view]
ToggleView == [act |-> "ToggleView"]
ToggleRun == [act |-> "ToggleRun"]
StartRun(limit) == [act |-> "Start", limit |-> limit]
StopRun == [act |-> "Stop"]
ResetGuest == [act |-> "Reset"]
Quit == [act |-> "Quit"]
Request(pane) == [act |-> "Request", pane |-> pane]
Refresh(pane) == [act |-> "Refresh", pane |-> pane]

Refreshes == [i \in DOMAIN Panes |-> Refresh(Panes[i])]

Push(a, actions) == [a EXCEPT !.actions = @ \o actions]

\* History: what the user asked for since the bar paused the guest; before that,
\* whether the run the bar interrupts is a bounded one.
Asked(a, what) == [a EXCEPT !.asked = IF a.resume THEN what ELSE @]

-----------------------------------------------------------------------------
(* Sending commands *)

\* One command to the runtime; a refusal is reported in the dialog.
Deliver(command, sent, refused) ==
  \/ Send(command) /\ app' = sent
  \/ ~Accepts /\ UNCHANGED vars /\ app' = refused

Locally(a) == UNCHANGED vars /\ app' = a

\* App::stop, which acts on the copy of the status.
Stop(a, then) ==
  CASE a.cached.lifecycle = "Running" ->
         Deliver(Pause, Push(a, Refreshes \o then), Push(a, then))
    [] a.cached.lifecycle = "Paused" -> Locally(Push(a, Refreshes \o then))
    [] OTHER -> Locally(Push(a, then))

\* App::start_emulation
StartEmulation(a, limit) ==
  IF a.cached.lifecycle = "Paused" \/ a.resume
    THEN Deliver(Resume(limit), a, a)
    ELSE Locally(a)

\* What the panes of a view ask for when it is selected.
Entered(view) == IF view = "Inspect" THEN Refreshes ELSE <<>>

\* Mutant: selecting inspect does not keep the bar from resuming.
SelectForgetful(a, view) ==
  LET held == IF view = "Inspect" THEN Asked(a, "Halt") ELSE a
  IN  IF a.view = view THEN Locally(held)
      ELSE IF view = "Inspect" /\ a.cached.lifecycle = "Running"
             THEN Stop([held EXCEPT !.view = view], Entered(view))
             ELSE Locally(Push([held EXCEPT !.view = view], Entered(view)))

\* App::select_view
Select(a, view) ==
  LET held == IF view = "Inspect" THEN [Asked(a, "Halt") EXCEPT !.suppress = a.resume]
              ELSE [a EXCEPT !.refused = {}]
  IN  IF a.view = view THEN Locally(held)
      ELSE IF view = "Inspect" /\ a.cached.lifecycle = "Running"
             THEN Stop([held EXCEPT !.view = view], Entered(view))
             ELSE Locally(Push([held EXCEPT !.view = view], Entered(view)))

Interrupted == IF service.remaining = None THEN "Nothing" ELSE "Count"

\* Mutant: a refused pause counts as a pause.
OpenBarUnchecked(a) ==
  LET opened == [a EXCEPT !.mode = "Command"]
      paused == [opened EXCEPT !.resume = TRUE, !.suppress = FALSE, !.asked = Interrupted]
  IN  IF a.cached.lifecycle = "Running"
        THEN Deliver(Pause, paused, paused) ELSE Locally(opened)

\* App::set_mode towards Command
OpenBar(a) ==
  LET opened == [a EXCEPT !.mode = "Command"]
      paused == [opened EXCEPT !.resume = TRUE, !.suppress = FALSE, !.asked = Interrupted]
  IN  IF a.cached.lifecycle = "Running"
        THEN Deliver(Pause, paused, opened) ELSE Locally(opened)

\* App::set_mode from Command to Normal
CloseBar(a) ==
  LET closed == [a EXCEPT !.mode = "Normal", !.resume = FALSE, !.suppress = FALSE,
                          !.asked = "Nothing"]
  IN  IF a.resume /\ ~a.suppress
        THEN Deliver(Resume(None), closed, closed)
        ELSE Locally(closed)

-----------------------------------------------------------------------------
(* Processing one action *)

Processing == app.turn \in {"Act", "Handle"} /\ app.actions # <<>>
Action == Head(app.actions)
Popped == [app EXCEPT !.actions = Tail(@)]

\* A lifecycle command keeps the bar from resuming when it closes. The flag is
\* read only then, and cleared when the bar pauses a guest: it is kept clear
\* while no bar has paused one.
Held(asked) == [Asked(Popped, asked) EXCEPT !.suppress = app.resume]

ProcessMode ==
  /\ Action.act = "SetMode"
  /\ \/ Action.mode = app.mode /\ Locally(Popped)
     \/ Action.mode # app.mode /\ Action.mode = "Command" /\ OpenBar(Popped)
     \/ Action.mode # app.mode /\ Action.mode = "Normal" /\ CloseBar(Popped)

ProcessView ==
  \/ Action.act = "SelectView" /\ Select(Popped, Action.view)
  \/ Action.act = "ToggleView"
       /\ Select(Popped, CHOOSE view \in Views : view # app.view)

ProcessRun ==
  \/ /\ Action.act = "ToggleRun"
     /\ CASE app.resume \/ app.cached.lifecycle = "Running" -> Stop(Held("Halt"), <<>>)
          [] ~app.resume /\ app.cached.lifecycle = "Paused" ->
               StartEmulation(Held("Run"), None)
          [] OTHER -> Locally(Held("Run"))
  \/ Action.act = "Start" /\ StartEmulation(Held("Run"), Action.limit)
  \/ Action.act = "Stop" /\ Stop(Held("Halt"), <<>>)

ProcessReset ==
  /\ Action.act = "Reset"
  /\ Deliver(Reset, Push(Held("Halt"), Refreshes), Held("Halt"))

ProcessQuit ==
  /\ Action.act = "Quit"
  /\ Locally([Held("Halt") EXCEPT !.quit = TRUE])

\* Only a pane of the selected view is active.
ProcessRefresh ==
  /\ Action.act = "Refresh"
  /\ Locally(IF app.view = "Inspect" THEN Push(Popped, <<Request(Action.pane)>>)
                                     ELSE Popped)

\* RuntimeController::request: one equal to a pending one is not sent again.
ProcessRequest ==
  /\ Action.act = "Request"
  /\ LET pane == Action.pane
     IN  \/ reply[pane] # "None" /\ Locally(Popped)
         \/ /\ RequestInspection(pane)
            /\ app' = [Popped EXCEPT !.refused = @ \ {pane}]
         \/ /\ reply[pane] = "None" /\ ~Accepts
            /\ Locally([Popped EXCEPT !.refused = @ \cup {pane}])

Process ==
  /\ Processing
  /\ \/ ProcessMode \/ ProcessView \/ ProcessRun \/ ProcessReset \/ ProcessQuit
     \/ ProcessRefresh \/ ProcessRequest
  /\ UNCHANGED <<shown, answer, unseen>>

\* process_actions has emptied the queue of actions.
Idle(turn) == app.turn = turn /\ app.actions = <<>>

\* The loop ends: the user quit, or tick found the runtime failed.
Ended ==
  \/ Idle("Handle") /\ app.quit
  \/ Idle("Act") /\ app.cached.lifecycle = "Failed"

-----------------------------------------------------------------------------
(* The loop *)

\* App::start waits for the runtime to pause, for about a second.
Begin ==
  /\ app.turn = "Starting"
  /\ \/ /\ status.lifecycle = "Paused"
        /\ app' = [app EXCEPT !.turn = "Handle", !.cached = status]
     \/ /\ status.lifecycle # "Paused"
        /\ app' = [app EXCEPT !.turn = "Dropping"]
  /\ UNCHANGED <<vars, shown, answer, unseen>>

\* App::tick first copies the status.
TickStatus ==
  /\ Idle("Handle") /\ ~app.quit
  /\ app' = Push([app EXCEPT !.turn = "Poll", !.cached = status],
                 IF status # app.cached /\ status.lifecycle = "Paused"
                   THEN Refreshes ELSE <<>>)
  /\ unseen' = (unseen /\ status = app.cached)
  /\ UNCHANGED <<vars, shown, answer>>

\* What a poll makes of the requests in `polled`: answers go to their panes.
Collect(polled) ==
  LET finished == {pane \in polled : reply[pane] \in {"Answered", "Stopped"}}
  IN  /\ shown' = [pane \in InspectPanes |->
                     IF pane \in finished /\ reply[pane] = "Answered"
                       THEN answer[pane] ELSE shown[pane]]
      /\ reply' = [pane \in InspectPanes |->
                     IF pane \in finished THEN "None" ELSE reply[pane]]
      /\ answer' = [pane \in InspectPanes |->
                      IF pane \in finished THEN None ELSE answer[pane]]
      /\ app' = [app EXCEPT !.turn = "Act"]
      /\ UNCHANGED <<service, guest, scheduled, status, queue, inbox, fed, handle, unseen>>

\* Mutant: answers are collected when no action waits.
TickPollLate ==
  /\ app.turn = "Poll"
  /\ Collect(IF app.actions = <<>> THEN InspectPanes ELSE {})

\* then RuntimeController::poll collects what has been answered.
TickPoll ==
  /\ app.turn = "Poll"
  /\ Collect(InspectPanes)

\* A key or a click: what it becomes in the current mode (InputRouter::route).
Routed(actions) ==
  /\ Idle("Act") /\ ~Ended
  /\ app' = [app EXCEPT !.turn = "Handle", !.actions = actions]
  /\ UNCHANGED <<vars, shown, answer, unseen>>

NoEvent == Routed(<<>>)

OpenCommand == app.mode = "Normal" /\ Routed(<<SetMode("Command")>>)

Cancel == app.mode = "Command" /\ Routed(<<SetMode("Normal")>>)

\* The leader key and the key after it, as one event: the mode between them
\* touches nothing, so the turns between them are turns without an event.
Leader ==
  /\ app.mode = "Normal"
  /\ \E action \in {SelectView(view) : view \in Views} \cup {ToggleRun} :
       Routed(<<action>>)

\* Enter: a command, and the bar closes.
Execute ==
  /\ app.mode = "Command"
  /\ \E action \in {SelectView(view) : view \in Views}
                     \cup {StartRun(limit) : limit \in Limits \cup {None}}
                     \cup {ToggleView, ToggleRun, StopRun, ResetGuest, Quit} :
       Routed(<<action, SetMode("Normal")>>)

\* A tab of the header, whatever the mode.
Click == \E view \in Views : Routed(<<SelectView(view)>>)

Event == NoEvent \/ OpenCommand \/ Cancel \/ Leader \/ Execute \/ Click

\* run_tui shuts the runtime down; a failed start only drops the handle.
Close ==
  /\ \/ Ended /\ (ShutdownCall \/ JoinReturns \/ (handle = "Joined" /\ Drop))
     \/ app.turn = "Dropping" /\ Drop
  /\ UNCHANGED <<app, shown, answer, unseen>>

-----------------------------------------------------------------------------
\* A step of the service; an inspection it answers describes the guest.
Serve ==
  /\ Service
  /\ answer' = [pane \in InspectPanes |->
                  IF reply[pane] = "Queued" /\ reply'[pane] = "Answered"
                    THEN guest ELSE answer[pane]]
  /\ unseen' = (unseen \/ guest' # guest)
  /\ UNCHANGED <<app, shown>>

TuiInit ==
  /\ Init
  /\ app = [ turn |-> "Starting", cached |-> status, actions |-> <<>>,
             view |-> "Runtime", mode |-> "Normal",
             resume |-> FALSE, suppress |-> FALSE, quit |-> FALSE,
             refused |-> {}, asked |-> "Nothing" ]
  /\ shown = [pane \in InspectPanes |-> None]
  /\ answer = [pane \in InspectPanes |-> None]
  /\ unseen = FALSE

TuiNext ==
  Serve \/ Begin \/ TickStatus \/ TickPoll \/ Process \/ Event \/ Close

TuiSpec == TuiInit /\ [][TuiNext]_tuiVars

-----------------------------------------------------------------------------
(* Properties *)

\* The guest will run once the service has received what is queued.
WillRun ==
  LET last == {i \in DOMAIN queue : queue[i].op \in {"Pause", "Resume"}}
  IN  /\ Alive
      /\ IF last = {} THEN service.lifecycle = "Running"
                      ELSE queue[Max(last)].op = "Resume"

\* While the command bar is open over a guest the App says it has paused, the
\* guest is paused or about to be, whatever it does by itself and however old
\* the App's copy of the status is (set_mode, "Opening the command bar
\* temporarily pauses a running guest").
BarPausesGuest == app.resume /\ app.actions = <<>> => ~WillRun

\* A bar that paused the guest leaves it as the user asked when it closes: paused
\* after stop, reset, toggling and selecting inspect, by command or by click, and
\* running after a cancel or a command that leaves the run alone, unless the
\* runtime refuses the resume ("Cancelling or executing a non-lifecycle command
\* resumes it. Stop, reset, and selecting inspect leave it paused").
BarHonoured ==
  [][app.resume /\ ~app'.resume =>
       /\ app.asked = "Halt" => ~WillRun'
       /\ app.asked \in {"Nothing", "Count"} /\ Accepts => WillRun']_tuiVars

\* An inspection pane of a paused guest shows the guest as it is once its requests
\* are answered: no answer from before a step
\* or a reset stays on the screen because a newer equal request was not sent
\* (request, poll and the order of tick). A refused request is in the dialog.
PaneCurrent ==
  app.view = "Inspect" /\ Idle("Act")
    /\ status.lifecycle = "Paused" /\ app.cached.lifecycle = "Paused" /\ ~unseen =>
      \A pane \in InspectPanes \ app.refused :
        reply[pane] = "None" => shown[pane] = guest

\* A bounded run stays bounded when the command bar is opened and closed over it
\* (":start [COUNT]": "execute COUNT instructions and pause"; "Opening the command
\* bar temporarily pauses a running guest. Cancelling ... resumes it"). The code does
\* not satisfy it: README, section 5.
CancelKeepsLimit ==
  [][app.resume /\ ~app'.resume /\ app.asked = "Count" /\ queue' # queue =>
       queue'[Len(queue')].limit # None]_tuiVars

=============================================================================
