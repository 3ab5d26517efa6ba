-------------------------------- MODULE Runner --------------------------------
(***************************************************************************)
(* The headless front end as a client of Runtime: `minemu test` (a manifest *)
(* with assertions) and `minemu run --headless`.                           *)
(*                                                                         *)
(* The runner starts the service with a deadline, polls until the guest no *)
(* longer runs, asks for four inspections one after another, shuts the     *)
(* service down, and only then judges what it has collected and the media  *)
(* files. The service thread steps freely in between.                      *)
(*                                                                         *)
(* What an inspection shows is represented by the program counter of the   *)
(* guest it was taken from, and so is the value a test expects of it. A    *)
(* media assertion expects what the guest left in the named region.        *)
(***************************************************************************)
EXTENDS Runtime

CONSTANTS
  Jobs,            \* command lines and manifests
  RamBase, RamSize \* physical RAM, for prefills

VARIABLES
  job,
  runner           \* [point, execution, answer, answers, shutdown, verdict]

runnerVars == <<vars, job, runner>>

\* The inspections of run_image, in order.
Order == <<"Peripherals", "Mmu", "Events", "Execution">>

\* The inspection each expectation is judged by.
Source == [ uart0_contains |-> "Peripherals", uart1_contains |-> "Peripherals",
            mmu_enabled |-> "Mmu", cpu_mode |-> "Execution",
            fault_status |-> "Mmu", trace_values |-> "Events" ]

ASSUME RunnerAssumption ==
  /\ Inspections = {Order[i] : i \in DOMAIN Order}
  /\ ~StartPaused /\ ExecutionDeadline # None /\ Limits = {}
  /\ RamBase \in Nat /\ RamSize \in Nat
  /\ None \notin {"Refused", "Aborted", "Ok", "Unmet"}
  /\ None \notin [ticks : Nat, pc : Addresses, unsaved : SUBSET Units]
  /\ \A j \in Jobs : j.kind = "Test" \/ (j.kind = "Run" /\ j.block_media = {})

-----------------------------------------------------------------------------
(* Manifests *)

\* resolve_block_media_paths: the units a host file is attached to.
Attached ==
  (IF job.media \cap {"block_media", "block0_media"} # {} THEN {0} ELSE {})
    \cup (IF "block1_media" \in job.media THEN {1} ELSE {})

\* HeadlessAssertion::has_expectations
HasExpectations ==
  \/ \E o \in DOMAIN Source : job.values[o] # None
  \/ job.empty_texts # {}
  \/ job.ticks_at_least # None
  \/ job.execution_lifecycle # None
  \/ job.shutdown_lifecycle # None
  \/ job.block_media # {}

\* PhysicalRange::new, and that the range lies in RAM.
PrefillFits(fill) ==
  /\ fill.length > 0
  /\ fill.address >= RamBase
  /\ fill.address + fill.length <= RamBase + RamSize

\* What is checked before a service is spawned: the manifest, then the image and
\* the boot ROM, then the configuration and the media paths.
Acceptable ==
  /\ job.kind = "Test" => /\ HasExpectations
                          /\ ~({"block_media", "block0_media"} \subseteq job.media)
  /\ job.image = "Valid" /\ job.boot_rom = "64KiB"
  /\ job.uarts \subseteq {0, 1}
  /\ \A fill \in job.ram_prefill : PrefillFits(fill)
  /\ ~(job.same_file /\ Attached = {0, 1})

-----------------------------------------------------------------------------
(* Steps of the runner *)

At(point) == runner.point = point
Goto(point) == runner' = [runner EXCEPT !.point = point]

Return(verdict) ==
  runner' = [runner EXCEPT !.point = "Returned", !.verdict = verdict]

\* A file cannot be read or does not parse, or the job is refused.
Refuse ==
  /\ At("Setup")
  /\ Return("Refused")
  /\ UNCHANGED vars

Spawn ==
  /\ At("Setup") /\ Acceptable
  /\ Goto("Polling")
  /\ UNCHANGED vars

\* Mutant: a service that fails is waited for.
PollUnfailing ==
  /\ At("Polling") /\ status.lifecycle \in {"Paused", "Stopped"}
  /\ Goto("Halted")
  /\ UNCHANGED vars

\* The loop around status() and sleep. Once it ends the guest is not running, so
\* that the pause and the wait_for behind it have nothing to do.
Poll ==
  /\ At("Polling") /\ status.lifecycle \in {"Paused", "Stopped", "Failed"}
  /\ Goto("Halted")
  /\ UNCHANGED vars

TakeExecutionStatus ==
  /\ At("Halted")
  /\ runner' = [runner EXCEPT !.execution = status,
                              !.point = IF status.lifecycle = "Paused" THEN "Asking"
                                                                      ELSE "Closing"]
  /\ UNCHANGED vars

\* The inspections not yet asked for, or not yet answered.
Open == {i \in DOMAIN Order : runner.answers[Order[i]] = None}
Current == Order[Min(Open)]

Ask ==
  /\ At("Asking")
  /\ RequestInspection(Current)
  /\ Goto("Receiving")

\* recv: the answer is the guest the service inspected.
Receive ==
  /\ At("Receiving") /\ reply[Current] = "Answered"
  /\ runner' = [runner EXCEPT !.answers[Current] = runner.answer,
                              !.point = IF Cardinality(Open) = 1 THEN "Closing"
                                                                 ELSE "Asking"]
  /\ UNCHANGED vars

\* The inspection failed, or was refused: the handle is dropped with the error.
Abort ==
  /\ IF At("Asking") THEN ~Accepts
     ELSE At("Receiving") /\ reply[Current] \in {"Answered", "Stopped"}
  /\ Drop
  /\ Return("Aborted")

Close ==
  /\ At("Closing")
  /\ ShutdownCall
  /\ Goto("Joining")

TakeShutdownStatus ==
  /\ At("Joining")
  /\ JoinReturns
  /\ runner' = [runner EXCEPT !.shutdown = status, !.point = "Collected"]

\* run_image returns its result and drops the handle.
Collect ==
  /\ At("Collected")
  /\ Drop
  /\ Goto("Judging")

-----------------------------------------------------------------------------
(* The verdict *)

RuntimeFailed ==
  "Failed" \in {runner.execution.lifecycle, runner.shutdown.lifecycle}

\* An expected text that is empty is part of every output, and needs no answer.
Holds(o) ==
  LET answer == runner.answers[Source[o]]
  IN  job.values[o] # None => answer # None /\ answer.pc = job.values[o]

\* Mutant: only the status before the shutdown is looked at.
ResultHoldsEarly ==
  /\ runner.execution.lifecycle # "Failed"
  /\ \A o \in DOMAIN Source : Holds(o)
  /\ job.ticks_at_least # None => runner.execution.ticks >= job.ticks_at_least
  /\ job.execution_lifecycle \in {None, runner.execution.lifecycle}
  /\ job.shutdown_lifecycle \in {None, runner.shutdown.lifecycle}

\* assert_result, for a test; run --headless looks at the two statuses only.
ResultHolds ==
  /\ ~RuntimeFailed
  /\ job.kind = "Test" =>
       /\ \A o \in DOMAIN Source : Holds(o)
       /\ job.ticks_at_least # None => runner.execution.ticks >= job.ticks_at_least
       /\ job.execution_lifecycle \in {None, runner.execution.lifecycle}
       /\ job.shutdown_lifecycle \in {None, runner.shutdown.lifecycle}

AssertResult ==
  /\ At("Judging")
  /\ IF ResultHolds THEN Goto("Media") ELSE Return("Unmet")
  /\ UNCHANGED vars

\* A region of an attached file that holds what the device holds.
MediaHolds(assertion) ==
  /\ assertion.unit \in Attached
  /\ assertion.inside
  /\ assertion.unit \notin guest.unsaved

AssertBlockMedia ==
  /\ At("Media")
  /\ Return(IF \A assertion \in job.block_media : MediaHolds(assertion)
              THEN "Ok" ELSE "Unmet")
  /\ UNCHANGED vars

-----------------------------------------------------------------------------
\* A step of the service, once there is one; it inspects the guest it holds.
Serve ==
  /\ ~At("Setup") /\ runner.verdict # "Refused"
  /\ Service
  /\ guest'.unsaved \subseteq Attached
  /\ runner' = IF \E id \in Inspections : reply'[id] = "Answered" /\ reply[id] # "Answered"
                 THEN [runner EXCEPT !.answer = guest] ELSE runner
  /\ UNCHANGED job

Step ==
  /\ \/ Refuse \/ Spawn \/ Poll \/ TakeExecutionStatus \/ Ask \/ Receive \/ Abort
     \/ Close \/ TakeShutdownStatus \/ Collect \/ AssertResult \/ AssertBlockMedia
  /\ UNCHANGED job

RunnerInit ==
  /\ Init
  /\ job \in Jobs
  /\ runner = [ point |-> "Setup", execution |-> None, answer |-> None,
                answers |-> [id \in Inspections |-> None],
                shutdown |-> None, verdict |-> None ]

RunnerNext == Serve \/ Step

\* Both threads are scheduled by the operating system.
RunnerSpec ==
  RunnerInit /\ [][RunnerNext]_runnerVars
    /\ WF_runnerVars(Serve) /\ WF_runnerVars(Step)

-----------------------------------------------------------------------------
(* Properties *)

\* What a test expects is true of the guest as the run left it and of the files.
TrueOfGuest ==
  /\ status.lifecycle = "Stopped" /\ guest.unsaved = {}
  /\ job.kind = "Test" =>
       /\ \A o \in DOMAIN Source : job.values[o] \in {None, guest.pc}
       /\ job.ticks_at_least # None => guest.ticks >= job.ticks_at_least
       /\ job.execution_lifecycle \in {None, "Paused"}
       /\ job.shutdown_lifecycle \in {None, "Stopped"}
       /\ \A assertion \in job.block_media :
            assertion.inside /\ assertion.unit \in Attached

\* A job that was run to its end succeeds exactly when what it expects is true of
\* the guest the run ended with and of files that hold all the guest wrote: the
\* four inspections describe one guest, which runs no further, and neither a
\* failure of the service, before or after the shutdown, nor a lost write-back is
\* reported as success ("A persistent error that makes the final lifecycle `failed`
\* fails the test automatically"; assert_result, assert_block_media, execute).
VerdictExact ==
  runner.verdict \in {"Ok", "Unmet"} => (runner.verdict = "Ok" <=> TrueOfGuest)

\* The runner returns and the service ends, whatever fails on the way, unless the
\* guest runs for ever without reaching its deadline: one that stands at its end
\* address executes nothing, and virtual time, all that the deadline is measured
\* in, does not pass. No other state of the service keeps the runner waiting.
RunnerReturns ==
  \/ <>(At("Returned") /\ (runner.verdict = "Refused" \/ ~Alive))
  \/ <>[](status.lifecycle = "Running" /\ guest.ticks < ExecutionDeadline)

=============================================================================
