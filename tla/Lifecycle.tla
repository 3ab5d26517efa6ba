------------------------------ MODULE Lifecycle ------------------------------
(***************************************************************************)
(* What a client of the runtime may observe of its lifecycle: the service  *)
(* starts once, pauses and resumes any number of times, announces that it  *)
(* is stopping before it has stopped, and ends in Stopped or Failed.       *)
(***************************************************************************)
VARIABLE state

LifecycleState ==
  {"Starting", "Running", "Paused", "Stopping", "Stopped", "Failed"}

Final == {"Stopped", "Failed"}

Init == state = "Starting"

Start == state = "Starting" /\ state' \in {"Running", "Paused"}

Pause == state = "Running" /\ state' = "Paused"

Resume == state = "Paused" /\ state' = "Running"

Stop == state \in {"Running", "Paused"} /\ state' = "Stopping"

Finish == state = "Stopping" /\ state' = "Stopped"

Fail == state \notin Final /\ state' = "Failed"

Next == Start \/ Pause \/ Resume \/ Stop \/ Finish \/ Fail

Spec == Init /\ [][Next]_state

=============================================================================
