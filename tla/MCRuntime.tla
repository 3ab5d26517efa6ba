------------------------------ MODULE MCRuntime ------------------------------
(* Instances of Runtime for TLC. *)
EXTENDS Runtime

ScheduledNone == <<>>
ScheduledTwo == <<1, 2>>

Addresses2 == 0 .. 2
Addresses1 == 0 .. 1

=============================================================================
