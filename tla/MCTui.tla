-------------------------------- MODULE MCTui --------------------------------
(* Instances of Tui for TLC. *)
EXTENDS Tui

ScheduledNone == <<>>
AddressesOne == {0}
PanesOne == <<"Primary">>

=============================================================================
