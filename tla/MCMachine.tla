------------------------------ MODULE MCMachine ------------------------------
(* Finite instances of Machine: the values a cfg cannot write directly. *)
EXTENDS Machine

AllSources == {Sources}
ClaimEnables == {Sources, {"SysTick", "Block"}}

UartLast == {<<"Uart0", 200>>}

TimerControls ==
  {{}, {"ENABLE"}, {"ENABLE", "IRQ"}, {"ENABLE", "PERIODIC", "IRQ"}}
TimerOff == {{}}

NoMedia == [u \in {0, 1} |-> 0]
TwoUnits == [u \in {0, 1} |-> 1 + u]

NoRegisterWrites == [r \in {"lba", "count", "dma", "unit"} |-> {}]
BlockRegisterWrites ==
  [lba |-> {1}, count |-> {1, 2}, dma |-> {1}, unit |-> {1}]
FirstSector == {<<0, 1>>}

=============================================================================
