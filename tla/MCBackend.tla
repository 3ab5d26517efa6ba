------------------------------ MODULE MCBackend ------------------------------
(* Finite instances of Backend: the values a cfg cannot write directly. *)
EXTENDS Backend

AllSources == {Sources}
NoMedia == [u \in {0, 1} |-> 0]
NoRegisterWrites == [r \in {"lba", "count", "dma", "unit"} |-> {}]
TimerIrq == {{"ENABLE", "IRQ"}}

=============================================================================
