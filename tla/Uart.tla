-------------------------------- MODULE Uart --------------------------------
(***************************************************************************)
(* The two UARTs of minemu-core: bounded receive FIFO and transmit history *)
(* that drop their oldest byte when full, and the receive interrupt level. *)
(***************************************************************************)
EXTENDS InterruptController

CONSTANTS
  Bytes,        \* the byte values that appear on the lines
  RxCapacity,   \* bytes a receive FIFO holds (4096 in the machine)
  TxCapacity    \* bytes a transmit history holds (8192 in the machine)

\* MmioBus::new builds both ports with nonzero capacities.
ASSUME UartAssumption ==
  RxCapacity \in Nat \ {0} /\ TxCapacity \in Nat \ {0}

VARIABLE uarts   \* one record per port

Ports == {"Uart0", "Uart1"}

UartInit == [rx |-> <<>>, tx |-> <<>>, irqEnabled |-> FALSE]

UartIrq(u) == u.irqEnabled /\ u.rx # <<>>

\* Mutant: the oldest byte is dropped one byte too late.
PushBoundedLate(queue, x, capacity) ==
  IF Len(queue) > capacity
    THEN Append(Tail(queue), x)
    ELSE Append(queue, x)

\* push_back on a queue that drops its oldest element when it is full.
PushBounded(queue, x, capacity) ==
  IF Len(queue) = capacity
    THEN Append(Tail(queue), x)
    ELSE Append(queue, x)

Receive(u, byte) == [u EXCEPT !.rx = PushBounded(@, byte, RxCapacity)]

\* The byte popped is the value read; an empty FIFO reads as 0.
ReadRx(u) == IF u.rx = <<>> THEN u ELSE [u EXCEPT !.rx = Tail(@)]

WriteTx(u, byte) == [u EXCEPT !.tx = PushBounded(@, byte, TxCapacity)]

SetUartControl(u, irqEnabled) == [u EXCEPT !.irqEnabled = irqEnabled]

UartType ==
  [ rx         : {queue \in Seq(Bytes) : Len(queue) <= RxCapacity},
    tx         : {queue \in Seq(Bytes) : Len(queue) <= TxCapacity},
    irqEnabled : BOOLEAN ]

=============================================================================
