------------------------------ MODULE SysTick ------------------------------
(***************************************************************************)
(* The SysTick timer of minemu-core: period, one-shot or periodic mode,    *)
(* and the absolute virtual-time deadline of the next expiry.              *)
(***************************************************************************)
EXTENDS InterruptController

VARIABLE systick

ControlBits == {"ENABLE", "PERIODIC", "IRQ"}

SysTickInit == [ period     |-> 0,
                 enabled    |-> FALSE,
                 periodic   |-> FALSE,
                 irqEnabled |-> FALSE,
                 pending    |-> FALSE,
                 deadline   |-> None ]

SysTickIrq(t) == t.pending /\ t.irqEnabled

SetPeriod(t, period, now) ==
  [t EXCEPT !.period   = period,
            !.deadline = IF t.enabled THEN now + period ELSE @]

\* Mutant: disabling the timer leaves its deadline armed.
SetControlKeepingDeadline(t, bits, now) ==
  LET arm == (~t.enabled \/ t.deadline = None) /\ t.period # 0
  IN  [t EXCEPT !.enabled    = "ENABLE" \in bits,
                !.periodic   = "PERIODIC" \in bits,
                !.irqEnabled = "IRQ" \in bits,
                !.deadline   = IF "ENABLE" \in bits /\ arm
                                 THEN now + t.period ELSE @]

SetControl(t, bits, now) ==
  LET arm == (~t.enabled \/ t.deadline = None) /\ t.period # 0
  IN  [t EXCEPT !.enabled    = "ENABLE" \in bits,
                !.periodic   = "PERIODIC" \in bits,
                !.irqEnabled = "IRQ" \in bits,
                !.deadline   = CASE "ENABLE" \notin bits -> None
                                 [] "ENABLE" \in bits /\ arm -> now + t.period
                                 [] OTHER -> @]

SysTickAck(t) == [t EXCEPT !.pending = FALSE]

Expired(t, now) == t.deadline # None /\ t.deadline <= now

\* The first deadline after `now` on the grid of the current one.
NextDeadline(deadline, period, now) ==
  deadline + period * ((now - deadline) \div period + 1)

SysTickAdvanceTo(t, now) ==
  CASE ~Expired(t, now) -> t
    [] Expired(t, now) /\ t.periodic /\ t.period # 0 ->
         [t EXCEPT !.pending  = TRUE,
                   !.deadline = NextDeadline(@, t.period, now)]
    [] OTHER ->
         [t EXCEPT !.pending = TRUE, !.enabled = FALSE, !.deadline = None]

SysTickType ==
  [ period     : Nat,
    enabled    : BOOLEAN,
    periodic   : BOOLEAN,
    irqEnabled : BOOLEAN,
    pending    : BOOLEAN,
    deadline   : Nat \cup {None} ]

=============================================================================
