------------------------ MODULE InterruptController ------------------------
(***************************************************************************)
(* The interrupt controller of minemu-core: level signals queued by the    *)
(* devices on an unbounded channel, the PENDING bitmap they are drained    *)
(* into, ENABLE, the four priorities and the claim retained until EOI.     *)
(***************************************************************************)
EXTENDS Integers, Sequences

CONSTANT None                    \* "no value": Rust's Option::None

Sources == {"SysTick", "Uart0", "Uart1", "Block"}

SourceId == [SysTick |-> 0, Uart0 |-> 1, Uart1 |-> 2, Block |-> 3]

DefaultPriority == [SysTick |-> 0, Uart0 |-> 64, Uart1 |-> 64, Block |-> 128]

PriorityValues == 0 .. 255       \* a priority register holds one byte

ASSUME NoneAssumption == None \notin Int /\ None \notin Sources

VARIABLES
  intc,      \* [pending, enabled : sets of sources, priority, claim]
  channel    \* level signals sent and not yet received

Signals == [source : Sources, pending : BOOLEAN]

Signal(s, level) == [source |-> s, pending |-> level]

IntcInit == [ pending  |-> {},
              enabled  |-> {},
              priority |-> DefaultPriority,
              claim    |-> None ]

\* Mutant: signals that lower a level are lost.
DrainedWithoutLowering(pending, msgs) ==
  pending \cup { s \in Sources :
                   \E i \in 1 .. Len(msgs) : msgs[i] = Signal(s, TRUE) }

(***************************************************************************)
(* Receiving every queued signal in order leaves each source at the level  *)
(* of its last signal, and a source with no signal where it was.           *)
(***************************************************************************)
Drained(pending, msgs) ==
  { s \in Sources :
      \/ /\ s \in pending
         /\ \A i \in 1 .. Len(msgs) : msgs[i].source # s
      \/ \E i \in 1 .. Len(msgs) :
           /\ msgs[i] = Signal(s, TRUE)
           /\ \A j \in (i + 1) .. Len(msgs) : msgs[j].source # s }

ProcessSignals(c, msgs) == [c EXCEPT !.pending = Drained(@, msgs)]

Claimable(c) == c.pending \cap c.enabled

\* Lower priority value first, then the lower source id.
Precedes(c, s, t) ==
  \/ c.priority[s] < c.priority[t]
  \/ c.priority[s] = c.priority[t] /\ SourceId[s] < SourceId[t]

\* Mutant: a claim is chosen afresh although one is retained.
ClaimAfresh(c) ==
  IF Claimable(c) # {}
    THEN [c EXCEPT !.claim =
            CHOOSE s \in Claimable(c) :
              \A t \in Claimable(c) \ {s} : Precedes(c, s, t)]
    ELSE c

Claim(c) ==
  IF c.claim = None /\ Claimable(c) # {}
    THEN [c EXCEPT !.claim =
            CHOOSE s \in Claimable(c) :
              \A t \in Claimable(c) \ {s} : Precedes(c, s, t)]
    ELSE c

SetEnabled(c, sources) == [c EXCEPT !.enabled = sources]

SetPriority(c, s, priority) == [c EXCEPT !.priority[s] = priority]

EoiAccepted(c, id) == c.claim # None /\ id = SourceId[c.claim]

Eoi(c) == [c EXCEPT !.claim = None]

IntcType ==
  [ pending  : SUBSET Sources,
    enabled  : SUBSET Sources,
    priority : [Sources -> PriorityValues],
    claim    : Sources \cup {None} ]

=============================================================================
