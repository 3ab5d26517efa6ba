---------------------------- MODULE MachineProofs ----------------------------
(* Invariants of Machine for every value of its constants. *)
EXTENDS Machine, SequenceTheorems, TLAPS

-----------------------------------------------------------------------------
(* Draining the signal channel *)

LEMMA DrainedType ==
  ASSUME NEW p, NEW msgs PROVE Drained(p, msgs) \in SUBSET Sources
BY DEF Drained

LEMMA DrainedEmpty ==
  ASSUME NEW p \in SUBSET Sources PROVE Drained(p, <<>>) = p
BY DEF Drained

\* Receiving two runs of signals is receiving the first, then the second.
LEMMA DrainedConcat ==
  ASSUME NEW p \in SUBSET Sources, NEW m \in Seq(Signals), NEW n \in Seq(Signals)
  PROVE  Drained(p, m \o n) = Drained(Drained(p, m), n)
<1> DEFINE c == m \o n
           Absent(s, q) == \A i \in 1 .. Len(q) : q[i].source # s
           Raised(s, q) == \E i \in 1 .. Len(q) :
                             /\ q[i] = Signal(s, TRUE)
                             /\ \A j \in (i + 1) .. Len(q) : q[j].source # s
<1>1. /\ c \in Seq(Signals) /\ Len(c) = Len(m) + Len(n)
      /\ Len(m) \in Nat /\ Len(n) \in Nat
      /\ \A i \in 1 .. Len(m) : c[i] = m[i]
      /\ \A i \in 1 .. Len(n) : c[Len(m) + i] = n[i]
  BY ConcatProperties, LenProperties
<1>2. \A i \in 1 .. Len(c) : \/ i \in 1 .. Len(m) /\ c[i] = m[i]
                             \/ i - Len(m) \in 1 .. Len(n) /\ c[i] = n[i - Len(m)]
  BY <1>1
<1> HIDE DEF c
<1>3. ASSUME NEW s \in Sources
      PROVE  Absent(s, c) <=> Absent(s, m) /\ Absent(s, n)
  <2>1. ASSUME Absent(s, c) PROVE Absent(s, m)
    BY <1>1, <2>1
  <2>2. ASSUME Absent(s, c) PROVE Absent(s, n)
    <3> SUFFICES ASSUME NEW i \in 1 .. Len(n) PROVE n[i].source # s
      OBVIOUS
    <3>1. Len(m) + i \in 1 .. Len(c) /\ c[Len(m) + i] = n[i]
      BY <1>1
    <3> QED BY <2>2, <3>1
  <2>3. ASSUME Absent(s, m), Absent(s, n) PROVE Absent(s, c)
    BY <1>2, <2>3
  <2> QED BY <2>1, <2>2, <2>3
<1>4. ASSUME NEW s \in Sources
      PROVE  Raised(s, c) <=> Raised(s, n) \/ (Raised(s, m) /\ Absent(s, n))
  <2>1. ASSUME Raised(s, n) PROVE Raised(s, c)
    <3>1. PICK i \in 1 .. Len(n) :
            /\ n[i] = Signal(s, TRUE)
            /\ \A j \in (i + 1) .. Len(n) : n[j].source # s
      BY <2>1
    <3>2. Len(m) + i \in 1 .. Len(c) /\ c[Len(m) + i] = Signal(s, TRUE)
      <4>1. Len(m) + i \in 1 .. Len(c) /\ c[Len(m) + i] = n[i]
        BY <1>1
      <4> QED BY <3>1, <4>1
    <3>3. ASSUME NEW j \in (Len(m) + i + 1) .. Len(c) PROVE c[j].source # s
      <4>1. j \in 1 .. Len(c) /\ j \notin 1 .. Len(m)
            /\ j - Len(m) \in (i + 1) .. Len(n)
        BY <1>1
      <4> QED BY <1>2, <3>1, <4>1
    <3> QED BY <3>2, <3>3
  <2>2. ASSUME Raised(s, m), Absent(s, n) PROVE Raised(s, c)
    <3>1. PICK i \in 1 .. Len(m) :
            /\ m[i] = Signal(s, TRUE)
            /\ \A j \in (i + 1) .. Len(m) : m[j].source # s
      BY <2>2
    <3>2. i \in 1 .. Len(c) /\ c[i] = Signal(s, TRUE)
      <4>1. i \in 1 .. Len(c) /\ c[i] = m[i]
        BY <1>1
      <4> QED BY <3>1, <4>1
    <3>3. ASSUME NEW j \in (i + 1) .. Len(c) PROVE c[j].source # s
      <4>1. j \in 1 .. Len(c) /\ (j \in 1 .. Len(m) => j \in (i + 1) .. Len(m))
        BY <1>1
      <4> QED BY <1>2, <2>2, <3>1, <4>1
    <3> QED BY <3>2, <3>3
  <2>3. ASSUME Raised(s, c) PROVE Raised(s, n) \/ (Raised(s, m) /\ Absent(s, n))
    <3>1. PICK i \in 1 .. Len(c) :
            /\ c[i] = Signal(s, TRUE)
            /\ \A j \in (i + 1) .. Len(c) : c[j].source # s
      BY <2>3
    <3>2. CASE i \in 1 .. Len(m)
      <4>1. ASSUME NEW j \in (i + 1) .. Len(m) PROVE m[j].source # s
        BY <1>1, <3>1, <3>2
      <4>2. ASSUME NEW j \in 1 .. Len(n) PROVE n[j].source # s
        <5>1. Len(m) + j \in (i + 1) .. Len(c) /\ c[Len(m) + j] = n[j]
          BY <1>1, <3>2
        <5> QED BY <3>1, <5>1
      <4> QED BY <1>1, <3>1, <3>2, <4>1, <4>2
    <3>3. CASE i \notin 1 .. Len(m)
      <4> DEFINE k == i - Len(m)
      <4>1. k \in 1 .. Len(n) /\ n[k] = Signal(s, TRUE)
        BY <1>2, <3>1, <3>3
      <4>2. ASSUME NEW j \in (k + 1) .. Len(n) PROVE n[j].source # s
        <5>1. Len(m) + j \in (i + 1) .. Len(c) /\ c[Len(m) + j] = n[j]
          BY <1>1, <4>1
        <5> QED BY <3>1, <5>1
      <4> QED BY <4>1, <4>2
    <3> QED BY <3>2, <3>3
  <2> QED BY <2>1, <2>2, <2>3
<1>5. ASSUME NEW s \in Sources, NEW q, NEW r
      PROVE  s \in Drained(q, r) <=> (s \in q /\ Absent(s, r)) \/ Raised(s, r)
  BY DEF Drained
<1> HIDE DEF Absent, Raised
<1>6. ASSUME NEW s \in Sources
      PROVE  s \in Drained(p, c) <=> s \in Drained(Drained(p, m), n)
  BY <1>3, <1>4, <1>5
<1>7. Drained(p, c) \subseteq Sources /\ Drained(Drained(p, m), n) \subseteq Sources
  BY DEF Drained
<1>8. Drained(p, c) = Drained(Drained(p, m), n)
  BY <1>6, <1>7
<1> QED BY <1>8 DEF c

LEMMA DrainedOne ==
  ASSUME NEW p \in SUBSET Sources, NEW s \in Sources, NEW level \in BOOLEAN
  PROVE  Drained(p, <<Signal(s, level)>>)
           = (p \ {s}) \cup (IF level THEN {s} ELSE {})
<1> DEFINE m == Signal(s, level)
           q == <<m>>
<1>1. Len(q) = 1 /\ q[1] = m
  OBVIOUS
<1>2. m.source = s
  BY DEF Signal
<1>3. ASSUME NEW r \in Sources
      PROVE  m = Signal(r, TRUE) <=> s = r /\ level
  <2>1. CASE level = TRUE
    BY <2>1 DEF Signal
  <2>2. CASE level = FALSE
    <3>1. m.pending = FALSE /\ Signal(r, TRUE).pending = TRUE
      BY <2>2 DEF Signal
    <3> QED BY <2>2, <3>1
  <2> QED BY <2>1, <2>2
<1>4. Drained(p, q) \subseteq Sources
  BY DEF Drained
<1>5. ASSUME NEW r \in Sources
      PROVE  r \in Drained(p, q) <=> (r \in p /\ m.source # r) \/ m = Signal(r, TRUE)
  <2> HIDE DEF q, m
  <2>1. 1 .. Len(q) = {1} /\ (1 + 1) .. Len(q) = {}
    BY <1>1
  <2> QED BY <1>1, <2>1 DEF Drained
<1> HIDE DEF q, m
<1>6. ASSUME NEW r \in Sources
      PROVE  r \in Drained(p, q) <=> (r \in p /\ r # s) \/ (r = s /\ level)
  BY <1>2, <1>3, <1>5
<1>7. Drained(p, q) = (p \ {s}) \cup (IF level THEN {s} ELSE {})
  BY <1>4, <1>6
<1> QED BY <1>7 DEF q, m

-----------------------------------------------------------------------------
(* Types of the device operations *)

LEMMA SignalType ==
  ASSUME NEW s \in Sources, NEW level \in BOOLEAN
  PROVE  Signal(s, level) \in Signals /\ <<Signal(s, level)>> \in Seq(Signals)
BY DEF Signal, Signals

LEMMA ProcessSignalsType ==
  ASSUME NEW c \in IntcType, NEW msgs
  PROVE  ProcessSignals(c, msgs) \in IntcType
BY DrainedType DEF ProcessSignals, IntcType

\* Ties of priority are broken by the source id, so one source goes first.
LEMMA MostUrgentExists ==
  ASSUME NEW c \in IntcType, Claimable(c) # {}
  PROVE  \E s \in Claimable(c) : \A t \in Claimable(c) \ {s} : Precedes(c, s, t)
<1>1. Claimable(c) \subseteq Sources
  BY DEF Claimable, IntcType
<1>2. c.priority \in [Sources -> Int]
  BY DEF IntcType, PriorityValues
<1>3. /\ SourceId["SysTick"] = 0 /\ SourceId["Uart0"] = 1
      /\ SourceId["Uart1"] = 2 /\ SourceId["Block"] = 3
  BY DEF SourceId
<1> QED BY <1>1, <1>2, <1>3 DEF Sources, Precedes

LEMMA ClaimType ==
  ASSUME NEW c \in IntcType PROVE Claim(c) \in IntcType
<1>1. CASE c.claim # None \/ Claimable(c) = {}
  BY <1>1 DEF Claim
<1>2. CASE Claimable(c) # {}
  <2> DEFINE Least(s) == \A t \in Claimable(c) \ {s} : Precedes(c, s, t)
  <2>1. (CHOOSE s \in Claimable(c) : Least(s)) \in Claimable(c)
    BY <1>2, MostUrgentExists
  <2>2. Claimable(c) \subseteq Sources
    BY DEF Claimable, IntcType
  <2> QED BY <2>1, <2>2 DEF Claim, IntcType
<1> QED BY <1>1, <1>2

LEMMA NextDeadlineType ==
  ASSUME NEW deadline \in Nat, NEW period \in Nat \ {0}, NEW now \in Nat,
         deadline <= now
  PROVE  NextDeadline(deadline, period, now) \in Nat
<1>1. now - deadline \in Nat
  OBVIOUS
<1>2. (now - deadline) \div period \in Nat
  BY <1>1
<1> QED BY <1>2 DEF NextDeadline

LEMMA SysTickTypes ==
  ASSUME NEW t \in SysTickType, NEW now \in Nat
  PROVE  /\ \A period \in Nat : SetPeriod(t, period, now) \in SysTickType
         /\ \A bits \in SUBSET ControlBits : SetControl(t, bits, now) \in SysTickType
         /\ SysTickAck(t) \in SysTickType
         /\ SysTickAdvanceTo(t, now) \in SysTickType
         /\ SysTickIrq(t) \in BOOLEAN
<1>1. ASSUME NEW period \in Nat
      PROVE  SetPeriod(t, period, now) \in SysTickType
  <2> DEFINE d == IF t.enabled THEN now + period ELSE t.deadline
  <2>1. d \in Nat \cup {None}
    BY DEF SysTickType
  <2>2. SetPeriod(t, period, now) = [t EXCEPT !.period = period, !.deadline = d]
    BY DEF SetPeriod, SysTickType
  <2> HIDE DEF d
  <2> QED BY <2>1, <2>2 DEF SysTickType
<1>2. ASSUME NEW bits \in SUBSET ControlBits
      PROVE  SetControl(t, bits, now) \in SysTickType
  <2> DEFINE arm == (~t.enabled \/ t.deadline = None) /\ t.period # 0
             d == CASE "ENABLE" \notin bits -> None
                    [] "ENABLE" \in bits /\ arm -> now + t.period
                    [] OTHER -> t.deadline
             e == "ENABLE" \in bits
             p == "PERIODIC" \in bits
             i == "IRQ" \in bits
  <2>1. d \in Nat \cup {None}
    BY DEF SysTickType
  <2>2. e \in BOOLEAN /\ p \in BOOLEAN /\ i \in BOOLEAN
    OBVIOUS
  <2>3. SetControl(t, bits, now) =
          [t EXCEPT !.enabled = e, !.periodic = p, !.irqEnabled = i, !.deadline = d]
    BY Zenon DEF SetControl
  <2> HIDE DEF d, e, p, i
  <2> QED BY <2>1, <2>2, <2>3 DEF SysTickType
<1>3. SysTickAck(t) \in SysTickType /\ SysTickIrq(t) \in BOOLEAN
  BY DEF SysTickType, SysTickAck, SysTickIrq
<1>4. SysTickAdvanceTo(t, now) \in SysTickType
  <2>1. CASE ~Expired(t, now)
    BY <2>1 DEF SysTickAdvanceTo
  <2>2. CASE Expired(t, now) /\ t.periodic /\ t.period # 0
    <3>1. NextDeadline(t.deadline, t.period, now) \in Nat
      BY <2>2, NextDeadlineType DEF Expired, SysTickType
    <3> QED BY <2>2, <3>1 DEF SysTickAdvanceTo, SysTickType
  <2>3. CASE Expired(t, now) /\ ~(t.periodic /\ t.period # 0)
    BY <2>3 DEF SysTickAdvanceTo, SysTickType
  <2> QED BY <2>1, <2>2, <2>3
<1> QED BY <1>1, <1>2, <1>3, <1>4

LEMMA UartByteTypes ==
  ASSUME NEW u \in UartType, NEW byte \in Bytes
  PROVE  Receive(u, byte) \in UartType /\ WriteTx(u, byte) \in UartType
<1>1. ASSUME NEW capacity \in Nat \ {0}, NEW q \in Seq(Bytes), Len(q) <= capacity
      PROVE  /\ PushBounded(q, byte, capacity) \in Seq(Bytes)
             /\ Len(PushBounded(q, byte, capacity)) <= capacity
  <2>1. CASE Len(q) = capacity
    <3>1. Tail(q) \in Seq(Bytes) /\ Len(Tail(q)) = Len(q) - 1
      BY <1>1, <2>1
    <3> QED BY <2>1, <3>1 DEF PushBounded
  <2>2. CASE Len(q) # capacity
    BY <1>1, <2>2 DEF PushBounded
  <2> QED BY <2>1, <2>2
<1>2. Receive(u, byte) \in UartType
  BY <1>1, UartAssumption DEF Receive, UartType
<1>3. WriteTx(u, byte) \in UartType
  BY <1>1, UartAssumption DEF WriteTx, UartType
<1> QED BY <1>2, <1>3

LEMMA UartTypes ==
  ASSUME NEW u \in UartType
  PROVE  /\ ReadRx(u) \in UartType
         /\ \A b \in BOOLEAN : SetUartControl(u, b) \in UartType
         /\ UartIrq(u) \in BOOLEAN
<1>1. ReadRx(u) \in UartType
  <2>1. CASE u.rx = <<>>
    BY <2>1 DEF ReadRx
  <2>2. CASE u.rx # <<>>
    <3>1. /\ u.rx \in Seq(Bytes) /\ Len(u.rx) <= RxCapacity
          /\ Tail(u.rx) \in Seq(Bytes) /\ Len(Tail(u.rx)) = Len(u.rx) - 1
      BY <2>2 DEF UartType
    <3>2. Len(Tail(u.rx)) <= RxCapacity
      BY <3>1, UartAssumption
    <3> QED BY <2>2, <3>1, <3>2 DEF ReadRx, UartType
  <2> QED BY <2>1, <2>2
<1>2. \A b \in BOOLEAN : SetUartControl(u, b) \in UartType
  BY DEF SetUartControl, UartType
<1>3. UartIrq(u) \in BOOLEAN
  BY DEF UartIrq, UartType
<1> QED BY <1>1, <1>2, <1>3

LEMMA BlockRegisterTypes ==
  ASSUME NEW b \in BlockType, NEW now \in Nat
  PROVE  /\ \A v \in Nat : SetLba(b, v) \in BlockType
         /\ \A v \in Nat : SetSectorCount(b, v) \in BlockType
         /\ \A v \in Int : SetDmaAddress(b, v) \in BlockType
         /\ \A v \in Nat : SetUnit(b, v) \in BlockType
         /\ \A v \in BOOLEAN : SetBlockControl(b, v) \in BlockType
         /\ BlockAck(b) \in BlockType
         /\ FlushFailed(b) \in BlockType
         /\ BlockIrq(b) \in BOOLEAN
BY DEF BlockType, SetLba, SetSectorCount, SetDmaAddress, SetUnit,
       SetBlockControl, BlockAck, FlushFailed, BlockIrq, BlockErrors

LEMMA CommandType ==
  ASSUME NEW b \in BlockType, NEW now \in Nat, NEW command \in Nat
  PROVE  Command(b, command, now) \in BlockType
<1>1. Request(b, command, now) \in Requests
  BY BlockAssumption DEF Request, Requests, BlockType
<1>2. CASE b.active # None
  BY <1>2 DEF Command, BlockType, BlockErrors
<1>3. CASE b.active = None
  BY <1>1, <1>3 DEF Command, BlockType, BlockErrors
<1> QED BY <1>2, <1>3

LEMMA CompletedType ==
  ASSUME NEW b \in BlockType PROVE Completed(b) \in BlockType
<1>1. Outcome(b.active) \in BlockErrors
  BY DEF Outcome, BlockErrors
<1> QED BY <1>1 DEF Completed, BlockType

Media == [Units -> UNION {Images(u) : u \in Units}]

MediaType(m) == m \in Media /\ \A u \in Units : m[u] \in Images(u)

LEMMA RamAfterType ==
  ASSUME NEW r \in Requests, NEW m, MediaType(m),
         NEW mem \in [RamAddresses -> SectorValues]
  PROVE  RamAfter(r, m, mem) \in [RamAddresses -> SectorValues]
<1>1. CASE ~Reads(r)
  BY <1>1 DEF RamAfter
<1>2. CASE Reads(r)
  <2>1. /\ r.unit \in Units /\ r.lba + r.count <= MediaSectors[r.unit]
        /\ r.lba \in Nat /\ r.count \in Nat /\ r.dma \in Int
        /\ MediaSectors[r.unit] \in Nat
    BY <1>2, BlockAssumption DEF Reads, Outcome, Requests
  <2>2. ASSUME NEW a \in RamAddresses, a \in r.dma .. (r.dma + r.count - 1)
        PROVE  m[r.unit][r.lba + (a - r.dma)] \in SectorValues
    <3>1. r.lba + (a - r.dma) \in Lbas(r.unit)
      BY <2>1, <2>2 DEF Lbas
    <3> QED BY <2>1, <3>1 DEF MediaType, Images
  <2> QED BY <1>2, <2>2 DEF RamAfter
<1> QED BY <1>1, <1>2

LEMMA MediaAfterType ==
  ASSUME NEW r \in Requests, NEW m, MediaType(m),
         NEW mem \in [RamAddresses -> SectorValues]
  PROVE  MediaType(MediaAfter(r, m, mem))
<1>1. CASE ~Writes(r)
  BY <1>1 DEF MediaAfter
<1>2. CASE Writes(r)
  <2> DEFINE image == [lba \in Lbas(r.unit) |->
               IF lba \in Sectors(r) THEN mem[r.dma + (lba - r.lba)]
                                     ELSE m[r.unit][lba]]
  <2>1. /\ r.unit \in Units /\ r.dma \in RamAddresses
        /\ r.dma + r.count <= RamSectors
        /\ r.lba \in Nat /\ r.count \in Nat /\ r.dma \in Int /\ RamSectors \in Nat
    BY <1>2, BlockAssumption
    DEF Writes, Outcome, DmaOutsideRam, Requests, RamAddresses
  <2>2. ASSUME NEW lba \in Lbas(r.unit), lba \in Sectors(r)
        PROVE  mem[r.dma + (lba - r.lba)] \in SectorValues
    <3>1. r.dma + (lba - r.lba) \in RamAddresses
      BY <2>1, <2>2 DEF RamAddresses, Sectors
    <3> QED BY <3>1
  <2>3. image \in Images(r.unit)
    BY <2>1, <2>2 DEF MediaType, Images
  <2>4. MediaAfter(r, m, mem) = [m EXCEPT ![r.unit] = image]
    BY <1>2, <2>1 DEF MediaAfter, MediaType, Media
  <2> HIDE DEF image
  <2> QED BY <2>1, <2>3, <2>4 DEF MediaType, Media
<1> QED BY <1>1, <1>2

LEMMA DirtyAfterType ==
  ASSUME NEW r \in Requests, NEW d \in [Units -> SUBSET Nat]
  PROVE  DirtyAfter(r, d) \in [Units -> SUBSET Nat]
<1>1. Sectors(r) \in SUBSET Nat
  BY DEF Sectors, Requests
<1> QED BY <1>1 DEF DirtyAfter

-----------------------------------------------------------------------------
(* Type correctness *)

LEMMA BusType ==
  ASSUME TypeOK, NEW c \in IntcType, NEW sent, Bus(c, sent)
  PROVE  intc' \in IntcType /\ channel' \in Seq(Signals)
BY ProcessSignalsType DEF Bus

LEMMA QueueType ==
  ASSUME TypeOK, NEW sent \in Seq(Signals), Queue(sent)
  PROVE  intc' \in IntcType /\ channel' \in Seq(Signals)
BY DEF Queue, TypeOK

LEMMA AttachSignalsType ==
  ASSUME NEW n \in Nat PROVE AttachSignals(n) \in Seq(Signals)
<1>1. Signal("Block", FALSE) \in Signals
  BY SignalType DEF Sources
<1>2. AttachSignals(n) \in [1 .. n -> Signals]
  BY <1>1 DEF AttachSignals
<1> QED BY <1>2, SeqDef

LEMMA KeepLastType ==
  ASSUME NEW S, NEW q \in Seq(S), NEW capacity \in Nat \ {0}
  PROVE  KeepLast(q, capacity) \in Seq(S)
<1>1. CASE Len(q) <= capacity
  BY <1>1 DEF KeepLast
<1>2. CASE Len(q) > capacity
  <2>1. \A i \in Len(q) - capacity + 1 .. Len(q) : q[i] \in S
    BY <1>2
  <2>2. SubSeq(q, Len(q) - capacity + 1, Len(q)) \in Seq(S)
    BY <2>1, SubSeqProperties, LenProperties
  <2> QED BY <1>2, <2>2 DEF KeepLast
<1> QED BY <1>1, <1>2

LEMMA InitType == Init => TypeOK
<1> SUFFICES ASSUME Init PROVE TypeOK
  OBVIOUS
<1>1. intc \in IntcType
  BY DEF Init, IntcInit, IntcType, DefaultPriority, PriorityValues, Sources
<1>2. channel \in Seq(Signals)
  BY AttachSignalsType DEF Init, AttachedCount
<1>3. systick \in SysTickType
  BY DEF Init, SysTickInit, SysTickType
<1>4. uarts \in [Ports -> UartType]
  BY UartAssumption DEF Init, UartInit, UartType
<1>5. block \in BlockType
  BY DEF Init, BlockInit, BlockType, BlockErrors
<1>6. media \in Media /\ \A u \in Units : media[u] \in Images(u)
  BY BlockAssumption DEF Init, Media, Images, BlankImage
<1>7. dirty \in [Units -> SUBSET Nat] /\ ram \in [RamAddresses -> SectorValues]
  BY BlockAssumption DEF Init
<1>8. ticks \in Nat /\ staged = <<>> /\ trace = <<>> /\ events = <<>>
  BY DEF Init
<1> QED BY <1>1, <1>2, <1>3, <1>4, <1>5, <1>6, <1>7, <1>8 DEF TypeOK, Media, Init

LEMMA LevelType ==
  ASSUME TypeOK, NEW s \in Sources PROVE Level(s) \in BOOLEAN
<1>1. SysTickIrq(systick) \in BOOLEAN
  BY DEF TypeOK, SysTickIrq, SysTickType
<1>2. \A p \in Ports : UartIrq(uarts[p]) \in BOOLEAN
  BY UartTypes DEF TypeOK
<1>3. BlockIrq(block) \in BOOLEAN
  BY DEF TypeOK, BlockIrq, BlockType
<1> QED BY <1>1, <1>2, <1>3 DEF Level, Sources, Ports

LEMMA RetiredType ==
  ASSUME TypeOK, NEW tick \in Nat
  PROVE  /\ Retired(tick) \in Seq([tick : Nat, value : TraceValues])
         /\ Retired(tick) \in Seq(LogEntries)
<1>1. Len(staged) \in Nat /\ \A i \in 1 .. Len(staged) : staged[i] \in TraceValues
  BY DEF TypeOK
<1>2. Retired(tick) \in [1 .. Len(staged) -> [tick : Nat, value : TraceValues]]
  BY <1>1 DEF Retired, TraceEvent
<1>3. Retired(tick) \in [1 .. Len(staged) -> LogEntries]
  BY <1>2 DEF LogEntries
<1> QED BY <1>1, <1>2, <1>3, SeqDef

LEMMA AdvanceTicksType ==
  ASSUME TypeOK, NEW recorded \in Seq(LogEntries), AdvanceTicks(recorded)
  PROVE  TypeOK'
<1> DEFINE now == ticks + 1
           due == Due(block, now)
<1>1. now \in Nat /\ ticks' = now
  BY DEF TypeOK, AdvanceTicks
<1>2. systick' \in SysTickType
  BY <1>1, SysTickTypes DEF TypeOK, AdvanceTicks
<1>3. intc' \in IntcType /\ channel' \in Seq(Signals)
  BY ProcessSignalsType DEF AdvanceTicks, Bus, TypeOK
<1>4. due => block.active \in Requests
  BY DEF Due, TypeOK, BlockType
<1>5. block' \in BlockType
  BY CompletedType DEF AdvanceTicks, TypeOK
<1>6. MediaType(media)
  BY DEF MediaType, Media, TypeOK
<1>7. ram' \in [RamAddresses -> SectorValues]
  BY <1>4, <1>6, RamAfterType DEF AdvanceTicks, TypeOK
<1>8. MediaType(media')
  BY <1>4, <1>6, MediaAfterType DEF AdvanceTicks, TypeOK
<1>9. dirty' \in [Units -> SUBSET Nat]
  BY <1>4, DirtyAfterType DEF AdvanceTicks, TypeOK
<1>10. staged' \in Seq(TraceValues) /\ uarts' = uarts /\ file' = file
  BY DEF AdvanceTicks
<1>11. trace' \in Seq([tick : Nat, value : TraceValues])
  <2>1. trace \o Retired(now) \in Seq([tick : Nat, value : TraceValues])
    BY <1>1, RetiredType, ConcatProperties DEF TypeOK
  <2> QED BY <2>1, KeepLastType, MachineAssumption DEF AdvanceTicks
<1>12. events' \in Seq(LogEntries)
  <2>1. events \o Retired(now) \o recorded \in Seq(LogEntries)
    BY <1>1, RetiredType, ConcatProperties DEF TypeOK
  <2> QED BY <2>1, KeepLastType, MachineAssumption DEF AdvanceTicks
<1> QED BY <1>1, <1>2, <1>3, <1>5, <1>7, <1>8, <1>9, <1>10, <1>11, <1>12
    DEF TypeOK, MediaType, Media

LEMMA SysTickUpdateType ==
  ASSUME TypeOK, NEW t \in SysTickType, SysTickUpdate(t) PROVE TypeOK'
<1>1. intc' \in IntcType /\ channel' \in Seq(Signals)
  BY ProcessSignalsType DEF SysTickUpdate, Bus, TypeOK
<1> QED BY <1>1 DEF SysTickUpdate, TypeOK, blockVars, logVars

LEMMA BlockUpdateType ==
  ASSUME TypeOK, NEW b \in BlockType, BlockUpdate(b) PROVE TypeOK'
<1>1. intc' \in IntcType /\ channel' \in Seq(Signals)
  BY ProcessSignalsType DEF BlockUpdate, Bus, TypeOK
<1> QED BY <1>1 DEF BlockUpdate, TypeOK, logVars

\* A bus access that changes the controller only.
LEMMA IntcAccessType ==
  ASSUME TypeOK, NEW c \in IntcType, Bus(c, <<>>),
         UNCHANGED <<systick, uarts, blockVars, ticks, logVars>>
  PROVE  TypeOK'
<1>1. intc' \in IntcType /\ channel' \in Seq(Signals)
  BY ProcessSignalsType DEF Bus
<1> QED BY <1>1 DEF TypeOK, blockVars, logVars

LEMMA UartAccessType ==
  ASSUME TypeOK, NEW p \in Ports, NEW u \in UartType,
         uarts' = [uarts EXCEPT ![p] = u],
         intc' \in IntcType, channel' \in Seq(Signals),
         UNCHANGED <<systick, blockVars, ticks, logVars>>
  PROVE  TypeOK'
BY DEF TypeOK, blockVars, logVars

LEMMA SaveType ==
  ASSUME TypeOK, NEW u \in Units, Flush(u) PROVE TypeOK'
<1>1. /\ media' = media /\ ram' = ram /\ systick' = systick /\ uarts' = uarts
      /\ ticks' = ticks /\ staged' = staged /\ trace' = trace /\ events' = events
  BY DEF Flush, logVars
<1>2. PICK image \in Images(u) \cup {None} : file' = [file EXCEPT ![u] = image]
  BY DEF Flush, TypeOK
<1>3. dirty' \in [Units -> SUBSET Nat]
  BY DEF Flush, TypeOK
<1>4. /\ block' \in BlockType
      /\ intc' \in IntcType /\ channel' \in Seq(Signals)
  <2>1. CASE UNCHANGED <<block, intcVars>>
    BY <2>1 DEF TypeOK, intcVars
  <2>2. CASE /\ block' = FlushFailed(block)
             /\ Queue(<<Signal("Block", BlockIrq(FlushFailed(block)))>>)
    <3>1. FlushFailed(block) \in BlockType /\ BlockIrq(FlushFailed(block)) \in BOOLEAN
      BY BlockRegisterTypes DEF TypeOK
    <3>2. <<Signal("Block", BlockIrq(FlushFailed(block)))>> \in Seq(Signals)
      BY <3>1, SignalType DEF Sources
    <3> QED BY <2>2, <3>1, <3>2, QueueType
  <2> QED BY <2>1, <2>2 DEF Flush
<1>5. /\ file' \in [Units -> (UNION {Images(v) : v \in Units}) \cup {None}]
      /\ \A v \in Units : file'[v] \in Images(v) \cup {None}
  <2>1. image \in (UNION {Images(v) : v \in Units}) \cup {None}
    BY <1>2
  <2> DEFINE S == (UNION {Images(v) : v \in Units}) \cup {None}
  <2>2. file' \in [Units -> S]
    <3>1. file \in [Units -> S] /\ image \in S
      BY <2>1 DEF TypeOK
    <3> HIDE DEF S
    <3> QED BY <1>2, <3>1
  <2>3. ASSUME NEW v \in Units PROVE file'[v] \in Images(v) \cup {None}
    BY <1>2 DEF TypeOK
  <2> QED BY <2>2, <2>3
<1> QED BY <1>1, <1>3, <1>4, <1>5 DEF TypeOK

LEMMA ResetType ==
  ASSUME TypeOK, UnsavedIsDirty, Reset PROVE TypeOK'
<1>1. intc' \in IntcType
  BY DEF Reset, IntcInit, IntcType, DefaultPriority, PriorityValues, Sources
<1>2. channel' \in Seq(Signals)
  BY AttachSignalsType DEF Reset, AttachedCount
<1>3. systick' \in SysTickType
  BY DEF Reset, SysTickInit, SysTickType
<1>4. uarts' \in [Ports -> UartType]
  BY UartAssumption DEF Reset, UartInit, UartType
<1>5. block' \in BlockType
  BY DEF Reset, BlockInit, BlockType, BlockErrors
<1>6. media' = media
  <2>1. \A u \in Units : Attached(u) => file[u] = media[u]
    BY DEF Reset, UnsavedIsDirty
  <2> QED BY <2>1 DEF Reset, TypeOK
<1>7. ram' \in [RamAddresses -> SectorValues]
  BY BlockAssumption DEF Reset
<1>8. /\ ticks' = 0 /\ staged' = <<>> /\ trace' = <<>> /\ events' = <<>>
      /\ dirty' = dirty /\ file' = file
  BY DEF Reset
<1> QED BY <1>1, <1>2, <1>3, <1>4, <1>5, <1>6, <1>7, <1>8 DEF TypeOK

LEMMA NextType == TypeOK /\ UnsavedIsDirty /\ [Next]_vars => TypeOK'
<1> SUFFICES ASSUME TypeOK, UnsavedIsDirty, [Next]_vars PROVE TypeOK'
  OBVIOUS
<1>1. CASE ReadRegister \/ Observe
  BY <1>1, IntcAccessType DEF ReadRegister, Observe, TypeOK
<1>2. ASSUME NEW sources \in EnableWrites, WriteEnable(sources) PROVE TypeOK'
  <2>1. SetEnabled(intc, sources) \in IntcType
    BY MachineAssumption DEF SetEnabled, IntcType, TypeOK
  <2> QED BY <1>2, <2>1, IntcAccessType DEF WriteEnable
<1>3. ASSUME NEW w \in PriorityWrites, WritePriority(w[1], w[2]) PROVE TypeOK'
  <2>1. SetPriority(intc, w[1], w[2]) \in IntcType
    BY MachineAssumption DEF SetPriority, IntcType, TypeOK
  <2> QED BY <1>3, <2>1, IntcAccessType DEF WritePriority
<1>4. CASE ReadClaim
  BY <1>4, ProcessSignalsType, ClaimType, IntcAccessType DEF ReadClaim, TypeOK
<1>5. ASSUME NEW s \in Sources, WriteEoi(SourceId[s]) PROVE TypeOK'
  <2>1. Eoi(intc) \in IntcType
    BY DEF Eoi, IntcType, TypeOK
  <2> QED BY <1>5, <2>1, IntcAccessType DEF WriteEoi
<1>6. ASSUME NEW period \in PeriodWrites, WritePeriod(period) PROVE TypeOK'
  <2>1. SetPeriod(systick, period, ticks) \in SysTickType
    BY MachineAssumption, SysTickTypes DEF TypeOK
  <2> QED BY <1>6, <2>1, SysTickUpdateType DEF WritePeriod
<1>7. ASSUME NEW bits \in ControlWrites, WriteControl(bits) PROVE TypeOK'
  <2>1. SetControl(systick, bits, ticks) \in SysTickType
    BY MachineAssumption, SysTickTypes DEF TypeOK
  <2> QED BY <1>7, <2>1, SysTickUpdateType DEF WriteControl
<1>8. CASE WriteSysTickAck
  <2>1. SysTickAck(systick) \in SysTickType
    BY SysTickTypes DEF TypeOK
  <2> QED BY <1>8, <2>1, SysTickUpdateType DEF WriteSysTickAck
<1>9. ASSUME NEW p \in ActivePorts, ReadRxData(p) PROVE TypeOK'
  <2>1. p \in Ports /\ ReadRx(uarts[p]) \in UartType
    BY MachineAssumption, UartTypes DEF TypeOK
  <2> QED BY <1>9, <2>1, BusType, UartAccessType DEF ReadRxData, TypeOK
<1>10. ASSUME NEW p \in ActivePorts, NEW byte \in Bytes, WriteTxData(p, byte)
       PROVE  TypeOK'
  <2>1. p \in Ports /\ WriteTx(uarts[p], byte) \in UartType
    BY MachineAssumption, UartByteTypes DEF TypeOK
  <2> QED BY <1>10, <2>1, BusType, UartAccessType DEF WriteTxData, TypeOK
<1>11. ASSUME NEW p \in ActivePorts, NEW irqEnabled \in BOOLEAN,
              WriteUartControl(p, irqEnabled)
       PROVE  TypeOK'
  <2>1. p \in Ports /\ SetUartControl(uarts[p], irqEnabled) \in UartType
    BY MachineAssumption, UartTypes DEF TypeOK
  <2> QED BY <1>11, <2>1, BusType, UartAccessType DEF WriteUartControl, TypeOK
<1>12. ASSUME NEW p \in ActivePorts, NEW byte \in Bytes, DeliverUart(p, byte)
       PROVE  TypeOK'
  <2>1. p \in Ports /\ p \in Sources /\ Receive(uarts[p], byte) \in UartType
    BY MachineAssumption, UartByteTypes DEF TypeOK, Ports, Sources
  <2>2. <<Signal(p, UartIrq(Receive(uarts[p], byte)))>> \in Seq(Signals)
    BY <2>1, UartTypes, SignalType
  <2> QED BY <1>12, <2>1, <2>2, QueueType, UartAccessType DEF DeliverUart, TypeOK
<1>13. ASSUME NEW register \in DOMAIN RegisterWrites,
              NEW v \in RegisterWrites[register], WriteBlockRegister(register, v)
       PROVE  TypeOK'
  <2> DEFINE b == CASE register = "lba"   -> SetLba(block, v)
                    [] register = "count" -> SetSectorCount(block, v)
                    [] register = "dma"   -> SetDmaAddress(block, v)
                    [] register = "unit"  -> SetUnit(block, v)
  <2>1. b \in BlockType
    BY MachineAssumption, BlockRegisterTypes DEF TypeOK
  <2> QED BY <1>13, <2>1, BlockUpdateType DEF WriteBlockRegister
<1>14. ASSUME NEW irqEnabled \in BOOLEAN, WriteBlockControl(irqEnabled)
       PROVE  TypeOK'
  <2>1. SetBlockControl(block, irqEnabled) \in BlockType
    BY BlockRegisterTypes DEF TypeOK
  <2> QED BY <1>14, <2>1, BlockUpdateType DEF WriteBlockControl
<1>15. ASSUME NEW command \in CommandWrites, WriteBlockCommand(command)
       PROVE  TypeOK'
  <2>1. Command(block, command, ticks) \in BlockType
    BY MachineAssumption, CommandType DEF TypeOK
  <2> QED BY <1>15, <2>1, BlockUpdateType DEF WriteBlockCommand
<1>16. CASE WriteBlockAck
  <2>1. BlockAck(block) \in BlockType
    BY BlockRegisterTypes DEF TypeOK
  <2> QED BY <1>16, <2>1, BlockUpdateType DEF WriteBlockAck
<1>17. ASSUME NEW value \in TraceValues, WriteTrace(value) PROVE TypeOK'
  <2>1. intc' \in IntcType /\ channel' \in Seq(Signals)
    BY <1>17, BusType DEF WriteTrace, TypeOK
  <2>2. staged' \in Seq(TraceValues)
    BY <1>17 DEF WriteTrace, TypeOK
  <2> QED BY <1>17, <2>1, <2>2 DEF WriteTrace, TypeOK, blockVars
<1>18. ASSUME NEW w \in RamWrites, StoreRam(w[1], w[2]) PROVE TypeOK'
  <2>1. ram' \in [RamAddresses -> SectorValues]
    BY <1>18, MachineAssumption DEF StoreRam, TypeOK
  <2> QED BY <1>18, <2>1 DEF StoreRam, TypeOK, intcVars, logVars
<1>19. CASE FinishInstruction
  <2>1. <<>> \in Seq(LogEntries)
    OBVIOUS
  <2> QED BY <1>19, <2>1, AdvanceTicksType DEF FinishInstruction
<1>20. ASSUME NEW kind \in ExceptionKinds, EnterException(kind) PROVE TypeOK'
  <2>1. <<[exception |-> kind]>> \in Seq(LogEntries)
    BY DEF LogEntries
  <2> QED BY <1>20, <2>1, AdvanceTicksType DEF EnterException
<1>21. ASSUME NEW u \in Units, Flush(u) PROVE TypeOK'
  BY <1>21, SaveType
<1>22. CASE Reset
  BY <1>22, ResetType
<1>23. CASE UNCHANGED vars
  BY <1>23 DEF vars, TypeOK
<1> QED BY <1>1, <1>2, <1>3, <1>4, <1>5, <1>6, <1>7, <1>8, <1>9, <1>10, <1>11,
           <1>12, <1>13, <1>14, <1>15, <1>16, <1>17, <1>18, <1>19, <1>20,
           <1>21, <1>22, <1>23
    DEF Next, Guest, Access, OtherAccess, Tick, Host, HostAccess

\* Nothing but the completion of a request, a flush and a reset touches the
\* media, the files or the dirty sets.
LEMMA QuietStep ==
  ASSUME [Next]_vars
  PROVE  \/ UNCHANGED <<media, dirty, file>>
         \/ \E recorded : AdvanceTicks(recorded)
         \/ \E u \in Units : Flush(u)
         \/ Reset
<1>1. CASE Guest
  <2>1. CASE FinishInstruction \/ \E kind \in ExceptionKinds : EnterException(kind)
    BY <2>1 DEF FinishInstruction, EnterException
  <2>2. CASE ~(FinishInstruction \/ \E kind \in ExceptionKinds : EnterException(kind))
    BY <1>1, <2>2
    DEF Guest, Access, OtherAccess, Tick, ReadRegister, WriteEnable, WritePriority,
        ReadClaim, WriteEoi, WritePeriod, WriteControl, WriteSysTickAck, SysTickUpdate, ReadRxData,
        WriteTxData, WriteUartControl, WriteBlockRegister, WriteBlockControl,
        WriteBlockCommand, WriteBlockAck, BlockUpdate, WriteTrace, StoreRam,
        blockVars
  <2> QED BY <2>1, <2>2
<1>2. CASE Host
  BY <1>2 DEF Host, HostAccess, DeliverUart, Observe, blockVars
<1> QED BY <1>1, <1>2 DEF Next, vars

LEMMA UnsavedStep ==
  TypeOK /\ UnsavedIsDirty /\ [Next]_vars => UnsavedIsDirty'
<1> SUFFICES ASSUME TypeOK, UnsavedIsDirty, [Next]_vars,
                    NEW u \in Units, Attached(u), file'[u] # media'[u]
             PROVE  dirty'[u] # {}
  BY DEF UnsavedIsDirty, Attached
<1>1. CASE UNCHANGED <<media, dirty, file>>
  BY <1>1 DEF UnsavedIsDirty
<1>2. ASSUME NEW recorded, AdvanceTicks(recorded) PROVE dirty'[u] # {}
  <2> DEFINE r == block.active
  <2>1. CASE ~Due(block, ticks + 1)
    BY <1>2, <2>1 DEF AdvanceTicks, UnsavedIsDirty
  <2>2. CASE Due(block, ticks + 1) /\ ~Writes(r)
    BY <1>2, <2>2 DEF AdvanceTicks, MediaAfter, DirtyAfter, UnsavedIsDirty
  <2>3. CASE Due(block, ticks + 1) /\ Writes(r) /\ r.unit = u
    <3>1. r \in Requests /\ r.count # 0
      BY <2>3 DEF Due, TypeOK, BlockType, Writes, Outcome, DmaOutsideRam
    <3>2. r.lba \in Sectors(r)
      BY <3>1 DEF Requests, Sectors
    <3>3. dirty' = [dirty EXCEPT ![u] = @ \cup Sectors(r)]
      BY <1>2, <2>3 DEF AdvanceTicks, DirtyAfter
    <3> QED BY <3>2, <3>3 DEF TypeOK
  <2>4. CASE Due(block, ticks + 1) /\ Writes(r) /\ r.unit # u
    <3>1. media'[u] = media[u] /\ dirty'[u] = dirty[u] /\ file' = file
      BY <1>2, <2>4 DEF AdvanceTicks, MediaAfter, DirtyAfter, TypeOK
    <3> QED BY <3>1 DEF UnsavedIsDirty
  <2> QED BY <2>1, <2>2, <2>3, <2>4
<1>3. ASSUME NEW v \in Units, Flush(v) PROVE dirty'[u] # {}
  <2>1. CASE v # u
    BY <1>3, <2>1 DEF Flush, TypeOK, UnsavedIsDirty
  <2>2. CASE v = u
    BY <1>3, <2>2 DEF Flush, TypeOK
  <2> QED BY <2>1, <2>2
<1>4. CASE Reset
  BY <1>4 DEF Reset
<1> QED BY <1>1, <1>2, <1>3, <1>4, QuietStep

\* Every reachable state is well typed, for every number of units, sectors and
\* bytes. A reset reads the media back from the host files, so a file damaged
\* by a failed flush would break the type of `media`: the theorem needs, and
\* proves with it, that such a unit is still dirty and blocks the reset.
THEOREM TypeCorrect == Spec => []TypeOK
<1>1. Init => TypeOK /\ UnsavedIsDirty
  BY InitType DEF Init, UnsavedIsDirty
<1>2. TypeOK /\ UnsavedIsDirty /\ [Next]_vars => (TypeOK /\ UnsavedIsDirty)'
  BY NextType, UnsavedStep
<1> QED BY <1>1, <1>2, PTL DEF Spec

\* Guest data the host file does not hold stays marked for write-back through
\* completions, failed flushes and resets (execute, flush, reset).
THEOREM WriteBackCorrect == Spec => []UnsavedIsDirty
<1>1. Init => TypeOK /\ UnsavedIsDirty
  BY InitType DEF Init, UnsavedIsDirty
<1>2. TypeOK /\ UnsavedIsDirty /\ [Next]_vars => (TypeOK /\ UnsavedIsDirty)'
  BY NextType, UnsavedStep
<1> QED BY <1>1, <1>2, PTL DEF Spec

-----------------------------------------------------------------------------
(* PENDING follows the device levels *)

Asserted == {s \in Sources : Level(s)}

LEMMA DrainedIdempotent ==
  ASSUME NEW p, NEW msgs
  PROVE  Drained(Drained(p, msgs), msgs) = Drained(p, msgs)
<1> DEFINE Absent(s) == \A i \in 1 .. Len(msgs) : msgs[i].source # s
           Raised(s) == \E i \in 1 .. Len(msgs) :
                          /\ msgs[i] = Signal(s, TRUE)
                          /\ \A j \in (i + 1) .. Len(msgs) : msgs[j].source # s
<1>1. ASSUME NEW s \in Sources, NEW q
      PROVE  s \in Drained(q, msgs) <=> (s \in q /\ Absent(s)) \/ Raised(s)
  BY DEF Drained
<1> HIDE DEF Absent, Raised
<1>2. ASSUME NEW s \in Sources
      PROVE  s \in Drained(Drained(p, msgs), msgs) <=> s \in Drained(p, msgs)
  BY <1>1
<1>3. /\ Drained(p, msgs) \subseteq Sources
      /\ Drained(Drained(p, msgs), msgs) \subseteq Sources
  BY DEF Drained
<1> QED BY <1>2, <1>3

\* A drain on the bus applies the new signals to the levels asserted before.
LEMMA BusCoherent ==
  ASSUME TypeOK, PendingMatchesLevels, NEW c \in IntcType,
         c.pending \in {intc.pending, Drained(intc.pending, channel)},
         NEW sent \in Seq(Signals), Bus(c, sent)
  PROVE  Drained(intc'.pending, channel') = Drained(Asserted, sent)
<1>1. intc.pending \in SUBSET Sources /\ c.pending \in SUBSET Sources
  BY DEF TypeOK, IntcType
<1>2. Drained(c.pending, channel) = Asserted
  BY DrainedIdempotent DEF PendingMatchesLevels, Asserted
<1>3. intc'.pending = Drained(c.pending, channel \o sent) /\ channel' = <<>>
  BY DEF Bus, ProcessSignals, IntcType
<1>4. Drained(c.pending, channel \o sent) = Drained(Asserted, sent)
  BY <1>1, <1>2, DrainedConcat DEF TypeOK
<1> QED BY <1>3, <1>4, DrainedType, DrainedEmpty

LEMMA QueueCoherent ==
  ASSUME TypeOK, PendingMatchesLevels, NEW sent \in Seq(Signals), Queue(sent)
  PROVE  Drained(intc'.pending, channel') = Drained(Asserted, sent)
<1>1. intc.pending \in SUBSET Sources /\ channel \in Seq(Signals)
  BY DEF TypeOK, IntcType
<1>2. Drained(intc.pending, channel \o sent)
        = Drained(Drained(intc.pending, channel), sent)
  BY <1>1, DrainedConcat
<1> QED BY <1>2 DEF Queue, PendingMatchesLevels, Asserted

LEMMA AttachCoherent ==
  ASSUME NEW n \in Nat PROVE Drained({}, AttachSignals(n)) = {}
<1>1. Len(AttachSignals(n)) = n
  BY DEF AttachSignals
<1>2. ASSUME NEW i \in 1 .. n, NEW s PROVE AttachSignals(n)[i] # Signal(s, TRUE)
  <2>1. AttachSignals(n)[i].pending = FALSE /\ Signal(s, TRUE).pending = TRUE
    BY DEF AttachSignals, Signal
  <2> QED BY <2>1
<1> QED BY <1>1, <1>2 DEF Drained

\* What a step must do to keep PENDING and the levels together: nothing, when
\* it sends nothing; or change one level and send that one.
LEMMA SameLevels ==
  ASSUME TypeOK, UNCHANGED <<systick, uarts, block>>
  PROVE  Asserted' = Asserted
BY DEF Asserted, Level

LEMMA OneSignal ==
  ASSUME NEW A \in SUBSET Sources, NEW B \in SUBSET Sources,
         NEW s \in Sources, NEW level \in BOOLEAN,
         \A t \in Sources : t \in B <=> (t \in A /\ t # s) \/ (t = s /\ level)
  PROVE  Drained(A, <<Signal(s, level)>>) = B
<1>1. Drained(A, <<Signal(s, level)>>) = (A \ {s}) \cup (IF level THEN {s} ELSE {})
  BY DrainedOne
<1> QED BY <1>1

LEMMA OneLevel ==
  ASSUME TypeOK, NEW s \in Sources, NEW level \in BOOLEAN,
         Level(s)' = level,
         \A t \in Sources \ {s} : Level(t)' = Level(t)
  PROVE  Drained(Asserted, <<Signal(s, level)>>) = Asserted'
<1>1. Asserted \in SUBSET Sources /\ Asserted' \in SUBSET Sources
  BY DEF Asserted
<1>2. \A t \in Sources :
        t \in Asserted' <=> (t \in Asserted /\ t # s) \/ (t = s /\ level)
  BY LevelType DEF Asserted
<1>3. Drained(Asserted, <<Signal(s, level)>>)
        = (Asserted \ {s}) \cup (IF level THEN {s} ELSE {})
  BY <1>1, DrainedOne
<1> QED BY <1>1, <1>2, <1>3

LEMMA SysTickLevel ==
  ASSUME TypeOK, NEW t \in SysTickType, systick' = t, UNCHANGED <<uarts, block>>
  PROVE  Drained(Asserted, <<Signal("SysTick", SysTickIrq(t))>>) = Asserted'
<1>1. SysTickIrq(t) \in BOOLEAN
  BY DEF SysTickIrq, SysTickType
<1>2. Level("SysTick")' = SysTickIrq(t)
  BY DEF Level, Ports
<1>3. \A s \in Sources \ {"SysTick"} : Level(s)' = Level(s)
  BY DEF Level, Sources, Ports
<1> QED BY <1>1, <1>2, <1>3, OneLevel DEF Sources

LEMMA UartLevel ==
  ASSUME TypeOK, NEW p \in Ports, NEW u \in UartType,
         uarts' = [uarts EXCEPT ![p] = u], UNCHANGED <<systick, block>>
  PROVE  Drained(Asserted, <<Signal(p, UartIrq(u))>>) = Asserted'
<1>1. UartIrq(u) \in BOOLEAN
  BY UartTypes
<1>2. Level(p)' = UartIrq(u)
  BY DEF Level, Ports, TypeOK
<1>3. \A s \in Sources \ {p} : Level(s)' = Level(s)
  BY DEF Level, Sources, Ports, TypeOK
<1> QED BY <1>1, <1>2, <1>3, OneLevel DEF Sources, Ports

LEMMA BlockLevel ==
  ASSUME TypeOK, NEW b \in BlockType, block' = b, UNCHANGED <<systick, uarts>>
  PROVE  Drained(Asserted, <<Signal("Block", BlockIrq(b))>>) = Asserted'
<1>1. BlockIrq(b) \in BOOLEAN
  BY DEF BlockIrq, BlockType
<1>2. Level("Block")' = BlockIrq(b)
  BY DEF Level, Ports
<1>3. \A s \in Sources \ {"Block"} : Level(s)' = Level(s)
  BY DEF Level, Sources, Ports
<1> QED BY <1>1, <1>2, <1>3, OneLevel DEF Sources

LEMMA AdvanceTicksCoherent ==
  ASSUME TypeOK, PendingMatchesLevels, NEW recorded, AdvanceTicks(recorded)
  PROVE  PendingMatchesLevels'
<1> DEFINE now == ticks + 1
           t == SysTickAdvanceTo(systick, now)
           due == Due(block, now)
           b == Completed(block)
           first == <<Signal("SysTick", SysTickIrq(t))>>
           second == <<Signal("Block", BlockIrq(b))>>
           middle == {s \in Sources : IF s = "SysTick" THEN SysTickIrq(t) ELSE Level(s)}
<1>1. t \in SysTickType /\ b \in BlockType
  <2>1. now \in Nat
    BY DEF TypeOK
  <2> QED BY <2>1, SysTickTypes, CompletedType DEF TypeOK
<1>2. SysTickIrq(t) \in BOOLEAN /\ BlockIrq(b) \in BOOLEAN
  BY <1>1 DEF SysTickIrq, SysTickType, BlockIrq, BlockType
<1>3. first \in Seq(Signals) /\ second \in Seq(Signals)
  BY <1>2, SignalType DEF Sources
<1>4. Asserted \in SUBSET Sources /\ middle \in SUBSET Sources
  BY DEF Asserted
<1>5. /\ systick' = t /\ uarts' = uarts
      /\ block' = IF due THEN b ELSE block
      /\ Bus(intc, first \o (IF due THEN second ELSE <<>>))
  BY DEF AdvanceTicks
<1> HIDE DEF t, b, due
<1>6. Drained(Asserted, first) = middle
  <2>1. \A s \in Sources :
          s \in middle
            <=> (s \in Asserted /\ s # "SysTick") \/ (s = "SysTick" /\ SysTickIrq(t))
    BY <1>2, LevelType DEF Asserted
  <2> HIDE DEF middle
  <2> QED BY <1>2, <1>4, <2>1, OneSignal DEF Sources
<1>7. CASE ~due
  <2>1. \A s \in Sources : Level(s)' = IF s = "SysTick" THEN SysTickIrq(t) ELSE Level(s)
    BY <1>5, <1>7 DEF Level, Sources, Ports
  <2>2. Asserted' = middle
    BY <2>1 DEF Asserted
  <2>3. Bus(intc, first)
    BY <1>3, <1>5, <1>7
  <2>4. intc \in IntcType
    BY DEF TypeOK
  <2>5. Drained(intc'.pending, channel') = Drained(Asserted, first)
    BY <1>3, <2>3, <2>4, BusCoherent
  <2> QED BY <1>6, <2>2, <2>5 DEF PendingMatchesLevels, Asserted
<1>8. CASE due
  <2>1. \A s \in Sources : Level(s)' = CASE s = "SysTick" -> SysTickIrq(t)
                                         [] s = "Block" -> BlockIrq(b)
                                         [] OTHER -> Level(s)
    BY <1>5, <1>8 DEF Level, Sources, Ports
  <2>2. \A s \in Sources :
          s \in Asserted'
            <=> (s \in middle /\ s # "Block") \/ (s = "Block" /\ BlockIrq(b))
    BY <1>2, <2>1, LevelType DEF Asserted
  <2>3. Asserted' \in SUBSET Sources
    BY DEF Asserted
  <2>5. Drained(middle, second) = Asserted'
    <3> HIDE DEF middle
    <3> QED BY <1>2, <1>4, <2>2, <2>3, OneSignal DEF Sources
  <2>6. Bus(intc, first \o second)
    BY <1>5, <1>8
  <2>7. intc \in IntcType /\ first \o second \in Seq(Signals)
    BY <1>3, ConcatProperties DEF TypeOK
  <2>8. Drained(intc'.pending, channel') = Drained(Asserted, first \o second)
    BY <2>6, <2>7, BusCoherent
  <2>9. Drained(Asserted, first \o second) = Drained(middle, second)
    <3> HIDE DEF middle, first, second
    <3> QED BY <1>3, <1>4, <1>6, DrainedConcat
  <2> QED BY <2>5, <2>8, <2>9 DEF PendingMatchesLevels, Asserted
<1> QED BY <1>7, <1>8

\* A bus access that sends nothing and changes no device level.
LEMMA SilentAccess ==
  ASSUME TypeOK, PendingMatchesLevels, NEW c \in IntcType,
         c.pending \in {intc.pending, Drained(intc.pending, channel)},
         Bus(c, <<>>), Asserted' = Asserted
  PROVE  PendingMatchesLevels'
<1>1. <<>> \in Seq(Signals) /\ Asserted \in SUBSET Sources
  BY DEF Asserted
<1>2. Drained(intc'.pending, channel') = Drained(Asserted, <<>>)
  BY <1>1, BusCoherent
<1>3. Drained(Asserted, <<>>) = Asserted'
  BY <1>1, DrainedEmpty
<1> QED BY <1>2, <1>3 DEF PendingMatchesLevels, Asserted

LEMMA SysTickUpdateCoherent ==
  ASSUME TypeOK, PendingMatchesLevels, NEW t \in SysTickType, SysTickUpdate(t)
  PROVE  PendingMatchesLevels'
<1>1. <<Signal("SysTick", SysTickIrq(t))>> \in Seq(Signals)
  <2>1. SysTickIrq(t) \in BOOLEAN
    BY DEF SysTickIrq, SysTickType
  <2> QED BY <2>1, SignalType DEF Sources
<1>2. /\ systick' = t /\ UNCHANGED <<uarts, block>>
      /\ Bus(intc, <<Signal("SysTick", SysTickIrq(t))>>)
  BY DEF SysTickUpdate, blockVars
<1>3. intc \in IntcType
  BY DEF TypeOK
<1>4. Drained(intc'.pending, channel')
        = Drained(Asserted, <<Signal("SysTick", SysTickIrq(t))>>)
  BY <1>1, <1>2, <1>3, BusCoherent
<1> QED BY <1>2, <1>4, SysTickLevel DEF PendingMatchesLevels, Asserted

LEMMA BlockUpdateCoherent ==
  ASSUME TypeOK, PendingMatchesLevels, NEW b \in BlockType, BlockUpdate(b)
  PROVE  PendingMatchesLevels'
<1>1. <<Signal("Block", BlockIrq(b))>> \in Seq(Signals)
  <2>1. BlockIrq(b) \in BOOLEAN
    BY DEF BlockIrq, BlockType
  <2> QED BY <2>1, SignalType DEF Sources
<1>2. /\ block' = b /\ UNCHANGED <<systick, uarts>>
      /\ Bus(intc, <<Signal("Block", BlockIrq(b))>>)
  BY DEF BlockUpdate
<1>3. intc \in IntcType
  BY DEF TypeOK
<1>4. Drained(intc'.pending, channel')
        = Drained(Asserted, <<Signal("Block", BlockIrq(b))>>)
  BY <1>1, <1>2, <1>3, BusCoherent
<1> QED BY <1>2, <1>4, BlockLevel DEF PendingMatchesLevels, Asserted

\* The port's new level is sent on the bus or queued for the next drain.
LEMMA UartCoherent ==
  ASSUME TypeOK, PendingMatchesLevels, NEW p \in Ports, NEW u \in UartType,
         uarts' = [uarts EXCEPT ![p] = u], UNCHANGED <<systick, block>>,
         Bus(intc, <<Signal(p, UartIrq(u))>>) \/ Queue(<<Signal(p, UartIrq(u))>>)
  PROVE  PendingMatchesLevels'
<1>1. <<Signal(p, UartIrq(u))>> \in Seq(Signals)
  BY UartTypes, SignalType DEF Sources, Ports
<1>2. intc \in IntcType
  BY DEF TypeOK
<1>3. Drained(intc'.pending, channel') = Drained(Asserted, <<Signal(p, UartIrq(u))>>)
  BY <1>1, <1>2, BusCoherent, QueueCoherent
<1> QED BY <1>3, UartLevel DEF PendingMatchesLevels, Asserted

LEMMA PendingStep ==
  TypeOK /\ PendingMatchesLevels /\ [Next]_vars => PendingMatchesLevels'
<1> SUFFICES ASSUME TypeOK, PendingMatchesLevels, [Next]_vars
             PROVE  PendingMatchesLevels'
  OBVIOUS
<1> USE DEF blockVars
<1>0. intc \in IntcType /\ ticks \in Nat /\ systick \in SysTickType /\ block \in BlockType
  BY DEF TypeOK
<1>1. CASE ReadRegister \/ Observe
  BY <1>0, <1>1, SilentAccess, SameLevels DEF ReadRegister, Observe
<1>2. ASSUME NEW sources \in EnableWrites, WriteEnable(sources)
      PROVE  PendingMatchesLevels'
  <2>1. /\ SetEnabled(intc, sources) \in IntcType
        /\ SetEnabled(intc, sources).pending = intc.pending
    BY <1>0, MachineAssumption DEF SetEnabled, IntcType
  <2> QED BY <1>2, <2>1, SilentAccess, SameLevels DEF WriteEnable
<1>3. ASSUME NEW w \in PriorityWrites, WritePriority(w[1], w[2])
      PROVE  PendingMatchesLevels'
  <2>1. /\ SetPriority(intc, w[1], w[2]) \in IntcType
        /\ SetPriority(intc, w[1], w[2]).pending = intc.pending
    BY <1>0, MachineAssumption DEF SetPriority, IntcType
  <2> QED BY <1>3, <2>1, SilentAccess, SameLevels DEF WritePriority
<1>4. CASE ReadClaim
  <2> DEFINE c == ProcessSignals(intc, channel)
  <2>1. c \in IntcType /\ c.pending = Drained(intc.pending, channel)
    BY <1>0, ProcessSignalsType DEF ProcessSignals, IntcType
  <2>2. Claim(c) \in IntcType /\ Claim(c).pending = c.pending
    <3> HIDE DEF c
    <3>1. Claim(c) \in IntcType
      BY <2>1, ClaimType
    <3>2. Claim(c).pending = c.pending
      BY <2>1 DEF Claim, IntcType
    <3> QED BY <3>1, <3>2
  <2> QED BY <1>4, <2>1, <2>2, SilentAccess, SameLevels DEF ReadClaim
<1>5. ASSUME NEW s \in Sources, WriteEoi(SourceId[s]) PROVE PendingMatchesLevels'
  <2>1. Eoi(intc) \in IntcType /\ Eoi(intc).pending = intc.pending
    BY <1>0 DEF Eoi, IntcType
  <2> QED BY <1>5, <2>1, SilentAccess, SameLevels DEF WriteEoi
<1>6. ASSUME NEW period \in PeriodWrites, WritePeriod(period)
      PROVE  PendingMatchesLevels'
  <2>1. SetPeriod(systick, period, ticks) \in SysTickType
    BY <1>0, MachineAssumption, SysTickTypes
  <2> QED BY <1>6, <2>1, SysTickUpdateCoherent DEF WritePeriod
<1>7. ASSUME NEW bits \in ControlWrites, WriteControl(bits)
      PROVE  PendingMatchesLevels'
  <2>1. SetControl(systick, bits, ticks) \in SysTickType
    BY <1>0, MachineAssumption, SysTickTypes
  <2> QED BY <1>7, <2>1, SysTickUpdateCoherent DEF WriteControl
<1>8. CASE WriteSysTickAck
  BY <1>0, <1>8, SysTickTypes, SysTickUpdateCoherent DEF WriteSysTickAck
<1>9. ASSUME NEW p \in ActivePorts, ReadRxData(p) PROVE PendingMatchesLevels'
  <2>1. p \in Ports /\ ReadRx(uarts[p]) \in UartType
    BY MachineAssumption, UartTypes DEF TypeOK
  <2> QED BY <1>9, <2>1, UartCoherent DEF ReadRxData
<1>10. ASSUME NEW p \in ActivePorts, NEW byte \in Bytes, WriteTxData(p, byte)
       PROVE  PendingMatchesLevels'
  <2>1. \A q \in Ports : UartIrq(uarts'[q]) = UartIrq(uarts[q])
    BY <1>10, MachineAssumption DEF WriteTxData, WriteTx, UartIrq, UartType, TypeOK
  <2>2. Asserted' = Asserted
    BY <1>10, <2>1 DEF Asserted, Level, WriteTxData
  <2> QED BY <1>0, <1>10, <2>2, SilentAccess DEF WriteTxData
<1>11. ASSUME NEW p \in ActivePorts, NEW irqEnabled \in BOOLEAN,
              WriteUartControl(p, irqEnabled)
       PROVE  PendingMatchesLevels'
  <2>1. p \in Ports /\ SetUartControl(uarts[p], irqEnabled) \in UartType
    BY MachineAssumption, UartTypes DEF TypeOK
  <2> QED BY <1>11, <2>1, UartCoherent DEF WriteUartControl
<1>12. ASSUME NEW p \in ActivePorts, NEW byte \in Bytes, DeliverUart(p, byte)
       PROVE  PendingMatchesLevels'
  <2>1. p \in Ports /\ Receive(uarts[p], byte) \in UartType
    BY MachineAssumption, UartByteTypes DEF TypeOK
  <2> QED BY <1>12, <2>1, UartCoherent DEF DeliverUart
<1>13. ASSUME NEW register \in DOMAIN RegisterWrites,
              NEW v \in RegisterWrites[register], WriteBlockRegister(register, v)
       PROVE  PendingMatchesLevels'
  <2> DEFINE b == CASE register = "lba"   -> SetLba(block, v)
                    [] register = "count" -> SetSectorCount(block, v)
                    [] register = "dma"   -> SetDmaAddress(block, v)
                    [] register = "unit"  -> SetUnit(block, v)
  <2>1. b \in BlockType
    BY <1>0, MachineAssumption, BlockRegisterTypes
  <2> QED BY <1>13, <2>1, BlockUpdateCoherent DEF WriteBlockRegister
<1>14. ASSUME NEW irqEnabled \in BOOLEAN, WriteBlockControl(irqEnabled)
       PROVE  PendingMatchesLevels'
  BY <1>0, <1>14, BlockRegisterTypes, BlockUpdateCoherent DEF WriteBlockControl
<1>15. ASSUME NEW command \in CommandWrites, WriteBlockCommand(command)
       PROVE  PendingMatchesLevels'
  <2>1. Command(block, command, ticks) \in BlockType
    BY <1>0, MachineAssumption, CommandType
  <2> QED BY <1>15, <2>1, BlockUpdateCoherent DEF WriteBlockCommand
<1>16. CASE WriteBlockAck
  BY <1>0, <1>16, BlockRegisterTypes, BlockUpdateCoherent DEF WriteBlockAck
<1>17. ASSUME NEW value \in TraceValues, WriteTrace(value)
       PROVE  PendingMatchesLevels'
  BY <1>0, <1>17, SilentAccess, SameLevels DEF WriteTrace
<1>18. CASE \/ UNCHANGED vars
            \/ \E w \in RamWrites : StoreRam(w[1], w[2])
            \/ \E u \in Units : Flush(u) /\ UNCHANGED <<block, intcVars>>
  <2>1. UNCHANGED <<intc, channel, systick, uarts, block>>
    BY <1>18 DEF vars, StoreRam, Flush, intcVars
  <2>2. Asserted' = Asserted
    BY <2>1, SameLevels
  <2> QED BY <2>1, <2>2 DEF PendingMatchesLevels, Asserted
<1>19. ASSUME NEW recorded, AdvanceTicks(recorded) PROVE PendingMatchesLevels'
  BY <1>19, AdvanceTicksCoherent
<1>20. ASSUME NEW u \in Units, Flush(u), ~UNCHANGED <<block, intcVars>>
       PROVE  PendingMatchesLevels'
  <2> DEFINE b == FlushFailed(block)
             sent == <<Signal("Block", BlockIrq(b))>>
  <2>1. /\ block' = b /\ Queue(sent) /\ UNCHANGED <<systick, uarts>>
    BY <1>20 DEF Flush
  <2>2. b \in BlockType /\ BlockIrq(b) \in BOOLEAN
    BY <1>0, BlockRegisterTypes
  <2>3. sent \in Seq(Signals)
    BY <2>2, SignalType DEF Sources
  <2>4. Drained(intc'.pending, channel') = Drained(Asserted, sent)
    BY <2>1, <2>3, QueueCoherent
  <2> QED BY <2>1, <2>2, <2>4, BlockLevel DEF PendingMatchesLevels, Asserted
<1>21. CASE Reset
  <2>1. Asserted' = {}
    BY <1>21 DEF Reset, Asserted, Level, SysTickInit, SysTickIrq, UartInit, UartIrq,
                 BlockInit, BlockIrq, Sources, Ports
  <2>2. intc'.pending = {} /\ channel' = AttachSignals(2 * AttachedCount)
    BY <1>21 DEF Reset, IntcInit
  <2>3. 2 * AttachedCount \in Nat
    BY DEF AttachedCount
  <2> QED BY <2>1, <2>2, <2>3, AttachCoherent DEF PendingMatchesLevels, Asserted
<1> QED BY <1>1, <1>2, <1>3, <1>4, <1>5, <1>6, <1>7, <1>8, <1>9, <1>10, <1>11,
           <1>12, <1>13, <1>14, <1>15, <1>16, <1>17, <1>18, <1>19, <1>20, <1>21
    DEF Next, Guest, Access, OtherAccess, Tick, Host, HostAccess, FinishInstruction,
        EnterException

\* No level change is lost or resurrected between a device and the controller.
\* The invariant is inductive with the type invariant: each step appends to or
\* receives a run of signals whose effect on PENDING is the change it makes to
\* the device levels.
THEOREM PendingCorrect == Spec => []PendingMatchesLevels
<1>1. Init => PendingMatchesLevels
  <2> SUFFICES ASSUME Init PROVE PendingMatchesLevels
    OBVIOUS
  <2>1. Asserted = {}
    BY DEF Init, Asserted, Level, SysTickInit, SysTickIrq, UartInit, UartIrq,
           BlockInit, BlockIrq, Sources, Ports
  <2>2. intc.pending = {} /\ channel = AttachSignals(AttachedCount)
    BY DEF Init, IntcInit
  <2>3. AttachedCount \in Nat
    BY DEF AttachedCount
  <2> QED BY <2>1, <2>2, <2>3, AttachCoherent DEF PendingMatchesLevels, Asserted
<1>2. TypeOK /\ PendingMatchesLevels /\ [Next]_vars => PendingMatchesLevels'
  BY PendingStep
<1> QED BY <1>1, <1>2, TypeCorrect, PTL DEF Spec

-----------------------------------------------------------------------------
(* The timer *)

Armed(t, now) ==
  /\ t.deadline # None =>
       /\ t.enabled
       /\ now < t.deadline
       /\ t.deadline <= now + t.period
  /\ t.enabled /\ t.period # 0 => t.deadline # None

LEMMA SetPeriodArmed ==
  ASSUME NEW t \in SysTickType, NEW now \in Nat, Armed(t, now),
         NEW period \in Nat \ {0}
  PROVE  Armed(SetPeriod(t, period, now), now)
<1>1. CASE t.enabled
  BY <1>1, NoneAssumption DEF Armed, SetPeriod, SysTickType
<1>2. CASE ~t.enabled
  BY <1>2 DEF Armed, SetPeriod, SysTickType
<1> QED BY <1>1, <1>2

LEMMA SetControlArmed ==
  ASSUME NEW t \in SysTickType, NEW now \in Nat, Armed(t, now),
         NEW bits \in SUBSET ControlBits
  PROVE  Armed(SetControl(t, bits, now), now)
<1> DEFINE arm == (~t.enabled \/ t.deadline = None) /\ t.period # 0
           s == SetControl(t, bits, now)
<1> SUFFICES Armed(s, now)
  OBVIOUS
<1>1. s.period = t.period /\ (s.enabled <=> "ENABLE" \in bits)
  BY DEF SetControl, SysTickType
<1>2. CASE "ENABLE" \notin bits
  <2>1. s.deadline = None
    BY <1>2 DEF SetControl, SysTickType
  <2> QED BY <1>1, <1>2, <2>1 DEF Armed
<1>3. CASE "ENABLE" \in bits /\ arm
  <2>1. s.deadline = now + t.period
    BY <1>3 DEF SetControl, SysTickType
  <2> QED BY <1>1, <1>3, <2>1, NoneAssumption DEF Armed, SysTickType
<1>4. CASE "ENABLE" \in bits /\ ~arm
  <2>1. s.deadline = t.deadline
    BY <1>4 DEF SetControl, SysTickType
  <2> HIDE DEF s
  <2> QED BY <1>1, <1>4, <2>1 DEF Armed, SysTickType
<1> QED BY <1>2, <1>3, <1>4

\* Time moves one tick at a time, so an expiry falls exactly on its deadline.
LEMMA AdvanceArmed ==
  ASSUME NEW t \in SysTickType, NEW now \in Nat, Armed(t, now)
  PROVE  Armed(SysTickAdvanceTo(t, now + 1), now + 1)
<1> DEFINE s == SysTickAdvanceTo(t, now + 1)
<1> SUFFICES Armed(s, now + 1)
  OBVIOUS
<1>1. CASE ~Expired(t, now + 1)
  <2>1. s = t
    BY <1>1 DEF SysTickAdvanceTo
  <2> HIDE DEF s
  <2> QED BY <1>1, <2>1 DEF Expired, Armed, SysTickType
<1>2. CASE Expired(t, now + 1) /\ t.periodic /\ t.period # 0
  <2>1. t.deadline = now + 1 /\ t.enabled /\ t.period \in Nat \ {0}
    BY <1>2 DEF Expired, Armed, SysTickType
  <2>2. NextDeadline(t.deadline, t.period, now + 1) = now + 1 + t.period
    <3>1. 0 \div t.period = 0
      BY <2>1
    <3> QED BY <2>1, <3>1 DEF NextDeadline
  <2>3. /\ s.deadline = now + 1 + t.period
        /\ s.enabled = t.enabled /\ s.period = t.period
    BY <1>2, <2>2 DEF SysTickAdvanceTo, SysTickType
  <2> HIDE DEF s
  <2> QED BY <2>1, <2>3, NoneAssumption DEF Armed
<1>3. CASE Expired(t, now + 1) /\ ~(t.periodic /\ t.period # 0)
  <2>1. s.deadline = None /\ s.enabled = FALSE
    BY <1>3 DEF SysTickAdvanceTo, SysTickType
  <2> HIDE DEF s
  <2> QED BY <2>1 DEF Armed
<1> QED BY <1>1, <1>2, <1>3

\* How a step may change the timer.
LEMMA TimerStep ==
  ASSUME [Next]_vars
  PROVE  \/ UNCHANGED <<systick, ticks>>
         \/ \E period \in PeriodWrites :
              systick' = SetPeriod(systick, period, ticks) /\ ticks' = ticks
         \/ \E bits \in ControlWrites :
              systick' = SetControl(systick, bits, ticks) /\ ticks' = ticks
         \/ systick' = SysTickAck(systick) /\ ticks' = ticks
         \/ systick' = SysTickAdvanceTo(systick, ticks + 1) /\ ticks' = ticks + 1
         \/ systick' = SysTickInit /\ ticks' = 0
<1>1. CASE Guest
  BY <1>1
  DEF Guest, Access, OtherAccess, Tick, ReadRegister, WriteEnable, WritePriority, ReadClaim, WriteEoi,
      WritePeriod, WriteControl, WriteSysTickAck, SysTickUpdate, ReadRxData,
      WriteTxData, WriteUartControl, WriteBlockRegister, WriteBlockControl,
      WriteBlockCommand, WriteBlockAck, BlockUpdate, WriteTrace, StoreRam,
      FinishInstruction, EnterException, AdvanceTicks
<1>2. CASE Host
  BY <1>2 DEF Host, HostAccess, DeliverUart, Observe, Flush, Reset
<1> QED BY <1>1, <1>2 DEF Next, vars

\* The timer is armed when it runs, never for a moment that has passed. A step
\* of virtual time that skipped an expiry, or a register write that left a stale
\* deadline behind, would break it (set_period, set_control, advance_to).
THEOREM TimerCorrect == Spec => []TimerArmed
<1>1. Init => TimerArmed
  BY DEF Init, TimerArmed, SysTickInit
<1>2. TypeOK /\ TimerArmed /\ [Next]_vars => TimerArmed'
  <2> SUFFICES ASSUME TypeOK, Armed(systick, ticks), [Next]_vars
               PROVE  Armed(systick', ticks')
    BY DEF TimerArmed, Armed
  <2>1. systick \in SysTickType /\ ticks \in Nat
    BY DEF TypeOK
  <2>2. CASE UNCHANGED <<systick, ticks>>
    BY <2>2
  <2>3. ASSUME NEW period \in PeriodWrites,
               systick' = SetPeriod(systick, period, ticks), ticks' = ticks
        PROVE  Armed(systick', ticks')
    BY <2>1, <2>3, SetPeriodArmed, MachineAssumption
  <2>4. ASSUME NEW bits \in ControlWrites,
               systick' = SetControl(systick, bits, ticks), ticks' = ticks
        PROVE  Armed(systick', ticks')
    BY <2>1, <2>4, SetControlArmed, MachineAssumption
  <2>5. CASE systick' = SysTickAck(systick) /\ ticks' = ticks
    BY <2>1, <2>5 DEF Armed, SysTickAck, SysTickType
  <2>6. CASE systick' = SysTickAdvanceTo(systick, ticks + 1) /\ ticks' = ticks + 1
    BY <2>1, <2>6, AdvanceArmed
  <2>7. CASE systick' = SysTickInit /\ ticks' = 0
    BY <2>7 DEF Armed, SysTickInit
  <2> QED BY <2>2, <2>3, <2>4, <2>5, <2>6, <2>7, TimerStep
<1> QED BY <1>1, <1>2, TypeCorrect, PTL DEF Spec

-----------------------------------------------------------------------------
(* The block device *)

\* How a step may change the command registers and virtual time.
LEMMA BlockStep ==
  ASSUME [Next]_vars
  PROVE  \/ UNCHANGED <<block, ticks>>
         \/ \E v : /\ block' \in {SetLba(block, v), SetSectorCount(block, v),
                                  SetDmaAddress(block, v), SetUnit(block, v),
                                  SetBlockControl(block, v), BlockAck(block)}
                   /\ ticks' = ticks
         \/ \E command \in CommandWrites :
              block' = Command(block, command, ticks) /\ ticks' = ticks
         \/ block' = FlushFailed(block) /\ ticks' = ticks
         \/ /\ block' = IF Due(block, ticks + 1) THEN Completed(block) ELSE block
            /\ ticks' = ticks + 1
         \/ block' = BlockInit /\ ticks' = 0
<1>1. CASE Guest
  <2>1. ASSUME NEW register \in DOMAIN RegisterWrites,
               NEW v \in RegisterWrites[register], WriteBlockRegister(register, v)
        PROVE  /\ block' \in {SetLba(block, v), SetSectorCount(block, v),
                              SetDmaAddress(block, v), SetUnit(block, v)}
               /\ ticks' = ticks
    BY <2>1, MachineAssumption DEF WriteBlockRegister, BlockUpdate
  <2>2. ASSUME NEW irqEnabled \in BOOLEAN, WriteBlockControl(irqEnabled)
        PROVE  block' = SetBlockControl(block, irqEnabled) /\ ticks' = ticks
    BY <2>2 DEF WriteBlockControl, BlockUpdate
  <2>3. CASE WriteBlockAck
    BY <2>3 DEF WriteBlockAck, BlockUpdate
  <2>4. CASE FinishInstruction \/ \E kind \in ExceptionKinds : EnterException(kind)
    BY <2>4 DEF FinishInstruction, EnterException, AdvanceTicks
  <2>5. ASSUME NEW command \in CommandWrites, WriteBlockCommand(command)
        PROVE  block' = Command(block, command, ticks) /\ ticks' = ticks
    BY <2>5 DEF WriteBlockCommand, BlockUpdate
  <2>6. CASE \/ ReadRegister \/ \E sources \in EnableWrites : WriteEnable(sources)
             \/ \E w \in PriorityWrites : WritePriority(w[1], w[2])
             \/ ReadClaim \/ \E s \in Sources : WriteEoi(SourceId[s])
             \/ \E period \in PeriodWrites : WritePeriod(period)
             \/ \E bits \in ControlWrites : WriteControl(bits)
             \/ WriteSysTickAck
             \/ \E p \in ActivePorts : ReadRxData(p)
             \/ \E p \in ActivePorts, byte \in Bytes : WriteTxData(p, byte)
             \/ \E p \in ActivePorts, irqEnabled \in BOOLEAN :
                  WriteUartControl(p, irqEnabled)
             \/ \E value \in TraceValues : WriteTrace(value)
             \/ \E w \in RamWrites : StoreRam(w[1], w[2])
    BY <2>6
    DEF ReadRegister, WriteEnable, WritePriority, ReadClaim, WriteEoi,
        WritePeriod, WriteControl, WriteSysTickAck, SysTickUpdate, ReadRxData,
        WriteTxData, WriteUartControl, WriteTrace, StoreRam, blockVars
  <2> QED BY <1>1, <2>1, <2>2, <2>3, <2>4, <2>5, <2>6 DEF Guest, Access, OtherAccess, Tick
<1>2. CASE Host
  BY <1>2 DEF Host, HostAccess, DeliverUart, Observe, Flush, Reset, blockVars
<1> QED BY <1>1, <1>2 DEF Next, vars

HonestBlock(b) ==
  /\ b.complete /\ b.error = "None" => b.active = None
  /\ b.error # "None" => b.complete

DueAhead(b, now) ==
  b.active # None =>
    now < b.active.deadline /\ b.active.deadline <= now + CompletionDelay

\* Register writes, the acknowledgement and a failed flush keep the request.
LEMMA RequestKept ==
  ASSUME NEW b \in BlockType, NEW v,
         NEW c \in {SetLba(b, v), SetSectorCount(b, v), SetDmaAddress(b, v),
                    SetUnit(b, v), SetBlockControl(b, v), BlockAck(b),
                    FlushFailed(b)}
  PROVE  /\ c.active = b.active
         /\ HonestBlock(b) => HonestBlock(c)
<1>1. CASE c \in {SetLba(b, v), SetSectorCount(b, v), SetDmaAddress(b, v),
                  SetUnit(b, v), SetBlockControl(b, v)}
  <2>1. c.active = b.active /\ c.complete = b.complete /\ c.error = b.error
    BY <1>1 DEF SetLba, SetSectorCount, SetDmaAddress, SetUnit, SetBlockControl,
                BlockType
  <2> QED BY <2>1 DEF HonestBlock
<1>2. CASE c = BlockAck(b)
  BY <1>2 DEF BlockAck, HonestBlock, BlockType
<1>3. CASE c = FlushFailed(b)
  BY <1>3 DEF FlushFailed, HonestBlock, BlockType
<1> QED BY <1>1, <1>2, <1>3

LEMMA CommandEffect ==
  ASSUME NEW b \in BlockType, NEW command \in Nat, NEW now \in Nat
  PROVE  /\ b.active # None => Command(b, command, now).active = b.active
         /\ HonestBlock(Command(b, command, now))
         /\ DueAhead(b, now) => DueAhead(Command(b, command, now), now)
<1> DEFINE c == Command(b, command, now)
<1> SUFFICES /\ b.active # None => c.active = b.active
             /\ HonestBlock(c)
             /\ DueAhead(b, now) => DueAhead(c, now)
  OBVIOUS
<1>1. CASE b.active # None
  <2>1. c.active = b.active /\ c.complete = TRUE /\ c.error = "Busy"
    BY <1>1 DEF Command, BlockType
  <2> HIDE DEF c
  <2> QED BY <1>1, <2>1 DEF HonestBlock, DueAhead
<1>2. CASE b.active = None
  <2>1. c.active = Request(b, command, now) /\ c.complete = FALSE /\ c.error = "None"
    BY <1>2 DEF Command, BlockType
  <2>2. Request(b, command, now).deadline = now + CompletionDelay
    BY DEF Request
  <2> HIDE DEF c
  <2> QED BY <1>2, <2>1, <2>2, BlockAssumption DEF HonestBlock, DueAhead
<1> QED BY <1>1, <1>2

LEMMA CompletedEffect ==
  ASSUME NEW b \in BlockType
  PROVE  Completed(b).active = None /\ HonestBlock(Completed(b))
BY DEF Completed, HonestBlock, BlockType

\* STATUS never reports success for a request still in flight, nor an error that
\* completion does not announce.
THEOREM CompletionCorrect == Spec => []CompletionHonest
<1>1. Init => CompletionHonest
  BY DEF Init, CompletionHonest, BlockInit
<1>2. TypeOK /\ CompletionHonest /\ [Next]_vars => CompletionHonest'
  <2> SUFFICES ASSUME TypeOK, HonestBlock(block), [Next]_vars
               PROVE  HonestBlock(block')
    BY DEF CompletionHonest, HonestBlock
  <2>1. block \in BlockType /\ ticks \in Nat
    BY DEF TypeOK
  <2>2. ASSUME NEW command \in CommandWrites, block' = Command(block, command, ticks)
        PROVE  HonestBlock(block')
    BY <2>1, <2>2, CommandEffect, MachineAssumption
  <2>3. HonestBlock(BlockInit)
    BY DEF HonestBlock, BlockInit
  <2> QED BY <2>1, <2>2, <2>3, BlockStep, RequestKept, CompletedEffect
<1> QED BY <1>1, <1>2, TypeCorrect, PTL DEF Spec

\* A request in flight is still to come due, within the completion delay: the
\* clock cannot step over its deadline and no later write moves it.
THEOREM RequestsComeDue == Spec => []RequestDueAhead
<1>1. Init => RequestDueAhead
  BY DEF Init, RequestDueAhead, BlockInit
<1>2. TypeOK /\ RequestDueAhead /\ [Next]_vars => RequestDueAhead'
  <2> SUFFICES ASSUME TypeOK, DueAhead(block, ticks), [Next]_vars
               PROVE  DueAhead(block', ticks')
    BY DEF RequestDueAhead, DueAhead
  <2>1. block \in BlockType /\ ticks \in Nat
    BY DEF TypeOK
  <2>2. ASSUME NEW command \in CommandWrites,
               block' = Command(block, command, ticks), ticks' = ticks
        PROVE  DueAhead(block', ticks')
    BY <2>1, <2>2, CommandEffect, MachineAssumption
  <2>3. ASSUME block'.active = block.active, ticks' = ticks
        PROVE  DueAhead(block', ticks')
    BY <2>3 DEF DueAhead
  <2>4. ASSUME block' = IF Due(block, ticks + 1) THEN Completed(block) ELSE block,
               ticks' = ticks + 1
        PROVE  DueAhead(block', ticks')
    <3>1. CASE Due(block, ticks + 1)
      BY <2>1, <2>4, <3>1, CompletedEffect DEF DueAhead
    <3>2. CASE ~Due(block, ticks + 1)
      <4>1. block.active # None => block.active.deadline \in Nat
        BY <2>1 DEF BlockType, Requests
      <4> QED BY <2>1, <2>4, <3>2, <4>1, BlockAssumption DEF DueAhead, Due
    <3> QED BY <3>1, <3>2
  <2>5. ASSUME block' = BlockInit PROVE DueAhead(block', ticks')
    BY <2>5 DEF DueAhead, BlockInit
  <2> QED BY <2>1, <2>2, <2>3, <2>4, <2>5, BlockStep, RequestKept
<1> QED BY <1>1, <1>2, TypeCorrect, PTL DEF Spec

\* The request in flight keeps the registers it was issued with until its deadline,
\* whatever the guest writes meanwhile (command, execute).
THEOREM RequestsKeepSnapshot == Spec => RequestSnapshotKept
<1>1. TypeOK /\ RequestDueAhead /\ [Next]_vars =>
        [block.active # None =>
           \/ block'.active = block.active
           \/ block'.active = None /\ ticks' \in {block.active.deadline, 0}]_vars
  <2> SUFFICES ASSUME TypeOK, DueAhead(block, ticks), [Next]_vars, block.active # None
               PROVE  \/ block'.active = block.active
                      \/ block'.active = None /\ ticks' \in {block.active.deadline, 0}
    BY DEF RequestDueAhead, DueAhead
  <2>1. block \in BlockType /\ ticks \in Nat /\ block.active.deadline \in Nat
    BY DEF TypeOK, BlockType, Requests
  <2>2. ASSUME NEW command \in CommandWrites, block' = Command(block, command, ticks)
        PROVE  block'.active = block.active
    BY <2>1, <2>2, CommandEffect, MachineAssumption
  <2>3. ASSUME block' = Completed(block), ticks' = ticks + 1, Due(block, ticks + 1)
        PROVE  block'.active = None /\ ticks' = block.active.deadline
    <3>1. ticks < block.active.deadline /\ block.active.deadline <= ticks + 1
      BY <2>3 DEF Due, DueAhead
    <3> QED BY <2>1, <2>3, <3>1, CompletedEffect
  <2>4. ASSUME block' = BlockInit PROVE block'.active = None
    BY <2>4 DEF BlockInit
  <2> QED BY <2>1, <2>2, <2>3, <2>4, BlockStep, RequestKept
<1> QED BY <1>1, TypeCorrect, RequestsComeDue, PTL DEF Spec, RequestSnapshotKept

\* A medium that changes does so when a write request for it comes due.
LEMMA MediaStep ==
  ASSUME TypeOK, UnsavedIsDirty, RequestDueAhead, [Next]_vars,
         NEW u \in Units, media'[u] # media[u]
  PROVE  /\ block.active # None
         /\ block.active.unit = u /\ block.active.command = 2
         /\ ticks' = block.active.deadline
         /\ \A lba \in Lbas(u) \ Sectors(block.active) :
              media'[u][lba] = media[u][lba]
<1> DEFINE r == block.active
<1>1. ~(UNCHANGED <<media, dirty, file>>)
  OBVIOUS
<1>2. \A v \in Units : ~Flush(v)
  BY DEF Flush
<1>3. ~Reset
  <2> SUFFICES ASSUME Reset PROVE FALSE
    OBVIOUS
  <2>1. media'[u] = IF Attached(u) THEN file[u] ELSE media[u]
    BY DEF Reset
  <2>2. Attached(u) => file[u] = media[u]
    BY DEF Reset, UnsavedIsDirty
  <2> QED BY <2>1, <2>2
<1>4. PICK recorded : AdvanceTicks(recorded)
  BY <1>1, <1>2, <1>3, QuietStep
<1>5. Due(block, ticks + 1) /\ media' = MediaAfter(r, media, ram) /\ ticks' = ticks + 1
  BY <1>4 DEF AdvanceTicks
<1>6. Writes(r)
  BY <1>5 DEF MediaAfter
<1>7. r # None /\ r.command = 2 /\ r.unit \in Units
  BY <1>5, <1>6 DEF Due, Writes, Outcome
<1>8. r.deadline \in Nat /\ ticks \in Nat
  BY <1>7 DEF TypeOK, BlockType, Requests
<1>9. ticks' = r.deadline
  BY <1>5, <1>7, <1>8 DEF Due, RequestDueAhead
<1>10. media' = [media EXCEPT ![r.unit] = [lba \in Lbas(r.unit) |->
                   IF lba \in Sectors(r) THEN ram[r.dma + (lba - r.lba)] ELSE @[lba]]]
  BY <1>5, <1>6 DEF MediaAfter
<1> HIDE DEF r
<1>11. r.unit = u
  BY <1>10 DEF TypeOK
<1>12. \A lba \in Lbas(u) \ Sectors(r) : media'[u][lba] = media[u][lba]
  BY <1>7, <1>10, <1>11 DEF TypeOK
<1> QED BY <1>7, <1>9, <1>11, <1>12 DEF r

\* Only a tick and a reset move virtual time.
LEMMA HostKeepsTime == ASSUME HostAccess PROVE ticks' = ticks
BY DEF HostAccess, DeliverUart, Observe, Flush

LEMMA AccessKeepsTime == ASSUME Access PROVE ticks' = ticks
<1> USE DEF Access, OtherAccess
<1> QED
  BY DEF ReadRegister, WriteEnable, WritePriority, ReadClaim, WriteEoi, WritePeriod,
         WriteControl, WriteSysTickAck, SysTickUpdate, ReadRxData, WriteTxData,
         WriteUartControl, WriteBlockRegister, WriteBlockControl,
         WriteBlockCommand, WriteBlockAck, BlockUpdate, WriteTrace, StoreRam

\* The request that comes due leaves RAM and the media as Transferred says.
LEMMA TransferEffect ==
  ASSUME TypeOK, NEW recorded, AdvanceTicks(recorded), Due(block, ticks + 1)
  PROVE  Transferred(block.active)
<1> DEFINE r == block.active
<1>1. r \in Requests
  BY DEF TypeOK, BlockType, Due
<1>2. /\ block'.error = Outcome(r)
      /\ ram' = RamAfter(r, media, ram) /\ media' = MediaAfter(r, media, ram)
  BY DEF AdvanceTicks, Completed, TypeOK, BlockType
<1>3. media \in [Units -> UNION {Images(u) : u \in Units}]
  BY DEF TypeOK
<1> HIDE DEF r
<1>4. CASE Outcome(r) # "None"
  BY <1>2, <1>4 DEF Transferred, RamAfter, MediaAfter, Reads, Writes, r
<1>5. CASE Outcome(r) = "None"
  <2>1. r.unit \in Units /\ r.command \in {1, 2}
    BY <1>5 DEF Outcome
  <2>2. /\ r.lba \in Nat /\ r.count \in Nat /\ r.dma \in Int
        /\ RamSectors \in Nat /\ MediaSectors[r.unit] \in Nat
    BY <1>1, <2>1, BlockAssumption DEF Requests
  <2>3. /\ r.dma \in RamAddresses /\ r.dma + r.count <= RamSectors
        /\ r.lba + r.count <= MediaSectors[r.unit]
    BY <1>5, <2>1, <2>2 DEF Outcome, DmaOutsideRam
  <2>4. CASE r.command = 1
    <3>1. Reads(r) /\ ~Writes(r)
      BY <1>5, <2>4 DEF Reads, Writes
    <3>2. /\ media' = media
          /\ ram' = [a \in RamAddresses |->
                       IF a \in r.dma .. (r.dma + r.count - 1)
                         THEN media[r.unit][r.lba + (a - r.dma)] ELSE ram[a]]
      BY <1>2, <3>1 DEF RamAfter, MediaAfter
    <3>3. ASSUME NEW i \in 0 .. (r.count - 1)
          PROVE  ram'[r.dma + i] = media'[r.unit][r.lba + i]
      <4>1. /\ r.dma + i \in RamAddresses /\ r.dma + i \in r.dma .. (r.dma + r.count - 1)
            /\ r.lba + ((r.dma + i) - r.dma) = r.lba + i
        BY <2>2, <2>3 DEF RamAddresses
      <4> QED BY <3>2, <4>1
    <3>4. \A a \in RamAddresses \ (r.dma .. (r.dma + r.count - 1)) : ram'[a] = ram[a]
      BY <3>2
    <3> QED BY <1>2, <1>5, <2>4, <3>2, <3>3, <3>4 DEF Transferred, r
  <2>5. CASE r.command = 2
    <3>1. Writes(r) /\ ~Reads(r)
      BY <1>5, <2>5 DEF Reads, Writes
    <3>2. /\ ram' = ram
          /\ media' = [media EXCEPT ![r.unit] = [lba \in Lbas(r.unit) |->
                         IF lba \in Sectors(r) THEN ram[r.dma + (lba - r.lba)]
                                               ELSE @[lba]]]
      BY <1>2, <3>1 DEF RamAfter, MediaAfter
    <3>3. \A lba \in Lbas(r.unit) : lba \in Sectors(r) =>
            media'[r.unit][lba] = ram[r.dma + (lba - r.lba)]
      BY <1>3, <2>1, <3>2
    <3>4. ASSUME NEW i \in 0 .. (r.count - 1)
          PROVE  ram'[r.dma + i] = media'[r.unit][r.lba + i]
      <4>1. /\ r.lba + i \in Lbas(r.unit) /\ r.lba + i \in Sectors(r)
            /\ r.dma + ((r.lba + i) - r.lba) = r.dma + i
        BY <2>2, <2>3 DEF Lbas, Sectors
      <4> QED BY <3>2, <3>3, <4>1
    <3> QED BY <1>2, <1>5, <2>5, <3>2, <3>4 DEF Transferred, r
  <2> QED BY <2>1, <2>4, <2>5
<1> QED BY <1>4, <1>5

\* A medium changes only at the deadline of a write request for it, in the sectors
\* the request names, and a request that completes has transferred all of them or none,
\* as its error says; a reset reads back what the guest has written (execute, reset).
THEOREM OnlyWritesChangeMedia == Spec => OnlyRequestedSectorsChange
<1>1. TypeOK /\ UnsavedIsDirty /\ RequestDueAhead /\ [Next]_vars =>
        [/\ \A u \in Units : media'[u] # media[u] =>
              /\ block.active # None
              /\ block.active.unit = u /\ block.active.command = 2
              /\ ticks' = block.active.deadline
              /\ \A lba \in Lbas(u) \ Sectors(block.active) :
                   media'[u][lba] = media[u][lba]
         /\ block.active # None /\ ticks' = block.active.deadline =>
              Transferred(block.active)]_vars
  <2> SUFFICES ASSUME TypeOK, UnsavedIsDirty, RequestDueAhead, [Next]_vars,
                      block.active # None, ticks' = block.active.deadline
               PROVE  Transferred(block.active)
    BY MediaStep
  <2>1. ticks \in Nat /\ ticks < ticks'
    BY DEF TypeOK, RequestDueAhead
  <2>2. ~(UNCHANGED vars) /\ ~Access /\ ~Host
    BY <2>1, HostKeepsTime, AccessKeepsTime DEF vars, Host, Reset
  <2>3. PICK recorded : AdvanceTicks(recorded)
    BY <2>2 DEF Next, Guest, Tick, FinishInstruction, EnterException
  <2>4. Due(block, ticks + 1)
    BY <2>1, <2>3 DEF AdvanceTicks, Due
  <2> QED BY <2>3, <2>4, TransferEffect
<1> QED BY <1>1, TypeCorrect, WriteBackCorrect, RequestsComeDue, PTL
        DEF Spec, OnlyRequestedSectorsChange

-----------------------------------------------------------------------------
(* Claims *)

\* Of what the guest and the host do, an EOI aside, only a claim read touches the claim.
LEMMA ClaimKept ==
  ASSUME TypeOK, OtherAccess \/ Tick \/ HostAccess
  PROVE  intc'.claim = intc.claim \/ ReadClaim
<1>1. intc \in IntcType
  BY DEF TypeOK
<1>2. ASSUME NEW c, c \in IntcType, NEW sent, Bus(c, sent) PROVE intc'.claim = c.claim
  BY <1>2 DEF Bus, ProcessSignals, IntcType
<1>3. ASSUME NEW sources \in EnableWrites, WriteEnable(sources)
      PROVE  intc'.claim = intc.claim
  <2>1. /\ SetEnabled(intc, sources) \in IntcType
        /\ SetEnabled(intc, sources).claim = intc.claim
    BY <1>1, MachineAssumption DEF SetEnabled, IntcType
  <2> QED BY <1>2, <1>3, <2>1 DEF WriteEnable
<1>4. ASSUME NEW w \in PriorityWrites, WritePriority(w[1], w[2])
      PROVE  intc'.claim = intc.claim
  <2>1. /\ SetPriority(intc, w[1], w[2]) \in IntcType
        /\ SetPriority(intc, w[1], w[2]).claim = intc.claim
    BY <1>1, MachineAssumption DEF SetPriority, IntcType
  <2> QED BY <1>2, <1>4, <2>1 DEF WritePriority
<1>6. ASSUME NEW sent, Bus(intc, sent) PROVE intc'.claim = intc.claim
  BY <1>1, <1>2, <1>6
<1>7. ASSUME NEW recorded, AdvanceTicks(recorded) PROVE intc'.claim = intc.claim
  <2>1. \E sent : Bus(intc, sent)
    BY <1>7 DEF AdvanceTicks
  <2> QED BY <1>6, <2>1
<1>8. ASSUME NEW t, SysTickUpdate(t) PROVE intc'.claim = intc.claim
  BY <1>6, <1>8 DEF SysTickUpdate
<1>9. ASSUME NEW b, BlockUpdate(b) PROVE intc'.claim = intc.claim
  BY <1>6, <1>9 DEF BlockUpdate
<1>10. CASE \/ \E period \in PeriodWrites : WritePeriod(period)
            \/ \E bits \in ControlWrites : WriteControl(bits)
            \/ WriteSysTickAck
  BY <1>8, <1>10 DEF WritePeriod, WriteControl, WriteSysTickAck
<1>11. CASE \/ \E register \in DOMAIN RegisterWrites :
                 \E v \in RegisterWrites[register] : WriteBlockRegister(register, v)
            \/ \E irqEnabled \in BOOLEAN : WriteBlockControl(irqEnabled)
            \/ \E command \in CommandWrites : WriteBlockCommand(command)
            \/ WriteBlockAck
  BY <1>9, <1>11 DEF WriteBlockRegister, WriteBlockControl, WriteBlockCommand,
     WriteBlockAck
<1>12. CASE \/ ReadRegister \/ Observe
            \/ \E p \in ActivePorts : ReadRxData(p)
            \/ \E p \in ActivePorts, byte \in Bytes : WriteTxData(p, byte)
            \/ \E p \in ActivePorts, irqEnabled \in BOOLEAN :
                 WriteUartControl(p, irqEnabled)
            \/ \E value \in TraceValues : WriteTrace(value)
  BY <1>6, <1>12 DEF ReadRegister, Observe, ReadRxData, WriteTxData, WriteUartControl,
     WriteTrace
<1>13. CASE \/ \E w \in RamWrites : StoreRam(w[1], w[2])
            \/ \E p \in ActivePorts, byte \in Bytes : DeliverUart(p, byte)
            \/ \E u \in Units : Flush(u)
  BY <1>13 DEF StoreRam, DeliverUart, Flush, Queue, intcVars
<1>14. CASE Tick
  BY <1>7, <1>14 DEF Tick, FinishInstruction, EnterException
<1> QED BY <1>3, <1>4, <1>10, <1>11, <1>12, <1>13, <1>14 DEF OtherAccess, HostAccess

\* How a step may change the claim.
LEMMA ClaimStep ==
  ASSUME TypeOK, [Next]_vars
  PROVE  \/ intc'.claim = intc.claim
         \/ \E msgs : intc' = ProcessSignals(Eoi(intc), msgs)
         \/ ReadClaim
         \/ intc' = IntcInit
<1>1. ASSUME NEW id, WriteEoi(id) PROVE \E msgs : intc' = ProcessSignals(Eoi(intc), msgs)
  BY <1>1 DEF WriteEoi, Bus
<1>2. CASE Reset
  BY <1>2 DEF Reset
<1>3. CASE UNCHANGED vars
  BY <1>3 DEF vars, intcVars
<1> QED BY <1>1, <1>2, <1>3, ClaimKept DEF Next, Guest, Access, Host

\* What a claim does to a controller that has received its signals.
LEMMA ClaimEffect ==
  ASSUME NEW c \in IntcType
  PROVE  /\ c.claim # None => Claim(c) = c
         /\ c.claim = None /\ Claim(c).claim # None =>
              /\ Claim(c).claim \in Claimable(c)
              /\ \A t \in Claimable(c) \ {Claim(c).claim} : Precedes(c, Claim(c).claim, t)
<1>1. ASSUME c.claim # None PROVE Claim(c) = c
  BY <1>1 DEF Claim
<1>2. ASSUME c.claim = None, Claim(c).claim # None
      PROVE  /\ Claim(c).claim \in Claimable(c)
             /\ \A t \in Claimable(c) \ {Claim(c).claim} : Precedes(c, Claim(c).claim, t)
  <2> DEFINE Least(s) == \A t \in Claimable(c) \ {s} : Precedes(c, s, t)
             chosen == CHOOSE s \in Claimable(c) : Least(s)
  <2>1. Claimable(c) # {}
    BY <1>2 DEF Claim
  <2>2. chosen \in Claimable(c) /\ Least(chosen)
    BY <2>1, MostUrgentExists
  <2>3. Claim(c).claim = chosen
    BY <1>2, <2>1 DEF Claim, IntcType
  <2> HIDE DEF chosen
  <2> QED BY <2>2, <2>3
<1> QED BY <1>1, <1>2

\* A claim read changes nothing while a claim is held.
LEMMA HeldClaimStays ==
  ASSUME TypeOK, intc.claim # None, ReadClaim
  PROVE  intc'.claim = intc.claim
<1> DEFINE c == ProcessSignals(intc, channel)
<1>1. intc \in IntcType
  BY DEF TypeOK
<1>2. c \in IntcType
  BY <1>1, ProcessSignalsType DEF TypeOK
<1>3. c.claim = intc.claim
  BY <1>1 DEF ProcessSignals, IntcType
<1>4. intc' = ProcessSignals(Claim(c), channel \o <<>>)
  BY DEF ReadClaim, Bus
<1> HIDE DEF c
<1>5. Claim(c) = c
  BY <1>2, <1>3, ClaimEffect
<1> QED BY <1>2, <1>3, <1>4, <1>5 DEF ProcessSignals, IntcType

\* A claim is kept until the EOI of its own source or a reset: no other access, no
\* tick, no host step and no EOI of another source changes it (claim, eoi,
\* process_signals).
THEOREM ClaimsAreRetained == Spec => ClaimRetained
<1>1. TypeOK =>
        [intc.claim # None /\ intc'.claim # intc.claim =>
           ~(\/ OtherAccess \/ Tick \/ HostAccess
             \/ \E s \in Sources \ {intc.claim} : WriteEoi(SourceId[s]))]_vars
  <2> SUFFICES ASSUME TypeOK, intc.claim # None, intc'.claim # intc.claim
               PROVE  /\ ~(OtherAccess \/ Tick \/ HostAccess)
                      /\ \A s \in Sources \ {intc.claim} : ~WriteEoi(SourceId[s])
    OBVIOUS
  <2>1. ~(OtherAccess \/ Tick \/ HostAccess)
    BY ClaimKept, HeldClaimStays
  <2>2. intc.claim \in Sources
    BY DEF TypeOK, IntcType
  <2>3. \A s \in Sources \ {intc.claim} : SourceId[s] # SourceId[intc.claim]
    BY <2>2 DEF Sources, SourceId
  <2>4. \A s \in Sources \ {intc.claim} : ~WriteEoi(SourceId[s])
    BY <2>3 DEF WriteEoi, EoiAccepted
  <2> QED BY <2>1, <2>4
<1> QED BY <1>1, TypeCorrect, PTL DEF ClaimRetained

\* A new claim names the most urgent of the enabled sources whose device asserts its
\* level, although the controller decides from PENDING alone (claim, process_signals).
THEOREM ClaimsAreMostUrgent == Spec => ClaimIsMostUrgent
<1>1. TypeOK /\ PendingMatchesLevels /\ [Next]_vars =>
        [intc.claim = None /\ intc'.claim # None =>
           LET asserted == {s \in intc.enabled : Level(s)}
           IN  /\ intc'.claim \in asserted
               /\ \A t \in asserted \ {intc'.claim} :
                    ~Precedes(intc, t, intc'.claim)]_vars
  <2> SUFFICES ASSUME TypeOK, PendingMatchesLevels, [Next]_vars,
                      intc.claim = None, intc'.claim # None
               PROVE  LET asserted == {s \in intc.enabled : Level(s)}
                      IN  /\ intc'.claim \in asserted
                          /\ \A t \in asserted \ {intc'.claim} :
                               ~Precedes(intc, t, intc'.claim)
    OBVIOUS
  <2> DEFINE c == ProcessSignals(intc, channel)
             asserted == {s \in intc.enabled : Level(s)}
             claim == intc'.claim
  <2>1. intc \in IntcType
    BY DEF TypeOK
  <2>2. ~(\E msgs : intc' = ProcessSignals(Eoi(intc), msgs)) /\ intc' # IntcInit
    <3>1. Eoi(intc) \in IntcType /\ Eoi(intc).claim = None
      BY <2>1 DEF Eoi, IntcType
    <3>2. \A msgs : ProcessSignals(Eoi(intc), msgs).claim = None
      BY <3>1 DEF ProcessSignals, IntcType
    <3>3. IntcInit.claim = None
      BY DEF IntcInit
    <3> HIDE DEF claim
    <3> QED BY <3>2, <3>3
  <2>3. ReadClaim
    BY <2>2, ClaimStep
  <2>4. c \in IntcType
    BY <2>1, ProcessSignalsType
  <2>5. /\ c.claim = None /\ c.enabled = intc.enabled /\ c.priority = intc.priority
        /\ c.pending = Drained(intc.pending, channel)
    BY <2>1 DEF ProcessSignals, IntcType
  <2>6. intc' = ProcessSignals(Claim(c), channel \o <<>>)
    BY <2>3 DEF ReadClaim, Bus
  <2> HIDE DEF c
  <2>7. claim = Claim(c).claim
    BY <2>4, <2>6, ClaimType DEF ProcessSignals, IntcType
  <2>8. Claimable(c) = asserted
    BY <2>1, <2>5 DEF Claimable, PendingMatchesLevels, IntcType
  <2>9. claim \in asserted /\ \A t \in asserted \ {claim} : Precedes(c, claim, t)
    BY <2>4, <2>5, <2>7, <2>8, ClaimEffect
  <2>10. asserted \subseteq Sources /\ intc.priority \in [Sources -> Int]
    BY <2>1 DEF IntcType, PriorityValues
  <2>11. \A s \in Sources : SourceId[s] \in Int
    BY DEF SourceId, Sources
  <2> HIDE DEF asserted, claim
  <2>12. \A t \in asserted \ {claim} : ~Precedes(intc, t, claim)
    BY <2>5, <2>9, <2>10, <2>11 DEF Precedes
  <2> QED BY <2>9, <2>12 DEF asserted, claim
<1> QED BY <1>1, TypeCorrect, PendingCorrect, PTL DEF Spec, ClaimIsMostUrgent

=============================================================================
