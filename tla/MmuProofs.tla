------------------------------ MODULE MmuProofs ------------------------------
(***************************************************************************)
(* What the MMU promises, for any tables, any ROM and any physical map.    *)
(*                                                                         *)
(* The heart is that the walks do not disturb each other (MarkingIsHarmless):*)
(* a word that a walk marks granted an access, so it has a permission bit, *)
(* so it can never have been read as a directory entry; and the two bits   *)
(* the mark adds decide nothing.                                           *)
(***************************************************************************)
EXTENDS Mmu, TLAPS

Indices == 0 .. (Entries - 1)

Memories == [ReadablePages -> [Indices -> Words]]

MmuType == [enabled : BOOLEAN, ttbr0 : RamPages \cup {0}, vectorBase : Nat,
            fault : Faults \cup {None}]

LEMMA IndexType ==
  ASSUME NEW vp \in VirtualPages
  PROVE  /\ vp \in Nat /\ vp \in PageNumbers
         /\ DirectoryIndex(vp) \in Indices /\ TableIndex(vp) \in Indices
<1>1. vp \in Nat /\ vp < Entries * Entries /\ Entries \in Nat \ {0} /\ vp \in PageNumbers
  BY MmuAssumption DEF VirtualPages
<1>2. TableIndex(vp) \in Indices
  BY <1>1 DEF TableIndex, Indices
<1>3. DirectoryIndex(vp) \in Indices
  <2> DEFINE d == vp \div Entries
  <2>1. d \in Nat /\ d * Entries <= vp
    BY <1>1
  <2>2. ASSUME d >= Entries PROVE FALSE
    <3>1. d * Entries >= Entries * Entries
      BY <1>1, <2>1, <2>2
    <3> QED BY <1>1, <2>1, <3>1
  <2> QED BY <1>1, <2>1, <2>2 DEF DirectoryIndex, Indices
<1> QED BY <1>1, <1>2, <1>3

\* A directory is RAM or the Boot ROM, a table is RAM: both can be read.
LEMMA TableTypes ==
  ASSUME NEW m \in MmuType, NEW mem \in Memories, NEW vp \in VirtualPages
  PROVE  /\ Pde(m, mem, vp) \in Words
         /\ NamesTable(Pde(m, mem, vp)) =>
              Pde(m, mem, vp).page \in RamPages /\ Pte(m, mem, vp) \in Words
<1>1. m.ttbr0 \in ReadablePages
  BY MmuAssumption DEF MmuType, RamPages, ReadablePages, VirtualPages
<1>2. DirectoryIndex(vp) \in Indices /\ TableIndex(vp) \in Indices
  BY IndexType
<1>3. Pde(m, mem, vp) \in Words
  BY <1>1, <1>2 DEF Pde, Memories
<1>4. RamPages \subseteq ReadablePages
  BY DEF RamPages, ReadablePages
<1>5. ASSUME NamesTable(Pde(m, mem, vp))
      PROVE  Pde(m, mem, vp).page \in RamPages /\ Pte(m, mem, vp) \in Words
  BY <1>2, <1>4, <1>5 DEF NamesTable, Pte, Memories
<1> QED BY <1>3, <1>5

LEMMA MarkedType ==
  ASSUME NEW word \in Words, NEW access \in Accesses
  PROVE  /\ Marked(word, access) \in Words
         /\ Marked(word, access).valid = word.valid
         /\ Marked(word, access).page = word.page
         /\ Marked(word, access).bits =
              word.bits \cup {"ACCESSED"} \cup (IF access = "Write" THEN {"DIRTY"} ELSE {})
  BY DEF Marked, Words, Bits

\* What an access that is not refused has met.
LEMMA Granted ==
  ASSUME NEW m, NEW mem, NEW vp, NEW access \in Accesses, NEW usr \in BOOLEAN,
         Cause(m, mem, vp, access, usr) = "None"
  PROVE  /\ NamesTable(Pde(m, mem, vp)) /\ Pte(m, mem, vp).valid
         /\ Permits(Pte(m, mem, vp).bits, access, usr)
         /\ ~("USER" \in Pte(m, mem, vp).bits /\ Region[Pte(m, mem, vp).page] = "Device")
         /\ Region[Pte(m, mem, vp).page] # "Unmapped"
         /\ ~(access = "Write" /\ Region[Pte(m, mem, vp).page] = "Rom")
  BY DEF Cause, Protection, Accesses

LEMMA GrantedConverse ==
  ASSUME NEW m, NEW mem, NEW vp, NEW access \in Accesses, NEW usr \in BOOLEAN,
         NamesTable(Pde(m, mem, vp)), Pte(m, mem, vp).valid,
         Permits(Pte(m, mem, vp).bits, access, usr),
         ~("USER" \in Pte(m, mem, vp).bits /\ Region[Pte(m, mem, vp).page] = "Device"),
         Region[Pte(m, mem, vp).page] # "Unmapped",
         ~(access = "Write" /\ Region[Pte(m, mem, vp).page] = "Rom")
  PROVE  Cause(m, mem, vp, access, usr) = "None"
  BY DEF Cause

\* After a walk has marked its table entry, every other access that was granted
\* is granted still, to the same page, and no mark is lost.
LEMMA MarkingIsHarmless ==
  ASSUME NEW m \in MmuType, NEW mem \in Memories,
         NEW vp \in VirtualPages, NEW access \in Accesses, NEW usr \in BOOLEAN,
         Cause(m, mem, vp, access, usr) = "None",
         NEW vq \in VirtualPages, NEW kind \in Accesses, NEW usq \in BOOLEAN,
         Cause(m, mem, vq, kind, usq) = "None"
  PROVE  LET after == MarkedMemory(m, mem, vp, access)
         IN  /\ Cause(m, after, vq, kind, usq) = "None"
             /\ Pte(m, after, vq).page = Pte(m, mem, vq).page
             /\ Pte(m, mem, vq).bits \subseteq Pte(m, after, vq).bits
             /\ vq = vp => Pte(m, after, vq) = Marked(Pte(m, mem, vp), access)
             /\ Pte(m, after, vq) \in Words
<1> DEFINE after == MarkedMemory(m, mem, vp, access)
           table == Pde(m, mem, vp).page
           index == TableIndex(vp)
           old   == mem[table][index]
           new   == Marked(old, access)
<1>1. /\ NamesTable(Pde(m, mem, vp)) /\ Permits(old.bits, access, usr)
  BY Granted DEF Pte
<1>2. /\ NamesTable(Pde(m, mem, vq)) /\ Pte(m, mem, vq).valid
      /\ Permits(Pte(m, mem, vq).bits, kind, usq)
      /\ ~("USER" \in Pte(m, mem, vq).bits /\ Region[Pte(m, mem, vq).page] = "Device")
      /\ Region[Pte(m, mem, vq).page] # "Unmapped"
      /\ ~(kind = "Write" /\ Region[Pte(m, mem, vq).page] = "Rom")
  BY Granted
<1>3. /\ table \in RamPages /\ old \in Words /\ index \in Indices
      /\ Pde(m, mem, vq).page \in RamPages /\ Pte(m, mem, vq) \in Words
      /\ TableIndex(vq) \in Indices /\ DirectoryIndex(vq) \in Indices
      /\ m.ttbr0 \in ReadablePages /\ RamPages \subseteq ReadablePages
  <2>1. table \in RamPages /\ old \in Words
    BY <1>1, TableTypes DEF Pte
  <2>2. Pde(m, mem, vq).page \in RamPages /\ Pte(m, mem, vq) \in Words
    BY <1>2, TableTypes
  <2>3. index \in Indices /\ TableIndex(vq) \in Indices /\ DirectoryIndex(vq) \in Indices
    BY IndexType
  <2>4. m.ttbr0 \in ReadablePages /\ RamPages \subseteq ReadablePages
    BY MmuAssumption DEF MmuType, RamPages, ReadablePages, VirtualPages
  <2> QED BY <2>1, <2>2, <2>3, <2>4
<1>4. /\ new \in Words /\ new.valid = old.valid /\ new.page = old.page
      /\ old.bits \subseteq new.bits
      /\ new.bits \subseteq old.bits \cup {"ACCESSED", "DIRTY"}
  BY <1>3, MarkedType
<1> HIDE DEF new
<1>5. old.bits # {}
  BY <1>1 DEF Permits, Needed, Accesses
<1>6. after = [mem EXCEPT ![table] = [mem[table] EXCEPT ![index] = new]]
  BY DEF after, MarkedMemory, new
<1>7. \A p \in ReadablePages, i \in Indices :
        after[p][i] = IF p = table /\ i = index THEN new ELSE mem[p][i]
  BY <1>3, <1>6 DEF Memories
<1>8. Pde(m, after, vq) = Pde(m, mem, vq)
  <2>1. Pde(m, mem, vq).bits = {}
    BY <1>2 DEF NamesTable
  <2>2. ~(m.ttbr0 = table /\ DirectoryIndex(vq) = index)
    BY <1>5, <2>1 DEF Pde
  <2> QED BY <1>3, <1>7, <2>2 DEF Pde
<1>9. Pte(m, after, vq) =
        IF Pde(m, mem, vq).page = table /\ TableIndex(vq) = index
          THEN new ELSE Pte(m, mem, vq)
  BY <1>3, <1>7, <1>8 DEF Pte
<1>10. /\ Pte(m, after, vq) \in Words
       /\ Pte(m, after, vq).valid = Pte(m, mem, vq).valid
       /\ Pte(m, after, vq).page = Pte(m, mem, vq).page
       /\ Pte(m, mem, vq).bits \subseteq Pte(m, after, vq).bits
       /\ Pte(m, after, vq).bits \subseteq Pte(m, mem, vq).bits \cup {"ACCESSED", "DIRTY"}
  <2>1. CASE Pde(m, mem, vq).page = table /\ TableIndex(vq) = index
    <3>1. Pte(m, mem, vq) = old /\ Pte(m, after, vq) = new
      BY <1>9, <2>1 DEF Pte
    <3> QED BY <1>4, <3>1
  <2>2. CASE ~(Pde(m, mem, vq).page = table /\ TableIndex(vq) = index)
    BY <1>3, <1>9, <2>2
  <2> QED BY <2>1, <2>2
<1>11. Permits(Pte(m, after, vq).bits, kind, usq)
  BY <1>2, <1>10 DEF Permits
<1>12. "USER" \in Pte(m, after, vq).bits => "USER" \in Pte(m, mem, vq).bits
  BY <1>10
<1>13. Cause(m, after, vq, kind, usq) = "None"
  <2>1. NamesTable(Pde(m, after, vq)) /\ Pte(m, after, vq).valid
    BY <1>2, <1>8, <1>10
  <2> QED BY <1>2, <1>10, <1>11, <1>12, <2>1, GrantedConverse
<1>14. vq = vp => Pte(m, after, vq) = Marked(Pte(m, mem, vp), access)
  BY <1>9 DEF new, Pte
<1> QED BY <1>10, <1>13, <1>14

\* A walk reads nothing of the MMU's state but TTBR0.
LEMMA SameWalk ==
  ASSUME NEW m, NEW n, m.ttbr0 = n.ttbr0
  PROVE  \A mem, vp, access, usr : /\ Cause(m, mem, vp, access, usr) = Cause(n, mem, vp, access, usr)
                                  /\ Pte(m, mem, vp) = Pte(n, mem, vp)
<1>1. \A mem, vp : Pde(m, mem, vp) = Pde(n, mem, vp)
  BY DEF Pde
<1>2. \A mem, vp : Pte(m, mem, vp) = Pte(n, mem, vp)
  BY <1>1 DEF Pte
<1> QED BY <1>1, <1>2 DEF Cause

LEMMA MarkedMemoryType ==
  ASSUME NEW m \in MmuType, NEW mem \in Memories, NEW vp \in VirtualPages,
         NEW access \in Accesses, NEW usr \in BOOLEAN,
         Cause(m, mem, vp, access, usr) = "None"
  PROVE  MarkedMemory(m, mem, vp, access) \in Memories /\ Pte(m, mem, vp) \in Words
<1>1. /\ NamesTable(Pde(m, mem, vp)) /\ Pte(m, mem, vp) \in Words
      /\ Pde(m, mem, vp).page \in ReadablePages
  BY Granted, TableTypes DEF RamPages, ReadablePages
<1>2. Marked(mem[Pde(m, mem, vp).page][TableIndex(vp)], access) \in Words
  BY <1>1, MarkedType DEF Pte
<1>3. TableIndex(vp) \in Indices
  BY IndexType
<1> QED BY <1>1, <1>2, <1>3 DEF MarkedMemory, Memories

LEMMA TypeParts ==
  MmuTypeOK <=> /\ mmu \in MmuType /\ memory \in Memories
                /\ tlb \subseteq [vpage : VirtualPages, access : Accesses, user : BOOLEAN,
                                  page : PageNumbers]
                /\ user \in BOOLEAN /\ changed \in BOOLEAN
                /\ failed \in [vpage : VirtualPages, host : BOOLEAN] \cup {None}
  BY DEF MmuTypeOK, MmuType, Memories, Indices

LEMMA RecordType ==
  ASSUME MmuTypeOK, NEW address \in PageNumbers, NEW cause \in Causes,
         NEW access \in Accesses, NEW vp \in VirtualPages, NEW host \in BOOLEAN,
         Record(address, cause, access, vp, host)
  PROVE  /\ mmu' \in MmuType /\ mmu'.ttbr0 = mmu.ttbr0 /\ mmu'.enabled = mmu.enabled
         /\ failed' \in [vpage : VirtualPages, host : BOOLEAN]
<1> DEFINE fault == [address |-> address, cause |-> cause, access |-> access, user |-> user]
<1>1. fault \in Faults
  BY TypeParts DEF Faults
<1> HIDE DEF fault
<1>2. mmu \in MmuType /\ mmu' = [mmu EXCEPT !.fault = fault]
  BY TypeParts DEF Record, fault
<1>3. mmu' \in MmuType /\ mmu'.ttbr0 = mmu.ttbr0 /\ mmu'.enabled = mmu.enabled
  BY <1>1, <1>2 DEF MmuType
<1> QED BY <1>3 DEF Record

\* The translation that a hook gives for an access.
Given(vp) == IF mmu.enabled THEN Pte(mmu, memory, vp).page ELSE vp

\* What a call of the hook does: it refuses, leaving the engine's translations
\* alone, or the engine keeps one more.
LEMMA FillOutcome ==
  ASSUME MmuTypeOK, NEW vp \in VirtualPages, NEW access \in Accesses,
         NEW host \in BOOLEAN, Fill(vp, access, host)
  PROVE  /\ mmu' \in MmuType /\ mmu'.ttbr0 = mmu.ttbr0 /\ mmu'.enabled = mmu.enabled
         /\ memory' \in Memories
         /\ failed' \in [vpage : VirtualPages, host : BOOLEAN] \cup {None}
         /\ \/ memory' = memory
            \/ /\ mmu.enabled /\ Cause(mmu, memory, vp, access, user) = "None"
               /\ memory' = MarkedMemory(mmu, memory, vp, access)
         /\ \/ tlb' = tlb
            \/ /\ tlb' \subseteq tlb \cup {Entry(vp, access, user, Given(vp))}
               /\ Given(vp) \in PageNumbers
               /\ ~(access = "Fetch" /\ Region[Given(vp)] = "Device")
               /\ mmu.enabled => /\ Cause(mmu, memory, vp, access, user) = "None"
                                 /\ memory' = MarkedMemory(mmu, memory, vp, access)
<1> DEFINE cause == IF mmu.enabled THEN Cause(mmu, memory, vp, access, user) ELSE "None"
<1>0. /\ mmu \in MmuType /\ memory \in Memories /\ user \in BOOLEAN /\ vp \in PageNumbers
      /\ failed \in [vpage : VirtualPages, host : BOOLEAN] \cup {None}
      /\ mmu.enabled \in BOOLEAN
  BY TypeParts, IndexType DEF MmuType
<1>1. CASE cause # "None"
  <2>1. Record(vp, cause, access, vp, host) /\ UNCHANGED <<memory, tlb>>
    BY <1>1 DEF Fill
  <2>2. cause \in Causes
    <3>1. mmu.enabled /\ cause = Cause(mmu, memory, vp, access, user)
      BY <1>1
    <3> QED BY <1>1, <3>1 DEF Cause, Causes, Protection, Accesses
  <2> HIDE DEF cause
  <2>3. /\ mmu' \in MmuType /\ mmu'.ttbr0 = mmu.ttbr0 /\ mmu'.enabled = mmu.enabled
        /\ failed' \in [vpage : VirtualPages, host : BOOLEAN]
    BY <1>0, <2>1, <2>2, RecordType
  <2> QED BY <1>0, <2>1, <2>3
<1>2. CASE cause = "None"
  <2>1. /\ memory' = IF mmu.enabled THEN MarkedMemory(mmu, memory, vp, access) ELSE memory
        /\ IF access = "Fetch" /\ Region[Given(vp)] = "Device"
             THEN Record(vp, "DeviceAccess", access, vp, host) /\ UNCHANGED tlb
             ELSE Keep(Entry(vp, access, user, Given(vp))) /\ UNCHANGED <<mmu, failed>>
    BY <1>2 DEF Fill, Given
  <2>2. mmu.enabled => /\ Cause(mmu, memory, vp, access, user) = "None"
                       /\ memory' = MarkedMemory(mmu, memory, vp, access)
    BY <1>2, <2>1
  <2>3. memory' \in Memories /\ Given(vp) \in PageNumbers
    <3>1. CASE mmu.enabled
      BY <1>0, <2>2, <3>1, MarkedMemoryType DEF Given, Words
    <3>2. CASE ~mmu.enabled
      BY <1>0, <2>1, <3>2 DEF Given
    <3> QED BY <1>0, <3>1, <3>2
  <2>4. memory' = memory \/ mmu.enabled
    BY <2>1
  <2>5. CASE access = "Fetch" /\ Region[Given(vp)] = "Device"
    <3>1. Record(vp, "DeviceAccess", access, vp, host) /\ tlb' = tlb
      BY <2>1, <2>5
    <3>2. /\ mmu' \in MmuType /\ mmu'.ttbr0 = mmu.ttbr0 /\ mmu'.enabled = mmu.enabled
          /\ failed' \in [vpage : VirtualPages, host : BOOLEAN]
      BY <1>0, <3>1, RecordType DEF Causes
    <3> QED BY <2>2, <2>3, <2>4, <3>1, <3>2
  <2>6. CASE ~(access = "Fetch" /\ Region[Given(vp)] = "Device")
    <3>1. Keep(Entry(vp, access, user, Given(vp))) /\ UNCHANGED <<mmu, failed>>
      BY <2>1, <2>6
    <3>2. tlb' \subseteq tlb \cup {Entry(vp, access, user, Given(vp))}
      BY <3>1 DEF Keep
    <3> QED BY <1>0, <2>2, <2>3, <2>4, <2>6, <3>1, <3>2
  <2> QED BY <2>5, <2>6
<1> QED BY <1>1, <1>2

LEMMA FillType ==
  ASSUME MmuTypeOK, NEW vp \in VirtualPages, NEW access \in Accesses,
         NEW host \in BOOLEAN, Fill(vp, access, host), user' \in BOOLEAN, UNCHANGED changed
  PROVE  MmuTypeOK'
<1>1. tlb' \subseteq [vpage : VirtualPages, access : Accesses, user : BOOLEAN,
                     page : PageNumbers]
  <2>1. CASE tlb' = tlb
    BY <2>1, TypeParts
  <2>2. CASE /\ tlb' \subseteq tlb \cup {Entry(vp, access, user, Given(vp))}
             /\ Given(vp) \in PageNumbers
    <3>1. Entry(vp, access, user, Given(vp)) \in
            [vpage : VirtualPages, access : Accesses, user : BOOLEAN, page : PageNumbers]
      BY <2>2, TypeParts DEF Entry
    <3> QED BY <2>2, <3>1, TypeParts
  <2> QED BY <2>1, <2>2, FillOutcome
<1>2. /\ mmu' \in MmuType /\ memory' \in Memories
      /\ failed' \in [vpage : VirtualPages, host : BOOLEAN] \cup {None}
  BY FillOutcome
<1>3. changed' \in BOOLEAN
  BY TypeParts
<1> QED BY <1>1, <1>2, <1>3 DEF MmuTypeOK, MmuType, Memories, Indices

LEMMA InitialTypes ==
  /\ MmuInit \in MmuType /\ FreshMemory \in Memories
  /\ MmuInit.enabled = FALSE
<1>1. MmuInit \in MmuType /\ MmuInit.enabled = FALSE
  BY DEF MmuInit, MmuType
<1>2. ZeroWord \in Words
  <2>1. 0 \in PageNumbers
    BY MmuAssumption DEF VirtualPages
  <2>2. {} \in SUBSET Bits
    OBVIOUS
  <2> QED BY <2>1, <2>2 DEF ZeroWord, Words
<1>3. ASSUME NEW p \in ReadablePages PROVE FreshMemory[p] \in [Indices -> Words]
  <2>1. CASE p \in RamPages
    BY <1>2, <2>1 DEF FreshMemory, Indices
  <2>2. CASE p \notin RamPages
    <3>1. p \in PageNumbers /\ Region[p] = "Rom"
      BY <1>3, <2>2 DEF RamPages, ReadablePages
    <3>2. Rom[p] \in [Indices -> Words]
      BY <3>1, MmuAssumption DEF Indices
    <3> QED BY <2>2, <3>2 DEF FreshMemory
  <2> QED BY <2>1, <2>2
<1> QED BY <1>1, <1>3 DEF FreshMemory, Memories

LEMMA AttemptType ==
  ASSUME NEW a \in Attempts
  PROVE  a[1] \in VirtualPages /\ a[2] \in Accesses
  BY MmuAssumption

LEMMA StoreType ==
  ASSUME MmuTypeOK, NEW s \in Stores,
         memory' = [memory EXCEPT ![s[1]][s[2]] = s[3]],
         changed' = TRUE, UNCHANGED <<mmu, tlb, user, failed>>
  PROVE  MmuTypeOK'
<1>1. s[1] \in ReadablePages /\ s[2] \in Indices /\ s[3] \in Words
  BY MmuAssumption DEF Indices, RamPages, ReadablePages
<1>2. memory \in Memories
  BY TypeParts
<1> HIDE DEF MmuTypeOK
<1>3. memory' \in Memories
  BY <1>1, <1>2 DEF Memories
<1> QED BY <1>3, TypeParts DEF MmuTypeOK, MmuType, Memories, Indices

LEMMA TypeStep == ASSUME MmuTypeOK, [Next]_vars PROVE MmuTypeOK'
<1> USE DEF vars
<1>0. /\ mmu \in MmuType /\ memory \in Memories
      /\ tlb \subseteq [vpage : VirtualPages, access : Accesses, user : BOOLEAN,
                        page : PageNumbers]
      /\ user \in BOOLEAN /\ changed \in BOOLEAN
      /\ failed \in [vpage : VirtualPages, host : BOOLEAN] \cup {None}
  BY TypeParts
<1> DEFINE Goal == /\ mmu' \in MmuType /\ memory' \in Memories
                   /\ tlb' \subseteq [vpage : VirtualPages, access : Accesses,
                                      user : BOOLEAN, page : PageNumbers]
                   /\ user' \in BOOLEAN /\ changed' \in BOOLEAN
                   /\ failed' \in [vpage : VirtualPages, host : BOOLEAN] \cup {None}
<1>g. Goal => MmuTypeOK'
  BY DEF MmuTypeOK, MmuType, Memories, Indices
<1>1. ASSUME NEW a \in Attempts, Miss(a[1], a[2]) PROVE MmuTypeOK'
  BY <1>0, <1>1, AttemptType, FillType DEF Miss
<1>2. ASSUME NEW a \in Attempts, InspectVirtual(a[1], a[2]) PROVE MmuTypeOK'
  BY <1>0, <1>2, AttemptType, FillType DEF InspectVirtual
<1>3. ASSUME NEW s \in Stores,
             DmaStore(s[1], s[2], s[3]) \/ \E e \in tlb : Store(e, s[1], s[2], s[3])
      PROVE  MmuTypeOK'
  BY <1>3, StoreType DEF DmaStore, Store
<1>4. ASSUME NEW e \in tlb, InvalidMmio(e) PROVE MmuTypeOK'
  <2>1. e.page \in PageNumbers /\ e.access \in Accesses /\ e.vpage \in VirtualPages
    BY <1>0
  <2>2. Record(e.page, "DeviceAccess", e.access, e.vpage, FALSE)
    BY <1>4 DEF InvalidMmio
  <2>3. mmu' \in MmuType /\ failed' \in [vpage : VirtualPages, host : BOOLEAN]
    BY <2>1, <2>2, RecordType DEF Causes
  <2> QED BY <1>0, <1>4, <1>g, <2>3 DEF InvalidMmio
<1>5. ASSUME NEW page \in Roots, SetTtbr0(page) PROVE MmuTypeOK'
  <2>1. mmu' \in MmuType
    BY <1>0, <1>5 DEF SetTtbr0, MmuType
  <2> QED BY <1>0, <1>5, <1>g, <2>1 DEF SetTtbr0
<1>6. ASSUME NEW enabled \in BOOLEAN, SetMmuEnabled(enabled) PROVE MmuTypeOK'
  <2>1. mmu' \in MmuType
    BY <1>0, <1>6 DEF SetMmuEnabled, MmuType
  <2>2. changed' \in BOOLEAN
    BY <1>6 DEF SetMmuEnabled
  <2> QED BY <1>0, <1>6, <1>g, <2>1, <2>2 DEF SetMmuEnabled
<1>7. CASE InvalidateAll
  BY <1>0, <1>7, <1>g DEF InvalidateAll
<1>8. ASSUME NEW address \in VectorBases, SetVectorBase(address) PROVE MmuTypeOK'
  <2>1. mmu' \in MmuType
    BY <1>0, <1>8, MmuAssumption DEF SetVectorBase, MmuType
  <2> QED BY <1>0, <1>8, <1>g, <2>1 DEF SetVectorBase
<1>9. CASE EnterException \/ ReturnToUser
  BY <1>0, <1>9, <1>g DEF EnterException, ReturnToUser
<1>10. CASE Reset
  BY <1>10, <1>g, InitialTypes DEF Reset
<1>11. CASE UNCHANGED vars
  BY <1>0, <1>11, <1>g
<1> QED
  BY <1>1, <1>2, <1>3, <1>4, <1>5, <1>6, <1>7, <1>8, <1>9, <1>10, <1>11 DEF Next

\* Every variable keeps its type: TTBR0 is always a RAM page or the reset value, so
\* a walk never reads a directory it cannot, whatever the guest writes.
THEOREM MmuTypeCorrect == Spec => []MmuTypeOK
<1>1. Init => MmuTypeOK
  BY InitialTypes DEF Init, MmuTypeOK, MmuType, Memories, Indices
<1> QED BY <1>1, TypeStep, PTL DEF Spec

-----------------------------------------------------------------------------
(* Coherence *)

\* What CoherentTlb asks of one translation.
Coherent(m, mem, e) ==
  IF m.enabled
    THEN /\ Cause(m, mem, e.vpage, e.access, e.user) = "None"
         /\ Pte(m, mem, e.vpage).page = e.page
         /\ Marked(Pte(m, mem, e.vpage), e.access) = Pte(m, mem, e.vpage)
    ELSE e.page = e.vpage

LEMMA CoherentParts ==
  CoherentTlb <=> (~changed => \A e \in tlb : Coherent(mmu, memory, e))
  BY DEF CoherentTlb, Coherent

LEMMA CoherentSame ==
  ASSUME NEW m, NEW n, NEW mem, NEW e,
         m.ttbr0 = n.ttbr0, m.enabled = n.enabled, Coherent(m, mem, e)
  PROVE  Coherent(n, mem, e)
  BY SameWalk DEF Coherent

\* A word carries the marks of an access exactly when marking it changes nothing.
LEMMA MarkedAlready ==
  ASSUME NEW word \in Words, NEW access \in Accesses
  PROVE  Marked(word, access) = word <=>
           "ACCESSED" \in word.bits /\ (access = "Write" => "DIRTY" \in word.bits)
<1> DEFINE marks == {"ACCESSED"} \cup (IF access = "Write" THEN {"DIRTY"} ELSE {})
<1>1. Marked(word, access) = [word EXCEPT !.bits = word.bits \cup marks]
  BY DEF Marked, Words
<1>2. word \in [valid : BOOLEAN, page : PageNumbers, bits : SUBSET Bits]
  BY DEF Words
<1>3. ASSUME Marked(word, access) = word PROVE word.bits \cup marks = word.bits
  <2>1. Marked(word, access).bits = word.bits \cup marks
    BY <1>1, <1>2
  <2> QED BY <1>3, <2>1
<1>4. ASSUME word.bits \cup marks = word.bits PROVE Marked(word, access) = word
  BY <1>1, <1>2, <1>4
<1>5. word.bits \cup marks = word.bits <=>
        "ACCESSED" \in word.bits /\ (access = "Write" => "DIRTY" \in word.bits)
  OBVIOUS
<1> QED BY <1>3, <1>4, <1>5

LEMMA FillCoherent ==
  ASSUME MmuTypeOK, CoherentTlb, ~changed, UNCHANGED changed,
         NEW vp \in VirtualPages, NEW access \in Accesses, NEW host \in BOOLEAN,
         Fill(vp, access, host)
  PROVE  CoherentTlb'
<1> DEFINE new == Entry(vp, access, user, Given(vp))
<1>0. /\ mmu \in MmuType /\ memory \in Memories /\ user \in BOOLEAN
      /\ mmu.enabled \in BOOLEAN
      /\ \A e \in tlb : /\ e.vpage \in VirtualPages /\ e.access \in Accesses
                         /\ e.user \in BOOLEAN /\ Coherent(mmu, memory, e)
  BY TypeParts, CoherentParts DEF MmuType
<1>1. mmu'.ttbr0 = mmu.ttbr0 /\ mmu'.enabled = mmu.enabled
  BY FillOutcome
<1>2. new.vpage = vp /\ new.access = access /\ new.user = user /\ new.page = Given(vp)
  BY DEF Entry
<1> HIDE DEF new
<1>3. ASSUME NEW e \in tlb PROVE Coherent(mmu, memory', e)
  <2>1. CASE memory' = memory
    BY <1>0, <2>1
  <2>2. CASE /\ mmu.enabled /\ Cause(mmu, memory, vp, access, user) = "None"
             /\ memory' = MarkedMemory(mmu, memory, vp, access)
    <3>1. /\ Cause(mmu, memory, e.vpage, e.access, e.user) = "None"
          /\ Pte(mmu, memory, e.vpage).page = e.page
          /\ Marked(Pte(mmu, memory, e.vpage), e.access) = Pte(mmu, memory, e.vpage)
      BY <1>0, <2>2 DEF Coherent
    <3>2. /\ Cause(mmu, memory', e.vpage, e.access, e.user) = "None"
          /\ Pte(mmu, memory', e.vpage).page = Pte(mmu, memory, e.vpage).page
          /\ Pte(mmu, memory, e.vpage).bits \subseteq Pte(mmu, memory', e.vpage).bits
          /\ Pte(mmu, memory', e.vpage) \in Words
      BY <1>0, <2>2, <3>1, MarkingIsHarmless
    <3>3. Pte(mmu, memory, e.vpage) \in Words
      BY <1>0, <3>1, MarkedMemoryType
    <3>4. Marked(Pte(mmu, memory', e.vpage), e.access) = Pte(mmu, memory', e.vpage)
      BY <1>0, <3>1, <3>2, <3>3, MarkedAlready
    <3> QED BY <2>2, <3>1, <3>2, <3>4 DEF Coherent
  <2> QED BY <2>1, <2>2, FillOutcome
<1>4. ASSUME tlb' # tlb PROVE Coherent(mmu, memory', new)
  <2>1. CASE ~mmu.enabled
    BY <1>2, <2>1 DEF Coherent, Given
  <2>2. CASE mmu.enabled
    <3>1. /\ Cause(mmu, memory, vp, access, user) = "None"
          /\ memory' = MarkedMemory(mmu, memory, vp, access)
      BY <1>4, <2>2, FillOutcome
    <3>2. /\ Cause(mmu, memory', vp, access, user) = "None"
          /\ Pte(mmu, memory', vp).page = Pte(mmu, memory, vp).page
          /\ Pte(mmu, memory', vp) = Marked(Pte(mmu, memory, vp), access)
          /\ Pte(mmu, memory', vp) \in Words
      BY <1>0, <3>1, MarkingIsHarmless
    <3>3. Pte(mmu, memory, vp) \in Words
      BY <1>0, <3>1, MarkedMemoryType
    <3>4. Marked(Pte(mmu, memory', vp), access) = Pte(mmu, memory', vp)
      BY <3>2, <3>3, MarkedType, MarkedAlready
    <3> QED BY <1>2, <2>2, <3>2, <3>4 DEF Coherent, Given
  <2> QED BY <1>0, <2>1, <2>2
<1>5. ASSUME NEW e \in tlb' PROVE Coherent(mmu', memory', e)
  <2>1. Coherent(mmu, memory', e)
    <3>1. CASE e \in tlb
      BY <1>3, <3>1
    <3>2. CASE e \notin tlb
      <4>1. e = new /\ tlb' # tlb
        BY <1>5, <3>2, FillOutcome DEF new
      <4> QED BY <1>4, <4>1
    <3> QED BY <3>1, <3>2
  <2> QED BY <1>1, <2>1, CoherentSame
<1> QED BY <1>5 DEF CoherentTlb, Coherent

LEMMA CoherentStep ==
  ASSUME MmuTypeOK, CoherentTlb, [Next]_vars PROVE CoherentTlb'
<1> SUFFICES ASSUME ~changed' PROVE CoherentTlb'
  BY DEF CoherentTlb
<1> DEFINE Calm == /\ ~changed /\ memory' = memory /\ tlb' = tlb
                   /\ mmu'.ttbr0 = mmu.ttbr0 /\ mmu'.enabled = mmu.enabled
<1>c. ASSUME Calm PROVE CoherentTlb'
  <2>1. \A e \in tlb' : Coherent(mmu', memory', e)
    BY <1>c, CoherentParts, CoherentSame
  <2> QED BY <2>1 DEF CoherentTlb, Coherent
<1>m. mmu \in MmuType
  BY TypeParts
<1>1. ASSUME NEW a \in Attempts, Miss(a[1], a[2]) PROVE CoherentTlb'
  BY <1>1, AttemptType, FillCoherent DEF Miss
<1>2. ASSUME NEW a \in Attempts, InspectVirtual(a[1], a[2]) PROVE CoherentTlb'
  BY <1>2, AttemptType, FillCoherent DEF InspectVirtual
<1>3. ASSUME NEW s \in Stores,
             DmaStore(s[1], s[2], s[3]) \/ \E e \in tlb : Store(e, s[1], s[2], s[3])
      PROVE  FALSE
  BY <1>3 DEF DmaStore, Store
<1>4. ASSUME NEW e \in tlb, InvalidMmio(e) PROVE CoherentTlb'
  <2>1. mmu'.ttbr0 = mmu.ttbr0 /\ mmu'.enabled = mmu.enabled
    BY <1>4, <1>m DEF InvalidMmio, Record, MmuType
  <2> QED BY <1>4, <1>c, <2>1 DEF InvalidMmio
<1>5. ASSUME NEW page \in Roots, SetTtbr0(page) PROVE FALSE
  BY <1>5 DEF SetTtbr0
<1>6. ASSUME NEW enabled \in BOOLEAN, SetMmuEnabled(enabled) PROVE CoherentTlb'
  <2>1. ~changed /\ enabled = mmu.enabled
    BY <1>6 DEF SetMmuEnabled
  <2>2. mmu'.ttbr0 = mmu.ttbr0 /\ mmu'.enabled = mmu.enabled
    BY <1>6, <1>m, <2>1 DEF SetMmuEnabled, MmuType
  <2> QED BY <1>6, <1>c, <2>1, <2>2 DEF SetMmuEnabled
<1>7. CASE InvalidateAll \/ Reset
  BY <1>7 DEF InvalidateAll, Reset, CoherentTlb
<1>8. ASSUME NEW address \in VectorBases, SetVectorBase(address) PROVE CoherentTlb'
  <2>1. mmu'.ttbr0 = mmu.ttbr0 /\ mmu'.enabled = mmu.enabled
    BY <1>8, <1>m DEF SetVectorBase, MmuType
  <2> QED BY <1>8, <1>c, <2>1 DEF SetVectorBase
<1>9. CASE EnterException \/ ReturnToUser \/ UNCHANGED vars
  BY <1>9, <1>c DEF EnterException, ReturnToUser, vars
<1> QED
  BY <1>1, <1>2, <1>3, <1>4, <1>5, <1>6, <1>7, <1>8, <1>9 DEF Next

\* A guest that invalidates after its changes never uses a stale translation, for
\* every physical map, ROM, size of the TLB and set of stores, however its pages
\* serve as directory, table and data at once.
THEOREM TlbCoherent == Spec => []CoherentTlb
<1>1. Init => CoherentTlb
  BY DEF Init, CoherentTlb
<1> QED BY <1>1, CoherentStep, MmuTypeCorrect, PTL DEF Spec

-----------------------------------------------------------------------------
(* Isolation *)

FetchesNoDevice == \A e \in tlb : e.access = "Fetch" => Region[e.page] # "Device"

LEMMA FetchStep ==
  ASSUME MmuTypeOK, FetchesNoDevice, [Next]_vars PROVE FetchesNoDevice'
<1>1. ASSUME NEW vp \in VirtualPages, NEW access \in Accesses, NEW host \in BOOLEAN,
             Fill(vp, access, host)
      PROVE  FetchesNoDevice'
  <2> DEFINE new == Entry(vp, access, user, Given(vp))
  <2>1. new.access = access /\ new.page = Given(vp)
    BY DEF Entry
  <2> HIDE DEF new
  <2>2. \/ tlb' = tlb
        \/ tlb' \subseteq tlb \cup {new} /\ ~(access = "Fetch" /\ Region[Given(vp)] = "Device")
    BY <1>1, FillOutcome DEF new
  <2> QED BY <2>1, <2>2 DEF FetchesNoDevice
<1>2. CASE \E a \in Attempts : Miss(a[1], a[2]) \/ InspectVirtual(a[1], a[2])
  BY <1>1, <1>2, AttemptType DEF Miss, InspectVirtual
<1>3. CASE tlb' \in {tlb, {}}
  BY <1>3 DEF FetchesNoDevice
<1> QED
  BY <1>2, <1>3 DEF Next, vars, DmaStore, Store, InvalidMmio, SetTtbr0, SetMmuEnabled,
     InvalidateAll, SetVectorBase, EnterException, ReturnToUser, Reset

\* No fetch ever reaches a device; and while the guest keeps to its side of the
\* protocol, USR mode is given no device, and nobody a write to ROM or a hole.
THEOREM TlbIsolation == Spec => []TlbIsolated
<1>1. Init => FetchesNoDevice
  BY DEF Init, FetchesNoDevice
<1>2. ASSUME MmuTypeOK, CoherentTlb, FetchesNoDevice PROVE TlbIsolated
  <2> SUFFICES ASSUME mmu.enabled, ~changed, NEW e \in tlb
               PROVE  /\ Region[e.page] # "Unmapped"
                      /\ e.user => Region[e.page] # "Device"
                      /\ e.access = "Write" => Region[e.page] # "Rom"
    BY <1>2 DEF TlbIsolated, FetchesNoDevice
  <2>1. e.access \in Accesses /\ e.user \in BOOLEAN
    BY <1>2, TypeParts
  <2>2. /\ Cause(mmu, memory, e.vpage, e.access, e.user) = "None"
        /\ Pte(mmu, memory, e.vpage).page = e.page
    BY <1>2 DEF CoherentTlb
  <2>3. /\ Permits(Pte(mmu, memory, e.vpage).bits, e.access, e.user)
        /\ ~("USER" \in Pte(mmu, memory, e.vpage).bits /\ Region[e.page] = "Device")
        /\ Region[e.page] # "Unmapped"
        /\ ~(e.access = "Write" /\ Region[e.page] = "Rom")
    BY <2>1, <2>2, Granted
  <2> QED BY <2>3 DEF Permits
<1> QED BY <1>1, <1>2, FetchStep, MmuTypeCorrect, TlbCoherent, PTL DEF Spec

-----------------------------------------------------------------------------
(* What the MMU writes *)

Added(p, i) == memory'[p][i].bits \ memory[p][i].bits

\* The MMU writes nothing but Accessed and Dirty, and Dirty only into an entry that
\* permits writing, on every walk of every machine.
THEOREM WritesOnlyAccessBits == Spec => OnlyAccessBitsWritten
<1> DEFINE Allowed(p, i) ==
             /\ memory'[p][i] = [memory[p][i] EXCEPT !.bits = @ \cup Added(p, i)]
             /\ Added(p, i) \subseteq {"ACCESSED", "DIRTY"}
             /\ "DIRTY" \in Added(p, i) => "WRITE" \in memory[p][i].bits
           Writes ==
             ~changed' /\ memory' # memory =>
               \/ memory' = FreshMemory
               \/ \A p \in ReadablePages, i \in Indices : Allowed(p, i)
<1>1. ASSUME MmuTypeOK, NEW vp \in VirtualPages, NEW access \in Accesses,
             NEW host \in BOOLEAN, Fill(vp, access, host),
             memory' # memory, NEW p \in ReadablePages, NEW i \in Indices
      PROVE  Allowed(p, i)
  <2> DEFINE table == Pde(mmu, memory, vp).page
             index == TableIndex(vp)
             old   == memory[table][index]
             new   == Marked(old, access)
  <2>1. /\ Cause(mmu, memory, vp, access, user) = "None"
        /\ memory' = MarkedMemory(mmu, memory, vp, access)
    BY <1>1, FillOutcome
  <2>2. mmu \in MmuType /\ memory \in Memories /\ user \in BOOLEAN
    BY <1>1, TypeParts
  <2>3. /\ old \in Words /\ Permits(old.bits, access, user)
        /\ table \in ReadablePages /\ index \in Indices
    BY <2>1, <2>2, Granted, TableTypes, IndexType DEF Pte, RamPages, ReadablePages
  <2>4. memory' = [memory EXCEPT ![table] = [memory[table] EXCEPT ![index] = new]]
    BY <2>1 DEF MarkedMemory
  <2> HIDE DEF new
  <2>5. memory'[p][i] = IF p = table /\ i = index THEN new ELSE memory[p][i]
    BY <2>2, <2>3, <2>4 DEF Memories
  <2>6. memory[p][i] \in Words
    BY <2>2 DEF Memories
  <2>7. CASE ~(p = table /\ i = index)
    <3>1. memory'[p][i] = memory[p][i] /\ Added(p, i) = {}
      BY <2>5, <2>7 DEF Added
    <3>2. [memory[p][i] EXCEPT !.bits = memory[p][i].bits \cup {}] = memory[p][i]
      BY <2>6 DEF Words
    <3> QED BY <3>1, <3>2
  <2>8. CASE p = table /\ i = index
    <3> DEFINE marks == {"ACCESSED"} \cup (IF access = "Write" THEN {"DIRTY"} ELSE {})
    <3>1. memory'[p][i] = new /\ memory[p][i] = old
      BY <2>5, <2>8
    <3>2. new = [old EXCEPT !.bits = old.bits \cup marks] /\ new.bits = old.bits \cup marks
      BY <2>3 DEF new, Marked, Words
    <3>3. /\ Added(p, i) = marks \ old.bits
          /\ old.bits \cup Added(p, i) = old.bits \cup marks
      BY <3>1, <3>2 DEF Added
    <3>4. "DIRTY" \in Added(p, i) => "WRITE" \in old.bits
      BY <2>3, <3>3 DEF Permits, Needed
    <3> QED BY <3>1, <3>2, <3>3, <3>4
  <2> QED BY <2>7, <2>8
<1>2. ASSUME MmuTypeOK, [Next]_vars PROVE Writes
  <2>1. CASE \E a \in Attempts : Miss(a[1], a[2]) \/ InspectVirtual(a[1], a[2])
    <3>1. PICK a \in Attempts : Miss(a[1], a[2]) \/ InspectVirtual(a[1], a[2])
      BY <2>1
    <3>2. a[1] \in VirtualPages /\ a[2] \in Accesses
      BY AttemptType
    <3>3. \E host \in BOOLEAN : Fill(a[1], a[2], host)
      BY <3>1 DEF Miss, InspectVirtual
    <3> QED BY <1>1, <1>2, <3>2, <3>3
  <2>2. CASE memory' \in {memory, FreshMemory} \/ changed' = TRUE
    BY <2>2
  <2> QED
    BY <1>2, <2>1, <2>2 DEF Next, vars, DmaStore, Store, InvalidMmio, SetTtbr0,
       SetMmuEnabled, InvalidateAll, SetVectorBase, EnterException, ReturnToUser, Reset
<1>3. Writes => (~changed' /\ memory' # memory =>
       \/ memory' = FreshMemory
       \/ \A p \in ReadablePages, i \in 0 .. (Entries - 1) :
            LET added == memory'[p][i].bits \ memory[p][i].bits
            IN  /\ memory'[p][i] = [memory[p][i] EXCEPT !.bits = @ \cup added]
                /\ added \subseteq {"ACCESSED", "DIRTY"}
                /\ "DIRTY" \in added => "WRITE" \in memory[p][i].bits)
  BY DEF Indices, Added
<1> QED BY <1>2, <1>3, MmuTypeCorrect, PTL DEF Spec, OnlyAccessBitsWritten

=============================================================================
