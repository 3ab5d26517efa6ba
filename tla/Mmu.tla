--------------------------------- MODULE Mmu ---------------------------------
(***************************************************************************)
(* The two-level MMU of minemu-core, the CP15 operations that control it,  *)
(* and the virtual TLB through which the Unicorn adapter uses it. The      *)
(* walker caches nothing; the engine keeps each translation it was given,  *)
(* for one kind of access in one privilege, until TLBIALL or until it      *)
(* needs the room.                                                         *)
(*                                                                         *)
(* An address is a page number. One word type serves both levels: a word   *)
(* is a directory entry or a table entry by the walk that reads it.        *)
(***************************************************************************)
EXTENDS Integers, FiniteSets

CONSTANTS
  None,
  Entries,         \* entries of a page directory or table (1024)
  PageNumbers,     \* physical pages
  Region,          \* what each page is: "Ram", "Rom", "Device" or "Unmapped"
  Rom,             \* the words of the ROM pages
  TlbCapacity,     \* translations the engine has room for
  \* what the guest may do
  Attempts,        \* pairs of a virtual page and a kind of access
  Stores,          \* triples of a RAM page, an index and a word stored there
  Roots,           \* values written to TTBR0
  VectorBases      \* values written to VBAR

VirtualPages == 0 .. (Entries * Entries - 1)

Accesses == {"Fetch", "Read", "Write"}

\* Bits [11:1] of a word: permissions, access metadata, kernel-owned metadata.
Bits == {"USER", "READ", "WRITE", "EXECUTE", "ACCESSED", "DIRTY", "SOFTWARE"}

Words == [valid : BOOLEAN, page : PageNumbers, bits : SUBSET Bits]

RamPages == {p \in PageNumbers : Region[p] = "Ram"}

\* Pages whose words the walker can read.
ReadablePages == {p \in PageNumbers : Region[p] \in {"Ram", "Rom"}}

ASSUME MmuAssumption ==
  /\ Entries \in Nat \ {0}
  /\ PageNumbers \subseteq Nat /\ VirtualPages \subseteq PageNumbers
  /\ Region \in [PageNumbers -> {"Ram", "Rom", "Device", "Unmapped"}]
  /\ Region[0] = "Rom"
  /\ Rom \in [{p \in PageNumbers : Region[p] = "Rom"} -> [0 .. (Entries - 1) -> Words]]
  /\ None \notin Nat
  /\ TlbCapacity \in Nat \ {0}
  /\ Attempts \subseteq VirtualPages \X Accesses
  /\ Stores \subseteq RamPages \X (0 .. (Entries - 1)) \X Words
  /\ Roots \subseteq PageNumbers
  /\ VectorBases \subseteq Nat

VARIABLES
  mmu,       \* [enabled, ttbr0, vectorBase, fault]
  memory,    \* memory[p][i]: the words of RAM and ROM
  tlb,       \* translations the engine keeps
  user,      \* the CPU is in USR mode
  changed,   \* history: tables, TTBR0 or SCTLR.M changed since the last TLBIALL
  failed     \* history: the page of the access behind the recorded fault, and
             \* whether it was the host's

vars == <<mmu, memory, tlb, user, changed, failed>>

ZeroWord == [valid |-> FALSE, page |-> 0, bits |-> {}]

MmuInit == [enabled |-> FALSE, ttbr0 |-> 0, vectorBase |-> 0, fault |-> None]

\* TTBR0 is 0 at first: until it is written, a directory is read from the Boot ROM.
FreshMemory ==
  [p \in ReadablePages |-> IF p \in RamPages THEN [i \in 0 .. (Entries - 1) |-> ZeroWord]
                                            ELSE Rom[p]]

-----------------------------------------------------------------------------
(* The walk *)

DirectoryIndex(vp) == vp \div Entries

TableIndex(vp) == vp % Entries

Pde(m, mem, vp) == mem[m.ttbr0][DirectoryIndex(vp)]

\* A directory entry with reserved bits, or whose table is not RAM, is refused.
NamesTable(pde) == pde.bits = {} /\ pde.valid /\ pde.page \in RamPages

Pte(m, mem, vp) == mem[Pde(m, mem, vp).page][TableIndex(vp)]

Needed == [Fetch |-> "EXECUTE", Read |-> "READ", Write |-> "WRITE"]

Protection == [Fetch |-> "ExecuteProtection", Read |-> "ReadProtection",
               Write |-> "WriteProtection"]

Permits(bits, access, usr) == (usr => "USER" \in bits) /\ Needed[access] \in bits

\* Mutant: a table entry that grants write access to ROM is honoured.
CauseIgnoringRom(m, mem, vp, access, usr) ==
  LET pte == Pte(m, mem, vp)
  IN  IF ~NamesTable(Pde(m, mem, vp)) \/ ~pte.valid THEN "Translation"
      ELSE IF ~Permits(pte.bits, access, usr) THEN Protection[access]
      ELSE IF "USER" \in pte.bits /\ Region[pte.page] = "Device" THEN Protection[access]
      ELSE IF Region[pte.page] = "Unmapped" THEN "Translation"
      ELSE "None"

\* Why an access is refused, "None" when it is not; tested in the code's order.
Cause(m, mem, vp, access, usr) ==
  LET pte == Pte(m, mem, vp)
  IN  IF ~NamesTable(Pde(m, mem, vp)) \/ ~pte.valid THEN "Translation"
      ELSE IF ~Permits(pte.bits, access, usr) THEN Protection[access]
      ELSE IF "USER" \in pte.bits /\ Region[pte.page] = "Device" THEN Protection[access]
      ELSE IF Region[pte.page] = "Unmapped" THEN "Translation"
      ELSE IF access = "Write" /\ Region[pte.page] = "Rom" THEN "WriteProtection"
      ELSE "None"

\* Mutant: every successful access marks the page dirty.
MarkedDirty(word, access) == [word EXCEPT !.bits = @ \cup {"ACCESSED", "DIRTY"}]

Marked(word, access) ==
  [word EXCEPT !.bits = @ \cup {"ACCESSED"}
                          \cup (IF access = "Write" THEN {"DIRTY"} ELSE {})]

\* The tables after a successful walk. A table is a RAM page, so the update of
\* its entry cannot fail.
MarkedMemory(m, mem, vp, access) ==
  [mem EXCEPT ![Pde(m, mem, vp).page][TableIndex(vp)] = Marked(@, access)]

-----------------------------------------------------------------------------
(* The virtual TLB *)

Entry(vp, access, usr, page) ==
  [vpage |-> vp, access |-> access, user |-> usr, page |-> page]

Cached(vp, access, usr) ==
  \E e \in tlb : e.vpage = vp /\ e.access = access /\ e.user = usr

\* The engine keeps a translation in place of the one it had, making room when
\* it has to.
Keep(e) ==
  LET others == {o \in tlb : <<o.vpage, o.access, o.user>> # <<e.vpage, e.access, e.user>>}
  IN  \/ /\ Cardinality(others) < TlbCapacity
         /\ tlb' = others \cup {e}
      \/ /\ Cardinality(others) >= TlbCapacity
         /\ \E evicted \in others : tlb' = (others \ {evicted}) \cup {e}

\* A recorded fault, and the access it is about.
Record(address, cause, access, vp, host) ==
  /\ mmu' = [mmu EXCEPT !.fault = [address |-> address, cause |-> cause,
                                   access |-> access, user |-> user]]
  /\ failed' = [vpage |-> vp, host |-> host]

\* The hook that fills the TLB: the walk, then the adapter's refusal to fetch
\* from a device page. With the MMU off, addresses are physical.
Fill(vp, access, host) ==
  LET cause == IF mmu.enabled THEN Cause(mmu, memory, vp, access, user) ELSE "None"
      page  == IF mmu.enabled THEN Pte(mmu, memory, vp).page ELSE vp
  IN  \/ /\ cause # "None"
         /\ Record(vp, cause, access, vp, host)
         /\ UNCHANGED <<memory, tlb>>
      \/ /\ cause = "None"
         /\ memory' = IF mmu.enabled THEN MarkedMemory(mmu, memory, vp, access) ELSE memory
         /\ IF access = "Fetch" /\ Region[page] = "Device"
              THEN Record(vp, "DeviceAccess", access, vp, host) /\ UNCHANGED tlb
              ELSE Keep(Entry(vp, access, user, page)) /\ UNCHANGED <<mmu, failed>>

\* A guest access the engine holds no translation for. A fault enters an
\* exception, which leaves USR mode.
Miss(vp, access) ==
  /\ ~Cached(vp, access, user)
  /\ Fill(vp, access, FALSE)
  /\ user' = (user /\ tlb' # tlb)
  /\ UNCHANGED changed

\* Between runs the host translates an address through the same hook, to read
\* data or instruction bytes: it records a fault and marks the page as the guest
\* would, but enters no exception.
InspectVirtual(vp, access) ==
  /\ access \in {"Fetch", "Read"}
  /\ Fill(vp, access, TRUE)
  /\ UNCHANGED <<user, changed>>

\* A guest store through a translation that the engine keeps.
Store(e, page, index, word) ==
  /\ e \in tlb /\ e.access = "Write" /\ e.user = user /\ e.page = page
  /\ memory' = [memory EXCEPT ![page][index] = word]
  /\ changed' = TRUE
  /\ UNCHANGED <<mmu, tlb, user, failed>>

\* A block read delivers its sectors by DMA.
DmaStore(page, index, word) ==
  /\ memory' = [memory EXCEPT ![page][index] = word]
  /\ changed' = TRUE
  /\ UNCHANGED <<mmu, tlb, user, failed>>

\* The bus rejects a data access to a device page; the MMIO callback only knows
\* the physical address.
InvalidMmio(e) ==
  /\ e \in tlb /\ e.user = user /\ e.access # "Fetch" /\ Region[e.page] = "Device"
  /\ Record(e.page, "DeviceAccess", e.access, e.vpage, FALSE)
  /\ user' = FALSE
  /\ UNCHANGED <<memory, tlb, changed>>

-----------------------------------------------------------------------------
(* CP15 and privilege *)

\* Mutant: any page is accepted as a directory.
SetTtbr0Unchecked(page) ==
  /\ ~user
  /\ mmu' = [mmu EXCEPT !.ttbr0 = page]
  /\ changed' = TRUE
  /\ UNCHANGED <<memory, tlb, user, failed>>

\* A directory must be a RAM page; any other value is an undefined instruction.
SetTtbr0(page) ==
  /\ ~user /\ page \in RamPages
  /\ mmu' = [mmu EXCEPT !.ttbr0 = page]
  /\ changed' = TRUE
  /\ UNCHANGED <<memory, tlb, user, failed>>

SetMmuEnabled(enabled) ==
  /\ ~user
  /\ mmu' = [mmu EXCEPT !.enabled = enabled]
  /\ changed' = (changed \/ enabled # mmu.enabled)
  /\ UNCHANGED <<memory, tlb, user, failed>>

\* Mutant: TLBIALL does not reach the engine.
InvalidateWalkerOnly ==
  /\ ~user
  /\ changed' = FALSE
  /\ UNCHANGED <<mmu, memory, tlb, user, failed>>

InvalidateAll ==
  /\ ~user
  /\ tlb' = {}
  /\ changed' = FALSE
  /\ UNCHANGED <<mmu, memory, user, failed>>

SetVectorBase(address) ==
  /\ ~user /\ address % 32 = 0
  /\ mmu' = [mmu EXCEPT !.vectorBase = address]
  /\ UNCHANGED <<memory, tlb, user, changed, failed>>

\* Exception entry, also for a CP15 operation in USR mode; and exception return.
EnterException == user /\ user' = FALSE /\ UNCHANGED <<mmu, memory, tlb, changed, failed>>

ReturnToUser == ~user /\ user' = TRUE /\ UNCHANGED <<mmu, memory, tlb, changed, failed>>

\* A new machine in a new engine.
Reset ==
  /\ mmu' = MmuInit /\ memory' = FreshMemory /\ tlb' = {}
  /\ user' = FALSE /\ changed' = FALSE /\ failed' = None

-----------------------------------------------------------------------------
Init ==
  /\ mmu = MmuInit /\ memory = FreshMemory /\ tlb = {}
  /\ user = FALSE /\ changed = FALSE /\ failed = None

Next ==
  \/ \E a \in Attempts : Miss(a[1], a[2]) \/ InspectVirtual(a[1], a[2])
  \/ \E s \in Stores : DmaStore(s[1], s[2], s[3])
                       \/ \E e \in tlb : Store(e, s[1], s[2], s[3])
  \/ \E e \in tlb : InvalidMmio(e)
  \/ \E page \in Roots : SetTtbr0(page)
  \/ \E enabled \in BOOLEAN : SetMmuEnabled(enabled)
  \/ InvalidateAll
  \/ \E address \in VectorBases : SetVectorBase(address)
  \/ EnterException \/ ReturnToUser
  \/ Reset

Spec == Init /\ [][Next]_vars

-----------------------------------------------------------------------------
(* Properties *)

Causes == {"Translation", "ReadProtection", "WriteProtection", "ExecuteProtection",
           "DeviceAccess"}

Faults == [address : PageNumbers, cause : Causes, access : Accesses, user : BOOLEAN]

MmuTypeOK ==
  /\ mmu \in [enabled : BOOLEAN, ttbr0 : RamPages \cup {0}, vectorBase : Nat,
              fault : Faults \cup {None}]
  /\ memory \in [ReadablePages -> [0 .. (Entries - 1) -> Words]]
  /\ tlb \subseteq [vpage : VirtualPages, access : Accesses, user : BOOLEAN,
                    page : PageNumbers]
  /\ user \in BOOLEAN /\ changed \in BOOLEAN
  /\ failed \in [vpage : VirtualPages, host : BOOLEAN] \cup {None}

\* A guest that invalidates after its changes never sees a stale translation:
\* every one the engine keeps is the one a walk would give now, and the access
\* bits that walk would set are set. The access bits the walks themselves write
\* never disturb it, even where one page serves as directory and as table.
CoherentTlb ==
  ~changed => \A e \in tlb :
    IF mmu.enabled
      THEN /\ Cause(mmu, memory, e.vpage, e.access, e.user) = "None"
           /\ Pte(mmu, memory, e.vpage).page = e.page
           /\ Marked(Pte(mmu, memory, e.vpage), e.access) = Pte(mmu, memory, e.vpage)
      ELSE e.page = e.vpage

\* Whatever the tables hold, an invalidated TLB of an enabled MMU gives USR mode
\* no device and nobody a write to ROM; a fetch never reaches a device at all.
TlbIsolated ==
  /\ \A e \in tlb : e.access = "Fetch" => Region[e.page] # "Device"
  /\ mmu.enabled /\ ~changed => \A e \in tlb :
       /\ Region[e.page] # "Unmapped"
       /\ e.user => Region[e.page] # "Device"
       /\ e.access = "Write" => Region[e.page] # "Rom"

\* The MMU itself writes nothing but Accessed and Dirty, and Dirty only where
\* writing is permitted: every other change of a table is a store or a reset.
OnlyAccessBitsWritten ==
  [][~changed' /\ memory' # memory =>
       \/ memory' = FreshMemory
       \/ \A p \in ReadablePages, i \in 0 .. (Entries - 1) :
            LET added == memory'[p][i].bits \ memory[p][i].bits
            IN  /\ memory'[p][i] = [memory[p][i] EXCEPT !.bits = @ \cup added]
                /\ added \subseteq {"ACCESSED", "DIRTY"}
                /\ "DIRTY" \in added => "WRITE" \in memory[p][i].bits]_vars

\* DFAR holds the virtual address of the access that faulted. The code does not
\* satisfy it: README, section 5.
FaultAddressVirtual == failed # None => mmu.fault.address = failed.vpage

\* DFSR and DFAR describe a fault of the guest: nothing but its next fault and a
\* reset replaces the one it is about to handle. The code does not satisfy it:
\* README, section 5.
FaultIsGuests == failed # None => ~failed.host

=============================================================================
