----------------------------- MODULE ImageProofs -----------------------------
(* The parser accepts exactly the valid files, a boot of one loads exactly its *)
(* kernel, and a packed image holds its inputs, for every value of the         *)
(* constants.                                                                  *)
EXTENDS Image, FiniteSetTheorems, WellFoundedInduction, TLAPS

-----------------------------------------------------------------------------
(* Ranges and the sets of bytes they stand for *)

IsRange(r) == r.start \in Nat /\ r.length \in Nat

LEMMA RangeFacts ==
  ASSUME NEW start \in Nat, NEW length \in Nat
  PROVE  /\ IsRange(RangeOf(start, length))
         /\ RangeOf(start, length).start = start
         /\ RangeOf(start, length).length = length
         /\ End(RangeOf(start, length)) = start + length
BY DEF IsRange, RangeOf, End

LEMMA BytesMember ==
  ASSUME NEW r, IsRange(r), NEW a
  PROVE  a \in Bytes(r) <=> a \in Int /\ r.start <= a /\ a < End(r)
BY DEF IsRange, Bytes, End

\* Ranges that hold bytes overlap exactly when they share one.
LEMMA OverlapsExact ==
  ASSUME NEW a, NEW b, IsRange(a), IsRange(b), a.length > 0, b.length > 0
  PROVE  ~Overlaps(a, b) <=> Bytes(a) \cap Bytes(b) = {}
<1>1. ASSUME ~Overlaps(a, b) PROVE Bytes(a) \cap Bytes(b) = {}
  <2> SUFFICES ASSUME NEW x \in Bytes(a), x \in Bytes(b) PROVE FALSE
    OBVIOUS
  <2>1. /\ x \in Int /\ a.start <= x /\ x < End(a) /\ b.start <= x /\ x < End(b)
    BY BytesMember
  <2> QED BY <1>1, <2>1 DEF IsRange, Overlaps, End
<1>2. ASSUME Overlaps(a, b) PROVE Bytes(a) \cap Bytes(b) # {}
  <2>1. CASE a.start <= b.start
    <3>1. b.start \in Bytes(a) /\ b.start \in Bytes(b)
      BY <1>2, <2>1, BytesMember DEF IsRange, Overlaps, End
    <3> QED BY <3>1
  <2>2. CASE b.start <= a.start
    <3>1. a.start \in Bytes(a) /\ a.start \in Bytes(b)
      BY <1>2, <2>2, BytesMember DEF IsRange, Overlaps, End
    <3> QED BY <3>1
  <2> QED BY <2>1, <2>2 DEF IsRange
<1> QED BY <1>1, <1>2

\* A range that holds bytes lies between two bounds exactly when its bytes do.
LEMMA WithinExact ==
  ASSUME NEW r, IsRange(r), r.length > 0, NEW low \in Int, NEW high \in Int
  PROVE  Bytes(r) \subseteq low .. (high - 1) <=> low <= r.start /\ End(r) <= high
<1>1. ASSUME Bytes(r) \subseteq low .. (high - 1)
      PROVE  low <= r.start /\ End(r) <= high
  <2>1. r.start \in Bytes(r) /\ End(r) - 1 \in Bytes(r)
    BY BytesMember DEF IsRange, End
  <2>2. r.start \in low .. (high - 1) /\ End(r) - 1 \in low .. (high - 1)
    BY <1>1, <2>1
  <2> QED BY <2>2 DEF IsRange, End
<1>2. ASSUME low <= r.start, End(r) <= high PROVE Bytes(r) \subseteq low .. (high - 1)
  BY <1>2 DEF IsRange, End, Bytes
<1> QED BY <1>1, <1>2

\* A range without bytes.
LEMMA EmptyBytes ==
  ASSUME NEW r, IsRange(r), r.length = 0
  PROVE  Bytes(r) = {}
BY DEF IsRange, Bytes, End

\* An instruction lies in a range exactly when its bytes do.
LEMMA InstructionExact ==
  ASSUME NEW r, IsRange(r), Representable(r), NEW a \in Nat
  PROVE  HoldsInstruction(r, a) <=> a .. (a + Word - 1) \subseteq Bytes(r)
<1>1. Word \in Nat \ {0}
  BY ImageAssumption
<1>2. ASSUME a .. (a + Word - 1) \subseteq Bytes(r) PROVE HoldsInstruction(r, a)
  <2>1. a \in a .. (a + Word - 1) /\ a + Word - 1 \in a .. (a + Word - 1)
    BY <1>1
  <2>2. a \in Bytes(r) /\ a + Word - 1 \in Bytes(r)
    BY <1>2, <2>1
  <2>3. r.start <= a /\ a + Word - 1 < End(r)
    BY <2>2, BytesMember
  <2> QED BY <1>1, <2>3 DEF HoldsInstruction, IsRange, End
<1>3. ASSUME HoldsInstruction(r, a) PROVE a .. (a + Word - 1) \subseteq Bytes(r)
  BY <1>1, <1>3 DEF HoldsInstruction, Bytes, IsRange, End
<1> QED BY <1>2, <1>3

-----------------------------------------------------------------------------
(* The records of a file *)

KernelSegmentType ==
  [ data_offset : Nat, virtual_address : Nat, physical_address : Nat,
    file_size : Nat, memory_size : Nat, flags : SUBSET Nat, clean : BOOLEAN ]

ModuleSegmentType ==
  [ data_offset : Nat, virtual_address : Nat,
    file_size : Nat, memory_size : Nat, flags : SUBSET Nat, clean : BOOLEAN ]

LEMMA Numbers ==
  /\ {HeaderSize, RecordSize, Word, RomSize, RamSize, StackSize, InfoSize}
       \subseteq Nat \ {0}
  /\ {AddressLimit, RamBase, DirectOffset, StackBase, InfoBase, Bootstrap} \subseteq Nat
  /\ RamBase + RamSize <= AddressLimit
  /\ RamBase + RamSize <= RamBase + DirectOffset
  /\ RamBase + DirectOffset + RamSize <= AddressLimit
  /\ InfoBase = StackBase + StackSize
  /\ StackBase >= RamBase /\ InfoBase + InfoSize <= RamBase + RamSize
BY ImageAssumption

LEMMA PlatformRanges ==
  /\ IsRange(Ram) /\ Ram.start = RamBase /\ End(Ram) = RamBase + RamSize
  /\ IsRange(DirectMap) /\ DirectMap.start = RamBase + DirectOffset
  /\ End(DirectMap) = RamBase + DirectOffset + RamSize
  /\ IsRange(Workspace) /\ Workspace.start = StackBase
  /\ End(Workspace) = InfoBase + InfoSize
  /\ Ram.length > 0 /\ DirectMap.length > 0 /\ Workspace.length > 0
BY ImageAssumption DEF Ram, DirectMap, Workspace, IsRange, RangeOf, End

LEMMA SegmentRanges ==
  ASSUME NEW s, s \in KernelSegmentType \/ s \in ModuleSegmentType
  PROVE  /\ s.data_offset \in Nat /\ s.virtual_address \in Nat
         /\ s.file_size \in Nat /\ s.memory_size \in Nat
         /\ IsRange(Virtual(s)) /\ Virtual(s).start = s.virtual_address
         /\ Virtual(s).length = s.memory_size
         /\ End(Virtual(s)) = s.virtual_address + s.memory_size
         /\ IsRange(Initialized(s)) /\ Initialized(s).start = s.virtual_address
         /\ End(Initialized(s)) = s.virtual_address + s.file_size
<1>1. /\ s.data_offset \in Nat /\ s.virtual_address \in Nat
      /\ s.file_size \in Nat /\ s.memory_size \in Nat
  BY DEF KernelSegmentType, ModuleSegmentType
<1> QED BY <1>1, RangeFacts DEF Virtual, Initialized

LEMMA PhysicalRanges ==
  ASSUME NEW s \in KernelSegmentType
  PROVE  /\ s.physical_address \in Nat
         /\ IsRange(Physical(s)) /\ Physical(s).start = s.physical_address
         /\ Physical(s).length = s.memory_size
         /\ End(Physical(s)) = s.physical_address + s.memory_size
         /\ IsRange(Loaded(s)) /\ Loaded(s).start = s.physical_address
         /\ End(Loaded(s)) = s.physical_address + s.file_size
<1>1. /\ s.physical_address \in Nat /\ s.file_size \in Nat /\ s.memory_size \in Nat
  BY DEF KernelSegmentType
<1> QED BY <1>1, RangeFacts DEF Physical, Loaded

-----------------------------------------------------------------------------
(* Kernel and module records *)

\* What a valid kernel segment amounts to, in numbers.
KernelPlaced(s) ==
  /\ FlagsKnown(s) /\ s.memory_size > 0 /\ s.file_size <= s.memory_size
  /\ RamBase <= s.physical_address
  /\ s.physical_address + s.memory_size <= RamBase + RamSize
  /\ \/ s.virtual_address = s.physical_address
     \/ s.virtual_address = s.physical_address + DirectOffset

LEMMA KernelSegmentNumbers ==
  ASSUME NEW s \in KernelSegmentType
  PROVE  KernelSegmentValid(s) <=> KernelPlaced(s)
<1> DEFINE va == s.virtual_address
           pa == s.physical_address
           n  == s.memory_size
<1>1. va \in Nat /\ pa \in Nat /\ n \in Nat
  BY SegmentRanges, PhysicalRanges
<1>2. Inside(Physical(s), Ram) <=>
        /\ n > 0 /\ pa + n <= AddressLimit
        /\ pa >= RamBase /\ pa + n <= RamBase + RamSize
  BY PhysicalRanges, PlatformRanges DEF Inside, Representable
<1>3. In(va, DirectMap) <=>
        va >= RamBase + DirectOffset /\ va < RamBase + DirectOffset + RamSize
  BY PlatformRanges DEF In
<1>4. KernelSegmentValid(s) <=>
        /\ s.file_size <= n /\ FlagsKnown(s)
        /\ Inside(Physical(s), Ram)
        /\ va = pa \/ (In(va, DirectMap) /\ va - DirectOffset = pa)
  BY DEF KernelSegmentValid
<1>5. KernelPlaced(s) <=>
        /\ FlagsKnown(s) /\ n > 0 /\ s.file_size <= n
        /\ RamBase <= pa /\ pa + n <= RamBase + RamSize
        /\ va = pa \/ va = pa + DirectOffset
  BY DEF KernelPlaced
<1> HIDE DEF va, pa, n
<1>6. RamBase \in Nat /\ RamSize \in Nat /\ DirectOffset \in Nat /\ AddressLimit \in Nat
  BY ImageAssumption
<1> QED BY <1>1, <1>2, <1>3, <1>4, <1>5, <1>6, ImageAssumption

LEMMA KernelSegmentRepresentable ==
  ASSUME NEW s \in KernelSegmentType, KernelPlaced(s)
  PROVE  /\ Representable(Physical(s)) /\ Representable(Virtual(s))
         /\ Representable(Initialized(s)) /\ Representable(Loaded(s))
BY SegmentRanges, PhysicalRanges, ImageAssumption DEF KernelPlaced, Representable

\* A kernel segment outside the workspace, byte by byte.
LEMMA KernelSegmentExact ==
  ASSUME NEW s \in KernelSegmentType
  PROVE  KernelPlaced(s) /\ ~Overlaps(Physical(s), Workspace) <=>
           /\ FlagsKnown(s) /\ s.memory_size > 0 /\ s.file_size <= s.memory_size
           /\ Bytes(Physical(s)) \subseteq
                Bytes(Ram) \ (StackBase .. (InfoBase + InfoSize - 1))
           /\ s.virtual_address - s.physical_address \in {0, DirectOffset}
<1> SUFFICES ASSUME s.memory_size > 0
    PROVE  KernelPlaced(s) /\ ~Overlaps(Physical(s), Workspace) <=>
           /\ FlagsKnown(s) /\ s.memory_size > 0 /\ s.file_size <= s.memory_size
           /\ Bytes(Physical(s)) \subseteq
                Bytes(Ram) \ (StackBase .. (InfoBase + InfoSize - 1))
           /\ s.virtual_address - s.physical_address \in {0, DirectOffset}
  BY DEF KernelPlaced
<1>1. Bytes(Ram) = RamBase .. ((RamBase + RamSize) - 1)
  BY PlatformRanges, Numbers DEF Bytes
<1>2. Bytes(Workspace) = StackBase .. (InfoBase + InfoSize - 1)
  BY PlatformRanges, Numbers DEF Bytes
<1>3. Bytes(Physical(s)) \subseteq Bytes(Ram) <=>
        RamBase <= s.physical_address
        /\ s.physical_address + s.memory_size <= RamBase + RamSize
  <2>1. RamBase \in Int /\ RamBase + RamSize \in Int
    BY Numbers
  <2>2. Bytes(Physical(s)) \subseteq RamBase .. ((RamBase + RamSize) - 1) <=>
          RamBase <= Physical(s).start /\ End(Physical(s)) <= RamBase + RamSize
    BY <2>1, WithinExact, PhysicalRanges
  <2>3. /\ Physical(s).start = s.physical_address
        /\ End(Physical(s)) = s.physical_address + s.memory_size
    BY PhysicalRanges
  <2> QED BY <1>1, <2>2, <2>3
<1>4. ~Overlaps(Physical(s), Workspace) <=> Bytes(Physical(s)) \cap Bytes(Workspace) = {}
  BY OverlapsExact, PhysicalRanges, PlatformRanges
<1>5. s.virtual_address - s.physical_address \in {0, DirectOffset} <=>
        \/ s.virtual_address = s.physical_address
        \/ s.virtual_address = s.physical_address + DirectOffset
  BY SegmentRanges, PhysicalRanges, ImageAssumption
<1> QED BY <1>2, <1>3, <1>4, <1>5 DEF KernelPlaced

\* validate_kernel_records accepts exactly the valid kernels.
LEMMA KernelExact ==
  ASSUME NEW segments \in Seq(KernelSegmentType), NEW entry \in Nat
  PROVE  /\ \A i \in DOMAIN segments :
              segments[i].clean /\ KernelSegmentValid(segments[i])
         /\ KernelValid(segments, entry) /\ In(entry, DirectMap)
         <=> ValidKernel(segments, entry)
<1> DEFINE D == DOMAIN segments
           Each == \A i \in D : /\ segments[i].clean /\ KernelPlaced(segments[i])
                                /\ ~Overlaps(Physical(segments[i]), Workspace)
           ApartP == \A i, j \in D :
             i < j => ~Overlaps(Physical(segments[i]), Physical(segments[j]))
           ApartV == \A i, j \in D :
             i < j => ~Overlaps(Virtual(segments[i]), Virtual(segments[j]))
           EntryA == \E i \in D : /\ Executes(segments[i])
                                  /\ HoldsInstruction(Initialized(segments[i]), entry)
           BootA == \E i \in D : /\ Executes(segments[i])
                                 /\ HoldsInstruction(Loaded(segments[i]), Bootstrap)
           DisjointP == DisjointSets([i \in D |-> Bytes(Physical(segments[i]))])
           DisjointV == DisjointSets([i \in D |-> Bytes(Virtual(segments[i]))])
           EntryB == \E i \in D : /\ Executes(segments[i])
                                  /\ Instruction(entry) \subseteq
                                       Bytes(Initialized(segments[i]))
           BootB == \E i \in D : /\ Executes(segments[i])
                                 /\ Instruction(Bootstrap) \subseteq
                                      Bytes(Loaded(segments[i]))
<1>1. D = 1 .. Len(segments) /\ Len(segments) \in Nat
      /\ \A i \in D : segments[i] \in KernelSegmentType
  OBVIOUS
<1>2. \A i \in D : KernelSegmentValid(segments[i]) <=> KernelPlaced(segments[i])
  BY <1>1, KernelSegmentNumbers
<1>3. \A i \in D : KernelPlaced(segments[i]) =>
        /\ Representable(Physical(segments[i])) /\ Representable(Virtual(segments[i]))
        /\ Representable(Initialized(segments[i])) /\ Representable(Loaded(segments[i]))
        /\ segments[i].memory_size > 0
  BY <1>1, KernelSegmentRepresentable DEF KernelPlaced
<1>4. /\ \A i \in DOMAIN segments :
            segments[i].clean /\ KernelSegmentValid(segments[i])
      /\ KernelValid(segments, entry) /\ In(entry, DirectMap)
      <=> Each /\ ApartP /\ ApartV /\ EntryA /\ BootA /\ entry % Word = 0
          /\ In(entry, DirectMap)
  BY <1>2, <1>3 DEF KernelValid
<1>5. ValidKernel(segments, entry) <=>
        Each /\ DisjointP /\ DisjointV /\ EntryB /\ BootB /\ entry % Word = 0
        /\ entry \in Bytes(DirectMap)
  BY <1>1, KernelSegmentExact DEF ValidKernel
<1>6. In(entry, DirectMap) <=> entry \in Bytes(DirectMap)
  BY BytesMember, PlatformRanges DEF In
<1>7. ASSUME Each
      PROVE  (ApartP <=> DisjointP) /\ (ApartV <=> DisjointV)
             /\ (EntryA <=> EntryB) /\ (BootA <=> BootB)
  <2>1. ASSUME NEW i \in D
        PROVE  /\ IsRange(Physical(segments[i])) /\ Physical(segments[i]).length > 0
               /\ IsRange(Virtual(segments[i])) /\ Virtual(segments[i]).length > 0
    BY <1>1, <1>3, <1>7, SegmentRanges, PhysicalRanges
  <2>2. ApartP <=> DisjointP
    BY <2>1, OverlapsExact DEF DisjointSets
  <2>3. ApartV <=> DisjointV
    BY <2>1, OverlapsExact DEF DisjointSets
  <2>4. ASSUME NEW i \in D
        PROVE  /\ HoldsInstruction(Initialized(segments[i]), entry)
                    <=> Instruction(entry) \subseteq Bytes(Initialized(segments[i]))
               /\ HoldsInstruction(Loaded(segments[i]), Bootstrap)
                    <=> Instruction(Bootstrap) \subseteq Bytes(Loaded(segments[i]))
    <3>1. Bootstrap \in Nat
      BY Numbers
    <3>2. IsRange(Initialized(segments[i])) /\ IsRange(Loaded(segments[i]))
      BY <1>1, SegmentRanges, PhysicalRanges
    <3> QED BY <1>3, <1>7, <3>1, <3>2, InstructionExact DEF Instruction
  <2> QED BY <2>2, <2>3, <2>4
<1> HIDE DEF Each, ApartP, ApartV, EntryA, BootA, DisjointP, DisjointV, EntryB, BootB
<1> QED BY <1>4, <1>5, <1>6, <1>7

\* A module segment outside the direct map, byte by byte.
LEMMA ModuleSegmentExact ==
  ASSUME NEW s \in ModuleSegmentType, s.memory_size > 0
  PROVE  Representable(Virtual(s)) /\ ~Overlaps(Virtual(s), DirectMap) <=>
           Bytes(Virtual(s)) \subseteq (0 .. (AddressLimit - 1)) \ Bytes(DirectMap)
<1>1. IsRange(Virtual(s)) /\ Virtual(s).length > 0 /\ Virtual(s).start \in Nat
  BY SegmentRanges
<1>2. ~Overlaps(Virtual(s), DirectMap) <=> Bytes(Virtual(s)) \cap Bytes(DirectMap) = {}
  BY <1>1, OverlapsExact, PlatformRanges
<1>3. 0 \in Int /\ AddressLimit \in Int
  BY Numbers
<1>4. Bytes(Virtual(s)) \subseteq 0 .. (AddressLimit - 1) <=>
        0 <= Virtual(s).start /\ End(Virtual(s)) <= AddressLimit
  BY <1>1, <1>3, WithinExact
<1> QED BY <1>1, <1>2, <1>4 DEF Representable

\* validate_module_records accepts exactly the valid modules.
LEMMA ModuleExact ==
  ASSUME NEW segments \in Seq(ModuleSegmentType), NEW entry \in Nat
  PROVE  /\ \A i \in DOMAIN segments :
              segments[i].clean /\ ModuleSegmentValid(segments[i])
         /\ ModuleValid(segments, entry)
         <=> ValidModule(segments, entry)
<1> DEFINE D == DOMAIN segments
           Each == \A i \in D : /\ segments[i].clean /\ ModuleSegmentValid(segments[i])
                                /\ Representable(Virtual(segments[i]))
                                /\ ~Overlaps(Virtual(segments[i]), DirectMap)
           Apart == \A i, j \in D :
             i < j => ~Overlaps(Virtual(segments[i]), Virtual(segments[j]))
           EntryA == \E i \in D : /\ Executes(segments[i])
                                  /\ HoldsInstruction(Initialized(segments[i]), entry)
           Disjoint == DisjointSets([i \in D |-> Bytes(Virtual(segments[i]))])
           EntryB == \E i \in D : /\ Executes(segments[i])
                                  /\ Instruction(entry) \subseteq
                                       Bytes(Initialized(segments[i]))
<1>1. \A i \in D : segments[i] \in ModuleSegmentType
  OBVIOUS
<1>2. /\ \A i \in DOMAIN segments :
            segments[i].clean /\ ModuleSegmentValid(segments[i])
      /\ ModuleValid(segments, entry)
      <=> Each /\ Apart /\ EntryA /\ entry % Word = 0
  BY DEF ModuleValid
<1>3. ValidModule(segments, entry) <=>
        Each /\ Disjoint /\ EntryB /\ entry % Word = 0
  BY <1>1, ModuleSegmentExact DEF ValidModule, ModuleSegmentValid
<1>4. ASSUME Each PROVE (Apart <=> Disjoint) /\ (EntryA <=> EntryB)
  <2>1. ASSUME NEW i \in D
        PROVE  IsRange(Virtual(segments[i])) /\ Virtual(segments[i]).length > 0
    BY <1>1, <1>4, SegmentRanges DEF ModuleSegmentValid
  <2>2. Apart <=> Disjoint
    BY <2>1, OverlapsExact DEF DisjointSets
  <2>3. ASSUME NEW i \in D
        PROVE  HoldsInstruction(Initialized(segments[i]), entry)
                 <=> Instruction(entry) \subseteq Bytes(Initialized(segments[i]))
    <3>1. IsRange(Initialized(segments[i])) /\ Representable(Initialized(segments[i]))
      <4> DEFINE s == segments[i]
      <4>1. s \in ModuleSegmentType /\ s.file_size <= s.memory_size
            /\ End(Virtual(s)) <= AddressLimit
        BY <1>1, <1>4 DEF ModuleSegmentValid, Representable
      <4>2. AddressLimit \in Nat
        BY Numbers
      <4> HIDE DEF s
      <4>3. /\ IsRange(Initialized(s)) /\ s.virtual_address \in Nat
            /\ s.file_size \in Nat /\ s.memory_size \in Nat
            /\ End(Virtual(s)) = s.virtual_address + s.memory_size
            /\ End(Initialized(s)) = s.virtual_address + s.file_size
        BY <4>1, SegmentRanges
      <4>4. End(Initialized(s)) <= AddressLimit
        BY <4>1, <4>2, <4>3
      <4> QED BY <4>3, <4>4 DEF s, Representable
    <3> QED BY <3>1, InstructionExact DEF Instruction
  <2> QED BY <2>2, <2>3
<1> HIDE DEF Each, Apart, EntryA, Disjoint, EntryB
<1> QED BY <1>2, <1>3, <1>4

-----------------------------------------------------------------------------
(* The image map *)

HeaderType ==
  [ image_size : Nat, kernel_segment_table_offset : Nat, kernel_segment_count : Nat,
    module_table_offset : Nat, module_count : Nat, bootstrap_entry_paddr : Nat,
    kernel_entry_vaddr : Nat, boot_info_paddr : Nat, clean : BOOLEAN ]

ModuleType ==
  [ name : Nat, name_offset : Nat, name_length : Nat, segment_table_offset : Nat,
    segment_count : Nat, entry : Nat, clean : BOOLEAN,
    segments : Seq(ModuleSegmentType) ]

\* A file whose tables hold the records that its header and modules announce.
FileOK(f) ==
  /\ f \in [ size : Nat, header : HeaderType, kernel : Seq(KernelSegmentType),
             modules : Seq(ModuleType), content : {f.content} ]
  /\ f.header.kernel_segment_count <= Len(f.kernel)
  /\ f.header.module_count <= Len(f.modules)
  /\ \A i \in DOMAIN f.modules :
       f.modules[i].segment_count <= Len(f.modules[i].segments)

LEMMA SubSeqPrefix ==
  ASSUME NEW S, NEW s \in Seq(S), NEW n \in Nat, n <= Len(s)
  PROVE  /\ SubSeq(s, 1, n) \in Seq(S)
         /\ DOMAIN SubSeq(s, 1, n) = 1 .. n
         /\ Len(SubSeq(s, 1, n)) = n
         /\ \A i \in 1 .. n : SubSeq(s, 1, n)[i] = s[i] /\ i \in DOMAIN s
OBVIOUS

LEMMA FileRecords ==
  ASSUME NEW f, FileOK(f)
  PROVE  /\ KernelSegments(f) \in Seq(KernelSegmentType)
         /\ DOMAIN KernelSegments(f) = 1 .. f.header.kernel_segment_count
         /\ \A i \in DOMAIN KernelSegments(f) : KernelSegments(f)[i] = f.kernel[i]
         /\ DOMAIN ModuleRecords(f) = 1 .. f.header.module_count
         /\ \A i \in DOMAIN ModuleRecords(f) :
              /\ ModuleRecords(f)[i] = f.modules[i]
              /\ f.modules[i] \in ModuleType
              /\ SegmentsOf(f.modules[i]) \in Seq(ModuleSegmentType)
              /\ DOMAIN SegmentsOf(f.modules[i]) = 1 .. f.modules[i].segment_count
              /\ \A j \in DOMAIN SegmentsOf(f.modules[i]) :
                   SegmentsOf(f.modules[i])[j] = f.modules[i].segments[j]
<1>1. /\ f.kernel \in Seq(KernelSegmentType) /\ f.modules \in Seq(ModuleType)
      /\ f.header.kernel_segment_count \in Nat /\ f.header.module_count \in Nat
  BY DEF FileOK, HeaderType
<1>2. ASSUME NEW i \in DOMAIN ModuleRecords(f)
      PROVE  /\ ModuleRecords(f)[i] = f.modules[i]
             /\ f.modules[i] \in ModuleType /\ i \in DOMAIN f.modules
  BY <1>1, SubSeqPrefix DEF ModuleRecords, FileOK
<1>3. ASSUME NEW i \in DOMAIN ModuleRecords(f)
      PROVE  /\ SegmentsOf(f.modules[i]) \in Seq(ModuleSegmentType)
             /\ DOMAIN SegmentsOf(f.modules[i]) = 1 .. f.modules[i].segment_count
             /\ \A j \in DOMAIN SegmentsOf(f.modules[i]) :
                  SegmentsOf(f.modules[i])[j] = f.modules[i].segments[j]
  <2>1. /\ f.modules[i].segments \in Seq(ModuleSegmentType)
        /\ f.modules[i].segment_count \in Nat
        /\ f.modules[i].segment_count <= Len(f.modules[i].segments)
    BY <1>2 DEF ModuleType, FileOK
  <2> DEFINE all == f.modules[i].segments
             n   == f.modules[i].segment_count
  <2>2. SegmentsOf(f.modules[i]) = SubSeq(all, 1, n)
    BY DEF SegmentsOf
  <2> HIDE DEF all, n
  <2>3. /\ SubSeq(all, 1, n) \in Seq(ModuleSegmentType)
        /\ DOMAIN SubSeq(all, 1, n) = 1 .. n
        /\ \A j \in 1 .. n : SubSeq(all, 1, n)[j] = all[j]
    BY <2>1, SubSeqPrefix DEF all, n
  <2> QED BY <2>2, <2>3 DEF all, n
<1>4. /\ KernelSegments(f) \in Seq(KernelSegmentType)
      /\ DOMAIN KernelSegments(f) = 1 .. f.header.kernel_segment_count
      /\ \A i \in DOMAIN KernelSegments(f) : KernelSegments(f)[i] = f.kernel[i]
  BY <1>1, SubSeqPrefix DEF KernelSegments, FileOK
<1>5. DOMAIN ModuleRecords(f) = 1 .. f.header.module_count
  BY <1>1, SubSeqPrefix DEF ModuleRecords, FileOK
<1> QED BY <1>2, <1>3, <1>4, <1>5

LEMMA TableSize ==
  ASSUME NEW n \in Nat
  PROVE  /\ n * RecordSize \in Nat
         /\ n > 0 => n * RecordSize > 0
         /\ n = 0 => n * RecordSize = 0
<1>1. RecordSize \in Nat \ {0}
  BY Numbers
<1> DEFINE R == RecordSize
<1>2. R \in Nat /\ R > 0
  BY <1>1
<1> HIDE DEF R
<1>3. n * R \in Nat /\ (n > 0 => n * R > 0) /\ (n = 0 => n * R = 0)
  BY <1>2
<1> QED BY <1>3 DEF R

LEMMA SpanFacts ==
  ASSUME NEW owner, NEW part, NEW index, NEW start \in Nat, NEW length \in Nat
  PROVE  LET a == Span(owner, part, index, start, length)
         IN  /\ IsRange(a) /\ a.start = start /\ a.length = length
             /\ a.owner = owner /\ a.part = part /\ a.index = index
             /\ End(a) = start + length
BY DEF Span, IsRange, End

ModuleTable(f) ==
  Span(0, "modules", 0, f.header.module_table_offset, f.header.module_count * RecordSize)

KernelTable(f) ==
  Span(0, "segments", 0, f.header.kernel_segment_table_offset,
       f.header.kernel_segment_count * RecordSize)

LEMMA PayloadSpans ==
  ASSUME NEW owner, NEW segments,
         segments \in Seq(KernelSegmentType) \/ segments \in Seq(ModuleSegmentType),
         NEW a \in Payloads(owner, segments)
  PROVE  IsRange(a) /\ a.length > 0
<1>1. PICK i \in DOMAIN segments :
        /\ segments[i].file_size # 0
        /\ a = Span(owner, "data", i, segments[i].data_offset, segments[i].file_size)
  BY DEF Payloads
<1>2. segments[i].file_size \in Nat /\ segments[i].data_offset \in Nat
  <2>1. segments[i] \in KernelSegmentType \/ segments[i] \in ModuleSegmentType
    OBVIOUS
  <2> QED BY <2>1, SegmentRanges
<1> QED BY <1>1, <1>2, SpanFacts

\* Every span of the map holds bytes, but for a module table without records.
LEMMA MapSpans ==
  ASSUME NEW f, FileOK(f), f.header.kernel_segment_count > 0,
         \A i \in DOMAIN ModuleRecords(f) :
           f.modules[i].name_length > 0 /\ f.modules[i].segment_count > 0,
         NEW a \in ImageMap(f), a # ModuleTable(f)
  PROVE  IsRange(a) /\ a.length > 0
<1>0. /\ f.header.kernel_segment_table_offset \in Nat
      /\ f.header.kernel_segment_count \in Nat
      /\ HeaderSize \in Nat /\ HeaderSize > 0
  <2>1. f.header \in HeaderType
    BY DEF FileOK
  <2>2. HeaderSize \in Nat \ {0}
    BY Numbers
  <2> QED BY <2>1, <2>2 DEF HeaderType
<1>1. CASE a = Span(0, "header", 0, 0, HeaderSize)
  BY <1>0, <1>1, SpanFacts
<1>2. CASE a = KernelTable(f)
  <2> DEFINE length == f.header.kernel_segment_count * RecordSize
  <2>1. length \in Nat /\ length > 0
    BY <1>0, TableSize
  <2> HIDE DEF length
  <2>2. a = Span(0, "segments", 0, f.header.kernel_segment_table_offset, length)
    BY <1>2 DEF KernelTable, length
  <2> QED BY <1>0, <2>1, <2>2, SpanFacts
<1>3. CASE a \in Payloads(0, KernelSegments(f))
  BY <1>3, FileRecords, PayloadSpans
<1>4. ASSUME NEW i \in DOMAIN ModuleRecords(f), a \in ModuleSpans(i, f.modules[i])
      PROVE  IsRange(a) /\ a.length > 0
  <2> DEFINE m == f.modules[i]
  <2>1. /\ m \in ModuleType /\ SegmentsOf(m) \in Seq(ModuleSegmentType)
        /\ m.name_length > 0 /\ m.segment_count > 0
    BY FileRecords
  <2> HIDE DEF m
  <2>2. /\ m.name_offset \in Nat /\ m.name_length \in Nat
        /\ m.segment_table_offset \in Nat /\ m.segment_count \in Nat
    BY <2>1 DEF ModuleType
  <2>3. CASE a = Span(i, "name", 0, m.name_offset, m.name_length)
    BY <2>1, <2>2, <2>3, SpanFacts
  <2>4. CASE a = Span(i, "segments", 0, m.segment_table_offset,
                      m.segment_count * RecordSize)
    <3> DEFINE length == m.segment_count * RecordSize
    <3>1. length \in Nat /\ length > 0
      BY <2>1, <2>2, TableSize
    <3>2. a = Span(i, "segments", 0, m.segment_table_offset, length)
      BY <2>4
    <3> HIDE DEF length
    <3> QED BY <2>2, <3>1, <3>2, SpanFacts
  <2>5. CASE a \in Payloads(i, SegmentsOf(m))
    BY <2>1, <2>5, PayloadSpans
  <2> QED BY <1>4, <2>3, <2>4, <2>5 DEF ModuleSpans, m
<1> QED BY <1>1, <1>2, <1>3, <1>4 DEF ImageMap, ModuleTable, KernelTable

\* The map of a valid file in which no empty module table is inside another range.
MapWithoutInsideTable(spans, table, count, size) ==
  /\ ValidMap(spans, size)
  /\ count = 0 => /\ table <= size
                  /\ \A a \in spans : ~({table - 1, table} \subseteq Bytes(a))

\* The spans that parse occupies one after another make up such a map.
LEMMA MapExact ==
  ASSUME NEW spans, NEW table \in Nat, NEW count \in Nat, NEW size \in Nat,
         NEW T \in spans, IsRange(T), T.start = table, T.length = count * RecordSize,
         \A a \in spans \ {T} : IsRange(a) /\ a.length > 0
  PROVE  Occupiable(spans, size) <=> MapWithoutInsideTable(spans, table, count, size)
<1>0. \A a \in spans : IsRange(a)
  OBVIOUS
<1>1. ASSUME NEW a \in spans, a.length > 0
      PROVE  End(a) <= size <=> Bytes(a) \subseteq 0 .. (size - 1)
  <2>1. Bytes(a) \subseteq 0 .. (size - 1) <=> 0 <= a.start /\ End(a) <= size
    <3>1. 0 \in Int /\ size \in Int
      OBVIOUS
    <3> QED BY <1>0, <1>1, <3>1, WithinExact
  <2> QED BY <1>0, <2>1 DEF IsRange
<1>2. CASE count > 0
  <2>1. \A a \in spans : IsRange(a) /\ a.length > 0
    BY <1>2, TableSize
  <2>2. \A a, b \in spans : ~Overlaps(a, b) <=> Bytes(a) \cap Bytes(b) = {}
    BY <2>1, OverlapsExact
  <2>3. \A a \in spans : End(a) <= size <=> Bytes(a) \subseteq 0 .. (size - 1)
    BY <1>1, <2>1
  <2> QED BY <1>2, <2>2, <2>3 DEF Occupiable, ValidMap, MapWithoutInsideTable
<1>3. CASE count = 0
  <2>1. T.length = 0 /\ Bytes(T) = {} /\ End(T) = table
    BY <1>3, TableSize, EmptyBytes DEF IsRange, End
  <2>2. \A a, b \in spans \ {T} : ~Overlaps(a, b) <=> Bytes(a) \cap Bytes(b) = {}
    BY OverlapsExact
  <2>3. \A a \in spans \ {T} : End(a) <= size <=> Bytes(a) \subseteq 0 .. (size - 1)
    BY <1>1
  <2>4. ASSUME NEW a \in spans \ {T}
        PROVE  /\ Overlaps(a, T) <=> {table - 1, table} \subseteq Bytes(a)
               /\ Overlaps(T, a) <=> {table - 1, table} \subseteq Bytes(a)
    <3>1. table - 1 \in Bytes(a) <=> a.start <= table - 1 /\ table - 1 < End(a)
      BY BytesMember
    <3>2. table \in Bytes(a) <=> a.start <= table /\ table < End(a)
      BY BytesMember
    <3>3. a.start \in Nat /\ End(a) \in Nat
      BY DEF IsRange, End
    <3> QED BY <2>1, <3>1, <3>2, <3>3 DEF Overlaps
  <2>5. Occupiable(spans, size) <=>
          /\ table <= size
          /\ \A a \in spans \ {T} : End(a) <= size
          /\ \A a, b \in spans \ {T} : a # b => ~Overlaps(a, b)
          /\ \A a \in spans \ {T} : ~({table - 1, table} \subseteq Bytes(a))
    BY <2>1, <2>4 DEF Occupiable
  <2>6. MapWithoutInsideTable(spans, table, count, size) <=>
          /\ table <= size
          /\ \A a \in spans \ {T} : Bytes(a) \subseteq 0 .. (size - 1)
          /\ \A a, b \in spans \ {T} : a # b => Bytes(a) \cap Bytes(b) = {}
          /\ \A a \in spans \ {T} : ~({table - 1, table} \subseteq Bytes(a))
    BY <1>3, <2>1 DEF ValidMap, MapWithoutInsideTable
  <2> QED BY <2>2, <2>3, <2>5, <2>6
<1> QED BY <1>2, <1>3

\* SystemImage::parse accepts exactly the valid files whose module table, if it is
\* empty, is not inside another range.
LEMMA ParsesExact ==
  ASSUME NEW f, FileOK(f)
  PROVE  Parses(f) <=> ValidFile(f) /\ ~EmptyTableInside(f)
<1> DEFINE h == f.header
           Kernel == ValidKernel(KernelSegments(f), h.kernel_entry_vaddr)
           Named == \A i \in DOMAIN ModuleRecords(f) :
                      f.modules[i].clean /\ f.modules[i].name_length > 0
           Each == \A i \in DOMAIN ModuleRecords(f) :
                     ValidModule(SegmentsOf(f.modules[i]), f.modules[i].entry)
           Names == \A i, j \in DOMAIN ModuleRecords(f) :
                      i # j => f.modules[i].name # f.modules[j].name
           Occupied == Occupiable(ImageMap(f), f.size)
           Mapped == MapWithoutInsideTable(ImageMap(f), h.module_table_offset,
                                           h.module_count, f.size)
           Fixed == /\ h.clean /\ f.size = h.image_size
                    /\ f.size >= HeaderSize /\ f.size <= RomSize
                    /\ h.bootstrap_entry_paddr = Bootstrap
                    /\ h.boot_info_paddr = InfoBase
           Fit == /\ TableFits(h.kernel_segment_table_offset, h.kernel_segment_count, f.size)
                  /\ TableFits(h.module_table_offset, h.module_count, f.size)
<1>0. h \in HeaderType /\ f.size \in Nat
  BY DEF FileOK
<1>1. /\ h.kernel_entry_vaddr \in Nat /\ h.module_table_offset \in Nat
      /\ h.module_count \in Nat /\ h.kernel_segment_count \in Nat
      /\ h.kernel_segment_table_offset \in Nat /\ h.image_size \in Nat
  BY <1>0 DEF HeaderType
<1>2. /\ KernelSegments(f) \in Seq(KernelSegmentType)
      /\ DOMAIN KernelSegments(f) = 1 .. h.kernel_segment_count
      /\ \A i \in DOMAIN KernelSegments(f) : KernelSegments(f)[i] = f.kernel[i]
  BY FileRecords
<1>3. \A i \in DOMAIN ModuleRecords(f) :
        /\ ModuleRecords(f)[i] = f.modules[i] /\ f.modules[i] \in ModuleType
        /\ SegmentsOf(f.modules[i]) \in Seq(ModuleSegmentType)
        /\ DOMAIN SegmentsOf(f.modules[i]) = 1 .. f.modules[i].segment_count
        /\ \A j \in DOMAIN SegmentsOf(f.modules[i]) :
             SegmentsOf(f.modules[i])[j] = f.modules[i].segments[j]
  BY FileRecords
<1>4. Kernel <=>
        /\ \A i \in DOMAIN KernelSegments(f) :
             f.kernel[i].clean /\ KernelSegmentValid(f.kernel[i])
        /\ KernelValid(KernelSegments(f), h.kernel_entry_vaddr)
        /\ In(h.kernel_entry_vaddr, DirectMap)
  BY <1>1, <1>2, KernelExact
<1>5. ASSUME NEW i \in DOMAIN ModuleRecords(f)
      PROVE  ValidModule(SegmentsOf(f.modules[i]), f.modules[i].entry) <=>
               /\ \A j \in DOMAIN SegmentsOf(f.modules[i]) :
                    /\ f.modules[i].segments[j].clean
                    /\ ModuleSegmentValid(f.modules[i].segments[j])
               /\ ModuleValid(SegmentsOf(f.modules[i]), f.modules[i].entry)
  <2>1. f.modules[i].entry \in Nat
    BY <1>3 DEF ModuleType
  <2> QED BY <1>3, <2>1, ModuleExact
<1>6. Names <=> Distinct([i \in DOMAIN ModuleRecords(f) |-> f.modules[i].name])
  <2>1. DOMAIN ModuleRecords(f) \subseteq Int
    BY <1>1, FileRecords
  <2> QED BY <2>1 DEF Distinct
<1>7. Parses(f) <=> Fixed /\ Fit /\ Occupied /\ Kernel /\ Named /\ Each /\ Names
  <2>1. HeaderSize \in Nat /\ RomSize \in Nat
    BY Numbers
  <2>2. HeaderValid(h) <=>
          /\ h.image_size >= HeaderSize /\ h.image_size <= RomSize
          /\ h.bootstrap_entry_paddr = Bootstrap /\ h.boot_info_paddr = InfoBase
          /\ In(h.kernel_entry_vaddr, DirectMap)
          /\ TableFits(h.kernel_segment_table_offset, h.kernel_segment_count, h.image_size)
          /\ TableFits(h.module_table_offset, h.module_count, h.image_size)
    BY DEF HeaderValid
  <2>3. Named /\ Each <=>
          \A i \in DOMAIN ModuleRecords(f) :
            /\ f.modules[i].clean /\ f.modules[i].name_length > 0
            /\ \A j \in DOMAIN SegmentsOf(f.modules[i]) :
                 /\ f.modules[i].segments[j].clean
                 /\ ModuleSegmentValid(f.modules[i].segments[j])
            /\ ModuleValid(SegmentsOf(f.modules[i]), f.modules[i].entry)
    BY <1>5
  <2> HIDE DEF Named, Each, Names, Kernel, Occupied
  <2> QED BY <1>4, <1>6, <2>1, <2>2, <2>3 DEF Parses, Occupied
<1>8. ValidFile(f) /\ ~EmptyTableInside(f) <=>
        Fixed /\ Mapped /\ Kernel /\ Named /\ Each /\ Names
  <2>1. HeaderSize \in Nat /\ RomSize \in Nat
    BY Numbers
  <2>2. f.size \in HeaderSize .. RomSize <=> f.size >= HeaderSize /\ f.size <= RomSize
    BY <1>0, <2>1
  <2>3. ValidFile(f) <=>
          /\ Fixed /\ Kernel /\ Named /\ Each /\ Names
          /\ ValidMap(ImageMap(f), f.size)
          /\ h.module_count = 0 => h.module_table_offset <= f.size
    BY <1>3, <2>2 DEF ValidFile
  <2> HIDE DEF Fixed, Kernel, Named, Each, Names
  <2> QED BY <2>3 DEF EmptyTableInside, MapWithoutInsideTable
<1>9. ASSUME Kernel, Named, Each
      PROVE  (Occupied <=> Mapped) /\ (Occupied => Fit)
  <2>1. h.kernel_segment_count > 0
    BY <1>1, <1>2, <1>9 DEF ValidKernel
  <2>2. \A i \in DOMAIN ModuleRecords(f) :
          f.modules[i].name_length > 0 /\ f.modules[i].segment_count > 0
    <3>1. ASSUME NEW i \in DOMAIN ModuleRecords(f) PROVE f.modules[i].segment_count > 0
      <4>1. f.modules[i].segment_count \in Nat
        BY <1>3 DEF ModuleType
      <4>2. DOMAIN SegmentsOf(f.modules[i]) # {}
        BY <1>9 DEF ValidModule
      <4> QED BY <1>3, <4>1, <4>2
    <3> QED BY <1>9, <3>1
  <2> DEFINE length == h.module_count * RecordSize
             T == ModuleTable(f)
  <2>3. length \in Nat
    BY <1>1, TableSize
  <2>4. /\ T \in ImageMap(f) /\ IsRange(T) /\ T.start = h.module_table_offset
        /\ T.length = length /\ End(T) = h.module_table_offset + length
    <3> HIDE DEF length
    <3>1. T = Span(0, "modules", 0, h.module_table_offset, length)
      BY DEF ModuleTable, length
    <3>2. T \in ImageMap(f)
      BY DEF ModuleTable, ImageMap
    <3> QED BY <1>1, <2>3, <3>1, <3>2, SpanFacts
  <2>5. \A a \in ImageMap(f) \ {T} : IsRange(a) /\ a.length > 0
    BY <2>1, <2>2, MapSpans
  <2> DEFINE spans == ImageMap(f)
  <2> HIDE DEF T, spans
  <2>6. Occupied <=> Mapped
    BY <1>0, <1>1, <2>4, <2>5, MapExact DEF spans
  <2>7. ASSUME Occupied PROVE Fit
    <3> DEFINE size == h.kernel_segment_count * RecordSize
    <3>1. size \in Nat
      BY <1>1, TableSize
    <3>2. KernelTable(f) \in ImageMap(f)
      BY DEF KernelTable, ImageMap
    <3>3. KernelTable(f) = Span(0, "segments", 0, h.kernel_segment_table_offset, size)
      BY DEF KernelTable
    <3> HIDE DEF size
    <3>4. End(KernelTable(f)) = h.kernel_segment_table_offset + size
      BY <1>1, <3>1, <3>3, SpanFacts
    <3>5. End(KernelTable(f)) <= f.size /\ End(T) <= f.size
      BY <2>4, <2>7, <3>2 DEF Occupiable
    <3> QED BY <2>4, <3>4, <3>5 DEF TableFits, size
  <2> QED BY <2>6, <2>7
<1> HIDE DEF Kernel, Named, Each, Names, Occupied, Mapped, Fixed, Fit
<1> QED BY <1>7, <1>8, <1>9

-----------------------------------------------------------------------------
(* Sorting. What a definition by CHOOSE or by recursion yields is shown by the   *)
(* least counterexample: no induction principle is instantiated.                *)

LEMMA LeastElement ==
  ASSUME NEW T \in SUBSET Nat, T # {}
  PROVE  \E x \in T : \A y \in T : x <= y
<1> DEFINE R == OpToRel(<, Nat)
<1>1. IsWellFoundedOn(R, Nat)
  BY NatLessThanWellFounded
<1>2. \A x, y \in Nat : x < y => <<x, y>> \in R
  BY DEF OpToRel
<1> HIDE DEF R
<1>3. T \subseteq Nat
  OBVIOUS
<1>4. PICK x \in T : \A y \in T : ~(<<y, x>> \in R)
  BY <1>1, <1>3, WFMin, Zenon
<1>5. \A y \in T : ~(y < x)
  BY <1>2, <1>4
<1>6. \A y \in T : x <= y
  BY <1>5
<1> QED BY <1>6

Before(key, a, b) == key[a] < key[b] \/ (key[a] = key[b] /\ a < b)

Sorted(key, p) == \A i, j \in DOMAIN p : i < j => Before(key, p[i], p[j])

\* One more index finds its place in a sorted sequence of indices.
LEMMA SortInsert ==
  ASSUME NEW S \in SUBSET Nat, NEW key, \A i \in S : key[i] \in Int,
         NEW x \in S, NEW m \in Nat,
         NEW p \in [1 .. m -> S \ {x}], Sorted(key, p)
  PROVE  \E q \in [1 .. (m + 1) -> S] : Sorted(key, q)
<1> DEFINE Places == {i \in 1 .. (m + 1) : i = m + 1 \/ Before(key, x, p[i])}
<1>1. Places \in SUBSET Nat /\ Places # {}
  <2>1. m + 1 \in 1 .. (m + 1)
    OBVIOUS
  <2>2. m + 1 \in Places
    BY <2>1, Zenon
  <2>3. Places \subseteq 1 .. (m + 1) /\ 1 .. (m + 1) \subseteq Nat
    OBVIOUS
  <2> HIDE DEF Places
  <2> QED BY <2>2, <2>3
<1>2. PICK k \in Places : \A y \in Places : k <= y
  BY <1>1, LeastElement
<1>3. k \in 1 .. (m + 1) /\ (k <= m => Before(key, x, p[k]))
  BY <1>2
<1>4. \A i \in 1 .. m : i < k => ~Before(key, x, p[i])
  BY <1>2
<1> HIDE DEF Places
<1> DEFINE q == [i \in 1 .. (m + 1) |->
                   IF i < k THEN p[i] ELSE IF i = k THEN x ELSE p[i - 1]]
<1>5. q \in [1 .. (m + 1) -> S]
  BY <1>3
<1>6. \A i \in 1 .. m : p[i] \in S /\ p[i] # x /\ p[i] \in Nat /\ key[p[i]] \in Int
  OBVIOUS
<1>7. x \in Nat /\ key[x] \in Int
  OBVIOUS
<1>8. \A i \in 1 .. m : i < k => Before(key, p[i], x)
  BY <1>4, <1>6, <1>7 DEF Before
<1>9. \A i, j \in 1 .. m : i < j => Before(key, p[i], p[j])
  BY DEF Sorted
<1>10. \A j \in 1 .. m : k <= j => Before(key, x, p[j])
  <2> SUFFICES ASSUME NEW j \in 1 .. m, k <= j PROVE Before(key, x, p[j])
    OBVIOUS
  <2>1. k \in 1 .. m /\ Before(key, x, p[k])
    BY <1>3
  <2>2. CASE k = j
    BY <2>1, <2>2
  <2>3. CASE k < j
    <3>1. Before(key, p[k], p[j])
      BY <1>9, <2>1, <2>3
    <3> QED BY <1>6, <1>7, <2>1, <3>1 DEF Before
  <2> QED BY <1>3, <2>2, <2>3
<1>11. ASSUME NEW i \in 1 .. (m + 1), NEW j \in 1 .. (m + 1), i < j
       PROVE  Before(key, q[i], q[j])
  <2>1. CASE j < k
    BY <1>3, <1>9, <1>11, <2>1
  <2>2. CASE j = k
    BY <1>3, <1>8, <1>11, <2>2
  <2>3. CASE i < k /\ k < j
    <3>1. i \in 1 .. m /\ j - 1 \in 1 .. m /\ i < j - 1
      BY <1>3, <2>3
    <3> QED BY <1>3, <1>9, <2>3, <3>1
  <2>4. CASE i = k
    <3>1. j - 1 \in 1 .. m /\ k <= j - 1
      BY <1>3, <1>11, <2>4
    <3> QED BY <1>3, <1>10, <1>11, <2>4, <3>1
  <2>5. CASE k < i
    <3>1. i - 1 \in 1 .. m /\ j - 1 \in 1 .. m /\ i - 1 < j - 1
      BY <1>3, <1>11, <2>5
    <3> QED BY <1>3, <1>9, <1>11, <2>5, <3>1
  <2> QED BY <1>3, <1>11, <2>1, <2>2, <2>3, <2>4, <2>5
<1>12. Sorted(key, q)
  BY <1>5, <1>11 DEF Sorted
<1> HIDE DEF q
<1> QED BY <1>5, <1>12

\* Every finite set of indices can be sorted.
LEMMA SortExists ==
  ASSUME NEW D \in SUBSET Nat, NEW key, \A i \in D : key[i] \in Int, IsFiniteSet(D)
  PROVE  \E p \in [1 .. Cardinality(D) -> D] : Sorted(key, p)
<1> DEFINE Fails(S) == ~(\E p \in [1 .. Cardinality(S) -> S] : Sorted(key, p))
           Bad == {n \in Nat : \E S \in SUBSET D : Cardinality(S) = n /\ Fails(S)}
<1> SUFFICES ASSUME Fails(D) PROVE FALSE
  OBVIOUS
<1>1. Cardinality(D) \in Nat
  BY FS_CardinalityType
<1>2. Cardinality(D) \in Bad
  BY <1>1
<1>3. Bad \in SUBSET Nat /\ Bad # {}
  BY <1>2
<1>4. PICK n \in Bad : \A y \in Bad : n <= y
  BY <1>3, LeastElement
<1>5. PICK S \in SUBSET D : Cardinality(S) = n /\ Fails(S)
  BY <1>4
<1>6. IsFiniteSet(S) /\ n \in Nat
  BY <1>4, FS_Subset
<1> HIDE DEF Fails
<1>7. CASE S = {}
  <2>1. n = 0
    BY <1>5, <1>7, FS_EmptySet
  <2>2. [i \in 1 .. 0 |-> 0] \in [1 .. n -> S] /\ Sorted(key, [i \in 1 .. 0 |-> 0])
    BY <2>1 DEF Sorted
  <2> QED BY <1>5, <2>2 DEF Fails
<1>8. CASE S # {}
  <2>1. PICK x \in S : TRUE
    BY <1>8
  <2>2. IsFiniteSet(S \ {x}) /\ Cardinality(S \ {x}) = n - 1
    BY <1>5, <1>6, FS_RemoveElement
  <2>3. n - 1 \in Nat
    BY <2>2, FS_CardinalityType
  <2>4. n - 1 \notin Bad
    BY <1>4, <1>6
  <2>5. ~Fails(S \ {x})
    BY <2>2, <2>3, <2>4
  <2>6. PICK p \in [1 .. (n - 1) -> S \ {x}] : Sorted(key, p)
    BY <2>2, <2>5 DEF Fails
  <2>7. S \in SUBSET Nat /\ \A i \in S : key[i] \in Int
    OBVIOUS
  <2> DEFINE m == n - 1
  <2>8. m \in Nat /\ p \in [1 .. m -> S \ {x}]
    BY <2>3
  <2>9. m + 1 = n
    BY <1>6
  <2> HIDE DEF m
  <2>10. \E q \in [1 .. (m + 1) -> S] : Sorted(key, q)
    BY <2>1, <2>6, <2>7, <2>8, SortInsert
  <2> QED BY <1>5, <2>9, <2>10 DEF Fails
<1> QED BY <1>7, <1>8

\* What sort_by_key returns: every index once, in order.
LEMMA SortedByFacts ==
  ASSUME NEW D \in SUBSET Nat, NEW key, \A i \in D : key[i] \in Int, IsFiniteSet(D)
  PROVE  LET p == SortedBy(D, key)
             n == Cardinality(D)
         IN  /\ n \in Nat /\ p \in [1 .. n -> D] /\ Sorted(key, p)
             /\ \A i, j \in 1 .. n : i # j => p[i] # p[j]
             /\ \A d \in D : \E i \in 1 .. n : p[i] = d
<1> DEFINE p == SortedBy(D, key)
           n == Cardinality(D)
<1>1. n \in Nat
  BY FS_CardinalityType
<1>2. p \in [1 .. n -> D] /\ Sorted(key, p)
  <2>1. SortedBy(D, key) = CHOOSE q \in [1 .. Cardinality(D) -> D] : Sorted(key, q)
    BY DEF SortedBy, Sorted, Before
  <2> QED BY <2>1, SortExists
<1> HIDE DEF p
<1>3. ASSUME NEW i \in 1 .. n, NEW j \in 1 .. n, i # j PROVE p[i] # p[j]
  <2>1. i < j \/ j < i
    BY <1>1, <1>3
  <2>2. Before(key, p[i], p[j]) \/ Before(key, p[j], p[i])
    BY <1>2, <2>1 DEF Sorted
  <2>3. p[i] \in Nat /\ key[p[i]] \in Int
    BY <1>2
  <2> QED BY <2>2, <2>3 DEF Before
<1> HIDE DEF n
<1>4. p \in Injection(1 .. n, D)
  BY <1>2, <1>3 DEF Injection, IsInjective
<1>5. IsFiniteSet(1 .. n) /\ Cardinality(1 .. n) = n
  BY <1>1, FS_Interval
<1>6. p \in Surjection(1 .. n, D)
  BY <1>4, <1>5, FS_Injection DEF n
<1>7. \A d \in D : \E i \in 1 .. n : p[i] = d
  BY <1>6 DEF Surjection
<1> QED BY <1>1, <1>2, <1>3, <1>7 DEF p, n

-----------------------------------------------------------------------------
(* Laying pieces out *)

LEMMA DivFacts ==
  ASSUME NEW t \in Nat, NEW w \in Nat, w > 0
  PROVE  t \div w \in Nat /\ (t \div w) * w \in Nat /\ (t \div w) * w > t - w
<1>1. t \div w \in Nat
  OBVIOUS
<1>2. (t \div w) * w > t - w
  OBVIOUS
<1> DEFINE q == t \div w
<1> HIDE DEF q
<1>3. q \in Nat => q * w \in Nat
  OBVIOUS
<1> QED BY <1>1, <1>2, <1>3 DEF q

LEMMA AlignedFacts ==
  ASSUME NEW n \in Nat
  PROVE  Aligned(n) \in Nat /\ n <= Aligned(n)
<1>1. Word \in Nat /\ Word > 0
  BY Numbers
<1> DEFINE t == n + Word - 1
           r == (t \div Word) * Word
<1>2. t \in Nat /\ t - Word = n - 1
  BY <1>1
<1> HIDE DEF t
<1>3. r \in Nat /\ r > t - Word
  BY <1>1, <1>2, DivFacts
<1> HIDE DEF r
<1>4. n <= r
  BY <1>2, <1>3
<1> QED BY <1>3, <1>4 DEF Aligned, r, t

Place(aligned, end) == IF aligned THEN Aligned(end) ELSE end

LEMMA PlaceFacts ==
  ASSUME NEW aligned \in BOOLEAN, NEW n \in Nat
  PROVE  Place(aligned, n) \in Nat /\ n <= Place(aligned, n)
BY AlignedFacts DEF Place

\* The running end of the pieces up to each of them, as Placed defines it.
Ends(g, n, start, sizes, aligned) ==
  g = [i \in 0 .. n |-> IF i = 0 THEN start ELSE Place(aligned, g[i - 1]) + sizes[i]]

LEMMA EndsExist ==
  ASSUME NEW start, NEW sizes, NEW aligned, NEW top \in Nat
  PROVE  \E g : Ends(g, top, start, sizes, aligned)
<1> DEFINE Bad == {n \in Nat : ~(\E g : Ends(g, n, start, sizes, aligned))}
<1> SUFFICES ASSUME top \in Bad PROVE FALSE
  OBVIOUS
<1>1. Bad \in SUBSET Nat /\ Bad # {}
  OBVIOUS
<1>2. PICK n \in Bad : \A y \in Bad : n <= y
  BY <1>1, LeastElement
<1>3. n \in Nat /\ ~(\E g : Ends(g, n, start, sizes, aligned))
  BY <1>2
<1>4. CASE n = 0
  <2> DEFINE g == [i \in 0 .. 0 |-> start]
  <2>1. g = [i \in 0 .. 0 |-> IF i = 0 THEN start ELSE Place(aligned, g[i - 1]) + sizes[i]]
    OBVIOUS
  <2>2. Ends(g, 0, start, sizes, aligned)
    BY <2>1 DEF Ends
  <2> QED BY <1>3, <1>4, <2>2
<1>5. CASE n > 0
  <2>1. n - 1 \in Nat /\ n - 1 \notin Bad
    BY <1>2, <1>3, <1>5
  <2>2. PICK g : Ends(g, n - 1, start, sizes, aligned)
    BY <2>1
  <2> DEFINE h == [i \in 0 .. n |-> IF i = n THEN Place(aligned, g[n - 1]) + sizes[n]
                                             ELSE g[i]]
             step == [i \in 0 .. n |-> IF i = 0 THEN start
                                       ELSE Place(aligned, h[i - 1]) + sizes[i]]
  <2>3. \A i \in 0 .. (n - 1) :
          g[i] = IF i = 0 THEN start ELSE Place(aligned, g[i - 1]) + sizes[i]
    BY <2>2 DEF Ends
  <2>4. \A i \in 0 .. n : h[i] = step[i]
    <3> SUFFICES ASSUME NEW i \in 0 .. n PROVE h[i] = step[i]
      OBVIOUS
    <3>1. CASE i = 0
      BY <1>3, <1>5, <2>3, <3>1
    <3>2. CASE i = n
      <4>1. n - 1 \in 0 .. n /\ n - 1 # n
        BY <1>3, <1>5
      <4>2. h[n - 1] = g[n - 1]
        BY <4>1
      <4> HIDE DEF h
      <4>3. step[n] = Place(aligned, h[n - 1]) + sizes[n]
        BY <1>3, <1>5
      <4>4. h[n] = Place(aligned, g[n - 1]) + sizes[n]
        BY <1>3, <1>5 DEF h
      <4> QED BY <3>2, <4>2, <4>3, <4>4
    <3>3. CASE i # 0 /\ i # n
      <4>1. i \in 0 .. (n - 1) /\ i - 1 \in 0 .. n /\ i - 1 # n
        BY <1>3, <3>3
      <4>2. h[i - 1] = g[i - 1] /\ h[i] = g[i]
        BY <3>3, <4>1
      <4>3. step[i] = Place(aligned, h[i - 1]) + sizes[i]
        BY <3>3
      <4> QED BY <2>3, <3>3, <4>1, <4>2, <4>3
    <3> QED BY <3>1, <3>2, <3>3
  <2>5. h = step
    BY <2>4
  <2>6. Ends(h, n, start, sizes, aligned)
    BY <2>5 DEF Ends
  <2> QED BY <1>3, <2>6
<1> QED BY <1>3, <1>4, <1>5

\* The ends of the pieces never go back.
LEMMA EndsGrow ==
  ASSUME NEW start \in Nat, NEW sizes \in Seq(Nat), NEW aligned \in BOOLEAN,
         NEW g, Ends(g, Len(sizes), start, sizes, aligned)
  PROVE  /\ g[0] = start /\ \A i \in 0 .. Len(sizes) : g[i] \in Nat
         /\ \A i \in 1 .. Len(sizes) : g[i] = Place(aligned, g[i - 1]) + sizes[i]
         /\ \A i, j \in 0 .. Len(sizes) : i <= j => g[i] <= g[j]
<1> DEFINE top == Len(sizes)
<1>0. top \in Nat /\ \A i \in 1 .. top : sizes[i] \in Nat
  OBVIOUS
<1>1. g[0] = start /\ \A i \in 1 .. top : g[i] = Place(aligned, g[i - 1]) + sizes[i]
  BY DEF Ends
<1> HIDE DEF top
<1>2. \A i \in 0 .. top : g[i] \in Nat
  <2> DEFINE Bad == {i \in 0 .. top : g[i] \notin Nat}
  <2> SUFFICES ASSUME Bad # {} PROVE FALSE
    OBVIOUS
  <2>1. Bad \in SUBSET Nat
    BY <1>0
  <2>2. PICK n \in Bad : \A y \in Bad : n <= y
    BY <2>1, LeastElement
  <2>3. n # 0
    BY <1>1, <2>2
  <2>4. n \in 1 .. top /\ n - 1 \in 0 .. top /\ ~(n <= n - 1)
    BY <1>0, <2>2, <2>3
  <2>5. g[n - 1] \in Nat
    BY <2>2, <2>4
  <2>6. Place(aligned, g[n - 1]) \in Nat /\ sizes[n] \in Nat
    BY <1>0, <2>4, <2>5, PlaceFacts
  <2> QED BY <1>1, <2>2, <2>4, <2>6
<1>3. \A i \in 1 .. top : g[i - 1] <= g[i]
  <2> SUFFICES ASSUME NEW i \in 1 .. top PROVE g[i - 1] <= g[i]
    OBVIOUS
  <2>1. i - 1 \in 0 .. top
    BY <1>0
  <2>2. /\ g[i - 1] \in Nat /\ Place(aligned, g[i - 1]) \in Nat /\ sizes[i] \in Nat
        /\ g[i - 1] <= Place(aligned, g[i - 1])
    BY <1>0, <1>2, <2>1, PlaceFacts
  <2> QED BY <1>1, <2>2
<1>4. ASSUME NEW i \in 0 .. top PROVE \A j \in 0 .. top : i <= j => g[i] <= g[j]
  <2> DEFINE Bad == {j \in 0 .. top : i <= j /\ ~(g[i] <= g[j])}
  <2> SUFFICES ASSUME Bad # {} PROVE FALSE
    OBVIOUS
  <2>1. Bad \in SUBSET Nat
    BY <1>0
  <2>2. PICK n \in Bad : \A y \in Bad : n <= y
    BY <2>1, LeastElement
  <2>3. n # i
    BY <1>2, <2>2
  <2>4. n \in 1 .. top /\ n - 1 \in 0 .. top /\ ~(n <= n - 1) /\ i <= n - 1
    BY <1>0, <2>2, <2>3
  <2>5. g[i] <= g[n - 1]
    BY <2>2, <2>4
  <2>6. g[i] <= g[n]
    BY <1>2, <1>3, <2>4, <2>5
  <2> QED BY <2>2, <2>6
<1> QED BY <1>1, <1>2, <1>4 DEF top

\* What build_image's cursor amounts to: pieces in order, none over another.
LEMMA PlacedFacts ==
  ASSUME NEW start \in Nat, NEW sizes \in Seq(Nat), NEW aligned \in BOOLEAN
  PROVE  LET p == Placed(start, sizes, aligned)
         IN  /\ p.at \in [DOMAIN sizes -> Nat] /\ p.end \in Nat /\ start <= p.end
             /\ \A i \in DOMAIN sizes : start <= p.at[i] /\ p.at[i] + sizes[i] <= p.end
             /\ \A i, j \in DOMAIN sizes : i < j => p.at[i] + sizes[i] <= p.at[j]
<1> DEFINE top == Len(sizes)
           g == CHOOSE h : Ends(h, top, start, sizes, aligned)
           p == Placed(start, sizes, aligned)
<1>1. DOMAIN sizes = 1 .. top /\ top \in Nat /\ \A i \in 1 .. top : sizes[i] \in Nat
  OBVIOUS
<1>2. Ends(g, top, start, sizes, aligned)
  BY <1>1, EndsExist
<1>3. /\ p.at = [i \in DOMAIN sizes |-> Place(aligned, g[i - 1])]
      /\ p.end = g[top]
  BY DEF Placed, Ends, Place
<1> HIDE DEF g, p
<1>4. /\ g[0] = start /\ \A i \in 0 .. top : g[i] \in Nat
      /\ \A i \in 1 .. top : g[i] = Place(aligned, g[i - 1]) + sizes[i]
      /\ \A i, j \in 0 .. top : i <= j => g[i] <= g[j]
  BY <1>2, EndsGrow
<1> HIDE DEF top
<1>5. ASSUME NEW i \in 1 .. top
      PROVE  /\ p.at[i] \in Nat /\ start <= p.at[i] /\ p.at[i] + sizes[i] = g[i]
             /\ g[i - 1] <= p.at[i]
  <2>1. 0 \in 0 .. top /\ i - 1 \in 0 .. top /\ 0 <= i - 1
    BY <1>1
  <2>2. g[i - 1] \in Nat /\ start <= g[i - 1]
    BY <1>4, <2>1
  <2>3. p.at[i] = Place(aligned, g[i - 1])
    BY <1>1, <1>3
  <2>4. Place(aligned, g[i - 1]) \in Nat /\ g[i - 1] <= Place(aligned, g[i - 1])
    BY <2>2, PlaceFacts
  <2>5. g[i] = Place(aligned, g[i - 1]) + sizes[i]
    BY <1>4
  <2> QED BY <2>2, <2>3, <2>4, <2>5
<1>6. ASSUME NEW i \in 1 .. top PROVE p.at[i] + sizes[i] <= p.end
  BY <1>1, <1>3, <1>4, <1>5
<1>7. ASSUME NEW i \in 1 .. top, NEW j \in 1 .. top, i < j
      PROVE  p.at[i] + sizes[i] <= p.at[j]
  <2>1. i \in 0 .. top /\ j - 1 \in 0 .. top /\ i <= j - 1
    BY <1>1, <1>7
  <2>2. g[i] <= g[j - 1] /\ g[i] \in Nat /\ g[j - 1] \in Nat
    BY <1>4, <2>1
  <2>3. p.at[i] + sizes[i] = g[i] /\ g[j - 1] <= p.at[j] /\ p.at[j] \in Nat
    BY <1>5
  <2> QED BY <2>2, <2>3
<1>8. p.end \in Nat /\ start <= p.end
  BY <1>1, <1>3, <1>4
<1>9. p.at \in [DOMAIN sizes -> Nat]
  BY <1>1, <1>3, <1>5
<1> QED BY <1>1, <1>5, <1>6, <1>7, <1>8, <1>9 DEF p

-----------------------------------------------------------------------------
(* What the packer makes of its input *)

ElfSegmentType ==
  [address : Nat, file_size : Nat, memory_size : Nat, flags : SUBSET Nat]

LEMMA ElfFacts ==
  ASSUME NEW elf \in ElfType
  PROVE  /\ elf.entry \in Nat /\ elf.segments \in Seq(ElfSegmentType)
         /\ \A i \in DOMAIN elf.segments :
              /\ elf.segments[i] \in ElfSegmentType
              /\ elf.segments[i].address \in Nat /\ elf.segments[i].file_size \in Nat
              /\ elf.segments[i].memory_size \in Nat
              /\ elf.segments[i].flags \in SUBSET Nat
<1>1. elf.entry \in Nat /\ elf.segments \in Seq(ElfSegmentType)
  BY DEF ElfType, ElfSegmentType
<1>2. \A i \in DOMAIN elf.segments : elf.segments[i] \in ElfSegmentType
  BY <1>1
<1> QED BY <1>1, <1>2 DEF ElfSegmentType

\* The loaded segments of an ELF file: each of them once, by address.
LEMMA ByAddressFacts ==
  ASSUME NEW elf \in ElfType
  PROVE  LET p == ByAddress(elf)
             n == Cardinality(LoadSegments(elf))
         IN  /\ n \in Nat /\ p \in [1 .. n -> LoadSegments(elf)]
             /\ LoadSegments(elf) \subseteq DOMAIN elf.segments
             /\ \A i, j \in 1 .. n :
                  i < j => elf.segments[p[i]].address <= elf.segments[p[j]].address
             /\ \A i, j \in 1 .. n : i # j => p[i] # p[j]
             /\ \A d \in LoadSegments(elf) : \E i \in 1 .. n : p[i] = d
<1> DEFINE D == LoadSegments(elf)
           key == [i \in DOMAIN elf.segments |-> elf.segments[i].address]
           n == Cardinality(D)
           p == ByAddress(elf)
<1>1. elf.segments \in Seq(ElfSegmentType)
  BY ElfFacts
<1>2. D \subseteq DOMAIN elf.segments
  BY DEF LoadSegments
<1>3. D \in SUBSET Nat /\ IsFiniteSet(D)
  <2> DEFINE m == Len(elf.segments)
  <2>1. m \in Nat /\ DOMAIN elf.segments = 1 .. m
    BY <1>1
  <2> HIDE DEF m
  <2>2. IsFiniteSet(1 .. m)
    BY <2>1, FS_Interval
  <2> QED BY <1>2, <2>1, <2>2, FS_Subset
<1>4. \A i \in D : key[i] \in Int /\ key[i] = elf.segments[i].address
  BY <1>2, ElfFacts
<1>5. p = SortedBy(D, key)
  BY DEF ByAddress
<1> HIDE DEF D, key, p, n
<1>6. /\ n \in Nat /\ p \in [1 .. n -> D] /\ Sorted(key, p)
      /\ \A i, j \in 1 .. n : i # j => p[i] # p[j]
      /\ \A d \in D : \E i \in 1 .. n : p[i] = d
  BY <1>3, <1>4, <1>5, SortedByFacts DEF n
<1>7. \A i, j \in 1 .. n :
        i < j => elf.segments[p[i]].address <= elf.segments[p[j]].address
  BY <1>4, <1>6 DEF Sorted, Before
<1> QED BY <1>2, <1>6, <1>7 DEF D, n, p

LinkedInRam(elf) ==
  \A i \in LoadSegments(elf) :
    LET address == elf.segments[i].address
    IN  In(address, Ram) \/ In(address, DirectMap)

LEMMA KernelRecordType ==
  ASSUME NEW s \in ElfSegmentType, In(s.address, Ram) \/ In(s.address, DirectMap)
  PROVE  KernelRecord(s) \in KernelSegmentType
<1>1. s.address \in Nat /\ s.flags \in SUBSET Nat
  BY DEF ElfSegmentType
<1>2. ~In(s.address, Ram) => s.address - DirectOffset \in Nat
  <2>1. RamBase \in Nat /\ DirectOffset \in Nat
    BY Numbers
  <2> QED BY <1>1, <2>1, PlatformRanges DEF In
<1> DEFINE pa == IF In(s.address, Ram) THEN s.address ELSE s.address - DirectOffset
<1>3. pa \in Nat
  BY <1>1, <1>2
<1> HIDE DEF pa
<1>4. KernelRecord(s) =
        [ data_offset |-> 0, virtual_address |-> s.address, physical_address |-> pa,
          file_size |-> s.file_size, memory_size |-> s.memory_size, flags |-> s.flags,
          clean |-> TRUE ]
  BY DEF KernelRecord, pa
<1> QED BY <1>1, <1>3, <1>4 DEF KernelSegmentType, ElfSegmentType

LEMMA PackedKernelFacts ==
  ASSUME NEW elf \in ElfType, LinkedInRam(elf)
  PROVE  LET records == PackedKernel(elf)
             n == Cardinality(LoadSegments(elf))
         IN  /\ records \in Seq(KernelSegmentType) /\ Len(records) = n
             /\ DOMAIN records = 1 .. n
             /\ \A i \in 1 .. n : records[i] = KernelRecord(elf.segments[ByAddress(elf)[i]])
<1> DEFINE p == ByAddress(elf)
           n == Cardinality(LoadSegments(elf))
           records == PackedKernel(elf)
<1>1. /\ n \in Nat /\ p \in [1 .. n -> LoadSegments(elf)]
      /\ LoadSegments(elf) \subseteq DOMAIN elf.segments
  BY ByAddressFacts
<1>2. records = [i \in DOMAIN p |-> KernelRecord(elf.segments[p[i]])]
  BY DEF PackedKernel
<1> HIDE DEF p, n, records
<1>3. \A i \in 1 .. n : KernelRecord(elf.segments[p[i]]) \in KernelSegmentType
  BY <1>1, ElfFacts, KernelRecordType DEF LinkedInRam
<1>4. records \in [1 .. n -> KernelSegmentType]
  BY <1>1, <1>2, <1>3
<1>5. \A i \in 1 .. n : records[i] = KernelRecord(elf.segments[p[i]])
  BY <1>1, <1>2
<1>6. records \in Seq(KernelSegmentType) /\ Len(records) = n /\ DOMAIN records = 1 .. n
  BY <1>1, <1>4
<1> QED BY <1>5, <1>6 DEF p, n, records

LEMMA PackedSegmentsFacts ==
  ASSUME NEW elf \in ElfType
  PROVE  LET records == PackedSegments(elf)
             n == Cardinality(LoadSegments(elf))
         IN  /\ records \in Seq(ModuleSegmentType) /\ Len(records) = n
             /\ DOMAIN records = 1 .. n
             /\ \A i \in 1 .. n : records[i] = ModuleSegment(elf.segments[ByAddress(elf)[i]])
<1> DEFINE p == ByAddress(elf)
           n == Cardinality(LoadSegments(elf))
           records == PackedSegments(elf)
<1>1. /\ n \in Nat /\ p \in [1 .. n -> LoadSegments(elf)]
      /\ LoadSegments(elf) \subseteq DOMAIN elf.segments
  BY ByAddressFacts
<1>2. records = [i \in DOMAIN p |-> ModuleSegment(elf.segments[p[i]])]
  BY DEF PackedSegments
<1> HIDE DEF p, n, records
<1>3. \A i \in 1 .. n : ModuleSegment(elf.segments[p[i]]) \in ModuleSegmentType
  BY <1>1, ElfFacts DEF ModuleSegment, ModuleSegmentType, ElfSegmentType
<1>4. records \in [1 .. n -> ModuleSegmentType]
  BY <1>1, <1>2, <1>3
<1>5. \A i \in 1 .. n : records[i] = ModuleSegment(elf.segments[p[i]])
  BY <1>1, <1>2
<1>6. records \in Seq(ModuleSegmentType) /\ Len(records) = n /\ DOMAIN records = 1 .. n
  BY <1>1, <1>4
<1> QED BY <1>5, <1>6 DEF p, n, records

ModuleInputType == [name : Nat, elf : ElfType]

InputOK == input.kernel \in Kernels /\ input.modules \in Seq(Modules)

\* The modules by name: each input once.
LEMMA SortedModulesFacts ==
  ASSUME InputOK
  PROVE  /\ SortedModules \in Seq(ModuleInputType)
         /\ Len(SortedModules) = Len(input.modules)
         /\ \E p \in [1 .. Len(input.modules) -> 1 .. Len(input.modules)] :
              /\ \A i, j \in 1 .. Len(input.modules) : i # j => p[i] # p[j]
              /\ \A i \in 1 .. Len(input.modules) : SortedModules[i] = input.modules[p[i]]
              /\ \A i, j \in 1 .. Len(input.modules) :
                   i < j => SortedModules[i].name <= SortedModules[j].name
<1> DEFINE D == DOMAIN input.modules
           n == Len(input.modules)
           key == [i \in D |-> input.modules[i].name]
           p == SortedBy(D, key)
<1>0. input.modules \in Seq(ModuleInputType)
  <2>1. Modules \subseteq ModuleInputType
    BY ImageAssumption DEF ModuleInputType
  <2>2. /\ input.modules \in [1 .. Len(input.modules) -> Modules]
        /\ Len(input.modules) \in Nat
    BY DEF InputOK
  <2>3. input.modules \in [1 .. Len(input.modules) -> ModuleInputType]
    BY <2>1, <2>2
  <2> QED BY <2>2, <2>3
<1>1. n \in Nat /\ D = 1 .. n /\ \A i \in D : input.modules[i] \in ModuleInputType
  BY <1>0
<1>2. \A i \in D : key[i] = input.modules[i].name /\ key[i] \in Int
  BY <1>1 DEF ModuleInputType
<1>3. SortedModules = [i \in DOMAIN p |-> input.modules[p[i]]]
  BY DEF SortedModules
<1> HIDE DEF D, n, key
<1>4. IsFiniteSet(D) /\ Cardinality(D) = n /\ D \in SUBSET Nat
  BY <1>1, FS_Interval
<1>5. /\ p \in [1 .. n -> D] /\ Sorted(key, p)
      /\ \A i, j \in 1 .. n : i # j => p[i] # p[j]
  BY <1>2, <1>4, SortedByFacts
<1> HIDE DEF p
<1>6. \A i \in 1 .. n : SortedModules[i] = input.modules[p[i]] /\ p[i] \in D
  BY <1>3, <1>5
<1>7. SortedModules \in [1 .. n -> ModuleInputType]
  BY <1>1, <1>3, <1>5
<1>8. SortedModules \in Seq(ModuleInputType) /\ Len(SortedModules) = n
  BY <1>1, <1>7
<1>9. \A i, j \in 1 .. n : i < j => SortedModules[i].name <= SortedModules[j].name
  <2> SUFFICES ASSUME NEW i \in 1 .. n, NEW j \in 1 .. n, i < j
               PROVE  SortedModules[i].name <= SortedModules[j].name
    OBVIOUS
  <2>1. Before(key, p[i], p[j])
    BY <1>5 DEF Sorted
  <2>2. key[p[i]] <= key[p[j]]
    BY <1>2, <1>6, <2>1 DEF Before
  <2> QED BY <1>2, <1>6, <2>2
<1> QED BY <1>1, <1>5, <1>6, <1>8, <1>9 DEF n

-----------------------------------------------------------------------------
(* The layout of a built file: the parts of BuiltFile, by name *)

LKernel == PackedKernel(input.kernel)
LSegments == [i \in DOMAIN SortedModules |-> PackedSegments(SortedModules[i].elf)]
LModuleTable == HeaderSize + Len(LKernel) * RecordSize
LTables == Placed(LModuleTable + Len(SortedModules) * RecordSize,
                  [i \in DOMAIN SortedModules |-> Len(LSegments[i]) * RecordSize], TRUE)
LNames == Placed(Aligned(LTables.end),
                 [i \in DOMAIN SortedModules |-> SortedModules[i].name], FALSE)
LKernelData == Placed(Aligned(LNames.end), Sizes(LKernel), FALSE)
LModuleData == Placed(LKernelData.end,
                      [i \in DOMAIN SortedModules |->
                         Placed(0, Sizes(LSegments[i]), FALSE).end], FALSE)
LDataOf(i) == Placed(LModuleData.at[i], Sizes(LSegments[i]), FALSE).at
LKernelRecords == WithOffsets(LKernel, LKernelData.at)
LModuleSegments ==
  [i \in DOMAIN SortedModules |-> WithOffsets(LSegments[i], LDataOf(i))]
LStored ==
  {<<0, s>> : s \in {LKernelRecords[i] : i \in DOMAIN LKernel}}
    \cup UNION {{<<SortedModules[i].name, LModuleSegments[i][j]>> :
                   j \in DOMAIN LSegments[i]} : i \in DOMAIN SortedModules}

LHeader ==
  [ image_size |-> LModuleData.end,
    kernel_segment_table_offset |-> HeaderSize,
    kernel_segment_count |-> Len(LKernel),
    module_table_offset |-> LModuleTable,
    module_count |-> Len(SortedModules),
    bootstrap_entry_paddr |-> Bootstrap,
    kernel_entry_vaddr |-> input.kernel.entry,
    boot_info_paddr |-> InfoBase, clean |-> TRUE ]

LModules ==
  [i \in DOMAIN SortedModules |->
     [ name |-> SortedModules[i].name, name_offset |-> LNames.at[i],
       name_length |-> SortedModules[i].name,
       segment_table_offset |-> LTables.at[i],
       segment_count |-> Len(LSegments[i]),
       entry |-> SortedModules[i].elf.entry, clean |-> TRUE,
       segments |-> LModuleSegments[i] ]]

LContent ==
  [o \in 0 .. (LModuleData.end - 1) |->
     {Byte(p[1], p[2].virtual_address + (o - p[2].data_offset)) :
        p \in {q \in LStored : In(o, Payload(q[2]))}}]

LEMMA BuiltShape ==
  BuiltFile = [ size |-> LModuleData.end, header |-> LHeader, kernel |-> LKernelRecords,
                modules |-> LModules, content |-> LContent ]
BY DEF BuiltFile, LKernel, LSegments, LModuleTable, LTables, LNames, LKernelData,
       LModuleData, LDataOf, LKernelRecords, LModuleSegments, LStored, LHeader, LModules,
       LContent

\* Pieces that are not aligned take as much room wherever they begin.
LEMMA PlacedShift ==
  ASSUME NEW start \in Nat, NEW sizes \in Seq(Nat)
  PROVE  Placed(start, sizes, FALSE).end = start + Placed(0, sizes, FALSE).end
<1> DEFINE top == Len(sizes)
           no == FALSE
           f == CHOOSE h : Ends(h, top, start, sizes, no)
           g == CHOOSE h : Ends(h, top, 0, sizes, no)
<1>1. top \in Nat /\ \A i \in 1 .. top : sizes[i] \in Nat
  OBVIOUS
<1>2. Placed(start, sizes, FALSE).end = f[top] /\ Placed(0, sizes, FALSE).end = g[top]
  BY DEF Placed, Ends, Place
<1>a. no \in BOOLEAN /\ ~no
  OBVIOUS
<1> HIDE DEF no
<1>3. Ends(f, top, start, sizes, no) /\ Ends(g, top, 0, sizes, no)
  BY <1>1, EndsExist
<1> HIDE DEF f, g
<1>4. /\ f[0] = start /\ \A i \in 0 .. top : f[i] \in Nat
      /\ \A i \in 1 .. top : f[i] = Place(no, f[i - 1]) + sizes[i]
  BY <1>a, <1>3, EndsGrow
<1>5. /\ g[0] = 0 /\ \A i \in 0 .. top : g[i] \in Nat
      /\ \A i \in 1 .. top : g[i] = Place(no, g[i - 1]) + sizes[i]
  BY <1>a, <1>3, EndsGrow
<1> HIDE DEF top
<1> DEFINE Bad == {i \in 0 .. top : f[i] # start + g[i]}
<1>6. ASSUME Bad # {} PROVE FALSE
  <2>1. Bad \in SUBSET Nat
    BY <1>1
  <2>2. PICK n \in Bad : \A y \in Bad : n <= y
    BY <1>6, <2>1, LeastElement
  <2>3. n # 0
    BY <1>4, <1>5, <2>2
  <2>4. n \in 1 .. top /\ n - 1 \in 0 .. top /\ ~(n <= n - 1)
    BY <1>1, <2>2, <2>3
  <2>5. f[n - 1] = start + g[n - 1]
    BY <2>2, <2>4
  <2>6. f[n] = f[n - 1] + sizes[n] /\ g[n] = g[n - 1] + sizes[n]
    BY <1>a, <1>4, <1>5, <2>4 DEF Place
  <2>7. f[n] = start + g[n]
    BY <1>1, <1>4, <1>5, <2>4, <2>5, <2>6
  <2> QED BY <2>2, <2>7
<1>7. f[top] = start + g[top]
  BY <1>1, <1>6
<1> QED BY <1>2, <1>7

\* The facts of PlacedFacts for pieces laid end to end.
EndToEnd(p, start, sizes) ==
  /\ p.at \in [DOMAIN sizes -> Nat] /\ p.end \in Nat /\ start <= p.end
  /\ \A i \in DOMAIN sizes : start <= p.at[i] /\ p.at[i] + sizes[i] <= p.end
  /\ \A i, j \in DOMAIN sizes : i < j => p.at[i] + sizes[i] <= p.at[j]

LEMMA PlacedEndToEnd ==
  ASSUME NEW start \in Nat, NEW sizes \in Seq(Nat)
  PROVE  /\ EndToEnd(Placed(start, sizes, FALSE), start, sizes)
         /\ EndToEnd(Placed(start, sizes, TRUE), start, sizes)
<1>1. ASSUME NEW aligned \in BOOLEAN
      PROVE  EndToEnd(Placed(start, sizes, aligned), start, sizes)
  <2> DEFINE p == Placed(start, sizes, aligned)
  <2>1. /\ p.at \in [DOMAIN sizes -> Nat] /\ p.end \in Nat /\ start <= p.end
        /\ \A i \in DOMAIN sizes : start <= p.at[i] /\ p.at[i] + sizes[i] <= p.end
        /\ \A i, j \in DOMAIN sizes : i < j => p.at[i] + sizes[i] <= p.at[j]
    BY PlacedFacts
  <2> QED BY <2>1 DEF EndToEnd
<1>2. EndToEnd(Placed(start, sizes, FALSE), start, sizes)
  BY <1>1, Zenon
<1>3. EndToEnd(Placed(start, sizes, TRUE), start, sizes)
  BY <1>1, Zenon
<1> QED BY <1>2, <1>3

LEMMA PackedInput ==
  ASSUME InputOK, LinkedInRam(input.kernel)
  PROVE  /\ input.kernel \in ElfType
         /\ LKernel \in Seq(KernelSegmentType)
         /\ SortedModules \in Seq(ModuleInputType)
         /\ DOMAIN LSegments = DOMAIN SortedModules
         /\ \A i \in DOMAIN SortedModules :
              /\ SortedModules[i].name \in Nat /\ SortedModules[i].elf \in ElfType
              /\ LSegments[i] = PackedSegments(SortedModules[i].elf)
              /\ LSegments[i] \in Seq(ModuleSegmentType)
<1>1. input.kernel \in ElfType
  BY ImageAssumption DEF InputOK
<1>2. LKernel \in Seq(KernelSegmentType)
  BY <1>1, PackedKernelFacts DEF LKernel
<1>3. SortedModules \in Seq(ModuleInputType)
  BY SortedModulesFacts
<1>4. \A i \in DOMAIN SortedModules :
        SortedModules[i].name \in Nat /\ SortedModules[i].elf \in ElfType
  <2>1. \A i \in DOMAIN SortedModules : SortedModules[i] \in ModuleInputType
    BY <1>3
  <2> QED BY <2>1 DEF ModuleInputType
<1>5. /\ DOMAIN LSegments = DOMAIN SortedModules
      /\ \A i \in DOMAIN SortedModules :
           LSegments[i] = PackedSegments(SortedModules[i].elf)
  BY DEF LSegments
<1>6. \A i \in DOMAIN SortedModules : LSegments[i] \in Seq(ModuleSegmentType)
  BY <1>4, <1>5, PackedSegmentsFacts
<1> QED BY <1>1, <1>2, <1>3, <1>4, <1>5, <1>6

LEMMA SizesType ==
  ASSUME NEW s, s \in Seq(KernelSegmentType) \/ s \in Seq(ModuleSegmentType)
  PROVE  /\ Sizes(s) \in Seq(Nat) /\ DOMAIN Sizes(s) = DOMAIN s
         /\ \A i \in DOMAIN s : Sizes(s)[i] = s[i].file_size /\ s[i].file_size \in Nat
<1>1. Len(s) \in Nat /\ DOMAIN s = 1 .. Len(s)
  OBVIOUS
<1>2. \A i \in DOMAIN s : s[i] \in KernelSegmentType \/ s[i] \in ModuleSegmentType
  OBVIOUS
<1>3. \A i \in DOMAIN s : s[i].file_size \in Nat
  BY <1>2, SegmentRanges
<1> QED BY <1>1, <1>3 DEF Sizes

TableSizes == [i \in DOMAIN SortedModules |-> Len(LSegments[i]) * RecordSize]
NameSizes == [i \in DOMAIN SortedModules |-> SortedModules[i].name]
DataSizes == [i \in DOMAIN SortedModules |-> Placed(0, Sizes(LSegments[i]), FALSE).end]
DataStart(i) == LModuleData.at[i]

\* Tables, names and payloads follow one another.
LEMMA LayoutFacts ==
  ASSUME InputOK, LinkedInRam(input.kernel)
  PROVE  /\ TableSizes \in Seq(Nat) /\ NameSizes \in Seq(Nat) /\ DataSizes \in Seq(Nat)
         /\ LModuleTable \in Nat /\ Len(SortedModules) * RecordSize \in Nat
         /\ EndToEnd(LTables, LModuleTable + Len(SortedModules) * RecordSize, TableSizes)
         /\ Aligned(LTables.end) \in Nat /\ LTables.end <= Aligned(LTables.end)
         /\ EndToEnd(LNames, Aligned(LTables.end), NameSizes)
         /\ Aligned(LNames.end) \in Nat /\ LNames.end <= Aligned(LNames.end)
         /\ EndToEnd(LKernelData, Aligned(LNames.end), Sizes(LKernel))
         /\ EndToEnd(LModuleData, LKernelData.end, DataSizes)
         /\ \A i \in DOMAIN SortedModules :
              EndToEnd([at |-> LDataOf(i), end |-> DataStart(i) + DataSizes[i]],
                       DataStart(i), Sizes(LSegments[i]))
<1> DEFINE D == DOMAIN SortedModules
           n == Len(SortedModules)
<1>1. n \in Nat /\ D = 1 .. n
  BY PackedInput
<1>2. \A i \in D : /\ SortedModules[i].name \in Nat
                   /\ LSegments[i] \in Seq(ModuleSegmentType)
                   /\ Sizes(LSegments[i]) \in Seq(Nat)
  BY PackedInput, SizesType
<1>3. TableSizes \in Seq(Nat)
  <2>1. \A i \in D : Len(LSegments[i]) \in Nat
    BY <1>2
  <2>2. \A i \in D : Len(LSegments[i]) * RecordSize \in Nat
    BY <2>1, TableSize
  <2> HIDE DEF n
  <2> QED BY <1>1, <2>2 DEF TableSizes
<1>4. NameSizes \in Seq(Nat)
  <2> HIDE DEF n
  <2> QED BY <1>1, <1>2 DEF NameSizes
<1>5. DataSizes \in Seq(Nat)
  <2> DEFINE size(i) == Placed(0, Sizes(LSegments[i]), FALSE).end
  <2>1. \A i \in D : size(i) \in Nat
    BY <1>2, PlacedEndToEnd DEF EndToEnd
  <2>2. DataSizes = [i \in D |-> size(i)]
    BY DEF DataSizes
  <2> HIDE DEF n, size
  <2> QED BY <1>1, <2>1, <2>2
<1>6. LModuleTable \in Nat /\ n * RecordSize \in Nat
  <2>1. Len(LKernel) \in Nat
    BY PackedInput
  <2>2. Len(LKernel) * RecordSize \in Nat /\ n * RecordSize \in Nat
    BY <1>1, <2>1, TableSize
  <2>3. HeaderSize \in Nat
    BY Numbers
  <2> QED BY <2>2, <2>3 DEF LModuleTable
<1>7. EndToEnd(LTables, LModuleTable + n * RecordSize, TableSizes)
  <2>1. LModuleTable + n * RecordSize \in Nat
    BY <1>6
  <2> QED BY <1>3, <2>1, PlacedEndToEnd DEF LTables, TableSizes
<1>8. LTables.end \in Nat
  BY <1>7 DEF EndToEnd
<1>9. Aligned(LTables.end) \in Nat /\ LTables.end <= Aligned(LTables.end)
  BY <1>8, AlignedFacts
<1>10. EndToEnd(LNames, Aligned(LTables.end), NameSizes)
  BY <1>4, <1>9, PlacedEndToEnd DEF LNames, NameSizes
<1>11. LNames.end \in Nat
  BY <1>10 DEF EndToEnd
<1>12. Aligned(LNames.end) \in Nat /\ LNames.end <= Aligned(LNames.end)
  BY <1>11, AlignedFacts
<1>13. EndToEnd(LKernelData, Aligned(LNames.end), Sizes(LKernel))
  BY <1>12, PackedInput, SizesType, PlacedEndToEnd DEF LKernelData
<1>14. LKernelData.end \in Nat
  BY <1>13 DEF EndToEnd
<1>15. EndToEnd(LModuleData, LKernelData.end, DataSizes)
  BY <1>5, <1>14, PlacedEndToEnd DEF LModuleData, DataSizes
<1>16. ASSUME NEW i \in D
       PROVE  EndToEnd([at |-> LDataOf(i), end |-> DataStart(i) + DataSizes[i]],
                       DataStart(i), Sizes(LSegments[i]))
  <2> DEFINE p == Placed(DataStart(i), Sizes(LSegments[i]), FALSE)
  <2>1. DataStart(i) \in Nat
    BY <1>15 DEF EndToEnd, DataStart, DataSizes
  <2>2. EndToEnd(p, DataStart(i), Sizes(LSegments[i]))
    BY <1>2, <2>1, PlacedEndToEnd
  <2>3. p.end = DataStart(i) + DataSizes[i] /\ p.at = LDataOf(i)
    BY <1>2, <2>1, PlacedShift DEF DataSizes, LDataOf, DataStart
  <2> HIDE DEF p
  <2> QED BY <2>2, <2>3 DEF EndToEnd
<1> QED BY <1>3, <1>4, <1>5, <1>6, <1>7, <1>9, <1>10, <1>12, <1>13, <1>15, <1>16

LEMMA WithOffsetsFacts ==
  ASSUME NEW T, T = KernelSegmentType \/ T = ModuleSegmentType,
         NEW records \in Seq(T), NEW at \in [DOMAIN records -> Nat]
  PROVE  LET r == WithOffsets(records, at)
         IN  /\ r \in Seq(T) /\ DOMAIN r = DOMAIN records /\ Len(r) = Len(records)
             /\ \A i \in DOMAIN records :
                  /\ r[i].data_offset = IF records[i].file_size = 0 THEN 0 ELSE at[i]
                  /\ r[i] = [records[i] EXCEPT !.data_offset = r[i].data_offset]
<1> DEFINE n == Len(records)
           r == WithOffsets(records, at)
           o(i) == IF records[i].file_size = 0 THEN 0 ELSE at[i]
<1>1. n \in Nat /\ DOMAIN records = 1 .. n /\ \A i \in DOMAIN records : records[i] \in T
  OBVIOUS
<1>2. \A i \in DOMAIN records : o(i) \in Nat
  OBVIOUS
<1>3. r = [i \in DOMAIN records |-> [records[i] EXCEPT !.data_offset = o(i)]]
  BY DEF WithOffsets
<1> HIDE DEF n, r, o
<1>4. ASSUME NEW i \in DOMAIN records
      PROVE  /\ [records[i] EXCEPT !.data_offset = o(i)] \in T
             /\ [records[i] EXCEPT !.data_offset = o(i)].data_offset = o(i)
  <2> DEFINE s == records[i]
             x == o(i)
  <2>1. s \in T /\ x \in Nat
    BY <1>1, <1>2
  <2> HIDE DEF s, x
  <2>2. CASE T = KernelSegmentType
    <3>1. s \in KernelSegmentType
      BY <2>1, <2>2
    <3>2. /\ [s EXCEPT !.data_offset = x] \in KernelSegmentType
          /\ [s EXCEPT !.data_offset = x].data_offset = x
      BY <2>1, <3>1 DEF KernelSegmentType
    <3> QED BY <2>2, <3>2 DEF s, x
  <2>3. CASE T = ModuleSegmentType
    <3>1. s \in ModuleSegmentType
      BY <2>1, <2>3
    <3>2. /\ [s EXCEPT !.data_offset = x] \in ModuleSegmentType
          /\ [s EXCEPT !.data_offset = x].data_offset = x
      BY <2>1, <3>1 DEF ModuleSegmentType
    <3> QED BY <2>3, <3>2 DEF s, x
  <2> QED BY <2>2, <2>3
<1>5. r \in [1 .. n -> T]
  BY <1>1, <1>3, <1>4
<1>6. r \in Seq(T) /\ DOMAIN r = DOMAIN records /\ Len(r) = n
  BY <1>1, <1>5
<1>7. ASSUME NEW i \in DOMAIN records
      PROVE  /\ r[i].data_offset = o(i)
             /\ r[i] = [records[i] EXCEPT !.data_offset = r[i].data_offset]
  <2>1. r[i] = [records[i] EXCEPT !.data_offset = o(i)]
    BY <1>3
  <2>2. r[i].data_offset = o(i)
    BY <1>4, <2>1
  <2> QED BY <2>1, <2>2
<1> QED BY <1>6, <1>7 DEF n, r, o

\* The records of a built file.
LEMMA BuiltRecords ==
  ASSUME InputOK, LinkedInRam(input.kernel)
  PROVE  /\ LKernelRecords \in Seq(KernelSegmentType)
         /\ DOMAIN LKernelRecords = DOMAIN LKernel /\ Len(LKernelRecords) = Len(LKernel)
         /\ \A i \in DOMAIN LKernel :
              /\ LKernelRecords[i].data_offset =
                   IF LKernel[i].file_size = 0 THEN 0 ELSE LKernelData.at[i]
              /\ LKernelRecords[i] =
                   [LKernel[i] EXCEPT !.data_offset = LKernelRecords[i].data_offset]
         /\ \A m \in DOMAIN SortedModules :
              /\ LModuleSegments[m] \in Seq(ModuleSegmentType)
              /\ DOMAIN LModuleSegments[m] = DOMAIN LSegments[m]
              /\ Len(LModuleSegments[m]) = Len(LSegments[m])
              /\ \A i \in DOMAIN LSegments[m] :
                   /\ LModuleSegments[m][i].data_offset =
                        IF LSegments[m][i].file_size = 0 THEN 0 ELSE LDataOf(m)[i]
                   /\ LModuleSegments[m][i] =
                        [LSegments[m][i] EXCEPT
                           !.data_offset = LModuleSegments[m][i].data_offset]
<1>1. LKernel \in Seq(KernelSegmentType)
  BY PackedInput
<1>2. LKernelData.at \in [DOMAIN LKernel -> Nat]
  <2>1. DOMAIN Sizes(LKernel) = DOMAIN LKernel
    BY <1>1, SizesType
  <2>2. LKernelData.at \in [DOMAIN Sizes(LKernel) -> Nat]
    BY LayoutFacts DEF EndToEnd
  <2> QED BY <2>1, <2>2
<1>3. ASSUME NEW m \in DOMAIN SortedModules
      PROVE  /\ LSegments[m] \in Seq(ModuleSegmentType)
             /\ LDataOf(m) \in [DOMAIN LSegments[m] -> Nat]
  <2>1. LSegments[m] \in Seq(ModuleSegmentType)
    BY PackedInput
  <2>2. DOMAIN Sizes(LSegments[m]) = DOMAIN LSegments[m]
    BY <2>1, SizesType
  <2>3. LDataOf(m) \in [DOMAIN Sizes(LSegments[m]) -> Nat]
    BY LayoutFacts DEF EndToEnd
  <2> QED BY <2>1, <2>2, <2>3
<1>4. \A m \in DOMAIN SortedModules :
        LModuleSegments[m] = WithOffsets(LSegments[m], LDataOf(m))
  BY DEF LModuleSegments
<1>5. /\ LKernelRecords \in Seq(KernelSegmentType)
      /\ DOMAIN LKernelRecords = DOMAIN LKernel /\ Len(LKernelRecords) = Len(LKernel)
      /\ \A i \in DOMAIN LKernel :
           /\ LKernelRecords[i].data_offset =
                IF LKernel[i].file_size = 0 THEN 0 ELSE LKernelData.at[i]
           /\ LKernelRecords[i] =
                [LKernel[i] EXCEPT !.data_offset = LKernelRecords[i].data_offset]
  BY <1>1, <1>2, WithOffsetsFacts DEF LKernelRecords
<1>6. ASSUME NEW m \in DOMAIN SortedModules
      PROVE  /\ LModuleSegments[m] \in Seq(ModuleSegmentType)
             /\ DOMAIN LModuleSegments[m] = DOMAIN LSegments[m]
             /\ Len(LModuleSegments[m]) = Len(LSegments[m])
             /\ \A i \in DOMAIN LSegments[m] :
                  /\ LModuleSegments[m][i].data_offset =
                       IF LSegments[m][i].file_size = 0 THEN 0 ELSE LDataOf(m)[i]
                  /\ LModuleSegments[m][i] =
                       [LSegments[m][i] EXCEPT
                          !.data_offset = LModuleSegments[m][i].data_offset]
  <2> DEFINE seg == LSegments[m]
             at == LDataOf(m)
             out == LModuleSegments[m]
  <2>1. seg \in Seq(ModuleSegmentType) /\ at \in [DOMAIN seg -> Nat]
    BY <1>3
  <2>2. out = WithOffsets(seg, at)
    BY <1>4
  <2> HIDE DEF seg, at, out
  <2>3. /\ out \in Seq(ModuleSegmentType)
        /\ DOMAIN out = DOMAIN seg /\ Len(out) = Len(seg)
        /\ \A i \in DOMAIN seg :
             /\ out[i].data_offset = IF seg[i].file_size = 0 THEN 0 ELSE at[i]
             /\ out[i] = [seg[i] EXCEPT !.data_offset = out[i].data_offset]
    BY <2>1, <2>2, WithOffsetsFacts
  <2> QED BY <2>3 DEF seg, at, out
<1> QED BY <1>5, <1>6

LEMMA BuiltModule ==
  ASSUME InputOK, LinkedInRam(input.kernel), NEW i \in DOMAIN SortedModules
  PROVE  /\ LModules[i] =
              [ name |-> SortedModules[i].name, name_offset |-> LNames.at[i],
                name_length |-> SortedModules[i].name,
                segment_table_offset |-> LTables.at[i],
                segment_count |-> Len(LSegments[i]),
                entry |-> SortedModules[i].elf.entry, clean |-> TRUE,
                segments |-> LModuleSegments[i] ]
         /\ LModules[i] \in ModuleType
         /\ LModules[i].name = SortedModules[i].name
         /\ LModules[i].name_length = SortedModules[i].name
         /\ LModules[i].name_offset = LNames.at[i]
         /\ LModules[i].segment_table_offset = LTables.at[i]
         /\ LModules[i].segment_count = Len(LSegments[i])
         /\ LModules[i].entry = SortedModules[i].elf.entry /\ LModules[i].clean
         /\ LModules[i].segments = LModuleSegments[i]
<1>1. LModules[i] =
        [ name |-> SortedModules[i].name, name_offset |-> LNames.at[i],
          name_length |-> SortedModules[i].name,
          segment_table_offset |-> LTables.at[i],
          segment_count |-> Len(LSegments[i]),
          entry |-> SortedModules[i].elf.entry, clean |-> TRUE,
          segments |-> LModuleSegments[i] ]
  BY DEF LModules
<1>2. SortedModules[i].name \in Nat /\ SortedModules[i].elf.entry \in Nat
  <2>1. SortedModules[i].elf \in ElfType
    BY PackedInput
  <2> QED BY <2>1, PackedInput DEF ElfType
<1>3. LNames.at[i] \in Nat /\ LTables.at[i] \in Nat
  <2>1. DOMAIN NameSizes = DOMAIN SortedModules /\ DOMAIN TableSizes = DOMAIN SortedModules
    BY DEF NameSizes, TableSizes
  <2>2. LNames.at \in [DOMAIN NameSizes -> Nat] /\ LTables.at \in [DOMAIN TableSizes -> Nat]
    BY LayoutFacts DEF EndToEnd
  <2> QED BY <2>1, <2>2
<1>4. Len(LSegments[i]) \in Nat
  <2>1. LSegments[i] \in Seq(ModuleSegmentType)
    BY PackedInput
  <2> QED BY <2>1
<1>5. LModuleSegments[i] \in Seq(ModuleSegmentType)
  BY BuiltRecords
<1>6. LModules[i] \in ModuleType
  BY <1>1, <1>2, <1>3, <1>4, <1>5 DEF ModuleType
<1>7. /\ LModules[i].name = SortedModules[i].name
      /\ LModules[i].name_length = SortedModules[i].name
      /\ LModules[i].name_offset = LNames.at[i]
      /\ LModules[i].segment_table_offset = LTables.at[i]
      /\ LModules[i].segment_count = Len(LSegments[i])
      /\ LModules[i].entry = SortedModules[i].elf.entry /\ LModules[i].clean
      /\ LModules[i].segments = LModuleSegments[i]
  BY <1>1
<1> QED BY <1>1, <1>6, <1>7

LEMMA BuiltFileOK ==
  ASSUME InputOK, LinkedInRam(input.kernel)
  PROVE  FileOK(BuiltFile)
<1> DEFINE b == BuiltFile
<1>1. b = [ size |-> LModuleData.end, header |-> LHeader, kernel |-> LKernelRecords,
            modules |-> LModules, content |-> LContent ]
  BY BuiltShape
<1> HIDE DEF b
<1>2. LModuleData.end \in Nat /\ LModuleTable \in Nat
  BY LayoutFacts DEF EndToEnd
<1>3. LKernelRecords \in Seq(KernelSegmentType) /\ Len(LKernelRecords) = Len(LKernel)
  BY BuiltRecords
<1>4. SortedModules \in Seq(ModuleInputType) /\ LKernel \in Seq(KernelSegmentType)
  BY PackedInput
<1>5. /\ Len(SortedModules) \in Nat /\ DOMAIN SortedModules = 1 .. Len(SortedModules)
      /\ Len(LKernel) \in Nat
  BY <1>4
<1>6. LHeader \in HeaderType
  <2>1. HeaderSize \in Nat /\ Bootstrap \in Nat /\ InfoBase \in Nat
    BY Numbers
  <2>2. input.kernel.entry \in Nat
    BY PackedInput DEF ElfType
  <2> QED BY <1>2, <1>5, <2>1, <2>2 DEF LHeader, HeaderType
<1>7. LModules \in Seq(ModuleType) /\ Len(LModules) = Len(SortedModules)
      /\ DOMAIN LModules = DOMAIN SortedModules
  <2> DEFINE n == Len(SortedModules)
  <2>1. DOMAIN LModules = 1 .. n
    BY <1>5 DEF LModules
  <2>2. LModules = [i \in DOMAIN SortedModules |-> LModules[i]]
    BY DEF LModules
  <2>3. \A i \in DOMAIN SortedModules : LModules[i] \in ModuleType
    BY BuiltModule
  <2>4. LModules \in [1 .. n -> ModuleType]
    BY <1>5, <2>2, <2>3
  <2>5. n \in Nat
    BY <1>5
  <2> HIDE DEF n
  <2>6. LModules \in Seq(ModuleType) /\ Len(LModules) = n
    BY <2>4, <2>5
  <2> QED BY <1>5, <2>1, <2>6 DEF n
<1>8. LHeader.kernel_segment_count = Len(LKernel)
      /\ LHeader.module_count = Len(SortedModules)
  BY DEF LHeader
<1>9. ASSUME NEW i \in DOMAIN LModules
      PROVE  LModules[i].segment_count <= Len(LModules[i].segments)
  <2>1. i \in DOMAIN SortedModules
    BY <1>7
  <2>2. /\ LModules[i].segment_count = Len(LSegments[i])
        /\ LModules[i].segments = LModuleSegments[i]
    BY <2>1, BuiltModule
  <2>3. Len(LModuleSegments[i]) = Len(LSegments[i])
    BY <2>1, BuiltRecords
  <2>4. Len(LSegments[i]) \in Nat
    BY <2>1, BuiltModule, <2>2 DEF ModuleType
  <2> QED BY <2>2, <2>3, <2>4
<1>10. /\ b.header = LHeader /\ b.kernel = LKernelRecords /\ b.modules = LModules
       /\ b.size = LModuleData.end /\ b.content = LContent
  BY <1>1
<1>11. b \in [ size : Nat, header : HeaderType, kernel : Seq(KernelSegmentType),
               modules : Seq(ModuleType), content : {b.content} ]
  <2> DEFINE K == Seq(KernelSegmentType)
             M == Seq(ModuleType)
  <2>1. LKernelRecords \in K /\ LModules \in M
    BY <1>3, <1>7
  <2> HIDE DEF K, M
  <2>2. b \in [ size : Nat, header : HeaderType, kernel : K, modules : M,
                content : {b.content} ]
    BY <1>1, <1>2, <1>6, <1>10, <2>1
  <2> QED BY <2>2 DEF K, M
<1>12. FileOK(b)
  BY <1>3, <1>5, <1>7, <1>8, <1>9, <1>10, <1>11 DEF FileOK
<1> QED BY <1>12 DEF b

-----------------------------------------------------------------------------
(* Altered files: other values, the same shape *)

LEMMA HeaderAltered ==
  ASSUME NEW f, FileOK(f), NEW h \in HeaderType,
         h.kernel_segment_count <= f.header.kernel_segment_count,
         h.module_count <= f.header.module_count
  PROVE  FileOK([f EXCEPT !.header = h])
<1> DEFINE g == [f EXCEPT !.header = h]
           K == Seq(KernelSegmentType)
           M == Seq(ModuleType)
           C == {f.content}
<1>1. f \in [ size : Nat, header : HeaderType, kernel : K, modules : M, content : C ]
  BY DEF FileOK
<1>2. f.kernel \in K /\ f.modules \in M /\ f.header \in HeaderType
  BY <1>1
<1>3. /\ f.header.kernel_segment_count \in Nat /\ f.header.module_count \in Nat
      /\ h.kernel_segment_count \in Nat /\ h.module_count \in Nat
  BY <1>2 DEF HeaderType
<1>4. Len(f.kernel) \in Nat /\ Len(f.modules) \in Nat
  BY <1>2
<1>5. /\ f.header.kernel_segment_count <= Len(f.kernel)
      /\ f.header.module_count <= Len(f.modules)
      /\ \A i \in DOMAIN f.modules :
           f.modules[i].segment_count <= Len(f.modules[i].segments)
  BY DEF FileOK
<1> HIDE DEF K, M, C
<1>6. /\ g.header = h /\ g.kernel = f.kernel /\ g.modules = f.modules
      /\ g.content = f.content
      /\ g \in [ size : Nat, header : HeaderType, kernel : K, modules : M, content : C ]
  BY <1>1
<1> HIDE DEF g
<1>7. /\ g.header.kernel_segment_count <= Len(g.kernel)
      /\ g.header.module_count <= Len(g.modules)
  BY <1>3, <1>4, <1>5, <1>6
<1>8. FileOK(g)
  BY <1>5, <1>6, <1>7 DEF FileOK, K, M, C
<1> QED BY <1>8 DEF g

LEMMA KernelAltered ==
  ASSUME NEW f, FileOK(f), NEW i \in DOMAIN f.kernel, NEW s \in KernelSegmentType
  PROVE  FileOK([f EXCEPT !.kernel[i] = s])
<1> DEFINE k == [f.kernel EXCEPT ![i] = s]
           g == [f EXCEPT !.kernel = k]
           K == Seq(KernelSegmentType)
           M == Seq(ModuleType)
           C == {f.content}
<1>1. f \in [ size : Nat, header : HeaderType, kernel : K, modules : M, content : C ]
  BY DEF FileOK
<1>2. f.kernel \in K
  BY <1>1
<1>3. k \in K /\ Len(k) = Len(f.kernel)
  BY <1>2
<1> HIDE DEF k
<1>5. /\ f.header.kernel_segment_count <= Len(f.kernel)
      /\ f.header.module_count <= Len(f.modules)
      /\ \A j \in DOMAIN f.modules :
           f.modules[j].segment_count <= Len(f.modules[j].segments)
  BY DEF FileOK
<1> HIDE DEF K, M, C
<1>6. /\ g.header = f.header /\ g.kernel = k /\ g.modules = f.modules
      /\ g.content = f.content
      /\ g \in [ size : Nat, header : HeaderType, kernel : K, modules : M, content : C ]
  BY <1>1, <1>3
<1> HIDE DEF g
<1>7. FileOK(g)
  BY <1>3, <1>5, <1>6 DEF FileOK, K, M, C
<1>8. [f EXCEPT !.kernel[i] = s] = g
  BY DEF g, k
<1> QED BY <1>7, <1>8

LEMMA ModuleAltered ==
  ASSUME NEW f, FileOK(f), NEW i \in DOMAIN f.modules, NEW m \in ModuleType,
         m.segment_count <= Len(m.segments)
  PROVE  FileOK([f EXCEPT !.modules[i] = m])
<1> DEFINE k == [f.modules EXCEPT ![i] = m]
           g == [f EXCEPT !.modules = k]
           K == Seq(KernelSegmentType)
           M == Seq(ModuleType)
           C == {f.content}
<1>1. f \in [ size : Nat, header : HeaderType, kernel : K, modules : M, content : C ]
  BY DEF FileOK
<1>2. f.modules \in M
  BY <1>1
<1>3. /\ k \in M /\ Len(k) = Len(f.modules) /\ DOMAIN k = DOMAIN f.modules
      /\ \A j \in DOMAIN k : k[j] = IF j = i THEN m ELSE f.modules[j]
  BY <1>2
<1> HIDE DEF k
<1>5. /\ f.header.kernel_segment_count <= Len(f.kernel)
      /\ f.header.module_count <= Len(f.modules)
      /\ \A j \in DOMAIN f.modules :
           f.modules[j].segment_count <= Len(f.modules[j].segments)
  BY DEF FileOK
<1> HIDE DEF K, M, C
<1>6. /\ g.header = f.header /\ g.kernel = f.kernel /\ g.modules = k
      /\ g.content = f.content
      /\ g \in [ size : Nat, header : HeaderType, kernel : K, modules : M, content : C ]
  BY <1>1, <1>3
<1> HIDE DEF g
<1>7. \A j \in DOMAIN k : k[j].segment_count <= Len(k[j].segments)
  BY <1>3, <1>5
<1>8. FileOK(g)
  BY <1>3, <1>5, <1>6, <1>7 DEF FileOK, K, M, C
<1>9. [f EXCEPT !.modules[i] = m] = g
  BY DEF g, k
<1> QED BY <1>8, <1>9

LEMMA AlterValues ==
  /\ \A o \in Offsets : o \in Nat
  /\ \A n \in Lengths : n \in Nat
  /\ \A a \in Addresses : a \in Nat
BY ImageAssumption

LEMMA AlterHeaderKeeps ==
  ASSUME FileOK(file), AlterHeader
  PROVE  FileOK(file')
<1> DEFINE h == file.header
<1>1. h \in HeaderType
  BY DEF FileOK
<1>2. h.kernel_segment_count \in Nat /\ h.module_count \in Nat
  BY <1>1 DEF HeaderType
<1>3. ASSUME NEW g \in HeaderType, Altered([file EXCEPT !.header = g]),
             g.kernel_segment_count <= h.kernel_segment_count,
             g.module_count <= h.module_count
      PROVE  FileOK(file')
  BY <1>3, HeaderAltered DEF Altered
<1>4. ASSUME NEW o \in Offsets,
             Altered([file EXCEPT !.header.kernel_segment_table_offset = o])
      PROVE  FileOK(file')
  <2> DEFINE g == [h EXCEPT !.kernel_segment_table_offset = o]
  <2>1. /\ g \in HeaderType
        /\ g.kernel_segment_count <= h.kernel_segment_count
        /\ g.module_count <= h.module_count
    <3>1. o \in Nat
      BY AlterValues
    <3> HIDE DEF h
    <3> QED BY <1>1, <1>2, <3>1 DEF HeaderType
  <2>2. Altered([file EXCEPT !.header = g])
    BY <1>4
  <2> QED BY <1>3, <2>1, <2>2
<1>5. ASSUME NEW o \in Offsets, Altered([file EXCEPT !.header.module_table_offset = o])
      PROVE  FileOK(file')
  <2> DEFINE g == [h EXCEPT !.module_table_offset = o]
  <2>1. /\ g \in HeaderType
        /\ g.kernel_segment_count <= h.kernel_segment_count
        /\ g.module_count <= h.module_count
    <3>1. o \in Nat
      BY AlterValues
    <3> HIDE DEF h
    <3> QED BY <1>1, <1>2, <3>1 DEF HeaderType
  <2>2. Altered([file EXCEPT !.header = g])
    BY <1>5
  <2> QED BY <1>3, <2>1, <2>2
<1>6. ASSUME NEW o \in Offsets, Altered([file EXCEPT !.header.image_size = o])
      PROVE  FileOK(file')
  <2> DEFINE g == [h EXCEPT !.image_size = o]
  <2>1. /\ g \in HeaderType
        /\ g.kernel_segment_count <= h.kernel_segment_count
        /\ g.module_count <= h.module_count
    <3>1. o \in Nat
      BY AlterValues
    <3> HIDE DEF h
    <3> QED BY <1>1, <1>2, <3>1 DEF HeaderType
  <2>2. Altered([file EXCEPT !.header = g])
    BY <1>6
  <2> QED BY <1>3, <2>1, <2>2
<1>7. ASSUME NEW n \in 0 .. (file.header.module_count - 1),
             Altered([file EXCEPT !.header.module_count = n])
      PROVE  FileOK(file')
  <2> DEFINE g == [h EXCEPT !.module_count = n]
  <2>1. /\ g \in HeaderType
        /\ g.kernel_segment_count <= h.kernel_segment_count
        /\ g.module_count <= h.module_count
    <3>1. n \in Nat
      BY <1>2
    <3> HIDE DEF h
    <3> QED BY <1>1, <1>2, <3>1 DEF HeaderType, h
  <2>2. Altered([file EXCEPT !.header = g])
    BY <1>7
  <2> QED BY <1>3, <2>1, <2>2
<1>8. ASSUME NEW n \in 0 .. (file.header.kernel_segment_count - 1),
             Altered([file EXCEPT !.header.kernel_segment_count = n])
      PROVE  FileOK(file')
  <2> DEFINE g == [h EXCEPT !.kernel_segment_count = n]
  <2>1. /\ g \in HeaderType
        /\ g.kernel_segment_count <= h.kernel_segment_count
        /\ g.module_count <= h.module_count
    <3>1. n \in Nat
      BY <1>2
    <3> HIDE DEF h
    <3> QED BY <1>1, <1>2, <3>1 DEF HeaderType, h
  <2>2. Altered([file EXCEPT !.header = g])
    BY <1>8
  <2> QED BY <1>3, <2>1, <2>2
<1>9. ASSUME NEW a \in Addresses, Altered([file EXCEPT !.header.kernel_entry_vaddr = a])
      PROVE  FileOK(file')
  <2> DEFINE g == [h EXCEPT !.kernel_entry_vaddr = a]
  <2>1. /\ g \in HeaderType
        /\ g.kernel_segment_count <= h.kernel_segment_count
        /\ g.module_count <= h.module_count
    <3>1. a \in Nat
      BY AlterValues
    <3> HIDE DEF h
    <3> QED BY <1>1, <1>2, <3>1 DEF HeaderType
  <2>2. Altered([file EXCEPT !.header = g])
    BY <1>9
  <2> QED BY <1>3, <2>1, <2>2
<1>10. ASSUME Altered([file EXCEPT !.header.clean = FALSE]) PROVE FileOK(file')
  <2> DEFINE no == FALSE
             g == [h EXCEPT !.clean = no]
  <2>1. /\ g \in HeaderType
        /\ g.kernel_segment_count <= h.kernel_segment_count
        /\ g.module_count <= h.module_count
    <3>1. no \in BOOLEAN
      OBVIOUS
    <3> HIDE DEF h, no
    <3> QED BY <1>1, <1>2, <3>1 DEF HeaderType
  <2>2. Altered([file EXCEPT !.header = g])
    BY <1>10
  <2> QED BY <1>3, <2>1, <2>2
<1> QED BY <1>4, <1>5, <1>6, <1>7, <1>8, <1>9, <1>10 DEF AlterHeader

LEMMA AlterKernelKeeps ==
  ASSUME FileOK(file), AlterKernel
  PROVE  FileOK(file')
<1>1. PICK i \in DOMAIN file.kernel :
        \/ \E o \in Offsets : Altered([file EXCEPT !.kernel[i].data_offset = o])
        \/ \E n \in Lengths : \/ Altered([file EXCEPT !.kernel[i].file_size = n])
                              \/ Altered([file EXCEPT !.kernel[i].memory_size = n])
        \/ \E a \in Addresses :
             \/ Altered([file EXCEPT !.kernel[i].virtual_address = a])
             \/ Altered([file EXCEPT !.kernel[i].physical_address = a])
             \/ Altered([file EXCEPT !.kernel[i].physical_address = a,
                                     !.kernel[i].virtual_address = a])
        \/ Altered([file EXCEPT !.kernel[i].flags = {0, 1}])
  BY DEF AlterKernel
<1> DEFINE s == file.kernel[i]
<1>2. s \in KernelSegmentType
  <2>1. file.kernel \in Seq(KernelSegmentType)
    BY DEF FileOK
  <2> QED BY <2>1
<1>3. ASSUME NEW t \in KernelSegmentType, Altered([file EXCEPT !.kernel[i] = t])
      PROVE  FileOK(file')
  BY <1>3, KernelAltered DEF Altered
<1>4. ASSUME NEW o \in Offsets, Altered([file EXCEPT !.kernel[i].data_offset = o])
      PROVE  FileOK(file')
  <2> DEFINE t == [s EXCEPT !.data_offset = o]
  <2>1. t \in KernelSegmentType
    <3> HIDE DEF s
    <3> QED BY <1>2, AlterValues DEF KernelSegmentType
  <2>2. Altered([file EXCEPT !.kernel[i] = t])
    BY <1>4
  <2> QED BY <1>3, <2>1, <2>2
<1>5. ASSUME NEW n \in Lengths, Altered([file EXCEPT !.kernel[i].file_size = n])
      PROVE  FileOK(file')
  <2> DEFINE t == [s EXCEPT !.file_size = n]
  <2>1. t \in KernelSegmentType
    <3> HIDE DEF s
    <3> QED BY <1>2, AlterValues DEF KernelSegmentType
  <2>2. Altered([file EXCEPT !.kernel[i] = t])
    BY <1>5
  <2> QED BY <1>3, <2>1, <2>2
<1>6. ASSUME NEW n \in Lengths, Altered([file EXCEPT !.kernel[i].memory_size = n])
      PROVE  FileOK(file')
  <2> DEFINE t == [s EXCEPT !.memory_size = n]
  <2>1. t \in KernelSegmentType
    <3> HIDE DEF s
    <3> QED BY <1>2, AlterValues DEF KernelSegmentType
  <2>2. Altered([file EXCEPT !.kernel[i] = t])
    BY <1>6
  <2> QED BY <1>3, <2>1, <2>2
<1>7. ASSUME NEW a \in Addresses, Altered([file EXCEPT !.kernel[i].virtual_address = a])
      PROVE  FileOK(file')
  <2> DEFINE t == [s EXCEPT !.virtual_address = a]
  <2>1. t \in KernelSegmentType
    <3> HIDE DEF s
    <3> QED BY <1>2, AlterValues DEF KernelSegmentType
  <2>2. Altered([file EXCEPT !.kernel[i] = t])
    BY <1>7
  <2> QED BY <1>3, <2>1, <2>2
<1>8. ASSUME NEW a \in Addresses, Altered([file EXCEPT !.kernel[i].physical_address = a])
      PROVE  FileOK(file')
  <2> DEFINE t == [s EXCEPT !.physical_address = a]
  <2>1. t \in KernelSegmentType
    <3> HIDE DEF s
    <3> QED BY <1>2, AlterValues DEF KernelSegmentType
  <2>2. Altered([file EXCEPT !.kernel[i] = t])
    BY <1>8
  <2> QED BY <1>3, <2>1, <2>2
<1>9. ASSUME NEW a \in Addresses,
             Altered([file EXCEPT !.kernel[i].physical_address = a,
                                  !.kernel[i].virtual_address = a])
      PROVE  FileOK(file')
  <2> DEFINE t == [s EXCEPT !.physical_address = a]
             f == [file EXCEPT !.kernel[i] = t]
  <2>1. t \in KernelSegmentType
    <3> HIDE DEF s
    <3> QED BY <1>2, AlterValues DEF KernelSegmentType
  <2>2. FileOK(f)
    <3> HIDE DEF t
    <3> QED BY <2>1, KernelAltered
  <2>3. i \in DOMAIN f.kernel /\ f.kernel[i] = t
    <3>1. file \in [ size : Nat, header : HeaderType, kernel : Seq(KernelSegmentType),
                     modules : Seq(ModuleType), content : {file.content} ]
      BY DEF FileOK
    <3>2. f.kernel = [file.kernel EXCEPT ![i] = t]
      BY <3>1
    <3> HIDE DEF t, f
    <3> QED BY <3>2
  <2> DEFINE u == [t EXCEPT !.virtual_address = a]
  <2>4. u \in KernelSegmentType
    <3> HIDE DEF t
    <3> QED BY <2>1, AlterValues DEF KernelSegmentType
  <2>5. file' = [f EXCEPT !.kernel[i].virtual_address = a]
    BY <1>9 DEF Altered
  <2>6. file' = [f EXCEPT !.kernel[i] = u]
    <3> HIDE DEF f, t
    <3> QED BY <2>3, <2>5
  <2>7. FileOK([f EXCEPT !.kernel[i] = u])
    <3> HIDE DEF f, u
    <3> QED BY <2>2, <2>3, <2>4, KernelAltered
  <2> QED BY <2>6, <2>7
<1>10. ASSUME Altered([file EXCEPT !.kernel[i].flags = {0, 1}]) PROVE FileOK(file')
  <2> DEFINE t == [s EXCEPT !.flags = {0, 1}]
  <2>1. t \in KernelSegmentType
    <3> HIDE DEF s
    <3>1. {0, 1} \in SUBSET Nat
      OBVIOUS
    <3> QED BY <1>2, <3>1 DEF KernelSegmentType
  <2>2. Altered([file EXCEPT !.kernel[i] = t])
    BY <1>10
  <2> QED BY <1>3, <2>1, <2>2
<1> QED BY <1>1, <1>4, <1>5, <1>6, <1>7, <1>8, <1>9, <1>10

LEMMA AlterModuleKeeps ==
  ASSUME FileOK(file), AlterModule
  PROVE  FileOK(file')
<1>1. PICK i \in DOMAIN file.modules :
        \/ \E o \in Offsets : \/ Altered([file EXCEPT !.modules[i].name_offset = o])
                              \/ Altered([file EXCEPT !.modules[i].segment_table_offset = o])
        \/ \E n \in Lengths : Altered([file EXCEPT !.modules[i].name_length = n])
        \/ \E a \in Addresses : Altered([file EXCEPT !.modules[i].entry = a])
        \/ \E j \in DOMAIN file.modules[i].segments :
             \/ \E o \in Offsets :
                  Altered([file EXCEPT !.modules[i].segments[j].data_offset = o])
             \/ \E n \in Lengths :
                  \/ Altered([file EXCEPT !.modules[i].segments[j].file_size = n])
                  \/ Altered([file EXCEPT !.modules[i].segments[j].memory_size = n])
             \/ \E a \in Addresses :
                  Altered([file EXCEPT !.modules[i].segments[j].virtual_address = a])
  BY DEF AlterModule
<1> DEFINE m == file.modules[i]
<1>2. m \in ModuleType /\ m.segment_count <= Len(m.segments)
  <2>1. file.modules \in Seq(ModuleType)
    BY DEF FileOK
  <2> QED BY <2>1 DEF FileOK
<1>3. ASSUME NEW t \in ModuleType, t.segment_count <= Len(t.segments),
             Altered([file EXCEPT !.modules[i] = t])
      PROVE  FileOK(file')
  BY <1>3, ModuleAltered DEF Altered
<1>4. ASSUME NEW o \in Offsets, Altered([file EXCEPT !.modules[i].name_offset = o])
      PROVE  FileOK(file')
  <2> DEFINE t == [m EXCEPT !.name_offset = o]
             Q == Seq(ModuleSegmentType)
  <2>1. t \in ModuleType /\ t.segment_count <= Len(t.segments)
    <3> HIDE DEF m
    <3>1. m \in [ name : Nat, name_offset : Nat, name_length : Nat,
                  segment_table_offset : Nat, segment_count : Nat, entry : Nat,
                  clean : BOOLEAN, segments : Q ]
      BY <1>2 DEF ModuleType
    <3> HIDE DEF Q
    <3>2. /\ t \in [ name : Nat, name_offset : Nat, name_length : Nat,
                     segment_table_offset : Nat, segment_count : Nat, entry : Nat,
                     clean : BOOLEAN, segments : Q ]
          /\ t.segment_count = m.segment_count /\ t.segments = m.segments
      BY <3>1, AlterValues
    <3> HIDE DEF t
    <3> QED BY <1>2, <3>2 DEF ModuleType, Q
  <2>2. Altered([file EXCEPT !.modules[i] = t])
    BY <1>4
  <2> QED BY <1>3, <2>1, <2>2
<1>5. ASSUME NEW o \in Offsets, Altered([file EXCEPT !.modules[i].segment_table_offset = o])
      PROVE  FileOK(file')
  <2> DEFINE t == [m EXCEPT !.segment_table_offset = o]
             Q == Seq(ModuleSegmentType)
  <2>1. t \in ModuleType /\ t.segment_count <= Len(t.segments)
    <3> HIDE DEF m
    <3>1. m \in [ name : Nat, name_offset : Nat, name_length : Nat,
                  segment_table_offset : Nat, segment_count : Nat, entry : Nat,
                  clean : BOOLEAN, segments : Q ]
      BY <1>2 DEF ModuleType
    <3> HIDE DEF Q
    <3>2. /\ t \in [ name : Nat, name_offset : Nat, name_length : Nat,
                     segment_table_offset : Nat, segment_count : Nat, entry : Nat,
                     clean : BOOLEAN, segments : Q ]
          /\ t.segment_count = m.segment_count /\ t.segments = m.segments
      BY <3>1, AlterValues
    <3> HIDE DEF t
    <3> QED BY <1>2, <3>2 DEF ModuleType, Q
  <2>2. Altered([file EXCEPT !.modules[i] = t])
    BY <1>5
  <2> QED BY <1>3, <2>1, <2>2
<1>6. ASSUME NEW n \in Lengths, Altered([file EXCEPT !.modules[i].name_length = n])
      PROVE  FileOK(file')
  <2> DEFINE t == [m EXCEPT !.name_length = n]
             Q == Seq(ModuleSegmentType)
  <2>1. t \in ModuleType /\ t.segment_count <= Len(t.segments)
    <3> HIDE DEF m
    <3>1. m \in [ name : Nat, name_offset : Nat, name_length : Nat,
                  segment_table_offset : Nat, segment_count : Nat, entry : Nat,
                  clean : BOOLEAN, segments : Q ]
      BY <1>2 DEF ModuleType
    <3> HIDE DEF Q
    <3>2. /\ t \in [ name : Nat, name_offset : Nat, name_length : Nat,
                     segment_table_offset : Nat, segment_count : Nat, entry : Nat,
                     clean : BOOLEAN, segments : Q ]
          /\ t.segment_count = m.segment_count /\ t.segments = m.segments
      BY <3>1, AlterValues
    <3> HIDE DEF t
    <3> QED BY <1>2, <3>2 DEF ModuleType, Q
  <2>2. Altered([file EXCEPT !.modules[i] = t])
    BY <1>6
  <2> QED BY <1>3, <2>1, <2>2
<1>7. ASSUME NEW a \in Addresses, Altered([file EXCEPT !.modules[i].entry = a])
      PROVE  FileOK(file')
  <2> DEFINE t == [m EXCEPT !.entry = a]
             Q == Seq(ModuleSegmentType)
  <2>1. t \in ModuleType /\ t.segment_count <= Len(t.segments)
    <3> HIDE DEF m
    <3>1. m \in [ name : Nat, name_offset : Nat, name_length : Nat,
                  segment_table_offset : Nat, segment_count : Nat, entry : Nat,
                  clean : BOOLEAN, segments : Q ]
      BY <1>2 DEF ModuleType
    <3> HIDE DEF Q
    <3>2. /\ t \in [ name : Nat, name_offset : Nat, name_length : Nat,
                     segment_table_offset : Nat, segment_count : Nat, entry : Nat,
                     clean : BOOLEAN, segments : Q ]
          /\ t.segment_count = m.segment_count /\ t.segments = m.segments
      BY <3>1, AlterValues
    <3> HIDE DEF t
    <3> QED BY <1>2, <3>2 DEF ModuleType, Q
  <2>2. Altered([file EXCEPT !.modules[i] = t])
    BY <1>7
  <2> QED BY <1>3, <2>1, <2>2
<1>8. ASSUME NEW j \in DOMAIN m.segments, NEW s \in ModuleSegmentType,
             Altered([file EXCEPT !.modules[i].segments[j] = s])
      PROVE  FileOK(file')
  <2> DEFINE q == [m.segments EXCEPT ![j] = s]
             t == [m EXCEPT !.segments = q]
             Q == Seq(ModuleSegmentType)
  <2>1. m \in [ name : Nat, name_offset : Nat, name_length : Nat,
                segment_table_offset : Nat, segment_count : Nat, entry : Nat,
                clean : BOOLEAN, segments : Q ]
    BY <1>2 DEF ModuleType
  <2>2. Altered([file EXCEPT !.modules[i] = t])
    BY <1>8
  <2> HIDE DEF m
  <2>3. m.segments \in Q
    BY <2>1
  <2>4. q \in Q /\ Len(q) = Len(m.segments)
    BY <2>3
  <2> HIDE DEF q, Q
  <2>5. /\ t \in [ name : Nat, name_offset : Nat, name_length : Nat,
                   segment_table_offset : Nat, segment_count : Nat, entry : Nat,
                   clean : BOOLEAN, segments : Q ]
        /\ t.segment_count = m.segment_count /\ t.segments = q
    BY <2>1, <2>4
  <2> HIDE DEF t
  <2>6. t \in ModuleType
    BY <2>5 DEF ModuleType, Q
  <2>7. t.segment_count <= Len(t.segments)
    BY <1>2, <2>4, <2>5
  <2> QED BY <1>3, <2>2, <2>6, <2>7
<1>9. ASSUME NEW j \in DOMAIN m.segments PROVE m.segments[j] \in ModuleSegmentType
  <2>1. m.segments \in Seq(ModuleSegmentType)
    BY <1>2 DEF ModuleType
  <2> QED BY <2>1
<1>10. ASSUME NEW j \in DOMAIN m.segments, NEW o \in Offsets,
              Altered([file EXCEPT !.modules[i].segments[j].data_offset = o])
       PROVE  FileOK(file')
  <2> DEFINE r == m.segments[j]
             s == [r EXCEPT !.data_offset = o]
  <2>1. r \in ModuleSegmentType
    BY <1>9
  <2>2. s \in ModuleSegmentType
    <3> HIDE DEF r
    <3> QED BY <2>1, AlterValues DEF ModuleSegmentType
  <2>3. Altered([file EXCEPT !.modules[i].segments[j] = s])
    BY <1>10
  <2> QED BY <1>8, <2>2, <2>3
<1>11. ASSUME NEW j \in DOMAIN m.segments, NEW n \in Lengths,
              Altered([file EXCEPT !.modules[i].segments[j].file_size = n])
       PROVE  FileOK(file')
  <2> DEFINE r == m.segments[j]
             s == [r EXCEPT !.file_size = n]
  <2>1. r \in ModuleSegmentType
    BY <1>9
  <2>2. s \in ModuleSegmentType
    <3> HIDE DEF r
    <3> QED BY <2>1, AlterValues DEF ModuleSegmentType
  <2>3. Altered([file EXCEPT !.modules[i].segments[j] = s])
    BY <1>11
  <2> QED BY <1>8, <2>2, <2>3
<1>12. ASSUME NEW j \in DOMAIN m.segments, NEW n \in Lengths,
              Altered([file EXCEPT !.modules[i].segments[j].memory_size = n])
       PROVE  FileOK(file')
  <2> DEFINE r == m.segments[j]
             s == [r EXCEPT !.memory_size = n]
  <2>1. r \in ModuleSegmentType
    BY <1>9
  <2>2. s \in ModuleSegmentType
    <3> HIDE DEF r
    <3> QED BY <2>1, AlterValues DEF ModuleSegmentType
  <2>3. Altered([file EXCEPT !.modules[i].segments[j] = s])
    BY <1>12
  <2> QED BY <1>8, <2>2, <2>3
<1>13. ASSUME NEW j \in DOMAIN m.segments, NEW a \in Addresses,
              Altered([file EXCEPT !.modules[i].segments[j].virtual_address = a])
       PROVE  FileOK(file')
  <2> DEFINE r == m.segments[j]
             s == [r EXCEPT !.virtual_address = a]
  <2>1. r \in ModuleSegmentType
    BY <1>9
  <2>2. s \in ModuleSegmentType
    <3> HIDE DEF r
    <3> QED BY <2>1, AlterValues DEF ModuleSegmentType
  <2>3. Altered([file EXCEPT !.modules[i].segments[j] = s])
    BY <1>13
  <2> QED BY <1>8, <2>2, <2>3
<1> QED BY <1>1, <1>4, <1>5, <1>6, <1>7, <1>10, <1>11, <1>12, <1>13

-----------------------------------------------------------------------------
(* The parser, along every behaviour *)

Phases ==
  {"Adding", "File", "Rejected", "Accepted", "Booting", "Panicked", "Booted"}
PhasesAccepted == {"Accepted", "Booting", "Panicked", "Booted"}

\* A file keeps its shape however it is altered, and is judged once.
ImageInv ==
  /\ input \in [kernel : Kernels, modules : Seq(Modules)]
  /\ phase \in Phases
  /\ phase = "Adding" => file = NoFile
  /\ phase = "File" => FileOK(file)
  /\ phase \in PhasesAccepted => FileOK(file) /\ Parses(file)
  /\ phase = "Rejected" /\ file # NoFile => FileOK(file) /\ ~Parses(file)

LEMMA ImageInvInput ==
  ASSUME ImageInv
  PROVE  InputOK
BY DEF ImageInv, InputOK

LEMMA ImageInit ==
  ASSUME Init
  PROVE  ImageInv
<1>1. PICK kernel \in Kernels : input = [kernel |-> kernel, modules |-> <<>>]
  BY DEF Init
<1>2. <<>> \in Seq(Modules)
  OBVIOUS
<1>3. input \in [kernel : Kernels, modules : Seq(Modules)]
  BY <1>1, <1>2
<1> QED BY <1>3 DEF Init, ImageInv, Phases, PhasesAccepted

LEMMA ImageStep ==
  ASSUME ImageInv, [Next]_vars
  PROVE  ImageInv'
<1>1. CASE AddModule
  <2>1. PICK m \in Modules : input' = [input EXCEPT !.modules = Append(@, m)]
    BY <1>1 DEF AddModule
  <2> DEFINE Q == Seq(Modules)
             q == Append(input.modules, m)
  <2>2. q \in Q
    BY DEF ImageInv
  <2>3. input' = [input EXCEPT !.modules = q]
    BY <2>1
  <2>4. input \in [kernel : Kernels, modules : Q]
    BY DEF ImageInv
  <2> HIDE DEF Q, q
  <2>5. input' \in [kernel : Kernels, modules : Q]
    BY <2>2, <2>3, <2>4
  <2>6. phase = "Adding" /\ phase' = phase /\ file' = file
    BY <1>1 DEF AddModule
  <2> QED BY <2>5, <2>6 DEF ImageInv, Phases, PhasesAccepted, Q
<1>2. CASE Build
  <2>1. CASE InputValid /\ BuiltFile.size <= RomSize /\ HeaderValid(BuiltFile.header)
    <3>1. file' = BuiltFile /\ phase' = "File" /\ input' = input
      BY <1>2, <2>1 DEF Build
    <3>2. LinkedInRam(input.kernel)
      BY <2>1 DEF InputValid, LinkedInRam
    <3>3. FileOK(BuiltFile)
      BY <3>2, ImageInvInput, BuiltFileOK
    <3>4. FileOK(file')
      BY <3>1, <3>3
    <3> QED BY <3>1, <3>4 DEF ImageInv, Phases, PhasesAccepted
  <2>2. CASE ~(InputValid /\ BuiltFile.size <= RomSize /\ HeaderValid(BuiltFile.header))
    <3>1. file' = file /\ phase' = "Rejected" /\ input' = input /\ phase = "Adding"
      BY <1>2, <2>2 DEF Build
    <3> QED BY <3>1 DEF ImageInv, Phases, PhasesAccepted
  <2> QED BY <2>1, <2>2
<1>3. CASE AlterHeader \/ AlterKernel \/ AlterModule
  <2>1. phase = "File" /\ phase' = phase /\ input' = input
    BY <1>3 DEF AlterHeader, AlterKernel, AlterModule, Altered
  <2>2. FileOK(file')
    BY <1>3, <2>1, AlterHeaderKeeps, AlterKernelKeeps, AlterModuleKeeps DEF ImageInv
  <2> QED BY <2>1, <2>2 DEF ImageInv, Phases, PhasesAccepted
<1>4. CASE Parse
  <2>1. /\ phase = "File" /\ file' = file /\ input' = input
        /\ phase' = IF Parses(file) THEN "Accepted" ELSE "Rejected"
    BY <1>4 DEF Parse
  <2> QED BY <2>1 DEF ImageInv, Phases, PhasesAccepted
<1>5. CASE BootPlan
  <2>1. /\ phase = "Accepted" /\ file' = file /\ input' = input
        /\ phase' \in {"Booting", "Panicked"}
    BY <1>5 DEF BootPlan
  <2> QED BY <2>1 DEF ImageInv, Phases, PhasesAccepted
<1>6. CASE ApplyCopy
  <2>1. phase = "Booting" /\ file' = file /\ input' = input /\ phase' = phase
    BY <1>6 DEF ApplyCopy
  <2> QED BY <2>1 DEF ImageInv, Phases, PhasesAccepted
<1>7. CASE WriteBootInfo
  <2>1. phase = "Booting" /\ file' = file /\ input' = input /\ phase' = "Booted"
    BY <1>7 DEF WriteBootInfo
  <2> QED BY <2>1 DEF ImageInv, Phases, PhasesAccepted
<1>8. CASE UNCHANGED vars
  <2>1. file' = file /\ input' = input /\ phase' = phase
    BY <1>8 DEF vars
  <2> QED BY <2>1 DEF ImageInv
<1> QED BY <1>1, <1>2, <1>3, <1>4, <1>5, <1>6, <1>7, <1>8 DEF Next

\* SystemImage::parse accepts exactly the files that system-image-v1.md calls valid and
\* whose module table, if it is empty, is not inside another range, for every platform,
\* every packed image and every way its fields are altered.
THEOREM ParseIsExact == Spec => []ParseExact
<1>1. Init => ImageInv
  BY ImageInit
<1>2. ImageInv /\ [Next]_vars => ImageInv'
  BY ImageStep
<1>3. ImageInv => ParseExact
  <2> SUFFICES ASSUME ImageInv PROVE ParseExact
    OBVIOUS
  <2>1. phase = "Accepted" => ValidFile(file) /\ ~EmptyTableInside(file)
    <3>1. phase = "Accepted" => FileOK(file) /\ Parses(file)
      BY DEF ImageInv, PhasesAccepted
    <3> QED BY <3>1, ParsesExact
  <2>2. phase = "Rejected" /\ file # NoFile => ~ValidFile(file) \/ EmptyTableInside(file)
    <3>1. phase = "Rejected" /\ file # NoFile => FileOK(file) /\ ~Parses(file)
      BY DEF ImageInv
    <3> QED BY <3>1, ParsesExact
  <2> QED BY <2>1, <2>2 DEF ParseExact
<1> QED BY <1>1, <1>2, <1>3, PTL DEF Spec

-----------------------------------------------------------------------------
(* The boot of an accepted image *)

\* What a byte of RAM holds once segment s of the file is loaded, k bytes behind its
\* start.
LoadedByte(s, k) ==
  IF k < s.file_size THEN file.content[s.data_offset + k] ELSE {<<"zero">>}

\* The first `count` segments are in RAM.
Holds(count) ==
  \A i \in DOMAIN KernelSegments(file) : i <= count =>
    \A k \in 0 .. (KernelSegments(file)[i].memory_size - 1) :
      ram[KernelSegments(file)[i].physical_address + k]
        = LoadedByte(KernelSegments(file)[i], k)

\* RAM outside them is as it was.
Untouched(count) ==
  \A a \in DOMAIN ram :
    (\A i \in DOMAIN KernelSegments(file) :
       i <= count => a \notin Bytes(Physical(KernelSegments(file)[i])))
      => ram[a] = {<<"old">>}

BootInv ==
  /\ DOMAIN ram = RamBase .. (RamBase + RamSize - 1)
  /\ phase \in {"Adding", "File", "Accepted"} =>
       booted = 0 /\ \A a \in DOMAIN ram : ram[a] = {<<"old">>}
  /\ phase = "Booting" =>
       booted \in 0 .. Len(KernelSegments(file)) /\ Holds(booted) /\ Untouched(booted)
  /\ BootLoads

\* What the checks of parse say of the kernel segments of an accepted file.
LEMMA AcceptedKernel ==
  ASSUME NEW f, FileOK(f), Parses(f)
  PROVE  LET segments == KernelSegments(f)
         IN  /\ DOMAIN segments = 1 .. Len(segments) /\ Len(segments) \in Nat
             /\ \A i \in DOMAIN segments :
                  /\ segments[i] = f.kernel[i] /\ segments[i] \in KernelSegmentType
                  /\ segments[i].file_size <= segments[i].memory_size
                  /\ RamBase <= segments[i].physical_address
                  /\ segments[i].physical_address + segments[i].memory_size
                       <= RamBase + RamSize
                  /\ \A a \in Bytes(Physical(segments[i])) : ~In(a, Workspace)
                  /\ \A j \in DOMAIN segments :
                       i # j => \A a \in Bytes(Physical(segments[i])) :
                                  a \notin Bytes(Physical(segments[j]))
             /\ f.header.boot_info_paddr = InfoBase
<1> DEFINE segments == KernelSegments(f)
<1>1. /\ segments \in Seq(KernelSegmentType)
      /\ \A i \in DOMAIN segments : segments[i] = f.kernel[i]
  BY FileRecords
<1>2. DOMAIN segments = 1 .. Len(segments) /\ Len(segments) \in Nat
  BY <1>1
<1>3. \A i \in DOMAIN segments : KernelSegmentValid(segments[i])
  BY <1>1 DEF Parses
<1>4. KernelValid(segments, f.header.kernel_entry_vaddr)
  BY DEF Parses
<1>5. f.header.boot_info_paddr = InfoBase
  BY DEF Parses, HeaderValid
<1> HIDE DEF segments
<1>6. \A i \in DOMAIN segments : segments[i] \in KernelSegmentType
  BY <1>1
<1>7. ASSUME NEW i \in DOMAIN segments
      PROVE  /\ IsRange(Physical(segments[i]))
             /\ Physical(segments[i]).start = segments[i].physical_address
             /\ Physical(segments[i]).length = segments[i].memory_size
             /\ segments[i].physical_address \in Nat /\ segments[i].memory_size \in Nat
             /\ segments[i].file_size \in Nat
  BY <1>6 DEF KernelSegmentType, Physical, RangeOf, IsRange
<1>8. ASSUME NEW i \in DOMAIN segments
      PROVE  /\ segments[i].file_size <= segments[i].memory_size
             /\ RamBase <= segments[i].physical_address
             /\ segments[i].physical_address + segments[i].memory_size
                  <= RamBase + RamSize
  <2>1. /\ Inside(Physical(segments[i]), Ram)
        /\ segments[i].file_size <= segments[i].memory_size
    BY <1>3 DEF KernelSegmentValid
  <2> QED BY <1>7, <2>1 DEF Inside, Ram, RangeOf, End
<1>9. ASSUME NEW i \in DOMAIN segments, NEW a \in Bytes(Physical(segments[i]))
      PROVE  ~In(a, Workspace)
  <2>1. ~Overlaps(Physical(segments[i]), Workspace)
    BY <1>4 DEF KernelValid
  <2>2. a \in Int /\ Physical(segments[i]).start <= a /\ a < End(Physical(segments[i]))
    BY <1>7, BytesMember
  <2>3. Workspace.start \in Nat /\ End(Workspace) \in Nat
    BY Numbers DEF Workspace, RangeOf, End
  <2>4. Physical(segments[i]).start \in Nat /\ End(Physical(segments[i])) \in Nat
    BY <1>7 DEF End
  <2> QED BY <2>1, <2>2, <2>3, <2>4 DEF Overlaps, In
<1>10. ASSUME NEW i \in DOMAIN segments, NEW j \in DOMAIN segments, i < j
       PROVE  \A a : ~(a \in Bytes(Physical(segments[i])) /\ a \in Bytes(Physical(segments[j])))
  <2> SUFFICES ASSUME NEW a, a \in Bytes(Physical(segments[i])),
                      a \in Bytes(Physical(segments[j]))
               PROVE  FALSE
    OBVIOUS
  <2> DEFINE p == Physical(segments[i])
             q == Physical(segments[j])
  <2>1. ~Overlaps(p, q)
    BY <1>4, <1>10 DEF KernelValid
  <2>2. a \in Int /\ p.start <= a /\ a < End(p) /\ q.start <= a /\ a < End(q)
    BY <1>7, BytesMember
  <2>3. p.start \in Nat /\ q.start \in Nat /\ End(p) \in Nat /\ End(q) \in Nat
    BY <1>7 DEF End
  <2> QED BY <2>1, <2>2, <2>3 DEF Overlaps
<1>11. ASSUME NEW i \in DOMAIN segments, NEW j \in DOMAIN segments, i # j,
              NEW a \in Bytes(Physical(segments[i]))
       PROVE  a \notin Bytes(Physical(segments[j]))
  <2>1. i < j \/ j < i
    BY <1>2, <1>11
  <2> QED BY <1>10, <2>1
<1> QED BY <1>1, <1>2, <1>5, <1>6, <1>8, <1>9, <1>11 DEF segments

\* One copy loads its segment, and neither undoes an earlier one nor touches the rest.
LEMMA CopyStep ==
  ASSUME FileOK(file), Parses(file), BootInv, phase = "Booting", ApplyCopy
  PROVE  Holds(booted)' /\ Untouched(booted)'
<1> DEFINE segments == KernelSegments(file)
           n == booted + 1
           s == segments[n]
<1>1. /\ DOMAIN segments = 1 .. Len(segments) /\ Len(segments) \in Nat
      /\ \A i \in DOMAIN segments :
           /\ segments[i] = file.kernel[i] /\ segments[i] \in KernelSegmentType
           /\ segments[i].file_size <= segments[i].memory_size
           /\ RamBase <= segments[i].physical_address
           /\ segments[i].physical_address + segments[i].memory_size
                <= RamBase + RamSize
           /\ \A j \in DOMAIN segments :
                i # j => \A a \in Bytes(Physical(segments[i])) :
                           a \notin Bytes(Physical(segments[j]))
  BY AcceptedKernel
<1>2. /\ booted \in 0 .. Len(segments) /\ booted < Len(segments)
      /\ Holds(booted) /\ Untouched(booted)
      /\ DOMAIN ram = RamBase .. (RamBase + RamSize - 1)
  BY DEF BootInv, ApplyCopy
<1>3. file' = file /\ booted' = n
  BY DEF ApplyCopy
<1>4. n \in DOMAIN segments /\ n \in Nat /\ \A i \in DOMAIN segments : i <= n => i <= booted \/ i = n
  BY <1>1, <1>2
<1>5. s = file.kernel[n]
  BY <1>1, <1>4
<1>6. ram' = [a \in DOMAIN ram |->
                IF In(a, Loaded(s))
                  THEN file.content[s.data_offset + (a - s.physical_address)]
                ELSE IF In(a, Physical(s)) THEN {<<"zero">>}
                ELSE ram[a]]
  BY <1>5 DEF ApplyCopy
<1>7. /\ RamBase \in Nat /\ RamSize \in Nat
  BY Numbers
<1> HIDE DEF segments
<1>8. \A i \in DOMAIN segments :
        /\ segments[i].physical_address \in Nat /\ segments[i].memory_size \in Nat
        /\ segments[i].file_size \in Nat /\ segments[i].data_offset \in Nat
  BY <1>1 DEF KernelSegmentType
<1>9. ASSUME NEW i \in DOMAIN segments, NEW a \in Int
      PROVE  /\ a \in Bytes(Physical(segments[i])) <=>
                  /\ segments[i].physical_address <= a
                  /\ a < segments[i].physical_address + segments[i].memory_size
             /\ In(a, Physical(segments[i])) <=> a \in Bytes(Physical(segments[i]))
             /\ In(a, Loaded(segments[i])) <=>
                  /\ segments[i].physical_address <= a
                  /\ a < segments[i].physical_address + segments[i].file_size
  <2>1. /\ segments[i].physical_address \in Nat /\ segments[i].memory_size \in Nat
        /\ segments[i].file_size \in Nat
    BY <1>8
  <2> QED BY <2>1 DEF Physical, Loaded, RangeOf, Bytes, In, End
<1>10. ASSUME NEW a \in DOMAIN ram, a \notin Bytes(Physical(s))
       PROVE  ram'[a] = ram[a]
  <2>1. a \in Int
    BY <1>2, <1>7
  <2>2. ~In(a, Physical(s)) /\ ~In(a, Loaded(s))
    <3>1. s.file_size <= s.memory_size
      BY <1>1, <1>4
    <3>2. s.physical_address \in Nat /\ s.memory_size \in Nat /\ s.file_size \in Nat
      BY <1>4, <1>8
    <3> HIDE DEF n
    <3> QED BY <1>4, <1>9, <1>10, <2>1, <3>1, <3>2
  <2> HIDE DEF s
  <2> QED BY <1>6, <2>2
<1>11. ASSUME NEW i \in DOMAIN segments, NEW k \in 0 .. (segments[i].memory_size - 1)
       PROVE  LET a == segments[i].physical_address + k
              IN  a \in DOMAIN ram /\ a \in Bytes(Physical(segments[i])) /\ a \in Int
  <2>1. /\ segments[i].physical_address \in Nat /\ segments[i].memory_size \in Nat
        /\ RamBase <= segments[i].physical_address
        /\ segments[i].physical_address + segments[i].memory_size <= RamBase + RamSize
    BY <1>1, <1>8
  <2> QED BY <1>2, <1>7, <1>9, <2>1
<1>12. ASSUME NEW i \in DOMAIN segments, i <= n,
              NEW k \in 0 .. (segments[i].memory_size - 1)
       PROVE  ram'[segments[i].physical_address + k] = LoadedByte(segments[i], k)
  <2> DEFINE a == segments[i].physical_address + k
  <2>1. CASE i = n
    <3>1. a \in DOMAIN ram /\ In(a, Physical(s))
      BY <1>9, <1>11, <2>1
    <3>2. /\ s.physical_address \in Nat /\ s.file_size \in Nat /\ s.data_offset \in Nat
          /\ k \in Nat /\ a = s.physical_address + k
      BY <1>8, <2>1
    <3>3. In(a, Loaded(s)) <=> k < s.file_size
      <4>1. In(a, Loaded(s)) <=>
              s.physical_address <= a /\ a < s.physical_address + s.file_size
        BY <1>9, <1>11, <2>1
      <4> HIDE DEF s
      <4> QED BY <3>2, <4>1
    <3>4. s.data_offset + (a - s.physical_address) = s.data_offset + k
      <4> HIDE DEF s, a
      <4> QED BY <3>2
    <3>5. s = segments[i]
      BY <2>1
    <3> HIDE DEF s, a
    <3>6. ram'[a] = IF In(a, Loaded(s))
                      THEN file.content[s.data_offset + (a - s.physical_address)]
                      ELSE {<<"zero">>}
      BY <1>6, <3>1
    <3>7. ram'[a] = LoadedByte(s, k)
      BY <3>3, <3>4, <3>6 DEF LoadedByte
    <3> QED BY <3>5, <3>7 DEF a
  <2>2. CASE i # n
    <3>1. i <= booted
      BY <1>4, <1>12, <2>2
    <3>2. ram[a] = LoadedByte(segments[i], k)
      BY <1>2, <3>1 DEF Holds, segments
    <3>3. a \in DOMAIN ram /\ a \in Bytes(Physical(segments[i]))
      BY <1>11
    <3>4. a \notin Bytes(Physical(s))
      <4> HIDE DEF a, n
      <4> QED BY <1>1, <1>4, <2>2, <3>3
    <3>5. ram'[a] = ram[a]
      <4> HIDE DEF a, s
      <4> QED BY <1>10, <3>3, <3>4
    <3> QED BY <3>2, <3>5
  <2> QED BY <2>1, <2>2
<1>13. ASSUME NEW a \in DOMAIN ram,
              \A i \in DOMAIN segments : i <= n => a \notin Bytes(Physical(segments[i]))
       PROVE  ram'[a] = {<<"old">>}
  <2>1. a \notin Bytes(Physical(s))
    <3>1. n <= n
      BY <1>4
    <3> QED BY <1>4, <1>13, <3>1
  <2>2. \A i \in DOMAIN segments : i <= booted => a \notin Bytes(Physical(segments[i]))
    <3>1. \A i \in DOMAIN segments : i <= booted => i <= n
      BY <1>1, <1>2
    <3> QED BY <1>13, <3>1
  <2>3. ram[a] = {<<"old">>}
    BY <1>2, <2>2 DEF Untouched, segments
  <2> QED BY <1>10, <2>1, <2>3
<1>14. DOMAIN ram' = DOMAIN ram
  <2> HIDE DEF s
  <2> QED BY <1>6
<1>15. Holds(booted)'
  <2>1. \A i \in DOMAIN segments : i <= n =>
          \A k \in 0 .. (segments[i].memory_size - 1) :
            ram'[segments[i].physical_address + k] =
              IF k < segments[i].file_size
                THEN file.content[segments[i].data_offset + k] ELSE {<<"zero">>}
    BY <1>12 DEF LoadedByte
  <2> HIDE DEF n
  <2> QED BY <1>3, <2>1 DEF Holds, LoadedByte, segments
<1>16. Untouched(booted)'
  <2>1. \A a \in DOMAIN ram' :
          (\A i \in DOMAIN segments : i <= n => a \notin Bytes(Physical(segments[i])))
            => ram'[a] = {<<"old">>}
    BY <1>13, <1>14
  <2> HIDE DEF n
  <2> QED BY <1>3, <2>1 DEF Untouched, segments
<1> QED BY <1>15, <1>16

\* The boot info lies in the workspace, which no segment meets.
LEMMA InfoStep ==
  ASSUME FileOK(file), Parses(file), BootInv, phase = "Booting", WriteBootInfo
  PROVE  BootLoads'
<1> DEFINE segments == KernelSegments(file)
           info == RangeOf(InfoBase, InfoSize)
<1>1. /\ DOMAIN segments = 1 .. Len(segments) /\ Len(segments) \in Nat
      /\ \A i \in DOMAIN segments :
           /\ segments[i] \in KernelSegmentType
           /\ RamBase <= segments[i].physical_address
           /\ segments[i].physical_address + segments[i].memory_size
                <= RamBase + RamSize
           /\ \A a \in Bytes(Physical(segments[i])) : ~In(a, Workspace)
      /\ file.header.boot_info_paddr = InfoBase
  BY AcceptedKernel
<1>2. /\ booted = Len(segments) /\ Holds(booted) /\ Untouched(booted)
      /\ DOMAIN ram = RamBase .. (RamBase + RamSize - 1)
  BY DEF BootInv, WriteBootInfo
<1>3. /\ file' = file
      /\ ram' = [a \in DOMAIN ram |-> IF In(a, info) THEN {<<"info">>} ELSE ram[a]]
  BY <1>1 DEF WriteBootInfo
<1>4. \A i \in DOMAIN segments : i <= booted
  BY <1>1, <1>2
<1>5. /\ RamBase \in Nat /\ RamSize \in Nat /\ StackBase \in Nat /\ StackSize \in Nat
      /\ InfoBase \in Nat /\ InfoSize \in Nat /\ InfoBase = StackBase + StackSize
      /\ RamBase <= StackBase /\ InfoBase + InfoSize <= RamBase + RamSize
  BY Numbers
<1>6. ASSUME NEW a \in Int
      PROVE  /\ In(a, info) <=> InfoBase <= a /\ a < InfoBase + InfoSize
             /\ a \in Bytes(info) <=> In(a, info)
             /\ In(a, info) => In(a, Workspace)
  BY <1>5 DEF RangeOf, In, End, Bytes, Workspace
<1> HIDE DEF segments
<1>7. \A i \in DOMAIN segments :
        segments[i].physical_address \in Nat /\ segments[i].memory_size \in Nat
  BY <1>1 DEF KernelSegmentType
<1>8. ASSUME NEW i \in DOMAIN segments, NEW k \in 0 .. (segments[i].memory_size - 1)
      PROVE  ram'[segments[i].physical_address + k] =
               IF k < segments[i].file_size
                 THEN file.content[segments[i].data_offset + k] ELSE {<<"zero">>}
  <2> DEFINE a == segments[i].physical_address + k
  <2>1. a \in DOMAIN ram /\ a \in Int
    <3>1. /\ segments[i].physical_address \in Nat /\ segments[i].memory_size \in Nat
          /\ RamBase <= segments[i].physical_address
          /\ segments[i].physical_address + segments[i].memory_size <= RamBase + RamSize
      BY <1>1, <1>7
    <3> QED BY <1>2, <1>5, <3>1
  <2>2. a \in Bytes(Physical(segments[i]))
    BY <1>7 DEF Bytes, Physical, RangeOf, End
  <2>3. ~In(a, info)
    BY <1>1, <1>6, <2>1, <2>2
  <2>4. ram[a] = LoadedByte(segments[i], k)
    BY <1>2, <1>4 DEF Holds, segments
  <2>5. ram'[a] = ram[a]
    <3> HIDE DEF a, info
    <3> QED BY <1>3, <2>1, <2>3
  <2> QED BY <2>4, <2>5 DEF LoadedByte
<1>9. ASSUME NEW a \in Bytes(info) PROVE ram'[a] = {<<"info">>}
  <2>1. a \in Int
    BY <1>5 DEF Bytes, RangeOf, End
  <2>2. a \in DOMAIN ram
    BY <1>2, <1>5, <1>6, <2>1
  <2> QED BY <1>3, <1>6, <2>1, <2>2
<1>10. ASSUME NEW a \in DOMAIN ram,
              \A i \in DOMAIN segments : a \notin Bytes(Physical(segments[i])),
              a \notin Bytes(info)
       PROVE  ram'[a] = {<<"old">>}
  <2>1. a \in Int
    BY <1>2, <1>5
  <2>2. ram[a] = {<<"old">>}
    BY <1>2, <1>10 DEF Untouched, segments
  <2> QED BY <1>3, <1>6, <1>10, <2>1, <2>2
<1>11. DOMAIN ram' = DOMAIN ram
  BY <1>3
<1>12. KernelSegments(file') = segments
  BY <1>3 DEF segments
<1> QED BY <1>3, <1>8, <1>9, <1>10, <1>11, <1>12 DEF BootLoads

LEMMA BootStep ==
  ASSUME ImageInv, BootInv, [Next]_vars
  PROVE  BootInv'
<1>1. CASE AddModule \/ Build
  <2>1. /\ ram' = ram /\ booted' = booted /\ phase = "Adding"
        /\ phase' \in {"Adding", "File", "Rejected"}
    BY <1>1 DEF AddModule, Build
  <2>2. BootLoads'
    BY <2>1 DEF BootLoads
  <2> QED BY <2>1, <2>2 DEF BootInv
<1>2. CASE AlterHeader \/ AlterKernel \/ AlterModule \/ Parse
  <2>1. /\ ram' = ram /\ booted' = booted /\ phase = "File"
        /\ phase' \in {"File", "Accepted", "Rejected"}
    BY <1>2 DEF AlterHeader, AlterKernel, AlterModule, Altered, Parse
  <2>2. BootLoads'
    BY <2>1 DEF BootLoads
  <2> QED BY <2>1, <2>2 DEF BootInv
<1>3. CASE BootPlan
  <2>1. /\ ram' = ram /\ booted' = booted /\ phase = "Accepted" /\ file' = file
        /\ phase' \in {"Booting", "Panicked"}
    BY <1>3 DEF BootPlan
  <2>2. BootLoads'
    BY <2>1 DEF BootLoads
  <2>3. booted = 0 /\ \A a \in DOMAIN ram : ram[a] = {<<"old">>}
    BY <2>1 DEF BootInv
  <2>4. DOMAIN KernelSegments(file) = 1 .. Len(KernelSegments(file))
        /\ Len(KernelSegments(file)) \in Nat
    BY <2>1, AcceptedKernel DEF ImageInv, PhasesAccepted
  <2>5. /\ booted \in 0 .. Len(KernelSegments(file))
        /\ \A i \in DOMAIN KernelSegments(file) : ~(i <= booted)
    BY <2>3, <2>4
  <2>6. Holds(booted)
    BY <2>5 DEF Holds
  <2>7. Untouched(booted)
    BY <2>3 DEF Untouched
  <2>8. Holds(booted)' /\ Untouched(booted)'
    BY <2>1, <2>6, <2>7 DEF Holds, Untouched, LoadedByte
  <2> QED BY <2>1, <2>2, <2>5, <2>8 DEF BootInv
<1>4. CASE ApplyCopy
  <2>1. /\ phase = "Booting" /\ phase' = phase /\ file' = file /\ booted' = booted + 1
        /\ booted < Len(KernelSegments(file)) /\ DOMAIN ram' = DOMAIN ram
    BY <1>4 DEF ApplyCopy
  <2>2. FileOK(file) /\ Parses(file)
    BY <2>1 DEF ImageInv, PhasesAccepted
  <2>3. Holds(booted)' /\ Untouched(booted)'
    BY <1>4, <2>1, <2>2, CopyStep
  <2>4. Len(KernelSegments(file)) \in Nat
    BY <2>2, AcceptedKernel
  <2>5. booted' \in 0 .. Len(KernelSegments(file'))
    BY <2>1, <2>4 DEF BootInv
  <2>6. BootLoads'
    BY <2>1 DEF BootLoads
  <2> QED BY <2>1, <2>3, <2>5, <2>6 DEF BootInv
<1>5. CASE WriteBootInfo
  <2>1. phase = "Booting" /\ phase' = "Booted" /\ DOMAIN ram' = DOMAIN ram
    BY <1>5 DEF WriteBootInfo
  <2>2. FileOK(file) /\ Parses(file)
    BY <2>1 DEF ImageInv, PhasesAccepted
  <2>3. BootLoads'
    BY <1>5, <2>1, <2>2, InfoStep
  <2> QED BY <2>1, <2>3 DEF BootInv
<1>6. CASE UNCHANGED vars
  BY <1>6 DEF vars, BootInv, BootLoads, Holds, Untouched, LoadedByte
<1> QED BY <1>1, <1>2, <1>3, <1>4, <1>5, <1>6 DEF Next

\* A boot of an accepted image leaves every kernel segment and the boot info in RAM
\* and the rest as it was (BootPlan::apply), for every platform and image.
THEOREM BootIsExact == Spec => []BootLoads
<1>1. Init => ImageInv /\ BootInv
  <2>1. Init => BootInv
    BY DEF Init, BootInv, BootLoads
  <2> QED BY <2>1, ImageInit
<1>2. ImageInv /\ BootInv /\ [Next]_vars => ImageInv' /\ BootInv'
  BY ImageStep, BootStep
<1>3. BootInv => BootLoads
  BY DEF BootInv
<1> QED BY <1>1, <1>2, <1>3, PTL DEF Spec

-----------------------------------------------------------------------------
(* The spans of a built file lie one behind the other *)

\* Spans between two bounds, any two of which one ends before the other begins.
Stacked(S, low, high) ==
  /\ low \in Nat /\ high \in Nat /\ low <= high
  /\ \A a \in S : IsRange(a) /\ low <= a.start /\ End(a) <= high
  /\ \A a, b \in S : a # b => End(a) <= b.start \/ End(b) <= a.start

LEMMA StackedUnion ==
  ASSUME NEW S, NEW T, NEW low, NEW middle, NEW above, NEW high,
         Stacked(S, low, middle), Stacked(T, above, high), middle <= above
  PROVE  Stacked(S \cup T, low, high)
<1>1. /\ low \in Nat /\ middle \in Nat /\ above \in Nat /\ high \in Nat
      /\ low <= middle /\ above <= high
  BY DEF Stacked
<1>2. \A a \in S : IsRange(a) /\ a.start \in Nat /\ End(a) \in Nat
                   /\ low <= a.start /\ End(a) <= middle
  BY DEF Stacked, IsRange, End
<1>3. \A a \in T : IsRange(a) /\ a.start \in Nat /\ End(a) \in Nat
                   /\ above <= a.start /\ End(a) <= high
  BY DEF Stacked, IsRange, End
<1>4. \A a \in S \cup T : IsRange(a) /\ low <= a.start /\ End(a) <= high
  BY <1>1, <1>2, <1>3
<1>5. \A a \in S, b \in T : End(a) <= b.start
  BY <1>1, <1>2, <1>3
<1>6. ASSUME NEW a \in S \cup T, NEW b \in S \cup T, a # b
      PROVE  End(a) <= b.start \/ End(b) <= a.start
  <2>1. CASE a \in S /\ b \in S
    BY <1>6, <2>1 DEF Stacked
  <2>2. CASE a \in T /\ b \in T
    BY <1>6, <2>2 DEF Stacked
  <2>3. CASE a \in S /\ b \in T
    BY <1>5, <2>3
  <2>4. CASE a \in T /\ b \in S
    BY <1>5, <2>4
  <2> QED BY <2>1, <2>2, <2>3, <2>4
<1>7. low <= high
  BY <1>1
<1> QED BY <1>1, <1>4, <1>6, <1>7 DEF Stacked

LEMMA StackedOne ==
  ASSUME NEW owner, NEW part, NEW start \in Nat, NEW length \in Nat
  PROVE  Stacked({Span(owner, part, 0, start, length)}, start, start + length)
<1> DEFINE a == Span(owner, part, 0, start, length)
<1>1. IsRange(a) /\ a.start = start /\ End(a) = start + length
  BY SpanFacts
<1> HIDE DEF a
<1>2. Stacked({a}, start, start + length)
  BY <1>1 DEF Stacked
<1> QED BY <1>2 DEF a

\* One span for some of the pieces laid out.
LEMMA StackedPieces ==
  ASSUME NEW p, NEW start \in Nat, NEW sizes \in Seq(Nat), EndToEnd(p, start, sizes),
         NEW D \in SUBSET DOMAIN sizes, NEW piece,
         \A i \in D : /\ IsRange(piece[i]) /\ piece[i].start = p.at[i]
                      /\ piece[i].length = sizes[i],
         NEW S, \A a \in S : \E i \in D : a = piece[i]
  PROVE  Stacked(S, start, p.end)
<1>1. /\ p.end \in Nat /\ start <= p.end
      /\ \A i \in DOMAIN sizes : start <= p.at[i] /\ p.at[i] + sizes[i] <= p.end
      /\ \A i, j \in DOMAIN sizes : i < j => p.at[i] + sizes[i] <= p.at[j]
  BY DEF EndToEnd
<1>2. \A i \in D : End(piece[i]) = p.at[i] + sizes[i] /\ i \in DOMAIN sizes
  BY DEF End
<1>3. DOMAIN sizes \subseteq Nat
  OBVIOUS
<1>4. \A i, j \in D : i # j => i < j \/ j < i
  BY <1>3
<1>5. ASSUME NEW i \in D, NEW j \in D, i # j
      PROVE  End(piece[i]) <= piece[j].start \/ End(piece[j]) <= piece[i].start
  BY <1>1, <1>2, <1>4, <1>5
<1>6. \A i \in D : IsRange(piece[i]) /\ start <= piece[i].start /\ End(piece[i]) <= p.end
  BY <1>1, <1>2
<1> QED BY <1>1, <1>5, <1>6 DEF Stacked

\* Some spans in every piece laid out.
LEMMA StackedFamily ==
  ASSUME NEW p, NEW start \in Nat, NEW sizes \in Seq(Nat), EndToEnd(p, start, sizes),
         NEW family,
         \A i \in DOMAIN sizes : Stacked(family[i], p.at[i], p.at[i] + sizes[i]),
         NEW all, \A a \in all : \E i \in DOMAIN sizes : a \in family[i]
  PROVE  Stacked(all, start, p.end)
<1>1. /\ p.end \in Nat /\ start <= p.end /\ p.at \in [DOMAIN sizes -> Nat]
      /\ \A i \in DOMAIN sizes : start <= p.at[i] /\ p.at[i] + sizes[i] <= p.end
      /\ \A i, j \in DOMAIN sizes : i < j => p.at[i] + sizes[i] <= p.at[j]
  BY DEF EndToEnd
<1>2. \A i \in DOMAIN sizes : i \in Nat /\ p.at[i] \in Nat /\ p.at[i] + sizes[i] \in Nat
  BY <1>1
<1>3. ASSUME NEW i \in DOMAIN sizes, NEW a \in family[i]
      PROVE  /\ IsRange(a) /\ a.start \in Nat /\ End(a) \in Nat
             /\ p.at[i] <= a.start /\ End(a) <= p.at[i] + sizes[i]
  BY DEF Stacked, IsRange, End
<1>4. ASSUME NEW i \in DOMAIN sizes, NEW a \in family[i]
      PROVE  IsRange(a) /\ start <= a.start /\ End(a) <= p.end
  BY <1>1, <1>2, <1>3
<1>5. ASSUME NEW i \in DOMAIN sizes, NEW j \in DOMAIN sizes, i < j,
             NEW a \in family[i], NEW b \in family[j]
      PROVE  End(a) <= b.start
  <2>1. End(a) \in Nat /\ b.start \in Nat
        /\ End(a) <= p.at[i] + sizes[i] /\ p.at[j] <= b.start
    BY <1>3
  <2>2. p.at[i] + sizes[i] <= p.at[j]
    BY <1>1, <1>5
  <2> DEFINE x == p.at[i] + sizes[i]
             y == p.at[j]
  <2>3. x \in Nat /\ y \in Nat
    BY <1>2
  <2> HIDE DEF x, y
  <2>4. End(a) <= x /\ x <= y /\ y <= b.start
    BY <2>1, <2>2 DEF x, y
  <2> QED BY <2>1, <2>3, <2>4
<1>6. ASSUME NEW a \in all, NEW b \in all, a # b
      PROVE  End(a) <= b.start \/ End(b) <= a.start
  <2>1. PICK i \in DOMAIN sizes : a \in family[i]
    OBVIOUS
  <2>2. PICK j \in DOMAIN sizes : b \in family[j]
    OBVIOUS
  <2>3. i < j \/ j < i \/ i = j
    BY <1>2
  <2>4. CASE i = j
    BY <1>6, <2>1, <2>2, <2>4 DEF Stacked
  <2> QED BY <1>5, <2>1, <2>2, <2>3, <2>4
<1>7. \A a \in all : IsRange(a) /\ start <= a.start /\ End(a) <= p.end
  BY <1>4
<1> QED BY <1>1, <1>6, <1>7 DEF Stacked

LEMMA StackedPart ==
  ASSUME NEW S, NEW T \in SUBSET S, NEW low, NEW high, Stacked(S, low, high)
  PROVE  Stacked(T, low, high)
BY DEF Stacked

LEMMA StackedOccupies ==
  ASSUME NEW S, NEW high, Stacked(S, 0, high)
  PROVE  Occupiable(S, high)
<1>1. \A a \in S : IsRange(a) /\ a.start \in Nat /\ End(a) \in Nat /\ End(a) <= high
  BY DEF Stacked, IsRange, End
<1>2. ASSUME NEW a \in S, NEW b \in S, a # b PROVE ~Overlaps(a, b)
  <2>1. End(a) <= b.start \/ End(b) <= a.start
    BY <1>2 DEF Stacked
  <2> QED BY <1>1, <2>1 DEF Overlaps
<1> QED BY <1>1, <1>2 DEF Occupiable

LEMMA SubSeqWhole ==
  ASSUME NEW S, NEW s \in Seq(S)
  PROVE  SubSeq(s, 1, Len(s)) = s
OBVIOUS

LEMMA BuiltFields ==
  ASSUME InputOK, LinkedInRam(input.kernel)
  PROVE  /\ BuiltFile.size = LModuleData.end /\ BuiltFile.header = LHeader
         /\ BuiltFile.kernel = LKernelRecords /\ BuiltFile.modules = LModules
         /\ BuiltFile.content = LContent
         /\ KernelSegments(BuiltFile) = LKernelRecords
         /\ ModuleRecords(BuiltFile) = LModules
         /\ DOMAIN LModules = DOMAIN SortedModules
         /\ \A i \in DOMAIN SortedModules : SegmentsOf(LModules[i]) = LModuleSegments[i]
<1> DEFINE b == BuiltFile
<1>1. b = [ size |-> LModuleData.end, header |-> LHeader, kernel |-> LKernelRecords,
            modules |-> LModules, content |-> LContent ]
  BY BuiltShape
<1>2. FileOK(b)
  BY BuiltFileOK
<1> HIDE DEF b
<1>3. /\ b.size = LModuleData.end /\ b.header = LHeader /\ b.kernel = LKernelRecords
      /\ b.modules = LModules /\ b.content = LContent
  BY <1>1
<1>4. DOMAIN LModules = DOMAIN SortedModules
  BY DEF LModules
<1>5. LKernelRecords \in Seq(KernelSegmentType) /\ LModules \in Seq(ModuleType)
  BY <1>2, <1>3 DEF FileOK
<1>6. /\ LHeader.kernel_segment_count = Len(LKernelRecords)
      /\ LHeader.module_count = Len(SortedModules)
  BY BuiltRecords DEF LHeader
<1>7. Len(LModules) = Len(SortedModules)
  <2>1. SortedModules \in Seq(ModuleInputType)
    BY PackedInput
  <2> QED BY <1>4, <1>5, <2>1
<1>8. KernelSegments(b) = LKernelRecords
  BY <1>3, <1>5, <1>6, SubSeqWhole DEF KernelSegments
<1>9. ModuleRecords(b) = LModules
  BY <1>3, <1>5, <1>6, <1>7, SubSeqWhole DEF ModuleRecords
<1>10. ASSUME NEW i \in DOMAIN SortedModules
       PROVE  SegmentsOf(LModules[i]) = LModuleSegments[i]
  <2>1. /\ LModules[i].segment_count = Len(LSegments[i])
        /\ LModules[i].segments = LModuleSegments[i]
    BY BuiltModule
  <2>2. /\ LModuleSegments[i] \in Seq(ModuleSegmentType)
        /\ Len(LModuleSegments[i]) = Len(LSegments[i])
    BY BuiltRecords
  <2>3. SubSeq(LModuleSegments[i], 1, Len(LModuleSegments[i])) = LModuleSegments[i]
    BY <2>2, SubSeqWhole
  <2> QED BY <2>1, <2>2, <2>3 DEF SegmentsOf
<1> QED BY <1>3, <1>4, <1>8, <1>9, <1>10 DEF b

\* The payloads of packed segments lie where their data was placed.
LEMMA StackedPayloads ==
  ASSUME NEW owner, NEW records, NEW packed, NEW p, NEW start \in Nat,
         packed \in Seq(KernelSegmentType) \/ packed \in Seq(ModuleSegmentType),
         DOMAIN records = DOMAIN packed,
         \A i \in DOMAIN packed :
           /\ records[i].data_offset = IF packed[i].file_size = 0 THEN 0 ELSE p.at[i]
           /\ records[i].file_size = packed[i].file_size,
         EndToEnd(p, start, Sizes(packed))
  PROVE  Stacked(Payloads(owner, records), start, p.end)
<1> DEFINE D == {j \in DOMAIN records : records[j].file_size # 0}
           piece == [i \in D |-> Span(owner, "data", i, records[i].data_offset,
                                      records[i].file_size)]
<1>1. /\ Sizes(packed) \in Seq(Nat) /\ DOMAIN Sizes(packed) = DOMAIN packed
      /\ \A i \in DOMAIN packed :
           Sizes(packed)[i] = packed[i].file_size /\ packed[i].file_size \in Nat
  BY SizesType
<1>2. D \in SUBSET DOMAIN Sizes(packed)
  BY <1>1
<1>3. p.at \in [DOMAIN Sizes(packed) -> Nat]
  BY DEF EndToEnd
<1>4. ASSUME NEW i \in D
      PROVE  /\ IsRange(piece[i]) /\ piece[i].start = p.at[i]
             /\ piece[i].length = Sizes(packed)[i]
  <2>1. /\ records[i].data_offset = p.at[i] /\ p.at[i] \in Nat
        /\ records[i].file_size = Sizes(packed)[i] /\ records[i].file_size \in Nat
    BY <1>1, <1>3
  <2>2. piece[i] = Span(owner, "data", i, records[i].data_offset, records[i].file_size)
    OBVIOUS
  <2> QED BY <2>1, <2>2, SpanFacts
<1>5. \A a \in Payloads(owner, records) : \E i \in D : a = piece[i]
  BY DEF Payloads
<1> HIDE DEF piece, D
<1> QED BY <1>1, <1>2, <1>4, <1>5, StackedPieces

\* The tables of the modules, or their names.
LEMMA StackedParts ==
  ASSUME NEW part, NEW p, NEW start \in Nat, NEW sizes \in Seq(Nat),
         EndToEnd(p, start, sizes), NEW S,
         \A a \in S : \E i \in DOMAIN sizes : a = Span(i, part, 0, p.at[i], sizes[i])
  PROVE  Stacked(S, start, p.end)
<1> DEFINE D == DOMAIN sizes
           piece == [i \in D |-> Span(i, part, 0, p.at[i], sizes[i])]
<1>1. p.at \in [D -> Nat]
  BY DEF EndToEnd
<1>2. \A i \in D : /\ IsRange(piece[i]) /\ piece[i].start = p.at[i]
                   /\ piece[i].length = sizes[i]
  <2>1. \A i \in D : p.at[i] \in Nat /\ sizes[i] \in Nat
    BY <1>1
  <2> QED BY <2>1, SpanFacts
<1>3. \A a \in S : \E i \in D : a = piece[i]
  OBVIOUS
<1>4. D \in SUBSET DOMAIN sizes
  OBVIOUS
<1> HIDE DEF piece, D
<1> QED BY <1>2, <1>3, <1>4, StackedPieces, ZenonT(60)

\* build_image hands out offsets that never collide, whatever is empty.
LEMMA BuiltStacked ==
  ASSUME InputOK, LinkedInRam(input.kernel)
  PROVE  Stacked(ImageMap(BuiltFile), 0, LModuleData.end)
<1> DEFINE D == DOMAIN SortedModules
           kernelTable == Len(LKernel) * RecordSize
           moduleTable == Len(SortedModules) * RecordSize
           tables == [i \in D |-> Span(i, "segments", 0, LTables.at[i], TableSizes[i])]
           names == [i \in D |-> Span(i, "name", 0, LNames.at[i], NameSizes[i])]
           S0 == {Span(0, "header", 0, 0, HeaderSize)}
           S1 == {Span(0, "segments", 0, HeaderSize, kernelTable)}
           S2 == {Span(0, "modules", 0, LModuleTable, moduleTable)}
           S3 == {tables[i] : i \in D}
           S4 == {names[i] : i \in D}
           S5 == Payloads(0, LKernelRecords)
           family == [i \in D |-> Payloads(i, LModuleSegments[i])]
           S6 == UNION {family[i] : i \in D}
<1>1. /\ TableSizes \in Seq(Nat) /\ NameSizes \in Seq(Nat) /\ DataSizes \in Seq(Nat)
      /\ LModuleTable \in Nat /\ moduleTable \in Nat
      /\ EndToEnd(LTables, LModuleTable + moduleTable, TableSizes)
      /\ Aligned(LTables.end) \in Nat /\ LTables.end <= Aligned(LTables.end)
      /\ EndToEnd(LNames, Aligned(LTables.end), NameSizes)
      /\ Aligned(LNames.end) \in Nat /\ LNames.end <= Aligned(LNames.end)
      /\ EndToEnd(LKernelData, Aligned(LNames.end), Sizes(LKernel))
      /\ EndToEnd(LModuleData, LKernelData.end, DataSizes)
      /\ \A i \in D : EndToEnd([at |-> LDataOf(i), end |-> DataStart(i) + DataSizes[i]],
                               DataStart(i), Sizes(LSegments[i]))
  BY LayoutFacts
<1>2. HeaderSize \in Nat
  BY Numbers
<1>3. kernelTable \in Nat /\ LModuleTable = HeaderSize + kernelTable
  <2>1. Len(LKernel) \in Nat
    <3>1. LKernel \in Seq(KernelSegmentType)
      BY PackedInput
    <3> QED BY <3>1
  <2> QED BY <2>1, TableSize DEF LModuleTable
<1>4. /\ DOMAIN TableSizes = D /\ DOMAIN NameSizes = D /\ DOMAIN DataSizes = D
  BY DEF TableSizes, NameSizes, DataSizes
<1>5. /\ \A i \in D : LTables.at[i] \in Nat /\ TableSizes[i] \in Nat
      /\ \A i \in D : LNames.at[i] \in Nat /\ NameSizes[i] \in Nat
      /\ \A i \in D : LModuleData.at[i] \in Nat
      /\ LKernelData.end \in Nat
  <2>1. /\ LTables.at \in [DOMAIN TableSizes -> Nat] /\ LNames.at \in [DOMAIN NameSizes -> Nat]
        /\ LModuleData.at \in [DOMAIN DataSizes -> Nat] /\ LKernelData.end \in Nat
    BY <1>1 DEF EndToEnd
  <2>2. \A i \in D : LTables.at[i] \in Nat /\ LNames.at[i] \in Nat /\ LModuleData.at[i] \in Nat
    BY <1>4, <2>1
  <2>3. \A i \in D : TableSizes[i] \in Nat /\ NameSizes[i] \in Nat
    <3>1. TableSizes \in Seq(Nat) /\ NameSizes \in Seq(Nat)
      BY <1>1
    <3> QED BY <1>4, <3>1
  <2> QED BY <2>1, <2>2, <2>3
<1> HIDE DEF D, kernelTable, moduleTable
<1>6. Stacked(S0, 0, HeaderSize)
  <2>1. Stacked(S0, 0, 0 + HeaderSize)
    BY <1>2, StackedOne
  <2> QED BY <1>2, <2>1
<1>7. Stacked(S1, HeaderSize, LModuleTable)
  BY <1>2, <1>3, StackedOne
<1>8. Stacked(S2, LModuleTable, LModuleTable + moduleTable)
  BY <1>1, StackedOne
<1>9. Stacked(S3, LModuleTable + moduleTable, LTables.end)
  <2>1. LModuleTable + moduleTable \in Nat
    BY <1>1
  <2>2. \A a \in S3 : \E i \in DOMAIN TableSizes :
          a = Span(i, "segments", 0, LTables.at[i], TableSizes[i])
    BY <1>4
  <2> DEFINE start == LModuleTable + moduleTable
  <2>3. start \in Nat /\ EndToEnd(LTables, start, TableSizes) /\ TableSizes \in Seq(Nat)
    BY <1>1, <2>1
  <2> HIDE DEF S3, start
  <2>4. Stacked(S3, start, LTables.end)
    BY <2>2, <2>3, StackedParts
  <2> QED BY <2>4 DEF start
<1>10. Stacked(S4, Aligned(LTables.end), LNames.end)
  <2>1. \A a \in S4 : \E i \in DOMAIN NameSizes :
          a = Span(i, "name", 0, LNames.at[i], NameSizes[i])
    BY <1>4
  <2> HIDE DEF S4
  <2> QED BY <1>1, <2>1, StackedParts
<1>11. Stacked(S5, Aligned(LNames.end), LKernelData.end)
  <2>1. LKernel \in Seq(KernelSegmentType)
    BY PackedInput
  <2>2. DOMAIN LKernelRecords = DOMAIN LKernel
    BY BuiltRecords
  <2>3. ASSUME NEW i \in DOMAIN LKernel
        PROVE  /\ LKernelRecords[i].data_offset =
                    IF LKernel[i].file_size = 0 THEN 0 ELSE LKernelData.at[i]
               /\ LKernelRecords[i].file_size = LKernel[i].file_size
    <3> DEFINE s == LKernel[i]
               r == LKernelRecords[i]
    <3>1. /\ r.data_offset = IF s.file_size = 0 THEN 0 ELSE LKernelData.at[i]
          /\ r = [s EXCEPT !.data_offset = r.data_offset] /\ s \in KernelSegmentType
      BY <2>1, BuiltRecords
    <3> HIDE DEF s, r
    <3>2. r.file_size = s.file_size
      BY <3>1 DEF KernelSegmentType
    <3> QED BY <3>1, <3>2 DEF s, r
  <2> QED BY <1>1, <2>1, <2>2, <2>3, StackedPayloads
<1>12. Stacked(S6, LKernelData.end, LModuleData.end)
  <2>1. ASSUME NEW i \in D
        PROVE  Stacked(family[i], LModuleData.at[i], LModuleData.at[i] + DataSizes[i])
    <3> DEFINE p == [at |-> LDataOf(i), end |-> DataStart(i) + DataSizes[i]]
               seg == LSegments[i]
               out == LModuleSegments[i]
    <3>1. seg \in Seq(ModuleSegmentType)
      BY PackedInput DEF D
    <3>2. DOMAIN out = DOMAIN seg
      BY BuiltRecords DEF D
    <3>3. EndToEnd(p, DataStart(i), Sizes(seg))
      BY <1>1
    <3>4. DataStart(i) = LModuleData.at[i] /\ DataStart(i) \in Nat
      BY <1>5 DEF DataStart
    <3>5. p.at = LDataOf(i) /\ p.end = LModuleData.at[i] + DataSizes[i]
      BY <3>4
    <3>6. ASSUME NEW j \in DOMAIN seg
          PROVE  /\ out[j].data_offset = IF seg[j].file_size = 0 THEN 0 ELSE p.at[j]
                 /\ out[j].file_size = seg[j].file_size
      <4> DEFINE s == seg[j]
                 r == out[j]
      <4>1. /\ r.data_offset = IF s.file_size = 0 THEN 0 ELSE LDataOf(i)[j]
            /\ r = [s EXCEPT !.data_offset = r.data_offset]
        BY BuiltRecords DEF D
      <4>2. s \in ModuleSegmentType
        BY <3>1
      <4> HIDE DEF s, r
      <4>3. r.file_size = s.file_size
        BY <4>1, <4>2 DEF ModuleSegmentType
      <4> QED BY <3>5, <4>1, <4>3 DEF s, r
    <3>7. family[i] = Payloads(i, out)
      OBVIOUS
    <3> HIDE DEF p, seg, out, family
    <3>8. Stacked(Payloads(i, out), DataStart(i), p.end)
      BY <3>1, <3>2, <3>3, <3>4, <3>6, StackedPayloads
    <3> QED BY <3>4, <3>5, <3>7, <3>8
  <2>2. \A a \in S6 : \E i \in D : a \in family[i]
    OBVIOUS
  <2> HIDE DEF family, S6
  <2> QED BY <1>1, <1>4, <1>5, <2>1, <2>2, StackedFamily
<1> DEFINE all == S0 \cup (S1 \cup (S2 \cup (S3 \cup (S4 \cup (S5 \cup S6)))))
<1>13. \A a \in ImageMap(BuiltFile) : a \in all
  <2> SUFFICES ASSUME NEW a \in ImageMap(BuiltFile) PROVE a \in all
    OBVIOUS
  <2> DEFINE h == BuiltFile.header
  <2>1. /\ h = LHeader /\ BuiltFile.modules = LModules
        /\ KernelSegments(BuiltFile) = LKernelRecords /\ ModuleRecords(BuiltFile) = LModules
        /\ DOMAIN LModules = D
    BY BuiltFields DEF D
  <2>2. /\ h.kernel_segment_table_offset = HeaderSize
        /\ h.kernel_segment_count = Len(LKernel)
        /\ h.module_table_offset = LModuleTable
        /\ h.module_count = Len(SortedModules)
    BY <2>1 DEF LHeader
  <2>3. \/ a = Span(0, "header", 0, 0, HeaderSize)
        \/ a = Span(0, "segments", 0, HeaderSize, kernelTable)
        \/ a = Span(0, "modules", 0, LModuleTable, moduleTable)
        \/ a \in Payloads(0, LKernelRecords)
        \/ \E i \in D : a \in ModuleSpans(i, LModules[i])
    BY <2>1, <2>2 DEF ImageMap, kernelTable, moduleTable
  <2>4. ASSUME NEW i \in D, a \in ModuleSpans(i, LModules[i])
        PROVE  a \in all
    <3> DEFINE m == LModules[i]
    <3>1. /\ m.name_offset = LNames.at[i] /\ m.name_length = SortedModules[i].name
          /\ m.segment_table_offset = LTables.at[i]
          /\ m.segment_count = Len(LSegments[i])
      BY BuiltModule DEF D
    <3>2. SegmentsOf(m) = LModuleSegments[i]
      BY BuiltFields DEF D
    <3>3. NameSizes[i] = SortedModules[i].name
          /\ TableSizes[i] = Len(LSegments[i]) * RecordSize
      BY DEF NameSizes, TableSizes, D
    <3>4. \/ a = Span(i, "name", 0, m.name_offset, m.name_length)
          \/ a = Span(i, "segments", 0, m.segment_table_offset,
                      m.segment_count * RecordSize)
          \/ a \in Payloads(i, SegmentsOf(m))
      BY <2>4 DEF ModuleSpans
    <3> HIDE DEF m
    <3>5. a = names[i] \/ a = tables[i] \/ a \in family[i]
      BY <3>1, <3>2, <3>3, <3>4
    <3> HIDE DEF names, tables, family
    <3> QED BY <3>5
  <2> HIDE DEF S3, S4, S6
  <2> QED BY <2>3, <2>4
<1> HIDE DEF S0, S1, S2, S3, S4, S5, S6
<1>14. Stacked(all, 0, LModuleData.end)
  <2> DEFINE T5 == S5 \cup S6
             T4 == S4 \cup T5
             T3 == S3 \cup T4
             T2 == S2 \cup T3
             T1 == S1 \cup T2
  <2> DEFINE e1 == LModuleTable + moduleTable
             a3 == Aligned(LTables.end)
             a4 == Aligned(LNames.end)
             e6 == LModuleData.end
  <2>0. /\ LKernelData.end <= LKernelData.end /\ LModuleTable <= LModuleTable
        /\ e1 <= e1 /\ HeaderSize <= HeaderSize
    BY <1>1, <1>2, <1>5
  <2>a. LNames.end <= a4 /\ LTables.end <= a3
    BY <1>1
  <2> HIDE DEF e1, a3, a4, e6
  <2>1. Stacked(T5, a4, e6)
    BY <1>11, <1>12, <2>0, StackedUnion DEF a4, e6
  <2> HIDE DEF T5
  <2>2. Stacked(T4, a3, e6)
    BY <1>10, <2>a, <2>1, StackedUnion DEF a3
  <2> HIDE DEF T4
  <2>3. Stacked(T3, e1, e6)
    BY <1>9, <2>a, <2>2, StackedUnion DEF e1
  <2> HIDE DEF T3
  <2>4. Stacked(T2, LModuleTable, e6)
    BY <1>8, <2>0, <2>3, StackedUnion DEF e1
  <2> HIDE DEF T2
  <2>5. Stacked(T1, HeaderSize, e6)
    BY <1>7, <2>0, <2>4, StackedUnion
  <2> HIDE DEF T1
  <2>6. Stacked(S0 \cup T1, 0, e6)
    BY <1>6, <2>0, <2>5, StackedUnion
  <2> QED BY <2>6 DEF T1, T2, T3, T4, T5, e6
<1> HIDE DEF all
<1> QED BY <1>13, <1>14, StackedPart

-----------------------------------------------------------------------------
(* A built file parses *)

\* The offset of a payload is no part of what its segment says.
LEMMA KernelOffset ==
  ASSUME NEW s \in KernelSegmentType, NEW r, NEW o, r = [s EXCEPT !.data_offset = o]
  PROVE  /\ Physical(r) = Physical(s) /\ Virtual(r) = Virtual(s)
         /\ Initialized(r) = Initialized(s) /\ Loaded(r) = Loaded(s)
         /\ Executes(r) <=> Executes(s)
         /\ KernelSegmentValid(s) => KernelSegmentValid(r)
         /\ r.virtual_address = s.virtual_address /\ r.memory_size = s.memory_size
         /\ r.file_size = s.file_size /\ r.flags = s.flags /\ r.clean = s.clean
<1>1. /\ r.virtual_address = s.virtual_address /\ r.memory_size = s.memory_size
      /\ r.file_size = s.file_size /\ r.flags = s.flags /\ r.clean = s.clean
      /\ r.physical_address = s.physical_address
  BY DEF KernelSegmentType
<1>2. /\ Physical(r) = Physical(s) /\ Virtual(r) = Virtual(s)
      /\ Initialized(r) = Initialized(s) /\ Loaded(r) = Loaded(s)
      /\ Executes(r) <=> Executes(s)
  BY <1>1 DEF Physical, Virtual, Initialized, Loaded, Executes
<1>3. KernelSegmentValid(s) => KernelSegmentValid(r)
  BY <1>1, <1>2 DEF KernelSegmentValid, FlagsKnown
<1> QED BY <1>1, <1>2, <1>3

LEMMA ModuleOffset ==
  ASSUME NEW s \in ModuleSegmentType, NEW r, NEW o, r = [s EXCEPT !.data_offset = o]
  PROVE  /\ Virtual(r) = Virtual(s) /\ Initialized(r) = Initialized(s)
         /\ Executes(r) <=> Executes(s)
         /\ ModuleSegmentValid(s) => ModuleSegmentValid(r)
         /\ r.virtual_address = s.virtual_address /\ r.memory_size = s.memory_size
         /\ r.file_size = s.file_size /\ r.flags = s.flags /\ r.clean = s.clean
<1>1. /\ r.virtual_address = s.virtual_address /\ r.memory_size = s.memory_size
      /\ r.file_size = s.file_size /\ r.flags = s.flags /\ r.clean = s.clean
  BY DEF ModuleSegmentType
<1>2. /\ Virtual(r) = Virtual(s) /\ Initialized(r) = Initialized(s)
      /\ Executes(r) <=> Executes(s)
  BY <1>1 DEF Virtual, Initialized, Executes
<1>3. ModuleSegmentValid(s) => ModuleSegmentValid(r)
  BY <1>1 DEF ModuleSegmentValid, FlagsKnown
<1> QED BY <1>1, <1>2, <1>3

LEMMA KernelTransfer ==
  ASSUME NEW a, NEW b, NEW entry, KernelValid(a, entry), DOMAIN a = DOMAIN b,
         \A i \in DOMAIN a :
           /\ Physical(b[i]) = Physical(a[i]) /\ Virtual(b[i]) = Virtual(a[i])
           /\ Initialized(b[i]) = Initialized(a[i]) /\ Loaded(b[i]) = Loaded(a[i])
           /\ Executes(b[i]) <=> Executes(a[i])
  PROVE  KernelValid(b, entry)
BY DEF KernelValid

LEMMA ModuleTransfer ==
  ASSUME NEW a, NEW b, NEW entry, ModuleValid(a, entry), DOMAIN a = DOMAIN b,
         \A i \in DOMAIN a :
           /\ Virtual(b[i]) = Virtual(a[i]) /\ Initialized(b[i]) = Initialized(a[i])
           /\ Executes(b[i]) <=> Executes(a[i])
  PROVE  ModuleValid(b, entry)
BY DEF ModuleValid

\* A record of the kernel table and the input segment it stands for.
LEMMA BuiltKernelSegment ==
  ASSUME InputOK, LinkedInRam(input.kernel), NEW i \in DOMAIN LKernel
  PROVE  LET r == LKernelRecords[i]
             s == LKernel[i]
             e == input.kernel.segments[ByAddress(input.kernel)[i]]
         IN  /\ Physical(r) = Physical(s) /\ Virtual(r) = Virtual(s)
             /\ Initialized(r) = Initialized(s) /\ Loaded(r) = Loaded(s)
             /\ Executes(r) <=> Executes(s)
             /\ KernelSegmentValid(s) => KernelSegmentValid(r)
             /\ r.virtual_address = e.address /\ r.memory_size = e.memory_size
             /\ r.file_size = e.file_size /\ r.flags = e.flags /\ r.clean
             /\ r.file_size = s.file_size
<1> DEFINE r == LKernelRecords[i]
           s == LKernel[i]
           e == input.kernel.segments[ByAddress(input.kernel)[i]]
<1>1. LKernel \in Seq(KernelSegmentType) /\ input.kernel \in ElfType
  BY PackedInput
<1>2. s \in KernelSegmentType
  BY <1>1
<1>3. r = [s EXCEPT !.data_offset = r.data_offset]
  BY BuiltRecords
<1>4. s = KernelRecord(e)
  BY <1>1, PackedKernelFacts DEF LKernel
<1> HIDE DEF r, s, e
<1>5. /\ s.virtual_address = e.address /\ s.memory_size = e.memory_size
      /\ s.file_size = e.file_size /\ s.flags = e.flags /\ s.clean
  BY <1>4 DEF KernelRecord
<1>6. /\ Physical(r) = Physical(s) /\ Virtual(r) = Virtual(s)
      /\ Initialized(r) = Initialized(s) /\ Loaded(r) = Loaded(s)
      /\ Executes(r) <=> Executes(s)
      /\ KernelSegmentValid(s) => KernelSegmentValid(r)
      /\ r.virtual_address = s.virtual_address /\ r.memory_size = s.memory_size
      /\ r.file_size = s.file_size /\ r.flags = s.flags /\ r.clean = s.clean
  BY <1>2, <1>3, KernelOffset
<1> QED BY <1>5, <1>6 DEF r, s, e

LEMMA BuiltModuleSegment ==
  ASSUME InputOK, LinkedInRam(input.kernel), NEW m \in DOMAIN SortedModules,
         NEW i \in DOMAIN LSegments[m]
  PROVE  LET r == LModuleSegments[m][i]
             s == LSegments[m][i]
             elf == SortedModules[m].elf
             e == elf.segments[ByAddress(elf)[i]]
         IN  /\ Virtual(r) = Virtual(s) /\ Initialized(r) = Initialized(s)
             /\ Executes(r) <=> Executes(s)
             /\ ModuleSegmentValid(s) => ModuleSegmentValid(r)
             /\ r.virtual_address = e.address /\ r.memory_size = e.memory_size
             /\ r.file_size = e.file_size /\ r.flags = e.flags /\ r.clean
             /\ r.file_size = s.file_size
<1> DEFINE r == LModuleSegments[m][i]
           s == LSegments[m][i]
           elf == SortedModules[m].elf
           e == elf.segments[ByAddress(elf)[i]]
<1>1. /\ LSegments[m] \in Seq(ModuleSegmentType) /\ elf \in ElfType
      /\ LSegments[m] = PackedSegments(elf)
  BY PackedInput
<1>2. s \in ModuleSegmentType
  BY <1>1
<1>3. r = [s EXCEPT !.data_offset = r.data_offset]
  BY BuiltRecords
<1>4. s = ModuleSegment(e)
  <2> HIDE DEF elf
  <2>1. DOMAIN PackedSegments(elf) = 1 .. Cardinality(LoadSegments(elf))
        /\ \A j \in 1 .. Cardinality(LoadSegments(elf)) :
             PackedSegments(elf)[j] = ModuleSegment(elf.segments[ByAddress(elf)[j]])
    BY <1>1, PackedSegmentsFacts
  <2> QED BY <1>1, <2>1
<1> HIDE DEF r, s, e
<1>5. /\ s.virtual_address = e.address /\ s.memory_size = e.memory_size
      /\ s.file_size = e.file_size /\ s.flags = e.flags /\ s.clean
  BY <1>4 DEF ModuleSegment
<1>6. /\ Virtual(r) = Virtual(s) /\ Initialized(r) = Initialized(s)
      /\ Executes(r) <=> Executes(s)
      /\ ModuleSegmentValid(s) => ModuleSegmentValid(r)
      /\ r.virtual_address = s.virtual_address /\ r.memory_size = s.memory_size
      /\ r.file_size = s.file_size /\ r.flags = s.flags /\ r.clean = s.clean
  BY <1>2, <1>3, ModuleOffset
<1> QED BY <1>5, <1>6 DEF r, s, e, elf

\* The sorted modules are valid inputs, in the order of their distinct names.
LEMMA SortedValid ==
  ASSUME InputOK, InputValid
  PROVE  /\ Len(SortedModules) = Len(input.modules)
         /\ \A i \in DOMAIN SortedModules :
              /\ \E k \in DOMAIN input.modules : SortedModules[i] = input.modules[k]
              /\ SortedModules[i].name \in Nat /\ SortedModules[i].name > 0
              /\ \A j \in DOMAIN LSegments[i] : ModuleSegmentValid(LSegments[i][j])
              /\ ModuleValid(LSegments[i], SortedModules[i].elf.entry)
         /\ \A i, j \in DOMAIN SortedModules :
              i < j => SortedModules[i].name < SortedModules[j].name
<1> DEFINE n == Len(input.modules)
           D == DOMAIN SortedModules
<1>1. /\ SortedModules \in Seq(ModuleInputType) /\ Len(SortedModules) = n
  BY SortedModulesFacts
<1>2. PICK p \in [1 .. n -> 1 .. n] :
        /\ \A i, j \in 1 .. n : i # j => p[i] # p[j]
        /\ \A i \in 1 .. n : SortedModules[i] = input.modules[p[i]]
        /\ \A i, j \in 1 .. n : i < j => SortedModules[i].name <= SortedModules[j].name
  BY SortedModulesFacts
<1>3. n \in Nat /\ D = 1 .. n /\ DOMAIN input.modules = 1 .. n
  BY <1>1 DEF InputOK
<1> HIDE DEF n, D
<1>4. \A i \in D : SortedModules[i].name \in Nat
  <2>1. \A i \in D : SortedModules[i] \in ModuleInputType
    BY <1>1 DEF D
  <2> QED BY <2>1 DEF ModuleInputType
<1>5. /\ \A k \in DOMAIN input.modules :
           /\ input.modules[k].name > 0
           /\ \A j \in DOMAIN PackedSegments(input.modules[k].elf) :
                ModuleSegmentValid(PackedSegments(input.modules[k].elf)[j])
           /\ ModuleValid(PackedSegments(input.modules[k].elf), input.modules[k].elf.entry)
  BY DEF InputValid
<1>6. \A i \in D : LSegments[i] = PackedSegments(SortedModules[i].elf)
  BY DEF LSegments, D
<1>7. ASSUME NEW i \in D
      PROVE  /\ \E k \in DOMAIN input.modules : SortedModules[i] = input.modules[k]
             /\ SortedModules[i].name > 0
             /\ \A j \in DOMAIN LSegments[i] : ModuleSegmentValid(LSegments[i][j])
             /\ ModuleValid(LSegments[i], SortedModules[i].elf.entry)
  <2>1. p[i] \in DOMAIN input.modules /\ SortedModules[i] = input.modules[p[i]]
    BY <1>2, <1>3
  <2> QED BY <1>5, <1>6, <2>1
<1>8. ASSUME NEW i \in D, NEW j \in D, i < j
      PROVE  SortedModules[i].name < SortedModules[j].name
  <2>1. SortedModules[i].name <= SortedModules[j].name
    BY <1>2, <1>3, <1>8
  <2>2. p[i] \in 1 .. n /\ p[j] \in 1 .. n /\ p[i] # p[j]
    BY <1>2, <1>3, <1>8
  <2>3. p[i] < p[j] \/ p[j] < p[i]
    BY <1>3, <2>2
  <2>4. \A k, l \in 1 .. n : k < l => input.modules[k].name # input.modules[l].name
    BY <1>3 DEF InputValid, Distinct
  <2>5. input.modules[p[i]].name # input.modules[p[j]].name
    BY <2>2, <2>3, <2>4
  <2>6. SortedModules[i].name # SortedModules[j].name
    BY <1>2, <1>3, <2>5
  <2> QED BY <1>4, <2>1, <2>6
<1> QED BY <1>1, <1>4, <1>7, <1>8 DEF n, D

LEMMA BuiltParses ==
  ASSUME InputOK, InputValid, HeaderValid(BuiltFile.header)
  PROVE  Parses(BuiltFile)
<1> DEFINE b == BuiltFile
           D == DOMAIN SortedModules
<1>1. LinkedInRam(input.kernel)
  BY DEF InputValid, LinkedInRam
<1>2. /\ b.size = LModuleData.end /\ b.header = LHeader
      /\ b.kernel = LKernelRecords /\ b.modules = LModules
      /\ KernelSegments(b) = LKernelRecords /\ ModuleRecords(b) = LModules
      /\ DOMAIN LModules = D
      /\ \A i \in D : SegmentsOf(LModules[i]) = LModuleSegments[i]
  BY <1>1, BuiltFields
<1>3. /\ LHeader.image_size = LModuleData.end /\ LHeader.clean
      /\ LHeader.kernel_entry_vaddr = input.kernel.entry
  BY DEF LHeader
<1>4. b.size >= HeaderSize /\ b.header.clean /\ HeaderValid(b.header)
      /\ b.size = b.header.image_size
  BY <1>2, <1>3 DEF HeaderValid
<1>5. Occupiable(ImageMap(b), b.size)
  BY <1>1, <1>2, BuiltStacked, StackedOccupies
<1> HIDE DEF b, D
<1>6. /\ \A i \in DOMAIN LKernel : KernelSegmentValid(LKernel[i])
      /\ KernelValid(LKernel, input.kernel.entry)
  BY DEF InputValid, LKernel
<1>7. DOMAIN LKernelRecords = DOMAIN LKernel
  BY <1>1, BuiltRecords
<1>8. \A i \in DOMAIN KernelSegments(b) :
        b.kernel[i].clean /\ KernelSegmentValid(b.kernel[i])
  BY <1>1, <1>2, <1>6, <1>7, BuiltKernelSegment
<1>9. KernelValid(LKernelRecords, input.kernel.entry)
  <2>1. \A i \in DOMAIN LKernel :
          /\ Physical(LKernelRecords[i]) = Physical(LKernel[i])
          /\ Virtual(LKernelRecords[i]) = Virtual(LKernel[i])
          /\ Initialized(LKernelRecords[i]) = Initialized(LKernel[i])
          /\ Loaded(LKernelRecords[i]) = Loaded(LKernel[i])
          /\ Executes(LKernelRecords[i]) <=> Executes(LKernel[i])
    BY <1>1, BuiltKernelSegment
  <2> QED BY <1>6, <1>7, <2>1, KernelTransfer
<1>10. KernelValid(KernelSegments(b), b.header.kernel_entry_vaddr)
  BY <1>2, <1>3, <1>9
<1>11. ASSUME NEW i \in DOMAIN ModuleRecords(b)
       PROVE  LET m == b.modules[i]
              IN  /\ m.clean /\ m.name_length > 0
                  /\ \A j \in DOMAIN SegmentsOf(m) :
                       m.segments[j].clean /\ ModuleSegmentValid(m.segments[j])
                  /\ ModuleValid(SegmentsOf(m), m.entry)
  <2> DEFINE m == LModules[i]
             seg == LSegments[i]
             out == LModuleSegments[i]
  <2>0. i \in D /\ b.modules[i] = m
    BY <1>2
  <2>1. /\ m.clean /\ m.name_length = SortedModules[i].name
        /\ m.entry = SortedModules[i].elf.entry /\ m.segments = out
    BY <1>1, <2>0, BuiltModule DEF D
  <2>2. SegmentsOf(m) = out
    BY <1>2, <2>0
  <2>3. /\ SortedModules[i].name > 0
        /\ \A j \in DOMAIN seg : ModuleSegmentValid(seg[j])
        /\ ModuleValid(seg, SortedModules[i].elf.entry)
    BY <2>0, SortedValid DEF D
  <2>4. DOMAIN out = DOMAIN seg
    BY <1>1, <2>0, BuiltRecords DEF D
  <2>5. \A j \in DOMAIN seg :
          /\ Virtual(out[j]) = Virtual(seg[j]) /\ Initialized(out[j]) = Initialized(seg[j])
          /\ Executes(out[j]) <=> Executes(seg[j])
          /\ ModuleSegmentValid(seg[j]) => ModuleSegmentValid(out[j])
          /\ out[j].clean
    BY <1>1, <2>0, BuiltModuleSegment DEF D
  <2> HIDE DEF m, seg, out
  <2>6. ModuleValid(out, SortedModules[i].elf.entry)
    BY <2>3, <2>4, <2>5, ModuleTransfer
  <2> QED BY <2>0, <2>1, <2>2, <2>3, <2>4, <2>5, <2>6
<1>12. Distinct([i \in DOMAIN ModuleRecords(b) |-> b.modules[i].name])
  <2>1. \A i \in D : b.modules[i].name = SortedModules[i].name
    BY <1>1, <1>2, BuiltModule DEF D
  <2>2. \A i, j \in D : i < j => SortedModules[i].name # SortedModules[j].name
    BY SortedValid DEF D
  <2>3. DOMAIN ModuleRecords(b) = D
    BY <1>2
  <2>4. \A i, j \in D : i < j => b.modules[i].name # b.modules[j].name
    BY <2>1, <2>2
  <2> QED BY <2>3, <2>4 DEF Distinct
<1>13. Parses(b)
  BY <1>4, <1>5, <1>8, <1>10, <1>11, <1>12 DEF Parses
<1> QED BY <1>13 DEF b

-----------------------------------------------------------------------------
(* A built file holds its inputs *)

Found(segments) ==
  {[address |-> s.virtual_address, memory_size |-> s.memory_size,
    file_size |-> s.file_size, flags |-> s.flags] :
     s \in {segments[i] : i \in DOMAIN segments}}

Intact(content, owner, segments) ==
  \A i \in DOMAIN segments : \A k \in 0 .. (segments[i].file_size - 1) :
    content[segments[i].data_offset + k] = {Byte(owner, segments[i].virtual_address + k)}

Ascending(segments) ==
  \A i \in DOMAIN segments : \A j \in DOMAIN segments :
    i < j => segments[i].virtual_address < segments[j].virtual_address

Given(elf) ==
  {s \in {elf.segments[i] : i \in DOMAIN elf.segments} : s.memory_size > 0}

\* Records that stand for the load segments of an ELF by address.
Packs(records, elf) ==
  /\ DOMAIN records = 1 .. Cardinality(LoadSegments(elf))
  /\ \A i \in DOMAIN records :
       LET r == records[i]
           e == elf.segments[ByAddress(elf)[i]]
       IN  /\ r.virtual_address = e.address /\ r.memory_size = e.memory_size
           /\ r.file_size = e.file_size /\ r.flags = e.flags

LEMMA PacksFound ==
  ASSUME NEW elf \in ElfType, NEW records, Packs(records, elf)
  PROVE  Found(records) = Given(elf)
<1> DEFINE p == ByAddress(elf)
           n == Cardinality(LoadSegments(elf))
           rec(i) == [address |-> records[i].virtual_address,
                      memory_size |-> records[i].memory_size,
                      file_size |-> records[i].file_size, flags |-> records[i].flags]
<1>1. /\ n \in Nat /\ p \in [1 .. n -> LoadSegments(elf)]
      /\ LoadSegments(elf) \subseteq DOMAIN elf.segments
      /\ \A d \in LoadSegments(elf) : \E i \in 1 .. n : p[i] = d
  BY ByAddressFacts
<1>2. DOMAIN records = 1 .. n
  BY DEF Packs
<1>3. \A d \in LoadSegments(elf) : elf.segments[d].memory_size > 0
  BY DEF LoadSegments
<1>4. \A d \in DOMAIN elf.segments : elf.segments[d].memory_size > 0 => d \in LoadSegments(elf)
  BY DEF LoadSegments
<1>5. ASSUME NEW i \in 1 .. n PROVE rec(i) = elf.segments[p[i]]
  <2> DEFINE e == elf.segments[p[i]]
             r == records[i]
  <2>1. /\ r.virtual_address = e.address /\ r.memory_size = e.memory_size
        /\ r.file_size = e.file_size /\ r.flags = e.flags
    BY <1>2 DEF Packs
  <2>2. e \in ElfSegmentType
    BY <1>1, ElfFacts
  <2> HIDE DEF e, r
  <2>3. [address |-> r.virtual_address, memory_size |-> r.memory_size,
         file_size |-> r.file_size, flags |-> r.flags] = e
    BY <2>1, <2>2 DEF ElfSegmentType
  <2> QED BY <2>3 DEF e, r
<1>6. \A x : x \in Found(records) <=> \E i \in 1 .. n : x = rec(i)
  BY <1>2 DEF Found
<1>7. \A x : x \in Given(elf) <=>
               \E d \in DOMAIN elf.segments : x = elf.segments[d] /\ x.memory_size > 0
  BY DEF Given
<1> HIDE DEF p, n, rec
<1>8. ASSUME NEW x \in Found(records) PROVE x \in Given(elf)
  <2>1. PICK i \in 1 .. n : x = rec(i)
    BY <1>6
  <2>2. p[i] \in LoadSegments(elf) /\ x = elf.segments[p[i]]
    BY <1>1, <1>5, <2>1
  <2> QED BY <1>1, <1>3, <1>7, <2>2
<1>9. ASSUME NEW x \in Given(elf) PROVE x \in Found(records)
  <2>1. PICK d \in DOMAIN elf.segments : x = elf.segments[d] /\ x.memory_size > 0
    BY <1>7
  <2>2. d \in LoadSegments(elf)
    BY <1>4, <2>1
  <2>3. PICK i \in 1 .. n : p[i] = d
    BY <1>1, <2>2
  <2> QED BY <1>5, <1>6, <2>1, <2>3
<1> QED BY <1>8, <1>9

\* Sorted by address, and no two at one address: segments that overlap were refused.
LEMMA PacksAscending ==
  ASSUME NEW elf \in ElfType, NEW records, Packs(records, elf),
         \A i \in DOMAIN records : \A j \in DOMAIN records :
           i < j => ~Overlaps(Virtual(records[i]), Virtual(records[j]))
  PROVE  Ascending(records)
<1> DEFINE p == ByAddress(elf)
           n == Cardinality(LoadSegments(elf))
<1>1. /\ n \in Nat /\ p \in [1 .. n -> LoadSegments(elf)]
      /\ LoadSegments(elf) \subseteq DOMAIN elf.segments
      /\ \A i, j \in 1 .. n :
           i < j => elf.segments[p[i]].address <= elf.segments[p[j]].address
  BY ByAddressFacts
<1>2. DOMAIN records = 1 .. n
  BY DEF Packs
<1>3. ASSUME NEW i \in 1 .. n
      PROVE  /\ records[i].virtual_address = elf.segments[p[i]].address
             /\ records[i].virtual_address \in Nat
             /\ records[i].memory_size \in Nat /\ records[i].memory_size > 0
  <2>1. /\ records[i].virtual_address = elf.segments[p[i]].address
        /\ records[i].memory_size = elf.segments[p[i]].memory_size
    BY <1>2 DEF Packs
  <2>2. p[i] \in LoadSegments(elf) /\ p[i] \in DOMAIN elf.segments
    BY <1>1
  <2>3. elf.segments[p[i]].memory_size > 0
    BY <2>2 DEF LoadSegments
  <2> QED BY <2>1, <2>2, <2>3, ElfFacts
<1> HIDE DEF p, n
<1>4. ASSUME NEW i \in 1 .. n, NEW j \in 1 .. n, i < j
      PROVE  records[i].virtual_address < records[j].virtual_address
  <2>1. records[i].virtual_address <= records[j].virtual_address
    BY <1>1, <1>3, <1>4
  <2>2. ~Overlaps(Virtual(records[i]), Virtual(records[j]))
    BY <1>2, <1>4
  <2>3. /\ records[i].virtual_address \in Nat /\ records[i].memory_size \in Nat
        /\ records[i].memory_size > 0 /\ records[j].memory_size \in Nat
        /\ records[j].memory_size > 0 /\ records[j].virtual_address \in Nat
    BY <1>3
  <2> QED BY <2>1, <2>2, <2>3 DEF Overlaps, Virtual, RangeOf, End
<1> QED BY <1>2, <1>4 DEF Ascending

LEMMA BuiltPacks ==
  ASSUME InputOK, LinkedInRam(input.kernel)
  PROVE  /\ Packs(LKernelRecords, input.kernel)
         /\ \A m \in DOMAIN SortedModules :
              Packs(LModuleSegments[m], SortedModules[m].elf)
<1>1. input.kernel \in ElfType /\ \A m \in DOMAIN SortedModules : SortedModules[m].elf \in ElfType
  BY PackedInput
<1>2. DOMAIN LKernelRecords = 1 .. Cardinality(LoadSegments(input.kernel))
      /\ DOMAIN LKernelRecords = DOMAIN LKernel
  BY <1>1, BuiltRecords, PackedKernelFacts DEF LKernel
<1>3. Packs(LKernelRecords, input.kernel)
  BY <1>2, BuiltKernelSegment DEF Packs
<1>4. ASSUME NEW m \in DOMAIN SortedModules
      PROVE  Packs(LModuleSegments[m], SortedModules[m].elf)
  <2>1. DOMAIN LModuleSegments[m] = DOMAIN LSegments[m]
    BY BuiltRecords
  <2>2. LSegments[m] = PackedSegments(SortedModules[m].elf)
    BY PackedInput
  <2>3. DOMAIN LSegments[m] = 1 .. Cardinality(LoadSegments(SortedModules[m].elf))
    BY <1>1, <2>2, PackedSegmentsFacts
  <2> QED BY <2>1, <2>3, BuiltModuleSegment DEF Packs
<1> QED BY <1>3, <1>4

\* The i-th segment that build_image stores for an owner: 0 the kernel, w the w-th module.
Item(w, i) ==
  IF w = 0 THEN <<0, LKernelRecords[i]>>
  ELSE <<SortedModules[w].name, LModuleSegments[w][i]>>

ItemSpan(w, i) ==
  Span(w, "data", i, Item(w, i)[2].data_offset, Item(w, i)[2].file_size)

IsItem(w, i) ==
  \/ w = 0 /\ i \in DOMAIN LKernelRecords
  \/ w \in DOMAIN SortedModules /\ i \in DOMAIN LModuleSegments[w]

LEMMA StoredItems ==
  ASSUME InputOK, LinkedInRam(input.kernel)
  PROVE  \A q : q \in LStored <=> \E w, i : IsItem(w, i) /\ q = Item(w, i)
<1>1. /\ DOMAIN LKernelRecords = DOMAIN LKernel
      /\ \A m \in DOMAIN SortedModules : DOMAIN LModuleSegments[m] = DOMAIN LSegments[m]
  BY BuiltRecords
<1>2. \A w \in DOMAIN SortedModules : w # 0
  <2>1. SortedModules \in Seq(ModuleInputType)
    BY PackedInput
  <2> QED BY <2>1
<1>3. \A q : q \in LStored <=>
        \/ \E i \in DOMAIN LKernelRecords : q = <<0, LKernelRecords[i]>>
        \/ \E w \in DOMAIN SortedModules : \E i \in DOMAIN LModuleSegments[w] :
             q = <<SortedModules[w].name, LModuleSegments[w][i]>>
  BY <1>1 DEF LStored
<1> QED BY <1>2, <1>3 DEF IsItem, Item

LEMMA ItemType ==
  ASSUME InputOK, LinkedInRam(input.kernel), NEW w, NEW i, IsItem(w, i)
  PROVE  LET s == Item(w, i)[2]
         IN  /\ s.data_offset \in Nat /\ s.file_size \in Nat /\ s.virtual_address \in Nat
<1>1. CASE w = 0
  <2>0. \A m \in DOMAIN SortedModules : m # 0
    <3>1. SortedModules \in Seq(ModuleInputType)
      BY PackedInput
    <3> QED BY <3>1
  <2>1. LKernelRecords \in Seq(KernelSegmentType)
    BY BuiltRecords
  <2>2. i \in DOMAIN LKernelRecords
    BY <1>1, <2>0 DEF IsItem
  <2>3. LKernelRecords[i] \in KernelSegmentType
    BY <2>1, <2>2
  <2>4. Item(w, i)[2] = LKernelRecords[i]
    BY <1>1 DEF Item
  <2> QED BY <2>3, <2>4 DEF KernelSegmentType
<1>2. CASE w # 0
  <2>1. w \in DOMAIN SortedModules /\ i \in DOMAIN LModuleSegments[w]
    BY <1>2 DEF IsItem
  <2>2. LModuleSegments[w] \in Seq(ModuleSegmentType)
    BY <2>1, BuiltRecords
  <2>3. LModuleSegments[w][i] \in ModuleSegmentType
    BY <2>1, <2>2
  <2>4. Item(w, i)[2] = LModuleSegments[w][i]
    BY <1>2 DEF Item
  <2> QED BY <2>3, <2>4 DEF ModuleSegmentType
<1> QED BY <1>1, <1>2

LEMMA ItemInMap ==
  ASSUME InputOK, LinkedInRam(input.kernel), NEW w, NEW i, IsItem(w, i),
         Item(w, i)[2].file_size # 0
  PROVE  ItemSpan(w, i) \in ImageMap(BuiltFile)
<1> DEFINE D == DOMAIN SortedModules
<1>1. /\ BuiltFile.modules = LModules /\ KernelSegments(BuiltFile) = LKernelRecords
      /\ ModuleRecords(BuiltFile) = LModules /\ DOMAIN LModules = D
      /\ \A m \in D : SegmentsOf(LModules[m]) = LModuleSegments[m]
  BY BuiltFields
<1>2. \A m \in D : m # 0
  <2>1. SortedModules \in Seq(ModuleInputType)
    BY PackedInput
  <2> QED BY <2>1
<1>3. CASE w = 0
  <2>1. i \in DOMAIN LKernelRecords
    BY <1>2, <1>3 DEF IsItem
  <2>2. Item(w, i)[2] = LKernelRecords[i]
    BY <1>3 DEF Item
  <2>3. ItemSpan(w, i) \in Payloads(0, LKernelRecords)
    BY <1>3, <2>1, <2>2 DEF ItemSpan, Payloads
  <2> QED BY <1>1, <2>3 DEF ImageMap
<1>4. CASE w # 0
  <2>1. w \in D /\ i \in DOMAIN LModuleSegments[w]
    BY <1>4 DEF IsItem
  <2>2. Item(w, i)[2] = LModuleSegments[w][i]
    BY <1>4 DEF Item
  <2>3. ItemSpan(w, i) \in Payloads(w, LModuleSegments[w])
    BY <2>1, <2>2 DEF ItemSpan, Payloads
  <2>4. ItemSpan(w, i) \in ModuleSpans(w, LModules[w])
    BY <1>1, <2>1, <2>3 DEF ModuleSpans
  <2> QED BY <1>1, <2>1, <2>4 DEF ImageMap
<1> QED BY <1>3, <1>4

\* Every payload byte is stored once.
LEMMA ContentExact ==
  ASSUME InputOK, LinkedInRam(input.kernel), NEW w, NEW i, IsItem(w, i),
         NEW k \in 0 .. (Item(w, i)[2].file_size - 1)
  PROVE  LContent[Item(w, i)[2].data_offset + k]
           = {Byte(Item(w, i)[1], Item(w, i)[2].virtual_address + k)}
<1> DEFINE q == Item(w, i)
           o == q[2].data_offset + k
           over == {x \in LStored : In(o, Payload(x[2]))}
           byte(x) == Byte(x[1], x[2].virtual_address + (o - x[2].data_offset))
<1>1. /\ q[2].data_offset \in Nat /\ q[2].file_size \in Nat
      /\ q[2].virtual_address \in Nat
  BY ItemType
<1>2. k \in Nat /\ k < q[2].file_size /\ q[2].file_size # 0 /\ o \in Nat
  BY <1>1
<1>3. Stacked(ImageMap(BuiltFile), 0, LModuleData.end)
  BY BuiltStacked
<1>4. ASSUME NEW v, NEW j, IsItem(v, j), In(o, Payload(Item(v, j)[2]))
      PROVE  /\ ItemSpan(v, j) \in ImageMap(BuiltFile)
             /\ ItemSpan(v, j).start <= o /\ o < End(ItemSpan(v, j))
             /\ ItemSpan(v, j).start \in Nat /\ End(ItemSpan(v, j)) \in Nat
             /\ ItemSpan(v, j).owner = v /\ ItemSpan(v, j).index = j
  <2> DEFINE s == Item(v, j)[2]
  <2>1. s.data_offset \in Nat /\ s.file_size \in Nat
    BY <1>4, ItemType
  <2>2. s.data_offset <= o /\ o < s.data_offset + s.file_size
    BY <1>4 DEF In, Payload, RangeOf, End
  <2>3. s.file_size # 0
    <3> HIDE DEF s, o
    <3> QED BY <1>2, <2>1, <2>2
  <2>4. ItemSpan(v, j) \in ImageMap(BuiltFile)
    BY <1>4, <2>3, ItemInMap
  <2>5. ItemSpan(v, j) = Span(v, "data", j, s.data_offset, s.file_size)
    BY DEF ItemSpan
  <2> HIDE DEF s, o
  <2>6. LET a == Span(v, "data", j, s.data_offset, s.file_size)
        IN  /\ a.start = s.data_offset /\ End(a) = s.data_offset + s.file_size
            /\ a.owner = v /\ a.index = j
    BY <2>1, SpanFacts
  <2> QED BY <2>1, <2>2, <2>4, <2>5, <2>6
<1>5. In(o, Payload(q[2]))
  <2> HIDE DEF q
  <2> QED BY <1>1, <1>2 DEF In, Payload, RangeOf, End
<1>6. q \in over
  BY <1>5, StoredItems
<1>7. ASSUME NEW x \in over PROVE x = q
  <2>1. PICK v, j : IsItem(v, j) /\ x = Item(v, j)
    BY StoredItems
  <2>2. In(o, Payload(Item(v, j)[2]))
    BY <2>1
  <2> DEFINE a == ItemSpan(v, j)
             b == ItemSpan(w, i)
  <2>3. /\ a \in ImageMap(BuiltFile) /\ a.start <= o /\ o < End(a)
        /\ a.start \in Nat /\ End(a) \in Nat /\ a.owner = v /\ a.index = j
    BY <1>4, <2>1, <2>2
  <2>4. /\ b \in ImageMap(BuiltFile) /\ b.start <= o /\ o < End(b)
        /\ b.start \in Nat /\ End(b) \in Nat /\ b.owner = w /\ b.index = i
    BY <1>4, <1>5
  <2> HIDE DEF a, b, o
  <2>5. a = b
    <3>1. a # b => End(a) <= b.start \/ End(b) <= a.start
      BY <1>3, <2>3, <2>4 DEF Stacked
    <3> QED BY <1>2, <2>3, <2>4, <3>1
  <2>6. v = w /\ j = i
    BY <2>3, <2>4, <2>5
  <2> QED BY <2>1, <2>6
<1>8. o \in 0 .. (LModuleData.end - 1)
  <2> DEFINE b == ItemSpan(w, i)
  <2>1. b \in ImageMap(BuiltFile) /\ o < End(b) /\ End(b) \in Nat
    BY <1>4, <1>5
  <2>2. End(b) <= LModuleData.end /\ LModuleData.end \in Nat
    BY <1>3, <2>1 DEF Stacked
  <2> HIDE DEF b, o
  <2> QED BY <1>2, <2>1, <2>2
<1>9. LContent[o] = {byte(x) : x \in over}
  <2> HIDE DEF o
  <2> QED BY <1>8 DEF LContent, o
<1>10. byte(q) = Byte(q[1], q[2].virtual_address + k)
  <2>1. o - q[2].data_offset = k
    BY <1>1, <1>2
  <2> HIDE DEF q, o
  <2> QED BY <2>1
<1> HIDE DEF over, byte
<1>11. {byte(x) : x \in over} = {byte(q)}
  BY <1>6, <1>7
<1> QED BY <1>9, <1>10, <1>11 DEF q, o

LEMMA BuiltFaithful ==
  ASSUME InputOK, InputValid, HeaderValid(BuiltFile.header), file = BuiltFile
  PROVE  BuildFaithful
<1> DEFINE D == DOMAIN SortedModules
<1>1. LinkedInRam(input.kernel)
  BY DEF InputValid, LinkedInRam
<1>2. /\ file.kernel = LKernelRecords /\ file.modules = LModules /\ file.content = LContent
      /\ KernelSegments(file) = LKernelRecords /\ DOMAIN LModules = D
      /\ ModuleRecords(file) = LModules
      /\ \A m \in D : SegmentsOf(LModules[m]) = LModuleSegments[m]
  BY <1>1, BuiltFields
<1>3. Parses(file)
  BY BuiltParses
<1>4. /\ input.kernel \in ElfType /\ SortedModules \in Seq(ModuleInputType)
      /\ \A m \in D : SortedModules[m].elf \in ElfType
  BY <1>1, PackedInput
<1>5. D = 1 .. Len(SortedModules) /\ Len(SortedModules) \in Nat /\ \A m \in D : m # 0
  BY <1>4
<1>6. /\ \A m \in D :
           /\ LModules[m].name = SortedModules[m].name
           /\ LModules[m].segments = LModuleSegments[m]
           /\ LModules[m].entry = SortedModules[m].elf.entry
  BY <1>1, BuiltModule
<1> HIDE DEF D
<1>7. Found(file.kernel) = Given(input.kernel)
  BY <1>1, <1>2, <1>4, BuiltPacks, PacksFound
<1>8. Intact(file.content, 0, file.kernel)
  <2> SUFFICES ASSUME NEW i \in DOMAIN LKernelRecords,
                      NEW k \in 0 .. (LKernelRecords[i].file_size - 1)
               PROVE  LContent[LKernelRecords[i].data_offset + k]
                        = {Byte(0, LKernelRecords[i].virtual_address + k)}
    BY <1>2 DEF Intact
  <2>1. IsItem(0, i) /\ Item(0, i)[1] = 0 /\ Item(0, i)[2] = LKernelRecords[i]
    BY DEF IsItem, Item
  <2> QED BY <1>1, <2>1, ContentExact
<1>9. Ascending(file.kernel)
  <2>1. KernelValid(LKernelRecords, file.header.kernel_entry_vaddr)
    BY <1>2, <1>3 DEF Parses
  <2>2. \A i \in DOMAIN LKernelRecords : \A j \in DOMAIN LKernelRecords :
          i < j => ~Overlaps(Virtual(LKernelRecords[i]), Virtual(LKernelRecords[j]))
    BY <2>1 DEF KernelValid
  <2> QED BY <1>1, <1>2, <1>4, <2>2, BuiltPacks, PacksAscending
<1>10. Len(file.modules) = Len(input.modules)
  <2>1. LModules \in Seq(ModuleType)
    BY <1>1, <1>2, BuiltFileOK DEF FileOK
  <2>2. Len(LModules) = Len(SortedModules)
    BY <1>2, <1>5, <2>1
  <2> QED BY <1>2, <2>2, SortedValid
<1>11. ASSUME NEW i \in DOMAIN file.modules
       PROVE  LET m == file.modules[i]
              IN  /\ i > 1 => file.modules[i - 1].name < m.name
                  /\ \E k \in DOMAIN input.modules :
                       /\ input.modules[k].name = m.name
                       /\ Found(m.segments) = Given(input.modules[k].elf)
                  /\ Intact(file.content, m.name, m.segments) /\ Ascending(m.segments)
  <2> DEFINE m == file.modules[i]
             s == LModuleSegments[i]
             elf == SortedModules[i].elf
  <2>1. i \in D /\ m = LModules[i]
    BY <1>2
  <2>2. m.name = SortedModules[i].name /\ m.segments = s
    BY <1>6, <2>1
  <2>3. i > 1 => file.modules[i - 1].name < m.name
    <3> SUFFICES ASSUME i > 1 PROVE file.modules[i - 1].name < m.name
      OBVIOUS
    <3>1. i - 1 \in D /\ i - 1 < i
      BY <1>5, <2>1
    <3>2. SortedModules[i - 1].name < SortedModules[i].name
      BY <2>1, <3>1, SortedValid DEF D
    <3> QED BY <1>2, <1>6, <2>2, <3>1, <3>2
  <2>4. elf \in ElfType /\ Packs(s, elf)
    BY <1>1, <1>4, <2>1, BuiltPacks DEF D
  <2>5. Found(s) = Given(elf)
    <3> HIDE DEF elf, s
    <3> QED BY <2>4, PacksFound
  <2>6. PICK k \in DOMAIN input.modules : SortedModules[i] = input.modules[k]
    BY <2>1, SortedValid DEF D
  <2>7. input.modules[k].name = m.name /\ Found(m.segments) = Given(input.modules[k].elf)
    BY <2>2, <2>5, <2>6
  <2>8. Intact(file.content, m.name, m.segments)
    <3> SUFFICES ASSUME NEW j \in DOMAIN s, NEW b \in 0 .. (s[j].file_size - 1)
                 PROVE  LContent[s[j].data_offset + b]
                          = {Byte(SortedModules[i].name, s[j].virtual_address + b)}
      BY <1>2, <2>2 DEF Intact
    <3>1. /\ IsItem(i, j) /\ Item(i, j)[1] = SortedModules[i].name
          /\ Item(i, j)[2] = s[j]
      BY <1>5, <2>1 DEF IsItem, Item, D
    <3> QED BY <1>1, <3>1, ContentExact
  <2>9. Ascending(m.segments)
    <3>1. ModuleValid(SegmentsOf(file.modules[i]), file.modules[i].entry)
      BY <1>2, <1>3, <2>1 DEF Parses
    <3>2. SegmentsOf(file.modules[i]) = s
      BY <1>2, <2>1
    <3>3. \A j \in DOMAIN s : \A l \in DOMAIN s :
            j < l => ~Overlaps(Virtual(s[j]), Virtual(s[l]))
      BY <3>1, <3>2 DEF ModuleValid
    <3>4. Ascending(s)
      <4> HIDE DEF elf, s
      <4> QED BY <2>4, <3>3, PacksAscending
    <3> QED BY <2>2, <3>4
  <2> QED BY <2>3, <2>7, <2>8, <2>9
<1> QED BY <1>3, <1>7, <1>8, <1>9, <1>10, <1>11
        DEF BuildFaithful, Found, Intact, Ascending, Given

\* Until a field is altered the file is the packer's.
BuildInv ==
  /\ altered \in Nat
  /\ phase = "File" /\ altered = 0 =>
       file = BuiltFile /\ InputValid /\ HeaderValid(BuiltFile.header)

LEMMA BuildStep ==
  ASSUME BuildInv, [Next]_vars
  PROVE  BuildInv'
<1>1. CASE AddModule
  BY <1>1 DEF AddModule, BuildInv
<1>2. CASE Build
  <2>1. input' = input /\ altered' = altered
    BY <1>2 DEF Build
  <2>2. BuiltFile' = BuiltFile /\ (InputValid' <=> InputValid)
    BY <2>1 DEF BuiltFile, InputValid, SortedModules
  <2>3. phase' = "File" => file' = BuiltFile /\ InputValid /\ HeaderValid(BuiltFile.header)
    BY <1>2 DEF Build
  <2> QED BY <2>1, <2>2, <2>3 DEF BuildInv
<1>3. CASE AlterHeader \/ AlterKernel \/ AlterModule
  <2>1. altered' = altered + 1
    BY <1>3 DEF AlterHeader, AlterKernel, AlterModule, Altered
  <2> QED BY <2>1 DEF BuildInv
<1>4. CASE Parse \/ BootPlan \/ ApplyCopy \/ WriteBootInfo
  <2>1. altered' = altered /\ phase' # "File"
    BY <1>4 DEF Parse, BootPlan, ApplyCopy, WriteBootInfo
  <2> QED BY <2>1 DEF BuildInv
<1>5. CASE UNCHANGED vars
  <2>1. input' = input /\ altered' = altered /\ phase' = phase /\ file' = file
    BY <1>5 DEF vars
  <2>2. BuiltFile' = BuiltFile /\ (InputValid' <=> InputValid)
    BY <2>1 DEF BuiltFile, InputValid, SortedModules
  <2> QED BY <2>1, <2>2 DEF BuildInv
<1> QED BY <1>1, <1>2, <1>3, <1>4, <1>5 DEF Next

\* ImageBuilder::build writes an image that parse accepts and that holds every input
\* segment, each byte once and in order, for every platform and every valid input.
THEOREM BuildIsFaithful == Spec => []BuildFaithful
<1>1. Init => ImageInv /\ BuildInv
  <2>1. Init => BuildInv
    BY DEF Init, BuildInv
  <2> QED BY <2>1, ImageInit
<1>2. ImageInv /\ BuildInv /\ [Next]_vars => ImageInv' /\ BuildInv'
  BY ImageStep, BuildStep
<1>3. ImageInv /\ BuildInv => BuildFaithful
  <2> SUFFICES ASSUME ImageInv, BuildInv PROVE BuildFaithful
    OBVIOUS
  <2>1. CASE phase = "File" /\ altered = 0
    BY <2>1, ImageInvInput, BuiltFaithful DEF BuildInv
  <2>2. CASE ~(phase = "File" /\ altered = 0)
    BY <2>2 DEF BuildFaithful
  <2> QED BY <2>1, <2>2
<1> QED BY <1>1, <1>2, <1>3, PTL DEF Spec

=============================================================================
