-------------------------------- MODULE Image --------------------------------
(***************************************************************************)
(* System-ROM images: the packer (minemu-image ImageBuilder), the parser    *)
(* that the runner and the UI load a file with (SystemImage::parse), and    *)
(* the boot plan, the reference of what the boot ROM does with an image.   *)
(*                                                                         *)
(* A file is what its bytes decode to: its length, the header, the records *)
(* of its tables, and the payload bytes. Tables are occupied before they   *)
(* are decoded, so that records that share bytes are never both read. The  *)
(* fixed sizes and addresses of the platform are parameters. A field that  *)
(* must hold a fixed value (magic, version, reserved, UTF-8) is the flag    *)
(* `clean` of its record.                                                  *)
(***************************************************************************)
EXTENDS Integers, Sequences, FiniteSets

CONSTANTS
  HeaderSize, RecordSize,   \* bytes of the header and of every table record
  Word,                     \* size and alignment of an instruction
  RomSize, AddressLimit,    \* bytes of the system ROM, addresses
  RamBase, RamSize,
  DirectOffset,             \* virtual minus physical address of RAM
  StackBase, StackSize,     \* the boot ROM's stack, below the boot info
  InfoBase, InfoSize,
  Bootstrap,                \* physical entry
  Kernels,                  \* kernel ELFs
  Modules,                  \* module inputs: [name, elf]
  MaxModules,               \* bound: modules of an image
  Offsets, Lengths, Addresses, \* values that altered fields take
  MaxAltered                \* bound: fields altered in a file

\* What the packer reads of an ELF file (external: object): the flag `arm` is what
\* makes it an ARM executable without relocations.
ElfType ==
  [ arm : BOOLEAN, entry : Nat,
    segments : Seq([address : Nat, file_size : Nat, memory_size : Nat,
                    flags : SUBSET Nat]) ]

ASSUME ImageAssumption ==
  /\ {HeaderSize, RecordSize, Word, RomSize, RamSize, StackSize, InfoSize}
       \subseteq Nat \ {0}
  /\ {AddressLimit, RamBase, DirectOffset, StackBase, InfoBase, Bootstrap,
      MaxModules, MaxAltered} \subseteq Nat
  /\ HeaderSize % Word = 0 /\ RecordSize % Word = 0
  /\ RamBase + RamSize <= AddressLimit
  /\ RamBase + RamSize <= RamBase + DirectOffset
  /\ RamBase + DirectOffset + RamSize <= AddressLimit
  /\ InfoBase = StackBase + StackSize
  /\ StackBase >= RamBase /\ InfoBase + InfoSize <= RamBase + RamSize
  /\ Kernels \subseteq ElfType /\ Modules \subseteq [name : Nat, elf : ElfType]
  /\ Offsets \cup Lengths \cup Addresses \subseteq Nat

VARIABLES
  input,    \* [kernel, modules] given to the builder
  file,     \* the image file, or NoFile
  phase,    \* "Adding", "File", "Rejected", "Accepted", "Booting", ...
  altered,  \* fields changed since the file was built
  ram,      \* contents of RAM
  booted    \* boot copies applied

vars == <<input, file, phase, altered, ram, booted>>

-----------------------------------------------------------------------------
(* Ranges: [start, length], half open *)

RangeOf(start, length) == [start |-> start, length |-> length]
End(range) == range.start + range.length

\* Mutant: ranges that touch overlap.
OverlapsTouching(a, b) == a.start <= End(b) /\ b.start <= End(a)

Overlaps(a, b) == a.start < End(b) /\ b.start < End(a)

Representable(range) == End(range) <= AddressLimit

Ram == RangeOf(RamBase, RamSize)
DirectMap == RangeOf(RamBase + DirectOffset, RamSize)

\* Mutant: the boot info is not part of the workspace.
WorkspaceStack == RangeOf(StackBase, StackSize)

Workspace == RangeOf(StackBase, StackSize + InfoSize)

\* A range, not empty, inside another.
Inside(inner, outer) ==
  /\ inner.length > 0 /\ Representable(inner)
  /\ inner.start >= outer.start /\ End(inner) <= End(outer)

In(address, range) == address >= range.start /\ address < End(range)

\* A complete instruction inside a range.
HoldsInstruction(range, address) ==
  Representable(range) /\ range.start <= address /\ address + Word <= End(range)

Virtual(s) == RangeOf(s.virtual_address, s.memory_size)
Physical(s) == RangeOf(s.physical_address, s.memory_size)
Initialized(s) == RangeOf(s.virtual_address, s.file_size)
Loaded(s) == RangeOf(s.physical_address, s.file_size)
Payload(s) == RangeOf(s.data_offset, s.file_size)

Executable == 2
Executes(s) == Executable \in s.flags
FlagsKnown(s) == s.flags \subseteq {0, 1, 2}

-----------------------------------------------------------------------------
(* Records *)

\* KernelSegment::validate
KernelSegmentValid(s) ==
  /\ s.file_size <= s.memory_size
  /\ FlagsKnown(s)
  /\ Inside(Physical(s), Ram)
  /\ \/ s.virtual_address = s.physical_address
     \/ /\ In(s.virtual_address, DirectMap)
        /\ s.virtual_address - DirectOffset = s.physical_address

\* ModuleSegment::validate
ModuleSegmentValid(s) ==
  s.memory_size > 0 /\ s.file_size <= s.memory_size /\ FlagsKnown(s)

\* validate_table
TableFits(offset, count, size) == offset + count * RecordSize <= size

\* ImageHeader::validate
HeaderValid(h) ==
  /\ h.image_size >= HeaderSize /\ h.image_size <= RomSize
  /\ h.bootstrap_entry_paddr = Bootstrap
  /\ h.boot_info_paddr = InfoBase
  /\ In(h.kernel_entry_vaddr, DirectMap)
  /\ TableFits(h.kernel_segment_table_offset, h.kernel_segment_count, h.image_size)
  /\ TableFits(h.module_table_offset, h.module_count, h.image_size)

Distinct(s) == \A i, j \in DOMAIN s : i < j => s[i] # s[j]

\* validate_kernel_records
KernelValid(segments, entry) ==
  /\ entry % Word = 0
  /\ \E i \in DOMAIN segments :
       Executes(segments[i]) /\ HoldsInstruction(Initialized(segments[i]), entry)
  /\ \E i \in DOMAIN segments :
       Executes(segments[i]) /\ HoldsInstruction(Loaded(segments[i]), Bootstrap)
  /\ \A i \in DOMAIN segments :
       /\ Representable(Physical(segments[i])) /\ Representable(Virtual(segments[i]))
       /\ ~Overlaps(Physical(segments[i]), Workspace)
       /\ \A j \in DOMAIN segments :
            i < j => /\ ~Overlaps(Physical(segments[i]), Physical(segments[j]))
                     /\ ~Overlaps(Virtual(segments[i]), Virtual(segments[j]))

\* validate_module_records
ModuleValid(segments, entry) ==
  /\ entry % Word = 0
  /\ \E i \in DOMAIN segments :
       Executes(segments[i]) /\ HoldsInstruction(Initialized(segments[i]), entry)
  /\ \A i \in DOMAIN segments :
       /\ Representable(Virtual(segments[i]))
       /\ ~Overlaps(Virtual(segments[i]), DirectMap)
       /\ \A j \in DOMAIN segments :
            i < j => ~Overlaps(Virtual(segments[i]), Virtual(segments[j]))

-----------------------------------------------------------------------------
(* The parser *)

\* The records the header and the module records say there are.
KernelSegments(f) == SubSeq(f.kernel, 1, f.header.kernel_segment_count)
ModuleRecords(f) == SubSeq(f.modules, 1, f.header.module_count)
SegmentsOf(m) == SubSeq(m.segments, 1, m.segment_count)

\* What a span of the file holds, and whose it is: 0 the kernel's, i the i-th module's.
Span(owner, part, index, start, length) ==
  [owner |-> owner, part |-> part, index |-> index, start |-> start, length |-> length]

Payloads(owner, segments) ==
  {Span(owner, "data", i, segments[i].data_offset, segments[i].file_size) :
     i \in {j \in DOMAIN segments : segments[j].file_size # 0}}

\* What a module record adds to the image map.
ModuleSpans(i, m) ==
  {Span(i, "name", 0, m.name_offset, m.name_length),
   Span(i, "segments", 0, m.segment_table_offset, m.segment_count * RecordSize)}
    \cup Payloads(i, SegmentsOf(m))

\* The image map, once every span is occupied.
ImageMap(f) ==
  {Span(0, "header", 0, 0, HeaderSize),
   Span(0, "segments", 0, f.header.kernel_segment_table_offset,
        f.header.kernel_segment_count * RecordSize),
   Span(0, "modules", 0, f.header.module_table_offset,
        f.header.module_count * RecordSize)}
    \cup Payloads(0, KernelSegments(f))
    \cup UNION {ModuleSpans(i, f.modules[i]) : i \in DOMAIN ModuleRecords(f)}

\* ImageMap::occupy, for every span; the header's fits as it was decoded.
Occupiable(spans, size) ==
  /\ \A a \in spans : End(a) <= size
  /\ \A a, b \in spans : a # b => ~Overlaps(a, b)

\* SystemImage::parse
Parses(f) ==
  /\ f.size >= HeaderSize /\ f.header.clean /\ HeaderValid(f.header)
  /\ f.size = f.header.image_size
  /\ Occupiable(ImageMap(f), f.size)
  /\ \A i \in DOMAIN KernelSegments(f) :
       f.kernel[i].clean /\ KernelSegmentValid(f.kernel[i])
  /\ KernelValid(KernelSegments(f), f.header.kernel_entry_vaddr)
  /\ \A i \in DOMAIN ModuleRecords(f) :
       LET m == f.modules[i]
       IN  /\ m.clean /\ m.name_length > 0
           /\ \A j \in DOMAIN SegmentsOf(m) :
                m.segments[j].clean /\ ModuleSegmentValid(m.segments[j])
           /\ ModuleValid(SegmentsOf(m), m.entry)
  /\ Distinct([i \in DOMAIN ModuleRecords(f) |-> f.modules[i].name])

-----------------------------------------------------------------------------
(* The packer *)

\* parse_elf keeps the load segments that are not empty.
LoadSegments(elf) == {i \in DOMAIN elf.segments : elf.segments[i].memory_size > 0}

ElfValid(elf) ==
  /\ elf.arm
  /\ LoadSegments(elf) # {}
  /\ \A i \in LoadSegments(elf) :
       LET s == elf.segments[i]
       IN  s.address + s.memory_size <= AddressLimit /\ s.file_size <= s.memory_size

\* The record of a kernel segment: linked in RAM, or in its direct map.
KernelRecord(s) ==
  [ data_offset |-> 0, virtual_address |-> s.address,
    physical_address |-> IF In(s.address, Ram) THEN s.address
                                               ELSE s.address - DirectOffset,
    file_size |-> s.file_size, memory_size |-> s.memory_size, flags |-> s.flags,
    clean |-> TRUE ]

ModuleSegment(s) ==
  [ data_offset |-> 0, virtual_address |-> s.address, file_size |-> s.file_size,
    memory_size |-> s.memory_size, flags |-> s.flags, clean |-> TRUE ]

\* The indices of a set by key and then by position: Rust's sort is stable.
SortedBy(indices, key) ==
  CHOOSE p \in [1 .. Cardinality(indices) -> indices] :
    \A i, j \in DOMAIN p :
      i < j => \/ key[p[i]] < key[p[j]]
               \/ key[p[i]] = key[p[j]] /\ p[i] < p[j]

ByAddress(elf) ==
  SortedBy(LoadSegments(elf), [i \in DOMAIN elf.segments |-> elf.segments[i].address])

PackedKernel(elf) ==
  [i \in DOMAIN ByAddress(elf) |-> KernelRecord(elf.segments[ByAddress(elf)[i]])]

PackedSegments(elf) ==
  [i \in DOMAIN ByAddress(elf) |-> ModuleSegment(elf.segments[ByAddress(elf)[i]])]

SortedModules ==
  LET order == SortedBy(DOMAIN input.modules,
                        [i \in DOMAIN input.modules |-> input.modules[i].name])
  IN  [i \in DOMAIN order |-> input.modules[order[i]]]

\* What ImageBuilder::build checks before it lays the image out. A name is a
\* number, and its length is that number of bytes.
InputValid ==
  /\ ElfValid(input.kernel)
  /\ \A i \in LoadSegments(input.kernel) :
       LET address == input.kernel.segments[i].address
       IN  In(address, Ram) \/ In(address, DirectMap)
  /\ LET records == PackedKernel(input.kernel)
     IN  /\ \A i \in DOMAIN records : KernelSegmentValid(records[i])
         /\ KernelValid(records, input.kernel.entry)
  /\ \A i \in DOMAIN input.modules :
       LET m == input.modules[i]
       IN  /\ m.name > 0 /\ ElfValid(m.elf)
           /\ LET records == PackedSegments(m.elf)
              IN  /\ \A j \in DOMAIN records : ModuleSegmentValid(records[j])
                  /\ ModuleValid(records, m.elf.entry)
  /\ Distinct([i \in DOMAIN input.modules |-> input.modules[i].name])

\* Mutant: rounds down.
AlignedDown(n) == (n \div Word) * Word

\* align4
Aligned(n) == ((n + Word - 1) \div Word) * Word

\* Pieces of the given sizes one after another from `start`, each of them aligned
\* if `aligned`: where each begins, and where the last one ends.
Placed(start, sizes, aligned) ==
  LET place(end) == IF aligned THEN Aligned(end) ELSE end
      end[i \in 0 .. Len(sizes)] ==
        IF i = 0 THEN start ELSE place(end[i - 1]) + sizes[i]
  IN  [at |-> [i \in DOMAIN sizes |-> place(end[i - 1])], end |-> end[Len(sizes)]]

\* A payload that is not stored keeps offset 0.
WithOffsets(records, at) ==
  [i \in DOMAIN records |->
     [records[i] EXCEPT !.data_offset = IF records[i].file_size = 0 THEN 0 ELSE at[i]]]

Sizes(records) == [i \in DOMAIN records |-> records[i].file_size]

\* A payload byte: whose it is, the address it is linked at.
Byte(owner, address) == <<owner, address>>

\* build_image: header, kernel table, module table, segment tables, names, payloads.
BuiltFile ==
  LET kernel == PackedKernel(input.kernel)
      modules == SortedModules
      segments == [i \in DOMAIN modules |-> PackedSegments(modules[i].elf)]
      moduleTable == HeaderSize + Len(kernel) * RecordSize
      tables == Placed(moduleTable + Len(modules) * RecordSize,
                       [i \in DOMAIN modules |-> Len(segments[i]) * RecordSize], TRUE)
      names == Placed(Aligned(tables.end), [i \in DOMAIN modules |-> modules[i].name],
                      FALSE)
      kernelData == Placed(Aligned(names.end), Sizes(kernel), FALSE)
      moduleData == Placed(kernelData.end,
                           [i \in DOMAIN modules |->
                              Placed(0, Sizes(segments[i]), FALSE).end],
                           FALSE)
      dataOf(i) == Placed(moduleData.at[i], Sizes(segments[i]), FALSE).at
      kernelRecords == WithOffsets(kernel, kernelData.at)
      moduleSegments == [i \in DOMAIN modules |-> WithOffsets(segments[i], dataOf(i))]
      \* what is copied to the image; copies that collide show as two bytes at one offset
      stored == {<<0, s>> : s \in {kernelRecords[i] : i \in DOMAIN kernel}}
                  \cup UNION {{<<modules[i].name, moduleSegments[i][j]>> :
                                 j \in DOMAIN segments[i]} : i \in DOMAIN modules}
  IN  [ size |-> moduleData.end,
        header |-> [ image_size |-> moduleData.end,
                     kernel_segment_table_offset |-> HeaderSize,
                     kernel_segment_count |-> Len(kernel),
                     module_table_offset |-> moduleTable,
                     module_count |-> Len(modules),
                     bootstrap_entry_paddr |-> Bootstrap,
                     kernel_entry_vaddr |-> input.kernel.entry,
                     boot_info_paddr |-> InfoBase, clean |-> TRUE ],
        kernel |-> kernelRecords,
        modules |-> [i \in DOMAIN modules |->
                       [ name |-> modules[i].name, name_offset |-> names.at[i],
                         name_length |-> modules[i].name,
                         segment_table_offset |-> tables.at[i],
                         segment_count |-> Len(segments[i]),
                         entry |-> modules[i].elf.entry, clean |-> TRUE,
                         segments |-> moduleSegments[i] ]],
        content |-> [o \in 0 .. (moduleData.end - 1) |->
                       {Byte(p[1], p[2].virtual_address + (o - p[2].data_offset)) :
                          p \in {q \in stored : In(o, Payload(q[2]))}}] ]

-----------------------------------------------------------------------------
(* Actions *)

NoFile == [size |-> 0]

AddModule ==
  /\ phase = "Adding" /\ Len(input.modules) < MaxModules
  /\ \E m \in Modules : input' = [input EXCEPT !.modules = Append(@, m)]
  /\ UNCHANGED <<file, phase, altered, ram, booted>>

\* ImageBuilder::build. The header is validated when it is encoded, and the
\* image parsed before it is returned.
Build ==
  /\ phase = "Adding"
  /\ IF InputValid /\ BuiltFile.size <= RomSize /\ HeaderValid(BuiltFile.header)
       THEN file' = BuiltFile /\ phase' = "File"
       ELSE phase' = "Rejected" /\ UNCHANGED file
  /\ UNCHANGED <<input, altered, ram, booted>>

\* Any other file: fields of a canonical one take other values.
Altered(f) ==
  /\ phase = "File" /\ altered < MaxAltered
  /\ file' = f /\ altered' = altered + 1
  /\ UNCHANGED <<input, phase, ram, booted>>

AlterHeader ==
  /\ phase = "File"
  /\ \/ \E o \in Offsets :
          \/ Altered([file EXCEPT !.header.kernel_segment_table_offset = o])
          \/ Altered([file EXCEPT !.header.module_table_offset = o])
          \/ Altered([file EXCEPT !.header.image_size = o])
     \/ \E n \in 0 .. (file.header.module_count - 1) :
          Altered([file EXCEPT !.header.module_count = n])
     \/ \E n \in 0 .. (file.header.kernel_segment_count - 1) :
          Altered([file EXCEPT !.header.kernel_segment_count = n])
     \/ \E a \in Addresses : Altered([file EXCEPT !.header.kernel_entry_vaddr = a])
     \/ Altered([file EXCEPT !.header.clean = FALSE])

AlterKernel ==
  phase = "File" /\ \E i \in DOMAIN file.kernel :
    \/ \E o \in Offsets : Altered([file EXCEPT !.kernel[i].data_offset = o])
    \/ \E n \in Lengths : \/ Altered([file EXCEPT !.kernel[i].file_size = n])
                          \/ Altered([file EXCEPT !.kernel[i].memory_size = n])
    \/ \E a \in Addresses :
         \/ Altered([file EXCEPT !.kernel[i].virtual_address = a])
         \/ Altered([file EXCEPT !.kernel[i].physical_address = a])
         \/ Altered([file EXCEPT !.kernel[i].physical_address = a,
                                 !.kernel[i].virtual_address = a])
    \/ Altered([file EXCEPT !.kernel[i].flags = {0, 1}])

AlterModule ==
  phase = "File" /\ \E i \in DOMAIN file.modules :
    \/ \E o \in Offsets : \/ Altered([file EXCEPT !.modules[i].name_offset = o])
                          \/ Altered([file EXCEPT !.modules[i].segment_table_offset = o])
    \/ \E n \in Lengths : Altered([file EXCEPT !.modules[i].name_length = n])
    \/ \E a \in Addresses : Altered([file EXCEPT !.modules[i].entry = a])
    \/ \E j \in DOMAIN file.modules[i].segments :
         \/ \E o \in Offsets :
              Altered([file EXCEPT !.modules[i].segments[j].data_offset = o])
         \/ \E n \in Lengths :
              \/ Altered([file EXCEPT !.modules[i].segments[j].file_size = n])
              \/ Altered([file EXCEPT !.modules[i].segments[j].memory_size = n])
         \/ \E a \in Addresses :
              Altered([file EXCEPT !.modules[i].segments[j].virtual_address = a])

Parse ==
  /\ phase = "File"
  /\ phase' = IF Parses(file) THEN "Accepted" ELSE "Rejected"
  /\ UNCHANGED <<input, file, altered, ram, booted>>

\* boot_plan slices the image with every segment's payload range; a slice that
\* ends beyond the image panics.
Sliceable(s) == End(Payload(s)) <= file.size

BootPlan ==
  /\ phase = "Accepted"
  /\ phase' = IF \A i \in DOMAIN KernelSegments(file) : Sliceable(file.kernel[i])
                THEN "Booting" ELSE "Panicked"
  /\ UNCHANGED <<input, file, altered, ram, booted>>

\* One turn of the loop of BootPlan::apply: a copy, and zeroes behind it.
ApplyCopy ==
  /\ phase = "Booting" /\ booted < Len(KernelSegments(file))
  /\ LET s == file.kernel[booted + 1]
     IN  ram' = [a \in DOMAIN ram |->
                   IF In(a, Loaded(s))
                     THEN file.content[s.data_offset + (a - s.physical_address)]
                   ELSE IF In(a, Physical(s)) THEN {<<"zero">>}
                   ELSE ram[a]]
  /\ booted' = booted + 1
  /\ UNCHANGED <<input, file, phase, altered>>

WriteBootInfo ==
  /\ phase = "Booting" /\ booted = Len(KernelSegments(file))
  /\ ram' = [a \in DOMAIN ram |->
               IF In(a, RangeOf(file.header.boot_info_paddr, InfoSize)) THEN {<<"info">>}
               ELSE ram[a]]
  /\ phase' = "Booted"
  /\ UNCHANGED <<input, file, altered, booted>>

Init ==
  /\ \E kernel \in Kernels : input = [kernel |-> kernel, modules |-> <<>>]
  /\ file = NoFile /\ phase = "Adding" /\ altered = 0
  /\ ram = [a \in RamBase .. (RamBase + RamSize - 1) |-> {<<"old">>}]
  /\ booted = 0

Next ==
  \/ AddModule \/ Build
  \/ AlterHeader \/ AlterKernel \/ AlterModule
  \/ Parse \/ BootPlan \/ ApplyCopy \/ WriteBootInfo

Spec == Init /\ [][Next]_vars

-----------------------------------------------------------------------------
(* Properties *)

Bytes(range) == range.start .. (End(range) - 1)

DisjointSets(sets) == \A i, j \in DOMAIN sets : i < j => sets[i] \cap sets[j] = {}

Instruction(address) == address .. (address + Word - 1)

\* The map of a valid file (VALID-001): every range inside the file, and no byte in two
\* of them. A range without bytes occupies nothing.
ValidMap(spans, size) ==
  /\ \A a, b \in spans : a # b => Bytes(a) \cap Bytes(b) = {}
  /\ \A a \in spans : Bytes(a) \subseteq 0 .. (size - 1)

ValidKernel(segments, entry) ==
  /\ \A i \in DOMAIN segments :
       LET s == segments[i]
       IN  /\ s.clean /\ FlagsKnown(s)
           /\ s.memory_size > 0 /\ s.file_size <= s.memory_size
           /\ Bytes(Physical(s)) \subseteq
                Bytes(Ram) \ (StackBase .. (InfoBase + InfoSize - 1))
           /\ s.virtual_address - s.physical_address \in {0, DirectOffset}
  /\ DisjointSets([i \in DOMAIN segments |-> Bytes(Physical(segments[i]))])
  /\ DisjointSets([i \in DOMAIN segments |-> Bytes(Virtual(segments[i]))])
  /\ entry \in Bytes(DirectMap) /\ entry % Word = 0
  /\ \E i \in DOMAIN segments :
       Executes(segments[i]) /\ Instruction(entry) \subseteq Bytes(Initialized(segments[i]))
  /\ \E i \in DOMAIN segments :
       Executes(segments[i]) /\ Instruction(Bootstrap) \subseteq Bytes(Loaded(segments[i]))

ValidModule(segments, entry) ==
  /\ \A i \in DOMAIN segments :
       LET s == segments[i]
       IN  /\ s.clean /\ FlagsKnown(s)
           /\ s.memory_size > 0 /\ s.file_size <= s.memory_size
           /\ Bytes(Virtual(s)) \subseteq (0 .. (AddressLimit - 1)) \ Bytes(DirectMap)
  /\ DisjointSets([i \in DOMAIN segments |-> Bytes(Virtual(segments[i]))])
  /\ entry % Word = 0
  /\ \E i \in DOMAIN segments :
       Executes(segments[i]) /\ Instruction(entry) \subseteq Bytes(Initialized(segments[i]))

\* A file as system-image-v1.md defines it, byte by byte (HDR, KSEG, MOD, MSEG,
\* VALID-001); HDR-002 asks also of a module table without records that it end inside.
ValidFile(f) ==
  LET h == f.header
      modules == ModuleRecords(f)
  IN  /\ h.clean /\ f.size = h.image_size /\ f.size \in HeaderSize .. RomSize
      /\ h.bootstrap_entry_paddr = Bootstrap /\ h.boot_info_paddr = InfoBase
      /\ ValidMap(ImageMap(f), f.size)
      /\ h.module_count = 0 => h.module_table_offset <= f.size
      /\ ValidKernel(KernelSegments(f), h.kernel_entry_vaddr)
      /\ \A i \in DOMAIN modules :
           /\ modules[i].clean /\ modules[i].name_length > 0
           /\ ValidModule(SegmentsOf(modules[i]), modules[i].entry)
      /\ \A i, j \in DOMAIN modules : i # j => modules[i].name # modules[j].name

\* The module table has no records and its offset is in the middle of another range.
EmptyTableInside(f) ==
  LET table == f.header.module_table_offset
  IN  /\ f.header.module_count = 0
      /\ \E a \in ImageMap(f) : {table - 1, table} \subseteq Bytes(a)

\* parse accepts exactly the valid files, whatever the fields of a file say, but for one
\* kind that it refuses: the checks on the ends of ranges, in the order of parse and over
\* the records it meets, amount to no two ranges sharing a byte, at every boundary, and
\* an empty module table is refused in the middle of another range (README, section 5).
ParseExact ==
  /\ phase = "Accepted" => ValidFile(file) /\ ~EmptyTableInside(file)
  /\ phase = "Rejected" /\ file # NoFile => ~ValidFile(file) \/ EmptyTableInside(file)

\* parse accepts every file that the format calls valid. The code does not satisfy it:
\* README, section 5.
ValidAccepted == phase = "Rejected" /\ file # NoFile => ~ValidFile(file)

\* A packed image is accepted, its tables are sorted, and through its records one
\* finds every byte of every input segment and nothing else, each payload byte
\* stored once: the offsets build_image hands out never collide, whatever is empty.
BuildFaithful ==
  phase = "File" /\ altered = 0 =>
    LET found(segments) ==
          {[address |-> s.virtual_address, memory_size |-> s.memory_size,
            file_size |-> s.file_size, flags |-> s.flags] :
             s \in {segments[i] : i \in DOMAIN segments}}
        intact(owner, segments) ==
          \A i \in DOMAIN segments : \A k \in 0 .. (segments[i].file_size - 1) :
            file.content[segments[i].data_offset + k]
              = {Byte(owner, segments[i].virtual_address + k)}
        sorted(segments) ==
          \A i \in DOMAIN segments : \A j \in DOMAIN segments :
            i < j => segments[i].virtual_address < segments[j].virtual_address
        given(elf) == {s \in {elf.segments[i] : i \in DOMAIN elf.segments} :
                         s.memory_size > 0}
    IN  /\ Parses(file)
        /\ found(file.kernel) = given(input.kernel)
        /\ intact(0, file.kernel) /\ sorted(file.kernel)
        /\ Len(file.modules) = Len(input.modules)
        /\ \A i \in DOMAIN file.modules :
             LET m == file.modules[i]
             IN  /\ i > 1 => file.modules[i - 1].name < m.name
                 /\ \E k \in DOMAIN input.modules :
                      /\ input.modules[k].name = m.name
                      /\ found(m.segments) = given(input.modules[k].elf)
                 /\ intact(m.name, m.segments) /\ sorted(m.segments)

\* After the boot of an accepted image RAM holds every kernel segment, its payload
\* and zeroes behind it, and the boot info, and is otherwise untouched: no copy, no
\* clearing and not the boot info, written last, damages what another step wrote.
BootLoads ==
  phase = "Booted" =>
    LET segments == KernelSegments(file)
        info == RangeOf(InfoBase, InfoSize)
    IN  /\ \A i \in DOMAIN segments : \A k \in 0 .. (segments[i].memory_size - 1) :
             ram[segments[i].physical_address + k] =
               IF k < segments[i].file_size
                 THEN file.content[segments[i].data_offset + k] ELSE {<<"zero">>}
        /\ \A a \in Bytes(info) : ram[a] = {<<"info">>}
        /\ \A a \in DOMAIN ram :
             (\A i \in DOMAIN segments : a \notin Bytes(Physical(segments[i])))
               /\ a \notin Bytes(info) => ram[a] = {<<"old">>}

\* An image that parse accepts has a boot plan: boot_plan returns it or an error
\* (the test empty_payload_does_not_require_an_in_image_data_offset accepts an
\* image whose empty payload has an offset outside it). The code does not satisfy it:
\* README, section 5.
BootPlanTotal == phase # "Panicked"

=============================================================================
