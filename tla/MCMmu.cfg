\* Every order of table stores, CP15 operations, accesses in both modes and host
\* inspections, with room for two translations.
SPECIFICATION Spec
CONSTANTS
  None = None
  Entries = 2
  PageNumbers = {0, 1, 2, 3, 4}
  Region <- MapOfFive
  Rom <- BootRom
  TlbCapacity = 2
  Attempts <- FirstPages
  Stores <- TableStores
  Roots = {1, 3}
  VectorBases = {0, 16}
INVARIANTS MmuTypeOK CoherentTlb TlbIsolated
PROPERTY OnlyAccessBitsWritten
