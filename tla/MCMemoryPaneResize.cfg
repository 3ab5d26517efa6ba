SPECIFICATION Spec
CONSTANTS
  None = None
  Regions <- ThreeRegions
  AddressMax = 15
  Item = 2
  Geometries <- Sizes
  FirstGeometry <- NarrowRows
  Counts = {3}
  Targets = {9, 26}
  Pcs = {13}
  DisassemblyTail = 3
  MaxPending = 2
  MaxEvents = 4
INVARIANT WindowMapped
CHECK_DEADLOCK FALSE
