SPECIFICATION Spec
CONSTANTS
  HeaderSize = 4
  RecordSize = 2
  Word = 2
  RomSize = 24
  AddressLimit = 34
  RamBase = 8
  RamSize = 8
  DirectOffset = 16
  StackBase = 8
  StackSize = 1
  InfoBase = 9
  InfoSize = 2
  Bootstrap = 12
  Kernels <- SmallKernels
  Modules <- SmallModules
  MaxModules = 2
  Offsets = {0, 3, 4, 8, 11, 12}
  Lengths = {0, 1, 4}
  Addresses = {9, 14, 23, 27, 30}
  MaxAltered = 2
INVARIANTS ParseExact BuildFaithful BootLoads
CHECK_DEADLOCK FALSE
