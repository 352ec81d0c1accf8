SPECIFICATION Spec
CONSTANTS
  File <- MCFile
  Base = 1000
  QwordSize = 2
  Modulus <- MCModulus
  memcpy <- LittleEndian
  StepLimit = 4
  StackSize = 3
  MaxPieces = 3
  Immediates = {10}
INVARIANT AssertedInside
