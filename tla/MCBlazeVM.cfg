SPECIFICATION FairSpec
CONSTANTS
  File <- MCFile
  Base = 100
  QwordSize = 1
  Modulus <- MCModulus
  memcpy <- LittleEndian
  StepLimit = 4
  StackSize = 3
  MaxPieces = 3
  Immediates = {2, 200}
INVARIANTS FollowsListing Verified HaltsAtFirst StackFits LoadsImmediate
PROPERTY Ends
