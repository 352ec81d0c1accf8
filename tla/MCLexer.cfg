SPECIFICATION FairSpec
CONSTANTS
  Buf <- MCBuf
  Letter = {"i", "f", "a", "s"}
  Digit = {"1"}
  Space <- MCSpace
  Other = {"#"}
  Keywords <- MCKeywords
  NDEBUG = FALSE
  MaxLen = 5
INVARIANTS TypeOK EofLast Positions Gaps Longest
PROPERTY Ends
