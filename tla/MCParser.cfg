SPECIFICATION FairSpec
CONSTANTS
  Tokens <- MCTokens
  Ops = {"*", "-", "<="}
  MaxDepth = 2
INVARIANTS InRange Complete Grouped CopiesFreed
PROPERTY Ends
