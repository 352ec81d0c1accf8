SPECIFICATION Spec
CONSTANTS
  Buf <- MCBuf
  Letter = {"i", "f", "a", "s"}
  Digit = {"1"}
  Space <- MCSpace
  Other = {"#"}
  Keywords <- MCKeywords
  NDEBUG = TRUE
  MaxLen = 4
PROPERTY CommentsClosed
