SPECIFICATION NativeSpec
CONSTANTS
  NoFile = NoFile
  TmpAsm = TmpAsm
  TmpObj = TmpObj
  Stdout = Stdout
  MaxArgs = 7
  File <- MCFile
  Job <- Jobs
INVARIANTS
  ZeroMeansWritten
  Tidy
  InputReady
  SourceKept
  FailsForAReason
  FreedOnce
  PrintsProgram
  Balanced
PROPERTIES
  Ends
