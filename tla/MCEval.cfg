SPECIFICATION MCSpec
CONSTANTS
  DefaultSize = 20
  GlobalPredeclared = 14
  ChildPredeclared = 9
  VarName = {"x"}
  FnName = {"f"}
  ParamName = {"p"}
  NoName = "none"
  Literal = {"string"}
  SteadyCalls = TRUE
  CopyHeapVals = FALSE
  LoopCount = {0, 2}
  Operators = {"+"}
  FilterCount = {2}
  LLONG_MAX = 2
  MaxScopes = 4
  MaxFns = 1
  MaxStrs = 2
  MaxFrames = 4
INVARIANTS
  TypeOK
  ChainLive
  StringsLive
  CalleeKept
  ParamInv
  HeapSound
  ScopesMatchFrames
  RedeclareInv
  OperatorLaws
PROPERTIES
  ConstKept
