SPECIFICATION Spec
CONSTANTS
  DefaultSize = 20
  GlobalPredeclared = 14
  ChildPredeclared = 6
  VarName = {"x"}
  FnName = {"f"}
  ParamName = {}
  NoName = "none"
  Literal = {"null", "string"}
  SteadyCalls = TRUE
  CopyHeapVals = FALSE
  LoopCount = {}
  Operators = {}
  FilterCount = {}
  LLONG_MAX = 1
  MaxScopes = 4
  MaxFns = 1
  MaxStrs = 0
  MaxFrames = 4
INVARIANTS
  CalleeLive
