SPECIFICATION Spec
CONSTANTS
  DefaultSize = 20
  GlobalPredeclared = 9
  ChildPredeclared = 6
  VarName = {"x"}
  FnName = {}
  ParamName = {}
  NoName = "none"
  Literal = {"null", "string"}
  SteadyCalls = TRUE
  CopyHeapVals = TRUE
  LoopCount = {}
  Operators = {}
  FilterCount = {}
  LLONG_MAX = 1
  MaxScopes = 2
  MaxFns = 0
  MaxStrs = 1
  MaxFrames = 4
INVARIANTS
  StringsLive
