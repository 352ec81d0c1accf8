SPECIFICATION Spec
CONSTANTS
  DefaultSize = 20
  GlobalPredeclared = 9
  ChildPredeclared = 6
  VarName = {}
  FnName = {"f"}
  ParamName = {"p"}
  NoName = "none"
  Literal = {"null", "string"}
  SteadyCalls = FALSE
  CopyHeapVals = FALSE
  LoopCount = {}
  Operators = {}
  FilterCount = {}
  LLONG_MAX = 1
  MaxScopes = 4
  MaxFns = 1
  MaxStrs = 0
  MaxFrames = 3
INVARIANTS
  ChainLive
