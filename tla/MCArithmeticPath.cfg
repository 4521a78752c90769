SPECIFICATION Spec
CONSTANTS
  Unit = 1008
  DivEps = 252
  TotalBits = 5
  FracThreshold = 1
  MaxTotalBits = 10
  SimilarBits = 2
  IntSize = 3
  TruncSize = 3
  MaxExponent = 8
  Bounds <- MCBounds
  IntBounds <- MCIntBounds
  OtherTypes <- MCOtherTypes
  Step = 252
  Ops = {"add", "sub", "mul", "div", "neg", "fromint", "fromfloat", "rem", "shl", "ashr", "toint", "trunc", "ceil", "floor", "fabs", "phi", "square", "mulloads", "eq", "ne", "gt", "ge", "lt", "le"}
INVARIANTS
  RangesSound
  ResultsClose
  CompareExact
