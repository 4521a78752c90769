SPECIFICATION Spec
CONSTANTS
  Programs <- SmallPrograms
  Calls = 2
  Argument <- TwoArguments
INVARIANTS
  ValuesCovered
  MemoryCovered
