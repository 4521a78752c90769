SPECIFICATION Spec
CONSTANTS
  Value = {1, 2, 3, 4}
  Programs <- SmallPrograms
  Unit = 4
  TotalBits = 4
  FracThreshold = 1
  MaxTotalBits = 8
  SimilarBits = 2
  MaxExponent = 12
  NoRange = NoRange
  NoType = NoType
  NoInfo = NoInfo
INVARIANTS
  TypeOK
  QueueSorted
  RangesHeld
  OnlyWidened
  ArgumentsAgree
PROPERTIES
  Terminates
