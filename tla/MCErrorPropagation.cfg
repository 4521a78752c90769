SPECIFICATION Spec
CONSTANTS
  Block = {1, 2, 3, 4, 5, 6, 7, 8, 9, 10}
  MaxRecursionCount = 1
  Programs <- SmallPrograms
INVARIANTS
  TypeOK
  ErrorsBound
  ComparesRight
  BlocksInOrder
