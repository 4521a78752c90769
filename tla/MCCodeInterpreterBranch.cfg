SPECIFICATION Spec
CONSTANTS
  main = main
  foo = foo
  bar = bar
  Func = {main, foo, bar}
  Block = {1, 2, 3, 4, 5, 6, 7, 8, 9, 10}
  Modules <- BranchModules
  DefaultTripCount = 1
  Unseen = Unseen
  MaxEvals = 40
  MaxTripCount = 2
INVARIANTS
  UnrolledExactly
