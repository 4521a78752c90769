SPECIFICATION Spec
CONSTANTS
  main = main
  foo = foo
  bar = bar
  Func = {main, foo, bar}
  Block = {1, 2, 3, 4}
  Modules <- LoopedCall
  DefaultTripCount = 1
  Unseen = Unseen
  MaxEvals = 300
  MaxTripCount = 256
PROPERTIES
  OnlyRecursionCutOff
