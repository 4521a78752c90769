SPECIFICATION Spec
CONSTANTS
  Value = {1, 2, 3, 4, 5}
  Root = {1, 2}
  Programs <- ProductPrograms
  Far = 25
  EndIt = EndIt
  Default = Default
  NoRoot = NoRoot
INVARIANTS
  AllQueued
