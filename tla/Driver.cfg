SPECIFICATION Spec
CONSTANTS
  NBits = 3
  NDist = 5
  Initial = 7
  Missing = Missing
  Old = Old
INVARIANTS
  FreshOption
  EstimatesCurrent
  OutputCurrent
PROPERTIES
  Terminates
