SPECIFICATION Spec
CONSTANTS
  k1 = k1
  k2 = k2
  k3 = k3
  v1 = v1
  v2 = v2
  Null = Null
  Key = {k1, k2, k3}
  Val = {v1, v2}
  Node = {1, 2, 3, 4, 5, 6}
  Spacing = 1
  MaxOrd = 1
SYMMETRY Symmetry
INVARIANTS
  TypeOK
  Grouped
  Indexed
  Ordered
  IteratorsExact
PROPERTIES
  PairsStayProp
  ImplementsOrderedGroups
