SPECIFICATION Spec
CONSTANTS
  Const = Const
  Value <- MCValue
  Orders <- TwoOrders
  Programs <- FullPrograms
INVARIANTS
  TypeOK
  QueueOrdered
  FailuresExplained
  SameBehaviour
