SPECIFICATION Spec
CONSTANTS
  o1 = o1
  o2 = o2
  o3 = o3
  Op <- TwoOps
  First = First
  None = None
  Kinds <- AllKinds
  Captures = TRUE
  Fault <- Faults
SYMMETRY OpSymmetry
CHECK_DEADLOCK FALSE
INVARIANTS OneClaim ClaimIsOwned
PROPERTY SuspendedUntilResumed
