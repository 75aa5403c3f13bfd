SPECIFICATION FairSpec
CONSTANTS
  o1 = o1
  o2 = o2
  o3 = o3
  Op <- TwoOps
  First = First
  None = None
  Kinds <- AllKinds
  Captures = TRUE
  Fault <- HangsAndLapses

CHECK_DEADLOCK FALSE
PROPERTY ClaimsEnd
