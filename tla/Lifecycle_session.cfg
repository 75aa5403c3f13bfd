SPECIFICATION Spec
CONSTANTS
  o1 = o1
  o2 = o2
  o3 = o3
  Op <- ThreeOps
  First = First
  None = None
  Kinds <- ButKill
  Captures = TRUE
  Fault <- NoFault
SYMMETRY OpSymmetry
CHECK_DEADLOCK FALSE
INVARIANT ActiveRunsItsSession
PROPERTY ReloadKeepsConversation
