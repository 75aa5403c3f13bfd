SPECIFICATION FairSpec
CONSTANTS
  None = None
  Agent = {1, 2}
  ProxyError = TRUE
  MaxStop = 1
  MaxOp = 1
  StaleAfter = 2
  MaxStart = 2
  MaxCall = 2
  MaxFault = 2
  Owner = {1}
  ReminderId = {i1, i2, i3}
  Cadences = {1}
  MaxOrder = 3
  MaxSession = 2
  MaxPress = 4
  Frame <- ClientFrames
  MaxFrameBytes = 1048576
  MaxChunk = 65536
  MaxFrames = 2
  i1 = i1
  i2 = i2
  i3 = i3
INVARIANTS RanRunsAgain OneIsFirst KeepsUp
PROPERTIES RestoreEnds LinkIsRestored FirstIsHeard SessionsEnd SilentIsRemoved
CHECK_DEADLOCK FALSE
