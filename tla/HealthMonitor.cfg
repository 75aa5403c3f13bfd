SPECIFICATION FairSpec
CONSTANTS
  p1 = p1
  p2 = p2
  Poll <- Polls
  Kind <- AllAndFast
  Patterns = TRUE
  AutoRecover = TRUE
  Grace = 1
  HealGrace = 1
  Fault = {"proxyLoss"}
  MaxScreen = 3
  MaxOp = 1
PROPERTIES PollsKeepOut ExitNoticed QueuedReloadRuns
CHECK_DEADLOCK FALSE
