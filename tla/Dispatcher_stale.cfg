CONSTANTS
  c1 = c1
  c2 = c2
  Drain = Drain
  None = None
  Caller <- Callers
  Last = 1
  DrainMax = 20
  StaleAfter = 10
  Backoff <- RealBackoff
  MaxRetries = 5
  Slow = 12
  Fault = {"crash"}
SPECIFICATION FairSpec
PROPERTIES AlwaysSettles
