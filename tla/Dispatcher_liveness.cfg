CONSTANTS
  c1 = c1
  c2 = c2
  Drain = Drain
  None = None
  Caller <- Callers
  Last = 1
  DrainMax = 20
  StaleAfter = 10
  Backoff <- RealBackoff
  MaxRetries = 5
  Slow = 2
  Fault = {"leave", "crash", "pasteError"}
SPECIFICATION FairSpec
PROPERTIES SettlesIfInTime
