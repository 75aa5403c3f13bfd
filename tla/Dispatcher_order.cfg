CONSTANTS
  c1 = c1
  c2 = c2
  Drain = Drain
  None = None
  Caller <- Callers
  Last = 2
  DrainMax = 3
  StaleAfter = 2
  Backoff <- ShortBackoff
  MaxRetries = 3
  Slow = 9
  Fault = {"lockTimeout", "leave", "withdraw", "silent", "sweep"}
SPECIFICATION Spec
SYMMETRY Symmetry
INVARIANTS DeliveredOnce OvertakenOnlyAfterFailure
