CONSTANTS
  c1 = c1
  c2 = c2
  Drain = Drain
  None = None
  Caller <- Callers
  Last = 2
  DrainMax = 2
  StaleAfter = 2
  Backoff <- ShortBackoff
  MaxRetries = 3
  Slow = 9
  Fault = {"pasteError", "lockTimeout", "withdraw", "crash", "replyError"}
SPECIFICATION Spec
SYMMETRY Symmetry
INVARIANTS FailureIsReported OutcomeIsTrue
PROPERTIES MailboxSpec
