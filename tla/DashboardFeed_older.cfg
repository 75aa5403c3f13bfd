SPECIFICATION Spec
CONSTANTS
  None = None
  Agent = {1, 2}
  PageSize = 1
  MaxMessage = 3
  MaxClick = 2
INVARIANT NewestFirst
CHECK_DEADLOCK FALSE
