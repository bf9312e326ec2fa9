SPECIFICATION Spec
CONSTANTS
  A = A
  B = B
  Phone <- MCPhone
  MaxPresses <- MCPresses
  MaxSending = 1
  MaxUpsets = 1
  MaxEvents = 3
INVARIANTS
  NoOwnerWithoutLink OwnerHoldsToken PendingIsBounded WatchdogIsOfThisTurn
\* The users may press no more.
CHECK_DEADLOCK FALSE
