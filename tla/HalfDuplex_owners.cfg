SPECIFICATION Spec
CONSTANTS
  A = A
  B = B
  Phone <- MCPhone
  MaxPresses <- MCPresses
  MaxSending = 1
  MaxUpsets = 0
  MaxEvents = 2
INVARIANTS
  OneOwner
\* The users may press no more.
CHECK_DEADLOCK FALSE
