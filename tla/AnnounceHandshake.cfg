SPECIFICATION Spec
CONSTANTS
  A = A
  B = B
  Phone = {A, B}
  Retries = 1
  MaxEvents = 3
SYMMETRY PhoneSymmetry
INVARIANTS RouteIsOfThisLink AnnouncedOnThisLink RoutesReadyAtRest
\* The link may be up for good and everything said.
CHECK_DEADLOCK FALSE
