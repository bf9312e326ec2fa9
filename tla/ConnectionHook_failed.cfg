SPECIFICATION Spec
CONSTANTS
  a = a
  b = b
  rawA = rawA
  rawB = rawB
  Device = {a, b}
  FirstScanned = {a}
  RawKey <- MCRawKey
  MaxInputs = 1
  MaxFaults = 1
  MaxMounts = 1
INVARIANT FailedPeerIsReconciled
\* Every call may be handled and every bound be used up.
CHECK_DEADLOCK FALSE
