CONSTANTS
  InKey = {k1, k2}
  MaxOut = 1
  NoKey = NoKey
  MaxStopsIn = 0
  MaxStopsOut = 1
  MaxCrashes = 1
  MaxFaults = 0
  Expires = TRUE
  ExpiresOpen = TRUE
  WindowCloses = TRUE
SPECIFICATION Spec
SYMMETRY Symmetry
CHECK_DEADLOCK FALSE
INVARIANT FailIsSafe
