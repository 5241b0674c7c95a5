CONSTANTS
  InKey = {k1, k2}
  MaxOut = 1
  NoKey = NoKey
  MaxStopsIn = 1
  MaxStopsOut = 1
  MaxCrashes = 0
  MaxFaults = 1
  Expires = TRUE
  ExpiresOpen = TRUE
  WindowCloses = TRUE
SPECIFICATION Spec
SYMMETRY Symmetry
CHECK_DEADLOCK FALSE
INVARIANT OfferedOnce
INVARIANT SettledIsPaid
