SPECIFICATION FairRegistrySpec
CONSTANTS
    Keys <- MCKeys
    Value = 2
    GcCanceled = TRUE
    LateNotify = FALSE
    MaxLinkStops = 2
    MaxRestarts = 1
INVARIANT NotifiedHtlcIsHeld
PROPERTY ImplementsContract
PROPERTY HeldHtlcAnswered
CHECK_DEADLOCK FALSE
