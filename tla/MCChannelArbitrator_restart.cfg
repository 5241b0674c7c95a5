SPECIFICATION ArbitratorSpec
CONSTANTS
    Htlcs = {"h1", "h2"}
    Channels <- MCChannels
    BroadcastDelta = 1
    MaxHeight = 2
    MaxFaults = 1
    RestartWhenClosed = TRUE
INVARIANT EveryHtlcAccounted
CHECK_DEADLOCK FALSE
