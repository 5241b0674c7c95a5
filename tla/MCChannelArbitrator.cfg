SPECIFICATION FairArbitratorSpec
CONSTANTS
    Htlcs = {"h1", "h2"}
    Channels <- MCChannels
    BroadcastDelta = 1
    MaxHeight = 2
    MaxFaults = 2
    RestartWhenClosed = FALSE
INVARIANT AnswersMatchChain
INVARIANT ClosedIsRecoverable
INVARIANT EveryHtlcAccounted
INVARIANT WaitingIsDriven
PROPERTY ChannelResolves
CHECK_DEADLOCK FALSE
