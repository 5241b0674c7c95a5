SPECIFICATION FairSpec
CONSTANTS
    Attempts <- MCAttempts
    Sessions <- MCSessions
    Value = 2
    SeqBlock = 2
    MaxSends = 2
    MaxFaults = 1
    Overlap = FALSE
    StopsMidSend = FALSE
INVARIANT LiveHtlcIsOnRecord
INVARIANT BothEndsAgree
INVARIANT InflightIndexExact
PROPERTY OutcomesAreFinal
PROPERTY PaymentResolves
CHECK_DEADLOCK FALSE
