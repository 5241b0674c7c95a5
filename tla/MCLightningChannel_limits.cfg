CONSTANTS
  Alice = Alice
  Bob = Bob
  Party <- MCParty
  Initiator = Alice
  InitialBalance <- MCBalance
  InitialFeePerKB = 0
  FeeRates = {}
  HtlcAmounts = {4,6}
  Size <- MCFreeSize
  Limit <- MCTightLimit
  DustLimit <- MCNoDust
  ChanReserve <- MCReserve
  BatchSize = 2
  NewChannel = TRUE
  StopsMidHandler = FALSE
  MaxHtlcs <- MCTwoAndOne
  MaxFeeUpdates = 0
  MaxDisconnects = 1
SPECIFICATION FairSpec
INVARIANT LimitsRespected
PROPERTY DanceCompletes
CHECK_DEADLOCK FALSE
