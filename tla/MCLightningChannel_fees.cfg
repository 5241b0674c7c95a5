CONSTANTS
  Alice = Alice
  Bob = Bob
  Party <- MCParty
  Initiator = Alice
  InitialBalance <- MCBalance
  InitialFeePerKB = 1
  FeeRates = {1,3}
  HtlcAmounts = {5}
  Size <- MCSize
  Limit <- MCLimit
  DustLimit <- MCDust
  ChanReserve <- MCNoReserve
  BatchSize = 10
  NewChannel = FALSE
  StopsMidHandler = TRUE
  MaxHtlcs <- MCOneEach
  MaxFeeUpdates = 1
  MaxDisconnects = 1
SPECIFICATION Spec
INVARIANT NoLinkFailure
INVARIANT FundsAccounted
CHECK_DEADLOCK FALSE
