CONSTANTS
  Alice = Alice
  Bob = Bob
  Party <- MCParty
  Initiator = Alice
  InitialBalance <- MCBalance
  InitialFeePerKB = 0
  FeeRates = {}
  HtlcAmounts = {2}
  Size <- MCFreeSize
  Limit <- MCLimit
  DustLimit <- MCNoDust
  ChanReserve <- MCNoReserve
  BatchSize = 10
  NewChannel = TRUE
  StopsMidHandler = TRUE
  MaxHtlcs <- MCOneEach
  MaxFeeUpdates = 0
  MaxDisconnects = 2
SPECIFICATION Spec
INVARIANT NoLinkFailure
INVARIANT CommitmentsAgree
INVARIANT FundsAccounted
INVARIANT ForwardedIsIrrevocable
INVARIANT ForwardedOnce
INVARIANT NoHtlcForgotten
PROPERTY SignedOncePerHeight
PROPERTY ImplementsCommitChains
CHECK_DEADLOCK FALSE
