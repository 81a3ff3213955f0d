\* Two passes over two wallets, from a calm environment to a hostile one.
CONSTANTS
  w1 = w1
  w2 = w2
  w3 = w3
  r1 = r1
  r2 = r2
  r3 = r3
  NoPool = NoPool
  NoTx = NoTx
  NaN = NaN
  Wallet = {w1, w2}
  Run = {r1, r2}
  Malformed = {}
  OffCurve = {}
  Setups <- FromCalmToHostile
  Credits = {1, 2}
  MaxAccrued = 3
SPECIFICATION DistributeSpec
INVARIANTS
  BooksInv
  PaidIsOnChain
  PoolIsRespected
  LastTxPaysTheRow
  NeverMarkedBeyondAccrual
  ExitZeroPaidEveryone
  FailedMeansUnpaid
  BooksBalance
PROPERTIES
  ImplementsPayout
CHECK_DEADLOCK FALSE
