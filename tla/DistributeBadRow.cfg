\* One malformed address in the ledger, nothing else failing.
CONSTANTS
  w1 = w1
  w2 = w2
  w3 = w3
  r1 = r1
  r2 = r2
  r3 = r3
  NoPool = NoPool
  NoTx = NoTx
  NaN = NaN
  Wallet = {w1, w2}
  Run = {r1}
  Malformed = {w2}
  OffCurve = {}
  Setups <- Flawless
  Credits = {1}
  MaxAccrued = 2
SPECIFICATION DistributeSpec
INVARIANTS
  PaysEveryRow
CHECK_DEADLOCK FALSE
