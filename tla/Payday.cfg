\* Two jobs, two nodes whose wallets are paid by two passes.
CONSTANTS
  j1 = j1
  j2 = j2
  n1 = n1
  n2 = n2
  s1 = s1
  r1 = r1
  r2 = r2
  NoJob = NoJob
  NoNode = NoNode
  NoTick = NoTick
  Absent = Absent
  NoPool = NoPool
  NoTx = NoTx
  NaN = NaN
  Job = {j1, j2}
  Node = {n1, n2}
  Slot = {s1}
  Wallet = {n1, n2}
  Prompt <- Prompts
  Answer <- Answers
  formula <- PayoutFormula
  Environments <- Coordinators
  Setups <- Operators
  Malformed = {}
  OffCurve = {n2}
  Run = {r1, r2}
  Credits = {1, 2, 3, 4, 5, 6, 7}
  MaxAccrued = 9
SPECIFICATION PaydayFairSpec
INVARIANTS
  PaidForResults
  EveryUnitAccountedFor
PROPERTIES
  EachPartKeepsItsSpec
  PassEnds
CHECK_DEADLOCK FALSE
