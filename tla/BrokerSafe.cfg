\* Overlapping ticks of two nodes, one of them without a wallet, under faults.
CONSTANTS
  j1 = j1
  j2 = j2
  n1 = n1
  n2 = n2
  s1 = s1
  s2 = s2
  NoJob = NoJob
  NoNode = NoNode
  NoTick = NoTick
  Job = {j1, j2}
  Node = {n1, n2}
  Slot = {s1, s2}
  Wallet = {n1}
  Prompt <- Prompts
  Answer <- Answers
  formula <- RateCard
  Absent = Absent
  Environments <- FromCalmToHostile
SPECIFICATION Spec
INVARIANTS
  BrokerInv
  FirstInFirstOut
  OneHolder
  NeverOverCredited
  AccrualIsExact
PROPERTIES
  ImplementsLifecycle
