\* Two consumers, two nodes of which one settles on chain and is supervised,
\* six deployments.
CONSTANTS
  j1 = j1
  j2 = j2
  n1 = n1
  n2 = n2
  s1 = s1
  NoJob = NoJob
  NoNode = NoNode
  NoTick = NoTick
  Absent = Absent
  Job = {j1, j2}
  Node = {n1, n2}
  Slot = {s1}
  Wallet = {n1, n2}
  Prompt <- Prompts
  Answer <- Answers
  formula <- PayoutFormula
  Settling = {n1}
  Supervised = {n1}
  Keyholder = {j1}
  Environments <- Deployments
SPECIFICATION ServiceFairSpec
INVARIANTS
  ServiceInv
  OneMemoPerJob
  MemosAgreeWithResults
  ConsumersAreToldTheTruth
PROPERTIES
  NothingStuck
  ConsumerServed
  AwaitEnds
