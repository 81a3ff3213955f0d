\* A store statement that throws between recording a result and crediting it.
CONSTANTS
  j1 = j1
  j2 = j2
  n1 = n1
  n2 = n2
  s1 = s1
  s2 = s2
  NoJob = NoJob
  NoNode = NoNode
  NoTick = NoTick
  Job = {j1}
  Node = {n1}
  Slot = {s1}
  Wallet = {n1}
  Prompt <- Prompts
  Answer <- Answers
  formula <- RateCard
  Absent = Absent
  Environments <- BusyStore
SPECIFICATION Spec
INVARIANTS
  AccrualIsAtomic
