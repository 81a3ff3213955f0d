\* One node and one stop while process ids are reused.
CONSTANTS
  s1 = s1
  s2 = s2
  t1 = t1
  t2 = t2
  w1 = w1
  w2 = w2
  c1 = c1
  c2 = c2
  p1 = p1
  p2 = p2
  p3 = p3
  key = key
  other = other
  OldWallet = OldWallet
  NoFile = NoFile
  Torn = Torn
  NoPid = NoPid
  Starter = {s1}
  Stopper = {t1}
  Creator = {w1}
  Key = {key, other}
  NoKey = NoKey
  Setter = {c1}
  Pid = {p1, p2, p3}
  Environments <- IdsComeRound
SPECIFICATION Spec
INVARIANTS
  StopSparesStrangers
CHECK_DEADLOCK FALSE
