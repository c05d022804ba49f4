\* Every request returns, every Profile is given back.
SPECIFICATION FairSpec
CONSTANTS
  c1 = c1  c2 = c2  p1 = p1  p2 = p2  s1 = s1  s2 = s2  t1 = t1  t2 = t2
  Conns = {c1}
  Profiles = {p1}
  Sessions = {s1, s2}
  Threads = {t1, t2}
  None = None
  Maint = Maint
  DefaultProfile = p1
  Ops = {"open", "act", "close", "shutdown"}
  MaxOps = 3
  MaxRestarts = 0

CHECK_DEADLOCK FALSE
PROPERTIES
  EveryRequestReturns
  ProfileIsGivenBack
