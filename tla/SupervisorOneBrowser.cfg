\* A close() that gave up on its browser frees the Profile for a second one.
SPECIFICATION Spec
CONSTANTS
  c1 = c1  c2 = c2  p1 = p1  p2 = p2  s1 = s1  s2 = s2  t1 = t1  t2 = t2
  Conns = {c1}
  Profiles = {p1}
  Sessions = {s1, s2}
  Threads = {t1, t2}
  None = None
  Maint = Maint
  DefaultProfile = p1
  Ops = {"open", "close"}
  MaxOps = 3
  MaxRestarts = 0
SYMMETRY MCSymmetry
CHECK_DEADLOCK FALSE
INVARIANT OneBrowserPerProfile
