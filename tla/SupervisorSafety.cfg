\* All requests of two connections on one Profile, with crashes, restarts and expiries;
\* shutdown and maintenance on two Profiles.
SPECIFICATION Spec
CONSTANTS
  c1 = c1  c2 = c2  p1 = p1  p2 = p2  s1 = s1  s2 = s2  t1 = t1  t2 = t2
  Conns = {c1, c2}
  Profiles = {p1, p2}
  Sessions = {s1, s2}
  Threads = {t1, t2}
  None = None
  Maint = Maint
  DefaultProfile = p1
  Ops = {"open", "observe", "act", "switch", "tabs", "control", "close", "shutdown", "release"}
  MaxOps = 3
  MaxRestarts = 1
SYMMETRY MCSymmetry
CONSTRAINT MCFocus
CHECK_DEADLOCK FALSE
INVARIANTS
  TypeOK
  LiveSessionOwnsProfile
  OpenRuntimeIsLive
  HostOwnsProfile
  OneWriter
  ShutdownIsComplete
PROPERTY ImplementsExclusion
