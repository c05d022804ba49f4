\* Previews and commits of one kind, with edits and Sessions, or with a crash.
SPECIFICATION Spec
CONSTANTS
  a1 = a1  a2 = a2  p1 = p1  g1 = g1  g2 = g2  c1 = c1  c2 = c2
  Threads = {a1, a2}
  Controls = {c1, c2}
  Profiles = {p1}
  Targets = {g1, g2}
  Tokens = {1, 2}
  MaxPending = 1
  Loads <- MCLoads
  MaxContent = 3
  None = None
CHECK_DEADLOCK FALSE
INVARIANTS
  EndedLeavesNothing
  TransferIsPreviewed
  CommittedOnce
