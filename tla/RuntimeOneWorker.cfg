\* Two calls without the lock may each find no worker and start one.
SPECIFICATION Spec
CONSTANTS
  t1 = t1  t2 = t2  w1 = w1  w2 = w2
  Threads = {t1, t2}
  Workers = {w1, w2}
  Kinds = {"open", "act", "observe", "preview", "close"}
  MaxCalls = 3
  None = None
SYMMETRY MCSymmetry
CHECK_DEADLOCK FALSE
INVARIANT OneWorker
