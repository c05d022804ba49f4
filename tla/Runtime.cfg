\* Calls with and without the lock of two fair threads, with crashes, time-outs and closes.
SPECIFICATION FairSpec
CONSTANTS
  t1 = t1  t2 = t2  w1 = w1  w2 = w2
  Threads = {t1, t2}
  Workers = {w1, w2}
  Kinds = {"open", "observe", "close"}
  MaxCalls = 3
  None = None
CHECK_DEADLOCK FALSE
INVARIANTS
  TypeOK
  SecondWorkerIsObserved
  ClosedHasNoBrowser
PROPERTIES
  OnlyObserveResumes
  EveryCallReturns
  CrashClosesRuntime
  
