\* Three goroutines, overlapping reads and writes, the scheduler fair.
SPECIFICATION FairSpec
CONSTANTS
  t1 = t1
  t2 = t2
  t3 = t3
  NoCaller = NoCaller
  Callers = {t1, t2, t3}
  Layouts <- SmallLayouts
  Value = {0, 1}
  Zero = 0
  Requests <- LiveRequests
PROPERTY EveryCallEnds
