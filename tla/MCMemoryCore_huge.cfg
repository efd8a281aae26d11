\* A coil area of 65530 bits: (n + 7) wraps in uint16.
SPECIFICATION Spec
CONSTANTS
  t1 = t1
  t2 = t2
  t3 = t3
  NoCaller = NoCaller
  Callers = {t1, t2}
  Layouts <- HugeLayouts
  Value = {0, 1}
  Zero = 0
  Requests <- HugeRequests
INVARIANT CompleteCall
