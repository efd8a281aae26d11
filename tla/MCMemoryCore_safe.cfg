\* Three goroutines in one memory: every check, overlapping reads and writes of both kinds of area.
SPECIFICATION Spec
CONSTANTS
  t1 = t1
  t2 = t2
  t3 = t3
  NoCaller = NoCaller
  Callers = {t1, t2, t3}
  Layouts <- SmallLayouts
  Value = {0, 1}
  Zero = 0
  Requests <- SafeRequests
SYMMETRY Symmetry
INVARIANTS TypeOK IndexSafe NoRace WaitsForSomebody CompleteCall
PROPERTIES Atomic CallsMoveOn
