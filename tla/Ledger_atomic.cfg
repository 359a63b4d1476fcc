SPECIFICATION UntilStolen
CONSTANTS
  Procs = {p1, p2, p3}
  Docs = {d1, d2}
  Txns = {t1, t2, t3}
  MaxEvents = 2
  Nobody = Nobody
SYMMETRY Symmetry
INVARIANTS OneInside NothingBypassed
PROPERTIES AtomicUnlessStolen
CHECK_DEADLOCK FALSE
