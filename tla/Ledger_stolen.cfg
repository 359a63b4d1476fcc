SPECIFICATION Spec
CONSTANTS
  Procs = {p1, p2, p3}
  Docs = {d1}
  Txns = {t1}
  MaxEvents = 1
  Nobody = Nobody
SYMMETRY Symmetry
INVARIANTS NeverStolen
CHECK_DEADLOCK FALSE
