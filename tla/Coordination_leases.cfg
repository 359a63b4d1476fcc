SPECIFICATION Spec
CONSTANTS
  Workers = {w1, w2}
  Tasks = {t1, t2}
  Coordinator = Coordinator
  TaskGrants = 3
  CoordinatorGrants = 1
  None = None
SYMMETRY Symmetry
CONSTRAINT Focus
INVARIANTS NoDuplicate BuildsOnAccepted NoCircle
PROPERTIES CanonicalOnce LateIsFenced ResumedOnce
