SPECIFICATION Spec
CONSTANTS
  Workers = {w1, w2}
  Tasks = {t1}
  Coordinator = Coordinator
  TaskGrants = 2
  CoordinatorGrants = 0
  None = None
SYMMETRY Symmetry
PROPERTIES ResumesFromCheckpoint
