SPECIFICATION Spec
CONSTANTS
  Writers = {w1, w2}
  MaxLines = 1
  Nobody = Nobody
  Ids = {s1, s2}
  Limit = 1
  MaxSubs = 2
  Afters <- AfterNone
SYMMETRY Symmetry
INVARIANTS AppendsSurvive NothingSkipped DeliveredIsLogged FirstInOrder
CHECK_DEADLOCK FALSE
