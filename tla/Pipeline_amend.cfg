SPECIFICATION Spec
CONSTANTS
  Last = 2
  Graphs <- TwoGraphs
  Assemble = 2
  Modes = {"supervised", "night"}
  MaxAmendments = 2
  None = None
INVARIANTS AmendingIffOpen MarkerNamesOpen DoneIsJudged ReceiptsTruthful
