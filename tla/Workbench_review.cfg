SPECIFICATION Spec
CONSTANTS
  Sessions = {s1, s2}
  First = s1
  None = None
  MaxOps = 2
  MaxQueues = 3
  MaxApprovals = 2
  MaxRuns = 2
  MaxHeads = 1
  MaxTasks = 2
INVARIANTS OutcomeIsOwn
PROPERTIES NewerIntentWins AppliesWhatIsShown AppliesOnce
CONSTRAINT Focus
