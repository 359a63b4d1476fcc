SPECIFICATION Spec
CONSTANTS
  Hosts = {h1, h2}
  Runs = {r1, r2}
  Approvals = {a1, a2, a3}
  Foreign = {a3}
  Legacy = {r1, r2}
  None = None
SYMMETRY Symmetry
INVARIANTS LockHeld AnswersAgree CompletionEvents JournalTruthful Custody SignedReceipts
PROPERTIES PublishOnce NoBlindRetry AppliedAfterReceipt OneCandidatePromise
CHECK_DEADLOCK FALSE
