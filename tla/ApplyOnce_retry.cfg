SPECIFICATION RetrySpec
CONSTANTS
  Hosts = {h1, h2}
  Runs = {r1}
  Approvals = {a1}
  Foreign = {}
  Legacy = {}
  None = None
PROPERTIES RetryRecovers
CHECK_DEADLOCK FALSE
