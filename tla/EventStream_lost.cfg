SPECIFICATION FairSpec
CONSTANTS
  Writers = {w1}
  MaxLines = 1
  Nobody = Nobody
  Ids = {s1, s2}
  Limit = 1
  MaxSubs = 2
  Afters <- AfterSome
PROPERTIES EveryoneIsServed
CHECK_DEADLOCK FALSE
