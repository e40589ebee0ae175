CONSTANTS
  o1 = o1
  o2 = o2
  s1 = s1
  f1 = f1
  Owners = {o1, o2}
  Deleters = {o1}
  Sweepers = {s1}
  Features = {}
  Nobody = Nobody
  Limit = 1
  Remembered = 1
  MaxVersion = 2
  MaxStretches = 3
  MaxMishaps = 1
SPECIFICATION FairSpec
CHECK_DEADLOCK FALSE
INVARIANT StretchesAgree
INVARIANT OnlineIsOnRecord
PROPERTY TurnGivenBack
