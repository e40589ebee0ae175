CONSTANTS
  r1 = r1
  r2 = r2
  d1 = d1
  d2 = d2
  a1 = a1
  a2 = a2
  Visitors = {r1}
  Deployers = {d1}
  Admins = {a1, a2}
  Managers = {a1}
  Elsewhere = Elsewhere
  Free = Free
  MaxStamp = 2
  MaxEpoch = 1
  MaxVersion = 2
SPECIFICATION FairSpec
CHECK_DEADLOCK FALSE
INVARIANT OnlineResources
INVARIANT NotBuiltTwice
PROPERTY RequestsAnswered
