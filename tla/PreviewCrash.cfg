CONSTANTS
  r1 = r1
  r2 = r2
  d1 = d1
  d2 = d2
  a1 = a1
  Visitors = {r1}
  Deployers = {d1}
  Admins = {}
  Elsewhere = Elsewhere
  Free = Free
  MaxStamp = 2
  MaxEpoch = 0
  MaxFailures = 1
SPECIFICATION Spec
SYMMETRY Symmetry
CHECK_DEADLOCK FALSE
INVARIANT PreviewRecorded
