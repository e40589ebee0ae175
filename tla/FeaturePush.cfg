CONSTANTS
  p1 = p1
  p2 = p2
  s1 = s1
  f1 = f1
  Callers = {p1, p2}
  Pushers = {p2}
  Uploaders = {}
  Sweepers = {}
  Features = {f1}
  Nobody = Nobody
  MaxEdits = 3
  MaxVersion = 3
  MaxFailures = 0
SPECIFICATION Spec
CHECK_DEADLOCK FALSE
INVARIANT PushesKeepWork
