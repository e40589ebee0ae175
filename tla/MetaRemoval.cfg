CONSTANTS
  o1 = o1
  o2 = o2
  s1 = s1
  f1 = f1
  Owners = {o1, o2}
  Deleters = {o2}
  Sweepers = {}
  Features = {}
  Nobody = Nobody
  Limit = 1
  Remembered = 1
  MaxVersion = 2
  MaxStretches = 1
  MaxMishaps = 0
SPECIFICATION Spec
CHECK_DEADLOCK FALSE
INVARIANT RemovalLeavesNothing
