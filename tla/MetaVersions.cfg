CONSTANTS
  o1 = o1
  o2 = o2
  s1 = s1
  f1 = f1
  Owners = {o1, o2}
  Deleters = {o1, o2}
  Sweepers = {}
  Features = {f1}
  Nobody = Nobody
  Limit = 1
  Remembered = 1
  MaxVersion = 4
  MaxStretches = 1
  MaxMishaps = 1
SPECIFICATION Spec
SYMMETRY Symmetry
CHECK_DEADLOCK FALSE
INVARIANT OnlineVersionKept
INVARIANT NewestHasCode
INVARIANT NothingUndone
PROPERTY NumbersOnlyGrow
PROPERTY HistoryBounded
PROPERTY ImplementsVersionStore
