CONSTANTS
  r1 = r1
  r2 = r2
  w1 = w1
  w2 = w2
  k1 = k1
  k2 = k2
  k3 = k3
  Readers = {r1, r2}
  Writers = {w1}
  Keys = {k1, k2, k3}
  Missing = Missing
  MostEntries = 1
  MaxWrites = 2
SPECIFICATION Spec
SYMMETRY Symmetry
CHECK_DEADLOCK FALSE
INVARIANT FreshAnswers
INVARIANT CurrentWhenQuiet
INVARIANT EntriesBounded
