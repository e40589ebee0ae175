CONSTANTS
  p1 = p1
  p2 = p2
  s1 = s1
  f1 = f1
  Callers = {p1, p2}
  Pushers = {p1, p2}
  Uploaders = {p1, p2}
  Sweepers = {s1}
  Features = {f1}
  Nobody = Nobody
  MaxEdits = 2
  MaxVersion = 3
  MaxFailures = 2
SPECIFICATION Spec
SYMMETRY Symmetry
CHECK_DEADLOCK FALSE
INVARIANT OneWriter
 
PROPERTY VersionsBuildOn
PROPERTY MergedOnce
