CONSTANTS
  r1 = r1
  r2 = r2
  l1 = l1
  Requests = {r1, r2}
  Lambdas = {l1}
  NoLambda = NoLambda
  PerDay = 1
  QueueLimit = 0
  MaxJobs = 2
  MaxAsked = 2
  MaxMishaps = 1
SPECIFICATION Spec
CHECK_DEADLOCK FALSE
INVARIANT StopReaches
