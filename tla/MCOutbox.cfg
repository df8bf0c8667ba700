SPECIFICATION Spec
CONSTANTS
  Events = {e1, e2}
  Workers = {w1, w2}
  Admins = {a1}
  LeaseSpan = 2
  MaxDelay = 1
  Limit = 2
  MaxAttempts = 1
  MaxGeneration = 2
  None = None
INVARIANTS
  LeaseIsExclusive
PROPERTIES
  RequeueIsInformed
  NeverStuck
