SPECIFICATION MCSpec
CONSTANTS
  a1 = a1
  Accounts = {a1}
  Periods = {s1}
  Subscriber <- MCSubscriber
  Grants = {1, 2}
  i1 = i1
  c1 = c1
  w1 = w1
  w2 = w2
  d1 = d1
  Holds = {i1, d1}
  Usages = {i1, d1}
  Invocations = {i1}
  Refunds = {r1}
  Codes = {c1}
  MaxMicros = 1
  Amounts = {1}
  MaxRedemptions = 1
  MaxTime = 1
  Ttl = 1
  ExpiryLimit = 1
  Prices = {0, 1}
  Events = {1, 2}
  EventOf <- MCEventOf
  Kinds = {"accepted", "rejected", "unknown"}
  p1 = p1
  p2 = p2
  Payloads = {p1, p2}
  Workers = {w1, w2}
  EventLimit = 1
  None = None
CHECK_DEADLOCK FALSE
INVARIANTS
  DriftIsExplained
  AdmissionsMatchHolds
  ProcessedEventsHold
  ReservationsAreBacked
PROPERTIES
  HoldsEnd
  EventsConverge
