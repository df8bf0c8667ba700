SPECIFICATION MCSpec
CONSTANTS
  Requests = {1, 2, 3}
  Signals = {"SIGTERM", "SIGINT"}
  Jobs <- MCJobs
  HoldMicros <- MCHoldMicros
  MaxTime = 1
  NoBucket = NoBucket
CHECK_DEADLOCK FALSE
INVARIANTS
  RevisionsAreNumbered
  SelectionsAreSound
  SettlementsMatchHolds
  PoolOutlivesConnections
PROPERTIES
  ShutdownEnds
