SPECIFICATION MCSpec
CONSTANTS
  Clients = {1, 2, 3, 4}
  Tasks <- MCTasks
  PageLimit = 1
  PerTokens = 2
  MaxTime = 2
CHECK_DEADLOCK FALSE
INVARIANTS
  PublicationsActOnce
  OffersAreListedOnce
  ChargedAsQuoted
  OneSessionPerCheckout
  PeriodsAreCreditedOnce
