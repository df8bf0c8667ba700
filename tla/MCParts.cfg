SPECIFICATION Spec
CONSTANTS
  NoBucket = NoBucket
  Rows = {1, 2, 3}
  MaxAmount = 3
  MaxNeed = 7
  Contexts = {1, 2}
  Sessions = {1, 2}
  Writes = {1, 2, 3}
  MaxDepth = 2
  MaxDeaths = 1
  Sweepers = {1, 2}
  Tokens = {1, 2, 3, 4, 5, 6, 7, 8}
  MaxFailures = 2
  Candidates <- MCCandidates
  MaxRevisions = 3
  Reads = {1, 2}
  Expecting <- MCExpecting
  PaidAmount = 210
  RefundedParts = {55, 100}
CHECK_DEADLOCK FALSE
INVARIANTS
  GreedyIsTheLoop
  QuoteCountsUsageOnce
  TransactionsAreHonest
  LeasedSweepsAreAlone
  KnowledgeOnlyGrows
  ReadsAreAccountedFor
  FactsAreTheProviders
PROPERTY
  SweepingGoesOn
