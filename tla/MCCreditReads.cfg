SPECIFICATION ReadsSpec
CONSTANTS
  Accounts = {a1, a2}
  Grants = {1, 2}
  Holds = {h1}
  s1 = s1
  s2 = s2
  Sources <- MCSources
  MaxMicros = 1
  MaxTime = 2
  TxSpan = 1
  AppSkew = 1
  PageLimit = 1
  None = None
SYMMETRY Symmetry
INVARIANTS
  PagesAreTheHistory
