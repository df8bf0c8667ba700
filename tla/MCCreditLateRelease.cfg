SPECIFICATION Spec
CONSTANTS
  Accounts = {a1}
  Grants = {1, 2}
  Holds = {h1, h2}
  s1 = s1
  s2 = s2
  Sources <- MCSources
  MaxMicros = 2
  MaxTime = 2
  TxSpan = 0
  AppSkew = 0
  None = None
SYMMETRY Symmetry
INVARIANT ExpiredIsNotAvailable
