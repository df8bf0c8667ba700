SPECIFICATION Spec
CONSTANTS
  Payments = {payment1}
  payment1 = payment1
  PaymentEvents = {paid1}
  RefundEvents = {}
  payment <- AboutOnePayment
  Workers = {w1}
  PaidMinor = 2
  RefundAmounts = {1}
  Credit = 2
  MaxAttempts = 2
  MaxResets = 1
  MaxSpent = 0
  None = None
CHECK_DEADLOCK FALSE
PROPERTIES
  AttemptsAreLimited
