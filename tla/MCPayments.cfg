SPECIFICATION Spec
CONSTANTS
  Payments = {payment1}
  payment1 = payment1
  PaymentEvents = {paid1, paid2}
  RefundEvents = {refund1, refund2}
  payment <- AboutOnePayment
  Workers = {w1, w2}
  PaidMinor = 4
  RefundAmounts = {1, 3}
  Credit = 2
  MaxAttempts = 1
  MaxResets = 1
  MaxSpent = 1
  None = None
SYMMETRY Interchangeable
CHECK_DEADLOCK FALSE
INVARIANTS
  CreditIsPayments
  ReversalIsProportional
  ProcessedIsDone
  DeadIsExhausted
