CONSTANTS
  None = None
  Order = {o1}
  Payment = {p1, p2}
  Note = {}
  Tx = {t1, t2}
  Channel = {"local"}
  Operated = {}
  MaxVersion = 2
  Supply = 1
SPECIFICATION Spec
SYMMETRY Interchangeable
INVARIANTS
  PaidPaymentIsTruthful
  CapturedMoneyIsAccountedFor
  PendingOrderIsUnpaid
  OneActivePayment
  PendingRefundStaysSettleable
PROPERTIES
  CaptureIsFinal
  CancelOnlyWhenSettled
