----------------------- MODULE SettlementSafetyProofs -----------------------
(***************************************************************************)
(* The safety theorems of Settlement: each effect preserves the money      *)
(* invariant, so every step does.                                          *)
(***************************************************************************)
EXTENDS SettlementEffects

LEMMA IdleKeeps ==
  ASSUME TypeOK, MoneyInvariant, Idle
  PROVE  MoneyInvariant'
<1> USE References DEF MoneyInvariant, Idle, KeepsOrder, Wanes, ActiveStatus, CapturedStatus, FundedStatus, OrderStatus, PaymentStatus
<1>1. RowsAgree'
  BY SMTT(30) DEF RowsAgree
<1>2. PaidPaymentIsTruthful'
  BY DEF PaidPaymentIsTruthful, RowsAgree
<1>3. CapturedMoneyIsAccountedFor'
  BY DEF CapturedMoneyIsAccountedFor, RowsAgree, InReview
<1>4. PendingOrderIsUnpaid'
  BY DEF PendingOrderIsUnpaid, RowsAgree
<1>5. OneActivePayment'
  BY DEF OneActivePayment, RowsAgree
<1>6. PendingRefundStaysSettleable'
  BY DEF PendingRefundStaysSettleable, RowsAgree, ValidateRefundSettlement
<1>7. QED BY <1>1, <1>2, <1>3, <1>4, <1>5, <1>6

LEMMA PlacedKeeps ==
  ASSUME TypeOK, MoneyInvariant, NEW o \in Order, Placed(o)
  PROVE  MoneyInvariant'
<1> USE References DEF MoneyInvariant, Placed, MovesTo, KeepsOrder, ActiveStatus, CapturedStatus, FundedStatus, OrderStatus, PaymentStatus
<1>1. RowsAgree'
  BY SMTT(30) DEF RowsAgree
<1>2. PaidPaymentIsTruthful'
  BY SMTT(30) DEF PaidPaymentIsTruthful, RowsAgree
<1>3. CapturedMoneyIsAccountedFor'
  BY DEF CapturedMoneyIsAccountedFor, RowsAgree, InReview
<1>4. PendingOrderIsUnpaid'
  BY DEF PendingOrderIsUnpaid, RowsAgree
<1>5. OneActivePayment'
  BY DEF OneActivePayment, RowsAgree
<1>6. PendingRefundStaysSettleable'
  BY DEF PendingRefundStaysSettleable, RowsAgree, ValidateRefundSettlement
<1>7. QED BY <1>1, <1>2, <1>3, <1>4, <1>5, <1>6, SMTT(30)

LEMMA StartedKeeps ==
  ASSUME TypeOK, MoneyInvariant, NEW o \in Order, NEW p \in Payment, Started(o, p)
  PROVE  MoneyInvariant'
<1> USE References DEF MoneyInvariant, Started, KeepsOrder, Wanes, ActiveStatus, CapturedStatus, FundedStatus, OrderStatus, PaymentStatus
<1>1. RowsAgree'
  BY SMTT(30) DEF RowsAgree
<1>2. PaidPaymentIsTruthful'
  BY SMTT(30) DEF PaidPaymentIsTruthful, RowsAgree
<1>3. CapturedMoneyIsAccountedFor'
  BY SMTT(30) DEF CapturedMoneyIsAccountedFor, RowsAgree, InReview
<1>4. PendingOrderIsUnpaid'
  BY SMTT(30) DEF PendingOrderIsUnpaid, RowsAgree
<1>5. OneActivePayment'
  BY SMTT(30) DEF OneActivePayment, RowsAgree
<1>6. PendingRefundStaysSettleable'
  BY DEF PendingRefundStaysSettleable, RowsAgree, ValidateRefundSettlement
<1>7. QED BY <1>1, <1>2, <1>3, <1>4, <1>5, <1>6, SMTT(30)

LEMMA CancelledKeeps ==
  ASSUME TypeOK, MoneyInvariant, NEW o \in Order, Cancelled(o)
  PROVE  MoneyInvariant'
<1> USE References DEF MoneyInvariant, Cancelled, MovesTo, KeepsOrder, Wanes, ActiveStatus, CapturedStatus, FundedStatus, OrderStatus, PaymentStatus
<1>1. RowsAgree'
  BY SMTT(30) DEF RowsAgree
<1>2. PaidPaymentIsTruthful'
  BY SMTT(30) DEF PaidPaymentIsTruthful, RowsAgree
<1>3. CapturedMoneyIsAccountedFor'
  BY DEF CapturedMoneyIsAccountedFor, RowsAgree, InReview
<1>4. PendingOrderIsUnpaid'
  BY SMTT(30) DEF PendingOrderIsUnpaid, RowsAgree
<1>5. OneActivePayment'
  BY SMTT(30) DEF OneActivePayment, RowsAgree
<1>6. PendingRefundStaysSettleable'
  BY DEF PendingRefundStaysSettleable, RowsAgree, ValidateRefundSettlement
<1>7. QED BY <1>1, <1>2, <1>3, <1>4, <1>5, <1>6, SMTT(30)

LEMMA PaidByKeeps ==
  ASSUME TypeOK, MoneyInvariant, NEW o \in Order, NEW p \in Payment, PaidBy(o, p)
  PROVE  MoneyInvariant'
<1> USE References DEF MoneyInvariant, PaidBy, Captures, MovesTo, KeepsOrder, Wanes, ActiveStatus, CapturedStatus, FundedStatus, OrderStatus, PaymentStatus
<1>1. RowsAgree'
  BY SMTT(30) DEF RowsAgree
<1>2. PaidPaymentIsTruthful'
  BY SMTT(30) DEF PaidPaymentIsTruthful, RowsAgree
<1>3. CapturedMoneyIsAccountedFor'
  BY SMTT(30) DEF CapturedMoneyIsAccountedFor, RowsAgree, InReview, PendingOrderIsUnpaid
<1>4. PendingOrderIsUnpaid'
  BY SMTT(30) DEF PendingOrderIsUnpaid, RowsAgree
<1>5. OneActivePayment'
  BY SMTT(30) DEF OneActivePayment, RowsAgree
<1>6. PendingRefundStaysSettleable'
  BY SMTT(30) DEF PendingRefundStaysSettleable, RowsAgree, PendingOrderIsUnpaid
<1>7. QED BY <1>1, <1>2, <1>3, <1>4, <1>5, <1>6, SMTT(30)

LEMMA CapturedLateKeeps ==
  ASSUME TypeOK, MoneyInvariant, NEW p \in Payment, CapturedLate(p)
  PROVE  MoneyInvariant'
<1> USE References DEF MoneyInvariant, CapturedLate, Captures, KeepsOrder, Wanes, ActiveStatus, CapturedStatus, FundedStatus, OrderStatus, PaymentStatus
<1>1. RowsAgree'
  BY SMTT(30) DEF RowsAgree
<1>2. PaidPaymentIsTruthful'
  BY SMTT(30) DEF PaidPaymentIsTruthful, RowsAgree
<1>3. CapturedMoneyIsAccountedFor'
  BY SMTT(30) DEF CapturedMoneyIsAccountedFor, RowsAgree, InReview
<1>4. PendingOrderIsUnpaid'
  BY SMTT(30) DEF PendingOrderIsUnpaid, RowsAgree
<1>5. OneActivePayment'
  BY SMTT(30) DEF OneActivePayment, RowsAgree
<1>6. PendingRefundStaysSettleable'
  BY SMTT(30) DEF PendingRefundStaysSettleable, RowsAgree, ValidateRefundSettlement
<1>7. QED BY <1>1, <1>2, <1>3, <1>4, <1>5, <1>6, SMTT(30)

LEMMA DispatchedKeeps ==
  ASSUME TypeOK, MoneyInvariant, NEW o \in Order, Dispatched(o)
  PROVE  MoneyInvariant'
<1> USE References DEF MoneyInvariant, Dispatched, MovesTo, KeepsOrder, ActiveStatus, CapturedStatus, FundedStatus, OrderStatus, PaymentStatus
<1>1. RowsAgree'
  BY SMTT(30) DEF RowsAgree
<1>2. PaidPaymentIsTruthful'
  BY SMTT(30) DEF PaidPaymentIsTruthful, RowsAgree
<1>3. CapturedMoneyIsAccountedFor'
  BY SMTT(30) DEF CapturedMoneyIsAccountedFor, RowsAgree, InReview
<1>4. PendingOrderIsUnpaid'
  BY SMTT(30) DEF PendingOrderIsUnpaid, RowsAgree
<1>5. OneActivePayment'
  BY SMTT(30) DEF OneActivePayment, RowsAgree
<1>6. PendingRefundStaysSettleable'
  <2>1. SUFFICES ASSUME NEW q \in Payment, refunds[q].status = "pending"
                 PROVE  /\ payments[q].status = "success"
                        /\ ValidateRefundSettlement(refunds[q].purpose, orders'[payments[q].order].status,
                                                    orders'[payments[q].order].paid, q)
    BY SMTT(30) DEF PendingRefundStaysSettleable
  <2>2. /\ payments[q].status = "success"
        /\ ValidateRefundSettlement(refunds[q].purpose, orders[payments[q].order].status,
                                    orders[payments[q].order].paid, q)
    BY <2>1, SMTT(30) DEF PendingRefundStaysSettleable
  <2>3. CASE payments[q].order # o
    <3>1. payments[q].order \in Order
      BY <2>2, SMTT(30) DEF RowsAgree
    <3>2. QED BY <2>2, <2>3, <3>1, SMTT(30)
  <2>4. CASE payments[q].order = o
    <3>1. orders[o].paid # q /\ orders[o].paid # None
      BY <2>1, SettlementAssumption, SMTT(30)
    <3>2. QED
      BY <2>2, <2>4, <3>1, SMTT(30) DEF ValidateRefundSettlement, DecideRefundPurpose
  <2>5. QED BY <2>3, <2>4, SMTT(30)
<1>7. QED BY <1>1, <1>2, <1>3, <1>4, <1>5, <1>6, SMTT(30)

LEMMA PreparedKeeps ==
  ASSUME TypeOK, MoneyInvariant, NEW p \in Payment, Prepared(p)
  PROVE  MoneyInvariant'
<1> USE References DEF MoneyInvariant, Prepared, ActiveStatus, CapturedStatus, FundedStatus, OrderStatus, PaymentStatus
<1>1. RowsAgree'
  BY SMTT(30) DEF RowsAgree
<1>2. PaidPaymentIsTruthful'
  BY SMTT(30) DEF PaidPaymentIsTruthful, RowsAgree
<1>3. CapturedMoneyIsAccountedFor'
  BY SMTT(30) DEF CapturedMoneyIsAccountedFor, RowsAgree, InReview
<1>4. PendingOrderIsUnpaid'
  BY SMTT(30) DEF PendingOrderIsUnpaid, RowsAgree
<1>5. OneActivePayment'
  BY SMTT(30) DEF OneActivePayment, RowsAgree
<1>6. PendingRefundStaysSettleable'
  BY SMTT(30) DEF PendingRefundStaysSettleable, RowsAgree, ValidateRefundSettlement
<1>7. QED BY <1>1, <1>2, <1>3, <1>4, <1>5, <1>6, SMTT(30)

LEMMA RefusedKeeps ==
  ASSUME TypeOK, MoneyInvariant, NEW p \in Payment, Refused(p)
  PROVE  MoneyInvariant'
<1> USE References DEF MoneyInvariant, Refused, ActiveStatus, CapturedStatus, FundedStatus, OrderStatus, PaymentStatus
<1>1. RowsAgree'
  BY SMTT(30) DEF RowsAgree
<1>2. PaidPaymentIsTruthful'
  BY DEF PaidPaymentIsTruthful, RowsAgree
<1>3. CapturedMoneyIsAccountedFor'
  BY DEF CapturedMoneyIsAccountedFor, RowsAgree, InReview
<1>4. PendingOrderIsUnpaid'
  BY DEF PendingOrderIsUnpaid, RowsAgree
<1>5. OneActivePayment'
  BY DEF OneActivePayment, RowsAgree
<1>6. PendingRefundStaysSettleable'
  BY DEF PendingRefundStaysSettleable, RowsAgree, ValidateRefundSettlement
<1>7. QED BY <1>1, <1>2, <1>3, <1>4, <1>5, <1>6, SMTT(30)

LEMMA SettledKeeps ==
  ASSUME TypeOK, MoneyInvariant, NEW o \in Order, NEW p \in Payment, Settled(o, p)
  PROVE  MoneyInvariant'
<1> USE References DEF MoneyInvariant, ActiveStatus, CapturedStatus, FundedStatus, OrderStatus, PaymentStatus
<1>1. /\ refunds[p] \in RefundRow /\ refunds'[p] = [refunds[p] EXCEPT !.status = "success"]
      /\ \A q \in Payment \ {p} : refunds'[q] = refunds[q]
  BY DEF TypeOK, Settled
<1>2. /\ payments'[p] = [payments[p] EXCEPT !.status = "refunded"] /\ payments[p] \in PaymentRow
      /\ \A q \in Payment \ {p} : payments'[q] = payments[q]
  BY DEF TypeOK, Settled
<1>3. /\ payments'[p].status = "refunded" /\ payments'[p].order = o /\ payments[p].order = o
      /\ payments[p].status = "success"
  BY <1>2 DEF PaymentRow, Settled
<1>4. /\ refunds'[p].status = "success" /\ refunds'[p].purpose = refunds[p].purpose
  BY <1>1 DEF RefundRow
<1>10. refunds'[p] = [status |-> "success", purpose |-> refunds[p].purpose]
  BY <1>1 DEF RefundRow
<1>9. \A q \in Payment : /\ payments'[q].order = payments[q].order /\ payments'[q].recon = payments[q].recon
                         /\ q # p => payments'[q].status = payments[q].status /\ refunds'[q] = refunds[q]
  BY <1>1, <1>2 DEF PaymentRow
<1>5. \A x \in Order \ {o} : KeepsOrder(x)
  BY DEF Settled, MovesTo
<1>6. CASE refunds[p].purpose = OrderCancelRefund
  <2>1. orders[o].status = "paid" /\ orders[o].paid = p /\ orders'[o].status = "refunded" /\ orders'[o].paid = p
    BY <1>6, SMTT(30) DEF Settled, MovesTo, ValidateRefundSettlement, DecideRefundPurpose,
                OrderCancelRefund, DuplicateRefund, LateRefund, Conflict
  <2> USE <1>9, <1>3, <1>4, <1>5, <2>1 DEF KeepsOrder
  <2>2. RowsAgree'
    BY SMTT(30) DEF RowsAgree
  <2>3. PaidPaymentIsTruthful'
    BY <1>6, <1>10, SMTT(30) DEF PaidPaymentIsTruthful, RowsAgree
  <2>4. CapturedMoneyIsAccountedFor'
    BY SMTT(30) DEF CapturedMoneyIsAccountedFor, RowsAgree
  <2>5. PendingOrderIsUnpaid'
    BY SMTT(30) DEF PendingOrderIsUnpaid, RowsAgree
  <2>8. OneActivePayment'
    BY SMTT(30) DEF OneActivePayment, RowsAgree
  <2>6. PendingRefundStaysSettleable'
    <3>1. SUFFICES ASSUME NEW q \in Payment, refunds'[q].status = "pending"
                   PROVE  /\ payments'[q].status = "success"
                          /\ ValidateRefundSettlement(refunds'[q].purpose, orders'[payments'[q].order].status,
                                                      orders'[payments'[q].order].paid, q)
      BY SMTT(30) DEF PendingRefundStaysSettleable
    <3>2. q # p /\ refunds[q].status = "pending" /\ payments[q].status = "success" /\ payments[q].order \in Order
      BY <3>1, SMTT(30) DEF RowsAgree, PendingRefundStaysSettleable
    <3>3. QED
      BY <3>1, <3>2, SMTT(30) DEF PendingRefundStaysSettleable, ValidateRefundSettlement, DecideRefundPurpose,
                        OrderCancelRefund, DuplicateRefund, LateRefund, Conflict
  <2>7. QED BY <2>2, <2>3, <2>4, <2>5, <2>6, <2>8, SMTT(30)
<1>7. CASE refunds[p].purpose # OrderCancelRefund
  <2>1. KeepsOrder(o) /\ orders[o].paid # p
    BY <1>1, <1>7, SMTT(30) DEF RefundRow, Settled, ValidateRefundSettlement, DecideRefundPurpose,
                OrderCancelRefund, DuplicateRefund, LateRefund, Conflict
  <2> USE <1>9, <1>3, <1>4, <1>5, <2>1 DEF KeepsOrder
  <2>2. RowsAgree'
    BY SMTT(30) DEF RowsAgree
  <2>3. PaidPaymentIsTruthful'
    BY SMTT(30) DEF PaidPaymentIsTruthful, RowsAgree
  <2>4. CapturedMoneyIsAccountedFor'
    BY SMTT(30) DEF CapturedMoneyIsAccountedFor, RowsAgree
  <2>5. PendingOrderIsUnpaid'
    BY SMTT(30) DEF PendingOrderIsUnpaid, RowsAgree
  <2>8. OneActivePayment'
    BY SMTT(30) DEF OneActivePayment, RowsAgree
  <2>6. PendingRefundStaysSettleable'
    BY SMTT(30) DEF PendingRefundStaysSettleable, RowsAgree
  <2>7. QED BY <2>2, <2>3, <2>4, <2>5, <2>6, <2>8, SMTT(30)
<1>8. QED BY <1>6, <1>7

LEMMA ResolvedKeeps ==
  ASSUME TypeOK, MoneyInvariant, NEW p \in Payment, Resolved(p)
  PROVE  MoneyInvariant'
<1> USE References DEF MoneyInvariant, Resolved, ActiveStatus, CapturedStatus, FundedStatus, OrderStatus, PaymentStatus
<1>8. payments[p].status = "success" => orders[payments[p].order].paid = p
  BY SMTT(30) DEF CanResolveReconciliation
<1>1. RowsAgree'
  BY SMTT(30) DEF RowsAgree
<1>2. PaidPaymentIsTruthful'
  BY SMTT(30) DEF PaidPaymentIsTruthful, RowsAgree
<1>3. CapturedMoneyIsAccountedFor'
  BY <1>8, SMTT(30) DEF CapturedMoneyIsAccountedFor, RowsAgree, InReview
<1>4. PendingOrderIsUnpaid'
  BY SMTT(30) DEF PendingOrderIsUnpaid, RowsAgree
<1>5. OneActivePayment'
  BY SMTT(30) DEF OneActivePayment, RowsAgree
<1>6. PendingRefundStaysSettleable'
  BY SMTT(30) DEF PendingRefundStaysSettleable, RowsAgree, ValidateRefundSettlement
<1>7. QED BY <1>1, <1>2, <1>3, <1>4, <1>5, <1>6, SMTT(30)

(* The money invariant is preserved by every effect.                       *)
LEMMA EffectKeeps ==
  ASSUME TypeOK, MoneyInvariant, Effect
  PROVE  MoneyInvariant'
  BY SMTT(30), IdleKeeps, PlacedKeeps, StartedKeeps, CancelledKeeps, PaidByKeeps, CapturedLateKeeps,
     DispatchedKeeps, PreparedKeeps, RefusedKeeps, SettledKeeps, ResolvedKeeps DEF Effect

LEMMA InitMoney == Init => MoneyInvariant
  BY SettlementAssumption, SMTT(30) DEF Init, MoneyInvariant, RowsAgree, PaidPaymentIsTruthful,
     CapturedMoneyIsAccountedFor, PendingOrderIsUnpaid, OneActivePayment, PendingRefundStaysSettleable,
     NewPayment, ActiveStatus, CapturedStatus, FundedStatus

(* The money invariant holds throughout, for any number of orders and      *)
(* payments, any provider answers and any interleaving of transactions,    *)
(* workers and crashes.                                                    *)
THEOREM MoneySafe == Spec => []MoneyInvariant
<1>1. TypeOK /\ MoneyInvariant /\ [Next]_vars => MoneyInvariant'
  BY StepHasEffect, EffectKeeps
<1>2. QED BY InitMoney, TypeCorrect, <1>1, PTL DEF Spec

(* Captured money is never lost sight of: it pays for its order, is under  *)
(* review, or has been given back.                                         *)
THEOREM CapturedMoneySafe == Spec => []CapturedMoneyIsAccountedFor
<1>1. MoneyInvariant => CapturedMoneyIsAccountedFor
  BY DEF MoneyInvariant
<1>2. QED BY MoneySafe, <1>1, PTL

(* paid_payment_id always tells the truth.                                 *)
THEOREM PaidPaymentSafe == Spec => []PaidPaymentIsTruthful
<1>1. MoneyInvariant => PaidPaymentIsTruthful
  BY DEF MoneyInvariant
<1>2. QED BY MoneySafe, <1>1, PTL

(* A pending refund can always be settled.                                 *)
THEOREM RefundSettleable == Spec => []PendingRefundStaysSettleable
<1>1. MoneyInvariant => PendingRefundStaysSettleable
  BY DEF MoneyInvariant
<1>2. QED BY MoneySafe, <1>1, PTL

(* Captured payments never lose their status or their transaction id.      *)
THEOREM CaptureFinal == Spec => CaptureIsFinal
<1> DEFINE Final == \A p \in Payment :
                      /\ payments[p].status = "success" => payments'[p].status \in CapturedStatus
                      /\ payments[p].status = "refunded" => payments'[p].status = "refunded"
                      /\ payments[p].status \in CapturedStatus => payments'[p].tx = payments[p].tx
<1>1. TypeOK /\ MoneyInvariant /\ [Next]_vars => [Final]_vars
  <2> SUFFICES ASSUME TypeOK, MoneyInvariant, Effect PROVE Final
    BY StepHasEffect
  <2>1. CASE \A q \in Payment : Wanes(q)
    BY <2>1 DEF Wanes, ActiveStatus, CapturedStatus
  <2>2. ASSUME NEW p \in Payment, Captures(p) PROVE Final
    BY <2>2 DEF Captures, Wanes, ActiveStatus, CapturedStatus
  <2>3. CASE UNCHANGED payments
    BY <2>3 DEF CapturedStatus
  <2>4. ASSUME NEW o \in Order, NEW p \in Payment, Started(o, p) PROVE Final
    BY <2>4 DEF Started, Wanes, ActiveStatus, CapturedStatus
  <2>5. ASSUME NEW o \in Order, NEW p \in Payment, Settled(o, p) PROVE Final
    BY <2>5, SMTT(30) DEF Settled, TypeOK, PaymentRow, CapturedStatus
  <2>6. ASSUME NEW p \in Payment, Resolved(p) PROVE Final
    BY <2>6 DEF Resolved, CapturedStatus
  <2>7. QED BY <2>1, <2>2, <2>3, <2>4, <2>5, <2>6
            DEF Effect, Idle, Placed, Cancelled, Dispatched, PaidBy, CapturedLate, Prepared, Refused
<1>2. QED BY TypeCorrect, MoneySafe, <1>1, PTL DEF Spec, CaptureIsFinal

(* Cancellation only follows settled payments, on all four paths.          *)
THEOREM CancelSettled == Spec => CancelOnlyWhenSettled
<1> DEFINE Proper == \A o \in Order :
                       orders[o].status # "cancelled" /\ orders'[o].status = "cancelled" =>
                         \A p \in Payment : payments'[p].order = o =>
                           /\ payments'[p].status \in {"closed", "failed"}
                           /\ ~ReconciliationNeedsReview(payments'[p].recon)
<1>1. TypeOK /\ MoneyInvariant /\ [Next]_vars => [Proper]_vars
  <2> SUFFICES ASSUME TypeOK, MoneyInvariant, Effect PROVE Proper
    BY StepHasEffect
  <2>1. CASE \A x \in Order : KeepsOrder(x)
    BY <2>1 DEF KeepsOrder
  <2>2. ASSUME NEW o \in Order, NEW s \in OrderStatus \ {"cancelled"}, NEW q, MovesTo(o, s, q) PROVE Proper
    BY <2>2 DEF MovesTo, KeepsOrder
  <2>3. ASSUME NEW o \in Order, Cancelled(o) PROVE Proper
    BY <2>3 DEF Cancelled, MovesTo, KeepsOrder, Wanes, InReview
  <2>4. UNCHANGED orders => Proper
    OBVIOUS
  <2>5. {"pending_payment", "paid", "shipped", "completed", "refunded"} \subseteq OrderStatus \ {"cancelled"}
    BY DEF OrderStatus
  <2>6. QED BY <2>1, <2>2, <2>3, <2>4, <2>5
            DEF Effect, Idle, Placed, Dispatched, Started, PaidBy, Settled, CapturedLate, Prepared,
                Refused, Resolved
<1>2. QED BY TypeCorrect, MoneySafe, <1>1, PTL DEF Spec, CancelOnlyWhenSettled
=============================================================================
