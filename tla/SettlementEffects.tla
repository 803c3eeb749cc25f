------------------------- MODULE SettlementEffects --------------------------
(***************************************************************************)
(* Every action of Settlement reduced to its effect on the order, payment  *)
(* and refund rows and on stock.  There are eleven kinds of effect; the    *)
(* inductive MoneyInvariant rules out the backstop branches of the code    *)
(* that would add others (StepHasEffect).  The theorems of                 *)
(* SettlementSafetyProofs only look at effects.                            *)
(***************************************************************************)
EXTENDS SettlementTypeProofs

InReview(p) == ReconciliationNeedsReview(payments[p].recon)

KeepsOrder(x) == orders'[x].status = orders[x].status /\ orders'[x].paid = orders[x].paid
MovesTo(o, s, q) ==
  /\ orders'[o].status = s /\ orders'[o].paid = q
  /\ \A x \in Order \ {o} : KeepsOrder(x)

(* A payment that stays as it is, or moves within or out of the active     *)
(* states without capturing money; an open case stays open.                *)
Wanes(q) ==
  /\ payments'[q].order = payments[q].order
  /\ InReview(q) => InReview(q)'
  /\ \/ payments'[q].status = payments[q].status
     \/ payments[q].status \in ActiveStatus /\ payments'[q].status \in ActiveStatus \cup {"failed", "closed"}
  /\ payments[q].status \in CapturedStatus => payments'[q].tx = payments[q].tx

Captures(p) ==
  /\ payments[p].status \notin CapturedStatus \cup {"absent"}
  /\ payments'[p].status = "success" /\ payments'[p].order = payments[p].order
  /\ \A q \in Payment \ {p} : Wanes(q)
  /\ UNCHANGED <<refunds, stock>>

Idle == (\A x \in Order : KeepsOrder(x)) /\ (\A q \in Payment : Wanes(q)) /\ UNCHANGED <<refunds, stock>>

Placed(o) ==
  /\ orders[o].status = "absent" /\ MovesTo(o, "pending_payment", orders[o].paid)
  /\ stock > 0 /\ stock' = stock - 1 /\ UNCHANGED <<payments, refunds>>

Started(o, p) ==
  /\ \A x \in Order : KeepsOrder(x)
  /\ orders[o].status = "pending_payment" /\ payments[p].status = "absent"
  /\ payments'[p].order = o /\ payments'[p].status = "creating"
  /\ \A q \in Payment \ {p} :
       Wanes(q) /\ (payments[q].order = o => payments'[q].status \notin ActiveStatus)
  /\ UNCHANGED <<refunds, stock>>

Cancelled(o) ==
  /\ orders[o].status = "pending_payment" /\ MovesTo(o, "cancelled", orders[o].paid)
  /\ \A q \in Payment :
       Wanes(q) /\ (payments[q].order = o => payments'[q].status \in {"closed", "failed"} /\ ~InReview(q)')
  /\ stock' = stock + 1 /\ UNCHANGED refunds

PaidBy(o, p) ==
  /\ payments[p].order = o /\ orders[o].status = "pending_payment"
  /\ MovesTo(o, "paid", p) /\ Captures(p)

CapturedLate(p) ==
  /\ \A x \in Order : KeepsOrder(x)
  /\ orders[payments[p].order].status # "pending_payment"
  /\ Captures(p) /\ InReview(p)'

Dispatched(o) ==
  /\ \/ orders[o].status = "paid" /\ MovesTo(o, "shipped", orders[o].paid)
     \/ orders[o].status = "shipped" /\ MovesTo(o, "completed", orders[o].paid)
  /\ orders[o].paid \in Payment /\ refunds[orders[o].paid].status \in {"none", "failed"}
  /\ UNCHANGED <<payments, refunds, stock>>

Prepared(p) ==
  LET o == payments[p].order
      purpose == DecideRefundPurpose(orders[o].status, orders[o].paid, p)
  IN  /\ payments[p].status = "success" /\ purpose # Conflict
      /\ refunds' = [refunds EXCEPT ![p] = [status |-> "pending", purpose |-> purpose]]
      /\ UNCHANGED <<orders, payments, stock>>

Refused(p) ==
  /\ refunds[p].status = "pending"
  /\ refunds' = [refunds EXCEPT ![p].status = "failed"]
  /\ UNCHANGED <<orders, payments, stock>>

Settled(o, p) ==
  /\ payments[p].order = o /\ payments[p].status = "success" /\ refunds[p].status # "none"
  /\ ValidateRefundSettlement(refunds[p].purpose, orders[o].status, orders[o].paid, p)
  /\ IF refunds[p].purpose = OrderCancelRefund
     THEN MovesTo(o, "refunded", orders[o].paid) /\ stock' = stock + 1
     ELSE (\A x \in Order : KeepsOrder(x)) /\ UNCHANGED stock
  /\ refunds' = [refunds EXCEPT ![p].status = "success"]
  /\ payments' = [payments EXCEPT ![p].status = "refunded"]

Resolved(p) ==
  /\ InReview(p)
  /\ CanResolveReconciliation(payments[p], p, orders[payments[p].order], refunds[p])
  /\ \A q \in Payment : /\ payments'[q].status = payments[q].status /\ payments'[q].order = payments[q].order
                        /\ payments'[q].tx = payments[q].tx
                        /\ q # p => InReview(q)' = InReview(q)
  /\ UNCHANGED <<orders, refunds, stock>>

Effect ==
  \/ Idle
  \/ \E o \in Order : Placed(o) \/ Cancelled(o) \/ Dispatched(o)
  \/ \E o \in Order, p \in Payment : Started(o, p) \/ PaidBy(o, p) \/ Settled(o, p)
  \/ \E p \in Payment : CapturedLate(p) \/ Prepared(p) \/ Refused(p) \/ Resolved(p)

-----------------------------------------------------------------------------
(* What the types say about the references between rows.                   *)
LEMMA References ==
  ASSUME TypeOK, MoneyInvariant
  PROVE  /\ None \notin Order /\ None \notin Payment
         /\ \A p \in Payment : payments[p].status # "absent" => payments[p].order \in Order
         /\ \A o \in Order : orders[o].paid # None => orders[o].paid \in Payment
         /\ \A o \in Order : orders[o].status \in OrderStatus \ {"cancelling"}
         /\ \A p \in Payment : payments[p].status \in PaymentStatus
<1>1. None \notin Order /\ None \notin Payment
  BY SettlementAssumption
<1>2. \A p \in Payment : payments[p].order \in Order \cup {None} /\ payments[p].status \in PaymentStatus
  BY DEF TypeOK, PaymentRow
<1>3. \A o \in Order : orders[o].paid \in Payment \cup {None} /\ orders[o].status \in OrderStatus
  BY DEF TypeOK, OrderRow
<1>4. QED BY <1>1, <1>2, <1>3 DEF MoneyInvariant, RowsAgree

-----------------------------------------------------------------------------
(* Every action has one of the effects.                                    *)

(* A transaction that touches no order, payment, refund or product row.    *)
LEMMA UnchangedIdle ==
  ASSUME UNCHANGED <<orders, payments, refunds, stock>>
  PROVE  Idle
  BY DEF Idle, KeepsOrder, Wanes, InReview

(* A transaction that rewrites one payment row within its fact state.      *)
LEMMA RowWanes ==
  ASSUME TypeOK, NEW p \in Payment, NEW r, payments' = [payments EXCEPT ![p] = r],
         r.order = payments[p].order, r.tx = payments[p].tx,
         InReview(p) => ReconciliationNeedsReview(r.recon),
         \/ r.status = payments[p].status
         \/ payments[p].status \in ActiveStatus /\ r.status \in ActiveStatus \cup {"failed", "closed"}
  PROVE  \A q \in Payment : Wanes(q)
<1>1. payments'[p] = r /\ \A q \in Payment \ {p} : payments'[q] = payments[q]
  BY DEF TypeOK
<1>2. Wanes(p)
  BY <1>1 DEF Wanes, InReview
<1>3. QED BY <1>1, <1>2 DEF Wanes, InReview

LEMMA RowIdle ==
  ASSUME TypeOK, NEW p \in Payment, NEW r, payments' = [payments EXCEPT ![p] = r],
         r.order = payments[p].order, r.tx = payments[p].tx,
         InReview(p) => ReconciliationNeedsReview(r.recon),
         \/ r.status = payments[p].status
         \/ payments[p].status \in ActiveStatus /\ r.status \in ActiveStatus \cup {"failed", "closed"},
         UNCHANGED <<orders, refunds, stock>>
  PROVE  Idle
  BY RowWanes DEF Idle, KeepsOrder

(* Opening or reopening a case changes nothing but the review columns.     *)
LEMMA RequireIdle ==
  ASSUME TypeOK, NEW p \in Payment, NEW row \in PaymentRow, NEW reason \in {"other"} \cup ExactReason,
         row.status = payments[p].status, row.order = payments[p].order, row.tx = payments[p].tx,
         RequirePaymentReconciliation(p, row, reason), UNCHANGED <<orders, refunds, stock>>
  PROVE  Idle
<1>1. PICK r \in RequiredRows(row, reason) : payments' = [payments EXCEPT ![p] = r]
  BY DEF RequirePaymentReconciliation
<1>2. /\ r.status = payments[p].status /\ r.order = payments[p].order /\ r.tx = payments[p].tx
      /\ ReconciliationNeedsReview(r.recon)
  BY RequiredRowsOpened DEF Opened
<1>3. QED BY <1>1, <1>2, RowIdle

(* The row a terminal provider answer leaves: its lease is gone.           *)
LEMMA UnleasedRow ==
  ASSUME NEW row \in PaymentRow, NEW s, NEW tx
  PROVE  /\ LET r == [Unleased(row) EXCEPT !.status = s]
            IN  r.status = s /\ r.order = row.order /\ r.tx = row.tx /\ r.recon = row.recon
         /\ LET r == [Unleased(row) EXCEPT !.status = s, !.tx = tx]
            IN  r.status = s /\ r.order = row.order /\ r.tx = tx /\ r.recon = row.recon
  BY DEF Unleased, PaymentRow

LEMMA OrderMoves ==
  ASSUME TypeOK, NEW o \in Order, NEW s
  PROVE  /\ orders' = [orders EXCEPT ![o].status = s] => MovesTo(o, s, orders[o].paid)
         /\ \A q : orders' = [orders EXCEPT ![o].status = s, ![o].paid = q] => MovesTo(o, s, q)
  BY DEF TypeOK, OrderRow, MovesTo, KeepsOrder

LEMMA RecoveredWanes ==
  ASSUME TypeOK, NEW o, NEW q \in Payment, payments'[q] = RecoverUnsupportedPayments(o)[q]
  PROVE  Wanes(q) /\ payments'[q].recon = payments[q].recon
<1>1. payments[q] \in PaymentRow
  BY DEF TypeOK
<1>2. CASE payments'[q] = payments[q]
  BY <1>2 DEF Wanes, InReview
<1>3. CASE /\ payments[q].status \in ActiveStatus
           /\ payments'[q] = [payments[q] EXCEPT !.status = "failed"]
  BY <1>1, <1>3, SMTT(30) DEF Wanes, InReview, PaymentRow, ActiveStatus, CapturedStatus
<1>4. QED BY <1>2, <1>3, RecoveredType

(* A verified SUCCESS pays a waiting order or opens a case; its "keep"     *)
(* branch is unreachable, since a funded order has its own captured payment. *)
LEMMA ApplySuccessEffect ==
  ASSUME TypeOK, MoneyInvariant, NEW p \in Payment, NEW tx \in Tx, payments[p].status # "absent",
         ApplySuccess(p, tx)
  PROVE  Effect
<1> DEFINE row == payments[p]
           o == row.order
           otherSuccess == \E q \in PaymentsOf(o) \ {p} : payments[q].status \in CapturedStatus
           decision == DecidePaymentSuccess(orders[o].status, otherSuccess)
           captured == [Unleased(row) EXCEPT !.status = "success", !.tx = tx]
<1>1. row \in PaymentRow /\ o \in Order
  BY References DEF TypeOK
<1>2. CASE UNCHANGED rows
  BY <1>2, UnchangedIdle DEF rows, Effect
<1>3. CASE RequirePaymentReconciliation(p, row, "other") /\ UNCHANGED <<orders, refunds, stock>>
  BY <1>1, <1>3, RequireIdle, ReasonsTyped DEF Effect
<1>4. CASE /\ row.status \notin CapturedStatus
           /\ decision # Conflict
           /\ orders' = IF decision = "pay" THEN [orders EXCEPT ![o].status = "paid", ![o].paid = p] ELSE orders
           /\ IF decision = "review" THEN RequirePaymentReconciliation(p, captured, "other")
                                     ELSE payments' = [payments EXCEPT ![p] = captured]
           /\ UNCHANGED <<refunds, stock>>
  <2>1. /\ captured.status = "success" /\ captured.order = o /\ captured.recon = row.recon
    BY <1>1, UnleasedRow
  <2>7. captured \in PaymentRow
    <3>1. "success" \in PaymentStatus
      BY DEF PaymentStatus
    <3>2. QED BY <1>1, <3>1, UnleasedType
  <2>2. \A q \in Payment \ {p} : payments'[q] = payments[q] => Wanes(q)
    BY DEF Wanes, InReview
  <2>3. CASE decision = "pay"
    <3>1. orders[o].status = "pending_payment"
      BY <2>3, SMTT(30) DEF DecidePaymentSuccess, Conflict
    <3>2. MovesTo(o, "paid", p)
      BY <1>1, <1>4, <2>3, OrderMoves
    <3>3. payments' = [payments EXCEPT ![p] = captured]
      BY <1>4, <2>3
    <3> HIDE DEF captured
    <3>4. Captures(p)
      BY <1>4, <2>1, <2>2, <3>3 DEF Captures, TypeOK
    <3>5. QED BY <1>1, <3>1, <3>2, <3>4 DEF PaidBy, Effect
  <2>4. CASE decision = "review"
    <3>1. orders[o].status # "pending_payment"
      <4>1. CASE otherSuccess
        BY <4>1 DEF MoneyInvariant, PendingOrderIsUnpaid, PaymentsOf
      <4>2. CASE ~otherSuccess
        BY <2>4, <4>2 DEF DecidePaymentSuccess, Conflict
      <4>3. QED BY <4>1, <4>2
    <3> HIDE DEF captured
    <3>2. PICK r \in RequiredRows(captured, "other") : payments' = [payments EXCEPT ![p] = r]
      BY <1>4, <2>4 DEF RequirePaymentReconciliation
    <3>3. r.status = "success" /\ r.order = o /\ ReconciliationNeedsReview(r.recon)
      BY <2>1, <2>7, <3>2, RequiredRowsOpened, ReasonsTyped DEF Opened
    <3>4. Captures(p) /\ InReview(p)'
      BY <1>4, <2>2, <3>2, <3>3, SMTT(30) DEF Captures, TypeOK, InReview
    <3>5. QED BY <1>4, <2>4, <3>1, <3>4 DEF CapturedLate, Effect, KeepsOrder
  <2>5. CASE decision \notin {"pay", "review"}
    <3>1. ~otherSuccess /\ orders[o].status \in FundedStatus
      BY <1>4, <2>5 DEF DecidePaymentSuccess
    <3>2. orders[o].paid \in Payment /\ payments[orders[o].paid].order = o
            /\ payments[orders[o].paid].status = "success"
      BY <1>1, <3>1, References, SMTT(30) DEF MoneyInvariant, PaidPaymentIsTruthful
    <3>3. QED BY <1>4, <3>1, <3>2, SMTT(30) DEF PaymentsOf, CapturedStatus
  <2>6. QED BY <2>3, <2>4, <2>5
<1>5. QED BY <1>2, <1>3, <1>4 DEF ApplySuccess

(* A payment going inactive cancels its order or leaves it alone; the      *)
(* healing branch is unreachable.                                          *)
LEMMA FinalizeOrderEffect ==
  ASSUME TypeOK, MoneyInvariant, NEW p \in Payment, payments[p].status # "absent",
         FinalizeOrderAfterPaymentInactive(payments[p].order, p),
         \A q \in Payment : Wanes(q), \A q \in Payment \ {p} : payments'[q] = payments[q],
         payments'[p].status \in {"closed", "failed"}, payments'[p].recon = payments[p].recon,
         UNCHANGED refunds
  PROVE  Effect
<1> DEFINE o == payments[p].order
           others == PaymentsOf(o) \ {p}
           successful == {q \in others : payments[q].status = "success"
                                           /\ ~ReconciliationNeedsReview(payments[q].recon)}
           hasActive == \E q \in others : payments[q].status \in ActiveStatus
           hasReconciliation == \E q \in others \cup {p} : ReconciliationNeedsReview(payments[q].recon)
<1>1. o \in Order
  BY References
<1>2. CASE orders[o].status = "pending_payment" /\ successful = {} /\ ~hasActive /\ ~hasReconciliation
  <2>1. MovesTo(o, "cancelled", orders[o].paid) /\ stock' = stock + 1
    BY <1>1, <1>2, OrderMoves DEF FinalizeOrderAfterPaymentInactive, CancelAndRestore
  <2>2. ASSUME NEW q \in Payment, payments[q].order = o
        PROVE  payments'[q].status \in {"closed", "failed"} /\ ~InReview(q)'
    <3>1. CASE q = p
      BY <1>2, <3>1 DEF InReview
    <3>2. CASE q # p
      <4>1. q \in others /\ payments[q].status \in PaymentStatus /\ payments[q].status # "absent"
        BY <1>1, <2>2, <3>2, References DEF PaymentsOf, MoneyInvariant, RowsAgree
      <4>2. payments[q].status \notin CapturedStatus
        BY <1>2, <2>2 DEF MoneyInvariant, PendingOrderIsUnpaid
      <4>3. payments[q].status \notin ActiveStatus /\ ~ReconciliationNeedsReview(payments[q].recon)
        BY <1>2, <4>1
      <4>4. QED BY <3>2, <4>1, <4>2, <4>3 DEF PaymentStatus, ActiveStatus, CapturedStatus, InReview
    <3>3. QED BY <3>1, <3>2
  <2>3. QED BY <1>1, <1>2, <2>1, <2>2, SMTT(30) DEF Cancelled, Effect
<1>3. CASE UNCHANGED <<orders, stock>>
  BY <1>3 DEF Idle, KeepsOrder, Effect
<1>4. CASE orders[o].status = "pending_payment" /\ successful # {}
  BY <1>4 DEF MoneyInvariant, PendingOrderIsUnpaid, PaymentsOf, CapturedStatus
<1>5. QED BY <1>2, <1>3, <1>4 DEF FinalizeOrderAfterPaymentInactive

LEMMA ApplyClosedEffect ==
  ASSUME TypeOK, MoneyInvariant, NEW p \in Payment, payments[p].status # "absent",
         NEW s \in {"closed", "failed"}, payments[p].status \in ActiveStatus,
         payments' = [payments EXCEPT ![p] = [Unleased(payments[p]) EXCEPT !.status = s]],
         FinalizeOrderAfterPaymentInactive(payments[p].order, p) \/ UNCHANGED <<orders, stock>>,
         UNCHANGED refunds
  PROVE  Effect
<1> DEFINE r == [Unleased(payments[p]) EXCEPT !.status = s]
<1>1. r.status = s /\ r.order = payments[p].order /\ r.tx = payments[p].tx /\ r.recon = payments[p].recon
  BY UnleasedRow DEF TypeOK
<1>2. payments' = [payments EXCEPT ![p] = r]
  OBVIOUS
<1> HIDE DEF r
<1>3. \A q \in Payment : Wanes(q)
  BY <1>1, <1>2, RowWanes DEF InReview
<1>4. payments'[p] = r /\ \A q \in Payment \ {p} : payments'[q] = payments[q]
  BY <1>2 DEF TypeOK
<1>5. CASE FinalizeOrderAfterPaymentInactive(payments[p].order, p)
  BY <1>1, <1>3, <1>4, <1>5, FinalizeOrderEffect
<1>6. CASE UNCHANGED <<orders, stock>>
  BY <1>3, <1>6 DEF Idle, KeepsOrder, Effect
<1>7. QED BY <1>5, <1>6

LEMMA ApplyPayErrorEffect ==
  ASSUME TypeOK, MoneyInvariant, NEW p \in Payment, payments[p].status # "absent",
         NEW closing, ApplyPayError(p, closing)
  PROVE  Effect
<1>1. /\ FinalizeOrderAfterPaymentInactive(payments[p].order, p) \/ UNCHANGED <<orders, stock>>
      /\ UNCHANGED refunds
      /\ payments[p].status \in ActiveStatus \cup {"failed", "closed"}
  BY DEF ApplyPayError
<1>2. CASE payments[p].status \in ActiveStatus
  <2>1. payments' = [payments EXCEPT ![p] = [Unleased(payments[p]) EXCEPT !.status = "failed"]]
    BY <1>2 DEF ApplyPayError
  <2>2. QED BY <1>1, <1>2, <2>1, ApplyClosedEffect
<1>3. CASE payments[p].status \notin ActiveStatus
  <2>1. UNCHANGED payments
    BY <1>3 DEF ApplyPayError
  <2>2. \A q \in Payment : Wanes(q)
    BY <2>1 DEF Wanes, InReview
  <2>3. CASE FinalizeOrderAfterPaymentInactive(payments[p].order, p)
    BY <1>1, <1>3, <2>1, <2>2, <2>3, FinalizeOrderEffect
  <2>4. CASE UNCHANGED <<orders, stock>>
    BY <1>1, <2>2, <2>4 DEF Idle, KeepsOrder, Effect
  <2>5. QED BY <1>1, <2>3, <2>4
<1>4. QED BY <1>2, <1>3

LEMMA SettleRefundEffect ==
  ASSUME TypeOK, MoneyInvariant, NEW p \in Payment, refunds[p].status # "none", SettlePaymentRefund(p)
  PROVE  Effect
<1> DEFINE o == payments[p].order
<1>1. CASE UNCHANGED rows
  BY <1>1, UnchangedIdle DEF rows, Effect
<1>2. CASE /\ payments[p].status = "success"
           /\ ValidateRefundSettlement(refunds[p].purpose, orders[o].status, orders[o].paid, p)
           /\ IF refunds[p].purpose = OrderCancelRefund
              THEN orders' = [orders EXCEPT ![o].status = "refunded"] /\ stock' = stock + 1
              ELSE UNCHANGED <<orders, stock>>
           /\ refunds' = [refunds EXCEPT ![p].status = "success"]
           /\ payments' = [payments EXCEPT ![p].status = "refunded"]
  <2>1. o \in Order
    BY <1>2, References
  <2>2. IF refunds[p].purpose = OrderCancelRefund
        THEN MovesTo(o, "refunded", orders[o].paid) /\ stock' = stock + 1
        ELSE (\A x \in Order : KeepsOrder(x)) /\ UNCHANGED stock
    BY <1>2, <2>1, OrderMoves DEF KeepsOrder
  <2>3. Settled(o, p)
    BY <1>2, <2>2 DEF Settled
  <2>4. QED BY <2>1, <2>3 DEF Effect
<1>3. QED BY <1>1, <1>2 DEF SettlePaymentRefund

LEMMA ProviderRefundEffect ==
  ASSUME TypeOK, MoneyInvariant, NEW p \in Payment, ApplyProviderRefund(p)
  PROVE  Effect
<1>1. CASE UNCHANGED rows
  BY <1>1, UnchangedIdle DEF rows, Effect
<1>2. CASE /\ RequirePaymentReconciliation(p, [payments[p] EXCEPT !.refundReported = TRUE],
                                           "provider_side_refund")
           /\ UNCHANGED <<orders, refunds, stock>>
  <2> DEFINE row == [payments[p] EXCEPT !.refundReported = TRUE]
  <2>1. /\ row \in PaymentRow /\ row.status = payments[p].status
        /\ row.order = payments[p].order /\ row.tx = payments[p].tx
    BY ZenonT(30) DEF TypeOK, PaymentRow
  <2>2. "provider_side_refund" \in {"other"} \cup ExactReason
    BY DEF ExactReason
  <2>3. RequirePaymentReconciliation(p, row, "provider_side_refund")
    BY <1>2
  <2> HIDE DEF row
  <2>4. QED BY <1>2, <2>1, <2>2, <2>3, RequireIdle DEF Effect
<1>3. CASE refunds[p].status # "none" /\ SettlePaymentRefund(p)
  BY <1>3, SettleRefundEffect
<1>4. QED BY <1>1, <1>2, <1>3 DEF ApplyProviderRefund

LEMMA ApplyPayQueryEffect ==
  ASSUME TypeOK, MoneyInvariant, NEW p \in Payment, NEW args, NEW result \in ProviderResult,
         ApplyPayQuery(p, args, result)
  PROVE  Effect
<1>0. payments[p].status # "absent" /\ payments[p] \in PaymentRow
  BY DEF ApplyPayQuery, TypeOK
<1>1. CASE RequirePaymentReconciliation(p, payments[p], "other") /\ UNCHANGED <<orders, refunds, stock>>
  BY <1>0, <1>1, RequireIdle, ReasonsTyped DEF Effect
<1>2. CASE result.match /\ result.state = "SUCCESS" /\ ApplySuccess(p, result.tx)
  <2>1. result.tx \in Tx
    BY <1>2 DEF ProviderResult, Answer
  <2>2. QED BY <1>0, <1>2, <2>1, ApplySuccessEffect
<1>3. CASE ApplyClosed(p, result.tx)
  <2>1. CASE UNCHANGED rows
    BY <2>1, UnchangedIdle DEF rows, Effect
  <2>2. CASE ~UNCHANGED rows
    <3>1. /\ payments[p].status \in ActiveStatus
          /\ payments' = [payments EXCEPT ![p] = [Unleased(payments[p]) EXCEPT !.status = "closed"]]
          /\ FinalizeOrderAfterPaymentInactive(payments[p].order, p)
          /\ UNCHANGED refunds
      BY <1>3, <2>2 DEF ApplyClosed
    <3>2. QED BY <1>0, <3>1, ApplyClosedEffect
  <2>3. QED BY <2>1, <2>2
<1>4. CASE ApplyPayError(p, args.closing)
  BY <1>0, <1>4, ApplyPayErrorEffect
<1>5. CASE ApplyProviderRefund(p)
  BY <1>5, ProviderRefundEffect
<1>6. QED BY <1>1, <1>2, <1>3, <1>4, <1>5 DEF ApplyPayQuery

LEMMA RecoveredStatus ==
  ASSUME TypeOK, NEW o, NEW q \in Payment
  PROVE  LET r == RecoverUnsupportedPayments(o)[q]
         IN  /\ payments[q].status # "absent" => r.status \in PaymentStatus \ {"absent"}
             /\ r.status \in ActiveStatus => r = payments[q]
<1> DEFINE r == RecoverUnsupportedPayments(o)[q]
<1>1. r = payments[q] \/ r = [payments[q] EXCEPT !.status = "failed"]
  BY RecoveredType
<1>2. payments[q] \in PaymentRow
  BY DEF TypeOK
<1> HIDE DEF r
<1>3. CASE r = payments[q]
  BY <1>2, <1>3 DEF PaymentRow, r
<1>4. CASE r = [payments[q] EXCEPT !.status = "failed"]
  <2>1. r.status = "failed"
    BY <1>2, <1>4 DEF PaymentRow
  <2>2. QED BY <2>1 DEF PaymentStatus, ActiveStatus, r
<1>5. QED BY <1>1, <1>3, <1>4

-----------------------------------------------------------------------------
LEMMA ExpireOrderEffect ==
  ASSUME TypeOK, MoneyInvariant, NEW o \in Order, NEW left, orders[o].status = "pending_payment",
         ExpirePendingOrder(o, left), UNCHANGED refunds
  PROVE  Effect
<1> DEFINE rec == RecoverUnsupportedPayments(o)
           captured == {p \in PaymentsOf(o) : rec[p].status \in CapturedStatus}
           open == {p \in PaymentsOf(o) : rec[p].status \in ActiveStatus}
<1>0. \A p \in Payment : rec[p] \in PaymentRow
  BY RecoveredType
<1>1. captured = {}
  <2>1. ASSUME NEW p \in Payment, payments[p].order = o, rec[p].status \in CapturedStatus
        PROVE  FALSE
    <3>1. rec[p] = payments[p] \/ rec[p] = [payments[p] EXCEPT !.status = "failed"]
      BY RecoveredType
    <3>2. payments[p].status \in CapturedStatus
      BY <2>1, <3>1 DEF TypeOK, PaymentRow, CapturedStatus
    <3>3. QED BY <2>1, <3>2 DEF MoneyInvariant, PendingOrderIsUnpaid
  <2>2. QED BY <2>1 DEF PaymentsOf
<1>2. CASE /\ payments' = [p \in Payment |-> IF p \in open THEN [rec[p] EXCEPT !.status = "close_pending"]
                                                         ELSE rec[p]]
           /\ UNCHANGED <<orders, stock>>
  <2>1. ASSUME NEW q \in Payment PROVE Wanes(q)
    <3>1. CASE q \notin open
      BY <1>2, <3>1, RecoveredWanes
    <3>2. CASE q \in open
      <4>1. rec[q] = payments[q] /\ payments[q].status \in ActiveStatus
        BY <3>2, RecoveredStatus DEF PaymentsOf
      <4>2. payments'[q] = [payments[q] EXCEPT !.status = "close_pending"]
        BY <1>2, <3>2, <4>1
      <4>3. QED BY <4>1, <4>2 DEF Wanes, InReview, TypeOK, PaymentRow, ActiveStatus, CapturedStatus
    <3>3. QED BY <3>1, <3>2
  <2>2. QED BY <1>2, <2>1 DEF Idle, KeepsOrder, Effect
<1>3. CASE open = {} /\ payments' = rec /\ CancelAndRestore(o)
  <2>1. MovesTo(o, "cancelled", orders[o].paid) /\ stock' = stock + 1
    BY <1>3, OrderMoves DEF CancelAndRestore
  <2>2. ASSUME NEW q \in Payment
        PROVE  Wanes(q) /\ (payments[q].order = o => payments'[q].status \in {"closed", "failed"} /\ ~InReview(q)')
    <3>1. Wanes(q) /\ payments'[q] = rec[q]
      BY <1>3, RecoveredWanes
    <3>2. ASSUME payments[q].order = o
          PROVE  payments'[q].status \in {"closed", "failed"} /\ ~InReview(q)'
      <4>1. /\ rec[q].status \notin CapturedStatus \cup ActiveStatus
            /\ ~ReconciliationNeedsReview(rec[q].recon)
        BY <1>1, <1>3, <3>2 DEF ExpirePendingOrder, PaymentsOf
      <4>2. rec[q].status \in PaymentStatus \ {"absent"}
        <5>1. payments[q].status # "absent"
          BY <3>2, References DEF MoneyInvariant, RowsAgree
        <5>2. QED BY <5>1, RecoveredStatus
      <4> HIDE DEF rec
      <4>3. QED BY <3>1, <4>1, <4>2 DEF PaymentStatus, ActiveStatus, CapturedStatus, InReview
    <3>3. QED BY <3>1, <3>2
  <2>3. Cancelled(o)
    BY <2>1, <2>2 DEF Cancelled
  <2>4. QED BY <2>3 DEF Effect
<1>4. QED BY <1>1, <1>2, <1>3 DEF ExpirePendingOrder

LEMMA OrderStepEffect ==
  ASSUME TypeOK, MoneyInvariant, NEW o \in Order, OrderStep(o)
  PROVE  Effect
<1>1. CASE CreateOrder(o)
  <2>1. MovesTo(o, "pending_payment", orders[o].paid)
    BY <1>1, OrderMoves DEF CreateOrder
  <2>2. QED BY <1>1, <2>1 DEF CreateOrder, Placed, Effect
<1>2. CASE PaymentWindowEnds(o)
  <2>1. \A x \in Order : KeepsOrder(x)
    BY <1>2 DEF PaymentWindowEnds, KeepsOrder, TypeOK, OrderRow
  <2>2. QED BY <1>2, <2>1 DEF PaymentWindowEnds, Idle, Wanes, InReview, Effect
<1>3. CASE CancelOrderByUser(o)
  <2> DEFINE rec == RecoverUnsupportedPayments(o)
  <2>1. MovesTo(o, "cancelled", orders[o].paid) /\ stock' = stock + 1
    BY <1>3, OrderMoves DEF CancelOrderByUser, CancelAndRestore
  <2>2. ASSUME NEW q \in Payment
        PROVE  Wanes(q) /\ (payments[q].order = o => payments'[q].status \in {"closed", "failed"} /\ ~InReview(q)')
    <3>1. Wanes(q) /\ payments'[q] = rec[q]
      BY <1>3, RecoveredWanes DEF CancelOrderByUser
    <3>2. ASSUME payments[q].order = o
          PROVE  payments'[q].status \in {"closed", "failed"} /\ ~InReview(q)'
      <4>1. /\ rec[q].status \notin CapturedStatus \cup ActiveStatus
            /\ ~ReconciliationNeedsReview(rec[q].recon)
        BY <1>3, <3>2 DEF CancelOrderByUser, PaymentsOf
      <4>2. rec[q].status \in PaymentStatus \ {"absent"}
        <5>1. payments[q].status # "absent"
          BY <3>2, References DEF MoneyInvariant, RowsAgree
        <5>2. QED BY <5>1, RecoveredStatus
      <4> HIDE DEF rec
      <4>3. QED BY <3>1, <4>1, <4>2 DEF PaymentStatus, ActiveStatus, CapturedStatus, InReview
    <3>3. QED BY <3>1, <3>2
  <2>3. Cancelled(o)
    BY <1>3, <2>1, <2>2 DEF Cancelled, CancelOrderByUser
  <2>4. QED BY <2>3 DEF Effect
<1>4. CASE ExpireOrder(o)
  <2>1. CASE UNCHANGED rows
    BY <2>1, UnchangedIdle DEF rows, Effect
  <2>2. CASE ~UNCHANGED rows
    <3>1. \E left : orders[o].status = "pending_payment" /\ ExpirePendingOrder(o, left) /\ UNCHANGED refunds
      BY <1>4, <2>2 DEF ExpireOrder
    <3>2. QED BY <3>1, ExpireOrderEffect
  <2>3. QED BY <2>1, <2>2
<1>5. CASE Ship(o) \/ Complete(o)
  <2>1. PICK from \in {"paid", "shipped"}, to \in {"shipped", "completed"} :
          /\ (from = "paid" /\ to = "shipped") \/ (from = "shipped" /\ to = "completed")
          /\ ApplyFulfillment(o, from, to)
    BY <1>5 DEF Ship, Complete
  <2>2. MovesTo(o, to, orders[o].paid) /\ orders[o].paid \in Payment
    BY <2>1, OrderMoves, References DEF ApplyFulfillment
  <2>3. Dispatched(o)
    BY <2>1, <2>2 DEF ApplyFulfillment, Dispatched
  <2>4. QED BY <2>3 DEF Effect
<1>6. QED BY <1>1, <1>2, <1>3, <1>4, <1>5 DEF OrderStep

LEMMA ClosePendingIdle ==
  ASSUME TypeOK, NEW p \in Payment, NEW ver, NEW note, NEW left, MarkPayClosePending(p, ver, note, left)
  PROVE  Idle
<1> DEFINE r == [payments[p] EXCEPT !.status = "close_pending"]
<1>1. /\ r.order = payments[p].order /\ r.tx = payments[p].tx /\ r.recon = payments[p].recon
      /\ r.status = "close_pending"
  BY DEF TypeOK, PaymentRow
<1>2. payments' = [payments EXCEPT ![p] = r] /\ UNCHANGED <<orders, refunds, stock>>
  BY DEF MarkPayClosePending
<1>3. payments[p].status \in ActiveStatus /\ "close_pending" \in ActiveStatus
  BY DEF MarkPayClosePending, ActiveStatus
<1> HIDE DEF r
<1>4. QED BY <1>1, <1>2, <1>3, RowIdle DEF InReview

LEMMA PaymentStepEffect ==
  ASSUME TypeOK, MoneyInvariant, NEW p \in Payment, PaymentStep(p)
  PROVE  Effect
<1> DEFINE row == payments[p]
<1>a. row \in PaymentRow
  BY DEF TypeOK
<1>1. ASSUME NEW o \in Order, NEW channel \in Channel, CreatePayment(o, p, channel)
      PROVE  Effect
  <2> DEFINE rec == RecoverUnsupportedPayments(o)
             new == [NewPayment EXCEPT !.order = o, !.channel = channel, !.status = "creating"]
  <2>1. new.order = o /\ new.status = "creating"
    BY DEF NewPayment
  <2>2. rec \in [Payment -> PaymentRow] /\ payments' = [rec EXCEPT ![p] = new]
    BY <1>1, RecoveredType DEF CreatePayment
  <2> HIDE DEF new
  <2>3. payments'[p] = new /\ \A q \in Payment \ {p} : payments'[q] = rec[q]
    BY <2>2
  <2>4. ASSUME NEW q \in Payment \ {p}
        PROVE  Wanes(q) /\ (payments[q].order = o => payments'[q].status \notin ActiveStatus)
    BY <1>1, <2>3, RecoveredWanes, SMTT(30) DEF CreatePayment, PaymentsOf
  <2>5. Started(o, p)
    BY <1>1, <2>1, <2>3, <2>4 DEF Started, CreatePayment, KeepsOrder
  <2>6. QED BY <2>5 DEF Effect
<1>2. CASE ClaimPaymentPrepay(p) \/ PrepayLeaseLapses(p) \/ RecordPaymentPrepayError(p)
  <2>1. PICK v \in {"live", "lapsed", "released"} : payments' = [payments EXCEPT ![p].prepay = v]
    BY <1>2 DEF ClaimPaymentPrepay, PrepayLeaseLapses, RecordPaymentPrepayError
  <2> DEFINE r == [row EXCEPT !.prepay = v]
  <2>2. r.order = row.order /\ r.tx = row.tx /\ r.recon = row.recon /\ r.status = row.status
    BY <1>a DEF PaymentRow
  <2>3. payments' = [payments EXCEPT ![p] = r] /\ UNCHANGED <<orders, refunds, stock>>
    BY <1>2, <2>1 DEF ClaimPaymentPrepay, PrepayLeaseLapses, RecordPaymentPrepayError
  <2> HIDE DEF r
  <2>4. QED BY <2>2, <2>3, RowIdle DEF InReview, Effect
<1>3. CASE FinalizePaymentPrepay(p)
  <2> DEFINE r == [row EXCEPT !.status = "pending", !.prepay = "issued"]
  <2>1. r.order = row.order /\ r.tx = row.tx /\ r.recon = row.recon /\ r.status = "pending"
    BY <1>a DEF PaymentRow
  <2>2. payments' = [payments EXCEPT ![p] = r]
    BY <1>3 DEF FinalizePaymentPrepay, TypeOK
  <2>3. row.status \in ActiveStatus /\ "pending" \in ActiveStatus /\ UNCHANGED <<orders, refunds, stock>>
    BY <1>3 DEF FinalizePaymentPrepay, ActiveStatus
  <2> HIDE DEF r
  <2>4. QED BY <2>1, <2>2, <2>3, RowIdle DEF InReview, Effect
<1>4. ASSUME NEW result \in ProviderResult, ApiResult(p, result)
      PROVE  Effect
  BY <1>4, ApplyPayQueryEffect DEF ApiResult
<1>5. CASE ClosePayment(p)
  BY <1>5, ClosePendingIdle DEF ClosePayment, Effect
<1>6. CASE CreateCheckJob(p)
  BY <1>6, UnchangedIdle, SMTT(30) DEF CreateCheckJob, Effect
<1>7. CASE NotificationMismatch(p)
  BY <1>7, <1>a, ReasonsTyped, RequireIdle, SMTT(30) DEF NotificationMismatch, Effect
<1>8. ASSUME NEW n \in Note, HandleNotification(p, n)
      PROVE  Effect
  BY <1>8, UnchangedIdle DEF HandleNotification, rows, Effect
<1>9. CASE PreparePaymentRefund(p)
  <2> DEFINE purpose == DecideRefundPurpose(orders[row.order].status, orders[row.order].paid, p)
  <2>1. purpose # Conflict
    <3>1. purpose # Conflict \/ purpose = refunds[p].purpose
      BY <1>9 DEF PreparePaymentRefund
    <3>2. refunds[p].purpose \in {"none", OrderCancelRefund, DuplicateRefund, LateRefund}
      BY DEF TypeOK, RefundRow
    <3>3. Conflict \notin {"none", OrderCancelRefund, DuplicateRefund, LateRefund}
      BY SMTT(30) DEF Conflict, OrderCancelRefund, DuplicateRefund, LateRefund
    <3> HIDE DEF purpose
    <3>4. QED BY <3>1, <3>2, <3>3, SMTT(30)
  <2>2. Prepared(p)
    BY <1>9, <2>1 DEF PreparePaymentRefund, Prepared
  <2>3. QED BY <2>2 DEF Effect
<1>10. CASE RecordPaymentRefundError(p)
  BY <1>10 DEF RecordPaymentRefundError, Refused, Effect
<1>11. CASE ApplyPaymentRefund(p)
  BY <1>11, SettleRefundEffect DEF ApplyPaymentRefund
<1>12. CASE RetryReconciliation(p)
  <2> DEFINE r == [row EXCEPT !.recon = "processing", !.version = row.version + 1]
  <2>1. /\ r.order = row.order /\ r.tx = row.tx /\ r.status = row.status
        /\ ReconciliationNeedsReview(r.recon)
    BY <1>a DEF PaymentRow, ReconciliationNeedsReview
  <2>2. payments' = [payments EXCEPT ![p] = r]
    BY <1>12 DEF RetryReconciliation, TypeOK
  <2>3. UNCHANGED <<orders, refunds, stock>>
    BY <1>12 DEF RetryReconciliation
  <2> HIDE DEF r
  <2>4. QED BY <2>1, <2>2, <2>3, RowIdle DEF Effect
<1>13. CASE ResolveReconciliation(p)
  <2> DEFINE done == [row EXCEPT !.recon = "resolved", !.version = row.version + 1, !.refundReported = FALSE]
  <2>1. done.status = row.status /\ done.order = row.order /\ done.tx = row.tx
    BY <1>a DEF PaymentRow
  <2>2. payments' = [payments EXCEPT ![p] = done]
    BY <1>13 DEF ResolveReconciliation, TypeOK
  <2> HIDE DEF done
  <2>3. payments'[p] = done /\ \A q \in Payment \ {p} : payments'[q] = payments[q]
    BY <2>2 DEF TypeOK
  <2>4. Resolved(p)
    BY <1>13, <2>1, <2>3 DEF ResolveReconciliation, Resolved, InReview
  <2>5. QED BY <2>4 DEF Effect
<1>14. QED BY <1>1, <1>2, <1>3, <1>4, <1>5, <1>6, <1>7, <1>8, <1>9, <1>10, <1>11, <1>12, <1>13
           DEF PaymentStep

LEMMA JobStepEffect ==
  ASSUME TypeOK, MoneyInvariant, NEW j \in jobs, JobStep(j)
  PROVE  Effect
<1>a. j.kind # "expire_order" \/ j.at # "queued" => j.id \in Payment /\ payments[j.id] \in PaymentRow
  BY DEF TypeOK, ExpiryJob, PaymentJob
<1>1. CASE CheckPayStart(j) \/ JobObsolete(j) \/ JobReturns(j) \/ ClosePayStart(j)
  BY <1>1, UnchangedIdle DEF CheckPayStart, JobObsolete, JobReturns, ClosePayStart, rows, Effect
<1>2. CASE CheckPayCloses(j)
  <2>1. CASE UNCHANGED <<orders, payments, refunds, stock>>
    BY <2>1, UnchangedIdle DEF Effect
  <2>2. CASE ~UNCHANGED <<orders, payments, refunds, stock>>
    <3>1. j.id \in Payment /\ \E left : MarkPayClosePending(j.id, j.ver, j.note, left)
      BY <1>2, <1>a, <2>2, SMTT(30) DEF CheckPayCloses
    <3>2. QED BY <3>1, ClosePendingIdle DEF Effect
  <2>3. QED BY <2>1, <2>2
<1>3. ASSUME NEW result \in ProviderResult, CheckPayApply(j, result) \/ ClosePayApply(j, result)
      PROVE  Effect
  BY <1>3, <1>a, ApplyPayQueryEffect DEF CheckPayApply, ClosePayApply
<1>4. CASE ClosePayConfirmsUnissued(j)
  <2>1. Answer("CLOSED", None, TRUE) \in ProviderResult
    BY DEF ProviderResult
  <2>2. QED BY <1>4, <1>a, <2>1, ApplyPayQueryEffect DEF ClosePayConfirmsUnissued
<1>5. CASE ClosePayProvesNothing(j)
  <2>1. "provider_order_not_exist" \in {"other"} \cup ExactReason
    BY DEF ExactReason
  <2>2. QED BY <1>5, <1>a, <2>1, RequireIdle DEF ClosePayProvesNothing, Effect
<1>6. CASE JobDiscarded(j)
  <2>1. CASE UNCHANGED payments
    BY <1>6, <2>1, UnchangedIdle, SMTT(30) DEF JobDiscarded, Effect
  <2>2. CASE ~UNCHANGED payments
    <3>1. /\ j.id \in Payment /\ payments[j.id] \in PaymentRow
          /\ RequirePaymentReconciliation(j.id, payments[j.id], "other")
          /\ UNCHANGED <<orders, refunds, stock>>
      BY <1>6, <1>a, <2>2 DEF JobDiscarded
    <3>2. QED BY <3>1, RequireIdle, ReasonsTyped DEF Effect
  <2>3. QED BY <2>1, <2>2
<1>7. QED BY <1>1, <1>2, <1>3, <1>4, <1>5, <1>6 DEF JobStep

(* Whatever action is taken, the rows change by one of the effects.        *)
LEMMA StepHasEffect ==
  ASSUME TypeOK, MoneyInvariant, [Next]_vars
  PROVE  Effect
<1>1. CASE ReapOverdueOrders \/ UNCHANGED vars
  BY <1>1, UnchangedIdle DEF ReapOverdueOrders, vars, Effect
<1>2. QED BY <1>1, OrderStepEffect, PaymentStepEffect, JobStepEffect, SMTT(30) DEF Next
=============================================================================
