------------------------ MODULE SettlementTypeProofs ------------------------
(* Type correctness of Settlement, for every value of its constants.       *)
EXTENDS Settlement, TLAPS

(* The rows and the queue keep their types.                                *)
LEMMA InitTypeOK == Init => TypeOK
  BY SettlementAssumption DEF Init, TypeOK, OrderRow, OrderStatus, PaymentRow, PaymentStatus,
     RefundRow, NoteRow, NewPayment

(* requirePaymentReconciliation leaves a well-formed payment row: the case *)
(* is open, under the same version or the next one, and nothing else moved. *)
Opened(r, row) ==
  /\ r \in PaymentRow
  /\ r.status = row.status /\ r.order = row.order /\ r.tx = row.tx
  /\ r.prepay = row.prepay /\ r.channel = row.channel
  /\ r.refundReported = row.refundReported
  /\ ReconciliationNeedsReview(r.recon)
  /\ \/ r.version = row.version /\ r.recon = row.recon
     \/ r.version = row.version + 1

LEMMA RequiredRowsOpened ==
  ASSUME NEW row \in PaymentRow, NEW reason \in {"other"} \cup ExactReason,
         NEW r \in RequiredRows(row, reason)
  PROVE  Opened(r, row)
<1>1. \/ r = row /\ row.recon = "required"
      \/ /\ row.version < MaxVersion
         /\ r = [row EXCEPT !.recon = "required", !.version = row.version + 1, !.reason = reason]
  BY DEF RequiredRows
<1>2. CASE r = row /\ row.recon = "required"
  BY <1>2 DEF Opened, ReconciliationNeedsReview
<1>3. CASE /\ row.version < MaxVersion
           /\ r = [row EXCEPT !.recon = "required", !.version = row.version + 1, !.reason = reason]
  <2>1. row.version + 1 \in 0..MaxVersion
    BY <1>3, SettlementAssumption DEF PaymentRow
  <2>2. r \in PaymentRow
    BY <1>3, <2>1 DEF PaymentRow
  <2>3. QED BY <1>3, <2>2 DEF Opened, ReconciliationNeedsReview, PaymentRow
<1>4. QED BY <1>1, <1>2, <1>3

AnyJob == ExpiryJob \cup PaymentJob

LEMMA EnqueueType ==
  ASSUME NEW active \in SUBSET AnyJob, NEW new \in SUBSET AnyJob
  PROVE  Enqueue(active, new) \in SUBSET AnyJob
  BY DEF Enqueue

LEMMA PaymentJobType ==
  ASSUME NEW kind \in {"check_pay", "close_pay"}, NEW p \in Payment, NEW ver \in 0..MaxVersion,
         NEW note \in Note \cup {None}
  PROVE  QueuedJob(kind, p, ver, note) \in AnyJob
  BY DEF QueuedJob, AnyJob, PaymentJob

LEMMA ExpiryJobType ==
  ASSUME NEW o \in Order
  PROVE  QueuedJob("expire_order", o, 0, None) \in AnyJob
  BY DEF QueuedJob, AnyJob, ExpiryJob

LEMMA RequeuedType ==
  ASSUME TypeOK, NEW j \in jobs
  PROVE  /\ Requeued(j) \in SUBSET AnyJob
         /\ \A left \in AfterWork(j) : left \in SUBSET AnyJob
<1>1. j \in AnyJob
  BY DEF TypeOK, AnyJob
<1>2. [j EXCEPT !.at = "queued"] \in AnyJob
  BY <1>1 DEF AnyJob, ExpiryJob, PaymentJob
<1>3. QED BY <1>2 DEF Requeued, AfterWork, TypeOK, AnyJob

(* The payment rows a recovery produces.                                   *)
LEMMA RecoveredType ==
  ASSUME TypeOK, NEW o
  PROVE  /\ RecoverUnsupportedPayments(o) \in [Payment -> PaymentRow]
         /\ \A p \in Payment :
              LET r == RecoverUnsupportedPayments(o)[p]
              IN  \/ r = payments[p]
                  \/ /\ payments[p].order = o /\ payments[p].status \in ActiveStatus
                     /\ payments[p].recon = "none"
                     /\ r = [payments[p] EXCEPT !.status = "failed"]
<1>1. \A p \in Payment : payments[p] \in PaymentRow
  BY DEF TypeOK
<1>2. \A p \in Payment : [payments[p] EXCEPT !.status = "failed"] \in PaymentRow
  BY <1>1 DEF PaymentRow, PaymentStatus
<1>3. QED BY <1>1, <1>2 DEF RecoverUnsupportedPayments, UnsupportedPaymentNeverDispatched, ActiveStatus

LEMMA OrderMoveType ==
  ASSUME TypeOK, NEW o, NEW s \in OrderStatus, orders' = [orders EXCEPT ![o].status = s]
  PROVE  orders' \in [Order -> OrderRow]
  BY DEF TypeOK, OrderRow

LEMMA OrderPaidType ==
  ASSUME TypeOK, NEW o, NEW q \in Payment,
         orders' = [orders EXCEPT ![o].status = "paid", ![o].paid = q]
  PROVE  orders' \in [Order -> OrderRow]
  BY ZenonT(30) DEF TypeOK, OrderRow, OrderStatus

LEMMA PaymentUpdateType ==
  ASSUME TypeOK, NEW p, NEW r \in PaymentRow
  PROVE  [payments EXCEPT ![p] = r] \in [Payment -> PaymentRow]
  BY DEF TypeOK

LEMMA PaymentMoveType ==
  ASSUME TypeOK, NEW p \in Payment, NEW s \in PaymentStatus,
         payments' = [payments EXCEPT ![p].status = s]
  PROVE  payments' \in [Payment -> PaymentRow]
<1>1. [payments[p] EXCEPT !.status = s] \in PaymentRow
  BY SMTT(30) DEF TypeOK, PaymentRow
<1>2. QED BY <1>1, PaymentUpdateType

LEMMA UnleasedType ==
  ASSUME NEW row \in PaymentRow, NEW s \in PaymentStatus, NEW tx \in Tx
  PROVE  /\ [Unleased(row) EXCEPT !.status = s] \in PaymentRow
         /\ [Unleased(row) EXCEPT !.status = s, !.tx = tx] \in PaymentRow
  BY DEF Unleased, PaymentRow

LEMMA FinalizeOrderType ==
  ASSUME TypeOK, NEW o, NEW p \in Payment, FinalizeOrderAfterPaymentInactive(o, p)
  PROVE  orders' \in [Order -> OrderRow] /\ stock' \in Nat
<1>1. CASE orders' = [orders EXCEPT ![o].status = "cancelled"] /\ stock' = stock + 1
  <2>1. "cancelled" \in OrderStatus
    BY DEF OrderStatus
  <2>2. orders' \in [Order -> OrderRow]
    BY <1>1, <2>1, OrderMoveType
  <2>3. QED BY <1>1, <2>2 DEF TypeOK
<1>2. CASE \E q \in Payment : /\ orders' = [orders EXCEPT ![o].status = "paid", ![o].paid = q]
                             /\ UNCHANGED stock
  <2>1. orders' \in [Order -> OrderRow]
    BY <1>2, OrderPaidType
  <2>2. QED BY <1>2, <2>1 DEF TypeOK
<1>3. CASE UNCHANGED <<orders, stock>>
  BY <1>3 DEF TypeOK
<1>4. QED BY <1>1, <1>2, <1>3 DEF FinalizeOrderAfterPaymentInactive, CancelAndRestore, PaymentsOf

LEMMA NotesType ==
  ASSUME TypeOK, NEW n \in Note \cup {None}, MarkNotificationProcessed(n)
  PROVE  notes' \in [Note -> NoteRow]
  BY DEF TypeOK, MarkNotificationProcessed, NoteRow

LEMMA RequireType ==
  ASSUME TypeOK, NEW p \in Payment, NEW row \in PaymentRow, NEW reason \in {"other"} \cup ExactReason,
         RequirePaymentReconciliation(p, row, reason)
  PROVE  payments' \in [Payment -> PaymentRow]
<1>1. PICK r \in RequiredRows(row, reason) : payments' = [payments EXCEPT ![p] = r]
  BY DEF RequirePaymentReconciliation
<1>2. r \in PaymentRow
  BY RequiredRowsOpened DEF Opened
<1>3. QED BY <1>1, <1>2, PaymentUpdateType

RowsType ==
  /\ orders \in [Order -> OrderRow] /\ payments \in [Payment -> PaymentRow]
  /\ refunds \in [Payment -> RefundRow] /\ stock \in Nat

LEMMA ReasonsTyped == "other" \in {"other"} \cup ExactReason /\ ExactReason \subseteq {"other"} \cup ExactReason
  BY DEF ExactReason

LEMMA ApplySuccessType ==
  ASSUME TypeOK, NEW p \in Payment, NEW tx \in Tx, ApplySuccess(p, tx)
  PROVE  RowsType'
<1> DEFINE row == payments[p]
           captured == [Unleased(row) EXCEPT !.status = "success", !.tx = tx]
<1>1. row \in PaymentRow /\ "success" \in PaymentStatus
  BY DEF TypeOK, PaymentStatus
<1>2. captured \in PaymentRow
  BY <1>1, UnleasedType
<1>3. orders' \in [Order -> OrderRow]
  <2>1. \/ UNCHANGED orders
        \/ orders' = [orders EXCEPT ![row.order].status = "paid", ![row.order].paid = p]
    BY DEF ApplySuccess, rows
  <2>2. QED BY <2>1, OrderPaidType, SMTT(30) DEF TypeOK
<1>4. payments' \in [Payment -> PaymentRow]
  <2>1. \/ UNCHANGED payments
        \/ RequirePaymentReconciliation(p, row, "other")
        \/ RequirePaymentReconciliation(p, captured, "other")
        \/ payments' = [payments EXCEPT ![p] = captured]
    BY DEF ApplySuccess, rows
  <2> HIDE DEF captured, row
  <2>2. QED BY <1>1, <1>2, <2>1, RequireType, PaymentUpdateType, ReasonsTyped DEF TypeOK
<1>5. UNCHANGED <<refunds, stock>>
  BY DEF ApplySuccess, rows
<1>6. QED BY <1>3, <1>4, <1>5 DEF TypeOK, RowsType

LEMMA ApplyClosedType ==
  ASSUME TypeOK, NEW p \in Payment, NEW tx, ApplyClosed(p, tx)
  PROVE  RowsType'
<1>1. CASE UNCHANGED rows
  BY <1>1 DEF TypeOK, RowsType, rows
<1>2. CASE /\ payments' = [payments EXCEPT ![p] = [Unleased(payments[p]) EXCEPT !.status = "closed"]]
           /\ FinalizeOrderAfterPaymentInactive(payments[p].order, p)
           /\ UNCHANGED refunds
  <2>1. payments[p] \in PaymentRow /\ "closed" \in PaymentStatus
    BY DEF TypeOK, PaymentStatus
  <2>2. [Unleased(payments[p]) EXCEPT !.status = "closed"] \in PaymentRow
    BY <2>1 DEF Unleased, PaymentRow
  <2>3. payments' \in [Payment -> PaymentRow]
    BY <1>2, <2>2, PaymentUpdateType
  <2>4. orders' \in [Order -> OrderRow] /\ stock' \in Nat
    BY <1>2, FinalizeOrderType
  <2>5. QED BY <1>2, <2>3, <2>4 DEF TypeOK, RowsType
<1>3. QED BY <1>1, <1>2 DEF ApplyClosed

LEMMA ApplyPayErrorType ==
  ASSUME TypeOK, NEW p \in Payment, NEW closing, ApplyPayError(p, closing)
  PROVE  RowsType'
<1>1. payments[p] \in PaymentRow /\ "failed" \in PaymentStatus
  BY DEF TypeOK, PaymentStatus
<1>2. [Unleased(payments[p]) EXCEPT !.status = "failed"] \in PaymentRow
  BY <1>1 DEF Unleased, PaymentRow
<1>3. payments' \in [Payment -> PaymentRow]
  <2>1. \/ UNCHANGED payments
        \/ payments' = [payments EXCEPT ![p] = [Unleased(payments[p]) EXCEPT !.status = "failed"]]
    BY DEF ApplyPayError
  <2>2. QED BY <1>2, <2>1, PaymentUpdateType DEF TypeOK
<1>4. orders' \in [Order -> OrderRow] /\ stock' \in Nat
  <2>1. \/ FinalizeOrderAfterPaymentInactive(payments[p].order, p)
        \/ UNCHANGED <<orders, stock>>
    BY DEF ApplyPayError
  <2>2. QED BY <2>1, FinalizeOrderType DEF TypeOK
<1>5. UNCHANGED refunds
  BY DEF ApplyPayError
<1>6. QED BY <1>3, <1>4, <1>5 DEF TypeOK, RowsType

LEMMA SettleRefundType ==
  ASSUME TypeOK, NEW p \in Payment, SettlePaymentRefund(p)
  PROVE  RowsType'
<1>1. CASE UNCHANGED rows
  BY <1>1 DEF TypeOK, RowsType, rows
<1>2. CASE ~UNCHANGED rows
  <2>1. payments' \in [Payment -> PaymentRow]
    <3>1. payments' = [payments EXCEPT ![p].status = "refunded"] /\ "refunded" \in PaymentStatus
      BY <1>2 DEF SettlePaymentRefund, PaymentStatus
    <3>2. QED BY <3>1, PaymentMoveType
  <2>2. refunds' \in [Payment -> RefundRow]
    BY <1>2 DEF SettlePaymentRefund, TypeOK, RefundRow
  <2>3. "refunded" \in OrderStatus
    BY DEF OrderStatus
  <2>4. \/ orders' = [orders EXCEPT ![payments[p].order].status = "refunded"] /\ stock' = stock + 1
        \/ UNCHANGED <<orders, stock>>
    BY <1>2 DEF SettlePaymentRefund
  <2>5. orders' \in [Order -> OrderRow]
    BY <2>3, <2>4, OrderMoveType DEF TypeOK
  <2>6. stock' \in Nat
    BY <2>4 DEF TypeOK
  <2>7. QED BY <2>1, <2>2, <2>5, <2>6 DEF RowsType
<1>3. QED BY <1>1, <1>2

LEMMA ProviderRefundType ==
  ASSUME TypeOK, NEW p \in Payment, ApplyProviderRefund(p)
  PROVE  RowsType'
<1>1. CASE UNCHANGED rows
  BY <1>1 DEF TypeOK, RowsType, rows
<1>2. CASE /\ RequirePaymentReconciliation(p, [payments[p] EXCEPT !.refundReported = TRUE],
                                           "provider_side_refund")
           /\ UNCHANGED <<orders, refunds, stock>>
  <2>1. [payments[p] EXCEPT !.refundReported = TRUE] \in PaymentRow
    BY ZenonT(30) DEF TypeOK, PaymentRow
  <2>2. "provider_side_refund" \in {"other"} \cup ExactReason
    BY DEF ExactReason
  <2>3. payments' \in [Payment -> PaymentRow]
    BY <1>2, <2>1, <2>2, RequireType
  <2>4. QED BY <1>2, <2>3 DEF TypeOK, RowsType
<1>3. CASE SettlePaymentRefund(p)
  BY <1>3, SettleRefundType
<1>4. QED BY <1>1, <1>2, <1>3 DEF ApplyProviderRefund

LEMMA ApplyPayQueryType ==
  ASSUME TypeOK, NEW p \in Payment, NEW args, args.note \in Note \cup {None},
         NEW result \in ProviderResult, ApplyPayQuery(p, args, result)
  PROVE  RowsType' /\ notes' \in [Note -> NoteRow]
<1>1. CASE RequirePaymentReconciliation(p, payments[p], "other") /\ UNCHANGED <<orders, refunds, stock>>
  <2>1. payments[p] \in PaymentRow
    BY DEF TypeOK
  <2>2. payments' \in [Payment -> PaymentRow]
    BY <1>1, <2>1, ReasonsTyped, RequireType
  <2>3. notes' \in [Note -> NoteRow]
    BY NotesType DEF ApplyPayQuery
  <2>4. QED BY <1>1, <2>2, <2>3 DEF TypeOK, RowsType
<1>2. ASSUME result.match /\ result.state = "SUCCESS" PROVE result.tx \in Tx
  BY <1>2 DEF ProviderResult, Answer
<1>3. CASE result.match /\ result.state = "SUCCESS" /\ ApplySuccess(p, result.tx)
  BY <1>2, <1>3, ApplySuccessType, NotesType DEF ApplyPayQuery
<1>4. CASE ApplyClosed(p, result.tx) \/ ApplyPayError(p, args.closing) \/ ApplyProviderRefund(p)
  BY <1>4, ApplyClosedType, ApplyPayErrorType, ProviderRefundType, NotesType DEF ApplyPayQuery
<1>5. QED BY <1>1, <1>3, <1>4 DEF ApplyPayQuery

-----------------------------------------------------------------------------
(* Type preservation, action by action.                                    *)

LEMMA OrderStepType ==
  ASSUME TypeOK, NEW o \in Order, OrderStep(o)
  PROVE  TypeOK'
<1>1. CASE CreateOrder(o)
  <2>1. "pending_payment" \in OrderStatus /\ stock - 1 \in Nat
    BY <1>1 DEF CreateOrder, OrderStatus, TypeOK
  <2>2. orders' \in [Order -> OrderRow]
    BY <1>1, <2>1, OrderMoveType DEF CreateOrder
  <2>3. jobs' \subseteq AnyJob
    BY <1>1, EnqueueType, ExpiryJobType DEF CreateOrder, TypeOK, AnyJob
  <2>4. QED BY <1>1, <2>1, <2>2, <2>3 DEF CreateOrder, TypeOK, AnyJob
<1>2. CASE PaymentWindowEnds(o)
  BY <1>2 DEF PaymentWindowEnds, TypeOK, OrderRow
<1>3. CASE CancelOrderByUser(o)
  <2>1. "cancelled" \in OrderStatus /\ stock + 1 \in Nat
    BY DEF OrderStatus, TypeOK
  <2>2. orders' \in [Order -> OrderRow]
    BY <1>3, <2>1, OrderMoveType DEF CancelOrderByUser, CancelAndRestore
  <2>3. QED BY <1>3, <2>1, <2>2, RecoveredType DEF CancelOrderByUser, CancelAndRestore, TypeOK
<1>4. CASE ExpireOrder(o)
  <2>0. PICK j \in jobs : \E left \in AfterWork(j) :
          \/ jobs' = left /\ UNCHANGED rows
          \/ ExpirePendingOrder(o, left) /\ UNCHANGED refunds
    BY <1>4 DEF ExpireOrder
  <2>1. PICK left \in AfterWork(j) :
          \/ jobs' = left /\ UNCHANGED rows
          \/ ExpirePendingOrder(o, left) /\ UNCHANGED refunds
    BY <2>0
  <2>2. UNCHANGED notes
    BY <1>4 DEF ExpireOrder
  <2>3. left \in SUBSET AnyJob /\ jobs \in SUBSET AnyJob
    BY RequeuedType DEF TypeOK, AnyJob
  <2>4. CASE jobs' = left /\ UNCHANGED rows
    BY <2>2, <2>3, <2>4 DEF TypeOK, rows, AnyJob
  <2>5. CASE ExpirePendingOrder(o, left) /\ UNCHANGED refunds
    <3> DEFINE rec == RecoverUnsupportedPayments(o)
               open == {p \in PaymentsOf(o) : rec[p].status \in ActiveStatus}
    <3>1. rec \in [Payment -> PaymentRow]
      BY RecoveredType
    <3>2. orders' \in [Order -> OrderRow]
      <4>1. \/ UNCHANGED orders
            \/ orders' = [orders EXCEPT ![o].status = "cancelled"]
            \/ \E q \in Payment : orders' = [orders EXCEPT ![o].status = "paid", ![o].paid = q]
        BY <2>5 DEF ExpirePendingOrder, PaymentsOf, CancelAndRestore
      <4>2. "cancelled" \in OrderStatus
        BY DEF OrderStatus
      <4>3. QED BY <4>1, <4>2, OrderMoveType, OrderPaidType DEF TypeOK
    <3>3. stock' \in Nat
      BY <2>5 DEF ExpirePendingOrder, CancelAndRestore, TypeOK
    <3>4. payments' \in [Payment -> PaymentRow]
      <4>1. \/ payments' = rec
            \/ \E p \in Payment : \E r \in RequiredRows(rec[p], "other") : payments' = [rec EXCEPT ![p] = r]
            \/ payments' = [p \in Payment |-> IF p \in open THEN [rec[p] EXCEPT !.status = "close_pending"]
                                                            ELSE rec[p]]
        BY <2>5 DEF ExpirePendingOrder, PaymentsOf
      <4>2. \A p \in Payment : [rec[p] EXCEPT !.status = "close_pending"] \in PaymentRow
        <5> HIDE DEF rec
        <5> QED BY <3>1 DEF PaymentRow, PaymentStatus
      <4>3. \A p \in Payment : \A r \in RequiredRows(rec[p], "other") : r \in PaymentRow
        <5> HIDE DEF rec
        <5> QED BY <3>1, RequiredRowsOpened, ReasonsTyped DEF Opened
      <4> HIDE DEF rec, open
      <4>4. QED BY <3>1, <4>1, <4>2, <4>3
    <3>5. jobs' \subseteq AnyJob
      <4> DEFINE new == {QueuedJob("close_pay", p, 0, None) : p \in open}
      <4>1. jobs' = left \/ UNCHANGED jobs \/ jobs' = Enqueue(left, new)
        BY <2>5 DEF ExpirePendingOrder
      <4>2. new \in SUBSET AnyJob
        BY PaymentJobType, SettlementAssumption DEF PaymentsOf
      <4> HIDE DEF new
      <4>3. QED BY <2>3, <4>1, <4>2, EnqueueType
    <3>6. QED BY <2>2, <2>5, <3>2, <3>3, <3>4, <3>5 DEF TypeOK, AnyJob
  <2>6. QED BY <2>1, <2>4, <2>5
<1>5. CASE Ship(o) \/ Complete(o)
  <2>1. /\ orders' = [orders EXCEPT ![o].status = "shipped"] \/ orders' = [orders EXCEPT ![o].status = "completed"]
        /\ UNCHANGED <<payments, refunds, stock, notes, jobs>>
    BY <1>5 DEF Ship, Complete, ApplyFulfillment
  <2>2. "shipped" \in OrderStatus /\ "completed" \in OrderStatus
    BY DEF OrderStatus
  <2>3. orders' \in [Order -> OrderRow]
    BY <2>1, <2>2, OrderMoveType
  <2>4. QED BY <2>1, <2>3 DEF TypeOK
<1>6. QED BY <1>1, <1>2, <1>3, <1>4, <1>5 DEF OrderStep

(* A step on one payment row that leaves orders, refunds and stock alone.  *)
LEMMA RowStepType ==
  ASSUME TypeOK, NEW p \in Payment, NEW r \in PaymentRow, payments' = [payments EXCEPT ![p] = r],
         UNCHANGED <<orders, refunds, stock, notes>>, jobs' \in SUBSET AnyJob
  PROVE  TypeOK'
  BY PaymentUpdateType DEF TypeOK, AnyJob

LEMMA PaymentStepType ==
  ASSUME TypeOK, NEW p \in Payment, PaymentStep(p)
  PROVE  TypeOK'
<1> DEFINE row == payments[p]
<1>a. row \in PaymentRow /\ jobs \in SUBSET AnyJob
  BY DEF TypeOK, AnyJob
<1>1. ASSUME NEW o \in Order, NEW channel \in Channel, CreatePayment(o, p, channel)
      PROVE  TypeOK'
  <2>1. [NewPayment EXCEPT !.order = o, !.channel = channel, !.status = "creating"] \in PaymentRow
    <3>1. NewPayment \in PaymentRow
      BY SettlementAssumption DEF NewPayment, PaymentRow, PaymentStatus
    <3>2. channel \in {"local", "network", "legacy"}
      BY SettlementAssumption
    <3>3. QED BY <3>1, <3>2 DEF PaymentRow, PaymentStatus
  <2>2. payments' \in [Payment -> PaymentRow]
    BY <1>1, <2>1, RecoveredType DEF CreatePayment
  <2>3. QED BY <1>1, <2>2 DEF CreatePayment, TypeOK
<1>2. CASE ClaimPaymentPrepay(p) \/ PrepayLeaseLapses(p) \/ RecordPaymentPrepayError(p)
  <2>1. PICK v \in {"live", "lapsed", "released"} : payments' = [payments EXCEPT ![p].prepay = v]
    BY <1>2 DEF ClaimPaymentPrepay, PrepayLeaseLapses, RecordPaymentPrepayError
  <2>2. [row EXCEPT !.prepay = v] \in PaymentRow
    BY <1>a DEF PaymentRow
  <2>3. UNCHANGED <<orders, refunds, stock, notes, jobs>>
    BY <1>2 DEF ClaimPaymentPrepay, PrepayLeaseLapses, RecordPaymentPrepayError
  <2>4. QED BY <1>a, <2>1, <2>2, <2>3, RowStepType
<1>3. CASE FinalizePaymentPrepay(p)
  <2>1. [row EXCEPT !.status = "pending", !.prepay = "issued"] \in PaymentRow
    BY <1>a DEF PaymentRow, PaymentStatus
  <2>2. payments' = [payments EXCEPT ![p] = [row EXCEPT !.status = "pending", !.prepay = "issued"]]
    BY <1>3 DEF FinalizePaymentPrepay, TypeOK
  <2>3. jobs' \in SUBSET AnyJob
    BY <1>3, <1>a, EnqueueType, PaymentJobType, SettlementAssumption DEF FinalizePaymentPrepay
  <2>4. QED BY <1>3, <2>1, <2>2, <2>3, RowStepType DEF FinalizePaymentPrepay
<1>4. ASSUME NEW result \in ProviderResult, ApiResult(p, result)
      PROVE  TypeOK'
  <2>1. ApiArgs.note \in Note \cup {None}
    BY DEF ApiArgs
  <2>2. RowsType' /\ notes' \in [Note -> NoteRow]
    BY <1>4, <2>1, ApplyPayQueryType DEF ApiResult
  <2>3. QED BY <1>4, <2>2 DEF ApiResult, TypeOK, RowsType
<1>5. CASE ClosePayment(p)
  <2>1. [row EXCEPT !.status = "close_pending"] \in PaymentRow
    BY <1>a DEF PaymentRow, PaymentStatus
  <2>2. jobs' \in SUBSET AnyJob
    BY <1>5, <1>a, EnqueueType, PaymentJobType, SettlementAssumption DEF ClosePayment, MarkPayClosePending
  <2>3. QED BY <1>5, <2>1, <2>2, RowStepType
            DEF ClosePayment, MarkPayClosePending, MarkNotificationProcessed
<1>6. CASE CreateCheckJob(p)
  <2>1. jobs' \in SUBSET AnyJob
    BY <1>6, <1>a, EnqueueType, PaymentJobType, SettlementAssumption DEF CreateCheckJob
  <2>2. QED BY <1>6, <2>1 DEF CreateCheckJob, TypeOK, AnyJob
<1>7. CASE NotificationMismatch(p)
  <2>1. payments' \in [Payment -> PaymentRow]
    BY <1>7, <1>a, ReasonsTyped, RequireType DEF NotificationMismatch
  <2>2. QED BY <1>7, <2>1 DEF NotificationMismatch, TypeOK
<1>8. ASSUME NEW n \in Note, HandleNotification(p, n)
      PROVE  TypeOK'
  <2>1. jobs' \in SUBSET AnyJob
    BY <1>8, <1>a, EnqueueType, PaymentJobType, SettlementAssumption DEF HandleNotification
  <2>2. notes' \in [Note -> NoteRow]
    BY <1>8, SMTT(30) DEF HandleNotification, TypeOK, NoteRow
  <2>3. QED BY <1>8, <2>1, <2>2 DEF HandleNotification, TypeOK, AnyJob, rows
<1>9. CASE PreparePaymentRefund(p)
  <2> DEFINE purpose == DecideRefundPurpose(orders[row.order].status, orders[row.order].paid, p)
  <2>1. purpose # Conflict \/ purpose = refunds[p].purpose
    BY <1>9 DEF PreparePaymentRefund
  <2>2. purpose \in {OrderCancelRefund, DuplicateRefund, LateRefund, Conflict}
    BY DEF DecideRefundPurpose
  <2>3. Conflict \notin {"none", OrderCancelRefund, DuplicateRefund, LateRefund}
    BY DEF Conflict, OrderCancelRefund, DuplicateRefund, LateRefund
  <2>4. refunds[p].purpose \in {"none", OrderCancelRefund, DuplicateRefund, LateRefund}
    BY DEF TypeOK, RefundRow
  <2>5. purpose \in {"none", OrderCancelRefund, DuplicateRefund, LateRefund}
    <3> HIDE DEF purpose
    <3> QED BY <2>1, <2>2, <2>3, <2>4
  <2>6. refunds' = [refunds EXCEPT ![p] = [status |-> "pending", purpose |-> purpose]]
    BY <1>9 DEF PreparePaymentRefund
  <2> HIDE DEF purpose
  <2>7. refunds' \in [Payment -> RefundRow]
    BY <2>5, <2>6 DEF TypeOK, RefundRow
  <2>8. QED BY <1>9, <2>7 DEF PreparePaymentRefund, TypeOK
<1>10. CASE RecordPaymentRefundError(p)
  BY <1>10 DEF RecordPaymentRefundError, TypeOK, RefundRow
<1>11. CASE ApplyPaymentRefund(p)
  <2>1. RowsType'
    BY <1>11, SettleRefundType DEF ApplyPaymentRefund
  <2>2. QED BY <1>11, <2>1 DEF ApplyPaymentRefund, TypeOK, RowsType
<1>12. CASE RetryReconciliation(p)
  <2>1. row.version + 1 \in 0..MaxVersion
    BY <1>12, <1>a, SettlementAssumption DEF RetryReconciliation, PaymentRow
  <2>2. [row EXCEPT !.recon = "processing", !.version = row.version + 1] \in PaymentRow
    BY <1>a, <2>1 DEF PaymentRow
  <2>3. payments' = [payments EXCEPT ![p] = [row EXCEPT !.recon = "processing", !.version = row.version + 1]]
    BY <1>12 DEF RetryReconciliation, TypeOK
  <2>4. jobs' \in SUBSET AnyJob
    BY <1>12, <1>a, <2>1, EnqueueType, PaymentJobType DEF RetryReconciliation
  <2>5. QED BY <1>12, <2>2, <2>3, <2>4, RowStepType DEF RetryReconciliation
<1>13. CASE ResolveReconciliation(p)
  <2>1. row.version + 1 \in 0..MaxVersion
    BY <1>13, <1>a, SettlementAssumption DEF ResolveReconciliation, PaymentRow
  <2> DEFINE done == [row EXCEPT !.recon = "resolved", !.version = row.version + 1, !.refundReported = FALSE]
  <2>2. done \in PaymentRow
    BY <1>a, <2>1 DEF PaymentRow
  <2>3. payments' = [payments EXCEPT ![p] = done]
    BY <1>13 DEF ResolveReconciliation, TypeOK
  <2> HIDE DEF done
  <2>4. QED BY <1>13, <1>a, <2>2, <2>3, RowStepType DEF ResolveReconciliation
<1>14. QED BY <1>1, <1>2, <1>3, <1>4, <1>5, <1>6, <1>7, <1>8, <1>9, <1>10, <1>11, <1>12, <1>13
           DEF PaymentStep

LEMMA JobStepType ==
  ASSUME TypeOK, NEW j \in jobs, JobStep(j)
  PROVE  TypeOK'
<1>a. /\ jobs \in SUBSET AnyJob
      /\ Requeued(j) \in SUBSET AnyJob
      /\ \A left \in AfterWork(j) : left \in SUBSET AnyJob
  BY RequeuedType DEF TypeOK, AnyJob
<1>b. /\ j.note \in Note \cup {None}
      /\ j.kind # "expire_order" \/ j.at # "queued" =>
           j \in PaymentJob /\ j.id \in Payment /\ j.ver \in 0..MaxVersion /\ payments[j.id] \in PaymentRow
  BY DEF TypeOK, ExpiryJob, PaymentJob
<1>1. CASE CheckPayStart(j)
  <2>1. [j EXCEPT !.at = "asked"] \in AnyJob
    BY <1>1, <1>b DEF CheckPayStart, AnyJob, PaymentJob
  <2>2. notes' \in [Note -> NoteRow]
    BY <1>1, <1>b DEF CheckPayStart, TypeOK, NoteRow
  <2>3. jobs' \in SUBSET AnyJob
    BY <1>a, <1>1, <2>1 DEF CheckPayStart
  <2>4. QED BY <1>1, <2>2, <2>3 DEF CheckPayStart, TypeOK, AnyJob, rows
<1>2. CASE JobObsolete(j) \/ JobReturns(j)
  BY <1>2, <1>a DEF JobObsolete, JobReturns, TypeOK, AnyJob
<1>3. CASE CheckPayCloses(j)
  <2>1. PICK left \in AfterWork(j) :
          \/ MarkPayClosePending(j.id, j.ver, j.note, left)
          \/ jobs' = left /\ UNCHANGED <<orders, payments, refunds, stock, notes>>
    BY <1>3 DEF CheckPayCloses
  <2>2. CASE MarkPayClosePending(j.id, j.ver, j.note, left)
    <3>1. j.id \in Payment /\ j.ver \in 0..MaxVersion /\ "close_pending" \in PaymentStatus
      BY <1>3, <1>b DEF CheckPayCloses, PaymentStatus
    <3>2. payments' \in [Payment -> PaymentRow]
      BY <2>2, <3>1, PaymentMoveType DEF MarkPayClosePending
    <3>3. notes' \in [Note -> NoteRow]
      BY <1>b, <2>2, NotesType DEF MarkPayClosePending
    <3>4. jobs' \in SUBSET AnyJob
      BY <1>a, <2>2, <3>1, EnqueueType, PaymentJobType DEF MarkPayClosePending
    <3>5. QED BY <2>2, <3>2, <3>3, <3>4 DEF MarkPayClosePending, TypeOK, AnyJob
  <2>3. CASE jobs' = left /\ UNCHANGED <<orders, payments, refunds, stock, notes>>
    BY <1>a, <2>3 DEF TypeOK, AnyJob
  <2>4. QED BY <2>1, <2>2, <2>3
<1>4. CASE ClosePayStart(j)
  <2>1. PICK at \in {"asked", "signed", "unissued"} :
          /\ jobs' = (jobs \ {j}) \cup {[j EXCEPT !.at = at]}
          /\ UNCHANGED <<orders, payments, refunds, stock, notes>>
    BY <1>4 DEF ClosePayStart
  <2>2. [j EXCEPT !.at = at] \in AnyJob
    BY <1>4, <1>b DEF ClosePayStart, AnyJob, PaymentJob
  <2>3. QED BY <1>a, <2>1, <2>2 DEF TypeOK, AnyJob
<1>5. ASSUME NEW args, args.note \in Note \cup {None}, NEW result \in ProviderResult,
             j.kind # "expire_order", ApplyPayQuery(j.id, args, result), jobs' \in AfterWork(j)
      PROVE  TypeOK'
  <2>1. RowsType' /\ notes' \in [Note -> NoteRow]
    BY <1>5, <1>b, ApplyPayQueryType
  <2>2. QED BY <1>5, <1>a, <2>1 DEF TypeOK, RowsType, AnyJob
<1>6. ASSUME NEW result \in ProviderResult, CheckPayApply(j, result)
      PROVE  TypeOK'
  BY <1>6, <1>5, <1>b DEF CheckPayApply
<1>7. ASSUME NEW result \in ProviderResult, ClosePayApply(j, result)
      PROVE  TypeOK'
  BY <1>7, <1>5 DEF ClosePayApply, ClosePayArgs
<1>8. CASE ClosePayConfirmsUnissued(j)
  <2>1. Answer("CLOSED", None, TRUE) \in ProviderResult
    BY DEF ProviderResult
  <2>2. QED BY <1>8, <1>5, <2>1 DEF ClosePayConfirmsUnissued, ClosePayArgs
<1>9. CASE ClosePayProvesNothing(j)
  <2>1. "provider_order_not_exist" \in {"other"} \cup ExactReason
    BY DEF ExactReason
  <2>2. payments' \in [Payment -> PaymentRow]
    BY <1>9, <1>b, <2>1, RequireType DEF ClosePayProvesNothing
  <2>3. QED BY <1>9, <1>a, <2>2 DEF ClosePayProvesNothing, TypeOK, AnyJob
<1>10. CASE JobDiscarded(j)
  <2>1. payments' \in [Payment -> PaymentRow]
    <3>1. UNCHANGED payments \/ (j.kind # "expire_order"
                                   /\ RequirePaymentReconciliation(j.id, payments[j.id], "other"))
      BY <1>10 DEF JobDiscarded
    <3>2. QED BY <3>1, <1>b, RequireType, ReasonsTyped DEF TypeOK
  <2>2. notes' \in [Note -> NoteRow]
    BY <1>10, <1>b DEF JobDiscarded, TypeOK, NoteRow
  <2>3. QED BY <1>10, <2>1, <2>2 DEF JobDiscarded, TypeOK
<1>11. QED BY <1>1, <1>2, <1>3, <1>4, <1>6, <1>7, <1>8, <1>9, <1>10 DEF JobStep

LEMMA NextTypeOK == TypeOK /\ [Next]_vars => TypeOK'
<1> SUFFICES ASSUME TypeOK, [Next]_vars PROVE TypeOK'
  OBVIOUS
<1>1. CASE ReapOverdueOrders
  <2> DEFINE new == {QueuedJob("expire_order", o, 0, None) :
                       o \in {x \in Order : orders[x].status = "pending_payment" /\ orders[x].expired}}
  <2>1. new \in SUBSET AnyJob
    BY ExpiryJobType
  <2>2. jobs' = Enqueue(jobs, new)
    BY <1>1 DEF ReapOverdueOrders
  <2> HIDE DEF new
  <2>3. jobs' \in SUBSET AnyJob
    BY <2>1, <2>2, EnqueueType DEF TypeOK, AnyJob
  <2>4. QED BY <1>1, <2>3, SMTT(30) DEF ReapOverdueOrders, TypeOK, AnyJob
<1>2. CASE UNCHANGED vars
  BY <1>2 DEF vars, TypeOK
<1>3. QED BY <1>1, <1>2, OrderStepType, PaymentStepType, JobStepType DEF Next

(* The order, payment, refund, notification and job rows keep their types, *)
(* and stock never becomes negative: CreateOrder's check and its decrement *)
(* are one transaction.                                                    *)
THEOREM TypeCorrect == Spec => []TypeOK
  BY InitTypeOK, NextTypeOK, PTL DEF Spec
=============================================================================
