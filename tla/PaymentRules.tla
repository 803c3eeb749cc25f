---------------------------- MODULE PaymentRules ----------------------------
(***************************************************************************)
(* The decision functions of internal/biz that every order/payment         *)
(* transaction consults: pure functions of rows read under the row locks.  *)
(* A payment row is a record with (at least) the fields                    *)
(*   channel  "local" (alipay:app, alipay:wap: prepay signs locally),      *)
(*            "network" (wechat: prepay is a provider call) or             *)
(*            "legacy" (a pay_channel outside the frozen capability set)   *)
(*   status   the fact state of the payment                                *)
(*   prepay   prepay_attempts, lease and action_type taken together:       *)
(*            "unclaimed" (attempts = 0), "live" / "lapsed" (a lease token *)
(*            whose prepay_lease_until is ahead of / behind the clock),    *)
(*            "released" (attempts > 0, no lease), "issued" (action saved) *)
(*   tx       third_party_tx_id, or None                                   *)
(*   recon, version, reason   the reconciliation columns                   *)
(*   refundReported   an unresolved provider_side_refund failure row       *)
(***************************************************************************)

CONSTANT None      \* SQL NULL / the Go zero value of an optional reference

ActiveStatus == {"creating", "pending", "close_pending"}
FundedStatus == {"paid", "shipped", "completed"}
CapturedStatus == {"success", "refunded"}

OrderCancelRefund == "order_cancel_refund"
DuplicateRefund == "duplicate_payment_refund"
LateRefund == "late_payment_refund"
Conflict == "conflict"

ReconciliationNeedsReview(recon) == recon \in {"required", "processing"}

(* jobVersion 0 is an ordinary job; a manual retry carries the version it   *)
(* was queued for and is current only while that version is processing.    *)
ReconciliationJobCurrent(jobVersion, row) ==
  jobVersion = 0 \/ (jobVersion = row.version /\ row.recon = "processing")

(* Mutant: a success on an order awaiting payment does not settle it.      *)
DecidePaymentSuccess_ForgetsOrder(orderStatus, anotherPaymentSucceeded) ==
  IF anotherPaymentSucceeded \/ orderStatus = "cancelled" THEN "review" ELSE "keep"

(* The effect of a verified SUCCESS on the order: mark it paid, leave it   *)
(* alone, open a reconciliation case, or refuse the whole transaction.     *)
DecidePaymentSuccess(orderStatus, anotherPaymentSucceeded) ==
  CASE anotherPaymentSucceeded -> "review"
    [] ~anotherPaymentSucceeded /\ orderStatus = "pending_payment" -> "pay"
    [] ~anotherPaymentSucceeded /\ orderStatus \in {"cancelling", "cancelled"} -> "review"
    [] ~anotherPaymentSucceeded /\ orderStatus \in FundedStatus -> "keep"
    [] OTHER -> Conflict

(* Mutant: any funded order makes the refund that of a duplicate.          *)
DecideRefundPurpose_IgnoresPrimary(orderStatus, paid, p) ==
  CASE paid # None -> DuplicateRefund
    [] paid = None /\ orderStatus = "cancelled" -> LateRefund
    [] OTHER -> Conflict

DecideRefundPurpose(orderStatus, paid, p) ==
  CASE paid # None /\ paid # p /\ orderStatus \in FundedStatus \cup {"refunded"} -> DuplicateRefund
    [] paid = p /\ orderStatus = "paid" -> OrderCancelRefund
    [] paid = None /\ orderStatus \in {"cancelled", "cancelling"} -> LateRefund
    [] OTHER -> Conflict

(* Mutant: settlement trusts the purpose decided when it was prepared.     *)
ValidateRefundSettlement_TrustsPrepared(purpose, orderStatus, paid, p) ==
  purpose = OrderCancelRefund => paid = p

ValidateRefundSettlement(purpose, orderStatus, paid, p) ==
  DecideRefundPurpose(orderStatus, paid, p) = purpose

(* A close_pending (or already closed) payment that can be proved never to *)
(* have handed payment parameters to the buyer.                            *)
CanConfirmUnissuedPayment(row) ==
  /\ row.status \in {"close_pending", "closed"}
  /\ row.prepay # "issued"
  /\ row.tx = None
  /\ IF row.channel = "local" THEN row.prepay # "live" ELSE row.prepay = "unclaimed"

(* Historical rows of a channel that was never supported and whose prepay  *)
(* was never claimed.                                                      *)
UnsupportedPaymentNeverDispatched(row) ==
  /\ row.status \in {"creating", "close_pending"}
  /\ row.prepay = "unclaimed"
  /\ row.tx = None
  /\ row.recon = "none"
  /\ row.channel = "legacy"

(* Mutant: any captured payment of a funded order counts as settled.       *)
CanResolveReconciliation_AnyCapture(row, p, order, refund) ==
  /\ refund.status # "pending"
  /\ row.status = "success" => order.status \in FundedStatus

(* May an operator acknowledge the case of payment p as settled?  The      *)
(* unresolved provider-refund evidence of canResolvePaymentReconciliation  *)
(* is the last conjunct.                                                   *)
CanResolveReconciliation(row, p, order, refund) ==
  /\ row.reason = "provider_side_refund" => row.status = "refunded"
  /\ refund.status # "pending"
  /\ \/ /\ row.status = "success"
        /\ order.status \in FundedStatus /\ order.paid = p /\ row.tx # None
     \/ /\ row.status = "refunded"
        /\ refund.status = "success"
        /\ \/ /\ refund.purpose = OrderCancelRefund
              /\ order.status = "refunded" /\ order.paid = p
           \/ /\ refund.purpose = LateRefund
              /\ order.status = "cancelled" /\ order.paid = None
           \/ /\ refund.purpose = DuplicateRefund
              /\ order.status \in FundedStatus \cup {"refunded"}
              /\ order.paid \notin {None, p}
     \/ /\ row.status \in {"closed", "failed"}
        /\ \/ order.status \in {"cancelled", "pending_payment"} /\ order.paid = None
           \/ order.status \in FundedStatus \cup {"refunded"} /\ order.paid \notin {None, p}
  /\ row.status = "refunded" \/ ~row.refundReported
=============================================================================
