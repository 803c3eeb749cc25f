----------------------------- MODULE Settlement -----------------------------
(***************************************************************************)
(* The order / payment / refund / reconciliation rows of the mall, the     *)
(* River jobs queued with them, and every transaction that changes them.   *)
(*                                                                         *)
(* Each transaction locks the order row first and then its payment rows,   *)
(* so a committed transaction is one atomic action; one that returns an    *)
(* error rolls back and is no step at all, unless it leaves something      *)
(* behind.  What happens between two transactions (a provider call, a      *)
(* crash, another replica) is an interleaving point: a worker's snapshot   *)
(* is kept in its job (field at) and may be stale when it is used.         *)
(* Providers are unconstrained: any answer, any number of times, at any    *)
(* moment and in any order.                                                *)
(***************************************************************************)
EXTENDS PaymentRules, Naturals, FiniteSets

CONSTANTS
  Order, Payment, Note,   \* row identities that may come into being
  Tx,                     \* third-party transaction ids
  Channel,                \* the channels in use, out of Channels below
  Operated,               \* the payments operators queue checks and retries for
  MaxVersion,             \* bound on reconciliation_version
  Supply                  \* units of the product; every order takes one

ASSUME SettlementAssumption ==
  /\ IsFiniteSet(Order)
  /\ None \notin Order \cup Payment \cup Note \cup Tx
  /\ Order \cap Payment = {}
  /\ Channel \subseteq {"local", "network", "legacy"}
  /\ Operated \subseteq Payment
  /\ MaxVersion \in Nat
  /\ Supply \in Nat

VARIABLES
  orders,     \* [Order -> row]: status, paid (paid_payment_id), expired
  payments,   \* [Payment -> row]: see PaymentRules; order = None before insert
  refunds,    \* [Payment -> row]: status, purpose (unique per payment)
  stock,      \* products.stock
  notes,      \* [Note -> row]: status, pay
  jobs        \* the active River jobs

rows == <<orders, payments, refunds, stock>>
vars == <<orders, payments, refunds, stock, notes, jobs>>

OrderStatus == {"absent", "pending_payment", "paid", "shipped", "completed",
                "cancelling", "cancelled", "refunded"}
PaymentStatus == {"absent", "creating", "pending", "failed", "close_pending",
                  "closed", "success", "refunded"}
(* Reasons raised with one fixed detail text, so two of them do coincide.    *)
ExactReason == {"provider_side_refund", "provider_order_not_exist"}
OrderRow == [status : OrderStatus, paid : Payment \cup {None}, expired : BOOLEAN]
PaymentRow ==
  [order : Order \cup {None}, channel : {"local", "network", "legacy"}, status : PaymentStatus,
   prepay : {"unclaimed", "live", "lapsed", "released", "issued"}, tx : Tx \cup {None},
   recon : {"none", "required", "processing", "resolved"}, version : 0..MaxVersion,
   reason : {"none", "other"} \cup ExactReason, refundReported : BOOLEAN]
RefundRow ==
  [status : {"none", "pending", "success", "failed"},
   purpose : {"none", OrderCancelRefund, DuplicateRefund, LateRefund}]
NoteRow == [status : {"absent", "received", "processing", "processed", "failed"},
            pay : Payment \cup {None}]
ExpiryJob == [kind : {"expire_order"}, id : Order, ver : {0}, note : {None}, at : {"queued"}]
PaymentJob == [kind : {"check_pay", "close_pay"}, id : Payment, ver : 0..MaxVersion,
               note : Note \cup {None}, at : {"queued", "asked", "signed", "unissued"}]

NewPayment ==
  [order |-> None, channel |-> "local", status |-> "absent", prepay |-> "unclaimed", tx |-> None,
   recon |-> "none", version |-> 0, reason |-> "none", refundReported |-> FALSE]

Init ==
  /\ orders = [o \in Order |-> [status |-> "absent", paid |-> None, expired |-> FALSE]]
  /\ payments = [p \in Payment |-> NewPayment]
  /\ refunds = [p \in Payment |-> [status |-> "none", purpose |-> "none"]]
  /\ stock = Supply
  /\ notes = [n \in Note |-> [status |-> "absent", pay |-> None]]
  /\ jobs = {}

-----------------------------------------------------------------------------
(* Rows and queues.                                                        *)

PaymentsOf(o) == {p \in Payment : payments[p].order = o}

(* MarkPaymentClosed, MarkPaymentFailed and RecordPaymentSuccess clear the  *)
(* prepay lease.                                                           *)
Unleased(row) ==
  [row EXCEPT !.prepay = IF @ \in {"live", "lapsed"} THEN "released" ELSE @]

(* River's uniqueness by arguments over the active states: an insert with  *)
(* the key of an active job is skipped.                                    *)
QueuedJob(kind, id, ver, note) ==
  [kind |-> kind, id |-> id, ver |-> ver, note |-> note, at |-> "queued"]
SameKey(j, k) == j.kind = k.kind /\ j.id = k.id /\ j.ver = k.ver /\ j.note = k.note
Enqueue(active, new) == active \cup {j \in new : \A k \in active : ~SameKey(j, k)}
Requeued(j) == (jobs \ {j}) \cup {[j EXCEPT !.at = "queued"]}

(* A worker that returns nil has its job completed, or the process dies    *)
(* before that is recorded and the job is delivered again.                 *)
AfterWork(j) == {jobs \ {j}, Requeued(j)}


(* RequirePaymentReconciliation: the same unresolved anomaly (reason and   *)
(* detail) is idempotent, anything else opens or reopens the case under a  *)
(* new version.  The reasons outside ExactReason are one class here, so    *)
(* whether two of them coincide is left open.                              *)
RequiredRows(row, reason) ==
  LET opened == [row EXCEPT !.recon = "required", !.version = @ + 1, !.reason = reason]
      repeated == row.recon = "required" /\ row.reason = reason
  IN  {r \in {row} : repeated}
        \cup {r \in {opened} : row.version < MaxVersion
                                 /\ (repeated => reason \notin ExactReason)}

RequirePaymentReconciliation(p, row, reason) ==
  \E r \in RequiredRows(row, reason) : payments' = [payments EXCEPT ![p] = r]

(* markNotificationProcessed: a job without a notification, one already    *)
(* processed, or the CAS from received/processing; a failed notification   *)
(* makes the enclosing transaction roll back.                              *)
MarkNotificationProcessed(n) ==
  \/ n = None /\ UNCHANGED notes
  \/ /\ n # None
     /\ notes[n].status \in {"received", "processing", "processed"}
     /\ notes' = [notes EXCEPT ![n].status = "processed"]

(* The tail shared by every cancellation: pending_payment -> cancelling,   *)
(* RestoreOrderItemStock, cancelling -> cancelled in one transaction.      *)
CancelAndRestore(o) ==
  /\ orders' = [orders EXCEPT ![o].status = "cancelled"]
  /\ stock' = stock + 1

(* recoverUnsupportedPayments: the payment rows of o with the never        *)
(* dispatched ones failed; every caller goes on to judge these rows.       *)
RecoverUnsupportedPayments(o) ==
  [p \in Payment |->
     IF payments[p].order = o /\ UnsupportedPaymentNeverDispatched(payments[p])
     THEN [payments[p] EXCEPT !.status = "failed"] ELSE payments[p]]

-----------------------------------------------------------------------------
(* Orders: checkout, the payment window, cancellation, expiry, fulfilment. *)

(* Mutant: the stock check is left to the caller.                          *)
CreateOrder_Oversells(o) ==
  /\ orders[o].status = "absent"
  /\ orders' = [orders EXCEPT ![o].status = "pending_payment"]
  /\ stock' = stock - 1
  /\ UNCHANGED <<payments, refunds, notes, jobs>>

CreateOrder(o) ==
  /\ orders[o].status = "absent"
  /\ stock > 0
  /\ orders' = [orders EXCEPT ![o].status = "pending_payment"]
  /\ stock' = stock - 1
  /\ jobs' = Enqueue(jobs, {QueuedJob("expire_order", o, 0, None)})
  /\ UNCHANGED <<payments, refunds, notes>>

(* The database clock passes expires_at.                                   *)
PaymentWindowEnds(o) ==
  /\ orders[o].status # "absent"
  /\ ~orders[o].expired
  /\ orders' = [orders EXCEPT ![o].expired = TRUE]
  /\ UNCHANGED <<payments, refunds, stock, notes, jobs>>

CancelOrderByUser(o) ==
  LET recovered == RecoverUnsupportedPayments(o)
  IN  /\ orders[o].status = "pending_payment"
      /\ \A p \in PaymentsOf(o) :
            /\ ~ReconciliationNeedsReview(recovered[p].recon)
            /\ recovered[p].status \notin CapturedStatus \cup ActiveStatus
      /\ payments' = recovered
      /\ CancelAndRestore(o)
      /\ UNCHANGED <<refunds, notes, jobs>>

(* The committed outcomes of ExpireOrder on a pending, overdue order none  *)
(* of whose payments is under review.                                      *)
ExpirePendingOrder(o, left) ==
  LET recovered == RecoverUnsupportedPayments(o)
      captured == {p \in PaymentsOf(o) : recovered[p].status \in CapturedStatus}
      open == {p \in PaymentsOf(o) : recovered[p].status \in ActiveStatus}
  IN  /\ orders[o].expired
      /\ \A p \in PaymentsOf(o) : ~ReconciliationNeedsReview(recovered[p].recon)
      /\ \/ \E p \in captured :    \* the first captured payment listed decides
              IF recovered[p].status = "success"
              THEN /\ orders' = [orders EXCEPT ![o].status = "paid", ![o].paid = p]
                   /\ payments' = recovered
                   /\ jobs' = left
                   /\ UNCHANGED stock
              ELSE /\ \E r \in RequiredRows(recovered[p], "other") :
                         payments' = [recovered EXCEPT ![p] = r]
                   /\ UNCHANGED <<orders, stock, jobs>>
         \/ /\ captured = {} /\ open # {}
            /\ payments' = [p \in Payment |->
                              IF p \in open THEN [recovered[p] EXCEPT !.status = "close_pending"]
                                            ELSE recovered[p]]
            /\ jobs' = Enqueue(left, {QueuedJob("close_pay", p, 0, None) : p \in open})
            /\ UNCHANGED <<orders, stock>>
         \/ /\ captured = {} /\ open = {}
            /\ payments' = recovered
            /\ CancelAndRestore(o)
            /\ jobs' = left

(* ExpireOrderWorker: an order no longer pending completes the job; a      *)
(* window still open or a payment under review snoozes it (no step).       *)
ExpireOrder(o) ==
  \E j \in jobs :
    /\ j.kind = "expire_order" /\ j.id = o
    /\ \E left \in AfterWork(j) :
         \/ /\ orders[o].status # "pending_payment"
            /\ jobs' = left
            /\ UNCHANGED rows
         \/ /\ orders[o].status = "pending_payment"
            /\ ExpirePendingOrder(o, left)
            /\ UNCHANGED refunds
    /\ UNCHANGED notes

ReapOverdueOrders ==
  /\ jobs' = Enqueue(jobs, {QueuedJob("expire_order", o, 0, None) :
                              o \in {x \in Order : orders[x].status = "pending_payment"
                                                     /\ orders[x].expired}})
  /\ UNCHANGED <<orders, payments, refunds, stock, notes>>

(* Mutant: dispatch does not look at the refund.                           *)
ApplyFulfillment_IgnoresRefund(o, from, to) ==
  LET p == orders[o].paid
  IN  /\ orders[o].status = from
      /\ p # None /\ ~ReconciliationNeedsReview(payments[p].recon)
      /\ orders' = [orders EXCEPT ![o].status = to]
      /\ UNCHANGED <<payments, refunds, stock, notes, jobs>>

(* ApplyFulfillment: ship a paid order, complete a shipped one.            *)
ApplyFulfillment(o, from, to) ==
  LET p == orders[o].paid
  IN  /\ orders[o].status = from
      /\ p # None
      /\ payments[p].status = "success"
      /\ ~ReconciliationNeedsReview(payments[p].recon)
      /\ refunds[p].status \in {"none", "failed"}
      /\ orders' = [orders EXCEPT ![o].status = to]
      /\ UNCHANGED <<payments, refunds, stock, notes, jobs>>

Ship(o) == ApplyFulfillment(o, "paid", "shipped")
Complete(o) == ApplyFulfillment(o, "shipped", "completed")

-----------------------------------------------------------------------------
(* Prepay: one active payment per order, a lease around the adapter call.  *)

(* Mutant: a payment being closed does not count as active.                *)
CreatePayment_BesideClosing(o, p, channel) ==
  /\ orders[o].status = "pending_payment" /\ ~orders[o].expired
  /\ payments[p].status = "absent"
  /\ \A q \in PaymentsOf(o) :
       /\ ~ReconciliationNeedsReview(payments[q].recon)
       /\ payments[q].status \in {"closed", "failed", "close_pending"}
  /\ payments' = [payments EXCEPT ![p] = [NewPayment EXCEPT !.order = o, !.channel = channel,
                                                            !.status = "creating"]]
  /\ UNCHANGED <<orders, refunds, stock, notes, jobs>>

(* CreatePayment.  PrepayForOrder refuses an unsupported method first; a     *)
(* "legacy" row is one inserted by the release without that check.         *)
CreatePayment(o, p, channel) ==
  LET recovered == RecoverUnsupportedPayments(o)
  IN  /\ orders[o].status = "pending_payment" /\ ~orders[o].expired
      /\ payments[p].status = "absent"
      /\ \A q \in PaymentsOf(o) :
            /\ ~ReconciliationNeedsReview(recovered[q].recon)
            /\ recovered[q].status \notin CapturedStatus \cup ActiveStatus
      /\ payments' = [recovered EXCEPT ![p] = [NewPayment EXCEPT !.order = o, !.channel = channel,
                                                                 !.status = "creating"]]
      /\ UNCHANGED <<orders, refunds, stock, notes, jobs>>

(* Tokens are unique, so a call whose lease was taken over never matches   *)
(* again: only the holder of the current lease can finalize or release it. *)
ClaimPaymentPrepay(p) ==
  /\ payments[p].status = "creating" /\ payments[p].channel # "legacy"
  /\ payments[p].prepay # "live"
  /\ payments' = [payments EXCEPT ![p].prepay = "live"]
  /\ UNCHANGED <<orders, refunds, stock, notes, jobs>>

PrepayLeaseLapses(p) ==
  /\ payments[p].prepay = "live"
  /\ payments' = [payments EXCEPT ![p].prepay = "lapsed"]
  /\ UNCHANGED <<orders, refunds, stock, notes, jobs>>

(* Mutant: finalizing checks the lease token and not the status.           *)
FinalizePaymentPrepay_TokenOnly(p) ==
  /\ payments[p].prepay \in {"live", "lapsed"}
  /\ payments' = [payments EXCEPT ![p].status = "pending", ![p].prepay = "issued"]
  /\ UNCHANGED <<orders, refunds, stock, notes, jobs>>

(* FinalizePaymentPrepay and the check_pay insert of the same transaction  *)
(* (RequiresPoll holds for wechat only).                                   *)
FinalizePaymentPrepay(p) ==
  /\ payments[p].status = "creating"
  /\ payments[p].prepay \in {"live", "lapsed"}
  /\ payments' = [payments EXCEPT ![p].status = "pending", ![p].prepay = "issued"]
  /\ jobs' = Enqueue(jobs, {j \in {QueuedJob("check_pay", p, 0, None)} : payments[p].channel = "network"})
  /\ UNCHANGED <<orders, refunds, stock, notes>>

RecordPaymentPrepayError(p) ==
  /\ \/ payments[p].status = "creating"
     \/ payments[p].status = "close_pending" /\ payments[p].channel = "local"
  /\ payments[p].prepay \in {"live", "lapsed"}
  /\ payments' = [payments EXCEPT ![p].prepay = "released"]
  /\ UNCHANGED <<orders, refunds, stock, notes, jobs>>

-----------------------------------------------------------------------------
(* ApplyPayQuery: one authoritative provider result applied to payment p.  *)
(* args: ver and note of the job (0, None from the API), closing (the      *)
(* close_pay trigger), confirm (ConfirmUnissued).  result: state, tx, and  *)
(* match (validateProviderResult; an unknown state goes the same way as a  *)
(* mismatch).  CLOSED stands for REVOKED as well.  The gateway refuses     *)
(* legacy methods, so there is never a result for one.                     *)

(* Mutant: open reconciliation cases do not hold the order back.           *)
FinalizeOrderAfterPaymentInactive_IgnoresReview(o, p) ==
  IF orders[o].status = "pending_payment"
       /\ \A q \in PaymentsOf(o) \ {p} : payments[q].status \notin ActiveStatus \cup {"success"}
  THEN CancelAndRestore(o)
  ELSE UNCHANGED <<orders, stock>>

(* finalizeOrderAfterPaymentInactive, on the rows read before the update.  *)
FinalizeOrderAfterPaymentInactive(o, p) ==
  LET others == PaymentsOf(o) \ {p}
      successful == {q \in others : payments[q].status = "success"
                                      /\ ~ReconciliationNeedsReview(payments[q].recon)}
      hasActive == \E q \in others : payments[q].status \in ActiveStatus
      hasReconciliation == \E q \in others \cup {p} : ReconciliationNeedsReview(payments[q].recon)
      cancels == successful = {} /\ ~hasActive /\ ~hasReconciliation
  IN  IF orders[o].status = "pending_payment" /\ cancels
      THEN CancelAndRestore(o)
      ELSE /\ IF orders[o].status = "pending_payment" /\ successful # {}
              THEN \E q \in successful :
                     orders' = [orders EXCEPT ![o].status = "paid", ![o].paid = q]
              ELSE UNCHANGED orders
           /\ UNCHANGED stock

(* Another payment of the same channel already carries this transaction    *)
(* id: the unique index aborts the transaction and a fresh one runs        *)
(* MarkReconciliationRequired instead.                                     *)
DuplicateThirdPartyTx(p, tx) ==
  \E q \in Payment \ {p} : payments[q].tx = tx /\ payments[q].channel = payments[p].channel

ApplySuccess(p, tx) ==
  LET row == payments[p]
      o == row.order
      otherSuccess == \E q \in PaymentsOf(o) \ {p} : payments[q].status \in CapturedStatus
      decision == DecidePaymentSuccess(orders[o].status, otherSuccess)
      captured == [Unleased(row) EXCEPT !.status = "success", !.tx = tx]
  IN  /\ tx # None
      /\ \/ row.status = "success" /\ row.tx = tx /\ UNCHANGED rows
         \/ /\ \/ row.status = "success" /\ row.tx # tx
               \/ row.status \notin CapturedStatus /\ DuplicateThirdPartyTx(p, tx)
            /\ RequirePaymentReconciliation(p, row, "other")
            /\ UNCHANGED <<orders, refunds, stock>>
         \/ /\ row.status \notin CapturedStatus /\ ~DuplicateThirdPartyTx(p, tx)
            /\ decision # Conflict
            /\ orders' = IF decision = "pay"
                         THEN [orders EXCEPT ![o].status = "paid", ![o].paid = p] ELSE orders
            /\ IF decision = "review" THEN RequirePaymentReconciliation(p, captured, "other")
                                      ELSE payments' = [payments EXCEPT ![p] = captured]
            /\ UNCHANGED <<refunds, stock>>

(* Mutant: a provider close overwrites whatever the payment was.           *)
ApplyClosed_Unguarded(p, tx) ==
  /\ payments[p].status # "refunded"
  /\ payments' = [payments EXCEPT ![p] = [Unleased(payments[p]) EXCEPT !.status = "closed"]]
  /\ FinalizeOrderAfterPaymentInactive(payments[p].order, p)
  /\ UNCHANGED refunds

ApplyClosed(p, tx) ==
  LET row == payments[p]
  IN  \/ /\ row.status = "refunded" /\ tx # None /\ row.tx = tx /\ refunds[p].status = "success"
         /\ UNCHANGED rows
      \/ row.status = "closed" /\ UNCHANGED rows
      \/ /\ row.status \in ActiveStatus
         /\ payments' = [payments EXCEPT ![p] = [Unleased(row) EXCEPT !.status = "closed"]]
         /\ FinalizeOrderAfterPaymentInactive(row.order, p)
         /\ UNCHANGED refunds

ApplyPayError(p, closing) ==
  LET row == payments[p]
  IN  /\ row.status \in ActiveStatus \cup {"failed", "closed"}
      /\ payments' = IF row.status \in ActiveStatus
                     THEN [payments EXCEPT ![p] = [Unleased(row) EXCEPT !.status = "failed"]]
                     ELSE payments
      /\ IF row.status = "close_pending" \/ closing
         THEN FinalizeOrderAfterPaymentInactive(row.order, p)
         ELSE UNCHANGED <<orders, stock>>
      /\ UNCHANGED refunds

(* Mutant: every settled refund gives the stock back.                      *)
SettlePaymentRefund_AlwaysRestores(p) ==
  LET o == payments[p].order
  IN  /\ payments[p].status = "success"
      /\ ValidateRefundSettlement(refunds[p].purpose, orders[o].status, orders[o].paid, p)
      /\ orders' = IF refunds[p].purpose = OrderCancelRefund
                   THEN [orders EXCEPT ![o].status = "refunded"] ELSE orders
      /\ stock' = stock + 1
      /\ refunds' = [refunds EXCEPT ![p].status = "success"]
      /\ payments' = [payments EXCEPT ![p].status = "refunded"]

(* settlePaymentRefund: the only place a refund becomes a local fact.      *)
SettlePaymentRefund(p) ==
  LET o == payments[p].order
  IN  \/ payments[p].status = "refunded" /\ refunds[p].status = "success" /\ UNCHANGED rows
      \/ /\ payments[p].status = "success"
         /\ ValidateRefundSettlement(refunds[p].purpose, orders[o].status, orders[o].paid, p)
         /\ IF refunds[p].purpose = OrderCancelRefund
            THEN /\ orders' = [orders EXCEPT ![o].status = "refunded"]
                 /\ stock' = stock + 1
            ELSE UNCHANGED <<orders, stock>>
         /\ refunds' = [refunds EXCEPT ![p].status = "success"]
         /\ payments' = [payments EXCEPT ![p].status = "refunded"]

ApplyProviderRefund(p) ==
  \/ payments[p].status = "refunded" /\ UNCHANGED rows
  \/ /\ payments[p].status = "success" /\ refunds[p].status = "none"
     /\ RequirePaymentReconciliation(p, [payments[p] EXCEPT !.refundReported = TRUE],
                                     "provider_side_refund")
     /\ UNCHANGED <<orders, refunds, stock>>
  \/ /\ payments[p].status = "success" /\ refunds[p].status # "none"
     /\ SettlePaymentRefund(p)

ApplyPayQuery(p, args, result) ==
  /\ payments[p].status # "absent" /\ payments[p].channel # "legacy"
  /\ args.confirm =>
       /\ result.state = "CLOSED"
       /\ CanConfirmUnissuedPayment(payments[p])
       /\ args.ver = 0 => ~ReconciliationNeedsReview(payments[p].recon)
       /\ ReconciliationJobCurrent(args.ver, payments[p])
  /\ \/ /\ ~result.match
        /\ RequirePaymentReconciliation(p, payments[p], "other")
        /\ UNCHANGED <<orders, refunds, stock>>
     \/ result.match /\ result.state = "SUCCESS" /\ ApplySuccess(p, result.tx)
     \/ result.match /\ result.state = "CLOSED" /\ ApplyClosed(p, result.tx)
     \/ result.match /\ result.state = "PAYERROR" /\ ApplyPayError(p, args.closing)
     \/ result.match /\ result.state = "REFUND" /\ ApplyProviderRefund(p)
  /\ MarkNotificationProcessed(args.note)

(* What a provider may answer; the fields that are never looked at are     *)
(* fixed.                                                                  *)
Answer(state, tx, match) == [state |-> state, tx |-> tx, match |-> match]
ProviderResult ==
  {Answer("SUCCESS", tx, TRUE) : tx \in Tx} \cup {Answer("CLOSED", tx, TRUE) : tx \in Tx \cup {None}}
    \cup {Answer("PAYERROR", None, TRUE), Answer("REFUND", None, TRUE), Answer("SUCCESS", None, FALSE)}
ApiArgs == [ver |-> 0, note |-> None, closing |-> FALSE, confirm |-> FALSE]

-----------------------------------------------------------------------------
(* Callers of ApplyPayQuery.                                               *)

(* QueryPayment, and ClosePayment once the provider has answered.          *)
ApiResult(p, result) ==
  /\ ApplyPayQuery(p, ApiArgs, result)
  /\ UNCHANGED jobs

(* MarkPayClosePending, past its version fence.                            *)
MarkPayClosePending(p, ver, note, left) ==
  /\ payments[p].status \in ActiveStatus
  /\ payments' = [payments EXCEPT ![p].status = "close_pending"]
  /\ jobs' = Enqueue(left, {QueuedJob("close_pay", p, ver, None)})
  /\ MarkNotificationProcessed(note)
  /\ UNCHANGED <<orders, refunds, stock>>

(* ClosePayment up to its provider call.                                   *)
ClosePayment(p) ==
  /\ payments[p].status \in {"pending", "close_pending"} /\ payments[p].channel # "legacy"
  /\ MarkPayClosePending(p, 0, None, jobs)

CheckPayStart(j) ==
  /\ j.kind = "check_pay" /\ j.at = "queued" /\ payments[j.id].channel # "legacy"
  /\ ReconciliationJobCurrent(j.ver, payments[j.id])
  /\ \/ j.note = None /\ UNCHANGED notes
     \/ /\ j.note # None /\ notes[j.note].status # "processed"
        /\ notes' = [notes EXCEPT ![j.note].status = "processing"]
  /\ jobs' = (jobs \ {j}) \cup {[j EXCEPT !.at = "asked"]}
  /\ UNCHANGED rows

(* A fenced-off retry, or a notification somebody else has processed.      *)
JobObsolete(j) ==
  /\ j.kind # "expire_order" /\ j.at = "queued"
  /\ \/ ~ReconciliationJobCurrent(j.ver, payments[j.id])
     \/ j.note # None /\ notes[j.note].status = "processed"
  /\ jobs' = jobs \ {j}
  /\ UNCHANGED <<orders, payments, refunds, stock, notes>>

CheckPayApply(j, result) ==
  /\ j.kind = "check_pay" /\ j.at = "asked"
  /\ ApplyPayQuery(j.id, [ver |-> j.ver, note |-> j.note, closing |-> FALSE, confirm |-> FALSE], result)
  /\ jobs' \in AfterWork(j)

(* Polls exhausted and the payment window over: hand over to close_pay, or *)
(* end quietly when the retry's version has gone stale in the meantime.    *)
CheckPayCloses(j) ==
  /\ j.kind = "check_pay" /\ j.at = "asked"
  /\ orders[payments[j.id].order].expired
  /\ \E left \in AfterWork(j) :
       IF ReconciliationJobCurrent(j.ver, payments[j.id])
       THEN MarkPayClosePending(j.id, j.ver, j.note, left)
       ELSE jobs' = left /\ UNCHANGED <<orders, payments, refunds, stock, notes>>

(* The worker's snapshot fixes what provider absence will prove; an active *)
(* local signer snoozes the job instead.                                   *)
ClosePayStart(j) ==
  LET row == payments[j.id]
      evidence == CASE CanConfirmUnissuedPayment(row) -> "unissued"
                    [] row.channel = "local" /\ row.prepay = "issued" -> "signed"
                    [] OTHER -> "asked"
  IN  /\ j.kind = "close_pay" /\ j.at = "queued" /\ row.channel # "legacy"
      /\ ReconciliationJobCurrent(j.ver, row)
      /\ ~(row.channel = "local" /\ row.status = "close_pending" /\ row.prepay = "live")
      /\ jobs' = (jobs \ {j}) \cup {[j EXCEPT !.at = evidence]}
      /\ UNCHANGED <<orders, payments, refunds, stock, notes>>

ClosePayArgs(j, confirm) == [ver |-> j.ver, note |-> None, closing |-> TRUE, confirm |-> confirm]

(* A terminal query answer, a confirmed Close, or the absence of a locally *)
(* signed trade after its signature expired.                               *)
ClosePayApply(j, result) ==
  /\ j.kind = "close_pay" /\ j.at # "queued"
  /\ ApplyPayQuery(j.id, ClosePayArgs(j, FALSE), result)
  /\ jobs' \in AfterWork(j)

ClosePayConfirmsUnissued(j) ==
  /\ j.kind = "close_pay" /\ j.at = "unissued"
  /\ ApplyPayQuery(j.id, ClosePayArgs(j, TRUE), Answer("CLOSED", None, TRUE))
  /\ jobs' \in AfterWork(j)

(* Absence without proof: MarkReconciliationRequired, which is not fenced. *)
ClosePayProvesNothing(j) ==
  /\ j.kind = "close_pay" /\ j.at = "asked"
  /\ RequirePaymentReconciliation(j.id, payments[j.id], "provider_order_not_exist")
  /\ jobs' \in AfterWork(j)
  /\ UNCHANGED <<orders, refunds, stock, notes>>

(* Snooze, retryable error, or the worker died with the call outstanding.  *)
JobReturns(j) ==
  /\ j.at # "queued"
  /\ jobs' = Requeued(j)
  /\ UNCHANGED <<orders, payments, refunds, stock, notes>>

(* The last attempt failed.  HandleError records it in one transaction,    *)
(* fenced by the job's version; expire_order only leaves a metric, and the *)
(* record itself may fail to commit.                                       *)
JobDiscarded(j) ==
  /\ jobs' = jobs \ {j}
  /\ \/ UNCHANGED <<payments, notes>>
     \/ /\ j.kind # "expire_order"
        /\ IF j.note # None /\ notes[j.note].status # "processed"
           THEN notes' = [notes EXCEPT ![j.note].status = "failed"] ELSE UNCHANGED notes
        /\ IF ReconciliationJobCurrent(j.ver, payments[j.id])
           THEN RequirePaymentReconciliation(j.id, payments[j.id], "other")
           ELSE UNCHANGED payments
  /\ UNCHANGED <<orders, refunds, stock>>

-----------------------------------------------------------------------------
(* Notifications, admin checks.                                            *)


(* PersistAndEnqueueNotification: first delivery, or a redelivery before   *)
(* the notification was processed.                                         *)
HandleNotification(p, n) ==
  /\ payments[p].status # "absent" /\ payments[p].channel # "legacy"
  /\ \/ /\ notes[n].status = "absent"
        /\ notes' = [notes EXCEPT ![n] = [status |-> "received", pay |-> p]]
     \/ notes[n].pay = p /\ notes[n].status # "processed" /\ UNCHANGED notes
  /\ jobs' = Enqueue(jobs, {QueuedJob("check_pay", p, 0, n)})
  /\ UNCHANGED rows

(* A verified notification whose amount or currency disagrees.             *)
NotificationMismatch(p) ==
  /\ payments[p].status # "absent" /\ payments[p].channel # "legacy"
  /\ RequirePaymentReconciliation(p, payments[p], "other")
  /\ UNCHANGED <<orders, refunds, stock, notes, jobs>>

CreateCheckJob(p) ==
  /\ p \in Operated
  /\ payments[p].status # "absent"
  /\ jobs' = Enqueue(jobs, {QueuedJob("check_pay", p, 0, None)})
  /\ UNCHANGED <<orders, payments, refunds, stock, notes>>

-----------------------------------------------------------------------------
(* Refunds (alipay only) and operator reconciliation.                      *)

PreparePaymentRefund(p) ==
  LET order == orders[payments[p].order]
      purpose == DecideRefundPurpose(order.status, order.paid, p)
  IN  /\ payments[p].status = "success" /\ payments[p].channel = "local"
      /\ \/ refunds[p].status = "none" /\ purpose # Conflict
         \/ refunds[p].status = "failed" /\ purpose = refunds[p].purpose
      /\ refunds' = [refunds EXCEPT ![p] = [status |-> "pending", purpose |-> purpose]]
      /\ UNCHANGED <<orders, payments, stock, notes, jobs>>

(* recordRefundFailure after a definitive provider rejection.              *)
RecordPaymentRefundError(p) ==
  /\ refunds[p].status = "pending"
  /\ refunds' = [refunds EXCEPT ![p].status = "failed"]
  /\ UNCHANGED <<orders, payments, stock, notes, jobs>>

ApplyPaymentRefund(p) ==
  /\ refunds[p].status # "none"
  /\ SettlePaymentRefund(p)
  /\ UNCHANGED <<notes, jobs>>

RetryReconciliation(p) ==
  LET row == payments[p]
      kind == IF row.status = "close_pending" THEN "close_pay" ELSE "check_pay"
  IN  /\ p \in Operated
      /\ row.recon = "required" /\ row.version < MaxVersion
      /\ payments' = [payments EXCEPT ![p].recon = "processing", ![p].version = @ + 1]
      /\ jobs' = Enqueue(jobs, {QueuedJob(kind, p, row.version + 1, None)})
      /\ UNCHANGED <<orders, refunds, stock, notes>>

(* The payment's own facts must be settled, and so must those of the       *)
(* sibling that funded the order.                                          *)
ResolveReconciliation(p) ==
  LET order == orders[payments[p].order]
      primary == order.paid
  IN  /\ ReconciliationNeedsReview(payments[p].recon) /\ payments[p].version < MaxVersion
      /\ CanResolveReconciliation(payments[p], p, order, refunds[p])
      /\ primary \notin {None, p} =>
           CanResolveReconciliation(payments[primary], primary, order, refunds[primary])
      /\ payments' = [payments EXCEPT ![p].recon = "resolved", ![p].version = @ + 1,
                                      ![p].refundReported = FALSE]
      /\ UNCHANGED <<orders, refunds, stock, notes, jobs>>

-----------------------------------------------------------------------------
OrderStep(o) ==
  \/ CreateOrder(o) \/ PaymentWindowEnds(o) \/ CancelOrderByUser(o) \/ ExpireOrder(o)
  \/ Ship(o) \/ Complete(o)

PaymentStep(p) ==
  \/ \E o \in Order, channel \in Channel : CreatePayment(o, p, channel)
  \/ ClaimPaymentPrepay(p) \/ PrepayLeaseLapses(p) \/ FinalizePaymentPrepay(p)
  \/ RecordPaymentPrepayError(p)
  \/ \E result \in ProviderResult : ApiResult(p, result)
  \/ ClosePayment(p) \/ CreateCheckJob(p) \/ NotificationMismatch(p)
  \/ \E n \in Note : HandleNotification(p, n)
  \/ PreparePaymentRefund(p) \/ RecordPaymentRefundError(p) \/ ApplyPaymentRefund(p)
  \/ RetryReconciliation(p) \/ ResolveReconciliation(p)

JobStep(j) ==
  \/ CheckPayStart(j) \/ CheckPayCloses(j) \/ JobObsolete(j)
  \/ ClosePayStart(j) \/ ClosePayConfirmsUnissued(j) \/ ClosePayProvesNothing(j)
  \/ \E result \in ProviderResult : CheckPayApply(j, result) \/ ClosePayApply(j, result)
  \/ JobReturns(j) \/ JobDiscarded(j)

Next ==
  \/ \E o \in Order : OrderStep(o)
  \/ \E p \in Payment : PaymentStep(p)
  \/ \E j \in jobs : JobStep(j)
  \/ ReapOverdueOrders

Spec == Init /\ [][Next]_vars

-----------------------------------------------------------------------------
TypeOK ==
  /\ orders \in [Order -> OrderRow]
  /\ payments \in [Payment -> PaymentRow]
  /\ refunds \in [Payment -> RefundRow]
  /\ stock \in Nat
  /\ notes \in [Note -> NoteRow]
  /\ jobs \subseteq ExpiryJob \cup PaymentJob

(* Stock is conserved: products.stock and the orders that hold a unit (an  *)
(* order gives it back once, when it is cancelled or refunded) always add  *)
(* up to the supply, whatever CreateOrder, the four cancellation paths and *)
(* refund settlement do concurrently.                                      *)
Holding == {o \in Order : orders[o].status \in {"pending_payment"} \cup FundedStatus}
StockConserved == stock + Cardinality(Holding) = Supply

(* paid_payment_id tells the truth: a funded order names a captured        *)
(* payment of its own, a refunded order names one whose order-cancel       *)
(* refund is settled, and every other order names none.                    *)
PaidPaymentIsTruthful ==
  \A o \in Order :
    LET p == orders[o].paid
    IN  /\ orders[o].status \in FundedStatus =>
             p # None /\ payments[p].order = o /\ payments[p].status = "success"
        /\ orders[o].status = "refunded" =>
             /\ p # None /\ payments[p].order = o /\ payments[p].status = "refunded"
             /\ refunds[p] = [status |-> "success", purpose |-> OrderCancelRefund]
        /\ orders[o].status \notin FundedStatus \cup {"refunded"} => p = None

(* No captured money is lost sight of: a payment the provider collected    *)
(* either pays for its order, or has an open reconciliation case (late and *)
(* duplicate successes), or has been given back by a settled refund.  In   *)
(* particular ResolveReconciliation never closes such a case too early.    *)
CapturedMoneyIsAccountedFor ==
  \A p \in Payment :
    /\ payments[p].status = "success" =>
         \/ orders[payments[p].order].paid = p
         \/ ReconciliationNeedsReview(payments[p].recon)
    /\ payments[p].status = "refunded" <=> refunds[p].status = "success"

(* An order still awaiting payment has no captured payment: capturing one  *)
(* and settling the order are the same transaction, so the healing         *)
(* branches of ExpireOrder and finalizeOrderAfterPaymentInactive are only  *)
(* a backstop.                                                             *)
PendingOrderIsUnpaid ==
  \A p \in Payment :
    payments[p].status \in CapturedStatus =>
      orders[payments[p].order].status \notin {"absent", "pending_payment"}

(* A buyer never has two payable payments for one order, and none once the *)
(* order has been cancelled and its stock released.                        *)
OneActivePayment ==
  \A p, q \in Payment :
    payments[p].status \in ActiveStatus =>
      /\ orders[payments[p].order].status # "cancelled"
      /\ payments[q].status \in ActiveStatus /\ payments[q].order = payments[p].order => p = q

(* A refund committed as pending before its provider call can always be    *)
(* settled once the provider confirms it: nothing that happens meanwhile   *)
(* (dispatch, another payment, cancellation) invalidates its purpose.      *)
PendingRefundStaysSettleable ==
  \A p \in Payment :
    refunds[p].status = "pending" =>
      LET order == orders[payments[p].order]
      IN  /\ payments[p].status = "success"
          /\ ValidateRefundSettlement(refunds[p].purpose, order.status, order.paid, p)

(* The rows refer to each other consistently, which the invariants above   *)
(* rest on: a payment row exists exactly when it has an order, that order  *)
(* exists, and only captured payments have refunds.                        *)
RowsAgree ==
  /\ \A p \in Payment :
       /\ payments[p].status = "absent" <=> payments[p].order = None
       /\ payments[p].status # "absent" => orders[payments[p].order].status # "absent"
       /\ refunds[p].status # "none" => payments[p].status \in CapturedStatus
  /\ \A o \in Order : orders[o].status # "cancelling"

MoneyInvariant ==
  /\ RowsAgree /\ PaidPaymentIsTruthful /\ CapturedMoneyIsAccountedFor
  /\ PendingOrderIsUnpaid /\ OneActivePayment /\ PendingRefundStaysSettleable

(* Money facts are final: success is left only for refunded, refunded is   *)
(* never left, and the transaction id of captured money never changes,     *)
(* whatever order provider answers arrive in.                              *)
CaptureIsFinal ==
  [][\A p \in Payment :
       /\ payments[p].status = "success" => payments'[p].status \in CapturedStatus
       /\ payments[p].status = "refunded" => payments'[p].status = "refunded"
       /\ payments[p].status \in CapturedStatus => payments'[p].tx = payments[p].tx]_vars

(* An order is cancelled, and its stock released, only when every payment  *)
(* made for it is closed or failed and none is under review.               *)
CancelOnlyWhenSettled ==
  [][\A o \in Order :
       orders[o].status # "cancelled" /\ orders'[o].status = "cancelled" =>
         \A p \in Payment : payments'[p].order = o =>
           /\ payments'[p].status \in {"closed", "failed"}
           /\ ~ReconciliationNeedsReview(payments'[p].recon)]_vars


(* The close worker's proof that no payment parameters ever left the shop, *)
(* taken from a snapshot before its provider query, is still true when the *)
(* worker acts on it: no prepay call of the same payment completes later.  *)
UnissuedProofStaysTrue ==
  \A j \in jobs : j.at = "unissued" =>
    /\ payments[j.id].prepay # "issued"
    /\ payments[j.id].channel = "network" => payments[j.id].prepay = "unclaimed"


(* A manual retry acts on provider absence only for the case version it    *)
(* was queued for: a close_pay job whose case was resolved while it was    *)
(* asking the provider leaves that case alone.                             *)
AbsenceIsFenced ==
  [][\A j \in jobs \ jobs' :
       j.at = "asked" /\ ~ReconciliationJobCurrent(j.ver, payments[j.id])
         /\ payments'[j.id].reason = "provider_order_not_exist" =>
       payments'[j.id].version = payments[j.id].version]_vars

(* The transactions implement the order life cycle: whatever payments,     *)
(* providers and jobs do, an order only ever moves along it, one order at  *)
(* a time and together with its unit of stock.                             *)
Lifecycle == INSTANCE OrderLifecycle WITH status <- [o \in Order |-> orders[o].status]
ImplementsOrderLifecycle == Lifecycle!LifecycleSpec
=============================================================================
