--------------------------- MODULE OrderLifecycle ---------------------------
(***************************************************************************)
(* What the order tables promise the rest of the shop, with payments,      *)
(* jobs and providers left out: the life of an order as the compare-and-   *)
(* set statements of db/query/orders.sql and order_fulfillment.sql         *)
(* allow it, and the unit of stock each order takes and gives back.        *)
(***************************************************************************)
EXTENDS Naturals

CONSTANTS Order, Supply

VARIABLES status, stock

lifecycleVars == <<status, stock>>

LifecycleInit ==
  /\ status = [o \in Order |-> "absent"]
  /\ stock = Supply

Move(o, from, to) ==
  /\ status[o] = from
  /\ status' = [status EXCEPT ![o] = to]

Place(o) == Move(o, "absent", "pending_payment") /\ stock > 0 /\ stock' = stock - 1

MarkOrderPaid(o) == Move(o, "pending_payment", "paid") /\ UNCHANGED stock

(* pending_payment -> cancelling -> cancelled with the stock restored in   *)
(* between, always within one transaction.                                 *)
CancelOrder(o) == Move(o, "pending_payment", "cancelled") /\ stock' = stock + 1

MarkOrderShipped(o) == Move(o, "paid", "shipped") /\ UNCHANGED stock
MarkOrderCompleted(o) == Move(o, "shipped", "completed") /\ UNCHANGED stock

(* Only an order that has not been dispatched can be refunded.             *)
MarkOrderRefunded(o) == Move(o, "paid", "refunded") /\ stock' = stock + 1

LifecycleNext ==
  \E o \in Order :
    \/ Place(o) \/ MarkOrderPaid(o) \/ CancelOrder(o)
    \/ MarkOrderShipped(o) \/ MarkOrderCompleted(o) \/ MarkOrderRefunded(o)

LifecycleSpec == LifecycleInit /\ [][LifecycleNext]_lifecycleVars
=============================================================================
