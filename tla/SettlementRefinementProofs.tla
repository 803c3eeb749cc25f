--------------------- MODULE SettlementRefinementProofs ---------------------
(***************************************************************************)
(* Settlement implements OrderLifecycle, and stock is conserved.  Both     *)
(* follow from the effects of SettlementEffects.                           *)
(***************************************************************************)
EXTENDS SettlementSafetyProofs, FiniteSetTheorems

(* An order that moves from s to t, whether the move is one of the life    *)
(* cycle, and what it does to stock.                                       *)
Moves(o, s, t) ==
  /\ orders[o].status = s /\ orders'[o].status = t
  /\ \A x \in Order \ {o} : orders'[x].status = orders[x].status

Takes(o) == Moves(o, "absent", "pending_payment") /\ stock > 0 /\ stock' = stock - 1
Passes(o) ==
  /\ \/ Moves(o, "pending_payment", "paid") \/ Moves(o, "paid", "shipped")
     \/ Moves(o, "shipped", "completed")
  /\ UNCHANGED stock
GivesBack(o) ==
  /\ Moves(o, "pending_payment", "cancelled") \/ Moves(o, "paid", "refunded")
  /\ stock' = stock + 1
Rests == (\A x \in Order : orders'[x].status = orders[x].status) /\ UNCHANGED stock

(* Each effect moves at most one order, along the life cycle, and stock    *)
(* with it.                                                                *)
LEMMA EffectMoves ==
  ASSUME TypeOK, MoneyInvariant, Effect
  PROVE  Rests \/ \E o \in Order : Takes(o) \/ Passes(o) \/ GivesBack(o)
<1>1. CASE (\A x \in Order : KeepsOrder(x)) /\ UNCHANGED stock
  BY <1>1 DEF KeepsOrder, Rests
<1>2. ASSUME NEW o \in Order, Placed(o) PROVE Takes(o)
  BY <1>2 DEF Placed, MovesTo, KeepsOrder, Takes, Moves
<1>3. ASSUME NEW o \in Order, Cancelled(o) PROVE GivesBack(o)
  BY <1>3 DEF Cancelled, MovesTo, KeepsOrder, GivesBack, Moves
<1>4. ASSUME NEW o \in Order, Dispatched(o) PROVE Passes(o)
  BY <1>4 DEF Dispatched, MovesTo, KeepsOrder, Passes, Moves
<1>5. ASSUME NEW o \in Order, NEW p \in Payment, PaidBy(o, p) PROVE Passes(o)
  BY <1>5 DEF PaidBy, Captures, MovesTo, KeepsOrder, Passes, Moves
<1>6. ASSUME NEW o \in Order, NEW p \in Payment, Settled(o, p) PROVE Rests \/ GivesBack(o)
  <2>1. CASE refunds[p].purpose = OrderCancelRefund
    <3>1. orders[o].status = "paid"
      BY <1>6, <2>1 DEF Settled, ValidateRefundSettlement, DecideRefundPurpose,
                        OrderCancelRefund, DuplicateRefund, LateRefund, Conflict
    <3>2. QED BY <1>6, <2>1, <3>1, SMTT(30) DEF Settled, MovesTo, KeepsOrder, GivesBack, Moves
  <2>2. CASE refunds[p].purpose # OrderCancelRefund
    BY <1>6, <2>2 DEF Settled, KeepsOrder, Rests
  <2>3. QED BY <2>1, <2>2
<1>7. CASE UNCHANGED <<orders, stock>>
  BY <1>7 DEF Rests
<1>8. QED BY <1>1, <1>2, <1>3, <1>4, <1>5, <1>6, <1>7, SMTT(30)
          DEF Effect, Idle, Started, CapturedLate, Captures, Prepared, Refused, Resolved

(* The transactions on orders, payments and refunds implement the life     *)
(* cycle the compare-and-set statements of orders.sql promise.             *)
THEOREM SettlementImplementsLifecycle == Spec => ImplementsOrderLifecycle
<1> DEFINE st == [o \in Order |-> orders[o].status]
<1>1. Init => Lifecycle!LifecycleInit
  BY DEF Init, Lifecycle!LifecycleInit
<1>2. TypeOK /\ MoneyInvariant /\ [Next]_vars => [Lifecycle!LifecycleNext]_(Lifecycle!lifecycleVars)
  <2> SUFFICES ASSUME TypeOK, MoneyInvariant, Effect
               PROVE  [Lifecycle!LifecycleNext]_(Lifecycle!lifecycleVars)
    BY StepHasEffect
  <2>1. CASE Rests
    <3>1. st' = st /\ stock' = stock
      BY <2>1 DEF Rests
    <3>2. QED BY <3>1 DEF Lifecycle!lifecycleVars
  <2>2. ASSUME NEW o \in Order, NEW s, NEW t, Moves(o, s, t)
        PROVE  st[o] = s /\ st' = [st EXCEPT ![o] = t]
    BY <2>2 DEF Moves
  <2>3. ASSUME NEW o \in Order, NEW s, NEW t, Moves(o, s, t)
        PROVE  Lifecycle!Move(o, s, t)
    BY <2>2, <2>3 DEF Lifecycle!Move
  <2>4. ASSUME NEW o \in Order, Takes(o) \/ Passes(o) \/ GivesBack(o)
        PROVE  Lifecycle!LifecycleNext
    BY <2>3, <2>4 DEF Takes, Passes, GivesBack, Lifecycle!LifecycleNext, Lifecycle!Place,
       Lifecycle!MarkOrderPaid, Lifecycle!CancelOrder, Lifecycle!MarkOrderShipped,
       Lifecycle!MarkOrderCompleted, Lifecycle!MarkOrderRefunded
  <2>5. QED BY <2>1, <2>4, EffectMoves
<1>3. QED BY <1>1, <1>2, TypeCorrect, MoneySafe, PTL DEF Spec, ImplementsOrderLifecycle, Lifecycle!LifecycleSpec

(* Stock and the orders holding a unit of it always add up to the supply.  *)
THEOREM StockSafe == Spec => []StockConserved
<1>1. Init => StockConserved
  <2> SUFFICES ASSUME Init PROVE StockConserved
    OBVIOUS
  <2>1. Holding = {}
    BY DEF Init, Holding, FundedStatus
  <2>2. QED BY <2>1, FS_EmptySet, SettlementAssumption, SMTT(30) DEF Init, StockConserved
<1>2. TypeOK /\ MoneyInvariant /\ StockConserved /\ [Next]_vars => StockConserved'
  <2> SUFFICES ASSUME TypeOK, StockConserved, MoneyInvariant, Effect
               PROVE  StockConserved'
    BY StepHasEffect
  <2>1. IsFiniteSet(Holding) /\ Cardinality(Holding) \in Nat /\ stock \in Nat /\ Supply \in Nat
    BY FS_Subset, FS_CardinalityType, SettlementAssumption, SMTT(30) DEF Holding, TypeOK
  <2>2. CASE Rests
    <3>1. Holding' = Holding
      BY <2>2 DEF Rests, Holding
    <3>2. QED BY <2>2, <3>1 DEF Rests, StockConserved
  <2>3. ASSUME NEW o \in Order, Takes(o) PROVE StockConserved'
    <3>1. Holding' = Holding \cup {o} /\ o \notin Holding
      BY <2>3 DEF Takes, Moves, Holding, FundedStatus
    <3>2. Cardinality(Holding') = Cardinality(Holding) + 1
      BY <2>1, <3>1, FS_AddElement, SMTT(30)
    <3>3. QED BY <2>1, <2>3, <3>2, SMTT(30) DEF Takes, StockConserved
  <2>4. ASSUME NEW o \in Order, Passes(o) PROVE StockConserved'
    <3>1. Holding' = Holding
      BY <2>4 DEF Passes, Moves, Holding, FundedStatus
    <3>2. QED BY <2>4, <3>1 DEF Passes, StockConserved
  <2>5. ASSUME NEW o \in Order, GivesBack(o) PROVE StockConserved'
    <3>1. Holding' = Holding \ {o} /\ o \in Holding
      BY <2>5 DEF GivesBack, Moves, Holding, FundedStatus
    <3>2. Cardinality(Holding') = Cardinality(Holding) - 1
      BY <2>1, <3>1, FS_RemoveElement, SMTT(30)
    <3>3. QED BY <2>1, <2>5, <3>2, SMTT(30) DEF GivesBack, StockConserved
  <2>6. QED BY <2>2, <2>3, <2>4, <2>5, EffectMoves, SMTT(30)
<1>3. QED BY <1>1, <1>2, TypeCorrect, MoneySafe, PTL DEF Spec
=============================================================================
