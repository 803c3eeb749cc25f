---------------------------- MODULE MCSettlement ----------------------------
(* Instances of Settlement for TLC.                                        *)
EXTENDS Settlement, TLC

(* Rows and transaction ids are interchangeable.                           *)
Interchangeable ==
  Permutations(Payment) \cup Permutations(Order) \cup Permutations(Tx)
=============================================================================
