----------------------------- MODULE MCOrderSaga -----------------------------
(***************************************************************************)
(* Small instances of OrderSaga: one product, every order asks for one     *)
(* unit of it, and w1, the nearest warehouse, has a single unit.           *)
(***************************************************************************)
EXTENDS OrderSaga, TLC

CONSTANTS w1, w2, p1

MCCallers == Workers \cup Sweepers
MCItems == [o \in Orders |-> [p \in Products |-> 1]]
MCDistance == [o \in Orders |-> [w \in Warehouses |-> IF w = w1 THEN 1 ELSE 2]]
MCInitialStock == [w \in Warehouses |-> [p \in Products |-> IF w = w1 THEN 1 ELSE 0]]

(* Workers, sweepers and orders differ in nothing but name.                *)
Symmetry == Permutations(Workers) \cup Permutations(Sweepers) \cup Permutations(Orders)
=============================================================================
