---------------------------- MODULE MCInventory ----------------------------
(***************************************************************************)
(* Small instances of Inventory. Order o1 asks for two units of p1 and one *)
(* of p2, o2 and o3 for one unit of p1; w1 is nearest to everybody and can *)
(* serve either o1 or the other two, w2 has no p2 until it is restocked.   *)
(***************************************************************************)
EXTENDS Inventory

CONSTANTS c1, c2, o1, o2, o3, w1, w2, p1, p2

MCItems ==
    [o \in Orders |-> [p \in Products |-> IF o = o1 THEN IF p = p1 THEN 2 ELSE 1
                                          ELSE IF p = p1 THEN 1 ELSE 0]]
MCDistance == [o \in Orders |-> [w \in Warehouses |-> IF w = w1 THEN 1 ELSE 2]]
MCInitialStock ==
    [w \in Warehouses |-> [p \in Products |-> IF p = p1 THEN 2 ELSE IF w = w1 THEN 1 ELSE 0]]
=============================================================================
