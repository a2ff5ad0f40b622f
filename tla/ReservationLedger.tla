-------------------------- MODULE ReservationLedger --------------------------
(***************************************************************************)
(* What the inventory promises (the comments of reserveForOrder and        *)
(* releaseForOrder, src/inventory/inventory.service.ts): an order takes    *)
(* its items from one warehouse, all of them or none, at most once, and    *)
(* gives them back to that warehouse at most once and only after.          *)
(***************************************************************************)
EXTENDS Integers

CONSTANTS Orders, Warehouses, Products, Items, InitialStock, NoWarehouse

VARIABLES
    available,   \* available[w][p]: units that can be reserved
    holding      \* holding[o]: nothing yet, units held at a warehouse, or returned to it

ledgerVars == <<available, holding>>

Nothing == [state |-> "none", at |-> NoWarehouse]
HeldAt(w) == [state |-> "held", at |-> w]
ReturnedTo(w) == [state |-> "returned", at |-> w]

Init ==
    /\ available = InitialStock
    /\ holding = [o \in Orders |-> Nothing]

Take(o, w) ==
    /\ holding[o] = Nothing
    /\ \A p \in Products : available[w][p] >= Items[o][p]
    /\ available' = [available EXCEPT ![w] = [p \in Products |-> @[p] - Items[o][p]]]
    /\ holding' = [holding EXCEPT ![o] = HeldAt(w)]

GiveBack(o, w) ==
    /\ holding[o] = HeldAt(w)
    /\ available' = [available EXCEPT ![w] = [p \in Products |-> @[p] + Items[o][p]]]
    /\ holding' = [holding EXCEPT ![o] = ReturnedTo(w)]

Supply(w, p) ==
    /\ available'[w][p] > available[w][p]
    /\ available' = [available EXCEPT ![w][p] = available'[w][p]]
    /\ UNCHANGED holding

Next ==
    \/ \E o \in Orders, w \in Warehouses : Take(o, w) \/ GiveBack(o, w)
    \/ \E w \in Warehouses, p \in Products : Supply(w, p)

Spec == Init /\ [][Next]_ledgerVars
=============================================================================
