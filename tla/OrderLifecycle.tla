---------------------------- MODULE OrderLifecycle ----------------------------
(***************************************************************************)
(* What the saga promises of one order (src/orders/order-status.ts and the *)
(* comments of the saga): a status that only follows the diagram, stock    *)
(* that is taken and given back at most once, a charge that is decided at  *)
(* most once, and edges that are taken only when stock and charge allow.   *)
(***************************************************************************)
CONSTANT Orders

VARIABLES
    status,   \* status[o]
    units,    \* units[o]: what o asks for is not taken yet, held, or returned
    money     \* money[o]: the charge is undecided, succeeded, or declined

lifecycleVars == <<status, units, money>>

Init ==
    /\ status = [o \in Orders |-> "PENDING"]
    /\ units = [o \in Orders |-> "none"]
    /\ money = [o \in Orders |-> "none"]

(* A reservation may commit just after the order was timed out.            *)
Take(o) ==
    /\ units[o] = "none" /\ status[o] \in {"PENDING", "FAILED"}
    /\ units' = [units EXCEPT ![o] = "held"]
    /\ UNCHANGED <<status, money>>

GiveBack(o) ==
    /\ units[o] = "held" /\ status[o] \in {"COMPENSATING", "FAILED"}
    /\ units' = [units EXCEPT ![o] = "returned"]
    /\ UNCHANGED <<status, money>>

Decide(o) ==
    /\ money[o] = "none" /\ units[o] # "none" /\ status[o] \notin {"PENDING", "FAILED"}
    /\ \E result \in {"succeeded", "declined"} : money' = [money EXCEPT ![o] = result]
    /\ UNCHANGED <<status, units>>

(* The edges of the diagram. *)
MayMove(o, from, to) ==
    \/ from = "PENDING" /\ to = "STOCK_RESERVED" /\ units[o] = "held"
    \/ from = "PENDING" /\ to = "FAILED"
    \/ from = "STOCK_RESERVED" /\ to = "PAYMENT_AUTHORIZED" /\ units[o] = "held" /\ money[o] = "succeeded"
    \/ from = "STOCK_RESERVED" /\ to = "COMPENSATING" /\ units[o] = "held"
    \/ from = "PAYMENT_AUTHORIZED" /\ to = "COMPLETED" /\ units[o] = "held" /\ money[o] = "succeeded"
    \/ from = "COMPENSATING" /\ to = "COMPENSATED" /\ units[o] = "returned"

Move(o) ==
    /\ MayMove(o, status[o], status'[o])
    /\ status' = [status EXCEPT ![o] = status'[o]]
    /\ UNCHANGED <<units, money>>

Next == \E o \in Orders : Take(o) \/ GiveBack(o) \/ Decide(o) \/ Move(o)

Spec == Init /\ [][Next]_lifecycleVars
===============================================================================
