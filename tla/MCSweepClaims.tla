---------------------------- MODULE MCSweepClaims ----------------------------
(***************************************************************************)
(* Small instances of SweepClaims: a batch of one, an order that always    *)
(* throws and one that can be settled. A handler may last as long as its   *)
(* lease, so that the other pass takes the order while the first still     *)
(* has it in hand; the lease is longer than the interval.                  *)
(***************************************************************************)
EXTENDS SweepClaims

CONSTANTS poisoned, sound, p1, p2

MCOrders == {poisoned, sound}
MCPasses == {p1, p2}

(* Exponential: one tick, then two, then four. *)
MCBackoff == [k \in 1..MaxAttempts |-> 2 ^ (k - 1)]

MCBudget[k \in 1..MaxAttempts] ==
    AttemptTime + (IF k = MaxAttempts THEN 0 ELSE MCBackoff[k] + MCBudget[k + 1])
=============================================================================
