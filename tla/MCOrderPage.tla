----------------------------- MODULE MCOrderPage -----------------------------
(***************************************************************************)
(* One tab. r1 and r2 are two attempts with the first key and the same     *)
(* body, r4 is the next purchase: the same body again, under the next key. *)
(* r3 comes from another client: the first key with another body. The      *)
(* customer may empty the key field, or type the first key in again.       *)
(***************************************************************************)
EXTENDS OrderPage, TLC

CONSTANTS r1, r2, r3, r4, k1, k2, k3, k4, b1, b2, p1

MCKey == [r \in Requests |-> IF r = r4 THEN k2 ELSE k1]
MCFirstKey == [p \in Pages |-> k1]
MCBody == [r \in Requests |-> IF r = r3 THEN b2 ELSE b1]
=============================================================================
