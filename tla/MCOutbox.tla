------------------------------- MODULE MCOutbox -------------------------------
(***************************************************************************)
(* A small instance of Outbox: two events, two relays and two attempts, so *)
(* that a relay can find its row claimed by the other on the last attempt. *)
(***************************************************************************)
EXTENDS Outbox

CONSTANTS o1, o2, r1, r2

MCOrders == {o1, o2}
MCRelays == {r1, r2}
=============================================================================
