------------------------------ MODULE MCMockPsp ------------------------------
(* Small instances of MockPsp: q4 has a key of its own, the others race.   *)
EXTENDS MockPsp, TLC

CONSTANTS q1, q2, q3, q4

MCKeyOf == [q \in Requests |-> IF q = q4 THEN "k2" ELSE "k1"]
=============================================================================
