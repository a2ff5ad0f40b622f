----------------------------- MODULE MCDataScreen -----------------------------
(***************************************************************************)
(* Two tabs: the stock, whose form loads options and whose rows are topped *)
(* up, and the locations, which may be deleted. w1 and w2 top up the same  *)
(* row, s1 is the seed of a starting instance.                             *)
(***************************************************************************)
EXTENDS DataScreen, TLC

CONSTANTS stock, locations, w1, w2, s1, row, city, c1, c2, c3

CallSymmetry == Permutations(Calls)

MCInto == [w \in Writes |-> IF w \in {w1, w2} THEN stock ELSE locations]
MCName == [w \in Writes |-> IF w \in {w1, w2} THEN row ELSE city]
MCValue == (w1 :> 1) @@ (w2 :> 2) @@ (s1 :> 2)
=============================================================================
