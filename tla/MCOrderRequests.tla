---------------------------- MODULE MCOrderRequests ----------------------------
(***************************************************************************)
(* Requests around every bound of the validation: quantities 1 and 2 of at *)
(* most 2, lists of one to three of at most two items, two products, one   *)
(* of them in two spellings and one that is not in the catalog, a customer *)
(* id in two spellings, an address with and without blanks.                *)
(***************************************************************************)
EXTENDS OrderRequests

MCHeaders == {[key |-> "k", length |-> 1], [key |-> "", length |-> 0], [key |-> "long", length |-> 4]}
MCCustomerIds ==
    {[oid |-> 1, spelling |-> "lower"], [oid |-> 1, spelling |-> "upper"],
     [oid |-> 2, spelling |-> "lower"]}
MCAddresses ==
    {[text |-> "town", blanks |-> 0], [text |-> "town", blanks |-> 1],
     [text |-> "nowhere", blanks |-> 0], [text |-> "x", blanks |-> 0]}
MCLength == [town |-> 4, nowhere |-> 7, x |-> 1]

Products == {[oid |-> 1, spelling |-> "lower"], [oid |-> 1, spelling |-> "upper"],
             [oid |-> 2, spelling |-> "lower"]}
MCItems == [product : Products, quantity : {1, 2}]
Gone == [product |-> [oid |-> 3, spelling |-> "lower"], quantity |-> 1]
One(quantity) == [product |-> [oid |-> 1, spelling |-> "lower"], quantity |-> quantity]
Two == [product |-> [oid |-> 2, spelling |-> "lower"], quantity |-> 1]
MCItemLists ==
    {<<i>> : i \in MCItems} \cup {<<i, j>> : i, j \in MCItems}
        \cup {<<>>, <<One(0)>>, <<One(3)>>, <<Gone>>, <<Two, Gone>>, <<One(1), Two, Gone>>}

(* In tenths of a cent. A float of 13 bits makes 28.9... of 29 cents, and  *)
(* less than a half of the half cent in 28.5.                              *)
MCPrice == <<290, 285>>

(* What MoneyIsRoundedOnce rests on, for every price that it is about: the *)
(* rounding undoes the float arithmetic.                                   *)
ASSUME PricesAreNearest ==
    \A n \in 1..(2 ^ (Mantissa - 3) - 1) :
        2 * n \in ((2 * ToMinorUnits(n) - 1) * Parts)..((2 * ToMinorUnits(n) + 1) * Parts)
=============================================================================
