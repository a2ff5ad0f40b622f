------------------------------ MODULE Inventory ------------------------------
(***************************************************************************)
(* The warehouse stock and its ledger of movements                         *)
(* (src/inventory/inventory.service.ts): reserveForOrder and               *)
(* releaseForOrder run by any number of concurrent callers, each of them   *)
(* split where the code awaits the database, next to the restocking and    *)
(* the removal of warehouses that the administration endpoints allow.      *)
(*                                                                         *)
(* A MongoDB transaction with snapshot reads, a unique index and           *)
(* write-conflict retry is one action: it applies all its writes or none.  *)
(***************************************************************************)
EXTENDS Integers, FiniteSets, Functions

CONSTANTS
    Callers,        \* whoever may call the service: saga workers, sweepers
    Orders,         \* order ids, the idempotency keys of the ledger
    Warehouses,
    Products,
    Items,          \* Items[o][p]: units of p that order o asks for
    Distance,       \* Distance[o][w]: metres from w to the shipping address of o
    InitialStock,   \* InitialStock[w][p]
    MaxSupply,      \* bound: no warehouse is ever supplied more than this of a product
    NoOrder,
    NoWarehouse

ASSUME InventoryAssumption ==
    /\ Items \in [Orders -> [Products -> Nat]]
    /\ Distance \in [Orders -> [Warehouses -> Nat]]
    /\ InitialStock \in [Warehouses -> [Products -> Nat]]
    /\ NoOrder \notin Orders
    /\ NoWarehouse \notin Warehouses

VARIABLES
    stock,       \* stock[w][p]: the quantity of the stock row of p at w
    movements,   \* the ledger rows, never deleted
    warehouses,  \* the warehouse documents that still exist
    supplied,    \* history: every unit ever put in stock by somebody else than a release
    call         \* call[c]: the service call that c is waiting for

shelfVars == <<stock, movements, warehouses, supplied>>
inventoryVars == <<shelfVars, call>>

MovementKind == {"RESERVE", "RELEASE"}
Movement == [orderId : Orders, kind : MovementKind, warehouseId : Warehouses]

(***************************************************************************)
(* A call is waiting for one database operation, "op", or is "done" with   *)
(* an outcome that its caller has not used yet. "replayed" is the reserve  *)
(* that found the row of an earlier one; "no_warehouse" is                 *)
(* NoWarehouseAvailableError.                                              *)
(***************************************************************************)
Operations == {"idle", "lookup", "rank", "try", "release", "done"}
Outcomes == {"none", "reserved", "replayed", "no_warehouse", "released", "noop"}
Call == [op : Operations, order : Orders \cup {NoOrder}, candidates : SUBSET Warehouses,
         outcome : Outcomes, warehouseId : Warehouses \cup {NoWarehouse}]

NoCall == [op |-> "idle", order |-> NoOrder, candidates |-> {},
           outcome |-> "none", warehouseId |-> NoWarehouse]
ReserveForOrder(o) == [NoCall EXCEPT !.op = "lookup", !.order = o]
ReleaseForOrder(o) == [NoCall EXCEPT !.op = "release", !.order = o]

InventoryTypeOK ==
    /\ stock \in [Warehouses -> [Products -> Nat]]
    /\ movements \subseteq Movement
    /\ warehouses \subseteq Warehouses
    /\ supplied \in [Warehouses -> [Products -> Nat]]
    /\ call \in [Callers -> Call]

-----------------------------------------------------------------------------
(* The ledger and the stock as a query sees them. *)

Row(o, kind, w) == [orderId |-> o, kind |-> kind, warehouseId |-> w]
ReservedAt(o, w) == Row(o, "RESERVE", w) \in movements
ReleasedAt(o, w) == Row(o, "RELEASE", w) \in movements

(* Mutant: what makes a reservation a duplicate is that its units are held.*)
ReservedAndHeld(o) == \E w \in Warehouses : ReservedAt(o, w) /\ ~ReleasedAt(o, w)
Reserved(o) == \E w \in Warehouses : ReservedAt(o, w)
Released(o) == \E w \in Warehouses : ReleasedAt(o, w)

(* Mutant: one line of the order in stock is enough.                       *)
HasSomeStock(o, w) == \E p \in Products : stock[w][p] >= Items[o][p]

(* hasSufficientStock, which is also what every conditional decrement of   *)
(* the transaction asks: an item has at least one unit, so a missing stock *)
(* row and a row of zero are equally insufficient.                         *)
HasSufficientStock(o, w) == \A p \in Products : stock[w][p] >= Items[o][p]

(* Mutant: every line of the order takes one unit, whatever its quantity.  *)
DecrementedByOne(o, w) ==
    [stock EXCEPT ![w] = [p \in Products |-> IF Items[o][p] > 0 THEN @[p] - 1 ELSE @[p]]]
Decremented(o, w) == [stock EXCEPT ![w] = [p \in Products |-> @[p] - Items[o][p]]]
Incremented(o, w) == [stock EXCEPT ![w] = [p \in Products |-> @[p] + Items[o][p]]]

Answer(c, outcome, w) ==
    call' = [call EXCEPT ![c] = [NoCall EXCEPT !.op = "done", !.order = call[c].order,
                                               !.outcome = outcome, !.warehouseId = w]]

-----------------------------------------------------------------------------
(* reserveForOrder, one action per await. *)

(* The fast path: the row of an earlier delivery, or on to the ranking. *)
FindPrior(c) ==
    LET o == call[c].order IN
    /\ call[c].op = "lookup"
    /\ \/ \E w \in Warehouses : ReservedAt(o, w) /\ Answer(c, "replayed", w)
       \/ ~Reserved(o) /\ call' = [call EXCEPT ![c].op = "rank"]
    /\ UNCHANGED shelfVars

(* Mutant: with no candidate left, the ranking is repeated.                *)
RankAgain(c, cands) ==
    call' = [call EXCEPT ![c].op = IF cands = {} THEN "rank" ELSE "try", ![c].candidates = cands]

(* Next of the loop over the candidates: the nearest one left, or the error. *)
Continue(c, cands) ==
    IF cands = {} THEN Answer(c, "no_warehouse", NoWarehouse)
    ELSE call' = [call EXCEPT ![c].op = "try", ![c].candidates = cands]

(* The ranking query, outside any transaction. *)
FindCandidateWarehouses(c) ==
    /\ call[c].op = "rank"
    /\ Continue(c, {w \in warehouses : HasSufficientStock(call[c].order, w)})
    /\ UNCHANGED shelfVars

(* Mutant: the candidates are sorted the other way.                        *)
Farthest(o, cands) == {w \in cands : \A v \in cands : Distance[o][w] >= Distance[o][v]}
Nearest(o, cands) == {w \in cands : \A v \in cands : Distance[o][w] <= Distance[o][v]}

(* Mutant: a duplicate is answered with the candidate at hand, without     *)
(* reading where the other delivery reserved.                              *)
TryReserveHere(c, w) ==
    LET o == call[c].order IN
    /\ call[c].op = "try"
    /\ w \in Nearest(o, call[c].candidates)
    /\ IF Reserved(o) THEN Answer(c, "replayed", w) /\ UNCHANGED <<stock, movements>>
       ELSE IF HasSufficientStock(o, w)
       THEN /\ movements' = movements \cup {Row(o, "RESERVE", w)}
            /\ stock' = Decremented(o, w)
            /\ Answer(c, "reserved", w)
       ELSE Continue(c, call[c].candidates \ {w}) /\ UNCHANGED <<stock, movements>>
    /\ UNCHANGED <<warehouses, supplied>>

(* One transaction: the row first, which an existing RESERVE row of the    *)
(* order refuses, then every decrement, any of which may match nothing and *)
(* abort the whole. Equidistant candidates come in either order.           *)
TryReserveAt(c, w) ==
    LET o == call[c].order IN
    /\ call[c].op = "try"
    /\ w \in Nearest(o, call[c].candidates)
    /\ \/ /\ \E v \in Warehouses : ReservedAt(o, v) /\ Answer(c, "replayed", v)
          /\ UNCHANGED <<stock, movements>>
       \/ /\ ~Reserved(o) /\ HasSufficientStock(o, w)
          /\ movements' = movements \cup {Row(o, "RESERVE", w)}
          /\ stock' = Decremented(o, w)
          /\ Answer(c, "reserved", w)
       \/ /\ ~Reserved(o) /\ ~HasSufficientStock(o, w)
          /\ Continue(c, call[c].candidates \ {w})
          /\ UNCHANGED <<stock, movements>>
    /\ UNCHANGED <<warehouses, supplied>>

(* Mutant: the earlier RELEASE row is not looked for.                      *)
ReleaseRepeatedly(c) ==
    LET o == call[c].order IN
    /\ call[c].op = "release"
    /\ \/ ~Reserved(o) /\ Answer(c, "noop", NoWarehouse) /\ UNCHANGED <<stock, movements>>
       \/ \E w \in Warehouses :
          /\ ReservedAt(o, w)
          /\ movements' = movements \cup {Row(o, "RELEASE", w)}
          /\ stock' = Incremented(o, w)
          /\ Answer(c, "released", w)
    /\ UNCHANGED <<warehouses, supplied>>

(***************************************************************************)
(* releaseForOrder: one transaction; a duplicate of a concurrent release   *)
(* ends as "noop" whether it reads the row or collides with it.            *)
(***************************************************************************)
Release(c) ==
    LET o == call[c].order IN
    /\ call[c].op = "release"
    /\ \/ /\ ~Reserved(o) \/ Released(o)
          /\ Answer(c, "noop", NoWarehouse)
          /\ UNCHANGED <<stock, movements>>
       \/ \E w \in Warehouses :
          /\ ReservedAt(o, w) /\ ~Released(o)
          /\ movements' = movements \cup {Row(o, "RELEASE", w)}
          /\ stock' = Incremented(o, w)
          /\ Answer(c, "released", w)
    /\ UNCHANGED <<warehouses, supplied>>

(* What a call does once it is made. *)
CallStep(c) ==
    \/ FindPrior(c)
    \/ FindCandidateWarehouses(c)
    \/ \E w \in Warehouses : TryReserveAt(c, w)
    \/ Release(c)

-----------------------------------------------------------------------------
(* The administration endpoints that share the collections. *)

AddStock(w, p) ==
    /\ supplied[w][p] < MaxSupply
    /\ stock' = [stock EXCEPT ![w][p] = @ + 1]
    /\ supplied' = [supplied EXCEPT ![w][p] = @ + 1]
    /\ UNCHANGED <<movements, warehouses, call>>

(* The warehouse document goes, its stock rows stay. *)
RemoveWarehouse(w) ==
    /\ w \in warehouses
    /\ warehouses' = warehouses \ {w}
    /\ UNCHANGED <<stock, movements, supplied, call>>

Administer ==
    \/ \E w \in Warehouses, p \in Products : AddStock(w, p)
    \/ \E w \in Warehouses : RemoveWarehouse(w)

-----------------------------------------------------------------------------
(***************************************************************************)
(* The service by itself, under callers that reserve and release any order *)
(* at any time, and that may be cut off from the answer of a call, or die, *)
(* at any of its awaits.                                                   *)
(***************************************************************************)
InventoryInit ==
    /\ stock = InitialStock
    /\ movements = {}
    /\ warehouses = Warehouses
    /\ supplied = InitialStock
    /\ call = [c \in Callers |-> NoCall]

Begin(c) ==
    /\ call[c].op = "idle"
    /\ \E o \in Orders : call' = [call EXCEPT ![c] = ReserveForOrder(o)]
                         \/ call' = [call EXCEPT ![c] = ReleaseForOrder(o)]
    /\ UNCHANGED shelfVars

Return(c) ==
    /\ call[c].op = "done"
    /\ call' = [call EXCEPT ![c] = NoCall]
    /\ UNCHANGED shelfVars

Interrupt(c) ==
    /\ call[c].op # "idle"
    /\ call' = [call EXCEPT ![c] = NoCall]
    /\ UNCHANGED shelfVars

InventoryNext ==
    \/ \E c \in Callers : Begin(c) \/ CallStep(c) \/ Return(c) \/ Interrupt(c)
    \/ Administer

InventoryFairness == \A c \in Callers : WF_inventoryVars(CallStep(c))

InventorySpec == InventoryInit /\ [][InventoryNext]_inventoryVars
InventoryFairSpec == InventorySpec /\ InventoryFairness

-----------------------------------------------------------------------------
(***************************************************************************)
(* Properties.                                                             *)
(***************************************************************************)

(* The ledger holds at most one RESERVE and one RELEASE row of an order,   *)
(* and gives back only what was taken, where it was taken: what the unique *)
(* index and the read-then-insert of releaseForOrder are for.              *)
LedgerConsistent ==
    \A m, n \in movements :
        /\ m.orderId = n.orderId => m.warehouseId = n.warehouseId
        /\ m.kind = "RELEASE" => ReservedAt(m.orderId, m.warehouseId)

Holders(w) == {o \in Orders : ReservedAt(o, w) /\ ~ReleasedAt(o, w)}
UnitsHeld(w, p) == SumFunctionOnSet([o \in Orders |-> Items[o][p]], Holders(w))

(* The stock and the ledger never disagree (stock-movement.schema.ts):     *)
(* what is on the shelf and what orders hold is exactly what was supplied, *)
(* whatever calls overlap, repeat or lose their answer. No unit is sold    *)
(* twice, taken twice for one order, or given back twice.                  *)
StockConserved ==
    \A w \in Warehouses, p \in Products : stock[w][p] + UnitsHeld(w, p) = supplied[w][p]

(* A caller told that its order is reserved at w finds it in the ledger at *)
(* w, though the reservation may be another delivery's; a caller told that *)
(* its release took place finds that too.                                  *)
AnswersMatchLedger ==
    \A c \in Callers : call[c].op = "done" =>
        /\ call[c].outcome \in {"reserved", "replayed"} =>
               ReservedAt(call[c].order, call[c].warehouseId)
        /\ call[c].outcome = "released" => ReleasedAt(call[c].order, call[c].warehouseId)

(* Nothing has come back to any shelf yet, so stock has only gone down.    *)
OnlyTaken == supplied = InitialStock /\ \A m \in movements : m.kind = "RESERVE"

(* Nearest first: while stock only goes down, an order is reserved at a    *)
(* warehouse only when no nearer one that still exists could serve it at   *)
(* that moment, stale as the ranking may be by then.                       *)
NearestServes ==
    \A o \in Orders, w \in Warehouses :
        (OnlyTaken /\ ~ReservedAt(o, w) /\ ReservedAt(o, w)') =>
            \A v \in warehouses : Distance[o][v] < Distance[o][w] => ~HasSufficientStock(o, v)
NearestFirst == [][NearestServes]_inventoryVars

(* Every call that is not cut off gets its answer: the loop over the       *)
(* candidates ends however often the stock moves under it.                 *)
CallsAreAnswered ==
    \A c \in Callers : call[c].op \notin {"idle", "done"} ~> call[c].op \in {"idle", "done"}

(***************************************************************************)
(* The service implements the atomic reservation ledger.                   *)
(***************************************************************************)
Holding ==
    [o \in Orders |->
        CASE Released(o) -> [state |-> "returned",
                             at |-> CHOOSE w \in Warehouses : ReleasedAt(o, w)]
          [] Reserved(o) /\ ~Released(o) -> [state |-> "held",
                             at |-> CHOOSE w \in Warehouses : ReservedAt(o, w)]
          [] OTHER -> [state |-> "none", at |-> NoWarehouse]]

Ledger == INSTANCE ReservationLedger WITH available <- stock, holding <- Holding

(* Reserving and releasing, split over several awaits and retried by any   *)
(* number of callers, look to everybody else like single indivisible       *)
(* steps, each done at most once for an order.                             *)
LedgerRefinement == Ledger!Spec
=============================================================================
