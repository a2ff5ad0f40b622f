--------------------------- MODULE InventoryProofs ---------------------------
(***************************************************************************)
(* Theorems about Inventory, for any callers, orders, warehouses and stock.*)
(***************************************************************************)
EXTENDS Inventory, SumTheorems, TLAPS

(* A call in flight is about an order.                                     *)
CallsNameOrders == \A c \in Callers : call[c].op # "idle" => call[c].order \in Orders

(* The inductive invariant: what a call is told can only be shown to match *)
(* the ledger together with the ledger's own consistency.                  *)
InventoryInv == InventoryTypeOK /\ LedgerConsistent /\ AnswersMatchLedger /\ CallsNameOrders

(* An answer is a well-formed call that has ended.                         *)
LEMMA AnswerType ==
    ASSUME InventoryTypeOK, NEW c \in Callers, NEW outcome \in Outcomes,
           NEW w \in Warehouses \cup {NoWarehouse}, Answer(c, outcome, w)
    PROVE  /\ call' \in [Callers -> Call]
           /\ call'[c].op = "done" /\ call'[c].order = call[c].order
           /\ call'[c].outcome = outcome /\ call'[c].warehouseId = w
           /\ \A d \in Callers \ {c} : call'[d] = call[d]
  BY DEF InventoryTypeOK, Answer, NoCall, Call, Operations

(* What a step of one call does to the calls and the ledger.               *)
LEMMA FindPriorInv ==
    ASSUME InventoryInv, NEW c \in Callers, FindPrior(c)
    PROVE  InventoryInv'
  <1>1. CASE \E w \in Warehouses : ReservedAt(call[c].order, w) /\ Answer(c, "replayed", w)
    <2>1. PICK w \in Warehouses : ReservedAt(call[c].order, w) /\ Answer(c, "replayed", w)
      BY <1>1
    <2>2. /\ call' \in [Callers -> Call]
          /\ call'[c].op = "done" /\ call'[c].order = call[c].order
          /\ call'[c].outcome = "replayed" /\ call'[c].warehouseId = w
          /\ \A d \in Callers \ {c} : call'[d] = call[d]
      BY <2>1, AnswerType DEF InventoryInv, Outcomes
    <2> QED
      BY <2>1, <2>2 DEF InventoryInv, FindPrior, InventoryTypeOK, LedgerConsistent, shelfVars,
                        AnswersMatchLedger, CallsNameOrders, ReservedAt, ReleasedAt
  <1>2. CASE call' = [call EXCEPT ![c].op = "rank"]
    <2>1. call' \in [Callers -> Call]
      BY <1>2 DEF InventoryInv, InventoryTypeOK, Call, Operations
    <2> QED
      BY <1>2, <2>1 DEF InventoryInv, FindPrior, InventoryTypeOK, LedgerConsistent, shelfVars,
                        AnswersMatchLedger, CallsNameOrders, ReservedAt, ReleasedAt, Call
  <1> QED BY <1>1, <1>2 DEF FindPrior

(* A call that goes on to its next candidate, or gives up, writes nothing. *)
LEMMA ContinueInv ==
    ASSUME InventoryInv, NEW c \in Callers, NEW cands \in SUBSET Warehouses,
           call[c].op # "idle", Continue(c, cands), UNCHANGED shelfVars
    PROVE  InventoryInv'
  <1>1. CASE cands = {}
    <2>1. Answer(c, "no_warehouse", NoWarehouse)
      BY <1>1 DEF Continue
    <2>2. /\ call' \in [Callers -> Call]
          /\ call'[c].op = "done" /\ call'[c].order = call[c].order
          /\ call'[c].outcome = "no_warehouse"
          /\ \A d \in Callers \ {c} : call'[d] = call[d]
      BY <2>1, AnswerType DEF InventoryInv, Outcomes
    <2> QED
      BY <2>2 DEF InventoryInv, InventoryTypeOK, LedgerConsistent, shelfVars,
                  AnswersMatchLedger, CallsNameOrders, ReservedAt, ReleasedAt
  <1>2. CASE cands # {}
    <2> DEFINE trying == [call[c] EXCEPT !.op = "try", !.candidates = cands]
    <2>1. call' = [call EXCEPT ![c] = trying]
      BY <1>2 DEF Continue
    <2>2. /\ trying \in Call
          /\ trying.op = "try" /\ trying.order = call[c].order
      BY DEF InventoryInv, InventoryTypeOK, Call, Operations
    <2> HIDE DEF trying
    <2>3. call' \in [Callers -> Call]
      BY <2>1, <2>2 DEF InventoryInv, InventoryTypeOK
    <2> QED
      BY <2>1, <2>2, <2>3 DEF InventoryInv, InventoryTypeOK, LedgerConsistent, shelfVars,
                  AnswersMatchLedger, CallsNameOrders, ReservedAt, ReleasedAt, Call
  <1> QED BY <1>1, <1>2

(* Ranking reads the stock and only sets the candidates of the call.       *)
LEMMA FindCandidateWarehousesInv ==
    ASSUME InventoryInv, NEW c \in Callers, FindCandidateWarehouses(c)
    PROVE  InventoryInv'
  <1> DEFINE cands == {w \in warehouses : HasSufficientStock(call[c].order, w)}
  <1>1. cands \in SUBSET Warehouses
    BY DEF InventoryInv, InventoryTypeOK
  <1>2. Continue(c, cands) /\ call[c].op # "idle" /\ UNCHANGED shelfVars
    BY DEF FindCandidateWarehouses
  <1> HIDE DEF cands
  <1> QED BY <1>1, <1>2, ContinueInv

(* A decrement that the conditional updates allow leaves no negative       *)
(* quantity.                                                               *)
LEMMA StockType ==
    ASSUME InventoryTypeOK, NEW o \in Orders, NEW w \in Warehouses
    PROVE  /\ HasSufficientStock(o, w) => Decremented(o, w) \in [Warehouses -> [Products -> Nat]]
           /\ Incremented(o, w) \in [Warehouses -> [Products -> Nat]]
  <1>1. \A p \in Products : Items[o][p] \in Nat /\ stock[w][p] \in Nat
    BY InventoryAssumption DEF InventoryTypeOK
  <1>2. ASSUME HasSufficientStock(o, w)
        PROVE  [p \in Products |-> stock[w][p] - Items[o][p]] \in [Products -> Nat]
    <2>1. \A p \in Products : stock[w][p] - Items[o][p] \in Nat
      BY <1>1, <1>2 DEF HasSufficientStock
    <2> QED BY <2>1
  <1>3. [p \in Products |-> stock[w][p] + Items[o][p]] \in [Products -> Nat]
    BY <1>1
  <1> QED BY <1>2, <1>3 DEF InventoryTypeOK, Decremented, Incremented

(* A row may join the ledger when it names the warehouse of the order's    *)
(* other rows and, if it is a release, finds the reservation there.        *)
LEMMA LedgerGrows ==
    ASSUME LedgerConsistent, NEW o, NEW w, NEW kind,
           \A m \in movements : m.orderId = o => m.warehouseId = w,
           kind = "RELEASE" => ReservedAt(o, w),
           movements' = movements \cup {Row(o, kind, w)}
    PROVE  LedgerConsistent'
  <1>1. \A m \in movements' : m \in movements \/ (m.orderId = o /\ m.warehouseId = w /\ m.kind = kind)
    BY DEF Row
  <1>2. ASSUME NEW m \in movements', NEW n \in movements', m.orderId = n.orderId
        PROVE  m.warehouseId = n.warehouseId
    BY <1>1, <1>2 DEF LedgerConsistent
  <1>3. ASSUME NEW m \in movements', m.kind = "RELEASE"
        PROVE  Row(m.orderId, "RESERVE", m.warehouseId) \in movements'
    BY <1>1, <1>3 DEF LedgerConsistent, ReservedAt
  <1> QED BY <1>2, <1>3 DEF LedgerConsistent, ReservedAt, Row

(* One transaction of tryReserveAt: either the RESERVE row and all its     *)
(* decrements, or none of them and the next candidate.                     *)
LEMMA TryReserveAtInv ==
    ASSUME InventoryInv, NEW c \in Callers, NEW w \in Warehouses, TryReserveAt(c, w)
    PROVE  InventoryInv'
  <1> DEFINE o == call[c].order
  <1>0. o \in Orders /\ call[c].op = "try"
    BY DEF InventoryInv, CallsNameOrders, TryReserveAt
  <1>1. CASE \E v \in Warehouses : ReservedAt(o, v) /\ Answer(c, "replayed", v)
                                   /\ UNCHANGED <<stock, movements>>
    <2>1. PICK v \in Warehouses : ReservedAt(o, v) /\ Answer(c, "replayed", v)
                                  /\ UNCHANGED <<stock, movements>>
      BY <1>1
    <2>2. /\ call' \in [Callers -> Call]
          /\ call'[c].op = "done" /\ call'[c].order = call[c].order
          /\ call'[c].outcome = "replayed" /\ call'[c].warehouseId = v
          /\ \A d \in Callers \ {c} : call'[d] = call[d]
      BY <2>1, AnswerType DEF InventoryInv, Outcomes
    <2> QED
      BY <2>1, <2>2 DEF InventoryInv, TryReserveAt, InventoryTypeOK, LedgerConsistent, shelfVars,
                        AnswersMatchLedger, CallsNameOrders, ReservedAt, ReleasedAt
  <1>2. CASE /\ ~Reserved(o) /\ HasSufficientStock(o, w)
             /\ movements' = movements \cup {Row(o, "RESERVE", w)}
             /\ stock' = Decremented(o, w)
             /\ Answer(c, "reserved", w)
    <2>1. /\ call' \in [Callers -> Call]
          /\ call'[c].op = "done" /\ call'[c].order = call[c].order
          /\ call'[c].outcome = "reserved" /\ call'[c].warehouseId = w
          /\ \A d \in Callers \ {c} : call'[d] = call[d]
      BY <1>2, AnswerType DEF InventoryInv, Outcomes
    <2>2. Row(o, "RESERVE", w) \in Movement
      BY <1>0 DEF Row, Movement, MovementKind
    <2>3. InventoryTypeOK'
      BY <1>0, <1>2, <2>1, <2>2, StockType DEF InventoryInv, InventoryTypeOK, TryReserveAt
    <2>4. \A m \in movements : m.orderId # o
      <3>1. \A m \in movements : ReservedAt(m.orderId, m.warehouseId)
        BY DEF InventoryInv, LedgerConsistent, ReservedAt, Row, InventoryTypeOK, Movement, MovementKind
      <3> QED BY <3>1, <1>2 DEF Reserved, InventoryInv, InventoryTypeOK, Movement
    <2>5. LedgerConsistent'
      BY <1>2, <2>4, LedgerGrows DEF InventoryInv
    <2>6. AnswersMatchLedger' /\ CallsNameOrders'
      BY <1>0, <1>2, <2>1 DEF InventoryInv, AnswersMatchLedger, CallsNameOrders, ReservedAt, ReleasedAt
    <2> QED BY <2>3, <2>5, <2>6 DEF InventoryInv
  <1>3. CASE /\ Continue(c, call[c].candidates \ {w})
             /\ UNCHANGED <<stock, movements>>
    <2>1. call[c].candidates \ {w} \in SUBSET Warehouses
      BY DEF InventoryInv, InventoryTypeOK, Call
    <2>2. UNCHANGED shelfVars
      BY <1>3 DEF TryReserveAt, shelfVars
    <2> QED BY <1>0, <1>3, <2>1, <2>2, ContinueInv
  <1> QED BY <1>1, <1>2, <1>3 DEF TryReserveAt

(* A release credits the warehouse of the RESERVE row and appends the one  *)
(* RELEASE row, or finds that there is nothing to do.                      *)
LEMMA ReleaseInv ==
    ASSUME InventoryInv, NEW c \in Callers, Release(c)
    PROVE  InventoryInv'
  <1> DEFINE o == call[c].order
  <1>0. o \in Orders
    BY DEF InventoryInv, CallsNameOrders, Release
  <1>1. CASE Answer(c, "noop", NoWarehouse) /\ UNCHANGED <<stock, movements>>
    <2>1. /\ call' \in [Callers -> Call]
          /\ call'[c].op = "done" /\ call'[c].order = call[c].order
          /\ call'[c].outcome = "noop"
          /\ \A d \in Callers \ {c} : call'[d] = call[d]
      BY <1>1, AnswerType DEF InventoryInv, Outcomes
    <2> QED
      BY <1>1, <2>1 DEF InventoryInv, Release, InventoryTypeOK, LedgerConsistent,
                        AnswersMatchLedger, CallsNameOrders, ReservedAt, ReleasedAt
  <1>2. ASSUME NEW w \in Warehouses, ReservedAt(o, w), ~Released(o),
               movements' = movements \cup {Row(o, "RELEASE", w)},
               stock' = Incremented(o, w), Answer(c, "released", w)
        PROVE  InventoryInv'
    <2>1. /\ call' \in [Callers -> Call]
          /\ call'[c].op = "done" /\ call'[c].order = call[c].order
          /\ call'[c].outcome = "released" /\ call'[c].warehouseId = w
          /\ \A d \in Callers \ {c} : call'[d] = call[d]
      BY <1>2, AnswerType DEF InventoryInv, Outcomes
    <2>2. Row(o, "RELEASE", w) \in Movement
      BY <1>0 DEF Row, Movement, MovementKind
    <2>3. InventoryTypeOK'
      BY <1>0, <1>2, <2>1, <2>2, StockType DEF InventoryInv, InventoryTypeOK, Release
    <2>4. \A m \in movements : m.orderId = o => m.warehouseId = w
      BY <1>2 DEF InventoryInv, LedgerConsistent, ReservedAt, Row
    <2>5. LedgerConsistent'
      BY <1>2, <2>4, LedgerGrows DEF InventoryInv
    <2>6. AnswersMatchLedger' /\ CallsNameOrders'
      BY <1>0, <1>2, <2>1 DEF InventoryInv, AnswersMatchLedger, CallsNameOrders, ReservedAt, ReleasedAt
    <2> QED BY <2>3, <2>5, <2>6 DEF InventoryInv
  <1> QED BY <1>1, <1>2 DEF Release

(* Every step of a call keeps the invariant.                               *)
LEMMA CallStepInv ==
    ASSUME InventoryInv, NEW c \in Callers, CallStep(c)
    PROVE  InventoryInv'
  BY FindPriorInv, FindCandidateWarehousesInv, TryReserveAtInv, ReleaseInv DEF CallStep

(* Restocking and the removal of a warehouse leave ledger and calls alone. *)
LEMMA AdministerInv ==
    ASSUME InventoryInv, Administer
    PROVE  InventoryInv'
  <1>1. ASSUME NEW w \in Warehouses, NEW p \in Products, AddStock(w, p)
        PROVE  InventoryInv'
    BY <1>1 DEF InventoryInv, AddStock, InventoryTypeOK, LedgerConsistent, AnswersMatchLedger,
                CallsNameOrders, ReservedAt, ReleasedAt
  <1>2. ASSUME NEW w \in Warehouses, RemoveWarehouse(w)
        PROVE  InventoryInv'
    BY <1>2 DEF InventoryInv, RemoveWarehouse, InventoryTypeOK, LedgerConsistent,
                AnswersMatchLedger, CallsNameOrders, ReservedAt, ReleasedAt
  <1> QED BY <1>1, <1>2 DEF Administer

(* Making a call, or dropping it, is harmless whoever does it and whenever.*)
LEMMA RequestInv ==
    ASSUME InventoryInv, NEW c \in Callers, UNCHANGED shelfVars,
           NEW request, call' = [call EXCEPT ![c] = request],
           \/ request = NoCall
           \/ \E o \in Orders : request \in {ReserveForOrder(o), ReleaseForOrder(o)}
    PROVE  InventoryInv'
  <1>1. /\ request \in Call
        /\ request.op # "done"
        /\ request.op # "idle" => request.order \in Orders
    <2>1. CASE request = NoCall
      BY <2>1 DEF NoCall, Call, Operations, Outcomes
    <2>2. ASSUME NEW o \in Orders, request = ReserveForOrder(o) \/ request = ReleaseForOrder(o)
          PROVE  request \in Call /\ request.op # "done" /\ request.order = o
      BY <2>2 DEF ReserveForOrder, ReleaseForOrder, NoCall, Call, Operations, Outcomes
    <2> QED BY <2>1, <2>2
  <1> QED
    BY <1>1 DEF InventoryInv, InventoryTypeOK, LedgerConsistent, shelfVars,
                AnswersMatchLedger, CallsNameOrders, ReservedAt, ReleasedAt

(* The empty ledger is consistent.                                         *)
LEMMA InventoryInitInv == InventoryInit => InventoryInv
  <1> SUFFICES ASSUME InventoryInit PROVE InventoryInv
    OBVIOUS
  <1>1. NoCall \in Call
    BY DEF NoCall, Call, Operations, Outcomes
  <1>2. InventoryTypeOK
    BY <1>1, InventoryAssumption DEF InventoryInit, InventoryTypeOK
  <1> QED
    BY <1>2 DEF InventoryInit, InventoryInv, LedgerConsistent, AnswersMatchLedger,
                CallsNameOrders, NoCall

(* Every step of the inventory keeps the invariant.                        *)
LEMMA InventoryInvariantStep ==
    ASSUME InventoryInv, InventoryNext
    PROVE  InventoryInv'
  <1>1. ASSUME NEW c \in Callers, Begin(c) PROVE InventoryInv'
    <2>1. PICK o \in Orders : \/ call' = [call EXCEPT ![c] = ReserveForOrder(o)]
                              \/ call' = [call EXCEPT ![c] = ReleaseForOrder(o)]
      BY <1>1 DEF Begin
    <2> QED BY <1>1, <2>1, RequestInv DEF Begin
  <1>2. ASSUME NEW c \in Callers, Return(c) \/ Interrupt(c) PROVE InventoryInv'
    BY <1>2, RequestInv DEF Return, Interrupt
  <1> QED BY <1>1, <1>2, CallStepInv, AdministerInv DEF InventoryNext

(* All of the invariant, for the service by itself.                        *)
THEOREM InventoryInvariant == InventorySpec => []InventoryInv
  <1>1. ASSUME InventoryInv, InventoryNext
        PROVE  InventoryInv'
    BY <1>1, InventoryInvariantStep
  <1>2. ASSUME InventoryInv, UNCHANGED inventoryVars
        PROVE  InventoryInv'
    BY <1>2 DEF inventoryVars, shelfVars, InventoryInv, InventoryTypeOK, LedgerConsistent,
                AnswersMatchLedger, CallsNameOrders, ReservedAt, ReleasedAt
  <1> QED BY <1>1, <1>2, InventoryInitInv, PTL DEF InventorySpec

(* No quantity is ever negative: nothing is sold that is not on the shelf. *)
THEOREM InventoryTypeCorrect == InventorySpec => []InventoryTypeOK
  BY InventoryInvariant, PTL DEF InventoryInv

(* An order is reserved at most once and gives back only what it took,     *)
(* where it took it, for any number of concurrent and repeated calls.      *)
THEOREM LedgerStaysConsistent == InventorySpec => []LedgerConsistent
  BY InventoryInvariant, PTL DEF InventoryInv

(* What a caller is told about its order is in the ledger.                 *)
THEOREM AnswersAreTrue == InventorySpec => []AnswersMatchLedger
  BY InventoryInvariant, PTL DEF InventoryInv

-----------------------------------------------------------------------------
(***************************************************************************)
(* Nearest first.  The candidates a caller still has in hand are all the   *)
(* warehouses that can serve its order, as long as stock only goes down.   *)
(***************************************************************************)
SupplyGrows == \A w \in Warehouses, p \in Products : supplied[w][p] >= InitialStock[w][p]

CandidatesComplete ==
    \A c \in Callers : call[c].op = "try" /\ OnlyTaken =>
        \A v \in warehouses : HasSufficientStock(call[c].order, v) => v \in call[c].candidates

RankingInv == InventoryInv /\ SupplyGrows /\ CandidatesComplete

(* The three ways a step can touch what the ranking looks at.              *)
LEMMA ShelfSteps ==
    ASSUME InventoryNext
    PROVE  \/ UNCHANGED <<stock, movements, supplied>>
           \/ \E c \in Callers, w \in Warehouses :
                 /\ TryReserveAt(c, w) /\ ~Reserved(call[c].order)
                 /\ HasSufficientStock(call[c].order, w)
                 /\ movements' = movements \cup {Row(call[c].order, "RESERVE", w)}
                 /\ stock' = Decremented(call[c].order, w)
                 /\ supplied' = supplied
           \/ \E m \in movements' : m.kind = "RELEASE"
           \/ \E w \in Warehouses, p \in Products : AddStock(w, p)
  <1>1. ASSUME NEW c \in Callers, NEW w \in Warehouses, TryReserveAt(c, w)
        PROVE  \/ UNCHANGED <<stock, movements, supplied>>
               \/ /\ ~Reserved(call[c].order)
                  /\ HasSufficientStock(call[c].order, w)
                  /\ movements' = movements \cup {Row(call[c].order, "RESERVE", w)}
                  /\ stock' = Decremented(call[c].order, w)
                  /\ supplied' = supplied
    BY <1>1 DEF TryReserveAt
  <1>2. ASSUME NEW c \in Callers, Release(c)
        PROVE  UNCHANGED <<stock, movements, supplied>> \/ \E m \in movements' : m.kind = "RELEASE"
    <2>1. ASSUME NEW w \in Warehouses, movements' = movements \cup {Row(call[c].order, "RELEASE", w)}
          PROVE  \E m \in movements' : m.kind = "RELEASE"
      <3>1. Row(call[c].order, "RELEASE", w).kind = "RELEASE"
        BY DEF Row
      <3> QED BY <2>1, <3>1
    <2> QED BY <1>2, <2>1 DEF Release
  <1>3. ASSUME NEW c \in Callers, Begin(c) \/ Return(c) \/ Interrupt(c) \/ FindPrior(c)
                                  \/ FindCandidateWarehouses(c)
        PROVE  UNCHANGED <<stock, movements, supplied>>
    BY <1>3 DEF Begin, Return, Interrupt, FindPrior, FindCandidateWarehouses, shelfVars
  <1>4. ASSUME NEW w \in Warehouses, RemoveWarehouse(w)
        PROVE  UNCHANGED <<stock, movements, supplied>>
    BY <1>4 DEF RemoveWarehouse
  <1> QED
    BY <1>1, <1>2, <1>3, <1>4 DEF InventoryNext, CallStep, Administer

(* As long as nothing was restocked or credited, no step adds stock.       *)
LEMMA StockOnlyFalls ==
    ASSUME InventoryInv, SupplyGrows, InventoryNext, OnlyTaken'
    PROVE  /\ OnlyTaken
           /\ \A w \in Warehouses, p \in Products : stock'[w][p] <= stock[w][p]
  <1>0. stock \in [Warehouses -> [Products -> Nat]] /\ supplied \in [Warehouses -> [Products -> Nat]]
    BY DEF InventoryInv, InventoryTypeOK
  <1>1. CASE UNCHANGED <<stock, movements, supplied>>
    BY <1>0, <1>1 DEF OnlyTaken
  <1>2. ASSUME NEW c \in Callers, NEW w \in Warehouses,
               TryReserveAt(c, w),
               movements' = movements \cup {Row(call[c].order, "RESERVE", w)},
               stock' = Decremented(call[c].order, w), supplied' = supplied
        PROVE  /\ OnlyTaken
               /\ \A v \in Warehouses, p \in Products : stock'[v][p] <= stock[v][p]
    <2>1. call[c].order \in Orders
      BY <1>2 DEF TryReserveAt, InventoryInv, CallsNameOrders
    <2>2. \A p \in Products : Items[call[c].order][p] \in Nat
      BY <2>1, InventoryAssumption
    <2> QED BY <1>0, <1>2, <2>2 DEF OnlyTaken, Decremented
  <1>3. CASE \E m \in movements' : m.kind = "RELEASE"
    BY <1>3 DEF OnlyTaken
  <1>4. ASSUME NEW w \in Warehouses, NEW p \in Products, AddStock(w, p)
        PROVE  FALSE
    <2>1. supplied'[w][p] = supplied[w][p] + 1
      BY <1>0, <1>4 DEF AddStock
    <2>2. supplied'[w][p] = InitialStock[w][p]
      BY DEF OnlyTaken
    <2> QED BY <1>0, <2>1, <2>2, InventoryAssumption DEF SupplyGrows
  <1> QED BY <1>1, <1>2, <1>3, <1>4, ShelfSteps

(* What was supplied to a warehouse never shrinks.                         *)
LEMMA SupplyGrowsStep ==
    ASSUME InventoryInv, SupplyGrows, InventoryNext
    PROVE  SupplyGrows'
  <1>1. CASE supplied' = supplied
    BY <1>1 DEF SupplyGrows
  <1>2. ASSUME NEW w \in Warehouses, NEW p \in Products, AddStock(w, p)
        PROVE  SupplyGrows'
    <2> SUFFICES ASSUME NEW v \in Warehouses, NEW q \in Products
                 PROVE  supplied'[v][q] >= InitialStock[v][q]
      BY DEF SupplyGrows
    <2>1. supplied[v][q] \in Nat /\ InitialStock[v][q] \in Nat
      BY InventoryAssumption DEF InventoryInv, InventoryTypeOK
    <2>2. supplied'[v][q] = supplied[v][q] \/ supplied'[v][q] = supplied[v][q] + 1
      BY <1>2 DEF AddStock, InventoryInv, InventoryTypeOK
    <2> QED BY <2>1, <2>2 DEF SupplyGrows
  <1>3. ASSUME NEW c \in Callers, Begin(c) \/ CallStep(c) \/ Return(c) \/ Interrupt(c)
        PROVE  supplied' = supplied
    BY <1>3 DEF Begin, Return, Interrupt, CallStep, FindPrior, FindCandidateWarehouses,
                TryReserveAt, Release, shelfVars
  <1>4. ASSUME NEW w \in Warehouses, RemoveWarehouse(w)
        PROVE  supplied' = supplied
    BY <1>4 DEF RemoveWarehouse
  <1> QED BY <1>1, <1>2, <1>3, <1>4 DEF InventoryNext, Administer

(* Nobody but its caller touches a call, and it is "try" only just ranked, *)
(* or with one candidate fewer, found wanting, or as it was.               *)
LEMMA TryingCalls ==
    ASSUME InventoryInv, InventoryNext, NEW d \in Callers, call'[d].op = "try"
    PROVE  \/ call'[d] = call[d]
           \/ /\ UNCHANGED shelfVars
              /\ call'[d].order = call[d].order
              /\ call'[d].candidates = {w \in warehouses : HasSufficientStock(call[d].order, w)}
           \/ /\ UNCHANGED shelfVars /\ call[d].op = "try"
              /\ call'[d].order = call[d].order
              /\ \E w \in Warehouses : /\ ~HasSufficientStock(call[d].order, w)
                                       /\ call'[d].candidates = call[d].candidates \ {w}
  <1>0. call \in [Callers -> Call]
    BY DEF InventoryInv, InventoryTypeOK
  <1>1. \A c \in Callers : \A outcome, w : Answer(c, outcome, w) =>
            call'[c].op = "done" /\ \A e \in Callers \ {c} : call'[e] = call[e]
    BY <1>0 DEF Answer, NoCall
  <1>2. \A c \in Callers : \A cands : Continue(c, cands) =>
            /\ \A e \in Callers \ {c} : call'[e] = call[e]
            /\ call'[c].op = "try" =>
                  call'[c].order = call[c].order /\ call'[c].candidates = cands
    <2> SUFFICES ASSUME NEW c \in Callers, NEW cands, Continue(c, cands)
                 PROVE  /\ \A e \in Callers \ {c} : call'[e] = call[e]
                        /\ call'[c].op = "try" =>
                              call'[c].order = call[c].order /\ call'[c].candidates = cands
      OBVIOUS
    <2>1. CASE Answer(c, "no_warehouse", NoWarehouse)
      BY <1>1, <2>1
    <2>2. CASE call' = [call EXCEPT ![c].op = "try", ![c].candidates = cands]
      BY <1>0, <2>2 DEF Call
    <2> QED BY <2>1, <2>2 DEF Continue
  <1>3. ASSUME NEW c \in Callers, FindCandidateWarehouses(c)
        PROVE  \/ call'[d] = call[d]
               \/ /\ UNCHANGED shelfVars
                  /\ call'[d].order = call[d].order
                  /\ call'[d].candidates = {w \in warehouses : HasSufficientStock(call[d].order, w)}
    <2>1. Continue(c, {w \in warehouses : HasSufficientStock(call[c].order, w)}) /\ UNCHANGED shelfVars
      BY <1>3 DEF FindCandidateWarehouses
    <2>2. CASE d = c
      BY <1>2, <2>1, <2>2
    <2> QED BY <1>2, <2>1, <2>2
  <1>4. ASSUME NEW c \in Callers, NEW w \in Warehouses, TryReserveAt(c, w)
        PROVE  \/ call'[d] = call[d]
               \/ /\ UNCHANGED shelfVars /\ call[d].op = "try"
                  /\ call'[d].order = call[d].order
                  /\ ~HasSufficientStock(call[d].order, w)
                  /\ call'[d].candidates = call[d].candidates \ {w}
    <2>1. CASE \E v, outcome : Answer(c, outcome, v)
      BY <1>1, <2>1
    <2>2. CASE /\ Continue(c, call[c].candidates \ {w}) /\ ~HasSufficientStock(call[c].order, w)
               /\ UNCHANGED <<stock, movements>>
      BY <1>2, <1>4, <2>2 DEF TryReserveAt, shelfVars
    <2> QED BY <1>4, <2>1, <2>2 DEF TryReserveAt
  <1>5. ASSUME NEW c \in Callers, Begin(c) PROVE call'[d] = call[d]
    BY <1>0, <1>5 DEF Begin, ReserveForOrder, ReleaseForOrder, NoCall
  <1>6. ASSUME NEW c \in Callers, Return(c) \/ Interrupt(c) PROVE call'[d] = call[d]
    BY <1>0, <1>6 DEF Return, Interrupt, NoCall
  <1>7. ASSUME NEW c \in Callers, FindPrior(c) PROVE call'[d] = call[d]
    <2>1. CASE call' = [call EXCEPT ![c].op = "rank"]
      BY <1>0, <2>1 DEF Call
    <2> QED BY <1>1, <1>7, <2>1 DEF FindPrior
  <1>8. ASSUME NEW c \in Callers, Release(c) PROVE call'[d] = call[d]
    BY <1>1, <1>8 DEF Release
  <1>9. ASSUME Administer PROVE call'[d] = call[d]
    BY <1>9 DEF Administer, AddStock, RemoveWarehouse
  <1> QED
    BY <1>3, <1>4, <1>5, <1>6, <1>7, <1>8, <1>9 DEF InventoryNext, CallStep

(* While stock only falls, a warehouse that could serve the order now is   *)
(* still among the candidates of the call: had it been tried, it would     *)
(* have been short then, and so be short now.                              *)
LEMMA CandidatesCompleteStep ==
    ASSUME RankingInv, InventoryNext
    PROVE  CandidatesComplete'
  <1> SUFFICES ASSUME NEW d \in Callers, call'[d].op = "try", OnlyTaken',
                      NEW v \in warehouses', HasSufficientStock(call[d].order, v)'
               PROVE  v \in call'[d].candidates
    BY DEF CandidatesComplete
  <1>1. v \in warehouses /\ v \in Warehouses
    BY DEF InventoryNext, Administer, AddStock, RemoveWarehouse, Begin, Return, Interrupt, CallStep,
           FindPrior, FindCandidateWarehouses, TryReserveAt, Release, shelfVars,
           RankingInv, InventoryInv, InventoryTypeOK
  <1>2. OnlyTaken /\ \A p \in Products : stock'[v][p] <= stock[v][p]
    BY <1>1, StockOnlyFalls DEF RankingInv
  <1>3. stock[v] \in [Products -> Nat] /\ stock'[v] \in [Products -> Nat]
    BY <1>1, InventoryInvariantStep DEF RankingInv, InventoryInv, InventoryTypeOK
  <1>4. call'[d].order \in Orders
    BY InventoryInvariantStep DEF RankingInv, InventoryInv, CallsNameOrders
  <1>5. HasSufficientStock(call'[d].order, v)
    BY <1>2, <1>3, <1>4, InventoryAssumption DEF HasSufficientStock
  <1>6. CASE call'[d] = call[d]
    BY <1>1, <1>2, <1>5, <1>6 DEF RankingInv, CandidatesComplete
  <1>7. CASE /\ call'[d].order = call[d].order
             /\ call'[d].candidates = {w \in warehouses : HasSufficientStock(call[d].order, w)}
    BY <1>1, <1>5, <1>7
  <1>8. CASE /\ call[d].op = "try" /\ call'[d].order = call[d].order
             /\ \E w \in Warehouses : /\ ~HasSufficientStock(call[d].order, w)
                                      /\ call'[d].candidates = call[d].candidates \ {w}
    BY <1>1, <1>2, <1>5, <1>8 DEF RankingInv, CandidatesComplete
  <1> QED BY <1>6, <1>7, <1>8, TryingCalls DEF RankingInv

(* An order is reserved at the nearest warehouse that can serve it, however*)
(* stale its ranking, while stock only goes down.                          *)
THEOREM NearestWarehouseServes == InventorySpec => NearestFirst
  <1>1. InventoryInit => RankingInv
    <2>1. InventoryInit => SupplyGrows /\ CandidatesComplete
      BY InventoryAssumption DEF InventoryInit, SupplyGrows, CandidatesComplete, NoCall
    <2> QED BY <2>1, InventoryInitInv DEF RankingInv
  <1>2. RankingInv /\ [InventoryNext]_inventoryVars => RankingInv'
    <2>1. ASSUME RankingInv, InventoryNext PROVE RankingInv'
      BY <2>1, InventoryInvariantStep, SupplyGrowsStep, CandidatesCompleteStep DEF RankingInv
    <2>2. ASSUME RankingInv, UNCHANGED inventoryVars PROVE RankingInv'
      BY <2>2 DEF RankingInv, inventoryVars, shelfVars, InventoryInv, InventoryTypeOK, LedgerConsistent,
                  AnswersMatchLedger, CallsNameOrders, ReservedAt, ReleasedAt, SupplyGrows,
                  CandidatesComplete, OnlyTaken, HasSufficientStock
    <2> QED BY <2>1, <2>2
  <1>3. RankingInv /\ [InventoryNext]_inventoryVars => [NearestServes]_inventoryVars
    <2> SUFFICES ASSUME RankingInv, InventoryNext,
                        NEW o \in Orders, NEW w \in Warehouses,
                        OnlyTaken, ~ReservedAt(o, w), ReservedAt(o, w)',
                        NEW v \in warehouses, Distance[o][v] < Distance[o][w],
                        HasSufficientStock(o, v)
                 PROVE  FALSE
      BY DEF NearestServes
    <2>1. PICK c \in Callers, x \in Warehouses :
              TryReserveAt(c, x) /\ call[c].order = o /\ x = w /\ call[c].op = "try"
      <3>1. movements' # movements
        BY DEF ReservedAt
      <3>2. ASSUME NEW c \in Callers, Release(c) PROVE ReservedAt(o, w)
        <4>1. \A p \in Orders, x \in Warehouses : Row(p, "RELEASE", x) # Row(o, "RESERVE", w)
          BY DEF Row
        <4>2. call[c].order \in Orders
          BY <3>2 DEF Release, RankingInv, InventoryInv, CallsNameOrders
        <4> QED BY <3>2, <4>1, <4>2 DEF Release, ReservedAt
      <3>3. ASSUME NEW c \in Callers, NEW x \in Warehouses, TryReserveAt(c, x)
            PROVE  call[c].order = o /\ x = w /\ call[c].op = "try"
        BY <3>1, <3>3 DEF TryReserveAt, Row, ReservedAt
      <3>4. ASSUME NEW c \in Callers, Begin(c) \/ Return(c) \/ Interrupt(c) \/ FindPrior(c)
                                      \/ FindCandidateWarehouses(c)
            PROVE  FALSE
        BY <3>1, <3>4 DEF Begin, Return, Interrupt, FindPrior, FindCandidateWarehouses, shelfVars
      <3>5. ASSUME Administer PROVE FALSE
        BY <3>1, <3>5 DEF Administer, AddStock, RemoveWarehouse
      <3> QED BY <3>2, <3>3, <3>4, <3>5 DEF InventoryNext, CallStep
    <2>2. v \in call[c].candidates
      BY <2>1 DEF RankingInv, CandidatesComplete
    <2>3. Distance[o][w] <= Distance[o][v]
      BY <2>1, <2>2 DEF TryReserveAt, Nearest
    <2>4. Distance[o][v] \in Nat /\ Distance[o][w] \in Nat
      BY InventoryAssumption DEF RankingInv, InventoryInv, InventoryTypeOK
    <2> QED BY <2>3, <2>4
  <1> QED BY <1>1, <1>2, <1>3, PTL DEF InventorySpec, NearestFirst
-----------------------------------------------------------------------------
(***************************************************************************)
(* The refinement.  What an order holds is read off its rows alone, and    *)
(* the consistency of the ledger makes the warehouse they name unique.     *)
(***************************************************************************)
HoldingIn(rows) ==
    [o \in Orders |->
        CASE \E w \in Warehouses : Row(o, "RELEASE", w) \in rows ->
                 [state |-> "returned",
                  at |-> CHOOSE w \in Warehouses : Row(o, "RELEASE", w) \in rows]
          [] (\E w \in Warehouses : Row(o, "RESERVE", w) \in rows)
                 /\ ~(\E w \in Warehouses : Row(o, "RELEASE", w) \in rows) ->
                 [state |-> "held",
                  at |-> CHOOSE w \in Warehouses : Row(o, "RESERVE", w) \in rows]
          [] OTHER -> [state |-> "none", at |-> NoWarehouse]]

(* The mapping of Inventory, before and after a step.                      *)
LEMMA HoldingIsRead == Holding = HoldingIn(movements) /\ Holding' = HoldingIn(movements')
  BY DEF Holding, HoldingIn, Released, Reserved, ReleasedAt, ReservedAt

(* What the rows of one order say. *)
LEMMA HoldingOfOrder ==
    ASSUME NEW rows, NEW o \in Orders,
           \A m, n \in rows : m.orderId = n.orderId => m.warehouseId = n.warehouseId
    PROVE  /\ ~(\E w \in Warehouses, kind \in MovementKind : Row(o, kind, w) \in rows)
                  => HoldingIn(rows)[o] = Ledger!Nothing
           /\ \A w \in Warehouses :
                  /\ Row(o, "RESERVE", w) \in rows
                  /\ ~(\E v \in Warehouses : Row(o, "RELEASE", v) \in rows)
                  => HoldingIn(rows)[o] = Ledger!HeldAt(w)
           /\ \A w \in Warehouses :
                  Row(o, "RELEASE", w) \in rows => HoldingIn(rows)[o] = Ledger!ReturnedTo(w)
  <1>1. \A kind \in MovementKind : \A v, w \in Warehouses :
            Row(o, kind, v) \in rows /\ Row(o, kind, w) \in rows => v = w
    BY DEF Row
  <1>2. ASSUME NEW kind \in MovementKind, NEW w \in Warehouses, Row(o, kind, w) \in rows
        PROVE  (CHOOSE v \in Warehouses : Row(o, kind, v) \in rows) = w
    BY <1>1, <1>2
  <1>3. CASE ~(\E w \in Warehouses, kind \in MovementKind : Row(o, kind, w) \in rows)
    BY <1>3 DEF HoldingIn, MovementKind, Ledger!Nothing
  <1>4. ASSUME NEW w \in Warehouses, Row(o, "RESERVE", w) \in rows,
               ~(\E v \in Warehouses : Row(o, "RELEASE", v) \in rows)
        PROVE  HoldingIn(rows)[o] = Ledger!HeldAt(w)
    <2>1. (CHOOSE v \in Warehouses : Row(o, "RESERVE", v) \in rows) = w
      BY <1>2, <1>4 DEF MovementKind
    <2> QED
      BY <1>4, <2>1 DEF HoldingIn, Ledger!HeldAt
  <1>5. ASSUME NEW w \in Warehouses, Row(o, "RELEASE", w) \in rows
        PROVE  HoldingIn(rows)[o] = Ledger!ReturnedTo(w)
    <2>1. (CHOOSE v \in Warehouses : Row(o, "RELEASE", v) \in rows) = w
      BY <1>2, <1>5 DEF MovementKind
    <2> QED
      BY <1>5, <2>1 DEF HoldingIn, Ledger!ReturnedTo
  <1> QED
    BY <1>3, <1>4, <1>5

(* A row of one order says nothing of another. *)
LEMMA RowsOfOthers ==
    ASSUME NEW rows, NEW o \in Orders, NEW kind, NEW w, NEW q \in Orders, q # o
    PROVE  HoldingIn(rows \cup {Row(o, kind, w)})[q] = HoldingIn(rows)[q]
  <1>1. \A k, v : Row(q, k, v) \in rows \cup {Row(o, kind, w)} <=> Row(q, k, v) \in rows
    BY DEF Row
  <1> QED
    BY <1>1 DEF HoldingIn

(* The successful transaction of tryReserveAt is the step Take.            *)
LEMMA ReservingTakes ==
    ASSUME InventoryInv, NEW o \in Orders, NEW w \in Warehouses,
           ~Reserved(o), HasSufficientStock(o, w),
           movements' = movements \cup {Row(o, "RESERVE", w)}, stock' = Decremented(o, w)
    PROVE  Ledger!Take(o, w)
  <1>1. \A v \in Warehouses : \A kind \in MovementKind : Row(o, kind, v) \notin movements
    <2>1. \A m \in movements : ReservedAt(m.orderId, m.warehouseId)
      BY DEF InventoryInv, LedgerConsistent, ReservedAt, Row, InventoryTypeOK, Movement, MovementKind
    <2> QED
      BY <2>1 DEF Reserved, Row
  <1>2. /\ \A m, n \in movements : m.orderId = n.orderId => m.warehouseId = n.warehouseId
        /\ \A m \in movements : m.orderId # o
    <2>1. \A m \in movements : Row(m.orderId, m.kind, m.warehouseId) = m
                               /\ m.kind \in MovementKind /\ m.warehouseId \in Warehouses
      BY DEF InventoryInv, InventoryTypeOK, Movement, Row
    <2>2. \A m \in movements : m.orderId # o
      BY <1>1, <2>1
    <2> QED
      BY <2>2 DEF InventoryInv, LedgerConsistent
  <1>3. \A m, n \in movements' : m.orderId = n.orderId => m.warehouseId = n.warehouseId
    BY <1>2 DEF Row
  <1>4. Holding[o] = Ledger!Nothing
    BY <1>1, <1>2, HoldingIsRead, HoldingOfOrder
  <1>5. Holding'[o] = Ledger!HeldAt(w)
    <2>1. Row(o, "RESERVE", w) \in movements'
      OBVIOUS
    <2>2. ~(\E v \in Warehouses : Row(o, "RELEASE", v) \in movements')
      BY <1>1 DEF Row, MovementKind
    <2> QED
      BY <1>3, <2>1, <2>2, HoldingIsRead, HoldingOfOrder
  <1>6. \A q \in Orders : q # o => Holding'[q] = Holding[q]
    BY HoldingIsRead, RowsOfOthers
  <1>7. Holding' = [Holding EXCEPT ![o] = Ledger!HeldAt(w)]
    BY <1>5, <1>6 DEF Holding
  <1> QED
    BY <1>4, <1>7 DEF Ledger!Take, HasSufficientStock, Decremented

(* And that of releaseForOrder is the step GiveBack. *)
LEMMA ReleasingGivesBack ==
    ASSUME InventoryInv, NEW o \in Orders, NEW w \in Warehouses,
           ReservedAt(o, w), ~Released(o),
           movements' = movements \cup {Row(o, "RELEASE", w)}, stock' = Incremented(o, w)
    PROVE  Ledger!GiveBack(o, w)
  <1>1. \A m, n \in movements : m.orderId = n.orderId => m.warehouseId = n.warehouseId
    BY DEF InventoryInv, LedgerConsistent
  <1>2. \A m, n \in movements' : m.orderId = n.orderId => m.warehouseId = n.warehouseId
    BY <1>1 DEF ReservedAt, Row
  <1>3. Holding[o] = Ledger!HeldAt(w)
    BY <1>1, HoldingIsRead, HoldingOfOrder DEF ReservedAt, Released, ReleasedAt
  <1>4. Holding'[o] = Ledger!ReturnedTo(w)
    BY <1>2, HoldingIsRead, HoldingOfOrder
  <1>5. \A q \in Orders : q # o => Holding'[q] = Holding[q]
    BY HoldingIsRead, RowsOfOthers
  <1>6. Holding' = [Holding EXCEPT ![o] = Ledger!ReturnedTo(w)]
    BY <1>4, <1>5 DEF Holding
  <1> QED
    BY <1>3, <1>6 DEF Ledger!GiveBack, Incremented

(* Restocking is the step Supply. *)
LEMMA AddingSupplies ==
    ASSUME InventoryInv, NEW w \in Warehouses, NEW p \in Products, AddStock(w, p)
    PROVE  Ledger!Supply(w, p)
  <1>1. stock' = [stock EXCEPT ![w][p] = stock[w][p] + 1] /\ stock[w][p] \in Nat
    BY DEF AddStock, InventoryInv, InventoryTypeOK
  <1>2. stock'[w][p] = stock[w][p] + 1
    BY <1>1 DEF InventoryInv, InventoryTypeOK
  <1>3. UNCHANGED Holding
    BY HoldingIsRead DEF AddStock
  <1>4. stock' = [stock EXCEPT ![w][p] = stock'[w][p]]
    BY <1>1, <1>2
  <1>5. stock'[w][p] > stock[w][p]
    BY ONLY <1>1, <1>2
  <1> QED
    BY <1>3, <1>4, <1>5, Zenon DEF Ledger!Supply

(* Every step of the service is one of those, or is not seen.              *)
LEMMA StepsOfTheLedger ==
    ASSUME InventoryInv, [InventoryNext]_inventoryVars
    PROVE  [Ledger!Next]_(Ledger!ledgerVars)
  <1>1. CASE UNCHANGED <<stock, movements>>
    BY <1>1, HoldingIsRead DEF Ledger!ledgerVars
  <1>2. ASSUME NEW c \in Callers, NEW w \in Warehouses, TryReserveAt(c, w)
        PROVE  UNCHANGED <<stock, movements>> \/ Ledger!Next
    <2>1. call[c].order \in Orders
      BY <1>2 DEF InventoryInv, CallsNameOrders, TryReserveAt
    <2>2. \/ UNCHANGED <<stock, movements>>
          \/ /\ ~Reserved(call[c].order) /\ HasSufficientStock(call[c].order, w)
             /\ movements' = movements \cup {Row(call[c].order, "RESERVE", w)}
             /\ stock' = Decremented(call[c].order, w)
      BY <1>2 DEF TryReserveAt
    <2> QED
      BY <2>1, <2>2, ReservingTakes DEF Ledger!Next
  <1>3. ASSUME NEW c \in Callers, Release(c)
        PROVE  UNCHANGED <<stock, movements>> \/ Ledger!Next
    <2>1. call[c].order \in Orders
      BY <1>3 DEF InventoryInv, CallsNameOrders, Release
    <2>2. \/ UNCHANGED <<stock, movements>>
          \/ \E w \in Warehouses :
                /\ ReservedAt(call[c].order, w) /\ ~Released(call[c].order)
                /\ movements' = movements \cup {Row(call[c].order, "RELEASE", w)}
                /\ stock' = Incremented(call[c].order, w)
      BY <1>3 DEF Release
    <2> QED
      BY <2>1, <2>2, ReleasingGivesBack DEF Ledger!Next
  <1>4. ASSUME NEW c \in Callers, CallStep(c)
        PROVE  UNCHANGED <<stock, movements>> \/ Ledger!Next
    BY <1>2, <1>3, <1>4 DEF CallStep, FindPrior, FindCandidateWarehouses, shelfVars
  <1>5. ASSUME Administer
        PROVE  UNCHANGED <<stock, movements>> \/ Ledger!Next
    <2>1. ASSUME NEW w \in Warehouses, NEW p \in Products, AddStock(w, p)
          PROVE  Ledger!Next
      BY <2>1, AddingSupplies DEF Ledger!Next
    <2> QED
      BY <1>5, <2>1 DEF Administer, RemoveWarehouse
  <1>6. ASSUME NEW c \in Callers, Begin(c) \/ Return(c) \/ Interrupt(c)
        PROVE  UNCHANGED <<stock, movements>>
    BY <1>6 DEF Begin, Return, Interrupt, shelfVars
  <1>7. UNCHANGED inventoryVars => UNCHANGED <<stock, movements>>
    BY DEF inventoryVars, shelfVars
  <1> QED
    BY <1>1, <1>4, <1>5, <1>6, <1>7 DEF InventoryNext

(* reserveForOrder and releaseForOrder, interleaved, retried and cut off   *)
(* as they may be, implement the atomic ledger for any number of callers,  *)
(* orders and warehouses.                                                  *)
THEOREM ServiceImplementsLedger == InventorySpec => LedgerRefinement
  <1>1. InventoryInit => Ledger!Init
    BY DEF InventoryInit, Ledger!Init, Holding, Released, Reserved, ReleasedAt, ReservedAt,
           Ledger!Nothing
  <1> QED
    BY <1>1, InventoryInvariant, StepsOfTheLedger, PTL
       DEF InventorySpec, LedgerRefinement, Ledger!Spec
-----------------------------------------------------------------------------
(***************************************************************************)
(* The stock and the ledger.  A ledger is finite whatever the number of    *)
(* orders, so that what is held at a warehouse is a sum; a reservation     *)
(* adds a term to it and takes as much off the shelf, a release reverses   *)
(* both. That each happens once for an order is the ledger's consistency.  *)
(***************************************************************************)
LedgerIsFinite == IsFiniteSet(movements)

ConservationInv == InventoryInv /\ LedgerIsFinite /\ StockConserved

(* The sum of StockConserved, from the rows alone.                         *)
HoldersIn(rows, w) ==
    {o \in Orders : Row(o, "RESERVE", w) \in rows /\ Row(o, "RELEASE", w) \notin rows}
UnitsAsked(p) == [o \in Orders |-> Items[o][p]]
UnitsIn(rows, w, p) == SumFunctionOnSet(UnitsAsked(p), HoldersIn(rows, w))

ConservedIn(shelf, rows, supply) ==
    \A w \in Warehouses, p \in Products : shelf[w][p] + UnitsIn(rows, w, p) = supply[w][p]

(* The invariant before and after a step, in these words.                  *)
LEMMA ConservationIsRead ==
    /\ StockConserved <=> ConservedIn(stock, movements, supplied)
    /\ StockConserved' <=> ConservedIn(stock', movements', supplied')
  BY DEF StockConserved, ConservedIn, UnitsHeld, UnitsIn, UnitsAsked, Holders, HoldersIn,
         ReservedAt, ReleasedAt

(* Only finitely many orders hold anything, each a number of units.        *)
LEMMA HoldersAreFew ==
    ASSUME NEW rows, IsFiniteSet(rows), NEW w, NEW p \in Products
    PROVE  /\ IsFiniteSet(HoldersIn(rows, w))
           /\ \A o \in Orders : UnitsAsked(p)[o] = Items[o][p] /\ UnitsAsked(p)[o] \in Int
           /\ UnitsIn(rows, w, p) \in Int
  <1> DEFINE orderOf == [m \in rows |-> m.orderId]
             named == {orderOf[m] : m \in rows}
  <1>1. IsFiniteSet(named)
    <2>1. orderOf \in Surjection(rows, named)
      BY DEF Surjection
    <2> HIDE DEF orderOf, named
    <2> QED BY <2>1, FS_Surjection
  <1>2. HoldersIn(rows, w) \subseteq named
    BY DEF HoldersIn, Row
  <1>3. IsFiniteSet(HoldersIn(rows, w))
    BY <1>1, <1>2, FS_Subset
  <1>4. \A o \in Orders : UnitsAsked(p)[o] = Items[o][p] /\ UnitsAsked(p)[o] \in Int
    BY InventoryAssumption DEF UnitsAsked
  <1>5. UnitsIn(rows, w, p) \in Int
    BY <1>3, <1>4, SumIsInteger DEF UnitsIn, HoldersIn
  <1> QED BY <1>3, <1>4, <1>5

(* A reservation moves the units of the order from the shelf to the order. *)
LEMMA ReservingConserves ==
    ASSUME ConservationInv, NEW o \in Orders, NEW w \in Warehouses, ~Reserved(o),
           movements' = movements \cup {Row(o, "RESERVE", w)}, stock' = Decremented(o, w),
           supplied' = supplied
    PROVE  StockConserved'
  <1> SUFFICES ASSUME NEW v \in Warehouses, NEW p \in Products
               PROVE  stock'[v][p] + UnitsIn(movements', v, p) = supplied'[v][p]
    BY ConservationIsRead DEF ConservedIn
  <1>1. /\ stock[v][p] + UnitsIn(movements, v, p) = supplied[v][p]
        /\ stock[v][p] \in Int /\ Items[o][p] \in Int
    BY ConservationIsRead, InventoryAssumption
       DEF ConservationInv, ConservedIn, InventoryInv, InventoryTypeOK
  <1>2. UnitsIn(movements, v, p) \in Int /\ IsFiniteSet(HoldersIn(movements, v))
    BY HoldersAreFew DEF ConservationInv, LedgerIsFinite
  <1>3. CASE v = w
    <2>1. o \notin HoldersIn(movements, w)
      BY DEF HoldersIn, Reserved, ReservedAt
    <2>2. Row(o, "RELEASE", w) \notin movements
      BY DEF ConservationInv, InventoryInv, LedgerConsistent, Reserved, ReservedAt, Row
    <2>3. HoldersIn(movements', w) = HoldersIn(movements, w) \cup {o}
      BY <2>2 DEF HoldersIn, Row
    <2>4. \A q \in HoldersIn(movements, w) \cup {o} : UnitsAsked(p)[q] \in Int
      BY HoldersAreFew DEF ConservationInv, LedgerIsFinite, HoldersIn
    <2>5. UnitsIn(movements', w, p) = UnitsAsked(p)[o] + UnitsIn(movements, w, p)
      BY <1>2, <1>3, <2>1, <2>3, <2>4, SumTakesIn DEF UnitsIn
    <2>6. stock'[w][p] = stock[w][p] - Items[o][p]
      BY DEF Decremented, ConservationInv, InventoryInv, InventoryTypeOK
    <2> QED
      BY <1>1, <1>2, <1>3, <2>5, <2>6 DEF UnitsAsked
  <1>4. CASE v # w
    <2>1. HoldersIn(movements', v) = HoldersIn(movements, v)
      BY <1>4 DEF HoldersIn, Row
    <2>2. stock'[v][p] = stock[v][p]
      BY <1>4 DEF Decremented, ConservationInv, InventoryInv, InventoryTypeOK
    <2> QED
      BY <1>1, <2>1, <2>2 DEF UnitsIn
  <1> QED BY <1>3, <1>4

(* A release moves them back to the shelf that they came from.             *)
LEMMA ReleasingConserves ==
    ASSUME ConservationInv, NEW o \in Orders, NEW w \in Warehouses,
           ReservedAt(o, w), ~Released(o),
           movements' = movements \cup {Row(o, "RELEASE", w)}, stock' = Incremented(o, w),
           supplied' = supplied
    PROVE  StockConserved'
  <1> SUFFICES ASSUME NEW v \in Warehouses, NEW p \in Products
               PROVE  stock'[v][p] + UnitsIn(movements', v, p) = supplied'[v][p]
    BY ConservationIsRead DEF ConservedIn
  <1>1. /\ stock[v][p] + UnitsIn(movements, v, p) = supplied[v][p]
        /\ stock[v][p] \in Int /\ Items[o][p] \in Int
    BY ConservationIsRead, InventoryAssumption
       DEF ConservationInv, ConservedIn, InventoryInv, InventoryTypeOK
  <1>2. IsFiniteSet(HoldersIn(movements, v))
    BY HoldersAreFew DEF ConservationInv, LedgerIsFinite
  <1>3. UnitsIn(movements', v, p) \in Int
    <2>1. IsFiniteSet(movements')
      BY FS_AddElement DEF ConservationInv, LedgerIsFinite
    <2> QED BY <2>1, HoldersAreFew
  <1>4. CASE v = w
    <2>1. o \in HoldersIn(movements, w)
      BY DEF HoldersIn, Released, ReleasedAt, ReservedAt
    <2>2. HoldersIn(movements', w) = HoldersIn(movements, w) \ {o}
      BY DEF HoldersIn, Row
    <2>3. \A q \in HoldersIn(movements, w) : UnitsAsked(p)[q] \in Int
      BY HoldersAreFew DEF ConservationInv, LedgerIsFinite, HoldersIn
    <2>4. UnitsIn(movements, w, p) = UnitsAsked(p)[o] + UnitsIn(movements', w, p)
      <3>1. SumFunctionOnSet(UnitsAsked(p), HoldersIn(movements, w))
               = UnitsAsked(p)[o] + SumFunctionOnSet(UnitsAsked(p), HoldersIn(movements, w) \ {o})
        BY <1>2, <1>4, <2>1, <2>3, SumTakesOut
      <3> QED BY <2>2, <3>1 DEF UnitsIn
    <2>5. stock'[w][p] = stock[w][p] + Items[o][p]
      BY DEF Incremented, ConservationInv, InventoryInv, InventoryTypeOK
    <2> QED
      BY <1>1, <1>3, <1>4, <2>4, <2>5 DEF UnitsAsked
  <1>5. CASE v # w
    <2>1. HoldersIn(movements', v) = HoldersIn(movements, v)
      BY <1>5 DEF HoldersIn, Row
    <2>2. stock'[v][p] = stock[v][p]
      BY <1>5 DEF Incremented, ConservationInv, InventoryInv, InventoryTypeOK
    <2> QED
      BY <1>1, <2>1, <2>2 DEF UnitsIn
  <1> QED BY <1>4, <1>5

(* Nothing else touches either, except for the units that are restocked.   *)
LEMMA CallConserves ==
    ASSUME ConservationInv, NEW c \in Callers, CallStep(c)
    PROVE  ConservationInv'
  <1>1. \/ UNCHANGED <<stock, movements, supplied>>
        \/ \E w \in Warehouses :
              /\ ~Reserved(call[c].order)
              /\ movements' = movements \cup {Row(call[c].order, "RESERVE", w)}
              /\ stock' = Decremented(call[c].order, w)
              /\ supplied' = supplied
        \/ \E w \in Warehouses :
              /\ ReservedAt(call[c].order, w) /\ ~Released(call[c].order)
              /\ movements' = movements \cup {Row(call[c].order, "RELEASE", w)}
              /\ stock' = Incremented(call[c].order, w)
              /\ supplied' = supplied
    <2>1. FindPrior(c) \/ FindCandidateWarehouses(c) => UNCHANGED <<stock, movements, supplied>>
      BY DEF FindPrior, FindCandidateWarehouses, shelfVars
    <2> QED BY <2>1 DEF CallStep, TryReserveAt, Release
  <1>2. call[c].op # "idle"
    BY DEF CallStep, FindPrior, FindCandidateWarehouses, TryReserveAt, Release
  <1>3. call[c].order \in Orders
    BY <1>2 DEF ConservationInv, InventoryInv, CallsNameOrders
  <1>4. LedgerIsFinite'
    BY <1>1, FS_AddElement DEF ConservationInv, LedgerIsFinite
  <1>5. StockConserved'
    <2>1. CASE UNCHANGED <<stock, movements, supplied>>
      BY <2>1, ConservationIsRead DEF ConservationInv
    <2> QED BY <1>1, <1>3, <2>1, ReservingConserves, ReleasingConserves
  <1> QED BY <1>4, <1>5, CallStepInv DEF ConservationInv

(* Restocking counts on both sides.                                       *)
LEMMA AdministerConserves ==
    ASSUME ConservationInv, Administer
    PROVE  ConservationInv'
  <1>1. movements' = movements
    BY DEF Administer, AddStock, RemoveWarehouse
  <1>2. StockConserved'
    <2> SUFFICES ASSUME NEW v \in Warehouses, NEW q \in Products
                 PROVE  stock'[v][q] + UnitsIn(movements, v, q) = supplied'[v][q]
      BY <1>1, ConservationIsRead DEF ConservedIn
    <2>1. /\ stock[v][q] + UnitsIn(movements, v, q) = supplied[v][q]
          /\ stock[v][q] \in Int /\ supplied[v][q] \in Int
      BY ConservationIsRead DEF ConservationInv, ConservedIn, InventoryInv, InventoryTypeOK
    <2>2. UnitsIn(movements, v, q) \in Int
      BY HoldersAreFew DEF ConservationInv, LedgerIsFinite
    <2>3. \/ stock'[v][q] = stock[v][q] /\ supplied'[v][q] = supplied[v][q]
          \/ stock'[v][q] = stock[v][q] + 1 /\ supplied'[v][q] = supplied[v][q] + 1
      <3>1. ASSUME NEW w \in Warehouses, NEW p \in Products, AddStock(w, p)
            PROVE  \/ stock'[v][q] = stock[v][q] /\ supplied'[v][q] = supplied[v][q]
                   \/ stock'[v][q] = stock[v][q] + 1 /\ supplied'[v][q] = supplied[v][q] + 1
        BY <3>1 DEF AddStock, ConservationInv, InventoryInv, InventoryTypeOK
      <3>2. ASSUME NEW w \in Warehouses, RemoveWarehouse(w)
            PROVE  stock'[v][q] = stock[v][q] /\ supplied'[v][q] = supplied[v][q]
        BY <3>2 DEF RemoveWarehouse
      <3> QED BY <3>1, <3>2 DEF Administer
    <2> QED BY <2>1, <2>2, <2>3
  <1> QED BY <1>1, <1>2, AdministerInv DEF ConservationInv, LedgerIsFinite

(* The shelves as they are found: nothing is held, all of it was supplied. *)
LEMMA ConservationInit == InventoryInit => ConservationInv
  <1> SUFFICES ASSUME InventoryInit PROVE ConservationInv
    OBVIOUS
  <1>1. LedgerIsFinite
    BY FS_EmptySet DEF LedgerIsFinite, InventoryInit
  <1>2. ASSUME NEW w \in Warehouses, NEW p \in Products
        PROVE  stock[w][p] + UnitsIn(movements, w, p) = supplied[w][p]
    <2>1. HoldersIn(movements, w) = {}
      BY DEF HoldersIn, InventoryInit
    <2>2. UnitsIn(movements, w, p) = 0
      BY <2>1, SumEmpty DEF UnitsIn
    <2> QED BY <2>2, InventoryAssumption DEF InventoryInit
  <1> QED BY <1>1, <1>2, InventoryInitInv, ConservationIsRead DEF ConservationInv, ConservedIn

(* What is on the shelves and what the orders hold is what was supplied:   *)
(* for any number of callers, orders, products and warehouses.             *)
THEOREM StockIsConserved == InventorySpec => []StockConserved
  <1>1. ASSUME ConservationInv, [InventoryNext]_inventoryVars
        PROVE  ConservationInv'
    <2>1. ASSUME UNCHANGED shelfVars, InventoryInv' PROVE ConservationInv'
      BY <1>1, <2>1, ConservationIsRead DEF ConservationInv, LedgerIsFinite, shelfVars
    <2>2. ASSUME NEW c \in Callers, Begin(c) \/ Return(c) \/ Interrupt(c)
          PROVE  UNCHANGED shelfVars
      BY <2>2 DEF Begin, Return, Interrupt
    <2>3. InventoryInv'
      BY <1>1, InventoryInvariantStep DEF ConservationInv, inventoryVars, shelfVars,
         InventoryInv, InventoryTypeOK, LedgerConsistent, AnswersMatchLedger, CallsNameOrders,
         ReservedAt, ReleasedAt
    <2>4. UNCHANGED inventoryVars => UNCHANGED shelfVars
      BY DEF inventoryVars
    <2> QED BY <1>1, <2>1, <2>2, <2>3, <2>4, CallConserves, AdministerConserves DEF InventoryNext
  <1>2. ConservationInv => StockConserved
    BY DEF ConservationInv
  <1> QED BY <1>1, <1>2, ConservationInit, PTL DEF InventorySpec
=============================================================================
