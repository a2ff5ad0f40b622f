--------------------------- MODULE OrderSagaProofs ---------------------------
(***************************************************************************)
(* Theorems about OrderSaga: for any number of orders, workers, sweepers,  *)
(* deliveries and faults, the order document agrees with the ledger of the *)
(* inventory and with the record of the payment provider.                  *)
(***************************************************************************)
EXTENDS OrderSaga, InventoryProofs

(* The two facts about a status that no later transition takes back.       *)
PastPending(o) == order[o].status \notin {"PENDING", "FAILED"}
Unwinding(o) == order[o].status \in {"COMPENSATING", "COMPENSATED"}

(* What an actor that is at step p.pc with order p.order may rely on, when *)
(* it comes to use what it read: its call is the one it made, about that   *)
(* order, and what was true when it read the status is still true.         *)
Relies(c, p) ==
    /\ p.pc # "idle" => p.order \in Orders
    /\ p.pc = "reserving" =>
          /\ call[c].order = p.order
          /\ call[c].op \in {"lookup", "rank", "try", "done"}
          /\ call[c].op = "done" => call[c].outcome \in {"reserved", "replayed", "no_warehouse"}
    /\ p.pc \in {"compensating", "releasing"} =>
          call[c].order = p.order /\ call[c].op \in {"release", "done"}
    /\ p.pc \notin {"reserving", "compensating", "releasing"} => call[c].op = "idle"
    /\ p.pc = "compensating" =>
          Unwinding(p.order) /\ (call[c].op = "done" => Released(p.order))
    /\ p.pc = "releasing" => order[p.order].status = "FAILED"
    /\ p.pc \in {"customer", "charging", "completing", "ask", "advance", "complete",
                 "unwind_declined", "unwind_no_charge"} => PastPending(p.order)
    /\ p.pc = "advance" => charge[p.order] = "succeeded"
    /\ p.pc = "unwind_declined" => charge[p.order] = "declined"

ActorsRely ==
    /\ \A w \in Workers : Relies(w, worker[w])
    /\ \A s \in Sweepers : Relies(s, sweeper[s])

(* A request on its way to the provider was sent after the reservation.    *)
ChargesAreOwed == \A o \in authorizing : PastPending(o)

SagaInv ==
    /\ SagaTypeOK
    /\ InventoryInv
    /\ StatusMatchesLedger
    /\ StatusMatchesCharge
    /\ ChargesAreOwed
    /\ ActorsRely

(* What no step takes back of an order.                                    *)
Keeps ==
    \A o \in Orders :
        /\ PastPending(o) => PastPending(o)'
        /\ Unwinding(o) => Unwinding(o)'
        /\ order[o].status = "FAILED" => order'[o].status = "FAILED"
        /\ Released(o) => Released(o)'
        /\ charge[o] # "none" => charge'[o] = charge[o]

-----------------------------------------------------------------------------
(* What a call to the inventory does to whoever looks at it from outside.  *)

(* What a step of a call does, as far as the saga can see: rows are only   *)
(* appended, the rest of the callers stand still.                          *)
LEMMA CallStepEffect ==
    ASSUME InventoryInv, NEW c \in Callers, CallStep(c)
    PROVE  /\ call[c].op \in {"lookup", "rank", "try", "release"}
           /\ \A d \in Callers \ {c} : call'[d] = call[d]
           /\ call'[c].order = call[c].order
           /\ call[c].op # "release" =>
                /\ call'[c].op \in {"rank", "try", "done"}
                /\ call'[c].op = "done" =>
                      call'[c].outcome \in {"reserved", "replayed", "no_warehouse"}
           /\ call[c].op = "release" =>
                call'[c].op = "done" /\ (Reserved(call[c].order) => Released(call[c].order)')
           /\ movements \subseteq movements'
           /\ \A o \in Orders : Released(o)' =>
                Released(o) \/ (call[c].op = "release" /\ call[c].order = o)
  <1>0. call \in [Callers -> Call]
    BY DEF InventoryInv, InventoryTypeOK
  <1>1. \A outcome, w : Answer(c, outcome, w) =>
            /\ call'[c].op = "done" /\ call'[c].outcome = outcome
            /\ call'[c].order = call[c].order
            /\ \A d \in Callers \ {c} : call'[d] = call[d]
    BY <1>0 DEF Answer, NoCall
  <1>2. ASSUME NEW cands, Continue(c, cands)
        PROVE  /\ \A d \in Callers \ {c} : call'[d] = call[d]
               /\ call'[c].order = call[c].order
               /\ call'[c].op \in {"try", "done"}
               /\ call'[c].op = "done" => call'[c].outcome = "no_warehouse"
    <2>1. CASE Answer(c, "no_warehouse", NoWarehouse)
      BY <1>1, <2>1
    <2>2. CASE call' = [call EXCEPT ![c].op = "try", ![c].candidates = cands]
      BY <1>0, <2>2 DEF Call
    <2> QED BY <1>2, <2>1, <2>2 DEF Continue
  <1>3. movements' = movements => (\A o \in Orders : Released(o)' => Released(o))
    BY DEF Released, ReleasedAt
  <1>4. CASE FindPrior(c)
    <2>1. movements' = movements /\ call[c].op = "lookup"
      BY <1>4 DEF FindPrior, shelfVars
    <2>2. CASE call' = [call EXCEPT ![c].op = "rank"]
      BY <1>0, <1>3, <2>1, <2>2 DEF Call
    <2>3. CASE \E w : Answer(c, "replayed", w)
      BY <1>1, <1>3, <2>1, <2>3
    <2> QED BY <1>4, <2>2, <2>3 DEF FindPrior
  <1>5. CASE FindCandidateWarehouses(c)
    <2>1. movements' = movements /\ call[c].op = "rank"
      BY <1>5 DEF FindCandidateWarehouses, shelfVars
    <2>2. \E cands : Continue(c, cands)
      BY <1>5 DEF FindCandidateWarehouses
    <2> QED BY <1>2, <1>3, <2>1, <2>2
  <1>6. ASSUME NEW w \in Warehouses, TryReserveAt(c, w)
        PROVE  /\ \A d \in Callers \ {c} : call'[d] = call[d]
               /\ call[c].op = "try" /\ call'[c].order = call[c].order
               /\ call'[c].op \in {"try", "done"}
               /\ call'[c].op = "done" =>
                      call'[c].outcome \in {"reserved", "replayed", "no_warehouse"}
               /\ movements \subseteq movements'
               /\ \A o \in Orders : Released(o)' => Released(o)
    <2>1. call[c].op = "try"
      BY <1>6 DEF TryReserveAt
    <2>2. CASE movements' = movements /\ \E v : Answer(c, "replayed", v)
      BY <1>1, <1>3, <2>1, <2>2
    <2>3. CASE movements' = movements /\ \E cands : Continue(c, cands)
      BY <1>2, <1>3, <2>1, <2>3
    <2>4. CASE /\ movements' = movements \cup {Row(call[c].order, "RESERVE", w)}
               /\ Answer(c, "reserved", w)
      <3>1. \A o, v : Row(o, "RELEASE", v) # Row(call[c].order, "RESERVE", w)
        BY DEF Row
      <3>2. \A o \in Orders : Released(o)' => Released(o)
        BY <2>4, <3>1 DEF Released, ReleasedAt
      <3> QED BY <1>1, <2>1, <2>4, <3>2
    <2> QED BY <1>6, <2>2, <2>3, <2>4 DEF TryReserveAt
  <1>7. CASE Release(c)
    <2>1. call[c].op = "release"
      BY <1>7 DEF Release
    <2>2. CASE /\ ~Reserved(call[c].order) \/ Released(call[c].order)
               /\ movements' = movements /\ Answer(c, "noop", NoWarehouse)
      <3>1. Released(call[c].order) => Released(call[c].order)'
        BY <1>0, <1>1, <2>2 DEF Released, ReleasedAt
      <3> QED BY <1>1, <1>3, <2>1, <2>2, <3>1
    <2>3. ASSUME NEW w \in Warehouses, Answer(c, "released", w),
                 movements' = movements \cup {Row(call[c].order, "RELEASE", w)}
          PROVE  /\ Released(call[c].order)'
                 /\ \A o \in Orders : Released(o)' => Released(o) \/ call[c].order = o
      <3>1. Released(call[c].order)'
        <4>1. Row(call[c].order, "RELEASE", w) \in movements'
          BY <2>3
        <4>2. call'[c].order = call[c].order
          BY <1>1, <2>3
        <4> QED BY <4>1, <4>2 DEF Released, ReleasedAt, Row
      <3>2. \A o, v : Row(o, "RELEASE", v) = Row(call[c].order, "RELEASE", w) => call[c].order = o
        BY DEF Row
      <3> QED BY <2>3, <3>1, <3>2 DEF Released, ReleasedAt
    <2>4. CASE \E w \in Warehouses : /\ Answer(c, "released", w)
                                     /\ movements' = movements \cup {Row(call[c].order, "RELEASE", w)}
      BY <1>1, <2>1, <2>3, <2>4
    <2> QED BY <1>7, <2>2, <2>4 DEF Release
  <1> QED BY <1>4, <1>5, <1>6, <1>7 DEF CallStep

-----------------------------------------------------------------------------
(* An actor that a step leaves alone still relies on the truth.            *)

(* A step of one actor keeps what all the others rely on.                  *)
LEMMA OthersRely ==
    ASSUME ActorsRely, Keeps, NEW c \in Callers,
           \A d \in Callers \ {c} : call'[d] = call[d],
           \A w \in Workers \ {c} : worker'[w] = worker[w],
           \A s \in Sweepers \ {c} : sweeper'[s] = sweeper[s],
           c \in Workers => Relies(c, worker[c])',
           c \in Sweepers => Relies(c, sweeper[c])'
    PROVE  ActorsRely'
  <1>1. ASSUME NEW w \in Workers, w # c PROVE Relies(w, worker[w])'
    <2>1. w \in Callers /\ call'[w] = call[w] /\ worker'[w] = worker[w]
      BY <1>1, OrderSagaAssumption
    <2>2. Relies(w, worker[w])
      BY DEF ActorsRely
    <2> QED BY <2>1, <2>2 DEF Keeps, Relies
  <1>2. ASSUME NEW s \in Sweepers, s # c PROVE Relies(s, sweeper[s])'
    <2>1. s \in Callers /\ call'[s] = call[s] /\ sweeper'[s] = sweeper[s]
      BY <1>2, OrderSagaAssumption
    <2>2. Relies(s, sweeper[s])
      BY DEF ActorsRely
    <2> QED BY <2>1, <2>2 DEF Keeps, Relies
  <1> QED BY <1>1, <1>2 DEF ActorsRely

-----------------------------------------------------------------------------
(* The transitions.                                                        *)

(* The edges of the diagram of order-status.ts.                            *)
Edge(from, to) ==
    \/ from = "PENDING" /\ to \in {"STOCK_RESERVED", "FAILED"}
    \/ from = "STOCK_RESERVED" /\ to \in {"PAYMENT_AUTHORIZED", "COMPENSATING"}
    \/ from = "PAYMENT_AUTHORIZED" /\ to = "COMPLETED"
    \/ from = "COMPENSATING" /\ to = "COMPENSATED"

(* A document that an actor may write, going by what it relies on.         *)
Justified(o, document) ==
    /\ document \in OrderDocument
    /\ document.status \notin {"STOCK_RESERVED", "FAILED"} =>
          document.warehouseId = order[o].warehouseId
    /\ document.status = "STOCK_RESERVED" => ReservedAt(o, document.warehouseId)
    /\ document.status = "PAYMENT_AUTHORIZED" => charge[o] = "succeeded"
    /\ document.status = "COMPENSATED" => Released(o)
    /\ document.paymentResult \in {"none", charge[o]}

(* A transition along a justified edge keeps documents, ledger and charges *)
(* in agreement.                                                           *)
LEMMA TransitionInv ==
    ASSUME SagaTypeOK, StatusMatchesLedger, StatusMatchesCharge, ChargesAreOwed,
           NEW o \in Orders, NEW from, NEW document,
           Transition(o, from, document), Edge(from, document.status), Justified(o, document),
           UNCHANGED <<shelfVars, charge, authorizing>>
    PROVE  /\ order' \in [Orders -> OrderDocument]
           /\ StatusMatchesLedger' /\ StatusMatchesCharge' /\ ChargesAreOwed' /\ Keeps
           /\ order[o].status = from => order'[o] = document
  <1>1. order \in [Orders -> OrderDocument] /\ charge \in [Orders -> Charges]
    BY DEF SagaTypeOK
  <1>2. UNCHANGED <<movements, charge, authorizing>>
    BY DEF shelfVars
  <1>3. CASE order' = order
    BY <1>1, <1>2, <1>3 DEF Transition, StatusMatchesLedger, StatusMatchesCharge, ChargesAreOwed, Keeps,
          Reserved, Released, ReservedAt, ReleasedAt, PastPending, Unwinding
  <1>4. CASE order[o].status = from
    <2>1. /\ order'[o] = document
          /\ \A x \in Orders \ {o} : order'[x] = order[x]
          /\ order' \in [Orders -> OrderDocument]
      BY <1>1, <1>4 DEF Transition, Justified
    <2>2. /\ \A x \in Orders : Released(x)' <=> Released(x)
          /\ \A x \in Orders : Reserved(x)' <=> Reserved(x)
          /\ \A x \in Orders : \A w : Row(x, "RESERVE", w) \in movements' <=> ReservedAt(x, w)
      BY <1>2 DEF Released, ReleasedAt, Reserved, ReservedAt
    <2>3. \A x \in Orders : PastPending(x) => PastPending(x)'
      BY <1>4, <2>1 DEF PastPending, Edge
    <2>4. Keeps
      BY <1>2, <1>4, <2>1, <2>2, <2>3 DEF Keeps, Unwinding, Edge
    <2>5. StatusMatchesLedger'
      <3>1. ASSUME NEW x \in Orders
            PROVE  /\ order'[x].status \notin {"PENDING", "FAILED"} =>
                          Row(x, "RESERVE", order'[x].warehouseId) \in movements'
                   /\ Released(x) => order'[x].status \in {"COMPENSATING", "COMPENSATED", "FAILED"}
                   /\ order'[x].status = "COMPENSATED" => Released(x)
        <4>1. CASE x # o
          BY <2>1, <2>2, <4>1 DEF StatusMatchesLedger
        <4>2. CASE x = o
          BY <1>4, <2>1, <2>2, <4>2 DEF StatusMatchesLedger, Justified, Edge
        <4> QED BY <4>1, <4>2
      <3> QED BY <2>2, <3>1 DEF StatusMatchesLedger, ReservedAt, Row
    <2>6. StatusMatchesCharge'
      <3>1. ASSUME NEW x \in Orders
            PROVE  /\ order'[x].status \in {"PAYMENT_AUTHORIZED", "COMPLETED"} => charge[x] = "succeeded"
                   /\ charge[x] # "none" =>
                          Reserved(x) /\ order'[x].status \notin {"PENDING", "FAILED"}
                   /\ order'[x].paymentResult \in {"none", charge[x]}
        <4>1. CASE x # o
          BY <2>1, <4>1 DEF StatusMatchesCharge
        <4>2. CASE x = o
          BY <1>4, <2>1, <4>2 DEF StatusMatchesCharge, Justified, Edge
        <4> QED BY <4>1, <4>2
      <3> QED BY <1>2, <2>2, <3>1 DEF StatusMatchesCharge
    <2>7. ChargesAreOwed'
      BY <1>2, <2>3 DEF ChargesAreOwed, SagaTypeOK
    <2> QED BY <2>1, <2>4, <2>5, <2>6, <2>7
  <1> QED BY <1>3, <1>4 DEF Transition

(* A step that leaves the documents, the ledger and the charges alone.     *)
LEMMA SameDocuments ==
    ASSUME SagaTypeOK, StatusMatchesLedger, StatusMatchesCharge,
           UNCHANGED <<order, movements, charge>>
    PROVE  StatusMatchesLedger' /\ StatusMatchesCharge' /\ Keeps
  BY DEF SagaTypeOK, StatusMatchesLedger, StatusMatchesCharge, Keeps, PastPending, Unwinding,
         Reserved, Released, ReservedAt, ReleasedAt

(* A step that leaves the inventory alone keeps its invariant.             *)
LEMMA SameInventory ==
    ASSUME InventoryInv, UNCHANGED inventoryVars
    PROVE  InventoryInv'
  BY DEF inventoryVars, shelfVars, InventoryInv, InventoryTypeOK, LedgerConsistent,
         AnswersMatchLedger, CallsNameOrders, ReservedAt, ReleasedAt

(* What the invariant says of one worker.                                  *)
LEMMA WorkerFacts ==
    ASSUME SagaInv, NEW w \in Workers
    PROVE  /\ w \in Callers /\ w \notin Sweepers
           /\ worker[w].pc # "idle" => worker[w].order \in Orders
           /\ Relies(w, worker[w])
           /\ worker \in [Workers -> [pc : WorkerPc, order : Orders \cup {NoOrder}]]
           /\ call \in [Callers -> Call]
  BY OrderSagaAssumption DEF SagaInv, ActorsRely, Relies, SagaTypeOK, InventoryInv, InventoryTypeOK

(* What the invariant says of one sweeper.                                 *)
LEMMA SweeperFacts ==
    ASSUME SagaInv, NEW s \in Sweepers
    PROVE  /\ s \in Callers /\ s \notin Workers
           /\ sweeper[s].pc # "idle" => sweeper[s].order \in Orders
           /\ Relies(s, sweeper[s])
           /\ sweeper \in [Sweepers -> [pc : SweeperPc, order : Orders \cup {NoOrder}]]
           /\ call \in [Callers -> Call]
  BY OrderSagaAssumption DEF SagaInv, ActorsRely, Relies, SagaTypeOK, InventoryInv, InventoryTypeOK

(* The documents that the worker and the sweeper write are documents.      *)
LEMMA DocumentType ==
    ASSUME SagaTypeOK, NEW o \in Orders
    PROVE  /\ order[o] \in OrderDocument
           /\ \A to \in OrderStatus :
                /\ Advanced(o, to) \in OrderDocument
                /\ Advanced(o, to).status = to
                /\ Advanced(o, to).warehouseId = order[o].warehouseId
                /\ Advanced(o, to).paymentResult = order[o].paymentResult
           /\ \A v \in Warehouses :
                /\ ReservedDocument(o, v) \in OrderDocument
                /\ ReservedDocument(o, v).status = "STOCK_RESERVED"
                /\ ReservedDocument(o, v).warehouseId = v
                /\ ReservedDocument(o, v).paymentResult = order[o].paymentResult
           /\ \A code \in FailureCode :
                /\ FailedDocument(o, code) \in OrderDocument
                /\ FailedDocument(o, code).status = "FAILED"
                /\ FailedDocument(o, code).paymentResult = order[o].paymentResult
           /\ /\ AuthorizedDocument(o) \in OrderDocument
              /\ AuthorizedDocument(o).status = "PAYMENT_AUTHORIZED"
              /\ AuthorizedDocument(o).warehouseId = order[o].warehouseId
              /\ AuthorizedDocument(o).paymentResult = "succeeded"
           /\ \A code \in FailureCode, result \in Charges :
                /\ CompensatingDocument(o, code, result) \in OrderDocument
                /\ CompensatingDocument(o, code, result).status = "COMPENSATING"
                /\ CompensatingDocument(o, code, result).warehouseId = order[o].warehouseId
                /\ CompensatingDocument(o, code, result).paymentResult = result
  <1>1. order[o] \in OrderDocument
    BY DEF SagaTypeOK
  <1>2. \A to \in OrderStatus :
           /\ Advanced(o, to) \in OrderDocument
           /\ Advanced(o, to).status = to
           /\ Advanced(o, to).warehouseId = order[o].warehouseId
           /\ Advanced(o, to).paymentResult = order[o].paymentResult
    BY <1>1 DEF OrderDocument, Advanced
  <1>3. \A v \in Warehouses :
           /\ ReservedDocument(o, v) \in OrderDocument
           /\ ReservedDocument(o, v).status = "STOCK_RESERVED"
           /\ ReservedDocument(o, v).warehouseId = v
           /\ ReservedDocument(o, v).paymentResult = order[o].paymentResult
    BY <1>1 DEF OrderDocument, ReservedDocument, OrderStatus
  <1>4. \A code \in FailureCode :
           /\ FailedDocument(o, code) \in OrderDocument
           /\ FailedDocument(o, code).status = "FAILED"
           /\ FailedDocument(o, code).paymentResult = order[o].paymentResult
    BY <1>1 DEF OrderDocument, FailedDocument, OrderStatus
  <1>5. /\ AuthorizedDocument(o) \in OrderDocument
        /\ AuthorizedDocument(o).status = "PAYMENT_AUTHORIZED"
        /\ AuthorizedDocument(o).warehouseId = order[o].warehouseId
        /\ AuthorizedDocument(o).paymentResult = "succeeded"
    BY <1>1 DEF OrderDocument, AuthorizedDocument, OrderStatus, Charges
  <1>6. \A code \in FailureCode, result \in Charges :
           /\ CompensatingDocument(o, code, result) \in OrderDocument
           /\ CompensatingDocument(o, code, result).status = "COMPENSATING"
           /\ CompensatingDocument(o, code, result).warehouseId = order[o].warehouseId
           /\ CompensatingDocument(o, code, result).paymentResult = result
    BY <1>1 DEF OrderDocument, CompensatingDocument, OrderStatus
  <1> QED BY <1>1, <1>2, <1>3, <1>4, <1>5, <1>6

-----------------------------------------------------------------------------
(* The steps that write no document.                                       *)

(* What a step may do to worker w and its call when nothing that the       *)
(* others rely on changes, and the invariant it then keeps.                *)
LEMMA WorkerMoves ==
    ASSUME SagaInv, NEW w \in Workers, NEW pc \in WorkerPc, NEW o \in Orders \cup {NoOrder},
           worker' = [worker EXCEPT ![w] = [pc |-> pc, order |-> o]],
           Keeps, InventoryInv', StatusMatchesLedger', StatusMatchesCharge', ChargesAreOwed',
           order' \in [Orders -> OrderDocument], charge' = charge,
           authorizing' \subseteq Orders, customers' = customers,
           deliveries' \in [Orders -> 0..MaxDeliveries], faults' \in 0..MaxFaults,
           sweeper' = sweeper,
           \A d \in Callers \ {w} : call'[d] = call[d],
           Relies(w, [pc |-> pc, order |-> o])'
    PROVE  SagaInv'
  <1>1. w \in Callers /\ w \notin Sweepers /\ worker \in [Workers -> [pc : WorkerPc, order : Orders \cup {NoOrder}]]
    BY WorkerFacts
  <1>2. worker'[w] = [pc |-> pc, order |-> o] /\ \A v \in Workers \ {w} : worker'[v] = worker[v]
    BY <1>1
  <1>3. worker' \in [Workers -> [pc : WorkerPc, order : Orders \cup {NoOrder}]]
    BY <1>1
  <1>4. SagaTypeOK'
    BY <1>3 DEF SagaInv, SagaTypeOK
  <1>5. Relies(w, worker[w])'
    BY <1>2 DEF Relies
  <1>6. ActorsRely'
    BY <1>1, <1>2, <1>5, OthersRely DEF SagaInv
  <1> QED BY <1>4, <1>6 DEF SagaInv

(* A step of one sweeper that keeps agreement keeps the invariant, when it *)
(* relies on no more than holds afterwards.                                *)
LEMMA SweeperMoves ==
    ASSUME SagaInv, NEW s \in Sweepers, NEW pc \in SweeperPc, NEW o \in Orders \cup {NoOrder},
           sweeper' = [sweeper EXCEPT ![s] = [pc |-> pc, order |-> o]],
           Keeps, InventoryInv', StatusMatchesLedger', StatusMatchesCharge', ChargesAreOwed',
           order' \in [Orders -> OrderDocument],
           UNCHANGED <<charge, authorizing, customers, deliveries, worker>>, faults' \in 0..MaxFaults,
           \A d \in Callers \ {s} : call'[d] = call[d],
           Relies(s, [pc |-> pc, order |-> o])'
    PROVE  SagaInv'
  <1>1. s \in Callers /\ s \notin Workers /\ sweeper \in [Sweepers -> [pc : SweeperPc, order : Orders \cup {NoOrder}]]
    BY SweeperFacts
  <1>2. sweeper'[s] = [pc |-> pc, order |-> o] /\ \A t \in Sweepers \ {s} : sweeper'[t] = sweeper[t]
    BY <1>1
  <1>3. sweeper' \in [Sweepers -> [pc : SweeperPc, order : Orders \cup {NoOrder}]]
    BY <1>1
  <1>4. SagaTypeOK'
    BY <1>3 DEF SagaInv, SagaTypeOK
  <1>5. Relies(s, sweeper[s])'
    BY <1>2 DEF Relies
  <1>6. ActorsRely'
    BY <1>1, <1>2, <1>5, OthersRely DEF SagaInv
  <1> QED BY <1>4, <1>6 DEF SagaInv

(* A job handed to an idle worker.                                         *)
LEMMA DeliverInv ==
    ASSUME SagaInv, NEW w \in Workers, NEW o \in Orders, Deliver(w, o)
    PROVE  SagaInv'
  <1>1. UNCHANGED <<order, movements, charge, authorizing, call>>
    BY DEF Deliver, inventoryVars, shelfVars
  <1>2. InventoryInv'
    BY SameInventory DEF Deliver, SagaInv
  <1>3. StatusMatchesLedger' /\ StatusMatchesCharge' /\ Keeps
    BY <1>1, SameDocuments DEF SagaInv
  <1>4. ChargesAreOwed'
    BY <1>1 DEF SagaInv, ChargesAreOwed, PastPending
  <1>5. deliveries' \in [Orders -> 0..MaxDeliveries]
    BY OrderSagaAssumption DEF Deliver, SagaInv, SagaTypeOK
  <1>6. Relies(w, worker[w]) /\ worker[w].pc = "idle" /\ w \in Callers
    BY WorkerFacts DEF Deliver
  <1>7. Relies(w, [pc |-> "read", order |-> o])'
    BY <1>1, <1>6 DEF Relies
  <1>8. /\ worker' = [worker EXCEPT ![w] = [pc |-> "read", order |-> o]]
        /\ UNCHANGED <<customers, faults, sweeper>>
    BY DEF Deliver
  <1>9. "read" \in WorkerPc
    BY DEF WorkerPc
  <1>10. /\ order' \in [Orders -> OrderDocument] /\ authorizing' \subseteq Orders
         /\ faults' \in 0..MaxFaults
    BY <1>1, <1>8 DEF SagaInv, SagaTypeOK
  <1> QED BY <1>1, <1>2, <1>3, <1>4, <1>5, <1>7, <1>8, <1>9, <1>10, WorkerMoves

(* A worker that moves on keeps its order.                                 *)
LEMMA WorkerGoesRecord ==
    ASSUME SagaInv, NEW w \in Workers, NEW pc, WorkerGoes(w, pc)
    PROVE  worker' = [worker EXCEPT ![w] = [pc |-> pc, order |-> worker[w].order]]
  <1>1. worker[w] \in [pc : WorkerPc, order : Orders \cup {NoOrder}]
    BY WorkerFacts
  <1>2. [worker[w] EXCEPT !.pc = pc] = [pc |-> pc, order |-> worker[w].order]
    BY <1>1
  <1> QED BY <1>2 DEF WorkerGoes

(* A sweeper that moves on keeps its order.                                *)
LEMMA SweeperGoesRecord ==
    ASSUME SagaInv, NEW s \in Sweepers, NEW pc, SweeperGoes(s, pc)
    PROVE  sweeper' = [sweeper EXCEPT ![s] = [pc |-> pc, order |-> sweeper[s].order]]
  <1>1. sweeper[s] \in [pc : SweeperPc, order : Orders \cup {NoOrder}]
    BY SweeperFacts
  <1>2. [sweeper[s] EXCEPT !.pc = pc] = [pc |-> pc, order |-> sweeper[s].order]
    BY <1>1
  <1> QED BY <1>2 DEF SweeperGoes

(* The requests, and the calls that they leave behind.                     *)
LEMMA CallsEffect ==
    ASSUME InventoryInv, NEW c \in Callers, UNCHANGED shelfVars
    PROVE  /\ \A o \in Orders : Calls(c, ReserveForOrder(o)) =>
                 /\ InventoryInv' /\ call'[c].op = "lookup" /\ call'[c].order = o
                 /\ \A d \in Callers \ {c} : call'[d] = call[d]
           /\ \A o \in Orders : Calls(c, ReleaseForOrder(o)) =>
                 /\ InventoryInv' /\ call'[c].op = "release" /\ call'[c].order = o
                 /\ \A d \in Callers \ {c} : call'[d] = call[d]
           /\ HangsUp(c) =>
                 /\ InventoryInv' /\ call'[c].op = "idle"
                 /\ \A d \in Callers \ {c} : call'[d] = call[d]
  <1>0. call \in [Callers -> Call]
    BY DEF InventoryInv, InventoryTypeOK
  <1>1. ASSUME NEW o \in Orders, Calls(c, ReserveForOrder(o))
        PROVE  /\ InventoryInv' /\ call'[c].op = "lookup" /\ call'[c].order = o
               /\ \A d \in Callers \ {c} : call'[d] = call[d]
    <2>1. InventoryInv'
      BY <1>1, RequestInv DEF Calls
    <2>2. ReserveForOrder(o).op = "lookup" /\ ReserveForOrder(o).order = o
      BY DEF ReserveForOrder, NoCall
    <2> QED BY <1>0, <1>1, <2>1, <2>2 DEF Calls
  <1>2. ASSUME NEW o \in Orders, Calls(c, ReleaseForOrder(o))
        PROVE  /\ InventoryInv' /\ call'[c].op = "release" /\ call'[c].order = o
               /\ \A d \in Callers \ {c} : call'[d] = call[d]
    <2>1. InventoryInv'
      BY <1>2, RequestInv DEF Calls
    <2>2. ReleaseForOrder(o).op = "release" /\ ReleaseForOrder(o).order = o
      BY DEF ReleaseForOrder, NoCall
    <2> QED BY <1>0, <1>2, <2>1, <2>2 DEF Calls
  <1>3. ASSUME HangsUp(c)
        PROVE  /\ InventoryInv' /\ call'[c].op = "idle"
               /\ \A d \in Callers \ {c} : call'[d] = call[d]
    <2>1. InventoryInv'
      BY <1>3, RequestInv DEF HangsUp
    <2>2. NoCall.op = "idle"
      BY DEF NoCall
    <2> QED BY <1>0, <1>3, <2>1, <2>2 DEF HangsUp
  <1> QED BY <1>1, <1>2, <1>3

(* The worker reads the document and starts where its status says, or      *)
(* releases the stock of one that failed.                                  *)
LEMMA ReadInv ==
    ASSUME SagaInv, NEW w \in Workers, ReadTerminal(w) \/ Read(w)
    PROVE  SagaInv'
  <1>0. PICK o \in Orders : /\ o = worker[w].order /\ w \in Callers
                            /\ Relies(w, worker[w]) /\ call[w].op = "idle"
    BY WorkerFacts DEF ReadTerminal, Read, Relies
  <1>1. UNCHANGED <<shelfVars, order, movements, charge, authorizing, customers, deliveries, faults, sweeper>>
    BY DEF ReadTerminal, Read, shelfVars
  <1>2. StatusMatchesLedger' /\ StatusMatchesCharge' /\ Keeps
    BY <1>1, SameDocuments DEF SagaInv
  <1>3. ChargesAreOwed'
    BY <1>1 DEF SagaInv, ChargesAreOwed, PastPending
  <1>4. /\ order' \in [Orders -> OrderDocument] /\ authorizing' \subseteq Orders
        /\ deliveries' \in [Orders -> 0..MaxDeliveries] /\ faults' \in 0..MaxFaults
    BY <1>1 DEF SagaInv, SagaTypeOK
  <1>5. ASSUME NEW pc \in WorkerPc, NEW x \in Orders \cup {NoOrder},
               worker' = [worker EXCEPT ![w] = [pc |-> pc, order |-> x]],
               InventoryInv', \A d \in Callers \ {w} : call'[d] = call[d],
               Relies(w, [pc |-> pc, order |-> x])'
        PROVE  SagaInv'
    BY <1>1, <1>2, <1>3, <1>4, <1>5, WorkerMoves
  <1>6. CASE order[o].status = "PENDING" /\ WorkerGoes(w, "reserving") /\ Calls(w, ReserveForOrder(o))
    <2>1. /\ InventoryInv' /\ call'[w].op = "lookup" /\ call'[w].order = o
          /\ \A d \in Callers \ {w} : call'[d] = call[d]
      BY <1>0, <1>1, <1>6, CallsEffect DEF SagaInv
    <2>2. Relies(w, [pc |-> "reserving", order |-> o])'
      BY <1>0, <2>1 DEF Relies
    <2> QED BY <1>0, <1>5, <1>6, <2>1, <2>2, WorkerGoesRecord DEF WorkerPc
  <1>7. CASE /\ order[o].status \in {"STOCK_RESERVED", "PAYMENT_AUTHORIZED"} /\ UNCHANGED call
             /\ \E pc \in {"customer", "completing"} : WorkerGoes(w, pc)
    <2>1. PICK pc \in {"customer", "completing"} : WorkerGoes(w, pc)
      BY <1>7
    <2>2. InventoryInv'
      BY <1>1, <1>7, SameInventory DEF inventoryVars, SagaInv
    <2>3. Relies(w, [pc |-> pc, order |-> o])'
      BY <1>0, <1>1, <1>7 DEF Relies, PastPending
    <2> QED BY <1>0, <1>5, <1>7, <2>1, <2>2, <2>3, WorkerGoesRecord DEF WorkerPc
  <1>8. CASE /\ Calls(w, ReleaseForOrder(o))
             /\ \/ order[o].status = "COMPENSATING" /\ WorkerGoes(w, "compensating")
                \/ order[o].status = "FAILED" /\ WorkerGoes(w, "releasing")
    <2>1. /\ InventoryInv' /\ call'[w].op = "release" /\ call'[w].order = o
          /\ \A d \in Callers \ {w} : call'[d] = call[d]
      BY <1>0, <1>1, <1>8, CallsEffect DEF SagaInv
    <2>2. ASSUME order[o].status = "COMPENSATING" PROVE Relies(w, [pc |-> "compensating", order |-> o])'
      BY <1>0, <1>1, <2>1, <2>2 DEF Relies, Unwinding
    <2>3. ASSUME order[o].status = "FAILED" PROVE Relies(w, [pc |-> "releasing", order |-> o])'
      BY <1>0, <1>1, <2>1, <2>3 DEF Relies
    <2> QED BY <1>0, <1>5, <1>8, <2>1, <2>2, <2>3, WorkerGoesRecord DEF WorkerPc
  <1>9. CASE WorkerEnds(w) /\ UNCHANGED call
    <2>1. InventoryInv'
      BY <1>1, <1>9, SameInventory DEF inventoryVars, SagaInv
    <2>2. Relies(w, [pc |-> "idle", order |-> NoOrder])'
      BY <1>0, <1>9 DEF Relies
    <2> QED BY <1>5, <1>9, <2>1, <2>2 DEF WorkerEnds, Idle, WorkerPc
  <1> QED BY <1>0, <1>6, <1>7, <1>8, <1>9 DEF ReadTerminal, Read

-----------------------------------------------------------------------------
(* The steps of the worker that write a document.                          *)

(* A worker that makes a justified transition and moves on keeps the       *)
(* invariant.                                                              *)
LEMMA WorkerTransits ==
    ASSUME SagaInv, NEW w \in Workers, NEW pc \in WorkerPc, NEW x \in Orders \cup {NoOrder},
           NEW o \in Orders, NEW from, NEW document,
           Transition(o, from, document), Edge(from, document.status), Justified(o, document),
           worker' = [worker EXCEPT ![w] = [pc |-> pc, order |-> x]],
           InventoryInv',
           UNCHANGED <<shelfVars, charge, authorizing, customers, deliveries, faults, sweeper>>,
           \A d \in Callers \ {w} : call'[d] = call[d],
           Relies(w, [pc |-> pc, order |-> x])'
    PROVE  SagaInv'
  <1>1. /\ order' \in [Orders -> OrderDocument]
        /\ StatusMatchesLedger' /\ StatusMatchesCharge' /\ ChargesAreOwed' /\ Keeps
    BY TransitionInv DEF SagaInv
  <1>2. /\ authorizing' \subseteq Orders
        /\ deliveries' \in [Orders -> 0..MaxDeliveries] /\ faults' \in 0..MaxFaults
    BY DEF SagaInv, SagaTypeOK
  <1> QED BY <1>1, <1>2, WorkerMoves

(* The answer of the reservation becomes the document's warehouse, or its  *)
(* failure.                                                                *)
LEMMA ReserveInv ==
    ASSUME SagaInv, NEW w \in Workers, Reserve(w)
    PROVE  SagaInv'
  <1>0. PICK o \in Orders : /\ o = worker[w].order /\ w \in Callers
                            /\ Relies(w, worker[w]) /\ worker[w].pc = "reserving"
                            /\ call[w].op = "done" /\ call[w].order = o
    BY WorkerFacts DEF Reserve, Relies
  <1>1. UNCHANGED <<shelfVars, charge, authorizing, customers, deliveries, faults, sweeper>>
    BY DEF Reserve
  <1>2. /\ InventoryInv' /\ call'[w].op = "idle"
        /\ \A d \in Callers \ {w} : call'[d] = call[d]
    BY <1>0, <1>1, CallsEffect DEF Reserve, SagaInv
  <1>3. Relies(w, [pc |-> "read", order |-> o])'
    BY <1>0, <1>2 DEF Relies
  <1>4. worker' = [worker EXCEPT ![w] = [pc |-> "read", order |-> o]] /\ "read" \in WorkerPc
    BY <1>0, WorkerGoesRecord DEF Reserve, WorkerPc
  <1>5. order[o].paymentResult \in {"none", charge[o]} /\ SagaTypeOK
    BY DEF SagaInv, StatusMatchesCharge
  <1>6. CASE call[w].outcome \in {"reserved", "replayed"}
    <2>1. /\ call[w].warehouseId \in Warehouses \cup {NoWarehouse}
          /\ ReservedAt(o, call[w].warehouseId)
      BY <1>0, <1>6 DEF SagaInv, InventoryInv, InventoryTypeOK, Call, AnswersMatchLedger
    <2>2. PICK v \in Warehouses : v = call[w].warehouseId
      BY <2>1 DEF SagaInv, InventoryInv, InventoryTypeOK, ReservedAt, Row, Movement
    <2>3. Transition(o, "PENDING", ReservedDocument(o, v))
      BY <1>0, <1>6, <2>2 DEF Reserve
    <2>4. /\ Edge("PENDING", ReservedDocument(o, v).status)
          /\ Justified(o, ReservedDocument(o, v))
      BY <1>5, <2>1, <2>2, DocumentType DEF Edge, Justified
    <2> QED BY <1>1, <1>2, <1>3, <1>4, <2>3, <2>4, WorkerTransits
  <1>7. CASE call[w].outcome = "no_warehouse"
    <2>1. Transition(o, "PENDING", FailedDocument(o, "OUT_OF_STOCK"))
      BY <1>0, <1>7 DEF Reserve
    <2>2. /\ Edge("PENDING", FailedDocument(o, "OUT_OF_STOCK").status)
          /\ Justified(o, FailedDocument(o, "OUT_OF_STOCK"))
      BY <1>5, DocumentType DEF Edge, Justified, FailureCode
    <2> QED BY <1>1, <1>2, <1>3, <1>4, <2>1, <2>2, WorkerTransits
  <1> QED BY <1>6, <1>7 DEF Reserve

(* authorize() and complete(): no call to the inventory is under way.      *)
LEMMA WorkerDecides ==
    ASSUME SagaInv, NEW w \in Workers, NEW o \in Orders, o = worker[w].order,
           worker[w].pc \notin {"idle", "reserving", "compensating", "releasing"},
           NEW from, NEW document,
           Transition(o, from, document), Edge(from, document.status), Justified(o, document),
           WorkerGoes(w, "read"),
           UNCHANGED <<inventoryVars, charge, authorizing, customers, deliveries, faults, sweeper>>
    PROVE  SagaInv'
  <1>1. UNCHANGED <<shelfVars, call>> /\ w \in Callers
    BY WorkerFacts DEF inventoryVars
  <1>2. InventoryInv'
    BY SameInventory DEF SagaInv
  <1>3. Relies(w, [pc |-> "read", order |-> o])'
    BY <1>1, WorkerFacts DEF Relies
  <1>4. worker' = [worker EXCEPT ![w] = [pc |-> "read", order |-> o]] /\ "read" \in WorkerPc
    BY WorkerGoesRecord DEF WorkerPc
  <1> QED BY <1>1, <1>2, <1>3, <1>4, WorkerTransits

(* The order of a customer who disappeared is unwound.                     *)
LEMMA CustomerGoneInv ==
    ASSUME SagaInv, NEW w \in Workers, CustomerGone(w)
    PROVE  SagaInv'
  <1>0. PICK o \in Orders : o = worker[w].order /\ worker[w].pc = "customer"
    BY WorkerFacts DEF CustomerGone
  <1> DEFINE document == CompensatingDocument(o, "PAYMENT_DECLINED", order[o].paymentResult)
  <1>1. order[o].paymentResult \in {"none", charge[o]} /\ SagaTypeOK
    BY DEF SagaInv, StatusMatchesCharge
  <1>2. order[o].paymentResult \in Charges
    BY <1>1 DEF SagaTypeOK, OrderDocument
  <1>3. Edge("STOCK_RESERVED", document.status) /\ Justified(o, document)
    BY <1>1, <1>2, DocumentType DEF Edge, Justified, FailureCode
  <1>4. /\ Transition(o, "STOCK_RESERVED", document) /\ WorkerGoes(w, "read")
        /\ UNCHANGED <<inventoryVars, charge, authorizing, customers, deliveries, faults, sweeper>>
    BY <1>0 DEF CustomerGone
  <1> QED BY <1>0, <1>3, <1>4, WorkerDecides

(* The provider's answer is recorded, or unwinds the order.                *)
LEMMA AuthorizedInv ==
    ASSUME SagaInv, NEW w \in Workers, Authorized(w)
    PROVE  SagaInv'
  <1>0. PICK o \in Orders : o = worker[w].order /\ worker[w].pc = "charging"
    BY WorkerFacts DEF Authorized
  <1>1. SagaTypeOK
    BY DEF SagaInv
  <1>2. /\ WorkerGoes(w, "read")
        /\ UNCHANGED <<inventoryVars, charge, authorizing, customers, deliveries, faults, sweeper>>
    BY DEF Authorized
  <1>3. CASE charge[o] = "succeeded" /\ Transition(o, "STOCK_RESERVED", AuthorizedDocument(o))
    <2>1. Edge("STOCK_RESERVED", AuthorizedDocument(o).status) /\ Justified(o, AuthorizedDocument(o))
      BY <1>1, <1>3, DocumentType DEF Edge, Justified
    <2> QED BY <1>0, <1>2, <1>3, <2>1, WorkerDecides
  <1>4. CASE /\ charge[o] = "declined"
             /\ Transition(o, "STOCK_RESERVED", CompensatingDocument(o, "PAYMENT_DECLINED", "declined"))
    <2> DEFINE document == CompensatingDocument(o, "PAYMENT_DECLINED", "declined")
    <2>1. Edge("STOCK_RESERVED", document.status) /\ Justified(o, document)
      BY <1>1, <1>4, DocumentType DEF Edge, Justified, FailureCode, Charges
    <2> QED BY <1>0, <1>2, <1>4, <2>1, WorkerDecides
  <1> QED BY <1>0, <1>3, <1>4 DEF Authorized

(* A paid order is completed.                                              *)
LEMMA CompleteInv ==
    ASSUME SagaInv, NEW w \in Workers, Complete(w)
    PROVE  SagaInv'
  <1>0. PICK o \in Orders : o = worker[w].order /\ worker[w].pc = "completing"
    BY WorkerFacts DEF Complete
  <1>1. order[o].paymentResult \in {"none", charge[o]} /\ SagaTypeOK
    BY DEF SagaInv, StatusMatchesCharge
  <1>2. /\ Edge("PAYMENT_AUTHORIZED", Advanced(o, "COMPLETED").status)
        /\ Justified(o, Advanced(o, "COMPLETED"))
    BY <1>1, DocumentType DEF Edge, Justified, OrderStatus
  <1>3. /\ Transition(o, "PAYMENT_AUTHORIZED", Advanced(o, "COMPLETED")) /\ WorkerGoes(w, "read")
        /\ UNCHANGED <<inventoryVars, charge, authorizing, customers, deliveries, faults, sweeper>>
    BY <1>0 DEF Complete
  <1> QED BY <1>0, <1>2, <1>3, WorkerDecides

(* An unwound order is settled after its release.                          *)
LEMMA CompensateInv ==
    ASSUME SagaInv, NEW w \in Workers, Compensate(w)
    PROVE  SagaInv'
  <1>0. PICK o \in Orders : /\ o = worker[w].order /\ w \in Callers
                            /\ worker[w].pc = "compensating" /\ Released(o)
    BY WorkerFacts DEF Compensate, Relies
  <1>1. UNCHANGED <<shelfVars, charge, authorizing, customers, deliveries, faults, sweeper>>
    BY DEF Compensate
  <1>2. /\ InventoryInv' /\ call'[w].op = "idle"
        /\ \A d \in Callers \ {w} : call'[d] = call[d]
    BY <1>0, <1>1, CallsEffect DEF Compensate, SagaInv
  <1>3. Relies(w, [pc |-> "idle", order |-> NoOrder])'
    BY <1>2 DEF Relies
  <1>4. worker' = [worker EXCEPT ![w] = [pc |-> "idle", order |-> NoOrder]] /\ "idle" \in WorkerPc
    BY DEF Compensate, WorkerEnds, Idle, WorkerPc
  <1>5. order[o].paymentResult \in {"none", charge[o]} /\ SagaTypeOK
    BY DEF SagaInv, StatusMatchesCharge
  <1>6. /\ Edge("COMPENSATING", Advanced(o, "COMPENSATED").status)
        /\ Justified(o, Advanced(o, "COMPENSATED"))
    BY <1>0, <1>5, DocumentType DEF Edge, Justified, OrderStatus
  <1>7. Transition(o, "COMPENSATING", Advanced(o, "COMPENSATED"))
    BY <1>0 DEF Compensate
  <1> QED BY <1>1, <1>2, <1>3, <1>4, <1>6, <1>7, WorkerTransits

-----------------------------------------------------------------------------
(* The other steps of the worker.                                          *)

(* An authorization that leaves for the provider is for a reserved order.  *)
LEMMA RequestChargeInv ==
    ASSUME SagaInv, NEW w \in Workers, RequestCharge(w)
    PROVE  SagaInv'
  <1>0. PICK o \in Orders : /\ o = worker[w].order /\ w \in Callers
                            /\ worker[w].pc = "customer" /\ PastPending(o) /\ call[w].op = "idle"
    BY WorkerFacts DEF RequestCharge, Relies
  <1>1. UNCHANGED <<movements, order, charge, call, customers, deliveries, faults, sweeper>>
    BY DEF RequestCharge, inventoryVars, shelfVars
  <1>2. InventoryInv'
    BY SameInventory DEF RequestCharge, SagaInv
  <1>3. StatusMatchesLedger' /\ StatusMatchesCharge' /\ Keeps
    BY <1>1, SameDocuments DEF SagaInv
  <1>4. ChargesAreOwed' /\ authorizing' \subseteq Orders
    BY <1>0, <1>1 DEF RequestCharge, SagaInv, SagaTypeOK, ChargesAreOwed, PastPending
  <1>5. Relies(w, [pc |-> "charging", order |-> o])'
    BY <1>0, <1>1 DEF Relies, PastPending
  <1>6. worker' = [worker EXCEPT ![w] = [pc |-> "charging", order |-> o]] /\ "charging" \in WorkerPc
    BY <1>0, WorkerGoesRecord DEF RequestCharge, WorkerPc
  <1>7. /\ order' \in [Orders -> OrderDocument]
        /\ deliveries' \in [Orders -> 0..MaxDeliveries] /\ faults' \in 0..MaxFaults
    BY <1>1 DEF SagaInv, SagaTypeOK
  <1> QED BY <1>1, <1>2, <1>3, <1>4, <1>5, <1>6, <1>7, WorkerMoves

(* FailedReleased and WorkerFault: the worker is done with its job.        *)
LEMMA WorkerStops ==
    ASSUME SagaInv, NEW w \in Workers, WorkerEnds(w), HangsUp(w), faults' \in 0..MaxFaults,
           UNCHANGED <<shelfVars, order, charge, authorizing, customers, deliveries, sweeper>>
    PROVE  SagaInv'
  <1>0. w \in Callers /\ UNCHANGED movements
    BY WorkerFacts DEF shelfVars
  <1>1. /\ InventoryInv' /\ call'[w].op = "idle"
        /\ \A d \in Callers \ {w} : call'[d] = call[d]
    BY <1>0, CallsEffect DEF SagaInv
  <1>2. StatusMatchesLedger' /\ StatusMatchesCharge' /\ Keeps
    BY <1>0, SameDocuments DEF SagaInv
  <1>3. ChargesAreOwed'
    BY DEF SagaInv, ChargesAreOwed, PastPending
  <1>4. Relies(w, [pc |-> "idle", order |-> NoOrder])'
    BY <1>1 DEF Relies
  <1>5. worker' = [worker EXCEPT ![w] = [pc |-> "idle", order |-> NoOrder]] /\ "idle" \in WorkerPc
    BY DEF WorkerEnds, Idle, WorkerPc
  <1>6. /\ order' \in [Orders -> OrderDocument] /\ authorizing' \subseteq Orders
        /\ deliveries' \in [Orders -> 0..MaxDeliveries]
    BY DEF SagaInv, SagaTypeOK
  <1> QED BY <1>1, <1>2, <1>3, <1>4, <1>5, <1>6, WorkerMoves

(* A worker that dies, or throws, leaves its order to others.              *)
LEMMA WorkerFaultInv ==
    ASSUME SagaInv, NEW w \in Workers, WorkerFault(w)
    PROVE  SagaInv'
  <1>1. faults' \in 0..MaxFaults
    BY OrderSagaAssumption DEF WorkerFault, SagaInv, SagaTypeOK
  <1> QED BY <1>1, WorkerStops DEF WorkerFault

(* A worker that gave the stock of a failed order back is done with it.    *)
LEMMA FailedReleasedInv ==
    ASSUME SagaInv, NEW w \in Workers, FailedReleased(w)
    PROVE  SagaInv'
  <1>1. faults' \in 0..MaxFaults
    BY DEF FailedReleased, SagaInv, SagaTypeOK
  <1> QED BY <1>1, WorkerStops DEF FailedReleased

-----------------------------------------------------------------------------
(* A call to the inventory moves on.                                       *)

(* A step of an actor's inventory call keeps agreement and what that actor *)
(* relies on.                                                              *)
LEMMA CallStepKeeps ==
    ASSUME SagaInv, NEW c \in Callers, NEW p, Relies(c, p), CallStep(c), UNCHANGED sagaVars
    PROVE  /\ Keeps /\ StatusMatchesLedger' /\ StatusMatchesCharge' /\ ChargesAreOwed'
           /\ Relies(c, p)'
           /\ \A d \in Callers \ {c} : call'[d] = call[d]
  <1>0. InventoryInv
    BY DEF SagaInv
  <1>1. /\ call[c].op \in {"lookup", "rank", "try", "release"}
        /\ \A d \in Callers \ {c} : call'[d] = call[d]
        /\ call'[c].order = call[c].order
        /\ call[c].op # "release" =>
             /\ call'[c].op \in {"rank", "try", "done"}
             /\ call'[c].op = "done" => call'[c].outcome \in {"reserved", "replayed", "no_warehouse"}
        /\ call[c].op = "release" =>
             call'[c].op = "done" /\ (Reserved(call[c].order) => Released(call[c].order)')
        /\ movements \subseteq movements'
        /\ \A o \in Orders : Released(o)' => Released(o) \/ (call[c].op = "release" /\ call[c].order = o)
    BY <1>0, CallStepEffect
  <1>2. UNCHANGED <<order, charge, authorizing>>
    BY DEF sagaVars
  <1>3. /\ \A o \in Orders : Released(o) => Released(o)'
        /\ \A o \in Orders : Reserved(o) => Reserved(o)'
        /\ \A o \in Orders : \A w : ReservedAt(o, w) => Row(o, "RESERVE", w) \in movements'
    BY <1>1 DEF Released, Reserved, ReleasedAt, ReservedAt, Row
  <1>4. Keeps
    BY <1>2, <1>3 DEF Keeps, PastPending, Unwinding
  <1>5. call[c].op = "release" =>
          /\ p.order \in Orders /\ call[c].order = p.order
          /\ order[p.order].status \in {"COMPENSATING", "COMPENSATED", "FAILED"}
    BY DEF Relies, Unwinding
  <1>6. StatusMatchesLedger'
    <2>1. ASSUME NEW o \in Orders
          PROVE  /\ order[o].status \notin {"PENDING", "FAILED"} =>
                        Row(o, "RESERVE", order[o].warehouseId) \in movements'
                 /\ Released(o)' => order[o].status \in {"COMPENSATING", "COMPENSATED", "FAILED"}
                 /\ order[o].status = "COMPENSATED" => Released(o)'
      BY <1>1, <1>3, <1>5 DEF SagaInv, StatusMatchesLedger
    <2> QED BY <1>2, <2>1 DEF StatusMatchesLedger, ReservedAt, Row
  <1>7. StatusMatchesCharge' /\ ChargesAreOwed'
    BY <1>2, <1>3 DEF SagaInv, SagaTypeOK, StatusMatchesCharge, ChargesAreOwed, PastPending
  <1>8. Relies(c, p)'
    <2>1. CASE call[c].op # "release"
      <3>1. p.pc = "reserving"
        BY <1>1, <2>1 DEF Relies
      <3> QED BY <1>1, <2>1, <3>1 DEF Relies
    <2>2. CASE call[c].op = "release"
      <3>1. p.pc \in {"compensating", "releasing"} /\ p.pc # "idle" /\ p.order \in Orders
        BY <2>2 DEF Relies
      <3>2. p.pc = "compensating" => ReservedAt(p.order, order[p.order].warehouseId)
        BY <3>1 DEF Relies, Unwinding, SagaInv, StatusMatchesLedger
      <3>3. p.pc = "compensating" => Reserved(p.order)
        BY <3>2 DEF Reserved, ReservedAt, Row, SagaInv, InventoryInv, InventoryTypeOK, Movement
      <3>4. p.pc = "compensating" => Released(p.order)'
        <4>1. CASE p.pc = "compensating"
          <5>1. Reserved(call[c].order) /\ call'[c].order = p.order
            BY <1>1, <1>5, <2>2, <3>3, <4>1
          <5> QED BY <1>1, <1>5, <2>2, <5>1 DEF Released, ReleasedAt
        <4> QED BY <4>1
      <3> QED BY <1>1, <1>2, <1>5, <2>2, <3>1, <3>4 DEF Relies, Unwinding
    <2> QED BY <2>1, <2>2
  <1> QED BY <1>1, <1>4, <1>6, <1>7, <1>8

(* A step of anybody's inventory call keeps the invariant.                 *)
LEMMA CallStepSagaInv ==
    ASSUME SagaInv, NEW c \in Callers, CallStep(c), UNCHANGED sagaVars
    PROVE  SagaInv'
  <1>1. InventoryInv'
    BY CallStepInv DEF SagaInv
  <1>2. SagaTypeOK'
    BY DEF sagaVars, SagaInv, SagaTypeOK
  <1>3. UNCHANGED <<worker, sweeper>>
    BY DEF sagaVars
  <1>4. CASE c \in Workers
    <2>1. PICK p : p = worker[c]
      OBVIOUS
    <2>2. c \notin Sweepers /\ Relies(c, p)
      BY <1>4, <2>1, WorkerFacts
    <2>3. /\ Keeps /\ StatusMatchesLedger' /\ StatusMatchesCharge' /\ ChargesAreOwed'
          /\ Relies(c, p)' /\ \A d \in Callers \ {c} : call'[d] = call[d]
      BY <2>2, CallStepKeeps
    <2>4. Relies(c, worker[c])'
      BY <1>3, <2>1, <2>3 DEF Relies
    <2>5. ActorsRely'
      BY <1>3, <2>2, <2>3, <2>4, OthersRely DEF SagaInv
    <2> QED BY <1>1, <1>2, <2>3, <2>5 DEF SagaInv
  <1>5. CASE c \in Sweepers
    <2>1. PICK p : p = sweeper[c]
      OBVIOUS
    <2>2. c \notin Workers /\ Relies(c, p)
      BY <1>5, <2>1, SweeperFacts
    <2>3. /\ Keeps /\ StatusMatchesLedger' /\ StatusMatchesCharge' /\ ChargesAreOwed'
          /\ Relies(c, p)' /\ \A d \in Callers \ {c} : call'[d] = call[d]
      BY <2>2, CallStepKeeps
    <2>4. Relies(c, sweeper[c])'
      BY <1>3, <2>1, <2>3 DEF Relies
    <2>5. ActorsRely'
      BY <1>3, <2>2, <2>3, <2>4, OthersRely DEF SagaInv
    <2> QED BY <1>1, <1>2, <2>3, <2>5 DEF SagaInv
  <1> QED BY <1>4, <1>5, OrderSagaAssumption

-----------------------------------------------------------------------------
(* The steps of the sweeper.                                               *)

(* A step that writes no document: Claim and AskProvider.                  *)
LEMMA SweeperLooks ==
    ASSUME SagaInv, NEW s \in Sweepers, NEW pc \in SweeperPc, NEW o \in Orders,
           sweeper' = [sweeper EXCEPT ![s] = [pc |-> pc, order |-> o]],
           InventoryInv', \A d \in Callers \ {s} : call'[d] = call[d],
           UNCHANGED <<shelfVars, order, charge, authorizing, customers, deliveries, faults, worker>>,
           Relies(s, [pc |-> pc, order |-> o])'
    PROVE  SagaInv'
  <1>1. UNCHANGED movements
    BY DEF shelfVars
  <1>2. StatusMatchesLedger' /\ StatusMatchesCharge' /\ Keeps
    BY <1>1, SameDocuments DEF SagaInv
  <1>3. ChargesAreOwed'
    BY DEF SagaInv, ChargesAreOwed, PastPending
  <1>4. order' \in [Orders -> OrderDocument] /\ faults' \in 0..MaxFaults
    BY DEF SagaInv, SagaTypeOK
  <1> QED BY <1>2, <1>3, <1>4, SweeperMoves

(* A sweeper knows of the order it claims what its status implies.         *)
LEMMA ClaimInv ==
    ASSUME SagaInv, NEW s \in Sweepers, NEW o \in Orders, Claim(s, o)
    PROVE  SagaInv'
  <1>0. s \in Callers /\ call[s].op = "idle"
    BY SweeperFacts DEF Claim, Relies
  <1>1. /\ UNCHANGED <<shelfVars, order, charge, authorizing, customers, deliveries, faults, worker>>
        /\ UNCHANGED movements
    BY DEF Claim, shelfVars
  <1>2. ASSUME NEW pc \in {"fail", "ask", "complete"}, UNCHANGED call,
               sweeper' = [sweeper EXCEPT ![s] = [pc |-> pc, order |-> o]],
               pc # "fail" => PastPending(o)
        PROVE  SagaInv'
    <2>1. InventoryInv'
      BY <1>1, <1>2, SameInventory DEF inventoryVars, SagaInv
    <2>2. Relies(s, [pc |-> pc, order |-> o])'
      BY <1>0, <1>1, <1>2 DEF Relies, PastPending
    <2> QED BY <1>1, <1>2, <2>1, <2>2, SweeperLooks DEF SweeperPc
  <1>3. CASE /\ order[o].status = "COMPENSATING" /\ Calls(s, ReleaseForOrder(o))
             /\ sweeper' = [sweeper EXCEPT ![s] = [pc |-> "compensating", order |-> o]]
    <2>1. /\ InventoryInv' /\ call'[s].op = "release" /\ call'[s].order = o
          /\ \A d \in Callers \ {s} : call'[d] = call[d]
      BY <1>0, <1>1, <1>3, CallsEffect DEF SagaInv
    <2>2. Relies(s, [pc |-> "compensating", order |-> o])'
      BY <1>1, <1>3, <2>1 DEF Relies, Unwinding
    <2> QED BY <1>1, <1>3, <2>1, <2>2, SweeperLooks DEF SweeperPc
  <1> QED BY <1>2, <1>3 DEF Claim, PastPending

(* What a sweeper learns from the provider stays true: a charge is final.  *)
LEMMA AskProviderInv ==
    ASSUME SagaInv, NEW s \in Sweepers, AskProvider(s)
    PROVE  SagaInv'
  <1>0. PICK o \in Orders : /\ o = sweeper[s].order /\ s \in Callers
                            /\ call[s].op = "idle" /\ PastPending(o)
    BY SweeperFacts DEF AskProvider, Relies
  <1>1. /\ UNCHANGED <<inventoryVars, shelfVars, call>>
        /\ UNCHANGED <<order, charge, authorizing, customers, deliveries, faults, worker>>
    BY DEF AskProvider, inventoryVars
  <1>2. InventoryInv'
    BY <1>1, SameInventory DEF SagaInv
  <1>3. PICK pc \in {"advance", "unwind_declined", "unwind_no_charge"} :
            /\ SweeperGoes(s, pc)
            /\ pc = "advance" => charge[o] = "succeeded"
            /\ pc = "unwind_declined" => charge[o] = "declined"
    BY <1>0 DEF AskProvider
  <1>4. Relies(s, [pc |-> pc, order |-> o])'
    BY <1>0, <1>1, <1>3 DEF Relies, PastPending
  <1> QED BY <1>0, <1>1, <1>2, <1>3, <1>4, SweeperLooks, SweeperGoesRecord DEF SweeperPc

(* A transition by the sweeper, and where it leaves it.                    *)
LEMMA SweeperTransits ==
    ASSUME SagaInv, NEW s \in Sweepers, NEW pc \in SweeperPc, NEW x \in Orders \cup {NoOrder},
           NEW o \in Orders, NEW from, NEW document,
           Transition(o, from, document), Edge(from, document.status), Justified(o, document),
           sweeper' = [sweeper EXCEPT ![s] = [pc |-> pc, order |-> x]],
           InventoryInv',
           UNCHANGED <<shelfVars, charge, authorizing, customers, deliveries, faults, worker>>,
           \A d \in Callers \ {s} : call'[d] = call[d],
           Relies(s, [pc |-> pc, order |-> x])'
    PROVE  SagaInv'
  <1>1. /\ order' \in [Orders -> OrderDocument]
        /\ StatusMatchesLedger' /\ StatusMatchesCharge' /\ ChargesAreOwed' /\ Keeps
    BY TransitionInv DEF SagaInv
  <1>2. faults' \in 0..MaxFaults
    BY DEF SagaInv, SagaTypeOK
  <1> QED BY <1>1, <1>2, SweeperMoves

(* It stops there, with no call under way ...                              *)
LEMMA SweeperTransitsAndStops ==
    ASSUME SagaInv, NEW s \in Sweepers, NEW o \in Orders, NEW from, NEW document,
           Transition(o, from, document), Edge(from, document.status), Justified(o, document),
           SweeperEnds(s), HangsUp(s) \/ (UNCHANGED call /\ call[s].op = "idle"),
           UNCHANGED <<shelfVars, charge, authorizing, customers, deliveries, faults, worker>>
    PROVE  SagaInv'
  <1>0. s \in Callers
    BY SweeperFacts
  <1>1. /\ InventoryInv' /\ call'[s].op = "idle"
        /\ \A d \in Callers \ {s} : call'[d] = call[d]
    <2>1. CASE HangsUp(s)
      BY <1>0, <2>1, CallsEffect DEF SagaInv
    <2>2. CASE UNCHANGED call /\ call[s].op = "idle"
      BY <2>2, SameInventory DEF inventoryVars, SagaInv
    <2> QED BY <2>1, <2>2
  <1>2. Relies(s, [pc |-> "idle", order |-> NoOrder])'
    BY <1>1 DEF Relies
  <1>3. sweeper' = [sweeper EXCEPT ![s] = [pc |-> "idle", order |-> NoOrder]] /\ "idle" \in SweeperPc
    BY DEF SweeperEnds, Idle, SweeperPc
  <1> QED BY <1>1, <1>2, <1>3, SweeperTransits

(* ... or goes on to release, having made the transition.                  *)
LEMMA SweeperTransitsAndReleases ==
    ASSUME SagaInv, NEW s \in Sweepers, NEW o \in Orders, o = sweeper[s].order,
           NEW from, NEW document, NEW pc \in {"compensating", "releasing"},
           Transition(o, from, document), Edge(from, document.status), Justified(o, document),
           order[o].status = from,
           pc = "compensating" => document.status = "COMPENSATING",
           pc = "releasing" => document.status = "FAILED",
           SweeperGoes(s, pc), Calls(s, ReleaseForOrder(o)),
           UNCHANGED <<shelfVars, charge, authorizing, customers, deliveries, faults, worker>>
    PROVE  SagaInv'
  <1>1. /\ s \in Callers
        /\ InventoryInv' /\ call'[s].op = "release" /\ call'[s].order = o
        /\ \A d \in Callers \ {s} : call'[d] = call[d]
    BY SweeperFacts, CallsEffect DEF SagaInv
  <1>2. order'[o] = document
    BY TransitionInv DEF SagaInv
  <1>3. Relies(s, [pc |-> pc, order |-> o])'
    BY <1>1, <1>2 DEF Relies, Unwinding
  <1>4. sweeper' = [sweeper EXCEPT ![s] = [pc |-> pc, order |-> o]] /\ pc \in SweeperPc
    BY SweeperGoesRecord DEF SweeperPc
  <1> QED BY <1>1, <1>3, <1>4, SweeperTransits

(* A sweeper fails an order only if it is still PENDING.                   *)
LEMMA TimeOutInv ==
    ASSUME SagaInv, NEW s \in Sweepers, TimeOut(s)
    PROVE  SagaInv'
  <1>0. PICK o \in Orders : o = sweeper[s].order /\ call[s].op = "idle"
    BY SweeperFacts DEF TimeOut, Relies
  <1> DEFINE document == FailedDocument(o, "RECONCILED_TIMEOUT")
  <1>1. order[o].paymentResult \in {"none", charge[o]} /\ SagaTypeOK
    BY DEF SagaInv, StatusMatchesCharge
  <1>2. /\ Edge("PENDING", document.status) /\ Justified(o, document) /\ document.status = "FAILED"
    BY <1>1, DocumentType DEF Edge, Justified, FailureCode
  <1>3. /\ Transition(o, "PENDING", document)
        /\ UNCHANGED <<shelfVars, charge, authorizing, customers, deliveries, faults, worker>>
    BY <1>0 DEF TimeOut
  <1>4. CASE order[o].status = "PENDING"
    <2>1. SweeperGoes(s, "releasing") /\ Calls(s, ReleaseForOrder(o))
      BY <1>0, <1>4 DEF TimeOut
    <2> QED BY <1>0, <1>2, <1>3, <1>4, <2>1, SweeperTransitsAndReleases
  <1>5. CASE order[o].status # "PENDING"
    <2>1. SweeperEnds(s) /\ UNCHANGED call
      BY <1>0, <1>5 DEF TimeOut
    <2> QED BY <1>0, <1>2, <1>3, <2>1, SweeperTransitsAndStops
  <1> QED BY <1>4, <1>5

(* A sweeper that found a charge records it.                               *)
LEMMA ReconcileInv ==
    ASSUME SagaInv, NEW s \in Sweepers, Reconcile(s)
    PROVE  SagaInv'
  <1>0. PICK o \in Orders : /\ o = sweeper[s].order /\ s \in Callers /\ call[s].op = "idle"
                            /\ charge[o] = "succeeded" /\ PastPending(o)
    BY SweeperFacts DEF Reconcile, Relies
  <1>1. SagaTypeOK
    BY DEF SagaInv
  <1>2. /\ Edge("STOCK_RESERVED", AuthorizedDocument(o).status) /\ Justified(o, AuthorizedDocument(o))
    BY <1>0, <1>1, DocumentType DEF Edge, Justified
  <1>3. /\ Transition(o, "STOCK_RESERVED", AuthorizedDocument(o))
        /\ UNCHANGED <<inventoryVars, shelfVars, call>>
        /\ UNCHANGED <<charge, authorizing, customers, deliveries, faults, worker>>
    BY <1>0 DEF Reconcile, inventoryVars
  <1>4. CASE SweeperGoes(s, "complete")
    <2>1. InventoryInv'
      BY <1>3, SameInventory DEF SagaInv
    <2>2. Keeps
      BY <1>2, <1>3, TransitionInv DEF SagaInv
    <2>3. Relies(s, [pc |-> "complete", order |-> o])'
      BY <1>0, <1>3, <2>2 DEF Relies, Keeps
    <2> QED BY <1>0, <1>2, <1>3, <1>4, <2>1, <2>3, SweeperGoesRecord, SweeperTransits DEF SweeperPc
  <1>5. CASE SweeperEnds(s)
    BY <1>0, <1>2, <1>3, <1>5, SweeperTransitsAndStops
  <1> QED BY <1>4, <1>5 DEF Reconcile

(* A sweeper that found a decline, or no record, unwinds the order.        *)
LEMMA UnwindInv ==
    ASSUME SagaInv, NEW s \in Sweepers, Unwind(s)
    PROVE  SagaInv'
  <1>0. PICK o \in Orders : /\ o = sweeper[s].order /\ call[s].op = "idle"
                            /\ sweeper[s].pc = "unwind_declined" => charge[o] = "declined"
    BY SweeperFacts DEF Unwind, Relies
  <1>1. order[o].paymentResult \in {"none", charge[o]} /\ SagaTypeOK
    BY DEF SagaInv, StatusMatchesCharge
  <1>2. order[o].paymentResult \in Charges
    BY <1>1 DEF SagaTypeOK, OrderDocument
  <1>3. PICK code \in FailureCode, result \in Charges :
            /\ Transition(o, "STOCK_RESERVED", CompensatingDocument(o, code, result))
            /\ result \in {"none", charge[o]}
    BY <1>0, <1>1, <1>2 DEF Unwind, FailureCode, Charges
  <1> DEFINE document == CompensatingDocument(o, code, result)
  <1>4. Edge("STOCK_RESERVED", document.status) /\ Justified(o, document) /\ document.status = "COMPENSATING"
    BY <1>1, <1>3, DocumentType DEF Edge, Justified
  <1>5. UNCHANGED <<shelfVars, charge, authorizing, customers, deliveries, faults, worker>>
    BY DEF Unwind
  <1>6. CASE order[o].status = "STOCK_RESERVED"
    <2>1. SweeperGoes(s, "compensating") /\ Calls(s, ReleaseForOrder(o))
      BY <1>0, <1>6 DEF Unwind
    <2> QED BY <1>0, <1>3, <1>4, <1>5, <1>6, <2>1, SweeperTransitsAndReleases
  <1>7. CASE order[o].status # "STOCK_RESERVED"
    <2>1. SweeperEnds(s) /\ UNCHANGED call
      BY <1>0, <1>7 DEF Unwind
    <2> QED BY <1>0, <1>3, <1>4, <1>5, <2>1, SweeperTransitsAndStops
  <1> QED BY <1>6, <1>7

(* A sweeper completes a paid order.                                       *)
LEMMA SweepCompleteInv ==
    ASSUME SagaInv, NEW s \in Sweepers, SweepComplete(s)
    PROVE  SagaInv'
  <1>0. PICK o \in Orders : o = sweeper[s].order /\ call[s].op = "idle"
    BY SweeperFacts DEF SweepComplete, Relies
  <1>1. order[o].paymentResult \in {"none", charge[o]} /\ SagaTypeOK
    BY DEF SagaInv, StatusMatchesCharge
  <1>2. /\ Edge("PAYMENT_AUTHORIZED", Advanced(o, "COMPLETED").status)
        /\ Justified(o, Advanced(o, "COMPLETED"))
    BY <1>1, DocumentType DEF Edge, Justified, OrderStatus
  <1>3. /\ Transition(o, "PAYMENT_AUTHORIZED", Advanced(o, "COMPLETED")) /\ SweeperEnds(s)
        /\ UNCHANGED <<shelfVars, call, charge, authorizing, customers, deliveries, faults, worker>>
    BY <1>0 DEF SweepComplete, inventoryVars
  <1> QED BY <1>0, <1>2, <1>3, SweeperTransitsAndStops

(* A sweeper settles an unwound order after its release.                   *)
LEMMA SettleInv ==
    ASSUME SagaInv, NEW s \in Sweepers, Settle(s)
    PROVE  SagaInv'
  <1>0. PICK o \in Orders : o = sweeper[s].order /\ Released(o)
    BY SweeperFacts DEF Settle, Relies
  <1>1. order[o].paymentResult \in {"none", charge[o]} /\ SagaTypeOK
    BY DEF SagaInv, StatusMatchesCharge
  <1>2. /\ Edge("COMPENSATING", Advanced(o, "COMPENSATED").status)
        /\ Justified(o, Advanced(o, "COMPENSATED"))
    BY <1>0, <1>1, DocumentType DEF Edge, Justified, OrderStatus
  <1>3. /\ Transition(o, "COMPENSATING", Advanced(o, "COMPENSATED")) /\ SweeperEnds(s) /\ HangsUp(s)
        /\ UNCHANGED <<shelfVars, charge, authorizing, customers, deliveries, faults, worker>>
    BY <1>0 DEF Settle
  <1> QED BY <1>2, <1>3, SweeperTransitsAndStops

(* TimedOutReleased and SweeperFault: the sweeper is done with the order.  *)
LEMMA SweeperStops ==
    ASSUME SagaInv, NEW s \in Sweepers, SweeperEnds(s), HangsUp(s), faults' \in 0..MaxFaults,
           UNCHANGED <<shelfVars, order, charge, authorizing, customers, deliveries, worker>>
    PROVE  SagaInv'
  <1>0. s \in Callers /\ UNCHANGED movements
    BY SweeperFacts DEF shelfVars
  <1>1. /\ InventoryInv' /\ call'[s].op = "idle"
        /\ \A d \in Callers \ {s} : call'[d] = call[d]
    BY <1>0, CallsEffect DEF SagaInv
  <1>2. StatusMatchesLedger' /\ StatusMatchesCharge' /\ Keeps
    BY <1>0, SameDocuments DEF SagaInv
  <1>3. ChargesAreOwed' /\ order' \in [Orders -> OrderDocument]
    BY DEF SagaInv, SagaTypeOK, ChargesAreOwed, PastPending
  <1>4. Relies(s, [pc |-> "idle", order |-> NoOrder])'
    BY <1>1 DEF Relies
  <1>5. sweeper' = [sweeper EXCEPT ![s] = [pc |-> "idle", order |-> NoOrder]] /\ "idle" \in SweeperPc
    BY DEF SweeperEnds, Idle, SweeperPc
  <1> QED BY <1>1, <1>2, <1>3, <1>4, <1>5, SweeperMoves

(* A sweeper that is done, or throws, leaves its order to others.          *)
LEMMA SweeperEndsInv ==
    ASSUME SagaInv, NEW s \in Sweepers, TimedOutReleased(s) \/ SweeperFault(s)
    PROVE  SagaInv'
  <1>1. faults' \in 0..MaxFaults
    BY OrderSagaAssumption DEF TimedOutReleased, SweeperFault, SagaInv, SagaTypeOK
  <1> QED BY <1>1, SweeperStops DEF TimedOutReleased, SweeperFault

-----------------------------------------------------------------------------
(* The provider, the customers service and the administration.             *)

(* A step that leaves the actors alone, and what they rely on as it was.   *)
LEMMA SurroundingsMove ==
    ASSUME SagaInv, Keeps, InventoryInv', StatusMatchesLedger', StatusMatchesCharge', ChargesAreOwed',
           UNCHANGED <<call, worker, sweeper>>, SagaTypeOK'
    PROVE  SagaInv'
  <1>1. ASSUME NEW w \in Workers PROVE Relies(w, worker[w])'
    BY WorkerFacts DEF Keeps, Relies
  <1>2. ASSUME NEW s \in Sweepers PROVE Relies(s, sweeper[s])'
    BY SweeperFacts DEF Keeps, Relies
  <1> QED BY <1>1, <1>2 DEF SagaInv, ActorsRely

(* The provider decides on an authorization that arrives.                  *)
LEMMA ChargeInv ==
    ASSUME SagaInv, NEW o \in Orders, Charge(o)
    PROVE  SagaInv'
  <1>1. /\ UNCHANGED <<movements, order, call, worker, sweeper, customers, deliveries, faults>>
        /\ authorizing' = authorizing \ {o} /\ charge[o] = "none" /\ PastPending(o)
    BY DEF Charge, inventoryVars, shelfVars, SagaInv, ChargesAreOwed
  <1>2. PICK result \in {"succeeded", "declined"} : charge' = [charge EXCEPT ![o] = result]
    BY DEF Charge
  <1>3. /\ charge' \in [Orders -> Charges] /\ charge'[o] = result
        /\ \A x \in Orders \ {o} : charge'[x] = charge[x]
    BY <1>2 DEF SagaInv, SagaTypeOK, Charges
  <1>4. SagaTypeOK'
    BY <1>1, <1>3 DEF SagaInv, SagaTypeOK
  <1>5. InventoryInv'
    BY SameInventory DEF Charge, SagaInv
  <1>6. /\ \A x \in Orders : Released(x)' <=> Released(x)
        /\ \A x \in Orders : Reserved(x)' <=> Reserved(x)
        /\ \A x \in Orders : \A w : Row(x, "RESERVE", w) \in movements' <=> ReservedAt(x, w)
    BY <1>1 DEF Released, ReleasedAt, Reserved, ReservedAt
  <1>7. Keeps
    BY <1>1, <1>3, <1>6 DEF Keeps, PastPending, Unwinding
  <1>8. StatusMatchesLedger'
    BY <1>1, <1>6 DEF SagaInv, StatusMatchesLedger, ReservedAt, Row
  <1>9. Reserved(o)
    <2>1. ReservedAt(o, order[o].warehouseId)
      BY <1>1 DEF SagaInv, StatusMatchesLedger, PastPending
    <2> QED BY <2>1 DEF Reserved, ReservedAt, Row, SagaInv, InventoryInv, InventoryTypeOK, Movement
  <1>10. StatusMatchesCharge'
    <2>1. order[o].paymentResult = "none" /\ order[o].status \notin {"PAYMENT_AUTHORIZED", "COMPLETED"}
      BY <1>1 DEF SagaInv, StatusMatchesCharge
    <2> QED BY <1>1, <1>3, <1>6, <1>9, <2>1 DEF SagaInv, StatusMatchesCharge, PastPending
  <1>11. ChargesAreOwed'
    BY <1>1 DEF SagaInv, ChargesAreOwed, PastPending
  <1> QED BY <1>1, <1>4, <1>5, <1>7, <1>8, <1>10, <1>11, SurroundingsMove

(* The deletion of a customer touches no order.                            *)
LEMMA DeleteCustomerInv ==
    ASSUME SagaInv, NEW o \in Orders, DeleteCustomer(o)
    PROVE  SagaInv'
  <1>1. UNCHANGED <<movements, order, charge, authorizing, call, worker, sweeper>>
    BY DEF DeleteCustomer, inventoryVars, shelfVars
  <1>2. InventoryInv'
    BY SameInventory DEF DeleteCustomer, SagaInv
  <1>3. StatusMatchesLedger' /\ StatusMatchesCharge' /\ Keeps
    BY <1>1, SameDocuments DEF SagaInv
  <1>4. ChargesAreOwed' /\ SagaTypeOK'
    BY <1>1 DEF DeleteCustomer, SagaInv, SagaTypeOK, ChargesAreOwed, PastPending
  <1> QED BY <1>1, <1>2, <1>3, <1>4, SurroundingsMove

(* Restocking and the removal of a warehouse touch no order.               *)
LEMMA AdministerSagaInv ==
    ASSUME SagaInv, Administer, UNCHANGED sagaVars
    PROVE  SagaInv'
  <1>1. UNCHANGED <<movements, order, charge, authorizing, call, worker, sweeper>>
    BY DEF Administer, AddStock, RemoveWarehouse, sagaVars
  <1>2. InventoryInv'
    BY AdministerInv DEF SagaInv
  <1>3. StatusMatchesLedger' /\ StatusMatchesCharge' /\ Keeps
    BY <1>1, SameDocuments DEF SagaInv
  <1>4. ChargesAreOwed' /\ SagaTypeOK'
    BY <1>1 DEF sagaVars, SagaInv, SagaTypeOK, ChargesAreOwed, PastPending
  <1> QED BY <1>1, <1>2, <1>3, <1>4, SurroundingsMove

-----------------------------------------------------------------------------
(* The invariant, and what follows from it.                                *)

(* Orders begin PENDING, unreserved and uncharged.                         *)
LEMMA SagaInitInv == SagaInit => SagaInv
  <1> SUFFICES ASSUME SagaInit PROVE SagaInv
    OBVIOUS
  <1>1. InventoryInv /\ movements = {} /\ call = [c \in Callers |-> NoCall]
    BY InventoryInitInv DEF SagaInit, InventoryInit
  <1>2. SagaTypeOK
    BY OrderSagaAssumption DEF SagaInit, SagaTypeOK, OrderDocument, OrderStatus, Charges, FailureCode,
          Idle, WorkerPc, SweeperPc
  <1>3. StatusMatchesLedger /\ StatusMatchesCharge /\ ChargesAreOwed
    BY <1>1 DEF SagaInit, StatusMatchesLedger, StatusMatchesCharge, ChargesAreOwed, Released, ReleasedAt
  <1>4. \A c \in Callers : call[c].op = "idle"
    BY <1>1 DEF NoCall
  <1>5. ActorsRely
    BY <1>4, OrderSagaAssumption DEF SagaInit, ActorsRely, Relies, Idle
  <1> QED BY <1>1, <1>2, <1>3, <1>5 DEF SagaInv

(* Every step of the saga keeps the invariant.                             *)
LEMMA SagaStepInv ==
    ASSUME SagaInv, SagaNext
    PROVE  SagaInv'
  <1>1. ASSUME NEW w \in Workers, WorkerStep(w) PROVE SagaInv'
    BY <1>1, ReadInv, ReserveInv, CustomerGoneInv, RequestChargeInv, AuthorizedInv, CompleteInv,
       CompensateInv, FailedReleasedInv, CallStepSagaInv, OrderSagaAssumption DEF WorkerStep
  <1>2. ASSUME NEW s \in Sweepers, SweeperStep(s) PROVE SagaInv'
    BY <1>2, ClaimInv, TimeOutInv, AskProviderInv, ReconcileInv, UnwindInv, SweepCompleteInv,
       SettleInv, SweeperEndsInv, CallStepSagaInv, OrderSagaAssumption DEF SweeperStep
  <1> QED
    BY <1>1, <1>2, DeliverInv, WorkerFaultInv, SweeperEndsInv, ChargeInv, DeleteCustomerInv,
       AdministerSagaInv DEF SagaNext

(* All of the invariant, of any instance of the saga.                      *)
THEOREM SagaInvariant == SagaSpec => []SagaInv
  <1>1. ASSUME SagaInv, UNCHANGED vars PROVE SagaInv'
    <2>1. UNCHANGED <<movements, order, charge, authorizing, call, worker, sweeper>> /\ UNCHANGED inventoryVars
      BY <1>1 DEF vars, inventoryVars, shelfVars, sagaVars
    <2>2. InventoryInv'
      BY <1>1, <2>1, SameInventory DEF SagaInv
    <2>3. StatusMatchesLedger' /\ StatusMatchesCharge' /\ Keeps
      BY <1>1, <2>1, SameDocuments DEF SagaInv
    <2>4. ChargesAreOwed' /\ SagaTypeOK'
      BY <1>1, <2>1 DEF vars, sagaVars, SagaInv, SagaTypeOK, ChargesAreOwed, PastPending
    <2> QED BY <1>1, <2>1, <2>2, <2>3, <2>4, SurroundingsMove
  <1> QED BY <1>1, SagaInitInv, SagaStepInv, PTL DEF SagaSpec

(* Every variable of the saga keeps its type.                              *)
THEOREM SagaTypeCorrect == SagaSpec => []SagaTypeOK
  BY SagaInvariant, PTL DEF SagaInv

(* Under the saga too, no quantity is negative and the ledger is sound.    *)
THEOREM SagaInventorySafe == SagaSpec => [](InventoryTypeOK /\ LedgerConsistent)
  BY SagaInvariant, PTL DEF SagaInv, InventoryInv

(* The document never disagrees with the ledger: whatever is past PENDING  *)
(* and has not FAILED is reserved where it says, COMPENSATED is released,  *)
(* and an order that was or may be served is never released.               *)
THEOREM DocumentsMatchLedger == SagaSpec => []StatusMatchesLedger
  BY SagaInvariant, PTL DEF SagaInv

(* The document never disagrees with the provider: nothing is served that  *)
(* was not paid, and nothing that FAILED is ever charged.                  *)
THEOREM DocumentsMatchCharge == SagaSpec => []StatusMatchesCharge
  BY SagaInvariant, PTL DEF SagaInv

(***************************************************************************)
(* The saga as a client of the inventory: workers and sweepers begin calls,*)
(* take their answers or leave them, and do nothing else to a shelf. So    *)
(* whatever the service promises to any callers it keeps under the saga.   *)
(***************************************************************************)
IdleCallsAreUnset == \A c \in Callers : call[c].op = "idle" => call[c] = NoCall

ClientInv == SagaInv /\ IdleCallsAreUnset

(* A call that has ended is taken off altogether.                          *)
LEMMA IdleCallsStayUnset ==
    ASSUME InventoryTypeOK, IdleCallsAreUnset, [InventoryNext]_inventoryVars
    PROVE  IdleCallsAreUnset'
  <1>0. call \in [Callers -> Call]
    BY DEF InventoryTypeOK
  <1>1. ASSUME NEW c \in Callers, NEW request, call' = [call EXCEPT ![c] = request],
               request.op = "idle" => request = NoCall
        PROVE  IdleCallsAreUnset'
    BY <1>0, <1>1 DEF IdleCallsAreUnset
  <1>2. ASSUME NEW c \in Callers, NEW outcome, NEW w, Answer(c, outcome, w)
        PROVE  IdleCallsAreUnset'
    BY <1>1, <1>2 DEF Answer, NoCall
  <1>3. ASSUME NEW c \in Callers, NEW cands, Continue(c, cands)
        PROVE  IdleCallsAreUnset'
    <2>1. CASE call' = [call EXCEPT ![c].op = "try", ![c].candidates = cands]
      BY <1>0, <2>1 DEF IdleCallsAreUnset, Call
    <2> QED BY <1>2, <1>3, <2>1 DEF Continue
  <1>4. ASSUME NEW c \in Callers, CallStep(c)
        PROVE  IdleCallsAreUnset'
    <2>1. CASE FindPrior(c)
      <3>1. CASE call' = [call EXCEPT ![c].op = "rank"]
        BY <1>0, <3>1 DEF IdleCallsAreUnset, Call
      <3> QED BY <1>2, <2>1, <3>1 DEF FindPrior
    <2>2. CASE FindCandidateWarehouses(c)
      BY <1>3, <2>2 DEF FindCandidateWarehouses
    <2>3. ASSUME NEW w \in Warehouses, TryReserveAt(c, w) PROVE IdleCallsAreUnset'
      BY <1>2, <1>3, <2>3 DEF TryReserveAt
    <2>4. CASE Release(c)
      BY <1>2, <2>4 DEF Release
    <2> QED BY <1>4, <2>1, <2>2, <2>3, <2>4 DEF CallStep
  <1>5. ASSUME NEW c \in Callers, Begin(c)
        PROVE  IdleCallsAreUnset'
    BY <1>1, <1>5 DEF Begin, ReserveForOrder, ReleaseForOrder, NoCall
  <1>6. ASSUME NEW c \in Callers, Return(c) \/ Interrupt(c)
        PROVE  IdleCallsAreUnset'
    BY <1>1, <1>6 DEF Return, Interrupt
  <1>7. CASE call' = call
    BY <1>7 DEF IdleCallsAreUnset
  <1>8. Administer => call' = call
    BY DEF Administer, AddStock, RemoveWarehouse
  <1> QED BY <1>4, <1>5, <1>6, <1>7, <1>8 DEF InventoryNext, inventoryVars

(* What a handler does to its own call, as a step of the service.          *)
LEMMA HandlersCall ==
    ASSUME ClientInv, NEW c \in Callers, UNCHANGED shelfVars
    PROVE  /\ \A o \in Orders : call[c].op = "idle"
                 /\ (Calls(c, ReserveForOrder(o)) \/ Calls(c, ReleaseForOrder(o))) => InventoryNext
           /\ HangsUp(c) => [InventoryNext]_inventoryVars
           /\ UNCHANGED call => [InventoryNext]_inventoryVars
  <1>1. ASSUME NEW o \in Orders, call[c].op = "idle",
               Calls(c, ReserveForOrder(o)) \/ Calls(c, ReleaseForOrder(o))
        PROVE  InventoryNext
    BY <1>1 DEF Calls, Begin, InventoryNext
  <1>2. ASSUME HangsUp(c)
        PROVE  [InventoryNext]_inventoryVars
    <2>1. CASE call[c].op = "idle"
      <3>1. call \in [Callers -> Call] /\ call[c] = NoCall
        BY <2>1 DEF ClientInv, IdleCallsAreUnset, SagaInv, InventoryInv, InventoryTypeOK
      <3>2. [call EXCEPT ![c] = NoCall] = call
        BY <3>1
      <3> QED BY <1>2, <3>2 DEF HangsUp, inventoryVars
    <2>2. CASE call[c].op # "idle"
      BY <1>2, <2>2 DEF HangsUp, Interrupt, InventoryNext
    <2> QED BY <2>1, <2>2
  <1> QED BY <1>1, <1>2 DEF inventoryVars

(* What a worker does is a step of the service, or nothing to it.          *)
LEMMA WorkersAreClients ==
    ASSUME ClientInv, NEW w \in Workers,
           WorkerStep(w) \/ WorkerFault(w) \/ \E o \in Orders : Deliver(w, o)
    PROVE  [InventoryNext]_inventoryVars
  <1> DEFINE o == worker[w].order
  <1>1. w \in Callers /\ (worker[w].pc # "idle" => o \in Orders)
        /\ (worker[w].pc = "read" => call[w].op = "idle")
    BY WorkerFacts DEF ClientInv, Relies
  <1>2. CASE ReadTerminal(w) \/ Read(w)
    <2>1. UNCHANGED shelfVars /\ worker[w].pc = "read"
          /\ (UNCHANGED call \/ Calls(w, ReserveForOrder(o)) \/ Calls(w, ReleaseForOrder(o)))
      BY <1>2 DEF ReadTerminal, Read
    <2> QED BY <1>1, <2>1, HandlersCall
  <1>3. CASE Reserve(w) \/ Compensate(w) \/ FailedReleased(w) \/ WorkerFault(w)
    <2>1. UNCHANGED shelfVars /\ HangsUp(w)
      BY <1>3 DEF Reserve, Compensate, FailedReleased, WorkerFault
    <2> QED BY <1>1, <2>1, HandlersCall
  <1>4. CASE CustomerGone(w) \/ RequestCharge(w) \/ Authorized(w) \/ Complete(w)
             \/ \E p \in Orders : Deliver(w, p)
    BY <1>4 DEF CustomerGone, RequestCharge, Authorized, Complete, Deliver
  <1>5. CASE CallStep(w)
    BY <1>1, <1>5 DEF InventoryNext
  <1> QED BY <1>2, <1>3, <1>4, <1>5 DEF WorkerStep

(* The same of the sweepers, which make no calls but releases.            *)
LEMMA SweepersAreClients ==
    ASSUME ClientInv, NEW s \in Sweepers, SweeperStep(s) \/ SweeperFault(s)
    PROVE  [InventoryNext]_inventoryVars
  <1>1. s \in Callers /\ (sweeper[s].pc # "idle" => sweeper[s].order \in Orders)
        /\ (sweeper[s].pc \in {"idle", "fail", "unwind_declined", "unwind_no_charge"} => call[s].op = "idle")
    BY SweeperFacts DEF ClientInv, Relies
  <1>2. ASSUME NEW o \in Orders, Claim(s, o)
        PROVE  [InventoryNext]_inventoryVars
    <2>1. UNCHANGED shelfVars /\ sweeper[s].pc = "idle" /\ (UNCHANGED call \/ Calls(s, ReleaseForOrder(o)))
      BY <1>2 DEF Claim
    <2> QED BY <1>1, <2>1, HandlersCall
  <1>3. CASE TimeOut(s) \/ Unwind(s)
    <2>1. /\ UNCHANGED shelfVars /\ sweeper[s].pc \in {"fail", "unwind_declined", "unwind_no_charge"}
          /\ UNCHANGED call \/ Calls(s, ReleaseForOrder(sweeper[s].order))
      BY <1>3 DEF TimeOut, Unwind
    <2> QED BY <1>1, <2>1, HandlersCall
  <1>4. CASE Settle(s) \/ TimedOutReleased(s) \/ SweeperFault(s)
    <2>1. UNCHANGED shelfVars /\ HangsUp(s)
      BY <1>4 DEF Settle, TimedOutReleased, SweeperFault
    <2> QED BY <1>1, <2>1, HandlersCall
  <1>5. CASE AskProvider(s) \/ Reconcile(s) \/ SweepComplete(s)
    BY <1>5 DEF AskProvider, Reconcile, SweepComplete
  <1>6. CASE CallStep(s)
    BY <1>1, <1>6 DEF InventoryNext
  <1> QED BY <1>2, <1>3, <1>4, <1>5, <1>6 DEF SweeperStep

(* Every behaviour of the saga is one of the inventory service, as far as  *)
(* shelves, ledger and calls go: its callers are the workers and sweepers. *)
THEOREM SagaIsAClient == SagaSpec => InventorySpec
  <1>1. SagaInit => InventoryInit /\ IdleCallsAreUnset
    BY DEF SagaInit, InventoryInit, IdleCallsAreUnset
  <1>2. ClientInv /\ [SagaNext]_vars => [InventoryNext]_inventoryVars
    <2> SUFFICES ASSUME ClientInv, [SagaNext]_vars PROVE [InventoryNext]_inventoryVars
      OBVIOUS
    <2>1. ASSUME NEW o \in Orders, Charge(o) \/ DeleteCustomer(o)
          PROVE  [InventoryNext]_inventoryVars
      BY <2>1 DEF Charge, DeleteCustomer
    <2>2. UNCHANGED vars => UNCHANGED inventoryVars
      BY DEF vars
    <2>3. Administer => InventoryNext
      BY DEF InventoryNext
    <2> QED BY <2>1, <2>2, <2>3, WorkersAreClients, SweepersAreClients DEF SagaNext
  <1>3. SagaInv /\ IdleCallsAreUnset /\ [InventoryNext]_inventoryVars => IdleCallsAreUnset'
    BY IdleCallsStayUnset DEF SagaInv, InventoryInv
  <1> QED BY <1>1, <1>2, <1>3, SagaInvariant, PTL DEF SagaSpec, InventorySpec, ClientInv

(* Under the saga, with its faults and its races, what is on the shelves   *)
(* and what the orders hold is exactly what was supplied.                  *)
THEOREM SagaConservesStock == SagaSpec => []StockConserved
  BY SagaIsAClient, StockIsConserved, PTL

(* Nor does the saga see more of the inventory than atomic steps ...       *)
THEOREM SagaSeesTheLedger == SagaSpec => LedgerRefinement
  BY SagaIsAClient, ServiceImplementsLedger, PTL

(* ... and it, too, serves an order from the nearest warehouse that can.   *)
THEOREM SagaServesNearest == SagaSpec => NearestFirst
  BY SagaIsAClient, NearestWarehouseServes, PTL

-----------------------------------------------------------------------------
(***************************************************************************)
(* The saga implements the life cycle of an order: for any number of       *)
(* orders, workers, sweepers, deliveries and faults, each step is one      *)
(* justified step of one order in OrderLifecycle, or is not seen there.    *)
(***************************************************************************)

(* A step that the life cycle does not see. *)
LEMMA UnseenSteps ==
    ASSUME UNCHANGED <<order, movements, charge>>
    PROVE  UNCHANGED Lifecycle!lifecycleVars
  BY DEF Lifecycle!lifecycleVars, Units, Released, Reserved, ReleasedAt, ReservedAt

(* A row at a warehouse, whichever it names, is a reservation.             *)
LEMMA ReservedSomewhere ==
    ASSUME SagaInv, NEW o \in Orders, NEW w, ReservedAt(o, w)
    PROVE  Reserved(o)
  BY DEF Reserved, ReservedAt, Row, SagaInv, InventoryInv, InventoryTypeOK, Movement

(* What an order holds while its status says so. *)
LEMMA ServedOrdersHold ==
    ASSUME SagaInv, NEW o \in Orders,
           order[o].status \in {"STOCK_RESERVED", "PAYMENT_AUTHORIZED"}
    PROVE  Units(o) = "held"
  <1>1. ReservedAt(o, order[o].warehouseId) /\ ~Released(o)
    BY DEF SagaInv, StatusMatchesLedger
  <1>2. Reserved(o)
    BY <1>1, ReservedSomewhere
  <1> QED
    BY <1>1, <1>2 DEF Units

-----------------------------------------------------------------------------
(* A transition with a justified document is a move along an edge, with    *)
(* the units and the money that the edge asks for; without effect it is    *)
(* none.                                                                   *)
LEMMA TransitionsMove ==
    ASSUME SagaInv, NEW o \in Orders, NEW from, NEW document,
           Transition(o, from, document), Edge(from, document.status), Justified(o, document),
           UNCHANGED <<shelfVars, charge>>
    PROVE  Lifecycle!Next \/ UNCHANGED Lifecycle!lifecycleVars
  <1>0. UNCHANGED <<movements, charge>>
    BY DEF shelfVars
  <1>1. CASE order' = order
    BY <1>0, <1>1, UnseenSteps
  <1>2. CASE order[o].status = from /\ order' = [order EXCEPT ![o] = document]
    <2>1. /\ order \in [Orders -> OrderDocument]
          /\ order'[o] = document /\ \A q \in Orders : q # o => order'[q] = order[q]
      BY <1>2 DEF SagaInv, SagaTypeOK
    <2> DEFINE status == [q \in Orders |-> order[q].status]
               next == [q \in Orders |-> order'[q].status]
               units == [q \in Orders |-> Units(q)]
    <2>2. status[o] = from /\ next[o] = document.status
          /\ next = [status EXCEPT ![o] = next[o]]
      BY <1>2, <2>1
    <2>3. UNCHANGED <<units, charge>>
      BY <1>0 DEF Units, Released, Reserved, ReleasedAt, ReservedAt
    <2>4. units[o] = Units(o)
      OBVIOUS
    <2>5. from = "PENDING" /\ document.status = "STOCK_RESERVED" => Units(o) = "held"
      <3>1. CASE from = "PENDING" /\ document.status = "STOCK_RESERVED"
        <4>1. Reserved(o)
          BY <3>1, ReservedSomewhere DEF Justified
        <4>2. ~Released(o)
          BY <1>2, <3>1 DEF SagaInv, StatusMatchesLedger
        <4> QED
          BY <4>1, <4>2 DEF Units
      <3> QED
        BY <3>1
    <2>6. from \in {"STOCK_RESERVED", "PAYMENT_AUTHORIZED"} => Units(o) = "held"
      BY <1>2, ServedOrdersHold
    <2>7. document.status = "COMPENSATED" => Units(o) = "returned"
      BY DEF Justified, Units
    <2>8. /\ document.status = "PAYMENT_AUTHORIZED" => charge[o] = "succeeded"
          /\ from = "PAYMENT_AUTHORIZED" => charge[o] = "succeeded"
      BY <1>2 DEF Justified, SagaInv, StatusMatchesCharge
    <2>9. Lifecycle!MayMove(o, from, document.status)
      BY <2>4, <2>5, <2>6, <2>7, <2>8 DEF Edge, Lifecycle!MayMove
    <2>10. Lifecycle!Move(o)
      BY <2>2, <2>3, <2>9 DEF Lifecycle!Move
    <2> QED
      BY <2>10 DEF Lifecycle!Next
  <1> QED
    BY <1>1, <1>2 DEF Transition

-----------------------------------------------------------------------------
(* The steps of the inventory, seen from the orders.                       *)

(* Rows of one order leave what the others hold as it is.                  *)
LEMMA UnitsOfOthers ==
    ASSUME NEW o \in Orders, NEW kind, NEW w,
           movements' = movements \cup {Row(o, kind, w)},
           NEW units, units = Units(o)'
    PROVE  [q \in Orders |-> Units(q)'] = [[q \in Orders |-> Units(q)] EXCEPT ![o] = units]
  <1>1. ASSUME NEW q \in Orders, q # o
        PROVE  Units(q)' = Units(q)
    <2>1. \A k, v : Row(q, k, v) \in movements' <=> Row(q, k, v) \in movements
      BY <1>1 DEF Row
    <2> QED
      BY <2>1 DEF Units, Released, Reserved, ReleasedAt, ReservedAt
  <1> QED
    BY <1>1

(* A reservation that commits finds the order PENDING, or FAILED by a      *)
(* sweeper in the meantime: a later status would have a row already.       *)
LEMMA ReservationsTake ==
    ASSUME SagaInv, NEW o \in Orders, NEW w \in Warehouses, ~Reserved(o),
           movements' = movements \cup {Row(o, "RESERVE", w)}, UNCHANGED <<order, charge>>
    PROVE  Lifecycle!Take(o)
  <1>1. order[o].status \in {"PENDING", "FAILED"}
    BY ReservedSomewhere DEF SagaInv, StatusMatchesLedger
  <1>2. \A v \in Warehouses : Row(o, "RELEASE", v) \notin movements
    <2>1. ASSUME NEW v \in Warehouses, Row(o, "RELEASE", v) \in movements
          PROVE  ReservedAt(o, v)
      BY <2>1 DEF SagaInv, InventoryInv, LedgerConsistent, Row
    <2> QED
      BY <2>1 DEF Reserved
  <1>3. Units(o) = "none"
    BY <1>2 DEF Units, Released, ReleasedAt
  <1>4. Units(o)' = "held"
    <2>1. \A v \in Warehouses : Row(o, "RELEASE", v) \notin movements'
      BY <1>2 DEF Row
    <2>2. Row(o, "RESERVE", w) \in movements'
      OBVIOUS
    <2> QED
      BY <2>1, <2>2 DEF Units, Released, ReleasedAt, Reserved, ReservedAt
  <1>5. [q \in Orders |-> Units(q)'] = [[q \in Orders |-> Units(q)] EXCEPT ![o] = "held"]
    BY <1>4, UnitsOfOthers
  <1> QED
    BY <1>1, <1>3, <1>5 DEF Lifecycle!Take

(* A release that commits finds the order COMPENSATING or FAILED, since    *)
(* only such orders are released: what its caller relies on.               *)
LEMMA ReleasesGiveBack ==
    ASSUME SagaInv, NEW o \in Orders, NEW w \in Warehouses, ReservedAt(o, w), ~Released(o),
           order[o].status \in {"COMPENSATING", "COMPENSATED", "FAILED"},
           movements' = movements \cup {Row(o, "RELEASE", w)}, UNCHANGED <<order, charge>>
    PROVE  Lifecycle!GiveBack(o)
  <1>1. order[o].status \in {"COMPENSATING", "FAILED"}
    BY DEF SagaInv, StatusMatchesLedger
  <1>2. Units(o) = "held"
    BY DEF Units, Reserved
  <1>3. Units(o)' = "returned"
    BY DEF Units, Released, ReleasedAt
  <1>4. [q \in Orders |-> Units(q)'] = [[q \in Orders |-> Units(q)] EXCEPT ![o] = "returned"]
    BY <1>3, UnitsOfOthers
  <1> QED
    BY <1>1, <1>2, <1>4 DEF Lifecycle!GiveBack

(* An actor's call moves on. *)
LEMMA CallsMove ==
    ASSUME SagaInv, NEW c \in Callers, NEW p, Relies(c, p), CallStep(c), UNCHANGED sagaVars
    PROVE  Lifecycle!Next \/ UNCHANGED Lifecycle!lifecycleVars
  <1>0. UNCHANGED <<order, charge>>
    BY DEF sagaVars
  <1>1. CASE UNCHANGED movements
    BY <1>0, <1>1, UnseenSteps
  <1>2. ASSUME NEW w \in Warehouses, TryReserveAt(c, w), movements' # movements
        PROVE  Lifecycle!Next
    <2>1. PICK o \in Orders : o = call[c].order
      BY <1>2 DEF SagaInv, InventoryInv, CallsNameOrders, TryReserveAt
    <2>2. ~Reserved(o) /\ movements' = movements \cup {Row(o, "RESERVE", w)}
      BY <1>2, <2>1 DEF TryReserveAt
    <2> QED
      BY <1>0, <2>2, ReservationsTake DEF Lifecycle!Next
  <1>3. ASSUME Release(c), movements' # movements
        PROVE  Lifecycle!Next
    <2>1. PICK o \in Orders : /\ o = call[c].order
                              /\ order[o].status \in {"COMPENSATING", "COMPENSATED", "FAILED"}
      BY <1>3 DEF Release, Relies, Unwinding
    <2>2. PICK w \in Warehouses : /\ ReservedAt(o, w) /\ ~Released(o)
                                  /\ movements' = movements \cup {Row(o, "RELEASE", w)}
      BY <1>3, <2>1 DEF Release
    <2> QED
      BY <1>0, <2>1, <2>2, ReleasesGiveBack DEF Lifecycle!Next
  <1> QED
    BY <1>1, <1>2, <1>3 DEF CallStep, FindPrior, FindCandidateWarehouses, shelfVars

-----------------------------------------------------------------------------
(* The steps of the workers. *)

(* Each transition of the worker is justified by what the worker relies on.*)
LEMMA WorkerStepsMove ==
    ASSUME SagaInv, NEW w \in Workers, WorkerStep(w)
    PROVE  Lifecycle!Next \/ UNCHANGED Lifecycle!lifecycleVars
  <1>0. /\ w \in Callers /\ Relies(w, worker[w]) /\ SagaTypeOK
        /\ worker[w].pc # "idle" => worker[w].order \in Orders
    BY WorkerFacts DEF SagaInv
  <1>1. CASE ReadTerminal(w) \/ Read(w) \/ RequestCharge(w) \/ FailedReleased(w)
    BY <1>1, UnseenSteps
       DEF ReadTerminal, Read, RequestCharge, FailedReleased, shelfVars, inventoryVars
  <1>2. CASE Reserve(w)
    <2>1. PICK o \in Orders : /\ o = worker[w].order /\ worker[w].pc = "reserving"
                              /\ call[w].op = "done" /\ call[w].order = o
      BY <1>0, <1>2 DEF Reserve, Relies
    <2>2. order[o].paymentResult \in {"none", charge[o]} /\ UNCHANGED <<shelfVars, charge>>
      BY <1>2 DEF SagaInv, StatusMatchesCharge, Reserve
    <2>3. CASE /\ call[w].outcome \in {"reserved", "replayed"}
               /\ Transition(o, "PENDING", ReservedDocument(o, call[w].warehouseId))
      <3>1. ReservedAt(o, call[w].warehouseId)
        BY <1>0, <2>1, <2>3 DEF SagaInv, InventoryInv, AnswersMatchLedger
      <3>2. PICK v \in Warehouses : v = call[w].warehouseId
        BY <3>1 DEF SagaInv, InventoryInv, InventoryTypeOK, ReservedAt, Row, Movement
      <3>3. /\ Edge("PENDING", ReservedDocument(o, v).status)
            /\ Justified(o, ReservedDocument(o, v))
        BY <1>0, <2>2, <3>1, <3>2, DocumentType DEF Edge, Justified
      <3> QED
        BY <2>2, <2>3, <3>2, <3>3, TransitionsMove
    <2>4. CASE Transition(o, "PENDING", FailedDocument(o, "OUT_OF_STOCK"))
      <3>1. /\ Edge("PENDING", FailedDocument(o, "OUT_OF_STOCK").status)
            /\ Justified(o, FailedDocument(o, "OUT_OF_STOCK"))
        BY <1>0, <2>2, DocumentType DEF Edge, Justified, FailureCode
      <3> QED
        BY <2>2, <2>4, <3>1, TransitionsMove
    <2> QED
      BY <1>2, <2>1, <2>3, <2>4 DEF Reserve
  <1>3. CASE CustomerGone(w) \/ Authorized(w)
    <2>1. PICK o \in Orders : o = worker[w].order
      BY <1>0, <1>3 DEF CustomerGone, Authorized
    <2>2. order[o].paymentResult \in {"none", charge[o]} /\ UNCHANGED <<shelfVars, charge>>
      BY <1>3 DEF SagaInv, StatusMatchesCharge, CustomerGone, Authorized, inventoryVars
    <2>3. CASE charge[o] = "succeeded" /\ Transition(o, "STOCK_RESERVED", AuthorizedDocument(o))
      <3>1. /\ Edge("STOCK_RESERVED", AuthorizedDocument(o).status)
            /\ Justified(o, AuthorizedDocument(o))
        BY <1>0, <2>3, DocumentType DEF Edge, Justified
      <3> QED
        BY <2>2, <2>3, <3>1, TransitionsMove
    <2>4. ASSUME NEW result \in {"none", charge[o]},
                 Transition(o, "STOCK_RESERVED", CompensatingDocument(o, "PAYMENT_DECLINED", result))
          PROVE  Lifecycle!Next \/ UNCHANGED Lifecycle!lifecycleVars
      <3>1. /\ Edge("STOCK_RESERVED", CompensatingDocument(o, "PAYMENT_DECLINED", result).status)
            /\ Justified(o, CompensatingDocument(o, "PAYMENT_DECLINED", result))
        BY <1>0, DocumentType DEF Edge, Justified, FailureCode, SagaTypeOK, Charges
      <3> QED
        BY <2>2, <2>4, <3>1, TransitionsMove
    <2> QED
      BY <1>3, <2>1, <2>2, <2>3, <2>4 DEF CustomerGone, Authorized
  <1>4. CASE Complete(w)
    <2>1. PICK o \in Orders : o = worker[w].order
      BY <1>0, <1>4 DEF Complete
    <2>2. order[o].paymentResult \in {"none", charge[o]} /\ UNCHANGED <<shelfVars, charge>>
      BY <1>4 DEF SagaInv, StatusMatchesCharge, Complete, inventoryVars
    <2>3. /\ Edge("PAYMENT_AUTHORIZED", Advanced(o, "COMPLETED").status)
          /\ Justified(o, Advanced(o, "COMPLETED"))
      BY <1>0, <2>2, DocumentType DEF Edge, Justified, OrderStatus
    <2> QED
      BY <1>4, <2>1, <2>2, <2>3, TransitionsMove DEF Complete
  <1>5. CASE Compensate(w)
    <2>1. PICK o \in Orders : o = worker[w].order /\ Released(o)
      BY <1>0, <1>5 DEF Compensate, Relies
    <2>2. order[o].paymentResult \in {"none", charge[o]} /\ UNCHANGED <<shelfVars, charge>>
      BY <1>5 DEF SagaInv, StatusMatchesCharge, Compensate
    <2>3. /\ Edge("COMPENSATING", Advanced(o, "COMPENSATED").status)
          /\ Justified(o, Advanced(o, "COMPENSATED"))
      BY <1>0, <2>1, <2>2, DocumentType DEF Edge, Justified, OrderStatus
    <2> QED
      BY <1>5, <2>1, <2>2, <2>3, TransitionsMove DEF Compensate
  <1>6. CASE CallStep(w) /\ UNCHANGED sagaVars
    BY <1>0, <1>6, CallsMove
  <1> QED
    BY <1>1, <1>2, <1>3, <1>4, <1>5, <1>6 DEF WorkerStep

-----------------------------------------------------------------------------
(* The steps of the sweepers. *)

(* And so is each transition of the sweeper. *)
LEMMA SweeperStepsMove ==
    ASSUME SagaInv, NEW s \in Sweepers, SweeperStep(s)
    PROVE  Lifecycle!Next \/ UNCHANGED Lifecycle!lifecycleVars
  <1>0. /\ s \in Callers /\ Relies(s, sweeper[s]) /\ SagaTypeOK
        /\ sweeper[s].pc # "idle" => sweeper[s].order \in Orders
    BY SweeperFacts DEF SagaInv
  <1>1. CASE (\E o \in Orders : Claim(s, o)) \/ AskProvider(s) \/ TimedOutReleased(s)
    BY <1>1, UnseenSteps DEF Claim, AskProvider, TimedOutReleased, shelfVars, inventoryVars
  <1>2. CASE TimeOut(s)
    <2>1. PICK o \in Orders : o = sweeper[s].order
      BY <1>0, <1>2 DEF TimeOut
    <2>2. order[o].paymentResult \in {"none", charge[o]} /\ UNCHANGED <<shelfVars, charge>>
      BY <1>2 DEF SagaInv, StatusMatchesCharge, TimeOut
    <2>3. /\ Edge("PENDING", FailedDocument(o, "RECONCILED_TIMEOUT").status)
          /\ Justified(o, FailedDocument(o, "RECONCILED_TIMEOUT"))
      BY <1>0, <2>2, DocumentType DEF Edge, Justified, FailureCode
    <2> QED
      BY <1>2, <2>1, <2>2, <2>3, TransitionsMove DEF TimeOut
  <1>3. CASE Reconcile(s)
    <2>1. PICK o \in Orders : o = sweeper[s].order /\ charge[o] = "succeeded"
      BY <1>0, <1>3 DEF Reconcile, Relies
    <2>2. UNCHANGED <<shelfVars, charge>>
      BY <1>3 DEF Reconcile, inventoryVars
    <2>3. /\ Edge("STOCK_RESERVED", AuthorizedDocument(o).status)
          /\ Justified(o, AuthorizedDocument(o))
      BY <1>0, <2>1, DocumentType DEF Edge, Justified
    <2> QED
      BY <1>3, <2>1, <2>2, <2>3, TransitionsMove DEF Reconcile
  <1>4. CASE Unwind(s)
    <2>1. PICK o \in Orders : /\ o = sweeper[s].order
                              /\ sweeper[s].pc = "unwind_declined" => charge[o] = "declined"
      BY <1>0, <1>4 DEF Unwind, Relies
    <2>2. order[o].paymentResult \in {"none", charge[o]} /\ UNCHANGED <<shelfVars, charge>>
      BY <1>4 DEF SagaInv, StatusMatchesCharge, Unwind
    <2>3. PICK code \in FailureCode, result \in {"none", charge[o]} :
              Transition(o, "STOCK_RESERVED", CompensatingDocument(o, code, result))
      BY <1>4, <2>1, <2>2 DEF Unwind, FailureCode
    <2>4. /\ Edge("STOCK_RESERVED", CompensatingDocument(o, code, result).status)
          /\ Justified(o, CompensatingDocument(o, code, result))
      BY <1>0, DocumentType DEF Edge, Justified, SagaTypeOK, Charges
    <2> QED
      BY <2>2, <2>3, <2>4, TransitionsMove
  <1>5. CASE SweepComplete(s)
    <2>1. PICK o \in Orders : o = sweeper[s].order
      BY <1>0, <1>5 DEF SweepComplete
    <2>2. order[o].paymentResult \in {"none", charge[o]} /\ UNCHANGED <<shelfVars, charge>>
      BY <1>5 DEF SagaInv, StatusMatchesCharge, SweepComplete, inventoryVars
    <2>3. /\ Edge("PAYMENT_AUTHORIZED", Advanced(o, "COMPLETED").status)
          /\ Justified(o, Advanced(o, "COMPLETED"))
      BY <1>0, <2>2, DocumentType DEF Edge, Justified, OrderStatus
    <2> QED
      BY <1>5, <2>1, <2>2, <2>3, TransitionsMove DEF SweepComplete
  <1>6. CASE Settle(s)
    <2>1. PICK o \in Orders : o = sweeper[s].order /\ Released(o)
      BY <1>0, <1>6 DEF Settle, Relies
    <2>2. order[o].paymentResult \in {"none", charge[o]} /\ UNCHANGED <<shelfVars, charge>>
      BY <1>6 DEF SagaInv, StatusMatchesCharge, Settle
    <2>3. /\ Edge("COMPENSATING", Advanced(o, "COMPENSATED").status)
          /\ Justified(o, Advanced(o, "COMPENSATED"))
      BY <1>0, <2>1, <2>2, DocumentType DEF Edge, Justified, OrderStatus
    <2> QED
      BY <1>6, <2>1, <2>2, <2>3, TransitionsMove DEF Settle
  <1>7. CASE CallStep(s) /\ UNCHANGED sagaVars
    BY <1>0, <1>7, CallsMove
  <1> QED
    BY <1>1, <1>2, <1>3, <1>4, <1>5, <1>6, <1>7 DEF SweeperStep

-----------------------------------------------------------------------------
(* The steps of everybody else. *)

(* The provider decides about an order that is reserved and not FAILED.    *)
LEMMA ChargesDecide ==
    ASSUME SagaInv, NEW o \in Orders, Charge(o)
    PROVE  Lifecycle!Next
  <1>1. charge[o] = "none" /\ PastPending(o) /\ UNCHANGED <<order, movements>>
    BY DEF Charge, SagaInv, ChargesAreOwed, inventoryVars, shelfVars
  <1>2. Units(o) # "none"
    <2>1. ReservedAt(o, order[o].warehouseId)
      BY <1>1 DEF SagaInv, StatusMatchesLedger, PastPending
    <2>2. Reserved(o)
      BY <2>1, ReservedSomewhere
    <2> QED
      BY <2>2 DEF Units
  <1>3. /\ [q \in Orders |-> order[q].status]' = [q \in Orders |-> order[q].status]
        /\ [q \in Orders |-> Units(q)]' = [q \in Orders |-> Units(q)]
    BY <1>1 DEF Units, Released, Reserved, ReleasedAt, ReservedAt
  <1>4. Lifecycle!Decide(o)
    BY <1>1, <1>2, <1>3 DEF Lifecycle!Decide, PastPending, Charge
  <1> QED
    BY <1>4 DEF Lifecycle!Next

(* Deliveries, faults, restocking and deletions are not seen.              *)
LEMMA SurroundingsUnseen ==
    ASSUME SagaInv,
           \/ \E w \in Workers : WorkerFault(w) \/ \E o \in Orders : Deliver(w, o)
           \/ \E s \in Sweepers : SweeperFault(s)
           \/ \E o \in Orders : DeleteCustomer(o)
           \/ Administer /\ UNCHANGED sagaVars
           \/ UNCHANGED vars
    PROVE  UNCHANGED Lifecycle!lifecycleVars
  <1>1. UNCHANGED <<order, movements, charge>>
    BY DEF WorkerFault, Deliver, SweeperFault, DeleteCustomer, Administer, AddStock,
           RemoveWarehouse, vars, sagaVars, inventoryVars, shelfVars
  <1> QED
    BY <1>1, UnseenSteps

(* Workers, sweepers and the provider together implement the diagram of    *)
(* order-status.ts, each edge with the units and the money it stands for.  *)
THEOREM SagaImplementsLifecycle == SagaSpec => LifecycleRefinement
  <1>1. SagaInit => Lifecycle!Init
    BY DEF SagaInit, InventoryInit, Lifecycle!Init, Units, Released, Reserved, ReleasedAt, ReservedAt
  <1>2. SagaInv /\ [SagaNext]_vars => [Lifecycle!Next]_(Lifecycle!lifecycleVars)
    BY WorkerStepsMove, SweeperStepsMove, ChargesDecide, SurroundingsUnseen DEF SagaNext
  <1> QED
    BY <1>1, <1>2, SagaInvariant, PTL DEF SagaSpec, LifecycleRefinement, Lifecycle!Spec

-----------------------------------------------------------------------------
(***************************************************************************)
(* Units of FAILED orders.  FAILED is never swept, so units that are still *)
(* reserved for such an order come back only if somebody who has it in     *)
(* hand gives them back: a worker that is about to read the status, or     *)
(* whoever has asked for the release.  Only a fault takes that actor away. *)
(***************************************************************************)
Actor(c) == IF c \in Workers THEN worker[c] ELSE sweeper[c]

Returns(c, o) ==
    /\ Actor(c).order = o
    /\ \/ Actor(c).pc \in {"read", "reserving"}
       \/ Actor(c).pc = "releasing" /\ call[c].op = "release"

UnitsComeBack ==
    \A o \in Orders :
        order[o].status = "FAILED" /\ Reserved(o) /\ ~Released(o) => \E c \in Callers : Returns(c, o)

(* What the invariant says of one actor, worker or sweeper.                *)
LEMMA ActorFacts ==
    ASSUME SagaInv, NEW c \in Callers
    PROVE  Relies(c, Actor(c))
  BY WorkerFacts, SweeperFacts, OrderSagaAssumption DEF Actor

(* A step of one actor outside the inventory: it goes on returning what it *)
(* would return, and what it fails it returns.                             *)
LEMMA ActorGoesOn ==
    ASSUME SagaInv, UnitsComeBack, UNCHANGED movements, NEW c \in Callers,
           \A d \in Callers \ {c} : Actor(d)' = Actor(d) /\ call'[d] = call[d],
           \A o \in Orders : order[o].status = "FAILED" /\ Returns(c, o) => Returns(c, o)',
           \A o \in Orders : order'[o].status = "FAILED" =>
                                 order[o].status = "FAILED" \/ Returns(c, o)'
    PROVE  UnitsComeBack'
  <1> SUFFICES ASSUME NEW o \in Orders, order'[o].status = "FAILED", Reserved(o)', ~Released(o)'
               PROVE  \E d \in Callers : Returns(d, o)'
    BY DEF UnitsComeBack
  <1>1. Reserved(o) /\ ~Released(o)
    BY DEF Reserved, Released, ReservedAt, ReleasedAt
  <1>2. CASE order[o].status = "FAILED"
    <2>1. PICK d \in Callers : Returns(d, o)
      BY <1>1, <1>2 DEF UnitsComeBack
    <2>2. d # c => Returns(d, o)'
      BY <2>1 DEF Returns
    <2> QED BY <1>2, <2>1, <2>2
  <1> QED BY <1>2

(* A transition to another status than FAILED fails nobody.                *)
LEMMA OthersDoNotFail ==
    ASSUME order \in [Orders -> OrderDocument], NEW o \in Orders, NEW from, NEW document,
           Transition(o, from, document), document.status # "FAILED"
    PROVE  \A p \in Orders : order'[p].status = "FAILED" => order[p].status = "FAILED"
  BY DEF Transition

(* A step of somebody's call: a reservation that commits is its worker's   *)
(* to return; a release that commits has returned it.                      *)
LEMMA CallsReturn ==
    ASSUME SagaInv, UnitsComeBack, NEW c \in Callers, CallStep(c), UNCHANGED sagaVars
    PROVE  UnitsComeBack'
  <1> SUFFICES ASSUME NEW o \in Orders, order'[o].status = "FAILED", Reserved(o)', ~Released(o)'
               PROVE  \E d \in Callers : Returns(d, o)'
    BY DEF UnitsComeBack
  <1>0. order[o].status = "FAILED" /\ \A d \in Callers : Actor(d)' = Actor(d)
    BY DEF sagaVars, Actor
  <1>1. /\ call[c].op \in {"lookup", "rank", "try", "release"}
        /\ \A d \in Callers \ {c} : call'[d] = call[d]
        /\ call'[c].order = call[c].order
        /\ call[c].op = "release" /\ Reserved(call[c].order) => Released(call[c].order)'
        /\ movements \subseteq movements'
    BY CallStepEffect DEF SagaInv
  <1>2. ~Released(o)
    BY <1>1 DEF Released, ReleasedAt
  <1>3. Relies(c, Actor(c))
    BY ActorFacts
  <1>4. CASE Reserved(o)
    <2>1. PICK d \in Callers : Returns(d, o)
      BY <1>0, <1>2, <1>4 DEF UnitsComeBack
    <2>2. CASE d # c \/ Actor(d).pc \in {"read", "reserving"}
      BY <1>0, <1>1, <2>1, <2>2 DEF Returns
    <2>3. CASE d = c /\ Actor(c).pc = "releasing" /\ call[c].op = "release"
      <3>1. call[c].order = o
        BY <1>3, <2>1, <2>3 DEF Relies, Returns
      <3>2. Released(call[c].order)'
        BY <1>1, <1>4, <2>3, <3>1
      <3> QED BY <1>1, <3>1, <3>2 DEF Released, ReleasedAt
    <2> QED BY <2>1, <2>2, <2>3 DEF Returns
  <1>5. CASE ~Reserved(o)
    <2>1. movements' # movements
      BY <1>5 DEF Reserved, ReservedAt
    <2>2. ~Release(c)
      <3> SUFFICES ASSUME Release(c) PROVE FALSE
        OBVIOUS
      <3>1. PICK w \in Warehouses : movements' = movements \cup {Row(call[c].order, "RELEASE", w)}
        BY <2>1 DEF Release
      <3> QED BY <1>5, <3>1 DEF Reserved, ReservedAt, Row
    <2>3. PICK w \in Warehouses : TryReserveAt(c, w)
      BY <2>1, <2>2 DEF CallStep, FindPrior, FindCandidateWarehouses, shelfVars
    <2>4. call[c].op = "try" /\ movements' = movements \cup {Row(call[c].order, "RESERVE", w)}
      BY <2>1, <2>3 DEF TryReserveAt
    <2>5. call[c].order = o
      BY <1>5, <2>4 DEF Reserved, ReservedAt, Row
    <2>6. Actor(c).pc = "reserving" /\ Actor(c).order = o
      BY <1>3, <2>4, <2>5 DEF Relies
    <2> QED BY <1>0, <2>6 DEF Returns
  <1> QED BY <1>4, <1>5

(* A worker that goes on, without a fault.                                 *)
LEMMA WorkersReturn ==
    ASSUME SagaInv, UnitsComeBack, NEW w \in Workers,
           WorkerStep(w) \/ \E o \in Orders : Deliver(w, o)
    PROVE  UnitsComeBack'
  <1> DEFINE o == worker[w].order
  <1>0. /\ w \in Callers /\ w \notin Sweepers /\ (worker[w].pc # "idle" => o \in Orders)
        /\ worker \in [Workers -> [pc : WorkerPc, order : Orders \cup {NoOrder}]]
        /\ call \in [Callers -> Call] /\ order \in [Orders -> OrderDocument]
    BY WorkerFacts DEF SagaInv, SagaTypeOK
  <1>1. CASE CallStep(w) /\ UNCHANGED sagaVars
    BY <1>0, <1>1, CallsReturn
  <1>2. ASSUME UNCHANGED <<movements, sweeper>>,
               \A v \in Workers \ {w} : worker'[v] = worker[v],
               \A c \in Callers \ {w} : call'[c] = call[c],
               \A p \in Orders : order[p].status = "FAILED" /\ Returns(w, p) => Returns(w, p)',
               \A p \in Orders : order'[p].status = "FAILED" =>
                                     order[p].status = "FAILED" \/ Returns(w, p)'
        PROVE  UnitsComeBack'
    BY <1>0, <1>2, ActorGoesOn DEF Actor
  <1>3. CASE ReadTerminal(w)
    <2>1. CASE order[o].status = "FAILED" /\ WorkerGoes(w, "releasing") /\ Calls(w, ReleaseForOrder(o))
      BY <1>0, <1>2, <1>3, <2>1
         DEF ReadTerminal, WorkerGoes, Calls, ReleaseForOrder, NoCall, Returns, Actor, shelfVars
    <2>2. CASE order[o].status # "FAILED" /\ WorkerEnds(w) /\ UNCHANGED call
      BY <1>0, <1>2, <1>3, <2>2 DEF ReadTerminal, WorkerEnds, Returns, Actor, shelfVars
    <2> QED BY <1>3, <2>1, <2>2 DEF ReadTerminal
  <1>4. CASE Read(w)
    BY <1>0, <1>2, <1>4 DEF Read, WorkerGoes, Calls, Returns, Actor, shelfVars
  <1>5. CASE Reserve(w)
    BY <1>0, <1>2, <1>5
       DEF Reserve, WorkerGoes, HangsUp, Transition, ReservedDocument, FailedDocument, Returns, Actor,
           shelfVars
  <1>6. CASE CustomerGone(w) \/ Authorized(w) \/ Complete(w)
    BY <1>0, <1>2, <1>6
       DEF CustomerGone, Authorized, Complete, WorkerGoes, Transition, CompensatingDocument,
           AuthorizedDocument, Advanced, Returns, Actor, inventoryVars, shelfVars
  <1>7. CASE RequestCharge(w)
    BY <1>0, <1>2, <1>7 DEF RequestCharge, WorkerGoes, Returns, Actor, inventoryVars, shelfVars
  <1>8. CASE Compensate(w) \/ FailedReleased(w)
    <2>1. /\ UNCHANGED <<movements, sweeper>>
          /\ \A v \in Workers \ {w} : worker'[v] = worker[v]
          /\ \A c \in Callers \ {w} : call'[c] = call[c]
      BY <1>0, <1>8 DEF Compensate, FailedReleased, WorkerEnds, HangsUp, shelfVars
    <2>2. \A p \in Orders : ~Returns(w, p)
      BY <1>0, <1>8 DEF Compensate, FailedReleased, Returns, Actor
    <2>3. \A p \in Orders : order'[p].status = "FAILED" => order[p].status = "FAILED"
      <3>1. CASE Compensate(w)
        <4>1. o \in Orders /\ Transition(o, "COMPENSATING", Advanced(o, "COMPENSATED"))
          BY <1>0, <3>1 DEF Compensate
        <4>2. Advanced(o, "COMPENSATED").status = "COMPENSATED"
          BY <4>1, DocumentType DEF SagaInv, OrderStatus
        <4> HIDE DEF o
        <4> QED BY <1>0, <4>1, <4>2, OthersDoNotFail
      <3> QED BY <1>8, <3>1 DEF FailedReleased
    <2> QED BY <1>2, <2>1, <2>2, <2>3
  <1>9. ASSUME NEW p \in Orders, Deliver(w, p)
        PROVE  UnitsComeBack'
    BY <1>0, <1>2, <1>9 DEF Deliver, Returns, Actor, inventoryVars, shelfVars
  <1> QED BY <1>1, <1>3, <1>4, <1>5, <1>6, <1>7, <1>8, <1>9 DEF WorkerStep

(* A sweeper that goes on, without a fault.                                *)
LEMMA SweepersReturn ==
    ASSUME SagaInv, UnitsComeBack, NEW s \in Sweepers, SweeperStep(s)
    PROVE  UnitsComeBack'
  <1> DEFINE o == sweeper[s].order
  <1>0. /\ s \in Callers /\ s \notin Workers /\ (sweeper[s].pc # "idle" => o \in Orders)
        /\ sweeper \in [Sweepers -> [pc : SweeperPc, order : Orders \cup {NoOrder}]]
        /\ call \in [Callers -> Call] /\ order \in [Orders -> OrderDocument]
    BY SweeperFacts DEF SagaInv, SagaTypeOK
  <1>1. CASE CallStep(s) /\ UNCHANGED sagaVars
    BY <1>0, <1>1, CallsReturn
  <1>2. ASSUME UNCHANGED <<movements, worker>>,
               \A t \in Sweepers \ {s} : sweeper'[t] = sweeper[t],
               \A c \in Callers \ {s} : call'[c] = call[c],
               \A p \in Orders : order[p].status = "FAILED" /\ Returns(s, p) => Returns(s, p)',
               \A p \in Orders : order'[p].status = "FAILED" =>
                                     order[p].status = "FAILED" \/ Returns(s, p)'
        PROVE  UnitsComeBack'
    BY <1>0, <1>2, ActorGoesOn, OrderSagaAssumption DEF Actor
  <1>3. ASSUME NEW p \in Orders, Claim(s, p)
        PROVE  UnitsComeBack'
    BY <1>0, <1>2, <1>3 DEF Claim, Calls, Returns, Actor, shelfVars
  <1>4. CASE TimeOut(s)
    <2>1. CASE order[o].status = "PENDING"
      BY <1>0, <1>2, <1>4, <2>1
         DEF TimeOut, SweeperGoes, Calls, ReleaseForOrder, NoCall, Transition, FailedDocument, Returns,
             Actor, shelfVars
    <2>2. CASE order[o].status # "PENDING"
      BY <1>0, <1>2, <1>4, <2>2 DEF TimeOut, SweeperEnds, Transition, Returns, Actor, shelfVars
    <2> QED BY <2>1, <2>2
  <1>5. CASE AskProvider(s)
    BY <1>0, <1>2, <1>5 DEF AskProvider, SweeperGoes, Returns, Actor, inventoryVars, shelfVars
  <1>6. CASE Reconcile(s) \/ SweepComplete(s) \/ Unwind(s) \/ Settle(s) \/ TimedOutReleased(s)
    <2>1. UNCHANGED <<movements, worker>>
      BY <1>6 DEF Reconcile, SweepComplete, Unwind, Settle, TimedOutReleased, inventoryVars, shelfVars
    <2>2. \A t \in Sweepers \ {s} : sweeper'[t] = sweeper[t]
      BY <1>0, <1>6 DEF Reconcile, SweepComplete, Unwind, Settle, TimedOutReleased, SweeperGoes, SweeperEnds
    <2>3. \A c \in Callers \ {s} : call'[c] = call[c]
      BY <1>0, <1>6 DEF Reconcile, SweepComplete, Unwind, Settle, TimedOutReleased, Calls, HangsUp,
                        inventoryVars
    <2>4. \A p \in Orders : ~Returns(s, p)
      BY <1>0, <1>6 DEF Reconcile, SweepComplete, Unwind, Settle, TimedOutReleased, Returns, Actor
    <2>5. \A p \in Orders : order'[p].status = "FAILED" => order[p].status = "FAILED"
      <3>1. CASE TimedOutReleased(s)
        BY <3>1 DEF TimedOutReleased
      <3>2. CASE Reconcile(s) \/ SweepComplete(s) \/ Unwind(s) \/ Settle(s)
        <4>1. /\ o \in Orders
              /\ \E from, document : /\ Transition(o, from, document)
                                     /\ \/ document = AuthorizedDocument(o)
                                        \/ \E to \in {"COMPLETED", "COMPENSATED"} : document = Advanced(o, to)
                                        \/ \E code \in FailureCode, result \in Charges :
                                               document = CompensatingDocument(o, code, result)
          <5>1. o \in Orders /\ order[o].paymentResult \in Charges
            BY <1>0, <3>2 DEF Reconcile, SweepComplete, Unwind, Settle, OrderDocument
          <5> HIDE DEF o
          <5> QED BY <3>2, <5>1 DEF Reconcile, SweepComplete, Unwind, Settle, FailureCode, Charges, o
        <4>2. PICK from, document : /\ Transition(o, from, document)
                                    /\ \/ document = AuthorizedDocument(o)
                                       \/ \E to \in {"COMPLETED", "COMPENSATED"} : document = Advanced(o, to)
                                       \/ \E code \in FailureCode, result \in Charges :
                                              document = CompensatingDocument(o, code, result)
          BY <4>1
        <4> HIDE DEF o
        <4>3. document.status # "FAILED"
          BY <4>1, <4>2, DocumentType DEF SagaInv, OrderStatus
        <4> QED BY <1>0, <4>1, <4>2, <4>3, OthersDoNotFail
      <3> QED BY <1>6, <3>1, <3>2
    <2> QED BY <1>2, <2>1, <2>2, <2>3, <2>4, <2>5
  <1> QED BY <1>1, <1>3, <1>4, <1>5, <1>6 DEF SweeperStep

(* Until the first crash, exception or lost answer, no units are stranded: *)
(* whoever failed an order, and whatever raced for it, somebody who still  *)
(* has it in hand gives them back.                                         *)
THEOREM OnlyFaultsStrandUnits == SagaSpec => [](faults = 0 => NothingStranded)
  <1> DEFINE Inv == faults = 0 => UnitsComeBack
  <1>1. SagaInit => Inv
    BY DEF SagaInit, UnitsComeBack
  <1>2. SagaInv /\ SagaInv' /\ Inv /\ [SagaNext]_vars => Inv'
    <2> SUFFICES ASSUME SagaInv, Inv, [SagaNext]_vars, faults' = 0
                 PROVE  UnitsComeBack'
      OBVIOUS
    <2>0. faults \in Nat
      BY OrderSagaAssumption DEF SagaInv, SagaTypeOK
    <2>1. /\ \A w \in Workers : ~WorkerFault(w)
          /\ \A s \in Sweepers : ~SweeperFault(s)
      BY <2>0 DEF WorkerFault, SweeperFault
    <2>2. CASE UNCHANGED faults
      <3>1. UnitsComeBack
        BY <2>2
      <3>2. ASSUME UNCHANGED <<movements, order, worker, sweeper, call>>
            PROVE  UnitsComeBack'
        BY <3>1, <3>2 DEF UnitsComeBack, Returns, Actor, Reserved, Released, ReservedAt, ReleasedAt
      <3>3. ASSUME NEW o \in Orders, Charge(o) \/ DeleteCustomer(o)
            PROVE  UnitsComeBack'
        BY <3>2, <3>3 DEF Charge, DeleteCustomer, inventoryVars, shelfVars
      <3>4. CASE Administer /\ UNCHANGED sagaVars
        BY <3>2, <3>4 DEF Administer, AddStock, RemoveWarehouse, sagaVars
      <3>5. CASE UNCHANGED vars
        BY <3>2, <3>5 DEF vars, inventoryVars, shelfVars, sagaVars
      <3> QED BY <2>1, <3>1, <3>3, <3>4, <3>5, WorkersReturn, SweepersReturn DEF SagaNext
    <2>3. UNCHANGED faults
      BY <2>1 DEF SagaNext, WorkerStep, SweeperStep, ReadTerminal, Read, Reserve, CustomerGone,
           RequestCharge, Authorized, Complete, Compensate, FailedReleased, Deliver, Claim, TimeOut,
           AskProvider, Reconcile, Unwind, SweepComplete, Settle, TimedOutReleased, Charge,
           DeleteCustomer, sagaVars, vars
    <2> QED BY <2>2, <2>3
  <1>3. Inv => (faults = 0 => NothingStranded)
    <2>1. ASSUME NEW o \in Orders, NEW c \in Callers, Returns(c, o)
          PROVE  Attended(o)
      BY <2>1, OrderSagaAssumption DEF Returns, Actor, Attended
    <2> QED BY <2>1 DEF UnitsComeBack, NothingStranded
  <1> QED BY <1>1, <1>2, <1>3, SagaInvariant, PTL DEF SagaSpec

-----------------------------------------------------------------------------
(***************************************************************************)
(* Orders that are unwound.  Until its charge is decided, an order that is *)
(* unwound may still be charged, so what marks it must be there before.    *)
(***************************************************************************)
Marked(o, code) ==
    charge[o] = "declined" \/ code = "RECONCILED_NO_CHARGE" \/ o \notin customers

UnwindsAreMarked == \A o \in Orders : Unwinding(o) => Marked(o, order[o].failureCode)

(* A transition into COMPENSATING must bring its mark, and one that leaves *)
(* COMPENSATING must keep it.                                              *)
LEMMA TransitionMarks ==
    ASSUME SagaTypeOK, UnwindsAreMarked, UNCHANGED <<charge, customers>>,
           NEW o \in Orders, NEW from, NEW document, Transition(o, from, document),
           document.status \in {"COMPENSATING", "COMPENSATED"} =>
               \/ Marked(o, document.failureCode)
               \/ from = "COMPENSATING" /\ document.failureCode = order[o].failureCode
    PROVE  UnwindsAreMarked'
  <1>1. CASE order' = order
    BY <1>1 DEF UnwindsAreMarked, Unwinding, Marked
  <1>2. CASE order[o].status = from /\ order' = [order EXCEPT ![o] = document]
    <2>1. order'[o] = document /\ \A p \in Orders \ {o} : order'[p] = order[p]
      BY <1>2 DEF SagaTypeOK
    <2>2. \A p \in Orders \ {o} : Unwinding(p)' => Marked(p, order[p].failureCode)
      BY <2>1 DEF UnwindsAreMarked, Unwinding
    <2>3. Unwinding(o)' => Marked(o, document.failureCode)
      BY <1>2, <2>1 DEF UnwindsAreMarked, Unwinding
    <2> QED BY <2>1, <2>2, <2>3 DEF UnwindsAreMarked, Marked
  <1> QED BY <1>1, <1>2 DEF Transition

(* A worker marks what it unwinds: by the decline, or as the order of a    *)
(* customer who is gone.                                                   *)
LEMMA WorkersMark ==
    ASSUME SagaInv, UnwindsAreMarked, NEW w \in Workers,
           WorkerStep(w) \/ WorkerFault(w) \/ \E o \in Orders : Deliver(w, o)
    PROVE  UnwindsAreMarked'
  <1> DEFINE o == worker[w].order
  <1>0. SagaTypeOK /\ (worker[w].pc # "idle" => o \in Orders)
    BY WorkerFacts DEF SagaInv
  <1>1. ASSUME UNCHANGED <<order, charge, customers>>
        PROVE  UnwindsAreMarked'
    BY <1>1 DEF UnwindsAreMarked, Unwinding, Marked
  <1>2. ASSUME ReadTerminal(w) \/ Read(w) \/ RequestCharge(w) \/ FailedReleased(w) \/ WorkerFault(w)
        PROVE  UnwindsAreMarked'
    BY <1>1, <1>2 DEF ReadTerminal, Read, RequestCharge, FailedReleased, WorkerFault
  <1>3. ASSUME NEW p \in Orders, Deliver(w, p)
        PROVE  UnwindsAreMarked'
    BY <1>1, <1>3 DEF Deliver
  <1>4. CASE CallStep(w) /\ UNCHANGED sagaVars
    BY <1>1, <1>4 DEF sagaVars
  <1>5. CASE Reserve(w)
    <2>1. /\ o \in Orders /\ UNCHANGED <<charge, customers>>
          /\ \/ \E v : Transition(o, "PENDING", ReservedDocument(o, v))
             \/ Transition(o, "PENDING", FailedDocument(o, "OUT_OF_STOCK"))
      BY <1>0, <1>5 DEF Reserve
    <2>2. order[o] \in OrderDocument
      BY <1>0, <2>1 DEF SagaTypeOK
    <2>3. /\ \A v : ReservedDocument(o, v).status = "STOCK_RESERVED"
          /\ FailedDocument(o, "OUT_OF_STOCK").status = "FAILED"
      BY <2>2 DEF ReservedDocument, FailedDocument, OrderDocument
    <2> HIDE DEF o
    <2> QED BY <1>0, <2>1, <2>3, TransitionMarks
  <1>6. CASE CustomerGone(w)
    <2>1. /\ o \in Orders /\ o \notin customers /\ UNCHANGED <<charge, customers>>
          /\ Transition(o, "STOCK_RESERVED",
                        CompensatingDocument(o, "PAYMENT_DECLINED", order[o].paymentResult))
      BY <1>0, <1>6 DEF CustomerGone
    <2> HIDE DEF o
    <2> QED BY <1>0, <2>1, TransitionMarks DEF Marked
  <1>7. CASE Authorized(w)
    <2>1. /\ o \in Orders /\ UNCHANGED <<charge, customers>>
          /\ \/ Transition(o, "STOCK_RESERVED", AuthorizedDocument(o))
             \/ /\ charge[o] = "declined"
                /\ Transition(o, "STOCK_RESERVED", CompensatingDocument(o, "PAYMENT_DECLINED", "declined"))
      BY <1>0, <1>7 DEF Authorized
    <2>2. AuthorizedDocument(o).status = "PAYMENT_AUTHORIZED"
      BY <1>0, <2>1, DocumentType
    <2> HIDE DEF o
    <2> QED BY <1>0, <2>1, <2>2, TransitionMarks DEF Marked
  <1>8. CASE Complete(w) \/ Compensate(w)
    <2>1. /\ o \in Orders /\ UNCHANGED <<charge, customers>>
          /\ \/ Transition(o, "PAYMENT_AUTHORIZED", Advanced(o, "COMPLETED"))
             \/ Transition(o, "COMPENSATING", Advanced(o, "COMPENSATED"))
      BY <1>0, <1>8 DEF Complete, Compensate
    <2>2. order[o] \in OrderDocument
      BY <1>0, <2>1 DEF SagaTypeOK
    <2>3. /\ Advanced(o, "COMPLETED").status = "COMPLETED"
          /\ Advanced(o, "COMPENSATED").failureCode = order[o].failureCode
      BY <2>2 DEF Advanced, OrderDocument
    <2> HIDE DEF o
    <2> QED BY <1>0, <2>1, <2>3, TransitionMarks
  <1> QED BY <1>2, <1>3, <1>4, <1>5, <1>6, <1>7, <1>8 DEF WorkerStep

(* A sweeper marks what it unwinds: by the decline, or by the code of an   *)
(* order whose charge it did not find.                                     *)
LEMMA SweepersMark ==
    ASSUME SagaInv, UnwindsAreMarked, NEW s \in Sweepers, SweeperStep(s) \/ SweeperFault(s)
    PROVE  UnwindsAreMarked'
  <1> DEFINE o == sweeper[s].order
  <1>0. SagaTypeOK /\ (sweeper[s].pc # "idle" => o \in Orders) /\ Relies(s, sweeper[s])
    BY SweeperFacts DEF SagaInv
  <1>1. ASSUME UNCHANGED <<order, charge, customers>>
        PROVE  UnwindsAreMarked'
    BY <1>1 DEF UnwindsAreMarked, Unwinding, Marked
  <1>2. CASE AskProvider(s) \/ TimedOutReleased(s) \/ SweeperFault(s)
    BY <1>1, <1>2 DEF AskProvider, TimedOutReleased, SweeperFault
  <1>3. ASSUME NEW p \in Orders, Claim(s, p)
        PROVE  UnwindsAreMarked'
    BY <1>1, <1>3 DEF Claim
  <1>4. CASE CallStep(s) /\ UNCHANGED sagaVars
    BY <1>1, <1>4 DEF sagaVars
  <1>5. CASE TimeOut(s) \/ Reconcile(s) \/ SweepComplete(s) \/ Settle(s)
    <2>1. /\ o \in Orders /\ UNCHANGED <<charge, customers>>
          /\ \/ Transition(o, "PENDING", FailedDocument(o, "RECONCILED_TIMEOUT"))
             \/ Transition(o, "STOCK_RESERVED", AuthorizedDocument(o))
             \/ Transition(o, "PAYMENT_AUTHORIZED", Advanced(o, "COMPLETED"))
             \/ Transition(o, "COMPENSATING", Advanced(o, "COMPENSATED"))
      BY <1>0, <1>5 DEF TimeOut, Reconcile, SweepComplete, Settle
    <2>2. order[o] \in OrderDocument
      BY <1>0, <2>1 DEF SagaTypeOK
    <2>3. /\ FailedDocument(o, "RECONCILED_TIMEOUT").status = "FAILED"
          /\ AuthorizedDocument(o).status = "PAYMENT_AUTHORIZED"
          /\ Advanced(o, "COMPLETED").status = "COMPLETED"
          /\ Advanced(o, "COMPENSATED").failureCode = order[o].failureCode
      BY <2>2 DEF FailedDocument, AuthorizedDocument, Advanced, OrderDocument
    <2> HIDE DEF o
    <2> QED BY <1>0, <2>1, <2>3, TransitionMarks
  <1>6. CASE Unwind(s)
    <2>1. o \in Orders /\ UNCHANGED <<charge, customers>>
      BY <1>0, <1>6 DEF Unwind
    <2>2. \/ /\ charge[o] = "declined"
             /\ Transition(o, "STOCK_RESERVED", CompensatingDocument(o, "PAYMENT_DECLINED", "declined"))
          \/ Transition(o, "STOCK_RESERVED",
                        CompensatingDocument(o, "RECONCILED_NO_CHARGE", order[o].paymentResult))
      BY <1>0, <1>6 DEF Unwind, Relies
    <2>3. order[o] \in OrderDocument
      BY <1>0, <2>1 DEF SagaTypeOK
    <2>4. CompensatingDocument(o, "RECONCILED_NO_CHARGE", order[o].paymentResult).failureCode =
              "RECONCILED_NO_CHARGE"
      BY <2>3 DEF CompensatingDocument, OrderDocument
    <2> HIDE DEF o
    <2> QED BY <1>0, <2>1, <2>2, <2>4, TransitionMarks DEF Marked
  <1> QED BY <1>2, <1>3, <1>4, <1>5, <1>6 DEF SweeperStep

(* An order that was charged and is unwound all the same can always be     *)
(* told by its failure code, or by its deleted customer, however late the  *)
(* charge arrives.                                                         *)
THEOREM ChargedUnwindsAreAlwaysMarked == SagaSpec => []ChargedUnwindsAreMarked
  <1>1. SagaInit => UnwindsAreMarked
    BY DEF SagaInit, UnwindsAreMarked, Unwinding
  <1>2. SagaInv /\ UnwindsAreMarked /\ [SagaNext]_vars => UnwindsAreMarked'
    <2> SUFFICES ASSUME SagaInv, UnwindsAreMarked, [SagaNext]_vars
                 PROVE  UnwindsAreMarked'
      OBVIOUS
    <2>1. ASSUME NEW o \in Orders, Charge(o) \/ DeleteCustomer(o)
          PROVE  UnwindsAreMarked'
      <3>1. /\ order' = order /\ customers' \subseteq customers
            /\ \A p \in Orders : charge[p] = "declined" => charge'[p] = "declined"
        BY <2>1 DEF Charge, DeleteCustomer, SagaInv, SagaTypeOK
      <3> QED BY <3>1 DEF UnwindsAreMarked, Unwinding, Marked
    <2>2. CASE (Administer /\ UNCHANGED sagaVars) \/ UNCHANGED vars
      BY <2>2 DEF vars, sagaVars, UnwindsAreMarked, Unwinding, Marked
    <2> QED BY <2>1, <2>2, WorkersMark, SweepersMark DEF SagaNext
  <1>3. SagaInv /\ UnwindsAreMarked => ChargedUnwindsAreMarked
    BY DEF UnwindsAreMarked, ChargedUnwindsAreMarked, Unwinding, Marked
  <1> QED BY <1>1, <1>2, <1>3, SagaInvariant, PTL DEF SagaSpec
=============================================================================
