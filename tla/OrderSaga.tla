------------------------------ MODULE OrderSaga ------------------------------
(***************************************************************************)
(* The order saga: the queue workers (src/orders/order-saga.processor.ts)  *)
(* and the reconciliation sweepers (order-reconciliation.service.ts) that  *)
(* drive the same order documents concurrently, over the inventory of      *)
(* module Inventory and a payment provider that is idempotent on the order *)
(* id.  Handlers are split where they await something whose answer can     *)
(* change before it is used.                                               *)
(*                                                                         *)
(* There is no clock: a sweeper may claim any order that is not terminal.  *)
(* Staleness and the lease only rate the sweep (the class comment: "not    *)
(* the correctness boundary"), so every schedule they allow is covered.    *)
(***************************************************************************)
EXTENDS Inventory

CONSTANTS
    Workers,         \* concurrent deliveries of saga jobs, on any instance
    Sweepers,        \* concurrent sweeps
    MaxDeliveries,   \* bound: times the queue hands the job of an order to a worker
    MaxFaults        \* bound: crashes, exceptions and lost answers in a behaviour

ASSUME OrderSagaAssumption ==
    /\ Callers = Workers \cup Sweepers
    /\ Workers \cap Sweepers = {}
    /\ MaxDeliveries \in Nat
    /\ MaxFaults \in Nat

VARIABLES
    order,         \* order[o]: the document of o
    charge,        \* charge[o]: the provider's record for the key o
    authorizing,   \* orders with an authorization on its way to the provider
    customers,     \* orders whose customer has not been deleted
    deliveries,    \* deliveries[o]: how often the queue may still deliver the job of o
    faults,
    worker,        \* worker[w]: the step of process() that w is at
    sweeper        \* sweeper[s]: the step of its handler that s is at

sagaVars == <<order, charge, authorizing, customers, deliveries, faults, worker, sweeper>>
vars == <<inventoryVars, sagaVars>>

OrderStatus == {"PENDING", "STOCK_RESERVED", "PAYMENT_AUTHORIZED", "COMPLETED",
                "COMPENSATING", "COMPENSATED", "FAILED"}
Terminal == {"COMPLETED", "COMPENSATED", "FAILED"}
FailureCode == {"none", "OUT_OF_STOCK", "PAYMENT_DECLINED",
                "RECONCILED_TIMEOUT", "RECONCILED_NO_CHARGE"}
Charges == {"none", "succeeded", "declined"}

OrderDocument == [status : OrderStatus, warehouseId : Warehouses \cup {NoWarehouse},
                  paymentResult : Charges, failureCode : FailureCode]
WorkerPc == {"idle", "read", "reserving", "customer", "charging", "completing",
             "compensating", "releasing"}
SweeperPc == {"idle", "fail", "ask", "advance", "complete", "unwind_declined",
              "unwind_no_charge", "compensating", "releasing"}

Idle == [pc |-> "idle", order |-> NoOrder]

SagaTypeOK ==
    /\ order \in [Orders -> OrderDocument]
    /\ charge \in [Orders -> Charges]
    /\ authorizing \subseteq Orders
    /\ customers \subseteq Orders
    /\ deliveries \in [Orders -> 0..MaxDeliveries]
    /\ faults \in 0..MaxFaults
    /\ worker \in [Workers -> [pc : WorkerPc, order : Orders \cup {NoOrder}]]
    /\ sweeper \in [Sweepers -> [pc : SweeperPc, order : Orders \cup {NoOrder}]]

SagaInit ==
    /\ InventoryInit
    /\ order = [o \in Orders |-> [status |-> "PENDING", warehouseId |-> NoWarehouse,
                                  paymentResult |-> "none", failureCode |-> "none"]]
    /\ charge = [o \in Orders |-> "none"]
    /\ authorizing = {}
    /\ customers = Orders
    /\ deliveries = [o \in Orders |-> MaxDeliveries]
    /\ faults = 0
    /\ worker = [w \in Workers |-> Idle]
    /\ sweeper = [s \in Sweepers |-> Idle]

-----------------------------------------------------------------------------
(* Mutant: a bare update, without the expected status in its filter.       *)
BareUpdate(o, from, document) == order' = [order EXCEPT ![o] = document]

(* OrdersRepository.transition: the update applies only to an order that   *)
(* still has the status "from"; otherwise it does nothing.                 *)
Transition(o, from, document) ==
    order' = IF order[o].status = from THEN [order EXCEPT ![o] = document] ELSE order

(* The documents that the transitions of the saga leave behind.            *)
Advanced(o, to) == [order[o] EXCEPT !.status = to]
ReservedDocument(o, w) == [order[o] EXCEPT !.status = "STOCK_RESERVED", !.warehouseId = w]

FailedDocument(o, code) == [order[o] EXCEPT !.status = "FAILED", !.failureCode = code]
AuthorizedDocument(o) ==
    [order[o] EXCEPT !.status = "PAYMENT_AUTHORIZED", !.paymentResult = "succeeded"]

(* Mutant: every unwinding is recorded as a decline.                       *)
DeclinedDocument(o, code, result) ==
    [order[o] EXCEPT !.status = "COMPENSATING", !.failureCode = code, !.paymentResult = "declined"]
CompensatingDocument(o, code, result) ==
    [order[o] EXCEPT !.status = "COMPENSATING", !.failureCode = code, !.paymentResult = result]

WorkerGoes(w, pc) == worker' = [worker EXCEPT ![w].pc = pc]
WorkerEnds(w) == worker' = [worker EXCEPT ![w] = Idle]
SweeperGoes(s, pc) == sweeper' = [sweeper EXCEPT ![s].pc = pc]
SweeperEnds(s) == sweeper' = [sweeper EXCEPT ![s] = Idle]

Calls(c, request) == call' = [call EXCEPT ![c] = request]
HangsUp(c) == call' = [call EXCEPT ![c] = NoCall]

-----------------------------------------------------------------------------
(***************************************************************************)
(* The worker.  A job is delivered at least once: to two workers at a time *)
(* when the queue takes the first for stalled, and again after it was done.*)
(***************************************************************************)
Deliver(w, o) ==
    /\ worker[w].pc = "idle"
    /\ deliveries[o] > 0
    /\ deliveries' = [deliveries EXCEPT ![o] = @ - 1]
    /\ worker' = [worker EXCEPT ![w] = [pc |-> "read", order |-> o]]
    /\ UNCHANGED <<inventoryVars, order, charge, authorizing, customers, faults, sweeper>>

(* Mutant: FAILED is as final as the other terminal statuses.              *)
DropTerminal(w) ==
    /\ worker[w].pc = "read"
    /\ order[worker[w].order].status \in Terminal
    /\ WorkerEnds(w)
    /\ UNCHANGED <<inventoryVars, order, charge, authorizing, customers, deliveries, faults, sweeper>>

(* The head of the loop of process(): read the order and choose the step.  *)
(* A terminal order ends the job; one that FAILED is released first.       *)
ReadTerminal(w) ==
    LET o == worker[w].order
        status == order[o].status
    IN
    /\ worker[w].pc = "read"
    /\ \/ status = "FAILED" /\ WorkerGoes(w, "releasing") /\ Calls(w, ReleaseForOrder(o))
       \/ status \in {"COMPLETED", "COMPENSATED"} /\ WorkerEnds(w) /\ UNCHANGED call
    /\ UNCHANGED <<shelfVars, order, charge, authorizing, customers, deliveries, faults, sweeper>>

Read(w) ==
    LET o == worker[w].order
        status == order[o].status
    IN
    /\ worker[w].pc = "read"
    /\ \/ /\ status = "PENDING"
          /\ WorkerGoes(w, "reserving") /\ Calls(w, ReserveForOrder(o))
       \/ /\ status = "STOCK_RESERVED"
          /\ WorkerGoes(w, "customer") /\ UNCHANGED call
       \/ /\ status = "PAYMENT_AUTHORIZED"
          /\ WorkerGoes(w, "completing") /\ UNCHANGED call
       \/ /\ status = "COMPENSATING"
          /\ WorkerGoes(w, "compensating") /\ Calls(w, ReleaseForOrder(o))
    /\ UNCHANGED <<shelfVars, order, charge, authorizing, customers, deliveries, faults, sweeper>>

(* reserve(): the answer of the inventory, and back to the head.           *)
Reserve(w) ==
    LET o == worker[w].order
        answer == call[w]
    IN
    /\ worker[w].pc = "reserving"
    /\ answer.op = "done"
    /\ \/ /\ answer.outcome \in {"reserved", "replayed"}
          /\ Transition(o, "PENDING", ReservedDocument(o, answer.warehouseId))
       \/ /\ answer.outcome = "no_warehouse"
          /\ Transition(o, "PENDING", FailedDocument(o, "OUT_OF_STOCK"))
    /\ WorkerGoes(w, "read") /\ HangsUp(w)
    /\ UNCHANGED <<shelfVars, charge, authorizing, customers, deliveries, faults, sweeper>>

(* authorize(): a deleted customer unwinds the reservation.  A customer    *)
(* never comes back, so its look-up and the transition are one step.       *)
CustomerGone(w) ==
    LET o == worker[w].order IN
    /\ worker[w].pc = "customer"
    /\ o \notin customers
    /\ Transition(o, "STOCK_RESERVED",
                  CompensatingDocument(o, "PAYMENT_DECLINED", order[o].paymentResult))
    /\ WorkerGoes(w, "read")
    /\ UNCHANGED <<inventoryVars, charge, authorizing, customers, deliveries, faults, sweeper>>

(* A request for a key the provider has recorded only reads the record.    *)
RequestCharge(w) ==
    LET o == worker[w].order IN
    /\ worker[w].pc = "customer"
    /\ o \in customers
    /\ authorizing' = IF charge[o] = "none" THEN authorizing \cup {o} ELSE authorizing
    /\ WorkerGoes(w, "charging")
    /\ UNCHANGED <<inventoryVars, order, charge, customers, deliveries, faults, sweeper>>

Authorized(w) ==
    LET o == worker[w].order IN
    /\ worker[w].pc = "charging"
    /\ \/ /\ charge[o] = "succeeded"
          /\ Transition(o, "STOCK_RESERVED", AuthorizedDocument(o))
       \/ /\ charge[o] = "declined"
          /\ Transition(o, "STOCK_RESERVED",
                        CompensatingDocument(o, "PAYMENT_DECLINED", "declined"))
    /\ WorkerGoes(w, "read")
    /\ UNCHANGED <<inventoryVars, charge, authorizing, customers, deliveries, faults, sweeper>>

Complete(w) ==
    LET o == worker[w].order IN
    /\ worker[w].pc = "completing"
    /\ Transition(o, "PAYMENT_AUTHORIZED", Advanced(o, "COMPLETED"))
    /\ WorkerGoes(w, "read")
    /\ UNCHANGED <<inventoryVars, charge, authorizing, customers, deliveries, faults, sweeper>>

(* compensate(), and the end of the job. *)
Compensate(w) ==
    LET o == worker[w].order IN
    /\ worker[w].pc = "compensating"
    /\ call[w].op = "done"
    /\ Transition(o, "COMPENSATING", Advanced(o, "COMPENSATED"))
    /\ WorkerEnds(w) /\ HangsUp(w)
    /\ UNCHANGED <<shelfVars, charge, authorizing, customers, deliveries, faults, sweeper>>

(* The units of a FAILED order were handed back, if there were any.        *)
FailedReleased(w) ==
    /\ worker[w].pc = "releasing"
    /\ call[w].op = "done"
    /\ WorkerEnds(w) /\ HangsUp(w)
    /\ UNCHANGED <<shelfVars, order, charge, authorizing, customers, deliveries, faults, sweeper>>

(***************************************************************************)
(* A worker dies, or an await throws: before it had its effect, or after,  *)
(* since every effect is a step of its own.  onFailed changes nothing.     *)
(***************************************************************************)
WorkerFault(w) ==
    /\ worker[w].pc # "idle"
    /\ faults < MaxFaults
    /\ faults' = faults + 1
    /\ WorkerEnds(w) /\ HangsUp(w)
    /\ UNCHANGED <<shelfVars, order, charge, authorizing, customers, deliveries, sweeper>>

WorkerStep(w) ==
    \/ ReadTerminal(w) \/ Read(w) \/ Reserve(w)
    \/ CustomerGone(w) \/ RequestCharge(w) \/ Authorized(w)
    \/ Complete(w) \/ Compensate(w) \/ FailedReleased(w)
    \/ CallStep(w) /\ UNCHANGED sagaVars

-----------------------------------------------------------------------------
(***************************************************************************)
(* The sweeper.                                                            *)
(***************************************************************************)

(* Mutant: COMPENSATING is not among the statuses that are swept.          *)
ClaimWithoutCompensating(s, o) ==
    LET Starts(pc) == sweeper' = [sweeper EXCEPT ![s] = [pc |-> pc, order |-> o]]
    IN
    /\ sweeper[s].pc = "idle"
    /\ \/ order[o].status = "PENDING" /\ Starts("fail")
       \/ order[o].status = "STOCK_RESERVED" /\ Starts("ask")
       \/ order[o].status = "PAYMENT_AUTHORIZED" /\ Starts("complete")
    /\ UNCHANGED <<inventoryVars, order, charge, authorizing, customers, deliveries, faults, worker>>

(* sweepState claims an order by its status and hands the handler that     *)
(* status, whatever becomes of the order afterwards.                       *)
Claim(s, o) ==
    LET status == order[o].status
        Starts(pc) == sweeper' = [sweeper EXCEPT ![s] = [pc |-> pc, order |-> o]]
    IN
    /\ sweeper[s].pc = "idle"
    /\ \/ status = "PENDING" /\ Starts("fail") /\ UNCHANGED call
       \/ status = "STOCK_RESERVED" /\ Starts("ask") /\ UNCHANGED call
       \/ status = "PAYMENT_AUTHORIZED" /\ Starts("complete") /\ UNCHANGED call
       \/ status = "COMPENSATING" /\ Starts("compensating") /\ Calls(s, ReleaseForOrder(o))
    /\ UNCHANGED <<shelfVars, order, charge, authorizing, customers, deliveries, faults, worker>>

(* Mutant: the sweeper that lost the race releases as well.                *)
TimeOutAndRelease(s) ==
    LET o == sweeper[s].order IN
    /\ sweeper[s].pc = "fail"
    /\ Transition(o, "PENDING", FailedDocument(o, "RECONCILED_TIMEOUT"))
    /\ SweeperGoes(s, "releasing") /\ Calls(s, ReleaseForOrder(o))
    /\ UNCHANGED <<shelfVars, charge, authorizing, customers, deliveries, faults, worker>>

(* resolvePending: fail the order; the winner of the race also releases.   *)
TimeOut(s) ==
    LET o == sweeper[s].order IN
    /\ sweeper[s].pc = "fail"
    /\ Transition(o, "PENDING", FailedDocument(o, "RECONCILED_TIMEOUT"))
    /\ IF order[o].status = "PENDING"
       THEN SweeperGoes(s, "releasing") /\ Calls(s, ReleaseForOrder(o))
       ELSE SweeperEnds(s) /\ UNCHANGED call
    /\ UNCHANGED <<shelfVars, charge, authorizing, customers, deliveries, faults, worker>>

(* Mutant: a charge that is not found is taken for one that was declined.  *)
AskForSuccess(s) ==
    LET o == sweeper[s].order IN
    /\ sweeper[s].pc = "ask"
    /\ IF charge[o] = "succeeded" THEN SweeperGoes(s, "advance") ELSE SweeperGoes(s, "unwind_declined")
    /\ UNCHANGED <<inventoryVars, order, charge, authorizing, customers, deliveries, faults, worker>>

(* resolveReserved: what the provider knows now decides what to do next.   *)
AskProvider(s) ==
    LET o == sweeper[s].order IN
    /\ sweeper[s].pc = "ask"
    /\ \/ charge[o] = "succeeded" /\ SweeperGoes(s, "advance")
       \/ charge[o] = "declined" /\ SweeperGoes(s, "unwind_declined")
       \/ charge[o] = "none" /\ SweeperGoes(s, "unwind_no_charge")
    /\ UNCHANGED <<inventoryVars, order, charge, authorizing, customers, deliveries, faults, worker>>

Reconcile(s) ==
    LET o == sweeper[s].order IN
    /\ sweeper[s].pc = "advance"
    /\ Transition(o, "STOCK_RESERVED", AuthorizedDocument(o))
    /\ IF order[o].status = "STOCK_RESERVED" THEN SweeperGoes(s, "complete") ELSE SweeperEnds(s)
    /\ UNCHANGED <<inventoryVars, charge, authorizing, customers, deliveries, faults, worker>>

Unwind(s) ==
    LET o == sweeper[s].order IN
    /\ \/ /\ sweeper[s].pc = "unwind_declined"
          /\ Transition(o, "STOCK_RESERVED",
                        CompensatingDocument(o, "PAYMENT_DECLINED", "declined"))
       \/ /\ sweeper[s].pc = "unwind_no_charge"
          /\ Transition(o, "STOCK_RESERVED",
                        CompensatingDocument(o, "RECONCILED_NO_CHARGE", order[o].paymentResult))
    /\ IF order[o].status = "STOCK_RESERVED"
       THEN SweeperGoes(s, "compensating") /\ Calls(s, ReleaseForOrder(o))
       ELSE SweeperEnds(s) /\ UNCHANGED call
    /\ UNCHANGED <<shelfVars, charge, authorizing, customers, deliveries, faults, worker>>

(* resolveAuthorized, and the end of resolveReserved. *)
SweepComplete(s) ==
    LET o == sweeper[s].order IN
    /\ sweeper[s].pc = "complete"
    /\ Transition(o, "PAYMENT_AUTHORIZED", Advanced(o, "COMPLETED"))
    /\ SweeperEnds(s)
    /\ UNCHANGED <<inventoryVars, charge, authorizing, customers, deliveries, faults, worker>>

(* releaseAndSettle. *)
Settle(s) ==
    LET o == sweeper[s].order IN
    /\ sweeper[s].pc = "compensating"
    /\ call[s].op = "done"
    /\ Transition(o, "COMPENSATING", Advanced(o, "COMPENSATED"))
    /\ SweeperEnds(s) /\ HangsUp(s)
    /\ UNCHANGED <<shelfVars, charge, authorizing, customers, deliveries, faults, worker>>

(* The release of resolvePending is over. *)
TimedOutReleased(s) ==
    /\ sweeper[s].pc = "releasing"
    /\ call[s].op = "done"
    /\ SweeperEnds(s) /\ HangsUp(s)
    /\ UNCHANGED <<shelfVars, order, charge, authorizing, customers, deliveries, faults, worker>>

(* sweepState catches whatever the handler throws and goes on. *)
SweeperFault(s) ==
    /\ sweeper[s].pc # "idle"
    /\ faults < MaxFaults
    /\ faults' = faults + 1
    /\ SweeperEnds(s) /\ HangsUp(s)
    /\ UNCHANGED <<shelfVars, order, charge, authorizing, customers, deliveries, worker>>

SweeperStep(s) ==
    \/ \E o \in Orders : Claim(s, o)
    \/ TimeOut(s) \/ AskProvider(s) \/ Reconcile(s) \/ Unwind(s)
    \/ SweepComplete(s) \/ Settle(s) \/ TimedOutReleased(s)
    \/ CallStep(s) /\ UNCHANGED sagaVars

-----------------------------------------------------------------------------
(***************************************************************************)
(* The provider and the customers service.  An authorization that was sent *)
(* may reach the provider at any later time, or never; the worker that     *)
(* sent it need not be there any more.  The first outcome recorded for a   *)
(* key is final.                                                           *)
(***************************************************************************)
Charge(o) ==
    /\ o \in authorizing
    /\ charge[o] = "none"
    /\ \E result \in {"succeeded", "declined"} : charge' = [charge EXCEPT ![o] = result]
    /\ authorizing' = authorizing \ {o}
    /\ UNCHANGED <<inventoryVars, order, customers, deliveries, faults, worker, sweeper>>

DeleteCustomer(o) ==
    /\ o \in customers
    /\ customers' = customers \ {o}
    /\ UNCHANGED <<inventoryVars, order, charge, authorizing, deliveries, faults, worker, sweeper>>

SagaNext ==
    \/ \E w \in Workers : WorkerStep(w) \/ WorkerFault(w) \/ \E o \in Orders : Deliver(w, o)
    \/ \E s \in Sweepers : SweeperStep(s) \/ SweeperFault(s)
    \/ \E o \in Orders : Charge(o) \/ DeleteCustomer(o)
    \/ Administer /\ UNCHANGED sagaVars

SagaSpec == SagaInit /\ [][SagaNext]_vars

(* The cron schedule never stops and a claimed order is driven to the end  *)
(* of its handler.  Nothing is assumed of the queue or the provider.       *)
SweeperFairness == \A s \in Sweepers : WF_vars(SweeperStep(s))

(* A worker that holds a job goes on with it, and the provider answers.    *)
WorkerFairness ==
    /\ \A w \in Workers : WF_vars(WorkerStep(w))
    /\ \A o \in Orders : WF_vars(Charge(o))

SweptSpec == SagaSpec /\ SweeperFairness
FairSagaSpec == SagaSpec /\ SweeperFairness /\ WorkerFairness

-----------------------------------------------------------------------------
(***************************************************************************)
(* Properties.                                                             *)
(***************************************************************************)

(* The document and the ledger agree: an order past PENDING that did not   *)
(* fail is reserved at the warehouse it names, whoever won the races; it   *)
(* is released only when it owes its stock back; COMPENSATED means done.   *)
StatusMatchesLedger ==
    \A o \in Orders :
        /\ order[o].status \notin {"PENDING", "FAILED"} => ReservedAt(o, order[o].warehouseId)
        /\ Released(o) => order[o].status \in {"COMPENSATING", "COMPENSATED", "FAILED"}
        /\ order[o].status = "COMPENSATED" => Released(o)

(* The document and the provider agree: nothing is served that was not     *)
(* paid, nothing is charged that was not reserved or has FAILED, and a     *)
(* result on the document is the one the provider keeps.                   *)
StatusMatchesCharge ==
    \A o \in Orders :
        /\ order[o].status \in {"PAYMENT_AUTHORIZED", "COMPLETED"} => charge[o] = "succeeded"
        /\ charge[o] # "none" => Reserved(o) /\ order[o].status \notin {"PENDING", "FAILED"}
        /\ order[o].paymentResult \in {"none", charge[o]}

(* resolveReserved and authorize unwind an order of which they find no     *)
(* charge, though one may be recorded, or arrive. Such an order can always *)
(* be told from one that was declined: by its code, or by its customer.    *)
ChargedUnwindsAreMarked ==
    \A o \in Orders :
        charge[o] = "succeeded" /\ order[o].status \in {"COMPENSATING", "COMPENSATED"} =>
            order[o].failureCode = "RECONCILED_NO_CHARGE" \/ o \notin customers

(* Somebody still has the order in hand, or will be handed it.             *)
Attended(o) ==
    \/ \E w \in Workers : worker[w].order = o
    \/ \E s \in Sweepers : sweeper[s].order = o
    \/ deliveries[o] > 0

(* Units reserved for an order that FAILED are not stranded: FAILED is     *)
(* never swept, so somebody must be about to give them back.               *)
NothingStranded ==
    \A o \in Orders :
        order[o].status = "FAILED" /\ Reserved(o) /\ ~Released(o) => Attended(o)

(* An order that FAILED does give back what was reserved for it, also when *)
(* the reservation committed after it had failed.                          *)
FailedOrdersReturnStock ==
    \A o \in Orders :
        (order[o].status = "FAILED" /\ Reserved(o)) ~> Released(o)

(* Every accepted order reaches a terminal status, whatever the queue does *)
(* and whether or not an authorization is ever answered: the sweeper alone *)
(* is enough, as long as its own look-ups are answered in the end and      *)
(* faults are finitely many.                                               *)
EveryOrderSettles == \A o \in Orders : <>(order[o].status \in Terminal)

(* order-reconciliation.service.ts, resolveReserved: an order is charged   *)
(* and served, or not charged and restocked.                               *)
NoChargedAndRestocked ==
    \A o \in Orders : ~(charge[o] = "succeeded" /\ order[o].status = "COMPENSATED")

(* order-saga.processor.ts, authorize: the order of a customer who has     *)
(* disappeared was not charged.                                            *)
DeclinedMeansNotCharged ==
    \A o \in Orders : order[o].failureCode = "PAYMENT_DECLINED" => charge[o] # "succeeded"

(* order-saga.processor.ts, reserve: when an order fails for want of stock *)
(* nothing was reserved for it.                                            *)
OutOfStockMeansUnreserved ==
    [][\A o \in Orders :
          order[o].status = "PENDING" /\ order'[o].failureCode = "OUT_OF_STOCK" => ~Reserved(o)]_vars

(***************************************************************************)
(* The saga implements the life cycle of an order.                         *)
(***************************************************************************)
Units(o) == IF Released(o) THEN "returned" ELSE IF Reserved(o) THEN "held" ELSE "none"

Lifecycle == INSTANCE OrderLifecycle WITH
    status <- [o \in Orders |-> order[o].status],
    units <- [o \in Orders |-> Units(o)],
    money <- charge

(* Workers and sweepers together move each order along the diagram of      *)
(* order-status.ts, one edge at a time, each edge with the units and the   *)
(* money that justify it; a terminal order stays as it is, but for units   *)
(* that come and go after FAILED, and money that arrives late.             *)
LifecycleRefinement == Lifecycle!Spec
=============================================================================
