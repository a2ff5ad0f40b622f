# Verification of the orders service

TLA+ models of the order-management service in `src/`, the TLC runs that check
them on small instances, and TLAPS proofs of their main invariants for instances
of any size. Paths below are relative to `src/src/` unless they say otherwise.

## 1. The system

| Part | Source | State | Operations |
|---|---|---|---|
| Order acceptance | `orders/orders.service.ts` | order documents, unique on (customer, idempotency key) | `acceptOrder`: look-up, reads, one transaction that inserts order and event, wait for the winner of a race |
| Outbox and relay | `orders/outbox/` | event rows: status, attempts, claim, next retry | claim under a lease, `queue.add`, mark dispatched / retry / dead |
| Saga queue | BullMQ (external) | jobs, deduplicated by order id | at-least-once delivery |
| Saga worker | `orders/order-saga.processor.ts` | none of its own | reserve, authorize, complete, compensate, each followed by a conditional update of the order |
| Reconciliation sweeper | `orders/order-reconciliation.service.ts` | none of its own | claim a stale order, ask the provider, drive the order to a terminal status |
| Orders repository | `orders/orders.repository.ts`, `orders/order-status.ts` | order documents | `transition` (compare-and-swap on the status), `claimStale` |
| Inventory | `inventory/inventory.service.ts` | stock rows; ledger of RESERVE/RELEASE movements, unique on (order, kind) | `reserveForOrder`, `releaseForOrder` |
| Payment client | `payment/payment.service.ts` | none | `authorize`, `getByIdempotencyKey` over HTTP |
| Mock provider | `mockdata/mockdata-psp.service.ts` | charge documents, unique on the key | `authorize`, look-up |
| Administration | `mockdata/` | stock, addresses, warehouses, customers, cards | upsert stock, addresses and cards, seed addresses, remove documents |
| Request handling | `orders/dto/`, `common/`, `catalog/`, `customers/`, `geocoding/` | none | validate, fingerprint, look up, price, answer with a status |
| Order form | `src/frontend/app.js` | the idempotency key in the form | submit, report, renew the key |
| Data screen | `src/frontend/app.js` | the cards and lists on the page | select a tab, save, delete, refresh, each running on over its awaits |

How they interact. A request is accepted by one transaction that writes the order
and its event. A relay of any instance claims the event and adds a job. A worker
of any instance is given the job, reads the order, performs one step, updates the
order if it still has the status it read, and reads again. A sweeper of any
instance works the same documents at the same time. Both call the inventory and
the provider with the order id as idempotency key. The documents, the ledger and
the provider's record are three stores with no common transaction: everything
hard here is about the three staying in agreement while the actors overlap,
repeat themselves, die between two awaits, or lose an answer.

What makes each part correct:

- *Inventory*: no unit is lost, sold twice, or returned twice; one reservation and
  one release for an order; the nearest warehouse that can serve does.
- *Saga and sweeper*: the document agrees with the ledger and with the provider;
  statuses follow the diagram; every order settles; failed orders return stock.
- *Outbox*: no event is marked without a job, stranded, or given up early.
- *Acceptance*: one order and one event for a key, and true answers.
- *Provider*: one charge for a key, one outcome in all answers.
- *Sweep*: claims are spaced, the retries of the queue are left alone, no order starves another.
- *Requests*: a product is named once, replays mean what the order means, money is rounded once.
- *Page*: a purchase that is tried again makes one order, one that is made again makes another.
- *Administration*: top-ups count once; lists are snapshots of the server.

`PROJECT.json` lists the hazards at their lines, with the properties that cover them.

## 2. Modules

| Module | Stands for | Notes |
|---|---|---|
| `ReservationLedger` | what the inventory promises | abstract: take, give back, supply, each one step |
| `Inventory` | `inventory.service.ts` and the endpoints that share its collections | one action per await; a MongoDB transaction is one action |
| `OrderLifecycle` | the diagram of `order-status.ts` with the units and the money that justify each edge | abstract |
| `OrderSaga` | worker, sweeper, `transition`, over `Inventory` and a provider | `EXTENDS Inventory`: the calls of the saga are the calls of the inventory module |
| `Outbox` | `orders/outbox/` | claims with leases, no clock |
| `OrderAcceptance` | `acceptOrder` | the transaction is split at its commit |
| `PaymentGateway` | what `payment.service.ts` promises | abstract |
| `MockPsp` | `mockdata-psp.service.ts` | implements `PaymentGateway` |
| `SweepClaims` | `claimStale` and the passes of the sweeper, next to the job's retries | on a clock; `OrderSaga` leaves the time out and claims at any moment |
| `OrderPage` | the order form of the web page | `EXTENDS OrderAcceptance`: its requests are handled by that module |
| `OrderRequests` | one request after the other: header, body, fingerprint, look-ups, prices, answer | data and order of checks; the interleaving is in `OrderAcceptance` |
| `MockData` | upserts, seeds and deletes of the mock-data collections | an upsert is a match and an insert, one only under a unique index |
| `DataScreen` | the data screen of the web page | `EXTENDS MockData` |
| `MC...` | small instances for TLC | values of constants and symmetry only |
| `...Proofs` | TLAPS proofs of the module they are named after | `OrderSagaProofs` also holds the refinement of `OrderLifecycle`, `OrderPageProofs` the theorems about `OrderAcceptance`, `MockDataProofs` those about `MockPsp` and `DataScreen` |
| `SumTheorems` | what `SumFunctionOnSet` computes | used by the proofs of the conservation of stock, of the top-ups and of the totals |

### Inventory

`call[c]` is the service call that caller `c` awaits. `FindPrior`, `FindCandidateWarehouses`
and `TryReserveAt` are the three awaits of `reserveForOrder`; `Release` is the
transaction of `releaseForOrder`. The candidates are a set and `Nearest` picks from
it, which is the sorted array of the code. A transaction is atomic: snapshot reads,
the unique index and write-conflict retry leave a transaction only two outcomes, all
of its writes on the current state or none. The two ways in which a concurrent release ends as
`"noop"` (reading the row, colliding with it) are one. The ranking query is a single
read; MongoDB's aggregation may see some warehouses earlier than others. The model's
later decrements do not depend on it, and `NearestFirst` is claimed of the atomic read only.

### Order saga

`worker[w].pc` and `sweeper[s].pc` are positions between awaits. A fault ends the
handler at any of its positions; since each effect is a step of its own, a fault
before and a fault after the effect are both behaviours, which covers crashes,
exceptions and lost answers. What the provider was asked may happen later
(`authorizing`, `Charge`), even after the worker that asked is gone. `order.warehouseId`,
`paymentResult` and `failureCode` are kept, messages and amounts are not.
A sweeper may claim any non-terminal order at any time: staleness and lease only rate
the sweep, so every schedule they allow is among the behaviours of the model, and
also a sweep that races a delivery more tightly than the defaults (five minutes) make likely.

### Outbox

A claim is `"live"` or `"stale"`; `LeasePeriodPasses` and `BackoffElapses` are the
passage of time. `relay[r].attempts` is the number the claim returned, `leased` a
history of whether that claim's window is open; no action looks at it.
`requeueForAggregate` has no caller and is not modelled.

### Acceptance

An order's id is the request that made it. Between `Insert` and `Commit` the key is held but
`findByIdempotencyKey` does not see the order: that is the window for which
`awaitWinner` exists. `Fault` is an exception (the client gets a 500) or the death of
the instance at any await. A client's retry is another request with the same key.

### Sweep claims

`age[o]` and `lease[o]` are the distances to `updatedAt` and `sweepLeaseUntil` in ticks. What is
immediate at that scale (a claim, a transition) happens between ticks, and `Tick`
waits for it; handlers, attempts, backoffs take up to a constant. A pass is a cron firing of one
instance or another, over the four statuses in the order of `sweep()`, with its own batch count. `Poisoned`
orders are those whose handler always throws. `sinceClaim` is a history.
Handlers last up to `HandlerTime`: in the instance as long as the lease, so that a second pass takes an order that the first still has in hand.
`PoisonDoesNotStarve` holds under three conditions, none of which the code enforces: the lease is longer than the interval, handlers do not outlast it (with
`HandlerTime` one tick above `Lease` TLC finds both passes at the poisoned order for ever), and there are no more poisoned orders than the batches of one lease cover.
A lease longer than the staleness, and handlers that outlast their lease, are not in the run; that claims are spaced then too is the theorem `OneClaimPerWindow`.
`RetriesAreLeftAlone` needs the staleness above the delay until the first delivery and the whole retry
budget, which the code asks of the operator in a comment and does not check: the instance
has `StaleAfter` one tick above it, and the mutant that is stale one tick earlier fails.

### Order page

`page[p].key` is the key in the form. `Submit` sends a request with it, or with a fresh one if the field
is blank; the answer may arrive, or the connection fail, while the handler goes on. The field is an open text input
(`src/frontend/index.html:25`): at any time the customer may empty it or put another key there, an old one or one that another client
uses (`EditKey`; the keys that he may type are the bound `TypedKeys`). `purchase`, `past`, `reported` and, in a page, `filled` and `origin` are histories: the
key that the page itself filled in last, and whether the awaited request was sent with that one, a generated or a typed one. Attempts with a typed
key or a blank field are made but not counted as attempts of the purchase, since nothing protects them: each blank one has a key of its own, and a success
under an old key that was typed in again names the old order. Attempts under the page's own key are protected also when others come between them.

### Requests

Ids carry their spelling, since the code compares some ids as strings (the duplicates of a body, the catalog's
answer, the fingerprint) and some as ObjectIds (the look-up by key). A price is any positive decimal, since `CreateProductDto` sets no limit on its size or its decimals
(`mockdata/dto/create-product.dto.ts:14-16`, and `step="any"` in `src/frontend/app.js:398`): a number of parts, `Parts` of which are a cent. A float
is an integer times a power of two with `Mantissa` bits, 13 in the instance and 53 in the program, so that rounding shows at small prices; its exponent has no bounds
in the model. What `MoneyIsRoundedOnce` says is therefore not that the customer pays the catalog price, but that he pays the nearest cent for a piece, and no other
rounding on top of it. The instance has a price of whole cents whose float product is not, and one of half a cent. That the rounding finds the nearest
cent for all prices of that width, TLC evaluates too (`PricesAreNearest` in `MCOrderRequests`); it is proved for every width from four bits on. `Sorted` chooses an order
in which no item comes before an earlier one, whatever algorithm finds it; `sort()` is stable and such an order is unique
for the distinct items of a valid body, which is proved too.

### Data screen

`cards` are the list cards in document order; `call[i]` is a running function with the
list element it captured, which may have left the document, and the `answer` of its GET, which it renders there
once it arrives. `seen` is a history.
Names that the address filter treats alike are one name.

Mutants. Beside a definition stands, where a property needs one, a variant with a
plausible bug, commented `Mutant`. Putting the variant in the definition's place
makes TLC find the property violated.

## 3. Runs

| Run | Instance | What it shows |
|---|---|---|
| `inventory` | 2 callers, 3 orders (one of two units of one product and one of another), 2 warehouses | types, ledger, conservation of stock, true answers, nearest first, refinement of `ReservationLedger`; every call that keeps running is answered |
| `saga` | 2 orders for 1 unit, 2 workers, 1 sweeper, 1 delivery each, 1 fault | documents, ledger and charges agree; what is unwound though charged can be told; refinement of `OrderLifecycle`; the sweeper alone settles every order |
| `saga_races` | 1 order delivered twice, 2 workers, 2 sweepers, 2 warehouses, 2 faults | the life cycle, its units and money, and the stock, for one order worked by four actors |
| `saga_fault_free` | 1 order delivered three times, 2 workers, 2 sweepers, 2 warehouses, no fault | stock of failed orders comes back |
| `outbox` | 2 relays, 2 events, 2 attempts, 3 faults | marks are true, nothing is given up early, every event comes to rest |
| `acceptance` | 1 page, 4 requests (two equal, the next purchase, and one of another client with the first key and another body), a key field that may be emptied or get the first key again | one order for a key and for a purchase, true answers and reports, an answer for everybody, the form comes back |
| `psp` | 4 requests, two keys | refinement of `PaymentGateway` |
| `sweep` | 2 passes, a sound and a poisoned order, batches of one, handlers as long as their lease | claims are spaced, retries left alone, no claim lingers, nobody starves |
| `requests` | 2 requests in a row, around every bound | distinct products, meaning of replays, money rounded once |
| `administration` | 2 concurrent writes and a seed, 3 functions of the page, one delete | top-ups, snapshots, the list of the active tab, saves that are shown |

Type invariants that are proved (`SagaTypeOK`, `PspTypeOK`, `SweepTypeOK`, `PageTypeOK`) are not run again, nor is
`OrdersAreAnnounced`.

Bounds, all named constants: `MaxSupply` (stock is only raised to it), `MaxDeliveries`,
`MaxFaults`, `MaxRelayFaults`, `Looks` (five in the code; the wait is the same loop with one), `MaxRequests`, `MaxRemoves`, `TypedKeys`, and
in `SweepClaims` `Horizon`, `HandlerTime`, `DispatchTime` and `AttemptTime`.
They are enough for what can go wrong: a race needs two actors of a kind (the
sweeper against the worker one of each), a contended unit needs two orders, a
stale candidate needs a second warehouse, starvation needs a batch that one poisoned order fills,
a renewed key needs a second purchase, overlapping loads need a save and two clicks, an unwound step needs one fault and a
fault in the recovery a second. The proofs remove these bounds for the invariants.
`CHECK_DEADLOCK FALSE` stands where a bounded system really comes to its end.

Fairness. `SweeperFairness`: the cron schedule never stops, and the handler of a
claimed order goes on (`sweepState` catches what it throws; faults are bounded), so a look-up at
the provider is answered in the end; an authorization need not be. It
assumes `sweeper.enabled`, the default, and no order whose handler throws for ever.
`WorkerFairness`, used only in `saga_fault_free`: a worker that holds a job goes on, and
the provider answers. `OutboxFairness`: the interval fires and time passes.
`InventoryFairSpec`: a call goes on until it answers.
`FairPageSpec`: a handler goes on until it answers, an answer arrives or the connection breaks
(`Succeed`, `Refused`), and the reload ends. `FairSweepSpec`: time passes, passes go on, and the queue
starts and ends attempts, without being obliged to move an order. No fairness is assumed of the queue elsewhere.

### What the code does otherwise than it says

Each of these runs checks one statement of a comment and finds it violated.

| Run | Statement | Counterexample |
|---|---|---|
| `charged_and_restocked` | an order is not charged and restocked (`order-reconciliation.service.ts:142`) | the sweeper asks, "no record", while the worker is about to charge; it compensates; the charge arrives |
| `customer_deleted_after_charge` | of a customer who is gone nothing can have been charged (`order-saga.processor.ts:119`) | charged, answer lost, customer deleted, redelivered |

`saga_fault_free` shows that without faults the units of an order that failed come back, and the inventory's
runs that the ledger stays consistent whatever the queue delivers; the money of these two runs needs an operator. Whom
to refund can be told: `ChargedUnwindsAreMarked`, checked and proved, says that every such order has the code `RECONCILED_NO_CHARGE` or a deleted customer.

The modules state more such sentences, which have no run of their own. With the named formula
in place of the properties of a run (and the instance given) TLC finds each violated.

| Formula | Statement | Counterexample |
|---|---|---|
| `OrderSaga!OutOfStockMeansUnreserved`, the instance of `saga_races` | out of stock means nothing was reserved (`order-saga.processor.ts:104`) | two deliveries of one job; the second ranks after the first took the last unit |
| `OrderSaga!NothingStranded`, the same | a failed handler leaves nothing inconsistent (`order-reconciliation.service.ts:90`) | failed, then dead before the release; FAILED is never swept. It takes a fault: `OnlyFaultsStrandUnits` |
| `Outbox!AttemptsAreBounded`, the instance of `outbox` | a row that kills its relay stops at maxAttempts (`outbox.repository.ts:37`) | the claim never compares attempts |
| `Outbox!GivenUpMeansUnseen`, the same | no worker will ever see a FAILED event (`outbox.repository.ts:76`) | queued, the mark fails, on the last attempt |
| `Outbox!OneRelayPerLease`, the same | one relay per lease window (`outbox-relay.service.ts:23`) | a late `markRetry` removes another relay's claim |

Smaller ones, met while modelling and visible in the definitions:

- `mockdata-addresses.service.ts:59` says that re-adding an address updates it; the collection has no unique index, so
  concurrent creates, or two instances that seed it, leave duplicates (`MockData!Insert`).
- `orders.service.ts:22` says that logically identical bodies hash the same; an id in another letter case
  is the same customer to `findByIdempotencyKey` and another string to the fingerprint, so the replay is refused
  as `IDEMPOTENCY_KEY_REUSED` (`OrderRequests!RepliesMatchMeaning` allows for it).
- A catalog or geocoder that does not answer is reported as 422 `PRODUCT_NOT_FOUND` or `ADDRESS_NOT_GEOCODABLE`, a customer directory
  that does not answer as 500 (`NoProducts`, `NoCoordinates`, `NoCustomer`).
- `orders.service.ts:37` says that no float touches money: `price * 100` is one, and a price may have fractions of a cent. Each piece is rounded
  to the nearest cent and then multiplied: 1000 pieces at 0.125 are 13000 cents, not 12500, and a price below half a cent is charged as nothing. Of the rounded
  prices the total is the exact sum as long as it fits the mantissa, which the limits of the body do not ensure, prices having none (`MoneyIsRoundedOnce`).
- `env.validation.ts` validates `''` as absent, while `orders.config.ts` reads it as `Number('')`, which is 0.
- `transition` removes the claim on every change, not only on the last as its comment suggests;
  `claimStale`'s window is therefore the lease or the staleness, whichever is shorter (`Window`).
- Tabs clicked faster than their options load leave list cards of other tabs below the active one.

## 4. Proofs

`tlapm` checks every proof to its leaves, from the named assumptions of the modules only
(finite domains are not assumed; `Items`, `Distance` and `InitialStock` are functions to the naturals).

`InventoryProofs`. `InventoryInv` is `InventoryTypeOK` and `LedgerConsistent` strengthened by what the calls in
flight rely on: a call that was answered has its row in the ledger. It is inductive, one lemma
per action. `NearestFirst` needs three more: stock only falls while `OnlyTaken`
holds; supply grows only by `AddStock`; and every warehouse that could serve the order now
but is not among a call's candidates has been tried and was insufficient
(`CandidatesComplete`), which stays true because stock only falls.

`OrderSagaProofs`. `StatusMatchesLedger` and `StatusMatchesCharge` are not inductive: whether a `transition`
keeps them depends on what its caller learnt several awaits ago. `SagaInv` adds, for each
actor, what it `Relies` on at its position (a worker in `charging` knows the order is past
PENDING; a sweeper in `advance` knows the charge succeeded), and `ChargesAreOwed`: every order being
authorized is reserved. The key fact, `OthersRely`, is that a step of one actor keeps what
every other relies on: the ledger only grows, a charge is final, and a status never returns. From
it follows one lemma per action, and the theorems.

The refinement of `OrderLifecycle`: the mapping reads `Units` off the ledger. Each step of worker, sweeper and inventory
is an edge of the diagram, a change of units or money it needs, or a stutter; that a `transition` is an edge the
diagram allows is what `SagaInv` says of its caller.

The refinement of `ReservationLedger`: `Decremented` and `Incremented` are `Take` and `GiveBack`, all else stutters or supplies.

`StockConserved`, in `InventoryProofs`. The units held are a sum over the orders that have a reservation and no
release. Each step adds one order to that set or takes one out of it, so that the sum changes by exactly what
the shelf does; that the order was not, or was, in the set before is `LedgerConsistent`. A sum over an infinite set is
no number, and nothing assumes the orders to be finitely many: what the proof uses is that only finitely many have a row in
the ledger, since every step writes at most one (`LedgerIsFinite`).

The saga as a client of the inventory. `SagaIsAClient`: every behaviour of the saga, its faults included, is a behaviour of `InventorySpec` with workers
and sweepers as callers. They begin a call only when they have none, which is in `Relies`; an answer taken, or lost with whoever waited for it, is a
caller that hangs up. So the conservation of stock, the refinement of `ReservationLedger` and `NearestFirst` hold under the saga too.

Stranded units. `NothingStranded` holds until the first fault (`OnlyFaultsStrandUnits`), by `UnitsComeBack`: whenever a FAILED order
holds units, some worker is still about to read its status or to hear of its reservation, or somebody has asked for its release. No step but
`WorkerFault` and `SweeperFault` takes that actor away. It is the safety half of `FailedOrdersReturnStock`.

Unwound orders. `ChargedUnwindsAreMarked` is not inductive, since the charge may arrive after the order was unwound. `UnwindsAreMarked`
asks for the mark of every unwound order whose charge was not declined, before there is one; that a sweeper which takes a charge for declined is
right about it is in `Relies`.

`SumTheorems`. A fold takes the elements of a set in the order that `CHOOSE` gives, so nothing about it is obvious, not even that
a sum has a value. The module builds the table of the sums of all subsets of a finite set, which any two such
recursions share, and derives what a sum is when an element is taken out, whichever it is. The library's induction theorems have an operator
parameter, which the provers cannot instantiate; `SubsetInduction` takes a set in its place and comes from the
library's theorem that strict inclusion among the subsets of a finite set is well founded.

`OutboxProofs`. A relay that is about to mark has made the job, and its attempts are
at most the row's; that makes both invariants of the outbox inductive.

`SweepClaimsProofs`. A claim within the window still has its lease, or the order is too young: `lease` and `age` both
run with `sinceClaim`. For the retries, an order's age is at most what its job has used
of its budget, from the assumption that the staleness exceeds delivery delay and budget.

`OrderPageProofs`, on the acceptance. A transaction about to commit holds its key (`CommitsHoldTheirKey`); with it
the four invariants are inductive.

`OrderPageProofs`, on the pages. Every step of the pages is a step of `OrderAcceptance` (`PagesAreClients`), so its theorems carry over. The attempts
of a purchase share a key, and the key that the page filled in last is one under which nothing was reported.

`MockDataProofs`, on the provider. `WorkIsFounded`: a handler past its look-up holds a verdict for its own key, or a charge on record.

`MockDataProofs`, on the data screen. `ScreenInv` strengthens the invariants of run `administration` by what overlapping functions leave each
other. `ListsBelong`: a list belongs to one tab for ever, also off the page. `ContentsAreSeen`: what it shows, or an answer under way to it, was once a
state of that tab's collection. `LoadsAreUnderWay`: the function of the last click either still awaits its options or its tab has a list, and a
first list that says "LOADING" has a function that will render into it, which is why the page cannot come to rest with it.
`SavesAreFetched`, with `Stored`: once a POST is done, its document is in the collection until one is deleted, so every later answer has it; where nothing
is deleted, its value only grows. `TopUpsCount` adds one write to the sum for one `$inc`; only finitely many writes are ever done, which makes the sum a number for any set of them.

`OrderRequestsProofs`. Three subjects. *Money*: `Scale` brings a price to at least `Mantissa` bits, so that the float of the price is off by at most half a unit of the last place; times 100 and
rounded again (at most seven bits more, `FloatIsClose`), it is off by less than half of one of the parts of a cent as long as the price, in parts, has three bits less
than the mantissa. An error that small does not move a price across the middle between two cents, at most onto it, so `Math.round` finds a nearest cent (`MinorUnitsAreNearest`):
that very price, if it is whole cents, and either neighbour for one that ends in exactly half a cent. Nothing is assumed of the prices but
that they are positive; the theorem is about those with the three bits to spare. That every quotient has a float is `FloatsExist`, since powers of two outgrow multiples. `Mantissa >= 4` is all that the argument needs of the
format; a float of the program has 53. Below `2 ^ Mantissa` a sum of integers is not rounded at all, and the lines before the last sum up to no more than the whole.
The provers know nothing of powers with a variable exponent: that `2 ^ (n + 1) = 2 * 2 ^ n` is derived from the number of subsets of `1..n`.
*Fingerprints*: distinct items have an order in which none comes before an earlier one, by the rank of each, and only one;
so two bodies with the same set of items have the same fingerprint, and two with the same fingerprint the same meaning. *Products*:
the constraint leaves no two equal strings, the catalog one spelling of an id. `RequestsInv` says of every order what it kept of its request.

| Theorem | Establishes |
|---|---|
| `InventoryTypeCorrect`, `LedgerStaysConsistent`, `AnswersAreTrue` | the invariants of run `inventory`; no quantity is ever negative |
| `StockIsConserved` | shelf and held units add up to the supply, for every product and warehouse |
| `NearestWarehouseServes` | the action property `NearestFirst` |
| `SagaTypeCorrect`, `SagaInventorySafe` | types, and the inventory's invariants under the saga |
| `SagaIsAClient`, `SagaConservesStock`, `SagaSeesTheLedger`, `SagaServesNearest` | what the inventory promises to any callers it keeps under the saga |
| `OnlyFaultsStrandUnits` | `NothingStranded` until the first fault |
| `ChargedUnwindsAreAlwaysMarked` | a charged order that is unwound can be told, however late the charge arrives |
| `DocumentsMatchLedger`, `DocumentsMatchCharge` | agreement of documents with ledger and provider, any number of actors, deliveries, faults |
| `OutboxTypeCorrect`, `DispatchedEventsHaveJobs`, `GivenUpEventsAreExhausted` | the invariants of run `outbox` |
| `ServiceImplementsLedger`, `SagaImplementsLifecycle`, `PspKeepsItsPromises` | the three refinements |
| `AcceptanceTypeCorrect`, `KeysHaveOneOrder`, `OrdersHaveEvents`, `AnswersTellTheTruth` | one order and event for a key, true answers, any number of requests |
| `PagesAreClients`, `PageTypeCorrect`, `PurchasesMakeOneOrder`, `ReportsAreCorrect`, `ReportsAreDistinct` | the same from the customer's side, any number of pages and attempts |
| `SweepTypeCorrect`, `ClaimsAreCleared`, `OneClaimPerWindow`, `StalenessBeyondBudget` | the safety of run `sweep`; the last assumes `StaleAfter > DispatchTime + BudgetFrom[1]` |
| `PspTypeCorrect` | the types of the provider |
| `ScreenTypes`, `TopUpsAllCount`, `EveryListIsASnapshot`, `LastTabIsListed`, `SavesAreAlwaysShown` | all properties of run `administration`, any number of writes, functions and collections |
| `MinorUnitsAreNearest`, `MoneyIsAlwaysRoundedOnce` | the nearest cent for a piece, for every price of three bits less than the mantissa, fractions of a cent included; the total is exactly the sum of those, if it fits the mantissa |
| `OrdersNameProductsOnce`, `RepliesAreMeant` | products are distinct, replays mean what the order means, for any requests |

Every invariant and every action property that a passing run checks is a theorem, and so are the three refinements. Only model-checked is
liveness, which the prover cannot treat: `CallsAreAnswered`, `EveryOrderSettles`, `FailedOrdersReturnStock`, `EventsComeToRest`,
`RequestsAreAnswered`, `SubmissionsEnd` and `PoisonDoesNotStarve`.

## 5. Not modelled

- Outside the models of the mock data: creating products, customers and warehouses, which only inserts.
- The character class of addresses, path and query parameters, `ParseObjectIdPipe`: stateless formats.
- Reads (`getOrder`, `listOrders`), bodies of answers, HTTP itself, database connections.
- Configuration other than the sweeper's bounds, dependency injection: values, which are constants here.
- Order details, item rows, reference data and theming of the web page: display only.
- Clock skew between instances: the clock of `SweepClaims` is one.

## 6. Plan

1. Done: inventory, saga, outbox, acceptance, provider, sweep, requests, page, data; their invariants and refinements, and the proofs above.
2. `OrderSystem`: acceptance, outbox, queue and saga composed, an accepted order settles end to end.
3. Done: the conservation of stock, the data screen and the requests proved.
4. The safety half of the liveness properties, the invariant that says who still has the step to take: done for `FailedOrdersReturnStock`, left for the others.
