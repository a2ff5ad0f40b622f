--------------------------- MODULE OrderAcceptance ---------------------------
(***************************************************************************)
(* The write path of an order (acceptOrder, src/orders/orders.service.ts): *)
(* any number of concurrent requests, several of them with the same        *)
(* idempotency key, each of them split where the code awaits the database. *)
(* The transaction is split at its commit, because a key is held from the  *)
(* insert on and what holds it can be seen only after the commit.          *)
(***************************************************************************)
EXTENDS Integers, FiniteSets

CONSTANTS
    Requests,      \* HTTP requests: a client's retry is a request of its own
    Key,           \* Key[r]: the customer and Idempotency-Key header of r
    Body,          \* Body[r]: the fingerprint of the body of r
    Looks,         \* how often awaitWinner looks for the winner
    NoRequest

ASSUME OrderAcceptanceAssumption ==
    /\ Looks \in Nat
    /\ NoRequest \notin Requests
    /\ DOMAIN Key = Requests /\ DOMAIN Body = Requests

VARIABLES
    orders,     \* the committed orders; the id of an order is the request that made it
    events,     \* ids of the orders with a committed ORDER_CREATED event
    holding,    \* requests with an open transaction that has inserted its order
    request     \* request[r]: where the handler of r is

acceptanceVars == <<orders, events, holding, request>>

Handler == {"unsent", "lookup", "reads", "insert", "commit", "await", "created", "answered", "lost"}
Answer == {"none", "accepted", "key_reuse", "conflict", "unprocessable", "error"}

(* "orderId" is the order of an "accepted" answer, the 202; "key_reuse" is *)
(* the 422, "conflict" the 409 of ConcurrentRequestError.                  *)
RequestState == [at : Handler, looks : 0..Looks, answer : Answer,
                 orderId : Requests \cup {NoRequest}]

AcceptanceTypeOK ==
    /\ orders \subseteq Requests
    /\ events \subseteq Requests
    /\ holding \subseteq Requests
    /\ request \in [Requests -> RequestState]

AcceptanceInit ==
    /\ orders = {} /\ events = {} /\ holding = {}
    /\ request = [r \in Requests |-> [at |-> "unsent", looks |-> 0, answer |-> "none",
                                      orderId |-> NoRequest]]

Goes(r, at) == request' = [request EXCEPT ![r].at = at]
Respond(r, answer, o) ==
    request' = [request EXCEPT ![r].at = "answered", ![r].answer = answer, ![r].orderId = o]

-----------------------------------------------------------------------------
(* findByIdempotencyKey sees committed orders only.                        *)
Found(r) == {o \in orders : Key[o] = Key[r]}

(* Mutant: the bodies are not compared.                                    *)
ReplayAnyBody(r, o) == Respond(r, "accepted", o)

(* resolveReplay: the order that has the key, or the 422.                  *)
ResolveReplay(r, o) ==
    IF Body[o] = Body[r] THEN Respond(r, "accepted", o) ELSE Respond(r, "key_reuse", NoRequest)

Send(r) ==
    /\ request[r].at = "unsent"
    /\ Goes(r, "lookup")
    /\ UNCHANGED <<orders, events, holding>>

FastPath(r) ==
    /\ request[r].at = "lookup"
    /\ IF Found(r) = {} THEN Goes(r, "reads") ELSE \E o \in Found(r) : ResolveReplay(r, o)
    /\ UNCHANGED <<orders, events, holding>>

(* Customer, products, coordinates and prices: reads that may refuse.      *)
LoadAndPrice(r) ==
    /\ request[r].at = "reads"
    /\ Goes(r, "insert") \/ Respond(r, "unprocessable", NoRequest)
    /\ UNCHANGED <<orders, events, holding>>

(* Mutant: the unique index leaves out open transactions.                  *)
TakenByCommitted(r) == \E o \in orders : Key[o] = Key[r]

(* The unique index on customerId and idempotencyKey. (A write conflict    *)
(* that makes the driver retry is a transaction that has not begun yet.)   *)
KeyTaken(r) == \E o \in orders \cup holding : Key[o] = Key[r]

(* The inserts of the order and of its event, invisible until the commit.  *)
Insert(r) ==
    /\ request[r].at = "insert"
    /\ IF KeyTaken(r) THEN Goes(r, "await") /\ UNCHANGED holding
       ELSE Goes(r, "commit") /\ holding' = holding \cup {r}
    /\ UNCHANGED <<orders, events>>

(* Mutant: the event is written after the transaction, by the handler.     *)
CommitOrderOnly(r) ==
    /\ \/ request[r].at = "commit" /\ orders' = orders \cup {r} /\ UNCHANGED events
          /\ holding' = holding \ {r} /\ Goes(r, "created")
       \/ request[r].at = "created" /\ events' = events \cup {r}
          /\ UNCHANGED <<orders, holding, request>>

Commit(r) ==
    /\ request[r].at = "commit"
    /\ orders' = orders \cup {r}
    /\ events' = events \cup {r}
    /\ holding' = holding \ {r}
    /\ Goes(r, "created")

(* Mutant: awaitWinner goes on looking until the winner shows.             *)
AwaitForEver(r) ==
    /\ request[r].at = "await"
    /\ \E o \in Found(r) : ResolveReplay(r, o)
    /\ UNCHANGED <<orders, events, holding>>

(* Mutant: it looks once too often.                                        *)
AwaitOnceMore(r) ==
    /\ request[r].at = "await"
    /\ \/ \E o \in Found(r) : ResolveReplay(r, o)
       \/ /\ Found(r) = {} /\ request[r].looks <= Looks
          /\ request' = [request EXCEPT ![r].looks = @ + 1]
       \/ /\ request[r].looks > Looks
          /\ Respond(r, "conflict", NoRequest)
    /\ UNCHANGED <<orders, events, holding>>

(* awaitWinner, one look at a time, and what is done with the winner.      *)
AwaitWinner(r) ==
    /\ request[r].at = "await"
    /\ \/ \E o \in Found(r) : request[r].looks < Looks /\ ResolveReplay(r, o)
       \/ /\ Found(r) = {} /\ request[r].looks < Looks
          /\ request' = [request EXCEPT ![r].looks = @ + 1]
       \/ /\ request[r].looks = Looks
          /\ Respond(r, "conflict", NoRequest)
    /\ UNCHANGED <<orders, events, holding>>

(* The order is read again for the answer. *)
Created(r) ==
    /\ request[r].at = "created"
    /\ r \in orders
    /\ Respond(r, "accepted", r)
    /\ UNCHANGED <<orders, events, holding>>

(* An await throws, which is the 500 if the instance survives, or loses    *)
(* its answer, or the instance dies: an open transaction is aborted, what  *)
(* was committed stays.                                                    *)
Fault(r) ==
    /\ request[r].at \notin {"unsent", "answered", "lost"}
    /\ holding' = holding \ {r}
    /\ Respond(r, "error", NoRequest) \/ Goes(r, "lost")
    /\ UNCHANGED <<orders, events>>

Handle(r) ==
    \/ FastPath(r) \/ LoadAndPrice(r) \/ Insert(r) \/ Commit(r)
    \/ AwaitWinner(r) \/ Created(r)

AcceptanceNext == \E r \in Requests : Send(r) \/ Handle(r) \/ Fault(r)

AcceptanceSpec == AcceptanceInit /\ [][AcceptanceNext]_acceptanceVars

-----------------------------------------------------------------------------
(***************************************************************************)
(* Properties.                                                             *)
(***************************************************************************)

(* A key never has two orders, nor an order and a transaction about to     *)
(* commit another, however many requests race for it.                      *)
OneOrderPerKey ==
    \A o, q \in orders \cup holding : Key[o] = Key[q] => o = q

(* An order and its event exist together or not at all: the transactional  *)
(* outbox.                                                                 *)
OrdersAreAnnounced == orders = events

(* Every 202 names a committed order with the key and the body of its      *)
(* request, the 422 is given only when the key has another body's order;   *)
(* so no client is answered with somebody else's order.                    *)
AnswersAreTrue ==
    \A r \in Requests :
        /\ request[r].answer = "accepted" =>
               /\ request[r].orderId \in orders
               /\ Key[request[r].orderId] = Key[r] /\ Body[request[r].orderId] = Body[r]
        /\ request[r].answer = "key_reuse" =>
               \E o \in orders : Key[o] = Key[r] /\ Body[o] # Body[r]

(* Every request that is sent is answered or lost, also when the winner it *)
(* waits for aborts.                                                       *)
RequestsAreAnswered ==
    \A r \in Requests : request[r].at = "lookup" ~> request[r].at \in {"answered", "lost"}
=============================================================================
