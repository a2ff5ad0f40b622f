----------------------------- MODULE OrderRequests -----------------------------
(***************************************************************************)
(* What POST /orders makes of a request, one at a time: the header, the    *)
(* validation of the body, the fingerprint, the lookups, the prices and    *)
(* the status of the answer.  How concurrent requests interleave is in     *)
(* OrderAcceptance, whose Key and Body are the key and the fingerprint of  *)
(* this module.                                                            *)
(*                                                                         *)
(* An id is an ObjectId and its spelling, a text is what is left of it     *)
(* after trim() and the blanks around it.                                  *)
(***************************************************************************)
EXTENDS Integers, Sequences, FiniteSets, SequencesExt

CONSTANTS
    Headers,       \* Idempotency-Key headers: [key, length]
    CustomerIds,   \* customer ids in requests: [oid, spelling]
    Addresses,     \* shipping addresses in requests: [text, blanks]
    ItemLists,     \* items in requests: sequences of [product: [oid, spelling], quantity]
    Customers,     \* oids that the customer directory knows
    Price,         \* Price[oid]: the price in the catalog, any positive number of parts
    Parts,         \* how many parts a cent has: decimals of the prices beyond the cents
    Geocodable,    \* texts that the geocoder knows
    Length,        \* Length[text]
    MaxKeyLength,  \* MAX_IDEMPOTENCY_KEY_LENGTH
    MinAddress, MaxAddress, MaxItems, MaxQuantity,   \* the bounds of CreateOrderDto
    Mantissa,      \* the bits of a float, 53 in the code
    MaxRequests    \* bound: requests, one after the other

NoKey == ""
Canonical == "lower"

ASSUME OrderRequestsAssumption ==
    /\ {MaxKeyLength, MinAddress, MaxAddress, MaxItems, MaxQuantity, MaxRequests} \subseteq Nat
    /\ Mantissa \in Nat /\ Mantissa >= 4
    /\ ItemLists \subseteq Seq([product : [oid : Nat, spelling : {"lower", "upper"}], quantity : Int])
    /\ Parts \in Nat \ {0}
    /\ \A p \in DOMAIN Price : Price[p] \in Nat \ {0}

VARIABLES
    orders,    \* the orders that were made
    asked,     \* the last request
    reply,     \* the answer to it
    handled    \* how many were answered

requestVars == <<orders, asked, reply, handled>>

Request == [header : Headers, customer : CustomerIds, address : Addresses, items : ItemLists]

-----------------------------------------------------------------------------
(* The request is well formed.                                             *)

(* extractIdempotencyKey, after trim(). *)
HeaderError(q) ==
    IF q.header.key = NoKey THEN "IDEMPOTENCY_KEY_REQUIRED"
    ELSE IF q.header.length > MaxKeyLength THEN "IDEMPOTENCY_KEY_TOO_LONG"
    ELSE "none"

ProductStrings(items) == {items[k].product : k \in DOMAIN items}

(* UniqueProductIdsConstraint compares strings: another spelling is        *)
(* another id to it.                                                       *)
UniqueProductIds(items) == Cardinality(ProductStrings(items)) = Len(items)

(* CreateOrderDto. The address is measured with its blanks.                *)
ValidBody(q) ==
    /\ Length[q.address.text] + q.address.blanks \in MinAddress..MaxAddress
    /\ Len(q.items) \in 1..MaxItems
    /\ \A k \in DOMAIN q.items : q.items[k].quantity \in 1..MaxQuantity
    /\ UniqueProductIds(q.items)

-----------------------------------------------------------------------------
(* The fingerprint.                                                        *)

Before(i, j) ==
    \/ i.product.oid < j.product.oid
    \/ i.product.oid = j.product.oid /\ i.product.spelling = "lower" /\ j.product.spelling = "upper"

(* Mutant: the items are hashed in the order in which they came.           *)
Unsorted(q) == <<q.customer, q.address.text, q.items>>

(* An order of the items in which none comes before an earlier one: sort().*)
Sorted(items) ==
    LET place == CHOOSE p \in Bijection(DOMAIN items, DOMAIN items) :
                     \A i, j \in DOMAIN items : i < j => ~Before(items[p[j]], items[p[i]])
    IN  [i \in DOMAIN items |-> items[place[i]]]

(* fingerprintRequest. A hash is as good as what it hashes.                *)
Fingerprint(q) == <<q.customer, q.address.text, Sorted(q.items)>>

-----------------------------------------------------------------------------
(* Money. A price is any positive decimal (CreateProductDto has no limit), *)
(* so n parts of a cent. A float is an integer over a power of two; its    *)
(* exponent has no bounds here.                                            *)

RoundedDiv(a, b) ==
    IF 2 * (a % b) < b \/ (2 * (a % b) = b /\ (a \div b) % 2 = 0) THEN a \div b ELSE a \div b + 1

(* a / b to Mantissa bits, if it has more bits than that before the point. *)
Float(a, b) ==
    LET k == CHOOSE k \in 0..a :
                 a < b * 2 ^ (Mantissa + k) /\ (k = 0 \/ a >= b * 2 ^ (Mantissa + k - 1))
    IN  RoundedDiv(a, b * 2 ^ k) * 2 ^ k

(* The power of two that brings n parts, in units, to Mantissa bits.       *)
Scale(n) ==
    CHOOSE e \in 0..(Mantissa + Parts + 7) :
        /\ 100 * Parts * 2 ^ (Mantissa - 1) <= n * 2 ^ e
        /\ e = 0 \/ n * 2 ^ (e - 1) < 100 * Parts * 2 ^ (Mantissa - 1)

(* The price as JSON.parse reads it, times 100, as a float.                *)
Hundredfold(n) == Float(100 * Float(n * 2 ^ Scale(n), 100 * Parts), 1)

(* toMinorUnits: Math.round.                                               *)
ToMinorUnits(n) == (2 * Hundredfold(n) + 2 ^ Scale(n)) \div 2 ^ (Scale(n) + 1)

(* Mutant: Math.trunc instead of the helper.                               *)
CutUnitPrice(item) ==
    LET n == Price[item.product.oid] IN Hundredfold(n) \div 2 ^ Scale(n)

(* The lines of an order and, with their reduce, its total: priceOrder.    *)
UnitPrice(item) == ToMinorUnits(Price[item.product.oid])
TotalAmount(items) ==
    FoldLeft(LAMBDA sum, item : Float(sum + Float(UnitPrice(item) * item.quantity, 1), 1), 0, items)

-----------------------------------------------------------------------------
(* A request and its answer, in the order of the checks.                   *)

StatusOf(code) ==
    CASE code \in {"IDEMPOTENCY_KEY_REQUIRED", "IDEMPOTENCY_KEY_TOO_LONG", "VALIDATION_ERROR"} -> 400
      [] code \in {"IDEMPOTENCY_KEY_REUSED", "CUSTOMER_NOT_FOUND", "PRODUCT_NOT_FOUND",
                   "ADDRESS_NOT_GEOCODABLE"} -> 422
      [] code = "INTERNAL_ERROR" -> 500
      [] OTHER -> 202

NoReply == [status |-> 0, code |-> "none", order |-> 0]

RequestsInit ==
    /\ orders = {} /\ handled = 0
    /\ asked \in Request /\ reply = NoReply

(* findByIdempotencyKey: by ObjectId and trimmed key.                      *)
Existing == {o \in orders : o.customer = asked.customer.oid /\ o.key = asked.header.key}

Reply(code, id) ==
    /\ reply' = [status |-> StatusOf(code), code |-> code, order |-> id]
    /\ handled' = handled + 1
    /\ UNCHANGED asked

Refuse(code) == Reply(code, 0) /\ UNCHANGED orders

WellFormed == HeaderError(asked) = "none" /\ ValidBody(asked)

(* The header is looked at first: its error is thrown at once, that of the *)
(* body by a promise.                                                      *)
RejectMalformed ==
    /\ ~WellFormed
    /\ Refuse(IF HeaderError(asked) = "none" THEN "VALIDATION_ERROR" ELSE HeaderError(asked))

Replay ==
    /\ WellFormed
    /\ \E o \in Existing :
           IF o.fingerprint = Fingerprint(asked) THEN Reply("ACCEPTED", o.id) /\ UNCHANGED orders
           ELSE Refuse("IDEMPOTENCY_KEY_REUSED")

New == WellFormed /\ Existing = {}

CustomerKnown == asked.customer.oid \in Customers

(* The directory answers 404, or does not answer.                          *)
NoCustomer ==
    /\ New
    /\ (~CustomerKnown /\ Refuse("CUSTOMER_NOT_FOUND")) \/ Refuse("INTERNAL_ERROR")

(* Mutant: the answer of the catalog is not compared with the request.     *)
SomeProductsKnown(items) == \A k \in DOMAIN items : items[k].product.oid \in DOMAIN Price

(* getProductsById: the catalog answers with canonical ids, which are      *)
(* compared as strings with the ids of the request.                        *)
ProductsKnown(items) ==
    \A k \in DOMAIN items :
        items[k].product.oid \in DOMAIN Price /\ items[k].product.spelling = Canonical

(* Something is missing, or the catalog does not answer: one error.        *)
NoProducts == New /\ CustomerKnown /\ Refuse("PRODUCT_NOT_FOUND")

(* The address is unknown, or the geocoder does not answer: one error.     *)
NoCoordinates == New /\ CustomerKnown /\ ProductsKnown(asked.items) /\ Refuse("ADDRESS_NOT_GEOCODABLE")

Accept ==
    /\ New /\ CustomerKnown /\ ProductsKnown(asked.items) /\ asked.address.text \in Geocodable
    /\ orders' = orders \cup
          {[id |-> handled + 1, key |-> asked.header.key, customer |-> asked.customer.oid,
            fingerprint |-> Fingerprint(asked), request |-> asked,
            unitPrices |-> [k \in DOMAIN asked.items |-> UnitPrice(asked.items[k])],
            totalAmount |-> TotalAmount(asked.items)]}
    /\ Reply("ACCEPTED", handled + 1)

HandleRequest ==
    /\ reply = NoReply
    /\ RejectMalformed \/ Replay \/ NoCustomer \/ NoProducts \/ NoCoordinates \/ Accept

NextRequest ==
    /\ reply # NoReply /\ handled < MaxRequests
    /\ asked' \in Request /\ reply' = NoReply
    /\ UNCHANGED <<orders, handled>>

RequestsNext == HandleRequest \/ NextRequest

RequestsSpec == RequestsInit /\ [][RequestsNext]_requestVars

-----------------------------------------------------------------------------
(***************************************************************************)
(* Properties.                                                             *)
(***************************************************************************)

(* What the customer means: whose order, where to, how much of what.       *)
Meaning(q) ==
    [customer |-> q.customer.oid, address |-> q.address.text,
     items |-> {[product |-> q.items[k].product.oid, quantity |-> q.items[k].quantity]
                    : k \in DOMAIN q.items}]

(* No order names a product twice, whichever spelling it came in: the      *)
(* constraint catches equal strings, the catalog all but one spelling. The *)
(* reservation's conditional decrements rely on it.                        *)
ProductsAreDistinct ==
    \A o \in orders :
        Cardinality({o.request.items[k].product.oid : k \in DOMAIN o.request.items})
            = Len(o.request.items)

(* fingerprintRequest: a 202 names an order that means what was asked, its *)
(* items in any order, with any blanks; a key is called reused only when   *)
(* the body means something else, or spells an id differently, which the   *)
(* fingerprint keeps apart and the key does not.                           *)
RepliesMatchMeaning ==
    \A o \in orders :
        /\ reply.code = "ACCEPTED" /\ reply.order = o.id => Meaning(o.request) = Meaning(asked)
        /\ reply.code = "IDEMPOTENCY_KEY_REUSED" /\ o \in Existing =>
               \/ Meaning(o.request) # Meaning(asked)
               \/ <<o.request.customer, ProductStrings(o.request.items)>>
                     # <<asked.customer, ProductStrings(asked.items)>>

(* Prices in integer minor units: money is rounded once. The unit price    *)
(* that an order keeps is its catalog price to the nearest cent (that very *)
(* price, if it is whole cents), although it comes as a float of a currency*)
(* unit and is multiplied as one; the total is exactly the sum of unit     *)
(* price times quantity. Both as far as floats reach: the price has three  *)
(* bits less than a mantissa, the sum fits one. Any other price is charged *)
(* up to half a cent a piece too high or too low.                          *)
MoneyIsRoundedOnce ==
    \A o \in orders :
        LET items == o.request.items
            sum == SumFunctionOnSet([k \in DOMAIN items |-> o.unitPrices[k] * items[k].quantity],
                                    DOMAIN items)
        IN  /\ \A k \in DOMAIN items :
                  LET price == Price[items[k].product.oid]
                      cents == o.unitPrices[k]
                  IN  price < 2 ^ (Mantissa - 3) =>
                          2 * price \in ((2 * cents - 1) * Parts)..((2 * cents + 1) * Parts)
            /\ sum < 2 ^ Mantissa => o.totalAmount = sum
=============================================================================
