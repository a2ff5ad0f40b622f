------------------------------ MODULE OrderPage ------------------------------
(***************************************************************************)
(* The order form of the web page (frontend/app.js) in front of acceptOrder*)
(* (OrderAcceptance): what a customer who gets an error, or no answer at   *)
(* all, and submits again may find in the orders collection.               *)
(*                                                                         *)
(* A page keeps an idempotency key in its form and renews it when it is    *)
(* told of an order. A connection may fail at any time: the page then      *)
(* shows an error while the handler on the server goes on.                 *)
(***************************************************************************)
EXTENDS OrderAcceptance

CONSTANTS
    Pages,        \* browser tabs
    ApiRequests,  \* requests that another client of the API sends
    UUIDs,        \* keys that generateUUID may give
    TypedKeys,    \* bound: keys that a customer types in
    FirstKey,     \* FirstKey[p]: the key that init() gives page p
    NoKey         \* an empty key field

ASSUME OrderPageAssumption ==
    /\ NoKey \notin UUIDs
    /\ ApiRequests \subseteq Requests /\ TypedKeys \subseteq UUIDs
    /\ FirstKey \in [Pages -> UUIDs]
    /\ \A p, q \in Pages : FirstKey[p] = FirstKey[q] => p = q

VARIABLES
    page,        \* page[p]: the key in the form, and where the submit handler is
    purchase,    \* history: purchase[p]: the requests with the key that p filled in last
    past,        \* history: past[p]: such sets of the purchases before
    reported     \* history: reported[p]: the orders that p has reported

pageVars == <<orders, events, holding, request, page, purchase, past, reported>>

(***************************************************************************)
(* "request" is the one whose answer the handler awaits. The rest is       *)
(* history: "filled" is the key that the page itself put in the field last,*)
(* "origin" where the key of the awaited request came from.                *)
(***************************************************************************)
Page == [at : {"editing", "submitting", "reloading"}, key : UUIDs \cup {NoKey},
         request : Requests \cup {NoRequest}, filled : UUIDs,
         origin : {"none", "filled", "generated", "typed"}]

PageTypeOK ==
    /\ page \in [Pages -> Page]
    /\ purchase \in [Pages -> SUBSET Requests]
    /\ past \in [Pages -> SUBSET (SUBSET Requests)]
    /\ reported \in [Pages -> SUBSET Requests]

(* init(): a key is filled in before anything is loaded.                   *)
PageInit ==
    /\ AcceptanceInit
    /\ page = [p \in Pages |-> [at |-> "editing", key |-> FirstKey[p], request |-> NoRequest,
                                filled |-> FirstKey[p], origin |-> "none"]]
    /\ purchase = [p \in Pages |-> {}]
    /\ past = [p \in Pages |-> {}]
    /\ reported = [p \in Pages |-> {}]

-----------------------------------------------------------------------------
(* generateUUID: a key that nobody has sent or has in a form.              *)
FreshKeys ==
    {k \in UUIDs : /\ \A r \in Requests : Key[r] = k => request[r].at = "unsent"
                   /\ \A p \in Pages : k \notin {page[p].key, page[p].filled}}

(* The field is an open text input at any time: the customer may empty it, *)
(* or put any key there, one that he used before too. (So are the others:  *)
(* what they hold is chosen when Submit reads them.)                       *)
EditKey(p) ==
    /\ \E k \in TypedKeys \cup {NoKey} : k # page[p].key /\ page' = [page EXCEPT ![p].key = k]
    /\ UNCHANGED <<orders, events, holding, request, purchase, past, reported>>

(* field.value.trim() || generateUUID()                                    *)
SubmittedKeys(p) == IF page[p].key = NoKey THEN FreshKeys ELSE {page[p].key}

Origin(p) ==
    IF page[p].key = NoKey THEN "generated"
    ELSE IF page[p].key = page[p].filled THEN "filled" ELSE "typed"

(* With every field filled in; the button is disabled from here to the end *)
(* of the handler. A customer who takes the key out of the form, or types  *)
(* another, has no protection: such an attempt is made but not counted.    *)
Submit(p) ==
    /\ page[p].at = "editing"
    /\ \E r \in Requests \ ApiRequests :
           /\ Key[r] \in SubmittedKeys(p)
           /\ Send(r)
           /\ page' = [page EXCEPT ![p].at = "submitting", ![p].request = r,
                                   ![p].origin = Origin(p)]
           /\ purchase' = IF Origin(p) = "filled" THEN [purchase EXCEPT ![p] = @ \cup {r}]
                          ELSE purchase
    /\ UNCHANGED <<past, reported>>

(* Mutant: the key is renewed whatever the outcome.                        *)
FailsRenewingKey(p) ==
    LET k == CHOOSE k \in FreshKeys : TRUE IN
    [page EXCEPT ![p].at = "editing", ![p].request = NoRequest, ![p].origin = "none",
                 ![p].key = k, ![p].filled = k]

(* The message is an error, the key stays, the button is enabled.          *)
Fails(p) == [page EXCEPT ![p].at = "editing", ![p].request = NoRequest, ![p].origin = "none"]

(* Mutant: the key is kept after a success.                                *)
KeepKey(p) ==
    LET r == page[p].request IN
    /\ page[p].at = "submitting" /\ request[r].at = "answered" /\ request[r].answer = "accepted"
    /\ page' = [page EXCEPT ![p].at = "reloading"]
    /\ past' = [past EXCEPT ![p] = @ \cup {purchase[p]}]
    /\ purchase' = [purchase EXCEPT ![p] = {}]
    /\ reported' = [reported EXCEPT ![p] = @ \cup {request[r].orderId}]
    /\ UNCHANGED <<orders, events, holding, request>>

(* A 202 arrives: the message, then autofillIdempotencyKey, whatever the   *)
(* customer has typed since.                                               *)
Succeed(p) ==
    LET r == page[p].request IN
    /\ page[p].at = "submitting" /\ request[r].at = "answered" /\ request[r].answer = "accepted"
    /\ \E k \in FreshKeys :
           page' = [page EXCEPT ![p].at = "reloading", ![p].key = k, ![p].filled = k]
    /\ past' = [past EXCEPT ![p] = @ \cup {purchase[p]}]
    /\ purchase' = [purchase EXCEPT ![p] = {}]
    /\ reported' = [reported EXCEPT ![p] = @ \cup {request[r].orderId}]
    /\ UNCHANGED <<orders, events, holding, request>>

(* Mutant: only an answer ends the wait.                                   *)
RefusedByAnswer(p) ==
    /\ page[p].at = "submitting"
    /\ request[page[p].request].at = "answered" /\ request[page[p].request].answer # "accepted"
    /\ page' = Fails(p)
    /\ UNCHANGED <<orders, events, holding, request, purchase, past, reported>>

(* Another answer arrives, or the connection of a lost request breaks.     *)
Refused(p) ==
    /\ page[p].at = "submitting"
    /\ \/ request[page[p].request].at = "lost"
       \/ /\ request[page[p].request].at = "answered"
          /\ request[page[p].request].answer # "accepted"
    /\ page' = Fails(p)
    /\ UNCHANGED <<orders, events, holding, request, purchase, past, reported>>

(* fetch rejects, or the answer is no JSON, whatever becomes of the request*)
ConnectionFails(p) ==
    /\ page[p].at = "submitting"
    /\ page' = Fails(p)
    /\ UNCHANGED <<orders, events, holding, request, purchase, past, reported>>

(* loadOrders ends, well or not: it catches its own errors.                *)
Reloaded(p) ==
    /\ page[p].at = "reloading"
    /\ page' = Fails(p)
    /\ UNCHANGED <<orders, events, holding, request, purchase, past, reported>>

PageStep(p) ==
    \/ EditKey(p) \/ Submit(p)
    \/ Succeed(p) \/ Refused(p) \/ ConnectionFails(p) \/ Reloaded(p)

ServerStep(r) ==
    /\ (r \in ApiRequests /\ Send(r)) \/ Handle(r) \/ Fault(r)
    /\ UNCHANGED <<page, purchase, past, reported>>

PageNext == (\E p \in Pages : PageStep(p)) \/ (\E r \in Requests : ServerStep(r))

PageSpec == PageInit /\ [][PageNext]_pageVars

(* Handlers go on; what has an answer gets it, or the connection breaks.   *)
FairPageSpec ==
    /\ PageSpec
    /\ \A r \in Requests : WF_pageVars(Handle(r) /\ UNCHANGED <<page, purchase, past, reported>>)
    /\ \A p \in Pages : WF_pageVars(Succeed(p)) /\ WF_pageVars(Refused(p)) /\ WF_pageVars(Reloaded(p))

-----------------------------------------------------------------------------
(***************************************************************************)
(* Properties.                                                             *)
(***************************************************************************)

(* A customer who leaves the key to the form, and submits again after an   *)
(* error, a lost answer or a 409, as often as he likes and with the first  *)
(* request still running, has bought once: the attempts of one purchase    *)
(* never make two orders, whatever other keys he tried in between.         *)
OnePurchaseOneOrder ==
    \A p \in Pages : \A attempts \in past[p] \cup {purchase[p]} :
        \A o, q \in orders \cap attempts : o = q

(* And one who buys again has bought twice: unless he typed the key in     *)
(* himself, a success message never names an order that an earlier message *)
(* of the page has named.                                                  *)
EachReportIsNew ==
    [][\A p \in Pages :
           Succeed(p) /\ page[p].origin # "typed" =>
               request[page[p].request].orderId \notin reported[p]]_pageVars

(* A success message names an order that is committed and announced.       *)
ReportsAreTrue ==
    \A p \in Pages : reported[p] \subseteq orders \cap events

(* The form comes back, with a message, from every submission.             *)
SubmissionsEnd ==
    \A p \in Pages : page[p].at = "submitting" ~> page[p].at = "editing"
=============================================================================
