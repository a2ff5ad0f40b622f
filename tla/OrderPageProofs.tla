---------------------------- MODULE OrderPageProofs ----------------------------
(***************************************************************************)
(* What acceptOrder promises, for every set of concurrent requests, every  *)
(* choice of keys and bodies and every number of looks; and what the order *)
(* form adds to it, for any number of pages, keys, requests and other      *)
(* clients: a purchase makes one order, and each success message names one *)
(* of its own.                                                             *)
(***************************************************************************)
EXTENDS OrderPage, TLAPS

(* A transaction about to commit still holds its key: what makes the next  *)
(* commit as safe as the insert was.                                       *)
CommitsHoldTheirKey == \A r \in Requests : request[r].at = "commit" => r \in holding

AcceptanceInv ==
    /\ AcceptanceTypeOK
    /\ CommitsHoldTheirKey
    /\ OneOrderPerKey
    /\ OrdersAreAnnounced
    /\ AnswersAreTrue

-----------------------------------------------------------------------------
(***************************************************************************)
(* What the steps do to one request, and to none of the others.            *)
(***************************************************************************)

(* Goes moves a request and leaves its answer alone. *)
LEMMA GoesMoves ==
    ASSUME AcceptanceTypeOK, NEW r \in Requests, NEW at \in Handler, Goes(r, at)
    PROVE  /\ request' \in [Requests -> RequestState]
           /\ request'[r].at = at
           /\ \A q \in Requests : /\ q # r => request'[q] = request[q]
                                  /\ request'[q].answer = request[q].answer
                                  /\ request'[q].orderId = request[q].orderId
  BY DEF AcceptanceTypeOK, Goes, RequestState

(* Respond answers a request. *)
LEMMA RespondAnswers ==
    ASSUME AcceptanceTypeOK, NEW r \in Requests, NEW answer \in Answer,
           NEW o \in Requests \cup {NoRequest}, Respond(r, answer, o)
    PROVE  /\ request' \in [Requests -> RequestState]
           /\ request'[r].at = "answered"
           /\ request'[r].answer = answer
           /\ request'[r].orderId = o
           /\ \A q \in Requests : q # r => request'[q] = request[q]
  BY DEF AcceptanceTypeOK, Respond, RequestState, Handler

(* A request that has looked is one look further and where it was.         *)
LEMMA LooksOnce ==
    ASSUME AcceptanceTypeOK, NEW r \in Requests, request[r].looks < Looks,
           request' = [request EXCEPT ![r].looks = @ + 1]
    PROVE  /\ request' \in [Requests -> RequestState]
           /\ \A q \in Requests : /\ request'[q].at = request[q].at
                                  /\ request'[q].answer = request[q].answer
                                  /\ request'[q].orderId = request[q].orderId
  <1>1. /\ request \in [Requests -> RequestState]
        /\ request[r] \in RequestState
    BY DEF AcceptanceTypeOK
  <1>2. request[r].looks + 1 \in 0..Looks
    BY <1>1, OrderAcceptanceAssumption DEF RequestState
  <1>3. request'[r] = [request[r] EXCEPT !.looks = @ + 1] /\ request'[r] \in RequestState
    BY <1>1, <1>2 DEF RequestState
  <1> QED
    BY <1>1, <1>3 DEF RequestState

(* Steps that leave the collections alone keep the invariant if no request *)
(* goes to its commit and every new answer is true.                        *)
LEMMA HandlerOnly ==
    ASSUME AcceptanceInv, NEW r \in Requests,
           UNCHANGED <<orders, events, holding>>,
           request' \in [Requests -> RequestState],
           \A q \in Requests : request'[q].at = "commit" => request[q].at = "commit",
           \A q \in Requests : q # r => /\ request'[q].answer = request[q].answer
                                        /\ request'[q].orderId = request[q].orderId,
           \/ /\ request'[r].answer = request[r].answer
              /\ request'[r].orderId = request[r].orderId
           \/ /\ request'[r].answer = "accepted" /\ request'[r].orderId \in orders
              /\ Key[request'[r].orderId] = Key[r] /\ Body[request'[r].orderId] = Body[r]
           \/ /\ request'[r].answer = "key_reuse"
              /\ \E o \in orders : Key[o] = Key[r] /\ Body[o] # Body[r]
           \/ request'[r].answer \notin {"accepted", "key_reuse"}
    PROVE  AcceptanceInv'
  <1>1. AcceptanceTypeOK' /\ CommitsHoldTheirKey'
    BY DEF AcceptanceInv, AcceptanceTypeOK, CommitsHoldTheirKey
  <1>2. OneOrderPerKey' /\ OrdersAreAnnounced'
    BY DEF AcceptanceInv, OneOrderPerKey, OrdersAreAnnounced
  <1>3. AnswersAreTrue'
    BY DEF AcceptanceInv, AnswersAreTrue
  <1> QED
    BY <1>1, <1>2, <1>3 DEF AcceptanceInv

(* resolveReplay tells the truth of an order that it was given.            *)
LEMMA ReplaysAreTrue ==
    ASSUME AcceptanceInv, NEW r \in Requests, NEW o \in Found(r), ResolveReplay(r, o),
           UNCHANGED <<orders, events, holding>>
    PROVE  AcceptanceInv'
  <1>1. o \in orders /\ Key[o] = Key[r] /\ o \in Requests /\ AcceptanceTypeOK
    BY DEF Found, AcceptanceInv, AcceptanceTypeOK
  <1>2. CASE Body[o] = Body[r]
    <2>1. Respond(r, "accepted", o)
      BY <1>2 DEF ResolveReplay
    <2> QED
      BY <1>1, <1>2, <2>1, RespondAnswers, HandlerOnly DEF Answer
  <1>3. CASE Body[o] # Body[r]
    <2>1. Respond(r, "key_reuse", NoRequest)
      BY <1>3 DEF ResolveReplay
    <2> QED
      BY <1>1, <1>3, <2>1, RespondAnswers, HandlerOnly DEF Answer
  <1> QED
    BY <1>2, <1>3

-----------------------------------------------------------------------------
(***************************************************************************)
(* Every step keeps the invariant.                                         *)
(***************************************************************************)

(* A request that goes anywhere but to its commit, and nothing else.       *)
LEMMA MovesAreSafe ==
    ASSUME AcceptanceInv, NEW r \in Requests, NEW at \in Handler \ {"commit"}, Goes(r, at),
           UNCHANGED <<orders, events, holding>>
    PROVE  AcceptanceInv'
  BY GoesMoves, HandlerOnly DEF AcceptanceInv

(* A refusal or an error, and nothing else.                                *)
LEMMA RefusalsAreSafe ==
    ASSUME AcceptanceInv, NEW r \in Requests,
           NEW answer \in {"conflict", "unprocessable", "error"},
           Respond(r, answer, NoRequest), UNCHANGED <<orders, events, holding>>
    PROVE  AcceptanceInv'
  <1>1. answer \in Answer /\ AcceptanceTypeOK
    BY DEF Answer, AcceptanceInv
  <1> QED
    BY <1>1, RespondAnswers, HandlerOnly

(* The insert takes a key that nobody has or holds.                        *)
LEMMA InsertIsSafe ==
    ASSUME AcceptanceInv, NEW r \in Requests, Insert(r)
    PROVE  AcceptanceInv'
  <1>1. CASE KeyTaken(r)
    BY <1>1, MovesAreSafe DEF Insert, Handler
  <1>2. CASE ~KeyTaken(r)
    <2>1. Goes(r, "commit") /\ holding' = holding \cup {r} /\ UNCHANGED <<orders, events>>
      BY <1>2 DEF Insert
    <2>2. AcceptanceTypeOK
      BY DEF AcceptanceInv
    <2>3. AcceptanceTypeOK'
      BY <2>1, <2>2, GoesMoves DEF AcceptanceTypeOK, Handler
    <2>4. CommitsHoldTheirKey'
      BY <2>1, <2>2, GoesMoves DEF AcceptanceInv, CommitsHoldTheirKey, Handler
    <2>5. OneOrderPerKey' /\ OrdersAreAnnounced'
      BY <1>2, <2>1 DEF AcceptanceInv, OneOrderPerKey, OrdersAreAnnounced, KeyTaken
    <2>6. AnswersAreTrue'
      BY <2>1, <2>2, GoesMoves DEF AcceptanceInv, AnswersAreTrue, Handler
    <2> QED
      BY <2>3, <2>4, <2>5, <2>6 DEF AcceptanceInv
  <1> QED
    BY <1>1, <1>2

(* The commit makes an order of what held its key since the insert.        *)
LEMMA CommitIsSafe ==
    ASSUME AcceptanceInv, NEW r \in Requests, Commit(r)
    PROVE  AcceptanceInv'
  <1>1. AcceptanceTypeOK /\ r \in holding
    BY DEF AcceptanceInv, Commit, CommitsHoldTheirKey
  <1>2. AcceptanceTypeOK'
    BY <1>1, GoesMoves DEF AcceptanceTypeOK, Handler, Commit
  <1>3. CommitsHoldTheirKey'
    BY <1>1, GoesMoves DEF AcceptanceInv, CommitsHoldTheirKey, Handler, Commit
  <1>4. OneOrderPerKey' /\ OrdersAreAnnounced'
    BY <1>1 DEF AcceptanceInv, OneOrderPerKey, OrdersAreAnnounced, Commit
  <1>5. AnswersAreTrue'
    BY <1>1, GoesMoves DEF AcceptanceInv, AnswersAreTrue, Handler, Commit
  <1> QED
    BY <1>2, <1>3, <1>4, <1>5 DEF AcceptanceInv

(* awaitWinner finds the winner, or looks again, or gives up.              *)
LEMMA AwaitIsSafe ==
    ASSUME AcceptanceInv, NEW r \in Requests, AwaitWinner(r)
    PROVE  AcceptanceInv'
  <1>1. CASE \E o \in Found(r) : ResolveReplay(r, o)
    BY <1>1, ReplaysAreTrue DEF AwaitWinner
  <1>2. CASE request[r].looks < Looks /\ request' = [request EXCEPT ![r].looks = @ + 1]
    BY <1>2, LooksOnce, HandlerOnly DEF AwaitWinner, AcceptanceInv
  <1>3. CASE Respond(r, "conflict", NoRequest)
    BY <1>3, RefusalsAreSafe DEF AwaitWinner
  <1> QED
    BY <1>1, <1>2, <1>3 DEF AwaitWinner

(* A fault gives a key free, with the transaction, and no untrue answer.   *)
LEMMA FaultIsSafe ==
    ASSUME AcceptanceInv, NEW r \in Requests, Fault(r)
    PROVE  AcceptanceInv'
  <1>1. AcceptanceTypeOK
    BY DEF AcceptanceInv
  <1>2. /\ request' \in [Requests -> RequestState]
        /\ request'[r].at # "commit"
        /\ \A q \in Requests : q # r => request'[q] = request[q]
        /\ \/ request'[r].answer = request[r].answer /\ request'[r].orderId = request[r].orderId
           \/ request'[r].answer = "error"
    BY <1>1, GoesMoves, RespondAnswers DEF Fault, Handler, Answer
  <1>3. AcceptanceTypeOK' /\ CommitsHoldTheirKey'
    BY <1>1, <1>2 DEF Fault, AcceptanceInv, AcceptanceTypeOK, CommitsHoldTheirKey
  <1>4. OneOrderPerKey' /\ OrdersAreAnnounced'
    BY DEF Fault, AcceptanceInv, OneOrderPerKey, OrdersAreAnnounced
  <1>5. AnswersAreTrue'
    BY <1>2 DEF Fault, AcceptanceInv, AnswersAreTrue
  <1> QED
    BY <1>3, <1>4, <1>5 DEF AcceptanceInv

(* The server's steps: the part of AcceptanceNext that a client of         *)
(* OrderAcceptance composes with its own.                                  *)
LEMMA RequestStepIsSafe ==
    ASSUME AcceptanceInv, NEW r \in Requests, Send(r) \/ Handle(r) \/ Fault(r)
    PROVE  AcceptanceInv'
  <1>1. CASE Send(r)
    BY <1>1, MovesAreSafe DEF Send, Handler
  <1>2. CASE FastPath(r)
    <2>1. CASE Found(r) = {}
      BY <1>2, <2>1, MovesAreSafe DEF FastPath, Handler
    <2>2. CASE Found(r) # {}
      BY <1>2, <2>2, ReplaysAreTrue DEF FastPath
    <2> QED
      BY <2>1, <2>2
  <1>3. CASE LoadAndPrice(r)
    BY <1>3, MovesAreSafe, RefusalsAreSafe DEF LoadAndPrice, Handler
  <1>4. CASE Created(r)
    BY <1>4, RespondAnswers, HandlerOnly DEF Created, AcceptanceInv, AcceptanceTypeOK, Answer
  <1> QED
    BY <1>1, <1>2, <1>3, <1>4, InsertIsSafe, CommitIsSafe, AwaitIsSafe, FaultIsSafe DEF Handle

(* No collection, no handler: the invariant holds of an empty database.    *)
LEMMA AcceptanceStarts == AcceptanceInit => AcceptanceInv
  BY OrderAcceptanceAssumption
     DEF AcceptanceInit, AcceptanceInv, AcceptanceTypeOK, CommitsHoldTheirKey, OneOrderPerKey,
         OrdersAreAnnounced, AnswersAreTrue, RequestState, Handler, Answer

(* A step that changes nothing changes no invariant.                       *)
LEMMA AcceptanceStutters ==
    ASSUME AcceptanceInv, UNCHANGED acceptanceVars
    PROVE  AcceptanceInv'
  BY DEF acceptanceVars, AcceptanceInv, AcceptanceTypeOK, CommitsHoldTheirKey, OneOrderPerKey,
         OrdersAreAnnounced, AnswersAreTrue, RequestState

(* The invariant is inductive. *)
LEMMA AcceptanceInvHolds == AcceptanceSpec => []AcceptanceInv
  <1>1. AcceptanceInv /\ [AcceptanceNext]_acceptanceVars => AcceptanceInv'
    BY RequestStepIsSafe, AcceptanceStutters DEF AcceptanceNext
  <1> QED
    BY <1>1, AcceptanceStarts, PTL DEF AcceptanceSpec

-----------------------------------------------------------------------------
(***************************************************************************)
(* The theorems.                                                           *)
(***************************************************************************)

(* acceptOrder's handlers and the two collections stay in their types.     *)
THEOREM AcceptanceTypeCorrect == AcceptanceSpec => []AcceptanceTypeOK
  BY AcceptanceInvHolds, PTL DEF AcceptanceInv

(* The unique index and the transaction give one order to a key, whatever  *)
(* the race, the faults and the crashes.                                   *)
THEOREM KeysHaveOneOrder == AcceptanceSpec => []OneOrderPerKey
  BY AcceptanceInvHolds, PTL DEF AcceptanceInv

(* The transactional outbox: no order without its event, nor the reverse.  *)
THEOREM OrdersHaveEvents == AcceptanceSpec => []OrdersAreAnnounced
  BY AcceptanceInvHolds, PTL DEF AcceptanceInv

(* No client is answered with another's order, nor told that a key is used *)
(* for another body when it is not.                                        *)
THEOREM AnswersTellTheTruth == AcceptanceSpec => []AnswersAreTrue
  BY AcceptanceInvHolds, PTL DEF AcceptanceInv

-----------------------------------------------------------------------------
(***************************************************************************)
(* The order form.                                                         *)
(***************************************************************************)

(* The attempts of a purchase share a key, those of the present one the    *)
(* key that the page filled in last.                                       *)
AttemptsShareAKey ==
    \A p \in Pages :
        /\ \A attempts \in past[p] \cup {purchase[p]} : \A a, b \in attempts : Key[a] = Key[b]
        /\ \A a \in purchase[p] : Key[a] = page[p].filled

(* What makes an order has been sent, so its key is never fresh again.     *)
OrdersWereSent == \A o \in orders : request[o].at # "unsent"

(* Neither the key that the page filled in last nor that of the awaited    *)
(* request is one of a reported order, unless the customer typed the latter*)
(* in.                                                                     *)
KeysAreUnreported ==
    \A p \in Pages :
        /\ \A o \in reported[p] : Key[o] # page[p].filled
        /\ page[p].at = "submitting" =>
               /\ page[p].request \in Requests
               /\ page[p].origin # "typed" => \A o \in reported[p] : Key[o] # Key[page[p].request]

PageInv ==
    /\ PageTypeOK
    /\ AttemptsShareAKey
    /\ OrdersWereSent
    /\ KeysAreUnreported
    /\ ReportsAreTrue

-----------------------------------------------------------------------------
(***************************************************************************)
(* The pages are clients of OrderAcceptance and no more.                   *)
(***************************************************************************)

(* Every step is a request being sent, or handled, or hit by a fault, or   *)
(* leaves the server alone.                                                *)
LEMMA PageStepsAreAcceptanceSteps ==
    ASSUME [PageNext]_pageVars
    PROVE  [AcceptanceNext]_acceptanceVars
  <1>1. CASE UNCHANGED pageVars
    BY <1>1 DEF pageVars, acceptanceVars
  <1>2. ASSUME NEW r \in Requests, ServerStep(r)
        PROVE  AcceptanceNext
    BY <1>2 DEF ServerStep, AcceptanceNext
  <1>3. ASSUME NEW p \in Pages, PageStep(p)
        PROVE  AcceptanceNext \/ UNCHANGED acceptanceVars
    <2>1. CASE Submit(p)
      BY <2>1 DEF Submit, AcceptanceNext
    <2>2. CASE EditKey(p) \/ Succeed(p) \/ Refused(p) \/ ConnectionFails(p) \/ Reloaded(p)
      BY <2>2 DEF EditKey, Succeed, Refused, ConnectionFails, Reloaded, acceptanceVars
    <2> QED
      BY <1>3, <2>1, <2>2 DEF PageStep
  <1> QED
    BY <1>1, <1>2, <1>3 DEF PageNext

(* app.js in front of acceptOrder shows the server nothing that some set   *)
(* of concurrent requests would not.                                       *)
THEOREM PagesAreClients == PageSpec => AcceptanceSpec
  <1>1. PageInit => AcceptanceInit
    BY DEF PageInit
  <1> QED
    BY <1>1, PageStepsAreAcceptanceSteps, PTL DEF PageSpec, AcceptanceSpec

-----------------------------------------------------------------------------
(***************************************************************************)
(* Every step keeps the invariant.                                         *)
(***************************************************************************)

(* No page has sent or reported anything. *)
LEMMA PageStarts == PageInit => PageInv
  BY OrderPageAssumption
     DEF PageInit, AcceptanceInit, PageInv, PageTypeOK, Page, AttemptsShareAKey, OrdersWereSent,
         KeysAreUnreported, ReportsAreTrue

(* A server step moves one request on, never back to unsent, and only ever *)
(* adds orders that were sent.                                             *)
LEMMA ServerKeepsOrdersSent ==
    ASSUME AcceptanceInv, OrdersWereSent, NEW r \in Requests, Send(r) \/ Handle(r) \/ Fault(r)
    PROVE  OrdersWereSent' /\ orders \subseteq orders' /\ events \subseteq events'
  <1> USE DEF OrdersWereSent
  <1>1. request \in [Requests -> RequestState] /\ orders \subseteq Requests
    BY DEF AcceptanceInv, AcceptanceTypeOK
  <1>2. \A at : at # "unsent" /\ Goes(r, at) =>
            \A q \in Requests : request[q].at # "unsent" => request'[q].at # "unsent"
    BY <1>1 DEF Goes, RequestState
  <1>3. \A answer, o : Respond(r, answer, o) =>
            \A q \in Requests : request[q].at # "unsent" => request'[q].at # "unsent"
    BY <1>1 DEF Respond, RequestState
  <1>4. CASE Send(r)
    BY <1>1, <1>2, <1>4 DEF Send
  <1>5. CASE FastPath(r)
    BY <1>1, <1>2, <1>3, <1>5 DEF FastPath, ResolveReplay
  <1>6. CASE LoadAndPrice(r)
    BY <1>1, <1>2, <1>3, <1>6 DEF LoadAndPrice
  <1>7. CASE Insert(r)
    BY <1>1, <1>2, <1>7 DEF Insert
  <1>8. CASE Commit(r)
    <2>1. request[r].at = "commit" /\ Goes(r, "created") /\ orders' = orders \cup {r}
          /\ events' = events \cup {r}
      BY <1>8 DEF Commit
    <2>2. \A q \in Requests : request[q].at # "unsent" => request'[q].at # "unsent"
      BY <1>2, <2>1
    <2> QED
      BY <1>1, <2>1, <2>2
  <1>9. CASE AwaitWinner(r)
    <2>1. \A q \in Requests : request[q].at # "unsent" => request'[q].at # "unsent"
      <3>1. CASE \E o \in Found(r) : ResolveReplay(r, o)
        BY <1>3, <3>1 DEF ResolveReplay
      <3>2. CASE request[r].looks < Looks /\ request' = [request EXCEPT ![r].looks = @ + 1]
        BY <1>1, <3>2, LooksOnce DEF AcceptanceInv
      <3>3. CASE Respond(r, "conflict", NoRequest)
        BY <1>3, <3>3
      <3> QED
        BY <1>9, <3>1, <3>2, <3>3 DEF AwaitWinner
    <2> QED
      BY <1>1, <1>9, <2>1 DEF AwaitWinner
  <1>10. CASE Created(r)
    BY <1>1, <1>3, <1>10 DEF Created
  <1>11. CASE Fault(r)
    BY <1>1, <1>2, <1>3, <1>11 DEF Fault
  <1> QED
    BY <1>4, <1>5, <1>6, <1>7, <1>8, <1>9, <1>10, <1>11 DEF Handle

(* A server step that the pages do not see.                                *)
LEMMA ServerStepIsSafe ==
    ASSUME AcceptanceInv, PageInv, NEW r \in Requests, ServerStep(r)
    PROVE  PageInv'
  <1>1. OrdersWereSent' /\ orders \subseteq orders' /\ events \subseteq events'
    BY ServerKeepsOrdersSent DEF ServerStep, PageInv
  <1>2. UNCHANGED <<page, purchase, past, reported>>
    BY DEF ServerStep
  <1>3. PageTypeOK' /\ AttemptsShareAKey' /\ KeysAreUnreported'
    BY <1>2 DEF PageInv, PageTypeOK, AttemptsShareAKey, KeysAreUnreported
  <1>4. ReportsAreTrue'
    BY <1>1, <1>2 DEF PageInv, ReportsAreTrue
  <1> QED
    BY <1>1, <1>3, <1>4 DEF PageInv

(* A page that only changes where its handler is, or has its field edited. *)
LEMMA FormStepIsSafe ==
    ASSUME PageInv, NEW p \in Pages, NEW form \in Page,
           page' = [page EXCEPT ![p] = form], form.filled = page[p].filled,
           form.at = "submitting" => /\ page[p].at = "submitting"
                                     /\ form.request = page[p].request
                                     /\ form.origin = page[p].origin,
           UNCHANGED <<orders, events, holding, request, purchase, past, reported>>
    PROVE  PageInv'
  <1>1. /\ page' \in [Pages -> Page] /\ page'[p] = form
        /\ \A q \in Pages : q # p => page'[q] = page[q]
    BY DEF PageInv, PageTypeOK
  <1>2. PageTypeOK' /\ OrdersWereSent' /\ ReportsAreTrue'
    BY <1>1 DEF PageInv, PageTypeOK, OrdersWereSent, ReportsAreTrue
  <1>3. AttemptsShareAKey'
    BY <1>1 DEF PageInv, AttemptsShareAKey
  <1>4. KeysAreUnreported'
    BY <1>1 DEF PageInv, KeysAreUnreported
  <1> QED
    BY <1>2, <1>3, <1>4 DEF PageInv

(* Where the key of a submission comes from.                               *)
LEMMA Origins ==
    ASSUME NEW p \in Pages
    PROVE  /\ Origin(p) \in {"filled", "generated", "typed"}
           /\ Origin(p) = "filled" => page[p].key # NoKey /\ page[p].key = page[p].filled
           /\ Origin(p) # "typed" => page[p].key = NoKey \/ page[p].key = page[p].filled
  BY DEF Origin

(* Every counted submission carries the key that the page filled in; one   *)
(* without a key in the form carries one that no order has.                *)
LEMMA SubmitIsSafe ==
    ASSUME AcceptanceInv, PageInv, NEW p \in Pages, Submit(p)
    PROVE  PageInv'
  <1> USE OrderPageAssumption
  <1>1. PICK r \in Requests :
            /\ Key[r] \in SubmittedKeys(p) /\ Send(r)
            /\ page' = [page EXCEPT ![p].at = "submitting", ![p].request = r,
                                    ![p].origin = Origin(p)]
            /\ purchase' = IF Origin(p) = "filled" THEN [purchase EXCEPT ![p] = @ \cup {r}]
                           ELSE purchase
    BY DEF Submit
  <1>2. UNCHANGED <<past, reported, orders, events>>
    BY <1>1 DEF Submit, Send
  <1>3. /\ page \in [Pages -> Page] /\ page' \in [Pages -> Page]
        /\ page'[p].at = "submitting" /\ page'[p].request = r /\ page'[p].filled = page[p].filled
        /\ page'[p].origin = Origin(p)
        /\ \A q \in Pages : q # p => page'[q] = page[q]
    <2> DEFINE from == Origin(p)
    <2>1. from \in {"filled", "generated", "typed"}
      BY Origins
    <2>2. page' = [page EXCEPT ![p].at = "submitting", ![p].request = r, ![p].origin = from]
      BY <1>1
    <2> HIDE DEF from
    <2>3. /\ page \in [Pages -> Page] /\ page' \in [Pages -> Page]
          /\ page'[p].at = "submitting" /\ page'[p].request = r
          /\ page'[p].filled = page[p].filled /\ page'[p].origin = from
          /\ \A q \in Pages : q # p => page'[q] = page[q]
      <3> DEFINE form == [page[p] EXCEPT !.at = "submitting", !.request = r, !.origin = from]
      <3>1. page \in [Pages -> Page] /\ page[p] \in Page
        BY DEF PageInv, PageTypeOK
      <3>2. form \in Page /\ form.at = "submitting" /\ form.request = r
            /\ form.filled = page[p].filled /\ form.origin = from
        BY <2>1, <3>1 DEF Page
      <3>3. page' = [page EXCEPT ![p] = form]
        BY <2>2, <3>1
      <3> HIDE DEF form
      <3> QED BY <3>1, <3>2, <3>3
    <2> QED BY <2>3 DEF from
  <1>4. /\ purchase \in [Pages -> SUBSET Requests] /\ purchase' \in [Pages -> SUBSET Requests]
        /\ \A q \in Pages : q # p => purchase'[q] = purchase[q]
        /\ purchase'[p] = IF Origin(p) = "filled" THEN purchase[p] \cup {r} ELSE purchase[p]
    BY <1>1 DEF PageInv, PageTypeOK
  <1>5. PageTypeOK'
    BY <1>2, <1>3, <1>4 DEF PageInv, PageTypeOK
  <1>6. OrdersWereSent' /\ ReportsAreTrue'
    BY <1>1, <1>2, ServerKeepsOrdersSent DEF PageInv, ReportsAreTrue
  <1>7. AttemptsShareAKey'
    <2>1. \A a \in purchase'[p] : Key[a] = page[p].filled
      <3>1. CASE Origin(p) = "filled"
        <4>1. Key[r] = page[p].filled
          BY <1>1, <3>1, Origins DEF SubmittedKeys
        <4> QED
          BY <1>4, <3>1, <4>1 DEF PageInv, AttemptsShareAKey
      <3>2. CASE Origin(p) # "filled"
        BY <1>4, <3>2 DEF PageInv, AttemptsShareAKey
      <3> QED
        BY <3>1, <3>2
    <2> SUFFICES ASSUME NEW q \in Pages
                 PROVE  /\ \A attempts \in past'[q] \cup {purchase'[q]} :
                               \A a, b \in attempts : Key[a] = Key[b]
                        /\ \A a \in purchase'[q] : Key[a] = page'[q].filled
      BY DEF AttemptsShareAKey
    <2>2. CASE q = p
      BY <1>2, <1>3, <2>1, <2>2 DEF PageInv, AttemptsShareAKey
    <2>3. CASE q # p
      <3>1. page'[q] = page[q] /\ purchase'[q] = purchase[q] /\ past'[q] = past[q]
        BY <1>2, <1>3, <1>4, <2>3
      <3>2. AttemptsShareAKey
        BY DEF PageInv
      <3> QED
        BY ONLY <3>1, <3>2, q \in Pages DEF AttemptsShareAKey
    <2> QED
      BY <2>2, <2>3
  <1>8. ASSUME Origin(p) # "typed" PROVE \A o \in reported[p] : Key[o] # Key[r]
    <2>1. CASE page[p].key = page[p].filled /\ page[p].key # NoKey
      BY <1>1, <2>1 DEF SubmittedKeys, PageInv, KeysAreUnreported
    <2>2. CASE page[p].key = NoKey
      <3>1. Key[r] \in FreshKeys
        BY <1>1, <2>2 DEF SubmittedKeys
      <3>2. \A o \in reported[p] : o \in Requests /\ request[o].at # "unsent"
        BY DEF PageInv, ReportsAreTrue, OrdersWereSent, AcceptanceInv, AcceptanceTypeOK
      <3> QED
        BY <3>1, <3>2 DEF FreshKeys
    <2> QED
      BY <1>8, <2>1, <2>2, Origins
  <1>9. KeysAreUnreported'
    BY <1>2, <1>3, <1>8 DEF PageInv, KeysAreUnreported
  <1> QED
    BY <1>5, <1>6, <1>7, <1>9 DEF PageInv

(* The reported order has the key of the request, so it is none that was   *)
(* reported before, unless the customer typed the key in.                  *)
LEMMA SuccessFacts ==
    ASSUME AcceptanceInv, PageInv, NEW p \in Pages, Succeed(p)
    PROVE  LET o == request[page[p].request].orderId
           IN  /\ o \in orders \cap events /\ o \in Requests
               /\ page[p].origin # "typed" => o \notin reported[p]
  <1> DEFINE r == page[p].request
             o == request[r].orderId
  <1>1. r \in Requests /\ request[r].answer = "accepted"
    BY DEF Succeed, PageInv, KeysAreUnreported
  <1>2. o \in orders /\ Key[o] = Key[r]
    BY <1>1 DEF AcceptanceInv, AnswersAreTrue
  <1>3. o \in events /\ o \in Requests
    BY <1>2 DEF AcceptanceInv, OrdersAreAnnounced, AcceptanceTypeOK
  <1>4. page[p].origin # "typed" => \A q \in reported[p] : Key[q] # Key[r]
    BY DEF Succeed, PageInv, KeysAreUnreported
  <1> QED
    BY <1>2, <1>3, <1>4

(* The purchase is closed and the next one has a key that no order has.    *)
LEMMA SucceedIsSafe ==
    ASSUME AcceptanceInv, PageInv, NEW p \in Pages, Succeed(p)
    PROVE  PageInv'
  <1> USE OrderPageAssumption
  <1> DEFINE o == request[page[p].request].orderId
  <1>1. PICK k \in FreshKeys :
            page' = [page EXCEPT ![p].at = "reloading", ![p].key = k, ![p].filled = k]
    BY DEF Succeed
  <1>2. o \in orders \cap events /\ o \in Requests
    BY SuccessFacts
  <1>3. /\ past' = [past EXCEPT ![p] = @ \cup {purchase[p]}]
        /\ purchase' = [purchase EXCEPT ![p] = {}]
        /\ reported' = [reported EXCEPT ![p] = @ \cup {o}]
        /\ UNCHANGED <<orders, events, holding, request>>
    BY DEF Succeed
  <1> HIDE DEF o
  <1>4. /\ page \in [Pages -> Page] /\ page' \in [Pages -> Page]
        /\ page'[p].at = "reloading" /\ page'[p].filled = k
        /\ \A q \in Pages : q # p => page'[q] = page[q]
    BY <1>1 DEF PageInv, PageTypeOK, Page, FreshKeys
  <1>5. /\ past' \in [Pages -> SUBSET (SUBSET Requests)] /\ past'[p] = past[p] \cup {purchase[p]}
        /\ purchase' \in [Pages -> SUBSET Requests] /\ purchase'[p] = {}
        /\ reported' \in [Pages -> SUBSET Requests] /\ reported'[p] = reported[p] \cup {o}
        /\ \A q \in Pages : q # p => /\ past'[q] = past[q] /\ purchase'[q] = purchase[q]
                                     /\ reported'[q] = reported[q]
    BY <1>2, <1>3 DEF PageInv, PageTypeOK
  <1>6. PageTypeOK' /\ OrdersWereSent'
    BY <1>3, <1>4, <1>5 DEF PageInv, PageTypeOK, OrdersWereSent
  <1>7. AttemptsShareAKey'
    <2> SUFFICES ASSUME NEW q \in Pages
                 PROVE  /\ \A attempts \in past'[q] \cup {purchase'[q]} :
                               \A a, b \in attempts : Key[a] = Key[b]
                        /\ \A a \in purchase'[q] : Key[a] = page'[q].filled
      BY DEF AttemptsShareAKey
    <2>1. CASE q = p
      BY <1>5, <2>1 DEF PageInv, AttemptsShareAKey
    <2>2. CASE q # p
      <3>1. page'[q] = page[q] /\ purchase'[q] = purchase[q] /\ past'[q] = past[q]
        BY <1>4, <1>5, <2>2
      <3>2. AttemptsShareAKey
        BY DEF PageInv
      <3> QED
        BY ONLY <3>1, <3>2, q \in Pages DEF AttemptsShareAKey
    <2> QED
      BY <2>1, <2>2
  <1>8. ReportsAreTrue'
    BY <1>2, <1>3, <1>5 DEF PageInv, ReportsAreTrue
  <1>9. \A q \in reported'[p] : Key[q] # k
    <2>1. \A q \in reported'[p] : q \in orders /\ q \in Requests
      BY <1>2, <1>5 DEF PageInv, ReportsAreTrue, AcceptanceInv, AcceptanceTypeOK
    <2> QED
      BY <2>1 DEF PageInv, OrdersWereSent, FreshKeys
  <1>10. KeysAreUnreported'
    BY <1>4, <1>5, <1>9 DEF PageInv, KeysAreUnreported
  <1> QED
    BY <1>6, <1>7, <1>8, <1>10 DEF PageInv

(* The steps that only move the form.                                      *)
LEMMA QuietStepIsSafe ==
    ASSUME PageInv, NEW p \in Pages,
           EditKey(p) \/ Refused(p) \/ ConnectionFails(p) \/ Reloaded(p)
    PROVE  PageInv'
  <1>1. page \in [Pages -> Page] /\ page[p] \in Page
    BY DEF PageInv, PageTypeOK
  <1>2. CASE EditKey(p)
    <2>1. PICK k \in UUIDs \cup {NoKey} : page' = [page EXCEPT ![p].key = k]
      BY <1>2, OrderPageAssumption DEF EditKey
    <2> DEFINE form == [page[p] EXCEPT !.key = k]
    <2>2. form \in Page /\ form.filled = page[p].filled /\ form.at = page[p].at
          /\ form.request = page[p].request /\ form.origin = page[p].origin
      BY <1>1 DEF Page
    <2>3. page' = [page EXCEPT ![p] = form]
      BY <1>1, <2>1
    <2> HIDE DEF form
    <2> QED
      BY <1>2, <2>2, <2>3, FormStepIsSafe DEF EditKey
  <1>3. CASE Refused(p) \/ ConnectionFails(p) \/ Reloaded(p)
    <2> DEFINE form == [page[p] EXCEPT !.at = "editing", !.request = NoRequest, !.origin = "none"]
    <2>1. form \in Page /\ form.filled = page[p].filled /\ form.at = "editing"
      BY <1>1 DEF Page
    <2>2. /\ page' = [page EXCEPT ![p] = form]
          /\ UNCHANGED <<orders, events, holding, request, purchase, past, reported>>
      BY <1>1, <1>3 DEF Refused, ConnectionFails, Reloaded, Fails
    <2> HIDE DEF form
    <2> QED
      BY <2>1, <2>2, FormStepIsSafe
  <1> QED
    BY <1>2, <1>3

(* All steps. *)
LEMMA PageStepIsSafe ==
    ASSUME AcceptanceInv, PageInv, [PageNext]_pageVars
    PROVE  PageInv'
  <1>1. CASE UNCHANGED pageVars
    BY <1>1 DEF pageVars, PageInv, PageTypeOK, AttemptsShareAKey, OrdersWereSent,
                KeysAreUnreported, ReportsAreTrue
  <1>2. CASE PageNext
    BY <1>2, ServerStepIsSafe, SubmitIsSafe, SucceedIsSafe, QuietStepIsSafe
       DEF PageNext, PageStep
  <1> QED
    BY <1>1, <1>2

(* The invariant is inductive beside that of the server.                   *)
LEMMA PageInvHolds == PageSpec => [](AcceptanceInv /\ PageInv)
  <1>1. PageSpec => []AcceptanceInv
    BY PagesAreClients, AcceptanceInvHolds, PTL
  <1> QED
    BY <1>1, PageStarts, PageStepIsSafe, PTL DEF PageSpec

-----------------------------------------------------------------------------
(***************************************************************************)
(* The theorems.                                                           *)
(***************************************************************************)

(* The forms of app.js and the histories stay in their types.              *)
THEOREM PageTypeCorrect == PageSpec => []PageTypeOK
  BY PageInvHolds, PTL DEF PageInv

(* However often a customer submits again, on however many tabs: the form  *)
(* keeps the key of the purchase, unless he edits it himself, and the      *)
(* unique index does the rest.                                             *)
THEOREM PurchasesMakeOneOrder == PageSpec => []OnePurchaseOneOrder
  <1>1. AcceptanceInv /\ PageInv => OnePurchaseOneOrder
    BY DEF AcceptanceInv, PageInv, AttemptsShareAKey, OneOrderPerKey, OnePurchaseOneOrder
  <1> QED
    BY <1>1, PageInvHolds, PTL

(* A success message names an order that is committed and announced.       *)
THEOREM ReportsAreCorrect == PageSpec => []ReportsAreTrue
  BY PageInvHolds, PTL DEF PageInv

(* autofillIdempotencyKey after each success: no two messages of a page    *)
(* name the same order, unless the customer typed the key in.              *)
THEOREM ReportsAreDistinct == PageSpec => EachReportIsNew
  <1> DEFINE New == \A p \in Pages :
                        Succeed(p) /\ page[p].origin # "typed" =>
                            request[page[p].request].orderId \notin reported[p]
  <1>1. AcceptanceInv /\ PageInv /\ [PageNext]_pageVars => [New]_pageVars
    BY SuccessFacts
  <1>2. PageSpec => [][New]_pageVars
    <2> HIDE DEF New
    <2> QED
      BY <1>1, PageInvHolds, PTL DEF PageSpec
  <1> QED
    BY <1>2, PTL DEF EachReportIsNew
=============================================================================
