-------------------------------- MODULE Outbox --------------------------------
(***************************************************************************)
(* The transactional outbox (src/orders/outbox): an event is written with  *)
(* its order, and any number of relays poll for events, claim them one at  *)
(* a time under a lease, and put the order's job on the queue.             *)
(*                                                                         *)
(* Time is what expires a lease or a backoff, at any moment: a relay may   *)
(* be slower than its lease, and a backoff may be shorter than it (the     *)
(* defaults are one second and thirty).                                    *)
(***************************************************************************)
EXTENDS Integers, FiniteSets

CONSTANTS
    Orders,           \* ids of the orders, the aggregates of the events
    Relays,           \* one polling pass per instance: tick() does not overlap itself
    MaxAttempts,      \* ordersConfig.outbox.maxAttempts
    MaxRelayFaults,   \* bound: crashes, exceptions and lost answers in a behaviour
    NoOrder

ASSUME OutboxAssumption ==
    /\ MaxAttempts \in Nat \ {0}
    /\ MaxRelayFaults \in Nat
    /\ NoOrder \notin Orders

VARIABLES
    event,         \* event[o]: the outbox row of order o
    jobs,          \* the job ids, which are order ids, that the queue holds
    enqueued,      \* history: orders a job was ever made for
    relay,         \* relay[r]: the dispatch that r is in
    relayFaults

outboxVars == <<event, jobs, enqueued, relay, relayFaults>>

(***************************************************************************)
(* "claim" is claimedAt: not set, less than claimTimeoutMs ago, or longer. *)
(* "due" is nextRetryAt <= now.                                            *)
(***************************************************************************)
EventStatus == {"none", "NEW", "DISPATCHED", "FAILED"}
Event == [status : EventStatus, attempts : Nat, claim : {"none", "live", "stale"}, due : BOOLEAN]

(* "attempts" is the number that the claim returned, "leased" whether the  *)
(* lease of that claim still runs; no code looks at the latter.            *)
RelayPc == {"polling", "adding", "marking", "failing"}
Dispatch == [pc : RelayPc, order : Orders \cup {NoOrder}, attempts : Nat, leased : BOOLEAN]

Polling == [pc |-> "polling", order |-> NoOrder, attempts |-> 0, leased |-> FALSE]

OutboxTypeOK ==
    /\ event \in [Orders -> Event]
    /\ jobs \subseteq enqueued /\ enqueued \subseteq Orders
    /\ relay \in [Relays -> Dispatch]
    /\ relayFaults \in 0..MaxRelayFaults

OutboxInit ==
    /\ event = [o \in Orders |->
                  [status |-> "none", attempts |-> 0, claim |-> "none", due |-> FALSE]]
    /\ jobs = {} /\ enqueued = {}
    /\ relay = [r \in Relays |-> Polling]
    /\ relayFaults = 0

RelayGoes(r, pc) == relay' = [relay EXCEPT ![r].pc = pc]
RelayEnds(r) == relay' = [relay EXCEPT ![r] = Polling]

-----------------------------------------------------------------------------
(* The transaction of acceptOrder that inserts the order inserts this too. *)
CreateOrderCreatedEvent(o) ==
    /\ event[o].status = "none"
    /\ event' = [event EXCEPT ![o].status = "NEW", ![o].due = TRUE]
    /\ UNCHANGED <<jobs, enqueued, relay, relayFaults>>

(* Mutant: an expired claim is not taken over.                             *)
ClaimableOnce(o) == event[o].status = "NEW" /\ event[o].due /\ event[o].claim = "none"

Claimable(o) == event[o].status = "NEW" /\ event[o].due /\ event[o].claim # "live"

ClaimNext(r, o) ==
    /\ relay[r].pc = "polling"
    /\ Claimable(o)
    /\ event' = [event EXCEPT ![o].claim = "live", ![o].attempts = @ + 1]
    /\ relay' = [relay EXCEPT ![r] = [pc |-> "adding", order |-> o,
                                      attempts |-> event[o].attempts + 1, leased |-> TRUE]]
    /\ UNCHANGED <<jobs, enqueued, relayFaults>>

(* queue.add: nothing happens when the queue holds a job with that id.     *)
Add(r) ==
    /\ relay[r].pc = "adding"
    /\ jobs' = jobs \cup {relay[r].order}
    /\ enqueued' = enqueued \cup {relay[r].order}
    /\ RelayGoes(r, "marking")
    /\ UNCHANGED <<event, relayFaults>>

(* Mutant: the row is marked before the job is on the queue.               *)
MarkBeforeAdd(r) ==
    /\ relay[r].pc \in {"adding", "marking"}
    /\ event' = [event EXCEPT ![relay[r].order].status = "DISPATCHED"]
    /\ IF relay[r].pc = "adding" THEN UNCHANGED relay ELSE RelayEnds(r)
    /\ UNCHANGED <<jobs, enqueued, relayFaults>>

(* None of the marks looks at the status or at whose claim it is.          *)
MarkDispatched(r) ==
    /\ relay[r].pc = "marking"
    /\ event' = [event EXCEPT ![relay[r].order].status = "DISPATCHED"]
    /\ RelayEnds(r)
    /\ UNCHANGED <<jobs, enqueued, relayFaults>>

(* Mutant: the threshold is off by one.                                    *)
ExhaustedEarly(r) == relay[r].attempts + 1 >= MaxAttempts
Exhausted(r) == relay[r].attempts >= MaxAttempts

MarkRetry(r) ==
    /\ relay[r].pc = "failing" /\ ~Exhausted(r)
    /\ event' = [event EXCEPT ![relay[r].order].status = "NEW", ![relay[r].order].due = FALSE,
                              ![relay[r].order].claim = "none"]
    /\ RelayEnds(r)
    /\ UNCHANGED <<jobs, enqueued, relayFaults>>

(* Mutant: a status of its own, which no query knows.                      *)
MarkDeadLetter(r) ==
    /\ relay[r].pc = "failing" /\ Exhausted(r)
    /\ event' = [event EXCEPT ![relay[r].order].status = "DEAD", ![relay[r].order].claim = "none"]
    /\ RelayEnds(r)
    /\ UNCHANGED <<jobs, enqueued, relayFaults>>

MarkDead(r) ==
    /\ relay[r].pc = "failing" /\ Exhausted(r)
    /\ event' = [event EXCEPT ![relay[r].order].status = "FAILED",
                              ![relay[r].order].claim = "none"]
    /\ RelayEnds(r)
    /\ UNCHANGED <<jobs, enqueued, relayFaults>>

(* An await of dispatch() throws before it had its effect, and is caught.  *)
(* An add that had its effect but lost its answer is the same as a mark    *)
(* that never left.                                                        *)
DispatchThrows(r) ==
    /\ relay[r].pc \in {"adding", "marking"}
    /\ relayFaults < MaxRelayFaults
    /\ relayFaults' = relayFaults + 1
    /\ RelayGoes(r, "failing")
    /\ UNCHANGED <<event, jobs, enqueued>>

(* The row was marked, but the answer is lost. *)
MarkedUnanswered(r) ==
    /\ relay[r].pc = "marking"
    /\ relayFaults < MaxRelayFaults
    /\ relayFaults' = relayFaults + 1
    /\ event' = [event EXCEPT ![relay[r].order].status = "DISPATCHED"]
    /\ RelayGoes(r, "failing")
    /\ UNCHANGED <<jobs, enqueued>>

(* The instance dies, or the mark of a failure throws and ends the pass.   *)
RelayDies(r) ==
    /\ relay[r].pc # "polling"
    /\ relayFaults < MaxRelayFaults
    /\ relayFaults' = relayFaults + 1
    /\ RelayEnds(r)
    /\ UNCHANGED <<event, jobs, enqueued>>

RelayStep(r) ==
    \/ \E o \in Orders : ClaimNext(r, o)
    \/ Add(r) \/ MarkDispatched(r) \/ MarkRetry(r) \/ MarkDead(r)

RelayFault(r) == DispatchThrows(r) \/ MarkedUnanswered(r) \/ RelayDies(r)

-----------------------------------------------------------------------------
(* Time, and the queue: a finished job is kept for a while, then its id is *)
(* free again.                                                             *)

LeasePeriodPasses(o) ==
    /\ event[o].claim = "live" \/ \E r \in Relays : relay[r].order = o /\ relay[r].leased
    /\ event' = [event EXCEPT ![o].claim = IF @ = "live" THEN "stale" ELSE @]
    /\ relay' = [r \in Relays |->
                   IF relay[r].order = o THEN [relay[r] EXCEPT !.leased = FALSE] ELSE relay[r]]
    /\ UNCHANGED <<jobs, enqueued, relayFaults>>

BackoffElapses(o) ==
    /\ event[o].status # "none" /\ ~event[o].due
    /\ event' = [event EXCEPT ![o].due = TRUE]
    /\ UNCHANGED <<jobs, enqueued, relay, relayFaults>>

JobForgotten(o) ==
    /\ o \in jobs
    /\ jobs' = jobs \ {o}
    /\ UNCHANGED <<event, enqueued, relay, relayFaults>>

OutboxNext ==
    \/ \E o \in Orders : CreateOrderCreatedEvent(o) \/ LeasePeriodPasses(o)
                         \/ BackoffElapses(o) \/ JobForgotten(o)
    \/ \E r \in Relays : RelayStep(r) \/ RelayFault(r)

OutboxSpec == OutboxInit /\ [][OutboxNext]_outboxVars

(* The poll interval fires for ever, and time passes. *)
OutboxFairness ==
    /\ \A r \in Relays : WF_outboxVars(RelayStep(r))
    /\ \A o \in Orders : WF_outboxVars(LeasePeriodPasses(o)) /\ WF_outboxVars(BackoffElapses(o))

FairOutboxSpec == OutboxSpec /\ OutboxFairness

-----------------------------------------------------------------------------
(***************************************************************************)
(* Properties.                                                             *)
(***************************************************************************)

(* An event is DISPATCHED only when a job was made for its order, whatever *)
(* relay marked it and however late: no order is announced to nobody.      *)
DispatchedMeansEnqueued ==
    \A o \in Orders : event[o].status = "DISPATCHED" => o \in enqueued

(* An event is given up only after MaxAttempts claims of it, though late   *)
(* relays mark rows that others have claimed since.                        *)
GivenUpMeansExhausted ==
    \A o \in Orders : event[o].status = "FAILED" => event[o].attempts >= MaxAttempts

(* Every event comes to rest, DISPATCHED or FAILED: no crash strands it    *)
(* and no late mark keeps it going round.                                  *)
EventsComeToRest ==
    \A o \in Orders :
        event[o].status = "NEW" ~> [](event[o].status \in {"DISPATCHED", "FAILED"})

(* outbox.repository.ts, claimNext: attempts are counted on claim so that  *)
(* a row that always kills its relay stops at maxAttempts.                 *)
AttemptsAreBounded == \A o \in Orders : event[o].attempts <= MaxAttempts

(* outbox.repository.ts, markDead: no worker will ever see a FAILED event. *)
GivenUpMeansUnseen == \A o \in Orders : event[o].status = "FAILED" => o \notin enqueued

(* outbox-relay.service.ts: each event is dispatched by exactly one relay  *)
(* per lease window.                                                       *)
OneRelayPerLease ==
    \A o \in Orders : Cardinality({r \in Relays : relay[r].order = o /\ relay[r].leased}) <= 1
=============================================================================
