----------------------------- MODULE OutboxProofs -----------------------------
(***************************************************************************)
(* Theorems about Outbox: for any number of relays, events and faults, an  *)
(* event is marked only as what happened to it allows.                     *)
(***************************************************************************)
EXTENDS Outbox, TLAPS

(* What a relay knows when it comes to mark its row, however late: the job *)
(* was made, and the row has been claimed at least as often as it knows.   *)
RelaysKnow ==
    \A r \in Relays : relay[r].pc # "polling" =>
        /\ relay[r].order \in Orders
        /\ relay[r].attempts <= event[relay[r].order].attempts
        /\ relay[r].pc = "marking" => relay[r].order \in enqueued

OutboxInv ==
    /\ OutboxTypeOK
    /\ DispatchedMeansEnqueued
    /\ GivenUpMeansExhausted
    /\ RelaysKnow

(* Nothing is dispatched yet. *)
LEMMA OutboxInitInv == OutboxInit => OutboxInv
  BY OutboxAssumption
  DEF OutboxInit, OutboxInv, OutboxTypeOK, Event, EventStatus, Dispatch, RelayPc, Polling,
      DispatchedMeansEnqueued, GivenUpMeansExhausted, RelaysKnow

(* A change of one row that keeps its type, does not lower its attempts    *)
(* and is justified, beside relays that know as much as before.            *)
LEMMA RowChanges ==
    ASSUME OutboxInv, NEW o \in Orders, NEW e \in Event,
           event' = [event EXCEPT ![o] = e],
           e.attempts >= event[o].attempts,
           e.status = "DISPATCHED" => o \in enqueued,
           e.status = "FAILED" => e.attempts >= MaxAttempts,
           enqueued \subseteq enqueued', enqueued' \subseteq Orders, jobs' \subseteq enqueued',
           relayFaults' \in 0..MaxRelayFaults,
           NEW r \in Relays, NEW d \in Dispatch,
           relay' = [relay EXCEPT ![r] = d],
           d.pc # "polling" => /\ d.order \in Orders
                               /\ d.attempts <= event'[d.order].attempts
                               /\ d.pc = "marking" => d.order \in enqueued'
    PROVE  OutboxInv'
  <1>1. /\ event \in [Orders -> Event] /\ event' \in [Orders -> Event]
        /\ \A q \in Orders : q # o => event'[q] = event[q]
        /\ event'[o] = e
    BY DEF OutboxInv, OutboxTypeOK
  <1>2. /\ relay \in [Relays -> Dispatch] /\ relay' \in [Relays -> Dispatch]
        /\ \A q \in Relays : q # r => relay'[q] = relay[q]
        /\ relay'[r] = d
    BY DEF OutboxInv, OutboxTypeOK
  <1>3. OutboxTypeOK'
    BY <1>1, <1>2 DEF OutboxTypeOK
  <1>4. DispatchedMeansEnqueued' /\ GivenUpMeansExhausted'
    BY <1>1 DEF OutboxInv, DispatchedMeansEnqueued, GivenUpMeansExhausted
  <1>5. \A q \in Orders : event'[q].attempts >= event[q].attempts
    BY <1>1 DEF Event
  <1>6. RelaysKnow'
    <2> SUFFICES ASSUME NEW q \in Relays, relay'[q].pc # "polling"
                 PROVE  /\ relay'[q].order \in Orders
                        /\ relay'[q].attempts <= event'[relay'[q].order].attempts
                        /\ relay'[q].pc = "marking" => relay'[q].order \in enqueued'
      BY DEF RelaysKnow
    <2>1. CASE q = r
      BY <1>2, <2>1
    <2>2. CASE q # r
      <3>1. /\ relay[q].order \in Orders /\ relay'[q] = relay[q]
            /\ relay[q].attempts <= event[relay[q].order].attempts
            /\ relay[q].pc = "marking" => relay[q].order \in enqueued
        BY <1>2, <2>2 DEF OutboxInv, RelaysKnow
      <3>2. relay[q].attempts \in Nat
        BY <1>2 DEF Dispatch
      <3>3. event[relay[q].order].attempts \in Nat /\ event'[relay[q].order].attempts \in Nat
        BY <1>1, <3>1 DEF Event
      <3> QED BY <1>5, <3>1, <3>2, <3>3
    <2> QED BY <2>1, <2>2
  <1> QED BY <1>3, <1>4, <1>6 DEF OutboxInv

(* What is known of a relay that is dispatching.                           *)
LEMMA RelayFacts ==
    ASSUME OutboxInv, NEW r \in Relays, relay[r].pc # "polling"
    PROVE  /\ relay[r].order \in Orders
           /\ relay[r] \in Dispatch
           /\ event[relay[r].order] \in Event
           /\ relay[r].attempts <= event[relay[r].order].attempts
           /\ relay[r].pc = "marking" => relay[r].order \in enqueued
  BY DEF OutboxInv, OutboxTypeOK, RelaysKnow

(* The row is inserted with its order, and no relay moves.                 *)
LEMMA CreateInv ==
    ASSUME OutboxInv, NEW o \in Orders, CreateOrderCreatedEvent(o) \/ BackoffElapses(o)
    PROVE  OutboxInv'
  <1>1. event \in [Orders -> Event] /\ event[o] \in Event
    BY DEF OutboxInv, OutboxTypeOK
  <1>2. /\ event' \in [Orders -> Event]
        /\ \A q \in Orders : q # o => event'[q] = event[q]
        /\ event'[o].attempts = event[o].attempts
        /\ event'[o].status \in {event[o].status, "NEW"}
        /\ UNCHANGED <<jobs, enqueued, relay, relayFaults>>
    <2>1. CASE CreateOrderCreatedEvent(o)
      <3> DEFINE e == [event[o] EXCEPT !.status = "NEW", !.due = TRUE]
      <3>1. e \in Event /\ e.attempts = event[o].attempts /\ e.status = "NEW"
        BY <1>1 DEF Event, EventStatus
      <3>2. event' = [event EXCEPT ![o] = e] /\ UNCHANGED <<jobs, enqueued, relay, relayFaults>>
        BY <1>1, <2>1 DEF CreateOrderCreatedEvent
      <3> HIDE DEF e
      <3> QED BY <1>1, <3>1, <3>2
    <2>2. CASE BackoffElapses(o)
      <3> DEFINE e == [event[o] EXCEPT !.due = TRUE]
      <3>1. e \in Event /\ e.attempts = event[o].attempts /\ e.status = event[o].status
        BY <1>1 DEF Event, EventStatus
      <3>2. event' = [event EXCEPT ![o] = e] /\ UNCHANGED <<jobs, enqueued, relay, relayFaults>>
        BY <1>1, <2>2 DEF BackoffElapses
      <3> HIDE DEF e
      <3> QED BY <1>1, <3>1, <3>2
    <2> QED BY <2>1, <2>2
  <1>3. OutboxTypeOK'
    BY <1>2 DEF OutboxInv, OutboxTypeOK
  <1>4. \A q \in Orders : event'[q].attempts = event[q].attempts
    BY <1>2
  <1>5. DispatchedMeansEnqueued' /\ GivenUpMeansExhausted'
    BY <1>2, <1>4 DEF OutboxInv, DispatchedMeansEnqueued, GivenUpMeansExhausted
  <1>6. RelaysKnow'
    BY <1>2, <1>4 DEF OutboxInv, RelaysKnow
  <1> QED BY <1>3, <1>5, <1>6 DEF OutboxInv

(* A claim is counted on the row and by the relay at once.                 *)
LEMMA ClaimNextInv ==
    ASSUME OutboxInv, NEW r \in Relays, NEW o \in Orders, ClaimNext(r, o)
    PROVE  OutboxInv'
  <1> DEFINE e == [event[o] EXCEPT !.claim = "live", !.attempts = @ + 1]
             d == [pc |-> "adding", order |-> o, attempts |-> event[o].attempts + 1, leased |-> TRUE]
  <1>1. event \in [Orders -> Event] /\ event[o] \in Event /\ event[o].attempts \in Nat
    BY DEF OutboxInv, OutboxTypeOK, Event
  <1>2. e \in Event /\ e.attempts = event[o].attempts + 1 /\ e.status = event[o].status
    <2>1. event[o].attempts + 1 \in Nat
      BY <1>1
    <2> DEFINE n == event[o].attempts + 1
               f == [event[o] EXCEPT !.claim = "live", !.attempts = n]
    <2>2. ASSUME NEW k \in Nat
          PROVE  LET g == [event[o] EXCEPT !.claim = "live", !.attempts = k]
                 IN  g \in Event /\ g.attempts = k /\ g.status = event[o].status
      BY <1>1 DEF Event, EventStatus
    <2> QED BY <2>1, <2>2
  <1>3. event' = [event EXCEPT ![o] = e]
    BY <1>1 DEF ClaimNext
  <1>4. d \in Dispatch
    BY <1>1 DEF Dispatch, RelayPc
  <1>5. event'[o] = e
    BY <1>1, <1>3
  <1>6. e.status = "NEW"
    BY <1>2 DEF ClaimNext, Claimable
  <1>7. d.pc = "adding" /\ d.order = o /\ d.attempts = e.attempts
    BY <1>2
  <1>8. relay' = [relay EXCEPT ![r] = d] /\ UNCHANGED <<jobs, enqueued, relayFaults>>
    BY DEF ClaimNext
  <1>9. /\ enqueued \subseteq enqueued' /\ enqueued' \subseteq Orders /\ jobs' \subseteq enqueued'
        /\ relayFaults' \in 0..MaxRelayFaults
    BY <1>8 DEF OutboxInv, OutboxTypeOK
  <1>10. e.attempts >= event[o].attempts
    BY <1>1, <1>2
  <1>11. d.attempts <= event'[d.order].attempts
    <2>1. e.attempts \in Nat
      BY <1>1, <1>2
    <2> HIDE DEF e, d
    <2> QED BY <1>5, <1>7, <2>1
  <1> HIDE DEF e, d
  <1> QED BY <1>2, <1>3, <1>4, <1>6, <1>7, <1>8, <1>9, <1>10, <1>11, RowChanges

(* A job is made, and the relay knows it.                                  *)
LEMMA AddInv ==
    ASSUME OutboxInv, NEW r \in Relays, Add(r)
    PROVE  OutboxInv'
  <1> DEFINE o == relay[r].order
             d == [relay[r] EXCEPT !.pc = "marking"]
  <1>1. /\ o \in Orders /\ relay[r] \in Dispatch /\ event[o] \in Event
        /\ relay[r].attempts <= event[o].attempts
    BY RelayFacts DEF Add
  <1>2. /\ d \in Dispatch /\ d.pc = "marking" /\ d.order = o /\ d.attempts = relay[r].attempts
    BY <1>1 DEF Dispatch, RelayPc
  <1>3. event \in [Orders -> Event] /\ event' = [event EXCEPT ![o] = event[o]]
    BY <1>1 DEF OutboxInv, OutboxTypeOK, Add
  <1>4. relay' = [relay EXCEPT ![r] = d]
    BY DEF Add, RelayGoes, OutboxInv, OutboxTypeOK
  <1>5. /\ enqueued \subseteq enqueued' /\ enqueued' \subseteq Orders /\ jobs' \subseteq enqueued'
        /\ relayFaults' \in 0..MaxRelayFaults /\ o \in enqueued'
    BY <1>1 DEF OutboxInv, OutboxTypeOK, Add
  <1>6. /\ event[o].attempts >= event[o].attempts
        /\ event[o].status = "DISPATCHED" => o \in enqueued
        /\ event[o].status = "FAILED" => event[o].attempts >= MaxAttempts
    BY <1>1 DEF Event, OutboxInv, DispatchedMeansEnqueued, GivenUpMeansExhausted
  <1>7. d.attempts <= event'[d.order].attempts
    BY <1>1, <1>2, <1>3
  <1> HIDE DEF d, o
  <1> QED BY <1>1, <1>2, <1>3, <1>4, <1>5, <1>6, <1>7, RowChanges

(* A relay that stops leaves the row as it is, or marks it as it knows.    *)
LEMMA RelayEndsInv ==
    ASSUME OutboxInv, NEW r \in Relays, relay[r].pc # "polling",
           NEW e \in Event, event' = [event EXCEPT ![relay[r].order] = e],
           e.attempts = event[relay[r].order].attempts,
           \/ e.status \in {"NEW", event[relay[r].order].status}
           \/ e.status = "DISPATCHED" /\ relay[r].pc = "marking"
           \/ e.status = "FAILED" /\ relay[r].attempts >= MaxAttempts,
           UNCHANGED <<jobs, enqueued>>, relayFaults' \in 0..MaxRelayFaults,
           RelayEnds(r) \/ RelayGoes(r, "failing")
    PROVE  OutboxInv'
  <1> DEFINE o == relay[r].order
  <1>1. /\ o \in Orders /\ relay[r] \in Dispatch /\ event[o] \in Event
        /\ relay[r].attempts <= event[o].attempts
        /\ relay[r].pc = "marking" => o \in enqueued
    BY RelayFacts
  <1>2. e.attempts \in Nat /\ event[o].attempts \in Nat /\ relay[r].attempts \in Nat
        /\ MaxAttempts \in Nat
    BY <1>1, OutboxAssumption DEF Event, Dispatch
  <1>3. /\ event[o].status = "DISPATCHED" => o \in enqueued
        /\ event[o].status = "FAILED" => event[o].attempts >= MaxAttempts
    BY <1>1 DEF OutboxInv, DispatchedMeansEnqueued, GivenUpMeansExhausted
  <1>4. /\ e.attempts >= event[o].attempts
        /\ e.status = "DISPATCHED" => o \in enqueued
        /\ e.status = "FAILED" => e.attempts >= MaxAttempts
    BY <1>1, <1>2, <1>3
  <1>5. /\ enqueued \subseteq enqueued' /\ enqueued' \subseteq Orders /\ jobs' \subseteq enqueued'
    BY DEF OutboxInv, OutboxTypeOK
  <1>6. event'[o] = e
    BY <1>1 DEF OutboxInv, OutboxTypeOK
  <1>7. CASE RelayEnds(r)
    <2>1. Polling \in Dispatch /\ Polling.pc = "polling"
      BY DEF Polling, Dispatch, RelayPc
    <2>2. relay' = [relay EXCEPT ![r] = Polling]
      BY <1>7 DEF RelayEnds
    <2> HIDE DEF o
    <2> QED BY <1>1, <1>4, <1>5, <2>1, <2>2, RowChanges DEF o
  <1>8. CASE RelayGoes(r, "failing")
    <2> DEFINE d == [relay[r] EXCEPT !.pc = "failing"]
    <2>1. d \in Dispatch /\ d.pc = "failing" /\ d.order = o /\ d.attempts = relay[r].attempts
      BY <1>1 DEF Dispatch, RelayPc
    <2>2. relay' = [relay EXCEPT ![r] = d]
      BY <1>8 DEF RelayGoes, OutboxInv, OutboxTypeOK
    <2>3. d.attempts <= event'[d.order].attempts
      BY <1>1, <1>2, <1>6, <2>1
    <2> HIDE DEF d
    <2> QED BY <1>1, <1>4, <1>5, <2>1, <2>2, <2>3, RowChanges
  <1> QED BY <1>7, <1>8

(* The marks, and the failures of a dispatch.                              *)
LEMMA MarksInv ==
    ASSUME OutboxInv, NEW r \in Relays,
           MarkDispatched(r) \/ MarkRetry(r) \/ MarkDead(r) \/ RelayFault(r)
    PROVE  OutboxInv'
  <1> DEFINE o == relay[r].order
  <1>0. relay[r].pc # "polling"
    BY DEF MarkDispatched, MarkRetry, MarkDead, RelayFault, DispatchThrows, MarkedUnanswered, RelayDies
  <1>1. /\ o \in Orders /\ event[o] \in Event /\ event \in [Orders -> Event]
        /\ relayFaults \in 0..MaxRelayFaults
    BY <1>0, RelayFacts DEF OutboxInv, OutboxTypeOK
  <1>2. CASE MarkDispatched(r) \/ MarkedUnanswered(r)
    <2> DEFINE e == [event[o] EXCEPT !.status = "DISPATCHED"]
    <2>1. e \in Event /\ e.attempts = event[o].attempts /\ e.status = "DISPATCHED"
      BY <1>1 DEF Event, EventStatus
    <2>2. event' = [event EXCEPT ![o] = e]
      BY <1>1, <1>2 DEF MarkDispatched, MarkedUnanswered
    <2>3. /\ relay[r].pc = "marking" /\ UNCHANGED <<jobs, enqueued>>
          /\ RelayEnds(r) \/ RelayGoes(r, "failing")
          /\ relayFaults' \in 0..MaxRelayFaults
      BY <1>1, <1>2, OutboxAssumption DEF MarkDispatched, MarkedUnanswered
    <2> HIDE DEF e
    <2> QED BY <1>0, <2>1, <2>2, <2>3, RelayEndsInv
  <1>3. CASE MarkRetry(r)
    <2> DEFINE e == [event[o] EXCEPT !.status = "NEW", !.due = FALSE, !.claim = "none"]
    <2>1. e \in Event /\ e.attempts = event[o].attempts /\ e.status = "NEW"
      BY <1>1 DEF Event, EventStatus
    <2>2. event' = [event EXCEPT ![o] = e]
      BY <1>1, <1>3 DEF MarkRetry
    <2> HIDE DEF e
    <2> QED BY <1>0, <1>1, <1>3, <2>1, <2>2, RelayEndsInv DEF MarkRetry
  <1>4. CASE MarkDead(r)
    <2> DEFINE e == [event[o] EXCEPT !.status = "FAILED", !.claim = "none"]
    <2>1. e \in Event /\ e.attempts = event[o].attempts /\ e.status = "FAILED"
      BY <1>1 DEF Event, EventStatus
    <2>2. event' = [event EXCEPT ![o] = e]
      BY <1>1, <1>4 DEF MarkDead
    <2> HIDE DEF e
    <2> QED BY <1>0, <1>1, <1>4, <2>1, <2>2, RelayEndsInv DEF MarkDead, Exhausted
  <1>5. CASE DispatchThrows(r) \/ RelayDies(r)
    <2>1. event' = [event EXCEPT ![o] = event[o]]
      BY <1>1, <1>5 DEF DispatchThrows, RelayDies
    <2>2. /\ RelayEnds(r) \/ RelayGoes(r, "failing")
          /\ relayFaults' \in 0..MaxRelayFaults /\ UNCHANGED <<jobs, enqueued>>
      BY <1>1, <1>5, OutboxAssumption DEF DispatchThrows, RelayDies
    <2> QED BY <1>0, <1>1, <2>1, <2>2, RelayEndsInv
  <1> QED BY <1>2, <1>3, <1>4, <1>5 DEF RelayFault

(* Time touches only leases, the queue only forgets.                       *)
LEMMA SurroundingsInv ==
    ASSUME OutboxInv, NEW o \in Orders, LeasePeriodPasses(o) \/ JobForgotten(o)
    PROVE  OutboxInv'
  <1>1. event \in [Orders -> Event] /\ relay \in [Relays -> Dispatch]
    BY DEF OutboxInv, OutboxTypeOK
  <1>2. CASE JobForgotten(o)
    BY <1>2 DEF JobForgotten, OutboxInv, OutboxTypeOK, DispatchedMeansEnqueued,
                GivenUpMeansExhausted, RelaysKnow
  <1>3. CASE LeasePeriodPasses(o)
    <2>1. /\ event' \in [Orders -> Event]
          /\ \A q \in Orders : /\ event'[q].status = event[q].status
                               /\ event'[q].attempts = event[q].attempts
      BY <1>1, <1>3 DEF LeasePeriodPasses, Event
    <2>2. /\ relay' \in [Relays -> Dispatch]
          /\ \A r \in Relays : /\ relay'[r].pc = relay[r].pc
                               /\ relay'[r].order = relay[r].order
                               /\ relay'[r].attempts = relay[r].attempts
      BY <1>1, <1>3 DEF LeasePeriodPasses, Dispatch
    <2>3. UNCHANGED <<jobs, enqueued, relayFaults>>
      BY <1>3 DEF LeasePeriodPasses
    <2>4. OutboxTypeOK'
      BY <2>1, <2>2, <2>3 DEF OutboxInv, OutboxTypeOK
    <2>5. DispatchedMeansEnqueued' /\ GivenUpMeansExhausted'
      BY <2>1, <2>3 DEF OutboxInv, DispatchedMeansEnqueued, GivenUpMeansExhausted
    <2>6. RelaysKnow'
      BY <2>1, <2>2, <2>3 DEF OutboxInv, RelaysKnow
    <2> QED BY <2>4, <2>5, <2>6 DEF OutboxInv
  <1> QED BY <1>2, <1>3

(* The invariant holds of every outbox.                                    *)
THEOREM OutboxInvariant == OutboxSpec => []OutboxInv
  <1>1. ASSUME OutboxInv, OutboxNext PROVE OutboxInv'
    BY <1>1, CreateInv, ClaimNextInv, AddInv, MarksInv, SurroundingsInv DEF OutboxNext, RelayStep
  <1>2. ASSUME OutboxInv, UNCHANGED outboxVars PROVE OutboxInv'
    BY <1>2 DEF outboxVars, OutboxInv, OutboxTypeOK, DispatchedMeansEnqueued,
                GivenUpMeansExhausted, RelaysKnow
  <1> QED BY <1>1, <1>2, OutboxInitInv, PTL DEF OutboxSpec

(* The rows and the relays stay in their types.                            *)
THEOREM OutboxTypeCorrect == OutboxSpec => []OutboxTypeOK
  BY OutboxInvariant, PTL DEF OutboxInv

(* No event is marked DISPATCHED without a job for its order.              *)
THEOREM DispatchedEventsHaveJobs == OutboxSpec => []DispatchedMeansEnqueued
  BY OutboxInvariant, PTL DEF OutboxInv

(* No event is given up before MaxAttempts claims.                         *)
THEOREM GivenUpEventsAreExhausted == OutboxSpec => []GivenUpMeansExhausted
  BY OutboxInvariant, PTL DEF OutboxInv
=============================================================================
