----------------------------- MODULE SweepClaims -----------------------------
(***************************************************************************)
(* When a sweep may take an order: claimStale of orders.repository.ts and  *)
(* the passes of order-reconciliation.service.ts, on a clock.  OrderSaga   *)
(* lets a sweeper claim at any moment; here staleness, lease, batch and    *)
(* schedule decide, next to the retries of the order's job.                *)
(*                                                                         *)
(* A tick is the unit of time. What takes no time at that scale (a claim,  *)
(* a transition) happens between two ticks; handlers, attempts and waits   *)
(* take up to the number of ticks that a constant gives them.              *)
(***************************************************************************)
EXTENDS Integers, Sequences

CONSTANTS
    Orders,
    Passes,        \* passes that may run at once, of one instance or of several
    Poisoned,      \* orders whose handler throws every time
    StaleAfter,    \* ordersConfig.sweeper.staleAfterMs
    Lease,         \* ordersConfig.sweeper.leaseMs
    BatchSize,     \* ordersConfig.sweeper.batchSize
    Interval,      \* CronExpression.EVERY_30_SECONDS
    HandlerTime,   \* bound: the ticks a handler may take
    DispatchTime,  \* bound: the ticks until the queue hands a new order's job to a worker
    AttemptTime,   \* bound: the ticks an attempt may take, its wait for a worker included
    MaxAttempts,   \* queueConfig.attempts
    Backoff,       \* Backoff[k]: the delay after attempt k
    BudgetFrom,    \* BudgetFrom[k]: the ticks that attempt k and its successors may take
    Horizon,       \* bound: ages are counted no further
    MaxFaults,     \* bound: handlers that throw by chance and passes that die
    NoOrder

(* What env.validation.ts enforces of the sweeper's configuration.         *)
ValidSweeperConfig == StaleAfter >= 1 /\ Lease >= 1 /\ BatchSize >= 1

ASSUME SweepAssumption ==
    /\ {StaleAfter, Lease, BatchSize, Interval, HandlerTime, DispatchTime, AttemptTime,
        Horizon, MaxFaults} \subseteq Nat
    /\ ValidSweeperConfig /\ Interval >= 1
    /\ Horizon >= StaleAfter
    /\ NoOrder \notin Orders

ASSUME BudgetAssumption ==
    /\ MaxAttempts \in Nat \ {0}
    /\ Backoff \in [1..MaxAttempts -> Nat]
    /\ BudgetFrom \in [1..MaxAttempts -> Nat]
    /\ \A k \in 1..MaxAttempts :
           BudgetFrom[k] = AttemptTime + (IF k = MaxAttempts THEN 0
                                          ELSE Backoff[k] + BudgetFrom[k + 1])

VARIABLES
    status,      \* status[o]: the status of the order, the terminal ones taken as one
    age,         \* age[o]: the ticks since updatedAt
    lease,       \* lease[o]: the ticks until sweepLeaseUntil, 0 if absent or past
    job,         \* job[o]: the saga job of the order, and the ticks its phase may still take
    pass,        \* pass[p]: where a sweep is
    cron,        \* the ticks until the schedule fires
    sinceClaim,  \* history: the ticks since a sweep claimed o, up to Window
    faults

sweepVars == <<status, age, lease, job, pass, cron, sinceClaim, faults>>

(* The order in which sweep() goes through the statuses.                   *)
Swept == <<"PENDING", "STOCK_RESERVED", "PAYMENT_AUTHORIZED", "COMPENSATING">>
Open == {"PENDING", "STOCK_RESERVED", "PAYMENT_AUTHORIZED", "COMPENSATING"}

(* Where a worker, and where a sweeper, may take an order next.            *)
WorkerTargets(s) ==
    CASE s = "PENDING" -> {"STOCK_RESERVED", "settled"}
      [] s = "STOCK_RESERVED" -> {"PAYMENT_AUTHORIZED", "COMPENSATING"}
      [] OTHER -> {"settled"}
SweeperTargets(s) ==
    IF s = "STOCK_RESERVED" THEN {"PAYMENT_AUTHORIZED", "COMPENSATING"} ELSE {"settled"}

Window == IF Lease < StaleAfter THEN Lease ELSE StaleAfter

Phase == {"dispatch", "attempt", "backoff", "gone"}
Job == [phase : Phase, attempt : 0..MaxAttempts, left : Nat]
NoJob == [phase |-> "gone", attempt |-> 0, left |-> 0]

(* "at" is the index in Swept, "from" the status the handler acts on.      *)
Pass == [pc : {"idle", "scan", "handle"}, at : 1..4, taken : 0..BatchSize,
         order : Orders \cup {NoOrder}, from : Open \cup {"none"}, left : 0..HandlerTime]
Resting == [pc |-> "idle", at |-> 1, taken |-> 0, order |-> NoOrder, from |-> "none", left |-> 0]
Scanning(at, taken) == [pc |-> "scan", at |-> at, taken |-> taken, order |-> NoOrder,
                        from |-> "none", left |-> 0]

SweepTypeOK ==
    /\ status \in [Orders -> Open \cup {"settled"}]
    /\ age \in [Orders -> 0..Horizon]
    /\ lease \in [Orders -> 0..Lease]
    /\ job \in [Orders -> Job]
    /\ pass \in [Passes -> Pass]
    /\ cron \in 1..Interval
    /\ sinceClaim \in [Orders -> 0..Window]
    /\ faults \in 0..MaxFaults

SweepInit ==
    /\ status = [o \in Orders |-> "PENDING"]
    /\ age = [o \in Orders |-> 0]
    /\ lease = [o \in Orders |-> 0]
    /\ job = [o \in Orders |-> [phase |-> "dispatch", attempt |-> 0, left |-> DispatchTime]]
    /\ pass = [p \in Passes |-> Resting]
    /\ cron = Interval
    /\ sinceClaim = [o \in Orders |-> Window]
    /\ faults = 0

-----------------------------------------------------------------------------
(* Mutant: the claim is left on the document.                              *)
TransitionKeepingClaim(o, to) ==
    /\ status' = [status EXCEPT ![o] = to]
    /\ age' = [age EXCEPT ![o] = 0]
    /\ UNCHANGED lease

(* OrdersRepository.transition, when it applies: it touches updatedAt and  *)
(* removes the claim.                                                      *)
Transition(o, to) ==
    /\ status' = [status EXCEPT ![o] = to]
    /\ age' = [age EXCEPT ![o] = 0]
    /\ lease' = [lease EXCEPT ![o] = 0]

-----------------------------------------------------------------------------
(* The job of an order: attempts with exponential backoff, until one goes  *)
(* through, the last one fails, or the queue loses the job.                *)

StartAttempt(o) ==
    /\ job[o].phase = "dispatch" \/ (job[o].phase = "backoff" /\ job[o].left = 0)
    /\ job' = [job EXCEPT ![o] = [phase |-> "attempt", attempt |-> job[o].attempt + 1,
                                  left |-> AttemptTime]]
    /\ UNCHANGED <<status, age, lease, pass, cron, sinceClaim, faults>>

WorkerMoves(o) ==
    /\ job[o].phase = "attempt"
    /\ status[o] \in Open
    /\ \E to \in WorkerTargets(status[o]) : Transition(o, to)
    /\ UNCHANGED <<job, pass, cron, sinceClaim, faults>>

AttemptEnds(o) ==
    /\ job[o].phase = "attempt"
    /\ job' = [job EXCEPT ![o] =
                 IF status[o] = "settled" \/ job[o].attempt = MaxAttempts THEN NoJob
                 ELSE [phase |-> "backoff", attempt |-> job[o].attempt,
                       left |-> Backoff[job[o].attempt]]]
    /\ UNCHANGED <<status, age, lease, pass, cron, sinceClaim, faults>>

JobLost(o) ==
    /\ job[o].phase # "gone"
    /\ job' = [job EXCEPT ![o] = NoJob]
    /\ UNCHANGED <<status, age, lease, pass, cron, sinceClaim, faults>>

JobStep(o) == StartAttempt(o) \/ WorkerMoves(o) \/ AttemptEnds(o) \/ JobLost(o)

-----------------------------------------------------------------------------
(* A pass.                                                                 *)

(* Mutant: stale one tick too early.                                       *)
AlmostStale(o, s) == status[o] = s /\ age[o] >= StaleAfter - 1 /\ lease[o] = 0

(* Mutant: the claim of another pass is not looked at.                     *)
StaleOnly(o, s) == status[o] = s /\ age[o] >= StaleAfter

Claimable(o, s) == status[o] = s /\ age[o] >= StaleAfter /\ lease[o] = 0

(* The longest unchanged of them: sort by updatedAt.                       *)
Oldest(candidates) == {o \in candidates : \A q \in candidates : age[q] <= age[o]}

(* The update of claimStale. It leaves updatedAt as it is.                 *)
Takes(p, o) ==
    /\ lease' = [lease EXCEPT ![o] = Lease]
    /\ sinceClaim' = [sinceClaim EXCEPT ![o] = 0]
    /\ pass' = [pass EXCEPT ![p] = [pc |-> "handle", at |-> pass[p].at,
                                    taken |-> pass[p].taken + 1, order |-> o,
                                    from |-> Swept[pass[p].at], left |-> HandlerTime]]
    /\ UNCHANGED <<status, age, job, cron, faults>>

ClaimStale(p, o) ==
    /\ pass[p].pc = "scan" /\ pass[p].taken < BatchSize
    /\ o \in Oldest({q \in Orders : Claimable(q, Swept[pass[p].at])})
    /\ Takes(p, o)

(* The batch is full, or nothing is stale in this status.                  *)
NextStatus(p) ==
    /\ pass[p].pc = "scan"
    /\ pass[p].taken = BatchSize \/ \A o \in Orders : ~Claimable(o, Swept[pass[p].at])
    /\ pass' = [pass EXCEPT ![p] = IF pass[p].at = 4 THEN Resting
                                   ELSE Scanning(pass[p].at + 1, 0)]
    /\ UNCHANGED <<status, age, lease, job, cron, sinceClaim, faults>>

(* The handler is over: sweepState goes on with its batch.                 *)
Handled(p) == Scanning(pass[p].at, pass[p].taken)

(* A step of a handler: it moves the order on and, if it is still open,    *)
(* goes on from there; or the status is no longer what it read.            *)
HandlerStep(p) ==
    LET o == pass[p].order IN
    /\ pass[p].pc = "handle"
    /\ o \notin Poisoned
    /\ \/ /\ status[o] = pass[p].from
          /\ \E to \in SweeperTargets(pass[p].from) :
                 /\ Transition(o, to)
                 /\ pass' = [pass EXCEPT ![p] = IF to = "settled" THEN Handled(p)
                                                ELSE [pass[p] EXCEPT !.from = to]]
       \/ /\ status[o] # pass[p].from
          /\ pass' = [pass EXCEPT ![p] = Handled(p)]
          /\ UNCHANGED <<status, age, lease>>
    /\ UNCHANGED <<job, cron, sinceClaim, faults>>

(* The lease simply expires. *)
HandlerThrows(p) ==
    /\ pass[p].pc = "handle"
    /\ pass[p].order \in Poisoned
    /\ pass' = [pass EXCEPT ![p] = Handled(p)]
    /\ UNCHANGED <<status, age, lease, job, cron, sinceClaim, faults>>

(* A handler throws by chance, or the instance of the pass dies.           *)
PassFault(p) ==
    /\ pass[p].pc = "handle"
    /\ faults < MaxFaults
    /\ faults' = faults + 1
    /\ \E next \in {Handled(p), Resting} : pass' = [pass EXCEPT ![p] = next]
    /\ UNCHANGED <<status, age, lease, job, cron, sinceClaim>>

PassStep(p) ==
    \/ \E o \in Orders : ClaimStale(p, o)
    \/ NextStatus(p) \/ HandlerStep(p) \/ HandlerThrows(p)

-----------------------------------------------------------------------------
(***************************************************************************)
(* Time passes when nothing is left that must happen now.  With the clock  *)
(* the schedule: every pass that rests starts.  (The code starts one also  *)
(* besides a pass that still runs; Passes bounds how many there are.)      *)
(***************************************************************************)
Tick ==
    /\ \A o \in Orders : job[o].phase = "gone" \/ job[o].left > 0
    /\ \A p \in Passes : pass[p].pc = "idle" \/ (pass[p].pc = "handle" /\ pass[p].left > 0)
    /\ age' = [o \in Orders |-> IF status[o] \in Open /\ age[o] < Horizon THEN age[o] + 1
                                ELSE age[o]]
    /\ lease' = [o \in Orders |-> IF lease[o] > 0 THEN lease[o] - 1 ELSE 0]
    /\ sinceClaim' = [o \in Orders |-> IF sinceClaim[o] < Window THEN sinceClaim[o] + 1
                                       ELSE Window]
    /\ job' = [o \in Orders |-> IF job[o].phase = "gone" THEN NoJob
                                ELSE [job[o] EXCEPT !.left = @ - 1]]
    /\ cron' = IF cron = 1 THEN Interval ELSE cron - 1
    /\ pass' = [p \in Passes |->
                  IF pass[p].pc = "handle" THEN [pass[p] EXCEPT !.left = @ - 1]
                  ELSE IF cron = 1 THEN Scanning(1, 0) ELSE Resting]
    /\ UNCHANGED <<status, faults>>

SweepNext ==
    \/ \E o \in Orders : JobStep(o)
    \/ \E p \in Passes : PassStep(p) \/ PassFault(p)
    \/ Tick

SweepSpec == SweepInit /\ [][SweepNext]_sweepVars

(* The schedule fires for ever, and what runs goes on.                     *)
FairSweepSpec ==
    /\ SweepSpec
    /\ WF_sweepVars(Tick)
    /\ \A p \in Passes : WF_sweepVars(PassStep(p))
    /\ \A o \in Orders : WF_sweepVars(StartAttempt(o)) /\ WF_sweepVars(AttemptEnds(o))

-----------------------------------------------------------------------------
(***************************************************************************)
(* Properties.                                                             *)
(***************************************************************************)

(* claimStale: one pass wins an order per lease window, also when several  *)
(* sweep at once, when a handler outlives its lease, and when a transition *)
(* removes the claim early (after which the order must grow stale again,   *)
(* so the window is the lease or the staleness, whichever is shorter).     *)
ClaimsAreSpaced ==
    [][\A o \in Orders : (\E p \in Passes : ClaimStale(p, o)) => sinceClaim[o] = Window]_sweepVars

(* The comment on transition: no claim lingers on a terminal order, though *)
(* several passes and a worker may have had the order in hand.             *)
NoClaimLingers == \A o \in Orders : status[o] = "settled" => lease[o] = 0

(* orders.config.ts: with staleAfterMs above the whole retry budget of the *)
(* worker, the sweeper never takes an order the worker still retries.      *)
RetriesAreLeftAlone ==
    [][\A o \in Orders : (\E p \in Passes : ClaimStale(p, o)) => job[o].phase = "gone"]_sweepVars

(* Orders that can be settled are, although others throw for ever, are the *)
(* oldest and fill the batch: their leases let the next pass get past      *)
(* them. That takes a lease longer than the interval, handlers that do not *)
(* outlast it, and no more such orders than the batches of a lease cover;  *)
(* the code enforces none of the three.                                    *)
PoisonDoesNotStarve ==
    \A o \in Orders \ Poisoned : <>[](status[o] = "settled")
=============================================================================
