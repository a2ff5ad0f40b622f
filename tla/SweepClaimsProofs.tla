-------------------------- MODULE SweepClaimsProofs --------------------------
(***************************************************************************)
(* Proofs about SweepClaims, for any number of orders and passes, any      *)
(* configuration that boots, and any retry policy of the queue.            *)
(***************************************************************************)
EXTENDS SweepClaims, TLAPS

(* The attempt that each phase is about.                                   *)
JobShape ==
    \A o \in Orders :
        /\ job[o].phase = "dispatch" => job[o].attempt = 0
        /\ job[o].phase = "attempt" => job[o].attempt \in 1..MaxAttempts
        /\ job[o].phase = "backoff" => job[o].attempt \in 1..(MaxAttempts - 1)

(* Between claims: the claim still stands, or enough time has passed, or a *)
(* transition removed it, since when the order has aged.                   *)
Spacing ==
    \A o \in Orders :
        \/ sinceClaim[o] = Window
        \/ sinceClaim[o] + lease[o] >= Lease
        \/ age[o] <= sinceClaim[o]

(* The ticks the job of o may still take.                                  *)
Remaining(o) ==
    IF job[o].phase = "dispatch" THEN job[o].left + BudgetFrom[1]
    ELSE IF job[o].phase = "attempt" THEN job[o].left + BudgetFrom[job[o].attempt] - AttemptTime
    ELSE job[o].left + BudgetFrom[job[o].attempt + 1]

(* An order is never older than what its job has used of its budget.       *)
WithinBudget ==
    \A o \in Orders :
        job[o].phase # "gone" => age[o] + Remaining(o) <= DispatchTime + BudgetFrom[1]

SweepInv == SweepTypeOK /\ JobShape /\ Spacing /\ NoClaimLingers /\ WithinBudget

(* The constants, as the arithmetic below needs them.                      *)
LEMMA ConstantTypes ==
    /\ StaleAfter \in Nat \ {0} /\ Lease \in Nat \ {0} /\ BatchSize \in Nat \ {0}
    /\ Interval \in Nat \ {0} /\ HandlerTime \in Nat /\ DispatchTime \in Nat
    /\ AttemptTime \in Nat /\ Horizon \in Nat /\ MaxFaults \in Nat
    /\ Horizon >= StaleAfter /\ NoOrder \notin Orders
    /\ MaxAttempts \in Nat \ {0}
    /\ Backoff \in [1..MaxAttempts -> Nat] /\ BudgetFrom \in [1..MaxAttempts -> Nat]
    /\ Window \in Nat \ {0} /\ Window <= Lease /\ Window <= StaleAfter
<1>1. /\ StaleAfter \in Nat \ {0} /\ Lease \in Nat \ {0} /\ BatchSize \in Nat \ {0}
      /\ Interval \in Nat \ {0} /\ HandlerTime \in Nat /\ DispatchTime \in Nat
      /\ AttemptTime \in Nat /\ Horizon \in Nat /\ MaxFaults \in Nat
      /\ Horizon >= StaleAfter /\ NoOrder \notin Orders
    BY SweepAssumption DEF ValidSweeperConfig
<1>2. /\ MaxAttempts \in Nat \ {0}
      /\ Backoff \in [1..MaxAttempts -> Nat] /\ BudgetFrom \in [1..MaxAttempts -> Nat]
    BY BudgetAssumption
<1>3. Window \in Nat \ {0} /\ Window <= Lease /\ Window <= StaleAfter
    BY <1>1 DEF Window
<1>4. QED
    BY <1>1, <1>2, <1>3

(* What a claim writes and what follows a handler are passes.              *)
LEMMA PassTypes ==
    /\ Resting \in Pass
    /\ \A at \in 1..4, taken \in 0..BatchSize : Scanning(at, taken) \in Pass
BY ConstantTypes DEF Resting, Scanning, Pass

(* The statuses that a pass goes through are open.                         *)
LEMMA SweptOpen == \A at \in 1..4 : Swept[at] \in Open
BY DEF Swept, Open

(* Each attempt fits into the budget from it on.                           *)
LEMMA AttemptFits == \A k \in 1..MaxAttempts : BudgetFrom[k] \in Nat /\ BudgetFrom[k] >= AttemptTime
<1> SUFFICES ASSUME NEW k \in 1..MaxAttempts
             PROVE  BudgetFrom[k] \in Nat /\ BudgetFrom[k] >= AttemptTime
    OBVIOUS
<1> DEFINE rest == IF k = MaxAttempts THEN 0 ELSE Backoff[k] + BudgetFrom[k + 1]
<1>1. BudgetFrom[k] = AttemptTime + rest /\ BudgetFrom[k] \in Nat
    BY BudgetAssumption
<1>2. rest \in Nat
  <2>1. CASE k = MaxAttempts
      BY <2>1
  <2>2. CASE k # MaxAttempts
    <3>1. k + 1 \in 1..MaxAttempts
        BY <2>2, ConstantTypes
    <3>2. Backoff[k] \in Nat /\ BudgetFrom[k + 1] \in Nat
        BY <3>1, ConstantTypes
    <3>3. QED
        BY <2>2, <3>2
  <2>3. QED
      BY <2>1, <2>2
<1> HIDE DEF rest
<1>3. QED
    BY <1>1, <1>2, ConstantTypes

(* The rest of a job's budget is a number of ticks.                        *)
LEMMA RemainingType ==
    ASSUME SweepTypeOK, JobShape, NEW o \in Orders, job[o].phase # "gone"
    PROVE  Remaining(o) \in Int /\ Remaining(o) >= 0
<1> DEFINE k == job[o].attempt
<1>1. job[o] \in Job
    BY DEF SweepTypeOK
<1>2. job[o].phase \in {"dispatch", "attempt", "backoff"} /\ job[o].left \in Nat
    BY <1>1 DEF Job, Phase
<1>3. CASE job[o].phase = "dispatch"
  <2>1. Remaining(o) = job[o].left + BudgetFrom[1]
      BY <1>3 DEF Remaining
  <2>2. BudgetFrom[1] \in Nat
      BY ConstantTypes
  <2>3. QED
      BY <1>2, <2>1, <2>2
<1>4. CASE job[o].phase = "attempt"
  <2>1. BudgetFrom[k] \in Nat /\ BudgetFrom[k] >= AttemptTime /\ AttemptTime \in Nat
      BY <1>4, AttemptFits, ConstantTypes DEF JobShape
  <2>2. Remaining(o) = job[o].left + BudgetFrom[k] - AttemptTime
      BY <1>4 DEF Remaining
  <2> HIDE DEF k
  <2>3. QED
      BY <1>2, <2>1, <2>2
<1>5. CASE job[o].phase = "backoff"
  <2>1. k + 1 \in 1..MaxAttempts
      BY <1>5, ConstantTypes DEF JobShape
  <2>2. BudgetFrom[k + 1] \in Nat
      BY <2>1, ConstantTypes
  <2>3. Remaining(o) = job[o].left + BudgetFrom[k + 1]
      BY <1>5 DEF Remaining
  <2> HIDE DEF k
  <2>4. QED
      BY <1>2, <2>2, <2>3
<1>6. QED
    BY <1>2, <1>3, <1>4, <1>5

(* What a tick takes from a sum.                                           *)
LEMMA OneLess == \A l, b, t \in Int : l - 1 + b - t = (l + b - t) - 1
OBVIOUS

(* The initial states satisfy the invariant.                               *)
LEMMA InitInv == SweepInit => SweepInv
<1> SUFFICES ASSUME SweepInit PROVE SweepInv
    OBVIOUS
<1> USE ConstantTypes DEF SweepInit
<1>1. SweepTypeOK
    BY DEF SweepTypeOK, Open, Job, Phase, Pass, Resting
<1>2. JobShape /\ Spacing /\ NoClaimLingers
    BY DEF JobShape, Spacing, NoClaimLingers
<1>3. WithinBudget
    BY DEF WithinBudget, Remaining
<1>4. QED
    BY <1>1, <1>2, <1>3 DEF SweepInv

(* A transition, whoever makes it.                                         *)
LEMMA TransitionInv ==
    ASSUME SweepInv, NEW o \in Orders, NEW to \in Open \cup {"settled"}, Transition(o, to),
           UNCHANGED <<job, sinceClaim>>
    PROVE /\ status' \in [Orders -> Open \cup {"settled"}]
          /\ age' \in [Orders -> 0..Horizon] /\ lease' \in [Orders -> 0..Lease]
          /\ JobShape' /\ Spacing' /\ NoClaimLingers' /\ WithinBudget'
<1> USE ConstantTypes DEF SweepInv, SweepTypeOK, Transition
<1>1. /\ status' \in [Orders -> Open \cup {"settled"}]
      /\ age' \in [Orders -> 0..Horizon] /\ lease' \in [Orders -> 0..Lease]
    OBVIOUS
<1>2. JobShape'
    BY DEF JobShape
<1>3. Spacing'
    BY DEF Spacing
<1>4. NoClaimLingers'
    BY DEF NoClaimLingers
<1>5. WithinBudget'
  <2> SUFFICES ASSUME NEW q \in Orders, job[q].phase # "gone"
               PROVE age'[q] + Remaining(q) <= DispatchTime + BudgetFrom[1]
      BY DEF WithinBudget, Remaining
  <2>1. age[q] + Remaining(q) <= DispatchTime + BudgetFrom[1]
      BY DEF WithinBudget
  <2>2. Remaining(q) \in Int
      BY RemainingType
  <2>3. age'[q] <= age[q] /\ age'[q] \in Int /\ age[q] \in Int
      OBVIOUS
  <2>4. QED
      BY <2>1, <2>2, <2>3
<1>6. QED
    BY <1>1, <1>2, <1>3, <1>4, <1>5

(* A step of a job alone: what counts is that the new phase fits into what *)
(* was left of the budget.                                                 *)
LEMMA JobChangeInv ==
    ASSUME SweepInv, NEW o \in Orders, NEW j \in Job, job' = [job EXCEPT ![o] = j],
           UNCHANGED <<status, age, lease, pass, cron, sinceClaim, faults>>,
           j.phase = "dispatch" => j.attempt = 0,
           j.phase = "attempt" => j.attempt \in 1..MaxAttempts,
           j.phase = "backoff" => j.attempt \in 1..(MaxAttempts - 1),
           j.phase # "gone" => /\ Remaining(o)' \in Int /\ Remaining(o)' <= Remaining(o)
                               /\ job[o].phase # "gone"
    PROVE SweepInv'
<1> USE ConstantTypes DEF SweepInv
<1>1. SweepTypeOK'
    BY DEF SweepTypeOK
<1>2. JobShape'
    BY DEF JobShape, SweepTypeOK
<1>3. Spacing' /\ NoClaimLingers'
    BY DEF Spacing, NoClaimLingers
<1>4. WithinBudget'
  <2> SUFFICES ASSUME NEW q \in Orders, job'[q].phase # "gone"
               PROVE age[q] + Remaining(q)' <= DispatchTime + BudgetFrom[1]
      BY DEF WithinBudget
  <2>1. CASE q = o
    <3>1. job'[o] = j
        BY DEF SweepTypeOK
    <3>2. /\ Remaining(o)' \in Int /\ Remaining(o)' <= Remaining(o)
          /\ job[o].phase # "gone"
        BY <2>1, <3>1
    <3>3. Remaining(o) \in Int
        BY <3>2, RemainingType
    <3>4. age[o] + Remaining(o) <= DispatchTime + BudgetFrom[1]
        BY <3>2 DEF WithinBudget
    <3>5. age[o] \in Int
        BY DEF SweepTypeOK
    <3>6. QED
        BY <2>1, <3>2, <3>3, <3>4, <3>5
  <2>2. CASE q # o
    <3>1. job'[q] = job[q]
        BY <2>2 DEF SweepTypeOK
    <3>2. QED
        BY <3>1 DEF WithinBudget, Remaining
  <2>3. QED
      BY <2>1, <2>2
<1>5. QED
    BY <1>1, <1>2, <1>3, <1>4

(* The next attempt starts within its budget.                              *)
LEMMA StartAttemptInv ==
    ASSUME SweepInv, NEW o \in Orders, StartAttempt(o)
    PROVE  SweepInv'
<1> DEFINE j == [phase |-> "attempt", attempt |-> job[o].attempt + 1, left |-> AttemptTime]
<1> USE ConstantTypes DEF SweepInv, StartAttempt
<1>1. job[o] \in Job /\ job'[o] = j
    BY DEF SweepTypeOK
<1>2. job[o].attempt + 1 \in 1..MaxAttempts
    BY <1>1 DEF JobShape, Job
<1>3. j \in Job
    BY <1>2 DEF Job, Phase
<1>4. Remaining(o)' = BudgetFrom[job[o].attempt + 1]
    BY <1>1, <1>2 DEF Remaining
<1>5. Remaining(o)' <= Remaining(o)
  <2>1. CASE job[o].phase = "dispatch"
      BY <1>1, <1>2, <1>4, <2>1 DEF Remaining, JobShape, Job
  <2>2. CASE job[o].phase = "backoff"
      BY <1>1, <1>2, <1>4, <2>2 DEF Remaining, Job
  <2>3. QED
      BY <2>1, <2>2
<1>6. QED
  <2>1. job' = [job EXCEPT ![o] = j] /\ job[o].phase # "gone"
      OBVIOUS
  <2>2. j.phase = "attempt" /\ j.attempt \in 1..MaxAttempts
      BY <1>2
  <2>3. Remaining(o)' \in Int
      BY <1>2, <1>4
  <2> HIDE DEF j
  <2>4. QED
      BY <1>3, <1>5, <2>1, <2>2, <2>3, JobChangeInv

(* The budget from an attempt on is its time, its delay and the rest.      *)
LEMMA BudgetOfAnAttempt ==
    ASSUME NEW k \in 1..(MaxAttempts - 1)
    PROVE  /\ BudgetFrom[k] \in Nat /\ BudgetFrom[k + 1] \in Nat
           /\ BudgetFrom[k] = AttemptTime + Backoff[k] + BudgetFrom[k + 1]
<1>1. k \in 1..MaxAttempts /\ k + 1 \in 1..MaxAttempts /\ k # MaxAttempts
    BY ConstantTypes
<1>2. BudgetFrom[k] \in Nat /\ BudgetFrom[k + 1] \in Nat
    BY <1>1, ConstantTypes
<1>3. BudgetFrom[k] = AttemptTime + (IF k = MaxAttempts THEN 0
                                     ELSE Backoff[k] + BudgetFrom[k + 1])
    BY <1>1, BudgetAssumption
<1>4. Backoff[k] \in Nat /\ AttemptTime \in Nat
    BY <1>1, ConstantTypes
<1>5. QED
    BY <1>1, <1>2, <1>3, <1>4

(* An attempt that ends leaves its delay and the attempts after it.        *)
LEMMA AttemptEndsInv ==
    ASSUME SweepInv, NEW o \in Orders, AttemptEnds(o)
    PROVE  SweepInv'
<1> USE ConstantTypes DEF SweepInv, AttemptEnds
<1>1. job[o] \in Job /\ job[o].attempt \in 1..MaxAttempts /\ job[o].left \in Nat
    BY DEF SweepTypeOK, JobShape, Job
<1>2. CASE status[o] = "settled" \/ job[o].attempt = MaxAttempts
  <2>1. NoJob \in Job /\ NoJob.phase = "gone"
      BY DEF NoJob, Job, Phase
  <2>2. job' = [job EXCEPT ![o] = NoJob]
      BY <1>2
  <2>3. QED
      BY <2>1, <2>2, JobChangeInv
<1>3. CASE ~(status[o] = "settled" \/ job[o].attempt = MaxAttempts)
  <2> DEFINE k == job[o].attempt
             j == [phase |-> "backoff", attempt |-> k, left |-> Backoff[k]]
  <2>1. k \in 1..(MaxAttempts - 1) /\ Backoff[k] \in Nat
      BY <1>1, <1>3
  <2>2. j \in Job /\ j.phase = "backoff" /\ j.attempt \in 1..(MaxAttempts - 1)
      BY <2>1 DEF Job, Phase
  <2>3. job' = [job EXCEPT ![o] = j] /\ job[o].phase # "gone"
      BY <1>3
  <2>4. BudgetFrom[k] = AttemptTime + Backoff[k] + BudgetFrom[k + 1]
    <3> HIDE DEF k, j
    <3>1. QED
        BY <2>1, BudgetOfAnAttempt
  <2>5. Remaining(o) = job[o].left + BudgetFrom[k] - AttemptTime
      BY DEF Remaining
  <2>6. job'[o] = j
      BY <2>3 DEF SweepTypeOK
  <2>7. Remaining(o)' = Backoff[k] + BudgetFrom[k + 1]
      BY <2>6 DEF Remaining
  <2>8. BudgetFrom[k] \in Nat /\ BudgetFrom[k + 1] \in Nat
    <3> HIDE DEF k, j
    <3>1. QED
        BY <2>1, BudgetOfAnAttempt
  <2>9. Remaining(o)' \in Int /\ Remaining(o)' <= Remaining(o)
    <3> HIDE DEF k, j
    <3>1. job[o].left \in Nat
        BY <1>1
    <3>2. Remaining(o)' = BudgetFrom[k] - AttemptTime
        BY <2>1, <2>4, <2>7, <2>8
    <3>3. QED
        BY <2>5, <2>8, <3>1, <3>2
  <2> HIDE DEF j, k
  <2>10. QED
      BY <2>2, <2>3, <2>9, JobChangeInv
<1>4. QED
    BY <1>2, <1>3

(* A job that is lost has no budget.                                       *)
LEMMA JobLostInv ==
    ASSUME SweepInv, NEW o \in Orders, JobLost(o)
    PROVE  SweepInv'
<1>1. job' = [job EXCEPT ![o] = NoJob] /\ NoJob \in Job /\ NoJob.phase = "gone"
    BY ConstantTypes DEF JobLost, NoJob, Job, Phase
<1>2. QED
    BY <1>1, JobChangeInv DEF JobLost

(* A worker's transition.                                                  *)
LEMMA WorkerMovesInv ==
    ASSUME SweepInv, NEW o \in Orders, WorkerMoves(o)
    PROVE  SweepInv'
<1>1. PICK to \in WorkerTargets(status[o]) : Transition(o, to)
    BY DEF WorkerMoves
<1>2. to \in Open \cup {"settled"}
    BY <1>1 DEF WorkerMoves, WorkerTargets, Open
<1>3. UNCHANGED <<job, pass, cron, sinceClaim, faults>>
    BY DEF WorkerMoves
<1>4. QED
    BY <1>1, <1>2, <1>3, TransitionInv DEF SweepInv, SweepTypeOK

(* A step that only moves a pass.                                          *)
LEMMA PassChangeInv ==
    ASSUME SweepInv, pass' \in [Passes -> Pass], faults' \in 0..MaxFaults,
           UNCHANGED <<status, age, lease, job, cron, sinceClaim>>
    PROVE  SweepInv'
BY DEF SweepInv, SweepTypeOK, JobShape, Spacing, NoClaimLingers, WithinBudget, Remaining

(* A claim: the order was stale and free, so enough time had passed since  *)
(* the last one, and its job is gone if the budget is below the staleness. *)
LEMMA ClaimFacts ==
    ASSUME SweepInv, NEW p \in Passes, NEW o \in Orders, ClaimStale(p, o)
    PROVE  /\ sinceClaim[o] = Window
           /\ status[o] \in Open
           /\ age[o] >= StaleAfter
<1> USE ConstantTypes DEF SweepInv
<1>1. pass[p].at \in 1..4
    BY DEF SweepTypeOK, Pass
<1>2. status[o] = Swept[pass[p].at] /\ age[o] >= StaleAfter /\ lease[o] = 0
    BY DEF ClaimStale, Oldest, Claimable
<1>3. age[o] \in Nat /\ sinceClaim[o] \in 0..Window
    BY DEF SweepTypeOK
<1>4. \/ sinceClaim[o] = Window
      \/ sinceClaim[o] + lease[o] >= Lease
      \/ age[o] <= sinceClaim[o]
    BY DEF Spacing
<1>5. sinceClaim[o] = Window
    BY <1>2, <1>3, <1>4
<1>6. QED
    BY <1>1, <1>2, <1>5, SweptOpen

(* A claim starts the window anew.                                         *)
LEMMA ClaimStaleInv ==
    ASSUME SweepInv, NEW p \in Passes, NEW o \in Orders, ClaimStale(p, o)
    PROVE  SweepInv'
<1> DEFINE next == [pc |-> "handle", at |-> pass[p].at, taken |-> pass[p].taken + 1,
                    order |-> o, from |-> Swept[pass[p].at], left |-> HandlerTime]
<1> USE ConstantTypes DEF SweepInv
<1>1. pass[p] \in Pass
    BY DEF SweepTypeOK
<1>2. next \in Pass
  <2>1. pass[p].at \in 1..4 /\ pass[p].taken \in 0..BatchSize
      BY <1>1 DEF Pass
  <2>2. pass[p].taken + 1 \in 0..BatchSize
      BY <2>1 DEF ClaimStale
  <2>3. Swept[pass[p].at] \in Open
      BY <2>1, SweptOpen
  <2>4. QED
      BY <2>1, <2>2, <2>3 DEF Pass
<1>3. /\ pass' = [pass EXCEPT ![p] = next]
      /\ lease' = [lease EXCEPT ![o] = Lease] /\ sinceClaim' = [sinceClaim EXCEPT ![o] = 0]
      /\ UNCHANGED <<status, age, job, cron, faults>>
    BY DEF ClaimStale, Takes
<1> HIDE DEF next
<1>4. SweepTypeOK'
    BY <1>2, <1>3 DEF SweepTypeOK
<1>5. JobShape' /\ WithinBudget'
    BY <1>3 DEF JobShape, WithinBudget, Remaining
<1>6. Spacing'
    BY <1>3 DEF Spacing, SweepTypeOK
<1>7. NoClaimLingers'
  <2>1. status[o] # "settled"
      BY ClaimFacts DEF Open
  <2>2. QED
      BY <1>3, <2>1 DEF NoClaimLingers, SweepTypeOK
<1>8. QED
    BY <1>4, <1>5, <1>6, <1>7

(* A pass goes on to the next status, or ends.                             *)
LEMMA NextStatusInv ==
    ASSUME SweepInv, NEW p \in Passes, NextStatus(p)
    PROVE  SweepInv'
<1>1. pass[p].at \in 1..4 /\ pass \in [Passes -> Pass] /\ faults \in 0..MaxFaults
    BY DEF SweepInv, SweepTypeOK, Pass
<1>2. (IF pass[p].at = 4 THEN Resting ELSE Scanning(pass[p].at + 1, 0)) \in Pass
    BY <1>1, PassTypes, ConstantTypes
<1>3. QED
    BY <1>1, <1>2, PassChangeInv DEF NextStatus

(* What follows a handler is a pass again.                                 *)
LEMMA HandledType ==
    ASSUME SweepInv, NEW p \in Passes
    PROVE  Handled(p) \in Pass
<1>1. pass[p].at \in 1..4 /\ pass[p].taken \in 0..BatchSize
    BY DEF SweepInv, SweepTypeOK, Pass
<1>2. QED
    BY <1>1, PassTypes DEF Handled

(* A handler that throws, by its order or by chance, or dies.              *)
LEMMA PassEndsInv ==
    ASSUME SweepInv, NEW p \in Passes, HandlerThrows(p) \/ PassFault(p)
    PROVE  SweepInv'
<1>1. pass \in [Passes -> Pass] /\ faults \in 0..MaxFaults
    BY DEF SweepInv, SweepTypeOK
<1>2. CASE HandlerThrows(p)
    BY <1>1, <1>2, HandledType, PassChangeInv DEF HandlerThrows
<1>3. CASE PassFault(p)
  <2>1. PICK next \in {Handled(p), Resting} : pass' = [pass EXCEPT ![p] = next]
      BY <1>3 DEF PassFault
  <2>2. next \in Pass
      BY HandledType, PassTypes
  <2>3. faults' \in 0..MaxFaults /\ UNCHANGED <<status, age, lease, job, cron, sinceClaim>>
      BY <1>1, <1>3, ConstantTypes DEF PassFault
  <2>4. pass' \in [Passes -> Pass]
      BY <1>1, <2>1, <2>2
  <2>5. QED
      BY <2>3, <2>4, PassChangeInv
<1>4. QED
    BY <1>2, <1>3

(* A handler's transition, or one that lost its race.                      *)
LEMMA HandlerStepInv ==
    ASSUME SweepInv, NEW p \in Passes, HandlerStep(p)
    PROVE  SweepInv'
<1> DEFINE o == pass[p].order
<1>1. /\ pass[p] \in Pass /\ pass[p].pc = "handle" /\ pass \in [Passes -> Pass]
      /\ faults \in 0..MaxFaults
    BY DEF SweepInv, SweepTypeOK, HandlerStep
<1>2. UNCHANGED <<job, cron, sinceClaim, faults>>
    BY DEF HandlerStep
<1>3. CASE status[o] # pass[p].from
  <2>1. pass' = [pass EXCEPT ![p] = Handled(p)] /\ UNCHANGED <<status, age, lease>>
      BY <1>3 DEF HandlerStep
  <2>2. QED
      BY <1>1, <1>2, <2>1, HandledType, PassChangeInv
<1>4. CASE status[o] = pass[p].from
  <2>1. PICK to \in SweeperTargets(pass[p].from) :
            /\ Transition(o, to)
            /\ pass' = [pass EXCEPT ![p] = IF to = "settled" THEN Handled(p)
                                           ELSE [pass[p] EXCEPT !.from = to]]
      BY <1>4 DEF HandlerStep
  <2>2. to \in Open \cup {"settled"}
      BY <2>1 DEF SweeperTargets, Open
  <2>3. to # "settled" => [pass[p] EXCEPT !.from = to] \in Pass
      BY <1>1, <2>2 DEF Pass
  <2>4. pass' \in [Passes -> Pass]
      BY <1>1, <2>1, <2>3, HandledType
  <2>5. CASE o \in Orders
      BY <1>1, <1>2, <2>1, <2>2, <2>4, <2>5, TransitionInv DEF SweepInv, SweepTypeOK
  <2>6. CASE o \notin Orders
    <3>1. UNCHANGED <<status, age, lease>>
        BY <2>1, <2>6 DEF Transition, SweepInv, SweepTypeOK
    <3>2. QED
        BY <1>1, <1>2, <2>4, <3>1, PassChangeInv
  <2>7. QED
      BY <2>5, <2>6
<1>5. QED
    BY <1>3, <1>4

(* A tick: an order ages by the tick that its job's budget loses.          *)
LEMMA TickInv ==
    ASSUME SweepInv, Tick
    PROVE  SweepInv'
<1> USE ConstantTypes DEF SweepInv
<1>1. \A o \in Orders :
          /\ job[o] \in Job /\ job'[o] \in Job
          /\ job'[o].phase = job[o].phase /\ job'[o].attempt \in 0..MaxAttempts
          /\ job[o].phase # "gone" => /\ job'[o].attempt = job[o].attempt
                                      /\ job'[o].left = job[o].left - 1
  <2> TAKE o \in Orders
  <2>1. job[o] \in Job
      BY DEF SweepTypeOK
  <2>2. CASE job[o].phase = "gone"
      BY <2>1, <2>2 DEF Tick, NoJob, Job, Phase
  <2>3. CASE job[o].phase # "gone"
    <3>1. job[o].left \in Nat /\ job[o].left > 0
        BY <2>1, <2>3 DEF Tick, Job
    <3>2. job'[o] = [job[o] EXCEPT !.left = job[o].left - 1]
        BY <2>3 DEF Tick
    <3>3. job[o].left - 1 \in Nat
        BY <3>1
    <3>4. QED
        BY <2>1, <2>3, <3>2, <3>3 DEF Job, Phase
  <2>4. QED
      BY <2>2, <2>3
<1>2. /\ age' \in [Orders -> 0..Horizon] /\ lease' \in [Orders -> 0..Lease]
      /\ sinceClaim' \in [Orders -> 0..Window] /\ cron' \in 1..Interval
      /\ UNCHANGED <<status, faults>>
  <2>1. age' \in [Orders -> 0..Horizon]
      BY DEF SweepTypeOK, Tick
  <2>2. lease' \in [Orders -> 0..Lease]
      BY DEF SweepTypeOK, Tick
  <2>3. sinceClaim' \in [Orders -> 0..Window]
      BY DEF SweepTypeOK, Tick
  <2>4. cron' \in 1..Interval
      BY DEF SweepTypeOK, Tick
  <2>5. UNCHANGED <<status, faults>>
      BY DEF Tick
  <2>6. QED
      BY <2>1, <2>2, <2>3, <2>4, <2>5
<1>3. job' \in [Orders -> Job]
    BY <1>1 DEF Tick
<1>4. pass' \in [Passes -> Pass]
  <2> SUFFICES ASSUME NEW p \in Passes PROVE pass'[p] \in Pass
      BY DEF Tick
  <2>1. pass[p] \in Pass
      BY DEF SweepTypeOK
  <2>2. CASE pass[p].pc = "handle"
    <3>1. pass[p].left \in 0..HandlerTime /\ pass[p].left > 0
        BY <2>1, <2>2 DEF Tick, Pass
    <3>2. pass'[p] = [pass[p] EXCEPT !.left = pass[p].left - 1]
        BY <2>2 DEF Tick
    <3>3. pass[p].left - 1 \in 0..HandlerTime
        BY <3>1
    <3>4. QED
        BY <2>1, <3>2, <3>3 DEF Pass
  <2>3. CASE pass[p].pc # "handle"
    <3>1. pass'[p] \in {Scanning(1, 0), Resting}
        BY <2>3 DEF Tick
    <3>2. 1 \in 1..4 /\ 0 \in 0..BatchSize
        OBVIOUS
    <3>3. QED
        BY <3>1, <3>2, PassTypes
  <2>4. QED
      BY <2>2, <2>3
<1>5. SweepTypeOK'
    BY <1>2, <1>3, <1>4 DEF SweepTypeOK
<1>6. JobShape'
    BY <1>1 DEF JobShape
<1>7. Spacing' /\ NoClaimLingers'
  <2>1. ASSUME NEW o \in Orders
        PROVE  /\ \/ sinceClaim'[o] = Window
                  \/ sinceClaim'[o] + lease'[o] >= Lease
                  \/ age'[o] <= sinceClaim'[o]
               /\ status'[o] = "settled" => lease'[o] = 0
    <3>1. age[o] \in Nat /\ lease[o] \in Nat /\ sinceClaim[o] \in 0..Window
        BY DEF SweepTypeOK
    <3>2. age'[o] \in {age[o], age[o] + 1}
        BY DEF Tick
    <3>3. lease'[o] = IF lease[o] > 0 THEN lease[o] - 1 ELSE 0
        BY DEF Tick
    <3>4. sinceClaim'[o] = IF sinceClaim[o] < Window THEN sinceClaim[o] + 1 ELSE Window
        BY DEF Tick
    <3>5. status'[o] = "settled" => lease'[o] = 0
        BY <3>3 DEF NoClaimLingers, Tick
    <3>6. CASE sinceClaim[o] = Window
      <4>1. sinceClaim'[o] = Window
          BY <3>4, <3>6
      <4>2. QED
          BY <3>5, <4>1
    <3>7. CASE sinceClaim[o] # Window
      <4>1. sinceClaim'[o] = sinceClaim[o] + 1
          BY <3>1, <3>4, <3>7
      <4>2. CASE sinceClaim[o] + lease[o] >= Lease
        <5>1. lease'[o] \in Nat /\ lease'[o] >= lease[o] - 1
            BY <3>1, <3>3
        <5>2. sinceClaim'[o] + lease'[o] >= Lease
            BY <3>1, <4>1, <4>2, <5>1
        <5>3. QED
            BY <3>5, <5>2
      <4>3. CASE age[o] <= sinceClaim[o]
        <5>1. age'[o] <= sinceClaim'[o]
            BY <3>1, <3>2, <4>1, <4>3
        <5>2. QED
            BY <3>5, <5>1
      <4>4. QED
          BY <3>7, <4>2, <4>3 DEF Spacing
    <3>8. QED
        BY <3>6, <3>7
  <2>2. QED
      BY <2>1 DEF Spacing, NoClaimLingers
<1>8. WithinBudget'
  <2> SUFFICES ASSUME NEW o \in Orders, job'[o].phase # "gone"
               PROVE  age'[o] + Remaining(o)' <= DispatchTime + BudgetFrom[1]
      BY DEF WithinBudget
  <2>1. job[o].phase # "gone" /\ job[o].left \in Nat
      BY <1>1 DEF Job
  <2>2. age[o] + Remaining(o) <= DispatchTime + BudgetFrom[1]
      BY <2>1 DEF WithinBudget
  <2>3. Remaining(o) \in Int
      BY <2>1, RemainingType
  <2>4. Remaining(o)' = Remaining(o) - 1
    <3>1. /\ job'[o].phase = job[o].phase /\ job'[o].attempt = job[o].attempt
          /\ job'[o].left = job[o].left - 1
        BY <1>1, <2>1
    <3>2. CASE job[o].phase = "dispatch"
        BY <2>1, <3>1, <3>2 DEF Remaining
    <3>3. CASE job[o].phase = "attempt"
      <4> DEFINE l == job[o].left
                 b == BudgetFrom[job[o].attempt]
      <4>1. b \in Int /\ l \in Int /\ AttemptTime \in Int
          BY <2>1, <3>3 DEF JobShape
      <4>2. Remaining(o) = l + b - AttemptTime
          BY <3>3 DEF Remaining
      <4>3. Remaining(o)' = l - 1 + b - AttemptTime
          BY <3>1, <3>3 DEF Remaining
      <4> HIDE DEF l, b
      <4>4. l - 1 + b - AttemptTime = (l + b - AttemptTime) - 1
          BY ONLY <4>1, OneLess
      <4>5. QED
          BY ONLY <4>2, <4>3, <4>4
    <3>4. CASE job[o].phase = "backoff"
      <4>1. job[o].attempt + 1 \in 1..MaxAttempts
          BY <3>4 DEF JobShape
      <4>2. BudgetFrom[job[o].attempt + 1] \in Nat
          BY <4>1
      <4>3. Remaining(o) = job[o].left + BudgetFrom[job[o].attempt + 1]
          BY <3>4 DEF Remaining
      <4>4. Remaining(o)' = job[o].left - 1 + BudgetFrom[job[o].attempt + 1]
          BY <3>1, <3>4 DEF Remaining
      <4>5. QED
          BY <2>1, <4>2, <4>3, <4>4
    <3>5. QED
        BY <1>1, <2>1, <3>2, <3>3, <3>4 DEF Job, Phase
  <2>5. age'[o] <= age[o] + 1 /\ age[o] \in Int /\ age'[o] \in Int
      BY DEF Tick, SweepTypeOK
  <2>6. QED
      BY <2>2, <2>3, <2>4, <2>5
<1>9. QED
    BY <1>5, <1>6, <1>7, <1>8

(* Every step keeps the invariant.                                         *)
LEMMA StepInv == SweepInv /\ [SweepNext]_sweepVars => SweepInv'
<1> SUFFICES ASSUME SweepInv, [SweepNext]_sweepVars PROVE SweepInv'
    OBVIOUS
<1>1. CASE UNCHANGED sweepVars
    BY <1>1 DEF sweepVars, SweepInv, SweepTypeOK, JobShape, Spacing, NoClaimLingers,
                WithinBudget, Remaining
<1>2. ASSUME NEW o \in Orders, JobStep(o) PROVE SweepInv'
    BY <1>2, StartAttemptInv, WorkerMovesInv, AttemptEndsInv, JobLostInv DEF JobStep
<1>3. ASSUME NEW p \in Passes, PassStep(p) \/ PassFault(p) PROVE SweepInv'
    BY <1>3, ClaimStaleInv, NextStatusInv, HandlerStepInv, PassEndsInv DEF PassStep
<1>4. CASE Tick
    BY <1>4, TickInv
<1>5. QED
    BY <1>1, <1>2, <1>3, <1>4 DEF SweepNext

(* The invariant holds at all times.                                       *)
LEMMA SweepInvariant == SweepSpec => []SweepInv
BY InitInv, StepInv, PTL DEF SweepSpec

(* The state of claims, jobs and passes stays in its types; no pass takes  *)
(* more than a batch from a status.                                        *)
THEOREM SweepTypeCorrect == SweepSpec => []SweepTypeOK
<1>1. SweepInv => SweepTypeOK
    BY DEF SweepInv
<1>2. QED
    BY <1>1, SweepInvariant, PTL

(* No claim stays on an order that is terminal, whoever settled it.        *)
THEOREM ClaimsAreCleared == SweepSpec => []NoClaimLingers
<1>1. SweepInv => NoClaimLingers
    BY DEF SweepInv
<1>2. QED
    BY <1>1, SweepInvariant, PTL

(* Two claims of one order are at least a lease apart, or the staleness if *)
(* that is shorter, with any number of passes at once.                     *)
THEOREM OneClaimPerWindow == SweepSpec => ClaimsAreSpaced
<1>1. SweepInv /\ [SweepNext]_sweepVars =>
          [\A o \in Orders : (\E p \in Passes : ClaimStale(p, o)) =>
                                 sinceClaim[o] = Window]_sweepVars
    BY ClaimFacts
<1>2. QED
    BY <1>1, SweepInvariant, PTL DEF SweepSpec, ClaimsAreSpaced

(* The rule of orders.config.ts is enough: if an order grows stale only    *)
(* after dispatch and the whole retry budget, then no sweep ever takes an  *)
(* order that the worker may still retry.                                  *)
THEOREM StalenessBeyondBudget ==
    ASSUME StaleAfter > DispatchTime + BudgetFrom[1]
    PROVE  SweepSpec => RetriesAreLeftAlone
<1>1. ASSUME SweepInv, NEW o \in Orders, NEW p \in Passes, ClaimStale(p, o)
      PROVE  job[o].phase = "gone"
  <2> SUFFICES ASSUME job[o].phase # "gone" PROVE FALSE
      OBVIOUS
  <2>1. age[o] >= StaleAfter /\ age[o] \in Nat
      BY <1>1, ClaimFacts DEF SweepInv, SweepTypeOK
  <2>2. age[o] + Remaining(o) <= DispatchTime + BudgetFrom[1]
      BY <1>1 DEF SweepInv, WithinBudget
  <2>3. Remaining(o) \in Int /\ Remaining(o) >= 0
      BY <1>1, RemainingType DEF SweepInv
  <2>4. QED
      BY <2>1, <2>2, <2>3, ConstantTypes
<1>2. SweepInv /\ [SweepNext]_sweepVars =>
          [\A o \in Orders : (\E p \in Passes : ClaimStale(p, o)) =>
                                 job[o].phase = "gone"]_sweepVars
    BY <1>1
<1>3. QED
    BY <1>2, SweepInvariant, PTL DEF SweepSpec, RetriesAreLeftAlone
=============================================================================
