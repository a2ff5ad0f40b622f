----------------------------- MODULE MockDataProofs -----------------------------
(***************************************************************************)
(* Theorems about the two parts of the mock-data service and the screen    *)
(* that administers it: the payment provider, for any keys and any number  *)
(* of requests that carry them; and the collections, for any writes that   *)
(* race for them and any number of clicks whose functions overlap.         *)
(***************************************************************************)
EXTENDS DataScreen, MockPsp, SumTheorems, TLAPS

(***************************************************************************)
(* The payment provider.                                                   *)
(***************************************************************************)

(* A verdict that waits to be written is an outcome, and who lost the race *)
(* for the unique index finds a winner: a charge is never taken back.      *)
WorkIsFounded ==
    \A q \in Requests :
        /\ handler[q].at = "create" => handler[q].result \in Outcomes
        /\ handler[q].at = "winner" => Charged(q)

PspInv == PspTypeOK /\ WorkIsFounded

(* The answers that PaymentGateway is told of.                             *)
Answers == {<<KeyOf[q], handler[q].result>> :
               q \in {r \in Requests : handler[r].at = "answered" /\ handler[r].result # "error"}}

-----------------------------------------------------------------------------
(* A handler that goes somewhere goes there, and no other moves.           *)
LEMMA HandlerMoves ==
    ASSUME PspTypeOK, NEW q \in Requests, NEW at \in Steps, NEW result \in Results,
           HandlerGoes(q, at, result)
    PROVE  /\ handler' \in [Requests -> [at : Steps, result : Results]]
           /\ handler'[q].at = at /\ handler'[q].result = result
           /\ \A r \in Requests : r # q => handler'[r] = handler[r]
  BY DEF PspTypeOK, HandlerGoes

(* No handler has begun. *)
LEMMA PspStarts == PspInit => PspInv
  BY MockPspAssumption DEF PspInit, PspInv, PspTypeOK, WorkIsFounded, Steps, Results

(* What a step does to the handlers and the charges: it moves one handler, *)
(* and makes a charge only for a key that has none.                        *)
LEMMA PspStepMoves ==
    ASSUME PspInv, NEW q \in Requests,
           FindCharge(q) \/ DecideOutcome(q) \/ CreateCharge(q) \/ ReadWinner(q) \/ LookUp(q)
           \/ HandlerFails(q)
    PROVE  /\ handler[q].at # "answered"
           /\ \E at \in Steps, result \in Results :
                 /\ HandlerGoes(q, at, result)
                 /\ at = "create" => result \in Outcomes
                 /\ \/ UNCHANGED charges /\ at # "answered"
                                         /\ (at = "winner" => Charged(q))
                    \/ UNCHANGED charges /\ at = "answered"
                                         /\ result \in {charges[KeyOf[q]], "error"}
                    \/ \E outcome \in Outcomes :
                          /\ ~Charged(q) /\ at = "answered" /\ result \in {outcome, "unknown"}
                          /\ charges' = [charges EXCEPT ![KeyOf[q]] = outcome]
  <1> USE DEF Steps, Results, Outcomes
  <1>1. charges[KeyOf[q]] \in {"none"} \cup Outcomes
    BY MockPspAssumption DEF PspInv, PspTypeOK
  <1>2. CASE FindCharge(q)
    BY <1>1, <1>2 DEF FindCharge
  <1>3. CASE DecideOutcome(q)
    BY <1>3 DEF DecideOutcome
  <1>4. CASE CreateCharge(q)
    <2>1. handler[q].result \in Outcomes /\ handler[q].at = "create"
      BY <1>4 DEF CreateCharge, PspInv, WorkIsFounded
    <2> QED
      BY <1>4, <2>1 DEF CreateCharge
  <1>5. CASE ReadWinner(q) \/ LookUp(q)
    BY <1>1, <1>5 DEF ReadWinner, LookUp
  <1>6. CASE HandlerFails(q)
    BY <1>6 DEF HandlerFails
  <1> QED
    BY <1>2, <1>3, <1>4, <1>5, <1>6

(* Every step keeps the invariant. *)
LEMMA PspStepIsSafe ==
    ASSUME PspInv, [PspNext]_pspVars
    PROVE  PspInv'
  <1>1. CASE UNCHANGED pspVars
    BY <1>1 DEF pspVars, PspInv, PspTypeOK, WorkIsFounded, Charged
  <1>2. CASE PspNext
    <2>1. PICK q \in Requests :
              FindCharge(q) \/ DecideOutcome(q) \/ CreateCharge(q) \/ ReadWinner(q) \/ LookUp(q)
              \/ HandlerFails(q)
      BY <1>2 DEF PspNext
    <2>2. PICK at \in Steps, result \in Results :
              /\ HandlerGoes(q, at, result)
              /\ at = "create" => result \in Outcomes
              /\ at = "winner" => Charged(q)
              /\ \/ UNCHANGED charges
                 \/ \E outcome \in Outcomes : charges' = [charges EXCEPT ![KeyOf[q]] = outcome]
      BY <2>1, PspStepMoves
    <2>3. /\ handler' \in [Requests -> [at : Steps, result : Results]]
          /\ handler'[q].at = at /\ handler'[q].result = result
          /\ \A r \in Requests : r # q => handler'[r] = handler[r]
      BY <2>2, HandlerMoves DEF PspInv
    <2>4. /\ charges' \in [Keys -> {"none"} \cup Outcomes]
          /\ \A k \in Keys : charges[k] # "none" => charges'[k] # "none"
      BY <2>2, MockPspAssumption DEF PspInv, PspTypeOK, Outcomes
    <2>5. PspTypeOK'
      BY <2>3, <2>4 DEF PspTypeOK
    <2>6. WorkIsFounded'
      BY <2>2, <2>3, <2>4, MockPspAssumption DEF PspInv, WorkIsFounded, Charged
    <2> QED
      BY <2>5, <2>6 DEF PspInv
  <1> QED
    BY <1>1, <1>2

(* The invariant is inductive. *)
LEMMA PspInvHolds == PspSpec => []PspInv
  BY PspStarts, PspStepIsSafe, PTL DEF PspSpec

-----------------------------------------------------------------------------
(***************************************************************************)
(* The refinement.                                                         *)
(***************************************************************************)

(* Answers only come in: the handler that moves had not answered yet.      *)
LEMMA AnswersGrow ==
    ASSUME PspInv, NEW q \in Requests, handler[q].at # "answered",
           NEW at \in Steps, NEW result \in Results, HandlerGoes(q, at, result)
    PROVE  Answers' = IF at = "answered" /\ result # "error"
                      THEN Answers \cup {<<KeyOf[q], result>>} ELSE Answers
  <1>1. /\ handler'[q].at = at /\ handler'[q].result = result
        /\ \A r \in Requests : r # q => handler'[r] = handler[r]
    BY HandlerMoves DEF PspInv
  <1> DEFINE Told == {r \in Requests : handler[r].at = "answered" /\ handler[r].result # "error"}
  <1>2. Told' = IF at = "answered" /\ result # "error" THEN Told \cup {q} ELSE Told
    BY <1>1
  <1>3. \A r \in Told : r # q /\ handler'[r] = handler[r]
    BY <1>1
  <1>4. /\ Answers = {<<KeyOf[r], handler[r].result>> : r \in Told}
        /\ Answers' = {<<KeyOf[r], handler'[r].result>> : r \in Told'}
    BY DEF Answers
  <1> HIDE DEF Told
  <1>5. CASE at = "answered" /\ result # "error"
    <2>1. Answers' = {<<KeyOf[r], handler'[r].result>> : r \in Told \cup {q}}
      BY <1>2, <1>4, <1>5
    <2> QED
      BY <1>1, <1>3, <1>4, <1>5, <2>1
  <1>6. CASE ~(at = "answered" /\ result # "error")
    BY <1>2, <1>3, <1>4, <1>6
  <1> QED
    BY <1>5, <1>6

(* A step of a handler is an abstract step for its key, or none.           *)
LEMMA PspStepsAreGatewaySteps ==
    ASSUME PspInv, [PspNext]_pspVars
    PROVE  [Gateway!Next]_(Gateway!gatewayVars)
  <1> USE DEF Gateway!gatewayVars
  <1>1. CASE UNCHANGED pspVars
    BY <1>1 DEF pspVars
  <1>2. CASE PspNext
    <2>1. PICK q \in Requests :
              FindCharge(q) \/ DecideOutcome(q) \/ CreateCharge(q) \/ ReadWinner(q) \/ LookUp(q)
              \/ HandlerFails(q)
      BY <1>2 DEF PspNext
    <2>2. handler[q].at # "answered"
      BY <2>1, PspStepMoves
    <2>3. PICK at \in Steps, result \in Results :
              /\ HandlerGoes(q, at, result)
              /\ \/ UNCHANGED charges /\ at # "answered"
                 \/ UNCHANGED charges /\ at = "answered" /\ result \in {charges[KeyOf[q]], "error"}
                 \/ \E outcome \in Outcomes :
                       /\ ~Charged(q) /\ at = "answered" /\ result \in {outcome, "unknown"}
                       /\ charges' = [charges EXCEPT ![KeyOf[q]] = outcome]
      BY <2>1, PspStepMoves
    <2>4. Answers' = IF at = "answered" /\ result # "error"
                     THEN Answers \cup {<<KeyOf[q], result>>} ELSE Answers
      BY <2>2, <2>3, AnswersGrow
    <2>5. KeyOf[q] \in Keys
      BY MockPspAssumption
    <2>6. CASE UNCHANGED charges /\ (at # "answered" \/ result = "error")
      BY <2>4, <2>6 DEF Answers
    <2>7. CASE UNCHANGED charges /\ at = "answered" /\ result = charges[KeyOf[q]]
      <3>1. result # "error"
        BY <2>5, <2>7 DEF PspInv, PspTypeOK, Outcomes
      <3>2. Answers' = Answers \cup {<<KeyOf[q], charges[KeyOf[q]]>>}
        BY <2>4, <2>7, <3>1
      <3>3. Gateway!Tell(KeyOf[q])
        BY <2>7, <3>2 DEF Gateway!Tell, Answers
      <3> QED
        BY <2>5, <3>3 DEF Gateway!Next
    <2>8. ASSUME NEW outcome \in Outcomes, ~Charged(q), at = "answered",
                 result \in {outcome, "unknown"},
                 charges' = [charges EXCEPT ![KeyOf[q]] = outcome]
          PROVE  Gateway!Next
      <3>1. Answers' = Answers \cup {<<KeyOf[q], result>>}
        BY <2>4, <2>8 DEF Outcomes
      <3>2. Gateway!DecideAndTell(KeyOf[q])
        BY <2>8, <3>1 DEF Gateway!DecideAndTell, Answers, Charged, Outcomes
      <3> QED
        BY <2>5, <3>2 DEF Gateway!Next
    <2> QED
      BY <2>3, <2>6, <2>7, <2>8
  <1> QED
    BY <1>1, <1>2

-----------------------------------------------------------------------------
(***************************************************************************)
(* The theorems.                                                           *)
(***************************************************************************)

(* mockdata-psp.service.ts: the charges and handlers stay in their types.  *)
THEOREM PspTypeCorrect == PspSpec => []PspTypeOK
  BY PspInvHolds, PTL DEF PspInv

(* However requests with one key race, fail and are decided, the provider  *)
(* makes one final charge for a key and tells nothing but its outcome: it  *)
(* implements what the payment client relies on.                           *)
THEOREM PspKeepsItsPromises == PspSpec => GatewayRefinement
  <1>1. PspInit => Gateway!Init
    BY DEF PspInit, Gateway!Init
  <1> QED
    BY <1>1, PspInvHolds, PspStepsAreGatewaySteps, PTL
       DEF PspSpec, GatewayRefinement, Gateway!Spec

-----------------------------------------------------------------------------
(***************************************************************************)
(* The collections and the screen: the invariant.                          *)
(***************************************************************************)

(* What a save leaves in its collection, until it is deleted.              *)
Stored(items, w, gone) ==
    \/ \E d \in items : d.name = Name[w] /\ (Into[w] \in Adding => d.value >= Value[w])
    \/ Into[w] \notin Adding /\ gone > 0

DoneWrites == {w \in Writes : write[w] = "done"}

DataInv ==
    /\ DataTypeOK
    /\ IsFiniteSet(DoneWrites)
    /\ TopUpsCount
    /\ \A w \in DoneWrites \ Seeds : Stored(docs[Into[w]], w, removes)

Rendering(i) == call[i].at \in {"fetch", "render"}
Used(i) == call[i].at # "unused"
Listings(kept, c) == {Listing(items) : items \in kept[c]}

(* Every list belongs to the tab of the call that made it. *)
ListsBelong ==
    /\ \A i \in Calls : Used(i) => call[i].tab \in Collections
    /\ \A k \in DOMAIN cards : Used(cards[k].list) /\ call[cards[k].list].tab = cards[k].tab
    /\ \A i \in Calls : Rendering(i) => Used(call[i].list) /\ call[call[i].list].tab = call[i].tab
    /\ form # NoCall => Used(form)

(* Whatever is shown, or about to be, was held by the server once. *)
ContentsAreSeen ==
    /\ \A c \in Collections : docs[c] \in seen[c]
    /\ \A i \in Calls : IF Used(i) THEN shown[i] \in Listings(seen, call[i].tab) \cup {Loading, Empty}
                         ELSE shown[i] = Loading
    /\ \A i \in Calls : call[i].at = "render" => call[i].answer \in Listings(seen, call[i].tab) \cup {Empty}

(* A submission fetches only what it has saved. *)
SavesAreFetched ==
    \A i \in Calls : call[i].write # NoWrite =>
        /\ call[i].at = "post" \/ Rendering(i)
        /\ call[i].write \in Writes \ Seeds /\ Into[call[i].write] = call[i].tab
        /\ Rendering(i) => write[call[i].write] = "done"
        /\ call[i].at = "render" /\ call[i].answer # Empty => Stored(call[i].answer.items, call[i].write, removes)

(* A list that is the first of its tab is loading only while somebody loads it. *)
LoadsAreUnderWay ==
    /\ form # NoCall => call[form].at = "options" \/ ListsOf(cards, call[form].tab) # {}
    /\ \A c \in Collections :
           ListsOf(cards, c) # {} /\ shown[FirstList(cards, c)] = Loading
               => \E i \in Calls : Rendering(i) /\ call[i].list = FirstList(cards, c)

ScreenInv ==
    /\ ScreenTypeOK /\ DataInv /\ ListsBelong /\ ContentsAreSeen /\ SavesAreFetched
    /\ LoadsAreUnderWay

-----------------------------------------------------------------------------
(***************************************************************************)
(* The collections.                                                        *)
(***************************************************************************)

(* The writes that count for a row, and the rows as TopUpsCount wants them.*)
Applied(progress, c, n) ==
    {w \in Writes : Into[w] = c /\ Name[w] = n /\ progress[w] = "done"}
CountedIn(items, progress, c) ==
    /\ \A d, e \in items : d.name = e.name => d = e
    /\ \A d \in items : d.value = SumFunctionOnSet(Value, Applied(progress, c, d.name))

(* TopUpsCount before and after a step, in these words.                    *)
LEMMA TopUpsAreRead ==
    /\ TopUpsCount <=> \A c \in Adding : CountedIn(docs[c], write, c)
    /\ TopUpsCount' <=> \A c \in Adding : CountedIn(docs'[c], write', c)
  BY DEF TopUpsCount, CountedIn, Applied

(* A row that has been asked for is there: an adding collection keeps all. *)
LEMMA AppliedIsStored ==
    ASSUME DataInv, NEW c \in Adding, NEW n, NEW w \in Applied(write, c, n)
    PROVE  \E d \in docs[c] : d.name = n
  <1>1. n = Name[w] /\ w \in DoneWrites \ Seeds /\ Into[w] = c
    BY MockDataAssumption DEF Applied, DoneWrites
  <1> QED BY <1>1 DEF DataInv, Stored

(* What is written into a row is a natural number.                         *)
LEMMA ValuesAreNatural == \A w \in Writes : Value[w] \in Nat /\ Into[w] \in Collections
  BY MockDataAssumption

(* Only finitely many writes are done, and their sum is a number.          *)
LEMMA AppliedIsFinite ==
    ASSUME DataInv, NEW c, NEW n
    PROVE  /\ IsFiniteSet(Applied(write, c, n))
           /\ SumFunctionOnSet(Value, Applied(write, c, n)) \in Int
  <1>1. IsFiniteSet(Applied(write, c, n))
    <2>1. Applied(write, c, n) \subseteq DoneWrites
      BY DEF Applied, DoneWrites
    <2> QED BY <2>1, FS_Subset DEF DataInv
  <1>2. \A w \in Applied(write, c, n) : Value[w] \in Int
    BY ValuesAreNatural DEF Applied
  <1> QED BY <1>1, <1>2, SumIsInteger

(* One more write that is done counts for its own row, and only for it.    *)
LEMMA OneMoreApplied ==
    ASSUME DataInv, NEW w \in Writes, write[w] # "done",
           write' = [write EXCEPT ![w] = "done"]
    PROVE  /\ SumFunctionOnSet(Value, Applied(write', Into[w], Name[w]))
                  = Value[w] + SumFunctionOnSet(Value, Applied(write, Into[w], Name[w]))
           /\ \A c, n : c # Into[w] \/ n # Name[w] => Applied(write', c, n) = Applied(write, c, n)
           /\ DoneWrites' = DoneWrites \cup {w}
           /\ IsFiniteSet(DoneWrites')
  <1>0. write \in [Writes -> {"unsent", "match", "insert", "done", "failed"}]
    BY DEF DataInv, DataTypeOK
  <1>1. Applied(write', Into[w], Name[w]) = Applied(write, Into[w], Name[w]) \cup {w}
    BY <1>0 DEF Applied
  <1>2. w \notin Applied(write, Into[w], Name[w])
    BY DEF Applied
  <1>3. \A v \in Applied(write, Into[w], Name[w]) \cup {w} : Value[v] \in Int
    BY ValuesAreNatural DEF Applied
  <1>4. SumFunctionOnSet(Value, Applied(write', Into[w], Name[w]))
            = Value[w] + SumFunctionOnSet(Value, Applied(write, Into[w], Name[w]))
    BY <1>1, <1>2, <1>3, AppliedIsFinite, SumTakesIn
  <1>5. \A c, n : c # Into[w] \/ n # Name[w] => Applied(write', c, n) = Applied(write, c, n)
    BY <1>0 DEF Applied
  <1>6. DoneWrites' = DoneWrites \cup {w}
    BY <1>0 DEF DoneWrites
  <1>7. IsFiniteSet(DoneWrites')
    BY <1>6, FS_AddElement DEF DataInv
  <1> QED BY <1>4, <1>5, <1>6, <1>7

(* Removes are counted.                                                    *)
LEMMA RemovesCount == DataTypeOK => removes \in Nat
  BY MockDataAssumption DEF DataTypeOK

(* What every step on the collections leaves true of a save.               *)
DataKeeps ==
    /\ DoneWrites \subseteq DoneWrites'
    /\ removes' >= removes

(* A save that is stored stays so, as long as removes are counted.         *)
LEMMA StoredKeeps ==
    ASSUME DataInv, DataKeeps, DataInv'
    PROVE  \A items, w : Stored(items, w, removes) => Stored(items, w, removes')
  <1>1. removes \in Nat /\ removes' \in Nat /\ removes' >= removes
    BY MockDataAssumption DEF DataInv, DataTypeOK, DataKeeps
  <1> QED BY <1>1 DEF Stored

(* A write that does not end leaves the collections alone.                 *)
LEMMA WaitingInv ==
    ASSUME DataInv, NEW w \in Writes, NEW at \in {"match", "insert", "failed"}, write[w] # "done",
           write' = [write EXCEPT ![w] = at], UNCHANGED <<docs, removes>>
    PROVE  DataInv' /\ DataKeeps
  <1>0. DataTypeOK'
    BY DEF DataInv, DataTypeOK
  <1>1. DoneWrites' = DoneWrites /\ \A c, n : Applied(write', c, n) = Applied(write, c, n)
    BY DEF DataInv, DataTypeOK, DoneWrites, Applied
  <1>2. TopUpsCount'
    BY <1>1, TopUpsAreRead DEF DataInv, CountedIn
  <1>3. \A v \in DoneWrites' \ Seeds : Stored(docs'[Into[v]], v, removes')
    BY <1>1 DEF DataInv, Stored
  <1> QED BY <1>0, <1>1, <1>2, <1>3 DEF DataInv, DataKeeps, DataTypeOK

(* A write that updates or inserts: what it leaves is stored, and no other *)
(* save is lost.                                                           *)
LEMMA MatchInv ==
    ASSUME DataInv, NEW w \in Writes, write[w] = "match", NEW d \in Matching(w),
           docs' = [docs EXCEPT ![Into[w]] = (@ \ {d}) \cup {Updated(w, d)}],
           write' = [write EXCEPT ![w] = "done"], UNCHANGED removes
    PROVE  DataInv' /\ DataKeeps
  <1> DEFINE c == Into[w]
             u == Updated(w, d)
  <1>0. /\ docs \in [Collections -> SUBSET Documents] /\ c \in Collections
        /\ d \in docs[c] /\ d.name = Name[w] /\ d \in Documents /\ d.value \in Nat
    <2>1. /\ docs \in [Collections -> SUBSET Documents] /\ c \in Collections
          /\ d \in docs[c] /\ d.name = Name[w]
      BY ValuesAreNatural DEF DataInv, DataTypeOK, Matching
    <2>2. d \in Documents
      BY <2>1
    <2> QED BY <2>1, <2>2 DEF Documents
  <1>1. /\ u \in Documents /\ u.name = Name[w]
        /\ c \in Adding => u.value = d.value + Value[w]
    BY <1>0, ValuesAreNatural DEF Updated, Documents
  <1>2. /\ docs'[c] = (docs[c] \ {d}) \cup {u}
        /\ \A b \in Collections : b # c => docs'[b] = docs[b]
    BY <1>0
  <1>7. /\ SumFunctionOnSet(Value, Applied(write', c, Name[w]))
                = Value[w] + SumFunctionOnSet(Value, Applied(write, c, Name[w]))
        /\ \A b, n : b # c \/ n # Name[w] => Applied(write', b, n) = Applied(write, b, n)
        /\ DoneWrites' = DoneWrites \cup {w} /\ IsFiniteSet(DoneWrites')
    BY OneMoreApplied
  <1>8. SumFunctionOnSet(Value, Applied(write, c, Name[w])) \in Int /\ Value[w] \in Nat
    BY AppliedIsFinite, ValuesAreNatural
  <1> HIDE DEF u
  <1>3. DataTypeOK'
    BY <1>0, <1>1 DEF DataInv, DataTypeOK, u
  <1>4. ASSUME NEW b \in Adding PROVE CountedIn(docs'[b], write', b)
    <2>1. CountedIn(docs[b], write, b) /\ b \in Collections
      BY <1>4, TopUpsAreRead, MockDataAssumption DEF DataInv
    <2>2. CASE b = c
      <3>1. \A e \in docs[c] \ {d} : e.name # Name[w]
        BY <1>0, <2>1, <2>2 DEF CountedIn
      <3>2. u.value = SumFunctionOnSet(Value, Applied(write', c, u.name))
        BY <1>0, <1>1, <2>1, <2>2, <1>7, <1>8 DEF CountedIn
      <3>3. \A e \in docs[c] \ {d} : e.value = SumFunctionOnSet(Value, Applied(write', c, e.name))
        BY <2>1, <2>2, <3>1, <1>7 DEF CountedIn
      <3>5. \A e, f \in docs'[c] : e.name = f.name => e = f
        BY <1>1, <1>2, <2>1, <2>2, <3>1 DEF CountedIn
      <3>6. \A e \in docs'[c] : e.value = SumFunctionOnSet(Value, Applied(write', c, e.name))
        BY <1>2, <3>2, <3>3
      <3> QED BY <2>2, <3>5, <3>6 DEF CountedIn
    <2>3. CASE b # c
      <3>1. \A n : Applied(write', b, n) = Applied(write, b, n)
        BY <1>7, <2>3
      <3>2. docs'[b] = docs[b]
        BY <1>2, <2>1, <2>3
      <3> QED BY <2>1, <3>1, <3>2 DEF CountedIn
    <2> QED BY <2>2, <2>3
  <1>5. ASSUME NEW v \in DoneWrites' \ Seeds PROVE Stored(docs'[Into[v]], v, removes')
    <2>1. CASE v = w
      BY <1>0, <1>1, <1>2, <2>1, ValuesAreNatural DEF Stored
    <2>2. CASE v # w
      <3>1. Stored(docs[Into[v]], v, removes) /\ v \in Writes /\ Into[v] \in Collections
        BY <1>5, <2>2, <1>7, MockDataAssumption DEF DataInv, DoneWrites
      <3>2. CASE Into[v] # c
        BY <1>2, <3>1, <3>2 DEF Stored
      <3>3. CASE Into[v] = c
        <4>1. ASSUME NEW e \in docs[c], e.name = Name[v], c \in Adding => e.value >= Value[v]
              PROVE  Stored(docs'[Into[v]], v, removes')
          <5>1. CASE e # d
            BY <1>2, <3>3, <4>1, <5>1 DEF Stored
          <5>2. CASE e = d
            BY <1>0, <1>1, <1>2, <3>1, <3>3, <4>1, <5>2, ValuesAreNatural DEF Stored
          <5> QED BY <5>1, <5>2
        <4> QED BY <3>1, <3>3, <4>1 DEF Stored
      <3> QED BY <3>2, <3>3
    <2> QED BY <2>1, <2>2
  <1>6. TopUpsCount'
    BY <1>4, TopUpsAreRead
  <1>9. DataKeeps
    BY <1>7, RemovesCount DEF DataKeeps, DataInv
  <1> QED BY <1>3, <1>5, <1>6, <1>7, <1>9 DEF DataInv

(* An insert makes the first row of its name, where the index is unique.   *)
LEMMA InsertInv ==
    ASSUME DataInv, NEW w \in Writes, write[w] = "insert",
           ~(Into[w] \in Unique /\ Matching(w) # {}),
           docs' = [docs EXCEPT ![Into[w]] =
                       @ \cup {[id |-> w, name |-> Name[w], value |-> Value[w]]}],
           write' = [write EXCEPT ![w] = "done"], UNCHANGED removes
    PROVE  DataInv' /\ DataKeeps
  <1> DEFINE c == Into[w]
             u == [id |-> w, name |-> Name[w], value |-> Value[w]]
  <1>0. docs \in [Collections -> SUBSET Documents] /\ c \in Collections
    BY MockDataAssumption DEF DataInv, DataTypeOK
  <1>1. u \in Documents /\ u.name = Name[w] /\ u.value = Value[w]
    BY MockDataAssumption DEF Documents, Names
  <1>2. /\ docs'[c] = docs[c] \cup {u}
        /\ \A b \in Collections : b # c => docs'[b] = docs[b]
    BY <1>0
  <1>7. /\ SumFunctionOnSet(Value, Applied(write', c, Name[w]))
                = Value[w] + SumFunctionOnSet(Value, Applied(write, c, Name[w]))
        /\ \A b, n : b # c \/ n # Name[w] => Applied(write', b, n) = Applied(write, b, n)
        /\ DoneWrites' = DoneWrites \cup {w} /\ IsFiniteSet(DoneWrites')
    BY OneMoreApplied
  <1>8. SumFunctionOnSet(Value, Applied(write, c, Name[w])) \in Int /\ Value[w] \in Nat
    BY AppliedIsFinite, ValuesAreNatural
  <1> HIDE DEF u
  <1>3. DataTypeOK'
    BY <1>0, <1>1 DEF DataInv, DataTypeOK, u
  <1>4. ASSUME NEW b \in Adding PROVE CountedIn(docs'[b], write', b)
    <2>1. CountedIn(docs[b], write, b) /\ b \in Collections /\ b \in Unique
      BY <1>4, TopUpsAreRead, MockDataAssumption DEF DataInv
    <2>2. CASE b = c
      <3>1. \A e \in docs[c] : e.name # Name[w]
        BY <2>1, <2>2 DEF Matching
      <3>2. Applied(write, c, Name[w]) = {}
        BY <1>4, <2>2, <3>1, AppliedIsStored DEF Applied
      <3>3. u.value = SumFunctionOnSet(Value, Applied(write', c, u.name))
        BY <1>1, <3>2, SumEmpty, <1>7, <1>8
      <3>4. \A e \in docs[c] : e.value = SumFunctionOnSet(Value, Applied(write', c, e.name))
        BY <2>1, <2>2, <3>1, <1>7 DEF CountedIn
      <3>5. \A e, f \in docs'[c] : e.name = f.name => e = f
        BY <1>1, <1>2, <2>1, <2>2, <3>1 DEF CountedIn
      <3>6. \A e \in docs'[c] : e.value = SumFunctionOnSet(Value, Applied(write', c, e.name))
        BY <1>2, <3>3, <3>4
      <3> QED BY <2>2, <3>5, <3>6 DEF CountedIn
    <2>3. CASE b # c
      <3>1. \A n : Applied(write', b, n) = Applied(write, b, n)
        BY <1>7, <2>3
      <3>2. docs'[b] = docs[b]
        BY <1>2, <2>1, <2>3
      <3> QED BY <2>1, <3>1, <3>2 DEF CountedIn
    <2> QED BY <2>2, <2>3
  <1>5. ASSUME NEW v \in DoneWrites' \ Seeds PROVE Stored(docs'[Into[v]], v, removes')
    <2>1. CASE v = w
      BY <1>0, <1>1, <1>2, <2>1, ValuesAreNatural DEF Stored
    <2>2. CASE v # w
      <3>1. Stored(docs[Into[v]], v, removes) /\ v \in Writes /\ Into[v] \in Collections
        BY <1>5, <2>2, <1>7, MockDataAssumption DEF DataInv, DoneWrites
      <3> QED BY <1>2, <3>1 DEF Stored
    <2> QED BY <2>1, <2>2
  <1>6. TopUpsCount'
    BY <1>4, TopUpsAreRead
  <1>9. DataKeeps
    BY <1>7, RemovesCount DEF DataKeeps, DataInv
  <1> QED BY <1>3, <1>5, <1>6, <1>7, <1>9 DEF DataInv

(* What a starting instance counts is no write that anybody relies on.     *)
LEMMA CountInv ==
    ASSUME DataInv, NEW w \in Writes, CountDocuments(w)
    PROVE  DataInv' /\ DataKeeps
  <1>0. w \in Seeds /\ write[w] = "unsent" /\ UNCHANGED <<docs, removes>>
    BY DEF CountDocuments
  <1>1. CASE write' = [write EXCEPT ![w] = "insert"]
    BY <1>0, <1>1, WaitingInv
  <1>2. CASE write' = [write EXCEPT ![w] = "done"]
    <2>1. /\ \A c, n : c # Into[w] \/ n # Name[w] => Applied(write', c, n) = Applied(write, c, n)
          /\ DoneWrites' = DoneWrites \cup {w} /\ IsFiniteSet(DoneWrites')
      BY <1>0, <1>2, OneMoreApplied
    <2>2. Into[w] \notin Adding
      BY <1>0, MockDataAssumption
    <2>3. TopUpsCount'
      BY <1>0, <2>1, <2>2, TopUpsAreRead DEF DataInv, CountedIn
    <2>4. \A v \in DoneWrites' \ Seeds : Stored(docs'[Into[v]], v, removes')
      BY <1>0, <2>1 DEF DataInv, Stored
    <2>5. DataTypeOK' /\ DataKeeps
      BY <1>0, <1>2, <2>1, RemovesCount DEF DataInv, DataTypeOK, DataKeeps
    <2> QED BY <2>1, <2>3, <2>4, <2>5 DEF DataInv
  <1> QED BY <1>1, <1>2 DEF CountDocuments

(* A document that goes is missed by a save that had no right to keep it.  *)
LEMMA RemoveInv ==
    ASSUME DataInv, NEW c \in Collections \ Adding, NEW id, Remove(c, id)
    PROVE  DataInv' /\ DataKeeps
  <1>0. /\ docs \in [Collections -> SUBSET Documents] /\ removes \in Nat /\ removes' = removes + 1
        /\ removes' \in 0..MaxRemoves /\ UNCHANGED write
        /\ \A b \in Collections : b # c => docs'[b] = docs[b]
        /\ docs' = [docs EXCEPT ![c] = {d \in docs[c] : d.id # id}]
    BY RemovesCount, MockDataAssumption DEF DataInv, DataTypeOK, Remove
  <1>1. DataTypeOK'
    BY <1>0 DEF DataInv, DataTypeOK
  <1>2. \A b \in Adding : docs'[b] = docs[b]
    BY <1>0, MockDataAssumption
  <1>3. TopUpsCount'
    BY <1>0, <1>2, TopUpsAreRead DEF DataInv
  <1>4. ASSUME NEW v \in DoneWrites' \ Seeds PROVE Stored(docs'[Into[v]], v, removes')
    <2>1. Stored(docs[Into[v]], v, removes) /\ Into[v] \in Collections
      BY <1>0, ValuesAreNatural DEF DataInv, DoneWrites
    <2>2. CASE Into[v] = c
      BY <1>0, <2>2 DEF Stored
    <2>3. CASE Into[v] # c
      BY <1>0, <2>1, <2>3 DEF Stored
    <2> QED BY <2>2, <2>3
  <1>5. DoneWrites' = DoneWrites
    BY <1>0 DEF DoneWrites
  <1> QED BY <1>0, <1>1, <1>3, <1>4, <1>5 DEF DataInv, DataKeeps

(* Every step of the server on its own.                                    *)
LEMMA WriteInv ==
    ASSUME DataInv, NEW w \in Writes, Post(w) \/ CountDocuments(w) \/ WriteStep(w) \/ WriteFails(w)
    PROVE  DataInv' /\ DataKeeps
  <1>1. CASE Post(w)
    BY <1>1, WaitingInv DEF Post
  <1>2. CASE WriteFails(w)
    BY <1>2, WaitingInv DEF WriteFails
  <1>3. CASE Match(w)
    BY <1>3, WaitingInv, MatchInv DEF Match
  <1>4. CASE Insert(w)
    BY <1>4, WaitingInv, InsertInv DEF Insert
  <1> QED BY <1>1, <1>2, <1>3, <1>4, CountInv DEF WriteStep

(* Empty collections, and nothing written.                                 *)
LEMMA DataStarts == DataInit => DataInv
  <1> SUFFICES ASSUME DataInit PROVE DataInv
    OBVIOUS
  <1>1. DoneWrites = {}
    BY DEF DataInit, DoneWrites
  <1>2. DataTypeOK
    BY MockDataAssumption DEF DataInit, DataTypeOK
  <1>3. TopUpsCount
    BY MockDataAssumption DEF DataInit, TopUpsCount
  <1> QED BY <1>1, <1>2, <1>3, FS_EmptySet DEF DataInv

-----------------------------------------------------------------------------
(***************************************************************************)
(* The page.                                                               *)
(***************************************************************************)
Card == [tab : Collections, list : Calls]

(* The list that getElementById takes is the first of those with the id.   *)
LEMMA FirstListIsFirst ==
    ASSUME NEW page \in Seq(Card), NEW c, ListsOf(page, c) # {}
    PROVE  /\ \E k \in DOMAIN page : page[k].tab = c /\ page[k].list = FirstList(page, c)
           /\ FirstList(page, c) \in Calls
           /\ Min(ListsOf(page, c)) \in ListsOf(page, c)
           /\ \A k \in ListsOf(page, c) : Min(ListsOf(page, c)) <= k
  <1>1. ListsOf(page, c) \subseteq 1..Len(page) /\ Len(page) \in Nat
    BY DEF ListsOf
  <1>2. IsFiniteSet(ListsOf(page, c)) /\ ListsOf(page, c) \subseteq Int
    <2>1. IsFiniteSet(1..Len(page))
      BY <1>1, FS_Interval
    <2> QED BY <1>1, <2>1, FS_Subset
  <1>3. \E m \in ListsOf(page, c) : \A k \in ListsOf(page, c) : m <= k
    BY <1>2, LeastElement
  <1>4. /\ Min(ListsOf(page, c)) \in ListsOf(page, c)
        /\ \A k \in ListsOf(page, c) : Min(ListsOf(page, c)) <= k
    BY <1>3 DEF Min
  <1>5. \A k \in ListsOf(page, c) : k \in DOMAIN page /\ page[k] \in Card /\ page[k].tab = c
    BY DEF ListsOf
  <1> DEFINE m == Min(ListsOf(page, c))
  <1>6. FirstList(page, c) = page[m].list
    BY DEF FirstList
  <1> HIDE DEF m
  <1>7. m \in DOMAIN page /\ page[m] \in Card /\ page[m].tab = c
    BY <1>4, <1>5 DEF m
  <1> QED BY <1>4, <1>6, <1>7 DEF Card

(* A card that is appended is the first of its tab only if it has to be.   *)
LEMMA AppendedList ==
    ASSUME NEW page \in Seq(Card), NEW card \in Card, NEW c
    PROVE  /\ Append(page, card) \in Seq(Card)
           /\ ListsOf(page, c) # {} =>
                  /\ ListsOf(Append(page, card), c) # {}
                  /\ FirstList(Append(page, card), c) = FirstList(page, c)
           /\ card.tab = c => ListsOf(Append(page, card), c) # {}
           /\ card.tab # c => ListsOf(Append(page, card), c) = ListsOf(page, c)
  <1> DEFINE longer == Append(page, card)
  <1>1. /\ longer \in Seq(Card) /\ DOMAIN page = 1..Len(page) /\ Len(page) \in Nat
        /\ DOMAIN longer = 1..(Len(page) + 1) /\ longer[Len(page) + 1] = card
        /\ \A k \in 1..Len(page) : longer[k] = page[k]
    OBVIOUS
  <1> HIDE DEF longer
  <1>2. card.tab # c => ListsOf(longer, c) = ListsOf(page, c)
    BY <1>1 DEF ListsOf
  <1>3. card.tab = c => ListsOf(longer, c) = ListsOf(page, c) \cup {Len(page) + 1}
    BY <1>1 DEF ListsOf
  <1>4. ASSUME ListsOf(page, c) # {}
        PROVE  ListsOf(longer, c) # {} /\ FirstList(longer, c) = FirstList(page, c)
    <2>1. ListsOf(longer, c) # {}
      BY <1>2, <1>3, <1>4
    <2> DEFINE m == Min(ListsOf(page, c))
               n == Min(ListsOf(longer, c))
    <2>2. m \in ListsOf(page, c) /\ \A k \in ListsOf(page, c) : m <= k
      BY <1>4, FirstListIsFirst
    <2>3. n \in ListsOf(longer, c) /\ \A k \in ListsOf(longer, c) : n <= k
      BY <1>1, <2>1, FirstListIsFirst
    <2> HIDE DEF m, n
    <2>4. m \in 1..Len(page) /\ n \in 1..(Len(page) + 1)
      BY <1>1, <2>2, <2>3 DEF ListsOf
    <2>5. n <= m
      BY <1>2, <1>3, <2>2, <2>3
    <2>6. n \in ListsOf(page, c)
      BY <1>1, <1>2, <1>3, <2>3, <2>4, <2>5
    <2>7. n = m
      BY <2>2, <2>4, <2>5, <2>6
    <2> QED BY <1>1, <2>1, <2>4, <2>7 DEF FirstList, m, n
  <1> QED BY <1>1, <1>2, <1>3, <1>4 DEF longer

-----------------------------------------------------------------------------
(* The steps. A call keeps its tab once it has one, and with it every list *)
(* that it made.                                                           *)

(* One call goes on as r, or begins; the others stay where they are.       *)
Proceeds(i, r) ==
    /\ r \in Call /\ r.at # "unused" /\ r.tab \in Collections
    /\ Used(i) => r.tab = call[i].tab
    /\ call' = [call EXCEPT ![i] = r]

(* A call that proceeds is the only one that changes.                      *)
LEMMA ProceedsCalls ==
    ASSUME ScreenInv, NEW i \in Calls, NEW r, Proceeds(i, r)
    PROVE  /\ call' \in [Calls -> Call] /\ call'[i] = r
           /\ \A j \in Calls : j # i => call'[j] = call[j]
           /\ \A j \in Calls : Used(j) => Used(j)' /\ call'[j].tab = call[j].tab
           /\ \A j \in Calls : Used(j)' => call'[j].tab \in Collections
           /\ Used(i)'
  <1>1. call \in [Calls -> Call]
    BY DEF ScreenInv, ScreenTypeOK
  <1>2. call' \in [Calls -> Call] /\ call'[i] = r /\ \A j \in Calls : j # i => call'[j] = call[j]
    BY <1>1 DEF Proceeds
  <1>3. \A j \in Calls : Used(j) => call[j].tab \in Collections
    BY DEF ScreenInv, ListsBelong
  <1> QED BY <1>2, <1>3 DEF Proceeds, Used

(* The part of the type that depends on the calls.                         *)
LEMMA ProceedsType ==
    ASSUME ScreenInv, NEW i \in Calls, NEW r, Proceeds(i, r), DataTypeOK',
           form' \in Calls \cup {NoCall}, cards' \in Seq(Card), shown' \in [Calls -> Content],
           seen' \in [Collections -> SUBSET SUBSET Documents],
           r.at \in {"fetch", "render"} => r.list # NoCall, r.at = "post" => r.write # NoWrite
    PROVE  ScreenTypeOK'
  <1>1. \A j \in Calls :
            /\ call[j].at = "unused" <=> call[j] = Unused
            /\ call[j].at \in {"fetch", "render"} => call[j].list # NoCall
            /\ call[j].at = "post" => call[j].write # NoWrite
    BY DEF ScreenInv, ScreenTypeOK
  <1>2. r.at # "unused" /\ r # Unused
    BY DEF Proceeds, Unused
  <1>3. ASSUME NEW j \in Calls
        PROVE  /\ call'[j].at = "unused" <=> call'[j] = Unused
               /\ call'[j].at \in {"fetch", "render"} => call'[j].list # NoCall
               /\ call'[j].at = "post" => call'[j].write # NoWrite
    BY <1>1, <1>2, ProceedsCalls
  <1> QED BY <1>3, ProceedsCalls DEF ScreenTypeOK, Card

(* A call that renders nothing: it begins, waits for something else than a *)
(* list, or ends before it has one. The server may move at the same time.  *)
LEMMA WaitingCallInv ==
    ASSUME ScreenInv, NEW i \in Calls, NEW r, Proceeds(i, r), ~Rendering(i),
           r.at \in {"post", "delete", "ended"},
           DataInv', DataKeeps, UNCHANGED <<form, cards, shown>>,
           seen' \in [Collections -> SUBSET SUBSET Documents],
           \A c \in Collections : docs'[c] \in seen'[c] /\ seen[c] \subseteq seen'[c],
           call[i].at # "options",
           r.write # NoWrite =>
               r.at = "post" /\ r.write \in Writes \ Seeds /\ Into[r.write] = r.tab,
           r.at = "post" => r.write # NoWrite
    PROVE  ScreenInv'
  <1>0. /\ call' \in [Calls -> Call] /\ call'[i] = r
        /\ \A j \in Calls : j # i => call'[j] = call[j]
        /\ \A j \in Calls : Used(j) => Used(j)' /\ call'[j].tab = call[j].tab
        /\ \A j \in Calls : Used(j)' => call'[j].tab \in Collections
        /\ Used(i)'
    BY ProceedsCalls
  <1>1. /\ form \in Calls \cup {NoCall} /\ cards \in Seq(Card) /\ shown \in [Calls -> Content]
        /\ call \in [Calls -> Call]
        /\ \A j \in Calls : Rendering(j) => call[j].list \in Calls
    BY DEF ScreenInv, ScreenTypeOK, Card, Rendering, Call
  <1>2. ScreenTypeOK'
    BY <1>1, ProceedsType DEF DataInv
  <1>3. \A j \in Calls : Rendering(j)' => j # i /\ Rendering(j)
    BY <1>0 DEF Rendering
  <1>4. \A k \in DOMAIN cards : cards[k] \in Card
    BY <1>1
  <1>5. ListsBelong'
    BY <1>0, <1>1, <1>3, <1>4 DEF ScreenInv, ListsBelong, Card
  <1>6. \A c \in Collections : Listings(seen, c) \subseteq Listings(seen', c)
    BY DEF Listings
  <1>7. ContentsAreSeen'
    <2>1. ASSUME NEW j \in Calls
          PROVE  IF Used(j)' THEN shown'[j] \in Listings(seen', call'[j].tab) \cup {Loading, Empty}
                 ELSE shown'[j] = Loading
      BY <1>0, <1>6 DEF ScreenInv, ContentsAreSeen, ListsBelong
    <2>2. ASSUME NEW j \in Calls, call'[j].at = "render"
          PROVE  call'[j].answer \in Listings(seen', call'[j].tab) \cup {Empty}
      <3>1. j # i /\ Used(j)
        BY <1>0, <2>2 DEF Used
      <3> QED BY <1>0, <1>6, <2>2, <3>1 DEF ScreenInv, ContentsAreSeen
    <2> QED BY <2>1, <2>2 DEF ContentsAreSeen
  <1>8. SavesAreFetched'
    <2> SUFFICES ASSUME NEW j \in Calls, call'[j].write # NoWrite
                 PROVE  /\ call'[j].at = "post" \/ Rendering(j)'
                        /\ call'[j].write \in Writes \ Seeds /\ Into[call'[j].write] = call'[j].tab
                        /\ Rendering(j)' => write'[call'[j].write] = "done"
                        /\ call'[j].at = "render" /\ call'[j].answer # Empty
                              => Stored(call'[j].answer.items, call'[j].write, removes')
      BY DEF SavesAreFetched
    <2>1. CASE j = i
      BY <1>0, <2>1 DEF Rendering
    <2>2. CASE j # i
      <3>1. /\ call[j].at = "post" \/ Rendering(j)
            /\ call[j].write \in Writes \ Seeds /\ Into[call[j].write] = call[j].tab
            /\ Rendering(j) => call[j].write \in DoneWrites
            /\ call[j].at = "render" /\ call[j].answer # Empty
                  => Stored(call[j].answer.items, call[j].write, removes)
        BY <1>0, <2>2 DEF ScreenInv, SavesAreFetched, DoneWrites
      <3>2. \A items, w : Stored(items, w, removes) => Stored(items, w, removes')
        BY StoredKeeps DEF ScreenInv
      <3> QED BY <1>0, <2>2, <3>1, <3>2 DEF DataKeeps, DoneWrites, Rendering
    <2> QED BY <2>1, <2>2
  <1>9. LoadsAreUnderWay'
    <2>1. form # NoCall => call'[form].at = "options" \/ ListsOf(cards, call'[form].tab) # {}
      BY <1>0, <1>1 DEF ScreenInv, LoadsAreUnderWay, ListsBelong
    <2>2. ASSUME NEW c \in Collections, ListsOf(cards, c) # {}, shown[FirstList(cards, c)] = Loading
          PROVE  \E j \in Calls : Rendering(j)' /\ call'[j].list = FirstList(cards, c)
      <3>1. PICK j \in Calls : Rendering(j) /\ call[j].list = FirstList(cards, c)
        BY <2>2 DEF ScreenInv, LoadsAreUnderWay
      <3> QED BY <1>0, <3>1 DEF Rendering
    <2> QED BY <2>1, <2>2 DEF LoadsAreUnderWay
  <1> QED BY <1>2, <1>5, <1>7, <1>8, <1>9 DEF ScreenInv

(* A page that a fetch finds: the one that was, or with the list of the    *)
(* call added, or with that alone.                                         *)
Finds(i, t, page) ==
    /\ page \in Seq(Card)
    /\ \A k \in DOMAIN page : (k \in DOMAIN cards /\ page[k] = cards[k]) \/ page[k] = [tab |-> t, list |-> i]
    /\ \A c \in Collections \ {t} :
           ListsOf(page, c) # {} => ListsOf(cards, c) # {} /\ FirstList(page, c) = FirstList(cards, c)
    /\ \/ form' = form /\ \A c \in Collections : ListsOf(cards, c) # {} => ListsOf(page, c) # {}
       \/ form' = i
    /\ ListsOf(page, t) = {} => page = cards /\ form' = form /\ Used(i) /\ call[i].at # "options"

(* Whoever fetches takes the first list of the tab, which is loading from  *)
(* then on, or ends when there is none.                                    *)
LEMMA FetchingInv ==
    ASSUME ScreenInv, NEW i \in Calls, NEW started \in Call, NEW t \in Collections, started.tab = t,
           ~Rendering(i), Used(i) => call[i].tab = t,
           started.write # NoWrite =>
               started.write \in DoneWrites \ Seeds /\ Into[started.write] = t,
           Finds(i, t, cards'), FetchInto(i, started, cards'), UNCHANGED <<dataVars, seen>>
    PROVE  ScreenInv'
  <1> DEFINE list == FirstList(cards', t)
             r == [started EXCEPT !.at = "fetch", !.list = list]
             found == ListsOf(cards', t) # {}
  <1>0. /\ form \in Calls \cup {NoCall} /\ cards \in Seq(Card) /\ shown \in [Calls -> Content]
        /\ call \in [Calls -> Call] /\ seen \in [Collections -> SUBSET SUBSET Documents]
        /\ \A j \in Calls : Rendering(j) => call[j].list \in Calls
        /\ NoCall \notin Calls /\ NoWrite \notin Writes
        /\ cards' \in Seq(Card)
    BY DataScreenAssumption DEF ScreenInv, ScreenTypeOK, Card, Rendering, Call, Finds
  <1>a. DataInv' /\ DataKeeps /\ DoneWrites' = DoneWrites
    <2>1. DataInv' = DataInv /\ DoneWrites' = DoneWrites
      BY DEF dataVars, DataInv, DataTypeOK, DoneWrites, TopUpsCount, Stored
    <2> QED BY <2>1, RemovesCount DEF ScreenInv, DataInv, DataKeeps, dataVars
  <1>1. CASE ~found
    <2>1. call' = [call EXCEPT ![i] = Ended(i)] /\ UNCHANGED <<shown, form, cards>>
      BY <1>1 DEF FetchInto, Finds
    <2>2. Used(i) /\ call[i].at # "options" /\ call[i].tab = t
      BY <1>1 DEF Finds
    <2>3. /\ Ended(i) \in Call /\ Ended(i).at = "ended" /\ Ended(i).tab = t
          /\ Ended(i).write = NoWrite
      BY <2>2 DEF Ended, Unused, Call, Content, Empty
    <2>4. Proceeds(i, Ended(i))
      BY <2>1, <2>2, <2>3 DEF Proceeds
    <2>5. \A c \in Collections : docs'[c] \in seen'[c] /\ seen[c] \subseteq seen'[c]
      BY DEF ScreenInv, ContentsAreSeen, dataVars
    <2> QED BY <1>0, <1>a, <2>1, <2>2, <2>3, <2>4, <2>5, WaitingCallInv
  <1>2. CASE found
    <2>1. list \in Calls /\ \E k \in DOMAIN cards' : cards'[k].tab = t /\ cards'[k].list = list
      BY <1>0, <1>2, FirstListIsFirst
    <2> HIDE DEF list
    <2>2. /\ call' = [call EXCEPT ![i] = r] /\ shown' = [shown EXCEPT ![list] = Loading]
      BY <1>2 DEF FetchInto, list
    <2>3. /\ r \in Call /\ r.at = "fetch" /\ r.tab = t /\ r.list = list /\ r.write = started.write
      BY <2>1 DEF Call
    <2> HIDE DEF r
    <2>4. Proceeds(i, r)
      BY <2>2, <2>3 DEF Proceeds
    <2>5. /\ call' \in [Calls -> Call] /\ call'[i] = r
          /\ \A j \in Calls : j # i => call'[j] = call[j]
          /\ \A j \in Calls : Used(j) => Used(j)' /\ call'[j].tab = call[j].tab
          /\ \A j \in Calls : Used(j)' => call'[j].tab \in Collections
          /\ Used(i)'
      BY <2>4, ProceedsCalls DEF Used
    <2>6. /\ \A j \in Calls : Rendering(j)' => j = i \/ Rendering(j)
          /\ Rendering(i)' /\ call'[i].tab = t /\ call'[i].list = list
      BY <2>3, <2>5 DEF Rendering
    <2>7. form' \in Calls \cup {NoCall} /\ shown' \in [Calls -> Content]
      BY <1>0, <2>1, <2>2 DEF Finds, Content, Loading
    <2>8. ScreenTypeOK'
      BY <1>0, <1>a, <2>1, <2>3, <2>4, <2>7, ProceedsType DEF DataInv
    <2>u. \A j \in Calls : Used(j)' <=> call'[j].at # "unused"
      BY DEF Used
    <2>9. \A k \in DOMAIN cards' : call'[cards'[k].list].at # "unused" /\ call'[cards'[k].list].tab = cards'[k].tab
      <3> SUFFICES ASSUME NEW k \in DOMAIN cards'
                   PROVE  call'[cards'[k].list].at # "unused" /\ call'[cards'[k].list].tab = cards'[k].tab
        OBVIOUS
      <3>1. CASE cards'[k] = [tab |-> t, list |-> i]
        BY <2>5, <2>6, <2>u, <3>1
      <3>2. CASE k \in DOMAIN cards /\ cards'[k] = cards[k]
        <4>1. cards[k] \in Card /\ Used(cards[k].list) /\ call[cards[k].list].tab = cards[k].tab
          BY <1>0, <3>2 DEF ScreenInv, ListsBelong
        <4> QED BY <2>5, <2>u, <3>2, <4>1 DEF Card
      <3> QED BY <3>1, <3>2 DEF Finds
    <2>10. call'[list].at # "unused" /\ call'[list].tab = t
      BY <2>1, <2>9
    <2>11. ListsBelong'
      <3>1. \A j \in Calls : Rendering(j)' =>
                 call'[call'[j].list].at # "unused" /\ call'[call'[j].list].tab = call'[j].tab
        BY <1>0, <2>5, <2>6, <2>10, <2>u DEF ScreenInv, ListsBelong, Used, Rendering
      <3>2. form' # NoCall => call'[form'].at # "unused"
        BY <1>0, <2>5, <2>u DEF Finds, ScreenInv, ListsBelong
      <3> QED BY <2>5, <2>9, <3>1, <3>2 DEF ListsBelong, Used
    <2>12. ContentsAreSeen'
      <3>1. \A c : Listings(seen', c) = Listings(seen, c)
        BY DEF Listings
      <3>2. ASSUME NEW j \in Calls
            PROVE  IF Used(j)' THEN shown'[j] \in Listings(seen', call'[j].tab) \cup {Loading, Empty}
                   ELSE shown'[j] = Loading
        <4>1. CASE j = list
          BY <1>0, <2>2, <4>1
        <4>2. CASE j # list
          BY <1>0, <2>2, <2>5, <3>1, <4>2 DEF ScreenInv, ContentsAreSeen
        <4> QED BY <4>1, <4>2
      <3>3. ASSUME NEW j \in Calls, call'[j].at = "render"
            PROVE  call'[j].answer \in Listings(seen', call'[j].tab) \cup {Empty}
        BY <2>3, <2>5, <3>1, <3>3 DEF ScreenInv, ContentsAreSeen
      <3>4. \A c \in Collections : docs'[c] \in seen'[c]
        BY DEF ScreenInv, ContentsAreSeen, dataVars
      <3> QED BY <3>2, <3>3, <3>4 DEF ContentsAreSeen
    <2>13. SavesAreFetched'
      <3> SUFFICES ASSUME NEW j \in Calls, call'[j].write # NoWrite
                   PROVE  /\ call'[j].at = "post" \/ Rendering(j)'
                          /\ call'[j].write \in Writes \ Seeds /\ Into[call'[j].write] = call'[j].tab
                          /\ Rendering(j)' => write'[call'[j].write] = "done"
                          /\ call'[j].at = "render" /\ call'[j].answer # Empty
                                => Stored(call'[j].answer.items, call'[j].write, removes')
        BY DEF SavesAreFetched
      <3>1. CASE j = i
        BY <2>3, <2>5, <2>6, <3>1 DEF DoneWrites, dataVars
      <3>2. CASE j # i
        BY <2>5, <3>2 DEF ScreenInv, SavesAreFetched, Rendering, dataVars
      <3> QED BY <3>1, <3>2
    <2>14. LoadsAreUnderWay'
      <3>1. form' # NoCall => call'[form'].at = "options" \/ ListsOf(cards', call'[form'].tab) # {}
        <4>1. CASE form' = i
          BY <1>2, <2>6, <4>1
        <4>2. CASE form' # i /\ form' # NoCall
          <5>1. form' = form /\ form \in Calls /\ Used(form) /\ call'[form] = call[form]
            BY <1>0, <2>5, <4>2 DEF Finds, ScreenInv, ListsBelong
          <5>2. call[form].tab \in Collections
            BY <5>1 DEF ScreenInv, ListsBelong
          <5>3. call[form].at = "options" \/ ListsOf(cards, call[form].tab) # {}
            BY <1>0, <5>1 DEF ScreenInv, LoadsAreUnderWay
          <5> QED BY <4>2, <5>1, <5>2, <5>3 DEF Finds
        <4> QED BY <4>1, <4>2
      <3>2. ASSUME NEW c \in Collections, ListsOf(cards', c) # {}, shown'[FirstList(cards', c)] = Loading
            PROVE  \E j \in Calls : Rendering(j)' /\ call'[j].list = FirstList(cards', c)
        <4>1. CASE c = t
          BY <2>6, <4>1 DEF list
        <4>2. CASE c # t
          <5>1. /\ ListsOf(cards, c) # {} /\ FirstList(cards', c) = FirstList(cards, c)
            BY <3>2, <4>2 DEF Finds
          <5>2. FirstList(cards', c) \in Calls /\ call'[FirstList(cards', c)].tab = c
            BY <1>0, <2>9, <3>2, FirstListIsFirst
          <5>3. FirstList(cards', c) # list
            BY <2>10, <4>2, <5>2
          <5>4. shown[FirstList(cards, c)] = Loading
            BY <1>0, <2>2, <3>2, <5>1, <5>2, <5>3
          <5>5. PICK j \in Calls : Rendering(j) /\ call[j].list = FirstList(cards, c)
            BY <5>1, <5>4 DEF ScreenInv, LoadsAreUnderWay
          <5> QED BY <2>5, <5>1, <5>5 DEF Rendering
        <4> QED BY <4>1, <4>2
      <3> QED BY <3>1, <3>2 DEF LoadsAreUnderWay
    <2> QED BY <1>a, <2>8, <2>11, <2>12, <2>13, <2>14 DEF ScreenInv
  <1> QED BY <1>1, <1>2

(* What a step leaves that neither the server nor the history takes.       *)
LEMMA DataRests ==
    ASSUME ScreenInv, UNCHANGED <<dataVars, seen>>
    PROVE  /\ DataInv' /\ DataKeeps /\ DoneWrites' = DoneWrites
           /\ \A c \in Collections : docs'[c] \in seen'[c] /\ seen[c] \subseteq seen'[c]
           /\ seen' \in [Collections -> SUBSET SUBSET Documents]
           /\ \A c : Listings(seen', c) = Listings(seen, c)
  <1>1. DataInv' = DataInv /\ DoneWrites' = DoneWrites
    BY DEF dataVars, DataInv, DataTypeOK, DoneWrites, TopUpsCount, Stored
  <1>2. \A c \in Collections : docs'[c] \in seen'[c] /\ seen[c] \subseteq seen'[c]
    BY DEF ScreenInv, ContentsAreSeen, dataVars
  <1>3. seen' \in [Collections -> SUBSET SUBSET Documents]
    BY DEF ScreenInv, ScreenTypeOK
  <1>4. \A c : Listings(seen', c) = Listings(seen, c)
    BY DEF Listings
  <1> QED BY <1>1, <1>2, <1>3, <1>4, RemovesCount DEF ScreenInv, DataInv, DataKeeps, dataVars

(* The call that is about to begin.                                        *)
LEMMA UnusedCall ==
    \A c \in Collections :
        LET r == [Unused EXCEPT !.tab = c]
        IN  r \in Call /\ r.tab = c /\ r.write = NoWrite /\ r.list = NoCall /\ r.answer = Empty
  BY DEF Unused, Call, Content, Empty

(* The form of a new tab that still awaits its options: an empty page.     *)
LEMMA SlowTabInv ==
    ASSUME ScreenInv, NEW i \in Calls, NEW c \in Slow, SelectDataTab(i, c)
    PROVE  ScreenInv'
  <1> DEFINE r == [Unused EXCEPT !.at = "options", !.tab = c]
  <1>0. c \in Collections
    BY DataScreenAssumption
  <1>1. /\ r \in Call /\ r.at = "options" /\ r.tab = c /\ r.write = NoWrite
    BY <1>0 DEF Unused, Call, Content, Empty
  <1>2. /\ ~Used(i) /\ form' = i /\ cards' = <<>> /\ UNCHANGED <<shown, dataVars, seen>>
        /\ call' = [call EXCEPT ![i] = r]
    BY DEF SelectDataTab, Used
  <1> HIDE DEF r
  <1>3. Proceeds(i, r)
    BY <1>0, <1>1, <1>2 DEF Proceeds
  <1>4. /\ call' \in [Calls -> Call] /\ call'[i] = r
        /\ \A j \in Calls : j # i => call'[j] = call[j]
        /\ \A j \in Calls : Used(j) => Used(j)' /\ call'[j].tab = call[j].tab
        /\ \A j \in Calls : Used(j)' => call'[j].tab \in Collections
        /\ Used(i)'
    BY <1>3, ProceedsCalls
  <1>5. /\ DataInv' /\ DataKeeps /\ DoneWrites' = DoneWrites
        /\ \A d \in Collections : docs'[d] \in seen'[d]
        /\ seen' \in [Collections -> SUBSET SUBSET Documents]
        /\ \A d : Listings(seen', d) = Listings(seen, d)
    BY <1>2, DataRests
  <1>6. shown \in [Calls -> Content] /\ \A j \in Calls : Rendering(j) => call[j].list \in Calls
    BY DEF ScreenInv, ScreenTypeOK, Rendering, Call
  <1>7. ScreenTypeOK'
    BY <1>1, <1>2, <1>3, <1>5, <1>6, ProceedsType DEF DataInv
  <1>8. \A j \in Calls : Rendering(j)' => j # i /\ Rendering(j)
    BY <1>1, <1>4 DEF Rendering
  <1>9. ListsBelong'
    BY <1>2, <1>4, <1>6, <1>8 DEF ScreenInv, ListsBelong, Used
  <1>10. ContentsAreSeen'
    BY <1>1, <1>2, <1>4, <1>5 DEF ScreenInv, ContentsAreSeen, Used
  <1>11. SavesAreFetched'
    BY <1>1, <1>2, <1>4 DEF ScreenInv, SavesAreFetched, Rendering, dataVars
  <1>12. LoadsAreUnderWay'
    BY <1>1, <1>2, <1>4 DEF LoadsAreUnderWay, ListsOf
  <1> QED BY <1>5, <1>7, <1>9, <1>10, <1>11, <1>12 DEF ScreenInv

(* A form that is there at once: a page with one list, which is loading.   *)
LEMMA FastTabInv ==
    ASSUME ScreenInv, NEW i \in Calls, NEW c \in Collections \ Slow, SelectDataTab(i, c)
    PROVE  ScreenInv'
  <1> DEFINE r == [Unused EXCEPT !.at = "options", !.tab = c]
             card == [tab |-> c, list |-> i]
  <1>1. r \in Call /\ r.tab = c /\ r.write = NoWrite
    BY DEF Unused, Call, Content, Empty
  <1>2. /\ ~Used(i) /\ ~Rendering(i) /\ form' = i /\ UNCHANGED <<dataVars, seen>>
        /\ cards' = Append(<<>>, card) /\ FetchInto(i, r, cards')
    BY DEF SelectDataTab, LoadDataList, Used, Rendering
  <1>3. card \in Card /\ card.tab = c /\ <<>> \in Seq(Card) /\ Append(<<>>, card) = <<card>>
    BY DEF Card
  <1>4. Finds(i, c, cards')
    <2>1. cards' \in Seq(Card) /\ ListsOf(cards', c) # {}
      BY <1>2, <1>3, AppendedList
    <2>2. \A k \in DOMAIN cards' : cards'[k] = card
      BY <1>2, <1>3
    <2>3. \A d \in Collections \ {c} : ListsOf(cards', d) = {}
      BY <2>2 DEF ListsOf
    <2> QED BY <1>2, <2>1, <2>2, <2>3 DEF Finds
  <1> QED BY <1>1, <1>2, <1>4, FetchingInv

(* The list of a form that has awaited its options is added to the page.   *)
LEMMA OptionsInv ==
    ASSUME ScreenInv, NEW i \in Calls, OptionsLoaded(i)
    PROVE  ScreenInv'
  <1> DEFINE c == call[i].tab
             card == [tab |-> c, list |-> i]
  <1>1. /\ call[i] \in Call /\ Used(i) /\ ~Rendering(i) /\ c \in Collections /\ cards \in Seq(Card)
        /\ \A j \in Calls : Used(j) => call[j].tab \in Collections
    BY DEF OptionsLoaded, ScreenInv, ScreenTypeOK, ListsBelong, Used, Rendering, Card
  <1>2. call[i].write = NoWrite
    BY <1>1 DEF OptionsLoaded, ScreenInv, SavesAreFetched
  <1>3. /\ UNCHANGED <<dataVars, form, seen>>
        /\ cards' = Append(cards, card) /\ FetchInto(i, call[i], cards')
    BY DEF OptionsLoaded, LoadDataList
  <1>4. card \in Card /\ card.tab = c
    BY <1>1 DEF Card
  <1>5. Finds(i, c, cards')
    <2>1. cards' \in Seq(Card) /\ ListsOf(cards', c) # {}
      BY <1>1, <1>3, <1>4, AppendedList
    <2>2. \A k \in DOMAIN cards' : (k \in DOMAIN cards /\ cards'[k] = cards[k]) \/ cards'[k] = card
      <3> HIDE DEF card
      <3> QED BY <1>1, <1>3, <1>4
    <2>3. \A d \in Collections \ {c} : ListsOf(cards', d) = ListsOf(cards, d)
      BY <1>1, <1>3, <1>4, AppendedList
    <2>4. \A d \in Collections \ {c} :
              ListsOf(cards', d) # {} => ListsOf(cards, d) # {} /\ FirstList(cards', d) = FirstList(cards, d)
      BY <1>1, <1>3, <1>4, <2>3, AppendedList
    <2>5. \A d \in Collections : ListsOf(cards, d) # {} => ListsOf(cards', d) # {}
      BY <1>1, <1>3, <1>4, AppendedList
    <2> QED BY <1>3, <2>1, <2>2, <2>4, <2>5 DEF Finds
  <1> QED BY <1>1, <1>2, <1>3, <1>5, FetchingInv

(* A refresh, the end of a DELETE, and a POST that was done.               *)
LEMMA RefreshInv ==
    ASSUME ScreenInv, NEW i \in Calls, NEW c \in Collections, Refresh(i, c)
    PROVE  ScreenInv'
  <1> DEFINE r == [Unused EXCEPT !.tab = c]
  <1>1. r \in Call /\ r.tab = c /\ r.write = NoWrite
    BY UnusedCall
  <1>2. /\ UNCHANGED <<dataVars, form, cards, seen>> /\ FetchInto(i, r, cards')
        /\ ~Used(i) /\ ~Rendering(i) /\ cards \in Seq(Card) /\ ListsOf(cards, c) # {}
    BY DEF Refresh, Used, Rendering, ScreenInv, ScreenTypeOK, Card
  <1>3. Finds(i, c, cards')
    BY <1>2 DEF Finds
  <1> QED BY <1>1, <1>2, <1>3, FetchingInv

(* A function whose DELETE was answered turns to its list.                 *)
LEMMA DeletedInv ==
    ASSUME ScreenInv, NEW i \in Calls, Deleted(i)
    PROVE  ScreenInv'
  <1>1. /\ UNCHANGED <<dataVars, form, cards, seen>> /\ FetchInto(i, call[i], cards')
        /\ call[i] \in Call /\ Used(i) /\ ~Rendering(i) /\ call[i].at = "delete"
        /\ cards \in Seq(Card)
    BY DEF Deleted, Used, Rendering, ScreenInv, ScreenTypeOK, Card
  <1>2. call[i].tab \in Collections /\ call[i].write = NoWrite
    BY <1>1 DEF ScreenInv, ListsBelong, SavesAreFetched
  <1>3. Finds(i, call[i].tab, cards')
    BY <1>1 DEF Finds
  <1> QED BY <1>1, <1>2, <1>3, FetchingInv

(* A submission whose POST was answered turns to its list, or ends.        *)
LEMMA SavedInv ==
    ASSUME ScreenInv, NEW i \in Calls, Saved(i)
    PROVE  ScreenInv'
  <1>1. /\ UNCHANGED <<dataVars, form, cards, seen>>
        /\ call[i] \in Call /\ Used(i) /\ ~Rendering(i) /\ call[i].at = "post"
        /\ cards \in Seq(Card) /\ call[i].write # NoWrite
    BY DEF Saved, Used, Rendering, ScreenInv, ScreenTypeOK, Card
  <1>2. /\ call[i].tab \in Collections
        /\ call[i].write \in Writes \ Seeds /\ Into[call[i].write] = call[i].tab
    BY <1>1 DEF ScreenInv, ListsBelong, SavesAreFetched
  <1>3. CASE write[call[i].write] = "done" /\ FetchInto(i, call[i], cards)
    <2>1. Finds(i, call[i].tab, cards')
      BY <1>1 DEF Finds
    <2> QED BY <1>1, <1>2, <1>3, <2>1, FetchingInv DEF DoneWrites
  <1>4. CASE call' = [call EXCEPT ![i] = Ended(i)] /\ UNCHANGED shown
    <2>1. /\ Ended(i) \in Call /\ Ended(i).at = "ended" /\ Ended(i).tab = call[i].tab
          /\ Ended(i).write = NoWrite
      BY <1>2 DEF Ended, Unused, Call, Content, Empty
    <2>2. Proceeds(i, Ended(i))
      BY <1>2, <1>4, <2>1 DEF Proceeds
    <2> QED BY <1>1, <1>4, <2>1, <2>2, DataRests, WaitingCallInv
  <1> QED BY <1>3, <1>4 DEF Saved

(* A card holds the list that a call made.                                 *)
LEMMA CardsAreCards ==
    ASSUME cards \in Seq(Card)
    PROVE  \A k \in DOMAIN cards : cards[k].tab \in Collections /\ cards[k].list \in Calls
  <1>1. \A k \in DOMAIN cards : cards[k] \in Card
    OBVIOUS
  <1> QED BY <1>1 DEF Card

(* The answer of a GET is what the server holds when it is made.           *)
LEMMA FetchInv ==
    ASSUME ScreenInv, NEW i \in Calls, Fetch(i)
    PROVE  ScreenInv'
  <1>1. /\ UNCHANGED <<dataVars, form, cards, shown, seen>>
        /\ call[i] \in Call /\ Used(i) /\ Rendering(i) /\ call[i].at = "fetch"
        /\ call[i].list \in Calls /\ call[i].list # NoCall
        /\ call[i].tab \in Collections
    BY DEF Fetch, Used, Rendering, ScreenInv, ScreenTypeOK, ListsBelong, Call
  <1>2. PICK answer \in {Listing(docs[call[i].tab]), Empty} :
            call' = [call EXCEPT ![i].at = "render", ![i].answer = answer]
    BY DEF Fetch
  <1> DEFINE r == [call[i] EXCEPT !.at = "render", !.answer = answer]
  <1>3. answer \in Content /\ docs[call[i].tab] \in SUBSET Documents
    BY <1>1 DEF Listing, Empty, Content, ScreenInv, ScreenTypeOK, DataTypeOK
  <1>4. /\ r \in Call /\ r.at = "render" /\ r.tab = call[i].tab /\ r.list = call[i].list
        /\ r.answer = answer /\ r.write = call[i].write
    BY <1>1, <1>3 DEF Call
  <1>5. call' = [call EXCEPT ![i] = r]
    BY <1>2
  <1> HIDE DEF r
  <1>6. Proceeds(i, r)
    BY <1>1, <1>4, <1>5 DEF Proceeds
  <1>7. /\ call' \in [Calls -> Call] /\ call'[i] = r
        /\ \A j \in Calls : j # i => call'[j] = call[j]
        /\ \A j \in Calls : Used(j) => Used(j)' /\ call'[j].tab = call[j].tab
        /\ \A j \in Calls : Used(j)' => call'[j].tab \in Collections
        /\ Used(i)'
    BY <1>6, ProceedsCalls
  <1>8. /\ DataInv' /\ DataKeeps /\ DoneWrites' = DoneWrites
        /\ \A d \in Collections : docs'[d] \in seen'[d]
        /\ seen' \in [Collections -> SUBSET SUBSET Documents]
        /\ \A d : Listings(seen', d) = Listings(seen, d)
    BY <1>1, DataRests
  <1>9. /\ form \in Calls \cup {NoCall} /\ cards \in Seq(Card) /\ shown \in [Calls -> Content]
        /\ \A k \in DOMAIN cards : cards[k].list \in Calls
        /\ \A j \in Calls : Rendering(j) => call[j].list \in Calls
    BY CardsAreCards DEF ScreenInv, ScreenTypeOK, Card, Rendering, Call
  <1>10. ScreenTypeOK'
    BY <1>1, <1>4, <1>6, <1>8, <1>9, ProceedsType DEF DataInv
  <1>11. \A j \in Calls : (Rendering(j)' <=> Rendering(j)) /\ call'[j].list = call[j].list
    BY <1>1, <1>4, <1>7 DEF Rendering
  <1>12. ListsBelong'
    BY <1>1, <1>7, <1>9, <1>11 DEF ScreenInv, ListsBelong, Rendering
  <1>13. ContentsAreSeen'
    <2>1. answer \in Listings(seen, call[i].tab) \cup {Empty}
      BY <1>1 DEF ScreenInv, ContentsAreSeen, Listings
    <2>2. \A j \in Calls : call'[j].at = "render" =>
              call'[j].answer \in Listings(seen', call'[j].tab) \cup {Empty}
      BY <1>4, <1>7, <1>8, <2>1 DEF ScreenInv, ContentsAreSeen
    <2>3. \A j \in Calls : IF Used(j)' THEN shown'[j] \in Listings(seen', call'[j].tab) \cup {Loading, Empty}
                           ELSE shown'[j] = Loading
      BY <1>1, <1>7, <1>8 DEF ScreenInv, ContentsAreSeen, Used
    <2> QED BY <1>8, <2>2, <2>3 DEF ContentsAreSeen
  <1>14. SavesAreFetched'
    <2>1. ASSUME call[i].write # NoWrite, answer # Empty
          PROVE  Stored(answer.items, call[i].write, removes)
      <3>1. call[i].write \in DoneWrites \ Seeds /\ Into[call[i].write] = call[i].tab
        BY <1>1, <2>1 DEF ScreenInv, SavesAreFetched, DoneWrites
      <3>2. Stored(docs[call[i].tab], call[i].write, removes)
        BY <3>1 DEF ScreenInv, DataInv
      <3>3. answer = Listing(docs[call[i].tab])
        BY <2>1
      <3> QED BY <3>2, <3>3 DEF Listing
    <2>2. /\ write' = write /\ removes' = removes /\ r.write = call[i].write /\ r.answer = answer
          /\ r.tab = call[i].tab
      BY <1>1, <1>4 DEF dataVars
    <2> SUFFICES ASSUME NEW j \in Calls, call'[j].write # NoWrite
                 PROVE  /\ call'[j].at = "post" \/ Rendering(j)'
                        /\ call'[j].write \in Writes \ Seeds /\ Into[call'[j].write] = call'[j].tab
                        /\ Rendering(j)' => write'[call'[j].write] = "done"
                        /\ call'[j].at = "render" /\ call'[j].answer # Empty
                              => Stored(call'[j].answer.items, call'[j].write, removes')
      BY DEF SavesAreFetched
    <2>3. CASE j = i
      BY <1>1, <1>7, <1>11, <2>1, <2>2, <2>3 DEF ScreenInv, SavesAreFetched
    <2>4. CASE j # i
      BY <1>7, <1>11, <2>2, <2>4 DEF ScreenInv, SavesAreFetched
    <2> QED BY <2>3, <2>4
  <1>15. LoadsAreUnderWay'
    <2>1. form # NoCall => call'[form].at = "options" \/ ListsOf(cards, call'[form].tab) # {}
      BY <1>1, <1>7, <1>9 DEF ScreenInv, LoadsAreUnderWay, ListsBelong, Used
    <2>2. form' = form /\ cards' = cards /\ shown' = shown
      BY <1>1
    <2> QED BY <1>11, <2>1, <2>2 DEF ScreenInv, LoadsAreUnderWay
  <1> QED BY <1>8, <1>10, <1>12, <1>13, <1>14, <1>15 DEF ScreenInv

(* It is all that the list shows from then on.                             *)
LEMMA RenderInv ==
    ASSUME ScreenInv, NEW i \in Calls, Render(i)
    PROVE  ScreenInv'
  <1> DEFINE list == call[i].list
             r == Ended(i)
  <1>1. /\ UNCHANGED <<dataVars, form, cards, seen>>
        /\ call[i] \in Call /\ Used(i) /\ Rendering(i) /\ call[i].at = "render"
        /\ list \in Calls /\ call[i].tab \in Collections /\ call[i].answer \in Content
        /\ Used(list) /\ call[list].tab = call[i].tab
    BY DEF Render, Used, Rendering, ScreenInv, ScreenTypeOK, ListsBelong, Call
  <1>2. /\ call' = [call EXCEPT ![i] = r]
        /\ shown' = [shown EXCEPT ![list] = call[i].answer]
    BY DEF Render
  <1>3. /\ r \in Call /\ r.at = "ended" /\ r.tab = call[i].tab /\ r.write = NoWrite
    BY <1>1 DEF Ended, Unused, Call, Content, Empty
  <1> HIDE DEF r
  <1>4. Proceeds(i, r)
    BY <1>1, <1>2, <1>3 DEF Proceeds
  <1>5. /\ call' \in [Calls -> Call] /\ call'[i] = r
        /\ \A j \in Calls : j # i => call'[j] = call[j]
        /\ \A j \in Calls : Used(j) => Used(j)' /\ call'[j].tab = call[j].tab
        /\ \A j \in Calls : Used(j)' => call'[j].tab \in Collections
        /\ Used(i)'
    BY <1>4, ProceedsCalls
  <1>6. /\ DataInv' /\ DataKeeps /\ DoneWrites' = DoneWrites
        /\ \A d \in Collections : docs'[d] \in seen'[d]
        /\ seen' \in [Collections -> SUBSET SUBSET Documents]
        /\ \A d : Listings(seen', d) = Listings(seen, d)
    BY <1>1, DataRests
  <1>7. /\ form \in Calls \cup {NoCall} /\ cards \in Seq(Card) /\ shown \in [Calls -> Content]
        /\ \A k \in DOMAIN cards : cards[k].list \in Calls
        /\ \A j \in Calls : Rendering(j) => call[j].list \in Calls
        /\ shown' \in [Calls -> Content]
    BY <1>1, <1>2, CardsAreCards DEF ScreenInv, ScreenTypeOK, Card, Rendering, Call
  <1>8. ScreenTypeOK'
    BY <1>1, <1>3, <1>4, <1>6, <1>7, ProceedsType DEF DataInv
  <1>9. \A j \in Calls : Rendering(j)' => j # i /\ Rendering(j) /\ call'[j] = call[j]
    BY <1>3, <1>5 DEF Rendering
  <1>10. ListsBelong'
    BY <1>1, <1>5, <1>7, <1>9 DEF ScreenInv, ListsBelong, Rendering
  <1>11. call[i].answer \in Listings(seen, call[i].tab) \cup {Empty}
    BY <1>1 DEF ScreenInv, ContentsAreSeen
  <1>12. ContentsAreSeen'
    <2>1. \A j \in Calls : call'[j].at = "render" =>
              call'[j].answer \in Listings(seen', call'[j].tab) \cup {Empty}
      BY <1>3, <1>5, <1>6 DEF ScreenInv, ContentsAreSeen
    <2>2. ASSUME NEW j \in Calls
          PROVE  IF Used(j)' THEN shown'[j] \in Listings(seen', call'[j].tab) \cup {Loading, Empty}
                 ELSE shown'[j] = Loading
      <3>1. CASE j = list
        BY <1>1, <1>2, <1>5, <1>6, <1>7, <1>11, <3>1
      <3>2. CASE j # list
        <4>1. shown'[j] = shown[j]
          BY <1>1, <1>2, <1>7, <3>2
        <4>2. Used(j)' => Used(j)
          BY <1>1, <1>5 DEF Used
        <4> QED BY <1>5, <1>6, <4>1, <4>2 DEF ScreenInv, ContentsAreSeen
      <3> QED BY <3>1, <3>2
    <2> QED BY <1>6, <2>1, <2>2 DEF ContentsAreSeen
  <1>13. SavesAreFetched'
    BY <1>1, <1>3, <1>5, <1>9 DEF ScreenInv, SavesAreFetched, Rendering, dataVars
  <1>14. LoadsAreUnderWay'
    <2>1. form # NoCall => call'[form].at = "options" \/ ListsOf(cards, call'[form].tab) # {}
      BY <1>1, <1>5, <1>7 DEF ScreenInv, LoadsAreUnderWay, ListsBelong, Used
    <2>2. call[i].answer # Loading
      BY <1>11 DEF Listings, Listing, Empty, Loading
    <2>3. ASSUME NEW c \in Collections, ListsOf(cards, c) # {}, shown'[FirstList(cards, c)] = Loading
          PROVE  \E j \in Calls : Rendering(j)' /\ call'[j].list = FirstList(cards, c)
      <3>1. FirstList(cards, c) \in Calls
        BY <1>7, <2>3, FirstListIsFirst
      <3>2. FirstList(cards, c) # list /\ shown[FirstList(cards, c)] = Loading
        BY <1>1, <1>2, <1>7, <2>2, <2>3, <3>1
      <3>3. PICK j \in Calls : Rendering(j) /\ call[j].list = FirstList(cards, c)
        BY <2>3, <3>2 DEF ScreenInv, LoadsAreUnderWay
      <3> QED BY <1>5, <3>2, <3>3 DEF Rendering
    <2>4. form' = form /\ cards' = cards
      BY <1>1
    <2> QED BY <2>1, <2>3, <2>4 DEF LoadsAreUnderWay
  <1> QED BY <1>6, <1>8, <1>10, <1>12, <1>13, <1>14 DEF ScreenInv

(* The form goes out, and a row is deleted, while the page stays as it is. *)
LEMMA SaveInv ==
    ASSUME ScreenInv, NEW i \in Calls, NEW w \in Writes, Save(i, w)
    PROVE  ScreenInv'
  <1> DEFINE r == [Unused EXCEPT !.at = "post", !.tab = Into[w], !.write = w, !.form = form]
  <1>1. form \in Calls \cup {NoCall} /\ Into[w] \in Collections /\ w # NoWrite
    BY ValuesAreNatural, DataScreenAssumption DEF ScreenInv, ScreenTypeOK
  <1>2. r \in Call /\ r.at = "post" /\ r.tab = Into[w] /\ r.write = w
    BY <1>1 DEF Unused, Call, Content, Empty
  <1>3. /\ ~Used(i) /\ ~Rendering(i) /\ Post(w) /\ UNCHANGED <<form, cards, shown, seen>>
        /\ call[i].at = "unused" /\ call' = [call EXCEPT ![i] = r]
    BY DEF Save, Used, Rendering
  <1> HIDE DEF r
  <1>4. Proceeds(i, r)
    BY <1>1, <1>2, <1>3 DEF Proceeds
  <1>5. DataInv' /\ DataKeeps
    BY <1>3, WriteInv DEF ScreenInv
  <1>6. w \in Writes \ Seeds /\ UNCHANGED docs
    BY <1>3 DEF Post
  <1>7. /\ seen' \in [Collections -> SUBSET SUBSET Documents]
        /\ \A c \in Collections : docs'[c] \in seen'[c] /\ seen[c] \subseteq seen'[c]
    BY <1>3, <1>6 DEF ScreenInv, ScreenTypeOK, ContentsAreSeen
  <1> QED BY <1>1, <1>2, <1>3, <1>4, <1>5, <1>6, <1>7, WaitingCallInv

(* The history takes in what a step of the server leaves.                  *)
LEMMA RememberedSeen ==
    ASSUME ScreenInv, DataInv', seen' = Remembered
    PROVE  /\ seen' \in [Collections -> SUBSET SUBSET Documents]
           /\ \A c \in Collections : docs'[c] \in seen'[c] /\ seen[c] \subseteq seen'[c]
  <1>1. seen \in [Collections -> SUBSET SUBSET Documents] /\ docs' \in [Collections -> SUBSET Documents]
    BY DEF ScreenInv, ScreenTypeOK, DataInv, DataTypeOK
  <1> QED BY <1>1 DEF Remembered

(* A click on the button of a row.                                         *)
LEMMA DeleteInv ==
    ASSUME ScreenInv, NEW i \in Calls, NEW c \in Collections, NEW d \in UNION seen[c],
           Delete(i, c, d), seen' = Remembered
    PROVE  ScreenInv'
  <1> DEFINE at == IF \E e \in docs[c] : e.id = d.id THEN "delete" ELSE "ended"
             r == [Unused EXCEPT !.at = at, !.tab = c]
  <1>1. at \in {"delete", "ended"}
    OBVIOUS
  <1>2. /\ ~Used(i) /\ ~Rendering(i) /\ call[i].at = "unused" /\ UNCHANGED <<form, cards, shown>>
        /\ c \in Collections \ Adding /\ Remove(c, d.id) /\ call' = [call EXCEPT ![i] = r]
    BY DEF Delete, Used, Rendering
  <1> HIDE DEF at
  <1>3. r \in Call /\ r.at \in {"delete", "ended"} /\ r.tab = c /\ r.write = NoWrite
    BY <1>1 DEF Unused, Call, Content, Empty
  <1> HIDE DEF r
  <1>4. Proceeds(i, r)
    BY <1>2, <1>3 DEF Proceeds
  <1>5. DataInv' /\ DataKeeps
    BY <1>2, RemoveInv DEF ScreenInv
  <1>6. /\ seen' \in [Collections -> SUBSET SUBSET Documents]
        /\ \A b \in Collections : docs'[b] \in seen'[b] /\ seen[b] \subseteq seen'[b]
    BY <1>5, RememberedSeen
  <1> QED BY <1>2, <1>3, <1>4, <1>5, <1>6, WaitingCallInv

(* The rest of the server moves without the page.                          *)
LEMMA ServerInv ==
    ASSUME ScreenInv, NEW w \in Writes, DataStep(w), seen' = Remembered
    PROVE  ScreenInv'
  <1>1. DataInv' /\ DataKeeps /\ UNCHANGED <<form, cards, shown, call>>
    BY WriteInv DEF DataStep, ScreenInv
  <1>2. /\ seen' \in [Collections -> SUBSET SUBSET Documents]
        /\ \A c \in Collections : docs'[c] \in seen'[c] /\ seen[c] \subseteq seen'[c]
    BY <1>1, RememberedSeen
  <1>3. ScreenTypeOK'
    BY <1>1, <1>2 DEF ScreenInv, ScreenTypeOK, DataInv
  <1>4. \A i \in Calls : (Used(i)' <=> Used(i)) /\ (Rendering(i)' <=> Rendering(i))
    BY <1>1 DEF Used, Rendering
  <1>5. ListsBelong'
    BY <1>1 DEF ScreenInv, ListsBelong, Used, Rendering
  <1>6. \A c \in Collections : Listings(seen, c) \subseteq Listings(seen', c)
    BY <1>2 DEF Listings
  <1>7. ContentsAreSeen'
    <2>1. \A i \in Calls : call[i].at = "render" => Used(i)
      BY DEF Used
    <2> QED BY <1>1, <1>2, <1>4, <1>6, <2>1 DEF ScreenInv, ContentsAreSeen, ListsBelong
  <1>8. SavesAreFetched'
    <2>1. \A items, v : Stored(items, v, removes) => Stored(items, v, removes')
      BY <1>1, StoredKeeps DEF ScreenInv
    <2>2. \A v \in Writes : write[v] = "done" => write'[v] = "done"
      BY <1>1 DEF DataKeeps, DoneWrites
    <2> QED BY <1>1, <1>4, <2>1, <2>2 DEF ScreenInv, SavesAreFetched
  <1>9. LoadsAreUnderWay'
    BY <1>1 DEF ScreenInv, LoadsAreUnderWay, Rendering
  <1> QED BY <1>1, <1>3, <1>5, <1>7, <1>8, <1>9 DEF ScreenInv

(* Before the first click.                                                 *)
LEMMA ScreenStarts == ScreenInit => ScreenInv
  <1> SUFFICES ASSUME ScreenInit PROVE ScreenInv
    OBVIOUS
  <1>1. DataInv
    BY DataStarts DEF ScreenInit
  <1>2. Unused \in Call /\ Loading \in Content /\ Unused.at = "unused" /\ Unused.write = NoWrite
    BY DEF Unused, Call, Content, Empty, Loading
  <1>3. ScreenTypeOK
    BY <1>1, <1>2 DEF ScreenInit, ScreenTypeOK, DataInv, DataInit
  <1>4. \A i \in Calls : ~Used(i) /\ ~Rendering(i) /\ call[i] = Unused
    BY <1>2 DEF ScreenInit, Used, Rendering
  <1>5. ListsBelong
    BY <1>4 DEF ScreenInit, ListsBelong
  <1>6. ContentsAreSeen
    BY <1>2, <1>4 DEF ScreenInit, ContentsAreSeen, DataInit
  <1>7. SavesAreFetched
    BY <1>2, <1>4 DEF SavesAreFetched
  <1>8. LoadsAreUnderWay
    BY DEF ScreenInit, LoadsAreUnderWay, ListsOf
  <1> QED BY <1>1, <1>3, <1>5, <1>6, <1>7, <1>8 DEF ScreenInv

(* Every step of the page and the server keeps the invariant.              *)
LEMMA ScreenStep == ScreenInv /\ [ScreenNext]_screenVars => ScreenInv'
  <1> SUFFICES ASSUME ScreenInv, [ScreenNext]_screenVars PROVE ScreenInv'
    OBVIOUS
  <1>1. ASSUME NEW i \in Calls, Click(i) PROVE ScreenInv'
    BY <1>1, SlowTabInv, FastTabInv, RefreshInv, SaveInv DEF Click
  <1>2. ASSUME NEW i \in Calls, Continue(i) PROVE ScreenInv'
    BY <1>2, OptionsInv, FetchInv, RenderInv, SavedInv, DeletedInv DEF Continue
  <1>3. ASSUME NEW i \in Calls, NEW c \in Collections, NEW d \in UNION seen[c],
               Delete(i, c, d), seen' = Remembered
        PROVE  ScreenInv'
    BY <1>3, DeleteInv
  <1>4. ASSUME NEW w \in Writes, DataStep(w), seen' = Remembered PROVE ScreenInv'
    BY <1>4, ServerInv
  <1>5. CASE UNCHANGED screenVars
    BY <1>5 DEF screenVars, dataVars, ScreenInv, ScreenTypeOK, DataInv, DataTypeOK, DoneWrites,
        TopUpsCount, Stored, ListsBelong, ContentsAreSeen, SavesAreFetched, LoadsAreUnderWay,
        Used, Rendering, Listings
  <1> QED BY <1>1, <1>2, <1>3, <1>4, <1>5 DEF ScreenNext

(* The invariant is one.                                                   *)
LEMMA ScreenAlways == ScreenSpec => []ScreenInv
  BY ScreenStarts, ScreenStep, PTL DEF ScreenSpec

-----------------------------------------------------------------------------
(***************************************************************************)
(* Theorems.                                                               *)
(***************************************************************************)

(* The calls, the lists and the collections keep their shape; a call that  *)
(* renders has a list and a call that saves has a write.                   *)
THEOREM ScreenTypes == ScreenSpec => []ScreenTypeOK
  BY ScreenAlways, PTL DEF ScreenInv

(* addStock: every top-up of a stock row that was applied counts once,     *)
(* however many race to make the row.                                      *)
THEOREM TopUpsAllCount == ScreenSpec => []TopUpsCount
  BY ScreenAlways, PTL DEF ScreenInv, DataInv

(* Every list on the page shows one content that the server had,           *)
(* however many loads write to the list.                                   *)
THEOREM EveryListIsASnapshot == ScreenSpec => []ListsAreSnapshots
  <1>1. ScreenInv => ListsAreSnapshots
    <2> SUFFICES ASSUME ScreenInv, NEW k \in DOMAIN cards
                 PROVE  shown[cards[k].list]
                            \in {Listing(items) : items \in seen[cards[k].tab]} \cup {Loading, Empty}
      BY DEF ListsAreSnapshots
    <2>1. cards[k].list \in Calls /\ Used(cards[k].list) /\ call[cards[k].list].tab = cards[k].tab
      BY CardsAreCards DEF ScreenInv, ScreenTypeOK, ListsBelong, Card
    <2> QED BY <2>1 DEF ScreenInv, ContentsAreSeen, Listings
  <1> QED BY <1>1, ScreenAlways, PTL

(* When everything that was started has ended, the page lists the tab that *)
(* was clicked last.                                                       *)
THEOREM LastTabIsListed == ScreenSpec => []ActiveTabIsListed
  <1>1. ScreenInv => ActiveTabIsListed
    <2> SUFFICES ASSUME ScreenInv, form # NoCall, \A i \in Calls : call[i].at \in {"unused", "ended"}
                 PROVE  ListsOf(cards, Active) # {} /\ shown[FirstList(cards, Active)] # Loading
      BY DEF ActiveTabIsListed
    <2>1. form \in Calls /\ Active = call[form].tab /\ call[form].tab \in Collections
      BY DEF ScreenInv, ScreenTypeOK, ListsBelong, Active
    <2>2. \A i \in Calls : ~Rendering(i) /\ call[i].at # "options"
      BY DEF Rendering
    <2> QED BY <2>1, <2>2 DEF ScreenInv, LoadsAreUnderWay
  <1> QED BY <1>1, ScreenAlways, PTL

(* The list that a submission loads shows what it has saved, unless that   *)
(* was deleted: the page waits for the POST before it sends its GET.       *)
THEOREM SavesAreAlwaysShown == ScreenSpec => SavesAreShown
  <1>1. ASSUME ScreenInv, NEW i \in Calls, Render(i), call[i].write # NoWrite, call[i].answer # Empty
        PROVE  Stored(call[i].answer.items, call[i].write, removes)
    BY <1>1 DEF Render, ScreenInv, SavesAreFetched
  <1>2. ScreenInv /\ [ScreenNext]_screenVars =>
            [\A i \in Calls :
                Render(i) /\ call[i].write # NoWrite /\ call[i].answer # Empty
                    => \/ \E d \in call[i].answer.items :
                              /\ d.name = Name[call[i].write]
                              /\ Into[call[i].write] \in Adding => d.value >= Value[call[i].write]
                       \/ Into[call[i].write] \notin Adding /\ removes > 0]_screenVars
    BY <1>1 DEF Stored
  <1> QED BY <1>2, ScreenAlways, PTL DEF ScreenSpec, SavesAreShown
=============================================================================
