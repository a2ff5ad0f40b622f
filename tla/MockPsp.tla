------------------------------- MODULE MockPsp -------------------------------
(***************************************************************************)
(* The payment provider that the repository ships                          *)
(* (src/mockdata/mockdata-psp.service.ts): concurrent authorizations and   *)
(* look-ups of charges, split where the code awaits.  The caller of a      *)
(* request may be long gone while the provider still works on it.          *)
(***************************************************************************)
EXTENDS FiniteSets

CONSTANTS
    Keys,         \* idempotency keys
    Requests,     \* HTTP requests in flight, each of them handled once
    KeyOf         \* KeyOf[q]: the key that q carries

ASSUME MockPspAssumption == KeyOf \in [Requests -> Keys]

VARIABLES
    charges,      \* charges[k]: the status of the charge document of k
    handler       \* handler[q]: where the handler of q is, with its verdict or answer

pspVars == <<charges, handler>>

Outcomes == {"succeeded", "declined"}
Steps == {"new", "decide", "create", "winner", "answered"}
Results == {"none", "unknown", "error"} \cup Outcomes

PspTypeOK ==
    /\ charges \in [Keys -> {"none"} \cup Outcomes]
    /\ handler \in [Requests -> [at : Steps, result : Results]]

PspInit ==
    /\ charges = [k \in Keys |-> "none"]
    /\ handler = [q \in Requests |-> [at |-> "new", result |-> "none"]]

HandlerGoes(q, at, result) == handler' = [handler EXCEPT ![q] = [at |-> at, result |-> result]]
Charged(q) == charges[KeyOf[q]] # "none"

-----------------------------------------------------------------------------
(* authorize: a replay answers with the original outcome.                  *)
FindCharge(q) ==
    /\ handler[q].at = "new"
    /\ IF Charged(q) THEN HandlerGoes(q, "answered", charges[KeyOf[q]])
       ELSE HandlerGoes(q, "decide", "none")
    /\ UNCHANGED charges

(* After the latency: the state of the card at that moment, which can be   *)
(* changed at any time, or chance.                                         *)
DecideOutcome(q) ==
    /\ handler[q].at = "decide"
    /\ \E verdict \in Outcomes : HandlerGoes(q, "create", verdict)
    /\ UNCHANGED charges

(* Mutant: no unique index, the later charge replaces the earlier.         *)
OverwriteCharge(q) ==
    /\ handler[q].at = "create"
    /\ charges' = [charges EXCEPT ![KeyOf[q]] = handler[q].result]
    /\ HandlerGoes(q, "answered", handler[q].result)

(* The charge is recorded first, whatever becomes of the response; the     *)
(* unique index sends the loser of a race to the winner's charge.          *)
CreateCharge(q) ==
    /\ handler[q].at = "create"
    /\ IF Charged(q) THEN HandlerGoes(q, "winner", "none") /\ UNCHANGED charges
       ELSE /\ charges' = [charges EXCEPT ![KeyOf[q]] = handler[q].result]
            /\ \/ HandlerGoes(q, "answered", handler[q].result)
               \/ HandlerGoes(q, "answered", "unknown")

ReadWinner(q) ==
    /\ handler[q].at = "winner"
    /\ HandlerGoes(q, "answered", charges[KeyOf[q]])
    /\ UNCHANGED charges

(* getByIdempotencyKey: what the sweeper asks.                             *)
LookUp(q) ==
    /\ handler[q].at = "new"
    /\ HandlerGoes(q, "answered", charges[KeyOf[q]])
    /\ UNCHANGED charges

(* An await throws or the provider restarts: an error, or no response.     *)
HandlerFails(q) ==
    /\ handler[q].at # "answered"
    /\ HandlerGoes(q, "answered", "error")
    /\ UNCHANGED charges

PspNext ==
    \E q \in Requests :
        FindCharge(q) \/ DecideOutcome(q) \/ CreateCharge(q) \/ ReadWinner(q) \/ LookUp(q)
        \/ HandlerFails(q)

PspSpec == PspInit /\ [][PspNext]_pspVars

-----------------------------------------------------------------------------
(* The provider keeps its promises: however requests with one key race,    *)
(* the card is charged once, and every answer tells that one outcome.      *)
Gateway == INSTANCE PaymentGateway WITH
    charge <- charges,
    answers <- {<<KeyOf[q], handler[q].result>> :
                   q \in {r \in Requests : handler[r].at = "answered" /\ handler[r].result # "error"}}
GatewayRefinement == Gateway!Spec
=============================================================================
