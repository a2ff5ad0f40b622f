---------------------------- MODULE PaymentGateway ----------------------------
(***************************************************************************)
(* What the provider promises (src/payment/payment.service.ts, authorize   *)
(* and getByIdempotencyKey): one charge for a key, whose outcome is final; *)
(* the same outcome in every answer for the key; a 504, "unknown", only    *)
(* when there is an outcome; "no charge" only while there is none.         *)
(***************************************************************************)
CONSTANT Keys

VARIABLES
    charge,    \* charge[k]: "none", or the outcome of the one charge made with k
    answers    \* the <<key, answer>> pairs that were ever given

gatewayVars == <<charge, answers>>

Init ==
    /\ charge = [k \in Keys |-> "none"]
    /\ answers = {}

Decide(k) ==
    /\ charge[k] = "none"
    /\ \E outcome \in {"succeeded", "declined"} : charge' = [charge EXCEPT ![k] = outcome]
    /\ UNCHANGED answers

Tell(k) ==
    /\ \/ answers' = answers \cup {<<k, charge[k]>>}
       \/ charge[k] # "none" /\ answers' = answers \cup {<<k, "unknown">>}
    /\ UNCHANGED charge

DecideAndTell(k) ==
    /\ charge[k] = "none"
    /\ \E outcome \in {"succeeded", "declined"} :
        /\ charge' = [charge EXCEPT ![k] = outcome]
        /\ \E answer \in {outcome, "unknown"} : answers' = answers \cup {<<k, answer>>}

Next == \E k \in Keys : Decide(k) \/ Tell(k) \/ DecideAndTell(k)

Spec == Init /\ [][Next]_gatewayVars
===============================================================================
