----------------------------- MODULE Lifecycle ------------------------------
(***************************************************************************)
(* What the payment service promises of a booking's payment attempts: an    *)
(* attempt opens, and ends once, as paid or as dead; it is never paid       *)
(* without money; an attempt opens only when no other is open or paid.      *)
(* These are the words of payment.service.ts ("a payment never regresses    *)
(* out of one of these once reached") and of the two partial unique indexes *)
(* on public.payments, with the calls that keep them left out.              *)
(***************************************************************************)
CONSTANT Payments

VARIABLES
    stage,    \* each attempt: absent, open, paid or dead
    charged   \* attempts that have taken money

Stages == {"absent", "open", "paid", "dead"}

Init == stage = [p \in Payments |-> "absent"] /\ charged = {}

Open(p) ==
    /\ stage[p] = "absent"
    /\ \A q \in Payments : stage[q] \notin {"open", "paid"}
    /\ stage' = [stage EXCEPT ![p] = "open"]
    /\ UNCHANGED charged

Charge(p) ==
    /\ stage[p] # "absent" /\ p \notin charged
    /\ charged' = charged \cup {p}
    /\ UNCHANGED stage

Settle(p) ==
    /\ stage[p] = "open" /\ p \in charged
    /\ stage' = [stage EXCEPT ![p] = "paid"]
    /\ UNCHANGED charged

Close(p) ==
    /\ stage[p] = "open"
    /\ stage' = [stage EXCEPT ![p] = "dead"]
    /\ UNCHANGED charged

Next == \E p \in Payments : Open(p) \/ Charge(p) \/ Settle(p) \/ Close(p)

Spec == Init /\ [][Next]_<<stage, charged>>
=============================================================================
