------------------------------- MODULE Ledger --------------------------------
(***************************************************************************)
(* What the refunds of a payment promise, abstractly: each is held against  *)
(* the payment's amount before any money moves, is then paid back or        *)
(* dropped, once and for good, and whatever is held and paid together never *)
(* exceeds the amount.  What the payment claims of its refunds is never     *)
(* more than was paid.  Module Refunds implements this in the executions    *)
(* that lose no answer of the provider.                                     *)
(***************************************************************************)
EXTENDS Naturals, FiniteSets

CONSTANTS
    Refunds,    \* ids of refunds
    Amount      \* the payment's amount, in minor units

VARIABLES
    fate,       \* what became of each refund: none, held, paid, dropped
    amt,        \* the amount of each, 0 while there is none
    claim       \* the payment's status

With(fates) == {f \in Refunds : fate[f] \in fates}

\* The sum of the amounts of some refunds, counted unit by unit.
Sum(S)      == Cardinality({u \in S \X (1 .. Amount) : u[2] <= amt[u[1]]})

Init ==
    /\ fate  = [f \in Refunds |-> "none"]
    /\ amt   = [f \in Refunds |-> 0]
    /\ claim = "success"

Hold(f, a) ==
    /\ fate[f] = "none"
    /\ Sum(With({"held", "paid"})) + a <= Amount
    /\ fate' = [fate EXCEPT ![f] = "held"]
    /\ amt'  = [amt EXCEPT ![f] = a]
    /\ UNCHANGED claim

Pay(f) ==
    /\ fate[f] = "held"
    /\ fate' = [fate EXCEPT ![f] = "paid"]
    /\ UNCHANGED <<amt, claim>>

Drop(f) ==
    /\ fate[f] = "held"
    /\ fate' = [fate EXCEPT ![f] = "dropped"]
    /\ UNCHANGED <<amt, claim>>

\* The payment may lag behind its refunds, and never runs ahead of them.
Claim(status) ==
    /\ status = "partially_refunded" => Sum(With({"paid"})) > 0
    /\ status = "refunded" => Sum(With({"paid"})) >= Amount
    /\ claim' = status
    /\ UNCHANGED <<fate, amt>>

Next ==
    \/ \E f \in Refunds :
         \/ \E a \in 1 .. Amount : Hold(f, a)
         \/ Pay(f) \/ Drop(f)
    \/ \E status \in {"success", "partially_refunded", "refunded"} : Claim(status)

Spec == Init /\ [][Next]_<<fate, amt, claim>>
=============================================================================
