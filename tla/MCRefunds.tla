----------------------------- MODULE MCRefunds ------------------------------
(* Refunds on small sets, for TLC. *)
EXTENDS Refunds, TLC

\* Late payment webhooks need no other event, so every setting has them.
MCSettings == {s \cup {"late"} : s \in SUBSET {"race", "fail", "lose"}}
Symmetry == Permutations(Refunds) \cup Permutations(Handlers)
=============================================================================
