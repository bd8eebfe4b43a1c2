---------------------------- MODULE MCPayments ------------------------------
(* Payments on small sets, for TLC. *)
EXTENDS Payments, TLC

Symmetry == Permutations(Payments) \cup Permutations(Requests)
=============================================================================
