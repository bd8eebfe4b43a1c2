---------------------------- MODULE MCModeration ----------------------------
(* Moderation with model values; listings and requests are interchangeable. *)
EXTENDS Moderation, TLC

MCSettings == SUBSET {"race", "fail", "patch"}
Symmetry == Permutations(Listings) \cup Permutations(Requests)
=============================================================================
