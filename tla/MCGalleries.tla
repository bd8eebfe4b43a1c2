---------------------------- MODULE MCGalleries -----------------------------
(* Galleries on small sets, for TLC.  A setting in which less happens is    *)
(* part of one in which more does, so the largest ones that each property   *)
(* speaks of are enough.                                                    *)
EXTENDS Galleries, TLC

MCSettings ==
    {Words, {"race", "fail", "delete"}, {"race", "reorder"},
     {"fail", "delete", "reorder"}, {"stated", "delete", "reorder"}}
Symmetry == Permutations(Media) \cup Permutations(Requests) \cup Permutations(Sections)
=============================================================================
