---------------------------- MODULE MCMessages ------------------------------
(* Messages on small sets, for TLC.                                         *)
EXTENDS Messages, TLC

MCSettings ==
    {{"race", "fail", "open"}, {"race", "read"}, {"race", "walk"},
     {"inbox", "two"}, {"fail", "read", "two"}}
Symmetry == Permutations(Bookers) \cup Permutations(Keys) \cup Permutations(Requests)
=============================================================================
