------------------------------ MODULE MCOffers ------------------------------
(* Offers on small sets, for TLC: three dates of four hours, the first and   *)
(* the last of which are the same day of the week.                          *)
EXTENDS Offers, TLC

MCWeekday == 0 :> "monday" @@ 1 :> "tuesday" @@ 2 :> "monday"

Gap  == 1 :> Rule("monday", 0, 1) @@ 2 :> Rule("monday", 2, 3) @@ 3 :> Rule("tuesday", 1, 3)
Abut == 1 :> Rule("monday", 0, 2) @@ 2 :> Rule("monday", 2, 3) @@ 3 :> None
MCWeeks == {Gap, Abut}

Ask(type, from, to) == [type |-> type, from |-> from, to |-> to]
MCFew == {Ask("half_day", 5, Null), Ask("day", 0, 0), Ask("multi_day", 0, 2)}

MCSettings ==
    {{"rules"}, {"dates"}, {"blocks"}, {"book"}, {"prices", "book"}, {"race", "prices", "book"},
     {"tags", "fail"}}
Symmetry == Permutations(Requests)
=============================================================================
