---------------------------- MODULE MCBookings ------------------------------
(* Bookings on small sets, for TLC: a short span and a long one that meets  *)
(* it.  A setting in which nothing happens is part of both others.          *)
EXTENDS Bookings, TLC

MCSpans    == {{1}, {1, 2}}
MCSettings == {{"fail"}, {"host"}}
Symmetry   == Permutations(Bookings) \cup Permutations(Requests)
=============================================================================
