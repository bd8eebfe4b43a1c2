------------------------------ MODULE Calendar ------------------------------
(***************************************************************************)
(* What the booking engine promises of one listing's calendar: a booking is *)
(* made in one step, of a free span, and from then on moves only along the  *)
(* few edges below, each in one step, decided on the status it has at that  *)
(* very moment.  Requests, checks and races are left out.                   *)
(***************************************************************************)
CONSTANTS Bookings, Spans

VARIABLES
    status,   \* each booking's status, "absent" before it is made
    span      \* the instants it reserves, {} before it is made

Reserving == {"requested", "confirmed"}

\* Where a booking may go from each status; the other statuses are final.
Moves == {<<"requested", "confirmed">>, <<"requested", "rejected">>,
          <<"requested", "cancelled">>, <<"confirmed", "completed">>,
          <<"confirmed", "cancelled">>}

Init ==
    /\ status = [b \in Bookings |-> "absent"]
    /\ span   = [b \in Bookings |-> {}]

Book(b, s, as) ==
    /\ status[b] = "absent"
    /\ \A c \in Bookings : status[c] \in Reserving => span[c] \cap s = {}
    /\ status' = [status EXCEPT ![b] = as]
    /\ span'   = [span EXCEPT ![b] = s]

Decide(b, to) ==
    /\ <<status[b], to>> \in Moves
    /\ status' = [status EXCEPT ![b] = to]
    /\ UNCHANGED span

Next ==
    \E b \in Bookings :
        \/ \E s \in Spans, as \in Reserving : Book(b, s, as)
        \/ \E to \in {"confirmed", "rejected", "cancelled", "completed"} : Decide(b, to)

Spec == Init /\ [][Next]_<<status, span>>
=============================================================================
