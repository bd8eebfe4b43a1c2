-------------------------------- MODULE Album --------------------------------
(***************************************************************************)
(* What the galleries of a listing promise its visitors, abstractly: a      *)
(* gallery is a row of photos.  A photo comes in at the end, goes away, and *)
(* otherwise stands where it stood among the others, until the gallery is   *)
(* arranged as its host has asked; the first of a row is its cover.  Module *)
(* Galleries implements this in the executions that keep positions apart.   *)
(***************************************************************************)
CONSTANTS
    Media,     \* photos and videos
    Places,    \* the galleries of the listing
    Nowhere    \* where a photo is that is not shown

VARIABLES
    place,     \* the gallery each photo is in, or Nowhere
    before,    \* the pairs of one gallery, the first of which stands before the second
    asked      \* the arrangements that were asked for and are not made yet

In(g) == {m \in Media : place[m] = g}

\* The ways to arrange S in a row.
Rankings(S) ==
    {o \in SUBSET (S \X S) :
       /\ \A m, n \in S : <<m, n>> \in o => <<n, m>> \notin o
       /\ \A m, n \in S : m = n \/ <<m, n>> \in o \/ <<n, m>> \in o
       /\ \A m, n, k \in S : <<m, n>> \in o /\ <<n, k>> \in o => <<m, k>> \in o}

Init ==
    /\ place  = [m \in Media |-> Nowhere]
    /\ before = {}
    /\ asked  = {}

Append(m, g) ==
    /\ place[m] = Nowhere
    /\ place'  = [place EXCEPT ![m] = g]
    /\ before' = before \cup (In(g) \X {m})
    /\ UNCHANGED asked

Remove(m) ==
    /\ place'  = [place EXCEPT ![m] = Nowhere]
    /\ before' = {x \in before : x[1] # m /\ x[2] # m}
    /\ UNCHANGED asked

\* The host names the photos of g in the order they shall have.
Ask(g) ==
    /\ \E o \in Rankings(In(g)) : asked' = asked \cup {[of |-> g, as |-> o]}
    /\ UNCHANGED <<place, before>>

\* An arrangement is made only if it names the whole gallery, and then exactly.
Arrange(x) ==
    /\ x.as \in Rankings(In(x.of))
    /\ before' = (before \ (In(x.of) \X In(x.of))) \cup x.as
    /\ asked'  = asked \ {x}
    /\ UNCHANGED place

Refuse(x) ==
    /\ asked' = asked \ {x}
    /\ UNCHANGED <<place, before>>

Next ==
    \/ \E m \in Media : Remove(m) \/ \E g \in Places : Append(m, g)
    \/ \E g \in Places : Ask(g)
    \/ \E x \in asked : Arrange(x) \/ Refuse(x)

Spec == Init /\ [][Next]_<<place, before, asked>>
=============================================================================
