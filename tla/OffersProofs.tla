---------------------------- MODULE OffersProofs -----------------------------
(***************************************************************************)
(* What module Offers promises for every calendar, every set of rules,      *)
(* blocks and requests, and every price.                                    *)
(*                                                                          *)
(* The gate works on windows, maximal rows of open hours; what it promises  *)
(* is said of hours.  The two meet in WindowAround: hours in a row that are *)
(* open lie in one window, whose ends are found as the least hour after the *)
(* row and the greatest before it that are not open.  An interval within a  *)
(* date passes the gate then exactly if each of its hours is open and free, *)
(* and one over several dates exactly if each of its hours is free and its  *)
(* first and its last are open (GateIs), in any state whose rows are as the *)
(* tables keep them (TypeOK, Shape).                                        *)
(*                                                                          *)
(* What is booked rests on what a request has found out on its way (Known): *)
(* of that, the date an instant lies on and the rate and the half day it    *)
(* read stay so whatever a host changes meanwhile (Found), and so does that *)
(* the price of now is one its type had since it began (Lived); that what   *)
(* it read is the first or last hour left, on offer, and the price of now   *)
(* is the only one there was, while nothing interferes (Current).           *)
(*                                                                          *)
(* Every request ends, because each of its calls leaves it with fewer to    *)
(* make (CallsLeft): there are three tag tables to go through.              *)
(***************************************************************************)
EXTENDS Offers, FiniteSetTheorems, WellFoundedInduction, TLAPS

\* What the tables' checks keep true of every row, and the availability check of
\* every interval that passed it.
Shape ==
    /\ \A d \in Dates : ~override[d].none => OverrideFits(override[d])
    /\ \A id \in Blocks : ~block[id].none => block[id].from < block[id].to
    /\ \A b \in booked : b.from < b.to
    /\ \A r \in Requests : req[r].pc \in {"price", "insert"} => req[r].from < req[r].to
    /\ \A r \in Requests :
         req[r].pc \in {"resolve", "check", "price", "insert"} => req[r].ask \in Asks

-----------------------------------------------------------------------------
(* Dates and hours                                                          *)

LEMMA DatesDivide ==
    ASSUME NEW d \in Nat, NEW i \in Nat
    PROVE  /\ DayLength * d \in Nat
           /\ DateOf(i) = d <=> DayLength * d <= i /\ i < DayLength * d + DayLength
           /\ DateOf(i) = d => TimeOf(i) = i - DayLength * d
           /\ DateOf(i) \in Nat /\ TimeOf(i) \in Times
<1>1. DayLength \in Nat \ {0}
  BY CalendarAssumption
<1>2. DayLength * d \in Nat
  BY <1>1
<1>3. i = DayLength * (i \div DayLength) + (i % DayLength) /\ i % DayLength \in 0 .. DayLength - 1
      /\ i \div DayLength \in Nat
  BY <1>1
<1>4. ASSUME DayLength * d <= i, i < DayLength * d + DayLength PROVE i \div DayLength = d
  <2>1. PICK k \in 0 .. DayLength - 1 : i = DayLength * d + k
    BY <1>1, <1>2, <1>4
  <2>. QED
    BY <1>1, <2>1
<1>5. ASSUME i \div DayLength = d
      PROVE  DayLength * d <= i /\ i < DayLength * d + DayLength /\ i % DayLength = i - DayLength * d
  BY <1>1, <1>2, <1>3, <1>5
<1>. QED
  BY <1>2, <1>3, <1>4, <1>5 DEF DateOf, TimeOf, Times

LEMMA InstantsAre ==
    ASSUME NEW i \in Nat
    PROVE  i \in Instants <=> DateOf(i) \in Dates
<1>1. DayLength \in Nat \ {0} /\ LastDate \in Nat
  BY CalendarAssumption
<1>2. ASSUME i \in Instants PROVE DateOf(i) \in Dates
  <2>1. PICK d \in Dates, t \in Times : i = DayLength * d + t
    BY <1>2 DEF Instants
  <2>2. d \in Nat /\ DayLength * d \in Nat
    BY <1>1 DEF Dates
  <2>3. DateOf(i) = d
    BY <1>1, <2>1, <2>2, DatesDivide DEF Times
  <2>. QED
    BY <2>3
<1>3. ASSUME DateOf(i) \in Dates PROVE i \in Instants
  <2>1. PICK d \in Dates : d = DateOf(i)
    BY <1>3
  <2>2. d \in Nat
    BY <1>1 DEF Dates
  <2>3. i = DayLength * d + TimeOf(i) /\ TimeOf(i) \in Times
    BY <2>1, <2>2, DatesDivide DEF Times
  <2>. QED
    BY <2>3 DEF Instants
<1>. QED
  BY <1>2, <1>3

LEMMA InstantsAreNat == Instants \subseteq Nat
<1>1. SUFFICES ASSUME NEW d \in Dates, NEW t \in Times PROVE DayLength * d + t \in Nat
  BY DEF Instants
<1>. QED
  BY CalendarAssumption DEF Dates, Times

\* The instants of a date, in a row.
LEMMA DaysAre ==
    ASSUME NEW d \in Dates, NEW i \in Int
    PROVE  /\ DayLength * d \in Nat /\ DayLength * (d + 1) = DayLength * d + DayLength
           /\ i \in Instants /\ DateOf(i) = d <=> DayLength * d <= i /\ i < DayLength * d + DayLength
           /\ i \in Instants /\ DateOf(i) = d => TimeOf(i) = i - DayLength * d
<1>1. d \in Nat /\ DayLength \in Nat
  BY CalendarAssumption DEF Dates
<1>2. DayLength * d \in Nat /\ DayLength * (d + 1) = DayLength * d + DayLength
  BY <1>1
<1>3. CASE i \in Nat
  BY <1>1, <1>2, <1>3, DatesDivide, InstantsAre
<1>4. CASE i \notin Nat
  BY <1>2, <1>4, InstantsAreNat
<1>. QED
  BY <1>2, <1>3, <1>4

\* Later hours are on later dates, or the same.
LEMMA DatesAscend ==
    ASSUME NEW x \in Nat, NEW y \in Nat, x <= y
    PROVE  DateOf(x) <= DateOf(y)
<1>1. SUFFICES ASSUME DateOf(y) < DateOf(x) PROVE y < x
  BY DatesDivide
<1>2. PICK a \in Nat : a = DateOf(x)
  BY DatesDivide
<1>3. PICK b \in Nat : b = DateOf(y)
  BY DatesDivide
<1>4. DayLength * a <= x /\ y < DayLength * b + DayLength /\ DayLength * a \in Nat /\ DayLength * b \in Nat
  BY <1>2, <1>3, DatesDivide
<1>5. DayLength * (b + 1) <= DayLength * a /\ DayLength * (b + 1) = DayLength * b + DayLength
  BY <1>1, <1>2, <1>3, CalendarAssumption
<1>. QED
  BY <1>4, <1>5, CalendarAssumption

LEMMA Between ==
    ASSUME NEW f \in Instants, NEW t \in Instants, NEW i \in f .. t
    PROVE  i \in Nat /\ i \in Instants /\ DateOf(f) <= DateOf(i) /\ DateOf(i) <= DateOf(t)
<1>1. f \in Nat /\ t \in Nat /\ i \in Nat /\ f <= i /\ i <= t
  BY InstantsAreNat
<1>2. DateOf(t) \in Dates
  BY <1>1, InstantsAre
<1>3. DateOf(f) <= DateOf(i) /\ DateOf(i) <= DateOf(t) /\ DateOf(i) \in Nat
  BY <1>1, DatesAscend, DatesDivide
<1>4. DateOf(i) \in Dates
  <2>1. LastDate \in Nat /\ DateOf(t) <= LastDate /\ DateOf(t) \in Nat
    BY <1>2, CalendarAssumption DEF Dates
  <2>2. PICK a \in Nat : a = DateOf(i)
    BY <1>3
  <2>. QED
    BY <1>3, <2>1, <2>2 DEF Dates
<1>. QED
  BY <1>1, <1>3, <1>4, InstantsAre

-----------------------------------------------------------------------------
(* get_location_availability, by hours                                      *)

\* What is in the way of a stay.
Busy == BlockSpans \cup booked

LEMMA CoveredIs ==
    ASSUME NEW S, \A w \in S : w.from \in Int /\ w.to \in Int, NEW i \in Int
    PROVE  i \in Covered(S) <=> \E w \in S : w.from <= i /\ i < w.to
BY DEF Covered

LEMMA BusyIs ==
    ASSUME TypeOK, Shape
    PROVE  \A s \in Busy : s.from \in Int /\ s.to \in Int /\ s.from < s.to
<1>1. ASSUME NEW s \in BlockSpans PROVE s.from \in Int /\ s.to \in Int /\ s.from < s.to
  <2>1. PICK id \in Blocks : s = block[id] /\ ~block[id].none
    BY DEF BlockSpans
  <2>2. block[id] \in BlockWords
    BY <2>1 DEF TypeOK, None
  <2>3. PICK f \in Instants, t \in Instants : block[id] = Span(f, t)
    BY <2>2 DEF BlockWords
  <2>. QED
    BY <2>1, <2>3, InstantsAreNat DEF Span, Shape
<1>2. ASSUME NEW s \in booked PROVE s.from \in Int /\ s.to \in Int /\ s.from < s.to
  BY DEF TypeOK, Shape
<1>. QED
  BY <1>1, <1>2 DEF Busy

LEMMA RulesAre ==
    ASSUME TypeOK, NEW id \in Rules, ~rule[id].none
    PROVE  rule[id].from \in Times /\ rule[id].to \in Times
<1>1. rule[id] \in RuleWords
  BY DEF TypeOK, None
<1>. QED
  BY <1>1 DEF RuleWords, Rule

LEMMA OverridesAre ==
    ASSUME TypeOK, Shape, NEW d \in Dates, ~override[d].none, override[d].status = "available"
    PROVE  override[d].from \in Times /\ override[d].to \in Times
<1>1. override[d] \in OverrideWords /\ OverrideFits(override[d])
  BY DEF TypeOK, Shape, None
<1>. QED
  BY <1>1 DEF OverrideWords, Override, OverrideFits

\* The schedule of a date covers its open hours.
LEMMA ScheduledIs ==
    ASSUME TypeOK, Shape, NEW d \in Dates, NEW i \in Int
    PROVE  /\ \A w \in Scheduled(d) : w.from \in Int /\ w.to \in Int
           /\ i \in Covered(Scheduled(d)) <=> i \in Instants /\ DateOf(i) = d /\ OpenAt(i)
<1>. DEFINE on(w) == Span(DayLength * d + w.from, DayLength * d + w.to)
            R == {id \in Rules : ~rule[id].none /\ rule[id].day = Weekday[d]}
<1>1. DayLength * d \in Nat /\ DayLength \in Nat
  BY DaysAre, CalendarAssumption
<1>2. Times \subseteq 0 .. DayLength - 1
  BY DEF Times
<1>3. CASE override[d].none
  <2>1. Scheduled(d) = {on(rule[id]) : id \in R}
    BY <1>3 DEF Scheduled
  <2>2. \A id \in R : rule[id].from \in 0 .. DayLength - 1 /\ rule[id].to \in 0 .. DayLength - 1
    BY <1>2, RulesAre
  <2>3. \A w \in Scheduled(d) : w.from \in Int /\ w.to \in Int
    BY <1>1, <2>1, <2>2 DEF Span
  <2>4. i \in Covered(Scheduled(d)) <=>
          \E id \in R : DayLength * d + rule[id].from <= i /\ i < DayLength * d + rule[id].to
    <3>1. i \in Covered(Scheduled(d)) <=> \E w \in Scheduled(d) : w.from <= i /\ i < w.to
      BY <2>3, CoveredIs
    <3>2. \A id \in Rules : /\ on(rule[id]).from = DayLength * d + rule[id].from
                             /\ on(rule[id]).to = DayLength * d + rule[id].to
      BY DEF Span
    <3>3. \A w \in Scheduled(d) : \E id \in R : w = on(rule[id])
      BY <2>1
    <3>4. \A id \in R : on(rule[id]) \in Scheduled(d) /\ id \in Rules
      BY <2>1
    <3>. HIDE DEF on, R
    <3>. QED
      BY <3>1, <3>2, <3>3, <3>4
  <2>5. ASSUME i \in Instants, DateOf(i) = d
        PROVE  OpenAt(i) <=> \E id \in R : rule[id].from <= i - DayLength * d /\ i - DayLength * d < rule[id].to
    BY <1>3, <2>5, DaysAre DEF OpenAt
  <2>6. ASSUME NEW id \in R
        PROVE  /\ rule[id].from <= i - DayLength * d <=> DayLength * d + rule[id].from <= i
               /\ i - DayLength * d < rule[id].to <=> i < DayLength * d + rule[id].to
    BY <1>1, <2>2
  <2>7. (\E id \in R : DayLength * d + rule[id].from <= i /\ i < DayLength * d + rule[id].to)
          => i \in Instants /\ DateOf(i) = d
    BY <1>1, <2>2, DaysAre
  <2>. QED
    BY <2>3, <2>4, <2>5, <2>6, <2>7
<1>4. CASE ~override[d].none /\ override[d].status = "available"
  <2>1. Scheduled(d) = {on(override[d])}
    BY <1>4 DEF Scheduled
  <2>2. override[d].from \in 0 .. DayLength - 1 /\ override[d].to \in 0 .. DayLength - 1
    BY <1>2, <1>4, OverridesAre
  <2>3. \A w \in Scheduled(d) : w.from \in Int /\ w.to \in Int
    BY <1>1, <2>1, <2>2 DEF Span
  <2>4. i \in Covered(Scheduled(d)) <=>
          DayLength * d + override[d].from <= i /\ i < DayLength * d + override[d].to
    <3>1. i \in Covered(Scheduled(d)) <=> \E w \in Scheduled(d) : w.from <= i /\ i < w.to
      BY <2>3, CoveredIs
    <3>. QED
      BY <2>1, <3>1 DEF Span
  <2>5. ASSUME i \in Instants, DateOf(i) = d
        PROVE  OpenAt(i) <=> override[d].from <= i - DayLength * d /\ i - DayLength * d < override[d].to
    BY <1>4, <2>5, DaysAre DEF OpenAt
  <2>. QED
    BY <1>1, <2>2, <2>3, <2>4, <2>5, DaysAre
<1>5. CASE ~override[d].none /\ override[d].status # "available"
  <2>1. Scheduled(d) = {}
    BY <1>5 DEF Scheduled
  <2>2. ~OpenAt(i) \/ DateOf(i) # d
    BY <1>5 DEF OpenAt
  <2>. QED
    BY <2>1, <2>2, CoveredIs
<1>. QED
  BY <1>3, <1>4, <1>5

\* The multirange of a date is its hours that are open and free.
LEMMA OpenIs ==
    ASSUME TypeOK, Shape, NEW d \in Dates
    PROVE  /\ Open(d) \subseteq Instants
           /\ \A i \in Int : i \in Open(d) <=> i \in Instants /\ DateOf(i) = d /\ OpenAt(i) /\ FreeAt(i)
<1>1. ASSUME NEW i \in Int
      PROVE  i \in Open(d) <=> i \in Instants /\ DateOf(i) = d /\ OpenAt(i) /\ FreeAt(i)
  <2>1. i \in Covered(Scheduled(d)) <=> i \in Instants /\ DateOf(i) = d /\ OpenAt(i)
    BY ScheduledIs
  <2>2. i \in Covered(Taken(d)) <=> \E s \in Taken(d) : s.from <= i /\ i < s.to
    BY BusyIs, CoveredIs DEF Taken, Busy
  <2>3. ASSUME i \in Instants, DateOf(i) = d
        PROVE  i \in Covered(Taken(d)) <=> ~FreeAt(i)
    <3>1. DayLength * d \in Nat /\ DayLength * (d + 1) = DayLength * d + DayLength /\ DayLength \in Nat
          /\ DayLength * d <= i /\ i < DayLength * d + DayLength
      BY <2>3, DaysAre, CalendarAssumption
    <3>2. ASSUME NEW s \in Busy, s.from <= i, i < s.to PROVE s \in Taken(d)
      <4>1. s.from < DayLength * (d + 1) /\ DayLength * d < s.to
        BY <3>1, <3>2, BusyIs
      <4>. QED
        BY <4>1 DEF Taken, Overlap, Span, Busy
    <3>. QED
      BY <2>2, <3>2 DEF FreeAt, Taken, Busy
  <2>. QED
    BY <2>1, <2>3 DEF Open
<1>2. \A i \in Open(d) : i \in Int
  BY ScheduledIs DEF Open, Covered
<1>. QED
  BY <1>1, <1>2

-----------------------------------------------------------------------------
(* Windows                                                                  *)

\* Every set of numbers has a least one.
Less == {p \in Nat \X Nat : p[1] < p[2]}

LEMMA LeastNumber ==
    ASSUME NEW S \in SUBSET Nat, S # {}
    PROVE  \E m \in S : \A n \in S : m <= n
<1>1. IsWellFoundedOn(Less, Nat)
  BY NatLessThanWellFounded DEF OpToRel, Less
<1>2. PICK x \in S : \A y \in S : <<y, x>> \notin Less
  BY <1>1, WFMin
<1>3. ASSUME NEW y \in S PROVE x <= y
  <2>1. <<y, x>> \in Nat \X Nat /\ ~(y < x)
    BY <1>2 DEF Less
  <2>. QED
    BY <2>1
<1>. QED
  BY <1>3

LEMMA GreatestNumber ==
    ASSUME NEW S \in SUBSET Nat, S # {}, NEW n \in Nat, \A x \in S : x <= n
    PROVE  \E m \in S : \A x \in S : x <= m
<1>. DEFINE C == {c \in Nat : c <= n /\ n - c \in S}
<1>1. PICK c \in C : \A x \in C : c <= x
  <2>1. PICK x \in S : TRUE
    OBVIOUS
  <2>2. n - x \in Nat /\ n - (n - x) = x /\ n - x <= n
    BY <2>1
  <2>3. n - x \in C
    BY <2>1, <2>2
  <2>. QED
    BY <2>3, LeastNumber
<1>2. ASSUME NEW x \in S PROVE x <= n - c
  <2>1. n - x \in Nat /\ n - (n - x) = x /\ n - x <= n
    OBVIOUS
  <2>2. c <= n - x
    BY <1>1, <2>1
  <2>. QED
    BY <2>2
<1>. QED
  BY <1>2

LEMMA WindowsAreOpen ==
    ASSUME TypeOK, Shape, NEW d \in Dates, NEW w \in Windows(d)
    PROVE  /\ w.from \in Nat /\ w.to \in Nat /\ w.from < w.to
           /\ w.from .. w.to - 1 \subseteq Open(d)
<1>1. Open(d) \subseteq Nat
  BY OpenIs, InstantsAreNat
<1>2. PICK f \in Open(d), t \in Open(d) : w = Span(f, t + 1)
  BY DEF Windows
<1>. QED
  BY <1>1, <1>2 DEF Windows, Span

\* Open hours in a row lie in one window.
LEMMA WindowAround ==
    ASSUME TypeOK, Shape, NEW d \in Dates, NEW f \in Int, NEW t \in Int, f < t,
           f .. t - 1 \subseteq Open(d)
    PROVE  \E w \in Windows(d) : w.from <= f /\ t <= w.to
<1>. DEFINE end == DayLength * d + DayLength
            A == {a \in Nat : a <= f /\ a .. t - 1 \subseteq Open(d)}
            B == {b \in Nat : t + b <= end /\ f .. t + b - 1 \subseteq Open(d)}
<1>1. Open(d) \subseteq Nat /\ DayLength * d \in Nat /\ DayLength \in Nat
  BY OpenIs, InstantsAreNat, DaysAre, CalendarAssumption
<1>2. \A i \in Open(d) : i < end
  BY <1>1, OpenIs, DaysAre
<1>3. f \in Nat /\ t \in Nat /\ t - 1 < end /\ end \in Nat
  BY <1>1, <1>2
<1>. HIDE DEF end
<1>4. PICK a \in A : \A x \in A : a <= x
  <2>1. f \in A
    BY <1>3
  <2>. QED
    BY <2>1, LeastNumber
<1>5. PICK b \in B : \A x \in B : x <= b
  <2>1. 0 \in B
    BY <1>3
  <2>2. \A x \in B : x <= end
    BY <1>3
  <2>. QED
    BY <1>3, <2>1, <2>2, GreatestNumber
<1>6. a \in Nat /\ b \in Nat /\ a <= f /\ t + b <= end
  OBVIOUS
<1>7. a .. t + b - 1 \subseteq Open(d)
  <2>1. ASSUME NEW i \in a .. t + b - 1 PROVE i \in a .. t - 1 \/ i \in f .. t + b - 1
    BY <1>3, <1>6
  <2>. QED
    BY <2>1
<1>8. a - 1 \notin Open(d)
  <2>1. SUFFICES ASSUME a - 1 \in Open(d) PROVE FALSE
    OBVIOUS
  <2>2. \A i \in a - 1 .. t - 1 : i = a - 1 \/ i \in a .. t - 1
    BY <1>3, <1>6
  <2>3. a - 1 \in A
    BY <1>1, <1>6, <2>1, <2>2
  <2>. QED
    BY <1>4, <1>6, <2>3
<1>9. t + b \notin Open(d)
  <2>1. SUFFICES ASSUME t + b \in Open(d) PROVE FALSE
    OBVIOUS
  <2>2. \A i \in f .. t + (b + 1) - 1 : i = t + b \/ i \in f .. t + b - 1
    BY <1>3, <1>6
  <2>3. t + b < end
    BY <1>2, <2>1
  <2>4. b + 1 \in B
    BY <1>3, <1>6, <2>1, <2>2, <2>3
  <2>. QED
    BY <1>5, <1>6, <2>4
<1>10. a \in Open(d) /\ t + b - 1 \in Open(d) /\ a < t + b
  BY <1>3, <1>6, <1>7
<1>11. Span(a, (t + b - 1) + 1) = Span(a, t + b)
  BY <1>3, <1>6
<1>12. Span(a, t + b) \in {Span(x, y + 1) : x, y \in Open(d)}
  BY <1>10, <1>11
<1>13. Span(a, t + b) \in Windows(d)
  <2>1. Span(a, t + b).from = a /\ Span(a, t + b).to = t + b
    BY DEF Span
  <2>2. PICK w : w = Span(a, t + b)
    OBVIOUS
  <2>3. /\ w \in {Span(x, y + 1) : x, y \in Open(d)} /\ w.from < w.to
        /\ (w.from .. w.to - 1) \subseteq Open(d)
        /\ (w.from - 1) \notin Open(d) /\ w.to \notin Open(d)
    BY <1>7, <1>8, <1>9, <1>10, <1>12, <2>1, <2>2
  <2>4. w \in Windows(d)
    BY <2>3 DEF Windows
  <2>. QED
    BY <2>2, <2>4
<1>. QED
  BY <1>3, <1>6, <1>13 DEF Span

-----------------------------------------------------------------------------
(* is_interval_available                                                    *)

\* No window reaches midnight.
LEMMA LastHourIsClosed ==
    ASSUME TypeOK, Shape, NEW t \in Nat, t > 0, t - 1 \in Instants, OpenAt(t - 1)
    PROVE  DateOf(t) = DateOf(t - 1)
<1>1. PICK d \in Dates : d = DateOf(t - 1)
  BY InstantsAre
<1>2. DayLength * d \in Nat /\ DayLength \in Nat /\ d \in Nat
  BY DaysAre, CalendarAssumption DEF Dates
<1>3. DayLength * d <= t - 1 /\ TimeOf(t - 1) = t - 1 - DayLength * d
  BY <1>1, DaysAre
<1>4. t - 1 - DayLength * d < DayLength - 1
  <2>1. CASE override[d].none
    <3>1. PICK id \in Rules : ~rule[id].none /\ TimeOf(t - 1) < rule[id].to
      BY <1>1, <2>1 DEF OpenAt
    <3>2. rule[id].to \in 0 .. DayLength - 1
      BY <3>1, RulesAre DEF Times
    <3>. QED
      BY <1>2, <1>3, <3>1, <3>2
  <2>2. CASE ~override[d].none
    <3>1. override[d].status = "available" /\ TimeOf(t - 1) < override[d].to
      BY <1>1, <2>2 DEF OpenAt
    <3>2. override[d].to \in 0 .. DayLength - 1
      BY <2>2, <3>1, OverridesAre DEF Times
    <3>. QED
      BY <1>2, <1>3, <3>1, <3>2
  <2>. QED
    BY <2>1, <2>2
<1>5. DayLength * d <= t /\ t < DayLength * d + DayLength
  BY <1>2, <1>3, <1>4
<1>. QED
  BY <1>1, <1>2, <1>5, DatesDivide

\* Nothing conflicts with a stay if nothing is in the way of its hours.
LEMMA ConflictsAre ==
    ASSUME TypeOK, Shape, NEW f \in Int, NEW t \in Int, f < t
    PROVE  HasConflictingPeriod(f, t) <=> \E i \in f .. t - 1 : ~FreeAt(i)
<1>1. ASSUME NEW s \in Busy, s.from < t, f < s.to
      PROVE  \E i \in f .. t - 1 : ~FreeAt(i)
  <2>1. s.from \in Int /\ s.to \in Int /\ s.from < s.to
    BY BusyIs
  <2>2. PICK i \in f .. t - 1 : s.from <= i /\ i < s.to
    <3>1. CASE s.from <= f
      BY <1>1, <2>1, <3>1
    <3>2. CASE f < s.from
      BY <1>1, <2>1, <3>2
    <3>. QED
      BY <2>1, <3>1, <3>2
  <2>. QED
    BY <2>2 DEF FreeAt, Busy
<1>2. ASSUME NEW i \in f .. t - 1, NEW s \in Busy, s.from <= i, i < s.to
      PROVE  s.from < t /\ f < s.to
  BY <1>2, BusyIs
<1>. QED
  BY <1>1, <1>2 DEF HasConflictingPeriod, FreeAt, Overlap, Span, Busy

\* The gate, in every state whose rows are as the tables keep them.
LEMMA GateIs ==
    ASSUME TypeOK, Shape, NEW f \in Instants, NEW t \in Instants
    PROVE  IsIntervalAvailable(f, t) <=> f < t /\ OnOffer(f, t)
<1>1. f \in Nat /\ t \in Nat /\ DateOf(f) \in Dates /\ DateOf(t) \in Dates
  BY InstantsAreNat, InstantsAre
<1>2. SUFFICES ASSUME f < t PROVE IsIntervalAvailable(f, t) <=> OnOffer(f, t)
  BY DEF IsIntervalAvailable
<1>3. t - 1 \in Nat
  BY <1>1, <1>2
<1>4. ASSUME IsIntervalAvailable(f, t) PROVE OnOffer(f, t)
  <2>1. \A i \in f .. t - 1 : FreeAt(i)
    BY <1>1, <1>2, <1>4, ConflictsAre DEF IsIntervalAvailable
  <2>2. CASE /\ DateOf(f) = DateOf(t)
             /\ \E w \in Windows(DateOf(f)) : w.from <= f /\ t <= w.to
    <3>1. PICK w \in Windows(DateOf(f)) : w.from <= f /\ t <= w.to
      BY <2>2
    <3>2. w.from \in Nat /\ w.to \in Nat /\ w.from .. w.to - 1 \subseteq Open(DateOf(f))
      BY <1>1, WindowsAreOpen
    <3>3. \A i \in f .. t - 1 : i \in Open(DateOf(f))
      BY <1>1, <3>1, <3>2
    <3>4. \A i \in f .. t - 1 : OpenAt(i)
      BY <1>1, <3>3, OpenIs
    <3>. QED
      BY <1>1, <1>2, <2>1, <3>4 DEF OnOffer
  <2>3. CASE /\ DateOf(f) # DateOf(t)
             /\ \E w \in Windows(DateOf(f)) : w.from <= f /\ f < w.to
             /\ \E w \in Windows(DateOf(t)) : w.from < t /\ t <= w.to
    <3>1. PICK w \in Windows(DateOf(f)) : w.from <= f /\ f < w.to
      BY <2>3
    <3>2. PICK v \in Windows(DateOf(t)) : v.from < t /\ t <= v.to
      BY <2>3
    <3>3. f \in Open(DateOf(f))
      BY <1>1, <3>1, WindowsAreOpen
    <3>4. v.from \in Nat /\ v.to \in Nat /\ v.from .. v.to - 1 \subseteq Open(DateOf(t))
      BY <1>1, WindowsAreOpen
    <3>5. t - 1 \in Open(DateOf(t))
      BY <1>1, <3>2, <3>4
    <3>6. OpenAt(f) /\ OpenAt(t - 1) /\ DateOf(t - 1) = DateOf(t)
      BY <1>1, <1>3, <3>3, <3>5, OpenIs
    <3>. QED
      BY <2>1, <2>3, <3>6 DEF OnOffer
  <2>. QED
    BY <1>4, <2>2, <2>3 DEF IsIntervalAvailable
<1>5. ASSUME OnOffer(f, t) PROVE IsIntervalAvailable(f, t)
  <2>1. \A i \in f .. t - 1 : FreeAt(i)
    BY <1>5 DEF OnOffer
  <2>2. ~HasConflictingPeriod(f, t)
    BY <1>1, <1>2, <2>1, ConflictsAre
  <2>3. OpenAt(f) /\ OpenAt(t - 1)
    BY <1>5 DEF OnOffer
  <2>4. \A i \in f .. t - 1 : i \in Nat /\ i \in Instants /\ DateOf(f) <= DateOf(i) /\ DateOf(i) <= DateOf(t)
    BY <1>1, Between
  <2>5. DateOf(t) = DateOf(t - 1)
    BY <1>1, <1>2, <1>3, <2>3, <2>4, LastHourIsClosed
  <2>6. CASE DateOf(f) = DateOf(t)
    <3>1. \A i \in f .. t - 1 : DateOf(i) = DateOf(f)
      <4>1. ASSUME NEW i \in f .. t - 1 PROVE DateOf(i) = DateOf(f)
        <5>1. DateOf(f) \in Nat /\ DateOf(i) \in Nat
          BY <1>1, <2>4, DatesDivide
        <5>2. DateOf(f) <= DateOf(i) /\ DateOf(i) <= DateOf(f)
          BY <2>4, <2>6
        <5>. QED
          BY <5>1, <5>2
      <4>. QED
        BY <4>1
    <3>2. \A i \in f .. t - 1 : OpenAt(i)
      BY <1>5, <2>5, <2>6 DEF OnOffer
    <3>3. f .. t - 1 \subseteq Open(DateOf(f))
      BY <1>1, <2>1, <2>4, <3>1, <3>2, OpenIs
    <3>4. \E w \in Windows(DateOf(f)) : w.from <= f /\ t <= w.to
      BY <1>1, <1>2, <3>3, WindowAround
    <3>. QED
      BY <1>2, <2>2, <2>6, <3>4 DEF IsIntervalAvailable
  <2>7. CASE DateOf(f) # DateOf(t)
    <3>1. f \in f .. t - 1 /\ t - 1 \in f .. t - 1
      BY <1>1, <1>2
    <3>2. f \in Open(DateOf(f)) /\ t - 1 \in Open(DateOf(t))
      BY <1>1, <1>3, <2>1, <2>3, <2>4, <2>5, <3>1, OpenIs
    <3>3. \E w \in Windows(DateOf(f)) : w.from <= f /\ f < w.to
      <4>1. f .. (f + 1) - 1 \subseteq Open(DateOf(f)) /\ f < f + 1
        BY <1>1, <3>2
      <4>2. PICK w \in Windows(DateOf(f)) : w.from <= f /\ f + 1 <= w.to
        <5>. DEFINE end == f + 1
        <5>1. end \in Int /\ f < end /\ f .. end - 1 \subseteq Open(DateOf(f))
          BY <1>1, <4>1
        <5>. HIDE DEF end
        <5>2. \E w \in Windows(DateOf(f)) : w.from <= f /\ end <= w.to
          BY <1>1, <5>1, WindowAround
        <5>. QED
          BY <5>2 DEF end
      <4>. QED
        BY <1>1, <4>2, WindowsAreOpen
    <3>4. \E w \in Windows(DateOf(t)) : w.from < t /\ t <= w.to
      <4>1. t - 1 .. t - 1 \subseteq Open(DateOf(t)) /\ t - 1 < t
        BY <1>1, <3>2
      <4>2. PICK w \in Windows(DateOf(t)) : w.from <= t - 1 /\ t <= w.to
        BY <1>1, <1>3, <4>1, WindowAround
      <4>. QED
        BY <1>1, <4>2, WindowsAreOpen
    <3>. QED
      BY <1>1, <1>2, <2>2, <2>7, <3>3, <3>4 DEF IsIntervalAvailable
  <2>. QED
    BY <2>6, <2>7
<1>. QED
  BY <1>4, <1>5
-----------------------------------------------------------------------------
(* Steps                                                                    *)

\* Tags, when requests follow one another: what a request is about to insert
\* finds none of its kind.
Serial == "race" \notin may =>
    \A q, p \in Requests : req[q].pc # "idle" /\ req[p].pc # "idle" => q = p
Tagging ==
    /\ \A r \in Requests : req[r].pc \in {"untag", "tag"} => req[r].kind \in Kinds
    /\ "race" \notin may =>
         /\ \A k \in Kinds : tags[k] \in Choices \cup {{}}
         /\ \A r \in Requests : req[r].pc = "tag" => tags[req[r].kind] = {}

IInv == TypeOK /\ Shape /\ Serial /\ Tagging

LEMMA IdleType == Idle \in Requesting /\ Idle.pc = "idle"
BY DEF Idle, Requesting, Labels, Null

\* A step of one request.
LEMMA RequestSteps ==
    ASSUME req \in [Requests -> Requesting], Serial, UNCHANGED may,
           NEW r \in Requests, NEW s \in Requesting, Become(r, s),
           req[r].pc # "idle" \/ MayBegin(r)
    PROVE  /\ req' \in [Requests -> Requesting]
           /\ req'[r] = s /\ \A q \in Requests \ {r} : req'[q] = req[q]
           /\ Serial'
           /\ "race" \notin may => \A q \in Requests \ {r} : req[q].pc = "idle"
<1>1. /\ req' \in [Requests -> Requesting]
      /\ req'[r] = s /\ \A q \in Requests \ {r} : req'[q] = req[q]
  BY DEF Become
<1>2. "race" \notin may => \A q \in Requests \ {r} : req[q].pc = "idle"
  BY DEF Serial, MayBegin, Alone, At
<1>. QED
  BY <1>1, <1>2 DEF Serial

\* A step of a request that changes no table.
LEMMA PlainStep ==
    ASSUME IInv, UNCHANGED <<hours, price, booked, tags, may>>,
           NEW r \in Requests, NEW s \in Requesting, Become(r, s),
           req[r].pc # "idle" \/ MayBegin(r),
           s.pc \in {"price", "insert"} => s.from < s.to,
           s.pc \in {"resolve", "check", "price", "insert"} => s.ask \in Asks,
           s.pc \in {"untag", "tag"} => s.kind \in Kinds,
           s.pc # "tag"
    PROVE  IInv'
<1>1. /\ req' \in [Requests -> Requesting] /\ Serial'
      /\ req'[r] = s /\ \A q \in Requests \ {r} : req'[q] = req[q]
  BY RequestSteps DEF IInv, TypeOK
<1>2. TypeOK'
  BY <1>1 DEF IInv, TypeOK, hours
<1>3. Shape'
  BY <1>1 DEF IInv, Shape, hours
<1>4. Tagging'
  BY <1>1 DEF IInv, Tagging
<1>. QED
  BY <1>1, <1>2, <1>3, <1>4 DEF IInv

LEMMA OverridesKeep ==
    ASSUME IInv, NEW d \in Dates, NEW o \in OverrideWords \cup {None}, override' = [override EXCEPT ![d] = o],
           ~o.none => OverrideFits(o), UNCHANGED <<rule, block, price, booked, tags, req, may>>
    PROVE  IInv'
<1>1. TypeOK'
  BY DEF IInv, TypeOK
<1>2. Shape'
  BY DEF IInv, Shape, TypeOK
<1>. QED
  BY <1>1, <1>2 DEF IInv, Serial, Tagging

LEMMA NoneIs == None.none
BY DEF None

LEMMA PatchedType ==
    ASSUME NEW o \in OverrideWords, NEW p \in OverrideWords, NEW named
    PROVE  Patched(o, p, named) \in OverrideWords
<1>1. PICK s \in {"available", "unavailable"}, f \in Times \cup {Null}, t \in Times \cup {Null} :
        o = Override(s, f, t)
  BY DEF OverrideWords
<1>2. PICK s2 \in {"available", "unavailable"}, f2 \in Times \cup {Null}, t2 \in Times \cup {Null} :
        p = Override(s2, f2, t2)
  BY DEF OverrideWords
<1>3. o.status = s /\ o.from = f /\ o.to = t /\ p.status = s2 /\ p.from = f2 /\ p.to = t2
  BY <1>1, <1>2 DEF Override
<1>4. PICK s3 \in {"available", "unavailable"}, f3 \in Times \cup {Null}, t3 \in Times \cup {Null} :
        Patched(o, p, named) = Override(s3, f3, t3)
  BY <1>3 DEF Patched
<1>. QED
  BY <1>4 DEF OverrideWords

LEMMA BlocksKeep ==
    ASSUME IInv, NEW id \in Blocks, NEW b \in BlockWords \cup {None},
           block' = [block EXCEPT ![id] = b],
           ~b.none => b.from < b.to, UNCHANGED <<rule, override, price, booked, tags, req, may>>
    PROVE  IInv'
<1>1. TypeOK'
  BY DEF IInv, TypeOK
<1>2. Shape'
  BY DEF IInv, Shape, TypeOK
<1>. QED
  BY <1>1, <1>2 DEF IInv, Serial, Tagging

LEMMA EndBookingKeeps ==
    ASSUME IInv, NEW b, EndBooking(b)
    PROVE  IInv'
<1>1. booked' \subseteq booked /\ UNCHANGED <<rule, override, block, price, tags, req, may>>
  BY DEF EndBooking, hours
<1>2. TypeOK'
  BY <1>1 DEF IInv, TypeOK
<1>. QED
  BY <1>1, <1>2 DEF IInv, Shape, Serial, Tagging

\* What a request asks, by type.
LEMMA AsksAre ==
    ASSUME NEW ask \in Asks
    PROVE  /\ ask.type \in Types
           /\ ask.type = "hourly" => ask.from \in Instants /\ ask.to \in Instants
           /\ ask.type = "half_day" => ask.from \in Instants
           /\ ask.type = "day" => ask.from \in Dates /\ ask.to = ask.from
           /\ ask.type = "multi_day" => ask.from \in Dates /\ ask.to \in Dates
BY DEF Asks, Types

\* The ends of a date.
LEMMA EndsAre ==
    ASSUME TypeOK, Shape, NEW d \in Dates, Windows(d) # {}
    PROVE  /\ Earliest(d) \in Nat /\ Latest(d) \in Nat
           /\ Earliest(d) \in Open(d) /\ Latest(d) - 1 \in Open(d)
           /\ \A i \in Open(d) : Earliest(d) <= i /\ i < Latest(d)
<1>. DEFINE F == {w.from : w \in Windows(d)}
            T == {w.to : w \in Windows(d)}
            end == DayLength * d + DayLength
<1>1. end \in Nat
  BY DaysAre, CalendarAssumption
<1>2. \A w \in Windows(d) : w.from \in Nat /\ w.to \in Nat /\ w.from < w.to
                            /\ w.from .. w.to - 1 \subseteq Open(d)
  BY WindowsAreOpen
<1>3. \A i \in Open(d) : i \in Nat /\ i < end
  <2>1. ASSUME NEW i \in Open(d) PROVE i \in Nat /\ i < end
    <3>1. i \in Nat /\ i \in Instants
      BY OpenIs, InstantsAreNat
    <3>2. DateOf(i) = d
      BY <3>1, OpenIs
    <3>. QED
      BY <3>1, <3>2, DaysAre
  <2>. QED
    BY <2>1
<1>4. \A w \in Windows(d) : w.to <= end
  <2>1. ASSUME NEW w \in Windows(d) PROVE w.to <= end
    <3>1. w.to - 1 \in Open(d) /\ w.to \in Nat
      BY <1>2
    <3>. QED
      BY <1>1, <1>3, <3>1
  <2>. QED
    BY <2>1
<1>5. F \in SUBSET Nat /\ F # {} /\ T \in SUBSET Nat /\ T # {} /\ \A x \in T : x <= end
  BY <1>2, <1>4
<1>6. Earliest(d) \in F /\ \A w \in Windows(d) : Earliest(d) <= w.from
  <2>1. \E f \in F : \A w \in Windows(d) : f <= w.from
    <3>1. PICK f \in F : \A x \in F : f <= x
      BY <1>5, LeastNumber
    <3>. QED
      BY <3>1
  <2>. QED
    BY <2>1 DEF Earliest
<1>7. Latest(d) \in T /\ \A w \in Windows(d) : w.to <= Latest(d)
  <2>1. \E t \in T : \A w \in Windows(d) : w.to <= t
    <3>. HIDE DEF end, T
    <3>1. PICK t \in T : \A x \in T : x <= t
      BY <1>1, <1>5, GreatestNumber
    <3>. QED
      BY <3>1 DEF T
  <2>. QED
    BY <2>1 DEF Latest
<1>8. PICK v \in Windows(d) : Earliest(d) = v.from
  BY <1>6
<1>9. PICK w \in Windows(d) : Latest(d) = w.to
  BY <1>7
<1>10. Earliest(d) \in Open(d) /\ Latest(d) - 1 \in Open(d)
  BY <1>2, <1>8, <1>9
<1>11. ASSUME NEW i \in Open(d) PROVE Earliest(d) <= i /\ i < Latest(d)
  <2>1. i \in Int /\ i + 1 \in Int /\ i < i + 1 /\ \A j \in i .. (i + 1) - 1 : j = i
    BY <1>3
  <2>2. i .. (i + 1) - 1 \subseteq Open(d)
    BY <2>1
  <2>3. PICK u \in Windows(d) : u.from <= i /\ i + 1 <= u.to
    <3>. DEFINE e == i + 1
    <3>1. e \in Int /\ i < e /\ i .. e - 1 \subseteq Open(d)
      BY <2>1, <2>2
    <3>. HIDE DEF e
    <3>2. \E u \in Windows(d) : u.from <= i /\ e <= u.to
      BY <2>1, <3>1, WindowAround
    <3>. QED
      BY <3>2 DEF e
  <2>4. Earliest(d) <= u.from /\ u.to <= Latest(d) /\ u.from \in Nat /\ u.to \in Nat
    BY <1>2, <1>6, <1>7
  <2>5. Earliest(d) \in Nat /\ Latest(d) \in Nat /\ i \in Nat
    BY <1>2, <1>3, <1>8, <1>9
  <2>. QED
    BY <2>3, <2>4, <2>5
<1>. QED
  BY <1>2, <1>8, <1>9, <1>10, <1>11


\* A price of now is a price.
LEMMA InForceIs ==
    ASSUME TypeOK, NEW type \in Types
    PROVE  InForce(price[type]) \in SUBSET PriceWords
<1>1. price[type] \in PriceWords \cup {None}
  BY DEF TypeOK
<1>. QED
  BY <1>1, NoneIs DEF InForce

\* Requests remember a new price, and nothing else of them changes.
LEMMA RememberedIs ==
    ASSUME TypeOK, NEW type, NEW p \in PriceWords, Remembered(type, p)
    PROVE  /\ req' \in [Requests -> Requesting]
           /\ \A q \in Requests :
                /\ req'[q].pc = req[q].pc /\ req'[q].ask = req[q].ask
                /\ req'[q].from = req[q].from /\ req'[q].to = req[q].to
                /\ req'[q].total = req[q].total /\ req'[q].todo = req[q].todo
                /\ req'[q].kind = req[q].kind
                /\ req[q].had \subseteq req'[q].had
                /\ req[q].ask.type = type => InForce(p) \subseteq req'[q].had
<1>1. req' = [q \in Requests |-> IF req[q].ask.type = type
                                 THEN [req[q] EXCEPT !.had = @ \cup InForce(p)] ELSE req[q]]
  BY DEF Remembered
<1>2. InForce(p) \subseteq PriceWords
  BY DEF InForce
<1>3. ASSUME NEW q \in Requests
      PROVE  /\ req'[q] \in Requesting
             /\ req'[q].pc = req[q].pc /\ req'[q].ask = req[q].ask
             /\ req'[q].from = req[q].from /\ req'[q].to = req[q].to
             /\ req'[q].total = req[q].total /\ req'[q].todo = req[q].todo
             /\ req'[q].kind = req[q].kind
             /\ req[q].had \subseteq req'[q].had
             /\ req[q].ask.type = type => InForce(p) \subseteq req'[q].had
  <2>1. req[q] \in Requesting
    BY DEF TypeOK
  <2>2. CASE req[q].ask.type = type
    <3>1. PICK H \in SUBSET PriceWords : H = req[q].had \cup InForce(p)
      BY <1>2, <2>1 DEF Requesting
    <3>2. req'[q] = [req[q] EXCEPT !.had = H]
      BY <1>1, <2>2, <3>1
    <3>. QED
      BY <2>1, <3>1, <3>2 DEF Requesting
  <2>3. CASE req[q].ask.type # type
    BY <1>1, <2>1, <2>3
  <2>. QED
    BY <2>2, <2>3
<1>. QED
  BY <1>1, <1>3

\* A host's write of a price.
LEMMA PricesKeep ==
    ASSUME IInv, NEW type \in Moving, NEW p \in PriceWords, price' = [price EXCEPT ![type] = p],
           Remembered(type, p), UNCHANGED <<hours, booked, tags, may>>
    PROVE  IInv'
<1>1. /\ req' \in [Requests -> Requesting]
      /\ \A q \in Requests :
           /\ req'[q].pc = req[q].pc /\ req'[q].ask = req[q].ask
           /\ req'[q].from = req[q].from /\ req'[q].to = req[q].to
           /\ req'[q].kind = req[q].kind
  BY RememberedIs DEF IInv
<1>2. price' \in [Types -> PriceWords \cup {None}]
  BY MovingAssumption DEF IInv, TypeOK
<1>3. TypeOK'
  BY <1>1, <1>2 DEF IInv, TypeOK, hours
<1>4. Shape'
  BY <1>1 DEF IInv, Shape, hours
<1>5. Serial'
  BY <1>1 DEF IInv, Serial
<1>6. Tagging'
  BY <1>1 DEF IInv, Tagging
<1>. QED
  BY <1>3, <1>4, <1>5, <1>6 DEF IInv

LEMMA BookBeginKeeps ==
    ASSUME IInv, NEW r \in Requests, NEW ask \in Asks, BookBegin(r, ask)
    PROVE  IInv'
<1>1. PICK H \in SUBSET PriceWords : H = InForce(price[ask.type])
  BY InForceIs, AsksAre DEF IInv
<1>2. PICK s : s = [Idle EXCEPT !.pc = "resolve", !.ask = ask, !.had = H]
  OBVIOUS
<1>3. s \in Requesting /\ s.pc = "resolve" /\ s.ask = ask
  BY <1>2, IdleType DEF Requesting, Labels
<1>4. Become(r, s) /\ MayBegin(r) /\ UNCHANGED <<hours, price, booked, tags, may>>
  BY <1>1, <1>2 DEF BookBegin
<1>. QED
  BY <1>3, <1>4, PlainStep

LEMMA ResolveKeeps ==
    ASSUME IInv, NEW r \in Requests, ResolveTimes(r) \/ ResolveDay(r) \/ ResolveDays(r)
    PROVE  IInv'
<1>1. req[r] \in Requesting /\ req[r].pc = "resolve" /\ UNCHANGED <<hours, price, booked, tags, may>>
  BY DEF IInv, TypeOK, ResolveTimes, ResolveDay, ResolveDays, At
<1>2. req[r].ask \in Asks
  BY <1>1 DEF IInv, Shape
<1>3. PICK s \in Requesting : Become(r, s) /\ s.pc \in {"resolve", "check"} /\ s.ask = req[r].ask
  <2>1. CASE ResolveTimes(r)
    <3>1. req[r].ask \in Asks
      BY <1>2
    <3>2. CASE req[r].ask.type = "hourly"
      <4>1. req[r].ask.from \in Int /\ req[r].ask.to \in Int
        <5>1. req[r].ask.from \in Instants /\ req[r].ask.to \in Instants
          BY <3>1, <3>2, AsksAre
        <5>2. PICK f \in Instants, t \in Instants : f = req[r].ask.from /\ t = req[r].ask.to
          BY <5>1
        <5>3. f \in Int /\ t \in Int
          BY InstantsAreNat
        <5>. QED
          BY <5>2, <5>3
      <4>2. PICK s : s = [req[r] EXCEPT !.pc = "check", !.from = req[r].ask.from, !.to = req[r].ask.to]
        OBVIOUS
      <4>3. s \in Requesting /\ s.pc = "check" /\ s.ask = req[r].ask
        BY <1>1, <4>1, <4>2 DEF Requesting, Labels
      <4>4. Become(r, s)
        BY <2>1, <3>2, <4>2 DEF ResolveTimes
      <4>. QED
        BY <4>3, <4>4
    <3>3. CASE req[r].ask.type = "half_day"
      <4>1. req[r].ask.from \in Int
        <5>1. req[r].ask.from \in Instants
          BY <3>1, <3>3, AsksAre
        <5>2. PICK f \in Instants : f = req[r].ask.from
          BY <5>1
        <5>3. f \in Int
          BY InstantsAreNat
        <5>. QED
          BY <5>2, <5>3
      <4>2. price["half_day"] \in PriceWords
        BY <2>1, <3>3 DEF ResolveTimes, Offers, IInv, TypeOK, Types, None
      <4>3. price["half_day"].hours \in Int
        BY <4>2, NumbersAssumption DEF PriceWords, Price, Null
      <4>4. PICK e \in Int : e = req[r].ask.from + price["half_day"].hours
        BY <4>1, <4>3
      <4>5. PICK s : s = [req[r] EXCEPT !.pc = "check", !.from = req[r].ask.from, !.to = e]
        OBVIOUS
      <4>6. s \in Requesting /\ s.pc = "check" /\ s.ask = req[r].ask
        BY <1>1, <4>1, <4>5 DEF Requesting, Labels
      <4>7. Become(r, s)
        BY <2>1, <3>3, <4>4, <4>5 DEF ResolveTimes
      <4>. QED
        BY <4>6, <4>7
    <3>. QED
      BY <2>1, <3>2, <3>3 DEF ResolveTimes
  <2>2. CASE ResolveDay(r)
    <3>1. req[r].ask.from \in Dates
      BY <1>2, <2>2, AsksAre DEF ResolveDay, Types
    <3>2. Earliest(req[r].ask.from) \in Int /\ Latest(req[r].ask.from) \in Int
      BY <2>2, <3>1, EndsAre DEF ResolveDay, IInv
    <3>3. PICK f \in Int, t \in Int : f = Earliest(req[r].ask.from) /\ t = Latest(req[r].ask.from)
      BY <3>2
    <3>4. PICK s : s = [req[r] EXCEPT !.pc = "check", !.from = f, !.to = t]
      OBVIOUS
    <3>5. s \in Requesting /\ s.pc = "check" /\ s.ask = req[r].ask
      BY <1>1, <3>4 DEF Requesting, Labels
    <3>6. Become(r, s)
      BY <2>2, <3>3, <3>4 DEF ResolveDay
    <3>. QED
      BY <3>5, <3>6
  <2>3. CASE ResolveDays(r)
    <3>1. req[r].ask.from \in Dates /\ req[r].ask.to \in Dates
      BY <1>2, <2>3, AsksAre DEF ResolveDays, Types
    <3>2. CASE /\ Windows(req[r].ask.from) # {}
               /\ Become(r, [req[r] EXCEPT !.from = Earliest(req[r].ask.from),
                                           !.pc = IF req[r].to # Null THEN "check" ELSE @])
      <4>1. Earliest(req[r].ask.from) \in Int
        BY <3>1, <3>2, EndsAre DEF IInv
      <4>2. PICK l \in {"resolve", "check"} : l = IF req[r].to # Null THEN "check" ELSE req[r].pc
        BY <1>1
      <4>3. PICK e \in Int : e = Earliest(req[r].ask.from)
        BY <4>1
      <4>4. PICK s : s = [req[r] EXCEPT !.from = e, !.pc = l]
        OBVIOUS
      <4>5. s \in Requesting /\ s.pc \in {"resolve", "check"} /\ s.ask = req[r].ask
        BY <1>1, <4>2, <4>4 DEF Requesting, Labels
      <4>6. Become(r, s)
        BY <3>2, <4>2, <4>3, <4>4
      <4>. QED
        BY <4>5, <4>6
    <3>3. CASE /\ Windows(req[r].ask.to) # {}
               /\ Become(r, [req[r] EXCEPT !.to = Latest(req[r].ask.to),
                                           !.pc = IF req[r].from # Null THEN "check" ELSE @])
      <4>1. Latest(req[r].ask.to) \in Int
        BY <3>1, <3>3, EndsAre DEF IInv
      <4>2. PICK l \in {"resolve", "check"} : l = IF req[r].from # Null THEN "check" ELSE req[r].pc
        BY <1>1
      <4>3. PICK e \in Int : e = Latest(req[r].ask.to)
        BY <4>1
      <4>4. PICK s : s = [req[r] EXCEPT !.to = e, !.pc = l]
        OBVIOUS
      <4>5. s \in Requesting /\ s.pc \in {"resolve", "check"} /\ s.ask = req[r].ask
        BY <1>1, <4>2, <4>4 DEF Requesting, Labels
      <4>6. Become(r, s)
        BY <3>3, <4>2, <4>3, <4>4
      <4>. QED
        BY <4>5, <4>6
    <3>. QED
      BY <2>3, <3>2, <3>3 DEF ResolveDays
  <2>. QED
    BY <2>1, <2>2, <2>3
<1>. QED
  BY <1>1, <1>2, <1>3, PlainStep

LEMMA CheckIntervalKeeps ==
    ASSUME IInv, NEW r \in Requests, CheckInterval(r)
    PROVE  IInv'
<1>1. req[r] \in Requesting /\ req[r].pc = "check" /\ UNCHANGED <<hours, price, booked, tags, may>>
      /\ req[r].from < req[r].to
  BY DEF IInv, TypeOK, CheckInterval, At, IsIntervalAvailable
<1>2. PICK s : s = [req[r] EXCEPT !.pc = "price"]
  OBVIOUS
<1>3. s \in Requesting /\ s.pc = "price" /\ s.from = req[r].from /\ s.to = req[r].to
      /\ s.ask = req[r].ask
  BY <1>1, <1>2 DEF Requesting, Labels
<1>4. Become(r, s)
  BY <1>2 DEF CheckInterval
<1>5. req[r].ask \in Asks
  BY <1>1 DEF IInv, Shape
<1>. QED
  BY <1>1, <1>3, <1>4, <1>5, PlainStep

\* Prices are whole numbers.
LEMMA TotalIs ==
    ASSUME TypeOK, NEW type \in Types, Offers(type), NEW f \in Int, NEW t \in Int
    PROVE  /\ price[type].amount \in Amounts /\ price[type].amount \in Nat
           /\ Total(type, f, t) \in Int
<1>1. price[type] \in PriceWords
  BY DEF Offers, TypeOK, None
<1>2. price[type].amount \in Amounts /\ price[type].amount \in Nat
  BY <1>1, NumbersAssumption DEF PriceWords, Price
<1>3. PICK a \in Nat : a = price[type].amount
  BY <1>2
<1>4. DateOf(f) \in Int /\ DateOf(t) \in Int
  BY CalendarAssumption DEF DateOf
<1>5. CountDays(f, t) \in Int /\ t - f \in Int
  BY <1>4 DEF CountDays
<1>6. a * CountDays(f, t) \in Int /\ a * (t - f) \in Int
  BY <1>5
<1>. QED
  BY <1>2, <1>3, <1>6 DEF Total, Types

LEMMA ReadPriceKeeps ==
    ASSUME IInv, NEW r \in Requests, ReadPrice(r)
    PROVE  IInv'
<1>1. req[r] \in Requesting /\ req[r].pc = "price" /\ UNCHANGED <<hours, price, booked, tags, may>>
      /\ req[r].from < req[r].to
  BY DEF IInv, TypeOK, Shape, ReadPrice, At
<1>2. req[r].ask.type \in Types /\ req[r].from \in Int /\ req[r].to \in Int
  <2>1. req[r].ask \in Asks
    BY <1>1 DEF IInv, Shape
  <2>. QED
    BY <1>1, <2>1, AsksAre DEF Requesting
<1>3. PICK n \in Int : n = Total(req[r].ask.type, req[r].from, req[r].to)
  BY <1>2, TotalIs DEF ReadPrice, IInv
<1>4. PICK s : s = [req[r] EXCEPT !.pc = "insert", !.total = n]
  OBVIOUS
<1>5. s \in Requesting /\ s.pc = "insert" /\ s.from = req[r].from /\ s.to = req[r].to
      /\ s.ask = req[r].ask
  BY <1>1, <1>4 DEF Requesting, Labels
<1>6. Become(r, s)
  BY <1>3, <1>4 DEF ReadPrice
<1>7. req[r].ask \in Asks
  BY <1>1 DEF IInv, Shape
<1>. QED
  BY <1>1, <1>5, <1>6, <1>7, PlainStep

LEMMA InsertBookingKeeps ==
    ASSUME IInv, NEW r \in Requests, InsertBooking(r)
    PROVE  IInv'
<1>1. req[r] \in Requesting /\ req[r].pc = "insert" /\ UNCHANGED <<hours, price, tags, may>>
      /\ req[r].from < req[r].to /\ req[r].ask \in Asks
  BY DEF IInv, TypeOK, Shape, InsertBooking, At
<1>2. Become(r, Idle)
  BY DEF InsertBooking, Done
<1>3. /\ req' \in [Requests -> Requesting] /\ Serial'
      /\ req'[r] = Idle /\ \A q \in Requests \ {r} : req'[q] = req[q]
  BY <1>1, <1>2, IdleType, RequestSteps DEF IInv, TypeOK
<1>4. PICK b : b = Booking(req[r].ask.type, req[r].from, req[r].to, req[r].total)
  OBVIOUS
<1>5. b \in [type : Types, from : Int, to : Int, total : Int] /\ b.from < b.to
  BY <1>1, <1>4, AsksAre DEF Booking, Requesting
<1>6. booked' = booked \/ booked' = booked \cup {b}
  BY <1>4 DEF InsertBooking
<1>7. TypeOK'
  BY <1>1, <1>3, <1>5, <1>6 DEF IInv, TypeOK, hours
<1>8. Shape'
  BY <1>1, <1>3, <1>5, <1>6, IdleType DEF IInv, Shape, hours
<1>9. Tagging'
  BY <1>1, <1>3, IdleType DEF IInv, Tagging
<1>. QED
  BY <1>3, <1>7, <1>8, <1>9 DEF IInv

LEMMA RefuseKeeps ==
    ASSUME IInv, NEW r \in Requests, Refuse(r)
    PROVE  IInv'
<1>1. Become(r, Idle) /\ UNCHANGED <<hours, price, booked, tags, may>>
  BY DEF Refuse, Done
<1>2. req[r].pc # "idle"
  BY DEF Refuse, At
<1>. QED
  BY <1>1, <1>2, IdleType, PlainStep

LEMMA PatchBeginKeeps ==
    ASSUME IInv, NEW r \in Requests, NEW kinds \in SUBSET Kinds, NEW choice,
           choice \in Choices \cup {c \cup {Bad} : c \in Choices}, PatchBegin(r, kinds, choice)
    PROVE  IInv'
<1>1. PICK k \in kinds : Become(r, [Idle EXCEPT !.pc = "untag", !.kind = k, !.todo = kinds \ {k},
                                               !.choice = choice])
  BY DEF PatchBegin
<1>2. PICK s : s = [Idle EXCEPT !.pc = "untag", !.kind = k, !.todo = kinds \ {k}, !.choice = choice]
  OBVIOUS
<1>3. s \in Requesting /\ s.pc = "untag" /\ s.kind \in Kinds
  BY <1>2, IdleType DEF Requesting, Labels
<1>4. Become(r, s) /\ MayBegin(r) /\ UNCHANGED <<hours, price, booked, tags, may>>
  BY <1>1, <1>2 DEF PatchBegin
<1>. QED
  BY <1>3, <1>4, PlainStep

\* The next kind is one that was named.
LEMMA NextKindIs ==
    ASSUME IInv, NEW r \in Requests, NextKind(r)
    PROVE  \E s \in Requesting : /\ Become(r, s) /\ s.pc \in {"idle", "untag"}
                                 /\ s.pc = "untag" => s.kind \in Kinds
<1>1. CASE req[r].todo = {} /\ Done(r)
  BY <1>1, IdleType DEF Done
<1>2. CASE \E k \in req[r].todo :
             Become(r, [req[r] EXCEPT !.pc = "untag", !.kind = k, !.todo = @ \ {k}])
  <2>1. PICK k \in req[r].todo :
          Become(r, [req[r] EXCEPT !.pc = "untag", !.kind = k, !.todo = @ \ {k}])
    BY <1>2
  <2>2. req[r] \in Requesting
    BY DEF IInv, TypeOK
  <2>3. PICK s : s = [req[r] EXCEPT !.pc = "untag", !.kind = k, !.todo = @ \ {k}]
    OBVIOUS
  <2>4. s \in Requesting /\ s.pc = "untag" /\ s.kind \in Kinds
    BY <2>2, <2>3 DEF Requesting, Labels
  <2>. QED
    BY <2>1, <2>3, <2>4
<1>. QED
  BY <1>1, <1>2 DEF NextKind

LEMMA DeleteTagsKeeps ==
    ASSUME IInv, NEW r \in Requests, DeleteTags(r)
    PROVE  IInv'
<1>1. req[r] \in Requesting /\ req[r].pc = "untag" /\ UNCHANGED <<hours, price, booked, may>>
      /\ req[r].kind \in Kinds /\ tags' = [tags EXCEPT ![req[r].kind] = {}]
  BY DEF IInv, TypeOK, Tagging, DeleteTags, At
<1>2. PICK s \in Requesting : /\ Become(r, s) /\ s.pc \in {"idle", "untag", "tag"}
                              /\ s.pc \in {"untag", "tag"} => s.kind \in Kinds
                              /\ s.pc = "tag" => s.kind = req[r].kind
  <2>1. CASE req[r].choice = {}
    BY <2>1, NextKindIs DEF DeleteTags
  <2>2. CASE req[r].choice # {}
    <3>1. PICK s : s = [req[r] EXCEPT !.pc = "tag"]
      OBVIOUS
    <3>2. s \in Requesting /\ s.pc = "tag" /\ s.kind = req[r].kind
      BY <1>1, <3>1 DEF Requesting, Labels
    <3>3. Become(r, s)
      BY <2>2, <3>1 DEF DeleteTags
    <3>. QED
      BY <1>1, <3>2, <3>3
  <2>. QED
    BY <2>1, <2>2
<1>3. /\ req' \in [Requests -> Requesting] /\ Serial'
      /\ req'[r] = s /\ \A q \in Requests \ {r} : req'[q] = req[q]
      /\ "race" \notin may => \A q \in Requests \ {r} : req[q].pc = "idle"
  BY <1>1, <1>2, RequestSteps DEF IInv, TypeOK
<1>4. tags \in [Kinds -> SUBSET UNION Choices]
  BY DEF IInv, TypeOK
<1>5. TypeOK'
  BY <1>1, <1>3, <1>4 DEF IInv, TypeOK, hours
<1>6. Shape'
  BY <1>1, <1>2, <1>3 DEF IInv, Shape, hours
<1>7. Tagging'
  <2>1. \A q \in Requests : req'[q].pc \in {"untag", "tag"} => req'[q].kind \in Kinds
    BY <1>2, <1>3 DEF IInv, Tagging
  <2>2. "race" \notin may => \A k \in Kinds : tags'[k] \in Choices \cup {{}}
    BY <1>1, <1>4 DEF IInv, Tagging
  <2>3. "race" \notin may => \A q \in Requests : req'[q].pc = "tag" => tags'[req'[q].kind] = {}
    BY <1>1, <1>2, <1>3, <1>4
  <2>. QED
    BY <1>1, <2>1, <2>2, <2>3 DEF Tagging
<1>. QED
  BY <1>3, <1>5, <1>6, <1>7 DEF IInv

LEMMA InsertTagsKeeps ==
    ASSUME IInv, NEW r \in Requests, InsertTags(r)
    PROVE  IInv'
<1>1. req[r] \in Requesting /\ req[r].pc = "tag" /\ UNCHANGED <<hours, price, booked, may>>
      /\ req[r].kind \in Kinds
  BY DEF IInv, TypeOK, Tagging, InsertTags, At
<1>2. tags \in [Kinds -> SUBSET UNION Choices]
  BY DEF IInv, TypeOK
<1>3. \/ tags' = tags
      \/ /\ Bad \notin req[r].choice
         /\ tags' = [tags EXCEPT ![req[r].kind] = @ \cup req[r].choice]
  BY DEF InsertTags
<1>4. Bad \notin req[r].choice => req[r].choice \in Choices \cup {{}}
  BY <1>1 DEF Requesting
<1>5. PICK s \in Requesting : /\ Become(r, s) /\ s.pc \in {"idle", "untag"}
                              /\ s.pc = "untag" => s.kind \in Kinds
  BY NextKindIs, IdleType DEF InsertTags, Done
<1>6. /\ req' \in [Requests -> Requesting] /\ Serial'
      /\ req'[r] = s /\ \A q \in Requests \ {r} : req'[q] = req[q]
      /\ "race" \notin may => \A q \in Requests \ {r} : req[q].pc = "idle"
  BY <1>1, <1>5, RequestSteps DEF IInv, TypeOK
<1>7. tags' \in [Kinds -> SUBSET UNION Choices]
  BY <1>2, <1>3, <1>4
<1>8. TypeOK'
  BY <1>1, <1>6, <1>7 DEF IInv, TypeOK, hours
<1>9. Shape'
  BY <1>1, <1>5, <1>6 DEF IInv, Shape, hours
<1>10. Tagging'
  <2>1. \A q \in Requests : req'[q].pc \in {"untag", "tag"} => req'[q].kind \in Kinds
    BY <1>5, <1>6 DEF IInv, Tagging
  <2>2. ASSUME "race" \notin may PROVE \A k \in Kinds : tags'[k] \in Choices \cup {{}}
    <3>1. tags[req[r].kind] = {} /\ \A k \in Kinds : tags[k] \in Choices \cup {{}}
      BY <1>1, <2>2 DEF IInv, Tagging
    <3>2. ASSUME Bad \notin req[r].choice, tags' = [tags EXCEPT ![req[r].kind] = @ \cup req[r].choice]
          PROVE  \A k \in Kinds : tags'[k] = tags[k] \/ tags'[k] = req[r].choice
      BY <1>2, <3>1, <3>2
    <3>. QED
      BY <1>3, <1>4, <3>1, <3>2
  <2>3. "race" \notin may => \A q \in Requests : req'[q].pc # "tag"
    BY <1>5, <1>6
  <2>. QED
    BY <1>1, <2>1, <2>2, <2>3 DEF Tagging
<1>. QED
  BY <1>6, <1>8, <1>9, <1>10 DEF IInv

LEMMA InitIInv == Init => IInv
<1>. SUFFICES ASSUME Init PROVE IInv
  OBVIOUS
<1>1. rule \in [Rules -> RuleWords \cup {None}]
  BY WeeksAssumption DEF Init
<1>2. ASSUME NEW a \in Amounts, NEW h \in Hours
      PROVE  Price(a, h, TRUE) \in PriceWords /\ Price(a, Null, TRUE) \in PriceWords
  <2>1. PICK v \in BOOLEAN : v = TRUE
    OBVIOUS
  <2>2. h \in Hours \cup {Null} /\ Null \in Hours \cup {Null}
    OBVIOUS
  <2>3. ASSUME NEW y \in Hours \cup {Null} PROVE Price(a, y, v) \in PriceWords
    BY DEF PriceWords
  <2>. QED
    BY <2>1, <2>2, <2>3
<1>3. (CHOOSE a \in Amounts : a > 0) \in Amounts /\ (CHOOSE h \in Hours : TRUE) \in Hours
  BY NumbersAssumption
<1>4. price \in [Types -> PriceWords \cup {None}]
  BY <1>2, <1>3 DEF Init
<1>5. TypeOK
  <2>1. override \in [Dates -> OverrideWords \cup {None}]
    BY DEF Init
  <2>2. block \in [Blocks -> BlockWords \cup {None}]
    BY DEF Init
  <2>3. booked = {} /\ tags \in [Kinds -> SUBSET UNION Choices] /\ may \in Settings
    BY DEF Init
  <2>4. req \in [Requests -> Requesting]
    BY IdleType DEF Init
  <2>. QED
    BY <1>1, <1>4, <2>1, <2>2, <2>3, <2>4 DEF TypeOK
<1>6. Shape
  BY IdleType, NoneIs DEF Init, Shape
<1>7. Serial /\ Tagging
  BY IdleType DEF Init, Serial, Tagging
<1>. QED
  BY <1>5, <1>6, <1>7 DEF IInv

LEMMA NextIInv == IInv /\ [Next]_vars => IInv'
<1>. SUFFICES ASSUME IInv, [Next]_vars PROVE IInv'
  OBVIOUS
<1>1. ASSUME NEW id \in Rules, NEW w \in RuleWords, CreateRule(id, w) \/ UpdateRule(id, w) PROVE IInv'
  <2>1. rule' = [rule EXCEPT ![id] = w] /\ UNCHANGED <<override, block, price, booked, tags, req, may>>
    BY <1>1 DEF CreateRule, UpdateRule
  <2>2. TypeOK'
    BY <2>1 DEF IInv, TypeOK
  <2>. QED
    BY <2>1, <2>2 DEF IInv, Shape, Serial, Tagging
<1>2. ASSUME NEW id \in Rules, DeleteRule(id) PROVE IInv'
  <2>1. rule' = [rule EXCEPT ![id] = None] /\ UNCHANGED <<override, block, price, booked, tags, req, may>>
    BY <1>2 DEF DeleteRule
  <2>2. TypeOK'
    BY <2>1 DEF IInv, TypeOK
  <2>. QED
    BY <2>1, <2>2 DEF IInv, Shape, Serial, Tagging
<1>3. ASSUME NEW d \in Dates, DeleteOverride(d) PROVE IInv'
  BY <1>3, OverridesKeep, NoneIs DEF DeleteOverride
<1>4. ASSUME NEW d \in Dates, NEW o \in OverrideWords, CreateOverride(d, o) PROVE IInv'
  BY <1>4, OverridesKeep DEF CreateOverride
<1>5. ASSUME NEW d \in Dates, NEW p \in OverrideWords, NEW named, UpdateOverride(d, p, named) PROVE IInv'
  <2>1. override[d] \in OverrideWords
    BY <1>5 DEF UpdateOverride, IInv, TypeOK, None
  <2>2. PICK o : o = Patched(override[d], p, named)
    OBVIOUS
  <2>3. o \in OverrideWords
    BY <2>1, <2>2, PatchedType
  <2>4. OverrideFits(o) /\ override' = [override EXCEPT ![d] = o]
        /\ UNCHANGED <<rule, block, price, booked, tags, req, may>>
    BY <1>5, <2>2 DEF UpdateOverride
  <2>. QED
    BY <2>3, <2>4, OverridesKeep
<1>6. ASSUME NEW id \in Blocks, DeleteBlock(id) PROVE IInv'
  <2>1. block' = [block EXCEPT ![id] = None] /\ UNCHANGED <<rule, override, price, booked, tags, req, may>>
    BY <1>6 DEF DeleteBlock
  <2>. QED
    BY <2>1, BlocksKeep, NoneIs
<1>7. ASSUME NEW id \in Blocks, NEW b \in BlockWords, SaveBlock(id, b) PROVE IInv'
  <2>1. b.from < b.to /\ block' = [block EXCEPT ![id] = b]
        /\ UNCHANGED <<rule, override, price, booked, tags, req, may>>
    BY <1>7 DEF SaveBlock, BlockFits
  <2>. QED
    BY <2>1, BlocksKeep
<1>8. ASSUME NEW type \in Moving, DeletePricing(type) PROVE IInv'
  <2>1. price' = [price EXCEPT ![type] = None] /\ UNCHANGED <<rule, override, block, booked, tags, req, may>>
    BY <1>8 DEF DeletePricing, hours
  <2>2. price' \in [Types -> PriceWords \cup {None}]
    BY <2>1, MovingAssumption DEF IInv, TypeOK
  <2>3. TypeOK'
    BY <2>1, <2>2 DEF IInv, TypeOK
  <2>. QED
    BY <2>1, <2>3 DEF IInv, Shape, Serial, Tagging
<1>9. ASSUME NEW type \in Moving, NEW p \in PriceWords, CreatePricing(type, p) \/ UpdatePricing(type, p)
      PROVE  IInv'
  BY <1>9, PricesKeep DEF CreatePricing, UpdatePricing
<1>10. ASSUME NEW b \in booked, EndBooking(b) PROVE IInv'
  BY <1>10, EndBookingKeeps
<1>11. ASSUME NEW r \in Requests, NEW ask \in Asks, BookBegin(r, ask) PROVE IInv'
  BY <1>11, BookBeginKeeps
<1>12. ASSUME NEW r \in Requests, ResolveTimes(r) \/ ResolveDay(r) \/ ResolveDays(r) PROVE IInv'
  BY <1>12, ResolveKeeps
<1>13. ASSUME NEW r \in Requests,
              CheckInterval(r) \/ ReadPrice(r) \/ InsertBooking(r) \/ Refuse(r)
       PROVE  IInv'
  BY <1>13, CheckIntervalKeeps, ReadPriceKeeps, InsertBookingKeeps, RefuseKeeps
<1>14. ASSUME NEW r \in Requests, NEW kinds \in SUBSET Kinds, NEW choice \in Choices,
              PatchBegin(r, kinds, choice) \/ PatchBegin(r, kinds, choice \cup {Bad})
       PROVE  IInv'
  BY <1>14, PatchBeginKeeps
<1>15. ASSUME NEW r \in Requests, DeleteTags(r) \/ InsertTags(r) PROVE IInv'
  BY <1>15, DeleteTagsKeeps, InsertTagsKeeps
<1>16. CASE UNCHANGED vars
  BY <1>16 DEF vars, IInv, TypeOK, Shape, Serial, Tagging
<1>17. CASE Next
  BY <1>1, <1>2, <1>3, <1>4, <1>5, <1>6, <1>7, <1>8, <1>9, <1>10, <1>11, <1>12, <1>13, <1>14, <1>15, <1>17
     DEF Next, Host
<1>. QED
  BY <1>16, <1>17

THEOREM Inductive == Spec => []IInv
<1>. QED
  BY InitIInv, NextIInv, PTL DEF Spec

\* Every variable keeps its shape: rules, overrides, blocks and prices as the
\* schemas let them through, requests as the handlers carry them.
THEOREM TypeCorrect == Spec => []TypeOK
<1>1. IInv => TypeOK
  BY DEF IInv
<1>. QED
  BY <1>1, Inductive, PTL

\* replaceTags: however requests are refused or fail, if they follow one another
\* the tags of a kind are one choice, or none.
THEOREM TagsOneChoice == Spec => []TagsAreOneChoice
<1>1. IInv => TagsAreOneChoice
  BY DEF IInv, Tagging, TagsAreOneChoice
<1>. QED
  BY <1>1, Inductive, PTL

\* is_interval_available, for every calendar, length of a day, set of rules,
\* overrides, blocks and bookings: it admits an interval within a date exactly if
\* each of its hours is open and free, and an interval over several dates exactly
\* if each of its hours is free and its first and its last hour are open.
THEOREM GateExact == Spec => []GateIsExact
<1>1. IInv => GateIsExact
  BY GateIs DEF IInv, GateIsExact
<1>. QED
  BY <1>1, Inductive, PTL

-----------------------------------------------------------------------------
(* What a booking costs and covers                                          *)

Sure == {"check", "price", "insert"}

StartsOn(i, d) == i \in Instants /\ DateOf(i) = d
EndsOn(i, d)   == i \in Instants /\ i - 1 \in Instants /\ DateOf(i) = d /\ DateOf(i - 1) = d

\* No open hour of a date is before one instant, or from another on.
FirstOf(f, d) == \A i \in Open(d) : f <= i
LastOf(t, d)  == \A i \in Open(d) : i < t

Units(type, f, t) ==
    CASE type = "hourly"    -> t - f
      [] type = "multi_day" -> CountDays(f, t)
      [] OTHER              -> 1

\* What a request has found out, whatever has changed since.
Found(q) ==
    /\ q.ask.type = "multi_day" /\ q.pc \in {"resolve"} \cup Sure =>
         /\ q.ask.from <= q.ask.to
         /\ q.from # Null => StartsOn(q.from, q.ask.from)
         /\ q.to # Null => EndsOn(q.to, q.ask.to)
    /\ q.ask.type = "day" /\ q.pc \in Sure => EndsOn(q.to, q.ask.from) /\ StartsOn(q.from, q.ask.from)
    /\ q.pc \in Sure => q.from \in Instants
    /\ q.pc \in Sure /\ q.ask.type = "multi_day" => q.to # Null
    /\ q.pc \in {"price", "insert"} => q.to \in Instants
    /\ q.pc \in Sure /\ q.ask.type = "half_day" =>
         \E p \in q.had : p.active /\ p.hours \in Int /\ q.to = q.from + p.hours
    /\ q.pc = "insert" =>
         \E p \in q.had : p.active /\ q.total = p.amount * Units(q.ask.type, q.from, q.to)

\* The price of now is one that its type had since it began.
Lived(q) ==
    q.pc \in {"resolve"} \cup Sure => InForce(price[q.ask.type]) \subseteq q.had

\* And what is so until it ends, when nothing interferes.
Current(q) ==
    /\ q.ask.type = "multi_day" /\ q.pc \in {"resolve"} \cup Sure =>
         /\ q.from # Null => FirstOf(q.from, q.ask.from)
         /\ q.to # Null => LastOf(q.to, q.ask.to)
    /\ q.ask.type = "day" /\ q.pc \in Sure => FirstOf(q.from, q.ask.from) /\ LastOf(q.to, q.ask.from)
    /\ q.pc \in {"price", "insert"} => OnOffer(q.from, q.to)
    /\ q.pc \in {"resolve"} \cup Sure => q.had = InForce(price[q.ask.type])
    /\ q.pc = "insert" => q.had = {price[q.ask.type]}

Known ==
    \A r \in Requests :
        Found(req[r]) /\ Lived(req[r]) /\ ("race" \notin may => Current(req[r]))

LEMMA UnsureKnow ==
    ASSUME NEW q, q.pc \notin {"resolve"} \cup Sure
    PROVE  Found(q) /\ Lived(q) /\ Current(q)
BY DEF Found, Lived, Current, Sure

LEMMA UnsureStay ==
    ASSUME NEW q, q.pc \notin {"resolve"} \cup Sure
    PROVE  Current(q)'
BY DEF Current, Sure

LEMMA SameOffer ==
    ASSUME UNCHANGED <<hours, booked>>
    PROVE  /\ \A d : Open(d)' = Open(d)
           /\ \A f, t : OnOffer(f, t)' = OnOffer(f, t)
<1>1. UNCHANGED <<rule, override, block, booked>>
  BY DEF hours
<1>2. BlockSpans' = BlockSpans
  BY <1>1 DEF BlockSpans
<1>3. \A d : Open(d)' = Open(d)
  BY <1>1, <1>2 DEF Open, Scheduled, Taken
<1>4. \A i : OpenAt(i)' = OpenAt(i) /\ FreeAt(i)' = FreeAt(i)
  BY <1>1, <1>2 DEF OpenAt, FreeAt
<1>. QED
  BY <1>3, <1>4 DEF OnOffer

\* A step of one request.
LEMMA RequestKnows ==
    ASSUME IInv, Known, UNCHANGED <<price, may>>, NEW r \in Requests, NEW s \in Requesting,
           Become(r, s), req[r].pc # "idle" \/ MayBegin(r),
           Found(s), Lived(s), "race" \notin may => Current(s)'
    PROVE  Known'
<1>1. /\ req'[r] = s /\ \A q \in Requests \ {r} : req'[q] = req[q]
      /\ "race" \notin may => \A q \in Requests \ {r} : req[q].pc = "idle"
  BY RequestSteps DEF IInv, TypeOK
<1>2. ASSUME NEW q \in Requests PROVE Found(req'[q]) /\ Lived(req'[q])
  BY <1>1 DEF Known
<1>3. ASSUME NEW q \in Requests, "race" \notin may PROVE Current(req[q])'
  <2>1. CASE q = r
    BY <1>1, <1>3, <2>1 DEF Current
  <2>2. CASE q # r
    <3>1. req'[q].pc = "idle"
      BY <1>1, <1>3, <2>2
    <3>. QED
      BY <3>1 DEF Current, Sure
  <2>. QED
    BY <2>1, <2>2
<1>4. \A q \in Requests : Found(req[q])' /\ Lived(req[q])'
  BY <1>2 DEF Found, Lived
<1>. QED
  BY <1>3, <1>4 DEF Known

\* The ends of a date, as instants.
LEMMA SpanIs ==
    ASSUME TypeOK, Shape, NEW d \in Dates, Windows(d) # {}
    PROVE  /\ StartsOn(Earliest(d), d) /\ FirstOf(Earliest(d), d)
           /\ EndsOn(Latest(d), d) /\ LastOf(Latest(d), d)
<1>1. /\ Earliest(d) \in Nat /\ Latest(d) \in Nat
      /\ Earliest(d) \in Open(d) /\ Latest(d) - 1 \in Open(d)
      /\ \A i \in Open(d) : Earliest(d) <= i /\ i < Latest(d)
  BY EndsAre
<1>2. PICK t \in Nat : t = Latest(d)
  BY <1>1
<1>3. t - 1 \in Instants /\ t - 1 \in Nat
  BY <1>1, <1>2, OpenIs, InstantsAreNat
<1>4. DateOf(t - 1) = d /\ OpenAt(t - 1) /\ t > 0
  BY <1>1, <1>2, <1>3, OpenIs
<1>5. DateOf(t) = d
  BY <1>3, <1>4, LastHourIsClosed
<1>6. EndsOn(t, d)
  BY <1>2, <1>3, <1>4, <1>5, InstantsAre DEF EndsOn
<1>7. StartsOn(Earliest(d), d)
  BY <1>1, OpenIs DEF StartsOn
<1>. QED
  BY <1>1, <1>2, <1>6, <1>7 DEF FirstOf, LastOf

LEMMA NullIsNoInstant == Null \notin Instants
BY InstantsAreNat DEF Null

LEMMA BookBeginKnows ==
    ASSUME IInv, Known, NEW r \in Requests, NEW ask \in Asks, BookBegin(r, ask)
    PROVE  Known'
<1>0. PICK H \in SUBSET PriceWords : H = InForce(price[ask.type])
  BY InForceIs, AsksAre DEF IInv
<1>1. PICK s : s = [Idle EXCEPT !.pc = "resolve", !.ask = ask, !.had = H]
  OBVIOUS
<1>2. /\ s \in Requesting /\ s.pc = "resolve" /\ s.ask = ask /\ s.from = Null /\ s.to = Null
      /\ s.had = H
  BY <1>1, IdleType DEF Requesting, Labels, Idle
<1>3. /\ Become(r, s) /\ MayBegin(r) /\ UNCHANGED <<price, may>>
      /\ ask.type = "multi_day" => ask.from <= ask.to
  BY <1>0, <1>1 DEF BookBegin
<1>4. Found(s) /\ Lived(s)
  BY <1>0, <1>2, <1>3 DEF Found, Lived, Sure
<1>5. Current(s)'
  BY <1>0, <1>2, <1>3 DEF Current, Sure, InForce
<1>. QED
  BY <1>2, <1>3, <1>4, <1>5, RequestKnows

LEMMA ResolveTimesKnows ==
    ASSUME IInv, Known, NEW r \in Requests, ResolveTimes(r)
    PROVE  Known'
<1>1. req[r] \in Requesting /\ req[r].pc = "resolve" /\ UNCHANGED <<hours, price, booked, tags, may>>
      /\ req[r].ask \in Asks
  BY DEF IInv, TypeOK, Shape, ResolveTimes, At
<1>2. PICK ask : ask = req[r].ask
  OBVIOUS
<1>5. /\ InForce(price[ask.type]) \subseteq req[r].had
      /\ "race" \notin may => req[r].had = InForce(price[ask.type])'
  <2>1. Lived(req[r]) /\ ("race" \notin may => Current(req[r]))
    BY DEF Known
  <2>2. InForce(price[ask.type])' = InForce(price[ask.type])
    BY <1>1, <1>2 DEF InForce
  <2>. QED
    BY <1>1, <1>2, <2>1, <2>2 DEF Lived, Current
<1>3. CASE ask.type = "hourly"
  <2>1. ask.from \in Instants /\ ask.to \in Instants
    BY <1>1, <1>2, <1>3, AsksAre
  <2>2. PICK f \in Instants, t \in Instants : f = ask.from /\ t = ask.to
    BY <2>1
  <2>3. f \in Int /\ t \in Int
    BY InstantsAreNat
  <2>4. PICK s : s = [req[r] EXCEPT !.pc = "check", !.from = f, !.to = t]
    OBVIOUS
  <2>5. s \in Requesting /\ s.pc = "check" /\ s.ask = ask /\ s.from = f /\ s.to = t
        /\ s.had = req[r].had
    BY <1>1, <1>2, <2>3, <2>4 DEF Requesting, Labels
  <2>6. Become(r, s)
    BY <1>2, <1>3, <2>2, <2>4 DEF ResolveTimes
  <2>7. Found(s) /\ Lived(s)
    BY <1>2, <1>3, <1>5, <2>5 DEF Found, Lived, Sure
  <2>8. "race" \notin may => Current(s)'
    BY <1>2, <1>3, <1>5, <2>5 DEF Current, Sure
  <2>. QED
    BY <1>1, <2>5, <2>6, <2>7, <2>8, RequestKnows
<1>4. CASE ask.type = "half_day"
  <2>1. ask.from \in Instants
    BY <1>1, <1>2, <1>4, AsksAre
  <2>2. PICK f \in Instants : f = ask.from
    BY <2>1
  <2>3. f \in Int
    BY InstantsAreNat
  <2>4. price["half_day"] \in PriceWords
    BY <1>2, <1>4 DEF ResolveTimes, Offers, IInv, TypeOK, Types, None
  <2>5. price["half_day"].hours \in Int
    BY <2>4, NumbersAssumption DEF PriceWords, Price, Null
  <2>6. PICK n \in Int : n = price["half_day"].hours
    BY <2>5
  <2>12. PICK t \in Int : t = f + n
    BY <2>3
  <2>7. PICK s : s = [req[r] EXCEPT !.pc = "check", !.from = f, !.to = t]
    OBVIOUS
  <2>8. s \in Requesting /\ s.pc = "check" /\ s.ask = ask /\ s.from = f /\ s.to = t
        /\ s.had = req[r].had
    BY <1>1, <1>2, <2>3, <2>7 DEF Requesting, Labels
  <2>9. Become(r, s)
    BY <1>2, <1>4, <2>2, <2>6, <2>12, <2>7 DEF ResolveTimes
  <2>10. price["half_day"] \in s.had /\ price["half_day"].active
    BY <1>2, <1>4, <1>5, <2>8 DEF ResolveTimes, Offers, InForce
  <2>11. Found(s) /\ Lived(s)
    BY <1>4, <1>5, <2>6, <2>8, <2>10, <2>12 DEF Found, Lived, Sure
  <2>13. "race" \notin may => Current(s)'
    BY <1>4, <1>5, <2>8 DEF Current, Sure
  <2>. QED
    BY <1>1, <2>8, <2>9, <2>11, <2>13, RequestKnows
<1>. QED
  BY <1>2, <1>3, <1>4 DEF ResolveTimes

LEMMA ResolveDayKnows ==
    ASSUME IInv, Known, NEW r \in Requests, ResolveDay(r)
    PROVE  Known'
<1>1. req[r] \in Requesting /\ req[r].pc = "resolve" /\ UNCHANGED <<hours, price, booked, tags, may>>
      /\ req[r].ask \in Asks /\ req[r].ask.type = "day" /\ Windows(req[r].ask.from) # {}
  BY DEF IInv, TypeOK, Shape, ResolveDay, At
<1>2. req[r].ask.from \in Dates
  BY <1>1, AsksAre
<1>3. PICK d \in Dates : d = req[r].ask.from
  BY <1>2
<1>4. /\ StartsOn(Earliest(d), d) /\ FirstOf(Earliest(d), d)
      /\ EndsOn(Latest(d), d) /\ LastOf(Latest(d), d)
  BY <1>1, <1>3, SpanIs DEF IInv
<1>5. PICK f \in Instants, t \in Instants : f = Earliest(d) /\ t = Latest(d)
  BY <1>4 DEF StartsOn, EndsOn
<1>6. f \in Int /\ t \in Int
  BY InstantsAreNat
<1>7. PICK s : s = [req[r] EXCEPT !.pc = "check", !.from = f, !.to = t]
  OBVIOUS
<1>8. s \in Requesting /\ s.pc = "check" /\ s.ask = req[r].ask /\ s.from = f /\ s.to = t
      /\ s.had = req[r].had
  BY <1>1, <1>6, <1>7 DEF Requesting, Labels
<1>9. Become(r, s)
  BY <1>3, <1>5, <1>7 DEF ResolveDay
<1>10. FirstOf(f, d)' /\ LastOf(t, d)'
  BY <1>1, <1>4, <1>5, SameOffer DEF FirstOf, LastOf
<1>13. Lived(req[r]) /\ ("race" \notin may => Current(req[r]))
  BY DEF Known
<1>11. Found(s) /\ Lived(s)
  BY <1>1, <1>3, <1>4, <1>5, <1>8, <1>13 DEF Found, Lived, Sure
<1>12. "race" \notin may => Current(s)'
  BY <1>1, <1>3, <1>8, <1>10, <1>13 DEF Current, Sure, InForce
<1>. QED
  BY <1>1, <1>8, <1>9, <1>11, <1>12, RequestKnows

LEMMA ResolveDaysKnows ==
    ASSUME IInv, Known, NEW r \in Requests, ResolveDays(r)
    PROVE  Known'
<1>1. req[r] \in Requesting /\ req[r].pc = "resolve" /\ UNCHANGED <<hours, price, booked, tags, may>>
      /\ req[r].ask \in Asks /\ req[r].ask.type = "multi_day"
  BY DEF IInv, TypeOK, Shape, ResolveDays, At
<1>2. req[r].ask.from \in Dates /\ req[r].ask.to \in Dates
  BY <1>1, AsksAre
<1>3. PICK d \in Dates, e \in Dates : d = req[r].ask.from /\ e = req[r].ask.to
  BY <1>2
<1>4. PICK q : q = req[r]
  OBVIOUS
<1>5. /\ d <= e
      /\ q.from # Null => StartsOn(q.from, d)
      /\ q.to # Null => EndsOn(q.to, e)
      /\ "race" \notin may => /\ q.from # Null => FirstOf(q.from, d)
                              /\ q.to # Null => LastOf(q.to, e)
                              /\ q.had = InForce(price["multi_day"])'
      /\ InForce(price["multi_day"]) \subseteq q.had
  BY <1>1, <1>3, <1>4 DEF Known, Found, Lived, Current, InForce
<1>6. \A x : (FirstOf(x, d)' <=> FirstOf(x, d)) /\ (LastOf(x, e)' <=> LastOf(x, e))
  BY <1>1, SameOffer DEF FirstOf, LastOf
<1>7. ASSUME NEW s \in Requesting, Become(r, s), s.ask = q.ask, s.had = q.had,
             s.pc \in {"resolve", "check"},
             s.pc = "check" => s.from # Null /\ s.to # Null,
             s.from # q.from => StartsOn(s.from, d) /\ FirstOf(s.from, d),
             s.to # q.to => EndsOn(s.to, e) /\ LastOf(s.to, e)
      PROVE  Known'
  <2>1. (s.from # Null => StartsOn(s.from, d)) /\ (s.to # Null => EndsOn(s.to, e))
    BY <1>5, <1>7
  <2>3. s.ask.type = "multi_day" /\ s.ask.from = d /\ s.ask.to = e
    BY <1>1, <1>3, <1>4, <1>7
  <2>4. Found(s) /\ Lived(s)
    BY <1>5, <1>7, <2>1, <2>3 DEF Found, Lived, Sure, StartsOn
  <2>5. ASSUME "race" \notin may PROVE Current(s)'
    <3>1. /\ \A i \in Open(d) : s.from # Null => s.from <= i
          /\ \A i \in Open(e) : s.to # Null => i < s.to
      BY <1>5, <1>7, <2>5 DEF FirstOf, LastOf
    <3>3. Open(d)' = Open(d) /\ Open(e)' = Open(e)
      BY <1>1, SameOffer
    <3>4. /\ s.from # Null => FirstOf(s.from, s.ask.from)'
          /\ s.to # Null => LastOf(s.to, s.ask.to)'
      BY <2>3, <3>1, <3>3 DEF FirstOf, LastOf
    <3>2. s.pc \notin {"price", "insert"} /\ s.ask.type \notin {"day", "half_day"}
      BY <1>7, <2>3
    <3>. QED
      BY <1>5, <1>7, <2>3, <2>5, <3>4, <3>2 DEF Current, Sure
  <2>. QED
    BY <1>1, <1>7, <2>4, <2>5, RequestKnows
<1>8. q \in Requesting /\ q.pc = "resolve"
  BY <1>1, <1>4
<1>9. CASE /\ Windows(d) # {}
           /\ Become(r, [q EXCEPT !.from = Earliest(d), !.pc = IF q.to # Null THEN "check" ELSE @])
  <2>1. StartsOn(Earliest(d), d) /\ FirstOf(Earliest(d), d)
    BY <1>9, SpanIs DEF IInv
  <2>2. PICK f \in Instants : f = Earliest(d)
    BY <2>1 DEF StartsOn
  <2>3. f \in Int /\ f # Null
    BY InstantsAreNat, NullIsNoInstant
  <2>4. PICK l \in {"resolve", "check"} : l = IF q.to # Null THEN "check" ELSE q.pc
    BY <1>8
  <2>5. PICK s : s = [q EXCEPT !.from = f, !.pc = l]
    OBVIOUS
  <2>6. s \in Requesting /\ s.pc = l /\ s.ask = q.ask /\ s.from = f /\ s.to = q.to /\ s.had = q.had
    BY <1>8, <2>3, <2>5 DEF Requesting, Labels
  <2>7. Become(r, s)
    BY <1>9, <2>2, <2>4, <2>5
  <2>. QED
    BY <1>7, <1>8, <2>1, <2>2, <2>3, <2>4, <2>6, <2>7
<1>10. CASE /\ Windows(e) # {}
            /\ Become(r, [q EXCEPT !.to = Latest(e), !.pc = IF q.from # Null THEN "check" ELSE @])
  <2>1. EndsOn(Latest(e), e) /\ LastOf(Latest(e), e)
    BY <1>10, SpanIs DEF IInv
  <2>2. PICK t \in Instants : t = Latest(e)
    BY <2>1 DEF EndsOn
  <2>3. t \in Int /\ t # Null
    BY InstantsAreNat, NullIsNoInstant
  <2>4. PICK l \in {"resolve", "check"} : l = IF q.from # Null THEN "check" ELSE q.pc
    BY <1>8
  <2>5. PICK s : s = [q EXCEPT !.to = t, !.pc = l]
    OBVIOUS
  <2>6. s \in Requesting /\ s.pc = l /\ s.ask = q.ask /\ s.to = t /\ s.from = q.from /\ s.had = q.had
    BY <1>8, <2>3, <2>5 DEF Requesting, Labels
  <2>7. Become(r, s)
    BY <1>10, <2>2, <2>4, <2>5
  <2>. QED
    BY <1>7, <1>8, <2>1, <2>2, <2>3, <2>4, <2>6, <2>7
<1>. QED
  BY <1>3, <1>4, <1>9, <1>10 DEF ResolveDays

LEMMA CheckIntervalKnows ==
    ASSUME IInv, Known, NEW r \in Requests, CheckInterval(r)
    PROVE  Known'
<1>1. req[r] \in Requesting /\ req[r].pc = "check" /\ UNCHANGED <<hours, price, booked, tags, may>>
      /\ IsIntervalAvailable(req[r].from, req[r].to)
  BY DEF IInv, TypeOK, CheckInterval, At
<1>2. PICK q \in Requesting : q = req[r]
  BY <1>1
<1>3. Found(q) /\ Lived(q) /\ ("race" \notin may => Current(q))
  BY <1>2 DEF Known
<1>4. q.from \in Instants /\ q.pc = "check"
  BY <1>1, <1>2, <1>3 DEF Found, Sure
<1>5. q.from \in Nat /\ q.to \in Nat /\ q.from < q.to
  <2>1. q.from \in Nat
    BY <1>4, InstantsAreNat
  <2>. QED
    BY <1>1, <1>2, <2>1 DEF IsIntervalAvailable, Requesting
<1>6. q.to \in Instants
  <2>1. DateOf(q.to) \in Dates
    <3>1. DateOf(q.from) \in Dates
      BY <1>4, <1>5, InstantsAre
    <3>. QED
      BY <1>1, <1>2, <3>1 DEF IsIntervalAvailable
  <2>. QED
    BY <1>5, <2>1, InstantsAre
<1>7. OnOffer(q.from, q.to)
  BY <1>1, <1>2, <1>4, <1>6, GateIs DEF IInv
<1>8. PICK s : s = [q EXCEPT !.pc = "price"]
  OBVIOUS
<1>9. s \in Requesting /\ s.pc = "price" /\ s.ask = q.ask /\ s.from = q.from /\ s.to = q.to
      /\ s.had = q.had
  BY <1>8 DEF Requesting, Labels
<1>10. Become(r, s)
  BY <1>2, <1>8 DEF CheckInterval
<1>11. Found(s) /\ Lived(s)
  BY <1>3, <1>4, <1>6, <1>9 DEF Found, Lived, Sure
<1>12. ASSUME "race" \notin may PROVE Current(s)'
  <2>1. OnOffer(q.from, q.to)'
    BY <1>1, <1>7, SameOffer
  <2>2. \A d, x : (FirstOf(x, d)' <=> FirstOf(x, d)) /\ (LastOf(x, d)' <=> LastOf(x, d))
    BY <1>1, SameOffer DEF FirstOf, LastOf
  <2>3. price' = price
    BY <1>1
  <2>4. Current(q)
    BY <1>3, <1>12
  <2>. QED
    BY <1>4, <1>9, <2>1, <2>2, <2>3, <2>4 DEF Current, Sure, InForce
<1>. QED
  BY <1>1, <1>9, <1>10, <1>11, <1>12, RequestKnows

LEMMA ReadPriceKnows ==
    ASSUME IInv, Known, NEW r \in Requests, ReadPrice(r)
    PROVE  Known'
<1>1. req[r] \in Requesting /\ req[r].pc = "price" /\ UNCHANGED <<hours, price, booked, tags, may>>
      /\ req[r].ask \in Asks /\ Offers(req[r].ask.type)
  BY DEF IInv, TypeOK, Shape, ReadPrice, At
<1>2. PICK q \in Requesting : q = req[r]
  BY <1>1
<1>3. Found(q) /\ Lived(q) /\ ("race" \notin may => Current(q))
  BY <1>2 DEF Known
<1>4. q.from \in Instants /\ q.to \in Instants /\ q.pc = "price"
  BY <1>1, <1>2, <1>3 DEF Found, Sure
<1>5. PICK f \in Nat, t \in Nat : f = q.from /\ t = q.to
  BY <1>4, InstantsAreNat
<1>6. PICK type \in Types : type = q.ask.type
  BY <1>1, <1>2, AsksAre
<1>7. Offers(type) /\ f \in Int /\ t \in Int
  BY <1>1, <1>2, <1>6
<1>8. PICK rate \in Amounts : rate = price[type].amount /\ rate \in Nat
  BY <1>7, TotalIs DEF IInv
<1>9. PICK n \in Int : n = Total(type, f, t)
  BY <1>7, TotalIs DEF IInv
<1>16. price[type] \in q.had /\ price[type].active
  BY <1>3, <1>4, <1>6, <1>7 DEF Lived, Sure, InForce, Offers
<1>10. n = rate * Units(type, f, t)
  BY <1>8, <1>9 DEF Total, Units, Types
<1>11. PICK s : s = [q EXCEPT !.pc = "insert", !.total = n]
  OBVIOUS
<1>12. s \in Requesting /\ s.pc = "insert" /\ s.ask = q.ask /\ s.from = q.from /\ s.to = q.to /\ s.total = n
       /\ s.had = q.had
  BY <1>11 DEF Requesting, Labels
<1>13. Become(r, s)
  BY <1>2, <1>5, <1>6, <1>9, <1>11 DEF ReadPrice
<1>17. \E p \in s.had : p.active /\ s.total = p.amount * Units(s.ask.type, s.from, s.to)
  BY <1>5, <1>6, <1>8, <1>10, <1>12, <1>16
<1>14. Found(s) /\ Lived(s)
  BY <1>3, <1>4, <1>12, <1>17 DEF Found, Lived, Sure
<1>15. ASSUME "race" \notin may PROVE Current(s)'
  <2>1. OnOffer(q.from, q.to)' <=> OnOffer(q.from, q.to)
    BY <1>1, SameOffer
  <2>2. \A d, x : (FirstOf(x, d)' <=> FirstOf(x, d)) /\ (LastOf(x, d)' <=> LastOf(x, d))
    BY <1>1, SameOffer DEF FirstOf, LastOf
  <2>3. price' = price
    BY <1>1
  <2>4. Current(q)
    BY <1>3, <1>15
  <2>5. s.had = {price'[s.ask.type]} /\ s.had = InForce(price[s.ask.type])'
    BY <1>4, <1>6, <1>7, <1>12, <2>3, <2>4 DEF Current, Sure, InForce, Offers
  <2>. QED
    BY <1>4, <1>12, <2>1, <2>2, <2>4, <2>5 DEF Current, Sure
<1>. QED
  BY <1>1, <1>12, <1>13, <1>14, <1>15, RequestKnows

\* The rest: a request that ends or replaces tags, the host, and the end of a
\* booking.
LEMMA OthersKnow ==
    ASSUME IInv, Known, NEW r \in Requests,
           \/ InsertBooking(r) \/ Refuse(r) \/ DeleteTags(r) \/ InsertTags(r)
           \/ \E kinds \in SUBSET Kinds, choice \in Choices \cup {c \cup {Bad} : c \in Choices} :
                PatchBegin(r, kinds, choice)
    PROVE  Known'
<1>1. PICK s \in Requesting : /\ Become(r, s) /\ s.pc \in {"idle", "untag", "tag"}
                              /\ req[r].pc # "idle" \/ MayBegin(r)
  <2>1. CASE InsertBooking(r) \/ Refuse(r)
    BY <2>1, IdleType DEF InsertBooking, Refuse, Done, At
  <2>2. CASE DeleteTags(r)
    <3>1. req[r] \in Requesting /\ req[r].pc # "idle"
      BY <2>2 DEF DeleteTags, At, IInv, TypeOK
    <3>2. PICK s : s = [req[r] EXCEPT !.pc = "tag"]
      OBVIOUS
    <3>3. s \in Requesting /\ s.pc = "tag"
      BY <3>1, <3>2 DEF Requesting, Labels
    <3>. QED
      BY <2>2, <3>1, <3>2, <3>3, NextKindIs DEF DeleteTags
  <2>3. CASE InsertTags(r)
    <3>1. req[r].pc # "idle"
      BY <2>3 DEF InsertTags, At
    <3>. QED
      BY <2>3, <3>1, NextKindIs, IdleType DEF InsertTags, Done
  <2>4. ASSUME NEW kinds \in SUBSET Kinds, NEW choice \in Choices \cup {c \cup {Bad} : c \in Choices},
               PatchBegin(r, kinds, choice)
        PROVE  \E s \in Requesting : Become(r, s) /\ s.pc = "untag" /\ MayBegin(r)
    <3>1. PICK k \in kinds : Become(r, [Idle EXCEPT !.pc = "untag", !.kind = k, !.todo = kinds \ {k},
                                                   !.choice = choice])
      BY <2>4 DEF PatchBegin
    <3>2. PICK s : s = [Idle EXCEPT !.pc = "untag", !.kind = k, !.todo = kinds \ {k}, !.choice = choice]
      OBVIOUS
    <3>3. s \in Requesting /\ s.pc = "untag"
      BY <3>2, IdleType DEF Requesting, Labels
    <3>. QED
      BY <2>4, <3>1, <3>2, <3>3 DEF PatchBegin
  <2>. QED
    BY <2>1, <2>2, <2>3, <2>4
<1>2. UNCHANGED <<price, may>>
  BY DEF InsertBooking, Refuse, DeleteTags, InsertTags, PatchBegin
<1>3. Found(s) /\ Lived(s)
  BY <1>1, UnsureKnow DEF Sure
<1>4. Current(s)'
  BY <1>1, UnsureStay DEF Sure
<1>. QED
  BY <1>1, <1>2, <1>3, <1>4, RequestKnows

LEMMA HostKnows ==
    ASSUME Known, Alone, UNCHANGED <<req, price, may>>
    PROVE  Known'
<1>1. ASSUME NEW q \in Requests PROVE Found(req[q])' /\ Lived(req[q])'
  BY DEF Known, Found, Lived, InForce
<1>2. ASSUME NEW q \in Requests, "race" \notin may PROVE Current(req[q])'
  <2>1. req'[q].pc = "idle"
    BY <1>2 DEF Alone, At
  <2>. QED
    BY <2>1 DEF Current, Sure
<1>. QED
  BY <1>1, <1>2 DEF Known

\* The host's prices: a request that remembers more knows what it knew.
LEMMA PricesKnow ==
    ASSUME IInv, Known, Alone, NEW type \in Moving, UNCHANGED may,
           \/ price' = [price EXCEPT ![type] = None] /\ UNCHANGED req
           \/ \E p \in PriceWords : price' = [price EXCEPT ![type] = p] /\ Remembered(type, p)
    PROVE  Known'
<1>1. PICK x \in PriceWords \cup {None} :
        /\ price' = [price EXCEPT ![type] = x]
        /\ \A q \in Requests :
             /\ req'[q].pc = req[q].pc /\ req'[q].ask = req[q].ask
             /\ req'[q].from = req[q].from /\ req'[q].to = req[q].to
             /\ req'[q].total = req[q].total
             /\ req[q].had \subseteq req'[q].had
             /\ req[q].ask.type = type => InForce(x) \subseteq req'[q].had
  <2>1. CASE price' = [price EXCEPT ![type] = None] /\ UNCHANGED req
    BY <2>1, NoneIs DEF InForce
  <2>2. ASSUME NEW p \in PriceWords, price' = [price EXCEPT ![type] = p], Remembered(type, p)
        PROVE  \A q \in Requests :
                 /\ req'[q].pc = req[q].pc /\ req'[q].ask = req[q].ask
                 /\ req'[q].from = req[q].from /\ req'[q].to = req[q].to
                 /\ req'[q].total = req[q].total
                 /\ req[q].had \subseteq req'[q].had
                 /\ req[q].ask.type = type => InForce(p) \subseteq req'[q].had
    BY <2>2, RememberedIs DEF IInv
  <2>. QED
    BY <2>1, <2>2
<1>2. ASSUME NEW r \in Requests
      PROVE  Found(req[r])' /\ Lived(req[r])' /\ ("race" \notin may => Current(req[r])')
  <2>1. PICK q, s : q = req[r] /\ s = req'[r]
    OBVIOUS
  <2>2. /\ s.pc = q.pc /\ s.ask = q.ask /\ s.from = q.from /\ s.to = q.to /\ s.total = q.total
        /\ q.had \subseteq s.had
        /\ q.ask.type = type => InForce(x) \subseteq s.had
    BY <1>1, <2>1
  <2>3. Found(q) /\ Lived(q)
    BY <2>1 DEF Known
  <2>4. Found(s)
    BY <2>2, <2>3 DEF Found
  <2>5. Lived(s)'
    <3>1. SUFFICES ASSUME s.pc \in {"resolve"} \cup Sure
                   PROVE  InForce(price'[s.ask.type]) \subseteq s.had
      BY DEF Lived, InForce
    <3>2. q.ask \in Asks
      BY <2>1, <2>2, <3>1 DEF IInv, Shape, Sure
    <3>3. PICK y \in Types : y = q.ask.type
      BY <3>2, AsksAre
    <3>4. price'[y] = IF y = type THEN x ELSE price[y]
      BY <1>1 DEF IInv, TypeOK
    <3>. QED
      BY <2>2, <2>3, <3>1, <3>3, <3>4 DEF Lived
  <2>6. ASSUME "race" \notin may PROVE Current(s)'
    <3>1. s.pc = "idle"
      BY <2>1, <2>2, <2>6 DEF Alone, At
    <3>. QED
      BY <3>1, UnsureStay DEF Sure
  <2>. QED
    BY <2>1, <2>4, <2>5, <2>6 DEF Found, Lived, Current
<1>. QED
  BY <1>2 DEF Known

LEMMA NextKnown == IInv /\ Known /\ [Next]_vars => Known'
<1>. SUFFICES ASSUME IInv, Known, [Next]_vars PROVE Known'
  OBVIOUS
<1>1. ASSUME NEW id \in Rules, NEW w, DeleteRule(id) \/ CreateRule(id, w) \/ UpdateRule(id, w) PROVE Known'
  BY <1>1, HostKnows DEF DeleteRule, CreateRule, UpdateRule
<1>2. ASSUME NEW d \in Dates, NEW o, NEW named,
             DeleteOverride(d) \/ CreateOverride(d, o) \/ UpdateOverride(d, o, named) PROVE Known'
  BY <1>2, HostKnows DEF DeleteOverride, CreateOverride, UpdateOverride
<1>3. ASSUME NEW id \in Blocks, NEW b, DeleteBlock(id) \/ SaveBlock(id, b) PROVE Known'
  BY <1>3, HostKnows DEF DeleteBlock, SaveBlock
<1>4. ASSUME NEW type \in Moving,
             \/ DeletePricing(type)
             \/ \E p \in PriceWords : CreatePricing(type, p) \/ UpdatePricing(type, p)
      PROVE  Known'
  BY <1>4, PricesKnow DEF DeletePricing, CreatePricing, UpdatePricing
<1>5. ASSUME NEW b, EndBooking(b) PROVE Known'
  BY <1>5, HostKnows DEF EndBooking
<1>6. ASSUME NEW r \in Requests, NEW ask \in Asks, BookBegin(r, ask) PROVE Known'
  BY <1>6, BookBeginKnows
<1>7. ASSUME NEW r \in Requests,
             ResolveTimes(r) \/ ResolveDay(r) \/ ResolveDays(r) \/ CheckInterval(r) \/ ReadPrice(r)
      PROVE  Known'
  BY <1>7, ResolveTimesKnows, ResolveDayKnows, ResolveDaysKnows, CheckIntervalKnows, ReadPriceKnows
<1>8. ASSUME NEW r \in Requests, InsertBooking(r) \/ Refuse(r) \/ DeleteTags(r) \/ InsertTags(r)
      PROVE  Known'
  BY <1>8, OthersKnow
<1>9. ASSUME NEW r \in Requests, NEW kinds \in SUBSET Kinds, NEW choice \in Choices,
             PatchBegin(r, kinds, choice) \/ PatchBegin(r, kinds, choice \cup {Bad})
      PROVE  Known'
  <2>1. choice \in Choices \cup {c \cup {Bad} : c \in Choices}
        /\ choice \cup {Bad} \in Choices \cup {c \cup {Bad} : c \in Choices}
    OBVIOUS
  <2>. QED
    BY <1>9, <2>1, OthersKnow
<1>10. CASE UNCHANGED vars
  <2>1. UNCHANGED <<hours, booked, price, req, may>>
    BY <1>10 DEF vars, hours
  <2>2. \A d, x : (FirstOf(x, d)' <=> FirstOf(x, d)) /\ (LastOf(x, d)' <=> LastOf(x, d))
    BY <2>1, SameOffer DEF FirstOf, LastOf
  <2>3. \A q : Current(q)' <=> Current(q)
    BY <2>1, <2>2, SameOffer DEF Current, InForce
  <2>4. ASSUME NEW r \in Requests
        PROVE  Found(req[r])' /\ Lived(req[r])' /\ ("race" \notin may => Current(req[r])')
    <3>1. PICK q : q = req[r]
      OBVIOUS
    <3>2. req'[r] = q
      BY <2>1, <3>1
    <3>3. Found(q) /\ Lived(q) /\ ("race" \notin may => Current(q))
      BY <3>1 DEF Known
    <3>4. "race" \notin may => Current(q)'
      BY <2>3, <3>3
    <3>. QED
      BY <2>1, <3>2, <3>3, <3>4 DEF Found, Lived, Current, InForce
  <2>. QED
    BY <2>1, <2>4 DEF Known
<1>11. CASE Next
  BY <1>1, <1>2, <1>3, <1>4, <1>5, <1>6, <1>7, <1>8, <1>9, <1>11 DEF Next, Host
<1>. QED
  BY <1>10, <1>11

\* The units of a price, counted.
LEMMA UnitsAre ==
    ASSUME NEW f \in Nat, NEW t \in Nat, f < t
    PROVE  /\ Cardinality(f .. t - 1) = t - f
           /\ Cardinality({DateOf(i) : i \in f .. t - 1}) = DateOf(t - 1) - DateOf(f) + 1
<1>1. t - 1 \in Nat /\ f <= t - 1
  OBVIOUS
<1>2. Cardinality(f .. t - 1) = (t - 1) - f + 1
  BY <1>1, FS_Interval
<1>3. PICK d \in Nat, e \in Nat : d = DateOf(f) /\ e = DateOf(t - 1)
  BY <1>1, DatesDivide
<1>4. d <= e
  BY <1>1, <1>3, DatesAscend
<1>5. ASSUME NEW i \in f .. t - 1 PROVE DateOf(i) \in d .. e
  <2>1. i \in Nat /\ f <= i /\ i <= t - 1
    OBVIOUS
  <2>2. d <= DateOf(i) /\ DateOf(i) <= e /\ DateOf(i) \in Nat
    BY <1>1, <1>3, <2>1, DatesAscend, DatesDivide
  <2>. QED
    BY <2>2
<1>6. ASSUME NEW x \in d .. e PROVE \E i \in f .. t - 1 : DateOf(i) = x
  <2>1. CASE x = d
    BY <1>1, <1>3, <2>1
  <2>2. CASE x # d
    <3>1. x \in Nat /\ d < x /\ x <= e
      BY <2>2
    <3>2. DayLength \in Nat \ {0} /\ DayLength * x \in Nat
      BY <3>1, CalendarAssumption
    <3>3. PICK i \in Nat : i = DayLength * x
      BY <3>2
    <3>4. DateOf(i) = x
      BY <3>1, <3>2, <3>3, DatesDivide
    <3>5. f <= i
      <4>1. SUFFICES ASSUME i < f PROVE FALSE
        BY <3>3
      <4>2. DateOf(i) <= DateOf(f)
        BY <4>1, DatesAscend
      <4>. QED
        BY <1>3, <3>1, <3>4, <4>2
    <3>6. i <= t - 1
      <4>1. DayLength * e <= t - 1 /\ DayLength * e \in Nat
        BY <1>1, <1>3, DatesDivide
      <4>2. DayLength * x <= DayLength * e
        BY <3>1, <3>2
      <4>. QED
        BY <1>1, <3>3, <4>1, <4>2
    <3>. QED
      BY <3>4, <3>5, <3>6
  <2>. QED
    BY <2>1, <2>2
<1>7. {DateOf(i) : i \in f .. t - 1} = d .. e
  BY <1>5, <1>6
<1>8. Cardinality(d .. e) = e - d + 1
  BY <1>4, FS_Interval
<1>9. Cardinality({DateOf(i) : i \in f .. t - 1}) = e - d + 1
  BY <1>7, <1>8
<1>. QED
  BY <1>2, <1>3, <1>9

\* What is inserted.
LEMMA InsertedAsOffered ==
    ASSUME IInv, Known, NEW r \in Requests, InsertBooking(r), NEW b \in booked' \ booked
    PROVE  req'[r] # req[r] /\ req[r].ask.type = b.type /\ AsOffered(b, req[r].had)
<1>. DEFINE stay  == b.from .. b.to - 1
            units == CASE b.type = "hourly"    -> Cardinality(stay)
                       [] b.type = "multi_day" -> Cardinality({DateOf(i) : i \in stay})
                       [] OTHER                -> 1
            left(d) == {i \in Instants : DateOf(i) = d /\ OpenAt(i) /\ FreeAt(i)}
<1>1. PICK q : q = req[r]
  OBVIOUS
<1>2. q \in Requesting /\ q.pc = "insert" /\ q.ask \in Asks /\ q.from < q.to
  BY <1>1 DEF IInv, TypeOK, Shape, InsertBooking, At
<1>3. Found(q) /\ ("race" \notin may => Current(q))
  BY <1>1 DEF Known
<1>4. b = Booking(q.ask.type, q.from, q.to, q.total)
  BY <1>1 DEF InsertBooking
<1>5. b.type = q.ask.type /\ b.from = q.from /\ b.to = q.to /\ b.total = q.total
  BY <1>4 DEF Booking
<1>6. q.from \in Instants /\ q.to \in Instants
  BY <1>2, <1>3 DEF Found, Sure
<1>7. PICK f \in Instants, t \in Instants : f = q.from /\ t = q.to
  BY <1>6
<1>8. f \in Nat /\ t \in Nat /\ f < t /\ t - 1 \in Nat
  <2>1. f \in Nat /\ t \in Nat
    BY InstantsAreNat
  <2>. QED
    BY <1>2, <1>7, <2>1
<1>9. Cardinality(stay) = t - f /\ Cardinality({DateOf(i) : i \in stay}) = DateOf(t - 1) - DateOf(f) + 1
  BY <1>5, <1>7, <1>8, UnitsAre
<1>10. b.type = "multi_day" =>
         /\ q.ask.from \in Dates /\ q.ask.to \in Dates /\ q.ask.from <= q.ask.to
         /\ StartsOn(f, q.ask.from) /\ EndsOn(t, q.ask.to)
  <2>1. Null # f
    BY NullIsNoInstant
  <2>. QED
    BY <1>2, <1>3, <1>5, <1>7, <2>1, AsksAre DEF Found, Sure
<1>11. units = Units(q.ask.type, q.from, q.to)
  <2>1. CASE b.type = "hourly"
    BY <1>5, <1>7, <1>9, <2>1 DEF Units
  <2>2. CASE b.type = "multi_day"
    <3>1. DateOf(t - 1) = DateOf(t)
      BY <1>10, <2>2 DEF EndsOn
    <3>2. units = DateOf(t) - DateOf(f) + 1
      BY <1>9, <2>2, <3>1
    <3>. HIDE DEF units
    <3>. QED
      BY <1>5, <1>7, <2>2, <3>2 DEF Units, CountDays
  <2>3. CASE b.type \notin {"hourly", "multi_day"}
    BY <1>5, <2>3 DEF Units
  <2>. QED
    BY <2>1, <2>2, <2>3
<1>. HIDE DEF units
<1>12. \E p \in q.had : p.active /\ b.total = p.amount * units
  BY <1>2, <1>3, <1>5, <1>11 DEF Found
<1>14. b.type = "half_day" => \E p \in q.had : p.active /\ Cardinality(stay) = p.hours
  <2>1. SUFFICES ASSUME b.type = "half_day" PROVE \E p \in q.had : p.active /\ t - f = p.hours
    BY <1>9
  <2>2. PICK p \in q.had : p.active /\ p.hours \in Int /\ t = f + p.hours
    BY <1>2, <1>3, <1>5, <1>7, <2>1 DEF Found, Sure
  <2>3. PICK n \in Int : n = p.hours
    BY <2>2
  <2>4. t - f = n
    BY <1>8, <2>2, <2>3
  <2>. QED
    BY <2>2, <2>3, <2>4
<1>13. ASSUME "race" \notin may
       PROVE  /\ q.had = {price[b.type]}
              /\ OnOffer(b.from, b.to)
              /\ b.type = "day" => stay = left(DateOf(b.from))
              /\ b.type = "multi_day" =>
                   \A i \in left(DateOf(b.from)) \cup left(DateOf(b.to - 1)) : i \in stay
  <2>1. Current(q)
    BY <1>3, <1>13
  <2>2. q.had = {price[b.type]}
    BY <1>2, <1>5, <2>1 DEF Current
  <2>3. OnOffer(f, t)
    BY <1>2, <1>7, <2>1 DEF Current
  <2>5. \A d \in Dates : left(d) = Open(d)
    <3>1. ASSUME NEW d \in Dates PROVE left(d) = Open(d)
      <4>1. ASSUME NEW i \in left(d) PROVE i \in Open(d)
        <5>1. i \in Int
          BY InstantsAreNat
        <5>. QED
          BY <5>1, OpenIs DEF IInv
      <4>2. ASSUME NEW i \in Open(d) PROVE i \in left(d)
        <5>1. i \in Instants
          BY OpenIs DEF IInv
        <5>2. i \in Int
          BY <5>1, InstantsAreNat
        <5>. QED
          BY <5>1, <5>2, OpenIs DEF IInv
      <4>. QED
        BY <4>1, <4>2
    <3>. QED
      BY <3>1
  <2>6. ASSUME b.type = "day" PROVE stay = left(DateOf(b.from))
    <3>1. PICK d \in Dates : d = q.ask.from
      BY <1>2, <1>5, <2>6, AsksAre
    <3>2. StartsOn(f, d) /\ EndsOn(t, d) /\ FirstOf(f, d) /\ LastOf(t, d)
      BY <1>2, <1>3, <1>5, <1>7, <2>1, <2>6, <3>1 DEF Found, Current, Sure
    <3>3. ASSUME NEW i \in f .. t - 1 PROVE i \in Open(d)
      <4>1. t - 1 \in Instants /\ DateOf(f) = d /\ DateOf(t - 1) = d
        BY <3>2 DEF StartsOn, EndsOn
      <4>2. i \in Nat /\ i \in Instants /\ d <= DateOf(i) /\ DateOf(i) <= d
        BY <4>1, Between
      <4>3. d \in Nat /\ DateOf(i) \in Nat
        BY <4>2, DatesDivide, CalendarAssumption DEF Dates
      <4>4. DateOf(i) = d
        BY <4>2, <4>3
      <4>5. OpenAt(i) /\ FreeAt(i)
        BY <2>3, <4>1 DEF OnOffer
      <4>. QED
        BY <4>2, <4>4, <4>5, OpenIs DEF IInv
    <3>4. ASSUME NEW i \in Open(d) PROVE i \in f .. t - 1
      <4>1. f <= i /\ i < t
        BY <3>2 DEF FirstOf, LastOf
      <4>2. i \in Nat
        BY OpenIs, InstantsAreNat DEF IInv
      <4>. QED
        BY <1>8, <4>1, <4>2
    <3>5. f .. t - 1 = Open(d)
      BY <3>3, <3>4
    <3>6. DateOf(b.from) = d
      BY <1>5, <1>7, <3>2 DEF StartsOn
    <3>. HIDE DEF left
    <3>. QED
      BY <1>5, <1>7, <2>5, <3>5, <3>6
  <2>7. ASSUME b.type = "multi_day"
        PROVE  \A i \in left(DateOf(b.from)) \cup left(DateOf(b.to - 1)) : i \in stay
    <3>1. PICK d \in Dates, e \in Dates : d = q.ask.from /\ e = q.ask.to
      BY <1>10, <2>7
    <3>2. StartsOn(f, d) /\ EndsOn(t, e) /\ d <= e
      BY <1>10, <2>7, <3>1
    <3>3. FirstOf(f, d) /\ LastOf(t, e)
      <4>1. Null # f /\ Null # t
        BY NullIsNoInstant
      <4>. QED
        BY <1>2, <1>5, <1>7, <2>1, <2>7, <3>1, <4>1 DEF Current, Sure
    <3>4. DateOf(f) = d /\ DateOf(t) = e /\ d \in Nat /\ e \in Nat
      BY <3>2, CalendarAssumption DEF StartsOn, EndsOn, Dates
    <3>5. ASSUME NEW i \in Open(d) PROVE i \in f .. t - 1
      <4>1. i \in Instants
        BY OpenIs DEF IInv
      <4>2. i \in Nat
        BY <4>1, InstantsAreNat
      <4>3. f <= i /\ DateOf(i) = d
        BY <3>3, <4>2, OpenIs DEF FirstOf, IInv
      <4>4. i < t
        <5>1. CASE d = e
          BY <3>3, <5>1 DEF LastOf
        <5>2. CASE d # e
          <6>1. SUFFICES ASSUME t <= i PROVE FALSE
            BY <1>8, <4>2
          <6>2. DateOf(t) <= DateOf(i)
            BY <1>8, <4>2, <6>1, DatesAscend
          <6>. QED
            BY <3>2, <3>4, <4>3, <5>2, <6>2
        <5>. QED
          BY <5>1, <5>2
      <4>. QED
        BY <1>8, <4>2, <4>3, <4>4
    <3>6. ASSUME NEW i \in Open(e) PROVE i \in f .. t - 1
      <4>1. i \in Instants
        BY OpenIs DEF IInv
      <4>2. i \in Nat
        BY <4>1, InstantsAreNat
      <4>3. i < t /\ DateOf(i) = e
        BY <3>3, <4>2, OpenIs DEF LastOf, IInv
      <4>4. f <= i
        <5>1. CASE d = e
          BY <3>3, <5>1 DEF FirstOf
        <5>2. CASE d # e
          <6>1. SUFFICES ASSUME i <= f PROVE FALSE
            BY <1>8, <4>2
          <6>2. DateOf(i) <= DateOf(f)
            BY <1>8, <4>2, <6>1, DatesAscend
          <6>. QED
            BY <3>2, <3>4, <4>3, <5>2, <6>2
        <5>. QED
          BY <5>1, <5>2
      <4>. QED
        BY <1>8, <4>2, <4>3, <4>4
    <3>7. DateOf(b.from) = d /\ DateOf(b.to - 1) = e
      BY <1>5, <1>7, <3>2 DEF StartsOn, EndsOn
    <3>8. left(DateOf(b.from)) = Open(d) /\ left(DateOf(b.to - 1)) = Open(e)
      BY <2>5, <3>7
    <3>. HIDE DEF left
    <3>. QED
      BY <1>5, <1>7, <3>5, <3>6, <3>8
  <2>8. OnOffer(b.from, b.to)
    BY <1>5, <1>7, <2>3
  <2>. QED
    BY <2>2, <2>6, <2>7, <2>8
<1>15. AsOffered(b, q.had)
  BY <1>12, <1>13, <1>14 DEF units, AsOffered
<1>16. req'[r] = Idle
  BY DEF InsertBooking, Done, Become, IInv, TypeOK
<1>. QED
  BY <1>1, <1>2, <1>5, <1>15, <1>16, IdleType

LEMMA InitKnown == Init => Known
BY IdleType, UnsureKnow DEF Init, Known, Sure

LEMMA KnownAlways == Spec => [](IInv /\ Known)
<1>1. Init => IInv /\ Known
  BY InitIInv, InitKnown
<1>2. IInv /\ Known /\ [Next]_vars => IInv' /\ Known'
  BY NextIInv, NextKnown
<1>. QED
  BY <1>1, <1>2, PTL DEF Spec

\* calculateBookingPrice and resolveInterval: a booking costs a rate that its own
\* type had at some time since the request began, for each hour or date or once,
\* and a half day lasts as long as its type said at some time since then, whatever
\* the host changes meanwhile; when requests follow one another, the price is that
\* of now and the stay is on offer and what its type says.
THEOREM Booked == Spec => BookedAsOffered
<1>. DEFINE NewOnes ==
              \A b \in booked' \ booked :
                \E r \in Requests :
                  req'[r] # req[r] /\ req[r].ask.type = b.type /\ AsOffered(b, req[r].had)
<1>1. ASSUME IInv, Known, [Next]_vars PROVE NewOnes
  <2>1. UNCHANGED booked \/ booked' \subseteq booked \/ \E r \in Requests : InsertBooking(r)
    BY <1>1 DEF Next, Host, vars, hours, DeleteRule, CreateRule, UpdateRule, DeleteOverride, CreateOverride,
           UpdateOverride, DeleteBlock, SaveBlock, DeletePricing, CreatePricing, UpdatePricing, EndBooking,
           BookBegin, ResolveTimes, ResolveDay, ResolveDays, CheckInterval, ReadPrice, Refuse, PatchBegin,
           DeleteTags, InsertTags
  <2>. QED
    BY <1>1, <2>1, InsertedAsOffered
<1>2. IInv /\ Known /\ [Next]_vars => NewOnes
  BY <1>1
<1>. QED
  BY <1>2, KnownAlways, PTL DEF Spec, BookedAsOffered

-----------------------------------------------------------------------------
(* What happens in the end                                                  *)

\* The steps of a request that is under way.
Step(r) ==
    \/ ResolveTimes(r) \/ ResolveDay(r) \/ ResolveDays(r) \/ CheckInterval(r)
    \/ ReadPrice(r) \/ InsertBooking(r) \/ Refuse(r)
    \/ DeleteTags(r) \/ InsertTags(r)

\* A request in progress goes on: Node resumes every await.
GoesOn(r) == []<>At(r, "idle") \/ []<><<Step(r)>>_vars
LiveSpec  == Spec /\ \A r \in Requests : GoesOn(r)

\* There are three tag tables: categories, amenities and use cases.
ThreeTables == IsFiniteSet(Kinds) /\ Cardinality(Kinds) <= 3

\* How many calls a request has still to make, at most.  Of several days, two
\* ends are to be resolved; of each kind of tags, the old are deleted and the
\* new inserted.
CallsLeft(r) ==
    LET l == req[r].pc
        more == Cardinality(req[r].todo) IN
    CASE l = "idle"    -> 0
      [] l = "insert"  -> 1
      [] l = "price"   -> 2
      [] l = "check"   -> 3
      [] l = "resolve" -> IF req[r].from = Null /\ req[r].to = Null THEN 5 ELSE 4
      [] l = "tag"     -> 2 * more + 1
      [] l = "untag"   -> 2 * more + 2

Within(r, k)   == CallsLeft(r) <= k
Falls(r, k, j) == [](Within(r, k) => <>Within(r, j))
Ends(r)        == []<>At(r, "idle")

\* Some of the tag tables.
LEMMA SomeTables ==
    ASSUME ThreeTables, NEW S \in SUBSET Kinds
    PROVE  /\ Cardinality(S) \in 0 .. 3
           /\ \A k \in S : /\ Cardinality(S \ {k}) \in 0 .. 3
                           /\ Cardinality(S \ {k}) = Cardinality(S) - 1
<1>1. /\ IsFiniteSet(S) /\ Cardinality(S) <= Cardinality(Kinds)
      /\ Cardinality(Kinds) \in Nat /\ Cardinality(S) \in Nat
  BY FS_Subset, FS_CardinalityType DEF ThreeTables
<1>2. Cardinality(S) \in 0 .. 3
  BY <1>1 DEF ThreeTables
<1>3. ASSUME NEW k \in S
      PROVE  Cardinality(S \ {k}) \in Nat /\ Cardinality(S \ {k}) = Cardinality(S) - 1
  BY <1>1, FS_RemoveElement, FS_CardinalityType
<1>. QED
  BY <1>1, <1>2, <1>3

LEMMA TablesStay == ThreeTables => ThreeTables'
BY DEF ThreeTables

LEMMA CallsBound ==
    ASSUME TypeOK, ThreeTables, NEW r \in Requests
    PROVE  CallsLeft(r) \in 0 .. 8 /\ (CallsLeft(r) = 0 <=> At(r, "idle"))
<1>1. req[r].pc \in Labels /\ Cardinality(req[r].todo) \in 0 .. 3
  BY SomeTables DEF TypeOK, Requesting
<1>2. PICK n \in 0 .. 3 : n = Cardinality(req[r].todo)
  BY <1>1
<1>3. 2 * n + 1 \in 1 .. 7 /\ 2 * n + 2 \in 2 .. 8
  BY <1>2
<1>. QED
  BY <1>1, <1>2, <1>3 DEF CallsLeft, At, Labels

\* What becomes of a request when it takes a step.
LEMMA BecomeIs ==
    ASSUME TypeOK, NEW r \in Requests, NEW s, Become(r, s)
    PROVE  req'[r] = s /\ \A q \in Requests \ {r} : req'[q] = req[q]
BY DEF Become, TypeOK

\* A request that is over has no calls left.
LEMMA DoneCalls ==
    ASSUME TypeOK, NEW r \in Requests, Done(r)
    PROVE  CallsLeft(r)' = 0 /\ \A q \in Requests \ {r} : req'[q] = req[q]
<1>1. req'[r] = Idle /\ \A q \in Requests \ {r} : req'[q] = req[q]
  BY BecomeIs DEF Done
<1>. QED
  BY <1>1, IdleType DEF CallsLeft

\* A request that goes on to the next kind of tags has one kind less to do.
LEMMA NextKindCalls ==
    ASSUME TypeOK, ThreeTables, NEW r \in Requests, NextKind(r)
    PROVE  /\ CallsLeft(r)' \in 0 .. 8
           /\ CallsLeft(r)' <= 2 * Cardinality(req[r].todo)
           /\ \A q \in Requests \ {r} : req'[q] = req[q]
<1>1. req[r] \in Requesting /\ Cardinality(req[r].todo) \in 0 .. 3
  BY SomeTables DEF TypeOK, Requesting
<1>2. CASE Done(r)
  BY <1>1, <1>2, DoneCalls
<1>3. ASSUME NEW k \in req[r].todo,
             Become(r, [req[r] EXCEPT !.pc = "untag", !.kind = k, !.todo = @ \ {k}])
      PROVE  /\ CallsLeft(r)' \in 0 .. 8
             /\ CallsLeft(r)' <= 2 * Cardinality(req[r].todo)
             /\ \A q \in Requests \ {r} : req'[q] = req[q]
  <2> DEFINE s == [req[r] EXCEPT !.pc = "untag", !.kind = k, !.todo = @ \ {k}]
  <2>1. s.pc = "untag" /\ s.todo = req[r].todo \ {k}
    BY <1>1 DEF Requesting
  <2>2. Become(r, s)
    BY <1>3
  <2> HIDE DEF s
  <2>3. /\ req'[r].pc = "untag" /\ req'[r].todo = req[r].todo \ {k}
        /\ \A q \in Requests \ {r} : req'[q] = req[q]
    BY <2>1, <2>2, BecomeIs
  <2>4. CallsLeft(r)' = 2 * Cardinality(req[r].todo \ {k}) + 2
    BY <2>3 DEF CallsLeft
  <2>5. /\ Cardinality(req[r].todo \ {k}) \in 0 .. 3
        /\ Cardinality(req[r].todo \ {k}) = Cardinality(req[r].todo) - 1
    BY <1>1, <1>3, SomeTables DEF Requesting
  <2>. QED
    BY <1>1, <2>3, <2>4, <2>5
<1>. QED
  BY <1>2, <1>3 DEF NextKind

\* Every call of a booking request leaves it with fewer to come.
LEMMA BookingStepsDown ==
    ASSUME IInv, ThreeTables, NEW r \in Requests,
           \/ ResolveTimes(r) \/ ResolveDay(r) \/ ResolveDays(r)
           \/ CheckInterval(r) \/ ReadPrice(r) \/ InsertBooking(r) \/ Refuse(r)
    PROVE  /\ CallsLeft(r)' \in 0 .. 8 /\ CallsLeft(r)' < CallsLeft(r)
           /\ \A q \in Requests \ {r} : req'[q] = req[q]
<1>0. TypeOK /\ Shape /\ req[r] \in Requesting
  BY DEF IInv, TypeOK
<1>1. ASSUME NEW s, Become(r, s), NEW l \in Labels, s.pc = l
      PROVE  /\ req'[r] = s /\ req'[r].pc = l
             /\ \A q \in Requests \ {r} : req'[q] = req[q]
  BY <1>0, <1>1, BecomeIs
<1>2. CASE ResolveTimes(r) \/ ResolveDay(r)
  <2>1. PICK f, t : Become(r, [req[r] EXCEPT !.pc = "check", !.from = f, !.to = t])
    BY <1>2 DEF ResolveTimes, ResolveDay
  <2>2. [req[r] EXCEPT !.pc = "check", !.from = f, !.to = t].pc = "check"
    BY <1>0 DEF Requesting
  <2>3. req'[r].pc = "check" /\ \A q \in Requests \ {r} : req'[q] = req[q]
    BY <1>1, <2>1, <2>2 DEF Labels
  <2>4. req[r].pc = "resolve"
    BY <1>2 DEF ResolveTimes, ResolveDay, At
  <2>. QED
    BY <2>3, <2>4 DEF CallsLeft
<1>3. CASE ResolveDays(r)
  <2>1. req[r].pc = "resolve" /\ req[r].ask.type = "multi_day"
    BY <1>3 DEF ResolveDays, At
  <2>2. req[r].ask.from \in Dates /\ req[r].ask.to \in Dates
    BY <1>0, <2>1, AsksAre DEF Shape
  <2>3. CASE /\ req[r].from = Null /\ Windows(req[r].ask.from) # {}
             /\ Become(r, [req[r] EXCEPT !.from = Earliest(req[r].ask.from),
                                         !.pc = IF req[r].to # Null THEN "check" ELSE @])
    <3> DEFINE s == [req[r] EXCEPT !.from = Earliest(req[r].ask.from),
                                   !.pc = IF req[r].to # Null THEN "check" ELSE @]
    <3>1. Earliest(req[r].ask.from) # Null
      <4>1. Earliest(req[r].ask.from) \in Nat
        BY <1>0, <2>2, <2>3, EndsAre
      <4>. QED
        BY <4>1 DEF Null
    <3>2. s.from # Null /\ s.pc = IF req[r].to # Null THEN "check" ELSE "resolve"
      BY <1>0, <2>1, <3>1 DEF Requesting
    <3>3. Become(r, s)
      BY <2>3
    <3> HIDE DEF s
    <3>4. req'[r] = s /\ \A q \in Requests \ {r} : req'[q] = req[q]
      BY <1>0, <3>3, BecomeIs
    <3>. QED
      BY <2>1, <2>3, <3>2, <3>4 DEF CallsLeft
  <2>4. CASE /\ req[r].to = Null /\ Windows(req[r].ask.to) # {}
             /\ Become(r, [req[r] EXCEPT !.to = Latest(req[r].ask.to),
                                         !.pc = IF req[r].from # Null THEN "check" ELSE @])
    <3> DEFINE s == [req[r] EXCEPT !.to = Latest(req[r].ask.to),
                                   !.pc = IF req[r].from # Null THEN "check" ELSE @]
    <3>1. Latest(req[r].ask.to) # Null
      <4>1. Latest(req[r].ask.to) \in Nat
        BY <1>0, <2>2, <2>4, EndsAre
      <4>. QED
        BY <4>1 DEF Null
    <3>2. s.to # Null /\ s.pc = IF req[r].from # Null THEN "check" ELSE "resolve"
      BY <1>0, <2>1, <3>1 DEF Requesting
    <3>3. Become(r, s)
      BY <2>4
    <3> HIDE DEF s
    <3>4. req'[r] = s /\ \A q \in Requests \ {r} : req'[q] = req[q]
      BY <1>0, <3>3, BecomeIs
    <3>. QED
      BY <2>1, <2>4, <3>2, <3>4 DEF CallsLeft
  <2>. QED
    BY <1>3, <2>3, <2>4 DEF ResolveDays
<1>4. CASE CheckInterval(r)
  <2>1. [req[r] EXCEPT !.pc = "price"].pc = "price"
    BY <1>0 DEF Requesting
  <2>2. req[r].pc = "check" /\ Become(r, [req[r] EXCEPT !.pc = "price"])
    BY <1>4 DEF CheckInterval, At
  <2>3. req'[r].pc = "price" /\ \A q \in Requests \ {r} : req'[q] = req[q]
    BY <1>1, <2>1, <2>2 DEF Labels
  <2>. QED
    BY <2>2, <2>3 DEF CallsLeft
<1>5. CASE ReadPrice(r)
  <2>1. PICK n : Become(r, [req[r] EXCEPT !.pc = "insert", !.total = n])
    BY <1>5 DEF ReadPrice
  <2>2. [req[r] EXCEPT !.pc = "insert", !.total = n].pc = "insert"
    BY <1>0 DEF Requesting
  <2>3. req'[r].pc = "insert" /\ \A q \in Requests \ {r} : req'[q] = req[q]
    BY <1>1, <2>1, <2>2 DEF Labels
  <2>4. req[r].pc = "price"
    BY <1>5 DEF ReadPrice, At
  <2>. QED
    BY <2>3, <2>4 DEF CallsLeft
<1>6. CASE InsertBooking(r) \/ Refuse(r)
  <2>1. Done(r) /\ ~At(r, "idle")
    BY <1>6 DEF InsertBooking, Refuse, At
  <2>2. CallsLeft(r)' = 0 /\ \A q \in Requests \ {r} : req'[q] = req[q]
    BY <1>0, <2>1, DoneCalls
  <2>3. CallsLeft(r) \in 0 .. 8 /\ CallsLeft(r) # 0
    BY <1>0, <2>1, CallsBound
  <2>. QED
    BY <2>2, <2>3
<1>. QED
  BY <1>2, <1>3, <1>4, <1>5, <1>6

\* So does every call of a PATCH of the tags.
LEMMA TagsStepDown ==
    ASSUME IInv, ThreeTables, NEW r \in Requests, DeleteTags(r) \/ InsertTags(r)
    PROVE  /\ CallsLeft(r)' \in 0 .. 8 /\ CallsLeft(r)' < CallsLeft(r)
           /\ \A q \in Requests \ {r} : req'[q] = req[q]
<1>0. TypeOK /\ req[r] \in Requesting /\ Cardinality(req[r].todo) \in 0 .. 3
  BY SomeTables DEF IInv, TypeOK, Requesting
<1>1. PICK n \in 0 .. 3 : n = Cardinality(req[r].todo)
  BY <1>0
<1>2. /\ req[r].pc = "tag" => CallsLeft(r) = 2 * n + 1
      /\ req[r].pc = "untag" => CallsLeft(r) = 2 * n + 2
  BY <1>1 DEF CallsLeft
<1>3. /\ 2 * n \in 0 .. 6
      /\ 2 * n + 1 \in 0 .. 8 /\ 2 * n + 2 \in 0 .. 8
  BY <1>1
<1>4. NextKind(r) => /\ CallsLeft(r)' \in 0 .. 8 /\ CallsLeft(r)' <= 2 * n
                     /\ \A q \in Requests \ {r} : req'[q] = req[q]
  BY <1>0, <1>1, NextKindCalls
<1>5. Done(r) => CallsLeft(r)' = 0 /\ \A q \in Requests \ {r} : req'[q] = req[q]
  BY <1>0, DoneCalls
<1>6. CASE DeleteTags(r) /\ req[r].choice # {}
  <2> DEFINE s == [req[r] EXCEPT !.pc = "tag"]
  <2>1. s.pc = "tag" /\ s.todo = req[r].todo
    BY <1>0 DEF Requesting
  <2>2. req[r].pc = "untag" /\ Become(r, s)
    BY <1>6 DEF DeleteTags, At
  <2> HIDE DEF s
  <2>3. req'[r] = s /\ \A q \in Requests \ {r} : req'[q] = req[q]
    BY <1>0, <2>2, BecomeIs
  <2>4. CallsLeft(r)' = 2 * n + 1
    BY <1>1, <2>1, <2>3 DEF CallsLeft
  <2>. QED
    BY <1>1, <1>2, <1>3, <2>2, <2>3, <2>4
<1>7. CASE DeleteTags(r) /\ req[r].choice = {}
  <2>1. req[r].pc = "untag" /\ NextKind(r)
    BY <1>7 DEF DeleteTags, At
  <2>. QED
    BY <1>1, <1>2, <1>3, <1>4, <2>1
<1>8. CASE InsertTags(r)
  <2>1. req[r].pc = "tag" /\ (NextKind(r) \/ Done(r))
    BY <1>8 DEF InsertTags, At
  <2>. QED
    BY <1>1, <1>2, <1>3, <1>4, <1>5, <2>1
<1>. QED
  BY <1>6, <1>7, <1>8

LEMMA StepsDown ==
    ASSUME IInv, ThreeTables, NEW r \in Requests, Step(r)
    PROVE  /\ CallsLeft(r)' \in 0 .. 8 /\ CallsLeft(r)' < CallsLeft(r)
           /\ \A q \in Requests \ {r} : req'[q] = req[q]
BY BookingStepsDown, TagsStepDown DEF Step

\* No step of anybody gives a request in progress more calls.
LEMMA NeverMore ==
    ASSUME IInv, ThreeTables, [Next]_vars, NEW r \in Requests, ~At(r, "idle")
    PROVE  CallsLeft(r)' \in 0 .. 8 /\ CallsLeft(r)' <= CallsLeft(r)
<1>0. CallsLeft(r) \in 0 .. 8 /\ TypeOK
  BY CallsBound DEF IInv
<1>1. CASE req'[r] = req[r]
  <2>1. CallsLeft(r)' = CallsLeft(r)
    BY <1>1 DEF CallsLeft
  <2>. QED
    BY <1>0, <2>1
<1>2. ASSUME NEW q \in Requests, Step(q)
      PROVE  CallsLeft(r)' \in 0 .. 8 /\ CallsLeft(r)' <= CallsLeft(r)
  <2>1. CASE q = r
    BY <1>0, <1>2, <2>1, StepsDown
  <2>2. CASE q # r
    BY <1>1, <1>2, <2>2, StepsDown
  <2>. QED
    BY <2>1, <2>2
<1>3. ASSUME NEW q \in Requests, NEW s, MayBegin(q), Become(q, s)
      PROVE  req'[r] = req[r]
  BY <1>0, <1>3, BecomeIs DEF MayBegin
<1>4. ASSUME NEW q \in Requests,
             \/ \E ask \in Asks : BookBegin(q, ask)
             \/ \E kinds \in SUBSET Kinds, choice \in Choices :
                  PatchBegin(q, kinds, choice) \/ PatchBegin(q, kinds, choice \cup {Bad})
      PROVE  req'[r] = req[r]
  <2>1. MayBegin(q) /\ \E s : Become(q, s)
    BY <1>4 DEF BookBegin, PatchBegin
  <2>. QED
    BY <1>3, <2>1
<1>5. CASE UNCHANGED req
  BY <1>1, <1>5
<1>6. ASSUME NEW type, NEW p \in PriceWords, Remembered(type, p)
      PROVE  CallsLeft(r)' \in 0 .. 8 /\ CallsLeft(r)' <= CallsLeft(r)
  <2>1. /\ req'[r].pc = req[r].pc /\ req'[r].todo = req[r].todo
        /\ req'[r].from = req[r].from /\ req'[r].to = req[r].to
    BY <1>0, <1>6, RememberedIs
  <2>2. CallsLeft(r)' = CallsLeft(r)
    BY <2>1 DEF CallsLeft
  <2>. QED
    BY <1>0, <2>2
<1>. QED
  BY <1>1, <1>2, <1>4, <1>5, <1>6 DEF Next, Host, vars, Step, DeleteRule, CreateRule, UpdateRule,
     DeleteOverride, CreateOverride, UpdateOverride, DeleteBlock, SaveBlock, DeletePricing,
     CreatePricing, UpdatePricing, EndBooking

\* A request that goes on comes one call nearer to its end.
LEMMA Descends ==
    ASSUME NEW r \in Requests, NEW j \in 0 .. 7, NEW k, k = j + 1
    PROVE  Spec /\ ThreeTables /\ GoesOn(r) => Falls(r, k, j)
<1>1. IInv /\ ThreeTables /\ At(r, "idle") => Within(r, j)
  BY CallsBound DEF Within, IInv
<1>2. IInv /\ ThreeTables /\ [Next]_vars /\ Within(r, k) /\ ~Within(r, j) => Within(r, k)'
  <2> SUFFICES ASSUME IInv, ThreeTables, [Next]_vars, Within(r, k), ~Within(r, j)
               PROVE  Within(r, k)'
    OBVIOUS
  <2>1. CallsLeft(r)' <= CallsLeft(r) /\ CallsLeft(r)' \in 0 .. 8
    BY <1>1, NeverMore
  <2>2. CallsLeft(r) \in 0 .. 8
    BY CallsBound DEF IInv
  <2> QED
    BY <2>1, <2>2 DEF Within
<1>3. IInv /\ ThreeTables /\ <<Step(r)>>_vars /\ Within(r, k) => Within(r, j)'
  <2> SUFFICES ASSUME IInv, ThreeTables, Step(r), Within(r, k) PROVE Within(r, j)'
    OBVIOUS
  <2>1. CallsLeft(r)' < CallsLeft(r) /\ CallsLeft(r)' \in 0 .. 8
    BY StepsDown
  <2>2. CallsLeft(r) \in 0 .. 8
    BY CallsBound DEF IInv
  <2> QED
    BY <2>1, <2>2 DEF Within
<1> QED
  BY <1>1, <1>2, <1>3, TablesStay, Inductive, PTL DEF Spec, GoesOn, Falls

LEMMA RequestEnds ==
    ASSUME NEW r \in Requests
    PROVE  Spec /\ ThreeTables /\ GoesOn(r) => Ends(r)
<1>1. Spec /\ ThreeTables /\ GoesOn(r) =>
        /\ Falls(r, 8, 7) /\ Falls(r, 7, 6) /\ Falls(r, 6, 5) /\ Falls(r, 5, 4)
        /\ Falls(r, 4, 3) /\ Falls(r, 3, 2) /\ Falls(r, 2, 1) /\ Falls(r, 1, 0)
  BY Descends
<1>2. IInv /\ ThreeTables => Within(r, 8) /\ (Within(r, 0) => At(r, "idle"))
  BY CallsBound DEF Within, IInv
<1> QED
  BY <1>1, <1>2, TablesStay, Inductive, PTL DEF Falls, Ends

\* createBooking and replaceTags: every request comes to its end, for any number
\* of them, whatever the host changes meanwhile and whatever fails; with the
\* three tag tables there are, and a calendar of any length.
EveryRequestEnds == \A r \in Requests : Ends(r)

THEOREM RequestsEnd == LiveSpec /\ ThreeTables => EveryRequestEnds
BY RequestEnds DEF LiveSpec, EveryRequestEnds
=============================================================================
