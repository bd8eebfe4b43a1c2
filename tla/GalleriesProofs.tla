-------------------------- MODULE GalleriesProofs ---------------------------
(***************************************************************************)
(* What module Galleries promises for every set of media, sections and      *)
(* requests.                                                                *)
(*                                                                          *)
(* Positions differ because whoever holds a gallery's lock has a position   *)
(* beyond all others (Fresh), and nobody else adds to that gallery (Alone). *)
(* A reorder takes no lock; in executions without overlap nothing comes     *)
(* between its check and its writes (Whole).  A section outlives its photos *)
(* by the foreign key, seen from both of its ends.                          *)
(*                                                                          *)
(* Two promises have an invariant of their own on top: what is shown is     *)
(* stored (Stocked), and the sections there are and those announced stay    *)
(* within the cap and what requests may overshoot it by (Counted).          *)
(* The refinement of Album follows from all of these (AskedAlone).  At the  *)
(* end: nobody waits for a gallery's lock for ever, and every request ends. *)
(***************************************************************************)
EXTENDS Galleries, FiniteSetTheorems, TLAPS

\* What a request holds fits what it is about to do.
Held(r) ==
    LET c == req[r] IN
    /\ c.pc \in {"find", "head", "lock", "insert", "deleteObject", "deleteRow"} =>
         c.m \in Media
    /\ c.pc \in {"countMedia", "deleteSection"} => c.g \in Sections
    /\ c.pc \in {"find", "head", "lock"} /\ "stated" \notin may => c.at = Unstated
    /\ c.pc \in {"readGallery", "check", "renumber"} => "reorder" \in may
    /\ c.pc \in {"deleteObject", "deleteRow"} => "delete" \in may

\* The position about to be inserted is beyond the gallery's.
Fresh(r) ==
    At(r, "insert") /\ Ordered => \A m \in Rows(req[r].g) : pos[m] < req[r].at

\* Without overlap, the order about to be written names the whole gallery.
Whole(r) ==
    At(r, "renumber") /\ "race" \notin may => Rows(req[r].g) = DOMAIN req[r].order

\* Two requests overlap only where they may, and hold different locks.
Alone(r, q) ==
    /\ "race" \in may \/ At(r, "idle") \/ At(q, "idle")
    /\ At(r, "insert") /\ At(q, "insert") => req[r].g # req[q].g

IInv ==
    /\ TypeOK
    /\ \A r \in Requests : Held(r) /\ Fresh(r) /\ Whole(r)
    /\ \A r, q \in Requests : r # q => Alone(r, q)
    /\ PlacesDiffer
    /\ SectionsOutlive

-----------------------------------------------------------------------------
(* Orders and calls.                                                        *)

\* An order gives each of its media a position of its own that fits the column.
LEMMA OrderFacts ==
    ASSUME NEW S \in SUBSET Media, NEW o \in Orders(S)
    PROVE  /\ DOMAIN o = S
           /\ \A m \in S : o[m] \in Positions
           /\ \A m, n \in S : o[m] = o[n] => m = n
<1>1. o \in [S -> 0 .. Cardinality(S) - 1] /\ IsInjective(o)
  BY DEF Orders, Bijection, Injection
<1>2. Cardinality(S) <= Cardinality(Media) /\ IsFiniteSet(S)
  BY FS_Subset, BoundsAssumption
<1>3. Cardinality(S) \in Nat /\ Cardinality(Media) \in Nat
  BY <1>2, FS_CardinalityType, BoundsAssumption
<1>4. 0 .. Cardinality(S) - 1 \subseteq Positions
  BY <1>2, <1>3, BoundsAssumption DEF Positions
<1> QED
  BY <1>1, <1>4 DEF IsInjective

\* The order of a call that has none.
LEMMA NoOrderType == NoOrder \in Orders({})
<1>1. Cardinality({}) = 0
  BY FS_EmptySet
<1>2. NoOrder \in [{} -> 0 .. Cardinality({}) - 1]
  BY DEF NoOrder
<1> QED
  BY <1>1, <1>2 DEF Orders, Bijection, Injection, Surjection, IsInjective, NoOrder

\* A call with no order is a state of a request.
LEMMA CallType ==
    ASSUME NEW pc \in Labels, NEW m \in Media \cup {NoMedium}, NEW g \in Places,
           NEW at \in Unstated .. MaxPosition + 1
    PROVE  Call(pc, m, g, at, NoOrder) \in RequestStates
BY NoOrderType DEF Call, RequestStates

LEMMA IdleType == Idle \in RequestStates
BY CallType, BoundsAssumption DEF Idle, Labels, Places, Unstated

\* What a request becomes; the others stay as they were.
LEMMA RequestTypes ==
    ASSUME TypeOK, NEW r \in Requests, NEW s \in RequestStates, Become(r, s)
    PROVE  /\ req' \in [Requests -> RequestStates]
           /\ req'[r] = s
           /\ \A q \in Requests \ {r} : req'[q] = req[q]
BY DEF TypeOK, Become

LEMMA GotoTypes ==
    ASSUME TypeOK, NEW r \in Requests, NEW label \in Labels, Goto(r, label)
    PROVE  /\ req' \in [Requests -> RequestStates]
           /\ req'[r] = [req[r] EXCEPT !.pc = label]
           /\ \A q \in Requests \ {r} : req'[q] = req[q]
BY DEF TypeOK, Goto, RequestStates

\* A request at work is alone where requests may not overlap.
LEMMA AtWork ==
    ASSUME IInv, NEW r \in Requests, ~At(r, "idle") \/ Free(r), "race" \notin may
    PROVE  \A q \in Requests \ {r} : At(q, "idle")
BY DEF IInv, Alone, Free, AllIdle

-----------------------------------------------------------------------------
(* Steps.                                                                   *)

\* A step that changes requests and objects only, and leaves its own request as
\* it should be, keeps the invariant.
LEMMA QuietStep ==
    ASSUME IInv, NEW r \in Requests, ~At(r, "idle") \/ Free(r),
           UNCHANGED <<may, gallery, pos, section>>,
           object' \subseteq Media,
           req' \in [Requests -> RequestStates],
           \A q \in Requests \ {r} : req'[q] = req[q],
           Held(r)', Fresh(r)', Whole(r)',
           req'[r].pc = "insert" =>
             \A q \in Requests \ {r} : ~(At(q, "insert") /\ req[q].g = req'[r].g)
    PROVE  IInv'
<1>1. TypeOK'
  BY DEF IInv, TypeOK
<1>2. ASSUME NEW q \in Requests \ {r} PROVE Held(q)' /\ Fresh(q)' /\ Whole(q)'
  BY <1>2 DEF IInv, Held, Fresh, Whole, At, Rows, Ordered
<1>3. ASSUME NEW p \in Requests, NEW q \in Requests, p # q PROVE Alone(p, q)'
  <2>1. "race" \in may \/ \A x \in Requests \ {r} : At(x, "idle")
    BY AtWork
  <2>2. "race" \in may' \/ At(p, "idle")' \/ At(q, "idle")'
    BY <1>3, <2>1 DEF At
  <2>3. CASE p # r /\ q # r
    BY <1>3, <2>2, <2>3 DEF IInv, Alone, At
  <2>4. CASE p = r \/ q = r
    BY <1>3, <2>2, <2>4 DEF Alone, At
  <2> QED
    BY <2>3, <2>4
<1>4. PlacesDiffer' /\ SectionsOutlive'
  BY DEF IInv, PlacesDiffer, Ordered, SectionsOutlive, There, Made
<1> QED
  BY <1>1, <1>2, <1>3, <1>4 DEF IInv

\* A request that ends without touching a row.
LEMMA EndsQuietly ==
    ASSUME IInv, NEW r \in Requests, ~At(r, "idle") \/ Free(r), Done(r),
           UNCHANGED <<may, object, gallery, pos, section>>
    PROVE  IInv'
<1>1. /\ req' \in [Requests -> RequestStates] /\ req'[r] = Idle
      /\ \A q \in Requests \ {r} : req'[q] = req[q]
  BY IdleType, RequestTypes DEF Done, IInv
<1>2. Held(r)' /\ Fresh(r)' /\ Whole(r)' /\ req'[r].pc = "idle"
  BY <1>1 DEF Held, Fresh, Whole, At, Idle, Call
<1> QED
  BY <1>1, <1>2, QuietStep DEF IInv, TypeOK

\* A request that goes on to a call that neither inserts nor renumbers.
LEMMA GoesQuietly ==
    ASSUME IInv, NEW r \in Requests, ~At(r, "idle") \/ Free(r),
           NEW s \in RequestStates, Become(r, s),
           s.pc \notin {"insert", "renumber"}, Held(r)',
           UNCHANGED <<may, gallery, pos, section>>, object' \subseteq Media
    PROVE  IInv'
<1>1. /\ req' \in [Requests -> RequestStates] /\ req'[r] = s
      /\ \A q \in Requests \ {r} : req'[q] = req[q]
  BY RequestTypes DEF IInv
<1>2. Fresh(r)' /\ Whole(r)'
  BY <1>1 DEF Fresh, Whole, At
<1> QED
  BY <1>1, <1>2, QuietStep

\* What is left of the invariant once request r is done, whatever it wrote.
LEMMA DoneFacts ==
    ASSUME IInv, NEW r \in Requests, ~At(r, "idle"), Done(r), may' = may
    PROVE  /\ req' \in [Requests -> RequestStates]
           /\ At(r, "idle")'
           /\ \A q \in Requests \ {r} : req'[q] = req[q]
           /\ \A q \in Requests : Held(q)'
           /\ \A p, q \in Requests : p # q => Alone(p, q)'
           /\ "race" \notin may => \A q \in Requests : At(q, "idle")'
<1>1. /\ req' \in [Requests -> RequestStates] /\ req'[r] = Idle
      /\ \A q \in Requests \ {r} : req'[q] = req[q]
  BY IdleType, RequestTypes DEF Done, IInv
<1>2. At(r, "idle")'
  BY <1>1 DEF At, Idle, Call
<1>3. ASSUME NEW q \in Requests PROVE Held(q)'
  <2>1. CASE q = r
    BY <1>1, <2>1 DEF Held, Idle, Call
  <2>2. CASE q # r
    BY <1>1, <2>2 DEF IInv, Held
  <2> QED
    BY <2>1, <2>2
<1>4. "race" \in may \/ \A q \in Requests : At(q, "idle")'
  BY <1>1, <1>2, AtWork DEF At
<1>5. ASSUME NEW p \in Requests, NEW q \in Requests, p # q PROVE Alone(p, q)'
  BY <1>1, <1>2, <1>4, <1>5 DEF IInv, Alone, At
<1> QED
  BY <1>1, <1>2, <1>3, <1>4, <1>5

\* A completion: the new row is in a gallery that is there, beyond the others of
\* its gallery, and in no other gallery that somebody is adding to.
LEMMA InsertStep ==
    ASSUME IInv, NEW r \in Requests, Insert(r)
    PROVE  IInv'
<1> DEFINE c == req[r]
<1>1. ~At(r, "idle") /\ Done(r) /\ UNCHANGED <<may, object, section>>
  BY DEF Insert, At
<1>2. CASE UNCHANGED <<gallery, pos>>
  BY <1>1, <1>2, EndsQuietly
<1>3. CASE /\ gallery[c.m] = NoGallery /\ There(c.g) /\ c.at \in Positions
           /\ gallery' = [gallery EXCEPT ![c.m] = c.g]
           /\ pos' = [pos EXCEPT ![c.m] = c.at]
  <2>1. c.m \in Media /\ c.g \in Places
    BY DEF IInv, Held, Insert, At, TypeOK, RequestStates
  <2>2. TypeOK'
    BY <1>1, <1>3, <2>1, DoneFacts DEF IInv, TypeOK
  <2>3. ASSUME NEW q \in Requests PROVE Fresh(q)' /\ Whole(q)'
    <3>1. CASE q = r
      BY <1>1, <3>1, DoneFacts DEF Fresh, Whole, At
    <3>2. CASE q # r
      <4>1. req'[q] = req[q] /\ Fresh(q) /\ Alone(q, r) /\ At(r, "insert")
        BY <1>1, <3>2, DoneFacts DEF IInv, Insert
      <4>2. Whole(q)'
        BY <1>1, DoneFacts DEF Whole, At
      <4>3. Fresh(q)'
        <5> SUFFICES ASSUME At(q, "insert"), Ordered, NEW m \in Media,
                            gallery'[m] = req[q].g
                     PROVE  pos'[m] < req[q].at
          BY <1>1, <4>1 DEF Fresh, At, Ordered, Rows
        <5>1. req[q].g # c.g
          BY <4>1 DEF Alone
        <5>2. m # c.m /\ gallery'[m] = gallery[m] /\ pos'[m] = pos[m]
          BY <1>3, <2>1, <5>1 DEF IInv, TypeOK
        <5> QED
          BY <4>1, <5>2 DEF Fresh, Rows
      <4> QED
        BY <4>2, <4>3
    <3> QED
      BY <3>1, <3>2
  <2>4. PlacesDiffer'
    <3> SUFFICES ASSUME Ordered, NEW m \in Media, NEW n \in Media, m # n,
                        gallery'[m] = gallery'[n], gallery'[m] # NoGallery
                 PROVE  pos'[m] # pos'[n]
      BY <1>1 DEF PlacesDiffer, Ordered, NoGallery
    <3>1. Fresh(r) /\ At(r, "insert") /\ c.at \in Int /\ pos[m] \in Int /\ pos[n] \in Int
      BY <1>3, BoundsAssumption DEF IInv, Insert, TypeOK, Positions
    <3>2. CASE m = c.m
      <4>1. pos'[m] = c.at /\ pos'[n] = pos[n] /\ gallery[n] = c.g
        BY <1>3, <3>2 DEF IInv, TypeOK
      <4> QED
        BY <3>1, <4>1 DEF Fresh, Rows
    <3>3. CASE n = c.m
      <4>1. pos'[n] = c.at /\ pos'[m] = pos[m] /\ gallery[m] = c.g
        BY <1>3, <3>3 DEF IInv, TypeOK
      <4> QED
        BY <3>1, <4>1 DEF Fresh, Rows
    <3>4. CASE m # c.m /\ n # c.m
      BY <1>3, <3>4 DEF IInv, TypeOK, PlacesDiffer, Ordered
    <3> QED
      BY <3>2, <3>3, <3>4
  <2>5. SectionsOutlive'
    BY <1>1, <1>3, <2>1 DEF IInv, TypeOK, SectionsOutlive, There, Made
  <2> QED
    BY <1>1, <2>2, <2>3, <2>4, <2>5, DoneFacts DEF IInv
<1> QED
  BY <1>2, <1>3 DEF Insert
\* A reorder: where it is to keep positions apart it has the house to itself, so
\* that all rows of its gallery are renumbered, and those of others are not.
LEMMA RenumberStep ==
    ASSUME IInv, NEW r \in Requests, Renumber(r)
    PROVE  IInv'
<1> DEFINE c == req[r]
           S == DOMAIN c.order \cap Rows(c.g)
<1>1. ~At(r, "idle") /\ Done(r) /\ UNCHANGED <<may, object, gallery, section>>
  BY DEF Renumber, At
<1>2. CASE UNCHANGED pos
  BY <1>1, <1>2, EndsQuietly
<1>3. CASE pos' = [m \in Media |-> IF m \in S THEN c.order[m] ELSE pos[m]]
  <2>1. PICK D \in SUBSET Media : c.order \in Orders(D)
    BY DEF IInv, TypeOK, RequestStates
  <2>2. /\ DOMAIN c.order = D
        /\ \A m \in D : c.order[m] \in Positions
        /\ \A m, n \in D : c.order[m] = c.order[n] => m = n
    BY <2>1, OrderFacts
  <2>3. \A m \in Media : pos'[m] = IF m \in S THEN c.order[m] ELSE pos[m]
    BY <1>3
  <2>4. TypeOK'
    <3>1. pos' \in [Media -> Positions]
      BY <1>3, <2>2 DEF IInv, TypeOK
    <3> QED
      BY <1>1, <3>1, DoneFacts DEF IInv, TypeOK
  <2>5. Ordered => "race" \notin may
    BY DEF IInv, Held, Ordered, Renumber, At
  <2>6. ASSUME NEW q \in Requests PROVE Fresh(q)' /\ Whole(q)'
    BY <1>1, <2>5, DoneFacts DEF Fresh, Whole, At, Ordered
  <2>7. PlacesDiffer'
    <3> SUFFICES ASSUME Ordered, NEW m \in Media, NEW n \in Media, m # n,
                        gallery[m] = gallery[n], gallery[m] # NoGallery
                 PROVE  pos'[m] # pos'[n]
      BY <1>1 DEF PlacesDiffer, Ordered, NoGallery
    <3>1. CASE gallery[m] = c.g
      <4>1. m \in S /\ n \in S
        BY <2>5, <3>1 DEF IInv, Whole, Renumber, Rows
      <4> QED
        BY <2>2, <2>3, <4>1
    <3>2. CASE gallery[m] # c.g
      <4>1. pos'[m] = pos[m] /\ pos'[n] = pos[n]
        BY <2>3, <3>2 DEF Rows
      <4> QED
        BY <4>1 DEF IInv, PlacesDiffer, Ordered
    <3> QED
      BY <3>1, <3>2
  <2>8. SectionsOutlive'
    BY <1>1 DEF IInv, SectionsOutlive, There, Made
  <2> QED
    BY <1>1, <2>4, <2>6, <2>7, <2>8, DoneFacts DEF IInv
<1> QED
  BY <1>2, <1>3 DEF Renumber

\* A deletion takes a row away, from wherever it is by now.
LEMMA DeleteRowStep ==
    ASSUME IInv, NEW r \in Requests, DeleteRow(r)
    PROVE  IInv'
<1> DEFINE x == req[r].m
<1>1. ~At(r, "idle") /\ Done(r) /\ UNCHANGED <<may, object, section>>
  BY DEF DeleteRow, At
<1>2. /\ gallery' = [gallery EXCEPT ![x] = NoGallery]
      /\ pos' = [pos EXCEPT ![x] = 0] /\ x \in Media
  BY DEF DeleteRow, IInv, Held, At
<1>3. \A m \in Media \ {x} : gallery'[m] = gallery[m] /\ pos'[m] = pos[m]
  BY <1>2 DEF IInv, TypeOK
<1>4. gallery'[x] = NoGallery /\ pos'[x] = 0
  BY <1>2 DEF IInv, TypeOK
<1>5. TypeOK'
  <2>1. 0 \in Positions
    BY BoundsAssumption DEF Positions
  <2> QED
    BY <1>1, <1>2, <2>1, DoneFacts DEF IInv, TypeOK
<1>6. \A g \in Places : Rows(g)' = Rows(g) \ {x}
  BY <1>3, <1>4, NamesAssumption DEF Rows, Places, NoGallery
<1>7. ASSUME NEW q \in Requests PROVE Fresh(q)' /\ Whole(q)'
  <2>1. CASE q = r
    BY <1>1, <2>1, DoneFacts DEF Fresh, Whole, At
  <2>2. CASE q # r
    <3>1. req'[q] = req[q] /\ req[q].g \in Places /\ Fresh(q) /\ Whole(q)
      BY <1>1, <2>2, DoneFacts DEF IInv, TypeOK, RequestStates
    <3>2. Rows(req[q].g)' = Rows(req[q].g) \ {x}
      BY <1>6, <3>1
    <3>3. Whole(q)'
      BY <1>1, DoneFacts DEF Whole, At
    <3>4. Fresh(q)'
      <4> SUFFICES ASSUME At(q, "insert"), Ordered, NEW m \in Rows(req[q].g) \ {x}
                   PROVE  pos'[m] < req[q].at
        BY <1>1, <1>3, <1>4, <3>1, NamesAssumption DEF Fresh, At, Ordered, Rows, Places, NoGallery
      <4> QED
        BY <1>3, <3>1 DEF Fresh, Rows
    <3> QED
      BY <3>3, <3>4
  <2> QED
    BY <2>1, <2>2
<1>8. PlacesDiffer' /\ SectionsOutlive'
  BY <1>1, <1>3, <1>4 DEF IInv, PlacesDiffer, Ordered, SectionsOutlive, There, Made, NoGallery
<1> QED
  BY <1>1, <1>5, <1>7, <1>8, DoneFacts DEF IInv

\* A section is made, or goes; no photo is in one that goes.
LEMMA SectionStep ==
    ASSUME IInv, NEW r \in Requests, InsertSection(r) \/ DeleteSection(r)
    PROVE  IInv'
<1>1. ~At(r, "idle") /\ Done(r) /\ UNCHANGED <<may, object, gallery, pos>>
  BY DEF InsertSection, DeleteSection, At
<1>2. /\ section' \in [Sections -> {"absent", "there", "deleted"}]
      /\ \A s \in Made : section'[s] = "there" \/ Rows(s) = {}
  <2>1. CASE InsertSection(r)
    BY <2>1 DEF InsertSection, IInv, TypeOK, Made
  <2>2. CASE DeleteSection(r)
    BY <2>2 DEF DeleteSection, Deletable, IInv, TypeOK, Made
  <2> QED
    BY <2>1, <2>2
<1>3. TypeOK'
  BY <1>1, <1>2, DoneFacts DEF IInv, TypeOK
<1>4. ASSUME NEW q \in Requests PROVE Fresh(q)' /\ Whole(q)'
  <2>1. CASE q = r
    BY <1>1, <2>1, DoneFacts DEF Fresh, Whole, At
  <2>2. CASE q # r
    BY <1>1, <2>2, DoneFacts DEF IInv, Fresh, Whole, At, Rows, Ordered
  <2> QED
    BY <2>1, <2>2
<1>5. PlacesDiffer'
  BY <1>1 DEF IInv, PlacesDiffer, Ordered
<1>6. SectionsOutlive'
  BY <1>1, <1>2 DEF IInv, SectionsOutlive, There, Made, Rows
<1> QED
  BY <1>1, <1>3, <1>4, <1>5, <1>6, DoneFacts DEF IInv

\* A request that comes in knows only what it was asked.
LEMMA BeginStep ==
    ASSUME IInv, NEW r \in Requests, Begin(r)
    PROVE  IInv'
<1>1. ASSUME NEW m \in Media, NEW g \in Places, NEW at \in {Unstated} \cup Positions,
             CompleteBegin(r, m, g, at)
      PROVE  IInv'
  <2> DEFINE s == Call("find", m, g, at, NoOrder)
  <2>1. s \in RequestStates /\ s.pc = "find"
    BY CallType, BoundsAssumption DEF Call, Labels, Unstated, Positions
  <2>2. req'[r] = s
    BY <1>1, <2>1, RequestTypes DEF CompleteBegin, IInv
  <2>3. Held(r)'
    BY <1>1, <2>2 DEF Held, Call, CompleteBegin
  <2> QED
    BY <1>1, <2>1, <2>3, GoesQuietly DEF CompleteBegin, IInv, TypeOK
<1>2. ASSUME NEW g \in Places, ReorderBegin(r, g)
      PROVE  IInv'
  <2> DEFINE s == Call("readGallery", NoMedium, g, Unstated, NoOrder)
  <2>1. s \in RequestStates /\ s.pc = "readGallery"
    BY CallType, BoundsAssumption DEF Call, Labels, Unstated
  <2>2. req'[r] = s
    BY <1>2, <2>1, RequestTypes DEF ReorderBegin, IInv
  <2>3. Held(r)'
    BY <1>2, <2>2 DEF Held, Call, ReorderBegin
  <2> QED
    BY <1>2, <2>1, <2>3, GoesQuietly DEF ReorderBegin, IInv, TypeOK
<1>3. ASSUME NEW m \in Media, DeleteBegin(r, m)
      PROVE  IInv'
  <2> DEFINE s == Call("deleteObject", m, General, Unstated, NoOrder)
  <2>1. s \in RequestStates /\ s.pc = "deleteObject"
    BY CallType, BoundsAssumption DEF Call, Labels, Unstated, Places
  <2>2. req'[r] = s
    BY <1>3, <2>1, RequestTypes DEF DeleteBegin, IInv
  <2>3. Held(r)'
    BY <1>3, <2>2 DEF Held, Call, DeleteBegin
  <2> QED
    BY <1>3, <2>1, <2>3, GoesQuietly DEF DeleteBegin, IInv, TypeOK
<1>4. ASSUME CreateSectionBegin(r)
      PROVE  IInv'
  <2> DEFINE s == [req[r] EXCEPT !.pc = "insertSection"]
  <2>1. s \in RequestStates /\ s.pc = "insertSection" /\ Become(r, s)
    BY <1>4 DEF CreateSectionBegin, Goto, Become, IInv, TypeOK, RequestStates, Labels
  <2>2. req'[r] = s
    BY <2>1, RequestTypes DEF IInv
  <2>3. Held(r)'
    BY <2>1, <2>2 DEF Held
  <2> QED
    BY <1>4, <2>1, <2>3, GoesQuietly DEF CreateSectionBegin, IInv, TypeOK
<1>5. ASSUME NEW g \in Sections, DeleteSectionBegin(r, g)
      PROVE  IInv'
  <2> DEFINE s == Call("countMedia", NoMedium, g, Unstated, NoOrder)
  <2>1. s \in RequestStates /\ s.pc = "countMedia"
    BY CallType, BoundsAssumption DEF Call, Labels, Unstated, Places
  <2>2. req'[r] = s
    BY <1>5, <2>1, RequestTypes DEF DeleteSectionBegin, IInv
  <2>3. Held(r)'
    BY <2>2 DEF Held, Call
  <2> QED
    BY <1>5, <2>1, <2>3, GoesQuietly DEF DeleteSectionBegin, IInv, TypeOK
<1> QED
  BY <1>1, <1>2, <1>3, <1>4, <1>5 DEF Begin
\* A request that looks something up and goes on, or removes an object.
LEMMA LookStep ==
    ASSUME IInv, NEW r \in Requests,
           FindRecorded(r) \/ Head(r) \/ CountMedia(r) \/ DeleteObject(r)
    PROVE  IInv'
<1>1. ~At(r, "idle") /\ UNCHANGED <<may, gallery, pos, section>> /\ object' \subseteq Media
  BY DEF FindRecorded, Head, CountMedia, DeleteObject, At, IInv, TypeOK
<1>2. CASE Done(r) /\ UNCHANGED object
  BY <1>1, <1>2, EndsQuietly
<1>3. ASSUME NEW label \in {"head", "lock", "deleteRow", "deleteSection"}, Goto(r, label),
             label \in {"head", "lock"} => req[r].pc \in {"find", "head"},
             label = "deleteRow" => req[r].pc = "deleteObject",
             label = "deleteSection" => req[r].pc = "countMedia"
      PROVE  IInv'
  <2> DEFINE s == [req[r] EXCEPT !.pc = label]
  <2>1. s \in RequestStates /\ s.pc = label /\ s.m = req[r].m /\ s.g = req[r].g
        /\ s.at = req[r].at /\ Become(r, s)
    BY <1>3 DEF Goto, Become, IInv, TypeOK, RequestStates, Labels
  <2>2. req'[r] = s
    BY <2>1, RequestTypes DEF IInv
  <2>3. Held(r)'
    BY <1>1, <1>3, <2>1, <2>2 DEF IInv, Held
  <2> QED
    BY <1>1, <1>3, <2>1, <2>3, GoesQuietly
<1>4. CASE FindRecorded(r)
  BY <1>2, <1>3, <1>4 DEF FindRecorded, At
<1>5. CASE Head(r)
  BY <1>2, <1>3, <1>5 DEF Head, At
<1>6. CASE CountMedia(r)
  BY <1>2, <1>3, <1>6 DEF CountMedia, At
<1>7. CASE DeleteObject(r)
  BY <1>3, <1>7 DEF DeleteObject, At
<1> QED
  BY <1>4, <1>5, <1>6, <1>7

\* The lock is free when it is taken, and the position is beyond all others.
LEMMA LockStep ==
    ASSUME IInv, NEW r \in Requests, Lock(r)
    PROVE  IInv'
<1> DEFINE c == req[r]
<1>1. ~At(r, "idle") /\ UNCHANGED <<may, object, gallery, pos, section>> /\ Held(r)
  BY DEF Lock, At, IInv
<1>2. CASE Done(r)
  BY <1>1, <1>2, EndsQuietly
<1>3. ASSUME ~Locked(c.g), NEW n \in 0 .. MaxPosition + 1,
             IF c.at = Unstated THEN IsNext(n, c.g) ELSE n = c.at,
             Become(r, Call("insert", c.m, c.g, n, NoOrder))
      PROVE  IInv'
  <2> DEFINE s == Call("insert", c.m, c.g, n, NoOrder)
  <2>1. c.m \in Media /\ c.g \in Places /\ ("stated" \notin may => c.at = Unstated)
    BY <1>1 DEF Held, Lock, At, IInv, TypeOK, RequestStates
  <2>2. n \in Unstated .. MaxPosition + 1
    BY BoundsAssumption DEF Unstated
  <2>3. s \in RequestStates /\ s.pc = "insert" /\ s.m = c.m /\ s.g = c.g /\ s.at = n
    <3>1. "insert" \in Labels
      BY DEF Labels
    <3>2. s \in RequestStates
      BY <2>1, <2>2, <3>1, CallType
    <3> QED
      BY <3>2 DEF Call
  <2>4. /\ req' \in [Requests -> RequestStates] /\ req'[r] = s
        /\ \A q \in Requests \ {r} : req'[q] = req[q]
    BY <1>3, <2>3, RequestTypes DEF IInv
  <2>5. Held(r)'
    BY <2>1, <2>3, <2>4 DEF Held
  <2>6. Whole(r)'
    BY <2>3, <2>4 DEF Whole, At
  <2>7. Fresh(r)'
    BY <1>1, <1>3, <2>1, <2>3, <2>4 DEF Fresh, Ordered, IsNext, Rows
  <2>8. \A q \in Requests \ {r} : ~(At(q, "insert") /\ req[q].g = req'[r].g)
    BY <1>3, <2>3, <2>4 DEF Locked
  <2> QED
    BY <1>1, <2>4, <2>5, <2>6, <2>7, <2>8, QuietStep DEF IInv, TypeOK
<1> QED
  BY <1>2, <1>3 DEF Lock

\* A reorder that goes on has seen that its order names the whole gallery.
LEMMA CheckStep ==
    ASSUME IInv, NEW r \in Requests, ReadGallery(r) \/ Check(r)
    PROVE  IInv'
<1> DEFINE c == req[r]
<1>1. /\ ~At(r, "idle") /\ UNCHANGED <<may, object, gallery, pos, section>> /\ Held(r)
      /\ c \in RequestStates /\ object' \subseteq Media
  BY DEF ReadGallery, Check, At, IInv, TypeOK
<1>2. CASE Done(r)
  BY <1>1, <1>2, EndsQuietly
<1>3. ASSUME NEW order \in Orders(Rows(c.g)), At(r, "readGallery"),
             Become(r, Call("check", NoMedium, c.g, Unstated, order))
      PROVE  IInv'
  <2> DEFINE s == Call("check", NoMedium, c.g, Unstated, order)
  <2>1. Rows(c.g) \in SUBSET Media
    BY DEF Rows
  <2>2. s \in RequestStates /\ s.pc = "check"
    BY <1>1, <2>1, BoundsAssumption DEF Call, RequestStates, Labels, Unstated
  <2>3. req'[r] = s
    BY <1>3, <2>2, RequestTypes DEF IInv
  <2>4. Held(r)'
    BY <1>1, <1>3, <2>2, <2>3 DEF Held, At
  <2> QED
    BY <1>1, <1>3, <2>2, <2>4, GoesQuietly
<1>4. ASSUME At(r, "check"), Rows(c.g) = DOMAIN c.order, Goto(r, "renumber")
      PROVE  IInv'
  <2>1. "renumber" \in Labels
    BY DEF Labels
  <2>2. /\ req' \in [Requests -> RequestStates] /\ req'[r] = [c EXCEPT !.pc = "renumber"]
        /\ \A q \in Requests \ {r} : req'[q] = req[q]
    BY <1>4, <2>1, GotoTypes DEF IInv
  <2>3. req'[r].pc = "renumber" /\ req'[r].g = c.g /\ req'[r].order = c.order
    BY <1>1, <2>2 DEF RequestStates
  <2>4. Held(r)' /\ Fresh(r)' /\ Whole(r)'
    BY <1>1, <1>4, <2>3 DEF Held, Fresh, Whole, At, Rows
  <2> QED
    BY <1>1, <2>2, <2>3, <2>4, QuietStep
<1>5. CASE ReadGallery(r)
  BY <1>2, <1>3, <1>5 DEF ReadGallery
<1>6. CASE Check(r)
  BY <1>2, <1>4, <1>6 DEF Check
<1> QED
  BY <1>5, <1>6

-----------------------------------------------------------------------------
(* The invariant.                                                           *)

\* Nothing is stored, recorded or asked for at first.
LEMMA InitStep == Init => IInv
<1> SUFFICES ASSUME Init PROVE IInv
  OBVIOUS
<1>1. TypeOK
  BY IdleType, BoundsAssumption DEF Init, TypeOK, Positions
<1>2. ASSUME NEW r \in Requests PROVE req[r].pc = "idle"
  BY <1>2 DEF Init, Idle, Call
<1>3. \A r \in Requests : Held(r) /\ Fresh(r) /\ Whole(r)
  BY <1>2 DEF Held, Fresh, Whole, At
<1>4. \A r, q \in Requests : r # q => Alone(r, q)
  BY <1>2 DEF Alone, At
<1>5. PlacesDiffer /\ SectionsOutlive
  BY DEF Init, PlacesDiffer, SectionsOutlive
<1> QED
  BY <1>1, <1>3, <1>4, <1>5 DEF IInv

\* Every step keeps the invariant.
LEMMA NextStep == IInv /\ [Next]_vars => IInv'
<1> SUFFICES ASSUME IInv, [Next]_vars PROVE IInv'
  OBVIOUS
<1>1. CASE UNCHANGED vars
  BY <1>1 DEF vars, IInv, TypeOK, Held, Fresh, Whole, Alone, At, Rows, Ordered,
              PlacesDiffer, SectionsOutlive, There, Made
<1>2. ASSUME NEW m \in Media, Upload(m) PROVE IInv'
  BY <1>2 DEF Upload, IInv, TypeOK, Held, Fresh, Whole, Alone, At, Rows, Ordered,
              PlacesDiffer, SectionsOutlive, There, Made
<1>3. ASSUME NEW r \in Requests, Step(r) PROVE IInv'
  BY <1>3, LookStep, LockStep, InsertStep, CheckStep, RenumberStep, DeleteRowStep,
     SectionStep DEF Step
<1>4. ASSUME NEW r \in Requests, Abort(r) PROVE IInv'
  BY <1>4, EndsQuietly DEF Abort
<1> QED
  BY <1>1, <1>2, <1>3, <1>4, BeginStep DEF Next

LEMMA Inductive == Spec => []IInv
<1> QED
  BY InitStep, NextStep, PTL DEF Spec

\* Every variable keeps its shape, so that no position leaves the column's range.
THEOREM TypeCorrect == Spec => []TypeOK
<1>1. IInv => TypeOK
  BY DEF IInv
<1> QED
  BY <1>1, Inductive, PTL

\* record_location_media and reorder_location_media: no two rows of a gallery are
\* ever on one position, where no client states positions and no reorder overlaps.
THEOREM PositionsDiffer == Spec => []PlacesDiffer
<1>1. IInv => PlacesDiffer
  BY DEF IInv
<1> QED
  BY <1>1, Inductive, PTL

\* location_media.section_id: the section a photo is filed under is there.
THEOREM SectionsStay == Spec => []SectionsOutlive
<1>1. IInv => SectionsOutlive
  BY DEF IInv
<1> QED
  BY <1>1, Inductive, PTL
\* completeUpload, deleteMedia: neither of them, however often it is repeated and
\* whatever it overlaps with, moves a row that is there and stays there.
THEOREM CompletionsMoveNothing == Spec => OnlyReordersMove
<1> DEFINE Moves == \A m \in Media :
             gallery[m] # NoGallery /\ gallery'[m] # NoGallery /\ pos'[m] # pos[m] =>
               \E r \in Requests : Renumbers(r) /\ m \in DOMAIN req[r].order
<1>1. IInv /\ [Next]_vars => [Moves]_vars
  <2> SUFFICES ASSUME IInv, Next, NEW m \in Media,
                      gallery[m] # NoGallery, gallery'[m] # NoGallery, pos'[m] # pos[m]
               PROVE  \E r \in Requests : Renumbers(r) /\ m \in DOMAIN req[r].order
    OBVIOUS
  <2>1. ASSUME NEW r \in Requests, Begin(r) \/ Abort(r) PROVE FALSE
    BY <2>1 DEF Begin, CompleteBegin, ReorderBegin, DeleteBegin, CreateSectionBegin,
                DeleteSectionBegin, Abort
  <2>2. ASSUME NEW x \in Media, Upload(x) PROVE FALSE
    BY <2>2 DEF Upload
  <2>3. PICK r \in Requests : Step(r)
    BY <2>1, <2>2 DEF Next
  <2>4. ~Insert(r)
    BY DEF Insert, IInv, TypeOK
  <2>5. ~DeleteRow(r)
    BY DEF DeleteRow, IInv, TypeOK
  <2>6. Renumber(r)
    BY <2>3, <2>4, <2>5 DEF Step, FindRecorded, Head, Lock, ReadGallery, Check,
                            DeleteObject, InsertSection, CountMedia, DeleteSection
  <2>7. req[r].pc = "renumber" /\ req'[r] = Idle /\ Idle.pc = "idle"
    BY <2>6, IdleType, RequestTypes DEF Renumber, Done, At, IInv, Idle, Call
  <2>8. m \in DOMAIN req[r].order
    BY <2>6 DEF Renumber
  <2> QED
    BY <2>6, <2>7, <2>8 DEF Renumbers, Renumber
<1>2. Spec => [][Moves]_vars
  BY <1>1, Inductive, PTL DEF Spec
<1> QED
  BY <1>2 DEF OnlyReordersMove

\* reorder_location_media: the rows a reorder names stand in the order it was
\* given; and where nothing overlaps they are the whole gallery, from 0 on.
THEOREM ReordersExact == Spec => ReorderIsExact
<1> DEFINE Exact == \A r \in Requests :
             LET c == req[r]
                 S == DOMAIN c.order \cap Rows(c.g)
             IN Renumbers(r) =>
                  /\ \A m, n \in S : c.order[m] < c.order[n] => pos'[m] < pos'[n]
                  /\ "race" \notin may =>
                       {pos'[m] : m \in Rows(c.g)} = 0 .. Cardinality(Rows(c.g)) - 1
<1>1. IInv /\ [Next]_vars => [Exact]_vars
  <2> SUFFICES ASSUME IInv, Next, NEW r \in Requests, Renumbers(r)
               PROVE  LET c == req[r]
                          S == DOMAIN c.order \cap Rows(c.g)
                      IN /\ \A m, n \in S : c.order[m] < c.order[n] => pos'[m] < pos'[n]
                         /\ "race" \notin may =>
                              {pos'[m] : m \in Rows(c.g)} = 0 .. Cardinality(Rows(c.g)) - 1
    OBVIOUS
  <2> DEFINE c == req[r]
             S == DOMAIN c.order \cap Rows(c.g)
  <2>1. Renumber(r)
    <3>1. PICK q \in Requests : Insert(q) \/ DeleteRow(q) \/ Renumber(q)
      BY DEF Renumbers, Next, Begin, CompleteBegin, ReorderBegin, DeleteBegin,
             CreateSectionBegin, DeleteSectionBegin, Step, FindRecorded, Head, Lock,
             ReadGallery, Check, DeleteObject, InsertSection, CountMedia, DeleteSection,
             Abort, Upload
    <3>2. q = r
      BY <3>1 DEF Renumbers, Insert, DeleteRow, Renumber, Done, Become, IInv, TypeOK
    <3> QED
      BY <3>1, <3>2 DEF Renumbers, Insert, DeleteRow, At
  <2>2. \A m \in Media : pos'[m] = IF m \in S THEN c.order[m] ELSE pos[m]
    BY <2>1 DEF Renumber, Renumbers
  <2>3. S \subseteq Media
    BY DEF Rows
  <2>4. \A m \in S : pos'[m] = c.order[m]
    BY <2>2, <2>3
  <2>5. ASSUME "race" \notin may
        PROVE  {pos'[m] : m \in Rows(c.g)} = 0 .. Cardinality(Rows(c.g)) - 1
    <3>1. Rows(c.g) = DOMAIN c.order
      BY <2>1, <2>5 DEF IInv, Whole, Renumber
    <3>2. PICK D \in SUBSET Media : c.order \in Orders(D)
      BY DEF IInv, TypeOK, RequestStates
    <3>3. /\ c.order \in [D -> 0 .. Cardinality(D) - 1]
          /\ \A n \in 0 .. Cardinality(D) - 1 : \E m \in D : c.order[m] = n
      BY <3>2 DEF Orders, Bijection, Surjection, Injection
    <3>4. D = Rows(c.g) /\ S = D
      BY <3>1, <3>3
    <3> QED
      BY <2>4, <3>3, <3>4
  <2> QED
    BY <2>4, <2>5
<1>2. Spec => [][Exact]_vars
  BY <1>1, Inductive, PTL DEF Spec
<1> QED
  BY <1>2, PTL DEF ReorderIsExact

\* Nothing moves but as a reorder was told.
THEOREM MovesTold == Spec => MovesAreTold
BY CompletionsMoveNothing, ReordersExact DEF MovesAreTold

-----------------------------------------------------------------------------
(* What is shown is stored, where nothing fails and no deletion overlaps.   *)

Calm == "fail" \notin may /\ ~({"race", "delete"} \subseteq may)

\* A row that has lost its object is about to go; a row about to come has one.
Stocked ==
    Calm =>
      /\ \A m \in Media : gallery[m] # NoGallery =>
           m \in object \/ \E r \in Requests : At(r, "deleteRow") /\ req[r].m = m
      /\ \A r \in Requests : req[r].pc \in {"lock", "insert"} => req[r].m \in object

\* A step that takes no object, and neither gives a request a new medium to
\* insert nor ends the deletion of one, keeps what is stocked.
LEMMA StockedLasts ==
    ASSUME IInv, Stocked, may' = may, object \subseteq object',
           \A m \in Media : gallery'[m] # NoGallery =>
             gallery[m] # NoGallery \/ m \in object,
           \A m \in Media, q \in Requests :
             At(q, "deleteRow") /\ req[q].m = m /\ gallery'[m] # NoGallery =>
               At(q, "deleteRow")' /\ req'[q].m = m,
           \A q \in Requests : req'[q].pc \in {"lock", "insert"} /\ Calm =>
             req'[q].m \in object
    PROVE  Stocked'
<1> SUFFICES ASSUME Calm
             PROVE  /\ \A m \in Media : gallery'[m] # NoGallery =>
                         m \in object' \/ \E r \in Requests : At(r, "deleteRow")' /\ req'[r].m = m
                    /\ \A r \in Requests : req'[r].pc \in {"lock", "insert"} => req'[r].m \in object'
  BY DEF Stocked, Calm, At, NoGallery
<1>1. ASSUME NEW m \in Media, gallery'[m] # NoGallery
      PROVE  m \in object' \/ \E r \in Requests : At(r, "deleteRow")' /\ req'[r].m = m
  <2>1. CASE m \in object
    BY <2>1
  <2>2. CASE m \notin object
    <3>1. PICK q \in Requests : At(q, "deleteRow") /\ req[q].m = m
      BY <1>1, <2>2 DEF Stocked
    <3> QED
      BY <1>1, <3>1
  <2> QED
    BY <2>1, <2>2
<1> QED
  BY <1>1

\* An execution's setting does not change.
LEMMA MayStays == [Next]_vars => may' = may
<1>1. ASSUME NEW r \in Requests, Begin(r) PROVE may' = may
  BY <1>1 DEF Begin, CompleteBegin, ReorderBegin, DeleteBegin, CreateSectionBegin,
              DeleteSectionBegin
<1>2. ASSUME NEW r \in Requests, Step(r) \/ Abort(r) PROVE may' = may
  BY <1>2 DEF Step, FindRecorded, Head, Lock, Insert, ReadGallery, Check, Renumber,
              DeleteObject, DeleteRow, InsertSection, CountMedia, DeleteSection, Abort
<1> QED
  BY <1>1, <1>2 DEF Next, Upload, vars

\* Every step keeps what is stocked.
LEMMA StockedStep == IInv /\ Stocked /\ [Next]_vars => Stocked'
<1> SUFFICES ASSUME IInv, Stocked, [Next]_vars, Calm PROVE Stocked'
  <2>1. [Next]_vars => may' = may
    BY MayStays
  <2> QED
    BY <2>1 DEF Stocked, Calm
<1>1. ASSUME NEW r \in Requests, Begin(r) PROVE Stocked'
  <2>1. /\ At(r, "idle") /\ UNCHANGED <<may, object, gallery>>
        /\ \A q \in Requests \ {r} : req'[q] = req[q]
        /\ req'[r].pc \notin {"lock", "insert"}
    BY <1>1 DEF Begin, CompleteBegin, ReorderBegin, DeleteBegin, CreateSectionBegin,
                DeleteSectionBegin, Free, Become, Goto, Call, IInv, TypeOK, RequestStates
  <2> QED
    BY <2>1, StockedLasts DEF Stocked, At
<1>2. ASSUME NEW r \in Requests,
             \/ FindRecorded(r) \/ Lock(r) \/ ReadGallery(r) \/ Check(r) \/ Renumber(r)
             \/ InsertSection(r) \/ CountMedia(r) \/ DeleteSection(r) \/ Head(r) \/ Insert(r)
      PROVE  Stocked'
  <2>1. may' = may /\ object' = object /\ ~At(r, "deleteRow")
    BY <1>2 DEF FindRecorded, Lock, ReadGallery, Check, Renumber, InsertSection,
                CountMedia, DeleteSection, Head, Insert, At
  <2>2. /\ \A q \in Requests \ {r} : req'[q] = req[q]
        /\ req'[r].pc \in {"lock", "insert"} => req'[r].m \in object
    <3>1. req[r] \in RequestStates
      BY DEF IInv, TypeOK
    <3>2. CASE Done(r)
      BY <3>2, IdleType, RequestTypes DEF Done, IInv, Idle, Call
    <3>3. ASSUME NEW label \in {"head", "renumber", "deleteSection"}, Goto(r, label)
          PROVE  /\ \A q \in Requests \ {r} : req'[q] = req[q]
                 /\ req'[r].pc \notin {"lock", "insert"}
      BY <3>1, <3>3 DEF Goto, IInv, TypeOK, RequestStates
    <3>4. ASSUME Head(r), Goto(r, "lock"), req[r].m \in object
          PROVE  /\ \A q \in Requests \ {r} : req'[q] = req[q]
                 /\ req'[r].m \in object
      BY <3>1, <3>4 DEF Goto, IInv, TypeOK, RequestStates
    <3>5. ASSUME At(r, "lock"),
                 NEW n \in 0 .. MaxPosition + 1,
                 Become(r, Call("insert", req[r].m, req[r].g, n, NoOrder))
          PROVE  /\ \A q \in Requests \ {r} : req'[q] = req[q]
                 /\ req'[r].m \in object
      BY <3>5 DEF Become, Call, IInv, TypeOK, Stocked, At
    <3>6. ASSUME NEW order, Become(r, Call("check", NoMedium, req[r].g, Unstated, order))
          PROVE  /\ \A q \in Requests \ {r} : req'[q] = req[q]
                 /\ req'[r].pc = "check"
      BY <3>6 DEF Become, Call, IInv, TypeOK
    <3>7. CASE Head(r)
      BY <3>2, <3>4, <3>7 DEF Head
    <3>8. CASE Lock(r)
      BY <3>2, <3>5, <3>8 DEF Lock
    <3>9. CASE ReadGallery(r)
      BY <3>2, <3>6, <3>9 DEF ReadGallery
    <3>10. CASE FindRecorded(r) \/ Check(r) \/ CountMedia(r)
      BY <3>2, <3>3, <3>10 DEF FindRecorded, Check, CountMedia
    <3>11. CASE Renumber(r) \/ InsertSection(r) \/ DeleteSection(r) \/ Insert(r)
      BY <3>2, <3>11 DEF Renumber, InsertSection, DeleteSection, Insert
    <3> QED
      BY <1>2, <3>7, <3>8, <3>9, <3>10, <3>11
  <2>3. \A m \in Media : gallery'[m] # NoGallery => gallery[m] # NoGallery \/ m \in object
    <3>1. CASE Insert(r)
      BY <3>1 DEF Insert, IInv, TypeOK, Stocked, At
    <3>2. CASE ~Insert(r)
      BY <1>2, <3>2 DEF FindRecorded, Lock, ReadGallery, Check, Renumber, InsertSection,
                        CountMedia, DeleteSection, Head
    <3> QED
      BY <3>1, <3>2
  <2>4. \A m \in Media, q \in Requests :
          At(q, "deleteRow") /\ req[q].m = m /\ gallery'[m] # NoGallery =>
            At(q, "deleteRow")' /\ req'[q].m = m
    BY <2>1, <2>2 DEF At
  <2>5. \A q \in Requests : req'[q].pc \in {"lock", "insert"} /\ Calm => req'[q].m \in object
    BY <2>2 DEF Stocked
  <2> QED
    BY <2>1, <2>3, <2>4, <2>5, StockedLasts
<1>3. ASSUME NEW r \in Requests, DeleteObject(r) PROVE Stocked'
  <2> DEFINE x == req[r].m
  <2>1. /\ UNCHANGED <<may, gallery>> /\ object' = object \ {x}
        /\ req' = [req EXCEPT ![r].pc = "deleteRow"] /\ ~At(r, "idle") /\ "race" \notin may
    BY <1>3 DEF DeleteObject, Goto, At, Calm, IInv, Held
  <2>2. \A q \in Requests \ {r} : At(q, "idle") /\ req'[q] = req[q]
    BY <2>1, AtWork DEF IInv, TypeOK
  <2>3. req'[r].pc = "deleteRow" /\ req'[r].m = x
    BY <2>1 DEF IInv, TypeOK, RequestStates
  <2>4. \A q \in Requests : req'[q].pc \notin {"lock", "insert"}
    BY <2>2, <2>3 DEF At
  <2>5. ~At(r, "deleteRow")
    BY <1>3 DEF DeleteObject, At
  <2>6. \A m \in Media : gallery[m] # NoGallery => m \in object
    BY <2>2, <2>5 DEF Stocked, At
  <2> QED
    BY <2>1, <2>3, <2>4, <2>6 DEF Stocked, Calm, At, NoGallery
<1>4. ASSUME NEW r \in Requests, DeleteRow(r) PROVE Stocked'
  <2>1. /\ UNCHANGED <<may, object>> /\ gallery' = [gallery EXCEPT ![req[r].m] = NoGallery]
        /\ Done(r) /\ req[r].m \in Media
    BY <1>4 DEF DeleteRow, IInv, Held, At
  <2>2. req'[r].pc = "idle" /\ \A q \in Requests \ {r} : req'[q] = req[q]
    BY <2>1, IdleType, RequestTypes DEF Done, IInv, Idle, Call
  <2>3. \A m \in Media : gallery'[m] # NoGallery => gallery[m] # NoGallery /\ m # req[r].m
    BY <2>1 DEF IInv, TypeOK
  <2>4. \A m \in Media, q \in Requests :
          At(q, "deleteRow") /\ req[q].m = m /\ gallery'[m] # NoGallery =>
            At(q, "deleteRow")' /\ req'[q].m = m
    BY <2>2, <2>3 DEF At
  <2>5. \A q \in Requests : req'[q].pc \in {"lock", "insert"} /\ Calm => req'[q].m \in object
    BY <2>2 DEF Stocked
  <2> QED
    BY <2>1, <2>3, <2>4, <2>5, StockedLasts
<1>5. ASSUME NEW m \in Media, Upload(m) PROVE Stocked'
  BY <1>5, StockedLasts DEF Upload, Stocked, At
<1>6. ASSUME NEW r \in Requests, Abort(r) PROVE FALSE
  BY <1>6 DEF Abort, Calm
<1>7. CASE UNCHANGED vars
  BY <1>7, StockedLasts DEF vars, Stocked, At
<1> QED
  BY <1>1, <1>2, <1>3, <1>4, <1>5, <1>6, <1>7 DEF Next, Step

\* completeUpload, deleteMedia: nobody is shown a photo that is gone, where calls
\* do not fail and no deletion overlaps.
THEOREM ShownStored == Spec => []ShownIsStored
<1>1. Init => Stocked
  BY DEF Init, Stocked, Idle, Call
<1>2. IInv /\ Stocked => ShownIsStored
  BY DEF Stocked, Calm, ShownIsStored, AllIdle, At
<1> QED
  BY <1>1, <1>2, StockedStep, Inductive, PTL DEF Spec

-----------------------------------------------------------------------------
(* The cap on sections.                                                     *)

Inserting == {r \in Requests : At(r, "insertSection")}
Overshoot == IF "race" \in may THEN Cardinality(Requests) - 1 ELSE 0

\* The sections there are and those about to be.
Counted == Cardinality(Made) + Cardinality(Inserting) <= MaxSections + Overshoot

\* What is counted is finite.
LEMMA Counts ==
    /\ Cardinality(Made) \in Nat /\ IsFiniteSet(Made)
    /\ Cardinality(Inserting) \in Nat /\ IsFiniteSet(Inserting)
    /\ Cardinality(Inserting) <= Cardinality(Requests)
    /\ Cardinality(Requests) \in Nat \ {0}
<1>1. Made \subseteq Sections /\ Inserting \subseteq Requests
  BY DEF Made, Inserting
<1>2. Cardinality(Requests) # 0
  BY FiniteAssumption, FS_EmptySet
<1> QED
  BY <1>1, <1>2, FiniteAssumption, FS_Subset, FS_CardinalityType

\* Fewer sections, or fewer requests about to make one.
LEMMA CountedLasts ==
    ASSUME Counted, may' = may, Made' \subseteq Made, Inserting' \subseteq Inserting
    PROVE  Counted'
<1>1. /\ Cardinality(Made') \in Nat /\ Cardinality(Made') <= Cardinality(Made)
      /\ Cardinality(Inserting') \in Nat /\ Cardinality(Inserting') <= Cardinality(Inserting)
  BY Counts, FS_Subset, FS_CardinalityType
<1>2. Overshoot' = Overshoot /\ Overshoot \in Int
  BY Counts DEF Overshoot
<1> QED
  BY <1>1, <1>2, Counts, BoundsAssumption DEF Counted

\* A section is counted before it is announced, and announced before it is made.
LEMMA CountedStep == IInv /\ Counted /\ [Next]_vars => Counted'
<1> SUFFICES ASSUME IInv, Counted, [Next]_vars PROVE Counted'
  OBVIOUS
<1>1. may' = may
  BY MayStays
<1>2. ASSUME NEW r \in Requests, CreateSectionBegin(r) PROVE Counted'
  <2>1. /\ section' = section /\ At(r, "idle") /\ Free(r) /\ BelowCap
        /\ req'[r].pc = "insertSection" /\ \A q \in Requests \ {r} : req'[q] = req[q]
    BY <1>2 DEF CreateSectionBegin, Free, Goto, IInv, TypeOK, RequestStates
  <2>2. Made' = Made
    BY <2>1 DEF Made
  <2>3. Inserting' \subseteq Requests /\ IsFiniteSet(Inserting')
    <3>1. Inserting' \subseteq Requests
      BY DEF Inserting
    <3> QED
      BY <3>1, FiniteAssumption, FS_Subset
  <2>4. CASE "race" \in may
    <3>1. Cardinality(Inserting') \in Nat /\ Cardinality(Inserting') <= Cardinality(Requests)
      BY <2>3, FiniteAssumption, FS_Subset, FS_CardinalityType
    <3>2. Overshoot' = Cardinality(Requests) - 1
      BY <1>1, <2>4 DEF Overshoot
    <3> QED
      BY <2>1, <2>2, <3>1, <3>2, Counts, BoundsAssumption DEF Counted, BelowCap
  <2>5. CASE "race" \notin may
    <3>1. Inserting' = {r}
      BY <2>1, <2>5, AtWork DEF Inserting, At
    <3>2. Cardinality(Inserting') = 1
      BY <3>1, FS_Singleton
    <3>3. Overshoot' = 0
      BY <1>1, <2>5 DEF Overshoot
    <3> QED
      BY <2>1, <2>2, <3>2, <3>3, Counts, BoundsAssumption DEF Counted, BelowCap
  <2> QED
    BY <2>4, <2>5
<1>3. ASSUME NEW r \in Requests, InsertSection(r) PROVE Counted'
  <2>1. At(r, "insertSection") /\ Done(r)
    BY <1>3 DEF InsertSection
  <2>2. req'[r].pc = "idle" /\ \A q \in Requests \ {r} : req'[q] = req[q]
    BY <2>1, IdleType, RequestTypes DEF Done, IInv, Idle, Call
  <2>3. Inserting' = Inserting \ {r} /\ r \in Inserting
    BY <2>1, <2>2 DEF Inserting, At
  <2>4. Cardinality(Inserting') = Cardinality(Inserting) - 1
    BY <2>3, Counts, FS_RemoveElement
  <2>5. CASE UNCHANGED section
    <3>1. Made' = Made
      BY <2>5 DEF Made
    <3> QED
      BY <1>1, <2>3, <3>1, CountedLasts
  <2>6. ASSUME NEW s \in Sections, section[s] = "absent",
               section' = [section EXCEPT ![s] = "there"]
        PROVE  Counted'
    <3>1. Made' = Made \cup {s} /\ s \notin Made
      BY <2>6 DEF Made, IInv, TypeOK
    <3>2. Cardinality(Made') = Cardinality(Made) + 1
      BY <3>1, Counts, FS_AddElement
    <3>3. Overshoot' = Overshoot /\ Overshoot \in Int
      BY <1>1, Counts DEF Overshoot
    <3> QED
      BY <2>4, <3>2, <3>3, Counts, BoundsAssumption DEF Counted
  <2> QED
    BY <1>3, <2>5, <2>6 DEF InsertSection
<1>4. ASSUME NEW r \in Requests,
             \/ \E m \in Media, g \in Places, at \in {Unstated} \cup Positions :
                  CompleteBegin(r, m, g, at)
             \/ \E g \in Places : ReorderBegin(r, g)
             \/ \E m \in Media : DeleteBegin(r, m)
             \/ \E s \in Sections : DeleteSectionBegin(r, s)
      PROVE  Counted'
  <2>1. /\ section' = section /\ req'[r].pc # "insertSection"
        /\ \A q \in Requests \ {r} : req'[q] = req[q]
    BY <1>4 DEF CompleteBegin, ReorderBegin, DeleteBegin, DeleteSectionBegin, Become, Call,
                IInv, TypeOK
  <2>2. Made' \subseteq Made /\ Inserting' \subseteq Inserting
    BY <2>1 DEF Made, Inserting, At
  <2> QED
    BY <1>1, <2>2, CountedLasts
<1>5. ASSUME NEW r \in Requests, Step(r) \/ Abort(r), ~InsertSection(r) PROVE Counted'
  <2>1. Made' \subseteq Made
    BY <1>5 DEF Made, IInv, TypeOK, Step, FindRecorded, Head, Lock, Insert, ReadGallery, Check,
                Renumber, DeleteObject, DeleteRow, CountMedia, DeleteSection, Abort
  <2>2. \/ Done(r)
        \/ \E label \in Labels \ {"insertSection"} : Goto(r, label)
        \/ \E n \in 0 .. MaxPosition + 1 : Become(r, Call("insert", req[r].m, req[r].g, n, NoOrder))
        \/ \E order : Become(r, Call("check", NoMedium, req[r].g, Unstated, order))
    BY <1>5 DEF Step, FindRecorded, Head, Lock, Insert, ReadGallery, Check,
                Renumber, DeleteObject, DeleteRow, CountMedia, DeleteSection, Abort, Labels
  <2>3. req'[r].pc # "insertSection" /\ \A q \in Requests \ {r} : req'[q] = req[q]
    BY <2>2 DEF Done, Idle, Goto, Become, Call, IInv, TypeOK, RequestStates
  <2>4. Inserting' \subseteq Inserting
    BY <2>3 DEF Inserting, At
  <2> QED
    BY <1>1, <2>1, <2>4, CountedLasts
<1>6. CASE UNCHANGED <<section, req>>
  <2>1. Made' \subseteq Made /\ Inserting' \subseteq Inserting
    BY <1>6 DEF Made, Inserting, At
  <2> QED
    BY <1>1, <2>1, CountedLasts
<1> QED
  BY <1>2, <1>3, <1>4, <1>5, <1>6 DEF Next, Begin, Upload, vars

\* createSection: the cap is passed by no more than the requests that overlap.
THEOREM CapKept == Spec => []CapNearlyKept
<1>1. Init => Counted
  <2> SUFFICES ASSUME Init PROVE Counted
    OBVIOUS
  <2>1. Made = {} /\ Inserting = {}
    BY DEF Init, Made, Inserting, At, Idle, Call
  <2> QED
    BY <2>1, Counts, FS_EmptySet, BoundsAssumption DEF Counted, Overshoot
<1>2. Counted => CapNearlyKept
  BY Counts, BoundsAssumption DEF Counted, CapNearlyKept, Overshoot
<1> QED
  BY <1>1, <1>2, CountedStep, Inductive, PTL DEF Spec

-----------------------------------------------------------------------------
(* The album.                                                               *)

\* The requests whose order is being asked for, where orders are kept.
Asker(r) == req[r].pc \in {"check", "renumber"}
AskOf(r) == [of |-> req[r].g, as |-> RankingOf(req[r].order)]

\* An order ranks what it is an order of.
LEMMA OrdersRank ==
    ASSUME NEW S \in SUBSET Media, NEW o \in Orders(S)
    PROVE  RankingOf(o) \in A!Rankings(S)
<1> DEFINE R == RankingOf(o)
<1>1. DOMAIN o = S /\ \A m, n \in S : o[m] = o[n] => m = n
  BY OrderFacts
<1>2. \A m \in S : o[m] \in Int
  BY OrderFacts, BoundsAssumption DEF Positions
<1>3. \A m, n \in S : <<m, n>> \in R <=> o[m] < o[n]
  BY <1>1 DEF RankingOf
<1>4. R \subseteq S \X S
  BY <1>1 DEF RankingOf
<1>5. \A m, n \in S : <<m, n>> \in R => <<n, m>> \notin R
  BY <1>2, <1>3
<1>6. ASSUME NEW m \in S, NEW n \in S, m # n PROVE <<m, n>> \in R \/ <<n, m>> \in R
  <2>1. o[m] \in Int /\ o[n] \in Int /\ o[m] # o[n]
    BY <1>1, <1>2, <1>6
  <2>2. o[m] < o[n] \/ o[n] < o[m]
    BY <2>1
  <2> QED
    BY <1>3, <2>2
<1>7. \A m, n, k \in S : <<m, n>> \in R /\ <<n, k>> \in R => <<m, k>> \in R
  BY <1>2, <1>3
<1> HIDE DEF R
<1>8. R \in A!Rankings(S)
  BY <1>4, <1>5, <1>6, <1>7 DEF A!Rankings
<1> QED
  BY <1>8 DEF R

\* What is asked for, request by request.
LEMMA AskedIs == asked = {AskOf(r) : r \in {q \in Requests : Asker(q)}}
BY DEF asked, AskOf, Asker

\* A request that asked for nothing and asks for nothing changes nothing of it.
LEMMA AskedStays ==
    ASSUME NEW r \in Requests, ~Asker(r), ~Asker(r)',
           \A q \in Requests \ {r} : req'[q] = req[q]
    PROVE  asked' = asked
<1>1. {q \in Requests : Asker(q)}' = {q \in Requests : Asker(q)}
  BY DEF Asker
<1>2. \A q \in {x \in Requests : Asker(x)} : AskOf(q)' = AskOf(q)
  BY DEF AskOf, RankingOf, Asker
<1>3. asked' = {AskOf(q)' : q \in {x \in Requests : Asker(x)}'}
  BY DEF asked, AskOf, Asker, RankingOf
<1> QED
  BY <1>1, <1>2, <1>3, AskedIs

\* Who asks is alone, where orders are kept; before the asking and after it
\* nobody asks for anything.
LEMMA AskedAlone ==
    ASSUME IInv, NEW r \in Requests, Ordered,
           Asker(r) \/ At(r, "readGallery"),
           \A q \in Requests \ {r} : req'[q] = req[q]
    PROVE  /\ "race" \notin may
           /\ \A q \in Requests \ {r} : ~Asker(q) /\ ~Asker(q)'
           /\ asked = IF Asker(r) THEN {AskOf(r)} ELSE {}
           /\ asked' = IF Asker(r)' THEN {AskOf(r)'} ELSE {}
<1>1. "race" \notin may /\ ~At(r, "idle")
  BY DEF IInv, Held, Ordered, Asker, At
<1>2. \A q \in Requests \ {r} : ~Asker(q) /\ ~Asker(q)'
  BY <1>1, AtWork DEF Asker, At
<1>3. {q \in Requests : Asker(q)} = IF Asker(r) THEN {r} ELSE {}
  BY <1>2
<1>4. asked = IF Asker(r) THEN {AskOf(r)} ELSE {}
  BY <1>3, AskedIs
<1>5. {q \in Requests : Asker(q)'} = IF Asker(r)' THEN {r} ELSE {}
  BY <1>2
<1>6. asked' = {AskOf(q)' : q \in {x \in Requests : Asker(x)'}}
  BY DEF asked, AskOf, Asker, RankingOf
<1>7. asked' = IF Asker(r)' THEN {AskOf(r)'} ELSE {}
  BY <1>5, <1>6
<1> QED
  BY <1>1, <1>2, <1>4, <1>7

\* A completed upload comes last in its gallery.
LEMMA InsertAppends ==
    ASSUME IInv, NEW r \in Requests, Insert(r), Ordered
    PROVE  A!Next \/ UNCHANGED <<gallery, before, asked>>
<1> DEFINE m == req[r].m
           g == req[r].g
<1>1. At(r, "insert") /\ Done(r) /\ ~At(r, "idle")
  BY DEF Insert, At
<1>2. m \in Media /\ g \in Places /\ req[r].at \in Int
  BY <1>1, BoundsAssumption DEF IInv, Held, At, TypeOK, RequestStates, Unstated
<1>3. may' = may
  BY DEF Insert
<1>4. At(r, "idle")' /\ \A q \in Requests \ {r} : req'[q] = req[q]
  BY <1>1, <1>3, DoneFacts
<1>5. asked' = asked
  BY <1>1, <1>4, AskedStays DEF Asker, At
<1>6. CASE UNCHANGED <<gallery, pos>>
  BY <1>5, <1>6 DEF before
<1>7. CASE /\ gallery[m] = NoGallery
           /\ gallery' = [gallery EXCEPT ![m] = g]
           /\ pos' = [pos EXCEPT ![m] = req[r].at]
  <2>1. g # NoGallery
    BY <1>2, NamesAssumption DEF Places, NoGallery
  <2>2. /\ gallery'[m] = g /\ pos'[m] = req[r].at
        /\ \A n \in Media \ {m} : gallery'[n] = gallery[n] /\ pos'[n] = pos[n]
    BY <1>2, <1>7 DEF IInv, TypeOK
  <2>3. \A n \in Media : gallery[n] = g => pos[n] < req[r].at /\ pos[n] \in Int
    BY <1>1, BoundsAssumption DEF IInv, Fresh, Rows, TypeOK, Positions
  <2>4. ASSUME NEW x \in Media, NEW y \in Media
        PROVE  <<x, y>> \in before' <=> <<x, y>> \in before \/ (gallery[x] = g /\ y = m)
    <3>1. CASE x # m /\ y # m
      BY <2>2, <3>1 DEF before
    <3>2. CASE x = m
      <4>1. <<x, y>> \notin before' /\ <<x, y>> \notin before /\ gallery[x] # g
        BY <1>2, <1>7, <2>1, <2>2, <2>3, <3>2 DEF before
      <4> QED
        BY <4>1
    <3>3. CASE x # m /\ y = m
      <4>1. <<x, y>> \notin before
        BY <1>7, <3>3 DEF before
      <4>2. <<x, y>> \in before' <=> gallery[x] = g
        BY <2>1, <2>2, <2>3, <3>3 DEF before, NoGallery
      <4> QED
        BY <3>3, <4>1, <4>2
    <3> QED
      BY <3>1, <3>2, <3>3
  <2>5. before' = before \cup (A!In(g) \X {m})
    <3>1. before \subseteq Media \X Media /\ before' \subseteq Media \X Media
      BY DEF before
    <3>2. A!In(g) = {n \in Media : gallery[n] = g}
      BY DEF A!In
    <3> QED
      BY <1>2, <2>4, <3>1, <3>2
  <2>6. A!Append(m, g)
    BY <1>5, <1>7, <2>5 DEF A!Append
  <2> QED
    BY <1>2, <2>6 DEF A!Next
<1> QED
  BY <1>6, <1>7 DEF Insert

\* A deletion takes one photo out of its row.
LEMMA DeleteRemoves ==
    ASSUME IInv, NEW r \in Requests, DeleteRow(r)
    PROVE  A!Next
<1> DEFINE m == req[r].m
<1>1. At(r, "deleteRow") /\ Done(r) /\ ~At(r, "idle") /\ may' = may
  BY DEF DeleteRow, At
<1>2. m \in Media
  BY <1>1 DEF IInv, Held, At
<1>3. At(r, "idle")' /\ \A q \in Requests \ {r} : req'[q] = req[q]
  BY <1>1, DoneFacts
<1>4. asked' = asked
  BY <1>1, <1>3, AskedStays DEF Asker, At
<1>5. /\ gallery' = [gallery EXCEPT ![m] = NoGallery]
      /\ gallery'[m] = NoGallery
      /\ \A n \in Media \ {m} : gallery'[n] = gallery[n] /\ pos'[n] = pos[n]
  BY <1>2 DEF DeleteRow, IInv, TypeOK
<1>6. ASSUME NEW x \in Media, NEW y \in Media
      PROVE  <<x, y>> \in before' <=> <<x, y>> \in before /\ x # m /\ y # m
  <2>1. CASE x # m /\ y # m
    BY <1>5, <2>1 DEF before
  <2>2. CASE x = m \/ y = m
    BY <1>5, <2>2 DEF before, NoGallery
  <2> QED
    BY <2>1, <2>2
<1>7. before' = {x \in before : x[1] # m /\ x[2] # m}
  <2>1. before \subseteq Media \X Media /\ before' \subseteq Media \X Media
    BY DEF before
  <2> QED
    BY <1>6, <2>1
<1>8. A!Remove(m)
  BY <1>4, <1>5, <1>7 DEF A!Remove
<1> QED
  BY <1>2, <1>8 DEF A!Next

\* A reorder whose order is written arranges the whole gallery.
LEMMA RenumberArranges ==
    ASSUME IInv, NEW r \in Requests, Renumber(r), Ordered
    PROVE  A!Next
<1> DEFINE g == req[r].g
           o == req[r].order
           a == AskOf(r)
<1>1. At(r, "renumber") /\ Done(r) /\ ~At(r, "idle") /\ may' = may /\ gallery' = gallery
  BY DEF Renumber, At
<1>2. At(r, "idle")' /\ \A q \in Requests \ {r} : req'[q] = req[q]
  BY <1>1, DoneFacts
<1>3. Asker(r) /\ ~Asker(r)'
  BY <1>1, <1>2 DEF Asker, At
<1>4. /\ "race" \notin may /\ \A q \in Requests \ {r} : ~Asker(q)
      /\ asked = {a} /\ asked' = {}
  BY <1>2, <1>3, AskedAlone
<1>5. Rows(g) = DOMAIN o
  BY <1>1, <1>4 DEF IInv, Whole
<1>6. PICK D \in SUBSET Media : o \in Orders(D)
  BY DEF IInv, TypeOK, RequestStates
<1>7. DOMAIN o = D /\ RankingOf(o) \in A!Rankings(D)
  BY <1>6, OrderFacts, OrdersRank
<1>8. A!In(g) = Rows(g) /\ Rows(g) = D
  BY <1>5, <1>7 DEF A!In, Rows
<1>9. a.of = g /\ a.as = RankingOf(o) /\ a.as \in A!Rankings(A!In(a.of))
  BY <1>7, <1>8 DEF AskOf
<1>10. \A m \in Media : pos'[m] = IF m \in D THEN o[m] ELSE pos[m]
  BY <1>4, <1>7, <1>8 DEF Renumber, Asker, At
<1>11. g # NoGallery
  BY NamesAssumption DEF IInv, TypeOK, RequestStates, Places, NoGallery
<1>12. ASSUME NEW x \in Media, NEW y \in Media
       PROVE  <<x, y>> \in before' <=>
                \/ <<x, y>> \in before /\ ~(x \in D /\ y \in D)
                \/ <<x, y>> \in RankingOf(o)
  <2>1. CASE x \in D /\ y \in D
    BY <1>1, <1>7, <1>8, <1>10, <1>11, <2>1 DEF before, RankingOf, Rows, NoGallery
  <2>2. CASE (x \in D /\ y \notin D) \/ (x \notin D /\ y \in D)
    BY <1>1, <1>7, <1>8, <2>2 DEF before, RankingOf, Rows
  <2>3. CASE x \notin D /\ y \notin D
    BY <1>1, <1>7, <1>10, <2>3 DEF before, RankingOf, NoGallery
  <2> QED
    BY <2>1, <2>2, <2>3
<1>13. before' = (before \ (D \X D)) \cup RankingOf(o)
  <2>1. /\ before \subseteq Media \X Media /\ before' \subseteq Media \X Media
        /\ RankingOf(o) \subseteq Media \X Media
    BY DEF before, RankingOf
  <2> QED
    BY <1>12, <2>1
<1>14. A!Arrange(a)
  BY <1>1, <1>4, <1>8, <1>9, <1>13 DEF A!Arrange
<1> QED
  BY <1>4, <1>14 DEF A!Next

\* A reorder begins by naming the gallery as it is.
LEMMA ReadingAsks ==
    ASSUME IInv, NEW r \in Requests, ReadGallery(r), Ordered
    PROVE  A!Next \/ UNCHANGED <<gallery, before, asked>>
<1> DEFINE g == req[r].g
<1>1. At(r, "readGallery") /\ ~At(r, "idle") /\ ~Asker(r) /\ UNCHANGED <<may, gallery, pos>>
  BY DEF ReadGallery, At, Asker
<1>2. before' = before /\ g \in Places
  BY <1>1 DEF before, NoGallery, IInv, TypeOK, RequestStates
<1>3. CASE Done(r)
  <2>1. At(r, "idle")' /\ \A q \in Requests \ {r} : req'[q] = req[q]
    BY <1>1, <1>3, DoneFacts
  <2>2. asked' = asked
    BY <1>1, <2>1, AskedStays DEF Asker, At
  <2> QED
    BY <1>1, <1>2, <2>2
<1>4. ASSUME NEW order \in Orders(Rows(g)),
             Become(r, Call("check", NoMedium, g, Unstated, order))
      PROVE  A!Next
  <2>1. /\ req'[r].pc = "check" /\ req'[r].g = g /\ req'[r].order = order
        /\ \A q \in Requests \ {r} : req'[q] = req[q]
    BY <1>4 DEF Become, Call, IInv, TypeOK
  <2>2. asked = {} /\ asked' = {AskOf(r)'}
    BY <1>1, <2>1, AskedAlone DEF Asker
  <2>3. AskOf(r)' = [of |-> g, as |-> RankingOf(order)]
    BY <2>1 DEF AskOf, RankingOf
  <2>4. RankingOf(order) \in A!Rankings(A!In(g))
    <3>1. Rows(g) \in SUBSET Media /\ A!In(g) = Rows(g)
      BY DEF Rows, A!In
    <3> QED
      BY <3>1, OrdersRank
  <2>5. A!Ask(g)
    BY <1>1, <1>2, <2>2, <2>3, <2>4 DEF A!Ask
  <2> QED
    BY <1>2, <2>5 DEF A!Next
<1> QED
  BY <1>3, <1>4 DEF ReadGallery

\* Between the asking and the writing a reorder may give up.
LEMMA CheckRefuses ==
    ASSUME IInv, NEW r \in Requests, Check(r) \/ Abort(r), Ordered
    PROVE  A!Next \/ UNCHANGED <<gallery, before, asked>>
<1>1. ~At(r, "idle") /\ UNCHANGED <<may, gallery, pos>>
  BY DEF Check, Abort, At
<1>2. before' = before
  BY <1>1 DEF before, NoGallery
<1>3. CASE Done(r)
  <2>1. At(r, "idle")' /\ ~Asker(r)' /\ \A q \in Requests \ {r} : req'[q] = req[q]
    BY <1>1, <1>3, DoneFacts DEF Asker, At
  <2>2. CASE ~Asker(r)
    BY <1>1, <1>2, <2>1, <2>2, AskedStays
  <2>3. CASE Asker(r)
    <3>1. asked = {AskOf(r)} /\ asked' = {}
      BY <2>1, <2>3, AskedAlone
    <3>2. A!Refuse(AskOf(r))
      BY <1>1, <1>2, <3>1 DEF A!Refuse
    <3> QED
      BY <3>1, <3>2 DEF A!Next
  <2> QED
    BY <2>2, <2>3
<1>4. CASE At(r, "check") /\ Goto(r, "renumber")
  <2>1. /\ req'[r].pc = "renumber" /\ req'[r].g = req[r].g /\ req'[r].order = req[r].order
        /\ \A q \in Requests \ {r} : req'[q] = req[q]
    BY <1>4 DEF Goto, IInv, TypeOK, RequestStates
  <2>2. asked = {AskOf(r)} /\ asked' = {AskOf(r)'}
    BY <1>4, <2>1, AskedAlone DEF Asker, At
  <2>3. AskOf(r)' = AskOf(r)
    BY <2>1 DEF AskOf, RankingOf
  <2> QED
    BY <1>1, <1>2, <2>2, <2>3
<1> QED
  BY <1>3, <1>4 DEF Check, Abort

\* The other steps touch neither photos nor what was asked of them.
LEMMA OthersAreQuiet ==
    ASSUME IInv, NEW r \in Requests,
           \/ Begin(r) \/ FindRecorded(r) \/ Head(r) \/ Lock(r)
           \/ DeleteObject(r) \/ InsertSection(r) \/ CountMedia(r) \/ DeleteSection(r)
    PROVE  UNCHANGED <<gallery, before, asked>>
<1>1. gallery' = gallery /\ pos' = pos /\ ~Asker(r)
  BY DEF Begin, CompleteBegin, ReorderBegin, DeleteBegin, CreateSectionBegin,
         DeleteSectionBegin, FindRecorded, Head, Lock, DeleteObject, InsertSection,
         CountMedia, DeleteSection, Free, At, Asker
<1>2. before' = before
  BY <1>1 DEF before, NoGallery
<1>3. \/ Done(r)
      \/ \E label \in Labels \ {"check", "renumber"} : Goto(r, label)
      \/ \E pc \in Labels \ {"check", "renumber"} :
           \E m, g, at : Become(r, Call(pc, m, g, at, NoOrder))
  BY DEF Begin, CompleteBegin, ReorderBegin, DeleteBegin, CreateSectionBegin,
         DeleteSectionBegin, FindRecorded, Head, Lock, DeleteObject, InsertSection,
         CountMedia, DeleteSection, Labels
<1>4. ~Asker(r)' /\ \A q \in Requests \ {r} : req'[q] = req[q]
  BY <1>3 DEF Done, Idle, Goto, Become, Call, Asker, IInv, TypeOK, RequestStates
<1> QED
  BY <1>1, <1>2, <1>4, AskedStays

\* media.service.ts and its functions keep an album: photos come in last, go
\* away, and otherwise stand as they stood until a reorder arranges the whole row.
THEOREM Implements == Spec => KeepsAlbum
<1>1. Init => A!Init
  <2> SUFFICES ASSUME Init PROVE A!Init
    OBVIOUS
  <2>1. before = {}
    BY DEF Init, before
  <2>2. asked = {}
    BY DEF Init, asked, Idle, Call
  <2> QED
    BY <2>1, <2>2 DEF Init, A!Init
<1>2. IInv /\ [Next]_vars => [Ordered => A!Next]_<<gallery, before, asked>>
  <2> SUFFICES ASSUME IInv, [Next]_vars, Ordered
               PROVE  A!Next \/ UNCHANGED <<gallery, before, asked>>
    OBVIOUS
  <2>1. CASE UNCHANGED vars
    BY <2>1 DEF vars, before, asked, RankingOf, NoGallery
  <2>2. ASSUME NEW m \in Media, Upload(m) PROVE UNCHANGED <<gallery, before, asked>>
    BY <2>2 DEF Upload, before, asked, RankingOf, NoGallery
  <2>3. ASSUME NEW r \in Requests, Begin(r) \/ Step(r) \/ Abort(r)
        PROVE  A!Next \/ UNCHANGED <<gallery, before, asked>>
    BY <2>3, InsertAppends, DeleteRemoves, RenumberArranges, ReadingAsks, CheckRefuses,
       OthersAreQuiet DEF Step
  <2> QED
    BY <2>1, <2>2, <2>3 DEF Next
<1> QED
  BY <1>1, <1>2, Inductive, PTL DEF Spec, KeepsAlbum

-----------------------------------------------------------------------------
(* What happens in the end.                                                 *)

\* A request can take its next step: it has begun, and if that step is to take
\* a gallery's lock, nobody holds it.
Ready(r) ==
    /\ ~At(r, "idle")
    /\ At(r, "lock") => ~There(req[r].g) \/ ~Locked(req[r].g)

\* Node resumes every await, and the database hands a lock that is free again
\* and again to everyone who waits for it.
GoesOn(r) == <>[]~Ready(r) \/ []<><<Step(r)>>_vars
LiveSpec  == Spec /\ \A r \in Requests : GoesOn(r)

\* How many calls a request has still to make, at most.
CallsLeft(r) ==
    LET l == req[r].pc IN
    CASE l = "idle" -> 0
      [] l \in {"insert", "renumber", "deleteRow", "insertSection", "deleteSection"} -> 1
      [] l \in {"lock", "check", "deleteObject", "countMedia"} -> 2
      [] l \in {"head", "readGallery"} -> 3
      [] OTHER -> 4

Within(r, k)   == CallsLeft(r) <= k
Falls(r, k, j) == [](Within(r, k) => <>Within(r, j))
Ends(r)        == []<>At(r, "idle")
Moves(r)       == []<>At(r, "idle") \/ []<><<Step(r)>>_vars

LEMMA CallsBound ==
    ASSUME NEW r
    PROVE  CallsLeft(r) \in 0..4 /\ (CallsLeft(r) = 0 <=> At(r, "idle"))
BY DEF CallsLeft, At

\* What comes after each call.
LEMMA After ==
    ASSUME IInv, NEW r \in Requests, Step(r)
    PROVE  /\ \/ req[r].pc = "find" /\ req'[r].pc \in {"head", "idle"}
              \/ req[r].pc = "head" /\ req'[r].pc \in {"lock", "idle"}
              \/ req[r].pc = "lock" /\ req'[r].pc \in {"insert", "idle"}
              \/ req[r].pc = "readGallery" /\ req'[r].pc \in {"check", "idle"}
              \/ req[r].pc = "check" /\ req'[r].pc \in {"renumber", "idle"}
              \/ req[r].pc = "deleteObject" /\ req'[r].pc = "deleteRow"
              \/ req[r].pc = "countMedia" /\ req'[r].pc \in {"deleteSection", "idle"}
              \/ /\ req[r].pc \in {"insert", "renumber", "deleteRow", "insertSection",
                                   "deleteSection"}
                 /\ req'[r].pc = "idle"
           /\ \A q \in Requests \ {r} : req'[q] = req[q]
<1>1. req \in [Requests -> RequestStates]
  BY DEF IInv, TypeOK
<1>2. \A l \in Labels : Goto(r, l) =>
        req'[r].pc = l /\ \A q \in Requests \ {r} : req'[q] = req[q]
  BY <1>1 DEF Goto, RequestStates
<1>3. Done(r) => req'[r].pc = "idle" /\ \A q \in Requests \ {r} : req'[q] = req[q]
  BY <1>1 DEF Done, Become, Idle, Call
<1>4. ASSUME NEW l, NEW m, NEW g, NEW at, NEW o, Become(r, Call(l, m, g, at, o))
      PROVE  req'[r].pc = l /\ \A q \in Requests \ {r} : req'[q] = req[q]
  BY <1>1, <1>4 DEF Become, Call
<1>5. CASE FindRecorded(r) \/ Head(r) \/ Check(r) \/ CountMedia(r) \/ DeleteObject(r)
  BY <1>2, <1>3, <1>5 DEF FindRecorded, Head, Check, CountMedia, DeleteObject, At, Labels
<1>6. CASE Lock(r) \/ ReadGallery(r)
  BY <1>3, <1>4, <1>6 DEF Lock, ReadGallery, At
<1>7. CASE Insert(r) \/ Renumber(r) \/ DeleteRow(r) \/ InsertSection(r) \/ DeleteSection(r)
  BY <1>3, <1>7 DEF Insert, Renumber, DeleteRow, InsertSection, DeleteSection, At
<1> QED
  BY <1>5, <1>6, <1>7 DEF Step

\* Every call of a request leaves it with fewer to come.
LEMMA StepsDown ==
    ASSUME IInv, NEW r \in Requests, Step(r)
    PROVE  CallsLeft(r)' < CallsLeft(r)
BY After DEF CallsLeft

\* A request is changed by its own steps only.
LEMMA OnlyItsOwn ==
    ASSUME IInv, [Next]_vars, NEW r \in Requests, req'[r] # req[r]
    PROVE  /\ Free(r) \/ Step(r) \/ Abort(r)
           /\ \A q \in Requests \ {r} : req'[q] = req[q]
<1>1. req \in [Requests -> RequestStates]
  BY DEF IInv, TypeOK
<1>2. ASSUME NEW q \in Requests, Begin(q) \/ Step(q) \/ Abort(q)
      PROVE  \A p \in Requests \ {q} : req'[p] = req[p]
  <2>1. CASE Step(q)
    BY <2>1, After
  <2>2. CASE Begin(q) \/ Abort(q)
    <3>1. \E c : req' = [req EXCEPT ![q] = c]
      BY <2>2 DEF Begin, CompleteBegin, ReorderBegin, DeleteBegin, CreateSectionBegin,
                  DeleteSectionBegin, Abort, Become, Goto, Done
    <3> QED
      BY <1>1, <3>1
  <2> QED
    BY <1>2, <2>1, <2>2
<1>3. PICK q \in Requests : Begin(q) \/ Step(q) \/ Abort(q)
  BY DEF Next, Upload, vars
<1>4. q = r
  BY <1>2, <1>3
<1>5. Begin(r) => Free(r)
  BY DEF Begin, CompleteBegin, ReorderBegin, DeleteBegin, CreateSectionBegin, DeleteSectionBegin
<1> QED
  BY <1>2, <1>3, <1>4, <1>5

\* No step of anybody gives a request in progress more calls.
LEMMA NeverMore ==
    ASSUME IInv, [Next]_vars, NEW r \in Requests, ~At(r, "idle")
    PROVE  CallsLeft(r)' <= CallsLeft(r)
<1>1. CASE req'[r] = req[r]
  BY <1>1, CallsBound DEF CallsLeft
<1>2. CASE Step(r)
  <2>1. CallsLeft(r)' \in 0..4
    BY DEF CallsLeft
  <2> QED
    BY <1>2, <2>1, StepsDown, CallsBound
<1>3. CASE Abort(r)
  <2>1. CallsLeft(r)' = 0
    BY <1>3 DEF Abort, Done, Become, IInv, TypeOK, Idle, Call, CallsLeft
  <2> QED
    BY <2>1, CallsBound
<1> QED
  BY <1>1, <1>2, <1>3, OnlyItsOwn DEF Free

-----------------------------------------------------------------------------
(* Locks.                                                                   *)

Keeps(q, g)  == At(q, "insert") /\ req[q].g = g
Waits(r, g)  == At(r, "lock") /\ req[r].g = g /\ Locked(g)
Leaves(q, g) == [](Keeps(q, g) => <>~Locked(g))
Opens(g)     == []<>~Locked(g)
Passes(r, g) == [](Waits(r, g) => <>(Ready(r) \/ At(r, "idle")))

\* Who holds a lock lets go of it with the next call, and nobody else holds it.
LEMMA LetsGo ==
    ASSUME NEW q \in Requests, NEW g \in Places
    PROVE  Spec /\ GoesOn(q) => Leaves(q, g)
<1>1. Keeps(q, g) => Ready(q)
  BY DEF Keeps, Ready, At
<1>2. IInv /\ [Next]_vars /\ Keeps(q, g) => Keeps(q, g)' \/ ~Locked(g)'
  <2> SUFFICES ASSUME IInv, [Next]_vars, Keeps(q, g), ~Keeps(q, g)', Locked(g)'
               PROVE  FALSE
    OBVIOUS
  <2>1. req'[q] # req[q]
    BY DEF Keeps, At
  <2>2. PICK p \in Requests : At(p, "insert")' /\ req'[p].g = g
    BY DEF Locked, At
  <2>3. p # q
    BY <2>2 DEF Keeps, At
  <2>4. req'[p] = req[p]
    BY <2>1, <2>3, OnlyItsOwn
  <2> QED
    BY <2>2, <2>3, <2>4 DEF IInv, Alone, Keeps, At
<1>3. IInv /\ <<Step(q)>>_vars /\ Keeps(q, g) => ~Keeps(q, g)'
  BY After DEF Keeps, At
<1> QED
  BY <1>1, <1>2, <1>3, Inductive, PTL DEF Spec, GoesOn, Leaves

\* So every lock comes free again and again.
LEMMA LocksOpen ==
    ASSUME NEW g \in Places
    PROVE  LiveSpec => Opens(g)
<1>1. LiveSpec => \A q \in Requests : Leaves(q, g)
  BY LetsGo DEF LiveSpec
<1>2. (\A q \in Requests : Leaves(q, g)) => [](\A q \in Requests : Keeps(q, g) => <>~Locked(g))
  BY DEF Leaves
<1>3. (\A q \in Requests : Keeps(q, g) => <>~Locked(g)) =>
        ((\E q \in Requests : Keeps(q, g)) => <>~Locked(g))
  OBVIOUS
<1>4. Locked(g) => \E q \in Requests : Keeps(q, g)
  BY DEF Locked, Keeps
<1> QED
  BY <1>1, <1>2, <1>3, <1>4, PTL DEF Opens

\* Who waits for one stays in the queue until its turn can come.
LEMMA WaitingPasses ==
    ASSUME NEW r \in Requests, NEW g \in Places
    PROVE  LiveSpec => Passes(r, g)
<1>1. IInv /\ [Next]_vars /\ Waits(r, g) => Waits(r, g)' \/ (Ready(r) \/ At(r, "idle"))'
  <2> SUFFICES ASSUME IInv, [Next]_vars, Waits(r, g)
               PROVE  Waits(r, g)' \/ Ready(r)' \/ At(r, "idle")'
    OBVIOUS
  <2>1. CASE req'[r] = req[r]
    BY <2>1 DEF Waits, Ready, At
  <2>2. CASE Step(r)
    BY <2>2, After DEF Waits, Ready, At
  <2>3. CASE Abort(r)
    BY <2>3 DEF Abort, Done, Become, IInv, TypeOK, Idle, Call, At
  <2> QED
    BY <2>1, <2>2, <2>3, OnlyItsOwn DEF Free, Waits, At
<1>2. Waits(r, g) => Locked(g)
  BY DEF Waits
<1>3. LiveSpec => Spec
  BY DEF LiveSpec
<1> QED
  BY <1>1, <1>2, <1>3, LocksOpen, Inductive, PTL DEF Spec, Opens, Passes

\* A request in progress steps again and again, or comes to rest.
LEMMA NobodyIsStuck ==
    ASSUME NEW r \in Requests
    PROVE  LiveSpec => Moves(r)
<1>1. LiveSpec => Spec /\ GoesOn(r)
  BY DEF LiveSpec
<1>2. LiveSpec => \A g \in Places : Passes(r, g)
  BY WaitingPasses
<1>3. (\A g \in Places : Passes(r, g)) =>
        [](\A g \in Places : Waits(r, g) => <>(Ready(r) \/ At(r, "idle")))
  BY DEF Passes
<1>4. (\A g \in Places : Waits(r, g) => <>(Ready(r) \/ At(r, "idle"))) =>
        ((\E g \in Places : Waits(r, g)) => <>(Ready(r) \/ At(r, "idle")))
  OBVIOUS
<1>5. IInv /\ ~Ready(r) /\ ~At(r, "idle") => \E g \in Places : Waits(r, g)
  BY DEF Ready, Waits, IInv, TypeOK, RequestStates
<1> QED
  BY <1>1, <1>2, <1>3, <1>4, <1>5, Inductive, PTL DEF GoesOn, Moves

\* A request that goes on comes one call nearer to its end.
LEMMA Descends ==
    ASSUME NEW r \in Requests, NEW j \in 0..3, NEW k, k = j + 1
    PROVE  Spec /\ Moves(r) => Falls(r, k, j)
<1>1. At(r, "idle") => Within(r, j)
  BY CallsBound DEF Within
<1>2. IInv /\ [Next]_vars /\ Within(r, k) /\ ~Within(r, j) => Within(r, k)'
  <2> SUFFICES ASSUME IInv, [Next]_vars, Within(r, k), ~Within(r, j) PROVE Within(r, k)'
    OBVIOUS
  <2>1. CallsLeft(r)' <= CallsLeft(r) /\ CallsLeft(r)' \in 0..4
    BY <1>1, NeverMore DEF CallsLeft
  <2> QED
    BY <2>1, CallsBound DEF Within
<1>3. IInv /\ <<Step(r)>>_vars /\ Within(r, k) => Within(r, j)'
  <2> SUFFICES ASSUME IInv, Step(r), Within(r, k) PROVE Within(r, j)'
    OBVIOUS
  <2>1. CallsLeft(r)' < CallsLeft(r) /\ CallsLeft(r)' \in 0..4
    BY StepsDown DEF CallsLeft
  <2> QED
    BY <2>1, CallsBound DEF Within
<1> QED
  BY <1>1, <1>2, <1>3, Inductive, PTL DEF Spec, Moves, Falls

\* Every request that has begun comes to its end.
EveryRequestEnds == \A r \in Requests : Ends(r)

\* record_location_media takes one lock and holds it for one call, so no two
\* requests wait for each other, and none waits for ever behind the others,
\* however many complete uploads to one gallery at once.
THEOREM RequestsEnd == LiveSpec => EveryRequestEnds
<1>1. ASSUME NEW r \in Requests PROVE LiveSpec => Ends(r)
  <2>1. LiveSpec => Spec /\ Moves(r)
    BY NobodyIsStuck DEF LiveSpec
  <2>2. Spec /\ Moves(r) => /\ Falls(r, 4, 3) /\ Falls(r, 3, 2)
                            /\ Falls(r, 2, 1) /\ Falls(r, 1, 0)
    BY Descends
  <2>3. Within(r, 4) /\ (Within(r, 0) => At(r, "idle"))
    BY CallsBound DEF Within
  <2> QED
    BY <2>1, <2>2, <2>3, PTL DEF Falls, Ends
<1> QED
  BY <1>1 DEF EveryRequestEnds
=============================================================================
