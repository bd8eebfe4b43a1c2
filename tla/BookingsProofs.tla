--------------------------- MODULE BookingsProofs ---------------------------
(***************************************************************************)
(* Proofs about Bookings, for any number of bookings, blocks and requests   *)
(* and any spans: the handlers implement Calendar, so no instant is booked  *)
(* twice; no notice is ever contradicted, and none is forgotten unless a    *)
(* call fails; and what is booked is open while the host does not interfere.*)
(*                                                                          *)
(* The inductive invariant adds to the types what each request knows at     *)
(* each await (Held): an operation about to write has read a status it may  *)
(* start from, and one about to send a notice has made the notice true.     *)
(* Steps of other requests keep that, because the only moves they can make  *)
(* are Calendar's, and those contradict no notice.  Since a notice is owed  *)
(* by a request until it is sent, and requests end, it is sent in the end.  *)
(***************************************************************************)
EXTENDS Bookings, TLAPS

Held(r) ==
    /\ req[r].pc \in {"check", "insert"} =>
         req[r].span \in Spans /\ req[r].seen \in Reserving
    /\ req[r].pc = "tellHost" =>
         /\ req[r].b \in Bookings
         /\ IsSo(Note("received", "host", req[r].b))
         /\ req[r].seen = "confirmed" => IsSo(Note("confirmed", "booker", req[r].b))
    /\ req[r].pc = "tellBooker" =>
         req[r].b \in Bookings /\ IsSo(Note("confirmed", "booker", req[r].b))
    /\ req[r].pc = "write" =>
         req[r].b \in Bookings /\ req[r].op \in Operations /\ req[r].seen \in From(req[r].op)
    /\ req[r].pc = "findHost" => req[r].op = "cancelAsBooker"
    /\ req[r].pc \in {"findHost", "tell"} =>
         /\ req[r].b \in Bookings
         /\ req[r].op \in Operations \ {"complete"}
         /\ IsSo(NoteOf(req[r].op, req[r].b))

IInv == TypeOK /\ (\A r \in Requests : Held(r)) /\ NotesAreTrue

Diary == <<status, span>>

-----------------------------------------------------------------------------
(* The refinement: only Insert and Write touch the calendar.                *)

\* createBooking's insert books a free span in one step, whatever the check
\* before it had seen: the exclusion constraint stands in for Calendar's guard.
LEMMA InsertBooks ==
    ASSUME IInv, NEW r \in Requests, Insert(r)
    PROVE  [C!Next]_Diary
<1>1. req[r].span \in Spans /\ req[r].seen \in {"requested", "confirmed"}
  BY DEF IInv, Held, Insert, At, Reserving
<1>2. CASE UNCHANGED Diary
  BY <1>2
<1>3. ASSUME NEW b \in Bookings, status[b] = "absent", Fits(req[r].span),
             status' = [status EXCEPT ![b] = req[r].seen],
             span' = [span EXCEPT ![b] = req[r].span]
      PROVE  C!Book(b, req[r].span, req[r].seen)
  BY <1>3, <1>1 DEF C!Book, C!Reserving, Fits, Overlap, Reserving
<1>4. C!Next \/ UNCHANGED Diary
  BY <1>1, <1>2, <1>3 DEF Insert, C!Next, C!Reserving, Diary
<1>. QED
  BY <1>4

\* transitionBooking's compare-and-swap decides on the status of that moment:
\* the one it read, which From allows.
LEMMA WriteDecides ==
    ASSUME IInv, NEW r \in Requests, Write(r)
    PROVE  [C!Next]_Diary
<1>. DEFINE b == req[r].b
            op == req[r].op
<1>1. b \in Bookings /\ op \in Operations /\ req[r].seen \in From(op)
  BY DEF IInv, Held, Write, At
<1>2. CASE Unchanged(r)
  <2>1. status' = [status EXCEPT ![b] = To(op)] /\ span' = span
    BY <1>2 DEF Write
  <2>2. status[b] \in From(op)
    BY <1>1, <1>2 DEF Unchanged
  <2>3. <<status[b], To(op)>> \in C!Moves
    BY <1>1, <2>2 DEF C!Moves, From, To, Operations, Reserving
  <2>4. To(op) \in {"confirmed", "rejected", "cancelled", "completed"}
    BY DEF To
  <2>5. C!Decide(b, To(op))
    BY <2>1, <2>3 DEF C!Decide
  <2>. QED
    BY <1>1, <2>4, <2>5 DEF C!Next
<1>3. CASE ~Unchanged(r)
  BY <1>3 DEF Write, Diary
<1>. QED
  BY <1>2, <1>3

\* Every step of the service is a step of Calendar or leaves it alone.
LEMMA StepImplements ==
    ASSUME IInv, [Next]_vars
    PROVE  [C!Next]_Diary
<1>1. ASSUME NEW r \in Requests, Insert(r) PROVE [C!Next]_Diary
  BY <1>1, InsertBooks
<1>2. ASSUME NEW r \in Requests, Write(r) PROVE [C!Next]_Diary
  BY <1>2, WriteDecides
<1>3. ASSUME NEW r \in Requests,
             \/ \E s \in Spans : CreateBegin(r, s)
             \/ \E b \in Bookings, op \in Operations : TransitionBegin(r, b, op)
             \/ Check(r) \/ TellHost(r) \/ TellBooker(r) \/ FindHost(r) \/ Tell(r)
             \/ Abort(r)
      PROVE  UNCHANGED Diary
  BY <1>3 DEF CreateBegin, TransitionBegin, Check, TellHost, TellBooker, FindHost,
              Tell, Abort, Diary
<1>4. CASE (\E k \in Blocks, s \in Spans \cup {{}} : SetBlock(k, s)) \/ SetPublished \/ SetInstant
  BY <1>4 DEF SetBlock, SetPublished, SetInstant, Diary
<1>5. CASE UNCHANGED vars
  BY <1>5 DEF vars, Diary
<1>. QED
  BY <1>1, <1>2, <1>3, <1>4, <1>5 DEF Next, Step

-----------------------------------------------------------------------------
(* What other requests' steps leave true.                                   *)

\* A step of the calendar, whoever takes it, contradicts no notice.
LEMMA TruthLasts ==
    ASSUME TypeOK, [C!Next]_Diary, NEW n \in Notes, IsSo(n)
    PROVE  IsSo(n)'
<1>1. n.booking \in Bookings
  BY DEF Notes
<1>2. CASE UNCHANGED Diary
  BY <1>2 DEF IsSo, Diary
<1>3. ASSUME NEW b \in Bookings, NEW s \in Spans, NEW as \in C!Reserving, C!Book(b, s, as)
      PROVE  IsSo(n)'
  BY <1>3, <1>1 DEF IsSo, C!Book, TypeOK
<1>4. ASSUME NEW b \in Bookings, NEW to \in {"confirmed", "rejected", "cancelled", "completed"},
             C!Decide(b, to)
      PROVE  IsSo(n)'
  BY <1>4, <1>1 DEF IsSo, C!Decide, C!Moves, TypeOK
<1>. QED
  BY <1>2, <1>3, <1>4 DEF C!Next

\* What a request knows outlives the steps of the others.
LEMMA KnowledgeLasts ==
    ASSUME TypeOK, [C!Next]_Diary, NEW q \in Requests, Held(q), req'[q] = req[q]
    PROVE  Held(q)'
<1>1. ASSUME NEW b \in Bookings PROVE Note("received", "host", b) \in Notes
                                      /\ Note("confirmed", "booker", b) \in Notes
  BY DEF Note, Notes
<1>2. ASSUME NEW b \in Bookings, NEW op \in Operations PROVE NoteOf(op, b) \in Notes
  BY DEF NoteOf, Note, Notes
<1>3. ASSUME NEW n \in Notes, IsSo(n) PROVE IsSo(n)'
  BY <1>3, TruthLasts
<1>. QED
  BY <1>1, <1>2, <1>3 DEF Held

\* Notices sent before stay true.
LEMMA NotesLast ==
    ASSUME TypeOK, NotesAreTrue, [C!Next]_Diary, notes' = notes
    PROVE  NotesAreTrue'
<1>. notes \subseteq Notes
  BY DEF TypeOK
<1>. QED
  BY TruthLasts DEF NotesAreTrue

\* So a step of request r has only r itself to answer for.
LEMMA OneSteps ==
    ASSUME IInv, [C!Next]_Diary, NEW r \in Requests,
           \A q \in Requests \ {r} : req'[q] = req[q],
           TypeOK', Held(r)', NotesAreTrue'
    PROVE  IInv'
BY KnowledgeLasts DEF IInv

-----------------------------------------------------------------------------
(* The actions, one by one.                                                 *)

\* createBooking's read of the listing fixes the span and the status to insert.
LEMMA CreateBeginKeeps ==
    ASSUME IInv, NEW r \in Requests, NEW s \in Spans, CreateBegin(r, s)
    PROVE  IInv'
<1>1. req'[r].pc = "check" /\ req'[r].span = s /\ req'[r].seen \in Reserving
      /\ \A q \in Requests \ {r} : req'[q] = req[q]
  BY DEF IInv, TypeOK, CreateBegin, Become, Reserving
<1>2. TypeOK'
  BY DEF IInv, TypeOK, CreateBegin, Become, RequestStates, Labels, Statuses, Reserving
<1>3. UNCHANGED Diary /\ notes' = notes
  BY DEF CreateBegin, Diary
<1>4. Held(r)'
  BY <1>1 DEF Held
<1>. QED
  BY <1>1, <1>2, <1>3, <1>4, OneSteps, NotesLast DEF IInv

\* is_interval_available changes nothing the request holds.
LEMMA CheckKeeps ==
    ASSUME IInv, NEW r \in Requests, Check(r)
    PROVE  IInv'
<1>1. /\ req'[r] = Idle \/ req'[r] = [req[r] EXCEPT !.pc = "insert"]
      /\ \A q \in Requests \ {r} : req'[q] = req[q]
  BY DEF IInv, TypeOK, Check, Goto, Done, Become
<1>2. TypeOK'
  BY DEF IInv, TypeOK, Check, Goto, Done, Become, RequestStates, Labels, Idle
<1>3. UNCHANGED Diary /\ notes' = notes
  BY DEF Check, Diary
<1>4. Held(r)'
  BY <1>1 DEF IInv, TypeOK, RequestStates, Check, At, Held, Idle
<1>. QED
  BY <1>1, <1>2, <1>3, <1>4, OneSteps, NotesLast DEF IInv

\* The insert makes both notices it will send true.
LEMMA InsertKeeps ==
    ASSUME IInv, NEW r \in Requests, Insert(r)
    PROVE  IInv'
<1>1. [C!Next]_Diary
  BY InsertBooks
<1>2. notes' = notes
  BY DEF Insert
<1>3. CASE Done(r) /\ UNCHANGED <<status, span>>
  <2>1. req'[r] = Idle /\ \A q \in Requests \ {r} : req'[q] = req[q]
    BY <1>3 DEF IInv, TypeOK, Done, Become
  <2>2. TypeOK'
    BY <1>3 DEF IInv, TypeOK, Insert, Done, Become, RequestStates, Labels, Idle
  <2>3. Held(r)'
    BY <2>1 DEF Held, Idle
  <2>. QED
    BY <1>1, <1>2, <2>1, <2>2, <2>3, OneSteps, NotesLast DEF IInv
<1>4. ASSUME NEW b \in Bookings, status[b] = "absent",
             status' = [status EXCEPT ![b] = req[r].seen],
             span' = [span EXCEPT ![b] = req[r].span],
             Become(r, [req[r] EXCEPT !.pc = "tellHost", !.b = b])
      PROVE  IInv'
  <2>1. req[r].span \in Spans /\ req[r].seen \in Reserving /\ req[r] \in RequestStates
    BY DEF IInv, TypeOK, Held, Insert, At
  <2>2. req'[r] = [req[r] EXCEPT !.pc = "tellHost", !.b = b]
        /\ \A q \in Requests \ {r} : req'[q] = req[q]
    BY <1>4 DEF IInv, TypeOK, Become
  <2>3. req'[r] \in RequestStates
    BY <2>1, <2>2 DEF RequestStates, Labels
  <2>4. TypeOK'
    <3>1. req' \in [Requests -> RequestStates]
      BY <1>4, <2>2, <2>3 DEF IInv, TypeOK, Become
    <3>2. status' \in [Bookings -> Statuses \cup {"absent"}]
      BY <1>4, <2>1 DEF IInv, TypeOK, Statuses, Reserving
    <3>3. span' \in [Bookings -> Spans \cup {{}}]
      BY <1>4, <2>1 DEF IInv, TypeOK
    <3>. QED
      BY <3>1, <3>2, <3>3 DEF IInv, TypeOK, Insert
  <2>5. status'[b] = req[r].seen
    BY <1>4 DEF IInv, TypeOK
  <2>6. /\ req'[r].pc = "tellHost" /\ req'[r].b = b /\ req'[r].seen = req[r].seen
    BY <2>1, <2>2 DEF RequestStates
  <2>7. IsSo(Note("received", "host", b))'
    BY <2>1, <2>5 DEF IsSo, Note, Reserving
  <2>8. req[r].seen = "confirmed" => IsSo(Note("confirmed", "booker", b))'
    BY <2>5 DEF IsSo, Note
  <2>9. Held(r)'
    BY <2>6, <2>7, <2>8 DEF Held
  <2>. QED
    BY <1>1, <1>2, <2>2, <2>4, <2>9, OneSteps, NotesLast DEF IInv
<1>. QED
  BY <1>3, <1>4 DEF Insert

\* A notice is sent only of what the request made so, and a lost one harms none.
LEMMA SendKeeps ==
    ASSUME IInv, NEW n \in Notes, IsSo(n), Send(n), UNCHANGED Diary
    PROVE  NotesAreTrue' /\ notes' \subseteq Notes
<1>1. IsSo(n)'
  BY TruthLasts DEF IInv
<1>2. \A m \in notes : IsSo(m)'
  BY TruthLasts DEF IInv, TypeOK, NotesAreTrue
<1>3. notes' \subseteq notes \cup {n}
  BY DEF Send
<1>. QED
  BY <1>1, <1>2, <1>3 DEF NotesAreTrue, IInv, TypeOK

\* The host is told of the new booking; the booker's notice still holds.
LEMMA TellHostKeeps ==
    ASSUME IInv, NEW r \in Requests, TellHost(r)
    PROVE  IInv'
<1>. DEFINE b == req[r].b
<1>1. /\ b \in Bookings /\ IsSo(Note("received", "host", b))
      /\ req[r].seen = "confirmed" => IsSo(Note("confirmed", "booker", b))
  BY DEF IInv, Held, TellHost, At
<1>2. UNCHANGED Diary
  BY DEF TellHost, Diary
<1>3. Note("received", "host", b) \in Notes
  BY <1>1 DEF Note, Notes
<1>4. NotesAreTrue' /\ notes' \subseteq Notes
  BY <1>1, <1>2, <1>3, SendKeeps DEF TellHost
<1>5. /\ \A q \in Requests \ {r} : req'[q] = req[q]
      /\ \/ req'[r] = Idle
         \/ /\ req[r].seen = "confirmed"
            /\ req'[r] = [req[r] EXCEPT !.pc = "tellBooker"]
  BY DEF IInv, TypeOK, TellHost, Goto, Done, Become
<1>6. req[r] \in RequestStates
  BY DEF IInv, TypeOK
<1>7. TypeOK'
  BY <1>4, <1>6 DEF IInv, TypeOK, TellHost, Goto, Done, Become, RequestStates, Labels, Idle
<1>8. Held(r)'
  <2>1. CASE req'[r] = Idle
    BY <2>1 DEF Held, Idle
  <2>2. CASE req[r].seen = "confirmed" /\ req'[r] = [req[r] EXCEPT !.pc = "tellBooker"]
    <3>1. req'[r].pc = "tellBooker" /\ req'[r].b = b
      BY <2>2, <1>6 DEF RequestStates
    <3>2. IsSo(Note("confirmed", "booker", b))'
      BY <1>1, <1>2, <2>2 DEF IsSo, Note, Diary
    <3>. QED
      BY <3>1, <3>2, <1>1 DEF Held
  <2>. QED
    BY <1>5, <2>1, <2>2
<1>. QED
  BY <1>2, <1>4, <1>5, <1>7, <1>8, OneSteps DEF IInv

\* The booker of an instant booking is told, and the request is over.
LEMMA TellBookerKeeps ==
    ASSUME IInv, NEW r \in Requests, TellBooker(r)
    PROVE  IInv'
<1>. DEFINE b == req[r].b
<1>1. b \in Bookings /\ IsSo(Note("confirmed", "booker", b))
  BY DEF IInv, Held, TellBooker, At
<1>2. UNCHANGED Diary
  BY DEF TellBooker, Diary
<1>3. Note("confirmed", "booker", b) \in Notes
  BY <1>1 DEF Note, Notes
<1>4. NotesAreTrue' /\ notes' \subseteq Notes
  BY <1>1, <1>2, <1>3, SendKeeps DEF TellBooker
<1>5. req'[r] = Idle /\ \A q \in Requests \ {r} : req'[q] = req[q]
  BY DEF IInv, TypeOK, TellBooker, Done, Become
<1>6. TypeOK'
  BY <1>4 DEF IInv, TypeOK, TellBooker, Done, Become, RequestStates, Labels, Idle
<1>7. Held(r)'
  BY <1>5 DEF Held, Idle
<1>. QED
  BY <1>2, <1>4, <1>5, <1>6, <1>7, OneSteps DEF IInv

\* loadBookingAccess reads a status the operation may start from.
LEMMA TransitionBeginKeeps ==
    ASSUME IInv, NEW r \in Requests, NEW b \in Bookings, NEW op \in Operations,
           TransitionBegin(r, b, op)
    PROVE  IInv'
<1>1. /\ req'[r] = [op |-> op, pc |-> "write", b |-> b, span |-> {}, seen |-> status[b]]
      /\ \A q \in Requests \ {r} : req'[q] = req[q]
  BY DEF IInv, TypeOK, TransitionBegin, Become
<1>2. status[b] \in From(op) /\ From(op) \subseteq Statuses
  BY DEF TransitionBegin, From, Statuses, Reserving
<1>3. req'[r] \in RequestStates
  BY <1>1, <1>2 DEF RequestStates, Labels
<1>4. TypeOK'
  BY <1>1, <1>3 DEF IInv, TypeOK, TransitionBegin, Become
<1>5. UNCHANGED Diary /\ notes' = notes
  BY DEF TransitionBegin, Diary
<1>6. Held(r)'
  BY <1>1, <1>2 DEF Held
<1>. QED
  BY <1>1, <1>4, <1>5, <1>6, OneSteps, NotesLast DEF IInv

\* The write makes the notice it will send true.
LEMMA WriteKeeps ==
    ASSUME IInv, NEW r \in Requests, Write(r)
    PROVE  IInv'
<1>. DEFINE b == req[r].b
            op == req[r].op
<1>1. [C!Next]_Diary /\ notes' = notes
  BY WriteDecides DEF Write
<1>2. b \in Bookings /\ op \in Operations /\ req[r] \in RequestStates
  BY DEF IInv, TypeOK, Held, Write, At
<1>3. /\ \A q \in Requests \ {r} : req'[q] = req[q]
      /\ \/ req'[r] = Idle
         \/ /\ status' = [status EXCEPT ![b] = To(op)]
            /\ \/ op = "cancelAsBooker" /\ req'[r] = [req[r] EXCEPT !.pc = "findHost"]
               \/ op \in Operations \ {"complete"} /\ req'[r] = [req[r] EXCEPT !.pc = "tell"]
  BY <1>2 DEF IInv, TypeOK, Write, Goto, Done, Become
<1>4. req'[r] \in RequestStates
  BY <1>2, <1>3 DEF RequestStates, Labels, Idle
<1>5. TypeOK'
  <2>1. req' \in [Requests -> RequestStates]
    BY <1>4 DEF IInv, TypeOK, Write, Goto, Done, Become
  <2>2. To(op) \in Statuses
    BY DEF To, Statuses, Reserving
  <2>3. status' \in [Bookings -> Statuses \cup {"absent"}]
    BY <1>2, <2>2 DEF IInv, TypeOK, Write
  <2>. QED
    BY <2>1, <2>3 DEF IInv, TypeOK, Write
<1>6. Held(r)'
  <2>1. CASE req'[r] = Idle
    BY <2>1 DEF Held, Idle
  <2>2. ASSUME status' = [status EXCEPT ![b] = To(op)],
               NEW l \in {"findHost", "tell"}, req'[r] = [req[r] EXCEPT !.pc = l],
               op \in Operations \ {"complete"}, l = "findHost" => op = "cancelAsBooker"
        PROVE  Held(r)'
    <3>1. req'[r].pc = l /\ req'[r].b = b /\ req'[r].op = op
      BY <2>2, <1>2 DEF RequestStates
    <3>2. status'[b] = To(op)
      BY <2>2, <1>2 DEF IInv, TypeOK
    <3>3. IsSo(NoteOf(op, b))'
      BY <2>2, <3>2 DEF IsSo, NoteOf, Note, To, Operations
    <3>. QED
      BY <2>2, <3>1, <3>3, <1>2 DEF Held
  <2>. QED
    BY <1>3, <2>1, <2>2 DEF Operations
<1>. QED
  BY <1>1, <1>3, <1>5, <1>6, OneSteps, NotesLast DEF IInv

\* The host found, or not: the notice to be sent stays true.
LEMMA FindHostKeeps ==
    ASSUME IInv, NEW r \in Requests, FindHost(r)
    PROVE  IInv'
<1>1. /\ req'[r] = Idle \/ req'[r] = [req[r] EXCEPT !.pc = "tell"]
      /\ \A q \in Requests \ {r} : req'[q] = req[q]
      /\ req[r] \in RequestStates
  BY DEF IInv, TypeOK, FindHost, Goto, Done, Become
<1>2. TypeOK'
  BY DEF IInv, TypeOK, FindHost, Goto, Done, Become, RequestStates, Labels, Idle
<1>3. UNCHANGED Diary /\ notes' = notes
  BY DEF FindHost, Diary
<1>4. Held(r)'
  <2>1. CASE req'[r] = Idle
    BY <2>1 DEF Held, Idle
  <2>2. CASE req'[r] = [req[r] EXCEPT !.pc = "tell"]
    <3>1. req'[r].pc = "tell" /\ req'[r].b = req[r].b /\ req'[r].op = req[r].op
      BY <2>2, <1>1 DEF RequestStates
    <3>2. /\ req[r].b \in Bookings /\ req[r].op \in Operations \ {"complete"}
          /\ IsSo(NoteOf(req[r].op, req[r].b))
      BY DEF IInv, Held, FindHost, At
    <3>. QED
      BY <3>1, <3>2, <1>3 DEF Held, IsSo, NoteOf, Note, Operations, Diary
  <2>. QED
    BY <1>1, <2>1, <2>2
<1>. QED
  BY <1>1, <1>2, <1>3, <1>4, OneSteps, NotesLast DEF IInv

\* The verdict is told.
LEMMA TellKeeps ==
    ASSUME IInv, NEW r \in Requests, Tell(r)
    PROVE  IInv'
<1>1. /\ req[r].b \in Bookings /\ req[r].op \in Operations \ {"complete"}
      /\ IsSo(NoteOf(req[r].op, req[r].b))
  BY DEF IInv, Held, Tell, At
<1>2. UNCHANGED Diary
  BY DEF Tell, Diary
<1>3. NoteOf(req[r].op, req[r].b) \in Notes
  BY <1>1 DEF NoteOf, Note, Notes
<1>4. NotesAreTrue' /\ notes' \subseteq Notes
  BY <1>1, <1>2, <1>3, SendKeeps DEF Tell
<1>5. req'[r] = Idle /\ \A q \in Requests \ {r} : req'[q] = req[q]
  BY DEF IInv, TypeOK, Tell, Done, Become
<1>6. TypeOK'
  BY <1>4 DEF IInv, TypeOK, Tell, Done, Become, RequestStates, Labels, Idle
<1>7. Held(r)'
  BY <1>5 DEF Held, Idle
<1>. QED
  BY <1>2, <1>4, <1>5, <1>6, <1>7, OneSteps DEF IInv

\* A request that dies knows nothing any more.
LEMMA AbortKeeps ==
    ASSUME IInv, NEW r \in Requests, Abort(r)
    PROVE  IInv'
<1>1. req'[r] = Idle /\ \A q \in Requests \ {r} : req'[q] = req[q]
  BY DEF IInv, TypeOK, Abort, Done, Become
<1>2. TypeOK'
  BY DEF IInv, TypeOK, Abort, Done, Become, RequestStates, Labels, Idle
<1>3. UNCHANGED Diary /\ notes' = notes
  BY DEF Abort, Diary
<1>4. Held(r)'
  BY <1>1 DEF Held, Idle
<1>. QED
  BY <1>1, <1>2, <1>3, <1>4, OneSteps, NotesLast DEF IInv

\* What the host does to the listing disturbs no booking.
LEMMA HostKeeps ==
    ASSUME IInv, UNCHANGED <<may, status, span, notes, req>>, published' \in BOOLEAN,
           instant' \in BOOLEAN, block' \in [Blocks -> Spans \cup {{}}]
    PROVE  IInv'
<1>1. TypeOK'
  BY DEF IInv, TypeOK
<1>2. UNCHANGED Diary
  BY DEF Diary
<1>. QED
  BY <1>1, <1>2, KnowledgeLasts, NotesLast DEF IInv

-----------------------------------------------------------------------------
(* The theorems.                                                            *)

\* The initial state satisfies the invariant.
LEMMA InitIInv == Init => IInv
BY DEF Init, IInv, TypeOK, Held, NotesAreTrue, RequestStates, Labels, Idle

\* Every step keeps the invariant.
LEMMA NextIInv == IInv /\ [Next]_vars => IInv'
<1>. SUFFICES ASSUME IInv, [Next]_vars PROVE IInv'
  OBVIOUS
<1>1. ASSUME NEW r \in Requests, NEW s \in Spans, CreateBegin(r, s) PROVE IInv'
  BY <1>1, CreateBeginKeeps
<1>2. ASSUME NEW r \in Requests, NEW b \in Bookings, NEW op \in Operations,
             TransitionBegin(r, b, op)
      PROVE  IInv'
  BY <1>2, TransitionBeginKeeps
<1>3. ASSUME NEW r \in Requests, Step(r) PROVE IInv'
  BY <1>3, CheckKeeps, InsertKeeps, TellHostKeeps, TellBookerKeeps, WriteKeeps,
     FindHostKeeps, TellKeeps DEF Step
<1>4. ASSUME NEW r \in Requests, Abort(r) PROVE IInv'
  BY <1>4, AbortKeeps
<1>5. ASSUME NEW k \in Blocks, NEW s \in Spans \cup {{}}, SetBlock(k, s) PROVE IInv'
  BY <1>5, HostKeeps DEF SetBlock, IInv, TypeOK
<1>6. CASE SetPublished
  BY <1>6, HostKeeps DEF SetPublished, IInv, TypeOK
<1>7. CASE SetInstant
  BY <1>7, HostKeeps DEF SetInstant, IInv, TypeOK
<1>8. CASE UNCHANGED vars
  BY <1>8, HostKeeps DEF vars, IInv, TypeOK
<1>. QED
  BY <1>1, <1>2, <1>3, <1>4, <1>5, <1>6, <1>7, <1>8 DEF Next

\* The invariant holds of every execution, with any number of requests.
THEOREM Inductive == Spec => []IInv
BY InitIInv, NextIInv, PTL DEF Spec

\* Every variable keeps its type.
THEOREM TypeCorrect == Spec => []TypeOK
<1>1. IInv => TypeOK
  BY DEF IInv
<1>. QED
  BY <1>1, Inductive, PTL

\* No notice is ever contradicted, however decisions race.
THEOREM NoticesTrue == Spec => []NotesAreTrue
<1>1. IInv => NotesAreTrue
  BY DEF IInv
<1>. QED
  BY <1>1, Inductive, PTL

\* The booking service implements Calendar.
THEOREM Implements == Spec => KeepsCalendar
<1>1. Init => C!Init
  BY DEF Init, C!Init
<1>2. IInv /\ [Next]_vars => [C!Next]_<<status, span>>
  BY StepImplements DEF Diary
<1>. QED
  BY <1>1, <1>2, Inductive, PTL DEF Spec, KeepsCalendar, C!Spec

\* Calendar's steps keep the reserved spans apart: a booking is made of a free
\* span, and none comes back to reserve its span again.
LEMMA StaysApart ==
    ASSUME TypeOK, NeverDoubleBooked, [C!Next]_Diary
    PROVE  NeverDoubleBooked'
<1>1. CASE UNCHANGED Diary
  BY <1>1 DEF NeverDoubleBooked, Diary
<1>2. ASSUME NEW b \in Bookings, NEW s \in Spans, NEW as \in C!Reserving, C!Book(b, s, as)
      PROVE  NeverDoubleBooked'
  BY <1>2 DEF NeverDoubleBooked, C!Book, C!Reserving, Reserving, TypeOK
<1>3. ASSUME NEW b \in Bookings, NEW to \in {"confirmed", "rejected", "cancelled", "completed"},
             C!Decide(b, to)
      PROVE  NeverDoubleBooked'
  <2>1. to \in Reserving => status[b] \in Reserving
    BY <1>3 DEF C!Decide, C!Moves, Reserving
  <2>2. \A a \in Bookings : status'[a] \in Reserving => status[a] \in Reserving
    BY <2>1, <1>3 DEF C!Decide, TypeOK
  <2>3. span' = span
    BY <1>3 DEF C!Decide
  <2>. QED
    BY <2>2, <2>3 DEF NeverDoubleBooked
<1>. QED
  BY <1>1, <1>2, <1>3 DEF C!Next

\* The double-booking guarantee, for any number of bookers at once.
THEOREM NoDoubleBooking == Spec => []NeverDoubleBooked
<1>1. Init => NeverDoubleBooked
  BY DEF Init, NeverDoubleBooked, Reserving
<1>2. IInv /\ NeverDoubleBooked /\ [Next]_vars => NeverDoubleBooked'
  BY StepImplements, StaysApart DEF IInv
<1>. QED
  BY <1>1, <1>2, Inductive, PTL DEF Spec

-----------------------------------------------------------------------------
(* Nothing fails: what is decided is told.                                  *)

\* What a request still has to tell.
Owes(r, n) ==
    \/ /\ req[r].pc = "tellHost"
       /\ \/ n = Note("received", "host", req[r].b)
          \/ req[r].seen = "confirmed" /\ n = Note("confirmed", "booker", req[r].b)
    \/ req[r].pc = "tellBooker" /\ n = Note("confirmed", "booker", req[r].b)
    \/ req[r].pc = "tell" /\ n = NoteOf(req[r].op, req[r].b)

Settled(n) == n \in notes \/ \E r \in Requests : Owes(r, n)

\* Every verdict is told, or a request has still to tell it.
NothingForgotten ==
    "fail" \notin may => \A b \in Bookings :
        /\ status[b] # "absent" => Settled(Note("received", "host", b))
        /\ status[b] \in {"confirmed", "completed"} => Settled(Note("confirmed", "booker", b))
        /\ status[b] = "rejected" => Settled(Note("declined", "booker", b))

\* A request that acts settles what it owes: it sends the notice, or still owes it.
LEMMA DebtsLast ==
    ASSUME IInv, "fail" \notin may, NEW r \in Requests, \A q \in Requests \ {r} : req'[q] = req[q],
           notes \subseteq notes', NEW n, Settled(n), Owes(r, n) => n \in notes' \/ Owes(r, n)'
    PROVE  Settled(n)'
<1>1. CASE n \in notes
  BY <1>1 DEF Settled
<1>2. ASSUME NEW q \in Requests, Owes(q, n) PROVE Settled(n)'
  <2>1. CASE q = r
    BY <1>2, <2>1 DEF Settled
  <2>2. CASE q # r
    <3>1. Owes(q, n)'
      BY <1>2, <2>2 DEF Owes
    <3>. QED
      BY <3>1 DEF Settled
  <2>. QED
    BY <2>1, <2>2
<1>. QED
  BY <1>1, <1>2 DEF Settled

\* Nothing that is settled is forgotten, whoever acts.
LEMMA SettledLasts ==
    ASSUME IInv, "fail" \notin may, [Next]_vars, NEW n, Settled(n)
    PROVE  Settled(n)'
<1>1. ASSUME NEW r \in Requests,
             \/ \E s \in Spans : CreateBegin(r, s)
             \/ \E b \in Bookings, op \in Operations : TransitionBegin(r, b, op)
             \/ Check(r) \/ Insert(r) \/ Write(r) \/ FindHost(r)
      PROVE  Settled(n)'
  <2>1. \A q \in Requests \ {r} : req'[q] = req[q]
    BY <1>1 DEF IInv, TypeOK, CreateBegin, TransitionBegin, Check, Insert, Write, FindHost, Become, Goto, Done
  <2>2. notes' = notes /\ ~Owes(r, n)
    BY <1>1 DEF CreateBegin, TransitionBegin, Check, Insert, Write, FindHost, At, Owes
  <2>. QED
    BY <2>1, <2>2, DebtsLast
<1>2. ASSUME NEW r \in Requests, TellHost(r) PROVE Settled(n)'
  <2>1. \A q \in Requests \ {r} : req'[q] = req[q]
    BY <1>2 DEF IInv, TypeOK, TellHost, Become, Goto, Done
  <2>2. notes' = notes \cup {Note("received", "host", req[r].b)}
    BY <1>2 DEF TellHost, Send
  <2>3. ASSUME req[r].seen = "confirmed", n = Note("confirmed", "booker", req[r].b) PROVE Owes(r, n)'
    <3>1. req[r] \in RequestStates
      BY DEF IInv, TypeOK
    <3>2. req'[r] = [req[r] EXCEPT !.pc = "tellBooker"]
      BY <1>2, <2>3 DEF IInv, TypeOK, TellHost, Goto
    <3>3. req'[r].pc = "tellBooker" /\ req'[r].b = req[r].b
      BY <3>1, <3>2 DEF RequestStates
    <3>. QED
      BY <2>3, <3>3 DEF Owes
  <2>4. Owes(r, n) => n \in notes' \/ Owes(r, n)'
    BY <1>2, <2>2, <2>3 DEF Owes, TellHost, At
  <2>. QED
    BY <2>1, <2>2, <2>4, DebtsLast
<1>3. ASSUME NEW r \in Requests, TellBooker(r) \/ Tell(r) PROVE Settled(n)'
  <2>1. \A q \in Requests \ {r} : req'[q] = req[q]
    BY <1>3 DEF IInv, TypeOK, TellBooker, Tell, Become, Done
  <2>2. notes \subseteq notes' /\ (Owes(r, n) => n \in notes')
    BY <1>3 DEF TellBooker, Tell, Send, Owes, At
  <2>. QED
    BY <2>1, <2>2, DebtsLast
<1>4. CASE UNCHANGED <<notes, req>>
  BY <1>4 DEF Settled, Owes
<1>5. ASSUME NEW r \in Requests, Abort(r) PROVE FALSE
  BY <1>5 DEF Abort
<1>. QED
  BY <1>1, <1>2, <1>3, <1>4, <1>5 DEF Next, Step, SetBlock, SetPublished, SetInstant, vars

\* An insert owes the notices of the booking it made.
LEMMA InsertSettles ==
    ASSUME IInv, NEW r \in Requests, Insert(r), NEW b \in Bookings, status'[b] # status[b]
    PROVE  /\ Settled(Note("received", "host", b))'
           /\ status'[b] # "rejected"
           /\ status'[b] \in {"confirmed", "completed"} => Settled(Note("confirmed", "booker", b))'
<1>1. /\ status'[b] = req[r].seen
      /\ req' = [req EXCEPT ![r] = [req[r] EXCEPT !.pc = "tellHost", !.b = b]]
  BY DEF Insert, Become, Done, IInv, TypeOK
<1>2. req[r] \in RequestStates /\ req[r].seen \in Reserving
  BY DEF IInv, TypeOK, Held, Insert, At
<1>3. req'[r] = [req[r] EXCEPT !.pc = "tellHost", !.b = b]
  BY <1>1 DEF IInv, TypeOK
<1>4. req'[r].pc = "tellHost" /\ req'[r].b = b /\ req'[r].seen = req[r].seen
  BY <1>2, <1>3 DEF RequestStates
<1>5. Owes(r, Note("received", "host", b))'
  BY <1>4 DEF Owes
<1>6. req[r].seen = "confirmed" => Owes(r, Note("confirmed", "booker", b))'
  BY <1>4 DEF Owes
<1>. QED
  BY <1>1, <1>2, <1>5, <1>6 DEF Settled, Reserving

\* A decision owes its notice.  A booking that is completed was confirmed.
LEMMA WriteSettles ==
    ASSUME IInv, NothingForgotten, "fail" \notin may, [Next]_vars,
           NEW r \in Requests, Write(r), NEW b \in Bookings, status'[b] # status[b]
    PROVE  /\ status[b] # "absent"
           /\ status'[b] \in {"confirmed", "completed"} => Settled(Note("confirmed", "booker", b))'
           /\ status'[b] = "rejected" => Settled(Note("declined", "booker", b))'
<1>1. /\ req[r].b \in Bookings /\ req[r].op \in Operations
      /\ req[r].seen \in From(req[r].op) /\ req[r] \in RequestStates
  BY DEF IInv, TypeOK, Held, Write, At
<1>2. b = req[r].b /\ status'[b] = To(req[r].op) /\ status[b] = req[r].seen
  BY <1>1 DEF IInv, TypeOK, Write, Unchanged
<1>3. status[b] # "absent"
  BY <1>1, <1>2 DEF From, Reserving
<1>4. CASE req[r].op = "complete"
  <2>1. status[b] = "confirmed" /\ status'[b] = "completed"
    BY <1>1, <1>2, <1>4 DEF From, To
  <2>2. Settled(Note("confirmed", "booker", b))
    BY <2>1 DEF NothingForgotten
  <2>. QED
    BY <1>3, <2>1, <2>2, SettledLasts
<1>5. CASE req[r].op \in {"confirm", "reject"}
  <2>1. PICK op \in {"confirm", "reject"} : op = req[r].op
    BY <1>5
  <2>2. req'[r] = [req[r] EXCEPT !.pc = "tell"]
    BY <1>2, <1>5 DEF IInv, TypeOK, Write, Unchanged, Goto
  <2>3. req'[r].pc = "tell" /\ req'[r].b = b /\ req'[r].op = op
    BY <1>1, <1>2, <2>1, <2>2 DEF RequestStates
  <2>4. Owes(r, NoteOf(op, b))'
    BY <2>3 DEF Owes
  <2>5. Settled(NoteOf(op, b))'
    BY <2>4 DEF Settled
  <2>6. CASE op = "confirm"
    <3>1. status'[b] = "confirmed" /\ NoteOf(op, b) = Note("confirmed", "booker", b)
      BY <1>2, <2>1, <2>6 DEF To, NoteOf
    <3>2. Settled(Note("confirmed", "booker", b))'
      BY <2>5, <3>1
    <3>. QED
      BY <1>3, <3>1, <3>2
  <2>7. CASE op = "reject"
    <3>1. status'[b] = "rejected" /\ NoteOf(op, b) = Note("declined", "booker", b)
      BY <1>2, <2>1, <2>7 DEF To, NoteOf
    <3>2. Settled(Note("declined", "booker", b))'
      BY <2>5, <3>1
    <3>. QED
      BY <1>3, <3>1, <3>2
  <2>. QED
    BY <2>1, <2>6, <2>7
<1>6. CASE req[r].op \in {"cancelAsHost", "cancelAsBooker"}
  BY <1>2, <1>3, <1>6 DEF To
<1>. QED
  BY <1>1, <1>4, <1>5, <1>6 DEF Operations

\* Only an insert and a decision change a status.
LEMMA WhoDecides ==
    ASSUME [Next]_vars, NEW b \in Bookings, status'[b] # status[b]
    PROVE  \E r \in Requests : Insert(r) \/ Write(r)
BY DEF Next, Step, vars, CreateBegin, TransitionBegin, Check, TellHost, TellBooker, FindHost, Tell, Abort,
       SetBlock, SetPublished, SetInstant

LEMMA NextForgetsNothing ==
    ASSUME IInv, NothingForgotten, [Next]_vars
    PROVE  NothingForgotten'
<1>1. may' = may
  BY DEF Next, Step, vars, CreateBegin, TransitionBegin, Check, Insert, TellHost, TellBooker, Write, FindHost,
         Tell, Abort, SetBlock, SetPublished, SetInstant
<1>. SUFFICES ASSUME "fail" \notin may, NEW b \in Bookings
              PROVE  /\ status'[b] # "absent" => Settled(Note("received", "host", b))'
                     /\ status'[b] \in {"confirmed", "completed"} =>
                          Settled(Note("confirmed", "booker", b))'
                     /\ status'[b] = "rejected" => Settled(Note("declined", "booker", b))'
  BY <1>1 DEF NothingForgotten
<1>2. \A n : Settled(n) => Settled(n)'
  BY SettledLasts
<1>3. CASE status'[b] = status[b]
  BY <1>2, <1>3 DEF NothingForgotten
<1>4. CASE status'[b] # status[b]
  <2>1. PICK r \in Requests : Insert(r) \/ Write(r)
    BY <1>4, WhoDecides
  <2>2. CASE Insert(r)
    BY <1>4, <2>2, InsertSettles
  <2>3. CASE Write(r)
    <3>1. status[b] # "absent"
      BY <1>4, <2>3, WriteSettles
    <3>2. Settled(Note("received", "host", b))'
      BY <1>2, <3>1 DEF NothingForgotten
    <3>. QED
      BY <1>4, <2>3, <3>2, WriteSettles
  <2>. QED
    BY <2>1, <2>2, <2>3
<1>. QED
  BY <1>3, <1>4

\* bookings.service.ts: once no request is in progress, every verdict has been
\* told, however many decisions there were at once; unless a call failed.
THEOREM VerdictsTold == Spec => []VerdictIsTold
<1>1. Init => NothingForgotten
  BY DEF Init, NothingForgotten
<1>2. IInv /\ NothingForgotten /\ [Next]_vars => NothingForgotten'
  BY NextForgetsNothing
<1>3. NothingForgotten => VerdictIsTold
  BY DEF NothingForgotten, VerdictIsTold, Settled, Owes, AllIdle, At
<1>. QED
  BY <1>1, <1>2, <1>3, Inductive, PTL DEF Spec

-----------------------------------------------------------------------------
(* The host is not at work meanwhile: what is booked is open.               *)

\* What a request was checked for is still so at its insert.
Checked ==
    "host" \notin may => \A r \in Requests :
        At(r, "insert") => published /\ ~Blocked(req[r].span)

\* Nothing but the check lets a request come to its insert.
LEMMA NextChecked ==
    ASSUME IInv, Checked, [Next]_vars
    PROVE  Checked'
<1>1. may' = may
  BY DEF Next, Step, vars, CreateBegin, TransitionBegin, Check, Insert, TellHost, TellBooker, Write, FindHost,
         Tell, Abort, SetBlock, SetPublished, SetInstant
<1>. SUFFICES ASSUME "host" \notin may, NEW q \in Requests, At(q, "insert")'
              PROVE  published' /\ ~Blocked(req[q].span)'
  BY <1>1 DEF Checked
<1>2. CASE (\E k \in Blocks, s \in Spans \cup {{}} : SetBlock(k, s)) \/ SetPublished \/ SetInstant
  BY <1>2 DEF SetBlock, SetPublished, SetInstant, HostActs, At
<1>3. CASE UNCHANGED vars
  BY <1>3 DEF vars, Checked, At, Blocked
<1>4. ASSUME NEW r \in Requests,
             \/ \E s \in Spans : CreateBegin(r, s)
             \/ \E b \in Bookings, op \in Operations : TransitionBegin(r, b, op)
             \/ Step(r) \/ Abort(r)
      PROVE  published' /\ ~Blocked(req[q].span)'
  <2>1. UNCHANGED <<published, block>>
    BY <1>4 DEF Step, CreateBegin, TransitionBegin, Check, Insert, TellHost, TellBooker, Write, FindHost,
                Tell, Abort
  <2>2. CASE q # r
    <3>1. req'[q] = req[q]
      BY <1>4, <2>2 DEF IInv, TypeOK, Step, CreateBegin, TransitionBegin, Check, Insert, TellHost, TellBooker,
                        Write, FindHost, Tell, Abort, Become, Goto, Done
    <3>. QED
      BY <2>1, <3>1 DEF Checked, At, Blocked
  <2>3. CASE q = r
    <3>1. Check(r) /\ Available(req[r].span) /\ Goto(r, "insert")
      <4>1. req[r] \in RequestStates /\ req'[r].pc = "insert"
        BY <2>3 DEF IInv, TypeOK, At
      <4>2. ~\E s \in Spans : CreateBegin(r, s)
        BY <4>1 DEF IInv, TypeOK, CreateBegin, Become
      <4>3. ~\E b \in Bookings, op \in Operations : TransitionBegin(r, b, op)
        BY <4>1 DEF IInv, TypeOK, TransitionBegin, Become
      <4>4. ~Insert(r)
        <5>1. ASSUME NEW b \in Bookings, Become(r, [req[r] EXCEPT !.pc = "tellHost", !.b = b]) PROVE FALSE
          BY <4>1, <5>1 DEF IInv, TypeOK, Become, RequestStates
        <5>2. ~Done(r)
          BY <4>1 DEF IInv, TypeOK, Become, Done, Idle
        <5>. QED
          BY <5>1, <5>2 DEF Insert
      <4>5. ~(TellHost(r) \/ TellBooker(r) \/ Write(r) \/ FindHost(r) \/ Tell(r) \/ Abort(r))
        <5>1. ~Goto(r, "tellBooker") /\ ~Goto(r, "findHost") /\ ~Goto(r, "tell") /\ ~Done(r)
          BY <4>1 DEF IInv, TypeOK, Become, Goto, Done, Idle, RequestStates
        <5>. QED
          BY <5>1 DEF TellHost, TellBooker, Write, FindHost, Tell, Abort
      <4>6. Check(r) /\ ~Done(r)
        BY <1>4, <4>1, <4>2, <4>3, <4>4, <4>5 DEF Step, IInv, TypeOK, Become, Done, Idle
      <4>. QED
        BY <4>6 DEF Check
    <3>2. req'[r].span = req[r].span
      BY <3>1 DEF IInv, TypeOK, RequestStates, Goto
    <3>. QED
      BY <2>1, <2>3, <3>1, <3>2 DEF Available, Blocked
  <2>. QED
    BY <2>2, <2>3
<1>. QED
  BY <1>2, <1>3, <1>4 DEF Next

\* What an insert adds to the calendar was open when it was checked.
Opens == \A b \in Bookings :
    "host" \notin may /\ status[b] = "absent" /\ status'[b] # "absent" =>
        published /\ ~Blocked(span'[b])

\* Only an insert makes a booking of an id that had none.
LEMMA StepOpens ==
    ASSUME IInv, Checked, [Next]_vars
    PROVE  Opens
<1>. SUFFICES ASSUME NEW b \in Bookings, "host" \notin may, status[b] = "absent", status'[b] # "absent"
              PROVE  published /\ ~Blocked(span'[b])
  BY DEF Opens
<1>1. PICK r \in Requests : Insert(r) \/ Write(r)
  BY WhoDecides
<1>2. CASE Insert(r)
  <2>1. span'[b] = req[r].span
    BY <1>2 DEF Insert, IInv, TypeOK
  <2>. QED
    BY <1>2, <2>1 DEF Checked, Insert
<1>3. CASE Write(r)
  <2>1. req[r].b \in Bookings /\ req[r].seen \in From(req[r].op)
    BY <1>3 DEF IInv, Held, Write, At
  <2>2. b = req[r].b /\ status[b] = req[r].seen
    BY <1>3, <2>1 DEF IInv, TypeOK, Write, Unchanged
  <2>. QED
    BY <2>1, <2>2 DEF From, Reserving
<1>. QED
  BY <1>1, <1>2, <1>3

\* bookings.service.ts:219: nobody books what is not published or is blocked, as
\* long as the host leaves the listing alone between the check and the insert.
THEOREM BookedOpen == Spec => BookedIsOpen
<1>1. Init => Checked
  BY DEF Init, Checked, At, Idle
<1>2. IInv /\ Checked /\ [Next]_vars => Checked' /\ Opens
  BY NextChecked, StepOpens
<1>. QED
  BY <1>1, <1>2, Inductive, PTL DEF Spec, BookedIsOpen, Opens

-----------------------------------------------------------------------------
(* What happens in the end.                                                 *)

\* A request in progress goes on: Node resumes every await, and no call waits
\* for a lock that a request holds over several calls.
GoesOn(r) == []<>At(r, "idle") \/ []<><<Step(r)>>_vars
LiveSpec  == Spec /\ \A r \in Requests : GoesOn(r)

\* How many calls a request has still to make, at most.
CallsLeft(r) ==
    LET l == req[r].pc IN
    CASE l = "idle" -> 0
      [] l \in {"tellBooker", "tell"} -> 1
      [] l \in {"tellHost", "findHost"} -> 2
      [] l \in {"insert", "write"} -> 3
      [] OTHER -> 4

Within(r, k)   == CallsLeft(r) <= k
Falls(r, k, j) == [](Within(r, k) => <>Within(r, j))
Ends(r)        == []<>At(r, "idle")

\* A request is changed by its own steps only.
LEMMA OnlyItsOwn ==
    ASSUME IInv, [Next]_vars, NEW r \in Requests, req'[r] # req[r]
    PROVE  \/ \E s \in Spans : CreateBegin(r, s)
           \/ \E b \in Bookings, op \in Operations : TransitionBegin(r, b, op)
           \/ Step(r) \/ Abort(r)
<1>1. ASSUME NEW q \in Requests,
             \/ \E s \in Spans : CreateBegin(q, s)
             \/ \E b \in Bookings, op \in Operations : TransitionBegin(q, b, op)
             \/ Step(q) \/ Abort(q)
      PROVE  \E c : req' = [req EXCEPT ![q] = c]
  BY <1>1 DEF Step, CreateBegin, TransitionBegin, Check, Insert, TellHost, TellBooker, Write,
              FindHost, Tell, Abort, Become, Goto, Done
<1>2. PICK q \in Requests :
             \/ \E s \in Spans : CreateBegin(q, s)
             \/ \E b \in Bookings, op \in Operations : TransitionBegin(q, b, op)
             \/ Step(q) \/ Abort(q)
  BY DEF Next, SetBlock, SetPublished, SetInstant, vars
<1>3. q = r
  BY <1>1, <1>2 DEF IInv, TypeOK
<1>. QED
  BY <1>2, <1>3

\* Every call of a request leaves it with fewer to come.
LEMMA StepsDown ==
    ASSUME IInv, NEW r \in Requests, Step(r)
    PROVE  CallsLeft(r)' < CallsLeft(r)
<1>1. req \in [Requests -> RequestStates]
  BY DEF IInv, TypeOK
<1>2. \A l \in Labels : Goto(r, l) => req'[r].pc = l
  BY <1>1 DEF Goto, RequestStates
<1>3. Done(r) => req'[r].pc = "idle"
  BY <1>1 DEF Done, Become, Idle
<1>4. CASE Check(r)
  <2>1. req'[r].pc \in {"insert", "idle"}
    BY <1>2, <1>3, <1>4 DEF Check, Labels
  <2>. QED
    BY <1>4, <2>1 DEF Check, At, CallsLeft
<1>5. CASE Insert(r)
  <2>. DEFINE told(b) == [req[r] EXCEPT !.pc = "tellHost", !.b = b]
  <2>1. ASSUME NEW b \in Bookings, Become(r, told(b))
        PROVE  req'[r].pc = "tellHost"
    <3>1. req[r] \in RequestStates /\ req'[r] = [req[r] EXCEPT !.pc = "tellHost", !.b = b]
      BY <1>1, <2>1 DEF Become
    <3>. QED
      BY <3>1 DEF RequestStates
  <2>2. /\ req[r].pc = "insert"
        /\ Done(r) \/ \E b \in Bookings : Become(r, told(b))
    BY <1>5 DEF Insert, At
  <2>. HIDE DEF told
  <2>3. req'[r].pc \in {"tellHost", "idle"}
    BY <1>3, <2>1, <2>2
  <2>. QED
    BY <2>2, <2>3 DEF CallsLeft
<1>6. CASE TellHost(r)
  <2>1. req'[r].pc \in {"tellBooker", "idle"}
    BY <1>2, <1>3, <1>6 DEF TellHost, Labels
  <2>. QED
    BY <1>6, <2>1 DEF TellHost, At, CallsLeft
<1>7. CASE TellBooker(r) \/ Tell(r)
  BY <1>3, <1>7 DEF TellBooker, Tell, At, CallsLeft
<1>8. CASE Write(r)
  <2>1. req'[r].pc \in {"findHost", "tell", "idle"}
    BY <1>2, <1>3, <1>8 DEF Write, Labels
  <2>. QED
    BY <1>8, <2>1 DEF Write, At, CallsLeft
<1>9. CASE FindHost(r)
  <2>1. req'[r].pc \in {"tell", "idle"}
    BY <1>2, <1>3, <1>9 DEF FindHost, Labels
  <2>. QED
    BY <1>9, <2>1 DEF FindHost, At, CallsLeft
<1>. QED
  BY <1>4, <1>5, <1>6, <1>7, <1>8, <1>9 DEF Step

\* A number of calls is one of 0 to 4, and none are left at rest only.
LEMMA CallsBound ==
    ASSUME NEW r
    PROVE  CallsLeft(r) \in 0..4 /\ (CallsLeft(r) = 0 <=> At(r, "idle"))
BY DEF CallsLeft, At

\* No step of anybody gives a request in progress more calls.
LEMMA NeverMore ==
    ASSUME IInv, [Next]_vars, NEW r \in Requests, ~At(r, "idle")
    PROVE  CallsLeft(r)' <= CallsLeft(r)
<1>1. CASE req'[r] = req[r]
  BY <1>1, CallsBound DEF CallsLeft
<1>2. CASE Step(r)
  <2>1. CallsLeft(r)' \in 0..4
    BY DEF CallsLeft
  <2>. QED
    BY <1>2, <2>1, StepsDown, CallsBound
<1>3. CASE Abort(r)
  <2>1. CallsLeft(r)' = 0
    BY <1>3 DEF Abort, Done, Become, IInv, TypeOK, Idle, CallsLeft
  <2>. QED
    BY <2>1, CallsBound
<1>. QED
  BY <1>1, <1>2, <1>3, OnlyItsOwn DEF CreateBegin, TransitionBegin

\* A request that goes on comes one call nearer to its end.
LEMMA Descends ==
    ASSUME NEW r \in Requests, NEW j \in 0..3, NEW k, k = j + 1
    PROVE  Spec /\ GoesOn(r) => Falls(r, k, j)
<1>1. At(r, "idle") => Within(r, j)
  BY CallsBound DEF Within
<1>2. IInv /\ [Next]_vars /\ Within(r, k) /\ ~Within(r, j) => Within(r, k)'
  <2>. SUFFICES ASSUME IInv, [Next]_vars, Within(r, k), ~Within(r, j) PROVE Within(r, k)'
    OBVIOUS
  <2>1. CallsLeft(r)' <= CallsLeft(r) /\ CallsLeft(r)' \in 0..4
    BY <1>1, NeverMore DEF CallsLeft
  <2>. QED
    BY <2>1, CallsBound DEF Within
<1>3. IInv /\ <<Step(r)>>_vars /\ Within(r, k) => Within(r, j)'
  <2>. SUFFICES ASSUME IInv, Step(r), Within(r, k) PROVE Within(r, j)'
    OBVIOUS
  <2>1. CallsLeft(r)' < CallsLeft(r) /\ CallsLeft(r)' \in 0..4
    BY StepsDown DEF CallsLeft
  <2>. QED
    BY <2>1, CallsBound DEF Within
<1>. QED
  BY <1>1, <1>2, <1>3, Inductive, PTL DEF Spec, GoesOn, Falls

\* So every request ends.
LEMMA RequestEnds ==
    ASSUME NEW r \in Requests
    PROVE  Spec /\ GoesOn(r) => Ends(r)
<1>1. Spec /\ GoesOn(r) => /\ Falls(r, 4, 3) /\ Falls(r, 3, 2)
                           /\ Falls(r, 2, 1) /\ Falls(r, 1, 0)
  BY Descends
<1>2. Within(r, 4) /\ (Within(r, 0) => At(r, "idle"))
  BY CallsBound DEF Within
<1>. QED
  BY <1>1, <1>2, PTL DEF Falls, Ends

\* Every request that has begun comes to its end, for any number of them and
\* whatever fails: none waits for another.
EveryRequestEnds == \A r \in Requests : Ends(r)

THEOREM RequestsEnd == LiveSpec => EveryRequestEnds
BY RequestEnds DEF LiveSpec, EveryRequestEnds

Calm        == "fail" \notin may
Told(n)     == n \in notes
Tells(r, n) == [](Owes(r, n) => <>Told(n))
Comes(n)    == [](Settled(n) => <>Told(n))

\* A request that owes a notice owes it until it has sent it.
LEMMA OwesUntilTold ==
    ASSUME IInv, Calm, [Next]_vars, NEW r \in Requests, NEW n, Owes(r, n)
    PROVE  Told(n)' \/ Owes(r, n)'
<1>1. CASE req'[r] = req[r]
  BY <1>1 DEF Owes
<1>2. req[r] \in RequestStates /\ req \in [Requests -> RequestStates]
  BY DEF IInv, TypeOK
<1>3. CASE TellHost(r)
  <2>1. Note("received", "host", req[r].b) \in notes'
    BY <1>3 DEF TellHost, Send, Calm
  <2>2. CASE req[r].seen = "confirmed"
    <3>1. req'[r].pc = "tellBooker" /\ req'[r].b = req[r].b
      BY <1>2, <1>3, <2>2 DEF TellHost, Goto, RequestStates
    <3>. QED
      BY <1>3, <2>1, <3>1 DEF Owes, TellHost, At, Told
  <2>3. CASE req[r].seen # "confirmed"
    BY <1>3, <2>1, <2>3 DEF Owes, TellHost, At, Told
  <2>. QED
    BY <2>2, <2>3
<1>4. CASE TellBooker(r) \/ Tell(r)
  BY <1>4 DEF TellBooker, Tell, Send, Calm, Owes, At, Told
<1>5. CASE Check(r) \/ Insert(r) \/ Write(r) \/ FindHost(r) \/ Abort(r)
  BY <1>5 DEF Check, Insert, Write, FindHost, Abort, Owes, At, Calm
<1>. QED
  BY <1>1, <1>3, <1>4, <1>5, OnlyItsOwn DEF CreateBegin, TransitionBegin, Owes, At, Step

\* An execution's setting does not change.
LEMMA CalmStays == Calm /\ [Next]_vars => Calm'
BY DEF Calm, Next, Step, vars, CreateBegin, TransitionBegin, Check, Insert, TellHost, TellBooker,
       Write, FindHost, Tell, Abort, SetBlock, SetPublished, SetInstant

\* Since it ends, and owes nothing at rest, it has sent it by then.
LEMMA TellsInTheEnd ==
    ASSUME NEW r \in Requests, NEW n
    PROVE  Spec /\ Calm /\ GoesOn(r) => Tells(r, n)
<1>1. IInv /\ Calm /\ [Next]_vars /\ Owes(r, n) => Told(n)' \/ Owes(r, n)'
  BY OwesUntilTold
<1>2. At(r, "idle") => ~Owes(r, n)
  BY DEF At, Owes
<1>. QED
  BY <1>1, <1>2, CalmStays, RequestEnds, Inductive, PTL DEF Spec, Ends, Tells

\* Whoever it is that owes a notice, it comes.
LEMMA SettledIsTold ==
    ASSUME NEW n
    PROVE  LiveSpec /\ Calm => Comes(n)
<1>1. LiveSpec => Spec /\ \A r \in Requests : GoesOn(r)
  BY DEF LiveSpec
<1>2. LiveSpec /\ Calm => \A r \in Requests : Tells(r, n)
  BY <1>1, TellsInTheEnd
<1>3. (\A r \in Requests : Tells(r, n)) => [](\A r \in Requests : Owes(r, n) => <>Told(n))
  BY DEF Tells
<1>4. (\A r \in Requests : Owes(r, n) => <>Told(n)) =>
        ((\E r \in Requests : Owes(r, n)) => <>Told(n))
  OBVIOUS
<1>5. Settled(n) => Told(n) \/ \E r \in Requests : Owes(r, n)
  BY DEF Settled, Told
<1>. QED
  BY <1>1, <1>2, <1>3, <1>4, <1>5, PTL DEF Comes

\* What is told of b when.
Made(b)      == status[b] # "absent"
Confirmed(b) == status[b] \in {"confirmed", "completed"}
Declined(b)  == status[b] = "rejected"

\* The host comes to know of every booking, and its booker of every verdict,
\* though it be changed meanwhile.
VerdictsCome ==
    \A b \in Bookings :
        /\ Made(b) ~> Told(Note("received", "host", b))
        /\ Confirmed(b) ~> Told(Note("confirmed", "booker", b))
        /\ Declined(b) ~> Told(Note("declined", "booker", b))

\* bookings.service.ts: as long as no call fails, what was decided is told in the
\* end, however many requests come, go and overlap.
THEOREM VerdictsReachTheirReaders == LiveSpec /\ Calm => VerdictsCome
<1>1. Spec /\ Calm => [](Calm /\ NothingForgotten)
  <2>1. Init => NothingForgotten
    BY DEF Init, NothingForgotten
  <2>2. IInv /\ NothingForgotten /\ [Next]_vars => NothingForgotten'
    BY NextForgetsNothing
  <2>. QED
    BY <2>1, <2>2, CalmStays, Inductive, PTL DEF Spec
<1>2. ASSUME NEW b \in Bookings
      PROVE  LiveSpec /\ Calm =>
               /\ Made(b) ~> Told(Note("received", "host", b))
               /\ Confirmed(b) ~> Told(Note("confirmed", "booker", b))
               /\ Declined(b) ~> Told(Note("declined", "booker", b))
  <2>1. Calm /\ NothingForgotten =>
          /\ Made(b) => Settled(Note("received", "host", b))
          /\ Confirmed(b) => Settled(Note("confirmed", "booker", b))
          /\ Declined(b) => Settled(Note("declined", "booker", b))
    BY DEF Calm, NothingForgotten, Made, Confirmed, Declined
  <2>2. LiveSpec /\ Calm => Comes(Note("received", "host", b))
    BY SettledIsTold
  <2>3. LiveSpec /\ Calm => Comes(Note("confirmed", "booker", b))
    BY SettledIsTold
  <2>4. LiveSpec /\ Calm => Comes(Note("declined", "booker", b))
    BY SettledIsTold
  <2>5. LiveSpec => Spec
    BY DEF LiveSpec
  <2>. QED
    BY <1>1, <2>1, <2>2, <2>3, <2>4, <2>5, PTL DEF Comes
<1>. QED
  BY <1>2 DEF VerdictsCome
=============================================================================
