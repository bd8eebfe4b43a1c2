------------------------------ MODULE Bookings ------------------------------
(***************************************************************************)
(* The bookings of ONE listing: src/src/modules/bookings, the host's blocked *)
(* periods, and the tables and functions of the phase 6 migration.          *)
(*                                                                          *)
(* A request is one HTTP call: a booker's createBooking, or a confirm,      *)
(* reject, complete or cancel.  As in module Payments each action is one    *)
(* database call and the code up to the next one.  A span is the set of     *)
(* instants of a half-open interval, so two ranges overlap exactly when     *)
(* their spans meet.  The booker of a booking is not the listing's host.    *)
(* A listing with bookings cannot be deleted (the foreign key has no        *)
(* cascade), so the listing is there throughout, published or not.          *)
(***************************************************************************)
EXTENDS Naturals

CONSTANTS
    Bookings,    \* ids of bookings (bound: bookings ever made of the listing)
    Blocks,      \* ids of blocked periods
    Requests,    \* concurrent HTTP requests (bound: requests in progress)
    NoBooking,   \* "no booking chosen yet"
    Spans,       \* the spans that a request or a block may name
    Settings     \* what executions may meet, each a value of may

ASSUME NoBookingAssumption == NoBooking \notin Bookings
ASSUME SpansAssumption == {} \notin Spans
ASSUME SettingsAssumption == Settings \subseteq SUBSET {"fail", "host"}

VARIABLES
    may,       \* what happens in this execution: calls that fail and requests
               \* that die ("fail"), the host at work while others are ("host")
    status,    \* bookings.status, "absent" before the insert
    span,      \* bookings.start_at .. end_at, {} before the insert
    published, \* is the listing's status published?
    instant,   \* locations.instant_booking_enabled
    block,     \* each blocked period's span, {} when there is none
    notes,     \* notifications rows, keyed by recipient and source_event_id
    req        \* each request: what it does and what it has read

vars == <<may, status, span, published, instant, block, notes, req>>

-----------------------------------------------------------------------------
Reserving == {"requested", "confirmed"}
Statuses  == Reserving \cup {"cancelled", "completed", "rejected"}

\* The operations on a booking that is there, by who asks.  An admin may do
\* what the host may.
Operations == {"confirm", "reject", "complete", "cancelAsHost", "cancelAsBooker"}

From(op) ==
    CASE op \in {"confirm", "reject"} -> {"requested"}
      [] op = "complete"              -> {"confirmed"}
      [] OTHER                        -> Reserving

To(op) ==
    CASE op = "confirm"  -> "confirmed"
      [] op = "reject"   -> "rejected"
      [] op = "complete" -> "completed"
      [] OTHER           -> "cancelled"

Note(kind, to, b) == [kind |-> kind, to |-> to, booking |-> b]
Notes == [kind : {"received", "confirmed", "declined", "cancelled"},
          to : {"host", "booker"}, booking : Bookings]

\* Whom an operation tells, and what.
NoteOf(op, b) ==
    CASE op = "confirm"        -> Note("confirmed", "booker", b)
      [] op = "reject"         -> Note("declined", "booker", b)
      [] op = "cancelAsBooker" -> Note("cancelled", "host", b)
      [] OTHER                 -> Note("cancelled", "booker", b)

Labels == {"idle", "check", "insert", "tellHost", "tellBooker",
           "write", "findHost", "tell"}

RequestStates ==
    [op   : Operations \cup {"none", "create"},
     pc   : Labels,
     b    : Bookings \cup {NoBooking},
     span : Spans \cup {{}},                       \* the span asked for
     seen : Statuses \cup {"none"}]                \* the status read, or to insert

Idle == [op |-> "none", pc |-> "idle", b |-> NoBooking, span |-> {}, seen |-> "none"]

At(r, label)   == req[r].pc = label
Become(r, s)   == req' = [req EXCEPT ![r] = s]
Goto(r, label) == req' = [req EXCEPT ![r].pc = label]
Done(r)        == Become(r, Idle)

Overlap(s, t) == s \cap t # {}

\* Mutant of Fits: a requested booking does not hold its span.
FitsConfirmed(s) == \A c \in Bookings : status[c] = "confirmed" => ~Overlap(span[c], s)

\* The partial exclusion constraint of public.bookings: what a row that holds
\* s would run into.
Fits(s) == \A c \in Bookings : status[c] \in Reserving => ~Overlap(span[c], s)

\* has_conflicting_period and is_interval_available, asked by a booker.  The
\* weekly schedule is constant here: Spans are the spans it allows.
Blocked(s)   == \E k \in Blocks : Overlap(block[k], s)

\* Mutant of Available: blocked periods are not asked for.
AvailableAnyway(s) == published /\ Fits(s)

Available(s) == published /\ ~Blocked(s) /\ Fits(s)

-----------------------------------------------------------------------------
(* POST /bookings: createBooking                                            *)

\* The read of the listing: published, and whether to skip the host's word.
CreateBegin(r, s) ==
    /\ At(r, "idle") /\ published
    /\ Become(r, [op |-> "create", pc |-> "check", b |-> NoBooking, span |-> s,
                  seen |-> IF instant THEN "confirmed" ELSE "requested"])
    /\ UNCHANGED <<may, status, span, published, instant, block, notes>>

\* is_interval_available, then the price; a listing without an active price of
\* the kind asked for refuses the request.
Check(r) ==
    /\ At(r, "check")
    /\ \/ Available(req[r].span) /\ Goto(r, "insert")
       \/ Done(r)
    /\ UNCHANGED <<may, status, span, published, instant, block, notes>>

\* The insert, or the exclusion violation.  (When the bound on bookings is
\* reached the insert fails too.)
Insert(r) ==
    LET s == req[r].span IN
    /\ At(r, "insert")
    /\ \/ \E b \in Bookings :
            /\ status[b] = "absent" /\ Fits(s)
            /\ status' = [status EXCEPT ![b] = req[r].seen]
            /\ span' = [span EXCEPT ![b] = s]
            /\ Become(r, [req[r] EXCEPT !.pc = "tellHost", !.b = b])
       \/ /\ ~Fits(s) \/ \A b \in Bookings : status[b] # "absent"
          /\ Done(r)
          /\ UNCHANGED <<status, span>>
    /\ UNCHANGED <<may, published, instant, block, notes>>

\* safeNotify: the row is written, or the failure is swallowed.
Send(note) == notes' = notes \cup {note} \/ ("fail" \in may /\ notes' = notes)

\* Mutant of TellHost: the booker of an instant booking is forgotten.
TellHostOnly(r) ==
    /\ At(r, "tellHost")
    /\ Send(Note("received", "host", req[r].b))
    /\ Done(r)
    /\ UNCHANGED <<may, status, span, published, instant, block>>

\* notifyBookingRequestReceived, and on to the booker of an instant booking.
TellHost(r) ==
    /\ At(r, "tellHost")
    /\ Send(Note("received", "host", req[r].b))
    /\ IF req[r].seen = "confirmed" THEN Goto(r, "tellBooker") ELSE Done(r)
    /\ UNCHANGED <<may, status, span, published, instant, block>>

TellBooker(r) ==
    /\ At(r, "tellBooker")
    /\ Send(Note("confirmed", "booker", req[r].b))
    /\ Done(r)
    /\ UNCHANGED <<may, status, span, published, instant, block>>

-----------------------------------------------------------------------------
(* confirmBooking, rejectBooking, completeBooking, cancelBooking            *)

\* loadBookingAccess, the caller's right and the check on the status.
TransitionBegin(r, b, op) ==
    /\ At(r, "idle")
    /\ status[b] \in From(op)
    /\ Become(r, [op |-> op, pc |-> "write", b |-> b, span |-> {}, seen |-> status[b]])
    /\ UNCHANGED <<may, status, span, published, instant, block, notes>>

\* Mutant of Unchanged: the update is by id alone.
UnchangedOrNot(r) == TRUE

\* May the compare-and-swap of transitionBooking go through?
Unchanged(r) == status[req[r].b] = req[r].seen

Write(r) ==
    LET op == req[r].op IN
    /\ At(r, "write")
    /\ IF Unchanged(r)
       THEN /\ status' = [status EXCEPT ![req[r].b] = To(op)]
            /\ CASE op = "complete"       -> Done(r)
                 [] op = "cancelAsBooker" -> Goto(r, "findHost")
                 [] OTHER                 -> Goto(r, "tell")
       ELSE Done(r) /\ UNCHANGED status
    /\ UNCHANGED <<may, span, published, instant, block, notes>>

\* The booker who cancelled reads the listing, to learn its host.  Row security
\* shows a booker published listings only.
FindHost(r) ==
    /\ At(r, "findHost")
    /\ IF published THEN Goto(r, "tell") ELSE Done(r)
    /\ UNCHANGED <<may, status, span, published, instant, block, notes>>

Tell(r) ==
    /\ At(r, "tell")
    /\ Send(NoteOf(req[r].op, req[r].b))
    /\ Done(r)
    /\ UNCHANGED <<may, status, span, published, instant, block>>

\* A call throws, or the process serving the request is killed.
Abort(r) ==
    /\ "fail" \in may /\ ~At(r, "idle")
    /\ Done(r)
    /\ UNCHANGED <<may, status, span, published, instant, block, notes>>

-----------------------------------------------------------------------------
(* The host, or an admin: the listing and its blocked periods.  Each is one *)
(* write; the owner of a listing never changes, so the check before it is   *)
(* never stale.                                                             *)

HostActs == "host" \in may \/ \A r \in Requests : At(r, "idle")

\* createBlock, updateBlock and deleteBlock.  Blocked periods exclude each
\* other, and ask nothing of the bookings.
SetBlock(k, s) ==
    /\ HostActs
    /\ \A m \in Blocks \ {k} : ~Overlap(block[m], s)
    /\ block' = [block EXCEPT ![k] = s]
    /\ UNCHANGED <<may, status, span, published, instant, notes, req>>

\* Publishing, unpublishing, suspending or archiving the listing.
SetPublished ==
    /\ HostActs /\ published' = ~published
    /\ UNCHANGED <<may, status, span, instant, block, notes, req>>

SetInstant ==
    /\ HostActs /\ instant' = ~instant
    /\ UNCHANGED <<may, status, span, published, block, notes, req>>

-----------------------------------------------------------------------------
Init ==
    /\ may       \in Settings
    /\ status    = [b \in Bookings |-> "absent"]
    /\ span      = [b \in Bookings |-> {}]
    /\ published = TRUE
    /\ instant   \in BOOLEAN
    /\ block     = [k \in Blocks |-> {}]
    /\ notes     = {}
    /\ req       = [r \in Requests |-> Idle]

Step(r) ==
    \/ Check(r) \/ Insert(r) \/ TellHost(r) \/ TellBooker(r)
    \/ Write(r) \/ FindHost(r) \/ Tell(r)

Next ==
    \/ \E r \in Requests :
         \/ \E s \in Spans : CreateBegin(r, s)
         \/ \E b \in Bookings, op \in Operations : TransitionBegin(r, b, op)
         \/ Step(r)
         \/ Abort(r)
    \/ \E k \in Blocks, s \in Spans \cup {{}} : SetBlock(k, s)
    \/ SetPublished
    \/ SetInstant

Spec == Init /\ [][Next]_vars

-----------------------------------------------------------------------------
(* Properties                                                               *)

\* Every variable keeps its shape.
TypeOK ==
    /\ may \in Settings
    /\ status \in [Bookings -> Statuses \cup {"absent"}]
    /\ span \in [Bookings -> Spans \cup {{}}]
    /\ published \in BOOLEAN /\ instant \in BOOLEAN
    /\ block \in [Blocks -> Spans \cup {{}}]
    /\ notes \subseteq Notes
    /\ req \in [Requests -> RequestStates]

C == INSTANCE Calendar WITH
        Bookings <- Bookings, Spans <- Spans, status <- status, span <- span

\* bookings.service.ts as an implementation of Calendar: however requests
\* interleave, no instant is reserved twice and every booking moves as if each
\* decision were taken on its status of that moment, so that none comes back.
KeepsCalendar == C!Spec

\* In particular no instant is ever reserved by two bookings.
NeverDoubleBooked ==
    \A a, b \in Bookings :
        a # b /\ {status[a], status[b]} \subseteq Reserving => span[a] \cap span[b] = {}

\* Is what a note says still so?
IsSo(n) ==
    CASE n.kind = "received"  -> status[n.booking] # "absent"
      [] n.kind = "confirmed" -> status[n.booking] \in {"confirmed", "completed", "cancelled"}
      [] n.kind = "declined"  -> status[n.booking] = "rejected"
      [] OTHER                -> status[n.booking] = "cancelled"

\* bookings.service.ts:393-398: concurrent decisions on a booking never tell of
\* each other's contrary.  Whatever a booker or a host has been told of a
\* booking is still so: a declined one is rejected for good, a cancelled one
\* cancelled for good, and a confirmed one was never declined.
NotesAreTrue == \A n \in notes : IsSo(n)

AllIdle == \A r \in Requests : At(r, "idle")

\* Once no request is in progress, and none has failed, every booking's host
\* knows of it and every verdict has reached its booker: also an instant
\* booking's, and also one given while another request held the same booking.
VerdictIsTold ==
    "fail" \notin may /\ AllIdle => \A b \in Bookings :
        /\ status[b] # "absent" => Note("received", "host", b) \in notes
        /\ status[b] \in {"confirmed", "completed"} => Note("confirmed", "booker", b) \in notes
        /\ status[b] = "rejected" => Note("declined", "booker", b) \in notes

\* bookings.service.ts:219: a booker may only ever book a published listing, and
\* is_interval_available lets none book into a blocked period, as long as the
\* host does not change the listing between the check and the insert.
BookedIsOpen ==
    [][\A b \in Bookings :
         "host" \notin may /\ status[b] = "absent" /\ status'[b] # "absent" =>
           published /\ ~Blocked(span'[b])]_vars
=============================================================================
