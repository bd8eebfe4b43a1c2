------------------------------ MODULE Payments ------------------------------
(***************************************************************************)
(* The payment attempts of ONE booking: src/src/modules/payments.  A row of *)
(* public.payments is an attempt; every attempt has one Cashfree order.     *)
(* Rows of different bookings share no index, lock or event, so one booking *)
(* is the whole system.                                                     *)
(*                                                                          *)
(* A request is one HTTP call (POST /bookings/:id/payment, POST             *)
(* /payments/:id/verify, or a Cashfree webhook).  It runs in a process that *)
(* shares nothing with the others but the database and the provider, and    *)
(* every await is a point where another request may run or this one may     *)
(* die: each action below is one database or provider call, together with   *)
(* the synchronous code up to the next one.                                 *)
(***************************************************************************)
EXTENDS FiniteSets

CONSTANTS
    Payments,       \* ids of payment attempts (bound: attempts per booking)
    Requests,       \* concurrent HTTP requests (bound: requests in progress)
    NoPayment,      \* "no attempt chosen yet"
    Charges,        \* amounts a payer's attempt may come through with
    MayOmitAmount,  \* may a success event leave its amount out?
    Faults          \* may calls fail and requests die?

ASSUME NoPaymentAssumption == NoPayment \notin Payments
ASSUME ChargesAssumption == Charges \subseteq {"exact", "other"}
ASSUME FlagsAssumption == MayOmitAmount \in BOOLEAN /\ Faults \in BOOLEAN

VARIABLES
    row,      \* payments.status of each attempt, "absent" before the insert
    order,    \* the Cashfree order behind it (external)
    charge,   \* the money that attempt took from the payer (external)
    session,  \* orders whose checkout some response handed to the payer
    event,    \* each webhook: where the provider and the ledger have it
    notes,    \* notifications rows, keyed by their source_event_id
    open,     \* is the booking still requested or confirmed?
    req       \* each request: what it does and what it has read

vars == <<row, order, charge, session, event, notes, open, req>>

-----------------------------------------------------------------------------
InFlight == {"created", "pending"}
Settled  == {"success", "partially_refunded", "refunded"}
Terminal == Settled \cup {"failed", "cancelled"}
\* Refunds move a settled row within Settled; that is module Refunds' subject.
Statuses == InFlight \cup {"success", "failed", "cancelled"}

Failures   == {"PAYMENT_FAILED", "PAYMENT_USER_DROPPED"}
EventTypes == {"PAYMENT_SUCCESS"} \cup Failures
Events     == [type : EventTypes, pay : Payments]

\* unsent    the provider has nothing to tell
\* sent      on its way, for as long as it gets no 200
\* received  in payment_webhook_events, processed_at null
\* acknowledged   as received, but a redelivery got a 200
\* processed processed_at set, and the provider has its 200
EventStates == {"unsent", "sent", "received", "acknowledged", "processed"}
Orders     == {"none", "ACTIVE", "PAID", "EXPIRED", "TERMINATION_REQUESTED", "TERMINATED"}
Notes      == [kind : {"success", "failed"}, pay : Payments]

Labels == {"idle", "findInFlight", "findSettled", "insert", "createOrder",
           "recordOrder", "recordFailure", "fetch", "resume", "apply",
           "notify", "lookup", "terminate", "finish"}

RequestStates ==
    [op   : {"none", "create", "verify", "webhook"},
     pc   : Labels,
     pay  : Payments \cup {NoPayment},
     type : EventTypes \cup {"none"},      \* a webhook's event
     seen : Statuses \cup {"absent"},      \* the row's status when it was read
     to   : Statuses \cup {"absent"}]      \* the status about to be written

Request(op, pc, pay, type, seen, to) ==
    [op |-> op, pc |-> pc, pay |-> pay, type |-> type, seen |-> seen, to |-> to]
Idle        == Request("none", "idle", NoPayment, "none", "absent", "absent")
Creating(l) == Request("create", l, NoPayment, "none", "absent", "absent")

At(r, label)   == req[r].pc = label
Become(r, s)   == req' = [req EXCEPT ![r] = s]
Goto(r, label) == req' = [req EXCEPT ![r].pc = label]
Done(r)        == Become(r, Idle)
EventOf(r)     == [type |-> req[r].type, pay |-> req[r].pay]

\* The two partial unique indexes every write of a status goes through:
\* payments_one_inflight_per_booking and payments_one_settled_per_booking.
IndexesAllow(p, s) ==
    \A q \in Payments \ {p} :
        /\ s \in InFlight => row[q] \notin InFlight
        /\ s \in Settled  => row[q] \notin Settled

-----------------------------------------------------------------------------
(* Pure decisions of the service and of the provider adapter.               *)

\* Mutant of Resolve: the guard on terminal statuses is lost.
ResolveUnguarded(seen, incoming, reported) ==
    IF incoming = "success" /\ reported = "other" THEN "failed" ELSE incoming

\* Mutant of Resolve: the amount is not compared.
ResolveAnyAmount(seen, incoming, reported) ==
    IF seen \in Terminal THEN seen ELSE incoming

\* nextPaymentStatus and the amount check of applyPaymentStatusUpdate: what a
\* request that read `seen` writes when told `incoming`.
Resolve(seen, incoming, reported) ==
    IF seen \in Terminal THEN seen
    ELSE IF incoming = "success" /\ reported = "other" THEN "failed"
    ELSE incoming

\* An order that the service has asked the provider to terminate may be left
\* TERMINATION_REQUESTED for a while.
Terminating == {"TERMINATION_REQUESTED", "TERMINATED"}

\* Mutants of MapOrderStatus: the two ways an order closes are mixed up; a paid
\* order is not recognised.
MapOrderStatusSwapped(o) ==
    CASE o = "PAID"          -> "success"
      [] o = "EXPIRED"       -> "cancelled"
      [] o \in Terminating   -> "failed"
      [] OTHER               -> "pending"

MapOrderStatusUnpaid(o) ==
    CASE o = "EXPIRED"       -> "failed"
      [] o \in Terminating   -> "cancelled"
      [] OTHER               -> "pending"

\* mapOrderStatus
MapOrderStatus(o) ==
    CASE o = "PAID"          -> "success"
      [] o = "EXPIRED"       -> "failed"
      [] o \in Terminating   -> "cancelled"
      [] OTHER               -> "pending"

\* fetchOrder and effectiveProviderOutcome: the outcomes one read of p's order
\* may have.  An ACTIVE order is settled by a successful attempt of the right
\* amount; the attempts may be unreadable, and then it is simply pending.  Of
\* any other order the attempts are not read.
FetchOutcomes(p) ==
    {MapOrderStatus(order[p])}
    \cup (IF order[p] = "ACTIVE" /\ charge[p] = "exact" THEN {"success"} ELSE {})

\* What a webhook says the money was; an absent amount is "unreported".
ReportedAmounts(e) ==
    IF e.type = "PAYMENT_SUCCESS"
    THEN {charge[e.pay]} \cup (IF MayOmitAmount THEN {"unreported"} ELSE {})
    ELSE {"unreported"}

-----------------------------------------------------------------------------
(* POST /bookings/:id/payment: createPayment                                *)

\* getBooking and the two checks on it.
CreateBegin(r) ==
    /\ At(r, "idle") /\ open
    /\ Become(r, Creating("findInFlight"))
    /\ UNCHANGED <<row, order, charge, session, event, notes, open>>

\* The read of the attempt in flight, if there is one.
FindInFlight(r) ==
    /\ At(r, "findInFlight")
    /\ \/ \E p \in Payments :
            /\ row[p] \in InFlight
            /\ Become(r, Request("create", "fetch", p, "none", row[p], "absent"))
       \/ /\ \A p \in Payments : row[p] \notin InFlight
          /\ Goto(r, "findSettled")
    /\ UNCHANGED <<row, order, charge, session, event, notes, open>>

\* Mutant of FindSettled: only attempts in flight are looked for.
FindSettledSkipped(r) ==
    /\ At(r, "findSettled")
    /\ Become(r, Creating("insert"))
    /\ UNCHANGED <<row, order, charge, session, event, notes, open>>

\* The read of a settled attempt: the booking has been paid for.
FindSettled(r) ==
    /\ At(r, "findSettled")
    /\ IF \E p \in Payments : row[p] \in Settled
       THEN Done(r)
       ELSE Become(r, Creating("insert"))
    /\ UNCHANGED <<row, order, charge, session, event, notes, open>>

\* The insert of a fresh row, or the conflict.  When the bound on attempts is
\* reached the insert fails too.
Insert(r) ==
    /\ At(r, "insert")
    /\ \/ \E p \in Payments :
            /\ row[p] = "absent" /\ IndexesAllow(p, "created")
            /\ row' = [row EXCEPT ![p] = "created"]
            /\ Become(r, Request("create", "createOrder", p, "none", "absent", "absent"))
       \/ /\ \A p \in Payments : ~(row[p] = "absent" /\ IndexesAllow(p, "created"))
          /\ Done(r)
          /\ UNCHANGED row
    /\ UNCHANGED <<order, charge, session, event, notes, open>>

\* provider.createOrder.  A failed call may have reached the provider.
CreateOrder(r) ==
    LET p == req[r].pay IN
    /\ At(r, "createOrder")
    /\ \/ order' = [order EXCEPT ![p] = "ACTIVE"] /\ Goto(r, "recordOrder")
       \/ Faults /\ order' = [order EXCEPT ![p] = "ACTIVE"] /\ Goto(r, "recordFailure")
       \/ Faults /\ order' = order /\ Goto(r, "recordFailure")
    /\ UNCHANGED <<row, charge, session, event, notes, open>>

\* The write of createOrder's status (an ACTIVE order maps to pending), then
\* the response with the checkout.  The write is by id alone; it fails when
\* an index forbids it, and the checkout is then never returned.
RecordOrder(r) ==
    LET p == req[r].pay
        s == MapOrderStatus("ACTIVE") IN
    /\ At(r, "recordOrder")
    /\ IF IndexesAllow(p, s)
       THEN row' = [row EXCEPT ![p] = s] /\ session' = session \cup {p}
       ELSE UNCHANGED <<row, session>>
    /\ Done(r)
    /\ UNCHANGED <<order, charge, event, notes, open>>

\* The catch of createOrder: the row is failed, the error rethrown.
RecordFailure(r) ==
    /\ At(r, "recordFailure")
    /\ row' = [row EXCEPT ![req[r].pay] = "failed"]
    /\ Done(r)
    /\ UNCHANGED <<order, charge, session, event, notes, open>>

\* resumeInFlightPayment, the order still payable: pending is written over
\* whatever the row holds by now and a fresh checkout is returned.
Resume(r) ==
    LET p == req[r].pay IN
    /\ At(r, "resume")
    /\ IF IndexesAllow(p, "pending")
       THEN row' = [row EXCEPT ![p] = "pending"] /\ session' = session \cup {p}
       ELSE UNCHANGED <<row, session>>
    /\ Done(r)
    /\ UNCHANGED <<order, charge, event, notes, open>>

-----------------------------------------------------------------------------
(* POST /payments/:id/verify: verifyPayment.  A row read as terminal is     *)
(* returned as it is, and nothing changes.                                  *)

VerifyBegin(r, p) ==
    /\ At(r, "idle")
    /\ row[p] \in InFlight
    /\ Become(r, Request("verify", "fetch", p, "none", row[p], "absent"))
    /\ UNCHANGED <<row, order, charge, session, event, notes, open>>

\* provider.fetchOrder for verify and for the resume path of create.
Fetch(r) ==
    LET p == req[r].pay IN
    /\ At(r, "fetch") /\ order[p] # "none"
    /\ \E s \in FetchOutcomes(p) :
         IF req[r].op = "create" /\ s = "pending"
         THEN Goto(r, "resume")
         ELSE Become(r, Request(req[r].op, "apply", p, "none", req[r].seen,
                                Resolve(req[r].seen, s, "exact")))
    /\ UNCHANGED <<row, order, charge, session, event, notes, open>>

\* fetchOrder throws: the provider knows no such order, or is not reachable.
FetchFails(r) ==
    /\ At(r, "fetch") /\ (order[req[r].pay] = "none" \/ Faults)
    /\ Done(r)
    /\ UNCHANGED <<row, order, charge, session, event, notes, open>>

-----------------------------------------------------------------------------
(* applyPaymentStatusUpdate, shared by verify, resume and webhooks.         *)

\* Where a request goes when its status update is over.
AfterApply(r) ==
    CASE req[r].op = "webhook" -> Goto(r, "finish")
      [] req[r].op = "create" /\ req[r].to # "success" ->
            Become(r, Creating("findSettled"))
      [] OTHER -> Done(r)

\* Mutant of Apply: only failures are notified.
ApplyTellsFailures(r) ==
    LET p == req[r].pay
        s == req[r].to IN
    /\ At(r, "apply")
    /\ IF IndexesAllow(p, s)
       THEN /\ row' = [row EXCEPT ![p] = s]
            /\ IF s # req[r].seen /\ s = "failed" THEN Goto(r, "notify") ELSE AfterApply(r)
       ELSE Done(r) /\ UNCHANGED row
    /\ UNCHANGED <<order, charge, session, event, notes, open>>

\* The update is keyed by id alone and writes what was resolved from the
\* status READ EARLIER; an index may refuse it, and then the request ends.
Apply(r) ==
    LET p == req[r].pay
        s == req[r].to IN
    /\ At(r, "apply")
    /\ IF IndexesAllow(p, s)
       THEN /\ row' = [row EXCEPT ![p] = s]
            /\ IF s # req[r].seen /\ s \in {"success", "failed"}
               THEN Goto(r, "notify")
               ELSE AfterApply(r)
       ELSE Done(r) /\ UNCHANGED row
    /\ UNCHANGED <<order, charge, session, event, notes, open>>

\* notifyPaymentSuccess / notifyPaymentFailed: one row per source_event_id; a
\* failure is swallowed by safeNotify.
Notify(r) ==
    /\ At(r, "notify")
    /\ \/ notes' = notes \cup {[kind |-> req[r].to, pay |-> req[r].pay]}
       \/ Faults /\ notes' = notes
    /\ AfterApply(r)
    /\ UNCHANGED <<row, order, charge, session, event, open>>

-----------------------------------------------------------------------------
(* POST /payments/webhooks/cashfree: handleWebhook                          *)

\* The first delivery of a body: its hash goes into the ledger.
Deliver(r, e) ==
    /\ At(r, "idle") /\ event[e] = "sent"
    /\ event' = [event EXCEPT ![e] = "received"]
    /\ Become(r, Request("webhook", "lookup", e.pay, e.type, "absent", "absent"))
    /\ UNCHANGED <<row, order, charge, session, notes, open>>

\* A further delivery of the same body violates the ledger's unique key and is
\* acknowledged at once, so the provider stops sending it.
Redeliver(e) ==
    /\ event[e] = "received"
    /\ event' = [event EXCEPT ![e] = "acknowledged"]
    /\ UNCHANGED <<row, order, charge, session, notes, open, req>>

\* The read of the row behind the order, and what it makes of the event.
Lookup(r) ==
    LET p == req[r].pay IN
    /\ At(r, "lookup")
    /\ IF row[p] = "absent"
       THEN Goto(r, "finish")
       ELSE \E amount \in ReportedAmounts(EventOf(r)) :
              LET incoming == IF req[r].type = "PAYMENT_SUCCESS" THEN "success" ELSE "failed"
                  next == IF req[r].type = "PAYMENT_USER_DROPPED" /\ row[p] \notin Terminal
                          THEN "terminate" ELSE "apply"
              IN Become(r, Request("webhook", next, p, req[r].type, row[p],
                                   Resolve(row[p], incoming, amount)))
    /\ UNCHANGED <<row, order, charge, session, event, notes, open>>

\* terminateOrder before an abandoned checkout is failed: best effort, and
\* refused by the provider once the order is paid or closed.  The provider
\* terminates it at once, or notes the request and does so later.
TerminateOrder(r) ==
    LET p == req[r].pay IN
    /\ At(r, "terminate")
    /\ \/ /\ order[p] = "ACTIVE" /\ charge[p] = "none"
          /\ \E o \in Terminating : order' = [order EXCEPT ![p] = o]
       \/ /\ order[p] # "ACTIVE" \/ charge[p] # "none" \/ Faults
          /\ UNCHANGED order
    /\ Goto(r, "apply")
    /\ UNCHANGED <<row, charge, session, event, notes, open>>

\* processed_at is set and the provider gets its 200.
Finish(r) ==
    LET e == EventOf(r) IN
    /\ At(r, "finish")
    /\ event' = [event EXCEPT ![e] = "processed"]
    /\ Done(r)
    /\ UNCHANGED <<row, order, charge, session, notes, open>>

\* A call throws, or the process serving the request is killed.
Abort(r) ==
    /\ Faults /\ ~At(r, "idle")
    /\ Done(r)
    /\ UNCHANGED <<row, order, charge, session, event, notes, open>>

-----------------------------------------------------------------------------
(* The payer, the provider and the booking (external).                      *)

Send(e) == event' = [event EXCEPT ![e] = "sent"]

\* Orders that may still take money: while a termination is only requested, a
\* try that is under way comes through.
Payable == {"ACTIVE", "TERMINATION_REQUESTED"}

\* An attempt in an open checkout comes through.
PayerPays(p) ==
    /\ p \in session /\ order[p] \in Payable /\ charge[p] = "none"
    /\ \E c \in Charges : charge' = [charge EXCEPT ![p] = c]
    /\ Send([type |-> "PAYMENT_SUCCESS", pay |-> p])
    /\ UNCHANGED <<row, order, session, notes, open, req>>

\* An attempt is declined, or the payer leaves the checkout; the order stays
\* open either way.  (Bound: one failure an order.)
PayerFails(p) ==
    /\ p \in session /\ order[p] = "ACTIVE" /\ charge[p] = "none"
    /\ \A t \in Failures : event[[type |-> t, pay |-> p]] = "unsent"
    /\ \E t \in Failures : Send([type |-> t, pay |-> p])
    /\ UNCHANGED <<row, order, charge, session, notes, open, req>>

\* The order-level status follows a successful attempt after a while.
OrderPaid(p) ==
    /\ order[p] \in Payable /\ charge[p] = "exact"
    /\ order' = [order EXCEPT ![p] = "PAID"]
    /\ UNCHANGED <<row, charge, session, event, notes, open, req>>

OrderExpires(p) ==
    /\ order[p] = "ACTIVE" /\ charge[p] = "none"
    /\ order' = [order EXCEPT ![p] = "EXPIRED"]
    /\ UNCHANGED <<row, charge, session, event, notes, open, req>>

\* A requested termination is carried out.
OrderTerminates(p) ==
    /\ order[p] = "TERMINATION_REQUESTED" /\ charge[p] = "none"
    /\ order' = [order EXCEPT ![p] = "TERMINATED"]
    /\ UNCHANGED <<row, charge, session, event, notes, open, req>>

\* The booking is rejected, cancelled or completed.
BookingCloses ==
    /\ open /\ open' = FALSE
    /\ UNCHANGED <<row, order, charge, session, event, notes, req>>

-----------------------------------------------------------------------------
Init ==
    /\ row     = [p \in Payments |-> "absent"]
    /\ order   = [p \in Payments |-> "none"]
    /\ charge  = [p \in Payments |-> "none"]
    /\ session = {}
    /\ event   = [e \in Events |-> "unsent"]
    /\ notes   = {}
    /\ open    = TRUE
    /\ req     = [r \in Requests |-> Idle]

\* A request's own step once it has begun, other than dying.
Step(r) ==
    \/ FindInFlight(r) \/ FindSettled(r) \/ Insert(r) \/ CreateOrder(r)
    \/ RecordOrder(r) \/ RecordFailure(r) \/ Resume(r)
    \/ Fetch(r) \/ FetchFails(r) \/ Apply(r) \/ Notify(r)
    \/ Lookup(r) \/ TerminateOrder(r) \/ Finish(r)

Next ==
    \/ \E r \in Requests :
         \/ CreateBegin(r)
         \/ \E p \in Payments : VerifyBegin(r, p)
         \/ \E e \in Events : Deliver(r, e)
         \/ Step(r)
         \/ Abort(r)
    \/ \E e \in Events : Redeliver(e)
    \/ \E p \in Payments :
         \/ PayerPays(p) \/ PayerFails(p)
         \/ OrderPaid(p) \/ OrderExpires(p) \/ OrderTerminates(p)
    \/ BookingCloses

Spec == Init /\ [][Next]_vars

-----------------------------------------------------------------------------
(* Properties                                                               *)

\* Every variable keeps its shape, and a request past its first reads has
\* chosen an attempt.
TypeOK ==
    /\ row \in [Payments -> Statuses \cup {"absent"}]
    /\ order \in [Payments -> Orders]
    /\ charge \in [Payments -> {"none", "exact", "other"}]
    /\ session \subseteq Payments
    /\ event \in [Events -> EventStates]
    /\ notes \subseteq Notes
    /\ open \in BOOLEAN
    /\ req \in [Requests -> RequestStates]

\* Success is said of money that came, and only of that.  A row reads success
\* only if its payer was charged, and (unless an event may leave its amount
\* out) charged the recorded amount, whatever webhook, verify or resume wrote
\* it and however stale the status it had read; and "Payment successful" is
\* never sent to a booker who was not charged.
SettledIsCharged ==
    \A p \in Payments :
        row[p] = "success" =>
            charge[p] # "none" /\ (MayOmitAmount \/ charge[p] = "exact")

NotesAreTrue ==
    \A n \in notes : n.kind = "success" => charge[n.pay] # "none"

SuccessIsReal == SettledIsCharged /\ NotesAreTrue

\* Rows and orders agree.  A row reads cancelled only if the payer left that
\* checkout, a delivered webhook said so and the provider was asked to terminate
\* the order: no verify and no resume calls an attempt cancelled of its own
\* accord, or one whose order is open or has expired.  (It may still be charged:
\* cancelled is read off a termination that is only requested.)  And an order
\* exists only for a row already inserted, so that no charge and no webhook
\* arrives for an order the database has never heard of.
Delivered(t, p) == event[[type |-> t, pay |-> p]] \notin {"unsent", "sent"}

CancelledWasLeft ==
    \A p \in Payments :
        row[p] = "cancelled" =>
            order[p] \in Terminating \cup {"PAID"} /\ Delivered("PAYMENT_USER_DROPPED", p)

OrderHasRow ==
    \A p \in Payments : order[p] # "none" => row[p] # "absent"

OrdersAreKnown == CancelledWasLeft /\ OrderHasRow

\* A request that will write p by id, and decides or has decided what to write
\* on a status that the row does not have: the one that inserted the row and
\* is still to record its order, and any other that read the row before
\* somebody else wrote it.
Stale(p) ==
    \E r \in Requests :
        /\ req[r].pay = p
        /\ \/ req[r].pc \in {"createOrder", "recordOrder", "recordFailure"}
           \/ req[r].pc \in {"fetch", "resume", "terminate", "apply"} /\ req[r].seen # row[p]

\* The guard on terminal statuses fails to stale reads only: an attempt that has
\* ended while no request holds a stale status of it keeps that end for good,
\* whatever webhooks, verifies and checkouts are still to come, for none of them
\* can be stale about it any more.
EndsStay ==
    [][\A p \in Payments :
         row[p] \in Terminal /\ ~Stale(p) => row'[p] = row[p] /\ ~Stale(p)']_vars

-----------------------------------------------------------------------------
(* With one request at a time the service keeps the whole promise.          *)

stage == [p \in Payments |->
            CASE row[p] = "absent"    -> "absent"
              [] row[p] \in InFlight  -> "open"
              [] row[p] \in Settled   -> "paid"
              [] OTHER                -> "dead"]
charged == {p \in Payments : charge[p] # "none"}

L == INSTANCE Lifecycle WITH Payments <- Payments, stage <- stage, charged <- charged

\* payment.service.ts as an implementation of Lifecycle: attempts open one at a
\* time and end once, never paid without money, although webhooks are lost,
\* repeated, late and out of order and requests die between any two calls.
KeepsLifecycle == L!Spec

\* Never both "Payment successful" and "Payment failed" for one attempt.
NotesAgree ==
    \A p \in Payments :
        ~({[kind |-> "success", pay |-> p], [kind |-> "failed", pay |-> p]} \subseteq notes)

\* Two orders of a booking can both take the payer's money, or have taken it,
\* only if one of them belongs to a row that has ended although its order had
\* not: because the provider announced a failed or an abandoned try of it, or
\* because it took a wrong amount.  Nothing else leads to a second checkout
\* beside a first that works: no lost webhook, failed call, repeated request,
\* expired or terminated order.  (ChargedOnce below is the comment's own claim.)
FailureDelivered(p) == \E t \in Failures : Delivered(t, p)
TakesMoney(p)       == p \in session /\ order[p] \in Payable \cup {"PAID"}
GivenUp(p) ==
    row[p] \in {"failed", "cancelled"} /\ (FailureDelivered(p) \/ charge[p] = "other")

OneCheckout ==
    \A p, q \in Payments :
        p # q /\ TakesMoney(p) /\ TakesMoney(q) => GivenUp(p) \/ GivenUp(q)

-----------------------------------------------------------------------------
(* What the comments of the source say of every execution.                  *)

\* payment.service.ts:50-52: a payment that has reached success stays there,
\* whatever webhook, verify or resume comes late.
NeverRegresses ==
    [][\A p \in Payments : row[p] = "success" => row'[p] = "success"]_row

\* payment.service.ts:123-127: a failed attempt is not a failed payment, so no
\* later success on the same order is ever locked out by a terminal failed.
FailedIsUncharged == \A p \in Payments : row[p] = "failed" => charge[p] # "exact"

\* payment.service.ts:231-236: "a booking can never accumulate two live orders
\* and a payer can never be charged twice".
ChargedOnce ==
    \A p, q \in Payments : p # q => charge[p] = "none" \/ charge[q] = "none"

-----------------------------------------------------------------------------
(* Liveness.  A request that has begun goes on (Node resumes every await),  *)
(* or dies.  The client verifies an open attempt again and again; of the    *)
(* verifies that reach a call, not every one dies there; and the provider   *)
(* brings a charged order to PAID.                                          *)

Verifies(r, p) == req[r].op = "verify" /\ req[r].pay = p

\* When each of these steps can be taken.
MayVerify(r, p) == At(r, "idle") /\ row[p] \in InFlight
Fetching(r, p)  == At(r, "fetch") /\ Verifies(r, p) /\ order[p] # "none"
Applying(r, p)  == At(r, "apply") /\ Verifies(r, p)
MayCollect(p)   == order[p] \in Payable /\ charge[p] = "exact"

\* Weak fairness is []<>~guard \/ []<><<A>>_vars, strong fairness
\* <>[]~guard \/ []<><<A>>_vars: the guards are written out, so that the checks
\* and the proofs are about the same formula.
GoesOn(r) == []<>At(r, "idle") \/ []<><<Step(r)>>_vars

Polls(r, p) ==
    /\ <>[]~MayVerify(r, p) \/ []<><<VerifyBegin(r, p)>>_vars
    /\ <>[]~Fetching(r, p) \/ []<><<Verifies(r, p) /\ Fetch(r)>>_vars
    /\ <>[]~Applying(r, p) \/ []<><<Verifies(r, p) /\ Apply(r)>>_vars

Collects(p) == []<>~MayCollect(p) \/ []<><<OrderPaid(p)>>_vars

Fairness ==
    /\ \A r \in Requests : GoesOn(r)
    /\ \A r \in Requests, p \in Payments : Polls(r, p)
    /\ \A p \in Payments : Collects(p)

LiveSpec == Spec /\ Fairness

\* Where no call fails, a charge is recorded as a success in the end: verify
\* finds the money even when every webhook is lost.  Two cases are left out, and
\* no other: the booking has been paid for by another attempt, or the row had been
\* ended by an announced failure of this one (GivenUp), the lockout that
\* FailedIsUncharged is about: that charge is never recorded as one.
ChargeIsRecorded ==
    \A p \in Payments :
        charge[p] = "exact" ~>
            \/ row[p] = "success"
            \/ GivenUp(p)
            \/ \E q \in Payments \ {p} : row[q] \in Settled

\* A booker whose attempt came to read success is told so in the end.
PaidIsTold ==
    \A p \in Payments : row[p] = "success" ~> [kind |-> "success", pay |-> p] \in notes

=============================================================================
