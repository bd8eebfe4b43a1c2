--------------------------- MODULE PaymentsProofs ---------------------------
(***************************************************************************)
(* What module Payments promises for every set of attempts and requests:    *)
(* TypeOK, that success is real, orders are known and ends are kept; for    *)
(* requests that follow one another, the refinement of Lifecycle and what a *)
(* second checkout takes; and, where nothing fails, that a charge which no  *)
(* announced failure has locked out is recorded, and told.                  *)
(*                                                                          *)
(* None of them is inductive.  A row becomes success because some request   *)
(* wrote the status it had resolved calls earlier, so the strengthening     *)
(* says the same of every status a request holds (Held), and ties the       *)
(* webhooks and the provider's order status to the money (Provider).        *)
(* With one request at a time, what it has read is still so when it writes  *)
(* (Current), one attempt alone is open or paid (Orderly), and every failed *)
(* row has its reason (Shut).                                               *)
(***************************************************************************)
EXTENDS Payments, Naturals, TLAPS

\* The money behind a success row.
Paid(p) == charge[p] # "none" /\ (MayOmitAmount \/ charge[p] = "exact")

\* The abandoned checkout behind a cancelled row.
Left(p) == order[p] \in Terminating \cup {"PAID"} /\ Delivered("PAYMENT_USER_DROPPED", p)

\* What the provider may have done for a row to fail.
Failed(p) == order[p] = "EXPIRED" \/ FailureDelivered(p) \/ charge[p] = "other"

\* What a status claims about the provider, wherever it is written down.
Truth(s, p) ==
    /\ s = "success" => Paid(p)
    /\ s = "cancelled" => Left(p)
    /\ s = "failed" => Faults \/ Failed(p)

\* What the provider's own state and its webhooks are worth.
Provider ==
    /\ \A p \in Payments :
         /\ order[p] = "PAID" => charge[p] = "exact"
         /\ order[p] \in {"none", "EXPIRED", "TERMINATED"} => charge[p] = "none"
         /\ order[p] \in Terminating => Delivered("PAYMENT_USER_DROPPED", p)
    /\ \A e \in Events :
         event[e] # "unsent" /\ e.type = "PAYMENT_SUCCESS" => charge[e.pay] # "none"

NeedsPayment == Labels \ {"idle", "findInFlight", "findSettled", "insert"}

\* What a request in progress holds is true when it writes it.
Held(r) ==
    /\ At(r, "idle") => req[r] = Idle
    /\ req[r].pc \in NeedsPayment =>
         /\ req[r].pay \in Payments
         /\ req[r].op = "webhook" => req[r].type \in EventTypes /\ Delivered(req[r].type, req[r].pay)
         /\ req[r].op = "webhook" /\ req[r].type = "PAYMENT_SUCCESS"
              => charge[req[r].pay] # "none"
         /\ Truth(req[r].seen, req[r].pay)
         /\ Truth(req[r].to, req[r].pay)
    /\ req[r].pc \in {"lookup", "terminate", "finish"} => req[r].op = "webhook"
    /\ req[r].pc = "terminate" => req[r].type = "PAYMENT_USER_DROPPED"
    /\ req[r].pc = "recordFailure" => Faults
    /\ req[r].pc = "fetch" => req[r].op # "webhook"
    /\ req[r].pc \in {"apply", "terminate"} => req[r].to \in Statuses
    /\ req[r].pc = "notify" => req[r].to \in {"success", "failed"}
    /\ req[r].pc = "createOrder" => row[req[r].pay] # "absent"

\* An order is created by one request, and by that one once.
Owners ==
    /\ \A r \in Requests : At(r, "createOrder") => order[req[r].pay] = "none"
    /\ \A r, q \in Requests :
         At(r, "createOrder") /\ At(q, "createOrder") /\ req[r].pay = req[q].pay => r = q

World ==
    /\ \A p \in Payments : Truth(row[p], p)
    /\ OrderHasRow
    /\ NotesAreTrue
    /\ Provider

IInv ==
    /\ TypeOK
    /\ World
    /\ \A r \in Requests : Held(r)
    /\ Owners

-----------------------------------------------------------------------------
(* How the world may move: money stays, an order that is expired, paid or   *)
(* to be terminated never opens again, a row stays, and a webhook that has  *)
(* come has come.  Whatever a request holds survives every such step.       *)

Advance ==
    /\ \A p \in Payments :
         /\ charge[p] # "none" => charge'[p] = charge[p]
         /\ order[p] = "EXPIRED" => order'[p] = "EXPIRED"
         /\ order[p] \in Terminating \cup {"PAID"} => order'[p] \in Terminating \cup {"PAID"}
         /\ row[p] # "absent" => row'[p] # "absent"
         /\ \A t \in EventTypes : Delivered(t, p) => Delivered(t, p)'

\* What is true of the provider stays true of it.
LEMMA TruthStays ==
    ASSUME Advance, NEW p \in Payments, NEW s
    PROVE  /\ Paid(p) => Paid(p)'
           /\ Left(p) => Left(p)'
           /\ Failed(p) => Failed(p)'
           /\ Truth(s, p) => Truth(s, p)'
<1>1. Paid(p) => Paid(p)'
  BY DEF Advance, Paid
<1>2. Left(p) => Left(p)'
  BY DEF Advance, Left, EventTypes, Failures
<1>3. Failed(p) => Failed(p)'
  BY DEF Advance, Failed, FailureDelivered, EventTypes
<1> QED
  BY <1>1, <1>2, <1>3 DEF Truth

\* A step of the database alone: the provider's side is as it was.
LEMMA SameProvider ==
    ASSUME UNCHANGED <<order, charge, event>>
    PROVE  /\ Provider => Provider'
           /\ \A s, p : Truth(s, p) => Truth(s, p)'
           /\ \A t, p : Delivered(t, p) => Delivered(t, p)'
           /\ (\A p \in Payments : row[p] # "absent" => row'[p] # "absent") => Advance
<1>1. \A t, p : Delivered(t, p)' <=> Delivered(t, p)
  BY DEF Delivered
<1>2. \A s, p : Truth(s, p) => Truth(s, p)'
  BY <1>1 DEF Truth, Paid, Left, Failed, FailureDelivered
<1> QED
  BY <1>1, <1>2 DEF Provider, Advance

\* A request that takes no step keeps holding the truth.
LEMMA OthersHeld ==
    ASSUME Advance, NEW q \in Requests, Held(q), req'[q] = req[q]
    PROVE  Held(q)'
<1>1. req[q].pay \in Payments =>
        /\ \A s : Truth(s, req[q].pay) => Truth(s, req[q].pay)'
        /\ \A t \in EventTypes : Delivered(t, req[q].pay) => Delivered(t, req[q].pay)'
        /\ charge[req[q].pay] # "none" => charge'[req[q].pay] # "none"
        /\ row[req[q].pay] # "absent" => row'[req[q].pay] # "absent"
  BY TruthStays DEF Advance
<1> HIDE DEF Truth, Delivered
<1> QED
  BY <1>1 DEF Held, At, NeedsPayment, Labels

\* An idle request holds nothing.
LEMMA IdleHeld ==
    ASSUME NEW q \in Requests, req'[q] = Idle
    PROVE  Held(q)' /\ ~At(q, "createOrder")'
  BY DEF Held, At, Idle, Request, NeedsPayment, Labels

\* The types of the two ways a request moves.
LEMMA RequestTypes ==
    ASSUME TypeOK, NEW r \in Requests
    PROVE  /\ \A l \in Labels : Goto(r, l) => req' \in [Requests -> RequestStates]
           /\ \A s \in RequestStates : Become(r, s) => req' \in [Requests -> RequestStates]
           /\ Done(r) => req' \in [Requests -> RequestStates]
<1>1. \A s \in RequestStates : Become(r, s) => req' \in [Requests -> RequestStates]
  BY DEF TypeOK, Become
<1>2. Idle \in RequestStates
  BY DEF Idle, Request, RequestStates, Labels
<1>3. ASSUME NEW l \in Labels, Goto(r, l)
      PROVE  req' \in [Requests -> RequestStates]
  BY <1>3 DEF TypeOK, RequestStates, Goto
<1> QED
  BY <1>1, <1>2, <1>3 DEF Done

\* A request that has chosen nothing yet is well formed and holds nothing.
LEMMA CreatingHeld ==
    ASSUME TypeOK, NEW r \in Requests, NEW l \in {"findInFlight", "findSettled", "insert"},
           Become(r, Creating(l))
    PROVE  /\ req' \in [Requests -> RequestStates] /\ Held(r)'
           /\ ~At(r, "createOrder")'
<1>1. Creating(l) \in RequestStates
  BY DEF Creating, Request, RequestStates, Labels, Statuses
<1> QED
  BY <1>1, RequestTypes DEF TypeOK, Become, Creating, Request, Held, At, NeedsPayment

\* A request that goes on with the attempt it has chosen holds what it held.
LEMMA GotoHeld ==
    ASSUME TypeOK, Advance, NEW r \in Requests, Held(r), req[r].pc \in NeedsPayment,
           NEW l \in NeedsPayment \ {"createOrder", "terminate", "lookup", "fetch"}, Goto(r, l),
           l = "finish" => req[r].op = "webhook",
           l = "recordFailure" => Faults,
           l = "apply" => req[r].to \in Statuses,
           l = "notify" => req[r].to \in {"success", "failed"}
    PROVE  /\ req' \in [Requests -> RequestStates]
           /\ \A q \in Requests \ {r} : req'[q] = req[q]
           /\ Held(r)' /\ ~At(r, "createOrder")'
<1>1. req' = [req EXCEPT ![r].pc = l] /\ l \in Labels
  BY DEF Goto, NeedsPayment
<1>2. req' \in [Requests -> RequestStates]
  BY <1>1, RequestTypes
<1>3. /\ req'[r].pc = l /\ req'[r].op = req[r].op /\ req'[r].pay = req[r].pay
      /\ req'[r].type = req[r].type /\ req'[r].seen = req[r].seen /\ req'[r].to = req[r].to
      /\ \A q \in Requests \ {r} : req'[q] = req[q]
  BY <1>1 DEF TypeOK, RequestStates
<1>4. /\ req[r].pay \in Payments
      /\ req[r].op = "webhook" =>
           req[r].type \in EventTypes /\ Delivered(req[r].type, req[r].pay)
      /\ req[r].op = "webhook" /\ req[r].type = "PAYMENT_SUCCESS"
           => charge[req[r].pay] # "none"
      /\ Truth(req[r].seen, req[r].pay) /\ Truth(req[r].to, req[r].pay)
  BY DEF Held
<1>5. \A p \in Payments :
        /\ \A s : Truth(s, p) => Truth(s, p)'
        /\ \A t \in EventTypes : Delivered(t, p) => Delivered(t, p)'
        /\ charge[p] # "none" => charge'[p] # "none"
  BY TruthStays DEF Advance
<1>6. /\ Truth(req[r].seen, req[r].pay)' /\ Truth(req[r].to, req[r].pay)'
  <2>1. PICK p \in Payments, seen \in Statuses \cup {"absent"}, to \in Statuses \cup {"absent"} :
               p = req[r].pay /\ seen = req[r].seen /\ to = req[r].to
    BY <1>4 DEF TypeOK, RequestStates
  <2>2. Truth(seen, p)' /\ Truth(to, p)'
    BY <1>4, <1>5, <2>1
  <2> QED
    BY <1>3, <2>1, <2>2 DEF Truth, Paid, Left, Failed, FailureDelivered, Delivered
<1>7. req[r].op = "webhook" => Delivered(req[r].type, req[r].pay)'
  BY <1>3, <1>4, <1>5 DEF Delivered
<1>8. req[r].op = "webhook" /\ req[r].type = "PAYMENT_SUCCESS" => charge'[req[r].pay] # "none"
  BY <1>4, <1>5
<1> QED
  BY <1>2, <1>3, <1>4, <1>6, <1>7, <1>8 DEF Held, At, NeedsPayment, Labels

\* A step of request r that moves no order out of "none" and does not leave r
\* about to create one.
LEMMA StepKeeps ==
    ASSUME IInv, NEW r \in Requests, TypeOK', World', Advance, Held(r)',
           \A q \in Requests \ {r} : req'[q] = req[q],
           \A p \in Payments : order[p] = "none" => order'[p] = "none",
           ~At(r, "createOrder")'
    PROVE  IInv'
<1>1. \A q \in Requests : Held(q)'
  BY OthersHeld DEF IInv
<1>2. Owners'
  <2>1. ASSUME NEW q \in Requests, At(q, "createOrder")'
        PROVE  q # r /\ req'[q] = req[q] /\ At(q, "createOrder") /\ req[q].pay \in Payments
    BY <2>1 DEF At, IInv, Held, NeedsPayment, Labels
  <2> QED
    BY <2>1 DEF Owners, IInv, At
<1> QED
  BY <1>1, <1>2 DEF IInv

\* A webhook moves on in the ledger, or is first sent.
LEMMA EventMoves ==
    ASSUME TypeOK, NEW e \in Events, NEW s \in EventStates, event' = [event EXCEPT ![e] = s],
           s \in {"unsent", "sent"} => event[e] \in {"unsent", "sent"}
    PROVE  /\ event' \in [Events -> EventStates]
           /\ \A t \in EventTypes, p \in Payments : Delivered(t, p) => Delivered(t, p)'
           /\ s \notin {"unsent", "sent"} => Delivered(e.type, e.pay)'
<1>1. e = [type |-> e.type, pay |-> e.pay]
  BY DEF Events
<1>2. \A t \in EventTypes, p \in Payments : [type |-> t, pay |-> p] \in Events
  BY DEF Events
<1> QED
  BY <1>1, <1>2 DEF TypeOK, Delivered

\* A step of the provider or of the ledger that writes no row and no notice.
LEMMA WorldStays ==
    ASSUME IInv, UNCHANGED <<row, notes>>, TypeOK', Provider', Advance,
           \A p \in Payments : order[p] = "none" => order'[p] = "none"
    PROVE  World'
<1>1. \A p \in Payments : \A s : Truth(s, p) => Truth(s, p)'
  BY TruthStays
<1>2. (\A p \in Payments : Truth(row[p], p))'
  BY <1>1 DEF IInv, World, Truth, Paid, Left, Failed, FailureDelivered, Delivered
<1>3. NotesAreTrue'
  BY DEF IInv, TypeOK, World, NotesAreTrue, Notes, Advance
<1> QED
  BY <1>2, <1>3 DEF IInv, TypeOK, World, OrderHasRow

\* A step of request r that touches nothing but r.
LEMMA QuietStep ==
    ASSUME IInv, NEW r \in Requests,
           UNCHANGED <<row, order, charge, session, event, notes, open>>,
           req' \in [Requests -> RequestStates],
           \A q \in Requests \ {r} : req'[q] = req[q],
           Held(r)', ~At(r, "createOrder")'
    PROVE  IInv'
<1>1. Advance
  BY SameProvider
<1>2. TypeOK'
  BY DEF IInv, TypeOK
<1>3. World'
  BY SameProvider DEF IInv, World, OrderHasRow, NotesAreTrue
<1> QED
  BY <1>1, <1>2, <1>3, StepKeeps

-----------------------------------------------------------------------------
(* The actions of a request, in the order of the module.                    *)

\* createPayment's reads, the booking's status, the attempt in flight and the
\* settled one, change no payment and keep the invariant.
LEMMA CreateReads ==
    ASSUME IInv, NEW r \in Requests,
           CreateBegin(r) \/ FindInFlight(r) \/ FindSettled(r)
    PROVE  IInv'
<1>0. TypeOK /\ Held(r)
  BY DEF IInv
<1>1. CASE CreateBegin(r)
  BY <1>0, <1>1, CreatingHeld, QuietStep DEF CreateBegin, TypeOK, Become
<1>2. CASE FindInFlight(r)
  <2>1. ASSUME NEW p \in Payments, row[p] \in InFlight,
               Become(r, Request("create", "fetch", p, "none", row[p], "absent"))
        PROVE  IInv'
    <3>1. Request("create", "fetch", p, "none", row[p], "absent") \in RequestStates
      BY <1>0, <2>1 DEF Request, RequestStates, Labels, Statuses
    <3>2. Held(r)' /\ ~At(r, "createOrder")'
      BY <1>0, <1>2, <2>1
      DEF FindInFlight, TypeOK, Become, Request, Held, At, NeedsPayment, Truth, InFlight
    <3> QED
      BY <1>0, <1>2, <2>1, <3>1, <3>2, RequestTypes, QuietStep
      DEF FindInFlight, TypeOK, Become
  <2>2. CASE Goto(r, "findSettled")
    <3>1. req' \in [Requests -> RequestStates]
      BY <1>0, <2>2, RequestTypes DEF Labels
    <3>2. Held(r)' /\ ~At(r, "createOrder")'
      BY <1>0, <2>2 DEF TypeOK, RequestStates, Held, At, NeedsPayment, Goto
    <3> QED
      BY <1>2, <2>2, <3>1, <3>2, QuietStep DEF FindInFlight, IInv, TypeOK, Goto
  <2> QED
    BY <1>2, <2>1, <2>2 DEF FindInFlight
<1>3. CASE FindSettled(r)
  <2>1. CASE Done(r)
    BY <1>0, <1>3, <2>1, RequestTypes, IdleHeld, QuietStep DEF FindSettled, TypeOK, Done, Become
  <2>2. CASE Become(r, Creating("insert"))
    BY <1>0, <1>3, <2>2, CreatingHeld, QuietStep DEF FindSettled, TypeOK, Become
  <2> QED
    BY <1>3, <2>1, <2>2 DEF FindSettled
<1> QED
  BY <1>1, <1>2, <1>3

\* createPayment's insert: a created row without an order claims nothing of
\* money, whether the indexes let it through or not.
LEMMA InsertKeeps ==
    ASSUME IInv, NEW r \in Requests, Insert(r)
    PROVE  IInv'
<1>0. TypeOK /\ Held(r)
  BY DEF IInv
<1>1. ASSUME NEW p \in Payments,
             row[p] = "absent",
             row' = [row EXCEPT ![p] = "created"],
             Become(r, Request("create", "createOrder", p, "none", "absent", "absent"))
      PROVE  IInv'
  <2>1. UNCHANGED <<order, charge, session, event, notes, open>>
    BY DEF Insert
  <2>2. Request("create", "createOrder", p, "none", "absent", "absent") \in RequestStates
    BY DEF Request, RequestStates, Labels
  <2>3. TypeOK'
    BY <1>0, <1>1, <2>1, <2>2, RequestTypes DEF TypeOK, Statuses, InFlight
  <2>4. Advance
    BY <1>0, <1>1, <2>1, SameProvider DEF TypeOK
  <2>5. Held(r)'
    BY <1>0, <1>1, <2>1 DEF TypeOK, Become, Request, Held, At, NeedsPayment, Truth
  <2>6. \A q \in Requests : Held(q)'
    BY <1>0, <1>1, <2>4, <2>5, OthersHeld DEF IInv, TypeOK, Become
  <2>7. World'
    <3>1. Truth("created", p)'
      BY DEF Truth
    <3> QED
      BY <1>0, <1>1, <2>1, <3>1, SameProvider DEF IInv, TypeOK, World, OrderHasRow, NotesAreTrue
  <2>8. order[p] = "none" /\ \A q \in Requests : At(q, "createOrder") => req[q].pay # p
    BY <1>0, <1>1 DEF IInv, World, OrderHasRow, Held, At
  <2>9. Owners'
    BY <1>0, <1>1, <2>1, <2>8 DEF IInv, TypeOK, Owners, Become, Request, At
  <2> QED
    BY <2>3, <2>6, <2>7, <2>9 DEF IInv
<1>2. CASE Done(r) /\ UNCHANGED row
  BY <1>0, <1>2, RequestTypes, IdleHeld, QuietStep DEF Insert, TypeOK, Done, Become
<1> QED
  BY <1>1, <1>2 DEF Insert

\* createPayment's call of the provider: the order opened has a row, and no
\* other request opens it, whether the call answers or fails.
LEMMA CreateOrderKeeps ==
    ASSUME IInv, NEW r \in Requests, CreateOrder(r)
    PROVE  IInv'
<1>0. TypeOK /\ Held(r) /\ At(r, "createOrder") /\ req[r].pay \in Payments
  BY DEF IInv, CreateOrder, Held, At, NeedsPayment, Labels
<1>1. /\ order' = [order EXCEPT ![req[r].pay] = "ACTIVE"] \/ order' = order
      /\ UNCHANGED <<row, charge, session, event, notes, open>>
  BY DEF CreateOrder
<1>2. order[req[r].pay] = "none" /\ row[req[r].pay] # "absent"
  BY <1>0 DEF IInv, Owners, Held, At
<1>3. ASSUME NEW l \in {"recordOrder", "recordFailure"}, Goto(r, l)
      PROVE  IInv'
  <2>1. TypeOK'
    BY <1>0, <1>1, <1>3, RequestTypes DEF TypeOK, Labels, Orders
  <2>2. Advance
    BY <1>0, <1>1, <1>2 DEF Advance, TypeOK, Terminating, Delivered
  <2>3. World'
    <3>1. \A p \in Payments : \A s : Truth(s, p) => Truth(s, p)'
      BY <2>2, TruthStays
    <3>2. Provider'
      BY <1>0, <1>1, <1>2 DEF IInv, TypeOK, World, Provider, Terminating, Delivered
    <3>3. (\A p \in Payments : Truth(row[p], p))'
      BY <1>1, <3>1 DEF IInv, World, Truth, Paid, Left, Failed, FailureDelivered, Delivered
    <3> QED
      BY <1>0, <1>1, <1>2, <3>2, <3>3 DEF IInv, TypeOK, World, OrderHasRow, NotesAreTrue
  <2>4. Held(r)' /\ ~At(r, "createOrder")'
    <3>1. req[r].pc = "createOrder"
      BY <1>0 DEF At
    <3>2. l = "recordFailure" => Faults
      BY <1>0, <1>3 DEF CreateOrder, Goto, TypeOK, RequestStates
    <3> QED
      BY <1>0, <1>3, <2>2, <3>1, <3>2, GotoHeld DEF NeedsPayment, Labels
  <2>5. \A q \in Requests : Held(q)'
    BY <1>0, <1>3, <2>2, <2>4, OthersHeld DEF IInv, TypeOK, Goto
  <2>6. ASSUME NEW q \in Requests, At(q, "createOrder")'
        PROVE  /\ q # r /\ req'[q] = req[q] /\ At(q, "createOrder")
               /\ req[q].pay \in Payments /\ req[q].pay # req[r].pay
    BY <1>0, <1>3, <2>4, <2>6 DEF IInv, TypeOK, Goto, At, Owners, Held, NeedsPayment, Labels
  <2>7. Owners'
    BY <1>0, <1>1, <2>6 DEF IInv, TypeOK, Owners, At
  <2> QED
    BY <2>1, <2>3, <2>5, <2>7 DEF IInv
<1> QED
  BY <1>3 DEF CreateOrder

\* The four actions that write a status and end: recordOrder, recordFailure,
\* resume, and an apply the indexes refuse.  What they write claims nothing.
LEMMA RowWritten ==
    ASSUME IInv, NEW r \in Requests, NEW p \in Payments, NEW s \in Statuses,
           row' = [row EXCEPT ![p] = s] \/ row' = row,
           Truth(s, p), row[p] # "absent" \/ s # "absent",
           UNCHANGED <<order, charge, event, notes, open>>,
           session' \subseteq Payments,
           req' \in [Requests -> RequestStates],
           \A q \in Requests \ {r} : req'[q] = req[q],
           Held(r)', ~At(r, "createOrder")'
    PROVE  IInv'
<1>1. TypeOK'
  BY DEF IInv, TypeOK
<1>2. Advance
  BY SameProvider DEF IInv, TypeOK, Statuses, InFlight
<1>3. World'
  BY SameProvider DEF IInv, TypeOK, World, OrderHasRow, NotesAreTrue, Statuses, InFlight
<1> QED
  BY <1>1, <1>2, <1>3, StepKeeps

\* createPayment's last writes, pending or failed, and those of a resumed
\* attempt: none of them claims a payment.
LEMMA CreateWrites ==
    ASSUME IInv, NEW r \in Requests,
           RecordOrder(r) \/ RecordFailure(r) \/ Resume(r)
    PROVE  IInv'
<1>0. TypeOK /\ Held(r) /\ req[r].pay \in Payments
  BY DEF IInv, RecordOrder, RecordFailure, Resume, Held, At, NeedsPayment, Labels
<1>1. Done(r) /\ UNCHANGED <<order, charge, event, notes, open>>
  BY DEF RecordOrder, RecordFailure, Resume
<1>2. /\ req' \in [Requests -> RequestStates]
      /\ \A q \in Requests \ {r} : req'[q] = req[q]
      /\ Held(r)' /\ ~At(r, "createOrder")'
  BY <1>0, <1>1, RequestTypes, IdleHeld DEF TypeOK, Done, Become
<1>3. session' \subseteq Payments
  BY <1>0 DEF TypeOK, RecordOrder, RecordFailure, Resume
<1>4. /\ row' = [row EXCEPT ![req[r].pay] = "pending"]
         \/ row' = [row EXCEPT ![req[r].pay] = "failed"] \/ row' = row
      /\ "pending" \in Statuses /\ "failed" \in Statuses
      /\ Truth("pending", req[r].pay)
  BY DEF RecordOrder, RecordFailure, Resume, MapOrderStatus, Terminating, Statuses, InFlight, Truth
<1>5. RecordFailure(r) => Truth("failed", req[r].pay)
  BY <1>0 DEF RecordFailure, Held, At, Truth
<1>6. row' = [row EXCEPT ![req[r].pay] = "failed"] =>
        RecordFailure(r) \/ row' = [row EXCEPT ![req[r].pay] = "pending"] \/ row' = row
  BY DEF RecordOrder, RecordFailure, Resume, MapOrderStatus, Terminating
<1> QED
  BY <1>0, <1>1, <1>2, <1>3, <1>4, <1>5, <1>6, RowWritten

\* verifyPayment starts from the row it reads, of which the invariant holds.
LEMMA VerifyReads ==
    ASSUME IInv, NEW r \in Requests, NEW p \in Payments, VerifyBegin(r, p)
    PROVE  IInv'
<1>0. TypeOK
  BY DEF IInv
<1>1. Request("verify", "fetch", p, "none", row[p], "absent") \in RequestStates
  BY <1>0 DEF VerifyBegin, TypeOK, Request, RequestStates, Labels, Statuses
<1>2. Held(r)' /\ ~At(r, "createOrder")'
  BY <1>0 DEF VerifyBegin, TypeOK, Become, Request, Held, At, NeedsPayment, Truth, InFlight
<1> QED
  BY <1>0, <1>1, <1>2, RequestTypes, QuietStep DEF VerifyBegin, TypeOK, Become

\* What a request resolves is a status, and a true one if what it was told is.
LEMMA ResolveTrue ==
    ASSUME NEW p, NEW seen \in Statuses \cup {"absent"}, NEW incoming \in Statuses, NEW a,
           Truth(seen, p), incoming # "success" => Truth(incoming, p),
           incoming = "success" /\ a # "other" => Paid(p),
           incoming = "success" /\ a = "other" => Failed(p)
    PROVE  Resolve(seen, incoming, a) \in Statuses /\ Truth(Resolve(seen, incoming, a), p)
BY DEF Resolve, Truth, Statuses, Terminal, Settled, InFlight

\* fetchOrder and its attempts: the outcome derived from them, which the request
\* carries to its write, is backed by the provider's order.
LEMMA FetchKeeps ==
    ASSUME IInv, NEW r \in Requests, Fetch(r)
    PROVE  IInv'
<1>0. TypeOK /\ Held(r) /\ World /\ req[r].pc = "fetch" /\ req[r].pay \in Payments
  BY DEF IInv, Fetch, Held, At, NeedsPayment, Labels
<1> DEFINE p == req[r].pay
           seen == req[r].seen
<1>1. ASSUME NEW s \in FetchOutcomes(p)
      PROVE  /\ Resolve(seen, s, "exact") \in Statuses
             /\ Truth(Resolve(seen, s, "exact"), p)
  <2>1. s \in Statuses /\ (s = "success" => Paid(p)) /\ (s # "success" => Truth(s, p))
    BY <1>0, <1>1
    DEF FetchOutcomes, MapOrderStatus, Terminating, Statuses, InFlight, World, Provider, Paid,
        Truth, Left, Failed, TypeOK
  <2>2. Truth(seen, p) /\ seen \in Statuses \cup {"absent"}
    BY <1>0 DEF Held, NeedsPayment, Labels, TypeOK, RequestStates
  <2> QED
    BY <2>1, <2>2, ResolveTrue
<1>2. CASE Goto(r, "resume")
  <2>1. req' \in [Requests -> RequestStates]
    BY <1>0, <1>2, RequestTypes DEF Labels
  <2>2. Held(r)' /\ ~At(r, "createOrder")'
    BY <1>0, <1>2
    DEF Fetch, TypeOK, RequestStates, Goto, Held, At, NeedsPayment, Labels, Truth, Paid,
      Left, Failed, FailureDelivered, Delivered
  <2> QED
    BY <1>0, <1>2, <2>1, <2>2, QuietStep DEF Fetch, TypeOK, Goto
<1>3. ASSUME NEW s \in FetchOutcomes(p),
             Become(r, Request(req[r].op, "apply", p, "none", seen, Resolve(seen, s, "exact")))
      PROVE  IInv'
  <2> DEFINE w == Resolve(seen, s, "exact")
  <2>1. w \in Statuses /\ Truth(w, p)
    BY <1>1
  <2> HIDE DEF w
  <2>2. Request(req[r].op, "apply", p, "none", seen, w) \in RequestStates
    BY <1>0, <2>1 DEF TypeOK, Request, RequestStates, Labels
  <2>3. req[r].op # "webhook" /\ Truth(seen, p)
    BY <1>0 DEF Held, NeedsPayment, Labels
  <2>4. Held(r)' /\ ~At(r, "createOrder")'
    BY <1>0, <1>3, <2>1, <2>3
    DEF Fetch, TypeOK, RequestStates, Become, Request, Held, At, NeedsPayment, Labels, Truth, Paid,
      Left, Failed, FailureDelivered, Delivered, w
  <2> QED
    BY <1>0, <1>3, <2>2, <2>4, RequestTypes, QuietStep DEF Fetch, TypeOK, Become, w
<1> QED
  BY <1>2, <1>3 DEF Fetch

\* A request whose call fails or whose process dies leaves the tables alone.
LEMMA DiesKeeps ==
    ASSUME IInv, NEW r \in Requests, FetchFails(r) \/ Abort(r)
    PROVE  IInv'
BY RequestTypes, IdleHeld, QuietStep DEF FetchFails, Abort, IInv, TypeOK, Done, Become

\* Where applyPaymentStatusUpdate leaves its request.
LEMMA AfterApplyHeld ==
    ASSUME TypeOK, NEW r \in Requests, Held(r), req[r].pc \in {"apply", "notify"},
           Advance, AfterApply(r)
    PROVE  /\ req' \in [Requests -> RequestStates]
           /\ \A q \in Requests \ {r} : req'[q] = req[q]
           /\ Held(r)' /\ ~At(r, "createOrder")'
<1>1. CASE req[r].op = "webhook" /\ Goto(r, "finish")
  BY <1>1, GotoHeld DEF NeedsPayment, Labels
<1>2. CASE Become(r, Creating("findSettled"))
  BY <1>2, CreatingHeld DEF TypeOK, Become
<1>3. CASE Done(r)
  BY <1>3, RequestTypes, IdleHeld DEF TypeOK, Done, Become
<1> QED
  BY <1>1, <1>2, <1>3 DEF AfterApply

\* applyPaymentStatusUpdate writes the status its caller resolved earlier, which
\* is still true of the provider when it is written.
LEMMA ApplyKeeps ==
    ASSUME IInv, NEW r \in Requests, Apply(r)
    PROVE  IInv'
<1>0. TypeOK /\ Held(r) /\ req[r].pc = "apply" /\ req[r].pay \in Payments
  BY DEF IInv, Apply, Held, At, NeedsPayment, Labels
<1>1. /\ req[r].to \in Statuses /\ Truth(req[r].to, req[r].pay)
      /\ row' = [row EXCEPT ![req[r].pay] = req[r].to] \/ row' = row
      /\ UNCHANGED <<order, charge, session, event, notes, open>>
  BY <1>0 DEF Apply, Held, NeedsPayment, Labels
<1>2. Advance
  BY <1>0, <1>1, SameProvider DEF TypeOK, Statuses, InFlight
<1>3. /\ req' \in [Requests -> RequestStates]
      /\ \A q \in Requests \ {r} : req'[q] = req[q]
      /\ Held(r)' /\ ~At(r, "createOrder")'
  <2>1. CASE Goto(r, "notify") /\ req[r].to \in {"success", "failed"}
    BY <1>0, <1>2, <2>1, GotoHeld DEF NeedsPayment, Labels
  <2>2. CASE AfterApply(r)
    BY <1>0, <1>2, <2>2, AfterApplyHeld
  <2>3. CASE Done(r)
    BY <1>0, <2>3, RequestTypes, IdleHeld DEF TypeOK, Done, Become
  <2> QED
    BY <2>1, <2>2, <2>3 DEF Apply
<1>4. req[r].to # "absent" /\ session' \subseteq Payments
  BY <1>0, <1>1 DEF TypeOK, Statuses, InFlight
<1> QED
  BY <1>0, <1>1, <1>3, <1>4, RowWritten

\* applyPaymentStatusUpdate's notification of a success is of money that moved.
LEMMA NotifyKeeps ==
    ASSUME IInv, NEW r \in Requests, Notify(r)
    PROVE  IInv'
<1>0. TypeOK /\ Held(r) /\ World /\ req[r].pc = "notify" /\ req[r].pay \in Payments
  BY DEF IInv, Notify, Held, At, NeedsPayment, Labels
<1>1. UNCHANGED <<row, order, charge, session, event, open>>
  BY DEF Notify
<1>2. Advance
  BY <1>1, SameProvider
<1>3. /\ req' \in [Requests -> RequestStates]
      /\ \A q \in Requests \ {r} : req'[q] = req[q]
      /\ Held(r)' /\ ~At(r, "createOrder")'
  BY <1>0, <1>2, AfterApplyHeld DEF Notify
<1>4. [kind |-> req[r].to, pay |-> req[r].pay] \in Notes
  BY <1>0 DEF Held, Notes
<1>5. req[r].to = "success" => charge[req[r].pay] # "none"
  BY <1>0 DEF Held, NeedsPayment, Labels, Truth, Paid
<1>6. TypeOK'
  BY <1>0, <1>1, <1>3, <1>4 DEF TypeOK, Notify
<1>7. World'
  BY <1>0, <1>1, <1>5, SameProvider DEF Notify, World, OrderHasRow, NotesAreTrue
<1> QED
  BY <1>1, <1>2, <1>3, <1>6, <1>7, StepKeeps

\* A webhook that reaches handleWebhook carries a fact of the provider.
LEMMA DeliverKeeps ==
    ASSUME IInv, NEW r \in Requests, NEW e \in Events, Deliver(r, e)
    PROVE  IInv'
<1>0. TypeOK /\ World /\ event[e] = "sent" /\ e.type \in EventTypes /\ e.pay \in Payments
  BY DEF IInv, Deliver, Events
<1>1. UNCHANGED <<row, order, charge, session, notes, open>>
  BY DEF Deliver
<1>2. Request("webhook", "lookup", e.pay, e.type, "absent", "absent") \in RequestStates
  BY <1>0 DEF Request, RequestStates, Labels
<1>3. TypeOK' /\ Advance /\ Delivered(e.type, e.pay)'
  <2>1. event' = [event EXCEPT ![e] = "received"] /\ "received" \in EventStates
    BY DEF Deliver, EventStates
  <2> QED
    BY <1>0, <1>1, <1>2, <2>1, RequestTypes, EventMoves DEF Deliver, TypeOK, Advance
<1>4. Provider'
  BY <1>0, <1>1, <1>3 DEF Deliver, TypeOK, World, Provider, Advance, EventTypes, Failures
<1>5. World'
  BY <1>0, <1>1, <1>3, <1>4, WorldStays
<1>6. Held(r)' /\ ~At(r, "createOrder")'
  <2>1. e.type = "PAYMENT_SUCCESS" => charge[e.pay] # "none"
    BY <1>0 DEF World, Provider
  <2>2. req'[r] = Request("webhook", "lookup", e.pay, e.type, "absent", "absent")
    BY <1>0 DEF Deliver, TypeOK, Become
  <2> QED
    BY <1>0, <1>1, <1>3, <2>1, <2>2 DEF Request, Held, At, NeedsPayment, Truth, Delivered
<1>7. \A q \in Requests \ {r} : req'[q] = req[q]
  BY <1>0 DEF Deliver, TypeOK, Become
<1> QED
  BY <1>1, <1>3, <1>5, <1>6, <1>7, StepKeeps

\* handleWebhook's payment lookup resolves the status from the event and the row
\* read: a success only from a success event with an acceptable amount.
LEMMA LookupKeeps ==
    ASSUME IInv, NEW r \in Requests, Lookup(r)
    PROVE  IInv'
<1>0. /\ TypeOK /\ Held(r) /\ World /\ req[r].pc = "lookup" /\ req[r].pay \in Payments
      /\ req[r].op = "webhook" /\ req[r].type \in EventTypes
      /\ Delivered(req[r].type, req[r].pay)
      /\ req[r].type = "PAYMENT_SUCCESS" => charge[req[r].pay] # "none"
  BY DEF IInv, Lookup, Held, At, NeedsPayment, Labels
<1> DEFINE p == req[r].pay
           incoming == IF req[r].type = "PAYMENT_SUCCESS" THEN "success" ELSE "failed"
<1>1. CASE Goto(r, "finish")
  <2>1. Advance
    BY SameProvider DEF Lookup
  <2> QED
    BY <1>0, <1>1, <2>1, GotoHeld, QuietStep DEF Lookup, NeedsPayment, Labels
<1>2. ASSUME NEW a \in ReportedAmounts(EventOf(r)), NEW l \in {"terminate", "apply"},
             row[p] # "absent", l = "terminate" => req[r].type = "PAYMENT_USER_DROPPED",
             Become(r, Request("webhook", l, p, req[r].type, row[p],
                               Resolve(row[p], incoming, a)))
      PROVE  IInv'
  <2> DEFINE w == Resolve(row[p], incoming, a)
  <2>1. incoming = "success" /\ a # "other" => Paid(p)
    BY <1>0, <1>2 DEF ReportedAmounts, EventOf, Paid, TypeOK
  <2>2. Truth(row[p], p) /\ row[p] \in Statuses
    BY <1>0, <1>2 DEF World, TypeOK
  <2>3. incoming # "success" => Truth(incoming, p)
    BY <1>0 DEF Truth, Failed, FailureDelivered, EventTypes
  <2>4. incoming = "success" /\ a = "other" => Failed(p)
    BY <1>0, <1>2 DEF ReportedAmounts, EventOf, Failed
  <2>5. w \in Statuses /\ Truth(w, p)
    BY <2>1, <2>2, <2>3, <2>4, ResolveTrue DEF Statuses, InFlight
  <2> HIDE DEF w
  <2>6. Request("webhook", l, p, req[r].type, row[p], w) \in RequestStates
    BY <1>0, <2>2, <2>5 DEF Request, RequestStates, Labels
  <2>7. req'[r] = Request("webhook", l, p, req[r].type, row[p], w)
    BY <1>0, <1>2 DEF TypeOK, Become, w
  <2>8. Held(r)' /\ ~At(r, "createOrder")'
    <3> HIDE DEF p
    <3>1. /\ req'[r].op = "webhook" /\ req'[r].pc = l /\ req'[r].pay = p
          /\ req'[r].type = req[r].type /\ req'[r].seen = row[p] /\ req'[r].to = w
      BY <2>7 DEF Request
    <3>2. p \in Payments /\ Delivered(req[r].type, p)
      BY <1>0 DEF p
    <3>3. UNCHANGED <<row, order, charge, event>>
      BY DEF Lookup
    <3>4. /\ Truth(req[r].seen, req[r].pay)' /\ Truth(req[r].to, req[r].pay)'
          /\ Delivered(req[r].type, req[r].pay)'
      BY <2>2, <2>5, <3>1, <3>2, <3>3
      DEF Truth, Paid, Left, Failed, FailureDelivered, Delivered
    <3> QED
      BY <1>0, <1>2, <2>5, <3>1, <3>2, <3>3, <3>4 DEF Held, At, NeedsPayment, Labels, p
  <2> QED
    BY <1>0, <1>2, <2>6, <2>8, RequestTypes, QuietStep DEF Lookup, TypeOK, Become, w
<1> QED
  BY <1>1, <1>2 DEF Lookup

\* handleWebhook's terminateOrder ends only an order that nobody has paid, so an
\* ended order stays an unpaid one.
LEMMA TerminateKeeps ==
    ASSUME IInv, NEW r \in Requests, TerminateOrder(r)
    PROVE  IInv'
<1>0. TypeOK /\ Held(r) /\ World /\ req[r].pc = "terminate" /\ req[r].pay \in Payments
        /\ Delivered("PAYMENT_USER_DROPPED", req[r].pay) /\ req[r].to \in Statuses
  BY DEF IInv, TerminateOrder, Held, At, NeedsPayment, Labels
<1>1. /\ Goto(r, "apply") /\ UNCHANGED <<row, charge, session, event, notes, open>>
      /\ \/ order' = order
         \/ /\ order[req[r].pay] = "ACTIVE" /\ charge[req[r].pay] = "none"
            /\ \E o \in Terminating : order' = [order EXCEPT ![req[r].pay] = o]
  BY DEF TerminateOrder
<1>2. TypeOK' /\ Provider'
  BY <1>0, <1>1, RequestTypes
  DEF TypeOK, World, Provider, Delivered, Labels, Orders, Terminating
<1>3. Advance /\ \A p \in Payments : order[p] = "none" => order'[p] = "none"
  BY <1>0, <1>1 DEF Advance, TypeOK, Terminating, Delivered
<1>4. World'
  BY <1>0, <1>1, <1>2, <1>3, WorldStays
<1>5. /\ \A q \in Requests \ {r} : req'[q] = req[q]
      /\ Held(r)' /\ ~At(r, "createOrder")'
  BY <1>0, <1>1, <1>3, GotoHeld DEF NeedsPayment, Labels
<1> QED
  BY <1>2, <1>3, <1>4, <1>5, StepKeeps

\* handleWebhook's processed_at changes the ledger only.
LEMMA FinishKeeps ==
    ASSUME IInv, NEW r \in Requests, Finish(r)
    PROVE  IInv'
<1>0. /\ TypeOK /\ Held(r) /\ World /\ req[r].pc = "finish" /\ req[r].pay \in Payments
      /\ req[r].op = "webhook" /\ req[r].type \in EventTypes
      /\ req[r].type = "PAYMENT_SUCCESS" => charge[req[r].pay] # "none"
  BY DEF IInv, Finish, Held, At, NeedsPayment, Labels
<1>1. /\ Done(r) /\ UNCHANGED <<row, order, charge, session, notes, open>>
      /\ event' = [event EXCEPT ![EventOf(r)] = "processed"]
  BY DEF Finish
<1>2. EventOf(r) \in Events
  BY <1>0 DEF EventOf, Events
<1>3. TypeOK' /\ Advance
  <2>1. "processed" \in EventStates
    BY DEF EventStates
  <2> QED
    BY <1>0, <1>1, <1>2, <2>1, RequestTypes, EventMoves DEF TypeOK, Advance
<1>4. Provider'
  BY <1>0, <1>1, <1>2, <1>3
  DEF TypeOK, World, Provider, Advance, EventOf, EventTypes, Failures
<1>5. World'
  BY <1>0, <1>1, <1>3, <1>4, WorldStays
<1>6. \A q \in Requests \ {r} : req'[q] = req[q]
  BY <1>0, <1>1 DEF TypeOK, Done, Become
<1>7. Held(r)' /\ ~At(r, "createOrder")'
  BY <1>0, <1>1, IdleHeld DEF TypeOK, Done, Become
<1> QED
  BY <1>1, <1>3, <1>5, <1>6, <1>7, StepKeeps

-----------------------------------------------------------------------------
(* The steps of the payer, the provider, the booking and the ledger.        *)

\* A step outside every request, which creates no order.
LEMMA OutsideStep ==
    ASSUME IInv, UNCHANGED <<row, notes, req>>, TypeOK', Provider', Advance,
           \A p \in Payments : order[p] = "none" <=> order'[p] = "none"
    PROVE  IInv'
<1>1. \A q \in Requests : Held(q)'
  BY OthersHeld DEF IInv
<1>2. Owners'
  BY DEF IInv, Owners, At, Held, NeedsPayment, Labels
<1>3. World'
  BY WorldStays
<1> QED
  BY <1>1, <1>2, <1>3 DEF IInv

\* What happens outside the service, payers, the provider and the booking
\* closing, never undoes a charge or revives a terminated order.
LEMMA OutsideKeeps ==
    ASSUME IInv,
           \/ \E e \in Events : Redeliver(e)
           \/ \E p \in Payments :
                \/ PayerPays(p) \/ PayerFails(p)
                \/ OrderPaid(p) \/ OrderExpires(p) \/ OrderTerminates(p)
           \/ BookingCloses
    PROVE  IInv'
<1>0. TypeOK /\ Provider
  BY DEF IInv, World
<1>1. ASSUME NEW e \in Events, Redeliver(e)
      PROVE  IInv'
  <2>1. TypeOK' /\ Advance
    <3>1. "acknowledged" \in EventStates
      BY DEF EventStates
    <3> QED
      BY <1>0, <1>1, <3>1, EventMoves DEF Redeliver, TypeOK, Advance
  <2>2. Provider'
    BY <1>0, <1>1, <2>1
    DEF Redeliver, TypeOK, Provider, Advance, EventTypes, Failures
  <2> QED
    BY <1>1, <2>1, <2>2, OutsideStep DEF Redeliver
<1>2. ASSUME NEW p \in Payments, PayerPays(p)
      PROVE  IInv'
  <2> DEFINE e == [type |-> "PAYMENT_SUCCESS", pay |-> p]
  <2>1. PICK c \in Charges : charge' = [charge EXCEPT ![p] = c]
    BY <1>2 DEF PayerPays
  <2>2. c \in {"exact", "other"}
    BY <2>1, ChargesAssumption
  <2>3. e \in Events /\ event[e] = "unsent" /\ "sent" \in EventStates
    BY <1>0, <1>2 DEF Events, EventTypes, EventStates, PayerPays, Provider
  <2>4. TypeOK' /\ Advance
    BY <1>0, <1>2, <2>1, <2>2, <2>3, EventMoves DEF PayerPays, Send, TypeOK, Advance
  <2>5. Provider'
    <3>1. order[p] \notin {"none", "EXPIRED", "TERMINATED"}
      BY <1>2 DEF PayerPays, Payable
    <3>2. \A q \in Payments : order[q] \in Terminating => Delivered("PAYMENT_USER_DROPPED", q)'
      BY <1>0, <2>4 DEF Provider, Advance, EventTypes, Failures
    <3>3. \A f \in Events : event'[f] # "unsent" => event[f] # "unsent" \/ f = e
      BY <1>0, <1>2, <2>3 DEF PayerPays, Send, TypeOK
    <3> QED
      BY <1>0, <1>2, <2>1, <2>2, <3>1, <3>2, <3>3
      DEF PayerPays, Payable, TypeOK, Provider, Events
  <2> QED
    BY <1>2, <2>4, <2>5, OutsideStep DEF PayerPays
<1>3. ASSUME NEW p \in Payments, PayerFails(p)
      PROVE  IInv'
  <2>1. PICK t \in Failures : Send([type |-> t, pay |-> p])
    BY <1>3 DEF PayerFails
  <2> DEFINE e == [type |-> t, pay |-> p]
  <2>2. e \in Events /\ t # "PAYMENT_SUCCESS" /\ event[e] = "unsent" /\ "sent" \in EventStates
    BY <1>3 DEF Events, EventTypes, Failures, PayerFails, EventStates
  <2>3. TypeOK' /\ Advance
    BY <1>0, <1>3, <2>1, <2>2, EventMoves DEF PayerFails, Send, TypeOK, Advance
  <2>4. Provider'
    <3>1. \A q \in Payments : order[q] \in Terminating => Delivered("PAYMENT_USER_DROPPED", q)'
      BY <1>0, <2>3 DEF Provider, Advance, EventTypes, Failures
    <3>2. \A f \in Events : event'[f] # "unsent" => event[f] # "unsent" \/ f = e
      BY <1>0, <2>1, <2>2 DEF Send, TypeOK
    <3> QED
      BY <1>0, <1>3, <2>2, <3>1, <3>2 DEF PayerFails, Provider
  <2> QED
    BY <1>3, <2>3, <2>4, OutsideStep DEF PayerFails
<1>4. ASSUME NEW p \in Payments, OrderPaid(p) \/ OrderExpires(p) \/ OrderTerminates(p)
      PROVE  IInv'
  <2>1. /\ UNCHANGED <<row, charge, session, event, notes, open, req>>
        /\ \E o \in {"PAID", "EXPIRED", "TERMINATED"} : order' = [order EXCEPT ![p] = o]
        /\ order[p] \in Payable
    BY <1>4 DEF OrderPaid, OrderExpires, OrderTerminates, Payable
  <2>2. TypeOK' /\ \A q \in Payments : order[q] = "none" <=> order'[q] = "none"
    BY <1>0, <2>1 DEF TypeOK, Orders, Payable
  <2>3. Provider' /\ Advance
    BY <1>0, <1>4
    DEF OrderPaid, OrderExpires, OrderTerminates, TypeOK, Provider, Advance, Delivered, Terminating,
        Payable
  <2> QED
    BY <2>1, <2>2, <2>3, OutsideStep
<1>5. CASE BookingCloses
  BY <1>0, <1>5, OutsideStep DEF BookingCloses, TypeOK, Provider, Advance, Delivered
<1> QED
  BY <1>1, <1>2, <1>3, <1>4, <1>5

-----------------------------------------------------------------------------
(* The inductive invariant and what follows from it.                        *)

\* The empty tables satisfy the invariant.
LEMMA InitIInv == Init => IInv
<1> SUFFICES ASSUME Init PROVE IInv
  OBVIOUS
<1>1. Idle \in RequestStates
  BY DEF Idle, Request, RequestStates, Labels
<1>2. TypeOK
  BY <1>1 DEF Init, TypeOK, EventStates, Orders
<1>3. World
  BY DEF Init, World, Truth, OrderHasRow, NotesAreTrue, Provider, Terminating
<1>4. \A r \in Requests : Held(r) /\ ~At(r, "createOrder")
  BY DEF Init, Held, At, Idle, Request, NeedsPayment, Labels
<1> QED
  BY <1>2, <1>3, <1>4 DEF IInv, Owners

\* Every step of the service and of its surroundings keeps the invariant.
LEMMA NextIInv == IInv /\ [Next]_vars => IInv'
<1> SUFFICES ASSUME IInv, [Next]_vars PROVE IInv'
  OBVIOUS
<1>1. ASSUME NEW r \in Requests,
             \/ CreateBegin(r) \/ Step(r) \/ Abort(r)
             \/ \E p \in Payments : VerifyBegin(r, p)
             \/ \E e \in Events : Deliver(r, e)
      PROVE  IInv'
  BY <1>1, CreateReads, InsertKeeps, CreateOrderKeeps, CreateWrites, VerifyReads, FetchKeeps,
     DiesKeeps, ApplyKeeps, NotifyKeeps, DeliverKeeps, LookupKeeps, TerminateKeeps, FinishKeeps
  DEF Step
<1>2. CASE UNCHANGED vars
  BY <1>2
  DEF vars, IInv, TypeOK, World, Truth, Paid, Left, Failed, FailureDelivered, Delivered,
      OrderHasRow, NotesAreTrue, Provider, Held, At, Owners
<1> QED
  BY <1>1, <1>2, OutsideKeeps DEF Next

\* So it holds of every state of every execution, for any number of attempts and
\* concurrent requests of module Payments.
THEOREM Inductive == Spec => []IInv
  BY InitIInv, NextIInv, PTL DEF Spec

\* Every variable keeps its shape.
THEOREM TypeCorrect == Spec => []TypeOK
<1>1. IInv => TypeOK
  BY DEF IInv
<1> QED
  BY <1>1, Inductive, PTL

\* However webhooks, verifies and resumes interleave, and whichever of them die,
\* no row reads success without the payer's money, and no booker is told so.
THEOREM SuccessReal == Spec => []SuccessIsReal
<1>1. IInv => SuccessIsReal
  BY DEF IInv, World, Truth, Paid, SuccessIsReal, SettledIsCharged
<1> QED
  BY <1>1, Inductive, PTL

\* An attempt that reads cancelled is one whose payer left and whose order was to
\* be terminated, and the provider never holds an order the database has not
\* heard of.
THEOREM OrdersKnown == Spec => []OrdersAreKnown
<1>1. IInv => OrdersAreKnown
  BY DEF IInv, World, Truth, Left, OrdersAreKnown, CancelledWasLeft
<1> QED
  BY <1>1, Inductive, PTL

-----------------------------------------------------------------------------
(* Why the guard on terminal statuses fails to stale reads only: a checkout *)
(* or a verify goes on from a row it read open, and whoever read an end     *)
(* writes that end again (Firm).                                            *)

Firm(r) ==
    /\ req[r].pc \in {"fetch", "resume"} => req[r].seen \in InFlight
    /\ req[r].pc \in {"apply", "terminate"} /\ req[r].seen \in Terminal => req[r].to = req[r].seen

\* A request is changed by its own steps only.
LEMMA OnlyItsOwn ==
    ASSUME IInv, [Next]_vars, NEW r \in Requests, req'[r] # req[r]
    PROVE  \/ CreateBegin(r) \/ Step(r) \/ Abort(r)
           \/ \E p \in Payments : VerifyBegin(r, p)
           \/ \E e \in Events : Deliver(r, e)
<1>1. ASSUME NEW q \in Requests,
             \/ CreateBegin(q) \/ Step(q) \/ Abort(q)
             \/ \E p \in Payments : VerifyBegin(q, p)
             \/ \E e \in Events : Deliver(q, e)
      PROVE  \E c : req' = [req EXCEPT ![q] = c]
  BY <1>1 DEF Step, CreateBegin, VerifyBegin, Deliver, Abort, FindInFlight, FindSettled, Insert,
     CreateOrder, RecordOrder, RecordFailure, Resume, Fetch, FetchFails, Apply, AfterApply, Notify,
     Lookup, TerminateOrder, Finish, Done, Goto, Become
<1>2. \E q \in Requests :
        \/ CreateBegin(q) \/ Step(q) \/ Abort(q)
        \/ \E p \in Payments : VerifyBegin(q, p)
        \/ \E e \in Events : Deliver(q, e)
  BY DEF Next, Redeliver, PayerPays, PayerFails, OrderPaid, OrderExpires, OrderTerminates, BookingCloses, vars
<1> QED
  BY <1>1, <1>2 DEF IInv, TypeOK

\* A request that takes a step stays firm, or becomes so.
LEMMA StepFirm ==
    ASSUME IInv, NEW r \in Requests, Firm(r),
           \/ CreateBegin(r) \/ Step(r) \/ Abort(r)
           \/ \E p \in Payments : VerifyBegin(r, p)
           \/ \E e \in Events : Deliver(r, e)
    PROVE  Firm(r)'
<1>0. req \in [Requests -> RequestStates]
  BY DEF IInv, TypeOK
<1>1. ASSUME NEW c \in RequestStates, Become(r, c),
             c.pc \in {"fetch", "resume"} => c.seen \in InFlight,
             c.pc \in {"apply", "terminate"} /\ c.seen \in Terminal => c.to = c.seen
      PROVE  Firm(r)'
  BY <1>0, <1>1 DEF Become, Firm
<1>2. ASSUME NEW l \in Labels \ {"fetch", "terminate"}, Goto(r, l),
             l = "resume" => req[r].pc = "fetch",
             l = "apply" => req[r].pc = "terminate"
      PROVE  Firm(r)'
  BY <1>0, <1>2 DEF Goto, Firm, RequestStates
<1>3. Done(r) => Firm(r)'
  BY <1>0 DEF Done, Become, Firm, Idle, Request
<1>4. \A l \in {"findInFlight", "findSettled", "insert"} : Become(r, Creating(l)) => Firm(r)'
  BY <1>0 DEF Become, Creating, Firm, Request
<1>5. ASSUME NEW op, NEW p \in Payments, row[p] \in InFlight,
             Become(r, Request(op, "fetch", p, "none", row[p], "absent"))
      PROVE  Firm(r)'
  BY <1>0, <1>5 DEF Become, Firm, Request
<1>6. CASE CreateBegin(r) \/ FindInFlight(r) \/ FindSettled(r) \/ \E p \in Payments : VerifyBegin(r, p)
  BY <1>2, <1>3, <1>4, <1>5, <1>6 DEF CreateBegin, FindInFlight, FindSettled, VerifyBegin, Labels
<1>7. CASE Insert(r) \/ \E e \in Events : Deliver(r, e)
  BY <1>0, <1>3, <1>7 DEF Insert, Deliver, Become, Firm, Request
<1>8. CASE CreateOrder(r)
  BY <1>2, <1>8 DEF CreateOrder, Labels
<1>9. CASE RecordOrder(r) \/ RecordFailure(r) \/ Resume(r) \/ FetchFails(r) \/ Finish(r) \/ Abort(r)
  BY <1>3, <1>9 DEF RecordOrder, RecordFailure, Resume, FetchFails, Finish, Abort
<1>10. ASSUME NEW op, NEW l \in {"apply", "terminate"}, NEW p, NEW t, NEW seen, NEW s, NEW a,
              Become(r, Request(op, l, p, t, seen, Resolve(seen, s, a)))
       PROVE  Firm(r)'
  BY <1>0, <1>10 DEF Become, Firm, Request, Resolve
<1>11. CASE Fetch(r)
  BY <1>2, <1>10, <1>11 DEF Fetch, At, Labels
<1>12. CASE Lookup(r)
  BY <1>2, <1>10, <1>12 DEF Lookup, Labels
<1>13. CASE TerminateOrder(r)
  BY <1>2, <1>13 DEF TerminateOrder, At, Labels
<1>14. AfterApply(r) => Firm(r)'
  BY <1>2, <1>3, <1>4 DEF AfterApply, Labels
<1>15. CASE Apply(r) \/ Notify(r)
  BY <1>2, <1>3, <1>14, <1>15 DEF Apply, Notify, Labels
<1> QED
  BY <1>6, <1>7, <1>8, <1>9, <1>11, <1>12, <1>13, <1>15 DEF Step

\* Every request is firm, always.
Decided == \A r \in Requests : Firm(r)

LEMMA DecidedInductive == Spec => [](IInv /\ Decided)
<1>1. Init => Decided
  BY DEF Init, Decided, Firm, Idle, Request
<1>2. IInv /\ Decided /\ [Next]_vars => Decided'
  <2> SUFFICES ASSUME IInv, Decided, [Next]_vars, NEW r \in Requests
               PROVE  Firm(r)'
    BY DEF Decided
  <2>1. CASE req'[r] = req[r]
    BY <2>1 DEF Decided, Firm
  <2>2. CASE req'[r] # req[r]
    BY <2>2, OnlyItsOwn, StepFirm DEF Decided
  <2> QED
    BY <2>1, <2>2
<1> QED
  BY <1>1, <1>2, InitIInv, NextIInv, PTL DEF Spec

\* A row that has ended is written by those who are stale about it only, or with
\* what it already reads.
LEMMA EndIsKept ==
    ASSUME IInv, Decided, [Next]_vars, NEW p \in Payments, row[p] \in Terminal, ~Stale(p)
    PROVE  row'[p] = row[p]
<1>0. row \in [Payments -> Statuses \cup {"absent"}] /\ row[p] \notin InFlight \cup {"absent"}
  BY DEF IInv, TypeOK, Terminal, Settled, InFlight
<1>1. ASSUME NEW r \in Requests, Insert(r) PROVE row'[p] = row[p]
  BY <1>0, <1>1 DEF Insert
<1>2. ASSUME NEW r \in Requests, RecordOrder(r) \/ RecordFailure(r) \/ Resume(r)
      PROVE  row'[p] = row[p]
  BY <1>0, <1>2 DEF RecordOrder, RecordFailure, Resume, At, Stale, Decided, Firm
<1>3. ASSUME NEW r \in Requests, Apply(r) PROVE row'[p] = row[p]
  BY <1>0, <1>3 DEF Apply, At, Stale, Decided, Firm
<1>4. ASSUME NEW r \in Requests, Step(r) PROVE row'[p] = row[p]
  BY <1>1, <1>2, <1>3, <1>4 DEF Step, FindInFlight, FindSettled, CreateOrder, Fetch, FetchFails,
     Notify, Lookup, TerminateOrder, Finish
<1> QED
  BY <1>4 DEF Next, CreateBegin, VerifyBegin, Deliver, Abort, Redeliver, PayerPays, PayerFails,
     OrderPaid, OrderExpires, OrderTerminates, BookingCloses, vars

\* What it takes to be stale about p, of one request.
StaleAbout(c, p) ==
    /\ c.pay = p
    /\ \/ c.pc \in {"createOrder", "recordOrder", "recordFailure"}
       \/ c.pc \in {"fetch", "resume", "terminate", "apply"} /\ c.seen # row[p]

\* No step of a request makes it stale about a row that has ended: it reads the
\* end, or it has read it already.
LEMMA NobodyTurnsStale ==
    ASSUME IInv, Decided, NEW r \in Requests, NEW p \in Payments,
           row[p] \in Terminal, ~StaleAbout(req[r], p),
           \/ CreateBegin(r) \/ Step(r) \/ Abort(r)
           \/ \E q \in Payments : VerifyBegin(r, q)
           \/ \E e \in Events : Deliver(r, e)
    PROVE  ~StaleAbout(req'[r], p)
<1>0. req \in [Requests -> RequestStates] /\ row[p] \notin InFlight \cup {"absent"}
      /\ Firm(r) /\ NoPayment # p
  BY NoPaymentAssumption DEF IInv, TypeOK, Terminal, Settled, InFlight, Decided
<1>1. ASSUME NEW c, Become(r, c), c.pay # p
      PROVE  ~StaleAbout(req'[r], p)
  BY <1>0, <1>1 DEF Become, StaleAbout
<1>2. ASSUME NEW l \in {"findSettled", "finish", "notify"}, Goto(r, l)
      PROVE  ~StaleAbout(req'[r], p)
  BY <1>0, <1>2 DEF Goto, StaleAbout, RequestStates
<1>3. Done(r) => ~StaleAbout(req'[r], p)
  BY <1>0, <1>1 DEF Done, Idle, Request
<1>4. \A l : Become(r, Creating(l)) => ~StaleAbout(req'[r], p)
  BY <1>0, <1>1 DEF Creating, Request
<1>5. CASE CreateBegin(r) \/ FindInFlight(r) \/ FindSettled(r) \/ \E q \in Payments : VerifyBegin(r, q)
  <2>1. ASSUME NEW op, NEW q \in Payments, row[q] \in InFlight,
               Become(r, Request(op, "fetch", q, "none", row[q], "absent"))
        PROVE  ~StaleAbout(req'[r], p)
    BY <1>0, <1>1, <2>1 DEF Request
  <2> QED
    BY <1>2, <1>3, <1>4, <1>5, <2>1 DEF CreateBegin, FindInFlight, FindSettled, VerifyBegin
<1>6. CASE Insert(r)
  <2>1. ASSUME NEW q \in Payments, row[q] = "absent",
               Become(r, Request("create", "createOrder", q, "none", "absent", "absent"))
        PROVE  ~StaleAbout(req'[r], p)
    BY <1>0, <1>1, <2>1 DEF Request
  <2> QED
    BY <1>3, <1>6, <2>1 DEF Insert
<1>7. CASE \E e \in Events : Deliver(r, e)
  BY <1>0, <1>7 DEF Deliver, Become, Request, StaleAbout
<1>8. CASE CreateOrder(r)
  BY <1>0, <1>8 DEF CreateOrder, Goto, At, StaleAbout, RequestStates
<1>9. CASE RecordOrder(r) \/ RecordFailure(r) \/ Resume(r) \/ FetchFails(r) \/ Finish(r) \/ Abort(r)
  BY <1>3, <1>9 DEF RecordOrder, RecordFailure, Resume, FetchFails, Finish, Abort
<1>10. CASE Fetch(r)
  <2>1. req[r].pay # p
    BY <1>0, <1>10 DEF Fetch, At, Firm, StaleAbout
  <2>2. Goto(r, "resume") => ~StaleAbout(req'[r], p)
    BY <1>0, <2>1 DEF Goto, StaleAbout, RequestStates
  <2>3. ASSUME NEW w, Become(r, Request(req[r].op, "apply", req[r].pay, "none", req[r].seen, w))
        PROVE  ~StaleAbout(req'[r], p)
    BY <1>1, <2>1, <2>3 DEF Request
  <2> QED
    BY <1>10, <2>2, <2>3 DEF Fetch
<1>11. CASE Lookup(r)
  <2>1. ASSUME NEW l, NEW w,
               Become(r, Request("webhook", l, req[r].pay, req[r].type, row[req[r].pay], w)),
               l \in {"terminate", "apply"}
        PROVE  ~StaleAbout(req'[r], p)
    BY <1>0, <2>1 DEF Become, Request, StaleAbout
  <2> QED
    BY <1>2, <1>11, <2>1 DEF Lookup
<1>12. CASE TerminateOrder(r)
  BY <1>0, <1>12 DEF TerminateOrder, Goto, At, StaleAbout, RequestStates
<1>13. AfterApply(r) => ~StaleAbout(req'[r], p)
  BY <1>2, <1>3, <1>4 DEF AfterApply
<1>14. CASE Apply(r) \/ Notify(r)
  BY <1>2, <1>3, <1>13, <1>14 DEF Apply, Notify
<1> QED
  BY <1>5, <1>6, <1>7, <1>8, <1>9, <1>10, <1>11, <1>12, <1>14 DEF Step

\* An attempt that ended while nobody was stale about it keeps its end.
THEOREM EndsKept == Spec => EndsStay
<1>1. IInv /\ Decided /\ [Next]_vars =>
        \A p \in Payments : row[p] \in Terminal /\ ~Stale(p) => row'[p] = row[p] /\ ~Stale(p)'
  <2> SUFFICES ASSUME IInv, Decided, [Next]_vars, NEW p \in Payments,
                      row[p] \in Terminal, ~Stale(p)
               PROVE  row'[p] = row[p] /\ ~Stale(p)'
    OBVIOUS
  <2>1. row'[p] = row[p]
    BY EndIsKept
  <2>2. ASSUME NEW r \in Requests PROVE ~StaleAbout(req'[r], p)
    <3>1. ~StaleAbout(req[r], p)
      BY DEF Stale, StaleAbout
    <3>2. CASE req'[r] = req[r]
      BY <3>1, <3>2
    <3>3. CASE req'[r] # req[r]
      BY <3>1, <3>3, OnlyItsOwn, NobodyTurnsStale
    <3> QED
      BY <3>2, <3>3
  <2>3. ~Stale(p)'
    BY <2>1, <2>2 DEF Stale, StaleAbout
  <2> QED
    BY <2>1, <2>3
<1> QED
  BY <1>1, DecidedInductive, PTL DEF Spec, EndsStay

-----------------------------------------------------------------------------
(* One request at a time: what a request has read is still so when it       *)
(* writes, and then the service implements Lifecycle.                       *)

OneRequest == \A r, q \in Requests : r = q

Busy == InFlight \cup Settled

\* What the request at work knows of the rows.
Current(r) ==
    LET c == req[r] IN
    /\ c.pc \in {"createOrder", "recordOrder", "recordFailure"} => row[c.pay] = "created"
    /\ c.pc \in {"fetch", "resume"} => row[c.pay] = c.seen /\ c.seen \in InFlight
    /\ c.pc \in {"apply", "terminate"} =>
         /\ row[c.pay] = c.seen /\ c.seen # "absent"
         /\ c.seen \in Terminal => c.to = c.seen
         /\ c.op = "create" => c.seen \in InFlight /\ c.to \in Terminal
    /\ c.pc = "notify" => row[c.pay] = c.to
    /\ c.pc = "findSettled" \/ (c.pc = "notify" /\ c.op = "create") =>
         \A q \in Payments : row[q] \notin InFlight
    /\ c.pc = "insert" => \A q \in Payments : row[q] \notin Busy

\* One attempt is open or paid, and a notice says how its attempt ended.
Orderly ==
    /\ \A p, q \in Payments : row[p] \in Busy /\ row[q] \in Busy => p = q
    /\ \A n \in notes : row[n.pay] = n.kind

Serial == (\A r \in Requests : Current(r)) /\ Orderly

\* A row opens where no other is open or paid, and ends once.
RowMoves ==
    \/ row' = row
    \/ /\ charge' = charge
       /\ \E p \in Payments, s \in Statuses :
            /\ row' = [row EXCEPT ![p] = s]
            /\ \/ /\ row[p] = "absent" /\ s = "created"
                  /\ \A q \in Payments : row[q] \notin Busy
               \/ row[p] \in InFlight /\ (s = "success" => charge[p] # "none")

\* No row moves but those of the request at work, each as it should.
LEMMA StepMovesRows ==
    ASSUME IInv, Serial, NEW r \in Requests, Step(r)
    PROVE  RowMoves
<1>1. CASE Insert(r)
  BY <1>1 DEF Insert, RowMoves, Serial, Current, At, Statuses, InFlight
<1>2. CASE RecordOrder(r) \/ RecordFailure(r) \/ Resume(r)
  <2>1. /\ req[r].pay \in Payments /\ row[req[r].pay] \in InFlight
        /\ row' = row \/ \E s \in {"pending", "failed"} : row' = [row EXCEPT ![req[r].pay] = s]
        /\ charge' = charge
    BY <1>2 DEF RecordOrder, RecordFailure, Resume, MapOrderStatus, Terminating, IInv, Held, At,
                NeedsPayment, Labels, Serial, Current, InFlight
  <2>2. {"pending", "failed"} \subseteq Statuses \ {"success"}
    BY DEF Statuses, InFlight
  <2> QED
    BY <2>1, <2>2 DEF RowMoves
<1>3. CASE Apply(r)
  <2> DEFINE p == req[r].pay
             s == req[r].to
  <2>1. /\ p \in Payments /\ s \in Statuses /\ Truth(s, p) /\ charge' = charge
        /\ row' = row \/ row' = [row EXCEPT ![p] = s]
        /\ row[p] = req[r].seen /\ row[p] # "absent" /\ (row[p] \in Terminal => s = row[p])
    BY <1>3 DEF Apply, IInv, Held, At, NeedsPayment, Labels, Serial, Current
  <2>2. row[p] \in InFlight \cup Terminal
    BY <2>1 DEF IInv, TypeOK, Statuses, InFlight, Terminal, Settled
  <2>3. CASE row[p] \in Terminal
    <3>1. row' = row
      BY <2>1, <2>3 DEF IInv, TypeOK
    <3> QED
      BY <3>1 DEF RowMoves
  <2>4. CASE row[p] \in InFlight
    BY <2>1, <2>4 DEF RowMoves, Truth, Paid
  <2> QED
    BY <2>2, <2>3, <2>4
<1>4. CASE ~(Insert(r) \/ RecordOrder(r) \/ RecordFailure(r) \/ Resume(r) \/ Apply(r))
  BY <1>4 DEF Step, RowMoves, FindInFlight, FindSettled, CreateOrder, Fetch, FetchFails,
              Notify, Lookup, TerminateOrder, Finish
<1> QED
  BY <1>1, <1>2, <1>3, <1>4

\* Outside requests no row moves.
LEMMA RowsMove ==
    ASSUME IInv, Serial, [Next]_vars
    PROVE  RowMoves
BY StepMovesRows DEF Next, RowMoves, CreateBegin, VerifyBegin, Deliver, Abort, Redeliver,
   PayerPays, PayerFails, OrderPaid, OrderExpires, OrderTerminates, BookingCloses, vars

\* What is orderly stays so.
LEMMA StaysOrderly ==
    ASSUME IInv, Serial, [Next]_vars
    PROVE  Orderly'
<1>1. ASSUME NEW p \in Payments, NEW q \in Payments, row'[p] \in Busy, row'[q] \in Busy
      PROVE  p = q
  BY <1>1, RowsMove DEF RowMoves, Serial, Orderly, IInv, TypeOK, Busy
<1>2. ASSUME NEW n \in notes PROVE row'[n.pay] = n.kind
  <2>1. n.pay \in Payments /\ n.kind \in {"success", "failed"} /\ row[n.pay] = n.kind
    BY DEF IInv, TypeOK, Notes, Serial, Orderly
  <2> QED
    BY <2>1, RowsMove DEF RowMoves, IInv, TypeOK, InFlight
<1>3. ASSUME NEW n \in notes', n \notin notes PROVE row'[n.pay] = n.kind
  <2>1. PICK r \in Requests : Notify(r)
    BY <1>3 DEF Next, Step, CreateBegin, VerifyBegin, Deliver, Abort, Redeliver,
       PayerPays, PayerFails, OrderPaid, OrderExpires, OrderTerminates, BookingCloses, vars,
       FindInFlight, FindSettled, Insert, CreateOrder, RecordOrder, RecordFailure, Resume,
       Fetch, FetchFails, Apply, Lookup, TerminateOrder, Finish
  <2>2. row' = row /\ n = [kind |-> req[r].to, pay |-> req[r].pay] /\ Current(r)
    BY <1>3, <2>1 DEF Notify, Serial
  <2> QED
    BY <2>1, <2>2 DEF Current, Notify, At
<1>4. \A n \in notes' : row'[n.pay] = n.kind
  BY <1>2, <1>3
<1> QED
  BY <1>1, <1>4 DEF Orderly, Busy

-----------------------------------------------------------------------------
(* What the one request knows, action by action.                            *)

\* A request that is at rest knows nothing.
LEMMA AtRest ==
    ASSUME IInv, NEW r \in Requests, Done(r)
    PROVE  Current(r)'
<1>1. req'[r] = Idle
  BY DEF Done, Become, IInv, TypeOK
<1> QED
  BY <1>1 DEF Current, Idle, Request

\* One that begins a creation over knows what it has just read.
LEMMA CreatingCurrent ==
    ASSUME IInv, NEW r \in Requests, NEW l \in {"findInFlight", "findSettled", "insert"},
           Become(r, Creating(l)),
           l = "findSettled" => \A q \in Payments : row'[q] \notin InFlight,
           l = "insert" => \A q \in Payments : row'[q] \notin Busy
    PROVE  Current(r)'
<1>1. req'[r] = Creating(l)
  BY DEF Become, IInv, TypeOK
<1>2. req'[r].pc = l
  BY <1>1 DEF Creating, Request
<1> QED
  BY <1>2 DEF Current, Busy

\* createPayment and verifyPayment up to their answer from the provider.
LEMMA ReadsCurrent ==
    ASSUME IInv, Serial, NEW r \in Requests,
           \/ CreateBegin(r) \/ FindInFlight(r) \/ FindSettled(r) \/ Insert(r)
           \/ \E p \in Payments : VerifyBegin(r, p)
    PROVE  Current(r)'
<1>1. CASE CreateBegin(r)
  BY <1>1, CreatingCurrent DEF CreateBegin
<1>2. ASSUME NEW op \in {"create", "verify"}, NEW p \in Payments, row[p] \in InFlight, row' = row,
             Become(r, Request(op, "fetch", p, "none", row[p], "absent"))
      PROVE  Current(r)'
  <2>1. req'[r] = Request(op, "fetch", p, "none", row[p], "absent")
    BY <1>2 DEF Become, IInv, TypeOK
  <2> QED
    BY <1>2, <2>1 DEF Current, Request
<1>3. CASE FindInFlight(r)
  <2>1. ASSUME \A p \in Payments : row[p] \notin InFlight, Goto(r, "findSettled")
        PROVE  Current(r)'
    <3>1. req'[r].pc = "findSettled" /\ row' = row
      BY <1>3, <2>1 DEF FindInFlight, Goto, IInv, TypeOK, RequestStates
    <3> QED
      BY <2>1, <3>1 DEF Current
  <2> QED
    BY <1>2, <1>3, <2>1 DEF FindInFlight
<1>4. CASE FindSettled(r)
  <2>1. row' = row /\ \A q \in Payments : row[q] \notin InFlight
    BY <1>4 DEF FindSettled, At, Serial, Current
  <2> QED
    BY <1>4, <2>1, AtRest, CreatingCurrent DEF FindSettled, Busy
<1>5. CASE Insert(r)
  <2>1. ASSUME NEW p \in Payments, row' = [row EXCEPT ![p] = "created"],
               Become(r, Request("create", "createOrder", p, "none", "absent", "absent"))
        PROVE  Current(r)'
    <3>1. req'[r] = Request("create", "createOrder", p, "none", "absent", "absent")
          /\ row'[p] = "created"
      BY <2>1 DEF Become, IInv, TypeOK
    <3> QED
      BY <3>1 DEF Current, Request
  <2> QED
    BY <1>5, <2>1, AtRest DEF Insert
<1>6. ASSUME NEW p \in Payments, VerifyBegin(r, p) PROVE Current(r)'
  BY <1>2, <1>6 DEF VerifyBegin
<1> QED
  BY <1>1, <1>3, <1>4, <1>5, <1>6

\* The calls of the provider.
LEMMA CallsCurrent ==
    ASSUME IInv, Serial, NEW r \in Requests, CreateOrder(r) \/ Fetch(r) \/ TerminateOrder(r)
    PROVE  Current(r)'
<1> DEFINE c == req[r]
<1>1. c \in RequestStates /\ c.pay \in Payments /\ row' = row /\ Current(r)
  BY DEF IInv, TypeOK, Held, NeedsPayment, Labels, CreateOrder, Fetch, TerminateOrder, At, Serial
<1>2. ASSUME NEW l \in {"recordOrder", "recordFailure", "resume", "apply"}, Goto(r, l)
      PROVE  /\ req'[r].pc = l /\ req'[r].pay = c.pay /\ req'[r].seen = c.seen
             /\ req'[r].to = c.to /\ req'[r].op = c.op
  BY <1>1, <1>2 DEF Goto, IInv, TypeOK, RequestStates
<1>3. CASE CreateOrder(r)
  BY <1>1, <1>2, <1>3 DEF CreateOrder, At, Current
<1>4. CASE TerminateOrder(r)
  BY <1>1, <1>2, <1>4 DEF TerminateOrder, At, Current
<1>5. CASE Fetch(r) /\ Goto(r, "resume")
  BY <1>1, <1>2, <1>5 DEF Fetch, At, Current
<1>6. ASSUME Fetch(r), NEW s \in FetchOutcomes(c.pay), ~(c.op = "create" /\ s = "pending"),
             Become(r, Request(c.op, "apply", c.pay, "none", c.seen,
                               Resolve(c.seen, s, "exact")))
      PROVE  Current(r)'
  <2> DEFINE to == Resolve(c.seen, s, "exact")
  <2>1. c.seen \in InFlight /\ row[c.pay] = c.seen
    BY <1>1, <1>6 DEF Fetch, At, Current
  <2>2. s \in {"success", "failed", "cancelled", "pending"}
    BY <1>6 DEF FetchOutcomes, MapOrderStatus
  <2>3. to = s
    BY <2>1, <2>2 DEF Resolve, InFlight, Terminal, Settled
  <2>4. req'[r] = Request(c.op, "apply", c.pay, "none", c.seen, to)
    BY <1>6 DEF Become, IInv, TypeOK
  <2>5. /\ req'[r].pc = "apply" /\ req'[r].pay = c.pay /\ req'[r].seen = c.seen
        /\ req'[r].to = to /\ req'[r].op = c.op
    BY <2>4 DEF Request
  <2>6. c.seen \notin Terminal /\ c.seen # "absent"
    BY <2>1 DEF InFlight, Terminal, Settled
  <2>7. c.op = "create" => to \in Terminal
    BY <1>6, <2>2, <2>3 DEF Terminal, Settled
  <2> HIDE DEF to
  <2> QED
    BY <1>1, <2>1, <2>5, <2>6, <2>7 DEF Current
<1>7. CASE Fetch(r)
  BY <1>5, <1>6, <1>7 DEF Fetch
<1> QED
  BY <1>3, <1>4, <1>7

\* Where a status update leaves a request.
LEMMA AfterApplyCurrent ==
    ASSUME IInv, NEW r \in Requests, AfterApply(r),
           req[r].op = "create" /\ req[r].to # "success" =>
             \A q \in Payments : row'[q] \notin InFlight
    PROVE  Current(r)'
<1>1. CASE Goto(r, "finish")
  <2>1. req'[r].pc = "finish"
    BY <1>1 DEF Goto, IInv, TypeOK, RequestStates
  <2> QED
    BY <2>1 DEF Current
<1>2. CASE req[r].op = "create" /\ req[r].to # "success" /\ Become(r, Creating("findSettled"))
  BY <1>2, CreatingCurrent
<1>3. CASE Done(r)
  BY <1>3, AtRest
<1> QED
  BY <1>1, <1>2, <1>3 DEF AfterApply

\* applyPaymentStatusUpdate and the notice after it: a creation that goes on has
\* seen its attempt, the only one that was open, end.
LEMMA UpdateCurrent ==
    ASSUME IInv, Serial, NEW r \in Requests, Apply(r) \/ Notify(r)
    PROVE  Current(r)'
<1> DEFINE c == req[r]
<1>1. c \in RequestStates /\ c.pay \in Payments /\ Current(r)
  BY DEF IInv, TypeOK, Held, NeedsPayment, Labels, Apply, Notify, At, Serial
<1>2. CASE Notify(r)
  <2>1. row' = row /\ AfterApply(r) /\ c.pc = "notify"
    BY <1>2 DEF Notify, At
  <2> QED
    BY <1>1, <2>1, AfterApplyCurrent DEF Current
<1>3. ASSUME Apply(r), row' = [row EXCEPT ![c.pay] = c.to] PROVE Current(r)'
  <2>1. c.op = "create" => \A q \in Payments : row'[q] \notin InFlight
    <3> SUFFICES ASSUME c.op = "create", NEW q \in Payments PROVE row'[q] \notin InFlight
      OBVIOUS
    <3>1. row[c.pay] \in InFlight /\ c.to \notin InFlight
      BY <1>1, <1>3 DEF Apply, At, Current, InFlight, Terminal, Settled
    <3>2. q # c.pay => row[q] \notin InFlight
      BY <1>1, <3>1 DEF Serial, Orderly, Busy
    <3> QED
      BY <1>3, <3>1, <3>2 DEF IInv, TypeOK
  <2>2. CASE AfterApply(r)
    BY <2>1, <2>2, AfterApplyCurrent
  <2>3. CASE Goto(r, "notify")
    <3>1. /\ req'[r].pc = "notify" /\ req'[r].pay = c.pay /\ req'[r].to = c.to
          /\ req'[r].op = c.op
      BY <1>1, <2>3 DEF Goto, IInv, TypeOK, RequestStates
    <3>2. row'[c.pay] = c.to
      BY <1>1, <1>3 DEF IInv, TypeOK
    <3> QED
      BY <2>1, <3>1, <3>2 DEF Current
  <2>4. CASE Done(r)
    BY <2>4, AtRest
  <2> QED
    BY <1>3, <2>2, <2>3, <2>4 DEF Apply
<1> QED
  BY <1>2, <1>3, AtRest DEF Apply

\* A webhook on its way to the status update.
LEMMA WebhookCurrent ==
    ASSUME IInv, Serial, NEW r \in Requests,
           Lookup(r) \/ Finish(r) \/ \E e \in Events : Deliver(r, e)
    PROVE  Current(r)'
<1>1. ASSUME NEW e \in Events, Deliver(r, e) PROVE Current(r)'
  <2>1. req'[r] = Request("webhook", "lookup", e.pay, e.type, "absent", "absent")
    BY <1>1 DEF Deliver, Become, IInv, TypeOK
  <2> QED
    BY <2>1 DEF Current, Request
<1>2. CASE Finish(r)
  BY <1>2, AtRest DEF Finish
<1>3. ASSUME Lookup(r), Goto(r, "finish") PROVE Current(r)'
  <2>1. req'[r].pc = "finish"
    BY <1>3 DEF Goto, IInv, TypeOK, RequestStates
  <2> QED
    BY <2>1 DEF Current
<1>4. ASSUME Lookup(r), row[req[r].pay] # "absent",
             NEW next \in {"terminate", "apply"}, NEW type, NEW incoming, NEW amount,
             Become(r, Request("webhook", next, req[r].pay, type, row[req[r].pay],
                               Resolve(row[req[r].pay], incoming, amount)))
      PROVE  Current(r)'
  <2> DEFINE p == req[r].pay
             to == Resolve(row[p], incoming, amount)
  <2>1. row[p] \in Terminal => to = row[p]
    BY DEF Resolve
  <2>2. req'[r] = Request("webhook", next, p, type, row[p], to)
    BY <1>4 DEF Become, IInv, TypeOK
  <2>3. /\ req'[r].op = "webhook" /\ req'[r].pc = next /\ req'[r].pay = p
        /\ req'[r].seen = row[p] /\ req'[r].to = to
    BY <2>2 DEF Request
  <2>4. row' = row
    BY <1>4 DEF Lookup
  <2> HIDE DEF to
  <2> QED
    BY <1>4, <2>1, <2>3, <2>4 DEF Current
<1>5. CASE Lookup(r)
  BY <1>3, <1>4, <1>5 DEF Lookup
<1> QED
  BY <1>1, <1>2, <1>5

\* A request that ends.
LEMMA EndsCurrent ==
    ASSUME IInv, NEW r \in Requests,
           RecordOrder(r) \/ RecordFailure(r) \/ Resume(r) \/ FetchFails(r) \/ Abort(r)
    PROVE  Current(r)'
BY AtRest DEF RecordOrder, RecordFailure, Resume, FetchFails, Abort

\* With one request at a time, every step leaves it with what is so.
LEMMA SerialStep ==
    ASSUME OneRequest, IInv, Serial, [Next]_vars
    PROVE  Serial'
<1>1. ASSUME NEW r \in Requests,
             \/ CreateBegin(r) \/ Step(r) \/ Abort(r)
             \/ \E p \in Payments : VerifyBegin(r, p)
             \/ \E e \in Events : Deliver(r, e)
      PROVE  \A q \in Requests : Current(q)'
  <2>1. Current(r)'
    BY <1>1, ReadsCurrent, CallsCurrent, UpdateCurrent, WebhookCurrent, EndsCurrent DEF Step
  <2> QED
    BY <2>1 DEF OneRequest
<1>2. ASSUME UNCHANGED <<row, req>> PROVE \A q \in Requests : Current(q)'
  BY <1>2 DEF Serial, Current
<1>3. \A q \in Requests : Current(q)'
  BY <1>1, <1>2 DEF Next, Redeliver, PayerPays, PayerFails, OrderPaid, OrderExpires, OrderTerminates,
                    BookingCloses, vars
<1> QED
  BY <1>3, StaysOrderly DEF Serial

\* So it is always so, from the empty tables on.
LEMMA SerialInductive == OneRequest => (Spec => [](IInv /\ Serial))
<1> SUFFICES ASSUME OneRequest PROVE Spec => [](IInv /\ Serial)
  OBVIOUS
<1>1. Init => Serial
  BY DEF Init, Serial, Current, Orderly, Idle, Request, Busy, InFlight, Settled
<1>2. IInv /\ Serial /\ [Next]_vars => Serial'
  BY SerialStep
<1> QED
  BY <1>1, <1>2, Inductive, PTL DEF Spec

-----------------------------------------------------------------------------
(* The refinement.                                                          *)

\* What a row's status is to Lifecycle.
StageOf(s) == IF s = "absent" THEN "absent"
              ELSE IF s \in InFlight THEN "open"
              ELSE IF s \in Settled THEN "paid" ELSE "dead"

LEMMA Stages ==
    /\ stage = [p \in Payments |-> StageOf(row[p])]
    /\ stage' = [p \in Payments |-> StageOf(row'[p])]
BY DEF stage, StageOf, InFlight, Settled

\* A step that moves one row moves its stage.
LEMMA StageMoves ==
    ASSUME TypeOK, NEW p \in Payments, NEW s, row' = [row EXCEPT ![p] = s]
    PROVE  stage' = [stage EXCEPT ![p] = StageOf(s)]
<1>1. \A q \in Payments : row'[q] = IF q = p THEN s ELSE row[q]
  BY DEF TypeOK
<1> QED
  BY <1>1, Stages

\* A step that moves a row opens, settles or closes its attempt.
LEMMA RowStepImplements ==
    ASSUME IInv, Serial, charge' = charge, RowMoves
    PROVE  [L!Next]_<<stage, charged>>
<1>1. charged' = charged
  BY DEF charged
<1>2. CASE row' = row
  BY <1>1, <1>2 DEF stage
<1>3. ASSUME NEW p \in Payments, NEW s \in Statuses, row' = [row EXCEPT ![p] = s],
             row[p] = "absent", s = "created", \A q \in Payments : row[q] \notin Busy
      PROVE  L!Open(p)
  <2>1. stage[p] = "absent" /\ \A q \in Payments : stage[q] \notin {"open", "paid"}
    BY <1>3, Stages DEF StageOf, Busy
  <2>2. stage' = [stage EXCEPT ![p] = "open"]
    BY <1>3, StageMoves DEF StageOf, InFlight, IInv
  <2> QED
    BY <1>1, <2>1, <2>2 DEF L!Open
<1>4. ASSUME NEW p \in Payments, NEW s \in Statuses, row' = [row EXCEPT ![p] = s],
             row[p] \in InFlight, s = "success" => charge[p] # "none"
      PROVE  L!Settle(p) \/ L!Close(p) \/ UNCHANGED <<stage, charged>>
  <2>1. stage[p] = "open" /\ row[p] # "absent"
    BY <1>4, Stages DEF StageOf, InFlight
  <2>2. CASE s \in InFlight
    <3>1. stage' = stage
      BY <1>4, <2>1, <2>2, Stages, StageMoves DEF StageOf, InFlight, IInv
    <3> QED
      BY <1>1, <3>1
  <2>3. CASE s = "success"
    <3>1. stage' = [stage EXCEPT ![p] = "paid"]
      BY <1>4, <2>3, StageMoves DEF StageOf, InFlight, Settled, IInv
    <3>2. p \in charged
      BY <1>4, <2>3 DEF charged
    <3> QED
      BY <1>1, <2>1, <3>1, <3>2 DEF L!Settle
  <2>4. CASE s \in {"failed", "cancelled"}
    <3>1. stage' = [stage EXCEPT ![p] = "dead"]
      BY <1>4, <2>4, StageMoves DEF StageOf, InFlight, Settled, IInv
    <3> QED
      BY <1>1, <2>1, <3>1 DEF L!Close
  <2> QED
    BY <2>2, <2>3, <2>4 DEF Statuses
<1> QED
  BY <1>2, <1>3, <1>4 DEF RowMoves, L!Next

\* A payer who pays charges an attempt that has been made.
LEMMA PaysImplements ==
    ASSUME IInv, NEW p \in Payments, PayerPays(p)
    PROVE  L!Charge(p)
<1>1. row[p] # "absent" /\ charge[p] = "none" /\ row' = row
  BY DEF PayerPays, Payable, IInv, World, OrderHasRow
<1>2. charge'[p] # "none" /\ \A q \in Payments \ {p} : charge'[q] = charge[q]
  BY ChargesAssumption DEF PayerPays, IInv, TypeOK
<1>3. charged' = charged \cup {p} /\ p \notin charged
  BY <1>1, <1>2 DEF charged
<1>4. stage[p] # "absent" /\ stage' = stage
  BY <1>1 DEF stage
<1> QED
  BY <1>3, <1>4 DEF L!Charge

\* Every step is one of Lifecycle, or none.
LEMMA StepImplements ==
    ASSUME IInv, Serial, [Next]_vars
    PROVE  [L!Next]_<<stage, charged>>
<1>1. CASE \E p \in Payments : PayerPays(p)
  BY <1>1, PaysImplements DEF L!Next
<1>2. CASE ~\E p \in Payments : PayerPays(p)
  <2>1. ASSUME NEW r \in Requests, Step(r) PROVE charge' = charge
    BY <2>1 DEF Step, FindInFlight, FindSettled, Insert, CreateOrder, RecordOrder,
       RecordFailure, Resume, Fetch, FetchFails, Apply, Notify, Lookup, TerminateOrder, Finish
  <2>2. charge' = charge
    BY <1>2, <2>1 DEF Next, CreateBegin, VerifyBegin, Deliver, Abort, Redeliver, PayerFails,
       OrderPaid, OrderExpires, OrderTerminates, BookingCloses, vars
  <2> QED
    BY <2>2, RowsMove, RowStepImplements
<1> QED
  BY <1>1, <1>2

\* payment.service.ts, one request at a time: the service implements Lifecycle,
\* whatever fails and however late, repeated or out of order the webhooks are.
THEOREM Implements == OneRequest => (Spec => KeepsLifecycle)
<1> SUFFICES ASSUME OneRequest PROVE Spec => KeepsLifecycle
  OBVIOUS
<1>1. Init => L!Init
  BY Stages DEF Init, L!Init, StageOf, charged
<1>2. IInv /\ Serial /\ [Next]_vars => [L!Next]_<<stage, charged>>
  BY StepImplements
<1> QED
  BY <1>1, <1>2, SerialInductive, PTL DEF Spec, KeepsLifecycle, L!Spec

\* One request at a time: nobody is told of a success and of a failure.
THEOREM NoticesAgree == OneRequest => (Spec => []NotesAgree)
<1> SUFFICES ASSUME OneRequest PROVE Spec => []NotesAgree
  OBVIOUS
<1>1. Serial => NotesAgree
  <2> SUFFICES ASSUME Serial, NEW p \in Payments,
                      [kind |-> "success", pay |-> p] \in notes,
                      [kind |-> "failed", pay |-> p] \in notes
               PROVE  FALSE
    BY DEF NotesAgree
  <2>1. row[p] = "success" /\ row[p] = "failed"
    BY DEF Serial, Orderly
  <2> QED
    BY <2>1
<1> QED
  BY <1>1, SerialInductive, PTL

-----------------------------------------------------------------------------
(* Why a second checkout needs an announced failure.  With one request at a *)
(* time a row that reads failed has no checkout, or the provider had a      *)
(* reason for its end: that is so when a request resolves to write failed,  *)
(* and the reason does not go away (Explained).                             *)

Explained(p) == p \notin session \/ Failed(p)

Accounted ==
    \A p \in Payments :
        /\ p \in session => row[p] # "absent"
        /\ row[p] = "failed" => Explained(p)

Grounded(r) ==
    LET c == req[r] IN
    /\ c.pc \in {"createOrder", "recordOrder", "recordFailure"} => c.pay \notin session
    /\ c.pc \in {"apply", "terminate"} /\ c.to = "failed" => Explained(c.pay)

Shut == Accounted /\ \A r \in Requests : Grounded(r)

\* A reason to fail does not go away.
LEMMA FailuresStay ==
    ASSUME IInv, [Next]_vars, NEW p \in Payments, Failed(p)
    PROVE  Failed(p)'
<1>0. /\ charge \in [Payments -> {"none", "exact", "other"}]
      /\ order \in [Payments -> Orders] /\ event \in [Events -> EventStates]
      /\ \A r \in Requests : At(r, "createOrder") => order[req[r].pay] = "none"
  BY DEF IInv, TypeOK, Owners
<1>1. charge[p] = "other" => charge'[p] = "other"
  <2>1. ASSUME NEW r \in Requests, Step(r) PROVE charge' = charge
    BY <2>1 DEF Step, FindInFlight, FindSettled, Insert, CreateOrder, RecordOrder,
       RecordFailure, Resume, Fetch, FetchFails, Apply, Notify, Lookup, TerminateOrder, Finish
  <2> QED
    BY <1>0, <2>1 DEF Next, CreateBegin, VerifyBegin, Deliver, Abort, Redeliver, PayerPays,
       PayerFails, OrderPaid, OrderExpires, OrderTerminates, BookingCloses, vars
<1>2. order[p] = "EXPIRED" => order'[p] = "EXPIRED"
  <2>1. ASSUME NEW r \in Requests, Step(r), order[p] = "EXPIRED" PROVE order'[p] = "EXPIRED"
    BY <1>0, <2>1 DEF Step, FindInFlight, FindSettled, Insert, CreateOrder, RecordOrder, At,
       RecordFailure, Resume, Fetch, FetchFails, Apply, Notify, Lookup, TerminateOrder, Finish
  <2> QED
    BY <1>0, <2>1 DEF Next, CreateBegin, VerifyBegin, Deliver, Abort, Redeliver, PayerPays,
       PayerFails, OrderPaid, OrderExpires, OrderTerminates, BookingCloses, Payable, vars
<1>3. ASSUME NEW t \in Failures, Delivered(t, p) PROVE Delivered(t, p)'
  <2> DEFINE e == [type |-> t, pay |-> p]
  <2>0. e \in Events /\ event[e] \notin {"unsent", "sent"} /\ t # "PAYMENT_SUCCESS"
    BY <1>3 DEF Events, EventTypes, Failures, Delivered
  <2>1. ASSUME NEW r \in Requests, Step(r) PROVE event'[e] \notin {"unsent", "sent"}
    BY <1>0, <2>0, <2>1 DEF Step, FindInFlight, FindSettled, Insert, CreateOrder, RecordOrder,
       RecordFailure, Resume, Fetch, FetchFails, Apply, Notify, Lookup, TerminateOrder, Finish
  <2>2. ASSUME NEW q \in Payments, PayerPays(q) \/ PayerFails(q)
        PROVE  event'[e] \notin {"unsent", "sent"}
    BY <1>0, <2>0, <2>2 DEF PayerPays, PayerFails, Send
  <2>3. event'[e] \notin {"unsent", "sent"}
    BY <1>0, <2>0, <2>1, <2>2 DEF Next, CreateBegin, VerifyBegin, Deliver, Abort, Redeliver,
       OrderPaid, OrderExpires, OrderTerminates, BookingCloses, vars
  <2> QED
    BY <2>3 DEF Delivered
<1> QED
  BY <1>1, <1>2, <1>3 DEF Failed, FailureDelivered

\* A checkout is handed out of an attempt that is open, by a request that ends.
LEMMA SessionMoves ==
    ASSUME IInv, Serial, [Next]_vars, session' # session
    PROVE  \E r \in Requests, p \in Payments :
             /\ session' = session \cup {p} /\ row' = [row EXCEPT ![p] = "pending"]
             /\ Done(r)
<1>1. PICK r \in Requests : RecordOrder(r) \/ Resume(r)
  BY DEF Next, Step, CreateBegin, VerifyBegin, Deliver, Abort, Redeliver, PayerPays,
     PayerFails, OrderPaid, OrderExpires, OrderTerminates, BookingCloses, vars, FindInFlight,
     FindSettled, Insert, CreateOrder, RecordFailure, Fetch, FetchFails, Apply, Notify,
     Lookup, TerminateOrder, Finish
<1>2. req[r].pay \in Payments
  BY <1>1 DEF RecordOrder, Resume, IInv, Held, At, NeedsPayment, Labels
<1> QED
  BY <1>1, <1>2 DEF RecordOrder, Resume, MapOrderStatus, Terminating

\* A row becomes failed because its creation failed or a request resolved so.
LEMMA WhoFails ==
    ASSUME IInv, [Next]_vars, NEW p \in Payments, row[p] # "failed", row'[p] = "failed"
    PROVE  \E r \in Requests :
             /\ req[r].pay = p
             /\ req[r].pc = "recordFailure" \/ (req[r].pc = "apply" /\ req[r].to = "failed")
<1>0. row \in [Payments -> Statuses \cup {"absent"}]
  BY DEF IInv, TypeOK
<1>1. PICK r \in Requests : Insert(r) \/ RecordOrder(r) \/ RecordFailure(r) \/ Resume(r) \/ Apply(r)
  BY DEF Next, Step, CreateBegin, VerifyBegin, Deliver, Abort, Redeliver, PayerPays,
     PayerFails, OrderPaid, OrderExpires, OrderTerminates, BookingCloses, vars, FindInFlight,
     FindSettled, CreateOrder, Fetch, FetchFails, Notify, Lookup, TerminateOrder, Finish
<1> QED
  BY <1>0, <1>1 DEF Insert, RecordOrder, RecordFailure, Resume, Apply, MapOrderStatus,
     Terminating, At

\* Accounted stays, while no checkout is handed out.
LEMMA AccountedStays ==
    ASSUME IInv, Serial, Shut, [Next]_vars, session' = session
    PROVE  Accounted'
<1> SUFFICES ASSUME NEW p \in Payments
             PROVE  /\ p \in session => row'[p] # "absent"
                    /\ row'[p] = "failed" => p \notin session \/ Failed(p)'
  BY DEF Accounted, Explained
<1>1. p \in session => row'[p] # "absent"
  BY RowsMove DEF Shut, Accounted, RowMoves, IInv, TypeOK, Statuses, InFlight
<1>2. CASE row[p] = "failed"
  BY <1>1, <1>2, FailuresStay DEF Shut, Accounted, Explained
<1>3. CASE row[p] # "failed" /\ row'[p] = "failed"
  BY <1>1, <1>3, WhoFails, FailuresStay DEF Shut, Grounded, Explained
<1> QED
  BY <1>1, <1>2, <1>3

\* So does what the request at work is about to write.
LEMMA GroundedStays ==
    ASSUME IInv, Serial, Shut, [Next]_vars, session' = session, NEW r \in Requests
    PROVE  Grounded(r)'
<1>0. req \in [Requests -> RequestStates] /\ Grounded(r) /\ Held(r)
  BY DEF IInv, TypeOK, Shut
<1>1. \A p \in Payments : Explained(p) => p \notin session' \/ Failed(p)'
  BY FailuresStay DEF Explained
<1>2. ASSUME NEW c, req'[r] = c, c.pay \in Payments,
             c.pc \in {"createOrder", "recordOrder", "recordFailure"} => c.pay \notin session,
             c.pc \in {"apply", "terminate"} /\ c.to = "failed" => Explained(c.pay)
      PROVE  Grounded(r)'
  <2>1. PICK p \in Payments : p = c.pay
    BY <1>2
  <2>2. Explained(p) => p \notin session' \/ Failed(p)'
    BY <1>1
  <2> QED
    BY <1>2, <2>1, <2>2
    DEF Grounded, Explained, Failed, FailureDelivered, Delivered
<1>3. ASSUME req'[r].pc \notin {"createOrder", "recordOrder", "recordFailure", "apply", "terminate"}
      PROVE  Grounded(r)'
  BY <1>3 DEF Grounded
<1>4. ASSUME NEW l \in Labels, Goto(r, l), req[r].pay \in Payments,
             l \in {"createOrder", "recordOrder", "recordFailure"} => req[r].pc = "createOrder",
             l \in {"apply", "terminate"} => req[r].pc = "terminate"
      PROVE  Grounded(r)'
  <2>1. /\ req'[r].pc = l /\ req'[r].pay = req[r].pay /\ req'[r].to = req[r].to
    BY <1>0, <1>4 DEF Goto, RequestStates
  <2> QED
    BY <1>0, <1>2, <1>4, <2>1 DEF Grounded
<1>5. ASSUME NEW op, NEW l, NEW p, NEW t, NEW s, NEW w, Become(r, Request(op, l, p, t, s, w))
      PROVE  req'[r].pc = l /\ req'[r].pay = p /\ req'[r].to = w
  BY <1>0, <1>5 DEF Become, Request
<1>6. Done(r) => Grounded(r)'
  BY <1>3, <1>5 DEF Done, Idle
<1>7. \A l \in {"findInFlight", "findSettled", "insert"} : Become(r, Creating(l)) => Grounded(r)'
  BY <1>3, <1>5 DEF Creating
<1>8. CASE req'[r] = req[r]
  <2>1. CASE req[r].pc \in NeedsPayment
    BY <1>0, <1>2, <1>8, <2>1 DEF Grounded, Held
  <2>2. CASE req[r].pc \notin NeedsPayment
    BY <1>0, <1>3, <1>8, <2>2 DEF NeedsPayment, Labels
  <2> QED
    BY <2>1, <2>2
<1>9. CASE CreateBegin(r) \/ FindInFlight(r) \/ FindSettled(r) \/ (\E p \in Payments : VerifyBegin(r, p))
           \/ (\E e \in Events : Deliver(r, e))
  <2>1. Goto(r, "findSettled") => Grounded(r)'
    BY <1>0, <1>3 DEF Goto, RequestStates
  <2> QED
    BY <1>3, <1>5, <1>6, <1>7, <1>9, <2>1
    DEF CreateBegin, FindInFlight, FindSettled, VerifyBegin, Deliver
<1>10. CASE Insert(r)
  <2>1. ASSUME NEW p \in Payments, row[p] = "absent",
               Become(r, Request("create", "createOrder", p, "none", "absent", "absent"))
        PROVE  Grounded(r)'
    <3>1. p \notin session
      BY <2>1 DEF Shut, Accounted
    <3> QED
      BY <1>2, <1>5, <2>1, <3>1
  <2> QED
    BY <1>6, <1>10, <2>1 DEF Insert
<1>11. CASE CreateOrder(r) \/ TerminateOrder(r)
  <2>1. req[r].pay \in Payments /\ req[r].pc \in {"createOrder", "terminate"}
    BY <1>0, <1>11 DEF CreateOrder, TerminateOrder, At, Held, NeedsPayment, Labels
  <2>2. \E l \in {"recordOrder", "recordFailure"} : CreateOrder(r) => Goto(r, l)
    BY DEF CreateOrder
  <2> QED
    BY <1>4, <1>11, <2>1, <2>2 DEF CreateOrder, TerminateOrder, At, Labels
<1>12. CASE RecordOrder(r) \/ RecordFailure(r) \/ Resume(r) \/ FetchFails(r) \/ Finish(r) \/ Abort(r)
  BY <1>6, <1>12 DEF RecordOrder, RecordFailure, Resume, FetchFails, Finish, Abort
<1>13. ASSUME NEW p \in Payments, NEW op, NEW l \in {"apply", "terminate"}, NEW t, NEW seen, NEW w,
              Become(r, Request(op, l, p, t, seen, w)), w = "failed" => Explained(p)
       PROVE  Grounded(r)'
  BY <1>2, <1>5, <1>13
<1>14. CASE Fetch(r)
  <2>1. req[r].pay \in Payments
    BY <1>0, <1>14 DEF Fetch, At, Held, NeedsPayment, Labels
  <2>2. ASSUME NEW s \in FetchOutcomes(req[r].pay), Resolve(req[r].seen, s, "exact") = "failed"
        PROVE  Explained(req[r].pay)
    <3>1. s = "failed" \/ req[r].seen \in Terminal
      BY <2>2 DEF Resolve
    <3>2. s = "failed" => order[req[r].pay] = "EXPIRED"
      BY <2>2 DEF FetchOutcomes, MapOrderStatus
    <3>3. req[r].seen \notin Terminal
      BY <1>14 DEF Fetch, At, Serial, Current, InFlight, Terminal, Settled
    <3> QED
      BY <3>1, <3>2, <3>3 DEF Explained, Failed
  <2>3. Goto(r, "resume") => Grounded(r)'
    BY <1>4, <2>1 DEF Labels
  <2> QED
    BY <1>13, <1>14, <2>1, <2>2, <2>3 DEF Fetch
<1>15. CASE Lookup(r)
  <2>1. /\ req[r].pay \in Payments /\ req[r].type \in EventTypes
        /\ Delivered(req[r].type, req[r].pay)
    BY <1>0, <1>15 DEF Lookup, At, Held, NeedsPayment, Labels
  <2> DEFINE p == req[r].pay
             incoming == IF req[r].type = "PAYMENT_SUCCESS" THEN "success" ELSE "failed"
  <2>2. ASSUME NEW a \in ReportedAmounts(EventOf(r)), Resolve(row[p], incoming, a) = "failed"
        PROVE  Explained(p)
    <3>1. CASE row[p] = "failed"
      BY <2>1, <3>1 DEF Shut, Accounted
    <3>2. CASE incoming = "success" /\ a = "other"
      BY <2>1, <2>2, <3>2 DEF ReportedAmounts, EventOf, Explained, Failed
    <3>3. CASE incoming = "failed"
      BY <2>1, <3>3 DEF Explained, Failed, FailureDelivered, EventTypes
    <3> QED
      BY <2>2, <3>1, <3>2, <3>3 DEF Resolve
  <2>3. Goto(r, "finish") => Grounded(r)'
    BY <1>0, <1>3 DEF Goto, RequestStates
  <2> QED
    BY <1>13, <1>15, <2>1, <2>2, <2>3 DEF Lookup
<1>16. AfterApply(r) => Grounded(r)'
  <2>1. Goto(r, "finish") => Grounded(r)'
    BY <1>0, <1>3 DEF Goto, RequestStates
  <2> QED
    BY <1>6, <1>7, <2>1 DEF AfterApply
<1>17. CASE Apply(r) \/ Notify(r)
  <2>1. Goto(r, "notify") => Grounded(r)'
    BY <1>0, <1>3 DEF Goto, RequestStates
  <2> QED
    BY <1>6, <1>16, <1>17, <2>1 DEF Apply, Notify
<1> QED
  BY <1>8, <1>9, <1>10, <1>11, <1>12, <1>14, <1>15, <1>17, OnlyItsOwn DEF Step

\* With one request at a time, every failed row stays explained.
LEMMA ShutInductive == OneRequest => (Spec => [](IInv /\ Serial /\ Shut))
<1> SUFFICES ASSUME OneRequest PROVE Spec => [](IInv /\ Serial /\ Shut)
  OBVIOUS
<1>1. Init => Shut
  BY DEF Init, Shut, Accounted, Grounded, Idle, Request
<1>2. IInv /\ Serial /\ Shut /\ [Next]_vars => Shut'
  <2> SUFFICES ASSUME IInv, Serial, Shut, [Next]_vars PROVE Shut'
    OBVIOUS
  <2>1. CASE session' = session
    BY <2>1, AccountedStays, GroundedStays DEF Shut
  <2>2. CASE session' # session
    <3>1. PICK r \in Requests, p \in Payments :
                 /\ session' = session \cup {p} /\ row' = [row EXCEPT ![p] = "pending"]
                 /\ Done(r)
      BY <2>2, SessionMoves
    <3>2. ASSUME NEW q \in Requests PROVE Grounded(q)'
      <4>1. req'[q] = Idle
        BY <3>1 DEF OneRequest, Done, Become, IInv, TypeOK
      <4> QED
        BY <4>1 DEF Grounded, Idle, Request
    <3>3. Accounted'
      <4> SUFFICES ASSUME NEW q \in Payments
                   PROVE  /\ q \in session' => row'[q] # "absent"
                          /\ row'[q] = "failed" => q \notin session' \/ Failed(q)'
        BY DEF Accounted, Explained
      <4>1. CASE q = p
        BY <3>1, <4>1 DEF IInv, TypeOK
      <4>2. CASE q # p
        BY <3>1, <4>2, FailuresStay DEF IInv, TypeOK, Shut, Accounted, Explained
      <4> QED
        BY <4>1, <4>2
    <3> QED
      BY <3>2, <3>3 DEF Shut
  <2> QED
    BY <2>1, <2>2
<1> QED
  BY <1>1, <1>2, SerialInductive, PTL DEF Spec

\* One request at a time, for any number of attempts, whatever fails or is lost: a
\* second order takes money beside a first only if a failure or a wrong amount of
\* one of them had been announced, and its row ended for it.
THEOREM SecondNeedsAFailure == OneRequest => (Spec => []OneCheckout)
<1> SUFFICES ASSUME OneRequest PROVE Spec => []OneCheckout
  OBVIOUS
<1>1. IInv /\ Serial /\ Shut => OneCheckout
  <2> SUFFICES ASSUME IInv, Serial, Shut, NEW p \in Payments, NEW q \in Payments, p # q,
                      TakesMoney(p), TakesMoney(q)
               PROVE  GivenUp(p) \/ GivenUp(q)
    BY DEF OneCheckout
  <2>1. ASSUME NEW x \in Payments, TakesMoney(x), row[x] \notin Busy PROVE GivenUp(x)
    <3>1. /\ order[x] \in {"ACTIVE", "TERMINATION_REQUESTED", "PAID"}
          /\ x \in session
      BY <2>1 DEF TakesMoney, Payable
    <3>2. row[x] \in {"failed", "cancelled"}
      BY <2>1, <3>1 DEF IInv, TypeOK, World, OrderHasRow, Statuses, Busy, Settled
    <3>3. row[x] = "failed" => FailureDelivered(x) \/ charge[x] = "other"
      BY <3>1 DEF Shut, Accounted, Explained, Failed
    <3>4. row[x] = "cancelled" => FailureDelivered(x)
      BY DEF IInv, World, Truth, Left, FailureDelivered, Failures
    <3> QED
      BY <3>2, <3>3, <3>4 DEF GivenUp
  <2>2. row[p] \notin Busy \/ row[q] \notin Busy
    BY DEF Serial, Orderly
  <2> QED
    BY <2>1, <2>2
<1> QED
  BY <1>1, ShutInductive, PTL

-----------------------------------------------------------------------------
(* Liveness.  A request has a bounded number of calls left, whatever the    *)
(* others do; so verifies begin again and again, and each that is not cut   *)
(* short reads the order and writes what it read: success, once it is PAID. *)

CallsLeft(r) ==
    LET l == req[r].pc IN
    CASE l = "idle" -> 0
      [] l \in {"recordOrder", "recordFailure", "resume", "finish"} -> 1
      [] l = "createOrder" -> 2
      [] l = "insert" -> 3
      [] l = "findSettled" -> 4
      [] l = "notify" -> 5
      [] l = "apply" -> 6
      [] l = "terminate" -> 7
      [] l \in {"lookup", "fetch"} -> 8
      [] OTHER -> 9

Within(r, k)  == CallsLeft(r) <= k
Falls(r, k, j) == [](Within(r, k) => <>Within(r, j))
Ends(r)       == []<>At(r, "idle")

\* Every call of a request leaves it with fewer to come.
LEMMA StepsDown ==
    ASSUME IInv, NEW r \in Requests, Step(r)
    PROVE  CallsLeft(r)' < CallsLeft(r)
<1>0. req \in [Requests -> RequestStates]
  BY DEF IInv, TypeOK
<1>1. ASSUME NEW l \in Labels, Goto(r, l) PROVE req'[r].pc = l
  BY <1>0, <1>1 DEF Goto, RequestStates
<1>2. ASSUME NEW c, Become(r, c) PROVE req'[r].pc = c.pc
  BY <1>0, <1>2 DEF Become
<1>3. ASSUME NEW op, NEW l, NEW p, NEW t, NEW s, NEW w, Become(r, Request(op, l, p, t, s, w))
       PROVE  req'[r].pc = l
  BY <1>2, <1>3 DEF Request
<1>4. Done(r) => req'[r].pc = "idle"
  BY <1>2 DEF Done, Idle, Request
<1>5. \A l \in Labels : Become(r, Creating(l)) => req'[r].pc = l
  BY <1>2 DEF Creating, Request
<1>6. CASE FindInFlight(r)
  <2>1. req'[r].pc \in {"fetch", "findSettled"}
    BY <1>1, <1>3, <1>6 DEF FindInFlight, Labels
  <2> QED
    BY <1>6, <2>1 DEF FindInFlight, At, CallsLeft
<1>7. CASE FindSettled(r)
  <2>1. req'[r].pc \in {"idle", "insert"}
    BY <1>4, <1>5, <1>7 DEF FindSettled, Labels
  <2> QED
    BY <1>7, <2>1 DEF FindSettled, At, CallsLeft
<1>8. CASE Insert(r)
  <2>1. req'[r].pc \in {"idle", "createOrder"}
    BY <1>3, <1>4, <1>8 DEF Insert
  <2> QED
    BY <1>8, <2>1 DEF Insert, At, CallsLeft
<1>9. CASE CreateOrder(r)
  <2>1. req'[r].pc \in {"recordOrder", "recordFailure"}
    BY <1>1, <1>9 DEF CreateOrder, Labels
  <2> QED
    BY <1>9, <2>1 DEF CreateOrder, At, CallsLeft
<1>10. CASE RecordOrder(r) \/ RecordFailure(r) \/ Resume(r) \/ FetchFails(r) \/ Finish(r)
  <2>1. req'[r].pc = "idle"
    BY <1>4, <1>10 DEF RecordOrder, RecordFailure, Resume, FetchFails, Finish
  <2> QED
    BY <1>10, <2>1 DEF RecordOrder, RecordFailure, Resume, FetchFails, Finish, At, CallsLeft
<1>11. CASE Fetch(r)
  <2>1. req'[r].pc \in {"resume", "apply"}
    BY <1>1, <1>3, <1>11 DEF Fetch, Labels
  <2> QED
    BY <1>11, <2>1 DEF Fetch, At, CallsLeft
<1>12. AfterApply(r) => req'[r].pc \in {"finish", "findSettled", "idle"}
  BY <1>1, <1>4, <1>5 DEF AfterApply, Labels
<1>13. CASE Apply(r)
  <2>1. req'[r].pc \in {"notify", "finish", "findSettled", "idle"}
    BY <1>1, <1>4, <1>12, <1>13 DEF Apply, Labels
  <2> QED
    BY <1>13, <2>1 DEF Apply, At, CallsLeft
<1>14. CASE Notify(r)
  BY <1>12, <1>14 DEF Notify, At, CallsLeft
<1>15. CASE Lookup(r)
  <2>1. req'[r].pc \in {"finish", "terminate", "apply"}
    BY <1>1, <1>3, <1>15 DEF Lookup, Labels
  <2> QED
    BY <1>15, <2>1 DEF Lookup, At, CallsLeft
<1>16. CASE TerminateOrder(r)
  <2>1. req'[r].pc = "apply"
    BY <1>1, <1>16 DEF TerminateOrder, Labels
  <2> QED
    BY <1>16, <2>1 DEF TerminateOrder, At, CallsLeft
<1> QED
  BY <1>6, <1>7, <1>8, <1>9, <1>10, <1>11, <1>13, <1>14, <1>15, <1>16 DEF Step

\* A number of calls is one of 0 to 9, and none are left at rest only.
LEMMA CallsBound ==
    ASSUME NEW r
    PROVE  CallsLeft(r) \in 0..9 /\ (CallsLeft(r) = 0 <=> At(r, "idle"))
BY DEF CallsLeft, At

\* No step of anybody gives a request in progress more calls.
LEMMA NeverMore ==
    ASSUME IInv, [Next]_vars, NEW r \in Requests, ~At(r, "idle")
    PROVE  CallsLeft(r)' <= CallsLeft(r)
<1>1. CASE req'[r] = req[r]
  BY <1>1, CallsBound DEF CallsLeft
<1>2. CASE Step(r)
  <2>1. CallsLeft(r)' \in 0..9
    BY DEF CallsLeft
  <2> QED
    BY <1>2, <2>1, StepsDown, CallsBound
<1>3. CASE Abort(r)
  <2>1. CallsLeft(r)' = 0
    BY <1>3 DEF Abort, Done, Become, IInv, TypeOK, Idle, Request, CallsLeft
  <2> QED
    BY <2>1, CallsBound
<1> QED
  BY <1>1, <1>2, <1>3, OnlyItsOwn DEF CreateBegin, VerifyBegin, Deliver

\* A request that goes on comes one call nearer to its end.
LEMMA Descends ==
    ASSUME NEW r \in Requests, NEW j \in 0..8, NEW k, k = j + 1
    PROVE  Spec /\ GoesOn(r) => Falls(r, k, j)
<1>1. At(r, "idle") => Within(r, j)
  BY CallsBound DEF Within
<1>2. IInv /\ [Next]_vars /\ Within(r, k) /\ ~Within(r, j) => Within(r, k)'
  <2> SUFFICES ASSUME IInv, [Next]_vars, Within(r, k), ~Within(r, j) PROVE Within(r, k)'
    OBVIOUS
  <2>1. CallsLeft(r)' <= CallsLeft(r) /\ CallsLeft(r)' \in 0..9
    BY <1>1, NeverMore DEF CallsLeft
  <2> QED
    BY <2>1, CallsBound DEF Within
<1>3. IInv /\ <<Step(r)>>_vars /\ Within(r, k) => Within(r, j)'
  <2> SUFFICES ASSUME IInv, Step(r), Within(r, k) PROVE Within(r, j)'
    OBVIOUS
  <2>1. CallsLeft(r)' < CallsLeft(r) /\ CallsLeft(r)' \in 0..9
    BY StepsDown DEF CallsLeft
  <2> QED
    BY <2>1, CallsBound DEF Within
<1> QED
  BY <1>1, <1>2, <1>3, Inductive, PTL DEF Spec, GoesOn, Falls

\* So every request ends, and may begin as another, again and again.
LEMMA RequestEnds ==
    ASSUME NEW r \in Requests
    PROVE  Spec /\ GoesOn(r) => Ends(r)
<1>1. Spec /\ GoesOn(r) =>
        /\ Falls(r, 9, 8) /\ Falls(r, 8, 7) /\ Falls(r, 7, 6)
        /\ Falls(r, 6, 5) /\ Falls(r, 5, 4) /\ Falls(r, 4, 3)
        /\ Falls(r, 3, 2) /\ Falls(r, 2, 1) /\ Falls(r, 1, 0)
  BY Descends
<1>2. Within(r, 9) /\ (Within(r, 0) => At(r, "idle"))
  BY CallsBound DEF Within
<1> QED
  BY <1>1, <1>2, PTL DEF Falls, Ends

\* Every request that has begun comes to its end, for any number of them and
\* whatever fails: none waits for another.
EveryRequestEnds == \A r \in Requests : Ends(r)

THEOREM RequestsEnd == LiveSpec => EveryRequestEnds
<1>1. LiveSpec => Spec /\ \A r \in Requests : GoesOn(r)
  BY DEF LiveSpec, Fairness
<1> QED
  BY <1>1, RequestEnds DEF EveryRequestEnds

-----------------------------------------------------------------------------
(* A booker is told of a success: whoever writes success first is to tell   *)
(* of it next, and only a failure could keep it from doing so.              *)

Told(p)     == [kind |-> "success", pay |-> p] \in notes
Tells(r, p) == At(r, "notify") /\ req[r].to = "success" /\ req[r].pay = p
Knows(c, p) == c.pay = p /\ c.pc \in {"fetch", "resume", "terminate", "apply"} /\ c.seen = "success"

\* What anybody knows to be a success has been told, or is about to be.
Owed(p) ==
    row[p] = "success" \/ (\E r \in Requests : Knows(req[r], p)) =>
        Told(p) \/ \E r \in Requests : Tells(r, p)

\* Whoever is to tell does, unless calls fail.
LEMMA TellsOrTold ==
    ASSUME ~Faults, IInv, [Next]_vars, NEW r \in Requests, NEW p \in Payments, Tells(r, p)
    PROVE  Tells(r, p)' \/ Told(p)'
<1>1. CASE req'[r] = req[r]
  BY <1>1 DEF Tells, At
<1>2. CASE Step(r)
  BY <1>2 DEF Tells, Told, At, Step, FindInFlight, FindSettled, Insert, CreateOrder, RecordOrder,
     RecordFailure, Resume, Fetch, FetchFails, Apply, Notify, Lookup, TerminateOrder, Finish
<1> QED
  BY <1>1, <1>2, OnlyItsOwn DEF Tells, At, CreateBegin, VerifyBegin, Deliver, Abort

\* What has been told stays told.
LEMMA ToldStays ==
    ASSUME [Next]_vars
    PROVE  notes \subseteq notes'
BY DEF Next, CreateBegin, VerifyBegin, Deliver, Abort, Redeliver, PayerPays, PayerFails,
   OrderPaid, OrderExpires, OrderTerminates, BookingCloses, vars, Step, FindInFlight, FindSettled, Insert, CreateOrder,
   RecordOrder, RecordFailure, Resume, Fetch, FetchFails, Apply, Notify, Lookup, TerminateOrder, Finish

\* A row becomes success by an Apply whose request has read success before, or
\* goes on to tell.
LEMMA SuccessIsOwed ==
    ASSUME IInv, [Next]_vars, NEW p \in Payments, row[p] # "success", row'[p] = "success"
    PROVE  \E r \in Requests : Knows(req[r], p) \/ Tells(r, p)'
<1>0. row \in [Payments -> Statuses \cup {"absent"}] /\ req \in [Requests -> RequestStates]
  BY DEF IInv, TypeOK
<1>1. ASSUME NEW r \in Requests, Step(r) PROVE Apply(r)
  BY <1>0, <1>1 DEF Step, FindInFlight, FindSettled, Insert, CreateOrder, RecordOrder, RecordFailure,
     Resume, Fetch, FetchFails, Notify, Lookup, TerminateOrder, Finish, MapOrderStatus
<1>2. PICK r \in Requests : Apply(r)
  BY <1>1 DEF Next, CreateBegin, VerifyBegin, Deliver, Abort, Redeliver, PayerPays, PayerFails,
     OrderPaid, OrderExpires, OrderTerminates, BookingCloses, vars
<1>3. req[r].pc = "apply" /\ req[r].pay = p /\ req[r].to = "success"
  BY <1>0, <1>2 DEF Apply, At
<1>4. CASE req[r].seen = "success"
  BY <1>3, <1>4 DEF Knows
<1>5. CASE req[r].seen # "success"
  <2>1. Goto(r, "notify")
    BY <1>0, <1>2, <1>3, <1>5 DEF Apply
  <2> QED
    BY <1>0, <1>3, <2>1 DEF Goto, Tells, At, RequestStates
<1> QED
  BY <1>4, <1>5

\* A request comes to know a success from the row.
LEMMA KnownFromRow ==
    ASSUME IInv, Decided, [Next]_vars, NEW r \in Requests, NEW p \in Payments, Knows(req'[r], p)
    PROVE  Knows(req[r], p) \/ row[p] = "success"
<1>0. req \in [Requests -> RequestStates] /\ Firm(r)
  BY DEF IInv, TypeOK, Decided
<1>1. CASE req'[r] = req[r]
  BY <1>1
<1>2. ASSUME NEW l \in Labels, Goto(r, l), req[r].pc \in {"fetch", "terminate"} \/ l \notin {"resume", "apply", "fetch", "terminate"}
      PROVE  Knows(req[r], p)
  BY <1>0, <1>2 DEF Goto, Knows, RequestStates
<1>3. ASSUME NEW op, NEW l, NEW q, NEW t, NEW s, NEW w, Become(r, Request(op, l, q, t, s, w))
      PROVE  q = p /\ l \in {"fetch", "resume", "terminate", "apply"} /\ s = "success"
  BY <1>0, <1>3 DEF Become, Knows, Request
<1>4. ~Done(r) /\ \A l : ~Become(r, Creating(l))
  BY <1>3 DEF Done, Idle, Creating
<1>5. CASE Step(r)
  <2>1. CASE FindInFlight(r) \/ FindSettled(r) \/ Insert(r) \/ CreateOrder(r)
    BY <1>2, <1>3, <1>4, <2>1 DEF FindInFlight, FindSettled, Insert, CreateOrder, Labels
  <2>2. CASE RecordOrder(r) \/ RecordFailure(r) \/ Resume(r) \/ FetchFails(r) \/ Finish(r)
    BY <1>3, <1>4, <2>2 DEF RecordOrder, RecordFailure, Resume, FetchFails, Finish
  <2>3. CASE Fetch(r)
    <3>1. Goto(r, "resume") => Knows(req[r], p)
      BY <1>2, <2>3 DEF Fetch, At, Labels
    <3>2. ASSUME NEW w, Become(r, Request(req[r].op, "apply", req[r].pay, "none", req[r].seen, w))
          PROVE  Knows(req[r], p)
      BY <1>3, <2>3, <3>2 DEF Fetch, At, Knows
    <3> QED
      BY <2>3, <3>1, <3>2 DEF Fetch
  <2>4. AfterApply(r) => Knows(req[r], p)
    BY <1>2, <1>3, <1>4 DEF AfterApply, Labels
  <2>5. CASE Apply(r) \/ Notify(r)
    BY <1>2, <1>3, <1>4, <2>4, <2>5 DEF Apply, Notify, Labels
  <2>6. CASE Lookup(r)
    <3>1. ASSUME NEW l, NEW w,
                 Become(r, Request("webhook", l, req[r].pay, req[r].type, row[req[r].pay], w))
          PROVE  row[p] = "success"
      BY <1>3, <3>1
    <3> QED
      BY <1>2, <2>6, <3>1 DEF Lookup, Labels
  <2>7. CASE TerminateOrder(r)
    BY <1>2, <2>7 DEF TerminateOrder, At, Labels
  <2> QED
    BY <1>5, <2>1, <2>2, <2>3, <2>5, <2>6, <2>7 DEF Step
<1>6. CASE CreateBegin(r) \/ Abort(r) \/ \E e \in Events : Deliver(r, e)
  BY <1>3, <1>4, <1>6 DEF CreateBegin, Abort, Deliver
<1>7. CASE \E q \in Payments : VerifyBegin(r, q)
  BY <1>3, <1>7 DEF VerifyBegin
<1> QED
  BY <1>1, <1>5, <1>6, <1>7, OnlyItsOwn

\* A success that is known has been told or is owed, always.
LEMMA OwedInductive ==
    ASSUME ~Faults, NEW p \in Payments
    PROVE  Spec => [](IInv /\ Owed(p))
<1>1. Init => Owed(p)
  BY DEF Init, Owed, Knows, Idle, Request
<1>2. IInv /\ Decided /\ Owed(p) /\ [Next]_vars => Owed(p)'
  <2> SUFFICES ASSUME IInv, Decided, Owed(p), [Next]_vars,
                      row'[p] = "success" \/ \E r \in Requests : Knows(req'[r], p)
               PROVE  Told(p)' \/ \E r \in Requests : Tells(r, p)'
    BY DEF Owed, Knows
  <2>1. ASSUME Told(p) \/ \E r \in Requests : Tells(r, p)
        PROVE  Told(p)' \/ \E r \in Requests : Tells(r, p)'
    BY <2>1, TellsOrTold, ToldStays DEF Told
  <2>2. CASE row[p] = "success" \/ \E r \in Requests : Knows(req[r], p)
    BY <2>1, <2>2 DEF Owed
  <2>3. CASE row[p] # "success" /\ row'[p] = "success"
    BY <2>2, <2>3, SuccessIsOwed
  <2> QED
    BY <2>2, <2>3, KnownFromRow
<1> QED
  BY <1>1, <1>2, DecidedInductive, PTL DEF Spec

\* One request that is to tell, tells.
Telling(r, p) == [](Tells(r, p) => <>Told(p))

LEMMA TellsInTheEnd ==
    ASSUME ~Faults, NEW r \in Requests, NEW p \in Payments
    PROVE  Spec /\ GoesOn(r) => Telling(r, p)
<1>1. IInv /\ [Next]_vars /\ Tells(r, p) => Tells(r, p)' \/ Told(p)'
  BY TellsOrTold
<1>2. Tells(r, p) /\ <<Step(r)>>_vars => Told(p)'
  BY DEF Tells, Told, At, Step, FindInFlight, FindSettled, Insert, CreateOrder, RecordOrder,
     RecordFailure, Resume, Fetch, FetchFails, Apply, Notify, Lookup, TerminateOrder, Finish
<1>3. Tells(r, p) => ~At(r, "idle")
  BY DEF Tells, At
<1> QED
  BY <1>1, <1>2, <1>3, Inductive, PTL DEF Spec, GoesOn, Telling

\* So whoever it is that owes the notice, it comes.
LEMMA SomebodyTells ==
    ASSUME ~Faults, NEW p \in Payments
    PROVE  LiveSpec => (row[p] = "success" ~> Told(p))
<1>1. LiveSpec => Spec /\ \A r \in Requests : GoesOn(r)
  BY DEF LiveSpec, Fairness
<1>2. LiveSpec => \A r \in Requests : Telling(r, p)
  BY <1>1, TellsInTheEnd
<1>3. (\A r \in Requests : Telling(r, p)) => [](\A r \in Requests : Tells(r, p) => <>Told(p))
  BY DEF Telling
<1>4. (\A r \in Requests : Tells(r, p) => <>Told(p)) =>
        ((\E r \in Requests : Tells(r, p)) => <>Told(p))
  OBVIOUS
<1>5. Owed(p) /\ row[p] = "success" => Told(p) \/ \E r \in Requests : Tells(r, p)
  BY DEF Owed
<1> QED
  BY <1>1, <1>2, <1>3, <1>4, <1>5, OwedInductive, PTL

\* For any number of attempts and requests that come and go: whoever is charged
\* and recorded so is told, as long as calls do not fail.
THEOREM SuccessIsTold == ~Faults => (LiveSpec => PaidIsTold)
BY SomebodyTells DEF PaidIsTold, Told

-----------------------------------------------------------------------------
(* A charge is found.  The order comes to PAID and stays so; while the row  *)
(* is open, verifies begin, read the order and write; and once a request    *)
(* has come to rest after that, its verifies write success (Sure).          *)

ChargedExactly(p) == charge[p] = "exact"
OrderIsPaid(p)    == order[p] = "PAID"
IsOpen(p)         == row[p] \in InFlight
OtherSettled(p)   == \E q \in Payments \ {p} : row[q] \in Settled

Asking(r, p)      == At(r, "fetch") /\ Verifies(r, p)
Sure(r, p)        == Applying(r, p) => req[r].to = "success"

\* Money and a paid order stay, whatever the service does.
LEMMA MoneyStays ==
    ASSUME IInv, [Next]_vars, NEW p \in Payments
    PROVE  /\ ChargedExactly(p) => ChargedExactly(p)'
           /\ OrderIsPaid(p) => OrderIsPaid(p)'
<1>0. /\ charge \in [Payments -> {"none", "exact", "other"}]
      /\ order \in [Payments -> Orders]
      /\ \A r \in Requests : At(r, "createOrder") => order[req[r].pay] = "none"
  BY DEF IInv, TypeOK, Owners
<1>1. ASSUME NEW r \in Requests, Step(r)
      PROVE  charge' = charge /\ (OrderIsPaid(p) => OrderIsPaid(p)')
  BY <1>0, <1>1 DEF OrderIsPaid, At, Step, FindInFlight, FindSettled, Insert, CreateOrder, RecordOrder,
     RecordFailure, Resume, Fetch, FetchFails, Apply, Notify, Lookup, TerminateOrder, Finish
<1> QED
  BY <1>0, <1>1 DEF ChargedExactly, OrderIsPaid, Next, CreateBegin, VerifyBegin, Deliver, Abort, Redeliver,
     PayerPays, PayerFails, OrderPaid, OrderExpires, OrderTerminates, BookingCloses, vars

\* The provider brings a charged order to PAID.
LEMMA OrderComesToPaid ==
    ASSUME NEW p \in Payments
    PROVE  Spec /\ Collects(p) => [](ChargedExactly(p) => <>OrderIsPaid(p))
<1>1. IInv /\ ChargedExactly(p) /\ ~OrderIsPaid(p) => MayCollect(p)
  BY DEF IInv, TypeOK, Orders, World, Provider, ChargedExactly, OrderIsPaid, MayCollect,
     Payable, Terminating
<1>2. IInv /\ <<OrderPaid(p)>>_vars => OrderIsPaid(p)'
  BY DEF OrderPaid, OrderIsPaid, IInv, TypeOK
<1>3. IInv /\ [Next]_vars /\ ChargedExactly(p) => ChargedExactly(p)'
  BY MoneyStays
<1> QED
  BY <1>1, <1>2, <1>3, Inductive, PTL DEF Spec, Collects

\* What the three calls of a verify do.
LEMMA VerifyCalls ==
    ASSUME IInv, Decided, NEW r \in Requests, NEW p \in Payments
    PROVE  /\ VerifyBegin(r, p) => Asking(r, p)'
           /\ Verifies(r, p) /\ Fetch(r) => Applying(r, p)' /\ (OrderIsPaid(p) => Sure(r, p)')
           /\ Verifies(r, p) /\ Apply(r) /\ Sure(r, p) => ~IsOpen(p)' \/ OtherSettled(p)
<1>0. req \in [Requests -> RequestStates] /\ row \in [Payments -> Statuses \cup {"absent"}] /\ Firm(r)
  BY DEF IInv, TypeOK, Decided
<1>1. VerifyBegin(r, p) => Asking(r, p)'
  BY <1>0 DEF VerifyBegin, Become, Request, Asking, At, Verifies
<1>2. ASSUME Verifies(r, p), Fetch(r)
      PROVE  Applying(r, p)' /\ (OrderIsPaid(p) => Sure(r, p)')
  <2>1. PICK s \in FetchOutcomes(p) :
               Become(r, Request("verify", "apply", p, "none", req[r].seen, Resolve(req[r].seen, s, "exact")))
    BY <1>2 DEF Verifies, Fetch
  <2>2. req'[r] = Request("verify", "apply", p, "none", req[r].seen, Resolve(req[r].seen, s, "exact"))
    BY <1>0, <2>1 DEF Become
  <2>3. ASSUME OrderIsPaid(p) PROVE req'[r].to = "success"
    <3>1. s = "success"
      BY <2>1, <2>3 DEF OrderIsPaid, FetchOutcomes, MapOrderStatus, Terminating
    <3>2. req[r].seen \notin Terminal
      BY <1>0, <1>2 DEF Fetch, At, Firm, InFlight, Terminal, Settled
    <3> QED
      BY <2>2, <3>1, <3>2 DEF Resolve, Request
  <2> QED
    BY <2>2, <2>3 DEF Applying, Sure, At, Verifies, Request
<1>3. ASSUME Verifies(r, p), Apply(r), Sure(r, p)
      PROVE  ~IsOpen(p)' \/ OtherSettled(p)
  <2>1. req[r].to = "success" /\ req[r].pay = p
    BY <1>3 DEF Sure, Applying, Apply, Verifies
  <2>2. CASE IndexesAllow(p, "success")
    BY <1>0, <1>3, <2>1, <2>2 DEF Apply, IsOpen, InFlight
  <2>3. CASE ~IndexesAllow(p, "success")
    BY <2>3 DEF IndexesAllow, OtherSettled, InFlight
  <2> QED
    BY <2>2, <2>3
<1> QED
  BY <1>1, <1>2, <1>3

\* A request at rest is sure, and what it reads of a paid order keeps it so.
LEMMA StaysSure ==
    ASSUME IInv, Decided, [Next]_vars, NEW r \in Requests, NEW p \in Payments,
           OrderIsPaid(p), Sure(r, p)
    PROVE  Sure(r, p)'
<1>0. req \in [Requests -> RequestStates] /\ Held(r)
  BY DEF IInv, TypeOK
<1>1. CASE req'[r] = req[r]
  BY <1>1 DEF Sure, Applying, At, Verifies
<1>2. ASSUME NEW l \in Labels \ {"apply"}, Goto(r, l) PROVE Sure(r, p)'
  BY <1>0, <1>2 DEF Goto, RequestStates, Sure, Applying, At
<1>3. ASSUME NEW op, NEW l, NEW q, NEW t, NEW s, NEW w, Become(r, Request(op, l, q, t, s, w)),
             l # "apply" \/ op # "verify"
      PROVE  Sure(r, p)'
  BY <1>0, <1>3 DEF Become, Request, Sure, Applying, At, Verifies
<1>4. Done(r) \/ (\E l : Become(r, Creating(l))) => Sure(r, p)'
  BY <1>3 DEF Done, Idle, Creating
<1>5. CASE Step(r)
  <2>1. CASE FindInFlight(r) \/ FindSettled(r) \/ Insert(r) \/ CreateOrder(r)
    BY <1>2, <1>3, <1>4, <2>1 DEF FindInFlight, FindSettled, Insert, CreateOrder, Labels
  <2>2. CASE RecordOrder(r) \/ RecordFailure(r) \/ Resume(r) \/ FetchFails(r) \/ Finish(r)
    BY <1>4, <2>2 DEF RecordOrder, RecordFailure, Resume, FetchFails, Finish
  <2>3. CASE Fetch(r)
    <3>1. CASE Verifies(r, p)
      BY <2>3, <3>1, VerifyCalls
    <3>2. CASE req[r].op # "verify"
      BY <1>2, <1>3, <2>3, <3>2 DEF Fetch, Labels
    <3>3. CASE req[r].pay # p
      <4>1. ASSUME NEW w, Become(r, Request(req[r].op, "apply", req[r].pay, "none", req[r].seen, w))
            PROVE  Sure(r, p)'
        BY <1>0, <3>3, <4>1 DEF Become, Request, Sure, Applying, Verifies
      <4> QED
        BY <1>2, <2>3, <4>1 DEF Fetch, Labels
    <3> QED
      BY <3>1, <3>2, <3>3 DEF Verifies
  <2>4. AfterApply(r) => Sure(r, p)'
    BY <1>2, <1>4 DEF AfterApply, Labels
  <2>5. CASE Apply(r) \/ Notify(r)
    BY <1>2, <1>4, <2>4, <2>5 DEF Apply, Notify, Labels
  <2>6. CASE Lookup(r)
    BY <1>2, <1>3, <2>6 DEF Lookup, Labels
  <2>7. CASE TerminateOrder(r)
    <3>1. req[r].op = "webhook"
      BY <1>0, <2>7 DEF TerminateOrder, At, Held
    <3> QED
      BY <1>0, <2>7, <3>1 DEF TerminateOrder, Goto, RequestStates, Sure, Applying, Verifies
  <2> QED
    BY <1>5, <2>1, <2>2, <2>3, <2>5, <2>6, <2>7 DEF Step
<1>6. CASE CreateBegin(r) \/ Abort(r) \/ \E e \in Events : Deliver(r, e)
  BY <1>3, <1>4, <1>6 DEF CreateBegin, Abort, Deliver
<1>7. CASE \E q \in Payments : VerifyBegin(r, q)
  BY <1>3, <1>7 DEF VerifyBegin
<1> QED
  BY <1>1, <1>5, <1>6, <1>7, OnlyItsOwn

\* One request that polls is enough.
LEMMA PollingFinds ==
    ASSUME NEW r \in Requests, NEW p \in Payments
    PROVE  Spec /\ GoesOn(r) /\ Polls(r, p) /\ Collects(p) =>
             (ChargedExactly(p) ~> ~IsOpen(p) \/ OtherSettled(p))
<1>1. At(r, "idle") /\ IsOpen(p) => MayVerify(r, p)
  BY DEF MayVerify, IsOpen
<1>2. IInv /\ ChargedExactly(p) /\ Asking(r, p) => Fetching(r, p)
  BY DEF IInv, World, Provider, ChargedExactly, Asking, Fetching
<1>3. IInv /\ [Next]_vars => (ChargedExactly(p) => ChargedExactly(p)') /\ (OrderIsPaid(p) => OrderIsPaid(p)')
  BY MoneyStays
<1>4. IInv /\ Decided /\ <<VerifyBegin(r, p)>>_vars => Asking(r, p)'
  BY VerifyCalls
<1>5. IInv /\ Decided /\ <<Verifies(r, p) /\ Fetch(r)>>_vars => Applying(r, p)'
  BY VerifyCalls
<1>6. IInv /\ Decided /\ <<Verifies(r, p) /\ Apply(r)>>_vars /\ Sure(r, p) => ~IsOpen(p)' \/ OtherSettled(p)
  BY VerifyCalls
<1>7. IInv /\ Decided /\ [Next]_vars /\ OrderIsPaid(p) /\ Sure(r, p) => Sure(r, p)'
  BY StaysSure
<1>8. At(r, "idle") => Sure(r, p)
  BY DEF Sure, Applying, At
<1> QED
  BY <1>1, <1>2, <1>3, <1>4, <1>5, <1>6, <1>7, <1>8, RequestEnds, OrderComesToPaid, DecidedInductive, PTL
  DEF Spec, Polls, Ends

\* Where no call fails, a charged row has ended with the charge, or because a
\* failure of it was announced.
LEMMA EndOfCharged ==
    ASSUME ~Faults, IInv, NEW p \in Payments, ChargedExactly(p), ~IsOpen(p)
    PROVE  row[p] = "success" \/ GivenUp(p)
<1>1. order[p] \notin {"none", "EXPIRED"} /\ charge[p] # "other"
  BY DEF IInv, World, Provider, ChargedExactly
<1>2. row[p] \in {"success", "failed", "cancelled"}
  BY <1>1 DEF IInv, TypeOK, World, OrderHasRow, Statuses, IsOpen
<1>3. row[p] \in {"failed", "cancelled"} => FailureDelivered(p)
  BY <1>1 DEF IInv, World, Truth, Left, Failed, FailureDelivered, Failures
<1> QED
  BY <1>2, <1>3 DEF GivenUp

\* By polling alone, and for any number of attempts and requests, a charge is
\* recorded as a success wherever no call fails, another attempt has not been
\* paid for and no announced failure has locked the row.
THEOREM ChargesAreFound == ~Faults /\ Requests # {} => (LiveSpec => ChargeIsRecorded)
<1> SUFFICES ASSUME ~Faults, NEW r \in Requests PROVE LiveSpec => ChargeIsRecorded
  OBVIOUS
<1>1. ASSUME NEW p \in Payments
      PROVE  LiveSpec => Spec /\ GoesOn(r) /\ Polls(r, p) /\ Collects(p)
  BY DEF LiveSpec, Fairness
<1>2. ASSUME NEW p \in Payments
      PROVE  LiveSpec => (charge[p] = "exact" ~>
                            \/ row[p] = "success"
                            \/ GivenUp(p)
                            \/ \E q \in Payments \ {p} : row[q] \in Settled)
  <2>1. LiveSpec => Spec /\ (ChargedExactly(p) ~> ~IsOpen(p) \/ OtherSettled(p))
    BY <1>1, PollingFinds
  <2>2. IInv /\ [Next]_vars /\ ChargedExactly(p) => ChargedExactly(p)'
    BY MoneyStays
  <2>3. charge[p] = "exact" => ChargedExactly(p)
    BY DEF ChargedExactly
  <2>4. IInv /\ ChargedExactly(p) /\ (~IsOpen(p) \/ OtherSettled(p)) =>
          \/ row[p] = "success"
          \/ GivenUp(p)
          \/ \E q \in Payments \ {p} : row[q] \in Settled
    BY EndOfCharged DEF OtherSettled
  <2> QED
    BY <2>1, <2>2, <2>3, <2>4, Inductive, PTL DEF Spec
<1> QED
  BY <1>2 DEF ChargeIsRecorded
=============================================================================
