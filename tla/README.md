# ProdBnb, in TLA+

A TLA+ model of the ProdBnb backend: the Express and Supabase API behind a
marketplace for production locations. Hosts list locations, bookers reserve and
pay for them through Cashfree, admins moderate. The modules here follow the
service layer under `src/src/modules`, the SQL functions, triggers and indexes
under `src/supabase/migrations`, and the Cashfree adapter under
`src/src/modules/payments/providers`. Paths below are relative to the `src/` that holds the
repository.

TLC checks each component on a small instance, TLAPS proves the properties that
matter most for every instance. `PROJECT.json` lists the runs, the definitions'
source lines, the hazards and the theorems.

    tlc -workers 2 -config MCBookings_all.cfg MCBookings
    tlapm BookingsProofs.tla

## The system

Every operation is one HTTP request. A request runs in a Node process that shares
nothing with any other but the database, the payment provider and the push
service; there are no transactions that span two calls. So each `await` of a
database or provider call is a point where another request may run, or where
this one may fail or its process be killed, and whatever was read before it may
be stale after it. What holds the system together is in the database: partial
unique indexes, one exclusion constraint, row-lock triggers, advisory locks, and
`UPDATE ... WHERE` conditions where the code has them.

| Component | State | Operations | What is hard |
|---|---|---|---|
| **Payments** `payments/payment.service.ts` | `payments`, `payment_webhook_events`; Cashfree's orders | create or resume an attempt, verify, webhooks | webhooks lost, repeated, late, out of order; the payer's success against expiry, a dropped checkout, a failed try; a status written by id on a stale read; crashes between row and order |
| **Refunds** `payments/payment.service.ts`, phase 12 trigger | `payment_refunds`, `payments.status` | admin refund, refund webhooks, recomputation of the payment's status | two admins share one balance; the answer of the provider against its webhook; read-sum-write; lost answers |
| **Bookings** `bookings/bookings.service.ts`, phase 6 | `bookings`, blocked periods | create (requested or instantly confirmed), confirm, reject, complete, cancel | check-then-insert races, two decisions on one booking, notices after the commit |
| **Moderation** `admin/{locations,users,audit}.service.ts`, `locations/locations.service.ts` | `locations.status`, `moderation_reason`, `suspended_by_host_suspension`, `profiles.status`, the audit log | approve, reject, suspend, restore; suspend and restore a host with the cascade; the host's and the admin's PATCH and DELETE | the cascade lists first and writes later; two write paths to one status |
| **Availability** `availability/*.service.ts`, phase 5 | weekly rules, date overrides, blocked periods | CRUD; `get_location_availability`, `is_interval_available` | interval arithmetic at boundaries; blocked periods against bookings |
| **Media and sections** `media`, `sections` services, phase 29 | gallery rows with positions, sections, storage objects | upload, complete, reorder, delete a photo; create, rename, delete a section | idempotent completion, positions under an advisory lock, a reorder without it, object and row deleted separately, a section counted empty before it is deleted, a cap that is counted first |
| **Messaging** `messaging/*.service.ts`, phase 27 | conversations, messages, read cursors | open, send (idempotent), page, mark read | a retry after a lost answer, messages that commit in another order than they are stamped, cursors of two devices, pages over a list that grows |
| **Notifications and devices** `notifications`, `devices`, phase 8 | `notifications`, `user_devices`, `notification_preferences`, delivery attempts | `notify` (once per source event), push, read, soft delete; registration | insert and push are separate; a loop over devices that were listed before; a token deactivated after it was registered again |
| **Pricing** `pricing`, `bookings/pricing.ts` | `location_pricing` | CRUD; the price of a booking | the dates a stay touches, its last instant excluded; a price that changes between the interval and the total |
| **Listing contents** `locations/locations.service.ts` | the three tag tables | `replaceTags`, in a PATCH or a POST | deletes before it inserts, kind after kind |
| Search, catalog, roles, profiles, middleware, admin reads, process | | single-row writes and reads | |

How they interact:

- Bookings asks Availability and inserts into the table that the exclusion
  constraint guards; it reads the listing's status, which Moderation writes.
- Payments reads the booking's status once, before it creates an attempt, and
  never again. A settled payment is the subject of Refunds; a payment webhook
  that arrives late writes the settled status back to the same row.
- Payments, Refunds, Bookings and Messaging call `notify` after their write, in a
  separate call whose failure `safeNotify` swallows. A notification row is unique
  per `source_event_id`.
- Moderation's suspension of a host is a filter of `requireAuth`, read once per
  request.

### What makes each component correct

- **Payments.** A row reads `success` only for money that arrived, `cancelled`
  only when its payer had left the checkout and its order was to be terminated; a
  charge is recorded even if no webhook ever comes, unless an announced failure of
  the attempt had ended its row before; a second checkout takes money beside a
  first only after such a failure, or a wrong amount; rows open one at a time and
  end once; the booker is told of a success and never of both ends.
- **Refunds.** Statuses never claim more than was paid back; never more is paid
  back than was charged; webhooks' verdicts stick; the payment's status follows
  from its refunds.
- **Bookings.** No two bookings of one listing reserve a common instant, each
  booking moves along the documented edges only, and nobody is told something
  that another decision contradicts.
- **Moderation.** A public listing carries no reason of an earlier decision;
  suspending and restoring a host gives back exactly what it took; a host never
  undoes an admin's decision; the audit log explains the status.
- **Media.** No two rows of a gallery share a position, only a reorder moves rows
  and leaves them `0..n-1`, no row is without its object or its section.
- **Messaging.** A retried send makes one message and one notice, a cursor never
  moves back, marking read changes the unread count by what it covers, the last
  message is the newest, paging shows everything once.
- **Notifications.** One row per cause, one push to each phone of its recipient
  and to nobody else's; a phone goes silent only when its app is gone.
- **Availability, pricing.** The gate admits a stay within one date exactly if all
  its hours are open and free, and one over several dates exactly if all are free
  and the first and the last are open; a booking costs its units at a rate its own
  type had while it was made.
- **Listing contents.** The tags of a kind are one request's choice.

## Plan

In order of importance. All but the last are done.

1. `Payments` with `Lifecycle`, its abstract specification; proofs.
2. `Refunds`, the other writer of `payments.status`, with `Ledger`, its abstract
   specification; proofs, the refinement among them.
3. `Bookings` with `Calendar`, its abstract specification; proofs, the refinement
   among them.
4. `Moderation`; proofs.
5. `Galleries`: media and sections, with `Album`, their abstract specification;
   proofs, the refinement among them.
6. `Messages` with `Thread`, its abstract specification; proofs, the refinement
   among them.
7. `Push`: notices, their delivery, devices and preferences; proofs.
8. `Offers`: availability, pricing and tags, and what a booking request makes of
   them; proofs.
9. A composition of bookings, payments and moderation, for what crosses them: a
   payment of a booking that is no longer open, a listing suspended with bookings
   on it. The code makes no promise about either, so it would have nothing to
   check yet.

Every property that a passing run checks is also a theorem. What happens in the end is proved of every
module: that requests end, or that what somebody is owed arrives. Only the end of
the fan-out of `Push` is not, see *Proofs*.

## Modules

| Module | What it is |
|---|---|
| `Payments` | the attempts of one booking: service, ledger, order, payer |
| `Lifecycle` | what the payment service promises, abstractly |
| `PaymentsProofs` | theorems about `Payments`, the refinement and liveness among them |
| `Refunds` | the refunds of one payment |
| `Ledger` | what a payment's refunds promise, abstractly |
| `RefundsProofs` | theorems about `Refunds`, the refinement and liveness among them |
| `Bookings` | the bookings of one listing, and its blocked periods |
| `Calendar` | what the booking engine promises, abstractly |
| `BookingsProofs` | theorems about `Bookings`, the refinement and liveness among them |
| `Offers` | the hours, prices and tags of one listing, and the way of a booking request through them |
| `OffersProofs` | theorems about `Offers`, liveness among them |
| `Moderation` | the listings of one host, and the host's status |
| `ModerationProofs` | theorems about `Moderation`, liveness among them |
| `Galleries` | the photos and sections of one listing, and their objects |
| `Album` | what a listing's galleries promise their visitors, abstractly |
| `GalleriesProofs` | theorems about `Galleries`, the refinement and liveness among them |
| `Messages` | the conversations about one listing |
| `Thread` | what messaging promises, abstractly |
| `MessagesProofs` | theorems about `Messages`, the refinement and liveness among them |
| `Push` | notices, their delivery, devices and preferences |
| `PushProofs` | theorems about `Push`, liveness among them |
| `MC*` | instances for TLC: symmetry, the spans, the settings |

### How state and actions correspond to the code

One action is one database or provider call with the synchronous code up to the
next one. A request is a record: `op`, the call it makes next (`pc`) and the
values it has read and will still use. A guard on a value read earlier therefore
reads the record, a guard the database evaluates (a unique index, an exclusion
constraint, a `WHERE status = ...`, row security) reads the current state. That
difference is what most of the properties are about.

`Abort` is a call that throws or a process that is killed, between any two calls.
Input validation and access checks that read one row and keep no state are a
guard of the first action; a refused request changes nothing and is not a step.

Reads of several rows in one statement are one step. Helper updates that hit
several rows in one statement (the cascade of a host's suspension) are one step
too; the select that listed them is a step of its own, before.

**Payments.** `row` is `payments.status`, `order`, `charge` and `session` are
Cashfree's side (`order` its order status, `charge` what the payer's money did,
`session` whether a response ever handed out the checkout), `event` follows each
webhook from the provider to `payment_webhook_events`: `received` is a ledger row
whose `processed_at` is null. `createPayment` is `CreateBegin`, `FindInFlight`,
`FindSettled`, `Insert`, `CreateOrder`, `RecordOrder` or `RecordFailure`; an
attempt in flight leads it through `Fetch`, `Resume` or `Apply`
(`resumeInFlightPayment`). `verifyPayment` is `VerifyBegin`, `Fetch`, `Apply`,
`Notify`. `handleWebhook` is `Deliver` (or `Redeliver`), `Lookup`,
`TerminateOrder`, `Apply`, `Notify`, `Finish`. `IndexesAllow` are the two partial
unique indexes. `Resolve` is `nextPaymentStatus` with the amount check: the
status to write, from the status the request has read. The provider's actions
(`PayerPays`, `PayerFails`, `OrderPaid`, `OrderExpires`, `OrderTerminates`) are
external and modelled from what the adapter reads of them. A termination takes its
time: `TerminateOrder` leaves an order `TERMINATED`, or `TERMINATION_REQUESTED`
until `OrderTerminates`. `MapOrderStatus` calls both `cancelled`, as the adapter
does (`CashfreeProvider.ts:63-65`), and while it is only requested, a try that is
under way may still come through (`Payable`): so a row can read `cancelled` and be
charged afterwards.

**Refunds.** `row`, `amt` and `pay` are the two tables; `prov` and `event` are the
provider's refund and its webhook. `createRefund` is `CreateBegin`, `ReadPrior`,
`Insert` (with the balance trigger), `CallProvider`, `Record` or `RecordFailure`.
A refund webhook is `Deliver`, `Lookup`, `RecordEvent`. Both end in
`recomputePaymentRefundStatus`: `ReadPayment`, `SumRefunds`, `WritePayment`,
`Notify`. `LateEventReads` and `LateEventWrites` are a late payment webhook. `fate`
maps a refund to `Ledger`, which knows neither rows nor webhooks: it is held from its
insert, paid or dropped when the provider ends it, and dropped when the row reads
`failed` and the provider never had it. Where an answer is lost the last does not
hold: the row reads `failed` while the provider has the refund, so there `Ledger` is
not implemented.

**Bookings.** `createBooking` is `CreateBegin`, `Check`, `Insert`, `TellHost` and
for an instant booking `TellBooker`. The four transitions are `TransitionBegin`,
`Write` (the compare-and-swap of `transitionBooking`), `FindHost` for a booker who
cancels, `Tell`. `span` is a set of instants, so the half-open ranges of the
exclusion constraint overlap exactly when two spans meet. Money is left out: no
step of a booking reads its price again.

**Moderation.** `DecideBegin`, `CheckHost`, `Write`, `Log` are the four decisions,
`UserBegin`, `WriteProfile`, `List`, `Write`, `Log` the suspension and restoration
of a host, `HostBegin`/`AdminBegin`, `Read`, `Insert`, `Patch`, `Delete` the
listing's own endpoints. `reason` is reduced to whether it is the host's or the
listing's; `logged` is the latest audit entry that names a listing.

**Galleries.** `gallery` and `pos` are `location_media.section_id` and `position`
(`NoGallery`: no row), `section` is `location_sections`, `object` the store.
`completeUpload` is `CompleteBegin`, `FindRecorded`, `Head`, then
`record_location_media` as `Lock` (section check, advisory lock, position) and
`Insert`. A request is at `insert` exactly while it holds the lock of its gallery,
so `Locked` reads it off the requests. `reorderMedia` is `ReorderBegin`,
`ReadGallery`, then `reorder_location_media` as `Check` and `Renumber`: under READ
COMMITTED each statement sees what is committed by then, so others come in
between. The two passes are one step: the first locks the rows the second writes.
`deleteMedia` is `DeleteBegin`, `DeleteObject`, `DeleteRow`; the sections are
`CreateSectionBegin`, `InsertSection` and `DeleteSectionBegin`, `CountMedia`,
`DeleteSection`, with the foreign key as `Deletable` and in `Insert`. `Album` knows
no positions: its `before` is the `ORDER BY position` of each gallery, its `asked`
the orders that a reorder has read its gallery for and not written yet. The
galleries implement it where positions differ (`Ordered`: no client states one, and
no reorder overlaps); elsewhere `before` need not be an order at all.

**Messages.** `conv`, `msg` and `cursor` are the three tables, `now` the
database's clock, `told` the `new_message` rows among the notifications. Opening is
`OpenBegin`, `InsertConversation`, `FindConversation`, `View`; sending is
`SendBegin`, `Commit` (insert and `touch_conversation_on_message`, one
transaction), `FindMessage` after the unique index refused a repeat, `Notify`;
marking read is `ReadBegin` and `Advance`, the upsert with its `WHERE`. A message
takes `created_at = now()` when its transaction starts, which `SendBegin` records,
and is visible at `Commit`, so a later stamp may commit first. `walk` is a client
that pages through a list: `WalkBegin`, `WalkPage`, `WalkAgain`, with the keyset
and the cursor of `cursor.ts`. `Thread` knows only who has said what and how far
each reader has read.

**Push.** `device`, `pref` and `notice` are the three tables; `dead` is what Apple
knows of uninstalled apps, `tries` counts the sends of each cause to each token, so that
a second one shows. `notify` is `Trigger`, `InsertNotice` (unique per source event),
`ReadPreference`, `ListDevices`, then for each row of that list `Send`, `Log`
(retries and errors swallowed as in `deliverPush`) and `Deactivate`. Users act by
`RegisterDevice` (the upsert on the token), `RemoveDevice`, `Uninstall`,
`UpdatePreferences`, `Read`, `ReadAll` and `Delete`. `past` is a history variable:
of each cause, what was so of preferences and phones since it was notified.

**Offers.** Time is counted in hours of the listing's zone, `DayLength` to a date.
`rule`, `override` and `block` are the host's hours, `Scheduled`, `Taken`, `Open`
and `Windows` the SQL function that turns them into windows, and
`IsIntervalAvailable` the gate with its walk from window to window over midnight.
A booking is `BookBegin`, `ResolveTimes` or `ResolveDay` or `ResolveDays` (one call for
each end), `CheckInterval`, `ReadPrice`, `InsertBooking`; `EndBooking` is whatever
ends an active booking. The host's calls are one action each, since they read only
who owns the listing. A PATCH of the tags is `PatchBegin`, and for each kind
`DeleteTags` and `InsertTags`. `Host` is what the host changes in an execution.
`OpenAt`, `FreeAt` and `OnOffer` say again, hour by hour, what the windows are for;
they are not part of the model. Nor is `had` in a request, a history of the prices
its type has had since it began, which `BookBegin` starts and every change of a
price adds to (`Remembered`); `BookedAsOffered` needs it to say *whose* rate it is.

### What an execution may meet

A promise of this code often holds only in part of the executions: if no call
fails, say, or if requests do not overlap. All modules but `Payments` therefore
carry a variable `may`, chosen once in `Init` from the constant
`Settings` and never changed. It is the set of words for what the execution may
meet; guards of `Abort` and its like ask it. A property says in its own text which
executions it is about (`"fail" \notin may => ...`), and one run covers all
settings. Widening the guard of a property by one word is how each was found to
be as wide as the code allows; the hazards in `PROJECT.json` note what goes wrong
beyond it. `Payments` has the constant `Faults` for the same purpose.

| Word | Meaning | Modules |
|---|---|---|
| `race` | a request may begin while another is at work (in Offers and Push: the users act then, too) | Refunds, Moderation, Galleries, Messages, Push, Offers |
| `fail` | calls fail, requests die | all |
| `kill` | the process that serves a request dies | Push (where `fail` is a call that fails) |
| `lose` | the provider's answer is lost after it took the refund | Refunds |
| `late` | payment webhooks arrive after the payment succeeded | Refunds |
| `host` | the host changes listing and blocks while requests are at work | Bookings |
| `patch` | admins set a status through `PATCH /locations/:id` | Moderation |
| `stated` | clients state positions in their completions | Galleries |
| `delete`, `reorder` | photos are deleted, galleries reordered | Galleries |
| `open`, `two` | conversations are opened; there are two to begin with | Messages |
| `read`, `walk`, `inbox` | conversations are marked read; messages, or conversations, are paged through | Messages |
| `disabled` | no push provider is configured | Push |
| `many` | more than one cause is notified | Push |
| `inbox`, `phones`, `taste` | notices are read and deleted; phones come and go; preferences are set | Push |
| `rules`, `dates`, `blocks`, `prices`, `tags` | the host changes these | Offers |
| `book` | bookers book | Offers |

## Runs

| Run | Instance | Question |
|---|---|---|
| `payments_serial` | 2 attempts, 1 request, faults, wrong and unreported amounts | Does one request at a time keep the whole promise (`KeepsLifecycle`, the abstract specification)? Are notices consistent (`NotesAgree`)? Yes. Can two orders of the booking take money? Only if one belongs to a row that a failure the provider announced, or a wrong amount, had ended (`OneCheckout`). |
| `payments_two` | 1 attempt, 2 requests, wrong amounts, webhooks optional, no faults | Can an interleaving record or tell of a payment nobody made (`SuccessIsReal`), leave an order unknown or cancel one whose payer had not left (`OrdersAreKnown`)? No. Does an attempt that has ended stay so (`EndsStay`)? Yes, unless some request held a status it had read before that. Is every charge recorded (`ChargeIsRecorded`)? Yes, unless an announced failure had ended the row before. Is every recorded success told (`PaidIsTold`)? Yes. |
| `refunds` | 2 refunds of a payment of 3 units, 2 requests, every setting | Is `Ledger` implemented, so that no more is ever held and paid than was charged? Yes, unless an answer is lost. Do the statuses claim too much? No. Do they follow the refunds? Yes, when requests follow one another. |
| `bookings` | 2 bookings, 2 requests, 1 block, spans `{1}` and `{1,2}`, two settings | Is `Calendar` implemented, is every verdict told and every notice true, and was what was booked open? Yes. |
| `moderation` | 1 listing, 2 requests, every setting | The promises of the comments, each in the widest setting that keeps it. |
| `messages` | 2 bookers, a host, 2 conversations, 2 messages, pages of one, a clock to 4, 2 requests, five settings | Is `Thread` implemented? Is the last message the newest, each message told, each unread count right, each walk complete? Yes. |
| `push` | 2 users, a phone and a tablet in different APNs environments, 3 causes (two of one conversation), 2 requests, six settings | Is each cause pushed to every phone it should reach, to no other, once? Do only phones whose app is gone go silent? Yes. |
| `offers` | 3 dates of 4 hours, 3 rules, 2 blocks, moving prices of 2 types, 2 requests, seven settings with one kind of change each | Does the gate admit exactly what is on offer? Does a booking cost its units at a rate its own type had since the request began, and, undisturbed, cover the stay its type says? Are the tags of a kind one choice or none, when requests follow one another? Yes. |
| `galleries` | 2 media, 3 sections under a cap of 1, 2 requests, five settings | Is `Album` implemented? Do positions stay apart, do rows keep object and section, does only a reorder move rows, and exactly as it was told? Yes, in the executions each property names. |

Three more runs, `payments_lockout`, `payments_regress` and `payments_twice`, each
check one sentence of the source that the code does not keep; see below.

### Why the bounds are enough

- *One booking, payment, listing or host.* Rows of different ones share no index,
  lock or event. In Moderation two listings of a host meet only in the cascade's
  list, whose membership is decided per listing.
- *Two requests.* Every anomaly in this code is a read by one request and a write
  by another before the first one writes. A third request can only do again what
  the second may already have done, since a request that has ended begins anew as
  any other operation, any number of times.
- *Two attempts, refunds, bookings.* Indexes, balance and exclusion relate two
  rows. A failed attempt followed by a fresh one needs two. A payment of three
  units allows partial refunds that do and do not add up to it.
- *Faults of Payments* are in the run with one request and two attempts, the
  interleavings of two requests in the run without faults. The theorems cover
  both at once: `SuccessReal`, `OrdersKnown` and `EndsKept` hold for any number of
  attempts and requests, with faults.
- *Spans `{1}` and `{1,2}`* are equal or overlap without being equal. Bookings
  that do not meet constrain nothing.
- *Two media, three sections, positions to 2.* Positions relate two rows of one
  gallery; with the general gallery there are four, so that rows and requests may
  share one or not. Under a cap of one section, two requests that race may make two
  (`CapNearlyKept` allows as many); a third section is there so that one more could
  be made if the code were wrong. Position
  2 stands for the largest integer: one beyond it a completion fails, as in the
  column. A setting in which less happens is part of one in which more does, so
  the five in `MCGalleries` are the largest each property speaks of.
- *Two bookers, two messages, pages of one.* Order, unread counts and cursors
  relate two messages; a page of one row has a next page as soon as there are two.
  Two conversations with one host are what an inbox pages through. A clock that
  reads to 4 lets two messages have one stamp or two, in either order of commit.
- *Two phones, in different environments, one of them the default.* A push goes
  wrong for a phone by going to the other's environment or owner; two owners and
  two causes of one recipient are enough for a duplicate and a mix-up.
- *Three dates of four hours.* A stay over midnight has a first, a last and, if it
  is long, a middle date; the first and the last are one weekday, so a rule holds
  for both. Four hours hold a gap, two windows and closed ends. Two blocks and a
  booking abut, meet or leave a gap. The settings change one kind of hours at a
  time: the theorems of `OffersProofs` cover the combinations.
- *Prices of two types move* (`Moving`: the half day, whose length is read with one
  query and whose rate with another, and the day), with two rates and two lengths,
  so a rate of the other type, an old length or a switched-off price would show.
  While they move, bookers ask for one stay of each of three types (`Few`), and a
  request lives through two prices of its type at most (`MaxHad`), which is one
  change between its two readings. A choice of tags has two members, one or none.
- *One failed try an order*, and one charge an order, which is Cashfree's own rule.
- Symmetry is used for safety runs only. The names of rows and requests occur
  nowhere but as indices.

`CHECK_DEADLOCK FALSE` is set for Payments, where the world may really stop: all
attempts ended, the booking closed, nothing left to verify. It is set for Messages
too, where the ids and the clock of the instance are used up.

### Fairness

The `LiveSpec` of `Payments` assumes, and the code justifies:

- `GoesOn(r)`, weak fairness of `Step(r)`: a request that has begun goes on. Node
  resumes every `await`.
- `Polls(r, p)`: booker, host or admin asks `POST /payments/:id/verify` again while
  the attempt is open (strong fairness of `VerifyBegin(r, p)`), and not every such
  verify dies in the same call (strong fairness of its `Fetch` and `Apply`). The
  clients are not in the repository; the service relies on it: it has no job that
  reconciles open attempts, and verify is its check "independent of webhook timing"
  (`payment.service.ts:468-472`). The fairness is strong because other requests may
  come in between.
- `Collects(p)`, weak fairness of `OrderPaid(p)`: the provider brings a charged
  order to `PAID`.

Each is written out as what it says of infinite executions, with the guard of its
step by name (`MayVerify`, `Fetching`, `Applying`, `MayCollect`) where `WF` and `SF`
have `ENABLED`, so that the run and the theorems are about one formula. The guards
are those of the actions; a request that is not idle always has a step.

Nothing is assumed of webhooks: `payments_two` shows that polling alone records
every charge, but for two kinds. A row that an announced failure of the attempt had
ended (`GivenUp`) is never polled again: the lockout of `payments_lockout`, and the
late charge of an order whose termination was only requested. And an attempt whose
booking another attempt has paid for: the unique index then refuses the second
success, for good.

In the other modules fairness is an assumption of theorems only, so it is stated in
their proof modules, and without `ENABLED`: a request steps again and again, or comes
to rest again and again (in Messages only the notice of a sent message is asked to go
on). It is what Node does, which resumes every `await` with an answer or an error.
Two of them assume more. In
Galleries a request may have to wait for a lock, so its fairness is strong
(`Ready`): the database hands a lock that is free again and again to everyone in
its queue. In Refunds the provider repeats a webhook until the ledger has it
(`Repeats`); without that a refund whose row reads `pending` may read so for ever,
since nothing polls refunds.

## What the source says and the code does not do

Each is a run of its own whose one property quotes the sentence, and whose
counterexample is an execution of the code.

1. **A failed try locks out a later success** (`payments_lockout`,
   `FailedIsUncharged`). The comment at `payment.service.ts:123-127` calls this
   the most important invariant of the phase; the polling path keeps it, but a
   `PAYMENT_FAILED` webhook makes the row `failed`, which is terminal, while the
   order stays payable. Verify returns terminal rows as they are.
2. **A payment can regress** (`payments_regress`, `NeverRegresses`).
   `applyPaymentStatusUpdate` resolves against the status it read earlier and
   updates by id, so a request that had read `pending` writes over a `success`.
   `transitionBooking` shows the compare-and-swap that would prevent it.
3. **A payer can be charged twice** (`payments_twice`, `ChargedOnce`). The comment
   at `payment.service.ts:231-236` says that "a booking can never accumulate two
   live orders and a payer can never be charged twice". That is so of a retry after
   a network failure, which resumes. But the row that a declined try made `failed`
   is in flight no more while its order is left payable (`:700-702`), so the next
   `POST` opens a second order, and both can be paid; the index on settled attempts
   lets only one of the charges be recorded. `OneCheckout` says that nothing but
   such a failure, or a wrong amount, leads there.

Other places where the code does not do what a sentence beside it says, or what
one would expect. They are guards of properties or notes of hazards:

- *A dropped checkout may still be charged.* Its webhook makes the row `failed` even
  where the termination failed or is only requested, and a verify in between reads
  the request as `cancelled`; a try under way then comes through, and its success
  meets a terminal row.
- *A redelivery may be acknowledged unprocessed.* The ledger row precedes the
  processing; if the first delivery dies in between, the redelivery meets the
  unique key and is taken for "exact redelivery of a webhook already processed"
  (`payment.service.ts:666`).
- *A payment's status may stay behind its refunds* (`docs/DATABASE.md:930-931`).
  `createRefund` writes `pending`, the provider's first answer, by id over the
  `success` a webhook has written meanwhile (`:602`), and two recomputations may
  write in the wrong order (`:485-516`).
- *A booker's cancellation is not told to the host* (`bookings.service.ts:497-503`,
  `docs/DATABASE.md:1032`) when the listing is no longer published: row security
  hides it from the booker's client, and the notification is skipped.
- *A retried send whose first request died is never told.* `messages.service.ts:204-208`
  skips the notice since "the counterparty was already notified for it".
- *A message may arrive already read*: stamped early and committed after its reader
  has marked a later one read (`phase27_7_read_state.sql:29-35`,
  `docs/API.md:1439-1446`).
- *A refused PATCH strips tags.* `replaceTags` deletes before the insert that an
  unknown id makes fail; a POST that fails so leaves a draft behind.
- *A position that is the largest integer* makes every later completion in its
  gallery fail, until a reorder.
- An admin's PATCH to `published` leaves `moderation_reason` in the public detail,
  which `locations.service.ts:14-19` takes to be null by construction.
- A row whose order never came to be blocks its booking for good, since
  `fetchOrder` of an unknown order throws.
- A failed cascade cannot be retried, because the profile was written first;
  `restoreLocation` republishes a listing whose host is suspended.
- A block or an unpublication between the availability check and the insert is not
  noticed; nothing resends a notification.
- A reorder takes no lock, so a completion and a second reorder that come between
  its checks and its passes can put two rows on one position. A completion repeated
  while its photo is deleted brings the row back without the object, and a deletion
  that dies half-way leaves it so. Each overlapping request may exceed the cap on
  sections by one.

## Proofs

For every value of the constants (any number of rows, requests, users, dates and
settings), from the assumptions the modules name. They say no more than that the
"no row" values are not rows, that the settings' words are the known ones, that
what is counted is finite, and:

| Module | Assumptions beyond that |
|---|---|
| Refunds | `AmountAssumption`: the payment's amount is a positive number |
| Bookings | `SpansAssumption`: no span is empty |
| Galleries | `BoundsAssumption`: positions fit their column; `FiniteAssumption`: there are requests |
| Messages | `NumbersAssumption`: ids and times are numbers, the clock reads past 1, pages hold something |
| Push | `TokensAssumption`: each token belongs to one environment; `CausesAssumption`: a trigger is about one entity |
| Offers | `CalendarAssumption`: dates are numbered and have hours; `WeeksAssumption`: the rows there are at first satisfy the tables' checks; `NumbersAssumption`, `MovingAssumption`: prices are numbers, a half day ends within its date |

- **Payments** (`PaymentsProofs`): `TypeCorrect`, `SuccessReal`, `OrdersKnown`,
  `EndsKept`. None of the properties is inductive, since a request writes what it
  decided earlier. The invariant adds `Held`: what a request is about to write will
  be true when it writes it, because the facts it relies on are monotone (money once
  charged stays charged, an order once terminated stays so); and `Owners`: an order
  is created by the one request that inserted its row. The facts about rows, events
  and provider are the conjuncts of `World`. For `EndsKept`, `Firm` and `Decided` say
  that a request whose reading is not stale decides on an ended row to leave it. For
  requests that follow one another (`OneRequest`, and the instance of
  `payments_serial`) there are also `Implements` (the refinement of `Lifecycle`),
  `NoticesAgree` and `SecondNeedsAFailure`: what the one request has read is still so
  when it writes (`Current`), so an attempt opens only where none is open or paid,
  and ends once (`RowMoves`, `Orderly`). For the last, every row that reads `failed`
  is accounted for (`Shut`): its checkout was never handed out, its order expired,
  or a failure of it was announced or a wrong amount taken.
  In the end: `RequestsEnd`, since every step leaves a request with fewer calls to
  make (`CallsLeft`); `SuccessIsTold`, without faults, since some request owes the
  notice until it sends it (`Owed`, `Telling`); and `ChargesAreFound`, without faults
  and if there are requests at all, since a verify that fetches a paid order is
  going to write `success` (`Sure`), unless an announced failure has ended the row
  (`GivenUp`), which the theorem excepts because the code does not record the charge
  there.
- **Bookings** (`BookingsProofs`): `TypeCorrect`, `NoticesTrue`, `Implements`
  (the refinement of `Calendar`: only `Insert` and `Write` touch it, the first is
  `Book` by the exclusion constraint, the second `Decide` by the compare-and-swap)
  and `NoDoubleBooking`, from the abstract invariant that bookings stay apart.
  `Held` says that a request that is to tell something tells what is so.
  `VerdictsTold`: a verdict has been told or some request still owes it (`Owes`,
  `NothingForgotten`), unless a call fails. `BookedOpen`: what was checked is still
  so at the insert when the host is not at work (`Checked`).
  In the end: `RequestsEnd`, and `VerdictsReachTheirReaders`: unless a call fails,
  what `VerdictsTold` says is owed is sent, since the request that owes it ends.
- **Moderation** (`ModerationProofs`): `TypeCorrect` and `PublishedClean`. `Held`
  says that a PATCH in progress asks for `published` only in executions where
  admins may; every other write sets status and reason together.
  `LogTellsAll`, `CascadesSpareOthers` and `HostsLeaveDecisions` rest on `Order`:
  what the one request at work has read is still so (`Knows`), and the log tells
  what happened but for the entry that request has still to write (`Tale`).
  In the end: `RequestsEnd`, since each call leaves a request with fewer to make: a
  cascade writes all of its listings in one. `CascadesFinish`: where requests follow
  one another and none fails, a suspension that has written the profile comes to a
  state in which no listing is published, since what it listed is still all that
  there is (`SuspensionStep`); and, if no admin publishes by `PATCH` either, a
  restoration comes to one in which no listing carries the suspension's flag
  (`RestorationStep`).
- **Refunds** (`RefundsProofs`): `TypeCorrect`, `StatusReal`, `PaidBackBounded`,
  `StatusFollows`, `TakenRecorded`, `Implements` (the refinement of `Ledger`). `Told` and `Recorded` relate a refund's row, its
  end at the provider and its webhook; `Holds` says that what a request holds is or
  was so, `Apart` that one request alone asks the provider for a refund. What was
  paid back only grows, so a status decided on an older sum says too little at
  worst. Sums of amounts are counted as sets of units, so that the library's facts
  about finite sets apply. In the refinement an insert is `Hold`, since what is held
  or paid is among what the trigger counts (`HeldIsCommitted`); the provider's end,
  and a failure it never heard of, are `Pay` or `Drop` (`ProviderDecides`,
  `RowWritten`); a status written is a `Claim`; and every other step changes the fate
  of no refund (`FateStays`). That no more is paid back than was charged
  (`PaidBackBounded`) is what is left of it when only money is looked at.
  In the end: `RequestsEnd`, and for requests that follow one another without
  failing `PaybacksAreShown`: a refund that was paid back has been announced
  (`Announced`), its webhook is taken, and from then on row and payment show it
  whenever nothing is in progress, which happens again and again (`RestComesBack`).
- **Messages** (`MessagesProofs`): `TypeCorrect`, `LastNewest`, `SentTold`,
  `UnreadExact`, `WalkExact` and `Implements` (the refinement of `Thread`: a commit is a `Post`
  at most once for a key, an advance is a `Read`). `Stored` is what the unique keys
  and the trigger see to, `Held` what a request has found out, and `Serial` that
  without overlaps every stored time is past. A walk through the pages has an
  invariant of its own (`Walking`): what is due has been shown or lies below the
  cursor, because a page is exactly the top of what lies below it (`PageIsTop`).
  In the end: `MessagesAreTold`: unless a call fails, a stored message is told, and
  neither goes away again.
- **Push** (`PushProofs`): `TypeCorrect`, `FanOutWhole`, `RecipientReached`,
  `Stamped`, `LostGoSilent`. A fan-out works through a list that was read before:
  `Knows` says of a request that what it still has to send, and what was sent, are
  together what was listed; `Kept` says of a cause that nothing is sent twice or to
  a phone that was never its user's; `Unique` that one request alone delivers a
  cause, because one alone inserted its notice.
  In the end: `CausesAreNotified`: unless a call fails or a process dies, every cause
  has its notice, for good, and its recipient's preference and phones have been
  looked at. A cause without a notice has a request that is to insert it, one with a
  notice that is not judged has a request that delivers it (`Kept`), and each of them
  does so with one of its next calls (`InsertsUntilThere`, `WeighsUntilJudged`,
  `ListsUntilJudged`).
- **Offers** (`OffersProofs`): `TypeCorrect`, `GateExact`, `Booked`,
  `TagsOneChoice`. The gate works on windows, the promise is about hours: hours in a
  row that are open lie in one window, whose ends are found as least and greatest
  numbers (`WindowAround`), in every state whose rows satisfy the tables' checks
  (`Shape`). So `GateExact` says of a stay within a date that each hour is open and
  free, and of one over several dates that each hour is free and its two ends are
  open, which is all that the SQL function asks. `Known` splits what a booking
  request has found out into what stays so whatever a host does (`Found`: its rate
  and its half day are of prices it lived through, and those are remembered,
  `Lived`) and what stays so
  without interference (`Current`: there was one price, the one of now). `Booked`
  says accordingly: a rate, and a half day, that its own type had since the request
  began; and of requests that follow one another the price of now, and the stay.
  In the end: `RequestsEnd`, with the hypothesis that there are at most three tag
  tables (`ThreeTables`), as there are: a PATCH then has eight calls to make at most.
- **Galleries** (`GalleriesProofs`): `TypeCorrect`, `PositionsDiffer`,
  `SectionsStay`, `MovesTold`, `Implements`, `ShownStored`, `CapKept`. A position
  computed under the lock is inserted a step later; `Fresh` says that it is still
  beyond all others of its gallery, `Alone` that nobody else is adding to it, and
  `Whole` that a reorder that does not overlap renumbers every row of its gallery
  and nothing else. So the refinement of `Album`: an insert appends
  (`InsertAppends`), and a reorder writes the one arrangement that is asked for
  (`AskedAlone`, `RenumberArranges`). `Stocked` says that a row, or one about to be
  inserted, has its object unless a deletion of it is in progress; `Counted`
  bounds the sections there are, and those announced, by the cap and one for each
  further request.
  In the end: `RequestsEnd`. Whoever holds a gallery's lock lets go of it with its
  next call, and nobody else holds it (`LetsGo`), so that every lock comes free again
  and again (`LocksOpen`) and nobody waits for ever (`NobodyIsStuck`).

What is out of the prover's reach and left to TLC, or open:

- The end of a fan-out (`Push`): it goes through a list of any length, so the number
  of calls left has no bound to count down from, and needs an induction over data.
  What is proved of it is that no listed phone is left out when it ends
  (`FanOutWhole`) and that it is begun (`CausesAreNotified`). The tag tables of
  `Offers` are a set of any size, too, but the code has three.
- `KeepsLedger` is a theorem of the executions in which no answer of the provider is
  lost. With a lost answer two refunds of the whole amount can both be paid, as the
  hazard at `payment.service.ts:595` says.
- `KeepsLifecycle`, `NotesAgree` and `OneCheckout` are theorems of one request at
  a time, and no more is true: with two requests, `NeverRegresses` refutes the
  first.

## Not modelled

- Time zones whose offset changes, the rounding of a part of an hour, and currency:
  Offers counts whole hours of one zone.
- The broadcast of a new message, the text of a push and the provider token's
  signature: nothing is stored or read back.
- Signatures, HTTP, JSON shapes, schemas, rate limits' counters, authentication:
  I/O and single-request filters. Their refusals are guards where they matter.
- Search, catalog, dashboards and the other reads: they change no state.
- Names of sections, and the deletion of a listing with its galleries.
- Roles, profiles, and the texts, addresses and limits of a listing: single-row
  writes without a protocol.
- Row security, except where a read through it decides a step (`FindHost`).
- Bookings, payments and moderation together: see the plan.
- Time itself, but for the stamps of messages. An expiry, a late webhook or an
  expired request is a step that may happen whenever it could.
