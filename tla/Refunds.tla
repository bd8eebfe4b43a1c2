------------------------------ MODULE Refunds -------------------------------
(***************************************************************************)
(* The refunds of ONE payment that has succeeded: the second half of        *)
(* src/src/modules/payments/payment.service.ts and the balance trigger of   *)
(* the phase 12 migration.  A handler is one HTTP request: an admin's       *)
(* createRefund, a REFUND_* webhook, or a payment webhook that arrives late *)
(* and writes back the settled status it had read.  As in module Payments,  *)
(* each action is one database or provider call.                            *)
(***************************************************************************)
EXTENDS Naturals, FiniteSets

CONSTANTS
    Refunds,        \* ids of refund attempts (bound: refunds of a payment)
    Handlers,       \* concurrent HTTP requests (bound: requests in progress)
    NoRefund,       \* "no refund chosen yet"
    Amount,         \* the payment's amount, in minor units
    Settings        \* what executions may meet, each a value of may

ASSUME RefundsAssumption == IsFiniteSet(Refunds) /\ NoRefund \notin Refunds
ASSUME AmountAssumption == Amount \in Nat \ {0}
ASSUME SettingsAssumption == Settings \subseteq SUBSET {"race", "fail", "lose", "late"}

VARIABLES
    may,      \* what happens in this execution: requests that overlap ("race"),
              \* calls that fail and handlers that die ("fail"), answers lost
              \* after the provider has taken the refund ("lose"), payment
              \* webhooks that come after the payment succeeded ("late")
    pay,      \* payments.status
    row,      \* payment_refunds.status, "absent" before the insert
    amt,      \* payment_refunds.amount_minor_units, 0 before the insert
    prov,     \* the provider's refund (external)
    event,    \* each refund's final webhook: unsent, sent, or in the ledger
    noted,    \* was refund_processed notified?
    h         \* each handler: where it is and what it has read

vars == <<may, pay, row, amt, prov, event, noted, h>>

-----------------------------------------------------------------------------
PayStatuses    == {"success", "partially_refunded", "refunded"}
TerminalRefund == {"success", "failed", "cancelled"}
RefundStatuses == {"pending"} \cup TerminalRefund

Labels == {"idle", "prior", "insert", "call", "record", "recordFailure", "lookup",
           "recordEvent", "readPayment", "sumRefunds", "writePayment", "notify", "writeBack"}

HandlerStates ==
    [pc   : Labels,
     ref  : Refunds \cup {NoRefund},
     amt  : 0 .. Amount,                          \* the amount requested
     to   : RefundStatuses \cup {"none"},         \* the refund status to write
     seen : PayStatuses \cup {"none"},            \* pay when it was read
     next : PayStatuses \cup {"none"}]            \* the payment status to write

Idle == [pc |-> "idle", ref |-> NoRefund, amt |-> 0, to |-> "none",
         seen |-> "none", next |-> "none"]

At(i, label)  == h[i].pc = label
Become(i, s)  == h' = [h EXCEPT ![i] = s]
Goto(i, l)    == h' = [h EXCEPT ![i].pc = l]
Done(i)       == Become(i, Idle)

AllIdle       == \A i \in Handlers : At(i, "idle")
Free(i)       == At(i, "idle") /\ ("race" \in may \/ AllIdle)

\* The sum of the amounts of some refunds, counted unit by unit.
Units(S)      == {u \in S \X (1 .. Amount) : u[2] <= amt[u[1]]}
Total(S)      == Cardinality(Units(S))
Committed     == Total({f \in Refunds : row[f] \in {"pending", "success"}})
Refunded      == Total({f \in Refunds : row[f] = "success"})
PaidBack      == Total({f \in Refunds : prov[f] = "success"})

\* Mutant of StatusFor: any refund is a full one.
StatusForAny(total) == IF total = 0 THEN "success" ELSE "refunded"

\* recomputePaymentRefundStatus: the status a sum of successful refunds means.
StatusFor(total) ==
    IF total = 0 THEN "success"
    ELSE IF total >= Amount THEN "refunded" ELSE "partially_refunded"

-----------------------------------------------------------------------------
(* POST /payments/:id/refunds: createRefund, called by an admin.            *)

\* The read of the payment and the check on its status.
CreateBegin(i) ==
    /\ Free(i)
    /\ pay \in {"success", "partially_refunded"}
    /\ Goto(i, "prior")
    /\ UNCHANGED <<may, pay, row, amt, prov, event, noted>>

\* The sum of the refunds pending and done; an amount beyond what remains is
\* refused.
ReadPrior(i) ==
    /\ At(i, "prior")
    /\ \/ \E a \in 1 .. Amount :
            /\ Committed + a <= Amount
            /\ Become(i, [Idle EXCEPT !.pc = "insert", !.amt = a])
       \/ Done(i)
    /\ UNCHANGED <<may, pay, row, amt, prov, event, noted>>

\* Mutant of BalanceAllows: the trigger is dropped.
BalanceAllowsAny(a) == TRUE

\* enforce_refund_balance: the same check again, under the payment's row lock.
BalanceAllows(a) == Committed + a <= Amount

\* The insert of a pending row, or the trigger's refusal.  (When the bound on
\* refunds is reached the insert fails too.)
Insert(i) ==
    LET a == h[i].amt IN
    /\ At(i, "insert")
    /\ \/ \E f \in Refunds :
            /\ row[f] = "absent" /\ BalanceAllows(a)
            /\ row' = [row EXCEPT ![f] = "pending"]
            /\ amt' = [amt EXCEPT ![f] = a]
            /\ Become(i, [Idle EXCEPT !.pc = "call", !.ref = f])
       \/ /\ ~BalanceAllows(a) \/ \A f \in Refunds : row[f] # "absent"
          /\ Done(i)
          /\ UNCHANGED <<row, amt>>
    /\ UNCHANGED <<may, pay, prov, event, noted>>

\* provider.createRefund: accepted (as pending or already ended) or not; a call
\* that throws may have reached the provider.
CallProvider(i) ==
    LET f == h[i].ref IN
    /\ At(i, "call")
    /\ \/ \E s \in RefundStatuses :
            /\ prov' = [prov EXCEPT ![f] = s]
            /\ event' = IF s \in TerminalRefund THEN [event EXCEPT ![f] = "sent"] ELSE event
            /\ Become(i, [Idle EXCEPT !.pc = "record", !.ref = f, !.to = s])
       \/ "fail" \in may /\ Goto(i, "recordFailure") /\ UNCHANGED <<prov, event>>
       \/ /\ "lose" \in may /\ Goto(i, "recordFailure")
          /\ prov' = [prov EXCEPT ![f] = "pending"]
          /\ UNCHANGED event
    /\ UNCHANGED <<may, pay, row, amt, noted>>

\* Mutant of Record: the payment's status is not recomputed.
RecordAndStop(i) ==
    /\ At(i, "record")
    /\ row' = [row EXCEPT ![h[i].ref] = h[i].to]
    /\ Done(i)
    /\ UNCHANGED <<may, pay, amt, prov, event, noted>>

\* The write of the provider's answer, by id alone.
Record(i) ==
    LET f == h[i].ref IN
    /\ At(i, "record")
    /\ row' = [row EXCEPT ![f] = h[i].to]
    /\ Become(i, [Idle EXCEPT !.pc = "readPayment"])
    /\ UNCHANGED <<may, pay, amt, prov, event, noted>>

\* The catch of createRefund.
RecordFailure(i) ==
    /\ At(i, "recordFailure")
    /\ row' = [row EXCEPT ![h[i].ref] = "failed"]
    /\ Done(i)
    /\ UNCHANGED <<may, pay, amt, prov, event, noted>>

-----------------------------------------------------------------------------
(* REFUND_SUCCESS and REFUND_FAILED webhooks: handleWebhook and             *)
(* applyRefundEvent.                                                        *)

\* The ledger takes the event: a redelivery of it is ignored from here on.
Deliver(i, f) ==
    /\ Free(i) /\ event[f] = "sent"
    /\ event' = [event EXCEPT ![f] = "taken"]
    /\ Become(i, [Idle EXCEPT !.pc = "lookup", !.ref = f])
    /\ UNCHANGED <<may, pay, row, amt, prov, noted>>

\* Mutant of Lookup: a failed refund's webhook is dropped.
LookupSuccessOnly(i) ==
    LET f == h[i].ref IN
    /\ At(i, "lookup")
    /\ IF row[f] \in TerminalRefund \/ prov[f] # "success"
       THEN Become(i, [Idle EXCEPT !.pc = "readPayment"])
       ELSE Become(i, [Idle EXCEPT !.pc = "recordEvent", !.ref = f, !.to = prov[f]])
    /\ UNCHANGED <<may, pay, row, amt, prov, event, noted>>

\* The read of the refund; a terminal one is left alone.  A cancellation is
\* normalized to REFUND_CREATED, which changes no row.
Lookup(i) ==
    LET f == h[i].ref IN
    /\ At(i, "lookup")
    /\ IF row[f] \in TerminalRefund \/ prov[f] = "cancelled"
       THEN Become(i, [Idle EXCEPT !.pc = "readPayment"])
       ELSE Become(i, [Idle EXCEPT !.pc = "recordEvent", !.ref = f, !.to = prov[f]])
    /\ UNCHANGED <<may, pay, row, amt, prov, event, noted>>

\* The write of the event's end, by id alone; its error is not looked at.
RecordEvent(i) ==
    /\ At(i, "recordEvent")
    /\ \/ row' = [row EXCEPT ![h[i].ref] = h[i].to]
       \/ "fail" \in may /\ row' = row
    /\ Become(i, [Idle EXCEPT !.pc = "readPayment"])
    /\ UNCHANGED <<may, pay, amt, prov, event, noted>>

-----------------------------------------------------------------------------
(* recomputePaymentRefundStatus                                             *)

ReadPayment(i) ==
    /\ At(i, "readPayment")
    /\ Become(i, [Idle EXCEPT !.pc = "sumRefunds", !.seen = pay])
    /\ UNCHANGED <<may, pay, row, amt, prov, event, noted>>

SumRefunds(i) ==
    LET s == StatusFor(Refunded) IN
    /\ At(i, "sumRefunds")
    /\ IF s = h[i].seen
       THEN Done(i)
       ELSE Become(i, [Idle EXCEPT !.pc = "writePayment", !.seen = h[i].seen, !.next = s])
    /\ UNCHANGED <<may, pay, row, amt, prov, event, noted>>

WritePayment(i) ==
    /\ At(i, "writePayment")
    /\ pay' = h[i].next
    /\ IF h[i].seen = "success" THEN Goto(i, "notify") ELSE Done(i)
    /\ UNCHANGED <<may, row, amt, prov, event, noted>>

\* notifyRefundProcessed, once a payment; safeNotify swallows a failure.
Notify(i) ==
    /\ At(i, "notify")
    /\ noted' = TRUE \/ ("fail" \in may /\ noted' = noted)
    /\ Done(i)
    /\ UNCHANGED <<may, pay, row, amt, prov, event>>

-----------------------------------------------------------------------------
(* A late payment webhook: applyPaymentStatusUpdate on a settled row writes *)
(* the status it had read, whatever that has become since.                  *)

LateEventReads(i) ==
    /\ Free(i) /\ "late" \in may
    /\ Become(i, [Idle EXCEPT !.pc = "writeBack", !.seen = pay])
    /\ UNCHANGED <<may, pay, row, amt, prov, event, noted>>

LateEventWrites(i) ==
    /\ At(i, "writeBack")
    /\ pay' = h[i].seen
    /\ Done(i)
    /\ UNCHANGED <<may, row, amt, prov, event, noted>>

-----------------------------------------------------------------------------
\* A call throws, or the process is killed.
Abort(i) ==
    /\ "fail" \in may /\ ~At(i, "idle")
    /\ Done(i)
    /\ UNCHANGED <<may, pay, row, amt, prov, event, noted>>

\* The provider ends a pending refund one way or the other, and says so
\* (external).
ProviderEnds(f) ==
    /\ prov[f] = "pending"
    /\ \E s \in TerminalRefund : prov' = [prov EXCEPT ![f] = s]
    /\ event' = [event EXCEPT ![f] = "sent"]
    /\ UNCHANGED <<may, pay, row, amt, noted, h>>

Init ==
    /\ may \in Settings
    /\ pay   = "success"
    /\ row   = [f \in Refunds |-> "absent"]
    /\ amt   = [f \in Refunds |-> 0]
    /\ prov  = [f \in Refunds |-> "none"]
    /\ event = [f \in Refunds |-> "unsent"]
    /\ noted = FALSE
    /\ h     = [i \in Handlers |-> Idle]

Next ==
    \/ \E i \in Handlers :
         \/ CreateBegin(i) \/ ReadPrior(i) \/ Insert(i) \/ CallProvider(i)
         \/ Record(i) \/ RecordFailure(i)
         \/ \E f \in Refunds : Deliver(i, f)
         \/ Lookup(i) \/ RecordEvent(i)
         \/ ReadPayment(i) \/ SumRefunds(i) \/ WritePayment(i) \/ Notify(i)
         \/ LateEventReads(i) \/ LateEventWrites(i)
         \/ Abort(i)
    \/ \E f \in Refunds : ProviderEnds(f)

Spec == Init /\ [][Next]_vars

-----------------------------------------------------------------------------
(* The same, as a ledger that module Ledger describes.                      *)

\* A refund is held from its insert, paid or dropped when the provider ends it,
\* and dropped when createRefund records that the provider never had it.
fate == [f \in Refunds |->
           CASE row[f] = "absent"      -> "none"
             [] prov[f] = "success"    -> "paid"
             [] \/ prov[f] \in {"failed", "cancelled"}
                \/ prov[f] = "none" /\ row[f] = "failed" -> "dropped"
             [] OTHER                  -> "held"]

L == INSTANCE Ledger WITH claim <- pay

-----------------------------------------------------------------------------
(* Properties                                                               *)

\* Every variable keeps its shape.
TypeOK ==
    /\ may \in Settings
    /\ pay \in PayStatuses
    /\ row \in [Refunds -> RefundStatuses \cup {"absent"}]
    /\ amt \in [Refunds -> 0 .. Amount]
    /\ prov \in [Refunds -> RefundStatuses \cup {"none"}]
    /\ event \in [Refunds -> {"unsent", "sent", "taken"}]
    /\ noted \in BOOLEAN
    /\ h \in [Handlers -> HandlerStates]

\* A refund reads success only if the provider paid it, whichever of the admin's
\* request and the webhook wrote it last.
RefundIsReal == \A f \in Refunds : row[f] = "success" => prov[f] = "success"

\* Nothing claims more than went back, whatever interleaves, fails or is lost: a
\* refund reads success only if it was paid, the payment (partially) refunded
\* only if that much was, and the booker hears of a refund only then.  A stale
\* sum can make the status say too little, never too much.
StatusIsReal ==
    /\ RefundIsReal
    /\ pay = "refunded" => PaidBack >= Amount
    /\ pay = "partially_refunded" \/ noted => PaidBack > 0

\* docs/DATABASE.md:930-931: the payment's status is the one its successful
\* refunds mean, whenever no request is in progress.
StatusIsCurrent == AllIdle => pay = StatusFor(Refunded)

\* So it is when requests follow one another and none fails, late payment
\* webhooks among them, even if the provider's answers are lost.
StatusFollowsRefunds == may \subseteq {"lose", "late"} => StatusIsCurrent

\* When nothing is in progress, a webhook that was taken has moved its refund
\* to the end the provider gave it.  (Not so when it comes while createRefund
\* is at work, whose late write of pending is by id alone.)
TakenIsRecorded ==
    may \subseteq {"late"} /\ AllIdle => \A f \in Refunds :
        event[f] = "taken" /\ prov[f] # "cancelled" => row[f] = prov[f]

\* createRefund, enforce_refund_balance and the webhooks as an implementation of
\* Ledger, however many admins race: an insert holds its amount against all that
\* is held or paid, no refund ends twice, none that was dropped is paid, and the
\* payment claims no more than was paid.  (Not so where an answer is lost: the
\* row then reads failed and frees its balance, while the money may still go.)
KeepsLedger == L!Init /\ [][("lose" \notin may) => L!Next]_<<fate, amt, pay>>
=============================================================================
