--------------------------- MODULE RefundsProofs ----------------------------
(***************************************************************************)
(* What module Refunds promises for every set of refunds and requests and   *)
(* every amount.                                                            *)
(*                                                                          *)
(* A row is written with what a request holds, whatever has happened since  *)
(* it came to hold it.  That does no harm to a final status, because what   *)
(* the provider has ended it never changes (Holds), and because one request *)
(* alone asks the provider for a refund (Apart).  That a webhook which was  *)
(* taken is recorded needs more: nobody else at work, and no failure.       *)
(*                                                                          *)
(* On this rests what is said of amounts.  What was paid back only grows,   *)
(* so that a status decided on an older sum says too little at worst        *)
(* (Real).  Only an insert adds to what may still be paid back, and the     *)
(* trigger has counted more than that (Bounded).  And a request that        *)
(* follows another sets the status right before the next begins (Follows).  *)
(* So the refunds are a Ledger: what is held or paid is among what the      *)
(* trigger counts, and a refund that was dropped is never paid.             *)
(* And every refund paid back is shown in the end, if its webhook is        *)
(* repeated until it is taken.                                              *)
(***************************************************************************)
EXTENDS Refunds, FiniteSetTheorems, TLAPS

\* Calls that concern one refund: those of the request that made it, and those
\* that carry out a webhook.
Owning  == {"call", "record", "recordFailure"}
Hearing == {"lookup", "recordEvent"}
Naming  == Owning \cup Hearing

\* Nothing fails, and requests follow one another.
Quiet == may \subseteq {"late"}

\* A refund's row, its end at the provider, and its webhook.
Told(f) ==
    /\ row[f] = "absent" => prov[f] = "none"
    /\ event[f] # "unsent" => prov[f] \in TerminalRefund
    /\ row[f] = "success" => prov[f] = "success"
    /\ "lose" \notin may /\ row[f] \in TerminalRefund =>
         prov[f] = row[f] \/ (row[f] = "failed" /\ prov[f] = "none")

\* In quiet executions a final row is the provider's, and a webhook that was
\* taken is recorded or about to be.
Recorded(f) == Quiet =>
    /\ row[f] \in TerminalRefund => prov[f] = row[f]
    /\ event[f] = "taken" /\ prov[f] # "cancelled" /\ row[f] # prov[f] =>
         \E i \in Handlers : h[i].pc \in Hearing /\ h[i].ref = f

\* What a request holds is still so when it uses it.
Holds(i) ==
    LET f == h[i].ref IN
    /\ At(i, "insert") => h[i].amt # 0
    /\ At(i, "writePayment") => h[i].next \in PayStatuses
    /\ At(i, "writeBack") => h[i].seen \in PayStatuses
    /\ h[i].pc \in Naming => f \in Refunds
    /\ At(i, "call") => row[f] = "pending" /\ prov[f] = "none"
    /\ At(i, "record") => /\ h[i].to \in RefundStatuses
                          /\ row[f] # "absent" /\ prov[f] # "none"
                          /\ h[i].to \in TerminalRefund => prov[f] = h[i].to
    /\ h[i].pc \in Hearing => prov[f] \in TerminalRefund
    /\ At(i, "recordFailure") =>
         /\ row[f] # "absent"
         /\ row[f] = "pending" \/ {"lose", "race"} \subseteq may
         /\ prov[f] = "none" \/ "lose" \in may
    /\ At(i, "recordEvent") => h[i].to = prov[f]
    /\ Quiet => ~At(i, "recordFailure")
    /\ Quiet /\ h[i].pc \in {"call", "record"} => event[f] # "taken"

\* Two requests overlap only where they may, and never ask for one refund.
Apart(i, j) ==
    /\ "race" \in may \/ At(i, "idle") \/ At(j, "idle")
    /\ h[i].pc \in Owning /\ h[j].pc \in Owning => h[i].ref # h[j].ref

IInv ==
    /\ TypeOK
    /\ \A f \in Refunds : Told(f) /\ Recorded(f)
    /\ \A i \in Handlers : Holds(i)
    /\ \A i, j \in Handlers : i # j => Apart(i, j)

-----------------------------------------------------------------------------
\* The state of a request that has nothing to do.
LEMMA IdleType == Idle \in HandlerStates
BY AmountAssumption DEF Idle, HandlerStates, Labels

\* What a request becomes; the others stay as they were.
LEMMA HandlerTypes ==
    ASSUME TypeOK, NEW i \in Handlers, NEW s \in HandlerStates, Become(i, s)
    PROVE  /\ h' \in [Handlers -> HandlerStates]
           /\ h'[i] = s
           /\ \A j \in Handlers \ {i} : h'[j] = h[j]
BY DEF TypeOK, Become

LEMMA GotoTypes ==
    ASSUME TypeOK, NEW i \in Handlers, NEW label \in Labels, Goto(i, label)
    PROVE  /\ h' \in [Handlers -> HandlerStates]
           /\ h'[i] = [h[i] EXCEPT !.pc = label]
           /\ \A j \in Handlers \ {i} : h'[j] = h[j]
BY DEF TypeOK, Goto, HandlerStates

\* A request at work is alone where requests may not overlap.
LEMMA AtWork ==
    ASSUME IInv, NEW i \in Handlers, ~At(i, "idle") \/ Free(i), "race" \notin may
    PROVE  \A j \in Handlers \ {i} : At(j, "idle")
BY DEF IInv, Apart, Free, AllIdle

-----------------------------------------------------------------------------
(* Steps.                                                                   *)

\* A step of one request keeps the invariant if it does so for the refunds, for
\* what this request holds and for what the others hold.
LEMMA StepKeeps ==
    ASSUME IInv, NEW i \in Handlers, ~At(i, "idle") \/ Free(i),
           may' = may, TypeOK',
           \A j \in Handlers \ {i} : h'[j] = h[j],
           \A f \in Refunds : (Told(f) /\ Recorded(f))',
           \A j \in Handlers : Holds(j)',
           h'[i].pc \in Owning =>
             \A j \in Handlers \ {i} : ~(h[j].pc \in Owning /\ h[j].ref = h'[i].ref)
    PROVE  IInv'
<1>1. ASSUME NEW j \in Handlers, NEW k \in Handlers, j # k PROVE Apart(j, k)'
  <2>1. "race" \in may \/ \A x \in Handlers \ {i} : At(x, "idle")
    BY AtWork
  <2>2. "race" \in may' \/ At(j, "idle")' \/ At(k, "idle")'
    BY <1>1, <2>1 DEF At
  <2>3. CASE j # i /\ k # i
    BY <1>1, <2>2, <2>3 DEF IInv, Apart, At
  <2>4. CASE j = i \/ k = i
    BY <1>1, <2>2, <2>4 DEF Apart, At
  <2> QED
    BY <2>3, <2>4
<1> QED
  BY <1>1 DEF IInv

\* A step that leaves the refunds and the provider alone, and neither drops a
\* webhook in quiet executions nor turns to a refund.
LEMMA PlainStep ==
    ASSUME IInv, NEW i \in Handlers, ~At(i, "idle") \/ Free(i),
           UNCHANGED <<may, row, amt, prov, event>>,
           pay' \in PayStatuses, noted' \in BOOLEAN,
           h' \in [Handlers -> HandlerStates],
           \A j \in Handlers \ {i} : h'[j] = h[j],
           h[i].pc \in Hearing => ~Quiet,
           h'[i].pc \notin Naming,
           h'[i].pc = "insert" => h'[i].amt # 0,
           h'[i].pc = "writePayment" => h'[i].next \in PayStatuses,
           h'[i].pc = "writeBack" => h'[i].seen \in PayStatuses
    PROVE  IInv'
<1>1. TypeOK'
  BY DEF IInv, TypeOK
<1>2. ASSUME NEW f \in Refunds PROVE (Told(f) /\ Recorded(f))'
  BY <1>2 DEF IInv, Told, Recorded, Quiet
<1>3. ASSUME NEW j \in Handlers \ {i} PROVE Holds(j)'
  BY <1>3 DEF IInv, Holds, At, Quiet
<1>4. Holds(i)'
  BY DEF Holds, At, Naming, Owning, Hearing
<1> QED
  BY <1>1, <1>2, <1>3, <1>4, StepKeeps DEF Naming

LEMMA CreateBeginStep ==
    ASSUME IInv, NEW i \in Handlers, CreateBegin(i) PROVE IInv'
<1>1. Goto(i, "prior") /\ "prior" \in Labels /\ Free(i)
  BY DEF CreateBegin, Labels
<1>2. /\ h' \in [Handlers -> HandlerStates] /\ h'[i].pc = "prior"
      /\ \A j \in Handlers \ {i} : h'[j] = h[j]
  <2>1. /\ h' \in [Handlers -> HandlerStates] /\ h'[i] = [h[i] EXCEPT !.pc = "prior"]
        /\ \A j \in Handlers \ {i} : h'[j] = h[j]
    BY <1>1, GotoTypes DEF IInv
  <2>2. h[i] \in HandlerStates
    BY DEF IInv, TypeOK
  <2> QED
    BY <2>1, <2>2 DEF HandlerStates
<1> QED
  BY <1>1, <1>2, PlainStep DEF CreateBegin, IInv, TypeOK, Free, At, Hearing, Owning, Naming

LEMMA ReadPriorStep ==
    ASSUME IInv, NEW i \in Handlers, ReadPrior(i) PROVE IInv'
<1>1. PICK s \in HandlerStates :
        Become(i, s) /\ s.pc \in {"insert", "idle"} /\ (s.pc = "insert" => s.amt # 0)
  <2>1. CASE Done(i)
    BY <2>1, IdleType DEF Done, Idle
  <2>2. ASSUME NEW a \in 1 .. Amount, Become(i, [Idle EXCEPT !.pc = "insert", !.amt = a])
        PROVE  \E s \in HandlerStates :
                 Become(i, s) /\ s.pc \in {"insert", "idle"} /\ (s.pc = "insert" => s.amt # 0)
    <3>1. [Idle EXCEPT !.pc = "insert", !.amt = a] \in HandlerStates
      <4>1. a \in 0 .. Amount
        BY AmountAssumption
      <4> QED
        BY <4>1, IdleType DEF HandlerStates, Labels
    <3>2. /\ [Idle EXCEPT !.pc = "insert", !.amt = a].pc = "insert"
          /\ [Idle EXCEPT !.pc = "insert", !.amt = a].amt = a /\ a # 0
      BY IdleType, AmountAssumption DEF HandlerStates
    <3> QED
      BY <2>2, <3>1, <3>2
  <2> QED
    BY <2>1, <2>2 DEF ReadPrior
<1>2. /\ h' \in [Handlers -> HandlerStates] /\ h'[i].pc \in {"insert", "idle"}
      /\ h'[i].pc = "insert" => h'[i].amt # 0
      /\ \A j \in Handlers \ {i} : h'[j] = h[j]
  BY <1>1, HandlerTypes DEF IInv
<1> QED
  BY <1>2, PlainStep DEF ReadPrior, IInv, TypeOK, At, Hearing, Owning, Naming

\* The rest of a request that recomputes, notifies, writes back or gives up.
LEMMA RecomputeStep ==
    ASSUME IInv, NEW i \in Handlers,
           \/ ReadPayment(i) \/ SumRefunds(i) \/ WritePayment(i) \/ Notify(i)
           \/ LateEventReads(i) \/ LateEventWrites(i) \/ Abort(i)
    PROVE  IInv'
<1>1. StatusFor(Refunded) \in PayStatuses
  BY DEF StatusFor, PayStatuses
<1>2. UNCHANGED <<may, row, amt, prov, event>> /\ (~At(i, "idle") \/ Free(i))
  BY DEF ReadPayment, SumRefunds, WritePayment, Notify, LateEventReads,
         LateEventWrites, Abort, At
<1>3. h[i].pc \in Hearing => ~Quiet
  BY DEF ReadPayment, SumRefunds, WritePayment, Notify, LateEventReads,
         LateEventWrites, Abort, At, Hearing, Quiet, Free
<1>4. pay' \in PayStatuses /\ noted' \in BOOLEAN
  <2>1. CASE WritePayment(i) \/ LateEventWrites(i)
    BY <2>1 DEF WritePayment, LateEventWrites, IInv, TypeOK, Holds
  <2>2. CASE ~(WritePayment(i) \/ LateEventWrites(i))
    BY <2>2 DEF ReadPayment, SumRefunds, Notify, LateEventReads, Abort, IInv, TypeOK
  <2> QED
    BY <2>1, <2>2
<1>5. \E s \in HandlerStates :
        /\ Become(i, s)
        /\ s.pc \notin Naming \cup {"insert"}
        /\ s.pc = "writePayment" => s.next \in PayStatuses
        /\ s.pc = "writeBack" => s.seen \in PayStatuses
  <2>1. h[i] \in HandlerStates /\ h \in [Handlers -> HandlerStates] /\ pay \in PayStatuses
    BY DEF IInv, TypeOK
  <2>2. CASE Done(i)
    BY <2>2, IdleType DEF Done, Idle, Naming, Owning, Hearing
  <2>3. CASE ReadPayment(i)
    <3>1. /\ [Idle EXCEPT !.pc = "sumRefunds", !.seen = pay] \in HandlerStates
          /\ [Idle EXCEPT !.pc = "sumRefunds", !.seen = pay].pc = "sumRefunds"
      BY <2>1, IdleType DEF HandlerStates, Labels
    <3> QED
      BY <2>3, <3>1 DEF ReadPayment, Naming, Owning, Hearing
  <2>4. CASE SumRefunds(i) /\ ~Done(i)
    <3>1. PICK t \in PayStatuses :
            Become(i, [Idle EXCEPT !.pc = "writePayment", !.seen = h[i].seen, !.next = t])
      BY <1>1, <2>4 DEF SumRefunds
    <3>2. h[i].seen \in PayStatuses \cup {"none"}
      BY <2>1 DEF HandlerStates
    <3> DEFINE s == [Idle EXCEPT !.pc = "writePayment", !.seen = h[i].seen, !.next = t]
    <3>3. s \in HandlerStates /\ s.pc = "writePayment" /\ s.next = t
      BY <3>2, IdleType DEF HandlerStates, Labels
    <3> HIDE DEF s
    <3> QED
      BY <3>1, <3>3 DEF Naming, Owning, Hearing, s
  <2>5. CASE WritePayment(i) /\ ~Done(i)
    <3>1. h' = [h EXCEPT ![i] = [h[i] EXCEPT !.pc = "notify"]]
      BY <2>1, <2>5 DEF WritePayment, Goto
    <3>2. [h[i] EXCEPT !.pc = "notify"] \in HandlerStates
      BY <2>1 DEF HandlerStates, Labels
    <3>3. [h[i] EXCEPT !.pc = "notify"].pc = "notify"
      BY <2>1 DEF HandlerStates
    <3> QED
      BY <3>1, <3>2, <3>3 DEF Become, Naming, Owning, Hearing
  <2>6. CASE LateEventReads(i)
    <3> DEFINE s == [Idle EXCEPT !.pc = "writeBack", !.seen = pay]
    <3>1. s \in HandlerStates /\ s.pc = "writeBack" /\ s.seen = pay
      BY <2>1, IdleType DEF HandlerStates, Labels
    <3> HIDE DEF s
    <3> QED
      BY <2>1, <2>6, <3>1 DEF LateEventReads, Naming, Owning, Hearing, s
  <2> QED
    BY <2>2, <2>3, <2>4, <2>5, <2>6 DEF Notify, LateEventWrites, Abort
<1>6. PICK s \in HandlerStates :
        /\ Become(i, s)
        /\ s.pc \notin Naming \cup {"insert"}
        /\ s.pc = "writePayment" => s.next \in PayStatuses
        /\ s.pc = "writeBack" => s.seen \in PayStatuses
  BY <1>5
<1>7. /\ h' \in [Handlers -> HandlerStates] /\ h'[i] = s
      /\ \A j \in Handlers \ {i} : h'[j] = h[j]
  BY <1>6, HandlerTypes DEF IInv
<1> QED
  BY <1>2, <1>3, <1>4, <1>6, <1>7, PlainStep

\* A row is inserted for a refund that nobody holds.
LEMMA InsertStep ==
    ASSUME IInv, NEW i \in Handlers, Insert(i) PROVE IInv'
<1>1. CASE Done(i) /\ UNCHANGED <<row, amt>>
  <2>1. /\ h' \in [Handlers -> HandlerStates] /\ h'[i].pc = "idle"
        /\ \A j \in Handlers \ {i} : h'[j] = h[j]
    BY <1>1, IdleType, HandlerTypes DEF Done, IInv, Idle
  <2> QED
    BY <1>1, <2>1, PlainStep DEF Insert, IInv, TypeOK, At, Hearing, Owning, Naming
<1>2. CASE ~(Done(i) /\ UNCHANGED <<row, amt>>)
  <2>1. PICK f \in Refunds :
          /\ row[f] = "absent"
          /\ row' = [row EXCEPT ![f] = "pending"]
          /\ amt' = [amt EXCEPT ![f] = h[i].amt]
          /\ Become(i, [Idle EXCEPT !.pc = "call", !.ref = f])
    BY <1>2 DEF Insert
  <2>2. /\ [Idle EXCEPT !.pc = "call", !.ref = f] \in HandlerStates
        /\ [Idle EXCEPT !.pc = "call", !.ref = f].pc = "call"
        /\ [Idle EXCEPT !.pc = "call", !.ref = f].ref = f
    BY IdleType DEF HandlerStates, Labels
  <2>3. /\ h' \in [Handlers -> HandlerStates]
        /\ h'[i].pc = "call" /\ h'[i].ref = f
        /\ \A j \in Handlers \ {i} : h'[j] = h[j]
    BY <2>1, <2>2, HandlerTypes DEF IInv
  <2>4. UNCHANGED <<may, pay, prov, event, noted>> /\ At(i, "insert")
    BY DEF Insert
  <2>5. TypeOK'
    <3>1. h[i].amt \in 0 .. Amount
      BY DEF IInv, TypeOK, HandlerStates
    <3> QED
      BY <2>1, <2>3, <2>4, <3>1 DEF IInv, TypeOK, RefundStatuses
  <2>6. prov[f] = "none" /\ event[f] = "unsent"
    BY <2>1 DEF IInv, Told, TypeOK, TerminalRefund
  <2>7. ASSUME NEW g \in Refunds PROVE (Told(g) /\ Recorded(g))'
    <3>1. row[g] = row'[g] \/ (g = f /\ row'[g] = "pending")
      BY <2>1 DEF IInv, TypeOK
    <3>2. \A j \in Handlers : h[j].pc \in Hearing => h'[j] = h[j]
      BY <2>3, <2>4 DEF At, Hearing
    <3> QED
      BY <2>4, <2>6, <2>7, <3>1, <3>2 DEF IInv, Told, Recorded, Quiet, TerminalRefund
  <2>8. ASSUME NEW j \in Handlers \ {i} PROVE Holds(j)'
    <3>1. \A g \in Refunds : row[g] # "absent" => row'[g] = row[g]
      BY <2>1 DEF IInv, TypeOK
    <3>2. h'[j] = h[j] /\ Holds(j)
      BY <2>3, <2>8 DEF IInv
    <3> QED
      BY <2>4, <3>1, <3>2 DEF Holds, At, Quiet, Naming, Owning, Hearing
  <2>9. Holds(i)'
    <3>1. row'[f] = "pending"
      BY <2>1 DEF IInv, TypeOK
    <3> QED
      BY <2>3, <2>4, <2>6, <3>1 DEF Holds, At, Hearing
  <2>10. \A j \in Handlers \ {i} : ~(h[j].pc \in Owning /\ h[j].ref = f)
    BY <2>1 DEF IInv, Holds, At, Owning
  <2> QED
    <3>1. may' = may /\ ~At(i, "idle") /\ \A j \in Handlers : Holds(j)'
      BY <2>4, <2>8, <2>9 DEF At
    <3> QED
      BY <2>3, <2>5, <2>7, <2>10, <3>1, StepKeeps
<1> QED
  BY <1>1, <1>2

\* The provider takes a refund, which it did not know before, or does not; what
\* it has ended stays so.
LEMMA CallProviderStep ==
    ASSUME IInv, NEW i \in Handlers, CallProvider(i) PROVE IInv'
<1> DEFINE f == h[i].ref
<1>1. /\ f \in Refunds /\ row[f] = "pending" /\ prov[f] = "none" /\ event[f] = "unsent"
      /\ h[i] \in HandlerStates /\ h[i].pc = "call"
  <2>1. h[i].pc = "call" /\ f \in Refunds /\ row[f] = "pending" /\ prov[f] = "none"
    BY DEF CallProvider, IInv, Holds, At, Naming, Owning
  <2> QED
    BY <2>1 DEF IInv, Told, TypeOK, TerminalRefund
<1>2. UNCHANGED <<may, pay, row, amt, noted>>
  BY DEF CallProvider
<1>3. PICK s \in RefundStatuses \cup {"none"}, e \in {"unsent", "sent"} :
        /\ prov' = [prov EXCEPT ![f] = s] /\ event' = [event EXCEPT ![f] = e]
        /\ e # "unsent" => s \in TerminalRefund
        /\ \/ /\ s \in RefundStatuses
              /\ Become(i, [Idle EXCEPT !.pc = "record", !.ref = f, !.to = s])
           \/ /\ may \cap {"fail", "lose"} # {} /\ Goto(i, "recordFailure")
              /\ s = "none" \/ "lose" \in may
  <2>1. prov = [prov EXCEPT ![f] = "none"] /\ event = [event EXCEPT ![f] = "unsent"]
    BY <1>1 DEF IInv, TypeOK
  <2>2. ASSUME NEW s \in RefundStatuses, prov' = [prov EXCEPT ![f] = s],
               event' = IF s \in TerminalRefund THEN [event EXCEPT ![f] = "sent"] ELSE event
        PROVE  \E e \in {"unsent", "sent"} :
                 /\ event' = [event EXCEPT ![f] = e]
                 /\ e # "unsent" => s \in TerminalRefund
    BY <2>1, <2>2
  <2> QED
    BY <2>1, <2>2 DEF CallProvider, RefundStatuses
<1>4. /\ h' \in [Handlers -> HandlerStates]
      /\ h'[i].ref = f
      /\ \/ h'[i].pc = "record" /\ h'[i].to = s /\ s \in RefundStatuses
         \/ /\ h'[i].pc = "recordFailure" /\ may \cap {"fail", "lose"} # {}
            /\ s = "none" \/ "lose" \in may
      /\ \A j \in Handlers \ {i} : h'[j] = h[j]
  <2>1. CASE /\ Goto(i, "recordFailure") /\ may \cap {"fail", "lose"} # {}
             /\ s = "none" \/ "lose" \in may
    <3>1. "recordFailure" \in Labels
      BY DEF Labels
    <3>2. /\ h' \in [Handlers -> HandlerStates]
          /\ h'[i] = [h[i] EXCEPT !.pc = "recordFailure"]
          /\ \A j \in Handlers \ {i} : h'[j] = h[j]
      BY <2>1, <3>1, GotoTypes DEF IInv
    <3>3. h'[i].pc = "recordFailure" /\ h'[i].ref = f
      BY <1>1, <3>2 DEF HandlerStates
    <3> QED
      BY <2>1, <3>2, <3>3
  <2>2. CASE s \in RefundStatuses /\ Become(i, [Idle EXCEPT !.pc = "record", !.ref = f, !.to = s])
    <3> DEFINE t == [Idle EXCEPT !.pc = "record", !.ref = f, !.to = s]
    <3>1. t \in HandlerStates /\ t.pc = "record" /\ t.ref = f /\ t.to = s
      BY <1>1, <2>2, IdleType DEF HandlerStates, Labels
    <3> HIDE DEF t
    <3>2. Become(i, t)
      BY <2>2 DEF t
    <3> QED
      BY <2>2, <3>1, <3>2, HandlerTypes DEF IInv
  <2> QED
    BY <1>3, <2>1, <2>2
<1>5. \A g \in Refunds : /\ prov'[g] = IF g = f THEN s ELSE prov[g]
                         /\ event'[g] = IF g = f THEN e ELSE event[g]
  BY <1>1, <1>3 DEF IInv, TypeOK
<1>6. TypeOK'
  BY <1>1, <1>2, <1>3, <1>4 DEF IInv, TypeOK
<1>7. ASSUME NEW g \in Refunds PROVE (Told(g) /\ Recorded(g))'
  <2>1. \A j \in Handlers : h[j].pc \in Hearing => h'[j] = h[j]
    BY <1>1, <1>4 DEF Hearing
  <2>2. g = f /\ Quiet => row[f] \notin TerminalRefund
    BY <1>1, <1>7 DEF IInv, Recorded, TerminalRefund
  <2>3. row[f] # "success"
    BY <1>1 DEF IInv, Told
  <2>4. Told(g)'
    BY <1>1, <1>2, <1>3, <1>5, <1>7, <2>3 DEF IInv, Told, TerminalRefund
  <2>5. Recorded(g)'
    BY <1>1, <1>2, <1>3, <1>5, <1>7, <2>1, <2>2 DEF IInv, Recorded, Quiet
  <2> QED
    BY <2>4, <2>5
<1>8. ASSUME NEW j \in Handlers \ {i} PROVE Holds(j)'
  <2>1. h[j].pc \in Owning => h[j].ref # f
    BY <1>1, <1>8 DEF IInv, Apart, Owning
  <2>2. h[j].pc \in Hearing => h[j].ref # f
    BY <1>1, <1>8 DEF IInv, Holds, TerminalRefund
  <2>3. h'[j] = h[j] /\ Holds(j)
    BY <1>4, <1>8 DEF IInv
  <2> HIDE DEF f
  <2> QED
    BY <1>2, <1>5, <2>1, <2>2, <2>3 DEF Holds, At, Quiet, Naming, Owning, Hearing
<1>9. Holds(i)'
  <2>1. prov'[f] = s /\ event'[f] = e /\ row'[f] = "pending"
    BY <1>1, <1>2, <1>5
  <2>2. may' = may /\ s \in RefundStatuses \cup {"none"} /\ "none" \notin RefundStatuses
    BY <1>2 DEF RefundStatuses, TerminalRefund
  <2>3. e # "taken"
    OBVIOUS
  <2> HIDE DEF f
  <2> QED
    BY <1>1, <1>4, <2>1, <2>2, <2>3 DEF Holds, At, Quiet, Hearing, TerminalRefund
<1>10. \A j \in Handlers \ {i} : ~(h[j].pc \in Owning /\ h[j].ref = f)
  BY <1>1 DEF IInv, Apart, Owning
<1>11. may' = may /\ ~At(i, "idle") /\ \A j \in Handlers : Holds(j)'
  BY <1>1, <1>2, <1>8, <1>9 DEF At
<1> QED
  BY <1>4, <1>6, <1>7, <1>10, <1>11, StepKeeps

\* A row of a refund is written with a status that is the provider's end, or with
\* one that is no success; where nothing fails and nobody else is at work, that
\* leaves final rows the provider's.
LEMMA WriteStep ==
    ASSUME IInv, NEW i \in Handlers, NEW f \in Refunds, NEW to \in RefundStatuses,
           h[i].pc \in Naming, h[i].ref = f,
           row[f] # "absent",
           row' = [row EXCEPT ![f] = to],
           UNCHANGED <<may, pay, amt, prov, event, noted>>,
           to = "success" => prov[f] = "success",
           "lose" \notin may /\ to \in TerminalRefund =>
             prov[f] = to \/ (to = "failed" /\ prov[f] = "none"),
           Quiet /\ to \in TerminalRefund => prov[f] = to,
           Quiet /\ event[f] = "taken" /\ prov[f] # "cancelled" => to = prov[f],
           h' \in [Handlers -> HandlerStates],
           \A j \in Handlers \ {i} : h'[j] = h[j],
           h'[i].pc \in {"idle", "readPayment"}
    PROVE  IInv'
<1>1. \A g \in Refunds : row'[g] = IF g = f THEN to ELSE row[g]
  BY DEF IInv, TypeOK
<1>2. TypeOK'
  BY DEF IInv, TypeOK
<1>3. ASSUME NEW g \in Refunds PROVE (Told(g) /\ Recorded(g))'
  <2>1. Told(g)'
    <3>1. to # "absent" /\ Told(g)
      BY <1>3 DEF IInv, RefundStatuses, TerminalRefund
    <3> QED
      BY <1>1, <3>1 DEF Told
  <2>2. CASE g = f
    BY <1>1, <2>1, <2>2 DEF Recorded, Quiet
  <2>3. CASE g # f
    <3>1. \A j \in Handlers : h[j].ref = g => h'[j] = h[j]
      BY <2>3
    <3> QED
      BY <1>1, <1>3, <2>1, <2>3, <3>1 DEF IInv, Recorded, Quiet
  <2> QED
    BY <2>2, <2>3
<1>4. ASSUME NEW j \in Handlers \ {i} PROVE Holds(j)'
  <2>1. to # "absent"
    BY DEF RefundStatuses, TerminalRefund
  <2>2. CASE h[j].ref # f
    <3>1. h'[j] = h[j] /\ Holds(j)
      BY <1>4 DEF IInv
    <3> QED
      BY <1>1, <2>2, <3>1 DEF Holds, At, Quiet, Naming, Owning, Hearing
  <2>3. CASE h[j].ref = f /\ h[i].pc \in Owning
    <3>1. h'[j] = h[j] /\ Holds(j) /\ h[j].pc \notin Owning
      BY <1>4, <2>3 DEF IInv, Apart
    <3> QED
      BY <1>1, <2>1, <2>3, <3>1 DEF Holds, At, Quiet, Naming, Owning, Hearing
  <2>4. CASE h[j].ref = f /\ h[i].pc \in Hearing
    <3>1. h'[j] = h[j] /\ Holds(j) /\ prov[f] \in TerminalRefund
      BY <1>4, <2>4 DEF IInv, Holds
    <3>2. h[j].pc # "idle" => "race" \in may
      BY <1>4, <2>4 DEF IInv, Apart, At, Hearing
    <3>3. Holds(j) => h'[j].pc # "call" /\ (h[j].pc = "recordFailure" => {"lose", "race"} \subseteq may)
      BY <2>4, <3>1, <3>2 DEF Holds, At, TerminalRefund
    <3> QED
      BY <1>1, <2>1, <2>4, <3>1, <3>3 DEF Holds, At, Quiet, Naming, Owning, Hearing
  <2> QED
    BY <2>2, <2>3, <2>4 DEF Naming
<1>5. Holds(i)'
  BY DEF Holds, At, Naming, Owning, Hearing
<1> QED
  BY <1>2, <1>3, <1>4, <1>5, StepKeeps DEF At, Naming, Owning, Hearing

\* The writes of createRefund: the provider's answer, or the failure.
LEMMA RecordStep ==
    ASSUME IInv, NEW i \in Handlers, Record(i) \/ RecordFailure(i) PROVE IInv'
<1> DEFINE f == h[i].ref
           to == IF At(i, "record") THEN h[i].to ELSE "failed"
<1>1. /\ h[i].pc \in {"record", "recordFailure"} /\ f \in Refunds /\ row[f] # "absent"
      /\ to \in RefundStatuses /\ row' = [row EXCEPT ![f] = to]
      /\ UNCHANGED <<may, pay, amt, prov, event, noted>>
  BY DEF Record, RecordFailure, IInv, Holds, At, Naming, Owning, RefundStatuses, TerminalRefund
<1>2. /\ to = "success" => prov[f] = "success"
      /\ "lose" \notin may /\ to \in TerminalRefund =>
           prov[f] = to \/ (to = "failed" /\ prov[f] = "none")
      /\ Quiet /\ to \in TerminalRefund => prov[f] = to
      /\ Quiet => event[f] # "taken"
  BY <1>1 DEF IInv, Holds, At, TerminalRefund
<1>3. PICK s \in HandlerStates : Become(i, s) /\ s.pc \in {"idle", "readPayment"}
  <2>1. CASE RecordFailure(i)
    BY <2>1, IdleType DEF RecordFailure, Done, Idle
  <2>2. CASE Record(i)
    BY <2>2, AmountAssumption DEF Record, Idle, HandlerStates, Labels
  <2> QED
    BY <2>1, <2>2
<1>4. /\ h' \in [Handlers -> HandlerStates] /\ h'[i] = s
      /\ \A j \in Handlers \ {i} : h'[j] = h[j]
  BY <1>3, HandlerTypes DEF IInv
<1> HIDE DEF f, to
<1> QED
  BY <1>1, <1>2, <1>3, <1>4, WriteStep DEF Naming, Owning, f

\* The write of a webhook's end, or its failure.
LEMMA RecordEventStep ==
    ASSUME IInv, NEW i \in Handlers, RecordEvent(i) PROVE IInv'
<1> DEFINE f == h[i].ref
<1>1. /\ h[i].pc = "recordEvent" /\ f \in Refunds
      /\ h[i].to = prov[f] /\ prov[f] \in TerminalRefund /\ prov[f] \in RefundStatuses
      /\ row[f] # "absent"
      /\ UNCHANGED <<may, pay, amt, prov, event, noted>>
  BY DEF RecordEvent, IInv, Holds, At, Naming, Owning, Hearing, TerminalRefund, RefundStatuses, Told
<1>2. [Idle EXCEPT !.pc = "readPayment"] \in HandlerStates
  BY AmountAssumption DEF Idle, HandlerStates, Labels
<1>3. /\ h' \in [Handlers -> HandlerStates] /\ h'[i].pc = "readPayment"
      /\ \A j \in Handlers \ {i} : h'[j] = h[j]
  BY <1>2, HandlerTypes DEF RecordEvent, IInv, Idle
<1>4. CASE row' = [row EXCEPT ![f] = h[i].to]
  BY <1>1, <1>3, <1>4, WriteStep DEF Naming, Owning, Hearing
<1>5. CASE row' # [row EXCEPT ![f] = h[i].to]
  <2>1. row' = row /\ "fail" \in may
    BY <1>5 DEF RecordEvent
  <2> QED
    BY <1>1, <1>3, <2>1, PlainStep DEF IInv, TypeOK, At, Quiet, Naming, Owning, Hearing
<1> QED
  BY <1>4, <1>5

\* A webhook is taken.
LEMMA DeliverStep ==
    ASSUME IInv, NEW i \in Handlers, NEW f \in Refunds, Deliver(i, f) PROVE IInv'
<1>1. /\ [Idle EXCEPT !.pc = "lookup", !.ref = f] \in HandlerStates
      /\ [Idle EXCEPT !.pc = "lookup", !.ref = f].pc = "lookup"
      /\ [Idle EXCEPT !.pc = "lookup", !.ref = f].ref = f
  BY IdleType DEF HandlerStates, Labels
<1>2. /\ h' \in [Handlers -> HandlerStates]
      /\ h'[i].pc = "lookup" /\ h'[i].ref = f
      /\ \A j \in Handlers \ {i} : h'[j] = h[j]
  BY <1>1, HandlerTypes DEF Deliver, IInv
<1>3. /\ UNCHANGED <<may, pay, row, amt, prov, noted>> /\ Free(i) /\ h[i].pc = "idle"
      /\ \A g \in Refunds : event'[g] = IF g = f THEN "taken" ELSE event[g]
      /\ prov[f] \in TerminalRefund
  BY DEF Deliver, Free, At, IInv, TypeOK, Told
<1>4. TypeOK'
  BY <1>2 DEF Deliver, IInv, TypeOK
<1>5. ASSUME NEW g \in Refunds PROVE (Told(g) /\ Recorded(g))'
  <2>1. \A j \in Handlers : h[j].pc \in Hearing => h'[j] = h[j]
    BY <1>2, <1>3 DEF Hearing
  <2>2. Told(g)'
    BY <1>3, <1>5 DEF IInv, Told
  <2>3. CASE g = f
    <3>1. \E j \in Handlers : h'[j].pc \in Hearing /\ h'[j].ref = g
      BY <1>2, <2>3 DEF Hearing
    <3> QED
      BY <1>3, <1>5, <2>2, <3>1 DEF IInv, Recorded, Quiet
  <2>4. CASE g # f
    BY <1>3, <1>5, <2>1, <2>2, <2>4 DEF IInv, Recorded, Quiet
  <2> QED
    BY <2>2, <2>3, <2>4
<1>6. ASSUME NEW j \in Handlers \ {i} PROVE Holds(j)'
  <2>1. Quiet => At(j, "idle")
    BY <1>3, <1>6, AtWork DEF Quiet
  <2> QED
    BY <1>2, <1>3, <1>6, <2>1 DEF IInv, Holds, At, Quiet, Naming, Owning, Hearing
<1>7. Holds(i)'
  BY <1>2, <1>3 DEF Holds, At, Hearing
<1> QED
  BY <1>2, <1>3, <1>4, <1>5, <1>6, <1>7, StepKeeps DEF Owning

\* A webhook's refund is looked up: it has ended as the provider says, is
\* cancelled, or is about to be written.
LEMMA LookupStep ==
    ASSUME IInv, NEW i \in Handlers, Lookup(i) PROVE IInv'
<1> DEFINE f == h[i].ref
<1>1. /\ h[i].pc = "lookup" /\ f \in Refunds /\ prov[f] \in TerminalRefund
      /\ UNCHANGED <<may, pay, row, amt, prov, event, noted>>
  BY DEF Lookup, IInv, Holds, At, Naming, Owning, Hearing
<1>2. PICK s \in HandlerStates :
        /\ Become(i, s)
        /\ IF row[f] \in TerminalRefund \/ prov[f] = "cancelled"
           THEN s.pc = "readPayment"
           ELSE s.pc = "recordEvent" /\ s.ref = f /\ s.to = prov[f]
  <2>1. /\ [Idle EXCEPT !.pc = "readPayment"] \in HandlerStates
        /\ [Idle EXCEPT !.pc = "readPayment"].pc = "readPayment"
    BY AmountAssumption DEF Idle, HandlerStates, Labels
  <2> DEFINE t == [Idle EXCEPT !.pc = "recordEvent", !.ref = f, !.to = prov[f]]
  <2>2. t \in HandlerStates /\ t.pc = "recordEvent" /\ t.ref = f /\ t.to = prov[f]
    BY <1>1, IdleType DEF HandlerStates, Labels, RefundStatuses
  <2> HIDE DEF t
  <2> QED
    BY <2>1, <2>2 DEF Lookup, t
<1>3. /\ h' \in [Handlers -> HandlerStates] /\ h'[i] = s
      /\ \A j \in Handlers \ {i} : h'[j] = h[j]
  BY <1>2, HandlerTypes DEF IInv
<1>4. TypeOK'
  BY <1>1, <1>3 DEF IInv, TypeOK
<1>5. ASSUME NEW g \in Refunds PROVE (Told(g) /\ Recorded(g))'
  <2>1. Told(g)'
    BY <1>1, <1>5 DEF IInv, Told
  <2>2. CASE g = f /\ (row[f] \in TerminalRefund \/ prov[f] = "cancelled")
    BY <1>1, <1>5, <2>1, <2>2 DEF IInv, Recorded, Quiet
  <2>3. CASE g = f /\ ~(row[f] \in TerminalRefund \/ prov[f] = "cancelled")
    <3>1. \E j \in Handlers : h'[j].pc \in Hearing /\ h'[j].ref = g
      BY <1>2, <1>3, <2>3 DEF Hearing
    <3> QED
      BY <1>1, <1>5, <2>1, <3>1 DEF IInv, Recorded, Quiet
  <2>4. CASE g # f
    <3>1. \A j \in Handlers : h[j].ref = g => h'[j] = h[j]
      BY <1>3, <2>4
    <3> QED
      BY <1>1, <1>5, <2>1, <3>1 DEF IInv, Recorded, Quiet
  <2> QED
    BY <2>1, <2>2, <2>3, <2>4
<1>6. ASSUME NEW j \in Handlers \ {i} PROVE Holds(j)'
  BY <1>1, <1>3, <1>6 DEF IInv, Holds, At, Quiet
<1>7. Holds(i)'
  BY <1>1, <1>2, <1>3 DEF Holds, At, Naming, Owning, Hearing
<1> QED
  BY <1>1, <1>2, <1>3, <1>4, <1>5, <1>6, <1>7, StepKeeps DEF At, Owning

\* What the provider ends was open, so no end that anybody holds is touched.
LEMMA ProviderEndsStep ==
    ASSUME IInv, NEW f \in Refunds, ProviderEnds(f) PROVE IInv'
<1>1. PICK s \in TerminalRefund : prov' = [prov EXCEPT ![f] = s]
  BY DEF ProviderEnds
<1>2. /\ UNCHANGED <<may, pay, row, amt, noted, h>> /\ prov[f] = "pending"
      /\ \A g \in Refunds : /\ prov'[g] = IF g = f THEN s ELSE prov[g]
                            /\ event'[g] = IF g = f THEN "sent" ELSE event[g]
  BY <1>1 DEF ProviderEnds, IInv, TypeOK
<1>3. TypeOK'
  <2>1. s \in RefundStatuses \cup {"none"}
    BY DEF RefundStatuses
  <2> QED
    BY <1>1, <2>1 DEF ProviderEnds, IInv, TypeOK
<1>4. event[f] = "unsent" /\ row[f] # "absent"
  BY <1>2 DEF IInv, Told, TerminalRefund
<1>5. ASSUME NEW g \in Refunds PROVE (Told(g) /\ Recorded(g))'
  <2>1. Told(g)'
    BY <1>2, <1>4, <1>5 DEF IInv, Told, TerminalRefund
  <2>2. Recorded(g)'
    BY <1>2, <1>4, <1>5 DEF IInv, Recorded, Quiet, TerminalRefund
  <2> QED
    BY <2>1, <2>2
<1>6. ASSUME NEW j \in Handlers PROVE Holds(j)'
  BY <1>2, <1>6 DEF IInv, Holds, At, Quiet, Naming, Owning, Hearing, TerminalRefund
<1>7. \A i, j \in Handlers : i # j => Apart(i, j)'
  BY <1>2 DEF IInv, Apart, At
<1> QED
  BY <1>3, <1>5, <1>6, <1>7 DEF IInv

-----------------------------------------------------------------------------
LEMMA InitStep == Init => IInv
<1> SUFFICES ASSUME Init PROVE IInv
  OBVIOUS
<1>1. \A i \in Handlers : h[i] = Idle /\ h[i].pc = "idle"
  BY DEF Init, Idle
<1>2. TypeOK
  <2>1. [f \in Refunds |-> 0] \in [Refunds -> 0 .. Amount]
    BY AmountAssumption
  <2> QED
    BY <2>1, IdleType DEF Init, TypeOK, PayStatuses
<1>3. \A f \in Refunds : Told(f) /\ Recorded(f)
  BY DEF Init, Told, Recorded, TerminalRefund
<1>4. \A i \in Handlers : Holds(i)
  BY <1>1 DEF Holds, At, Naming, Owning, Hearing
<1>5. \A i, j \in Handlers : i # j => Apart(i, j)
  BY <1>1 DEF Apart, At, Owning
<1> QED
  BY <1>2, <1>3, <1>4, <1>5 DEF IInv

LEMMA NextStep == IInv /\ [Next]_vars => IInv'
<1> SUFFICES ASSUME IInv, [Next]_vars PROVE IInv'
  OBVIOUS
<1>1. ASSUME NEW i \in Handlers, CreateBegin(i) \/ ReadPrior(i) \/ Insert(i) PROVE IInv'
  BY <1>1, CreateBeginStep, ReadPriorStep, InsertStep
<1>2. ASSUME NEW i \in Handlers, CallProvider(i) \/ Record(i) \/ RecordFailure(i) PROVE IInv'
  BY <1>2, CallProviderStep, RecordStep
<1>3. ASSUME NEW i \in Handlers, NEW f \in Refunds, Deliver(i, f) PROVE IInv'
  BY <1>3, DeliverStep
<1>4. ASSUME NEW i \in Handlers, Lookup(i) \/ RecordEvent(i) PROVE IInv'
  BY <1>4, LookupStep, RecordEventStep
<1>5. ASSUME NEW i \in Handlers,
             \/ ReadPayment(i) \/ SumRefunds(i) \/ WritePayment(i) \/ Notify(i)
             \/ LateEventReads(i) \/ LateEventWrites(i) \/ Abort(i)
      PROVE  IInv'
  BY <1>5, RecomputeStep
<1>6. ASSUME NEW f \in Refunds, ProviderEnds(f) PROVE IInv'
  BY <1>6, ProviderEndsStep
<1>7. CASE UNCHANGED vars
  BY <1>7 DEF vars, IInv, TypeOK, Told, Recorded, Holds, Apart, At, Quiet
<1> QED
  BY <1>1, <1>2, <1>3, <1>4, <1>5, <1>6, <1>7 DEF Next

-----------------------------------------------------------------------------
(* Amounts.                                                                 *)

\* The sum of the amounts a of some refunds: Total(S) is Sum(amt, S).
Sum(a, S) == Cardinality({u \in S \X (1 .. Amount) : u[2] <= a[u[1]]})

\* More refunds of the same amounts sum up to more.
LEMMA SumGrows ==
    ASSUME NEW a, NEW b, NEW T \in SUBSET Refunds, NEW S \in SUBSET T,
           \A f \in S : a[f] = b[f]
    PROVE  Sum(a, S) \in Nat /\ Sum(b, T) \in Nat /\ Sum(a, S) <= Sum(b, T)
<1> DEFINE X == {u \in S \X (1 .. Amount) : u[2] <= a[u[1]]}
           Y == {u \in T \X (1 .. Amount) : u[2] <= b[u[1]]}
<1>1. IsFiniteSet(T) /\ IsFiniteSet(1 .. Amount)
  BY FS_Subset, FS_Interval, RefundsAssumption, AmountAssumption
<1>2. IsFiniteSet(T \X (1 .. Amount))
  BY <1>1, FS_Product
<1>3. Y \in SUBSET (T \X (1 .. Amount)) /\ X \in SUBSET Y
  OBVIOUS
<1>4. IsFiniteSet(Y)
  BY <1>2, <1>3, FS_Subset
<1>5. IsFiniteSet(X) /\ Cardinality(X) <= Cardinality(Y)
  BY <1>3, <1>4, FS_Subset
<1> QED
  BY <1>4, <1>5, FS_CardinalityType DEF Sum

\* One more refund adds its amount at most.
LEMMA SumAdds ==
    ASSUME NEW a, NEW b, NEW f \in Refunds, NEW n \in 0 .. Amount, b[f] = n,
           NEW T \in SUBSET Refunds, NEW S \in SUBSET Refunds,
           S \ {f} \subseteq T, \A g \in S \ {f} : a[g] = b[g]
    PROVE  Sum(b, S) <= Sum(a, T) + n
<1> DEFINE R == S \ {f}
           X == {u \in R \X (1 .. Amount) : u[2] <= b[u[1]]}
           Z == {u \in {f} \X (1 .. Amount) : u[2] <= n}
           Y == {u \in S \X (1 .. Amount) : u[2] <= b[u[1]]}
           c == [k \in 1 .. n |-> <<f, k>>]
<1>1. n \in Nat /\ n <= Amount /\ Amount \in Nat
  BY AmountAssumption
<1>2. c \in Surjection(1 .. n, Z)
  <2>1. c \in [1 .. n -> Z]
    BY <1>1
  <2>2. ASSUME NEW z \in Z PROVE \E k \in 1 .. n : c[k] = z
    <3>1. z[1] = f /\ z[2] \in 1 .. n /\ z = <<z[1], z[2]>>
      BY <1>1
    <3> QED
      BY <3>1
  <2> QED
    BY <2>1, <2>2 DEF Surjection
<1>3. IsFiniteSet(1 .. n) /\ Cardinality(1 .. n) = n
  <2>1. /\ IsFiniteSet(1 .. n)
        /\ Cardinality(1 .. n) = IF 1 > n THEN 0 ELSE n - 1 + 1
    BY <1>1, FS_Interval
  <2> QED
    BY <1>1, <2>1
<1>4. IsFiniteSet(Z) /\ Cardinality(Z) <= n
  BY <1>2, <1>3, FS_Surjection
<1>5. IsFiniteSet(X)
  <2>1. IsFiniteSet(R) /\ IsFiniteSet(1 .. Amount)
    BY <1>1, FS_Subset, FS_Interval, RefundsAssumption
  <2>2. IsFiniteSet(R \X (1 .. Amount))
    BY <2>1, FS_Product
  <2>3. X \in SUBSET (R \X (1 .. Amount))
    OBVIOUS
  <2> QED
    BY <2>2, <2>3, FS_Subset
<1>6. IsFiniteSet(X \cup Z) /\ Cardinality(X \cup Z) <= Cardinality(X) + Cardinality(Z)
  <2>1. IsFiniteSet(X \cap Z)
    BY <1>5, FS_Intersection
  <2>2. /\ Cardinality(X) \in Nat /\ Cardinality(Z) \in Nat /\ Cardinality(X \cap Z) \in Nat
        /\ IsFiniteSet(X \cup Z)
        /\ Cardinality(X \cup Z) = Cardinality(X) + Cardinality(Z) - Cardinality(X \cap Z)
    BY <1>4, <1>5, <2>1, FS_Union, FS_CardinalityType
  <2> HIDE DEF X, Z
  <2> QED
    BY <2>2
<1>7. Y \in SUBSET (X \cup Z)
  OBVIOUS
<1>8. /\ Cardinality(Y) <= Cardinality(X \cup Z)
      /\ Cardinality(Y) \in Nat /\ Cardinality(X \cup Z) \in Nat
  BY <1>6, <1>7, FS_Subset, FS_CardinalityType
<1>9. Sum(b, R) <= Sum(a, T) /\ Sum(b, R) \in Nat /\ Sum(a, T) \in Nat
  BY SumGrows
<1>10. Sum(b, R) = Cardinality(X) /\ Sum(b, S) = Cardinality(Y)
  BY DEF Sum
<1>11. Cardinality(Z) \in Nat
  BY <1>4, FS_CardinalityType
<1> HIDE DEF X, Y, Z, R, c
<1> QED
  BY <1>1, <1>4, <1>6, <1>8, <1>9, <1>10, <1>11

-----------------------------------------------------------------------------
(* What steps do to the refunds, whoever takes them.                        *)

\* One refund is inserted that fits, is answered or ended by the provider, or has
\* its row written; or none of these.
LEMMA Effects ==
    ASSUME IInv, [Next]_vars
    PROVE  /\ may' = may
           /\ \/ UNCHANGED <<row, amt, prov>>
              \/ \E f \in Refunds, n \in 0 .. Amount :
                   /\ row[f] = "absent" /\ Committed + n <= Amount /\ n # 0
                   /\ row' = [row EXCEPT ![f] = "pending"]
                   /\ amt' = [amt EXCEPT ![f] = n]
                   /\ prov' = prov
              \/ \E f \in Refunds, s \in RefundStatuses \cup {"none"} :
                   /\ prov[f] \in {"none", "pending"} /\ row[f] # "absent"
                   /\ prov[f] = "none" => row[f] = "pending"
                   /\ prov' = [prov EXCEPT ![f] = s]
                   /\ UNCHANGED <<row, amt>>
              \/ \E f \in Refunds, s \in RefundStatuses :
                   /\ row[f] # "absent"
                   /\ s = "success" => prov[f] = "success"
                   /\ s # "failed" => prov[f] # "none"
                   /\ row' = [row EXCEPT ![f] = s]
                   /\ UNCHANGED <<amt, prov>>
<1>1. CASE UNCHANGED vars
  BY <1>1 DEF vars
<1>2. ASSUME NEW i \in Handlers, Insert(i)
      PROVE  /\ may' = may
             /\ \/ UNCHANGED <<row, amt, prov>>
                \/ \E f \in Refunds, n \in 0 .. Amount :
                     /\ row[f] = "absent" /\ Committed + n <= Amount /\ n # 0
                     /\ row' = [row EXCEPT ![f] = "pending"]
                     /\ amt' = [amt EXCEPT ![f] = n]
                     /\ prov' = prov
  <2>1. h[i].amt \in 0 .. Amount /\ h[i].amt # 0
    BY <1>2 DEF IInv, TypeOK, HandlerStates, Insert, Holds
  <2> QED
    BY <1>2, <2>1 DEF Insert, BalanceAllows
<1>3. ASSUME NEW i \in Handlers, CallProvider(i)
      PROVE  /\ may' = may
             /\ \/ UNCHANGED <<row, amt, prov>>
                \/ \E f \in Refunds, s \in RefundStatuses \cup {"none"} :
                     /\ prov[f] \in {"none", "pending"} /\ row[f] # "absent"
                     /\ prov[f] = "none" => row[f] = "pending"
                     /\ prov' = [prov EXCEPT ![f] = s]
                     /\ UNCHANGED <<row, amt>>
  <2>1. h[i].ref \in Refunds /\ row[h[i].ref] = "pending" /\ prov[h[i].ref] = "none"
    BY <1>3 DEF CallProvider, IInv, Holds, At, Naming, Owning
  <2>2. "pending" \in RefundStatuses
    BY DEF RefundStatuses
  <2> QED
    BY <1>3, <2>1, <2>2 DEF CallProvider
<1>4. ASSUME NEW i \in Handlers, Record(i) \/ RecordFailure(i) \/ RecordEvent(i)
      PROVE  /\ may' = may
             /\ \/ UNCHANGED <<row, amt, prov>>
                \/ \E f \in Refunds, s \in RefundStatuses :
                     /\ row[f] # "absent"
                     /\ s = "success" => prov[f] = "success"
                     /\ s # "failed" => prov[f] # "none"
                     /\ row' = [row EXCEPT ![f] = s]
                     /\ UNCHANGED <<amt, prov>>
  <2> DEFINE f == h[i].ref
  <2>1. CASE Record(i)
    <3>1. /\ f \in Refunds /\ row[f] # "absent" /\ prov[f] # "none"
          /\ h[i].to \in RefundStatuses
          /\ h[i].to = "success" => prov[f] = "success"
      BY <1>4, <2>1 DEF Record, IInv, Holds, At, Naming, Owning, TerminalRefund
    <3> QED
      BY <2>1, <3>1 DEF Record
  <2>2. CASE RecordFailure(i)
    <3>1. "failed" \in RefundStatuses /\ f \in Refunds /\ row[f] # "absent"
      BY <1>4, <2>2 DEF RecordFailure, IInv, Holds, At, Naming, Owning, RefundStatuses, TerminalRefund
    <3> QED
      BY <2>2, <3>1 DEF RecordFailure
  <2>3. CASE RecordEvent(i)
    <3>1. /\ f \in Refunds /\ row[f] # "absent" /\ prov[f] # "none"
          /\ h[i].to = prov[f] /\ prov[f] \in RefundStatuses
      BY <1>4, <2>3 DEF RecordEvent, IInv, Told, Holds, At, Naming, Hearing, RefundStatuses, TerminalRefund
    <3> QED
      BY <2>3, <3>1 DEF RecordEvent
  <2> QED
    BY <1>4, <2>1, <2>2, <2>3
<1>5. ASSUME NEW f \in Refunds, ProviderEnds(f)
      PROVE  /\ may' = may
             /\ prov[f] = "pending" /\ row[f] # "absent"
             /\ \E s \in RefundStatuses \cup {"none"} : prov' = [prov EXCEPT ![f] = s]
             /\ UNCHANGED <<row, amt>>
  BY <1>5 DEF ProviderEnds, IInv, Told, RefundStatuses
<1>6. ASSUME NEW i \in Handlers,
             \/ CreateBegin(i) \/ ReadPrior(i) \/ Lookup(i)
             \/ \E f \in Refunds : Deliver(i, f)
             \/ ReadPayment(i) \/ SumRefunds(i) \/ WritePayment(i) \/ Notify(i)
             \/ LateEventReads(i) \/ LateEventWrites(i) \/ Abort(i)
      PROVE  UNCHANGED <<may, row, amt, prov>>
  BY <1>6 DEF CreateBegin, ReadPrior, Lookup, Deliver, ReadPayment, SumRefunds,
              WritePayment, Notify, LateEventReads, LateEventWrites, Abort
<1> QED
  BY <1>1, <1>2, <1>3, <1>4, <1>5, <1>6 DEF Next

\* What was paid back stays so.
LEMMA PaidGrows ==
    ASSUME IInv, [Next]_vars
    PROVE  PaidBack \in Nat /\ PaidBack' \in Nat /\ PaidBack <= PaidBack'
<1> DEFINE S == {f \in Refunds : prov[f] = "success"}
           T == {f \in Refunds : prov'[f] = "success"}
<1>1. S \subseteq T /\ \A f \in S : amt[f] = amt'[f]
  <2>1. /\ prov \in [Refunds -> RefundStatuses \cup {"none"}] /\ amt \in [Refunds -> 0 .. Amount]
        /\ \A f \in Refunds : row[f] = "absent" => prov[f] = "none"
    BY DEF IInv, TypeOK, Told
  <2>2. CASE UNCHANGED <<row, amt, prov>>
    BY <2>2
  <2>3. CASE \E f \in Refunds, n \in 0 .. Amount :
               row[f] = "absent" /\ amt' = [amt EXCEPT ![f] = n] /\ prov' = prov
    BY <2>1, <2>3
  <2>4. CASE \E f \in Refunds, s \in RefundStatuses \cup {"none"} :
               /\ prov[f] \in {"none", "pending"}
               /\ prov' = [prov EXCEPT ![f] = s] /\ amt' = amt
    BY <2>1, <2>4
  <2> QED
    BY <2>2, <2>3, <2>4, Effects
<1>2. PaidBack = Sum(amt, S) /\ PaidBack' = Sum(amt', T)
  BY DEF PaidBack, Total, Units, Sum
<1> HIDE DEF S, T
<1>3. S \in SUBSET T /\ T \in SUBSET Refunds
  BY <1>1 DEF S, T
<1> QED
  BY <1>1, <1>2, <1>3, SumGrows

\* Refunds that read success were paid back.
LEMMA RefundedPaid ==
    ASSUME IInv PROVE Refunded \in Nat /\ PaidBack \in Nat /\ Refunded <= PaidBack
<1> DEFINE S == {f \in Refunds : row[f] = "success"}
           T == {f \in Refunds : prov[f] = "success"}
<1>1. S \in SUBSET T /\ T \in SUBSET Refunds
  BY DEF IInv, Told
<1>2. Refunded = Sum(amt, S) /\ PaidBack = Sum(amt, T)
  BY DEF Refunded, PaidBack, Total, Units, Sum
<1> HIDE DEF S, T
<1> QED
  BY <1>1, <1>2, SumGrows

-----------------------------------------------------------------------------
(* No more is paid back than the payment.                                   *)

\* The refunds whose money is gone, or may still go.
Live == {f \in Refunds : /\ row[f] \in {"pending", "success"}
                         /\ prov[f] \notin {"failed", "cancelled"}}

Bounded == "lose" \notin may => Total(Live) <= Amount

\* Only an insert adds to what is live, and it was checked against more than that.
LEMMA BoundedStep == IInv /\ Bounded /\ [Next]_vars => Bounded'
<1> SUFFICES ASSUME IInv, Bounded, [Next]_vars, "lose" \notin may
             PROVE  Total(Live)' <= Amount
  BY Effects DEF Bounded
<1> DEFINE S == {f \in Refunds : /\ row[f] \in {"pending", "success"}
                                 /\ prov[f] \notin {"failed", "cancelled"}}
           T == {f \in Refunds : /\ row'[f] \in {"pending", "success"}
                                 /\ prov'[f] \notin {"failed", "cancelled"}}
           C == {f \in Refunds : row[f] \in {"pending", "success"}}
<1>1. /\ Total(Live) = Sum(amt, S) /\ Total(Live)' = Sum(amt', T)
      /\ Committed = Sum(amt, C)
  BY DEF Total, Units, Sum, Live, Committed
<1>2. Sum(amt, S) <= Amount
  BY <1>1 DEF Bounded
<1>3. /\ prov \in [Refunds -> RefundStatuses \cup {"none"}] /\ amt \in [Refunds -> 0 .. Amount]
      /\ row \in [Refunds -> RefundStatuses \cup {"absent"}]
      /\ \A f \in Refunds : row[f] \in TerminalRefund =>
           prov[f] = row[f] \/ (row[f] = "failed" /\ prov[f] = "none")
  BY DEF IInv, TypeOK, Told
<1>4. CASE T \subseteq S /\ amt' = amt
  <2>1. T \in SUBSET S /\ S \in SUBSET Refunds
    BY <1>4
  <2> HIDE DEF S, T
  <2>2. Sum(amt, T) \in Nat /\ Sum(amt, S) \in Nat /\ Sum(amt, T) <= Sum(amt, S)
    BY <2>1, SumGrows
  <2> QED
    BY <1>1, <1>2, <1>4, <2>2, AmountAssumption
<1>5. ASSUME NEW f \in Refunds, NEW n \in 0 .. Amount,
             row[f] = "absent", Committed + n <= Amount,
             row' = [row EXCEPT ![f] = "pending"],
             amt' = [amt EXCEPT ![f] = n], prov' = prov
      PROVE  Sum(amt', T) <= Amount
  <2>1. T \ {f} \subseteq C /\ (\A g \in T \ {f} : amt[g] = amt'[g]) /\ amt'[f] = n
    BY <1>3, <1>5
  <2>2. T \in SUBSET Refunds /\ C \in SUBSET Refunds
    OBVIOUS
  <2> HIDE DEF C, T
  <2>3. Sum(amt', T) <= Sum(amt, C) + n
    BY <2>1, <2>2, SumAdds
  <2>4. Sum(amt', T) \in Nat /\ Sum(amt, C) \in Nat
    BY <2>2, SumGrows
  <2> QED
    BY <1>1, <1>5, <2>3, <2>4, AmountAssumption
<1>6. ASSUME NEW f \in Refunds, NEW s \in RefundStatuses \cup {"none"},
             prov[f] \in {"none", "pending"}, prov' = [prov EXCEPT ![f] = s], row' = row
      PROVE  T \subseteq S
  BY <1>3, <1>6
<1>7. ASSUME NEW f \in Refunds, NEW s \in RefundStatuses, row[f] # "absent",
             s # "failed" => prov[f] # "none",
             row' = [row EXCEPT ![f] = s], prov' = prov
      PROVE  T \subseteq S
  <2>1. ASSUME NEW g \in T PROVE g \in S
    <3>1. g # f => row[g] = row'[g] /\ prov[g] = prov'[g]
      BY <1>3, <1>7
    <3>2. g = f => row[g] \in {"pending", "success"}
      <4>1. g = f => s \in {"pending", "success"} /\ prov[f] \notin {"failed", "cancelled", "none"}
        BY <1>3, <1>7
      <4> QED
        BY <1>3, <1>7, <4>1 DEF RefundStatuses, TerminalRefund
    <3> QED
      BY <1>7, <3>1, <3>2
  <2> QED
    BY <2>1
<1>8. UNCHANGED <<row, amt, prov>> => T \subseteq S
  OBVIOUS
<1> HIDE DEF S, T, C
<1> QED
  BY <1>1, <1>4, <1>5, <1>6, <1>7, <1>8, Effects

-----------------------------------------------------------------------------
(* The status of the payment.                                               *)

\* A status of the payment says no more than was paid back.
Means(s) ==
    /\ s = "refunded" => PaidBack >= Amount
    /\ s = "partially_refunded" => PaidBack > 0

\* What a request is about to write or to tell means what was paid back, too.
HoldsReal(i) ==
    /\ At(i, "writePayment") => Means(h[i].next) /\ h[i].next # h[i].seen
    /\ At(i, "writeBack") => Means(h[i].seen)
    /\ At(i, "notify") => PaidBack > 0

Real ==
    /\ Means(pay)
    /\ noted => PaidBack > 0
    /\ \A i \in Handlers : HoldsReal(i)

\* What only four calls lead to.
Awaiting == {"sumRefunds", "writePayment", "writeBack", "notify"}

LEMMA Turns ==
    ASSUME IInv, NEW i \in Handlers,
           \/ CreateBegin(i) \/ ReadPrior(i) \/ Insert(i) \/ CallProvider(i)
           \/ Record(i) \/ RecordFailure(i)
           \/ \E f \in Refunds : Deliver(i, f)
           \/ Lookup(i) \/ RecordEvent(i)
           \/ Notify(i) \/ LateEventWrites(i) \/ Abort(i)
    PROVE  /\ \A j \in Handlers \ {i} : h'[j] = h[j]
           /\ h'[i].pc \notin Awaiting
<1>1. h \in [Handlers -> HandlerStates] /\ h[i] \in HandlerStates
  BY DEF IInv, TypeOK
<1>2. CASE Done(i)
  BY <1>1, <1>2 DEF Done, Become, Idle, Awaiting
<1>3. ASSUME NEW l \in Labels \ Awaiting, Goto(i, l)
      PROVE  /\ \A j \in Handlers \ {i} : h'[j] = h[j]
             /\ h'[i].pc \notin Awaiting
  BY <1>1, <1>3 DEF Goto, HandlerStates, Awaiting
<1>4. CASE CreateBegin(i)
  BY <1>3, <1>4 DEF CreateBegin, Labels, Awaiting
<1>5. ASSUME NEW s, Become(i, s), s.pc \notin Awaiting
      PROVE  /\ \A j \in Handlers \ {i} : h'[j] = h[j]
             /\ h'[i].pc \notin Awaiting
  BY <1>1, <1>5 DEF Become
<1>6. CASE ReadPrior(i)
  <2>1. \A a \in 1 .. Amount : [Idle EXCEPT !.pc = "insert", !.amt = a].pc = "insert"
    BY IdleType DEF HandlerStates
  <2> QED
    BY <1>2, <1>5, <1>6, <2>1 DEF ReadPrior, Awaiting
<1>7. CASE Insert(i)
  <2>1. \A f \in Refunds : [Idle EXCEPT !.pc = "call", !.ref = f].pc = "call"
    BY IdleType DEF HandlerStates
  <2> QED
    BY <1>2, <1>5, <1>7, <2>1 DEF Insert, Awaiting
<1>8. CASE CallProvider(i)
  <2>1. \A f, s : [Idle EXCEPT !.pc = "record", !.ref = f, !.to = s].pc = "record"
    BY IdleType DEF HandlerStates
  <2>2. CASE Goto(i, "recordFailure")
    BY <1>3, <2>2 DEF Labels, Awaiting
  <2> QED
    BY <1>5, <1>8, <2>1, <2>2 DEF CallProvider, Awaiting
<1>9. CASE Record(i) \/ RecordEvent(i)
  <2>1. [Idle EXCEPT !.pc = "readPayment"].pc = "readPayment"
    BY IdleType DEF HandlerStates
  <2> QED
    BY <1>5, <1>9, <2>1 DEF Record, RecordEvent, Awaiting
<1>10. CASE \E f \in Refunds : Deliver(i, f)
  <2>1. \A f \in Refunds : [Idle EXCEPT !.pc = "lookup", !.ref = f].pc = "lookup"
    BY IdleType DEF HandlerStates
  <2> QED
    BY <1>5, <1>10, <2>1 DEF Deliver, Awaiting
<1>11. CASE Lookup(i)
  <2>1. /\ [Idle EXCEPT !.pc = "readPayment"].pc = "readPayment"
        /\ \A f, s : [Idle EXCEPT !.pc = "recordEvent", !.ref = f, !.to = s].pc = "recordEvent"
    BY IdleType DEF HandlerStates
  <2> QED
    BY <1>5, <1>11, <2>1 DEF Lookup, Awaiting
<1> QED
  BY <1>2, <1>4, <1>6, <1>7, <1>8, <1>9, <1>10, <1>11
  DEF RecordFailure, Notify, LateEventWrites, Abort

\* What was paid back only grows, so whatever was real stays so.
LEMMA RealStep == IInv /\ Real /\ [Next]_vars => Real'
<1> SUFFICES ASSUME IInv, Real, [Next]_vars PROVE Real'
  OBVIOUS
<1>1. PaidBack \in Nat /\ PaidBack' \in Nat /\ PaidBack <= PaidBack' /\ Amount \in Nat \ {0}
  BY PaidGrows, AmountAssumption
<1>2. \A s : Means(s) => /\ s = "refunded" => PaidBack' >= Amount
                         /\ s = "partially_refunded" => PaidBack' > 0
  BY <1>1 DEF Means
<1>3. ASSUME NEW j \in Handlers, h'[j] = h[j] PROVE HoldsReal(j)'
  BY <1>1, <1>2, <1>3 DEF Real, HoldsReal, Means, At
<1>4. ASSUME pay' = pay, noted' = noted PROVE Means(pay)' /\ (noted => PaidBack > 0)'
  BY <1>1, <1>2, <1>4 DEF Real, Means
<1>5. CASE UNCHANGED vars \/ \E f \in Refunds : ProviderEnds(f)
  BY <1>3, <1>4, <1>5 DEF Real, vars, ProviderEnds
<1>6. ASSUME NEW i \in Handlers,
             \/ CreateBegin(i) \/ ReadPrior(i) \/ Insert(i) \/ CallProvider(i)
             \/ Record(i) \/ RecordFailure(i)
             \/ \E f \in Refunds : Deliver(i, f)
             \/ Lookup(i) \/ RecordEvent(i) \/ Notify(i) \/ LateEventWrites(i) \/ Abort(i)
      PROVE  Real'
  <2>1. /\ \A j \in Handlers \ {i} : h'[j] = h[j]
        /\ h'[i].pc \notin {"writePayment", "writeBack", "notify"}
    BY <1>6, Turns DEF Awaiting
  <2>2. \A j \in Handlers : HoldsReal(j)'
    BY <1>3, <2>1 DEF HoldsReal, At
  <2>3. CASE Notify(i)
    <3>1. PaidBack > 0 /\ pay' = pay
      BY <2>3 DEF Notify, Real, HoldsReal
    <3> QED
      BY <1>1, <1>2, <2>2, <3>1 DEF Real, Means
  <2>4. CASE LateEventWrites(i)
    <3>1. Means(h[i].seen) /\ pay' = h[i].seen /\ noted' = noted
      BY <2>4 DEF LateEventWrites, Real, HoldsReal
    <3> QED
      BY <1>1, <1>2, <2>2, <3>1 DEF Real, Means
  <2>5. CASE ~(Notify(i) \/ LateEventWrites(i))
    <3>1. pay' = pay /\ noted' = noted
      BY <1>6, <2>5 DEF CreateBegin, ReadPrior, Insert, CallProvider, Record,
                        RecordFailure, Deliver, Lookup, RecordEvent, Abort
    <3> QED
      BY <1>4, <2>2, <3>1 DEF Real
  <2> QED
    BY <2>3, <2>4, <2>5
<1>7. ASSUME NEW i \in Handlers, SumRefunds(i) PROVE Real'
  <2>1. UNCHANGED <<pay, noted, prov, amt>> /\ PaidBack' = PaidBack
    BY <1>7 DEF SumRefunds, PaidBack, Total, Units
  <2>2. h \in [Handlers -> HandlerStates] /\ h[i] \in HandlerStates
    BY DEF IInv, TypeOK
  <2>3. Means(StatusFor(Refunded))
    BY <1>1, RefundedPaid DEF Means, StatusFor
  <2>4. /\ \A j \in Handlers \ {i} : h'[j] = h[j]
        /\ \/ h'[i].pc = "idle"
           \/ /\ h'[i].pc = "writePayment"
              /\ h'[i].next = StatusFor(Refunded) /\ h'[i].seen = h[i].seen
              /\ StatusFor(Refunded) # h[i].seen
    <3>1. CASE Done(i)
      BY <2>2, <3>1 DEF Done, Become, Idle
    <3>2. CASE ~Done(i)
      <4> DEFINE t == [Idle EXCEPT !.pc = "writePayment", !.seen = h[i].seen,
                                   !.next = StatusFor(Refunded)]
      <4>1. /\ t.pc = "writePayment" /\ t.seen = h[i].seen /\ t.next = StatusFor(Refunded)
        BY IdleType DEF HandlerStates
      <4> HIDE DEF t
      <4>2. Become(i, t) /\ StatusFor(Refunded) # h[i].seen
        BY <1>7, <3>2 DEF SumRefunds, t
      <4> QED
        BY <2>2, <4>1, <4>2 DEF Become
    <3> QED
      BY <3>1, <3>2
  <2>5. HoldsReal(i)'
    BY <2>1, <2>3, <2>4 DEF HoldsReal, Means, At
  <2> QED
    BY <1>3, <1>4, <2>1, <2>4, <2>5 DEF Real
<1>8. ASSUME NEW i \in Handlers, WritePayment(i) PROVE Real'
  <2>1. /\ pay' = h[i].next /\ noted' = noted
        /\ Means(h[i].next) /\ h[i].next # h[i].seen /\ h[i].next \in PayStatuses
    BY <1>8 DEF WritePayment, Real, HoldsReal, IInv, Holds
  <2>2. h \in [Handlers -> HandlerStates] /\ h[i] \in HandlerStates
    BY DEF IInv, TypeOK
  <2>3. /\ \A j \in Handlers \ {i} : h'[j] = h[j]
        /\ h'[i].pc = "idle" \/ (h'[i].pc = "notify" /\ h[i].seen = "success")
    <3>1. CASE Done(i)
      BY <2>2, <3>1 DEF Done, Become, Idle
    <3>2. CASE Goto(i, "notify") /\ h[i].seen = "success"
      BY <2>2, <3>2 DEF Goto, HandlerStates
    <3> QED
      BY <1>8, <3>1, <3>2 DEF WritePayment
  <2>4. h[i].seen = "success" => PaidBack > 0
    BY <1>1, <2>1 DEF Means, PayStatuses
  <2>5. HoldsReal(i)'
    BY <1>1, <2>3, <2>4 DEF HoldsReal, At
  <2>6. Means(pay)' /\ (noted => PaidBack > 0)'
    BY <1>1, <1>2, <2>1 DEF Real, Means
  <2> QED
    BY <1>3, <2>3, <2>5, <2>6 DEF Real
<1>9. ASSUME NEW i \in Handlers, LateEventReads(i) PROVE Real'
  <2>1. h \in [Handlers -> HandlerStates] /\ Idle \in HandlerStates /\ pay \in PayStatuses
    BY IdleType DEF IInv, TypeOK
  <2>2. /\ UNCHANGED <<pay, noted>>
        /\ \A j \in Handlers \ {i} : h'[j] = h[j]
        /\ h'[i].pc = "writeBack" /\ h'[i].seen = pay
    BY <1>9, <2>1 DEF LateEventReads, Become, HandlerStates
  <2>3. HoldsReal(i)'
    BY <1>2, <2>2 DEF HoldsReal, At, Real, Means
  <2> QED
    BY <1>3, <1>4, <2>2, <2>3 DEF Real
<1>10. ASSUME NEW i \in Handlers, ReadPayment(i) PROVE Real'
  <2>1. h \in [Handlers -> HandlerStates] /\ Idle \in HandlerStates /\ pay \in PayStatuses
    BY IdleType DEF IInv, TypeOK
  <2>2. /\ UNCHANGED <<pay, noted>>
        /\ \A j \in Handlers \ {i} : h'[j] = h[j]
        /\ h'[i].pc = "sumRefunds"
    BY <1>10, <2>1 DEF ReadPayment, Become, HandlerStates
  <2>3. HoldsReal(i)'
    BY <2>2 DEF HoldsReal, At
  <2> QED
    BY <1>3, <1>4, <2>2, <2>3 DEF Real
<1> QED
  BY <1>5, <1>6, <1>7, <1>8, <1>9, <1>10 DEF Next

-----------------------------------------------------------------------------
(* Where requests follow one another and none fails, the payment's status   *)
(* follows its refunds.                                                     *)

Orderly == may \subseteq {"lose", "late"}

Recomputing == {"readPayment", "sumRefunds", "writePayment"}

\* The status is that of the refunds, or a request is about to make it so.
Follows == Orderly =>
    /\ (\A i \in Handlers : h[i].pc \notin Recomputing) => pay = StatusFor(Refunded)
    /\ \A i \in Handlers :
         /\ At(i, "sumRefunds") => h[i].seen = pay
         /\ At(i, "writePayment") => h[i].next = StatusFor(Refunded)
         /\ At(i, "writeBack") => h[i].seen = pay

\* The sum changes only where the row of a refund is written.
LEMMA RefundedSame ==
    ASSUME IInv,
           {f \in Refunds : row'[f] = "success"} = {f \in Refunds : row[f] = "success"},
           \A f \in Refunds : row[f] = "success" => amt'[f] = amt[f]
    PROVE  Refunded' = Refunded
<1> DEFINE S == {f \in Refunds : row[f] = "success"}
<1>1. Refunded = Sum(amt, S) /\ Refunded' = Sum(amt', S)
  BY DEF Refunded, Total, Units, Sum
<1>2. S \in SUBSET S /\ S \in SUBSET Refunds /\ \A f \in S : amt'[f] = amt[f]
  OBVIOUS
<1> HIDE DEF S
<1>3. Sum(amt, S) <= Sum(amt', S) /\ Sum(amt', S) <= Sum(amt, S)
  BY <1>2, SumGrows
<1>4. Sum(amt, S) \in Nat /\ Sum(amt', S) \in Nat
  BY <1>2, SumGrows
<1> QED
  BY <1>1, <1>3, <1>4

LEMMA FollowsStep == IInv /\ Follows /\ [Next]_vars => Follows'
<1> SUFFICES ASSUME IInv, Follows, [Next]_vars, Orderly PROVE Follows'
  BY Effects DEF Follows, Orderly
<1>1. h \in [Handlers -> HandlerStates] /\ Idle \in HandlerStates /\ Idle.pc = "idle"
  BY IdleType DEF IInv, TypeOK, Idle
<1>2. ASSUME NEW i \in Handlers, ~At(i, "idle") \/ Free(i),
             \A j \in Handlers \ {i} : h'[j] = h[j],
             h'[i].pc \notin Recomputing => pay' = StatusFor(Refunded'),
             h'[i].pc = "sumRefunds" => h'[i].seen = pay',
             h'[i].pc = "writePayment" => h'[i].next = StatusFor(Refunded'),
             h'[i].pc = "writeBack" => h'[i].seen = pay'
      PROVE  Follows'
  <2>1. \A j \in Handlers \ {i} : h'[j].pc = "idle"
    BY <1>2, AtWork DEF Orderly, At
  <2>2. StatusFor(Refunded)' = StatusFor(Refunded')
    BY DEF StatusFor
  <2> QED
    BY <1>2, <2>1, <2>2 DEF Follows, At
<1>3. ASSUME NEW i \in Handlers, h[i].pc \notin Recomputing, ~At(i, "idle") \/ Free(i)
      PROVE  pay = StatusFor(Refunded)
  BY <1>3, AtWork DEF Follows, Orderly, At, Recomputing
<1>4. ASSUME NEW i \in Handlers, pay' = pay, Refunded' = Refunded,
             h[i].pc \notin Recomputing, ~At(i, "idle") \/ Free(i),
             \A j \in Handlers \ {i} : h'[j] = h[j],
             h'[i].pc \notin {"sumRefunds", "writePayment", "writeBack"}
      PROVE  Follows'
  BY <1>2, <1>3, <1>4
<1>5. CASE UNCHANGED vars
  <2>1. Refunded' = Refunded
    BY <1>5, RefundedSame DEF vars
  <2> QED
    BY <1>5, <2>1 DEF vars, Follows, Orderly, At, StatusFor
<1>6. ASSUME NEW f \in Refunds, ProviderEnds(f) PROVE Follows'
  <2>1. Refunded' = Refunded
    BY <1>6, RefundedSame DEF ProviderEnds
  <2> QED
    BY <1>6, <2>1 DEF ProviderEnds, Follows, Orderly, At, StatusFor
<1>7. ASSUME NEW i \in Handlers,
             \/ CreateBegin(i) \/ ReadPrior(i) \/ Insert(i) \/ CallProvider(i)
             \/ RecordFailure(i) \/ Lookup(i) \/ Notify(i)
             \/ \E f \in Refunds : Deliver(i, f)
      PROVE  Follows'
  <2>1. /\ \A j \in Handlers \ {i} : h'[j] = h[j]
        /\ h'[i].pc \notin {"sumRefunds", "writePayment", "writeBack"}
    BY <1>7, Turns DEF Awaiting
  <2>2. pay' = pay /\ h[i].pc \notin Recomputing /\ (~At(i, "idle") \/ Free(i))
    BY <1>7 DEF CreateBegin, ReadPrior, Insert, CallProvider, RecordFailure,
                Lookup, Notify, Deliver, At, Free, Recomputing
  <2>3. Refunded' = Refunded
    <3>1. CASE Insert(i)
      <4>1. /\ row \in [Refunds -> RefundStatuses \cup {"absent"}]
            /\ amt \in [Refunds -> 0 .. Amount]
        BY DEF IInv, TypeOK
      <4>2. \A f \in Refunds : /\ row'[f] = "success" <=> row[f] = "success"
                               /\ row[f] = "success" => amt'[f] = amt[f]
        BY <3>1, <4>1 DEF Insert
      <4> QED
        BY <4>2, RefundedSame
    <3>2. CASE RecordFailure(i)
      <4>1. row \in [Refunds -> RefundStatuses \cup {"absent"}]
        BY DEF IInv, TypeOK
      <4>2. row[h[i].ref] = "pending" /\ h[i].ref \in Refunds
        BY <3>2 DEF RecordFailure, IInv, Holds, Orderly, At, Naming, Owning
      <4>3. amt' = amt /\ \A f \in Refunds : row'[f] = "success" <=> row[f] = "success"
        BY <3>2, <4>1, <4>2 DEF RecordFailure
      <4> QED
        BY <4>3, RefundedSame
    <3>3. CASE ~(Insert(i) \/ RecordFailure(i))
      <4>1. UNCHANGED <<row, amt>>
        BY <1>7, <3>3 DEF CreateBegin, ReadPrior, CallProvider, Lookup, Notify, Deliver
      <4> QED
        BY <4>1, RefundedSame
    <3> QED
      BY <3>1, <3>2, <3>3
  <2> QED
    BY <1>4, <2>1, <2>2, <2>3
<1>8. ASSUME NEW i \in Handlers, Record(i) \/ RecordEvent(i) PROVE Follows'
  <2>1. /\ \A j \in Handlers \ {i} : h'[j] = h[j]
        /\ h'[i].pc = "readPayment"
    BY <1>1, <1>8 DEF Record, RecordEvent, Become, HandlerStates
  <2>2. ~At(i, "idle")
    BY <1>8 DEF Record, RecordEvent, At
  <2> QED
    BY <1>2, <2>1, <2>2 DEF Recomputing
<1>9. ASSUME NEW i \in Handlers, ReadPayment(i) PROVE Follows'
  <2>1. pay \in PayStatuses
    BY DEF IInv, TypeOK
  <2>2. /\ \A j \in Handlers \ {i} : h'[j] = h[j]
        /\ h'[i].pc = "sumRefunds" /\ h'[i].seen = pay /\ pay' = pay
    BY <1>1, <1>9, <2>1 DEF ReadPayment, Become, HandlerStates
  <2>3. ~At(i, "idle")
    BY <1>9 DEF ReadPayment, At
  <2> QED
    BY <1>2, <2>2, <2>3 DEF Recomputing
<1>10. ASSUME NEW i \in Handlers, SumRefunds(i) PROVE Follows'
  <2>1. h[i].seen = pay /\ pay' = pay /\ ~At(i, "idle")
    BY <1>10 DEF SumRefunds, Follows, At
  <2>2. Refunded' = Refunded
    BY <1>10, RefundedSame DEF SumRefunds
  <2>3. CASE Done(i) /\ StatusFor(Refunded) = pay
    <3>1. (\A j \in Handlers \ {i} : h'[j] = h[j]) /\ h'[i].pc = "idle"
      BY <1>1, <2>3 DEF Done, Become
    <3> QED
      BY <1>2, <2>1, <2>2, <2>3, <3>1
  <2>4. CASE ~(Done(i) /\ StatusFor(Refunded) = pay)
    <3>1. /\ \A j \in Handlers \ {i} : h'[j] = h[j]
          /\ h'[i].pc = "writePayment" /\ h'[i].next = StatusFor(Refunded)
      BY <1>1, <1>10, <2>1, <2>4 DEF SumRefunds, Become, HandlerStates
    <3> QED
      BY <1>2, <2>1, <2>2, <3>1 DEF Recomputing
  <2> QED
    BY <2>3, <2>4
<1>11. ASSUME NEW i \in Handlers, WritePayment(i) PROVE Follows'
  <2>1. pay' = StatusFor(Refunded) /\ ~At(i, "idle")
    BY <1>11 DEF WritePayment, Follows, At
  <2>2. Refunded' = Refunded
    BY <1>11, RefundedSame DEF WritePayment
  <2>3. (\A j \in Handlers \ {i} : h'[j] = h[j]) /\ h'[i].pc \in {"idle", "notify"}
    <3>1. CASE Done(i)
      BY <1>1, <3>1 DEF Done, Become
    <3>2. CASE Goto(i, "notify")
      BY <1>1, <3>2 DEF Goto, HandlerStates
    <3> QED
      BY <1>11, <3>1, <3>2 DEF WritePayment
  <2> QED
    BY <1>2, <2>1, <2>2, <2>3
<1>12. ASSUME NEW i \in Handlers, LateEventReads(i) \/ LateEventWrites(i) PROVE Follows'
  <2>1. /\ h[i].pc \notin Recomputing /\ (~At(i, "idle") \/ Free(i))
        /\ pay \in PayStatuses /\ UNCHANGED <<row, amt>>
    BY <1>12 DEF LateEventReads, LateEventWrites, Free, At, Recomputing, IInv, TypeOK
  <2>2. pay = StatusFor(Refunded) /\ Refunded' = Refunded
    BY <1>3, <2>1, RefundedSame
  <2>3. /\ \A j \in Handlers \ {i} : h'[j] = h[j]
        /\ pay' = pay
        /\ h'[i].pc = "idle" \/ (h'[i].pc = "writeBack" /\ h'[i].seen = pay)
    <3>1. CASE LateEventReads(i)
      BY <1>1, <2>1, <3>1 DEF LateEventReads, Become, HandlerStates
    <3>2. CASE LateEventWrites(i)
      BY <1>1, <3>2 DEF LateEventWrites, Done, Become, Follows
    <3> QED
      BY <1>12, <3>1, <3>2
  <2> QED
    BY <1>2, <2>1, <2>2, <2>3
<1>13. ASSUME NEW i \in Handlers PROVE ~Abort(i)
  BY DEF Abort, Orderly
<1> QED
  BY <1>5, <1>6, <1>7, <1>8, <1>9, <1>10, <1>11, <1>12, <1>13 DEF Next

-----------------------------------------------------------------------------
\* All that is kept: at first nothing is paid back and nothing is due.
LEMMA InitAmounts == Init => Bounded /\ Real /\ Follows
<1> SUFFICES ASSUME Init PROVE Bounded /\ Real /\ Follows
  OBVIOUS
<1>1. \A i \in Handlers : h[i].pc = "idle"
  BY DEF Init, Idle
<1>2. Sum(amt, {}) = 0
  <2>1. {u \in {} \X (1 .. Amount) : u[2] <= amt[u[1]]} = {}
    OBVIOUS
  <2> QED
    BY <2>1, FS_EmptySet DEF Sum
<1>3. Bounded
  <2>1. Live = {}
    BY DEF Init, Live
  <2> QED
    BY <1>2, <2>1, AmountAssumption DEF Bounded, Total, Units, Sum
<1>4. Real
  BY <1>1 DEF Init, Real, HoldsReal, Means, At
<1>5. Follows
  <2>1. {f \in Refunds : row[f] = "success"} = {}
    BY DEF Init
  <2>2. Refunded = 0
    BY <1>2, <2>1 DEF Refunded, Total, Units, Sum
  <2> QED
    BY <1>1, <2>2 DEF Init, Follows, At, StatusFor
<1> QED
  BY <1>3, <1>4, <1>5

LEMMA Inductive == Spec => [](IInv /\ Bounded /\ Real /\ Follows)
<1>1. Init => IInv /\ Bounded /\ Real /\ Follows
  BY InitStep, InitAmounts
<1>2. /\ IInv /\ Bounded /\ Real /\ Follows /\ [Next]_vars
      => (IInv /\ Bounded /\ Real /\ Follows)'
  BY NextStep, BoundedStep, RealStep, FollowsStep
<1> QED
  BY <1>1, <1>2, PTL DEF Spec

\* Every variable keeps its shape.
THEOREM TypeCorrect == Spec => []TypeOK
<1>1. IInv => TypeOK
  BY DEF IInv
<1> QED
  BY <1>1, Inductive, PTL

\* createRefund, applyRefundEvent and recomputePaymentRefundStatus: a refund that
\* reads success was paid back, a payment that reads refunded was paid back in
\* full, and the booker hears of a refund only when one was, whatever overlaps,
\* fails or is lost.
THEOREM StatusReal == Spec => []StatusIsReal
<1>1. IInv /\ Real => StatusIsReal
  BY DEF IInv, Told, Real, Means, StatusIsReal, RefundIsReal
<1> QED
  BY <1>1, Inductive, PTL

\* No more money went back than the payment was, unless an answer was lost.
PaidBackAtMost == "lose" \notin may => PaidBack <= Amount

\* enforce_refund_balance: however many admins refund one payment at once, never
\* more is paid back than it is, where a call that failed was not carried out.
THEOREM PaidBackBounded == Spec => []PaidBackAtMost
<1>1. IInv /\ Bounded => PaidBackAtMost
  <2> SUFFICES ASSUME IInv, Bounded, "lose" \notin may PROVE PaidBack <= Amount
    BY DEF PaidBackAtMost
  <2> DEFINE S == {f \in Refunds : prov[f] = "success"}
             T == {f \in Refunds : /\ row[f] \in {"pending", "success"}
                                   /\ prov[f] \notin {"failed", "cancelled"}}
  <2>1. ASSUME NEW f \in S PROVE f \in T
    BY DEF IInv, Told, TypeOK, RefundStatuses, TerminalRefund
  <2>2. S \in SUBSET T /\ T \in SUBSET Refunds
    BY <2>1
  <2>3. PaidBack = Sum(amt, S) /\ Total(Live) = Sum(amt, T)
    BY DEF PaidBack, Live, Total, Units, Sum
  <2> HIDE DEF S, T
  <2>4. /\ Sum(amt, S) <= Sum(amt, T) /\ Sum(amt, T) <= Amount
        /\ Sum(amt, S) \in Nat /\ Sum(amt, T) \in Nat /\ Amount \in Nat
    BY <2>2, <2>3, SumGrows, AmountAssumption DEF Bounded
  <2> QED
    BY <2>3, <2>4
<1> QED
  BY <1>1, Inductive, PTL

\* recomputePaymentRefundStatus: where requests follow one another and none fails,
\* the payment has the status of its refunds whenever nothing is in progress,
\* whatever answers are lost and payment webhooks come late.
THEOREM StatusFollows == Spec => []StatusFollowsRefunds
<1>1. Follows => StatusFollowsRefunds
  BY DEF Follows, Orderly, StatusFollowsRefunds, StatusIsCurrent, AllIdle, At, Recomputing
<1> QED
  BY <1>1, Inductive, PTL

\* handleWebhook and applyRefundEvent: where requests follow one another and none
\* fails, a webhook that was taken has moved its refund to the end it tells of.
THEOREM TakenRecorded == Spec => []TakenIsRecorded
<1>1. IInv => TakenIsRecorded
  <2> SUFFICES ASSUME IInv, Quiet, AllIdle, NEW f \in Refunds,
                      event[f] = "taken", prov[f] # "cancelled"
               PROVE  row[f] = prov[f]
    BY DEF TakenIsRecorded, Quiet
  <2>1. ~\E i \in Handlers : h[i].pc \in Hearing
    BY DEF AllIdle, At, Hearing
  <2> QED
    BY <2>1 DEF IInv, Recorded
<1> QED
  BY <1>1, Inductive, PTL

-----------------------------------------------------------------------------
(* The refunds as a ledger.                                                 *)

\* What became of a refund, case by case.
LEMMA FateOf ==
    ASSUME NEW f \in Refunds, Told(f),
           prov[f] \in RefundStatuses \cup {"none"}
    PROVE  /\ fate[f] = "none" <=> row[f] = "absent"
           /\ fate[f] = "paid" <=> prov[f] = "success"
           /\ fate[f] = "dropped" <=> \/ prov[f] \in {"failed", "cancelled"}
                                      \/ prov[f] = "none" /\ row[f] = "failed"
           /\ fate[f] \in {"none", "held", "paid", "dropped"}
<1>1. fate[f] = CASE row[f] = "absent"   -> "none"
                  [] prov[f] = "success" -> "paid"
                  [] \/ prov[f] \in {"failed", "cancelled"}
                     \/ prov[f] = "none" /\ row[f] = "failed" -> "dropped"
                  [] OTHER               -> "held"
  BY DEF fate
<1>2. row[f] = "absent" => prov[f] = "none"
  BY DEF Told
<1>3. CASE row[f] = "absent"
  BY <1>1, <1>2, <1>3
<1>4. CASE row[f] # "absent" /\ prov[f] = "success"
  BY <1>1, <1>4
<1>5. CASE /\ row[f] # "absent" /\ prov[f] # "success"
           /\ \/ prov[f] \in {"failed", "cancelled"}
              \/ prov[f] = "none" /\ row[f] = "failed"
  BY <1>1, <1>5
<1>6. CASE /\ row[f] # "absent" /\ prov[f] # "success"
           /\ ~ \/ prov[f] \in {"failed", "cancelled"}
                \/ prov[f] = "none" /\ row[f] = "failed"
  BY <1>1, <1>6
<1> QED
  BY <1>3, <1>4, <1>5, <1>6

\* Ledger counts as this module does.
LEMMA SameCount == \A S : L!Cardinality(S) = Cardinality(S)
BY DEF L!Cardinality, Cardinality

\* The ledger's sum of what is paid is what was paid back.
LEMMA PaidSum == IInv => L!Sum(L!With({"paid"})) = PaidBack
<1> SUFFICES ASSUME IInv PROVE L!Sum(L!With({"paid"})) = PaidBack
  OBVIOUS
<1>1. \A f \in Refunds : fate[f] = "paid" <=> prov[f] = "success"
  BY FateOf DEF IInv, TypeOK
<1>2. L!With({"paid"}) = {f \in Refunds : prov[f] = "success"}
  BY <1>1 DEF L!With
<1> QED
  BY <1>2, SameCount DEF L!Sum, PaidBack, Total, Units

\* All that is held or paid is among what createRefund and the trigger count,
\* unless an answer was lost.
LEMMA HeldIsCommitted ==
    ASSUME IInv, "lose" \notin may
    PROVE  /\ L!Sum(L!With({"held", "paid"})) \in Nat /\ Committed \in Nat
           /\ L!Sum(L!With({"held", "paid"})) <= Committed
<1> DEFINE S == L!With({"held", "paid"})
           C == {f \in Refunds : row[f] \in {"pending", "success"}}
<1>1. ASSUME NEW f \in S PROVE f \in C
  <2>1. f \in Refunds /\ fate[f] \in {"held", "paid"}
    BY DEF L!With
  <2>2. /\ row[f] # "absent" /\ prov[f] \notin {"failed", "cancelled"}
        /\ ~(prov[f] = "none" /\ row[f] = "failed")
    BY <2>1, FateOf DEF IInv, TypeOK
  <2> QED
    BY <2>1, <2>2 DEF IInv, TypeOK, Told, RefundStatuses, TerminalRefund
<1>2. S \in SUBSET C /\ C \in SUBSET Refunds
  BY <1>1
<1>3. L!Sum(S) = Sum(amt, S) /\ Committed = Sum(amt, C)
  BY SameCount DEF L!Sum, Sum, Committed, Total, Units
<1> HIDE DEF S, C
<1>4. Sum(amt, S) \in Nat /\ Sum(amt, C) \in Nat /\ Sum(amt, S) <= Sum(amt, C)
  BY <1>2, SumGrows
<1> QED
  BY <1>3, <1>4 DEF S

\* The payment's status moves alone, and to what was paid back.
LEMMA PayMoves ==
    ASSUME IInv, Real, [Next]_vars
    PROVE  \/ pay' = pay
           \/ UNCHANGED <<row, amt, prov>> /\ Means(pay') /\ pay' \in PayStatuses
<1>1. ASSUME NEW i \in Handlers, WritePayment(i)
      PROVE  UNCHANGED <<row, amt, prov>> /\ Means(pay') /\ pay' \in PayStatuses
  BY <1>1 DEF WritePayment, Real, HoldsReal, IInv, Holds
<1>2. ASSUME NEW i \in Handlers, LateEventWrites(i)
      PROVE  UNCHANGED <<row, amt, prov>> /\ Means(pay') /\ pay' \in PayStatuses
  BY <1>2 DEF LateEventWrites, Real, HoldsReal, IInv, Holds
<1>3. ASSUME NEW i \in Handlers,
             \/ CreateBegin(i) \/ ReadPrior(i) \/ Insert(i) \/ CallProvider(i)
             \/ Record(i) \/ RecordFailure(i)
             \/ \E f \in Refunds : Deliver(i, f)
             \/ Lookup(i) \/ RecordEvent(i) \/ ReadPayment(i) \/ SumRefunds(i)
             \/ Notify(i) \/ LateEventReads(i) \/ Abort(i)
      PROVE  pay' = pay
  BY <1>3 DEF CreateBegin, ReadPrior, Insert, CallProvider, Record, RecordFailure,
              Deliver, Lookup, RecordEvent, ReadPayment, SumRefunds, Notify,
              LateEventReads, Abort
<1>4. (\E f \in Refunds : ProviderEnds(f)) \/ UNCHANGED vars => pay' = pay
  BY DEF ProviderEnds, vars
<1> QED
  BY <1>1, <1>2, <1>3, <1>4 DEF Next

\* A refund whose row and end at the provider stay keeps its fate.
LEMMA FateStays ==
    ASSUME NEW f \in Refunds, row'[f] = row[f], prov'[f] = prov[f]
    PROVE  fate'[f] = fate[f]
BY DEF fate

\* Two tables of fates that differ in one refund.
LEMMA FateWritten ==
    ASSUME NEW f \in Refunds, NEW x, fate'[f] = x,
           \A g \in Refunds \ {f} : row'[g] = row[g] /\ prov'[g] = prov[g]
    PROVE  fate' = [fate EXCEPT ![f] = x]
<1>1. \A g \in Refunds \ {f} : fate'[g] = fate[g]
  BY FateStays
<1>2. fate = [g \in Refunds |-> fate[g]] /\ fate' = [g \in Refunds |-> fate'[g]]
  BY DEF fate
<1> QED
  BY <1>1, <1>2

\* An insert holds its amount, since the trigger has counted all that is held.
LEMMA InsertHolds ==
    ASSUME IInv, IInv', "lose" \notin may, pay' = pay,
           NEW f \in Refunds, NEW n \in 0 .. Amount,
           row[f] = "absent", Committed + n <= Amount, n # 0,
           row' = [row EXCEPT ![f] = "pending"],
           amt' = [amt EXCEPT ![f] = n], prov' = prov
    PROVE  L!Next
<1>1. fate[f] = "none"
  BY FateOf DEF IInv, TypeOK
<1>2. L!Sum(L!With({"held", "paid"})) + n <= Amount
  BY HeldIsCommitted, AmountAssumption
<1>3. /\ row'[f] = "pending" /\ prov'[f] = "none"
      /\ \A g \in Refunds \ {f} : row'[g] = row[g] /\ prov'[g] = prov[g]
  BY DEF IInv, TypeOK, Told
<1>4. fate'[f] = "held"
  BY <1>3 DEF fate
<1>5. fate' = [fate EXCEPT ![f] = "held"]
  BY <1>3, <1>4, FateWritten
<1>6. L!Hold(f, n)
  BY <1>1, <1>2, <1>5 DEF L!Hold
<1>7. n \in 1 .. Amount
  BY AmountAssumption
<1> QED
  BY <1>6, <1>7 DEF L!Next

\* A refund that comes out of a step paid or dropped was held before it, or was
\* so already.
LEMMA FateEnds ==
    ASSUME IInv, IInv', pay' = pay, amt' = amt, NEW f \in Refunds,
           \A g \in Refunds \ {f} : row'[g] = row[g] /\ prov'[g] = prov[g],
           \/ fate'[f] = fate[f]
           \/ fate[f] = "held" /\ fate'[f] \in {"paid", "dropped"}
    PROVE  L!Next \/ UNCHANGED <<fate, amt, pay>>
<1>1. fate' = [fate EXCEPT ![f] = fate'[f]]
  BY FateWritten
<1>2. CASE fate'[f] = fate[f]
  <2>1. fate = [g \in Refunds |-> fate[g]]
    BY DEF fate
  <2> QED
    BY <1>1, <1>2, <2>1
<1>3. CASE fate[f] = "held" /\ fate'[f] = "paid"
  BY <1>1, <1>3 DEF L!Pay, L!Next
<1>4. CASE fate[f] = "held" /\ fate'[f] = "dropped"
  BY <1>1, <1>4 DEF L!Drop, L!Next
<1> QED
  BY <1>2, <1>3, <1>4

\* The provider's answer, or its end, to a refund that is held.
LEMMA ProviderDecides ==
    ASSUME IInv, IInv', "lose" \notin may, may' = may, pay' = pay, amt' = amt, row' = row,
           NEW f \in Refunds, NEW s \in RefundStatuses \cup {"none"},
           prov[f] \in {"none", "pending"}, row[f] # "absent",
           prov[f] = "none" => row[f] = "pending",
           prov' = [prov EXCEPT ![f] = s]
    PROVE  L!Next \/ UNCHANGED <<fate, amt, pay>>
<1>1. \A g \in Refunds \ {f} : row'[g] = row[g] /\ prov'[g] = prov[g]
  BY DEF IInv, TypeOK
<1>2. row[f] = "pending"
  BY DEF IInv, TypeOK, Told, RefundStatuses, TerminalRefund
<1>3. fate[f] = "held"
  BY <1>2 DEF fate
<1>4. prov'[f] = s /\ row'[f] = "pending"
  BY <1>2 DEF IInv, TypeOK
<1>5. fate'[f] \in {"held", "paid", "dropped"}
  BY <1>4 DEF fate
<1> QED
  BY <1>1, <1>3, <1>5, FateEnds

\* A row that is written: only the record of a refund that the provider never had
\* means something new.
LEMMA RowWritten ==
    ASSUME IInv, IInv', pay' = pay, amt' = amt, prov' = prov,
           NEW f \in Refunds, NEW s \in RefundStatuses,
           row[f] # "absent", s # "failed" => prov[f] # "none",
           row' = [row EXCEPT ![f] = s]
    PROVE  L!Next \/ UNCHANGED <<fate, amt, pay>>
<1>1. \A g \in Refunds \ {f} : row'[g] = row[g] /\ prov'[g] = prov[g]
  BY DEF IInv, TypeOK
<1>2. row'[f] = s /\ s # "absent" /\ prov'[f] = prov[f]
  BY DEF IInv, TypeOK, RefundStatuses, TerminalRefund
<1>3. CASE prov[f] # "none"
  <2>1. fate'[f] = fate[f]
    BY <1>2, <1>3 DEF fate
  <2> QED
    BY <1>1, <2>1, FateEnds
<1>4. CASE prov[f] = "none"
  <2>1. fate'[f] = "dropped"
    BY <1>2, <1>4 DEF fate
  <2>2. fate[f] \in {"held", "dropped"}
    BY <1>4 DEF fate
  <2> QED
    BY <1>1, <2>1, <2>2, FateEnds
<1> QED
  BY <1>3, <1>4

LEMMA LedgerStep ==
    ASSUME IInv, IInv', Real, [Next]_vars, "lose" \notin may
    PROVE  L!Next \/ UNCHANGED <<fate, amt, pay>>
<1>1. CASE pay' # pay
  <2>1. UNCHANGED <<row, amt, prov>> /\ Means(pay') /\ pay' \in PayStatuses
    BY <1>1, PayMoves
  <2>2. fate' = fate
    BY <2>1 DEF fate
  <2>3. L!Claim(pay')
    BY <2>1, <2>2, PaidSum DEF L!Claim, Means
  <2> QED
    BY <2>1, <2>3 DEF L!Next, PayStatuses
<1>2. CASE pay' = pay
  <2>1. may' = may
    BY Effects
  <2>2. CASE UNCHANGED <<row, amt, prov>>
    BY <1>2, <2>2 DEF fate
  <2>3. ASSUME NEW f \in Refunds, NEW n \in 0 .. Amount,
               row[f] = "absent", Committed + n <= Amount, n # 0,
               row' = [row EXCEPT ![f] = "pending"],
               amt' = [amt EXCEPT ![f] = n], prov' = prov
        PROVE  L!Next
    BY <1>2, <2>3, InsertHolds
  <2>4. ASSUME NEW f \in Refunds, NEW s \in RefundStatuses \cup {"none"},
               prov[f] \in {"none", "pending"}, row[f] # "absent",
               prov[f] = "none" => row[f] = "pending",
               prov' = [prov EXCEPT ![f] = s], row' = row, amt' = amt
        PROVE  L!Next \/ UNCHANGED <<fate, amt, pay>>
    BY <1>2, <2>1, <2>4, ProviderDecides
  <2>5. ASSUME NEW f \in Refunds, NEW s \in RefundStatuses,
               row[f] # "absent", s # "failed" => prov[f] # "none",
               row' = [row EXCEPT ![f] = s], amt' = amt, prov' = prov
        PROVE  L!Next \/ UNCHANGED <<fate, amt, pay>>
    BY <1>2, <2>5, RowWritten
  <2> QED
    BY <2>2, <2>3, <2>4, <2>5, Effects
<1> QED
  BY <1>1, <1>2

\* createRefund, enforce_refund_balance, recomputePaymentRefundStatus and the
\* refund webhooks implement the ledger, whoever races whom, as long as no answer
\* of the provider is lost: what is held or paid fits the payment, ends once, and
\* the payment claims no more than was paid.
THEOREM Implements == Spec => KeepsLedger
<1>1. Init => L!Init
  <2> SUFFICES ASSUME Init PROVE L!Init
    OBVIOUS
  <2>1. \A f \in Refunds : fate[f] = "none"
    BY DEF Init, fate
  <2>2. fate = [f \in Refunds |-> fate[f]]
    BY DEF fate
  <2> QED
    BY <2>1, <2>2 DEF Init, L!Init
<1>2. /\ IInv /\ Bounded /\ Real /\ Follows /\ (IInv /\ Bounded /\ Real /\ Follows)'
      /\ [Next]_vars
      => [("lose" \notin may) => L!Next]_<<fate, amt, pay>>
  BY LedgerStep
<1> QED
  BY <1>1, <1>2, Inductive, PTL DEF Spec, KeepsLedger

-----------------------------------------------------------------------------
(* What happens in the end.                                                 *)

\* The next call of a request in progress.
Step(i) ==
    \/ ReadPrior(i) \/ Insert(i) \/ CallProvider(i) \/ Record(i) \/ RecordFailure(i)
    \/ Lookup(i) \/ RecordEvent(i)
    \/ ReadPayment(i) \/ SumRefunds(i) \/ WritePayment(i) \/ Notify(i)
    \/ LateEventWrites(i)

\* A request in progress goes on: Node resumes every await.
GoesOn(i) == []<>At(i, "idle") \/ []<><<Step(i)>>_vars

\* The provider repeats the webhook of a refund until the ledger has it.
Waits(f)   == event[f] = "sent"
Arrives(f) == \E i \in Handlers : Deliver(i, f)
Repeats(f) == []<>~Waits(f) \/ []<><<Arrives(f)>>_vars

LiveSpec == /\ Spec
            /\ \A i \in Handlers : GoesOn(i)
            /\ \A f \in Refunds : Repeats(f)

\* How many calls a request has still to make, at most.
CallsLeft(i) ==
    LET l == h[i].pc IN
    CASE l = "idle" -> 0
      [] l \in {"notify", "writeBack", "recordFailure"} -> 1
      [] l = "writePayment" -> 2
      [] l = "sumRefunds" -> 3
      [] l = "readPayment" -> 4
      [] l \in {"record", "recordEvent"} -> 5
      [] l \in {"call", "lookup"} -> 6
      [] l = "insert" -> 7
      [] OTHER -> 8

Within(i, k)   == CallsLeft(i) <= k
Falls(i, k, j) == [](Within(i, k) => <>Within(i, j))
Ends(i)        == []<>At(i, "idle")

LEMMA CallsBound ==
    ASSUME NEW i
    PROVE  CallsLeft(i) \in 0..8 /\ (CallsLeft(i) = 0 <=> At(i, "idle"))
BY DEF CallsLeft, At

\* What comes after each call.
LEMMA After ==
    ASSUME IInv, NEW i \in Handlers, Step(i)
    PROVE  /\ \/ h[i].pc = "prior" /\ h'[i].pc \in {"insert", "idle"}
              \/ h[i].pc = "insert" /\ h'[i].pc \in {"call", "idle"}
              \/ h[i].pc = "call" /\ h'[i].pc \in {"record", "recordFailure"}
              \/ h[i].pc \in {"record", "recordEvent"} /\ h'[i].pc = "readPayment"
              \/ h[i].pc = "lookup" /\ h'[i].pc \in {"recordEvent", "readPayment"}
              \/ h[i].pc = "readPayment" /\ h'[i].pc = "sumRefunds"
              \/ h[i].pc = "sumRefunds" /\ h'[i].pc \in {"writePayment", "idle"}
              \/ h[i].pc = "writePayment" /\ h'[i].pc \in {"notify", "idle"}
              \/ h[i].pc \in {"notify", "writeBack", "recordFailure"} /\ h'[i].pc = "idle"
           /\ \A j \in Handlers \ {i} : h'[j] = h[j]
<1>1. h \in [Handlers -> HandlerStates]
  BY DEF IInv, TypeOK
<1>2. \A l \in Labels : Goto(i, l) => h'[i].pc = l /\ \A j \in Handlers \ {i} : h'[j] = h[j]
  BY <1>1 DEF Goto, HandlerStates
<1>3. Done(i) => h'[i].pc = "idle" /\ \A j \in Handlers \ {i} : h'[j] = h[j]
  BY <1>1 DEF Done, Become, Idle
<1>4. ASSUME NEW s, Become(i, s)
      PROVE  h'[i].pc = s.pc /\ \A j \in Handlers \ {i} : h'[j] = h[j]
  BY <1>1, <1>4 DEF Become
<1>5. CASE ReadPrior(i)
  <2>1. \A a \in 1 .. Amount : [Idle EXCEPT !.pc = "insert", !.amt = a].pc = "insert"
    BY IdleType DEF HandlerStates
  <2> QED
    BY <1>3, <1>4, <1>5, <2>1 DEF ReadPrior, At
<1>6. CASE Insert(i)
  <2>1. \A f \in Refunds : [Idle EXCEPT !.pc = "call", !.ref = f].pc = "call"
    BY IdleType DEF HandlerStates
  <2> QED
    BY <1>3, <1>4, <1>6, <2>1 DEF Insert, At
<1>7. CASE CallProvider(i)
  <2> DEFINE asked(s) == [Idle EXCEPT !.pc = "record", !.ref = h[i].ref, !.to = s]
  <2>1. \A s : asked(s).pc = "record"
    BY IdleType DEF HandlerStates
  <2>2. /\ h[i].pc = "call"
        /\ (\E s : Become(i, asked(s))) \/ Goto(i, "recordFailure")
    BY <1>7 DEF CallProvider, At
  <2> HIDE DEF asked
  <2> QED
    BY <1>2, <1>4, <2>1, <2>2 DEF Labels
<1>8. CASE Record(i) \/ RecordEvent(i)
  <2>1. [Idle EXCEPT !.pc = "readPayment"].pc = "readPayment"
    BY IdleType DEF HandlerStates
  <2> QED
    BY <1>4, <1>8, <2>1 DEF Record, RecordEvent, At
<1>9. CASE Lookup(i)
  <2> DEFINE next == [Idle EXCEPT !.pc = "readPayment"]
             end  == [Idle EXCEPT !.pc = "recordEvent", !.ref = h[i].ref, !.to = prov[h[i].ref]]
  <2>1. next.pc = "readPayment" /\ end.pc = "recordEvent"
    BY IdleType DEF HandlerStates
  <2>2. h[i].pc = "lookup" /\ (Become(i, next) \/ Become(i, end))
    BY <1>9 DEF Lookup, At
  <2> HIDE DEF next, end
  <2> QED
    BY <1>4, <2>1, <2>2
<1>10. CASE ReadPayment(i)
  <2>1. \A p : [Idle EXCEPT !.pc = "sumRefunds", !.seen = p].pc = "sumRefunds"
    BY IdleType DEF HandlerStates
  <2> QED
    BY <1>4, <1>10, <2>1 DEF ReadPayment, At
<1>11. CASE SumRefunds(i)
  <2> DEFINE changed == [Idle EXCEPT !.pc = "writePayment", !.seen = h[i].seen,
                                     !.next = StatusFor(Refunded)]
  <2>1. changed.pc = "writePayment"
    BY IdleType DEF HandlerStates
  <2>2. h[i].pc = "sumRefunds" /\ (Done(i) \/ Become(i, changed))
    BY <1>11 DEF SumRefunds, At
  <2> HIDE DEF changed
  <2> QED
    BY <1>3, <1>4, <2>1, <2>2
<1>12. CASE WritePayment(i)
  BY <1>2, <1>3, <1>12 DEF WritePayment, At, Labels
<1>13. CASE RecordFailure(i) \/ Notify(i) \/ LateEventWrites(i)
  BY <1>3, <1>13 DEF RecordFailure, Notify, LateEventWrites, At
<1> QED
  BY <1>5, <1>6, <1>7, <1>8, <1>9, <1>10, <1>11, <1>12, <1>13 DEF Step

\* Every call of a request leaves it with fewer to come.
LEMMA StepsDown ==
    ASSUME IInv, NEW i \in Handlers, Step(i)
    PROVE  CallsLeft(i)' < CallsLeft(i)
BY After DEF CallsLeft

\* A request is changed by its own steps only.
LEMMA OnlyItsOwn ==
    ASSUME IInv, [Next]_vars, NEW i \in Handlers, h'[i] # h[i]
    PROVE  Free(i) \/ Step(i) \/ Abort(i)
<1>1. h \in [Handlers -> HandlerStates]
  BY DEF IInv, TypeOK
<1>2. ASSUME NEW j \in Handlers, Step(j) PROVE h'[i] = h[i] \/ j = i
  BY <1>2, After
<1>3. ASSUME NEW j \in Handlers, NEW f \in Refunds,
             CreateBegin(j) \/ Deliver(j, f) \/ LateEventReads(j) \/ Abort(j)
      PROVE  h'[i] = h[i] \/ j = i
  BY <1>1, <1>3 DEF CreateBegin, Deliver, LateEventReads, Abort, Become, Goto, Done
<1>4. ASSUME NEW j \in Handlers, CreateBegin(j) \/ LateEventReads(j) \/ Abort(j)
      PROVE  h'[i] = h[i] \/ j = i
  BY <1>1, <1>4 DEF CreateBegin, LateEventReads, Abort, Become, Goto, Done
<1> QED
  BY <1>2, <1>3, <1>4
  DEF Next, Step, ProviderEnds, vars, CreateBegin, Deliver, LateEventReads

\* No step of anybody gives a request in progress more calls.
LEMMA NeverMore ==
    ASSUME IInv, [Next]_vars, NEW i \in Handlers, ~At(i, "idle")
    PROVE  CallsLeft(i)' <= CallsLeft(i)
<1>1. CASE h'[i] = h[i]
  BY <1>1, CallsBound DEF CallsLeft
<1>2. CASE Step(i)
  <2>1. CallsLeft(i)' \in 0..8
    BY DEF CallsLeft
  <2> QED
    BY <1>2, <2>1, StepsDown, CallsBound
<1>3. CASE Abort(i)
  <2>1. CallsLeft(i)' = 0
    BY <1>3 DEF Abort, Done, Become, IInv, TypeOK, Idle, CallsLeft
  <2> QED
    BY <2>1, CallsBound
<1> QED
  BY <1>1, <1>2, <1>3, OnlyItsOwn DEF Free

\* A request that goes on comes one call nearer to its end.
LEMMA Descends ==
    ASSUME NEW i \in Handlers, NEW j \in 0..7, NEW k, k = j + 1
    PROVE  Spec /\ GoesOn(i) => Falls(i, k, j)
<1>1. At(i, "idle") => Within(i, j)
  BY CallsBound DEF Within
<1>2. IInv /\ [Next]_vars /\ Within(i, k) /\ ~Within(i, j) => Within(i, k)'
  <2> SUFFICES ASSUME IInv, [Next]_vars, Within(i, k), ~Within(i, j) PROVE Within(i, k)'
    OBVIOUS
  <2>1. CallsLeft(i)' <= CallsLeft(i) /\ CallsLeft(i)' \in 0..8
    BY <1>1, NeverMore DEF CallsLeft
  <2> QED
    BY <2>1, CallsBound DEF Within
<1>3. IInv /\ <<Step(i)>>_vars /\ Within(i, k) => Within(i, j)'
  <2> SUFFICES ASSUME IInv, Step(i), Within(i, k) PROVE Within(i, j)'
    OBVIOUS
  <2>1. CallsLeft(i)' < CallsLeft(i) /\ CallsLeft(i)' \in 0..8
    BY StepsDown DEF CallsLeft
  <2> QED
    BY <2>1, CallsBound DEF Within
<1> QED
  BY <1>1, <1>2, <1>3, Inductive, PTL DEF Spec, GoesOn, Falls

\* So every request ends.
LEMMA RequestEnds ==
    ASSUME NEW i \in Handlers
    PROVE  Spec /\ GoesOn(i) => Ends(i)
<1>1. Spec /\ GoesOn(i) =>
        /\ Falls(i, 8, 7) /\ Falls(i, 7, 6) /\ Falls(i, 6, 5) /\ Falls(i, 5, 4)
        /\ Falls(i, 4, 3) /\ Falls(i, 3, 2) /\ Falls(i, 2, 1) /\ Falls(i, 1, 0)
  BY Descends
<1>2. Within(i, 8) /\ (Within(i, 0) => At(i, "idle"))
  BY CallsBound DEF Within
<1> QED
  BY <1>1, <1>2, PTL DEF Falls, Ends

\* Every request that has begun comes to its end, for any number of them and
\* whatever fails: the trigger's row lock is held within one call only.
EveryRequestEnds == \A i \in Handlers : Ends(i)

THEOREM RequestsEnd == LiveSpec => EveryRequestEnds
BY RequestEnds DEF LiveSpec, EveryRequestEnds

\* Where requests follow one another, the end of one is a rest for all.
Rests(i) == [](~At(i, "idle") => <>AllIdle)

LEMMA RestsInTheEnd ==
    ASSUME NEW i \in Handlers
    PROVE  LiveSpec /\ Quiet => Rests(i)
<1>1. LiveSpec => Spec /\ GoesOn(i)
  BY DEF LiveSpec
<1>2. IInv /\ Quiet /\ [Next]_vars /\ ~At(i, "idle") => ~At(i, "idle")' \/ AllIdle'
  <2> SUFFICES ASSUME IInv, Quiet, [Next]_vars, ~At(i, "idle"), At(i, "idle")',
                      NEW j \in Handlers \ {i}
               PROVE  At(j, "idle")'
    BY DEF AllIdle
  <2>1. At(j, "idle") /\ ~Free(j)
    BY AtWork DEF Quiet, Free, AllIdle
  <2>2. ~Step(j) /\ ~Abort(j)
    BY <2>1 DEF At, Abort, Step, ReadPrior, Insert, CallProvider, Record, RecordFailure, Lookup,
                RecordEvent, ReadPayment, SumRefunds, WritePayment, Notify, LateEventWrites
  <2> QED
    BY <2>1, <2>2, OnlyItsOwn DEF At
<1>3. Quiet /\ [Next]_vars /\ IInv => Quiet'
  BY Effects DEF Quiet
<1> QED
  BY <1>1, <1>2, <1>3, RequestEnds, Inductive, PTL DEF Spec, Ends, Rests

\* It does not depend on who is at work that rest comes back again and again.
LEMMA RestComesBack == LiveSpec /\ Quiet => []<>AllIdle
<1>1. LiveSpec /\ Quiet => \A i \in Handlers : Rests(i)
  BY RestsInTheEnd
<1>2. (\A i \in Handlers : Rests(i)) => [](\A i \in Handlers : ~At(i, "idle") => <>AllIdle)
  BY DEF Rests
<1>3. (\A i \in Handlers : ~At(i, "idle") => <>AllIdle) =>
        ((\E i \in Handlers : ~At(i, "idle")) => <>AllIdle)
  OBVIOUS
<1>4. AllIdle \/ \E i \in Handlers : ~At(i, "idle")
  BY DEF AllIdle
<1> QED
  BY <1>1, <1>2, <1>3, <1>4, PTL

\* What the provider has ended it has announced.
Announced == \A f \in Refunds : prov[f] \in TerminalRefund => event[f] # "unsent"

LEMMA AnnouncedStep == IInv /\ Announced /\ [Next]_vars => Announced'
<1> SUFFICES ASSUME IInv, Announced, [Next]_vars PROVE Announced'
  OBVIOUS
<1>1. ASSUME NEW i \in Handlers, CallProvider(i) PROVE Announced'
  <2>1. h[i].ref \in Refunds
    BY <1>1 DEF CallProvider, At, IInv, Holds, Naming, Owning
  <2>2. UNCHANGED <<prov, event>>
        \/ \E s \in RefundStatuses :
             /\ prov' = [prov EXCEPT ![h[i].ref] = s]
             /\ \/ s \in TerminalRefund /\ event' = [event EXCEPT ![h[i].ref] = "sent"]
                \/ s \notin TerminalRefund /\ event' = event
    BY <1>1 DEF CallProvider, RefundStatuses, TerminalRefund
  <2> QED
    BY <2>1, <2>2 DEF Announced, IInv, TypeOK
<1>2. ASSUME NEW f \in Refunds, ProviderEnds(f) PROVE Announced'
  BY <1>2 DEF ProviderEnds, Announced, IInv, TypeOK
<1>3. ASSUME NEW i \in Handlers, NEW f \in Refunds, Deliver(i, f) PROVE Announced'
  BY <1>3 DEF Deliver, Announced, IInv, TypeOK
<1>4. CASE UNCHANGED <<prov, event>>
  BY <1>4 DEF Announced
<1> QED
  BY <1>1, <1>2, <1>3, <1>4
  DEF Next, vars, CreateBegin, ReadPrior, Insert, Record, RecordFailure, Lookup, RecordEvent,
      ReadPayment, SumRefunds, WritePayment, Notify, LateEventReads, LateEventWrites, Abort

\* What the provider has paid back, and what has become of that.
Repaid(f)  == prov[f] = "success"
Taken(f)   == Repaid(f) /\ event[f] = "taken"
OnItsWay(f) == Repaid(f) /\ event[f] = "sent"
Shown(f)   == row[f] = "success" /\ pay = StatusFor(Refunded)
ShownAtRest(f) == AllIdle => Shown(f)

\* An end stays an end, and a webhook that was taken stays taken.
LEMMA RepaidStays ==
    ASSUME IInv, Quiet, [Next]_vars, NEW f \in Refunds, Repaid(f), event[f] # "unsent"
    PROVE  Repaid(f)' /\ (event'[f] = event[f] \/ event'[f] = "taken")
<1>1. ASSUME NEW i \in Handlers, CallProvider(i)
      PROVE  Repaid(f)' /\ (event'[f] = event[f] \/ event'[f] = "taken")
  <2>1. h[i].ref # f
    BY <1>1 DEF CallProvider, At, IInv, Holds, Repaid
  <2> QED
    BY <1>1, <2>1 DEF CallProvider, Repaid, IInv, TypeOK
<1>2. ASSUME NEW g \in Refunds, ProviderEnds(g)
      PROVE  Repaid(f)' /\ (event'[f] = event[f] \/ event'[f] = "taken")
  BY <1>2 DEF ProviderEnds, Repaid, IInv, TypeOK
<1>3. ASSUME NEW i \in Handlers, NEW g \in Refunds, Deliver(i, g)
      PROVE  Repaid(f)' /\ (event'[f] = event[f] \/ event'[f] = "taken")
  BY <1>3 DEF Deliver, Repaid, IInv, TypeOK
<1>4. CASE UNCHANGED <<prov, event>>
  BY <1>4 DEF Repaid
<1> QED
  BY <1>1, <1>2, <1>3, <1>4
  DEF Next, vars, CreateBegin, ReadPrior, Insert, Record, RecordFailure, Lookup, RecordEvent,
      ReadPayment, SumRefunds, WritePayment, Notify, LateEventReads, LateEventWrites, Abort

\* Every payback is recorded in the end, and shows in the payment's status, in
\* every moment of rest from then on; and such moments come again and again.
PaybacksShow ==
    /\ []<>AllIdle
    /\ \A f \in Refunds : Repaid(f) ~> []ShownAtRest(f)

\* handleWebhook, applyRefundEvent and recomputePaymentRefundStatus: where requests
\* follow one another and none fails, repeating the webhook is enough for every
\* refund, whatever payment webhooks come late.
THEOREM PaybacksAreShown == LiveSpec /\ Quiet => PaybacksShow
<1>1. Spec => [](IInv /\ Follows /\ Announced)
  <2>1. Init => Announced
    BY DEF Init, Announced, TerminalRefund
  <2> QED
    BY <2>1, AnnouncedStep, Inductive, PTL DEF Spec
<1>2. IInv /\ Quiet /\ [Next]_vars => Quiet'
  BY Effects DEF Quiet
<1>3. ASSUME NEW f \in Refunds PROVE LiveSpec /\ Quiet => (Repaid(f) ~> []ShownAtRest(f))
  <2>1. LiveSpec => Spec /\ Repeats(f)
    BY DEF LiveSpec
  <2>2. IInv /\ Announced /\ Repaid(f) => OnItsWay(f) \/ Taken(f)
    BY DEF Announced, Repaid, TerminalRefund, OnItsWay, Taken, IInv, TypeOK
  <2>3. IInv /\ Quiet /\ [Next]_vars /\ OnItsWay(f) => OnItsWay(f)' \/ Taken(f)'
    BY RepaidStays DEF OnItsWay, Taken
  <2>4. IInv /\ Quiet /\ <<Arrives(f)>>_vars /\ OnItsWay(f) => Taken(f)'
    BY DEF Arrives, Deliver, OnItsWay, Taken, Repaid, IInv, TypeOK
  <2>5. IInv /\ Quiet /\ [Next]_vars /\ Taken(f) => Taken(f)'
    BY RepaidStays DEF Taken
  <2>6. IInv /\ Follows /\ Quiet /\ Taken(f) => ShownAtRest(f)
    <3> SUFFICES ASSUME IInv, Follows, Quiet, Taken(f), AllIdle PROVE Shown(f)
      BY DEF ShownAtRest
    <3>1. row[f] = "success"
      BY DEF IInv, Recorded, Taken, Repaid, AllIdle, At, Hearing
    <3>2. pay = StatusFor(Refunded)
      BY DEF Follows, Orderly, Quiet, AllIdle, At, Recomputing
    <3> QED
      BY <3>1, <3>2 DEF Shown
  <2>7. OnItsWay(f) => Waits(f)
    BY DEF OnItsWay, Waits
  <2> QED
    BY <1>1, <1>2, <2>1, <2>2, <2>3, <2>4, <2>5, <2>6, <2>7, PTL DEF Spec, Repeats
<1> QED
  BY <1>3, RestComesBack DEF PaybacksShow
=============================================================================
