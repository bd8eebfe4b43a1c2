--------------------------- MODULE MessagesProofs ---------------------------
(***************************************************************************)
(* Proofs about Messages, for any number of bookers, conversations, keys    *)
(* and requests and any bound on the clock: messaging implements Thread;    *)
(* the inbox names the newest message; what is unread changes only as       *)
(* UnreadIsExact says; and paging shows everything once.                    *)
(*                                                                          *)
(* The inductive invariant adds to the types what the tables' constraints   *)
(* keep (Stored), what each request knows while it waits for a call (Held), *)
(* and, of executions without overlap, that every stored time lies behind   *)
(* the clock (Serial).                                                      *)
(* A walk has an invariant of its own on top (Walking): what is due has been*)
(* shown or lies below the cursor, and nothing that was shown does.         *)
(* At the end: every message is told, if requests go on and nothing fails.  *)
(***************************************************************************)
EXTENDS Messages, FiniteSetTheorems, WellFoundedInduction, TLAPS

\* What the unique keys and the trigger see to.
Stored ==
    /\ \A m \in Sent : msg[m].conv \in Open /\ Participates(msg[m].sender, msg[m].conv)
    /\ \A m \in Sent : msg[m].key \in Keys
    /\ \A c, d \in Open : conv[c].booker = conv[d].booker => c = d
    /\ \A m, n \in Sent :
         /\ msg[m].conv = msg[n].conv /\ msg[m].sender = msg[n].sender
         /\ msg[m].key = msg[n].key
         => m = n
    /\ \A c \in Open : In(c) = {} => conv[c].at < now
    /\ \A u \in Users, c \in Conversations : cursor[<<u, c>>] # Start => Participates(u, c)

\* What a request has found out and relies on.  Nobody takes a conversation or
\* a message away, so it stays true.
Held(r) ==
    /\ req[r].pc \in {"insertConversation", "findConversation"} => req[r].user \in Bookers
    /\ req[r].pc \in {"commit", "findMessage", "notify", "advance"} =>
         req[r].conv \in Conversations /\ Participates(req[r].user, req[r].conv)
    /\ req[r].pc = "commit" =>
         /\ req[r].key \in Keys /\ req[r].at < MaxTime
         /\ In(req[r].conv) = {} => conv[req[r].conv].at <= req[r].at
    /\ req[r].pc = "notify" =>
         /\ req[r].id \in Sent
         /\ msg[req[r].id].conv = req[r].conv /\ msg[req[r].id].sender = req[r].user
    /\ req[r].pc = "advance" => req[r].id \in In(req[r].conv)

\* When requests follow one another, every time that is stored is past.
Serial ==
    "race" \notin may =>
        /\ \A r, q \in Requests : req[r].pc # "idle" /\ req[q].pc # "idle" => r = q
        /\ 0 < now
        /\ \A m \in Sent : msg[m].at < now
        /\ \A x \in Users \X Conversations : cursor[x].at < now
        /\ \A r \in Requests : req[r].pc = "commit" => req[r].at = now

IInv ==
    /\ TypeOK /\ Stored /\ Serial
    /\ \A r \in Requests : Held(r)
    /\ LastIsNewest /\ SentIsTold

\* The tables only gain rows, and a row of a conversation moves only with a
\* message.
Grows ==
    /\ \A c \in Open : /\ conv'[c].booker = conv[c].booker
                       /\ In(c)' = {} => conv'[c].at = conv[c].at
    /\ \A m \in Sent : msg'[m] = msg[m]

-----------------------------------------------------------------------------
\* What a request knows outlives the steps of the others.
LEMMA KnowledgeLasts ==
    ASSUME TypeOK, Grows, NEW q \in Requests, Held(q), req'[q] = req[q]
    PROVE  Held(q)'
<1>1. \A c \in Open : c \in Open'
  BY DEF Grows, Open, TypeOK
<1>2. \A m \in Sent : m \in Sent'
  BY DEF Grows, Sent, TypeOK
<1>3. ASSUME NEW u, NEW c, Participates(u, c) PROVE Participates(u, c)'
  BY <1>1, <1>3 DEF Grows, Participates
<1>4. ASSUME NEW c, NEW m \in In(c) PROVE m \in In(c)'
  BY <1>2, <1>4 DEF Grows, In
<1>5. req[q].pc = "commit" /\ In(req[q].conv)' = {} =>
        In(req[q].conv) = {} /\ conv'[req[q].conv].at = conv[req[q].conv].at
  BY <1>4 DEF Grows, Held, Participates
<1>. QED
  BY <1>1, <1>2, <1>3, <1>4, <1>5 DEF Held, Grows

\* A step of one request, then, needs to be looked at for that one alone.
LEMMA OneSteps ==
    ASSUME IInv, Grows, NEW r \in Requests, Held(r)',
           \A q \in Requests \ {r} : req'[q] = req[q]
    PROVE  \A q \in Requests : Held(q)'
BY KnowledgeLasts DEF IInv

\* A step of one request that leaves the tables, the clock and the notices
\* alone, and does not come to "commit", keeps the invariant if it keeps the
\* types, what it knows, and the rule that requests do not overlap.
LEMMA QuietKeeps ==
    ASSUME IInv, NEW r \in Requests, UNCHANGED <<conv, msg, cursor, now, told, may>>,
           req' \in [Requests -> RequestStates],
           \A q \in Requests \ {r} : req'[q] = req[q],
           Held(r)', req'[r].pc # "commit", req[r].pc # "notify",
           req[r].pc # "idle" \/ MayBegin(r)
    PROVE  IInv'
<1>1. TypeOK' /\ Stored' /\ LastIsNewest'
  BY DEF IInv, TypeOK, Stored, LastIsNewest, Open, Sent, In, Participates
<1>2. Grows
  BY DEF Grows
<1>3. SentIsTold'
  BY DEF IInv, SentIsTold, Sent, Participates, Open, Recipient, At
<1>4. Serial'
  BY DEF IInv, Serial, Sent, MayBegin, At
<1>. QED
  BY <1>1, <1>2, <1>3, <1>4, OneSteps DEF IInv

-----------------------------------------------------------------------------
(* Each action keeps the invariant.                                         *)

\* The steps that only read, or answer.
LEMMA ReadsKeep ==
    ASSUME IInv, NEW r \in Requests,
           \/ \E b \in Bookers : OpenBegin(r, b)
           \/ FindConversation(r) \/ View(r) \/ FindMessage(r)
           \/ \E u \in Users, c \in Conversations, m \in Ids : ReadBegin(r, u, c, m)
    PROVE  IInv'
<1>0. req \in [Requests -> RequestStates]
  BY DEF IInv, TypeOK
<1>1. ASSUME NEW b \in Bookers, OpenBegin(r, b) PROVE IInv'
  <2>1. /\ req' \in [Requests -> RequestStates]
        /\ \A q \in Requests \ {r} : req'[q] = req[q]
        /\ req'[r] = Request("insertConversation", b, 0, Nobody, 0, 0)
    BY <1>0, <1>1, NumbersAssumption
       DEF OpenBegin, Become, Request, RequestStates, Labels, Users, Times
  <2>2. Held(r)'
    BY <2>1 DEF Held, Request
  <2>. QED
    BY <1>1, <2>1, <2>2, QuietKeeps DEF OpenBegin, Request, MayBegin, At
<1>2. CASE FindConversation(r)
  <2>1. PICK c \in Open :
          /\ conv[c].booker = req[r].user
          /\ Become(r, Request("view", req[r].user, c, Nobody, 0, 0))
    BY <1>2 DEF FindConversation
  <2>2. /\ req' \in [Requests -> RequestStates]
        /\ \A q \in Requests \ {r} : req'[q] = req[q]
        /\ req'[r].pc = "view"
    BY <1>0, <2>1, NumbersAssumption
       DEF Become, Request, RequestStates, Labels, Times, Open
  <2>3. Held(r)'
    BY <2>2 DEF Held
  <2>. QED
    BY <1>2, <2>2, <2>3, QuietKeeps DEF FindConversation, At
<1>3. CASE View(r) \/ FindMessage(r)
  <2>1. /\ req' \in [Requests -> RequestStates]
        /\ \A q \in Requests \ {r} : req'[q] = req[q]
        /\ req'[r] = Idle
    BY <1>0, <1>3, NumbersAssumption
       DEF View, FindMessage, Done, Become, Request, RequestStates, Labels, Users, Times, Idle
  <2>2. Held(r)'
    BY <2>1 DEF Held, Idle, Request
  <2>. QED
    BY <1>3, <2>1, <2>2, QuietKeeps DEF View, FindMessage, Idle, Request, At
<1>4. ASSUME NEW u \in Users, NEW c \in Conversations, NEW m \in Ids, ReadBegin(r, u, c, m)
      PROVE  IInv'
  <2>1. /\ req' \in [Requests -> RequestStates]
        /\ \A q \in Requests \ {r} : req'[q] = req[q]
        /\ req'[r] = Request("advance", u, c, Nobody, 0, m)
    BY <1>0, <1>4, NumbersAssumption
       DEF ReadBegin, Become, Request, RequestStates, Labels, Users, Times
  <2>2. Held(r)'
    BY <1>4, <2>1 DEF ReadBegin, Held, Request, Participates, Open, In, Sent
  <2>. QED
    BY <1>4, <2>1, <2>2, QuietKeeps DEF ReadBegin, Request, MayBegin, At
<1>. QED
  BY <1>1, <1>2, <1>3, <1>4

\* A new conversation has no message, and is older than what it will get.
LEMMA InsertConversationKeeps ==
    ASSUME IInv, NEW r \in Requests, InsertConversation(r)
    PROVE  IInv'
<1>. DEFINE b == req[r].user
<1>0. req \in [Requests -> RequestStates] /\ b \in Bookers /\ now \in Times
  BY DEF IInv, TypeOK, Held, InsertConversation, At
<1>1. CASE Goto(r, "findConversation") /\ UNCHANGED <<conv, now>>
  <2>1. /\ req' \in [Requests -> RequestStates]
        /\ \A q \in Requests \ {r} : req'[q] = req[q]
        /\ req'[r] = [req[r] EXCEPT !.pc = "findConversation"]
    BY <1>0, <1>1 DEF Goto, RequestStates, Labels
  <2>2. Held(r)'
    BY <1>0, <2>1 DEF Held, RequestStates
  <2>. QED
    BY <1>0, <1>1, <2>1, <2>2, QuietKeeps DEF InsertConversation, At, RequestStates
<1>2. ASSUME NEW c \in Conversations \ Open,
             \A d \in Open : conv[d].booker # b,
             now < MaxTime, now' = now + 1,
             conv' = [conv EXCEPT ![c] = [booker |-> b, at |-> now, last |-> 0]],
             Become(r, Request("view", b, c, Nobody, 0, 0))
      PROVE  IInv'
  <2>0. UNCHANGED <<msg, cursor, told, may>> /\ req[r].pc = "insertConversation"
    BY DEF InsertConversation, At
  <2>1. /\ req' \in [Requests -> RequestStates]
        /\ \A q \in Requests \ {r} : req'[q] = req[q]
        /\ req'[r].pc = "view"
    BY <1>0, <1>2, NumbersAssumption
       DEF Become, Request, RequestStates, Labels, Times, Users
  <2>2. TypeOK'
    BY <1>0, <1>2, <2>0, <2>1, NumbersAssumption DEF IInv, TypeOK, Times
  <2>3. Open' = Open \cup {c} /\ Sent' = Sent /\ \A d : In(d)' = In(d)
    BY <1>0, <1>2, <2>0, UsersAssumption DEF IInv, TypeOK, Open, Sent, In
  <2>4. In(c) = {}
    BY DEF IInv, Stored, In
  <2>5. /\ \A d \in Open : d # c /\ conv'[d] = conv[d]
        /\ conv'[c] = [booker |-> b, at |-> now, last |-> 0]
    BY <1>2 DEF IInv, TypeOK
  <2>6. Grows
    BY <2>0, <2>5 DEF Grows
  <2>7. Held(r)'
    BY <2>1 DEF Held
  <2>8. Stored'
    <3>1. ASSUME NEW u, NEW d, Participates(u, d) PROVE Participates(u, d)'
      BY <2>3, <2>5, <3>1 DEF Participates
    <3>2. \A d \in Open' : In(d)' = {} => conv'[d].at < now'
      BY <1>0, <1>2, <2>3, <2>5 DEF IInv, Stored, TypeOK, Times, Open
    <3>3. \A d, e \in Open' : conv'[d].booker = conv'[e].booker => d = e
      BY <1>2, <2>3, <2>5 DEF IInv, Stored
    <3>. QED
      BY <2>0, <2>3, <3>1, <3>2, <3>3 DEF IInv, Stored
  <2>9. LastIsNewest'
    BY <2>0, <2>3, <2>4, <2>5 DEF IInv, LastIsNewest
  <2>10. SentIsTold'
    <3>1. ASSUME NEW u, NEW d, Participates(u, d) PROVE Participates(u, d)'
      BY <2>3, <2>5, <3>1 DEF Participates
    <3>2. \A m \in Sent : Recipient(msg[m].sender, msg[m].conv)' = Recipient(msg[m].sender, msg[m].conv)
      BY <2>0, <2>5 DEF IInv, Stored, Recipient
    <3>3. \A q \in Requests : req[q].pc = "notify" => req'[q] = req[q]
      BY <2>0, <2>1
    <3>. QED
      BY <2>0, <2>3, <3>1, <3>2, <3>3 DEF IInv, SentIsTold, At
  <2>11. Serial'
    BY <1>0, <1>2, <2>0, <2>1, <2>3 DEF IInv, Serial, TypeOK, Times, Places, Sent
  <2>. QED
    BY <2>2, <2>6, <2>7, <2>8, <2>9, <2>10, <2>11, <2>1, OneSteps DEF IInv
<1>. QED
  BY <1>1, <1>2 DEF InsertConversation

\* A message takes its time when its transaction starts: no earlier than any
\* conversation was made, and with no overlap later than all that is stored.
LEMMA SendBeginKeeps ==
    ASSUME IInv, NEW r \in Requests, NEW u \in Users, NEW c \in Conversations,
           NEW k \in Keys, SendBegin(r, u, c, k)
    PROVE  IInv'
<1>0. req \in [Requests -> RequestStates] /\ now \in Times
  BY DEF IInv, TypeOK
<1>1. PICK t \in {now, now + 1} :
        t < MaxTime /\ Become(r, Request("commit", u, c, k, t, 0)) /\ now' = t
  BY DEF SendBegin
<1>2. t \in Times /\ now <= t
  BY <1>0, <1>1, NumbersAssumption DEF Times
<1>3. /\ UNCHANGED <<conv, msg, cursor, told, may>>
      /\ MayBegin(r) /\ Participates(u, c)
  BY DEF SendBegin
<1>4. /\ req' \in [Requests -> RequestStates]
      /\ \A q \in Requests \ {r} : req'[q] = req[q]
      /\ req'[r] = Request("commit", u, c, k, t, 0)
  BY <1>0, <1>1, <1>2 DEF Become, Request, RequestStates, Labels
<1>5. TypeOK'
  BY <1>1, <1>2, <1>3, <1>4 DEF IInv, TypeOK
<1>6. Grows
  BY <1>3 DEF Grows
<1>7. \A d \in Open : conv[d].at \in Times
  BY DEF IInv, TypeOK, Open
<1>8. Held(r)'
  BY <1>0, <1>1, <1>2, <1>3, <1>4, <1>7
     DEF IInv, Stored, Held, Request, Participates, Open, In, Sent, Times
<1>9. Stored' /\ LastIsNewest'
  BY <1>0, <1>1, <1>2, <1>3, <1>7
     DEF IInv, Stored, LastIsNewest, Open, Sent, In, Participates, Times
<1>10. SentIsTold'
  BY <1>3, <1>4 DEF IInv, SentIsTold, Sent, Participates, Open, Recipient, MayBegin, At
<1>11. Serial'
  <2>1. \A m \in Sent : msg[m].at \in Times
    BY DEF IInv, TypeOK, Sent
  <2>2. \A x \in Users \X Conversations : cursor[x].at \in Times
    BY DEF IInv, TypeOK, Places
  <2>. QED
    BY <1>0, <1>1, <1>2, <1>3, <1>4, <2>1, <2>2
       DEF IInv, Serial, Sent, MayBegin, At, Request, Times
<1>. QED
  BY <1>4, <1>5, <1>6, <1>8, <1>9, <1>10, <1>11, OneSteps DEF IInv

\* The insert with its trigger.
LEMMA CommitKeeps ==
    ASSUME IInv, NEW r \in Requests, Commit(r)
    PROVE  IInv'
<1>a. /\ req \in [Requests -> RequestStates] /\ now \in Times
      /\ req[r].pc = "commit"
      /\ req[r].user \in Users /\ req[r].conv \in Conversations
      /\ req[r].key \in Keys /\ req[r].at \in Times
  BY DEF IInv, TypeOK, Held, Commit, At, Participates, Users, Open, RequestStates
<1>b. PICK u \in Users, c \in Conversations, k \in Keys, t \in Times :
        u = req[r].user /\ c = req[r].conv /\ k = req[r].key /\ t = req[r].at
  BY <1>a
<1>0. /\ req \in [Requests -> RequestStates] /\ now \in Times
      /\ req[r].pc = "commit" /\ c \in Open /\ Participates(u, c) /\ t < MaxTime
      /\ In(c) = {} => conv[c].at <= t
  BY <1>a, <1>b DEF IInv, Held, Participates
<1>1. UNCHANGED <<cursor, told, may>>
  BY DEF Commit
<1>2. CASE Goto(r, "findMessage") /\ UNCHANGED <<msg, conv, walk, now>>
  <2>1. /\ req' \in [Requests -> RequestStates]
        /\ \A q \in Requests \ {r} : req'[q] = req[q]
        /\ req'[r] = [req[r] EXCEPT !.pc = "findMessage"]
    BY <1>0, <1>2 DEF Goto, RequestStates, Labels
  <2>2. req'[r].pc = "findMessage" /\ req'[r].conv = c /\ req'[r].user = u
    BY <1>0, <1>b, <2>1 DEF RequestStates
  <2>3. Held(r)'
    BY <1>0, <1>2, <2>2 DEF Held, Participates, Open
  <2>. QED
    BY <1>0, <1>1, <1>2, <2>1, <2>2, <2>3, QuietKeeps
<1>3. ASSUME NEW m \in Ids \ Sent,
             ~Repeats(u, c, k),
             msg' = [msg EXCEPT ![m] = [conv |-> c, sender |-> u, key |-> k, at |-> t]],
             conv' = [conv EXCEPT ![c] = Touched(c, t, m)],
             Become(r, Request("notify", u, c, k, t, m)),
             now' = Later(t)
      PROVE  IInv'
  <2>1. /\ req' \in [Requests -> RequestStates]
        /\ \A q \in Requests \ {r} : req'[q] = req[q]
        /\ req'[r] = Request("notify", u, c, k, t, m)
    BY <1>0, <1>3 DEF Become, Request, RequestStates, Labels
  <2>2. now' \in Times /\ now <= now' /\ t < now'
    BY <1>0, <1>3, NumbersAssumption DEF Later, Times
  <2>3. /\ conv[c].booker \in Bookers \cup {Nobody} /\ conv[c].at \in Times
        /\ conv[c].last \in Ids \cup {0}
        /\ conv[c] = [booker |-> conv[c].booker, at |-> conv[c].at, last |-> conv[c].last]
    BY <1>0 DEF IInv, TypeOK
  <2>4. /\ conv[c].at <= t =>
            /\ Touched(c, t, m).at = t /\ Touched(c, t, m).last = m
            /\ Touched(c, t, m).booker = conv[c].booker
        /\ ~(conv[c].at <= t) => Touched(c, t, m) = conv[c]
    BY <2>3 DEF Touched
  <2>5. /\ Touched(c, t, m) \in [booker : Bookers \cup {Nobody}, at : Times, last : Ids \cup {0}]
        /\ Touched(c, t, m).booker = conv[c].booker
    BY <1>0, <2>3 DEF Touched
  <2>6. TypeOK'
    BY <1>0, <1>1, <1>3, <2>1, <2>2, <2>5 DEF IInv, TypeOK
  <2>7. /\ conv'[c] = Touched(c, t, m)
        /\ \A d \in Conversations : conv'[d].booker = conv[d].booker
        /\ \A d \in Conversations \ {c} : conv'[d] = conv[d]
    BY <1>0, <1>3, <2>5 DEF IInv, TypeOK
  <2>8. /\ msg'[m] = [conv |-> c, sender |-> u, key |-> k, at |-> t]
        /\ \A n \in Sent : n # m /\ msg'[n] = msg[n]
    BY <1>3 DEF IInv, TypeOK, Sent
  <2>9. /\ Open' = Open /\ Sent' = Sent \cup {m}
        /\ In(c)' = In(c) \cup {m} /\ \A d \in Conversations \ {c} : In(d)' = In(d)
    BY <1>0, <1>3, <2>7, <2>8, NumbersAssumption DEF IInv, TypeOK, Open, Sent, In
  <2>10. \A v, d : Participates(v, d) => Participates(v, d)'
    BY <2>7, <2>9 DEF Participates, Open
  <2>11. Grows
    BY <1>0, <2>7, <2>8, <2>9 DEF Grows, Open
  <2>12. Held(r)'
    BY <1>0, <2>1, <2>8, <2>9, <2>10 DEF Held, Request
  <2>13. Stored'
    <3>1. \A n \in Sent' : /\ msg'[n].conv \in Open' /\ msg'[n].key \in Keys
                           /\ Participates(msg[n].sender, msg[n].conv)'
      BY <1>0, <2>8, <2>9, <2>10 DEF IInv, Stored
    <3>2. \A p, n \in Sent' : /\ msg'[p].conv = msg'[n].conv /\ msg'[p].sender = msg'[n].sender
                              /\ msg'[p].key = msg'[n].key
                              => p = n
      BY <1>3, <2>8, <2>9 DEF IInv, Stored, Repeats
    <3>3. \A d, e \in Open' : conv'[d].booker = conv'[e].booker => d = e
      BY <2>7, <2>9 DEF IInv, Stored, Open
    <3>4. ASSUME NEW d \in Open', In(d)' = {} PROVE conv'[d].at < now'
      <4>1. d # c /\ d \in Open /\ conv'[d] = conv[d] /\ In(d) = {}
        BY <2>7, <2>9, <3>4 DEF Open
      <4>2. conv[d].at < now /\ conv[d].at \in Times
        BY <4>1 DEF IInv, Stored, TypeOK, Open
      <4>. QED
        BY <1>0, <2>2, <4>1, <4>2 DEF Times
    <3>5. \A v \in Users, d \in Conversations : cursor'[<<v, d>>] # Start => Participates(v, d)'
      BY <1>1, <2>10 DEF IInv, Stored
    <3>. QED
      BY <3>1, <3>2, <3>3, <3>4, <3>5 DEF Stored
  <2>14. LastIsNewest'
    <3>1. ASSUME NEW d \in Open', d # c
          PROVE  /\ In(d)' # {} => conv'[d].last \in In(d)' /\ msg'[conv'[d].last].at = conv'[d].at
                 /\ \A n \in In(d)' : msg'[n].at <= conv'[d].at
      BY <2>7, <2>8, <2>9, <3>1 DEF IInv, LastIsNewest, Open, In
    <3>2. CASE conv[c].at <= t
      <4>1. conv'[c].at = t /\ conv'[c].last = m
        BY <2>4, <2>7, <3>2
      <4>2. \A n \in In(c) : msg'[n].at <= t
        BY <1>0, <2>3, <2>8, <3>2 DEF IInv, LastIsNewest, In, TypeOK, Times, Sent
      <4>. QED
        BY <1>0, <2>8, <2>9, <3>1, <4>1, <4>2 DEF LastIsNewest, Times
    <3>3. CASE ~(conv[c].at <= t)
      <4>1. conv'[c] = conv[c] /\ In(c) # {}
        BY <1>0, <2>4, <2>7, <3>3
      <4>2. t <= conv[c].at
        BY <1>0, <2>3, <3>3 DEF Times
      <4>3. conv[c].last \in In(c) /\ msg[conv[c].last].at = conv[c].at
        BY <1>0, <4>1 DEF IInv, LastIsNewest
      <4>4. \A n \in In(c) : msg'[n].at <= conv[c].at
        BY <1>0, <2>8 DEF IInv, LastIsNewest, In
      <4>5. /\ conv'[c].last \in In(c)' /\ msg'[conv'[c].last].at = conv'[c].at
            /\ \A n \in In(c)' : msg'[n].at <= conv'[c].at
        BY <2>8, <2>9, <4>1, <4>2, <4>3, <4>4 DEF In
      <4>. QED
        BY <3>1, <4>5 DEF LastIsNewest
    <3>. QED
      BY <3>2, <3>3
  <2>15. SentIsTold'
    <3>1. \A n \in told' :
            /\ n.msg \in Sent'
            /\ Participates(n.user, msg[n.msg].conv)' /\ n.user # msg'[n.msg].sender
      BY <1>1, <2>8, <2>9, <2>10 DEF IInv, SentIsTold
    <3>2. \A n \in Sent : Recipient(msg[n].sender, msg[n].conv)' = Recipient(msg[n].sender, msg[n].conv)
      BY <2>7, <2>8 DEF IInv, Stored, Recipient, Open
    <3>3. \A q \in Requests : req[q].pc = "notify" => req'[q] = req[q]
      BY <1>0, <2>1
    <3>4. req'[r].pc = "notify" /\ req'[r].id = m
      BY <2>1 DEF Request
    <3>. QED
      BY <1>1, <2>9, <3>1, <3>2, <3>3, <3>4 DEF IInv, SentIsTold, At
  <2>16. Serial'
    <3>1. \A n \in Sent : msg[n].at \in Times
      BY DEF IInv, TypeOK, Sent
    <3>2. \A x \in Users \X Conversations : cursor[x].at \in Times
      BY DEF IInv, TypeOK, Places
    <3>3. req'[r].pc = "notify"
      BY <2>1 DEF Request
    <3>. QED
      BY <1>0, <1>1, <2>1, <2>2, <2>8, <2>9, <3>1, <3>2, <3>3 DEF IInv, Serial, Times
  <2>. QED
    BY <2>1, <2>6, <2>11, <2>12, <2>13, <2>14, <2>15, <2>16, OneSteps DEF IInv
<1>. QED
  BY <1>b, <1>2, <1>3 DEF Commit

\* The notice of a message goes to the other participant.
LEMMA RecipientParticipates ==
    ASSUME TypeOK, NEW u \in Users, NEW c \in Conversations, Participates(u, c)
    PROVE  Recipient(u, c) \in Users /\ Participates(Recipient(u, c), c) /\ Recipient(u, c) # u
<1>1. conv[c].booker \in Bookers
  BY DEF TypeOK, Participates, Open
<1>. QED
  BY <1>1, UsersAssumption DEF Participates, Recipient, Users

\* The notice, or its failure: only a run that meets failures loses it.
LEMMA NotifyKeeps ==
    ASSUME IInv, NEW r \in Requests, Notify(r)
    PROVE  IInv'
<1>1. PICK u \in Users, c \in Conversations, m \in Sent :
        /\ u = req[r].user /\ c = req[r].conv /\ m = req[r].id
        /\ Participates(u, c) /\ msg[m].conv = c /\ msg[m].sender = u
  BY DEF IInv, TypeOK, Held, Notify, At, Participates, Users, Open
<1>2. Recipient(u, c) \in Users /\ Participates(Recipient(u, c), c) /\ Recipient(u, c) # u
  BY <1>1, RecipientParticipates DEF IInv
<1>3. /\ UNCHANGED <<conv, msg, cursor, now, may>>
      /\ req[r].pc = "notify"
      /\ \/ told' = told \cup {[user |-> Recipient(u, c), msg |-> m]}
         \/ "fail" \in may /\ told' = told
  BY <1>1 DEF Notify, At
<1>4. /\ req' \in [Requests -> RequestStates]
      /\ \A q \in Requests \ {r} : req'[q] = req[q]
      /\ req'[r] = Idle
  BY NumbersAssumption
     DEF IInv, TypeOK, Notify, Done, Become, Idle, Request, RequestStates, Labels, Times
<1>5. Held(r)'
  BY <1>4 DEF Held, Idle, Request
<1>6. TypeOK'
  BY <1>2, <1>3, <1>4 DEF IInv, TypeOK, Sent
<1>7. Stored' /\ LastIsNewest' /\ Grows
  BY <1>3 DEF IInv, Stored, LastIsNewest, Grows, Open, Sent, In, Participates
<1>8. SentIsTold'
  <2>1. Sent' = Sent /\ Open' = Open
    BY <1>3 DEF Sent, Open
  <2>2. \A n \in told' : /\ n.msg \in Sent /\ n.user # msg[n.msg].sender
                         /\ Participates(n.user, msg[n.msg].conv)
    BY <1>1, <1>2, <1>3 DEF IInv, SentIsTold
  <2>3. ASSUME "fail" \notin may, NEW n \in Sent
        PROVE  \/ [user |-> Recipient(msg[n].sender, msg[n].conv), msg |-> n] \in told'
               \/ \E q \in Requests : req'[q].pc = "notify" /\ req'[q].id = n
    BY <1>1, <1>3, <1>4, <2>3 DEF IInv, SentIsTold, At
  <2>. QED
    BY <1>3, <2>1, <2>2, <2>3 DEF SentIsTold, Participates, Recipient, At
<1>9. Serial'
  BY <1>3, <1>4 DEF IInv, Serial, Sent, Idle, Request
<1>. QED
  BY <1>4, <1>5, <1>6, <1>7, <1>8, <1>9, OneSteps DEF IInv

\* A cursor moves to a message of its conversation.
LEMMA AdvanceKeeps ==
    ASSUME IInv, NEW r \in Requests, Advance(r)
    PROVE  IInv'
<1>1. PICK u \in Users, c \in Conversations, m \in Ids :
        /\ u = req[r].user /\ c = req[r].conv /\ m = req[r].id
        /\ Participates(u, c) /\ m \in In(c)
  BY DEF IInv, TypeOK, Held, Advance, At, Participates, Users, Open, In, Sent
<1>2. /\ UNCHANGED <<conv, msg, now, told, may>>
      /\ req[r].pc = "advance"
      /\ cursor' = [cursor EXCEPT ![<<u, c>>] = Advanced(u, c, m)]
  BY <1>1 DEF Advance, At
<1>3. /\ req' \in [Requests -> RequestStates]
      /\ \A q \in Requests \ {r} : req'[q] = req[q]
      /\ req'[r].pc = "view"
  <2>1. req \in [Requests -> RequestStates] /\ req' = [req EXCEPT ![r].pc = "view"]
    BY DEF IInv, TypeOK, Advance, Goto
  <2>. QED
    BY <2>1 DEF RequestStates, Labels
<1>4. Held(r)'
  BY <1>3 DEF Held
<1>5. Place(m) \in Places /\ Advanced(u, c, m) \in Places
  BY <1>1 DEF IInv, TypeOK, In, Sent, Place, Places, Advanced
<1>6. TypeOK'
  BY <1>2, <1>3, <1>5 DEF IInv, TypeOK
<1>7. LastIsNewest' /\ SentIsTold' /\ Grows
  BY <1>2, <1>3
     DEF IInv, LastIsNewest, SentIsTold, Grows, Open, Sent, In, Participates, Recipient, At
<1>8. Stored'
  <2>1. \A v \in Users, d \in Conversations : <<v, d>> # <<u, c>> => cursor'[<<v, d>>] = cursor[<<v, d>>]
    BY <1>2 DEF IInv, TypeOK
  <2>2. \A v \in Users, d \in Conversations : cursor'[<<v, d>>] # Start => Participates(v, d)'
    BY <1>1, <1>2, <2>1 DEF IInv, Stored, Participates, Open
  <2>. QED
    BY <1>2, <2>2 DEF IInv, Stored, Open, Sent, In, Participates
<1>9. Serial'
  <2>1. ASSUME "race" \notin may, NEW x \in Users \X Conversations PROVE cursor'[x].at < now
    <3>1. cursor[x].at < now /\ cursor[<<u, c>>].at < now /\ Place(m).at < now
      BY <1>1, <2>1 DEF IInv, Serial, Place, In
    <3>2. cursor'[x] = cursor[x] \/ cursor'[x] = cursor[<<u, c>>] \/ cursor'[x] = Place(m)
      BY <1>2 DEF IInv, TypeOK, Advanced
    <3>. QED
      BY <3>1, <3>2
  <2>. QED
    BY <1>2, <1>3, <2>1 DEF IInv, Serial, Sent
<1>. QED
  BY <1>3, <1>4, <1>6, <1>7, <1>8, <1>9, OneSteps DEF IInv

\* A request that dies leaves what the database has.
LEMMA AbortKeeps ==
    ASSUME IInv, NEW r \in Requests, Abort(r)
    PROVE  IInv'
<1>1. UNCHANGED <<conv, msg, cursor, now, told, may>> /\ "fail" \in may
  BY DEF Abort
<1>2. /\ req' \in [Requests -> RequestStates]
      /\ \A q \in Requests \ {r} : req'[q] = req[q]
      /\ req'[r] = Idle
  BY NumbersAssumption
     DEF IInv, TypeOK, Abort, Done, Become, Idle, Request, RequestStates, Labels, Times
<1>3. Held(r)'
  BY <1>2 DEF Held, Idle, Request
<1>4. TypeOK' /\ Stored' /\ LastIsNewest' /\ Grows
  BY <1>1, <1>2 DEF IInv, TypeOK, Stored, LastIsNewest, Grows, Open, Sent, In, Participates
<1>5. SentIsTold'
  BY <1>1 DEF IInv, SentIsTold, Open, Sent, Participates
<1>6. Serial'
  BY <1>1, <1>2 DEF IInv, Serial, Sent, Idle, Request
<1>. QED
  BY <1>2, <1>3, <1>4, <1>5, <1>6, OneSteps DEF IInv

\* Paging writes nothing.
LEMMA WalkKeeps ==
    ASSUME IInv, UNCHANGED <<conv, msg, cursor, now, told, req, may>>
    PROVE  IInv'
<1>1. TypeOK' /\ Stored' /\ Serial'
  BY DEF IInv, TypeOK, Stored, Serial, Open, Sent, In, Participates
<1>2. LastIsNewest' /\ SentIsTold'
  BY DEF IInv, LastIsNewest, SentIsTold, Open, Sent, In, Participates, Recipient, At
<1>3. \A r \in Requests : Held(r)'
  BY DEF IInv, Held, Open, Sent, In, Participates
<1>. QED
  BY <1>1, <1>2, <1>3 DEF IInv

-----------------------------------------------------------------------------
LEMMA InitIInv == Init => IInv
<1>. SUFFICES ASSUME Init PROVE IInv
  OBVIOUS
<1>1. Sent = {} /\ \A c : In(c) = {}
  BY DEF Init, Sent, In, NoMessage
<1>2. TypeOK
  <2>0. 0 \in Times /\ 1 \in Times /\ 2 \in Times
    BY NumbersAssumption DEF Times
  <2>1. conv \in [Conversations ->
                    [booker : Bookers \cup {Nobody}, at : Times, last : Ids \cup {0}]]
    BY <2>0 DEF Init, NoConversation
  <2>2. msg \in [Ids -> [conv : Conversations \cup {0}, sender : Users \cup {Nobody},
                        key : Keys \cup {Nobody}, at : Times]]
    BY <2>0 DEF Init, NoMessage
  <2>3. cursor \in [Users \X Conversations -> Places]
    BY <2>0 DEF Init, Start, Places
  <2>4. req \in [Requests -> RequestStates]
    BY <2>0 DEF Init, Idle, Request, RequestStates, Labels
  <2>. QED
    BY <2>0, <2>1, <2>2, <2>3, <2>4 DEF Init, TypeOK
<1>3. Stored
  BY <1>1 DEF Init, Stored, NoConversation, Open
<1>4. \A r \in Requests : req[r].pc = "idle"
  BY DEF Init, Idle, Request
<1>5. Serial
  BY <1>1, <1>4 DEF Init, Serial, Start
<1>6. \A r \in Requests : Held(r)
  BY <1>4 DEF Held
<1>7. LastIsNewest /\ SentIsTold
  BY <1>1 DEF Init, LastIsNewest, SentIsTold
<1>. QED
  BY <1>2, <1>3, <1>5, <1>6, <1>7 DEF IInv

LEMMA NextIInv == IInv /\ [Next]_vars => IInv'
<1>. SUFFICES ASSUME IInv, [Next]_vars PROVE IInv'
  OBVIOUS
<1>1. ASSUME NEW r \in Requests,
             \/ \E b \in Bookers : OpenBegin(r, b)
             \/ FindConversation(r) \/ View(r) \/ FindMessage(r)
             \/ \E u \in Users, c \in Conversations, m \in Ids : ReadBegin(r, u, c, m)
      PROVE  IInv'
  BY <1>1, ReadsKeep
<1>2. ASSUME NEW r \in Requests,
             \/ InsertConversation(r) \/ Commit(r) \/ Notify(r) \/ Advance(r) \/ Abort(r)
             \/ \E u \in Users, c \in Conversations, k \in Keys : SendBegin(r, u, c, k)
      PROVE  IInv'
  BY <1>2, InsertConversationKeeps, CommitKeeps, NotifyKeeps, AdvanceKeeps, AbortKeeps,
     SendBeginKeeps
<1>3. ASSUME \/ \E u \in Users : WalkBegin("inbox", u, 0)
             \/ \E u \in Users, c \in Conversations : WalkBegin("history", u, c)
             \/ WalkPage \/ WalkAgain \/ UNCHANGED vars
      PROVE  IInv'
  BY <1>3, WalkKeeps DEF WalkBegin, WalkPage, WalkAgain, vars
<1>. QED
  BY <1>1, <1>2, <1>3 DEF Next

THEOREM Inductive == Spec => []IInv
BY InitIInv, NextIInv, PTL DEF Spec

\* Every variable keeps its shape, whatever requests fail or overlap.
THEOREM TypeCorrect == Spec => []TypeOK
<1>1. IInv => TypeOK
  BY DEF IInv
<1>. QED
  BY <1>1, Inductive, PTL

\* The trigger keeps the inbox row of a conversation at its newest message,
\* in whatever order messages commit.
THEOREM LastNewest == Spec => []LastIsNewest
<1>1. IInv => LastIsNewest
  BY DEF IInv
<1>. QED
  BY <1>1, Inductive, PTL

\* A notice is of a stored message and for the other participant, and without
\* failures every message has one or is about to.
THEOREM SentTold == Spec => []SentIsTold
<1>1. IInv => SentIsTold
  BY DEF IInv
<1>. QED
  BY <1>1, Inductive, PTL

-----------------------------------------------------------------------------
(* What is unread.                                                          *)

LEMMA BeforeOrders ==
    ASSUME NEW x \in Places, NEW y \in Places, NEW z \in Places
    PROVE  ~Before(x, x) /\ (Before(x, y) /\ Before(y, z) => Before(x, z))
<1>1. \A i \in Ids \cup {0} : i \in Int
  BY NumbersAssumption
<1>2. \A i \in Times : i \in Int
  BY NumbersAssumption DEF Times
<1>3. \A p \in Places : p.at \in Int /\ p.id \in Int
  BY <1>1, <1>2 DEF Places
<1>4. /\ x.at \in Int /\ y.at \in Int /\ z.at \in Int
      /\ x.id \in Int /\ y.id \in Int /\ z.id \in Int
  BY <1>3
<1>. QED
  BY <1>4 DEF Before

\* The steps that change neither a message nor a cursor are all but two.
LEMMA MostAreQuiet ==
    ASSUME IInv, [Next]_vars
    PROVE  \/ /\ UNCHANGED <<msg, cursor>>
              /\ \A q \in Requests : ~(At(q, "advance") /\ At(q, "view")')
           \/ \E r \in Requests : Advance(r) \/ Commit(r)
<1>0. req \in [Requests -> RequestStates]
  BY DEF IInv, TypeOK
<1>1. ASSUME NEW r \in Requests,
             \/ \E b \in Bookers : OpenBegin(r, b)
             \/ InsertConversation(r) \/ FindConversation(r) \/ View(r) \/ FindMessage(r)
             \/ \E u \in Users, c \in Conversations, m \in Ids : ReadBegin(r, u, c, m)
             \/ \E u \in Users, c \in Conversations, k \in Keys : SendBegin(r, u, c, k)
             \/ Notify(r) \/ Abort(r)
      PROVE  /\ UNCHANGED <<msg, cursor>>
             /\ \A q \in Requests : ~(At(q, "advance") /\ At(q, "view")')
  <2>1. UNCHANGED <<msg, cursor>>
    BY <1>1 DEF OpenBegin, InsertConversation, FindConversation, View, FindMessage,
                ReadBegin, SendBegin, Notify, Abort
  <2>2. \A q \in Requests \ {r} : req'[q] = req[q]
    BY <1>0, <1>1 DEF OpenBegin, InsertConversation, FindConversation, View, FindMessage,
                ReadBegin, SendBegin, Notify, Abort, Become, Goto, Done
  <2>3. req[r].pc # "advance" \/ req'[r].pc # "view"
    BY <1>0, <1>1 DEF OpenBegin, InsertConversation, FindConversation, View, FindMessage,
                ReadBegin, SendBegin, Notify, Abort, Become, Done, MayBegin, At, Idle, Request
  <2>. QED
    BY <2>1, <2>2, <2>3 DEF At
<1>2. ASSUME \/ \E u \in Users : WalkBegin("inbox", u, 0)
             \/ \E u \in Users, c \in Conversations : WalkBegin("history", u, c)
             \/ WalkPage \/ WalkAgain \/ UNCHANGED vars
      PROVE  UNCHANGED <<msg, cursor, req>>
  BY <1>2 DEF WalkBegin, WalkPage, WalkAgain, vars
<1>. QED
  BY <1>1, <1>2 DEF Next, At

\* What UnreadIsExact says of a step.
Exact ==
    \A u \in Users, c \in Open :
        LET new == {m \in Ids \ Sent : m \in In(c)' /\ msg'[m].sender # u} IN
        /\ UnreadIn(u, c)' \subseteq UnreadIn(u, c) \cup new
        /\ \A r \in Requests :
             At(r, "advance") /\ At(r, "view")' /\ req[r].user = u =>
               req[r].id \notin UnreadIn(u, c)'
        /\ "race" \notin may => new \subseteq UnreadIn(u, c)'

LEMMA QuietIsExact ==
    ASSUME UNCHANGED <<msg, cursor>>,
           \A q \in Requests : ~(At(q, "advance") /\ At(q, "view")')
    PROVE  Exact
BY DEF Exact, UnreadIn, Counts, Ahead, Place, In, Sent

\* A message that arrives is later than every cursor, unless requests overlap.
LEMMA CommitIsExact ==
    ASSUME IInv, NEW r \in Requests, Commit(r)
    PROVE  Exact
<1>1. req[r].pc = "commit" /\ UNCHANGED cursor
  BY DEF Commit, At
<1>2. \A q \in Requests : ~(At(q, "advance") /\ At(q, "view")')
  BY <1>1 DEF IInv, TypeOK, Commit, Become, Goto, At, Request
<1>3. CASE UNCHANGED msg
  BY <1>1, <1>2, <1>3, QuietIsExact
<1>4. ASSUME NEW m \in Ids \ Sent,
             msg' = [msg EXCEPT ![m] = [conv |-> req[r].conv, sender |-> req[r].user,
                                        key |-> req[r].key, at |-> req[r].at]]
      PROVE  Exact
  <2>1. /\ msg'[m].at = req[r].at
        /\ \A n \in Ids : n # m => msg'[n] = msg[n]
    BY <1>4 DEF IInv, TypeOK
  <2>2. \A n \in Sent : n # m /\ n \in Ids /\ msg'[n] = msg[n]
    BY <2>1 DEF Sent
  <2>3. \A n \in Ids : n \in Sent' /\ n \notin Sent => n = m
    BY <2>1 DEF Sent
  <2>4. ASSUME NEW u \in Users, NEW c \in Open
        PROVE  UnreadIn(u, c)' \subseteq
                 UnreadIn(u, c) \cup {n \in Ids \ Sent : n \in In(c)' /\ msg'[n].sender # u}
    BY <1>1, <2>2 DEF UnreadIn, Counts, Ahead, Place, In, Sent
  <2>5. ASSUME "race" \notin may, NEW u \in Users, NEW c \in Open
        PROVE  Ahead(u, c, m)'
    <3>1. <<u, c>> \in Users \X Conversations /\ cursor[<<u, c>>].at < now /\ req[r].at = now
      BY <1>1, <2>5 DEF IInv, Serial, Open
    <3>. QED
      BY <1>1, <2>1, <3>1 DEF Ahead, Before, Place
  <2>6. ASSUME "race" \notin may, NEW u \in Users, NEW c \in Open
        PROVE  {n \in Ids \ Sent : n \in In(c)' /\ msg'[n].sender # u} \subseteq UnreadIn(u, c)'
    BY <2>3, <2>5, <2>6 DEF UnreadIn, Counts, In
  <2>. QED
    BY <1>2, <2>4, <2>6 DEF Exact
<1>. QED
  BY <1>3, <1>4 DEF Commit

\* A cursor only moves forward, to or past the message that was marked.
LEMMA AdvancesForward ==
    ASSUME IInv, NEW r \in Requests, Advance(r)
    PROVE  /\ \A v \in Users, d \in Conversations, n \in Sent :
                Ahead(v, d, n)' => Ahead(v, d, n)
           /\ ~Ahead(req[r].user, req[r].conv, req[r].id)'
           /\ \A x \in Users \X Conversations :
                x # <<req[r].user, req[r].conv>> => cursor'[x] = cursor[x]
<1>1. PICK u \in Users, c \in Conversations, m \in Ids :
        /\ u = req[r].user /\ c = req[r].conv /\ m = req[r].id /\ m \in In(c)
  BY DEF IInv, TypeOK, Held, Advance, At, Participates, Users, Open, In, Sent
<1>2. UNCHANGED msg /\ cursor' = [cursor EXCEPT ![<<u, c>>] = Advanced(u, c, m)]
  BY <1>1 DEF Advance
<1>3. /\ cursor \in [Users \X Conversations -> Places] /\ <<u, c>> \in Users \X Conversations
      /\ \A n \in Ids : Place(n) \in Places
  BY DEF IInv, TypeOK, Place, Places
<1>4. /\ cursor'[<<u, c>>] = Advanced(u, c, m)
      /\ \A x \in Users \X Conversations : x # <<u, c>> => cursor'[x] = cursor[x]
  BY <1>2, <1>3
<1>5. \A n \in Ids : Place(n)' = Place(n)
  BY <1>2 DEF Place
<1>6. ~Before(Advanced(u, c, m), Place(m))
  BY <1>3, BeforeOrders DEF Advanced, Ahead
<1>7. \A n \in Ids : Before(Advanced(u, c, m), Place(n)) => Before(cursor[<<u, c>>], Place(n))
  BY <1>3, BeforeOrders DEF Advanced, Ahead
<1>8. ~Ahead(req[r].user, req[r].conv, req[r].id)'
  <2>1. Place(m)' = Place(m)
    BY <1>5
  <2>2. CASE req'[r] = [req[r] EXCEPT !.pc = "view"]
    BY <1>1, <1>4, <1>6, <2>1, <2>2 DEF IInv, TypeOK, RequestStates, Ahead
  <2>. QED
    BY <2>2 DEF Advance, Goto, IInv, TypeOK
<1>9. ASSUME NEW v \in Users, NEW d \in Conversations, NEW n \in Sent, Ahead(v, d, n)'
      PROVE  Ahead(v, d, n)
  <2>1. n \in Ids /\ Before(cursor'[<<v, d>>], Place(n))
    BY <1>5, <1>9 DEF Ahead, Sent
  <2>2. CASE <<v, d>> = <<u, c>>
    BY <1>4, <1>7, <2>1, <2>2 DEF Ahead
  <2>3. CASE <<v, d>> # <<u, c>>
    BY <1>3, <1>4, <2>1, <2>3 DEF Ahead
  <2>. QED
    BY <2>2, <2>3
<1>. QED
  BY <1>1, <1>4, <1>8, <1>9

LEMMA AdvanceIsExact ==
    ASSUME IInv, NEW r \in Requests, Advance(r)
    PROVE  Exact
<1>1. UNCHANGED <<msg, may>> /\ Sent' = Sent /\ \A c : In(c)' = In(c)
  BY DEF Advance, Sent, In
<1>2. req[r].id \in In(req[r].conv)
  BY DEF IInv, Held, Advance, At
<1>3. /\ \A q \in Requests : At(q, "advance") /\ At(q, "view")' => q = r
      /\ req'[r].id = req[r].id /\ req'[r].conv = req[r].conv /\ req'[r].user = req[r].user
  BY DEF IInv, TypeOK, Advance, Goto, At, RequestStates
<1>4. ASSUME NEW u \in Users, NEW c \in Open
      PROVE  UnreadIn(u, c)' \subseteq UnreadIn(u, c)
  BY <1>1, AdvancesForward DEF UnreadIn, Counts, In, Open
<1>5. ASSUME NEW c \in Open PROVE req[r].id \notin UnreadIn(req[r].user, c)'
  BY <1>1, <1>2, <1>3, AdvancesForward DEF UnreadIn, Counts, In
<1>. QED
  BY <1>1, <1>3, <1>4, <1>5 DEF Exact, In

\* What is unread changes by new messages of the other and by reading, never
\* back, for any number of devices, failures and late commits.
THEOREM UnreadExact == Spec => UnreadIsExact
<1>1. IInv /\ [Next]_vars => Exact
  BY MostAreQuiet, QuietIsExact, CommitIsExact, AdvanceIsExact
<1>. QED
  BY <1>1, Inductive, PTL DEF Spec, UnreadIsExact, Exact

-----------------------------------------------------------------------------
(* Messages implements Thread.                                              *)

LEMMA ThreadIsOne ==
    ASSUME IInv, NEW c \in Open
    PROVE  conv[c].booker \in Bookers /\ threads[conv[c].booker] = {c}
<1>1. conv[c].booker \in Bookers
  BY DEF IInv, TypeOK, Open
<1>. QED
  BY <1>1 DEF IInv, Stored, threads

LEMMA InitImplements == Init => T!Init
<1>. SUFFICES ASSUME Init PROVE T!Init
  OBVIOUS
<1>1. IInv /\ Sent = {}
  BY InitIInv DEF Init, Sent, NoMessage
<1>2. threads \in [Bookers -> {{}} \cup {{c} : c \in Conversations}]
  <2>1. ASSUME NEW b \in Bookers
        PROVE  threads[b] = {} \/ \E c \in Conversations : threads[b] = {c}
    BY <1>1 DEF IInv, Stored, threads, Open
  <2>. QED
    BY <2>1 DEF threads
<1>3. posts = [x \in Bookers \X Users \X Keys |-> {}] /\ behind = [x \in Users \X Bookers |-> {}]
  BY <1>1 DEF posts, behind
<1>. QED
  BY <1>2, <1>3 DEF T!Init, T!Users, Users

\* A step that leaves the tables alone is none of Thread.
LEMMA StaysImplement ==
    ASSUME UNCHANGED <<conv, msg, cursor>>
    PROVE  UNCHANGED <<threads, posts, behind>>
BY DEF threads, posts, behind, Open, Sent, Ahead, Place

LEMMA InsertImplements ==
    ASSUME IInv, NEW r \in Requests, InsertConversation(r)
    PROVE  [T!Next]_<<threads, posts, behind>>
<1>1. req[r].user \in Bookers /\ UNCHANGED <<msg, cursor>>
  BY DEF IInv, Held, InsertConversation, At
<1>2. CASE UNCHANGED conv
  BY <1>1, <1>2, StaysImplement
<1>3. ASSUME NEW b \in Bookers, NEW c \in Conversations \ Open,
             \A d \in Open : conv[d].booker # b,
             conv' = [conv EXCEPT ![c] = [booker |-> b, at |-> now, last |-> 0]]
      PROVE  T!Open(b)
  <2>1. /\ conv'[c].booker = b
        /\ \A d \in Conversations : d # c => conv'[d] = conv[d]
    BY <1>3 DEF IInv, TypeOK
  <2>2. Open' = Open \cup {c} /\ Sent' = Sent
    BY <1>1, <1>3, <2>1, UsersAssumption DEF Open, Sent
  <2>3. \A m \in Sent : msg[m].conv \in Open /\ msg[m].conv # c
    BY DEF IInv, Stored
  <2>4. threads[b] = {}
    BY <1>3 DEF threads
  <2>5. \A d \in Bookers : threads'[d] = IF d = b THEN {c} ELSE threads[d]
    BY <1>3, <2>1, <2>2 DEF threads, Open
  <2>6. threads' = [threads EXCEPT ![b] = {c}]
    BY <2>5 DEF threads
  <2>7. \A d \in Bookers, m \in Sent : msg[m].conv \in threads'[d] <=> msg[m].conv \in threads[d]
    BY <2>3, <2>4, <2>5
  <2>8. posts' = posts
    BY <1>1, <2>2, <2>7 DEF posts
  <2>9. behind' = behind
    BY <1>1, <2>2, <2>7 DEF behind, Ahead, Place
  <2>. QED
    BY <2>4, <2>6, <2>8, <2>9 DEF T!Open
<1>. QED
  BY <1>1, <1>2, <1>3 DEF InsertConversation, T!Next, T!Users

\* A message is a post, and lies behind the cursors that have passed its time.
\* A cursor of somebody who takes no part is still where cursors start.
LEMMA CommitImplements ==
    ASSUME IInv, NEW r \in Requests, Commit(r)
    PROVE  [T!Next]_<<threads, posts, behind>>
<1>1. CASE UNCHANGED <<msg, conv>>
  BY <1>1, StaysImplement DEF Commit
<1>2. PICK u \in Users, c \in Open, k \in Keys, t \in Times :
        /\ u = req[r].user /\ c = req[r].conv /\ k = req[r].key /\ t = req[r].at
        /\ Participates(u, c)
  BY DEF IInv, TypeOK, Held, Commit, At, Participates, Users, Open, RequestStates
<1>3. ASSUME NEW m \in Ids \ Sent, ~Repeats(u, c, k),
             msg' = [msg EXCEPT ![m] = [conv |-> c, sender |-> u, key |-> k, at |-> t]],
             conv' = [conv EXCEPT ![c] = Touched(c, t, m)]
      PROVE  T!Next
  <2>1. PICK b \in Bookers : b = conv[c].booker /\ threads[b] = {c} /\ c \in Conversations
    BY ThreadIsOne DEF Open
  <2>2. UNCHANGED cursor
    BY DEF Commit
  <2>3. \A d \in Conversations : conv'[d].booker = conv[d].booker
    BY <2>1, <1>3 DEF IInv, TypeOK, Touched
  <2>4. Open' = Open /\ threads' = threads
    BY <2>3 DEF Open, threads
  <2>5. /\ msg'[m] = [conv |-> c, sender |-> u, key |-> k, at |-> t]
        /\ \A n \in Sent : n # m /\ n \in Ids /\ msg'[n] = msg[n]
    BY <1>3 DEF IInv, TypeOK, Sent
  <2>6. Sent' = Sent \cup {m}
    BY <1>3, <2>1, <2>5, NumbersAssumption DEF IInv, TypeOK, Sent
  <2>7. u \in {b, Host}
    BY <1>2, <2>1 DEF Participates
  <2>8. posts[<<b, u, k>>] = {}
    BY <1>2, <1>3, <2>1 DEF posts, Repeats
  <2>9. \A d \in Bookers : c \in threads[d] <=> d = b
    BY <2>1 DEF threads
  <2>10. \A x \in Bookers \X Users \X Keys :
           posts'[x] = IF x = <<b, u, k>> THEN {m} ELSE posts[x]
    <3>1. ASSUME NEW d \in Bookers, NEW v \in Users, NEW h \in Keys
          PROVE  posts'[<<d, v, h>>] = posts[<<d, v, h>>] \cup
                   (IF c \in threads[d] /\ u = v /\ k = h THEN {m} ELSE {})
      BY <2>4, <2>5, <2>6 DEF posts
    <3>2. ASSUME NEW d \in Bookers, NEW v \in Users, NEW h \in Keys
          PROVE  posts'[<<d, v, h>>] =
                   IF <<d, v, h>> = <<b, u, k>> THEN {m} ELSE posts[<<d, v, h>>]
      <4>1. CASE d = b /\ v = u /\ h = k
        BY <2>8, <2>9, <3>1, <4>1
      <4>2. CASE ~(d = b /\ v = u /\ h = k)
        <5>1. posts'[<<d, v, h>>] = posts[<<d, v, h>>]
          <6>1. ~(c \in threads[d] /\ u = v /\ k = h)
            BY <2>9, <4>2
          <6>2. posts'[<<d, v, h>>] = posts[<<d, v, h>>] \cup {}
            BY <3>1, <6>1
          <6>. QED
            BY <6>2
        <5>. QED
          BY <4>2, <5>1
      <4>. QED
        BY <4>1, <4>2
    <3>. QED
      BY <3>2
  <2>11. posts' = [posts EXCEPT ![<<b, u, k>>] = {m}]
    BY <2>10 DEF posts
  <2>a. PICK late \in SUBSET {b, Host} : \A v \in {b, Host} : v \in late <=> ~Ahead(v, c, m)'
    <3>. WITNESS {v \in {b, Host} : ~Ahead(v, c, m)'} \in SUBSET {b, Host}
    <3>. QED
      OBVIOUS
  <2>12. ASSUME NEW v \in Users, v \notin {b, Host} PROVE Ahead(v, c, m)'
    <3>1. cursor[<<v, c>>] = Start
      BY <2>1, <2>12 DEF IInv, Stored, Participates
    <3>2. m \in Nat /\ 0 < m /\ t \in Nat
      BY NumbersAssumption DEF Times
    <3>. QED
      BY <2>2, <2>5, <3>1, <3>2 DEF Ahead, Before, Place, Start
  <2>13. ASSUME NEW v \in Users, NEW d \in Bookers
         PROVE  behind'[<<v, d>>] = IF d = b /\ v \in late THEN behind[<<v, d>>] \cup {m}
                                                         ELSE behind[<<v, d>>]
    <3>1. \A n \in Sent : Ahead(v, msg[n].conv, n)' <=> Ahead(v, msg[n].conv, n)
      BY <2>2, <2>5 DEF Ahead, Place
    <3>2. Ahead(v, msg[m].conv, m)' <=> Ahead(v, c, m)'
      BY <2>5 DEF Ahead
    <3>3. behind'[<<v, d>>] =
            {n \in Sent' : msg'[n].conv \in threads'[d] /\ ~Ahead(v, msg[n].conv, n)'}
      BY DEF behind, Ahead
    <3>4. behind[<<v, d>>] = {n \in Sent : msg[n].conv \in threads[d] /\ ~Ahead(v, msg[n].conv, n)}
      BY DEF behind
    <3>5. behind'[<<v, d>>] = behind[<<v, d>>] \cup
            {n \in {m} : c \in threads[d] /\ ~Ahead(v, c, m)'}
      BY <2>4, <2>5, <2>6, <3>1, <3>2, <3>3, <3>4
    <3>6. c \in threads[d] /\ ~Ahead(v, c, m)' <=> d = b /\ v \in late
      BY <2>9, <2>12, <2>a
    <3>. QED
      BY <3>5, <3>6
  <2>14. behind' = [x \in Users \X Bookers |->
                      IF x[2] = b /\ x[1] \in late THEN behind[x] \cup {m} ELSE behind[x]]
    <3>1. \A x \in Users \X Bookers : x = <<x[1], x[2]>> /\ x[1] \in Users /\ x[2] \in Bookers
      OBVIOUS
    <3>2. \A x \in Users \X Bookers :
            behind'[x] = IF x[2] = b /\ x[1] \in late THEN behind[x] \cup {m} ELSE behind[x]
      BY <2>13, <3>1
    <3>. QED
      BY <3>2 DEF behind
  <2>15. T!Post(b, u, k)
    BY <2>1, <2>4, <2>7, <2>8, <2>11, <2>14 DEF T!Post, T!Users, Users
  <2>. QED
    BY <1>2, <2>1, <2>15 DEF T!Next, T!Users, Users
<1>. QED
  BY <1>1, <1>2, <1>3 DEF Commit

LEMMA AdvanceImplements ==
    ASSUME IInv, NEW r \in Requests, Advance(r)
    PROVE  T!Next
<1>1. PICK u \in Users, c \in Open :
        u = req[r].user /\ c = req[r].conv /\ Participates(u, c)
  BY DEF IInv, TypeOK, Held, Advance, At, Participates, Users, Open
<1>2. PICK b \in Bookers :
        b = conv[c].booker /\ threads[b] = {c} /\ c \in Conversations /\ u \in {b, Host}
  BY <1>1, ThreadIsOne DEF Open, Participates
<1>a. PICK s \in SUBSET In(c) : \A n \in In(c) : n \in s <=> ~Ahead(u, c, n)'
  <2>. WITNESS {n \in In(c) : ~Ahead(u, c, n)'} \in SUBSET In(c)
  <2>. QED
    OBVIOUS
<1>3. UNCHANGED <<conv, msg>> /\ Sent' = Sent /\ threads' = threads /\ posts' = posts
  BY DEF Advance, Sent, threads, posts, Open
<1>4. \A v \in Users, d \in Conversations, n \in Sent : Ahead(v, d, n)' => Ahead(v, d, n)
  BY AdvancesForward
<1>5. \A v \in Users, d \in Conversations : <<v, d>> # <<u, c>> =>
        \A n \in Sent : Ahead(v, d, n)' <=> Ahead(v, d, n)
  BY <1>1, <1>3, AdvancesForward DEF Ahead, Place
<1>6. ASSUME NEW n \in In(c)
      PROVE  \E v \in {b, Host}, k \in Keys : n \in posts[<<b, v, k>>]
  <2>1. n \in Sent /\ msg[n].conv = c /\ msg[n].key \in Keys /\ msg[n].sender \in {b, Host}
    BY <1>2, <1>6 DEF IInv, Stored, In, Participates
  <2>. QED
    <3>1. \A v \in {b, Host}, k \in Keys : msg[n].sender = v /\ msg[n].key = k => n \in posts[<<b, v, k>>]
      BY <1>2, <2>1 DEF posts, Users
    <3>. QED
      BY <2>1, <3>1
<1>7. s \in SUBSET T!Said(b)
  <2>1. ASSUME NEW n \in s PROVE n \in T!Said(b)
    <3>1. PICK v \in {b, Host}, k \in Keys : n \in posts[<<b, v, k>>]
      BY <1>6
    <3>2. posts[<<b, v, k>>] \in {posts[<<b, w, h>>] : w \in {b, Host}, h \in Keys}
      OBVIOUS
    <3>. QED
      BY <3>1, <3>2 DEF T!Said
  <2>. QED
    BY <2>1
<1>8. \A n \in Sent : msg[n].conv \in Conversations
  BY DEF IInv, Stored, Open
<1>9. ASSUME NEW v \in Users, NEW d \in Bookers
      PROVE  behind'[<<v, d>>] = IF <<v, d>> = <<u, b>> THEN behind[<<v, d>>] \cup s
                                                      ELSE behind[<<v, d>>]
  <2>1. behind'[<<v, d>>] = {n \in Sent : msg[n].conv \in threads[d] /\ ~Ahead(v, msg[n].conv, n)'}
    BY <1>3 DEF behind, Ahead
  <2>2. behind[<<v, d>>] = {n \in Sent : msg[n].conv \in threads[d] /\ ~Ahead(v, msg[n].conv, n)}
    BY DEF behind
  <2>3. CASE <<v, d>> = <<u, b>>
    <3>1. v = u /\ d = b /\ threads[d] = {c}
      BY <1>2, <2>3
    <3>2. behind'[<<v, d>>] = {n \in In(c) : ~Ahead(u, c, n)'}
      <4>1. \A n \in In(c) : Ahead(u, msg[n].conv, n)' <=> Ahead(u, c, n)'
        BY <1>3 DEF Ahead, In
      <4>. QED
        BY <2>1, <3>1, <4>1 DEF In
    <3>3. behind[<<v, d>>] = {n \in In(c) : ~Ahead(u, c, n)}
      BY <2>2, <3>1 DEF In
    <3>4. \A n \in In(c) : ~Ahead(u, c, n) => ~Ahead(u, c, n)'
      BY <1>2, <1>4 DEF In
    <3>. QED
      BY <1>a, <2>3, <3>2, <3>3, <3>4
  <2>4. CASE <<v, d>> # <<u, b>>
    <3>1. \A n \in Sent : msg[n].conv \in threads[d] => <<v, msg[n].conv>> # <<u, c>>
      BY <1>2, <2>4 DEF threads
    <3>2. \A n \in Sent : msg[n].conv \in threads[d] =>
            (Ahead(v, msg[n].conv, n)' <=> Ahead(v, msg[n].conv, n))
      BY <1>3, <1>5, <1>8, <3>1 DEF Ahead
    <3>. QED
      BY <2>1, <2>2, <2>4, <3>2
  <2>. QED
    BY <2>3, <2>4
<1>10. behind' = [behind EXCEPT ![<<u, b>>] = @ \cup s]
  <2>1. \A x \in Users \X Bookers : x = <<x[1], x[2]>> /\ x[1] \in Users /\ x[2] \in Bookers
    OBVIOUS
  <2>2. \A x \in Users \X Bookers :
          behind'[x] = IF x = <<u, b>> THEN behind[x] \cup s ELSE behind[x]
    BY <1>9, <2>1
  <2>. QED
    BY <2>2 DEF behind
<1>11. T!Read(u, b)
  <2>1. threads[b] # {} /\ u \in {b, Host} /\ UNCHANGED <<threads, posts>>
    BY <1>2, <1>3
  <2>2. \E w \in SUBSET T!Said(b) : behind' = [behind EXCEPT ![<<u, b>>] = @ \cup w]
    BY <1>7, <1>10
  <2>. QED
    BY <2>1, <2>2, Zenon DEF T!Read
<1>. QED
  BY <1>2, <1>11 DEF T!Next, T!Users, Users

\* The other steps leave all three tables alone.
LEMMA StepImplements ==
    ASSUME IInv, [Next]_vars
    PROVE  [T!Next]_<<threads, posts, behind>>
<1>1. ASSUME NEW r \in Requests,
             \/ \E b \in Bookers : OpenBegin(r, b)
             \/ FindConversation(r) \/ View(r) \/ FindMessage(r)
             \/ \E u \in Users, c \in Conversations, m \in Ids : ReadBegin(r, u, c, m)
             \/ \E u \in Users, c \in Conversations, k \in Keys : SendBegin(r, u, c, k)
             \/ Notify(r) \/ Abort(r)
      PROVE  UNCHANGED <<conv, msg, cursor>>
  BY <1>1 DEF OpenBegin, FindConversation, View, FindMessage, ReadBegin, SendBegin, Notify, Abort
<1>2. ASSUME \/ \E u \in Users : WalkBegin("inbox", u, 0)
             \/ \E u \in Users, c \in Conversations : WalkBegin("history", u, c)
             \/ WalkPage \/ WalkAgain \/ UNCHANGED vars
      PROVE  UNCHANGED <<conv, msg, cursor>>
  BY <1>2 DEF WalkBegin, WalkPage, WalkAgain, vars
<1>. QED
  BY <1>1, <1>2, StaysImplement, InsertImplements, CommitImplements, AdvanceImplements DEF Next

\* Messaging implements Thread: one conversation for a booker, one message for
\* a tap, and nothing that was read becomes unread, whatever is retried, late
\* or lost.
THEOREM Implements == Spec => KeepsThread
<1>1. IInv /\ [Next]_vars => [T!Next]_<<threads, posts, behind>>
  BY StepImplements
<1>. QED
  BY <1>1, InitImplements, Inductive, PTL DEF Spec, KeepsThread, T!Spec

-----------------------------------------------------------------------------
(* Walks.  A page is the newest rows below the cursor, and the next cursor  *)
(* is the least of them: what is below it is what has not been shown.       *)

Spots  == [at : Times, id : Nat]
Walked == {"inbox", "history"}
Walks  == [list : {"none", "done"} \cup Walked, user : Users \cup {Nobody},
           conv : Conversations \cup {0}, from : Spots,
           due : SUBSET (Ids \cup Conversations), shown : SUBSET (Ids \cup Conversations),
           rows : Nat]

\* What is due is shown or still to come, and what is shown does not come again.
Walking ==
    /\ walk \in Walks
    /\ walk.rows = Cardinality(walk.shown)
    /\ walk.list = "done" => walk.due \subseteq walk.shown
    /\ walk.list \in Walked =>
         /\ walk.due \cup walk.shown \subseteq Rows(walk)
         /\ walk.due \subseteq walk.shown \cup Below(walk)
         /\ walk.shown \cap Below(walk) = {}

\* The spots of a list are in one order.
LEMMA SpotsOrder ==
    ASSUME NEW x \in Spots, NEW y \in Spots, NEW z \in Spots
    PROVE  /\ ~Before(x, x)
           /\ Before(x, y) /\ Before(y, z) => Before(x, z)
           /\ Before(x, y) \/ Before(y, x) \/ x.id = y.id
<1>1. \A i \in Times : i \in Int
  BY NumbersAssumption DEF Times
<1>2. \A p \in Spots : p.at \in Int /\ p.id \in Int
  BY <1>1 DEF Spots
<1>3. /\ x.at \in Int /\ y.at \in Int /\ z.at \in Int
      /\ x.id \in Int /\ y.id \in Int /\ z.id \in Int
  BY <1>2
<1>. QED
  BY <1>3 DEF Before

\* The rows of a list are finitely many, each with a spot of its own.
LEMMA RowsHaveSpots ==
    ASSUME TypeOK, walk \in Walks, walk.list \in Walked
    PROVE  /\ Rows(walk) \subseteq Ids \cup Conversations /\ IsFiniteSet(Rows(walk))
           /\ \A x \in Rows(walk) : RowPlace(walk, x) \in Spots /\ RowPlace(walk, x).id = x
<1>1. CASE walk.list = "inbox"
  <2>1. Rows(walk) \subseteq Conversations
    BY <1>1 DEF Rows, Open
  <2>2. IsFiniteSet(Rows(walk))
    BY <2>1, FiniteAssumption, FS_Subset
  <2>3. \A x \in Conversations : [at |-> conv[x].at, id |-> x] \in Spots
    BY NumbersAssumption DEF TypeOK, Spots
  <2>. QED
    BY <1>1, <2>1, <2>2, <2>3 DEF RowPlace
<1>2. CASE walk.list = "history"
  <2>1. Rows(walk) \subseteq Ids
    BY <1>2 DEF Rows, In, Sent
  <2>2. IsFiniteSet(Rows(walk))
    BY <2>1, FiniteAssumption, FS_Subset
  <2>3. \A x \in Ids : Place(x) \in Spots
    BY NumbersAssumption DEF TypeOK, Spots, Place
  <2>. QED
    BY <1>2, <2>1, <2>2, <2>3 DEF RowPlace, Place
<1>. QED
  BY <1>1, <1>2 DEF Walked

Less == {p \in Nat \X Nat : p[1] < p[2]}

\* Of finitely many rows one has the least rank.
LEMMA LeastRank ==
    ASSUME NEW S, S # {}, NEW f \in [S -> Nat]
    PROVE  \E x \in S : \A y \in S : f[x] <= f[y]
<1> DEFINE N == {f[x] : x \in S}
<1>1. IsWellFoundedOn(Less, Nat)
  BY NatLessThanWellFounded DEF OpToRel, Less
<1>2. PICK n \in N : \A k \in N : <<k, n>> \notin Less
  <2>1. N \subseteq Nat /\ N # {}
    OBVIOUS
  <2>. QED
    BY <1>1, <2>1, WFMin
<1>3. PICK x \in S : n = f[x]
  OBVIOUS
<1>4. ASSUME NEW y \in S PROVE f[x] <= f[y]
  <2>1. <<f[y], n>> \in Nat \X Nat /\ ~(f[y] < n)
    BY <1>2, <1>3 DEF Less
  <2>. QED
    BY <1>3, <2>1
<1>. QED
  BY <1>4

\* A set that lacks an element of a finite one is smaller.
LEMMA FewerElements ==
    ASSUME NEW S, IsFiniteSet(S), NEW U \in SUBSET S, NEW x \in S, x \notin U
    PROVE  Cardinality(U) < Cardinality(S)
<1>1. Cardinality(U) <= Cardinality(S) /\ Cardinality(U) # Cardinality(S)
  BY FS_Subset
<1>2. Cardinality(U) \in Nat /\ Cardinality(S) \in Nat
  BY FS_Subset, FS_CardinalityType
<1>. QED
  BY <1>1, <1>2

\* The rows of B above x, and those below it.
AboveIn(B, x)  == {y \in B : Before(RowPlace(walk, x), RowPlace(walk, y))}
BelowIn(B, x)  == {y \in B : Before(RowPlace(walk, y), RowPlace(walk, x))}

\* Every finite set of rows has a highest and a lowest.
LEMMA Extremes ==
    ASSUME TypeOK, walk \in Walks, walk.list \in Walked,
           NEW B \in SUBSET Rows(walk), B # {}
    PROVE  /\ \E x \in B : AboveIn(B, x) = {}
           /\ \E x \in B : BelowIn(B, x) = {}
<1>1. IsFiniteSet(B)
  BY RowsHaveSpots, FS_Subset
<1>2. \A x \in B : /\ IsFiniteSet(AboveIn(B, x)) /\ Cardinality(AboveIn(B, x)) \in Nat
                   /\ IsFiniteSet(BelowIn(B, x)) /\ Cardinality(BelowIn(B, x)) \in Nat
  <2>1. \A x \in B : AboveIn(B, x) \subseteq B /\ BelowIn(B, x) \subseteq B
    BY DEF AboveIn, BelowIn
  <2>. QED
    BY <1>1, <2>1, FS_Subset, FS_CardinalityType
<1>3. \A x \in B : RowPlace(walk, x) \in Spots
  BY RowsHaveSpots
<1>4. \E x \in B : AboveIn(B, x) = {}
  <2> DEFINE f == [x \in B |-> Cardinality(AboveIn(B, x))]
  <2>1. f \in [B -> Nat]
    BY <1>2
  <2>2. PICK x \in B : \A y \in B : f[x] <= f[y]
    BY <2>1, LeastRank
  <2>3. ASSUME NEW y \in AboveIn(B, x) PROVE FALSE
    <3>1. y \in B /\ Before(RowPlace(walk, x), RowPlace(walk, y))
      BY DEF AboveIn
    <3>2. AboveIn(B, y) \subseteq AboveIn(B, x) /\ y \notin AboveIn(B, y)
      BY <1>3, <3>1, SpotsOrder DEF AboveIn
    <3>3. Cardinality(AboveIn(B, y)) < Cardinality(AboveIn(B, x))
      BY <1>2, <2>3, <3>2, FewerElements
    <3>. QED
      BY <1>2, <2>2, <3>1, <3>3
  <2>. QED
    BY <2>3
<1>5. \E x \in B : BelowIn(B, x) = {}
  <2> DEFINE f == [x \in B |-> Cardinality(BelowIn(B, x))]
  <2>1. f \in [B -> Nat]
    BY <1>2
  <2>2. PICK x \in B : \A y \in B : f[x] <= f[y]
    BY <2>1, LeastRank
  <2>3. ASSUME NEW y \in BelowIn(B, x) PROVE FALSE
    <3>1. y \in B /\ Before(RowPlace(walk, y), RowPlace(walk, x))
      BY DEF BelowIn
    <3>2. BelowIn(B, y) \subseteq BelowIn(B, x) /\ y \notin BelowIn(B, y)
      BY <1>3, <3>1, SpotsOrder DEF BelowIn
    <3>3. Cardinality(BelowIn(B, y)) < Cardinality(BelowIn(B, x))
      BY <1>2, <2>3, <3>2, FewerElements
    <3>. QED
      BY <1>2, <2>2, <3>1, <3>3
  <2>. QED
    BY <2>3
<1>. QED
  BY <1>4, <1>5

\* The page is the top of what is below the cursor; the last page is all of it.
LEMMA PageIsTop ==
    ASSUME TypeOK, walk \in Walks, walk.list \in Walked
    PROVE  /\ Page(walk) \subseteq Below(walk) /\ IsFiniteSet(Below(walk))
           /\ ~HasMore(walk) => Page(walk) = Below(walk)
           /\ HasMore(walk) =>
                \E y \in Page(walk) :
                   /\ NextCursor(walk) = RowPlace(walk, y)
                   /\ \A z \in Page(walk) : ~Before(RowPlace(walk, z), RowPlace(walk, y))
                   /\ \A x \in Below(walk) \ Page(walk) :
                        Before(RowPlace(walk, x), RowPlace(walk, y))
<1> DEFINE B == Below(walk)
           P == Page(walk)
<1>1. P = {x \in B : Cardinality(AboveIn(B, x)) < PageSize} /\ B \subseteq Rows(walk)
  BY DEF Page, AboveIn, Below
<1>2. IsFiniteSet(B) /\ Cardinality(B) \in Nat
  BY <1>1, RowsHaveSpots, FS_Subset, FS_CardinalityType
<1>3. \A x \in B : RowPlace(walk, x) \in Spots /\ RowPlace(walk, x).id = x
  BY <1>1, RowsHaveSpots
<1>4. \A x \in B : IsFiniteSet(AboveIn(B, x)) /\ Cardinality(AboveIn(B, x)) \in Nat
  <2>1. \A x \in B : AboveIn(B, x) \subseteq B
    BY DEF AboveIn
  <2>. QED
    BY <1>2, <2>1, FS_Subset, FS_CardinalityType
<1>5. ASSUME ~HasMore(walk), NEW x \in B PROVE x \in P
  <2>1. AboveIn(B, x) \subseteq B /\ x \notin AboveIn(B, x)
    BY <1>3, SpotsOrder DEF AboveIn
  <2>2. Cardinality(AboveIn(B, x)) < Cardinality(B)
    BY <1>2, <2>1, FewerElements
  <2>3. Cardinality(B) <= PageSize
    BY <1>2, <1>5, NumbersAssumption DEF HasMore
  <2>4. Cardinality(AboveIn(B, x)) < PageSize
    BY <1>2, <1>4, <2>2, <2>3, NumbersAssumption
  <2>. QED
    BY <1>1, <2>4
<1>6. ASSUME HasMore(walk)
      PROVE  \E y \in P :
                /\ NextCursor(walk) = RowPlace(walk, y)
                /\ \A z \in P : ~Before(RowPlace(walk, z), RowPlace(walk, y))
                /\ \A x \in B \ P : Before(RowPlace(walk, x), RowPlace(walk, y))
  <2>1. B # {}
    BY <1>6, NumbersAssumption, FS_EmptySet DEF HasMore
  <2>2. PICK top \in B : AboveIn(B, top) = {}
    BY <1>1, <2>1, Extremes
  <2>3. P # {} /\ P \subseteq Rows(walk)
    BY <1>1, <2>2, NumbersAssumption, FS_EmptySet
  <2>4. \E y \in P : BelowIn(P, y) = {}
    BY <2>3, Extremes
  <2>5. \E y \in P : \A z \in P : ~Before(RowPlace(walk, z), RowPlace(walk, y))
    BY <2>4 DEF BelowIn
  <2> DEFINE y == CHOOSE v \in P : \A z \in P : ~Before(RowPlace(walk, z), RowPlace(walk, v))
  <2>6. y \in P /\ \A z \in P : ~Before(RowPlace(walk, z), RowPlace(walk, y))
    BY <2>5
  <2>7. NextCursor(walk) = RowPlace(walk, y)
    BY DEF NextCursor
  <2> HIDE DEF y
  <2>8. ASSUME NEW x \in B \ P PROVE Before(RowPlace(walk, x), RowPlace(walk, y))
    <3>1. x # y /\ y \in B
      BY <1>1, <2>6, <2>8
    <3>2. CASE Before(RowPlace(walk, y), RowPlace(walk, x))
      <4>1. AboveIn(B, x) \subseteq AboveIn(B, y)
        BY <1>3, <3>1, <3>2, SpotsOrder DEF AboveIn
      <4>2. Cardinality(AboveIn(B, x)) <= Cardinality(AboveIn(B, y))
        BY <1>4, <3>1, <4>1, FS_Subset
      <4>3. Cardinality(AboveIn(B, x)) < PageSize
        BY <1>1, <1>4, <2>6, <3>1, <4>2, NumbersAssumption
      <4>. QED
        BY <1>1, <2>8, <4>3
    <3>. QED
      BY <1>3, <3>1, <3>2, SpotsOrder
  <2>. QED
    BY <2>6, <2>7, <2>8
<1>. QED
  BY <1>1, <1>2, <1>5, <1>6

\* A page shows the top of what is to come, and the cursor moves below it.
LEMMA PageKeepsWalking ==
    ASSUME IInv, Walking, WalkPage
    PROVE  Walking'
<1> DEFINE B == Below(walk)
           P == Page(walk)
<1>0. TypeOK /\ walk \in Walks /\ walk.list \in Walked
  BY DEF IInv, Walking, WalkPage, Walked
<1>1. /\ UNCHANGED <<conv, msg>> /\ P \subseteq B /\ B \subseteq Rows(walk)
      /\ IsFiniteSet(walk.shown) /\ IsFiniteSet(P) /\ Cardinality(P) \in Nat
      /\ walk.shown \subseteq Rows(walk) /\ walk.due \subseteq Rows(walk)
      /\ Rows(walk) \subseteq Ids \cup Conversations
  <2>1. B \subseteq Rows(walk) /\ walk.shown \subseteq Rows(walk) /\ walk.due \subseteq Rows(walk)
    BY <1>0 DEF Below, Walking
  <2>. QED
    BY <1>0, <2>1, PageIsTop, RowsHaveSpots, FS_Subset, FS_CardinalityType DEF WalkPage
<1>2. /\ walk'.shown = walk.shown \cup P
      /\ walk'.rows = walk.rows + Cardinality(P)
      /\ walk'.from = IF HasMore(walk) THEN NextCursor(walk) ELSE walk.from
      /\ walk'.list = IF HasMore(walk) THEN walk.list ELSE "done"
      /\ walk'.due = walk.due /\ walk'.user = walk.user /\ walk'.conv = walk.conv
      /\ walk' = [walk EXCEPT !.shown = walk.shown \cup P, !.rows = walk.rows + Cardinality(P),
                              !.from = walk'.from, !.list = walk'.list]
  BY <1>0 DEF WalkPage, Walks
<1>3. walk'.from \in Spots
  <2>1. HasMore(walk) => NextCursor(walk) \in Spots
    BY <1>0, <1>1, PageIsTop, RowsHaveSpots
  <2>. QED
    BY <1>0, <1>2, <2>1 DEF Walks
<1>4. walk' \in Walks
  <2>1. walk.shown \cup P \in SUBSET (Ids \cup Conversations)
    BY <1>1
  <2>2. walk.rows + Cardinality(P) \in Nat
    BY <1>0, <1>1 DEF Walks
  <2>3. walk'.list \in {"none", "done"} \cup Walked
    BY <1>0, <1>2
  <2>. QED
    BY <1>0, <1>2, <1>3, <2>1, <2>2, <2>3 DEF Walks
<1>5. walk'.rows = Cardinality(walk'.shown)
  <2>1. walk.shown \cap P = {}
    BY <1>0, <1>1 DEF Walking
  <2>2. Cardinality(walk.shown \cap P) = 0
    BY <2>1, FS_EmptySet
  <2>3. Cardinality(walk.shown) \in Nat
    BY <1>1, FS_CardinalityType
  <2>4. Cardinality(walk.shown \cup P) =
          Cardinality(walk.shown) + Cardinality(P) - Cardinality(walk.shown \cap P)
    BY <1>1, FS_Union
  <2>5. Cardinality(walk.shown \cup P) = Cardinality(walk.shown) + Cardinality(P)
    BY <1>1, <2>2, <2>3, <2>4
  <2>. QED
    BY <1>2, <2>5 DEF Walking
<1>6. CASE ~HasMore(walk)
  <2>1. walk'.list = "done" /\ walk'.due \subseteq walk'.shown
    BY <1>0, <1>2, <1>6, PageIsTop DEF Walking
  <2>. QED
    BY <1>4, <1>5, <2>1 DEF Walking, Walked
<1>7. CASE HasMore(walk)
  <2>1. PICK y \in P :
          /\ walk'.from = RowPlace(walk, y)
          /\ \A z \in P : ~Before(RowPlace(walk, z), RowPlace(walk, y))
          /\ \A x \in B \ P : Before(RowPlace(walk, x), RowPlace(walk, y))
    BY <1>0, <1>2, <1>7, PageIsTop
  <2>2. walk'.list = walk.list
    BY <1>2, <1>7
  <2>3. Rows(walk)' = Rows(walk)
    BY <1>1, <1>2, <2>2 DEF Rows, Open, Participates, In, Sent
  <2>4. \A x \in Rows(walk) : RowPlace(walk, x)' = RowPlace(walk, x)
    BY <1>1, <2>2 DEF RowPlace, Place
  <2>5. RowPlace(walk, y).id = y /\ y \in Ids \cup Conversations
    BY <1>0, <1>1, RowsHaveSpots
  <2>6. walk'.from # Start
    BY <2>1, <2>5, NumbersAssumption DEF Start
  <2>7. Below(walk)' = {x \in Rows(walk) : Before(RowPlace(walk, x), walk'.from)}
    BY <2>3, <2>4, <2>6 DEF Below
  <2>8. walk'.due \subseteq walk'.shown \cup Below(walk)'
    BY <1>0, <1>1, <1>2, <2>1, <2>7 DEF Walking
  <2>9. ASSUME NEW x \in walk'.shown, x \in Below(walk)' PROVE FALSE
    <3>1. Before(RowPlace(walk, x), RowPlace(walk, y)) /\ x \in Rows(walk)
      BY <2>1, <2>7, <2>9
    <3>2. x \notin P
      BY <2>1, <3>1
    <3>3. x \in walk.shown /\ x \notin B
      BY <1>0, <1>2, <2>9, <3>2 DEF Walking
    <3>4. walk.from # Start /\ ~Before(RowPlace(walk, x), walk.from)
      BY <3>1, <3>3 DEF Below
    <3>5. Before(RowPlace(walk, y), walk.from)
      BY <1>1, <2>1, <3>4 DEF Below
    <3>6. /\ RowPlace(walk, x) \in Spots /\ RowPlace(walk, y) \in Spots
          /\ walk.from \in Spots
      BY <1>0, <1>1, <3>1, RowsHaveSpots DEF Walks
    <3>. QED
      BY <3>1, <3>4, <3>5, <3>6, SpotsOrder
  <2>10. walk'.due \cup walk'.shown \subseteq Rows(walk)'
    BY <1>1, <1>2, <2>3
  <2>. QED
    BY <1>0, <1>4, <1>5, <2>2, <2>8, <2>9, <2>10 DEF Walking, Walked
<1>. QED
  BY <1>6, <1>7

\* What others do adds rows and moves rows up, and takes off the list of what is
\* due what it moves.
LEMMA TrafficKeepsWalking ==
    ASSUME IInv, IInv', Walking, walk'.list = walk.list, walk' \in Walks,
           walk'.from = walk.from, walk'.shown = walk.shown, walk'.rows = walk.rows,
           walk'.due \subseteq walk.due,
           walk.list \in Walked =>
             /\ Rows(walk) \subseteq Rows(walk)'
             /\ \A x \in Rows(walk) :
                  \/ RowPlace(walk, x)' = RowPlace(walk, x)
                  \/ x \notin walk'.due /\ RowPlace(walk, x).at <= RowPlace(walk, x)'.at
    PROVE  Walking'
<1>1. ASSUME walk.list \in Walked
      PROVE  /\ walk'.due \cup walk'.shown \subseteq Rows(walk)'
             /\ walk'.due \subseteq walk'.shown \cup Below(walk)'
             /\ walk'.shown \cap Below(walk)' = {}
  <2>1. walk'.due \cup walk'.shown \subseteq Rows(walk)'
    BY <1>1 DEF Walking
  <2>2. ASSUME NEW x \in walk'.due, x \notin walk'.shown PROVE x \in Below(walk)'
    <3>1. x \in Below(walk) /\ x \in Rows(walk) /\ x \in Rows(walk)'
      BY <1>1, <2>2 DEF Walking
    <3>2. RowPlace(walk, x)' = RowPlace(walk, x)
      BY <1>1, <2>2, <3>1
    <3>. QED
      BY <3>1, <3>2 DEF Below
  <2>3. ASSUME NEW x \in walk'.shown, x \in Below(walk)' PROVE FALSE
    <3>1. x \notin Below(walk) /\ x \in Rows(walk)
      BY <1>1, <2>3 DEF Walking
    <3>2. walk.from # Start /\ ~Before(RowPlace(walk, x), walk.from)
      BY <3>1 DEF Below
    <3>3. Before(RowPlace(walk, x)', walk.from)
      BY <2>3, <3>2 DEF Below
    <3>4. /\ RowPlace(walk, x) \in Spots /\ RowPlace(walk, x).id = x
          /\ TypeOK /\ walk \in Walks
      BY <1>1, <3>1, RowsHaveSpots DEF IInv, Walking
    <3>5. RowPlace(walk, x)' \in Spots /\ RowPlace(walk, x)'.id = x
      <4>1. TypeOK' /\ walk' \in Walks /\ walk'.list \in Walked /\ x \in Rows(walk)'
        BY <1>1, <3>1 DEF IInv
      <4>2. (walk.list = "inbox" => x \in Conversations) /\ (walk.list = "history" => x \in Ids)
        BY <3>1 DEF Rows, Open, In, Sent
      <4>. QED
        BY <1>1, <4>1, <4>2, NumbersAssumption DEF RowPlace, Place, Spots, TypeOK, Walked
    <3>6. \A t \in Times : t \in Int
      BY NumbersAssumption DEF Times
    <3>7. \A p \in Spots : p.at \in Int /\ p.id \in Int
      BY <3>6 DEF Spots
    <3>8. /\ RowPlace(walk, x).at \in Int /\ RowPlace(walk, x)'.at \in Int
          /\ x \in Int /\ walk.from.at \in Int /\ walk.from.id \in Int
      BY <3>4, <3>5, <3>7 DEF Walks
    <3>9. RowPlace(walk, x).at <= RowPlace(walk, x)'.at
      BY <1>1, <3>1, <3>8
    <3>. QED
      BY <3>2, <3>3, <3>4, <3>5, <3>8, <3>9 DEF Before
  <2>. QED
    BY <2>1, <2>2, <2>3
<1>2. walk'.list = "done" => walk'.due \subseteq walk'.shown
  BY DEF Walking
<1>. QED
  BY <1>1, <1>2 DEF Walking

\* A message that commits is a new row of its conversation, whose row in the
\* inboxes moves up.
LEMMA CommitKeepsWalking ==
    ASSUME IInv, IInv', Walking, NEW r \in Requests, Commit(r)
    PROVE  Walking'
<1> DEFINE c == req[r].conv
           t == req[r].at
<1>1. CASE UNCHANGED <<msg, conv, walk>>
  BY <1>1 DEF Walking, Rows, RowPlace, Below, Open, Participates, In, Sent, Place
<1>2. ASSUME NEW m \in Ids \ Sent, NEW u, NEW k,
             msg' = [msg EXCEPT ![m] = [conv |-> c, sender |-> u, key |-> k, at |-> t]],
             conv' = [conv EXCEPT ![c] = Touched(c, t, m)],
             walk' = IF walk.list = "inbox" THEN [walk EXCEPT !.due = @ \ {c}] ELSE walk
      PROVE  Walking'
  <2>1. /\ walk \in Walks /\ c \in Conversations /\ c \in Open /\ t \in Times
        /\ conv[c] \in [booker : Bookers \cup {Nobody}, at : Times, last : Ids \cup {0}]
    BY DEF Walking, Commit, At, IInv, Held, Participates, TypeOK, RequestStates
  <2>2. /\ walk'.list = walk.list /\ walk' \in Walks
        /\ walk'.from = walk.from /\ walk'.shown = walk.shown /\ walk'.rows = walk.rows
        /\ walk'.due \subseteq walk.due /\ walk'.user = walk.user /\ walk'.conv = walk.conv
        /\ walk.list = "inbox" => c \notin walk'.due
    <3>1. CASE walk.list = "inbox"
      BY <1>2, <2>1, <3>1 DEF Walks
    <3>. QED
      BY <1>2, <2>1, <3>1
  <2>3. \A i \in Times : i \in Int
    BY NumbersAssumption DEF Times
  <2>4. conv'[c].booker = conv[c].booker /\ conv[c].at <= conv'[c].at
    BY <1>2, <2>1, <2>3 DEF Touched, IInv, TypeOK
  <2>5. \A d \in Conversations \ {c} : conv'[d] = conv[d]
    BY <1>2 DEF IInv, TypeOK
  <2>6. Open' = Open
    BY <2>1, <2>4, <2>5 DEF Open
  <2>7. \A n \in Sent : msg'[n] = msg[n] /\ n \in Sent'
    BY <1>2 DEF Sent, IInv, TypeOK
  <2>8. CASE walk.list = "inbox"
    <3>1. Rows(walk) \subseteq Rows(walk)' /\ Rows(walk) \subseteq Open
      BY <2>2, <2>4, <2>5, <2>6, <2>8 DEF Rows, Participates, Open
    <3>2. ASSUME NEW x \in Rows(walk)
          PROVE  \/ RowPlace(walk, x)' = RowPlace(walk, x)
                 \/ x \notin walk'.due /\ RowPlace(walk, x).at <= RowPlace(walk, x)'.at
      BY <2>2, <2>4, <2>5, <2>8, <3>1, <3>2 DEF RowPlace, Open
    <3>. QED
      BY <2>2, <3>1, <3>2, TrafficKeepsWalking
  <2>9. CASE walk.list = "history"
    <3>1. Rows(walk) \subseteq Rows(walk)' /\ Rows(walk) \subseteq Sent
      BY <2>2, <2>7, <2>9 DEF Rows, In
    <3>2. \A x \in Rows(walk) : RowPlace(walk, x)' = RowPlace(walk, x)
      BY <2>2, <2>7, <2>9, <3>1 DEF RowPlace, Place
    <3>. QED
      BY <2>2, <3>1, <3>2, TrafficKeepsWalking
  <2>. QED
    BY <2>2, <2>8, <2>9, TrafficKeepsWalking DEF Walked
<1>. QED
  BY <1>1, <1>2 DEF Commit

\* A new conversation is a new row of two inboxes.
LEMMA OpenKeepsWalking ==
    ASSUME IInv, IInv', Walking, NEW r \in Requests, InsertConversation(r)
    PROVE  Walking'
<1>1. UNCHANGED <<msg, walk>>
  BY DEF InsertConversation
<1>2. \A c \in Open : conv'[c] = conv[c] /\ c \in Open'
  BY DEF InsertConversation, IInv, TypeOK, Open
<1>3. Rows(walk) \subseteq Rows(walk)'
  BY <1>1, <1>2 DEF Rows, Participates, In, Sent
<1>4. \A x \in Rows(walk) : RowPlace(walk, x)' = RowPlace(walk, x)
  BY <1>1, <1>2 DEF Rows, RowPlace, Place, In
<1>. QED
  BY <1>1, <1>3, <1>4, TrafficKeepsWalking DEF Walking

\* A walk begins above all rows.
LEMMA BeginKeepsWalking ==
    ASSUME IInv, Walking, NEW list \in Walked, NEW u \in Users, NEW c \in Conversations \cup {0},
           WalkBegin(list, u, c)
    PROVE  Walking'
<1> DEFINE w == [NoWalk EXCEPT !.list = list, !.user = u, !.conv = c]
<1>1. UNCHANGED <<conv, msg>> /\ walk' = [w EXCEPT !.due = Rows(w)]
  BY DEF WalkBegin
<1>2. /\ walk'.list = list /\ walk'.user = u /\ walk'.conv = c /\ walk'.from = Start
      /\ walk'.shown = {} /\ walk'.rows = 0 /\ walk'.due = Rows(w)
      /\ w.list = list /\ w.user = u /\ w.conv = c
  BY <1>1 DEF NoWalk
<1>3. Rows(w) \subseteq Ids \cup Conversations
  BY DEF Rows, Open, In, Sent
<1>4. Start \in Spots
  BY NumbersAssumption DEF Start, Spots, Times
<1>5. walk' \in Walks
  BY <1>1, <1>3, <1>4 DEF NoWalk, Walks
<1>6. Rows(walk)' = Rows(w)
  BY <1>1, <1>2 DEF Rows, Open, Participates, In, Sent
<1>7. Below(walk)' = Rows(w)
  BY <1>2, <1>6 DEF Below
<1>8. Cardinality({}) = 0
  BY FS_EmptySet
<1>. QED
  BY <1>2, <1>5, <1>6, <1>7, <1>8 DEF Walking, Walked

\* Every step keeps a walk on its way.
LEMMA WalkingStep == IInv /\ IInv' /\ Walking /\ [Next]_vars => Walking'
<1> SUFFICES ASSUME IInv, IInv', Walking, [Next]_vars PROVE Walking'
  OBVIOUS
<1>1. CASE UNCHANGED <<msg, conv, walk>>
  BY <1>1 DEF Walking, Rows, RowPlace, Below, Open, Participates, In, Sent, Place
<1>2. ASSUME NEW r \in Requests,
             FindConversation(r) \/ View(r) \/ FindMessage(r) \/ Notify(r) \/ Advance(r) \/ Abort(r)
      PROVE  Walking'
  BY <1>1, <1>2 DEF FindConversation, View, FindMessage, Notify, Advance, Abort
<1>3. ASSUME NEW r \in Requests, NEW b \in Bookers, OpenBegin(r, b) PROVE Walking'
  BY <1>1, <1>3 DEF OpenBegin
<1>4. ASSUME NEW r \in Requests, NEW u \in Users, NEW c \in Conversations,
              \/ \E k \in Keys : SendBegin(r, u, c, k)
              \/ \E m \in Ids : ReadBegin(r, u, c, m)
       PROVE  Walking'
  BY <1>1, <1>4 DEF SendBegin, ReadBegin
<1>5. ASSUME NEW u \in Users, WalkBegin("inbox", u, 0) PROVE Walking'
  BY <1>5, BeginKeepsWalking DEF Walked
<1>6. ASSUME NEW u \in Users, NEW c \in Conversations, WalkBegin("history", u, c) PROVE Walking'
  BY <1>6, BeginKeepsWalking DEF Walked
<1>7. CASE WalkAgain
  <2>1. Start \in Spots
    BY NumbersAssumption DEF Start, Spots, Times
  <2>2. walk' = NoWalk /\ NoWalk \in Walks
    BY <1>7, <2>1 DEF WalkAgain, NoWalk, Walks
  <2>. QED
    BY <2>2, FS_EmptySet DEF Walking, NoWalk, Walked
<1>8. CASE UNCHANGED vars
  BY <1>1, <1>8 DEF vars
<1>9. ASSUME NEW r \in Requests, InsertConversation(r) \/ Commit(r) PROVE Walking'
  BY <1>9, CommitKeepsWalking, OpenKeepsWalking
<1>10. CASE WalkPage
  BY <1>10, PageKeepsWalking
<1>11. ASSUME NEW r \in Requests,
             \/ \E b \in Bookers : OpenBegin(r, b)
             \/ InsertConversation(r) \/ FindConversation(r) \/ View(r)
             \/ \E u \in Users, c \in Conversations :
                  \/ \E k \in Keys : SendBegin(r, u, c, k)
                  \/ \E m \in Ids : ReadBegin(r, u, c, m)
             \/ Commit(r) \/ FindMessage(r) \/ Notify(r) \/ Advance(r) \/ Abort(r)
      PROVE  Walking'
  BY <1>2, <1>9, <1>11, <1>3, <1>4
<1>12. CASE Next
  BY <1>5, <1>6, <1>7, <1>10, <1>11, <1>12 DEF Next
<1>. QED
  BY <1>8, <1>12

\* listMessages, listConversations and their cursors: a walk that has ended has
\* shown every row that was there when it began and has not moved, and no row
\* twice, for any number of rows, any page size and any traffic.
THEOREM WalkExact == Spec => []WalkIsExact
<1>1. Init => Walking
  <2> SUFFICES ASSUME Init PROVE Walking
    OBVIOUS
  <2>1. Start \in Spots
    BY NumbersAssumption DEF Start, Spots, Times
  <2>2. walk = NoWalk /\ NoWalk \in Walks
    BY <2>1 DEF Init, NoWalk, Walks
  <2>. QED
    BY <2>2, FS_EmptySet DEF Walking, NoWalk, Walked
<1>2. Walking => WalkIsExact
  BY DEF Walking, WalkIsExact
<1>. QED
  BY <1>1, <1>2, WalkingStep, Inductive, PTL DEF Spec

-----------------------------------------------------------------------------
(* What happens in the end.                                                 *)

\* A request that has come to its notice sends it: it waits for nobody.
GoesOn(r) == []<>~At(r, "notify") \/ []<><<Notify(r)>>_vars
LiveSpec  == Spec /\ \A r \in Requests : GoesOn(r)

Calm      == "fail" \notin may
Stands(m) == m \in Sent
Notice(m) == [user |-> Recipient(msg[m].sender, msg[m].conv), msg |-> m]
Told(m)   == Notice(m) \in told

Notifies(r, m) == At(r, "notify") /\ req[r].id = m
Telling(r, m)  == [](Notifies(r, m) => <>Told(m))

\* Who steps, and what of the tables that may change.
LEMMA WhoSteps ==
    ASSUME [Next]_vars
    PROVE  \/ \E r \in Requests :
                \/ \E b \in Bookers : OpenBegin(r, b)
                \/ InsertConversation(r) \/ FindConversation(r) \/ View(r)
                \/ \E u \in Users, c \in Conversations, k \in Keys : SendBegin(r, u, c, k)
                \/ \E u \in Users, c \in Conversations, m \in Ids : ReadBegin(r, u, c, m)
                \/ Commit(r) \/ FindMessage(r) \/ Notify(r) \/ Advance(r) \/ Abort(r)
           \/ UNCHANGED <<conv, msg, told, req, may>>
BY DEF Next, WalkBegin, WalkPage, WalkAgain, vars

\* No message is taken away or changed, nor is its conversation's booker, nor a
\* notice.
LEMMA TablesGrow ==
    ASSUME IInv, [Next]_vars
    PROVE  /\ \A c \in Open : conv'[c].booker = conv[c].booker
           /\ \A m \in Sent : msg'[m] = msg[m]
           /\ told \subseteq told'
           /\ may' = may
<1>0. conv \in [Conversations -> [booker : Bookers \cup {Nobody}, at : Times, last : Ids \cup {0}]]
  BY DEF IInv, TypeOK
<1>1. ASSUME NEW r \in Requests,
             \/ \E b \in Bookers : OpenBegin(r, b)
             \/ FindConversation(r) \/ View(r)
             \/ \E u \in Users, c \in Conversations, k \in Keys : SendBegin(r, u, c, k)
             \/ \E u \in Users, c \in Conversations, m \in Ids : ReadBegin(r, u, c, m)
             \/ FindMessage(r) \/ Notify(r) \/ Advance(r) \/ Abort(r)
      PROVE  UNCHANGED <<conv, msg, may>> /\ told \subseteq told'
  BY <1>1 DEF OpenBegin, FindConversation, View, SendBegin, ReadBegin, FindMessage, Notify,
              Advance, Abort
<1>2. ASSUME NEW r \in Requests, InsertConversation(r)
      PROVE  UNCHANGED <<msg, told, may>> /\ \A c \in Open : conv'[c] = conv[c]
  BY <1>0, <1>2 DEF InsertConversation, Open
<1>3. ASSUME NEW r \in Requests, Commit(r)
      PROVE  /\ UNCHANGED <<told, may>>
             /\ \A m \in Sent : msg'[m] = msg[m]
             /\ \A c \in Open : conv'[c].booker = conv[c].booker
  <2>1. UNCHANGED <<told, may>> /\ \A m \in Sent : msg'[m] = msg[m]
    <3>1. \/ UNCHANGED msg
          \/ \E m \in Ids \ Sent : \E x : msg' = [msg EXCEPT ![m] = x]
      BY <1>3 DEF Commit
    <3>. QED
      BY <1>3, <3>1 DEF Commit, IInv, TypeOK, Sent
  <2>2. ASSUME NEW c \in Conversations, NEW t, NEW m
        PROVE  Touched(c, t, m).booker = conv[c].booker
    <3>1. conv[c] \in [booker : Bookers \cup {Nobody}, at : Times, last : Ids \cup {0}]
      BY <1>0
    <3>. QED
      BY <3>1 DEF Touched
  <2>3. \A c \in Open : conv'[c].booker = conv[c].booker
    BY <1>0, <1>3, <2>2 DEF Commit, Open
  <2>. QED
    BY <2>1, <2>3
<1>. QED
  BY <1>1, <1>2, <1>3, WhoSteps

\* So a message stands for good, for the same reader.
LEMMA MessageStands ==
    ASSUME IInv, [Next]_vars, NEW m, Stands(m)
    PROVE  Stands(m)' /\ Notice(m)' = Notice(m)
<1>1. m \in Ids /\ msg'[m] = msg[m] /\ msg[m].conv \in Open
  BY TablesGrow DEF Stands, Sent, IInv, Stored
<1>2. conv'[msg[m].conv].booker = conv[msg[m].conv].booker
  BY <1>1, TablesGrow
<1>. QED
  BY <1>1, <1>2 DEF Stands, Sent, Notice, Recipient

\* A request that notifies goes on doing so until it has.
LEMMA NotifiesUntilTold ==
    ASSUME IInv, Calm, [Next]_vars, NEW r \in Requests, NEW m, Notifies(r, m)
    PROVE  /\ Notifies(r, m)' \/ Told(m)'
           /\ Notify(r) => Told(m)'
<1>0. req \in [Requests -> RequestStates]
  BY DEF IInv, TypeOK
<1>1. /\ Stands(m)
      /\ Notice(m) = [user |-> Recipient(req[r].user, req[r].conv), msg |-> m]
  BY DEF IInv, Held, Notifies, At, Stands, Notice
<1>2. Notify(r) => Told(m)'
  <2>1. Notify(r) => Notice(m) \in told'
    BY <1>1 DEF Notify, Calm, Notifies
  <2>. QED
    BY <1>1, <2>1, MessageStands DEF Told
<1>3. CASE req'[r] = req[r]
  BY <1>2, <1>3 DEF Notifies, At
<1>4. CASE req'[r] # req[r]
  <2>1. PICK q \in Requests :
                \/ \E b \in Bookers : OpenBegin(q, b)
                \/ InsertConversation(q) \/ FindConversation(q) \/ View(q)
                \/ \E u \in Users, c \in Conversations, k \in Keys : SendBegin(q, u, c, k)
                \/ \E u \in Users, c \in Conversations, x \in Ids : ReadBegin(q, u, c, x)
                \/ Commit(q) \/ FindMessage(q) \/ Notify(q) \/ Advance(q) \/ Abort(q)
    BY <1>4, WhoSteps
  <2>2. \E c : req' = [req EXCEPT ![q] = c]
    BY <2>1 DEF OpenBegin, InsertConversation, FindConversation, View, SendBegin, ReadBegin,
                Commit, FindMessage, Notify, Advance, Abort, Become, Goto, Done
  <2>3. q = r
    BY <1>0, <1>4, <2>2
  <2>4. Notify(r)
    BY <2>1, <2>3 DEF OpenBegin, InsertConversation, FindConversation, View, SendBegin, ReadBegin,
                      Commit, FindMessage, Advance, Abort, Notifies, At, MayBegin, Calm
  <2>. QED
    BY <1>2, <2>4
<1>. QED
  BY <1>2, <1>3, <1>4

\* One request that is to notify, does.
LEMMA NotifiesInTheEnd ==
    ASSUME NEW r \in Requests, NEW m
    PROVE  Spec /\ Calm /\ GoesOn(r) => Telling(r, m)
<1>1. IInv /\ Calm /\ [Next]_vars /\ Notifies(r, m) =>
        (Notifies(r, m)' \/ Told(m)') /\ (Notify(r) => Told(m)')
  BY NotifiesUntilTold
<1>2. Calm /\ [Next]_vars /\ IInv => Calm'
  BY TablesGrow DEF Calm
<1>3. <<Notify(r)>>_vars => Notify(r)
  OBVIOUS
<1>4. Notifies(r, m) => At(r, "notify")
  BY DEF Notifies
<1>. QED
  BY <1>1, <1>2, <1>3, <1>4, Inductive, PTL DEF Spec, GoesOn, Telling

\* Each message is told in the end, for good.
MessagesCome == \A m \in Ids : Stands(m) ~> []Told(m)

\* sendMessage: as long as nothing fails, the participant who did not send a
\* stored message is notified of it in the end, and once stored neither the
\* message nor its notice goes away, however many requests overlap or repeat it.
THEOREM MessagesAreTold == LiveSpec /\ Calm => MessagesCome
<1>1. LiveSpec => Spec /\ \A r \in Requests : GoesOn(r)
  BY DEF LiveSpec
<1>2. ASSUME NEW m \in Ids PROVE LiveSpec /\ Calm => (Stands(m) ~> []Told(m))
  <2>1. LiveSpec /\ Calm => \A r \in Requests : Telling(r, m)
    BY <1>1, NotifiesInTheEnd
  <2>2. (\A r \in Requests : Telling(r, m)) =>
          [](\A r \in Requests : Notifies(r, m) => <>Told(m))
    BY DEF Telling
  <2>3. (\A r \in Requests : Notifies(r, m) => <>Told(m)) =>
          ((\E r \in Requests : Notifies(r, m)) => <>Told(m))
    OBVIOUS
  <2>4. IInv /\ Calm /\ Stands(m) => Told(m) \/ \E r \in Requests : Notifies(r, m)
    BY DEF IInv, SentIsTold, Calm, Stands, Told, Notice, Notifies
  <2>5. IInv /\ [Next]_vars /\ Stands(m) => Stands(m)' /\ (Told(m) => Told(m)')
    BY MessageStands, TablesGrow DEF Told
  <2>6. Calm /\ [Next]_vars /\ IInv => Calm'
    BY TablesGrow DEF Calm
  <2>. QED
    BY <1>1, <2>1, <2>2, <2>3, <2>4, <2>5, <2>6, Inductive, PTL DEF Spec
<1>. QED
  BY <1>2 DEF MessagesCome
=============================================================================
