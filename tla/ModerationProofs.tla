-------------------------- MODULE ModerationProofs --------------------------
(***************************************************************************)
(* What module Moderation promises for every set of listings and requests.  *)
(*                                                                          *)
(* A published listing has no moderation reason as long as admins publish   *)
(* through the operations made for it.  The claim is not inductive: a PATCH *)
(* writes a status that was asked for one call earlier, so the invariant    *)
(* says of every request what it is still going to write (Held).            *)
(*                                                                          *)
(* The promises about requests that follow one another rest on Order: what  *)
(* the one request at work has read is still so (Knows), and Tale, which is *)
(* LogExplains with the entry that this request has still to write.         *)
(*                                                                          *)
(* Every request ends, since each call leaves it with fewer to make; so a   *)
(* cascade that has begun is carried out.                                   *)
(***************************************************************************)
EXTENDS Moderation, TLAPS

\* What the requests in progress are about to write.
Held(r) ==
    /\ At(r, "write") => req[r].op \in Decisions \cup Cascades
    /\ At(r, "log") => req[r].op \in Logged
    /\ At(r, "patch") => req[r].to \in Statuses
    /\ At(r, "patch") /\ "patch" \notin may => req[r].to # "published"
    /\ req[r].pc \in {"profile", "list"} => req[r].op \in Cascades
    /\ At(r, "checkHost") => req[r].op = "approve"

IInv ==
    /\ TypeOK
    /\ \A r \in Requests : Held(r)
    /\ PublishedIsClean

\* A request that has ended, or begins with a well-formed call, leaves the
\* other requests as they were.
LEMMA RequestTypes ==
    ASSUME TypeOK, NEW r \in Requests, NEW s \in RequestStates, Become(r, s)
    PROVE  /\ req' \in [Requests -> RequestStates]
           /\ req'[r] = s
           /\ \A q \in Requests \ {r} : req'[q] = req[q]
BY DEF TypeOK, Become

\* Moving on to the next call of an operation keeps the rest of the request.
LEMMA GotoTypes ==
    ASSUME TypeOK, NEW r \in Requests, NEW label \in Labels, Goto(r, label)
    PROVE  /\ req' \in [Requests -> RequestStates]
           /\ req'[r] = [req[r] EXCEPT !.pc = label]
           /\ \A q \in Requests \ {r} : req'[q] = req[q]
BY DEF TypeOK, Goto, RequestStates

\* A request with nothing to do is one of the states of a request.
LEMMA IdleType == Idle \in RequestStates
BY DEF Idle, Call, RequestStates, Labels

\* A step of request r keeps the invariant when what it leaves in the tables and
\* in its own state satisfies it: the other requests hold what they held.
LEMMA StepKeeps ==
    ASSUME IInv, NEW r \in Requests,
           may' = may,
           host' \in {"active", "suspended"},
           status' \in [Listings -> Statuses \cup {"absent", "deleted"}],
           reason' \in [Listings -> Reasons],
           flag' \in [Listings -> BOOLEAN],
           logged' \in [Listings -> Logged \cup {"none"}],
           req' \in [Requests -> RequestStates],
           \A q \in Requests \ {r} : req'[q] = req[q],
           Held(r)',
           PublishedIsClean'
    PROVE  IInv'
<1>1. \A q \in Requests : Held(q)'
  BY DEF IInv, Held, At
<1> QED
  BY <1>1 DEF IInv, TypeOK

\* A step that changes a request only, and leaves it as it should be, keeps the
\* invariant.
LEMMA QuietStep ==
    ASSUME IInv, NEW r \in Requests,
           UNCHANGED <<may, host, status, reason, flag, logged>>,
           req' \in [Requests -> RequestStates],
           \A q \in Requests \ {r} : req'[q] = req[q],
           Held(r)'
    PROVE  IInv'
BY StepKeeps DEF IInv, TypeOK, PublishedIsClean, NoReasonShown

\* approveLocation and the other decisions, suspendUser, restoreUser, and the
\* requests of hosts and admins: the first call changes no listing.
LEMMA BeginKeeps ==
    ASSUME IInv, NEW r \in Requests, Begin(r)
    PROVE  IInv'
<1>0. TypeOK
  BY DEF IInv
<1>1. ASSUME NEW l \in Listings, NEW op \in Decisions, DecideBegin(r, l, op) PROVE IInv'
  <2> DEFINE s == Call(op, IF op = "approve" THEN "checkHost" ELSE "write", {l}, "none")
  <2>1. s \in RequestStates
    BY DEF Call, RequestStates, Labels, Logged
  <2>2. req'[r] = s /\ req' \in [Requests -> RequestStates]
        /\ \A q \in Requests \ {r} : req'[q] = req[q]
    BY <1>0, <1>1, <2>1, RequestTypes DEF DecideBegin
  <2>3. Held(r)'
    BY <2>2 DEF Held, At, Call
  <2> QED
    BY <1>1, <2>2, <2>3, QuietStep DEF DecideBegin
<1>2. ASSUME NEW op \in Cascades, UserBegin(r, op) PROVE IInv'
  <2>1. Call(op, "profile", {}, "none") \in RequestStates
    BY DEF Call, RequestStates, Labels, Logged
  <2>2. req'[r] = Call(op, "profile", {}, "none") /\ req' \in [Requests -> RequestStates]
        /\ \A q \in Requests \ {r} : req'[q] = req[q]
    BY <1>0, <1>2, <2>1, RequestTypes DEF UserBegin
  <2>3. Held(r)'
    BY <2>2 DEF Held, At, Call
  <2> QED
    BY <1>2, <2>2, <2>3, QuietStep DEF UserBegin
<1>3. ASSUME NEW op \in HostCalls, HostBegin(r, op) PROVE IInv'
  <2> DEFINE s == Call(op, IF op = "create" THEN "insert" ELSE "read", {}, "none")
  <2>1. s \in RequestStates
    BY DEF Call, RequestStates, Labels
  <2>2. req'[r] = s /\ req' \in [Requests -> RequestStates]
        /\ \A q \in Requests \ {r} : req'[q] = req[q]
    BY <1>0, <1>3, <2>1, RequestTypes DEF HostBegin
  <2>3. Held(r)'
    BY <2>2 DEF Held, At, Call
  <2> QED
    BY <1>3, <2>2, <2>3, QuietStep DEF HostBegin
<1>4. ASSUME NEW l \in Listings, NEW op \in {"patch", "delete"}, AdminBegin(r, l, op)
      PROVE  IInv'
  <2>1. PICK s \in RequestStates :
          /\ Become(r, s)
          /\ \/ s.pc = "delete"
             \/ "patch" \in may /\ s.pc = "patch" /\ s.to \in Statuses
    <3>1. Call("delete", "delete", {l}, "none") \in RequestStates
      BY DEF Call, RequestStates, Labels, HostCalls
    <3>2. \A t \in Statuses : Call("adminPatch", "patch", {l}, t) \in RequestStates
      BY DEF Call, RequestStates, Labels, Logged
    <3> QED
      BY <1>4, <3>1, <3>2 DEF AdminBegin, Call
  <2>2. req'[r] = s /\ req' \in [Requests -> RequestStates]
        /\ \A q \in Requests \ {r} : req'[q] = req[q]
    BY <1>0, <2>1, RequestTypes
  <2>3. Held(r)'
    BY <1>4, <2>1, <2>2 DEF Held, At, AdminBegin
  <2> QED
    BY <1>4, <2>2, <2>3, QuietStep DEF AdminBegin
<1> QED
  BY <1>1, <1>2, <1>3, <1>4 DEF Begin

\* updateLocationRow and the cascades: whatever is published loses its reason in
\* the same update, and whatever gets a reason stops being published.
LEMMA WriteKeeps ==
    ASSUME IInv, NEW r \in Requests, Write(r)
    PROVE  IInv'
<1>0. TypeOK /\ req[r].op \in Decisions \cup Cascades
  BY DEF IInv, Write, Held
<1> DEFINE op == req[r].op
<1>1. Target(op) \in Statuses /\ ReasonOf(op) \in Reasons
  BY DEF Target, ReasonOf, Statuses, Reasons
<1>2. Target(op) = "published" => ReasonOf(op) = "none"
  BY <1>0 DEF Target, ReasonOf, Decisions, Cascades
<1>3. \A l \in Listings : FlagOf(op, l) \in BOOLEAN
  BY <1>0 DEF FlagOf, TypeOK
<1>4. /\ status' \in [Listings -> Statuses \cup {"absent", "deleted"}]
      /\ reason' \in [Listings -> Reasons]
      /\ flag' \in [Listings -> BOOLEAN]
  BY <1>0, <1>1, <1>3 DEF Write, TypeOK
<1>5. PublishedIsClean'
  BY <1>2 DEF Write, PublishedIsClean, NoReasonShown, IInv
<1>6. /\ req' \in [Requests -> RequestStates]
      /\ req'[r] = [req[r] EXCEPT !.pc = "log"]
      /\ \A q \in Requests \ {r} : req'[q] = req[q]
  BY <1>0, GotoTypes DEF Write, Labels
<1>7. Held(r)'
  BY <1>0, <1>6 DEF Held, At, Logged, TypeOK, RequestStates
<1> QED
  BY <1>0, <1>4, <1>5, <1>6, <1>7, StepKeeps DEF Write, TypeOK

\* updateLocation's write: the status that was asked for is no publication
\* unless an admin asked.
LEMMA PatchKeeps ==
    ASSUME IInv, NEW r \in Requests, Patch(r)
    PROVE  IInv'
<1>0. /\ TypeOK /\ req[r].to \in Statuses
      /\ "patch" \notin may => req[r].to # "published"
  BY DEF IInv, Patch, Held
<1>1. status' \in [Listings -> Statuses \cup {"absent", "deleted"}]
  BY <1>0 DEF Patch, TypeOK
<1>2. PublishedIsClean'
  BY <1>0 DEF Patch, PublishedIsClean, NoReasonShown, IInv
<1>3. CASE req[r].op = "adminPatch"
  <2>1. /\ req' \in [Requests -> RequestStates]
        /\ req'[r] = [req[r] EXCEPT !.pc = "log"]
        /\ \A q \in Requests \ {r} : req'[q] = req[q]
    BY <1>0, <1>3, GotoTypes DEF Patch, Labels
  <2>2. Held(r)'
    BY <1>0, <1>3, <2>1 DEF Held, At, Logged, TypeOK, RequestStates
  <2> QED
    BY <1>0, <1>1, <1>2, <2>1, <2>2, StepKeeps DEF Patch, TypeOK
<1>4. CASE req[r].op # "adminPatch"
  <2>1. /\ req' \in [Requests -> RequestStates] /\ req'[r] = Idle
        /\ \A q \in Requests \ {r} : req'[q] = req[q]
    BY <1>0, <1>4, IdleType, RequestTypes DEF Patch, Done
  <2>2. Held(r)'
    BY <2>1 DEF Held, At, Idle, Call
  <2> QED
    BY <1>0, <1>1, <1>2, <2>1, <2>2, StepKeeps DEF Patch, TypeOK
<1> QED
  BY <1>3, <1>4

\* createLocation's insert and deleteLocation's delete publish nothing.
LEMMA RowsKeep ==
    ASSUME IInv, NEW r \in Requests, Insert(r) \/ Delete(r)
    PROVE  IInv'
<1>0. TypeOK
  BY DEF IInv
<1>1. /\ req' \in [Requests -> RequestStates] /\ req'[r] = Idle
      /\ \A q \in Requests \ {r} : req'[q] = req[q]
  BY <1>0, IdleType, RequestTypes DEF Insert, Delete, Done
<1>2. Held(r)'
  BY <1>1 DEF Held, At, Idle, Call
<1>3. CASE Insert(r)
  <2>1. /\ status' \in [Listings -> Statuses \cup {"absent", "deleted"}]
        /\ PublishedIsClean'
    BY <1>0, <1>3 DEF Insert, TypeOK, Statuses, PublishedIsClean, NoReasonShown, IInv
  <2> QED
    BY <1>0, <1>1, <1>2, <1>3, <2>1, StepKeeps DEF Insert, TypeOK
<1>4. CASE Delete(r)
  <2>1. /\ status' \in [Listings -> Statuses \cup {"absent", "deleted"}]
        /\ reason' \in [Listings -> Reasons]
        /\ flag' \in [Listings -> BOOLEAN]
    BY <1>0, <1>4 DEF Delete, TypeOK, Reasons
  <2>2. PublishedIsClean'
    BY <1>4 DEF Delete, PublishedIsClean, NoReasonShown, IInv
  <2> QED
    BY <1>0, <1>1, <1>2, <1>4, <2>1, <2>2, StepKeeps DEF Delete, TypeOK
<1> QED
  BY <1>3, <1>4

\* The calls that end a request, and those that only move it on: the check of
\* the host, a refusal, a request that dies.
LEMMA EndsKeep ==
    ASSUME IInv, NEW r \in Requests, CheckHost(r) \/ Refuse(r) \/ Abort(r)
    PROVE  IInv'
<1>0. TypeOK /\ UNCHANGED <<may, host, status, reason, flag, logged>>
  BY DEF IInv, CheckHost, Refuse, Abort
<1>1. CASE Done(r)
  <2>1. /\ req' \in [Requests -> RequestStates] /\ req'[r] = Idle
        /\ \A q \in Requests \ {r} : req'[q] = req[q]
    BY <1>0, <1>1, IdleType, RequestTypes DEF Done
  <2>2. Held(r)'
    BY <2>1 DEF Held, At, Idle, Call
  <2> QED
    BY <1>0, <2>1, <2>2, QuietStep
<1>2. CASE At(r, "checkHost") /\ Goto(r, "write")
  <2>1. req[r].op \in Decisions
    BY <1>2 DEF IInv, Held, Decisions
  <2>2. /\ req' \in [Requests -> RequestStates]
        /\ req'[r] = [req[r] EXCEPT !.pc = "write"]
        /\ \A q \in Requests \ {r} : req'[q] = req[q]
    BY <1>0, <1>2, GotoTypes DEF Labels
  <2>3. Held(r)'
    BY <1>0, <2>1, <2>2 DEF Held, At, TypeOK, RequestStates
  <2> QED
    BY <1>0, <2>2, <2>3, QuietStep
<1> QED
  BY <1>1, <1>2 DEF CheckHost, Refuse, Abort

\* suspendUser's and restoreUser's own calls before the cascade: the profile and
\* the list of the listings.
LEMMA UserKeeps ==
    ASSUME IInv, NEW r \in Requests, WriteProfile(r) \/ List(r)
    PROVE  IInv'
<1>0. TypeOK /\ req[r].op \in Cascades
  BY DEF IInv, WriteProfile, List, Held, At
<1>1. CASE WriteProfile(r)
  <2>1. /\ req' \in [Requests -> RequestStates]
        /\ req'[r] = [req[r] EXCEPT !.pc = "list"]
        /\ \A q \in Requests \ {r} : req'[q] = req[q]
    BY <1>0, <1>1, GotoTypes DEF WriteProfile, Labels
  <2>2. Held(r)'
    BY <1>0, <2>1 DEF Held, At, TypeOK, RequestStates
  <2>3. host' \in {"active", "suspended"} /\ (PublishedIsClean')
    BY <1>1 DEF WriteProfile, PublishedIsClean, NoReasonShown, IInv
  <2> QED
    BY <1>0, <1>1, <2>1, <2>2, <2>3, StepKeeps DEF WriteProfile, TypeOK
<1>2. CASE List(r)
  <2>1. PICK s \in RequestStates :
          Become(r, s) /\ s.op = req[r].op /\ s.pc \in {"log", "write"}
    <3> DEFINE ids == Listed(req[r].op)
               s == [req[r] EXCEPT !.ids = ids, !.pc = IF ids = {} THEN "log" ELSE "write"]
    <3>1. ids \in SUBSET Listings
      BY DEF Listed
    <3>2. /\ s \in RequestStates
          /\ s.op = req[r].op /\ s.pc \in {"log", "write"}
      <4> HIDE DEF ids
      <4> QED
        BY <1>0, <3>1 DEF TypeOK, RequestStates, Labels
    <3>3. Become(r, s)
      BY <1>2 DEF List
    <3> QED
      BY <3>2, <3>3
  <2>2. /\ req' \in [Requests -> RequestStates] /\ req'[r] = s
        /\ \A q \in Requests \ {r} : req'[q] = req[q]
    BY <1>0, <2>1, RequestTypes
  <2>3. Held(r)'
    BY <1>0, <2>1, <2>2 DEF Held, At, Logged
  <2> QED
    BY <1>2, <2>2, <2>3, QuietStep DEF List
<1> QED
  BY <1>1, <1>2

\* updateLocation's and deleteLocation's read: what a host may ask for next is
\* never to publish.
LEMMA ReadKeeps ==
    ASSUME IInv, NEW r \in Requests, Read(r)
    PROVE  IInv'
<1>0. TypeOK
  BY DEF IInv
<1>1. PICK s \in RequestStates :
        /\ Become(r, s)
        /\ \/ s.pc = "delete"
           \/ s.pc = "patch" /\ s.to \in Statuses /\ s.to # "published"
  <2>1. \A l \in Listings : Call("delete", "delete", {l}, "none") \in RequestStates
    BY DEF Call, RequestStates, Labels, HostCalls
  <2>2. \A l \in Listings, t \in Statuses : Call("patch", "patch", {l}, t) \in RequestStates
    BY DEF Call, RequestStates, Labels, HostCalls
  <2>3. \A u : ~HostMay(u, "published")
    BY DEF HostMay, HostTransitions
  <2> QED
    BY <2>1, <2>2, <2>3 DEF Read, Call
<1>2. /\ req' \in [Requests -> RequestStates] /\ req'[r] = s
      /\ \A q \in Requests \ {r} : req'[q] = req[q]
  BY <1>0, <1>1, RequestTypes
<1>3. Held(r)'
  BY <1>1, <1>2 DEF Held, At
<1> QED
  BY <1>2, <1>3, QuietStep DEF Read

\* writeAuditLog touches the log only.
LEMMA LogKeeps ==
    ASSUME IInv, NEW r \in Requests, Log(r)
    PROVE  IInv'
<1>0. TypeOK /\ req[r].op \in Logged
  BY DEF IInv, Log, Held
<1>1. /\ req' \in [Requests -> RequestStates] /\ req'[r] = Idle
      /\ \A q \in Requests \ {r} : req'[q] = req[q]
  BY <1>0, IdleType, RequestTypes DEF Log, Done
<1>2. Held(r)'
  BY <1>1 DEF Held, At, Idle, Call
<1>3. logged' \in [Listings -> Logged \cup {"none"}] /\ (PublishedIsClean')
  BY <1>0 DEF Log, TypeOK, PublishedIsClean, NoReasonShown, IInv
<1> QED
  BY <1>0, <1>1, <1>2, <1>3, StepKeeps DEF Log, TypeOK

-----------------------------------------------------------------------------
\* The invariant holds of every state of every execution, for any number of
\* listings and of requests at work on them.
THEOREM Inductive == Spec => []IInv
<1>1. Init => IInv
  <2> SUFFICES ASSUME Init PROVE IInv
    OBVIOUS
  <2>1. TypeOK
    BY IdleType DEF Init, TypeOK, Reasons
  <2>2. \A r \in Requests : Held(r)
    BY DEF Init, Held, At, Idle, Call
  <2>3. PublishedIsClean
    BY DEF Init, PublishedIsClean, NoReasonShown
  <2> QED
    BY <2>1, <2>2, <2>3 DEF IInv
<1>2. IInv /\ [Next]_vars => IInv'
  <2> SUFFICES ASSUME IInv, [Next]_vars PROVE IInv'
    OBVIOUS
  <2>1. ASSUME NEW r \in Requests, Begin(r) \/ Step(r) \/ Abort(r) PROVE IInv'
    BY <2>1, BeginKeeps, WriteKeeps, PatchKeeps, RowsKeep, EndsKeep, UserKeeps,
       ReadKeeps, LogKeeps DEF Step
  <2>2. CASE UNCHANGED vars
    BY <2>2 DEF vars, IInv, TypeOK, Held, At, PublishedIsClean, NoReasonShown
  <2> QED
    BY <2>1, <2>2 DEF Next
<1> QED
  BY <1>1, <1>2, PTL DEF Spec

\* Every variable keeps its shape.
THEOREM TypeCorrect == Spec => []TypeOK
<1>1. IInv => TypeOK
  BY DEF IInv
<1> QED
  BY <1>1, Inductive, PTL

\* locations.service.ts:14-19, as far as it is so: in an execution in which admins
\* publish through approve and restore only, no listing is ever public with a reason, whatever
\* hosts and admins do to it at once and whichever of their requests die.
THEOREM PublishedClean == Spec => []PublishedIsClean
<1>1. IInv => PublishedIsClean
  BY DEF IInv
<1> QED
  BY <1>1, Inductive, PTL

-----------------------------------------------------------------------------
(* Requests that follow one another                                         *)

\* Which calls an operation makes.
Ways(r) ==
    /\ At(r, "idle") => req[r].op = "none"
    /\ req[r].op = "patch" => req[r].pc \in {"read", "patch"}
    /\ req[r].op \in Cascades => req[r].pc \in {"profile", "list", "write", "log"}
    /\ req[r].op = "adminPatch" => "patch" \in may
    /\ At(r, "patch") => req[r].op \in {"patch", "adminPatch"}

\* What a request has read is still so: nobody else is at work.
Knows(r) ==
    /\ At(r, "checkHost") => \A l \in req[r].ids : status[l] \in Sources("approve")
    /\ At(r, "write") /\ req[r].op \in Decisions =>
         \A l \in req[r].ids : status[l] \in Sources(req[r].op)
    /\ At(r, "write") /\ req[r].op \in Cascades => req[r].ids = Listed(req[r].op)
    /\ req[r].op = "suspendUser" /\ req[r].pc \in {"list", "write"} => host = "suspended"
    /\ At(r, "patch") /\ req[r].op = "patch" =>
         \A l \in req[r].ids : HostMay(status[l], req[r].to)
    /\ At(r, "log") /\ may = {} =>
         /\ req[r].op \in Decisions \cup Cascades
         /\ \A l \in req[r].ids :
              status[l] = Target(req[r].op) /\ (flag[l] <=> req[r].op = "suspendUser")

\* The entry about a listing is still to be written; listings are being given back.
Pending(l) == \E r \in Requests : At(r, "log") /\ l \in req[r].ids
Restoring  == \E r \in Requests : req[r].op = "restoreUser" /\ req[r].pc \in {"list", "write"}

Explained(l) ==
    CASE status[l] = "published" -> logged[l] \in {"approve", "restore", "restoreUser"}
      [] status[l] = "rejected"  -> logged[l] = "reject"
      [] status[l] = "suspended" -> logged[l] = IF flag[l] THEN "suspendUser" ELSE "suspend"
      [] OTHER                   -> TRUE

\* What LogExplains says, in the middle of a request.
Tale ==
    may = {} => \A l \in Listings :
        /\ flag[l] => status[l] = "suspended" /\ reason[l] = "host"
        /\ flag[l] => host = "suspended" \/ Restoring
        /\ Explained(l) \/ Pending(l)

Order ==
    "race" \notin may =>
        /\ \A r, q \in Requests : r # q => At(r, "idle") \/ At(q, "idle")
        /\ \A r \in Requests : Ways(r) /\ Knows(r)
        /\ Tale

\* It is r's turn: all others wait to begin.
Turn(r) ==
    /\ IInv /\ Order /\ "race" \notin may /\ may' = may
    /\ \A q \in Requests \ {r} : req[q].pc = "idle" /\ req[q].op = "none" /\ req'[q] = req[q]

LEMMA TurnIs ==
    ASSUME IInv, Order, "race" \notin may, NEW r \in Requests, Begin(r) \/ Step(r) \/ Abort(r)
    PROVE  Turn(r)
<1>1. may' = may
  BY DEF Begin, Step, DecideBegin, UserBegin, HostBegin, AdminBegin, CheckHost, Write, Log, WriteProfile,
         List, Insert, Read, Refuse, Patch, Delete, Abort
<1>2. \A q \in Requests \ {r} : req'[q] = req[q]
  BY DEF IInv, TypeOK, Become, Goto, Done, Begin, Step, DecideBegin, UserBegin, HostBegin, AdminBegin,
         CheckHost, Write, Log, WriteProfile, List, Insert, Read, Refuse, Patch, Delete, Abort
<1>3. \A q \in Requests \ {r} : At(q, "idle")
  <2>1. CASE Begin(r)
    BY <2>1 DEF Begin, DecideBegin, UserBegin, HostBegin, AdminBegin, Free, AllIdle
  <2>2. CASE Step(r) \/ Abort(r)
    <3>1. ~At(r, "idle")
      BY <2>2 DEF Step, CheckHost, Write, Log, WriteProfile, List, Insert, Read, Refuse, Patch, Delete,
                  Abort, At
    <3>. QED
      BY <3>1 DEF Order
  <2>. QED
    BY <2>1, <2>2
<1>. QED
  BY <1>1, <1>2, <1>3 DEF Turn, Order, Ways, At

LEMMA TurnKeeps ==
    ASSUME NEW r \in Requests, Turn(r), Ways(r)', Knows(r)', Tale'
    PROVE  Order'
<1>1. \A q \in Requests \ {r} : req'[q].pc = "idle" /\ req'[q].op = "none"
  BY DEF Turn
<1>2. \A q \in Requests \ {r} : Ways(q)' /\ Knows(q)'
  BY <1>1 DEF Ways, Knows, At, Cascades
<1>3. \A p, q \in Requests : p # q => At(p, "idle")' \/ At(q, "idle")'
  BY <1>1 DEF At
<1>. QED
  BY <1>2, <1>3 DEF Order

\* Nobody else has anything pending.
LEMMA OnlyOne ==
    ASSUME NEW r \in Requests, Turn(r)
    PROVE  /\ \A l : Pending(l) <=> req[r].pc = "log" /\ l \in req[r].ids
           /\ \A l : Pending(l)' <=> req'[r].pc = "log" /\ l \in req'[r].ids
           /\ Restoring <=> req[r].op = "restoreUser" /\ req[r].pc \in {"list", "write"}
           /\ Restoring' <=> req'[r].op = "restoreUser" /\ req'[r].pc \in {"list", "write"}
<1>1. \A q \in Requests \ {r} :
        req[q].pc = "idle" /\ req[q].op = "none" /\ req'[q].pc = "idle" /\ req'[q].op = "none"
  BY DEF Turn
<1>. QED
  BY <1>1 DEF Pending, Restoring, At

\* A step that changes no table, of a request with nothing to log.
LEMMA QuietTale ==
    ASSUME NEW r \in Requests, Turn(r), UNCHANGED <<host, status, reason, flag, logged>>,
           req[r].pc # "log",
           req[r].op = "restoreUser" /\ req[r].pc \in {"list", "write"} =>
             req'[r].op = "restoreUser" /\ req'[r].pc \in {"list", "write"}
    PROVE  Tale'
<1>1. \A l \in Listings : Explained(l) => Explained(l)'
  BY DEF Explained
<1>2. may = {} => Tale
  BY DEF Turn, Order
<1>. QED
  BY <1>1, <1>2, OnlyOne DEF Tale, Turn

\* A request that ends knows nothing any more.
LEMMA EndedKnows ==
    ASSUME NEW r \in Requests, req'[r] = Idle
    PROVE  Ways(r)' /\ Knows(r)'
BY DEF Ways, Knows, At, Idle, Call, Cascades

LEMMA DoneIs ==
    ASSUME TypeOK, NEW r \in Requests, Done(r)
    PROVE  req'[r] = Idle
BY DEF TypeOK, Done, Become

LEMMA BeginInOrder ==
    ASSUME NEW r \in Requests, Turn(r), Begin(r)
    PROVE  Order'
<1>0. TypeOK /\ req[r].pc = "idle" /\ UNCHANGED <<host, status, reason, flag, logged>> /\ may' = may
  BY DEF Turn, IInv, Begin, DecideBegin, UserBegin, HostBegin, AdminBegin, Free, At
<1>1. ASSUME NEW l \in Listings, NEW op \in Decisions, DecideBegin(r, l, op)
      PROVE  Ways(r)' /\ Knows(r)'
  <2>1. req'[r] = Call(op, IF op = "approve" THEN "checkHost" ELSE "write", {l}, "none")
    BY <1>0, <1>1 DEF DecideBegin, Become, TypeOK
  <2>2. status'[l] \in Sources(op)
    BY <1>0, <1>1 DEF DecideBegin
  <2>. QED
    BY <2>1, <2>2 DEF Ways, Knows, At, Call, Decisions, Cascades
<1>2. ASSUME NEW op \in Cascades, UserBegin(r, op) PROVE Ways(r)' /\ Knows(r)'
  <2>1. req'[r] = Call(op, "profile", {}, "none")
    BY <1>0, <1>2 DEF UserBegin, Become, TypeOK
  <2>. QED
    BY <2>1 DEF Ways, Knows, At, Call, Cascades
<1>3. ASSUME NEW op \in HostCalls, HostBegin(r, op) PROVE Ways(r)' /\ Knows(r)'
  <2>1. req'[r] = Call(op, IF op = "create" THEN "insert" ELSE "read", {}, "none")
    BY <1>0, <1>3 DEF HostBegin, Become, TypeOK
  <2>2. /\ req'[r].op \in HostCalls /\ req'[r].pc \in {"insert", "read"}
        /\ req'[r].op = "patch" => req'[r].pc = "read"
    BY <2>1 DEF Call, HostCalls
  <2>. QED
    BY <2>2 DEF Ways, Knows, At, Cascades, HostCalls
<1>4. ASSUME NEW l \in Listings, NEW op \in {"patch", "delete"}, AdminBegin(r, l, op)
      PROVE  Ways(r)' /\ Knows(r)'
  <2>1. \/ req'[r] = Call("delete", "delete", {l}, "none")
        \/ "patch" \in may /\ \E t \in Statuses : req'[r] = Call("adminPatch", "patch", {l}, t)
    BY <1>0, <1>4 DEF AdminBegin, Become, TypeOK
  <2>2. \/ req'[r].op = "delete" /\ req'[r].pc = "delete"
        \/ "patch" \in may /\ req'[r].op = "adminPatch" /\ req'[r].pc = "patch"
    <3>1. \A t : /\ Call("adminPatch", "patch", {l}, t).op = "adminPatch"
                 /\ Call("adminPatch", "patch", {l}, t).pc = "patch"
      BY DEF Call
    <3>2. /\ Call("delete", "delete", {l}, "none").op = "delete"
          /\ Call("delete", "delete", {l}, "none").pc = "delete"
      BY DEF Call
    <3>. QED
      BY <2>1, <3>1, <3>2
  <2>. QED
    BY <1>0, <2>2 DEF Ways, Knows, At, Cascades
<1>5. Ways(r)' /\ Knows(r)'
  BY <1>1, <1>2, <1>3, <1>4 DEF Begin
<1>6. Tale'
  BY <1>0, QuietTale
<1>. QED
  BY <1>5, <1>6, TurnKeeps

\* The first calls of a decision and of a host's request, and what ends one.
LEMMA EndsInOrder ==
    ASSUME NEW r \in Requests, Turn(r), CheckHost(r) \/ Refuse(r) \/ Abort(r)
    PROVE  Order'
<1>0. TypeOK /\ UNCHANGED <<host, status, reason, flag, logged>> /\ req[r] \in RequestStates
  BY DEF Turn, IInv, TypeOK, CheckHost, Refuse, Abort
<1>1. CASE CheckHost(r) /\ Goto(r, "write")
  <2>1. req'[r] = [req[r] EXCEPT !.pc = "write"] /\ req[r].op = "approve"
    BY <1>0, <1>1 DEF Turn, IInv, TypeOK, Held, CheckHost, Goto
  <2>2. req'[r].pc = "write" /\ req'[r].op = "approve" /\ req'[r].ids = req[r].ids
    BY <1>0, <2>1 DEF RequestStates
  <2>3. \A l \in req[r].ids : status[l] \in Sources("approve")
    BY <1>1 DEF Turn, Order, Knows, CheckHost
  <2>4. Ways(r)' /\ Knows(r)'
    BY <1>0, <2>2, <2>3 DEF Ways, Knows, At, Cascades
  <2>5. Tale'
    BY <1>0, <1>1, <2>1, QuietTale DEF CheckHost, At
  <2>. QED
    BY <2>4, <2>5, TurnKeeps
<1>2. CASE Done(r)
  <2>1. Ways(r)' /\ Knows(r)'
    BY <1>0, <1>2, DoneIs, EndedKnows
  <2>2. Tale'
    <3>1. CASE Abort(r)
      BY <3>1 DEF Abort, Tale, Turn
    <3>2. CASE CheckHost(r) \/ Refuse(r)
      <4>1. req[r].pc \in {"checkHost", "read"}
        BY <3>2 DEF CheckHost, Refuse, At
      <4>. QED
        BY <1>0, <4>1, QuietTale
    <3>. QED
      BY <3>1, <3>2
  <2>. QED
    BY <2>1, <2>2, TurnKeeps
<1>. QED
  BY <1>1, <1>2 DEF CheckHost, Refuse, Abort

LEMMA ReadInOrder ==
    ASSUME NEW r \in Requests, Turn(r), Read(r)
    PROVE  Order'
<1>0. TypeOK /\ UNCHANGED <<host, status, reason, flag, logged>> /\ req[r].pc = "read"
  BY DEF Turn, IInv, Read, At
<1>1. PICK l \in Listings :
        \/ Become(r, Call("delete", "delete", {l}, "none"))
        \/ \E t \in Statuses : HostMay(status[l], t) /\ Become(r, Call("patch", "patch", {l}, t))
  BY DEF Read
<1>2. CASE Become(r, Call("delete", "delete", {l}, "none"))
  <2>1. req'[r] = Call("delete", "delete", {l}, "none")
    BY <1>0, <1>2 DEF Become, TypeOK
  <2>2. Ways(r)' /\ Knows(r)'
    BY <2>1 DEF Ways, Knows, At, Call, Cascades
  <2>. QED
    BY <1>0, <2>2, QuietTale, TurnKeeps
<1>3. ASSUME NEW t \in Statuses, HostMay(status[l], t), Become(r, Call("patch", "patch", {l}, t))
      PROVE  Order'
  <2>1. req'[r] = Call("patch", "patch", {l}, t)
    BY <1>0, <1>3 DEF Become, TypeOK
  <2>2. HostMay(status'[l], t)
    BY <1>0, <1>3
  <2>3. Ways(r)' /\ Knows(r)'
    BY <2>1, <2>2 DEF Ways, Knows, At, Call, Cascades, HostMay
  <2>. QED
    BY <1>0, <2>3, QuietTale, TurnKeeps
<1>. QED
  BY <1>1, <1>2, <1>3

LEMMA ProfileInOrder ==
    ASSUME NEW r \in Requests, Turn(r), WriteProfile(r)
    PROVE  Order'
<1>0. /\ TypeOK /\ req[r] \in RequestStates /\ req[r].pc = "profile" /\ req[r].op \in Cascades
      /\ UNCHANGED <<status, reason, flag, logged>>
  BY DEF Turn, IInv, TypeOK, Held, WriteProfile, At
<1>1. req'[r] = [req[r] EXCEPT !.pc = "list"]
  BY <1>0 DEF WriteProfile, Goto, TypeOK
<1>2. req'[r].pc = "list" /\ req'[r].op = req[r].op
  BY <1>0, <1>1 DEF RequestStates
<1>3. Ways(r)' /\ Knows(r)'
  BY <1>0, <1>2 DEF Ways, Knows, At, Cascades, WriteProfile
<1>4. host' = "suspended" \/ Restoring'
  BY <1>0, <1>2, OnlyOne DEF WriteProfile, Cascades
<1>5. \A l \in Listings : Explained(l) => Explained(l)'
  BY <1>0 DEF Explained
<1>6. \A l : ~Pending(l)
  BY <1>0, OnlyOne
<1>7. Tale'
  BY <1>0, <1>4, <1>5, <1>6 DEF Tale, Turn, Order
<1>. QED
  BY <1>3, <1>7, TurnKeeps

LEMMA ListInOrder ==
    ASSUME NEW r \in Requests, Turn(r), List(r)
    PROVE  Order'
<1>0. /\ TypeOK /\ req[r] \in RequestStates /\ req[r].pc = "list" /\ req[r].op \in Cascades
      /\ UNCHANGED <<host, status, reason, flag, logged>> /\ may' = may
  BY DEF Turn, IInv, TypeOK, Held, List, At
<1>1. PICK op \in Cascades : op = req[r].op
  BY <1>0
<1>2. PICK ids \in SUBSET Listings : ids = Listed(op)
  BY DEF Listed
<1>3. PICK label \in {"log", "write"} : label = IF ids = {} THEN "log" ELSE "write"
  OBVIOUS
<1>4. req'[r] = [req[r] EXCEPT !.ids = ids, !.pc = label]
  BY <1>0, <1>1, <1>2, <1>3 DEF List, Become, TypeOK
<1>5. req'[r].pc = label /\ req'[r].op = op /\ req'[r].ids = ids
  BY <1>0, <1>1, <1>4 DEF RequestStates
<1>6. ids = Listed(op)' /\ (op = "suspendUser" => host' = "suspended")
  BY <1>0, <1>1, <1>2 DEF Listed, Turn, Order, Knows
<1>7. Ways(r)' /\ Knows(r)'
  BY <1>3, <1>5, <1>6 DEF Ways, Knows, At, Cascades, Decisions
<1>8. CASE label = "write"
  BY <1>0, <1>1, <1>5, <1>7, <1>8, QuietTale, TurnKeeps
<1>9. CASE label = "log"
  <2>1. ids = {}
    BY <1>3, <1>9
  <2>2. may = {} => Tale
    BY DEF Turn, Order
  <2>3. op = "restoreUser" /\ may = {} => \A l \in Listings : ~flag[l]
    BY <1>2, <2>1, <2>2 DEF Listed, Tale
  <2>4. \A l \in Listings : Explained(l) => Explained(l)'
    BY <1>0 DEF Explained
  <2>5. \A l : ~Pending(l)
    BY <1>0, OnlyOne
  <2>6. op # "restoreUser" => ~Restoring
    BY <1>1, OnlyOne
  <2>7. Tale'
    BY <1>0, <2>2, <2>3, <2>4, <2>5, <2>6 DEF Tale
  <2>. QED
    BY <1>7, <2>7, TurnKeeps
<1>. QED
  BY <1>8, <1>9

\* A decision or a cascade writes what its entry will say.
LEMMA WriteInOrder ==
    ASSUME NEW r \in Requests, Turn(r), Write(r)
    PROVE  Order'
<1>0. /\ TypeOK /\ req[r] \in RequestStates /\ req[r].pc = "write"
      /\ req[r].op \in Decisions \cup Cascades /\ UNCHANGED <<host, logged>> /\ may' = may
  BY DEF Turn, IInv, TypeOK, Held, Write, At
<1>1. PICK op \in Decisions \cup Cascades, ids \in SUBSET Listings : op = req[r].op /\ ids = req[r].ids
  BY <1>0 DEF RequestStates
<1>2. req'[r] = [req[r] EXCEPT !.pc = "log"]
  BY <1>0 DEF Write, Goto, TypeOK
<1>3. req'[r].pc = "log" /\ req'[r].op = op /\ req'[r].ids = ids
  BY <1>0, <1>1, <1>2 DEF RequestStates
<1>4. /\ op \in Decisions => \A l \in ids : status[l] \in Sources(op)
      /\ op \in Cascades => ids = Listed(op)
      /\ op = "suspendUser" => host = "suspended"
  BY <1>0, <1>1 DEF Turn, Order, Knows, At
<1>5. \A l \in ids : There(l)
  <2>1. ASSUME NEW l \in ids, op \in Decisions PROVE There(l)
    BY <1>4, <2>1 DEF There, Sources, Statuses, Decisions
  <2>2. ASSUME NEW l \in ids, op \in Cascades PROVE There(l)
    BY <1>4, <2>2 DEF There, Listed, Statuses
  <2>. QED
    BY <2>1, <2>2
<1>6. \A l \in Listings :
        /\ l \in ids => status'[l] = Target(op) /\ reason'[l] = ReasonOf(op) /\ flag'[l] = FlagOf(op, l)
        /\ l \notin ids => status'[l] = status[l] /\ reason'[l] = reason[l] /\ flag'[l] = flag[l]
  BY <1>1, <1>5 DEF Write
<1>7. may = {} => Tale
  BY DEF Turn, Order
<1>8. ASSUME may = {}, NEW l \in ids PROVE flag'[l] <=> op = "suspendUser"
  <2>1. CASE op \in {"approve", "reject"}
    <3>1. status[l] \in {"submitted", "under_review"}
      BY <1>4, <2>1 DEF Sources, Decisions
    <3>2. ~flag[l]
      BY <1>7, <1>8, <3>1 DEF Tale
    <3>. QED
      BY <1>6, <2>1, <3>2 DEF FlagOf
  <2>2. CASE op \notin {"approve", "reject"}
    BY <1>6, <2>2 DEF FlagOf
  <2>. QED
    BY <2>1, <2>2
<1>9. Ways(r)' /\ Knows(r)'
  BY <1>0, <1>1, <1>3, <1>6, <1>8 DEF Ways, Knows, At, Cascades, Decisions
<1>10. ASSUME may = {}, NEW l \in Listings
       PROVE  /\ flag'[l] => status'[l] = "suspended" /\ reason'[l] = "host"
              /\ flag'[l] => host' = "suspended" \/ Restoring'
              /\ Explained(l)' \/ Pending(l)'
  <2>1. CASE l \in ids
    <3>1. Pending(l)'
      BY <1>3, <2>1, OnlyOne
    <3>2. flag'[l] => op = "suspendUser"
      BY <1>8, <1>10, <2>1
    <3>3. flag'[l] => status'[l] = "suspended" /\ reason'[l] = "host"
      BY <1>6, <2>1, <3>2 DEF Target, ReasonOf
    <3>4. flag'[l] => host = "suspended"
      BY <1>4, <3>2
    <3>. QED
      BY <1>0, <3>1, <3>3, <3>4
  <2>2. CASE l \notin ids
    <3>1. /\ flag[l] => status[l] = "suspended" /\ reason[l] = "host"
          /\ flag[l] => host = "suspended" \/ Restoring
          /\ Explained(l)
      BY <1>0, <1>7, <1>10, OnlyOne DEF Tale
    <3>2. Explained(l)'
      BY <1>0, <1>6, <2>2, <3>1 DEF Explained
    <3>3. op = "restoreUser" => ~flag[l]
      BY <1>4, <2>2, <3>1 DEF Listed, Cascades
    <3>4. op # "restoreUser" => ~Restoring
      BY <1>1, OnlyOne
    <3>. QED
      BY <1>0, <1>6, <2>2, <3>1, <3>2, <3>3, <3>4
  <2>. QED
    BY <2>1, <2>2
<1>11. Tale'
  BY <1>0, <1>10 DEF Tale
<1>. QED
  BY <1>9, <1>11, TurnKeeps

\* The entry says what the request did.
LEMMA LogInOrder ==
    ASSUME NEW r \in Requests, Turn(r), Log(r)
    PROVE  Order'
<1>0. /\ TypeOK /\ req[r] \in RequestStates /\ req[r].pc = "log"
      /\ UNCHANGED <<host, status, reason, flag>> /\ may' = may
  BY DEF Turn, IInv, TypeOK, Log, At
<1>1. PICK op, ids : op = req[r].op /\ ids = req[r].ids
  OBVIOUS
<1>2. req'[r] = Idle
  BY <1>0, DoneIs DEF Log
<1>3. Ways(r)' /\ Knows(r)'
  BY <1>2, EndedKnows
<1>4. ~Restoring
  BY <1>0, OnlyOne
<1>5. may = {} => Tale
  BY DEF Turn, Order
<1>6. ASSUME may = {}, NEW l \in Listings PROVE Explained(l)'
  <2>1. CASE l \in ids
    <3>1. logged'[l] = op
      BY <1>1, <2>1 DEF Log
    <3>2. op \in Decisions \cup Cascades /\ status[l] = Target(op) /\ (flag[l] <=> op = "suspendUser")
      BY <1>0, <1>1, <1>6, <2>1 DEF Turn, Order, Knows, At
    <3>. QED
      BY <1>0, <3>1, <3>2 DEF Explained, Target, Decisions, Cascades
  <2>2. CASE l \notin ids
    <3>1. logged'[l] = logged[l] /\ Explained(l)
      BY <1>1, <1>5, <1>6, <2>2, OnlyOne DEF Log, Tale
    <3>. QED
      BY <1>0, <3>1 DEF Explained
  <2>. QED
    BY <2>1, <2>2
<1>7. Tale'
  BY <1>0, <1>4, <1>5, <1>6 DEF Tale
<1>. QED
  BY <1>3, <1>7, TurnKeeps

\* What ends a request and leaves every listing with a status that needs no
\* entry, or as it was.
LEMMA ExplainedStays ==
    ASSUME NEW r \in Requests, Turn(r), req'[r] = Idle, req[r].pc \notin {"log", "write", "list"},
           UNCHANGED <<host, logged>>,
           \A l \in Listings :
             \/ UNCHANGED <<status[l], reason[l], flag[l]>>
             \/ may = {} => ~flag'[l] /\ status'[l] \notin {"published", "rejected", "suspended"}
    PROVE  Order'
<1>1. Ways(r)' /\ Knows(r)'
  BY EndedKnows
<1>2. may = {} => Tale
  BY DEF Turn, Order
<1>3. ~Restoring /\ (\A l : ~Pending(l)) /\ may' = may
  BY OnlyOne DEF Turn
<1>4. ASSUME may = {}, NEW l \in Listings
      PROVE  /\ flag'[l] => status'[l] = "suspended" /\ reason'[l] = "host"
             /\ flag'[l] => host' = "suspended"
             /\ Explained(l)'
  BY <1>2, <1>3, <1>4 DEF Tale, Explained
<1>5. Tale'
  BY <1>3, <1>4 DEF Tale
<1>. QED
  BY <1>1, <1>5, TurnKeeps

LEMMA RowsInOrder ==
    ASSUME NEW r \in Requests, Turn(r), Insert(r) \/ Delete(r)
    PROVE  Order'
<1>0. /\ TypeOK /\ req[r].pc \in {"insert", "delete"} /\ UNCHANGED <<host, logged>>
      /\ req'[r] = Idle
  BY DoneIs DEF Turn, IInv, Insert, Delete, At
<1>1. may = {} => \A l \in Listings : flag[l] => status[l] = "suspended"
  BY DEF Turn, Order, Tale
<1>2. CASE Insert(r)
  <2>1. \A l \in Listings : status'[l] = status[l] \/ (status[l] = "absent" /\ status'[l] = "draft")
    BY <1>0, <1>2 DEF Insert, TypeOK
  <2>2. \A l \in Listings :
          \/ UNCHANGED <<status[l], reason[l], flag[l]>>
          \/ may = {} => ~flag'[l] /\ status'[l] \notin {"published", "rejected", "suspended"}
    BY <1>1, <1>2, <2>1 DEF Insert
  <2>. QED
    BY <1>0, <2>2, ExplainedStays
<1>3. CASE Delete(r)
  <2>1. \A l \in Listings :
          \/ UNCHANGED <<status[l], reason[l], flag[l]>>
          \/ ~flag'[l] /\ status'[l] = "deleted"
    <3>1. CASE UNCHANGED <<status, reason, flag>>
      BY <3>1
    <3>2. ASSUME NEW l \in Listings, l \in req[r].ids, There(l), ~UNCHANGED <<status, reason, flag>>
          PROVE  ~flag'[l] /\ status'[l] = "deleted"
      BY <1>3, <3>2 DEF Delete
    <3>3. ASSUME NEW l \in Listings, ~(l \in req[r].ids /\ There(l)), ~UNCHANGED <<status, reason, flag>>
          PROVE  UNCHANGED <<status[l], reason[l], flag[l]>>
      <4>1. status'[l] = status[l] /\ reason'[l] = reason[l]
        BY <1>3, <3>3 DEF Delete
      <4>2. flag[l] \in BOOLEAN
        BY <1>0 DEF TypeOK
      <4>3. flag'[l] = (~(l \in req[r].ids /\ There(l)) /\ flag[l])
        BY <1>3, <3>3 DEF Delete
      <4>. QED
        BY <3>3, <4>1, <4>2, <4>3
    <3>. QED
      BY <3>1, <3>2, <3>3
  <2>. QED
    BY <1>0, <2>1, ExplainedStays
<1>. QED
  BY <1>2, <1>3

\* A host's PATCH follows HOST_ALLOWED_TRANSITIONS from the status of now.
LEMMA PatchMoves ==
    ASSUME NEW r \in Requests, Turn(r), Patch(r), req[r].op = "patch", NEW l \in Listings
    PROVE  /\ reason'[l] = reason[l] /\ flag'[l] = flag[l]
           /\ status'[l] = status[l] \/ <<status[l], status'[l]>> \in HostTransitions
<1>1. \A m \in req[r].ids : <<status[m], req[r].to>> \in HostTransitions
  BY DEF Patch, Turn, Order, Knows, HostMay, At
<1>2. UNCHANGED <<reason, flag>>
  BY DEF Patch
<1>3. status'[l] = IF l \in req[r].ids /\ There(l) THEN req[r].to ELSE status[l]
  BY DEF Patch
<1>4. CASE l \in req[r].ids /\ There(l)
  BY <1>1, <1>2, <1>3, <1>4
<1>5. CASE ~(l \in req[r].ids /\ There(l))
  <2>1. status'[l] = status[l]
    BY <1>3, <1>5
  <2>. QED
    BY <1>2, <2>1
<1>. QED
  BY <1>4, <1>5

LEMMA PatchInOrder ==
    ASSUME NEW r \in Requests, Turn(r), Patch(r)
    PROVE  Order'
<1>0. /\ TypeOK /\ req[r] \in RequestStates /\ req[r].pc = "patch" /\ UNCHANGED <<host, logged>>
      /\ may' = may /\ req[r].op \in {"patch", "adminPatch"}
  BY DEF Turn, IInv, TypeOK, Order, Ways, Patch, At
<1>1. CASE req[r].op = "patch"
  <2>1. req'[r] = Idle
    BY <1>0, <1>1, DoneIs DEF Patch
  <2>2. may = {} => \A l \in Listings : flag[l] => status[l] = "suspended"
    BY DEF Turn, Order, Tale
  <2>3. \A l \in Listings :
          \/ UNCHANGED <<status[l], reason[l], flag[l]>>
          \/ may = {} => ~flag'[l] /\ status'[l] \notin {"published", "rejected", "suspended"}
    BY <1>1, <2>2, PatchMoves DEF HostTransitions
  <2>. QED
    BY <1>0, <2>1, <2>3, ExplainedStays
<1>2. CASE req[r].op = "adminPatch"
  <2>1. "patch" \in may
    BY <1>2 DEF Turn, Order, Ways
  <2>2. req'[r] = [req[r] EXCEPT !.pc = "log"]
    BY <1>0, <1>2 DEF Patch, Goto, TypeOK
  <2>3. req'[r].pc = "log" /\ req'[r].op = "adminPatch"
    BY <1>0, <1>2, <2>2 DEF RequestStates
  <2>4. Ways(r)' /\ Knows(r)' /\ Tale'
    BY <1>0, <2>1, <2>3 DEF Ways, Knows, At, Cascades, Tale
  <2>. QED
    BY <2>4, TurnKeeps
<1>. QED
  BY <1>0, <1>1, <1>2

LEMMA InitOrder == Init => Order
BY DEF Init, Order, Ways, Knows, Tale, Explained, At, Idle, Call, Cascades

LEMMA NextOrder == IInv /\ Order /\ [Next]_vars => Order'
<1>. SUFFICES ASSUME IInv, Order, [Next]_vars PROVE Order'
  OBVIOUS
<1>1. CASE "race" \in may
  <2>1. may' = may
    BY DEF Next, vars, Begin, Step, DecideBegin, UserBegin, HostBegin, AdminBegin, CheckHost, Write, Log,
           WriteProfile, List, Insert, Read, Refuse, Patch, Delete, Abort
  <2>. QED
    BY <1>1, <2>1 DEF Order
<1>2. ASSUME "race" \notin may, NEW r \in Requests, Begin(r) \/ Step(r) \/ Abort(r) PROVE Order'
  <2>1. Turn(r)
    BY <1>2, TurnIs
  <2>. QED
    BY <1>2, <2>1, BeginInOrder, EndsInOrder, ReadInOrder, ProfileInOrder, ListInOrder, WriteInOrder,
       LogInOrder, RowsInOrder, PatchInOrder DEF Step
<1>3. CASE UNCHANGED vars
  BY <1>3 DEF vars, Order, Ways, Knows, Tale, Explained, Pending, Restoring, Listed, At
<1>. QED
  BY <1>1, <1>2, <1>3 DEF Next

LEMMA AlwaysInOrder == Spec => [](IInv /\ Order)
<1>1. Init /\ IInv => IInv /\ Order
  BY InitOrder
<1>2. IInv /\ Order /\ [Next]_vars => Order'
  BY NextOrder
<1>. QED
  BY <1>1, <1>2, Inductive, PTL DEF Spec

\* audit.service.ts: between requests that follow one another and do not fail,
\* the log, the flag, the reason and the host's status tell one story.
THEOREM LogTellsAll == Spec => []LogExplains
<1>1. Order => LogExplains
  <2>. SUFFICES ASSUME Order, may = {}, AllIdle
                PROVE  FlagOnlyWhileDown /\ \A l \in Listings : Explained(l)
    BY DEF LogExplains, Explained
  <2>1. Tale /\ \A r \in Requests : At(r, "idle") /\ req[r].op = "none"
    BY DEF Order, AllIdle, Ways
  <2>2. ~Restoring /\ \A l \in Listings : ~Pending(l)
    BY <2>1 DEF Restoring, Pending, At
  <2>. QED
    BY <2>1, <2>2 DEF Tale, FlagOnlyWhileDown
<1>. QED
  BY <1>1, AlwaysInOrder, PTL

\* The listings that a step of one request changes.
LEMMA WhoChanges ==
    ASSUME IInv, Order, "race" \notin may, NEW p \in Requests, Begin(p) \/ Step(p) \/ Abort(p),
           NEW r \in Requests, req'[r] # req[r]
    PROVE  p = r /\ Turn(r)
BY TurnIs DEF Turn

\* The cascade's and the host's own steps.
CascadesSpare == \A r \in Requests, l \in Listings :
    /\ "race" \notin may /\ Changes(r, "suspendUser", l) => status[l] = "published"
    /\ may = {} /\ Changes(r, "restoreUser", l) => logged[l] = "suspendUser"

HostsLeave == \A r \in Requests, l \in Listings :
    "race" \notin may /\ Changes(r, "patch", l) =>
        /\ status[l] \in {"draft", "submitted", "published"}
        /\ status'[l] = "archived" <=> status[l] = "published"
        /\ status'[l] # "published"

LEMMA CascadeStep ==
    ASSUME NEW r \in Requests, Turn(r), Begin(r) \/ Step(r) \/ Abort(r), req[r].op \in Cascades,
           NEW l \in Listings, status'[l] # status[l] \/ flag'[l] # flag[l]
    PROVE  Write(r) /\ l \in Listed(req[r].op)
<1>1. req[r].pc \in {"profile", "list", "write", "log"}
  BY DEF Turn, Order, Ways
<1>2. Write(r)
  BY <1>1 DEF Begin, Step, DecideBegin, UserBegin, HostBegin, AdminBegin, CheckHost, Log, WriteProfile,
              List, Insert, Read, Refuse, Patch, Delete, Abort, At
<1>3. l \in req[r].ids
  BY <1>2 DEF Write
<1>. QED
  BY <1>2, <1>3 DEF Turn, Order, Knows, Write, At

LEMMA StepSpares ==
    ASSUME IInv, Order, [Next]_vars
    PROVE  CascadesSpare
<1>. SUFFICES ASSUME "race" \notin may, NEW r \in Requests, NEW l \in Listings, req'[r] # req[r],
                     req[r].op \in Cascades, status'[l] # status[l] \/ flag'[l] # flag[l]
              PROVE  /\ req[r].op = "suspendUser" => status[l] = "published"
                     /\ may = {} /\ req[r].op = "restoreUser" => logged[l] = "suspendUser"
  BY DEF CascadesSpare, Changes, Cascades
<1>1. Turn(r) /\ (Begin(r) \/ Step(r) \/ Abort(r))
  BY WhoChanges DEF Next, vars
<1>2. Write(r) /\ l \in Listed(req[r].op)
  BY <1>1, CascadeStep
<1>3. may = {} => Explained(l)
  BY <1>1, <1>2, OnlyOne DEF Order, Tale, Write, At
<1>. QED
  BY <1>2, <1>3 DEF Listed, Explained

LEMMA StepLeaves ==
    ASSUME IInv, Order, [Next]_vars
    PROVE  HostsLeave
<1>. SUFFICES ASSUME "race" \notin may, NEW r \in Requests, NEW l \in Listings, req'[r] # req[r],
                     req[r].op = "patch", status'[l] # status[l] \/ flag'[l] # flag[l]
              PROVE  /\ status[l] \in {"draft", "submitted", "published"}
                     /\ status'[l] = "archived" <=> status[l] = "published"
                     /\ status'[l] # "published"
  BY DEF HostsLeave, Changes
<1>1. Turn(r) /\ (Begin(r) \/ Step(r) \/ Abort(r))
  BY WhoChanges DEF Next, vars
<1>2. req[r].pc \in {"read", "patch"}
  BY <1>1 DEF Turn, Order, Ways
<1>3. Patch(r)
  BY <1>1, <1>2 DEF Begin, Step, DecideBegin, UserBegin, HostBegin, AdminBegin, CheckHost, Write, Log,
                    WriteProfile, List, Insert, Read, Refuse, Delete, Abort, At
<1>. QED
  BY <1>1, <1>3, PatchMoves DEF HostTransitions

\* users.service.ts:68-70, :121: a suspension of a host touches published listings
\* only, a restoration those that the suspension took down last.
THEOREM CascadesSpareOthers == Spec => CascadeSpares
<1>1. IInv /\ Order /\ [Next]_vars => CascadesSpare
  BY StepSpares
<1>. QED
  BY <1>1, AlwaysInOrder, PTL DEF Spec, CascadeSpares, CascadesSpare

\* locations.service.ts:37-45: alone, no host undoes an admin's decision.
THEOREM HostsLeaveDecisions == Spec => HostLeavesModeration
<1>1. IInv /\ Order /\ [Next]_vars => HostsLeave
  BY StepLeaves
<1>. QED
  BY <1>1, AlwaysInOrder, PTL DEF Spec, HostLeavesModeration, HostsLeave
-----------------------------------------------------------------------------
(* What happens in the end.                                                 *)

\* A request in progress goes on: Node resumes every await.
GoesOn(r) == []<>At(r, "idle") \/ []<><<Step(r)>>_vars

LiveSpec == Spec /\ \A r \in Requests : GoesOn(r)

\* How many calls a request has still to make, at most: a cascade writes all of
\* its listings in one.
CallsLeft(r) ==
    LET l == req[r].pc IN
    CASE l = "idle" -> 0
      [] l \in {"log", "insert", "delete"} -> 1
      [] l \in {"write", "patch"} -> 2
      [] l \in {"checkHost", "list", "read"} -> 3
      [] OTHER -> 4

Within(r, k)   == CallsLeft(r) <= k
Falls(r, k, j) == [](Within(r, k) => <>Within(r, j))
Ends(r)        == []<>At(r, "idle")

LEMMA CallsBound ==
    ASSUME NEW r
    PROVE  CallsLeft(r) \in 0..4 /\ (CallsLeft(r) = 0 <=> At(r, "idle"))
BY DEF CallsLeft, At

\* What comes after each call.
LEMMA After ==
    ASSUME IInv, NEW r \in Requests, Step(r)
    PROVE  /\ \/ req[r].pc = "profile" /\ req'[r].pc = "list"
              \/ req[r].pc = "list" /\ req'[r].pc \in {"write", "log"}
              \/ req[r].pc = "checkHost" /\ req'[r].pc \in {"write", "idle"}
              \/ req[r].pc = "read" /\ req'[r].pc \in {"patch", "delete", "idle"}
              \/ req[r].pc = "write" /\ req'[r].pc = "log"
              \/ req[r].pc = "patch" /\ req'[r].pc \in {"log", "idle"}
              \/ req[r].pc \in {"log", "insert", "delete"} /\ req'[r].pc = "idle"
           /\ \A q \in Requests \ {r} : req'[q] = req[q]
<1>1. req \in [Requests -> RequestStates] /\ req[r] \in RequestStates
  BY DEF IInv, TypeOK
<1>2. \A l \in Labels : Goto(r, l) => req'[r].pc = l /\ \A q \in Requests \ {r} : req'[q] = req[q]
  BY <1>1 DEF Goto, RequestStates
<1>3. Done(r) => req'[r].pc = "idle" /\ \A q \in Requests \ {r} : req'[q] = req[q]
  BY <1>1 DEF Done, Become, Idle, Call
<1>4. ASSUME NEW s, Become(r, s)
      PROVE  req'[r].pc = s.pc /\ \A q \in Requests \ {r} : req'[q] = req[q]
  BY <1>1, <1>4 DEF Become
<1>5. CASE List(r)
  <2> DEFINE s == [req[r] EXCEPT !.ids = Listed(req[r].op),
                                 !.pc = IF Listed(req[r].op) = {} THEN "log" ELSE "write"]
  <2>1. s.pc \in {"write", "log"}
    BY <1>1 DEF RequestStates
  <2>2. req[r].pc = "list" /\ Become(r, s)
    BY <1>5 DEF List, At
  <2> HIDE DEF s
  <2> QED
    BY <1>4, <2>1, <2>2
<1>6. CASE Read(r)
  <2>1. PICK l, t : \/ Become(r, Call("delete", "delete", {l}, "none"))
                    \/ Become(r, Call("patch", "patch", {l}, t))
    BY <1>6 DEF Read
  <2>2. /\ Call("delete", "delete", {l}, "none").pc = "delete"
        /\ Call("patch", "patch", {l}, t).pc = "patch"
    BY DEF Call
  <2>3. req[r].pc = "read"
    BY <1>6 DEF Read, At
  <2> QED
    BY <1>4, <2>1, <2>2, <2>3
<1>7. CASE WriteProfile(r) \/ CheckHost(r) \/ Write(r) \/ Patch(r)
  BY <1>2, <1>3, <1>7 DEF WriteProfile, CheckHost, Write, Patch, At, Labels
<1>8. CASE Log(r) \/ Insert(r) \/ Delete(r) \/ Refuse(r)
  BY <1>3, <1>8 DEF Log, Insert, Delete, Refuse, At
<1> QED
  BY <1>5, <1>6, <1>7, <1>8 DEF Step

\* Every call of a request leaves it with fewer to come.
LEMMA StepsDown ==
    ASSUME IInv, NEW r \in Requests, Step(r)
    PROVE  CallsLeft(r)' < CallsLeft(r)
BY After DEF CallsLeft

\* A request is changed by its own steps only.
LEMMA OnlyItsOwn ==
    ASSUME IInv, [Next]_vars, NEW r \in Requests, req'[r] # req[r]
    PROVE  Free(r) \/ Step(r) \/ Abort(r)
<1>1. req \in [Requests -> RequestStates]
  BY DEF IInv, TypeOK
<1>2. ASSUME NEW q \in Requests, Step(q) PROVE req'[r] = req[r] \/ q = r
  BY <1>2, After
<1>3. ASSUME NEW q \in Requests, Abort(q) PROVE req'[r] = req[r] \/ q = r
  BY <1>1, <1>3 DEF Abort, Done, Become
<1>4. ASSUME NEW q \in Requests, Begin(q)
      PROVE  Free(q) /\ (req'[r] = req[r] \/ q = r)
  BY <1>1, <1>4 DEF Begin, DecideBegin, UserBegin, HostBegin, AdminBegin, Become
<1> QED
  BY <1>2, <1>3, <1>4 DEF Next, vars

\* No step of anybody gives a request in progress more calls.
LEMMA NeverMore ==
    ASSUME IInv, [Next]_vars, NEW r \in Requests, ~At(r, "idle")
    PROVE  CallsLeft(r)' <= CallsLeft(r)
<1>1. CallsLeft(r)' \in 0..4
  BY DEF CallsLeft
<1>2. CASE req'[r] = req[r]
  BY <1>2, CallsBound DEF CallsLeft
<1>3. CASE Step(r)
  BY <1>1, <1>3, StepsDown, CallsBound
<1>4. CASE Abort(r)
  <2>1. CallsLeft(r)' = 0
    BY <1>4 DEF Abort, Done, Become, IInv, TypeOK, Idle, Call, CallsLeft
  <2> QED
    BY <2>1, CallsBound
<1> QED
  BY <1>2, <1>3, <1>4, OnlyItsOwn DEF Free

\* A request that goes on comes one call nearer to its end.
LEMMA Descends ==
    ASSUME NEW r \in Requests, NEW j \in 0..3, NEW k, k = j + 1
    PROVE  Spec /\ GoesOn(r) => Falls(r, k, j)
<1>1. At(r, "idle") => Within(r, j)
  BY CallsBound DEF Within
<1>2. IInv /\ [Next]_vars /\ Within(r, k) /\ ~Within(r, j) => Within(r, k)'
  <2> SUFFICES ASSUME IInv, [Next]_vars, Within(r, k), ~Within(r, j) PROVE Within(r, k)'
    OBVIOUS
  <2>1. CallsLeft(r)' <= CallsLeft(r) /\ CallsLeft(r)' \in 0..4
    BY <1>1, NeverMore DEF CallsLeft
  <2> QED
    BY <2>1, CallsBound DEF Within
<1>3. IInv /\ <<Step(r)>>_vars /\ Within(r, k) => Within(r, j)'
  <2> SUFFICES ASSUME IInv, Step(r), Within(r, k) PROVE Within(r, j)'
    OBVIOUS
  <2>1. CallsLeft(r)' < CallsLeft(r) /\ CallsLeft(r)' \in 0..4
    BY StepsDown DEF CallsLeft
  <2> QED
    BY <2>1, CallsBound DEF Within
<1> QED
  BY <1>1, <1>2, <1>3, Inductive, PTL DEF Spec, GoesOn, Falls

LEMMA RequestEnds ==
    ASSUME NEW r \in Requests
    PROVE  Spec /\ GoesOn(r) => Ends(r)
<1>1. Spec /\ GoesOn(r) =>
        Falls(r, 4, 3) /\ Falls(r, 3, 2) /\ Falls(r, 2, 1) /\ Falls(r, 1, 0)
  BY Descends
<1>2. Within(r, 4) /\ (Within(r, 0) => At(r, "idle"))
  BY CallsBound DEF Within
<1> QED
  BY <1>1, <1>2, PTL DEF Falls, Ends

\* Every decision, suspension and request of a host comes to its end, for any
\* number of them and of listings, whatever overlaps or fails.
EveryRequestEnds == \A r \in Requests : Ends(r)

THEOREM RequestsEnd == LiveSpec => EveryRequestEnds
BY RequestEnds DEF LiveSpec, EveryRequestEnds

-----------------------------------------------------------------------------
(* The cascades are carried out.                                            *)

\* The profile of the host is written, the listings are not.
Suspending(r)  == req[r].op = "suspendUser" /\ req[r].pc \in {"list", "write"}
GivingBack(r)  == req[r].op = "restoreUser" /\ req[r].pc \in {"list", "write"}

NonePublic     == \A l \in Listings : status[l] # "published"
NoneFlagged    == \A l \in Listings : ~flag[l]

\* Requests follow one another, and none fails.
Orderly        == may \cap {"race", "fail"} = {}

\* A cascade that has begun is still at it, or has just been carried out.
LEMMA CascadeGoesOn ==
    ASSUME IInv, Order, Orderly, [Next]_vars, NEW r \in Requests,
           req[r].op \in Cascades, req[r].pc \in {"list", "write"}
    PROVE  \/ req'[r].op = req[r].op /\ req'[r].pc \in {"list", "write"}
           \/ Turn(r) /\ req[r].pc = "list" /\ Listed(req[r].op) = {}
              /\ UNCHANGED <<status, flag>>
           \/ Turn(r) /\ Write(r)
<1>1. req \in [Requests -> RequestStates] /\ req[r] \in RequestStates
  BY DEF IInv, TypeOK
<1>2. "race" \notin may /\ "fail" \notin may
  BY DEF Orderly
<1>3. CASE UNCHANGED vars
  BY <1>3 DEF vars
<1>4. ASSUME NEW p \in Requests, Begin(p) \/ Step(p) \/ Abort(p)
      PROVE  p = r /\ Turn(r) /\ (List(r) \/ Write(r))
  <2>1. Turn(p)
    BY <1>2, <1>4, TurnIs
  <2>2. p = r
    BY <2>1 DEF Turn
  <2>3. List(r) \/ Write(r)
    BY <1>2, <1>4, <2>2 DEF Begin, Step, DecideBegin, UserBegin, HostBegin, AdminBegin, Free, CheckHost,
                            Log, WriteProfile, Insert, Read, Refuse, Patch, Delete, Abort, At
  <2> QED
    BY <2>1, <2>2, <2>3
<1>5. ASSUME Turn(r), List(r)
      PROVE  \/ req'[r].op = req[r].op /\ req'[r].pc \in {"list", "write"}
             \/ req[r].pc = "list" /\ Listed(req[r].op) = {} /\ UNCHANGED <<status, flag>>
  <2>1. CASE Listed(req[r].op) = {}
    BY <1>5, <2>1 DEF List, At
  <2>2. CASE Listed(req[r].op) # {}
    <3>1. req'[r] = [req[r] EXCEPT !.ids = Listed(req[r].op), !.pc = "write"]
      BY <1>1, <1>5, <2>2 DEF List, Become
    <3> QED
      BY <1>1, <3>1 DEF RequestStates
  <2> QED
    BY <2>1, <2>2
<1> QED
  BY <1>3, <1>4, <1>5 DEF Next

\* A suspension takes down all that is public.
LEMMA SuspensionStep ==
    ASSUME IInv, Order, Orderly, [Next]_vars, NEW r \in Requests, Suspending(r)
    PROVE  Suspending(r)' \/ NonePublic'
<1>1. CASE req'[r].op = req[r].op /\ req'[r].pc \in {"list", "write"}
  BY <1>1 DEF Suspending
<1>2. CASE Listed(req[r].op) = {} /\ UNCHANGED <<status, flag>>
  BY <1>2 DEF Suspending, Listed, NonePublic
<1>3. CASE Turn(r) /\ Write(r)
  <2>1. req[r].ids = Listed("suspendUser") /\ req[r].op = "suspendUser"
    BY <1>3 DEF Suspending, Turn, Order, Knows, Write, Cascades
  <2>2. Target("suspendUser") = "suspended"
    BY DEF Target
  <2>3. ASSUME NEW l \in Listings PROVE status'[l] # "published"
    <3>1. status'[l] = IF l \in req[r].ids /\ There(l) THEN Target(req[r].op) ELSE status[l]
      BY <1>3 DEF Write
    <3>2. status[l] = "published" => l \in req[r].ids /\ There(l)
      BY <2>1 DEF Listed, There, Statuses
    <3> QED
      BY <2>1, <2>2, <3>1, <3>2
  <2> QED
    BY <2>3 DEF NonePublic
<1> QED
  BY <1>1, <1>2, <1>3, CascadeGoesOn DEF Suspending, Cascades

\* A restoration gives back all that a suspension has taken.
LEMMA RestorationStep ==
    ASSUME IInv, Order, may = {}, [Next]_vars, NEW r \in Requests, GivingBack(r)
    PROVE  GivingBack(r)' \/ NoneFlagged'
<1>1. \A l \in Listings : flag[l] => l \in Listed("restoreUser") /\ There(l)
  BY DEF Order, Tale, Listed, There, Statuses
<1>2. CASE req'[r].op = req[r].op /\ req'[r].pc \in {"list", "write"}
  BY <1>2 DEF GivingBack
<1>3. CASE Listed(req[r].op) = {} /\ UNCHANGED <<status, flag>>
  BY <1>1, <1>3 DEF GivingBack, NoneFlagged
<1>4. CASE Turn(r) /\ Write(r)
  <2>1. req[r].ids = Listed("restoreUser") /\ req[r].op = "restoreUser"
    BY <1>4 DEF GivingBack, Turn, Order, Knows, Write, Cascades
  <2>2. ASSUME NEW l \in Listings PROVE ~flag'[l]
    <3>1. flag'[l] = IF l \in req[r].ids /\ There(l) THEN FlagOf(req[r].op, l) ELSE flag[l]
      BY <1>4 DEF Write
    <3>2. ~FlagOf("restoreUser", l)
      BY DEF FlagOf
    <3> QED
      BY <1>1, <2>1, <3>1, <3>2
  <2> QED
    BY <2>2 DEF NoneFlagged
<1> QED
  BY <1>2, <1>3, <1>4, CascadeGoesOn DEF GivingBack, Cascades, Orderly

\* suspendUser, restoreUser: where requests follow one another and none fails, a
\* host who is suspended loses every public listing, and a host who is restored
\* has every listing back that the suspension took.
TakesDown(r) == Suspending(r) ~> NonePublic
GivesBack(r) == GivingBack(r) ~> NoneFlagged

LEMMA CascadeEnds ==
    ASSUME NEW r \in Requests
    PROVE  /\ Spec /\ GoesOn(r) /\ Orderly => TakesDown(r)
           /\ Spec /\ GoesOn(r) /\ may = {} => GivesBack(r)
<1>1. [Next]_vars => (Orderly => Orderly') /\ (may = {} => (may = {})')
  BY DEF Next, Begin, Step, DecideBegin, UserBegin, HostBegin, AdminBegin, CheckHost, Write, Log,
         WriteProfile, List, Insert, Read, Refuse, Patch, Delete, Abort, vars, Orderly
<1>2. At(r, "idle") => ~Suspending(r) /\ ~GivingBack(r)
  BY DEF At, Suspending, GivingBack
<1>3. IInv /\ Order /\ Orderly /\ [Next]_vars /\ Suspending(r) => Suspending(r)' \/ NonePublic'
  BY SuspensionStep
<1>4. IInv /\ Order /\ may = {} /\ [Next]_vars /\ GivingBack(r) => GivingBack(r)' \/ NoneFlagged'
  BY RestorationStep
<1> QED
  BY <1>1, <1>2, <1>3, <1>4, RequestEnds, AlwaysInOrder, PTL DEF Spec, Ends, TakesDown, GivesBack

EveryCascadeEnds ==
    /\ Orderly => \A r \in Requests : TakesDown(r)
    /\ may = {} => \A r \in Requests : GivesBack(r)

THEOREM CascadesFinish == LiveSpec => EveryCascadeEnds
BY CascadeEnds DEF LiveSpec, EveryCascadeEnds
=============================================================================
