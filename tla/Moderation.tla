----------------------------- MODULE Moderation -----------------------------
(***************************************************************************)
(* The status of the listings of ONE host, and the status of the host:      *)
(* src/src/modules/admin/locations.service.ts, users.service.ts and         *)
(* audit.service.ts, and the operations of locations.service.ts that create,*)
(* delete or change the status of a listing.                                *)
(*                                                                          *)
(* Every write is an update by id, decided on a row read one call earlier.  *)
(* An id is never used twice, and an update of a deleted row changes        *)
(* nothing.  A listing's contents and tags are left out.                    *)
(***************************************************************************)
EXTENDS Naturals

CONSTANTS
    Listings,   \* ids of the host's listings (bound: listings ever made)
    Requests,   \* concurrent HTTP requests (bound: requests in progress)
    Settings    \* what executions may meet, each a value of may

ASSUME SettingsAssumption == Settings \subseteq SUBSET {"race", "fail", "patch"}

VARIABLES
    may,      \* what happens in this execution: requests that overlap ("race"),
              \* calls that fail and requests that die ("fail"), admins who set
              \* a status through PATCH /locations/:id ("patch")
    host,     \* profiles.status of the host
    status,   \* locations.status, "absent" before the insert, "deleted" after
    reason,   \* locations.moderation_reason: none, the host's or the listing's
    flag,     \* locations.suspended_by_host_suspension
    logged,   \* the latest admin_audit_log entry that names the listing
    req       \* each request: what it does and what it has read

vars == <<may, host, status, reason, flag, logged, req>>

-----------------------------------------------------------------------------
Statuses == {"draft", "submitted", "under_review", "approved", "published",
             "rejected", "suspended", "archived"}
Reasons  == {"none", "host", "listing"}

Decisions == {"approve", "reject", "suspend", "restore"}
Cascades  == {"suspendUser", "restoreUser"}
Logged    == Decisions \cup Cascades \cup {"adminPatch"}
HostCalls == {"create", "patch", "delete"}

\* The statuses that each decision on a listing accepts.
Sources(op) ==
    CASE op = "suspend" -> {"published"}
      [] op = "restore" -> {"suspended"}
      [] OTHER          -> {"submitted", "under_review"}

Target(op) ==
    CASE op \in {"approve", "restore", "restoreUser"} -> "published"
      [] op = "reject"                                -> "rejected"
      [] OTHER                                        -> "suspended"

\* Mutant of ReasonOf: restoring a listing leaves its reason.
ReasonKept(op) ==
    CASE op = "suspendUser"            -> "host"
      [] op \in {"approve", "restoreUser"} -> "none"
      [] OTHER                         -> "listing"

ReasonOf(op) ==
    CASE op = "suspendUser"           -> "host"
      [] op \in {"reject", "suspend"} -> "listing"
      [] OTHER                        -> "none"

\* Approving and rejecting leave the flag alone.
FlagOf(op, l) == op = "suspendUser" \/ (op \in {"approve", "reject"} /\ flag[l])

\* HOST_ALLOWED_TRANSITIONS.
HostTransitions ==
    {<<"draft", "submitted">>, <<"submitted", "draft">>, <<"published", "archived">>}

\* Mutant of HostMay: a rejected listing may be handed in again.
HostMayResubmit(s, t) == <<s, t>> \in HostTransitions \cup {<<"rejected", "submitted">>}

HostMay(s, t) == <<s, t>> \in HostTransitions

There(l) == status[l] \in Statuses

\* Mutant of Listed: the flag is not asked for.
ListedDown(op) ==
    {l \in Listings : status[l] = IF op = "suspendUser" THEN "published" ELSE "suspended"}

\* The listings that suspending or restoring the host is to change.
Listed(op) ==
    {l \in Listings :
       IF op = "suspendUser" THEN status[l] = "published"
       ELSE status[l] = "suspended" /\ flag[l]}

Labels == {"idle", "checkHost", "write", "log", "profile", "list", "insert",
           "read", "patch", "delete"}

RequestStates ==
    [op  : {"none"} \cup HostCalls \cup Logged,
     pc  : Labels,
     ids : SUBSET Listings,            \* the listings it is about
     to  : Statuses \cup {"none"}]     \* the status a PATCH asks for

Call(op, pc, ids, to) == [op |-> op, pc |-> pc, ids |-> ids, to |-> to]
Idle == Call("none", "idle", {}, "none")

At(r, label)   == req[r].pc = label
Become(r, s)   == req' = [req EXCEPT ![r] = s]
Goto(r, label) == req' = [req EXCEPT ![r].pc = label]
Done(r)        == Become(r, Idle)

-----------------------------------------------------------------------------
(* approveLocation, rejectLocation, suspendLocation, restoreLocation        *)

AllIdle == \A r \in Requests : At(r, "idle")
Free(r) == At(r, "idle") /\ ("race" \in may \/ AllIdle)

DecideBegin(r, l, op) ==
    /\ Free(r) /\ status[l] \in Sources(op)
    /\ Become(r, Call(op, IF op = "approve" THEN "checkHost" ELSE "write", {l}, "none"))
    /\ UNCHANGED <<may, host, status, reason, flag, logged>>

\* Only an approval asks for the host's status.
CheckHost(r) ==
    /\ At(r, "checkHost")
    /\ IF host = "suspended" THEN Done(r) ELSE Goto(r, "write")
    /\ UNCHANGED <<may, host, status, reason, flag, logged>>

\* updateLocationRow, and the cascades of suspendUser and restoreUser.
Write(r) ==
    LET op == req[r].op
        Row(l) == l \in req[r].ids /\ There(l)
    IN
    /\ At(r, "write")
    /\ status' = [l \in Listings |-> IF Row(l) THEN Target(op) ELSE status[l]]
    /\ reason' = [l \in Listings |-> IF Row(l) THEN ReasonOf(op) ELSE reason[l]]
    /\ flag'   = [l \in Listings |-> IF Row(l) THEN FlagOf(op, l) ELSE flag[l]]
    /\ Goto(r, "log")
    /\ UNCHANGED <<may, host, logged>>

\* Mutant of Log: the entry of a cascade forgets its listings.
LogUser(r) ==
    /\ At(r, "log")
    /\ logged' = [l \in Listings |->
                    IF req[r].op \in Decisions /\ l \in req[r].ids THEN req[r].op
                    ELSE logged[l]]
    /\ Done(r)
    /\ UNCHANGED <<may, host, status, reason, flag>>

\* writeAuditLog; the entry of a cascade names the listings in its metadata.
Log(r) ==
    /\ At(r, "log")
    /\ logged' = [l \in Listings |-> IF l \in req[r].ids THEN req[r].op ELSE logged[l]]
    /\ Done(r)
    /\ UNCHANGED <<may, host, status, reason, flag>>

-----------------------------------------------------------------------------
(* suspendUser, restoreUser                                                 *)

UserBegin(r, op) ==
    /\ Free(r)
    /\ host = IF op = "suspendUser" THEN "active" ELSE "suspended"
    /\ Become(r, Call(op, "profile", {}, "none"))
    /\ UNCHANGED <<may, host, status, reason, flag, logged>>

WriteProfile(r) ==
    /\ At(r, "profile")
    /\ host' = IF req[r].op = "suspendUser" THEN "suspended" ELSE "active"
    /\ Goto(r, "list")
    /\ UNCHANGED <<may, status, reason, flag, logged>>

\* The select of the listings to change; nothing is written when there are none.
List(r) ==
    LET ids == Listed(req[r].op) IN
    /\ At(r, "list")
    /\ Become(r, [req[r] EXCEPT !.ids = ids, !.pc = IF ids = {} THEN "log" ELSE "write"])
    /\ UNCHANGED <<may, host, status, reason, flag, logged>>

-----------------------------------------------------------------------------
(* createLocation, updateLocation, deleteLocation                           *)

\* requireAuth lets an active host in, and does not look again.
HostBegin(r, op) ==
    /\ Free(r) /\ host = "active"
    /\ Become(r, Call(op, IF op = "create" THEN "insert" ELSE "read", {}, "none"))
    /\ UNCHANGED <<may, host, status, reason, flag, logged>>

Insert(r) ==
    /\ At(r, "insert")
    /\ \/ \E l \in Listings : status[l] = "absent" /\ status' = [status EXCEPT ![l] = "draft"]
       \/ (\A l \in Listings : status[l] # "absent") /\ UNCHANGED status
    /\ Done(r)
    /\ UNCHANGED <<may, host, reason, flag, logged>>

\* The host's read of the listing, and the check of the transition.
Read(r) ==
    /\ At(r, "read")
    /\ \E l \in Listings :
         /\ There(l)
         /\ \/ /\ req[r].op = "delete"
               /\ Become(r, Call("delete", "delete", {l}, "none"))
            \/ /\ req[r].op = "patch"
               /\ \E t \in Statuses :
                    HostMay(status[l], t) /\ Become(r, Call("patch", "patch", {l}, t))
    /\ UNCHANGED <<may, host, status, reason, flag, logged>>

\* A call that asks for what the host may not do, or names no listing, ends.
Refuse(r) ==
    /\ At(r, "read") /\ Done(r)
    /\ UNCHANGED <<may, host, status, reason, flag, logged>>

\* An admin may ask for any status, and may delete.
AdminBegin(r, l, op) ==
    /\ Free(r) /\ There(l)
    /\ \/ op = "delete" /\ Become(r, Call("delete", "delete", {l}, "none"))
       \/ /\ op = "patch" /\ "patch" \in may
          /\ \E t \in Statuses : Become(r, Call("adminPatch", "patch", {l}, t))
    /\ UNCHANGED <<may, host, status, reason, flag, logged>>

\* updateLocation writes the status alone, and logs an admin's.
Patch(r) ==
    /\ At(r, "patch")
    /\ status' = [l \in Listings |->
                    IF l \in req[r].ids /\ There(l) THEN req[r].to ELSE status[l]]
    /\ IF req[r].op = "adminPatch" THEN Goto(r, "log") ELSE Done(r)
    /\ UNCHANGED <<may, host, reason, flag, logged>>

\* The delete, or the refusal of a listing with bookings.
Delete(r) ==
    LET Row(l) == l \in req[r].ids /\ There(l) IN
    /\ At(r, "delete")
    /\ \/ /\ status' = [l \in Listings |-> IF Row(l) THEN "deleted" ELSE status[l]]
          /\ reason' = [l \in Listings |-> IF Row(l) THEN "none" ELSE reason[l]]
          /\ flag'   = [l \in Listings |-> ~Row(l) /\ flag[l]]
       \/ UNCHANGED <<status, reason, flag>>
    /\ Done(r)
    /\ UNCHANGED <<may, host, logged>>

\* A call throws, or the process serving the request is killed.
Abort(r) ==
    /\ "fail" \in may /\ ~At(r, "idle")
    /\ Done(r)
    /\ UNCHANGED <<may, host, status, reason, flag, logged>>

-----------------------------------------------------------------------------
Init ==
    /\ may \in Settings
    /\ host   = "active"
    /\ status = [l \in Listings |-> "absent"]
    /\ reason = [l \in Listings |-> "none"]
    /\ flag   = [l \in Listings |-> FALSE]
    /\ logged = [l \in Listings |-> "none"]
    /\ req    = [r \in Requests |-> Idle]

Begin(r) ==
    \/ \E l \in Listings, op \in Decisions : DecideBegin(r, l, op)
    \/ \E op \in Cascades : UserBegin(r, op)
    \/ \E op \in HostCalls : HostBegin(r, op)
    \/ \E l \in Listings, op \in {"patch", "delete"} : AdminBegin(r, l, op)

Step(r) ==
    \/ CheckHost(r) \/ Write(r) \/ Log(r) \/ WriteProfile(r) \/ List(r)
    \/ Insert(r) \/ Read(r) \/ Refuse(r) \/ Patch(r) \/ Delete(r)

Next == \E r \in Requests : Begin(r) \/ Step(r) \/ Abort(r)

Spec == Init /\ [][Next]_vars

-----------------------------------------------------------------------------
(* Properties                                                               *)

\* Every variable keeps its shape.
TypeOK ==
    /\ may \in Settings
    /\ host \in {"active", "suspended"}
    /\ status \in [Listings -> Statuses \cup {"absent", "deleted"}]
    /\ reason \in [Listings -> Reasons]
    /\ flag \in [Listings -> BOOLEAN]
    /\ logged \in [Listings -> Logged \cup {"none"}]
    /\ req \in [Requests -> RequestStates]

\* locations.service.ts:14-19: the reason is part of the public detail, because
\* a published listing never has one.
NoReasonShown == \A l \in Listings : status[l] = "published" => reason[l] = "none"

\* So it is, whatever requests do to a listing at once and wherever they die,
\* as long as admins keep to the four decisions.
PublishedIsClean == "patch" \notin may => NoReasonShown

\* phase11_admin.sql:86-95: the flag is there only while the listing is down as
\* a mechanical side effect of the host's suspension.
FlagOnlyWhileDown ==
    \A l \in Listings :
        flag[l] => status[l] = "suspended" /\ reason[l] = "host" /\ host = "suspended"

\* audit.service.ts: the log is the compliance record.  Between requests that
\* follow one another, none of which fails, the flag, the reason, the host's
\* status and the latest entry about a listing tell one story of it, in any
\* order of decisions and suspensions, as long as admins keep to the four.
LogExplains ==
    may = {} /\ AllIdle =>
      /\ FlagOnlyWhileDown
      /\ \A l \in Listings :
           CASE status[l] = "published" -> logged[l] \in {"approve", "restore", "restoreUser"}
             [] status[l] = "rejected"  -> logged[l] = "reject"
             [] status[l] = "suspended" -> logged[l] = IF flag[l] THEN "suspendUser" ELSE "suspend"
             [] OTHER                   -> TRUE

\* Request r changes listing l in this step, carrying out op.
Changes(r, op, l) ==
    req[r].op = op /\ req'[r] # req[r] /\ <<status[l], flag[l]>>' # <<status[l], flag[l]>>

\* users.service.ts:68-70, :121: as long as no other request is at work,
\* suspending the host touches published listings only, whatever failed or was
\* patched before; and restoring the host republishes a listing only when the
\* host's suspension was the last decision taken on it.
CascadeSpares ==
    [][\A r \in Requests, l \in Listings :
         /\ "race" \notin may /\ Changes(r, "suspendUser", l) => status[l] = "published"
         /\ may = {} /\ Changes(r, "restoreUser", l) => logged[l] = "suspendUser"]_vars

\* locations.service.ts:37-45: a host moves a draft in and out of review and
\* takes a published listing down; alone, no host undoes an admin's decision.
HostLeavesModeration ==
    [][\A r \in Requests, l \in Listings :
         "race" \notin may /\ Changes(r, "patch", l) =>
           /\ status[l] \in {"draft", "submitted", "published"}
           /\ status'[l] = "archived" <=> status[l] = "published"
           /\ status'[l] # "published"]_vars
=============================================================================
