-------------------------------- MODULE Push --------------------------------
(***************************************************************************)
(* Notifications and their delivery: src/src/modules/notifications and      *)
(* src/src/modules/devices.  A cause (a payment that succeeded, a message)   *)
(* makes one notice in its user's inbox and is pushed to each phone that is *)
(* registered for that user, once; users register and remove phones, set    *)
(* preferences, and read and delete notices meanwhile.                      *)
(*                                                                          *)
(* A request is one notify() of the booking, payment or message code, or    *)
(* one HTTP call on a notice; each action is one call to the database or to *)
(* Apple with the synchronous code up to the next one.                      *)
(***************************************************************************)
EXTENDS Integers, FiniteSets

CONSTANTS
    Users, Nobody,
    Tokens,      \* device tokens: an app on a phone, with its row of user_devices
    Home,        \* the one APNs environment each token belongs to
    Default,     \* APNS_ENVIRONMENT
    Causes,      \* what notices are about: type, trigger, entity and user
    Choices,     \* the sets of categories that a PATCH of preferences names
    Requests,    \* concurrent requests (bound: requests in progress)
    Settings     \* the executions looked at, see `may`

Environments == {"sandbox", "production"}
Types == {"booking_request_received", "booking_confirmed", "booking_declined",
          "booking_cancelled", "payment_success", "payment_failed",
          "refund_processed", "new_message"}
Categories == {"booking", "payment", "message"}

ASSUME TokensAssumption ==
    Home \in [Tokens -> Environments] /\ Default \in Environments /\ Nobody \notin Users
ASSUME CausesAssumption ==
    /\ \A c \in Causes : /\ DOMAIN c = {"type", "trigger", "entity", "user"}
                         /\ c.type \in Types /\ c.user \in Users
    /\ \A c, d \in Causes :      \* a trigger is about one entity
         c.user = d.user /\ c.trigger = d.trigger /\ c.type = d.type => c = d
    /\ Choices \subseteq (SUBSET Categories) \ {{}}

\* race      a request may begin while another is at work, and so may users
\* fail      calls fail
\* kill      the process serving a request dies
\* disabled  NOTIFICATION_PROVIDER is `disabled`, not `apns`
\* many      more than one cause is notified
\* inbox     notices are read and deleted
\* phones    phones are registered and removed, apps are uninstalled
\* taste     preferences are set
Words == {"race", "fail", "kill", "disabled", "many", "inbox", "phones",
          "taste"}
ASSUME SettingsAssumption == Settings \subseteq SUBSET Words

VARIABLES
    device,  \* user_devices, by token: owner, is_active, environment
    dead,    \* the tokens whose app was uninstalled: Apple's knowledge
    pref,    \* notification_preferences, by user and category
    notice,  \* notifications: there, and which write read_at, deleted_at show
    req,     \* each request: what it does and what it has read
    tries,   \* how often each cause was sent to each token
    past,    \* of each cause, what has been so since it was first notified
    may      \* which words this execution may meet; never changes

vars == <<device, dead, pref, notice, req, tries, past, may>>

-----------------------------------------------------------------------------
NoDevice == [owner |-> Nobody, active |-> FALSE, env |-> "null"]
NoNotice == [there |-> FALSE, read |-> 0, deleted |-> 0]
NoPast   == [asked |-> FALSE, judged |-> FALSE, wanted |-> FALSE, mine |-> {}, listed |-> {}]

Labels   == {"idle", "insert", "preference", "list", "send", "log", "deactivate",
             "read", "delete"}
Statuses == {"sent", "failed", "invalid_token", "skipped"}

Envs       == Environments \cup {"null"}
DeviceRows == [token : Tokens, env : Envs]

Requesting ==
    [pc : Labels, cause : Causes \cup {Nobody}, todo : SUBSET DeviceRows,
     token : Tokens \cup {Nobody}, env : Envs, status : Statuses \cup {"none"}]

Request(pc, c) ==
    [pc |-> pc, cause |-> c, todo |-> {}, token |-> Nobody, env |-> "null", status |-> "none"]
Idle == Request("idle", Nobody)

At(r, label)   == req[r].pc = label
Become(r, s)   == req' = [req EXCEPT ![r] = s]
Goto(r, label) == req' = [req EXCEPT ![r].pc = label]
Done(r)        == Become(r, Idle)
Alone          == "race" \in may \/ \A q \in Requests : At(q, "idle")
MayBegin(r)    == At(r, "idle") /\ Alone

\* TYPE_CATEGORY: which preference gates the push of a type.
Category(type) ==
    CASE type \in {"payment_success", "payment_failed", "refund_processed"} -> "payment"
      [] type = "new_message" -> "message"
      [] OTHER -> "booking"

\* The idempotency key of each notifyX: the trigger's, not the entity's.
SourceEventId(c) == <<c.trigger, c.type>>

\* A missing row means enabled.
Enabled(u, category) == pref[<<u, category>>] # "off"

\* Mutant of Listed: whoever had the phone.
ListedAnyOwner(u) == {t \in Tokens : device[t].active}

\* The devices of a fan-out.
Listed(u) == {t \in Tokens : device[t].owner = u /\ device[t].active}

\* What a SELECT of them returns to the loop.
Rows(S) == {[token |-> t, env |-> device[t].env] : t \in S}

-----------------------------------------------------------------------------
(* notify and deliverPush                                                   *)

\* notifyX of a cause; a cause is notified again when its handler is retried.
Trigger(r, c) ==
    /\ MayBegin(r)
    /\ "many" \in may \/ \A d \in Causes : past[d].asked => d = c
    /\ Become(r, Request("insert", c))
    /\ past' = IF past[c].asked THEN past
               ELSE [past EXCEPT ![c].asked = TRUE, ![c].mine = Listed(c.user),
                                 ![c].wanted = Enabled(c.user, Category(c.type))]
    /\ UNCHANGED <<device, dead, pref, notice, tries, may>>

\* unique (user_id, source_event_id); a deleted row still counts.
Notified(c) ==
    \E d \in Causes : /\ notice[d].there
                      /\ d.user = c.user /\ SourceEventId(d) = SourceEventId(c)

InsertNotice(r) ==
    LET c == req[r].cause IN
    /\ At(r, "insert")
    /\ \/ /\ ~Notified(c)
          /\ notice' = [notice EXCEPT ![c].there = TRUE]
          /\ Goto(r, "preference")
       \/ /\ Notified(c)
          /\ Done(r)
          /\ UNCHANGED notice
    /\ UNCHANGED <<device, dead, pref, tries, past, may>>

\* isPushEnabled
ReadPreference(r) ==
    LET c == req[r].cause IN
    /\ At(r, "preference")
    /\ \/ /\ Enabled(c.user, Category(c.type))
          /\ Goto(r, "list")
          /\ UNCHANGED past
       \/ /\ ~Enabled(c.user, Category(c.type))
          /\ Done(r)
          /\ past' = [past EXCEPT ![c].judged = TRUE]
    /\ UNCHANGED <<device, dead, pref, notice, tries, may>>

\* On to the next device of the loop, in the order the SELECT gave: any.
NextDevice(r, todo) ==
    \/ /\ todo = {} /\ Done(r)
    \/ \E row \in todo :
         Become(r, [req[r] EXCEPT !.pc = "send", !.token = row.token,
                                  !.env = row.env, !.todo = todo \ {row}])

ListDevices(r) ==
    LET c == req[r].cause IN
    /\ At(r, "list")
    /\ NextDevice(r, Rows(Listed(c.user)))
    /\ past' = [past EXCEPT ![c].judged = TRUE, ![c].listed = Listed(c.user)]
    /\ UNCHANGED <<device, dead, pref, notice, tries, may>>

\* Mutant of HostFor: the process-wide environment for every device.
HostForDefault(env) == Default

\* hostFor: the device's own environment, or the default.
HostFor(env) == IF env = "null" THEN Default ELSE env

\* Apple's answer for a token, by the host that was asked.
Answers(t, host) ==
    CASE t \in dead      -> {[code |-> 410, reason |-> "Unregistered"]}
      [] host # Home[t]  -> {[code |-> 400, reason |-> "DeviceTokenNotForTopic"]}
      [] OTHER           -> {[code |-> 200, reason |-> "none"]}

Refusals == {[code |-> 429, reason |-> "TooManyRequests"], [code |-> 0, reason |-> "none"]}

\* mapApnsResponse
MapApnsResponse(a) ==
    CASE a.code = 200 -> "sent"
      [] a.code # 200 /\ a.reason \in
           {"BadDeviceToken", "Unregistered", "DeviceTokenNotForTopic"} -> "invalid_token"
      [] OTHER -> "failed"

\* provider.send of either provider.
Send(r) ==
    LET t == req[r].token
        answers == Answers(t, HostFor(req[r].env))
                     \cup (IF "fail" \in may THEN Refusals ELSE {})
        statuses == IF "disabled" \in may THEN {"skipped"}
                    ELSE {MapApnsResponse(a) : a \in answers} IN
    /\ At(r, "send")
    /\ \E s \in statuses : Become(r, [req[r] EXCEPT !.pc = "log", !.status = s])
    /\ tries' = [tries EXCEPT ![<<req[r].cause, t>>] = @ + 1]
    /\ UNCHANGED <<device, dead, pref, notice, past, may>>

\* Mutant of Log: an attempt that cannot be logged throws, out of the loop.
LogOrThrow(r) ==
    /\ At(r, "log")
    /\ \/ IF req[r].status = "invalid_token" THEN Goto(r, "deactivate")
          ELSE NextDevice(r, req[r].todo)
       \/ "fail" \in may /\ Done(r)
    /\ UNCHANGED <<device, dead, pref, notice, tries, past, may>>

\* The row of notification_delivery_attempts.  An error is only printed; an
\* exception goes on to the next device.
Log(r) ==
    /\ At(r, "log")
    /\ \/ IF req[r].status = "invalid_token" THEN Goto(r, "deactivate")
          ELSE NextDevice(r, req[r].todo)
       \/ "fail" \in may /\ NextDevice(r, req[r].todo)
    /\ UNCHANGED <<device, dead, pref, notice, tries, past, may>>

\* The device of an invalid token is switched off, by its id.
Deactivate(r) ==
    /\ At(r, "deactivate")
    /\ NextDevice(r, req[r].todo)
    /\ \/ device' = [device EXCEPT ![req[r].token].active = FALSE]
       \/ "fail" \in may /\ UNCHANGED device
    /\ UNCHANGED <<dead, pref, notice, tries, past, may>>

\* A call in front of the loop throws and safeNotify swallows it, or the
\* process dies, wherever it is.
Abort(r) ==
    /\ ~At(r, "idle")
    /\ \/ "kill" \in may
       \/ "fail" \in may /\ req[r].pc \notin {"send", "log", "deactivate"}
    /\ Done(r)
    /\ UNCHANGED <<device, dead, pref, notice, tries, past, may>>

-----------------------------------------------------------------------------
(* Devices and preferences: one call each                                   *)

\* POST /devices: the upsert on device_token.  The app knows the environment
\* of its token, or does not say.
RegisterDevice(u, t) ==
    /\ Alone /\ "phones" \in may /\ t \notin dead
    /\ \E env \in {Home[t], "null"} :
         device' = [device EXCEPT ![t] = [owner |-> u, active |-> TRUE, env |-> env]]
    /\ past' = [c \in Causes |-> IF past[c].asked /\ c.user = u
                                 THEN [past[c] EXCEPT !.mine = @ \cup {t}] ELSE past[c]]
    /\ UNCHANGED <<dead, pref, notice, req, tries, may>>

\* DELETE /devices/:id: the caller's own, by the row-level policy.
RemoveDevice(u, t) ==
    /\ Alone /\ "phones" \in may /\ device[t].owner = u
    /\ device' = [device EXCEPT ![t].active = FALSE]
    /\ UNCHANGED <<dead, pref, notice, req, tries, past, may>>

\* The app goes from the phone, and Apple knows.
Uninstall(t) ==
    /\ Alone /\ "phones" \in may /\ t \notin dead
    /\ dead' = dead \cup {t}
    /\ UNCHANGED <<device, pref, notice, req, tries, past, may>>

\* PATCH /notifications/preferences: one upsert of the categories given.
UpdatePreferences(u, given) ==
    /\ Alone /\ "taste" \in may
    /\ \E choice \in [given -> {"on", "off"}] :
         /\ pref' = [x \in Users \X Categories |->
                       IF x[1] = u /\ x[2] \in given THEN choice[x[2]] ELSE pref[x]]
         /\ past' = [c \in Causes |->
                       IF /\ past[c].asked /\ c.user = u
                          /\ Category(c.type) \in given /\ choice[Category(c.type)] = "on"
                       THEN [past[c] EXCEPT !.wanted = TRUE] ELSE past[c]]
    /\ UNCHANGED <<device, dead, notice, req, tries, may>>

-----------------------------------------------------------------------------
(* The inbox                                                                *)

\* What getNotification and listNotifications give a user.
Inbox(u) == {c \in Causes : notice[c].there /\ c.user = u /\ notice[c].deleted = 0}

\* POST /notifications/:id/read: getNotification, which finds it unread.
ReadBegin(r, c) ==
    /\ MayBegin(r) /\ "inbox" \in may
    /\ c \in Inbox(c.user) /\ notice[c].read = 0
    /\ Become(r, Request("read", c))
    /\ UNCHANGED <<device, dead, pref, notice, tries, past, may>>

\* A stamp is written: the first one, or another over it.
Stamp(n) == IF n < 2 THEN n + 1 ELSE n

\* The update of read_at, by id.
Read(r) ==
    /\ At(r, "read")
    /\ notice' = [notice EXCEPT ![req[r].cause].read = Stamp(@)]
    /\ Done(r)
    /\ UNCHANGED <<device, dead, pref, tries, past, may>>

\* POST /notifications/read-all: markAllNotificationsRead.
ReadAll(u) ==
    /\ Alone /\ "inbox" \in may
    /\ notice' = [c \in Causes |-> IF c \in Inbox(u) /\ notice[c].read = 0
                                   THEN [notice[c] EXCEPT !.read = Stamp(@)] ELSE notice[c]]
    /\ UNCHANGED <<device, dead, pref, req, tries, past, may>>

\* DELETE /notifications/:id: the read, which finds it not yet deleted.
DeleteBegin(r, c) ==
    /\ MayBegin(r) /\ "inbox" \in may
    /\ c \in Inbox(c.user)
    /\ Become(r, Request("delete", c))
    /\ UNCHANGED <<device, dead, pref, notice, tries, past, may>>

\* Mutant of Deleted: the stamp is written whatever is there.
DeletedAgain(n) == [n EXCEPT !.deleted = Stamp(@)]

\* The update of deleted_at where it is null.
Deleted(n) == IF n.deleted = 0 THEN [n EXCEPT !.deleted = Stamp(@)] ELSE n

Delete(r) ==
    /\ At(r, "delete")
    /\ notice' = [notice EXCEPT ![req[r].cause] = Deleted(@)]
    /\ Done(r)
    /\ UNCHANGED <<device, dead, pref, tries, past, may>>

-----------------------------------------------------------------------------
\* Phones that have been registered, and nobody's.
Registered == {[owner |-> u, active |-> TRUE, env |-> e] :
                 u \in Users, e \in Environments \cup {"null"}}

Init ==
    /\ may \in Settings
    /\ device \in [Tokens -> {NoDevice} \cup (IF "phones" \in may THEN {} ELSE Registered)]
    /\ \A t \in Tokens : device[t].env \in {Home[t], "null"}
    /\ dead   = {}
    /\ pref   = [x \in Users \X Categories |-> "none"]
    /\ notice = [c \in Causes |-> NoNotice]
    /\ req    = [r \in Requests |-> Idle]
    /\ tries  = [x \in Causes \X Tokens |-> 0]
    /\ past   = [c \in Causes |-> NoPast]

Next ==
    \/ \E r \in Requests :
         \/ \E c \in Causes : Trigger(r, c) \/ ReadBegin(r, c) \/ DeleteBegin(r, c)
         \/ InsertNotice(r) \/ ReadPreference(r) \/ ListDevices(r)
         \/ Send(r) \/ Log(r) \/ Deactivate(r) \/ Abort(r)
         \/ Read(r) \/ Delete(r)
    \/ \E u \in Users, t \in Tokens : RegisterDevice(u, t) \/ RemoveDevice(u, t)
    \/ \E t \in Tokens : Uninstall(t)
    \/ \E u \in Users : ReadAll(u) \/ \E g \in Choices : UpdatePreferences(u, g)

Spec == Init /\ [][Next]_vars

-----------------------------------------------------------------------------
(* Properties                                                               *)

\* Every variable keeps its shape.
TypeOK ==
    /\ device \in [Tokens -> [owner : Users \cup {Nobody}, active : BOOLEAN, env : Envs]]
    /\ dead \subseteq Tokens
    /\ pref \in [Users \X Categories -> {"none", "on", "off"}]
    /\ notice \in [Causes -> [there : BOOLEAN, read : 0 .. 2, deleted : 0 .. 2]]
    /\ req \in [Requests -> Requesting]
    /\ tries \in [Causes \X Tokens -> Nat]
    /\ past \in [Causes -> [asked : BOOLEAN, judged : BOOLEAN, wanted : BOOLEAN,
                            mine : SUBSET Tokens, listed : SUBSET Tokens]]
    /\ may \in Settings

Working(c) == {r \in Requests : req[r].cause = c /\ req[r].pc \notin {"read", "delete"}}

\* deliverPush: a cause is pushed to no phone twice, however often it is
\* notified and even if its notice was deleted between.  Unless the process
\* dies, every phone that was listed is tried, whatever becomes of the others.
\* Unless a call failed, either, whoever was to be notified was, unless the
\* preference was against it: two messages of one conversation are two notices.
FanOutIsWhole ==
    /\ \A x \in Causes \X Tokens : tries[x] <= 1
    /\ \A c \in Causes : Working(c) = {} =>
        /\ "kill" \notin may => \A t \in past[c].listed : tries[<<c, t>>] = 1
        /\ past[c].asked /\ may \cap {"kill", "fail"} = {} => notice[c].there /\ past[c].judged

\* A push arrives only at a phone that has been the recipient's, and registered,
\* at some time since the cause was first notified, and only if the recipient
\* wanted pushes of its kind at some such time: whoever registers, removes or
\* sets what in between.
ReachesRecipient ==
    \A c \in Causes, t \in Tokens : tries[<<c, t>>] > 0 => t \in past[c].mine /\ past[c].wanted

\* When nothing interferes, a phone goes silent only by its owner's wish or when
\* Apple could not have reached it: its app is gone, or it never said that it
\* belongs to the other environment.  No hiccup of the network takes it away.
OnlyLostGoSilent ==
    [][\A t \in Tokens, r \in Requests :
         /\ "race" \notin may
         /\ device[t].active /\ ~device[t].active' /\ At(r, "deactivate")
         => t \in dead \/ (device[t].env = "null" /\ Home[t] # Default)]_vars

\* deleteNotification and markNotificationRead: a notice that was deleted stays
\* so, with the time of the first deletion, whichever of two requests is late;
\* the first time of reading stays, too, when requests follow one another.
StampedOnce ==
    \A c \in Causes :
        /\ past[c].judged => notice[c].there
        /\ notice[c].deleted <= 1
        /\ "race" \notin may => notice[c].read <= 1
=============================================================================
