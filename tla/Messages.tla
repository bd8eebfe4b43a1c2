------------------------------ MODULE Messages ------------------------------
(***************************************************************************)
(* The conversations about ONE listing: src/src/modules/messaging and the   *)
(* phase 27 migrations.  A booker and the listing's host share at most one  *)
(* conversation; each of the two has a read cursor in it.  Conversations of *)
(* different listings share nothing but an inbox, in which they are rows    *)
(* like these.                                                              *)
(*                                                                          *)
(* A request is one HTTP call; each action is one database call with the    *)
(* synchronous code up to the next one.  A message takes its created_at     *)
(* when its transaction STARTS and is visible when it commits, so messages  *)
(* may commit in another order than they are stamped.                       *)
(***************************************************************************)
EXTENDS Integers, FiniteSets

CONSTANTS
    Bookers,        \* users who contact the host
    Host,           \* the listing's host
    Conversations,  \* ids of conversations: uuids, which are ordered
    Ids,            \* ids of messages: uuids, in no relation to time
    Keys,           \* client_message_ids, one for each tap on "Send"
    Requests,       \* concurrent HTTP requests (bound: requests in progress)
    Nobody,         \* "no such row", "no user"
    MaxTime,        \* the last reading of the database's clock (bound)
    PageSize,       \* rows a page holds
    Settings        \* the executions looked at, see `may`

ASSUME UsersAssumption == Host \notin Bookers /\ Nobody \notin Bookers \cup {Host}
ASSUME NumbersAssumption ==
    /\ Ids \subseteq Nat \ {0} /\ Conversations \subseteq Nat \ {0}
    /\ MaxTime \in Nat \ {0, 1} /\ PageSize \in Nat \ {0}
ASSUME FiniteAssumption == \A S \in {Ids, Conversations, Bookers} : IsFiniteSet(S)

\* race   a request may begin while another is at work
\* fail   calls fail, requests die
\* open   conversations are opened: there is none at first
\* two    every booker has a conversation at first, else one of them
\* read   conversations are marked read
\* walk   somebody pages through the messages of a conversation
\* inbox  somebody pages through their conversations
Words == {"race", "fail", "open", "two", "read", "walk", "inbox"}
ASSUME SettingsAssumption == Settings \subseteq SUBSET Words

VARIABLES
    conv,    \* conversations: booker, last_message_at, last_message_id
    msg,     \* messages: conversation, sender, client_message_id, created_at
    cursor,  \* conversation_reads, of each user in each conversation
    now,     \* the database's clock
    told,    \* new_message rows in notifications, by their unique key
    req,     \* each request: what it does and what it has read
    walk,    \* a client that pages through a list, and what it has been shown
    may      \* which words this execution may meet; never changes

vars == <<conv, msg, cursor, now, told, req, walk, may>>

-----------------------------------------------------------------------------
Users  == Bookers \cup {Host}
Times  == 0 .. MaxTime
Places == [at : Times, id : Ids \cup {0}]
Start  == [at |-> 0, id |-> 0]          \* the sentinels: below every message

NoConversation == [booker |-> Nobody, at |-> 0, last |-> 0]
NoMessage      == [conv |-> 0, sender |-> Nobody, key |-> Nobody, at |-> 0]

Labels == {"idle", "insertConversation", "findConversation", "commit",
           "findMessage", "notify", "advance", "view"}
RequestStates ==
    [pc : Labels, user : Users \cup {Nobody}, conv : Conversations \cup {0},
     key : Keys \cup {Nobody}, at : Times, id : Ids \cup {0}]

Request(pc, u, c, k, t, m) ==
    [pc |-> pc, user |-> u, conv |-> c, key |-> k, at |-> t, id |-> m]
Idle == Request("idle", Nobody, 0, Nobody, 0, 0)

At(r, label)   == req[r].pc = label
Become(r, s)   == req' = [req EXCEPT ![r] = s]
Goto(r, label) == req' = [req EXCEPT ![r].pc = label]
Done(r)        == Become(r, Idle)
MayBegin(r)    == At(r, "idle") /\ ("race" \in may \/ \A q \in Requests : At(q, "idle"))

Open == {c \in Conversations : conv[c].booker # Nobody}
Sent == {m \in Ids : msg[m].conv # 0}
In(c) == {m \in Sent : msg[m].conv = c}

\* is_conversation_participant
Participates(u, c) == c \in Open /\ (u = Host \/ u = conv[c].booker)

\* The time by which a transaction that started at t has committed.
Later(t) == IF now > t THEN now ELSE t + 1

\* The participant who is not the sender.
Recipient(u, c) == IF u = conv[c].booker THEN Host ELSE conv[c].booker

\* (created_at, id) and (last_message_at, id), compared as rows.
Before(x, y) == x.at < y.at \/ (x.at = y.at /\ x.id < y.id)

Place(m) == [at |-> msg[m].at, id |-> m]

\* The message lies beyond the user's read cursor.
Ahead(u, c, m) == Before(cursor[<<u, c>>], Place(m))

\* A message that unread_count counts: the counterparty's.
Counts(u, c, m) == msg[m].sender # u /\ Ahead(u, c, m)

\* What get_conversations_for_viewer counts, up to 100, as unread_count.
UnreadIn(u, c) == {m \in In(c) : Counts(u, c, m)}

-----------------------------------------------------------------------------
(* POST /conversations: getOrCreateConversation                             *)

\* The checks: a published listing of somebody else, a booking of one's own.
OpenBegin(r, b) ==
    /\ MayBegin(r) /\ "open" \in may
    /\ Become(r, Request("insertConversation", b, 0, Nobody, 0, 0))
    /\ UNCHANGED <<conv, msg, cursor, now, told, walk, may>>

\* The insert, or its conflict with unique (booker_id, location_id).
InsertConversation(r) ==
    LET b == req[r].user IN
    /\ At(r, "insertConversation")
    /\ \/ /\ \A c \in Open : conv[c].booker # b
          /\ now < MaxTime /\ now' = now + 1
          /\ \E c \in Conversations \ Open :
               /\ conv' = [conv EXCEPT ![c] = [booker |-> b, at |-> now, last |-> 0]]
               /\ Become(r, Request("view", b, c, Nobody, 0, 0))
       \/ /\ \E c \in Open : conv[c].booker = b
          /\ Goto(r, "findConversation")
          /\ UNCHANGED <<conv, now>>
    /\ UNCHANGED <<msg, cursor, told, walk, may>>

\* The read of the conversation that was in the way.
FindConversation(r) ==
    /\ At(r, "findConversation")
    /\ \E c \in Open :
         /\ conv[c].booker = req[r].user
         /\ Become(r, Request("view", req[r].user, c, Nobody, 0, 0))
    /\ UNCHANGED <<conv, msg, cursor, now, told, walk, may>>

\* getConversation: the row of the inbox view, with its unread_count, is the
\* answer of an opened conversation and of one that was marked read.
View(r) ==
    /\ At(r, "view")
    /\ Done(r)
    /\ UNCHANGED <<conv, msg, cursor, now, told, walk, may>>

-----------------------------------------------------------------------------
(* POST /conversations/:id/messages: sendMessage                            *)

\* assertParticipant, and the start of the insert's transaction: created_at is
\* taken here.  Two overlapping transactions may read the same time.
SendBegin(r, u, c, k) ==
    /\ MayBegin(r) /\ Participates(u, c)
    /\ \E t \in {now, now + 1} :
         /\ t < MaxTime
         /\ Become(r, Request("commit", u, c, k, t, 0))
         /\ now' = t
    /\ UNCHANGED <<conv, msg, cursor, told, walk, may>>

\* Mutant of Touched: whoever commits last is the last message.
TouchedAlways(c, t, m) == [conv[c] EXCEPT !.at = t, !.last = m]

\* touch_conversation_on_message, in the insert's own transaction.
Touched(c, t, m) ==
    IF conv[c].at <= t THEN [conv[c] EXCEPT !.at = t, !.last = m] ELSE conv[c]

\* Mutant of Repeats: each send is a message of its own.
RepeatsNever(u, c, k) == FALSE

\* unique (conversation_id, sender_id, client_message_id)
Repeats(u, c, k) ==
    \E m \in Sent : msg[m].conv = c /\ msg[m].sender = u /\ msg[m].key = k

\* The insert with its trigger commits, or conflicts with the unique key.  The
\* inbox moves the conversation up, away from a client that pages through it.
Commit(r) ==
    LET u == req[r].user
        c == req[r].conv
        k == req[r].key
        t == req[r].at IN
    /\ At(r, "commit")
    /\ \/ /\ ~Repeats(u, c, k)
          /\ \E m \in Ids \ Sent :
               /\ msg' = [msg EXCEPT ![m] = [conv |-> c, sender |-> u, key |-> k, at |-> t]]
               /\ conv' = [conv EXCEPT ![c] = Touched(c, t, m)]
               /\ Become(r, Request("notify", u, c, k, t, m))
               /\ walk' = IF walk.list = "inbox"
                          THEN [walk EXCEPT !.due = @ \ {c}] ELSE walk
               /\ now' = Later(t)
       \/ /\ Repeats(u, c, k)
          /\ Goto(r, "findMessage")
          /\ UNCHANGED <<msg, conv, walk, now>>
    /\ UNCHANGED <<cursor, told, may>>

\* The replay's answer: the message that exists.  No notice is sent.
FindMessage(r) ==
    /\ At(r, "findMessage")
    /\ Done(r)
    /\ UNCHANGED <<conv, msg, cursor, now, told, walk, may>>

\* Mutant of Notify: not awaited, it is lost with the process that responded.
NotifyUnawaited(r) ==
    /\ At(r, "notify")
    /\ \/ told' = told \cup {[user |-> Recipient(req[r].user, req[r].conv),
                              msg  |-> req[r].id]}
       \/ told' = told
    /\ Done(r)
    /\ UNCHANGED <<conv, msg, cursor, now, walk, may>>

\* notifyNewMessage.  A failure is swallowed: the message stands.
Notify(r) ==
    /\ At(r, "notify")
    /\ \/ told' = told \cup {[user |-> Recipient(req[r].user, req[r].conv),
                              msg  |-> req[r].id]}
       \/ "fail" \in may /\ told' = told
    /\ Done(r)
    /\ UNCHANGED <<conv, msg, cursor, now, walk, may>>

-----------------------------------------------------------------------------
(* POST /conversations/:id/read: markConversationRead                       *)

\* The checks: a participant, and a message of this conversation.
ReadBegin(r, u, c, m) ==
    /\ MayBegin(r) /\ "read" \in may
    /\ Participates(u, c) /\ m \in In(c)
    /\ Become(r, Request("advance", u, c, Nobody, 0, m))
    /\ UNCHANGED <<conv, msg, cursor, now, told, walk, may>>

\* Mutant of Advanced: a first cursor, compared with null, is not greater.
AdvancedFromNull(u, c, m) ==
    IF cursor[<<u, c>>] # Start /\ Ahead(u, c, m) THEN Place(m) ELSE cursor[<<u, c>>]

\* The upsert of mark_conversation_read: ON CONFLICT compares with the latest
\* committed row, under its lock.
Advanced(u, c, m) ==
    IF Ahead(u, c, m) THEN Place(m) ELSE cursor[<<u, c>>]

Advance(r) ==
    LET u == req[r].user
        c == req[r].conv IN
    /\ At(r, "advance")
    /\ cursor' = [cursor EXCEPT ![<<u, c>>] = Advanced(u, c, req[r].id)]
    /\ Goto(r, "view")
    /\ UNCHANGED <<conv, msg, now, told, walk, may>>

\* A call throws, or the process serving the request is killed.
Abort(r) ==
    /\ "fail" \in may /\ ~At(r, "idle")
    /\ Done(r)
    /\ UNCHANGED <<conv, msg, cursor, now, told, walk, may>>

-----------------------------------------------------------------------------
(* GET /conversations and GET /conversations/:id/messages: a client walks   *)
(* down a list, each page from the cursor that the page before has given.   *)

NoWalk == [list |-> "none", user |-> Nobody, conv |-> 0, from |-> Start,
           due |-> {}, shown |-> {}, rows |-> 0]

\* The rows of the list, and where each has its place in it by now.
Rows(w) ==
    IF w.list = "inbox" THEN {c \in Open : Participates(w.user, c)} ELSE In(w.conv)
RowPlace(w, x) ==
    IF w.list = "inbox" THEN [at |-> conv[x].at, id |-> x] ELSE Place(x)

\* Mutant of Below: the cursor is compared by time alone.
BelowInTime(w) ==
    {x \in Rows(w) : w.from = Start \/ RowPlace(w, x).at < w.from.at}

\* Page 1 has no cursor; it starts above every row.
Below(w) ==
    {x \in Rows(w) : w.from = Start \/ Before(RowPlace(w, x), w.from)}

\* limit + 1 rows are asked for, the newest first, and `limit` of them returned.
Page(w) ==
    {x \in Below(w) :
        Cardinality({y \in Below(w) : Before(RowPlace(w, x), RowPlace(w, y))}) < PageSize}
HasMore(w) == Cardinality(Below(w)) > PageSize

\* encodeCursor of the page's last row; decodeCursor gives it back as it was.
NextCursor(w) ==
    LET x == CHOOSE y \in Page(w) : \A z \in Page(w) : ~Before(RowPlace(w, z), RowPlace(w, y))
    IN RowPlace(w, x)

WalkBegin(list, u, c) ==
    LET w == [NoWalk EXCEPT !.list = list, !.user = u, !.conv = c] IN
    /\ walk = NoWalk
    /\ IF list = "inbox" THEN "inbox" \in may ELSE "walk" \in may /\ Participates(u, c)
    /\ walk' = [w EXCEPT !.due = Rows(w)]
    /\ UNCHANGED <<conv, msg, cursor, now, told, req, may>>

\* listMessages and listConversations: one page.
WalkPage ==
    /\ walk.list \in {"inbox", "history"}
    /\ walk' = [walk EXCEPT
                  !.shown = @ \cup Page(walk), !.rows = @ + Cardinality(Page(walk)),
                  !.from = IF HasMore(walk) THEN NextCursor(walk) ELSE @,
                  !.list = IF HasMore(walk) THEN @ ELSE "done"]
    /\ UNCHANGED <<conv, msg, cursor, now, told, req, may>>

WalkAgain ==
    /\ walk.list = "done" /\ walk' = NoWalk
    /\ UNCHANGED <<conv, msg, cursor, now, told, req, may>>

-----------------------------------------------------------------------------
Init ==
    /\ may \in Settings
    /\ conv \in [Conversations ->
                   {NoConversation} \cup {[booker |-> b, at |-> 1, last |-> 0] : b \in Bookers}]
    /\ \A c, d \in Open : c # d => conv[c].booker # conv[d].booker
    /\ Cardinality(Open) = CASE "open" \in may -> 0
                             [] "two" \in may  -> Cardinality(Bookers)
                             [] OTHER          -> 1
    /\ msg    = [m \in Ids |-> NoMessage]
    /\ cursor = [x \in Users \X Conversations |-> Start]
    /\ now    = 2
    /\ told   = {}
    /\ req    = [r \in Requests |-> Idle]
    /\ walk   = NoWalk

Next ==
    \/ \E r \in Requests :
         \/ \E b \in Bookers : OpenBegin(r, b)
         \/ InsertConversation(r) \/ FindConversation(r) \/ View(r)
         \/ \E u \in Users, c \in Conversations :
              \/ \E k \in Keys : SendBegin(r, u, c, k)
              \/ \E m \in Ids : ReadBegin(r, u, c, m)
         \/ Commit(r) \/ FindMessage(r) \/ Notify(r) \/ Advance(r) \/ Abort(r)
    \/ \E u \in Users : WalkBegin("inbox", u, 0)
    \/ \E u \in Users, c \in Conversations : WalkBegin("history", u, c)
    \/ WalkPage \/ WalkAgain

Spec == Init /\ [][Next]_vars

-----------------------------------------------------------------------------
(* Properties                                                               *)

\* Every variable keeps its shape.
TypeOK ==
    /\ conv \in [Conversations ->
                   [booker : Bookers \cup {Nobody}, at : Times, last : Ids \cup {0}]]
    /\ msg \in [Ids -> [conv : Conversations \cup {0}, sender : Users \cup {Nobody},
                        key : Keys \cup {Nobody}, at : Times]]
    /\ cursor \in [Users \X Conversations -> Places]
    /\ now \in Times
    /\ told \subseteq [user : Users, msg : Ids]
    /\ req \in [Requests -> RequestStates]
    /\ may \in Settings

\* The inbox row of a conversation names a message of it, and none of its
\* messages is newer, in whatever order they have committed.
LastIsNewest ==
    \A c \in Open :
        /\ In(c) # {} => conv[c].last \in In(c) /\ msg[conv[c].last].at = conv[c].at
        /\ \A m \in In(c) : msg[m].at <= conv[c].at

\* A notice is of a stored message and for the participant who did not send it.
\* Unless something failed, every stored message has its notice, or the request
\* that stored it is about to send it: a replay sends none, and what the first
\* request left undone stays so.
SentIsTold ==
    /\ \A n \in told :
         /\ n.msg \in Sent
         /\ Participates(n.user, msg[n.msg].conv) /\ n.user # msg[n.msg].sender
    /\ "fail" \notin may =>
         \A m \in Sent :
            \/ [user |-> Recipient(msg[m].sender, msg[m].conv), msg |-> m] \in told
            \/ \E r \in Requests : At(r, "notify") /\ req[r].id = m

\* A walk that has ended has shown, once each, every row that was there when it
\* began and has not moved since: pages leave no gap and show nothing twice, at
\* ties, and while messages commit out of order and conversations move up.
WalkIsExact ==
    /\ walk.list = "done" => walk.due \subseteq walk.shown
    /\ walk.rows = Cardinality(walk.shown)

\* What a participant has not read changes by two things only: new messages of
\* the other are added, and what the participant marks as read leaves it, for a
\* first mark too.  Nothing comes back, whichever of two devices is late, and
\* one's own messages never count.  When requests follow one another, a message
\* arrives unread.
UnreadIsExact ==
    [][\A u \in Users, c \in Open :
         LET new == {m \in Ids \ Sent : m \in In(c)' /\ msg'[m].sender # u} IN
         /\ UnreadIn(u, c)' \subseteq UnreadIn(u, c) \cup new
         /\ \A r \in Requests :
              At(r, "advance") /\ At(r, "view")' /\ req[r].user = u =>
                req[r].id \notin UnreadIn(u, c)'
         /\ "race" \notin may => new \subseteq UnreadIn(u, c)']_vars

-----------------------------------------------------------------------------
(* Messages implements Thread.                                              *)

threads == [b \in Bookers |-> {c \in Open : conv[c].booker = b}]
posts   == [x \in Bookers \X Users \X Keys |->
              {m \in Sent : /\ msg[m].conv \in threads[x[1]]
                            /\ msg[m].sender = x[2] /\ msg[m].key = x[3]}]
behind  == [x \in Users \X Bookers |->
              {m \in Sent : /\ msg[m].conv \in threads[x[2]]
                            /\ ~Ahead(x[1], msg[m].conv, m)}]

T == INSTANCE Thread WITH
        Names <- Conversations, Posts <- Ids,
        thread <- threads, posted <- posts, seen <- behind

\* The service as an implementation of Thread, although sends are retried and
\* overlap, messages commit out of order, two devices move one cursor and
\* requests die between any two calls.
KeepsThread == T!Spec
=============================================================================
