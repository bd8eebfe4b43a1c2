------------------------------ MODULE Galleries -----------------------------
(***************************************************************************)
(* The photos and videos of ONE listing: src/src/modules/media, sections,   *)
(* and the functions record_location_media and reorder_location_media of    *)
(* the phase 29 migrations.  A listing has a general gallery and one for    *)
(* each of its sections; positions are numbered per gallery.                *)
(*                                                                          *)
(* As elsewhere an action is one call, to the database or to the object     *)
(* store; the two functions are transactions of several statements, each of *)
(* which reads what is committed by then (READ COMMITTED), so they are cut  *)
(* where another request may come in between.  Listings are not deleted     *)
(* here, and the names of sections are left out.                            *)
(***************************************************************************)
EXTENDS Integers, FiniteSets, Functions

CONSTANTS
    Media,        \* media ids handed out by requestUpload
    Sections,     \* ids of sections (bound: sections ever made)
    General,      \* the general gallery, section_id null
    Requests,     \* concurrent HTTP requests (bound: requests in progress)
    NoMedium,     \* "no medium"
    MaxSections,  \* MAX_SECTIONS_PER_LOCATION
    MaxPosition,  \* the largest value of location_media.position
    Settings      \* what executions may meet, each a value of may

Words == {"race", "fail", "stated", "delete", "reorder"}

ASSUME NamesAssumption ==
    General \notin Sections /\ NoMedium \notin Media \cup Sections \cup {General}
ASSUME BoundsAssumption ==
    /\ MaxSections \in Nat /\ MaxPosition \in Nat
    /\ IsFiniteSet(Media) /\ Cardinality(Media) <= MaxPosition + 1
ASSUME FiniteAssumption ==
    /\ IsFiniteSet(Sections)
    /\ IsFiniteSet(Requests) /\ Requests # {}
ASSUME SettingsAssumption == Settings \subseteq SUBSET Words

VARIABLES
    may,      \* what happens in this execution: requests that overlap ("race"),
              \* calls that fail and requests that die ("fail"), clients that
              \* state positions ("stated"), deletions, reorders
    object,   \* the media whose object is in the store
    gallery,  \* where each medium's row is: NoGallery, General or a section
    pos,      \* location_media.position
    section,  \* each section: absent, there or deleted
    req       \* each request: what it does and what it has read

vars == <<may, object, gallery, pos, section, req>>

-----------------------------------------------------------------------------
Places    == {General} \cup Sections
NoGallery == NoMedium           \* of a medium that has no row
Positions == 0 .. MaxPosition
Unstated  == -1                 \* the client leaves the position out

Rows(g)   == {m \in Media : gallery[m] = g}
Made      == {s \in Sections : section[s] = "there"}
There(g)  == g \in {General} \cup Made

\* The orders a reorder may ask for.
Orders(S) == Bijection(S, 0 .. Cardinality(S) - 1)

Labels == {"idle", "find", "head", "lock", "insert", "readGallery", "check",
           "renumber", "deleteObject", "deleteRow", "insertSection",
           "countMedia", "deleteSection"}

RequestStates ==
    [pc    : Labels,
     m     : Media \cup {NoMedium},
     g     : Places,
     at    : Unstated .. MaxPosition + 1,
     order : UNION {Orders(S) : S \in SUBSET Media}]

Call(pc, m, g, at, order) == [pc |-> pc, m |-> m, g |-> g, at |-> at, order |-> order]
NoOrder == [m \in {} |-> 0]
Idle == Call("idle", NoMedium, General, Unstated, NoOrder)

At(r, label)   == req[r].pc = label
Become(r, s)   == req' = [req EXCEPT ![r] = s]
Goto(r, label) == req' = [req EXCEPT ![r].pc = label]
Done(r)        == Become(r, Idle)

AllIdle == \A r \in Requests : At(r, "idle")
Free(r) == At(r, "idle") /\ ("race" \in may \/ AllIdle)

-----------------------------------------------------------------------------
(* POST /locations/:id/media/:mediaId/complete: completeUpload              *)

\* The listing and the section are the caller's.
CompleteBegin(r, m, g, at) ==
    /\ Free(r) /\ There(g)
    /\ at = Unstated \/ "stated" \in may
    /\ Become(r, Call("find", m, g, at, NoOrder))
    /\ UNCHANGED <<may, object, gallery, pos, section>>

\* findRecordedMedia: a replay is answered with the row as it is.
FindRecorded(r) ==
    /\ At(r, "find")
    /\ IF gallery[req[r].m] = NoGallery THEN Goto(r, "head") ELSE Done(r)
    /\ UNCHANGED <<may, object, gallery, pos, section>>

\* Mutant of Head: the store is not asked.
HeadSkipped(r) ==
    /\ At(r, "head")
    /\ Goto(r, "lock") \/ Done(r)
    /\ UNCHANGED <<may, object, gallery, pos, section>>

\* headObject; an object of a wrong type or size is refused.
Head(r) ==
    /\ At(r, "head")
    /\ \/ req[r].m \in object /\ Goto(r, "lock")
       \/ Done(r)
    /\ UNCHANGED <<may, object, gallery, pos, section>>

\* Mutant of Locked: the advisory lock is not taken.
LockedNever(g) == FALSE

\* Somebody holds the advisory lock of gallery g.
Locked(g) == \E q \in Requests : At(q, "insert") /\ req[q].g = g

\* Is n one past the largest position of gallery g, or 0 if it is empty?
IsNext(n, g) ==
    /\ \A m \in Rows(g) : pos[m] < n
    /\ n = 0 \/ \E m \in Rows(g) : pos[m] = n - 1

\* record_location_media up to the insert: the backstop on the section, the
\* lock, and the position.
Lock(r) ==
    LET c == req[r] IN
    /\ At(r, "lock")
    /\ \/ ~There(c.g) /\ Done(r)
       \/ /\ There(c.g) /\ ~Locked(c.g)
          /\ \E n \in 0 .. MaxPosition + 1 :
               /\ IF c.at = Unstated THEN IsNext(n, c.g) ELSE n = c.at
               /\ Become(r, Call("insert", c.m, c.g, n, NoOrder))
    /\ UNCHANGED <<may, object, gallery, pos, section>>

\* Mutant of Insert: a row that is there is written again.
InsertOrUpdate(r) ==
    LET c == req[r] IN
    /\ At(r, "insert")
    /\ IF There(c.g) /\ c.at \in Positions
       THEN /\ gallery' = [gallery EXCEPT ![c.m] = c.g]
            /\ pos' = [pos EXCEPT ![c.m] = c.at]
       ELSE UNCHANGED <<gallery, pos>>
    /\ Done(r)
    /\ UNCHANGED <<may, object, section>>

\* The insert, or the violation of the primary key (answered like a replay), of
\* the section's foreign key or of the integer's range.
Insert(r) ==
    LET c == req[r] IN
    /\ At(r, "insert")
    /\ IF gallery[c.m] = NoGallery /\ There(c.g) /\ c.at \in Positions
       THEN /\ gallery' = [gallery EXCEPT ![c.m] = c.g]
            /\ pos' = [pos EXCEPT ![c.m] = c.at]
       ELSE UNCHANGED <<gallery, pos>>
    /\ Done(r)
    /\ UNCHANGED <<may, object, section>>

-----------------------------------------------------------------------------
(* PUT /locations/:id/media/order: reorderMedia                             *)

ReorderBegin(r, g) ==
    /\ Free(r) /\ "reorder" \in may /\ There(g)
    /\ Become(r, Call("readGallery", NoMedium, g, Unstated, NoOrder))
    /\ UNCHANGED <<may, object, gallery, pos, section>>

\* The service's own read: the body must name the whole gallery, once each.
ReadGallery(r) ==
    LET S == Rows(req[r].g) IN
    /\ At(r, "readGallery")
    /\ \/ \E order \in Orders(S) :
            S # {} /\ Become(r, Call("check", NoMedium, req[r].g, Unstated, order))
       \/ Done(r)
    /\ UNCHANGED <<may, object, gallery, pos, section>>

\* The backstop of reorder_location_media: it counts the gallery, and then those
\* of the ids that are in it.  (A row that comes between the two counts is no
\* more renumbered than one that comes right after them.)
Check(r) ==
    /\ At(r, "check")
    /\ IF There(req[r].g) /\ Rows(req[r].g) = DOMAIN req[r].order
       THEN Goto(r, "renumber")
       ELSE Done(r)
    /\ UNCHANGED <<may, object, gallery, pos, section>>

\* Mutant of Renumber: positions start at one.
RenumberFromOne(r) ==
    LET c == req[r] IN
    /\ At(r, "renumber")
    /\ pos' = [m \in Media |-> IF m \in DOMAIN c.order \cap Rows(c.g)
                               THEN c.order[m] + 1 ELSE pos[m]]
    /\ Done(r)
    /\ UNCHANGED <<may, object, gallery, section>>

\* The two passes, one transaction: the first takes the rows' locks and puts
\* them out of the way, so no reader sees one without the other.  Two of them at
\* once may deadlock on those locks, and one is then rolled back.
Renumber(r) ==
    LET c == req[r] IN
    /\ At(r, "renumber")
    /\ \/ pos' = [m \in Media |-> IF m \in DOMAIN c.order \cap Rows(c.g)
                                  THEN c.order[m] ELSE pos[m]]
       \/ /\ \E q \in Requests \ {r} : At(q, "renumber") /\ req[q].g = c.g
          /\ UNCHANGED pos
    /\ Done(r)
    /\ UNCHANGED <<may, object, gallery, section>>

-----------------------------------------------------------------------------
(* DELETE /locations/:id/media/:mediaId: deleteMedia                        *)

DeleteBegin(r, m) ==
    /\ Free(r) /\ "delete" \in may
    /\ gallery[m] # NoGallery
    /\ Become(r, Call("deleteObject", m, General, Unstated, NoOrder))
    /\ UNCHANGED <<may, object, gallery, pos, section>>

\* Best effort.
DeleteObject(r) ==
    /\ At(r, "deleteObject")
    /\ object' = object \ {req[r].m} \/ ("fail" \in may /\ object' = object)
    /\ Goto(r, "deleteRow")
    /\ UNCHANGED <<may, gallery, pos, section>>

DeleteRow(r) ==
    /\ At(r, "deleteRow")
    /\ gallery' = [gallery EXCEPT ![req[r].m] = NoGallery]
    /\ pos' = [pos EXCEPT ![req[r].m] = 0]
    /\ Done(r)
    /\ UNCHANGED <<may, object, section>>

-----------------------------------------------------------------------------
(* createSection, deleteSection                                             *)

\* Mutant of BelowCap: one more than the cap is let through.
BelowCapOrAt == Cardinality(Made) <= MaxSections

BelowCap == Cardinality(Made) < MaxSections

\* The count.
CreateSectionBegin(r) ==
    /\ Free(r) /\ BelowCap
    /\ Goto(r, "insertSection")
    /\ UNCHANGED <<may, object, gallery, pos, section>>

InsertSection(r) ==
    /\ At(r, "insertSection")
    /\ \/ \E s \in Sections :
            section[s] = "absent" /\ section' = [section EXCEPT ![s] = "there"]
       \/ (\A s \in Sections : section[s] # "absent") /\ UNCHANGED section
    /\ Done(r)
    /\ UNCHANGED <<may, object, gallery, pos>>

DeleteSectionBegin(r, s) ==
    /\ Free(r) /\ There(s)
    /\ Become(r, Call("countMedia", NoMedium, s, Unstated, NoOrder))
    /\ UNCHANGED <<may, object, gallery, pos, section>>

CountMedia(r) ==
    /\ At(r, "countMedia")
    /\ IF Rows(req[r].g) = {} THEN Goto(r, "deleteSection") ELSE Done(r)
    /\ UNCHANGED <<may, object, gallery, pos, section>>

\* Mutant of Deletable: the foreign key is dropped, the count is relied upon.
DeletableAnyway(s) == TRUE

\* The foreign key of location_media.section_id, on delete no action.
Deletable(s) == Rows(s) = {}

DeleteSection(r) ==
    LET s == req[r].g IN
    /\ At(r, "deleteSection")
    /\ section' = IF Deletable(s) THEN [section EXCEPT ![s] = "deleted"] ELSE section
    /\ Done(r)
    /\ UNCHANGED <<may, object, gallery, pos>>

-----------------------------------------------------------------------------
\* The client puts its file where requestUpload told it to (external).
Upload(m) ==
    /\ m \notin object
    /\ object' = object \cup {m}
    /\ UNCHANGED <<may, gallery, pos, section, req>>

\* A call throws, a transaction is rolled back, or the process is killed.
Abort(r) ==
    /\ "fail" \in may /\ ~At(r, "idle")
    /\ Done(r)
    /\ UNCHANGED <<may, object, gallery, pos, section>>

Init ==
    /\ may \in Settings
    /\ object  = {}
    /\ gallery = [m \in Media |-> NoGallery]
    /\ pos     = [m \in Media |-> 0]
    /\ section = [s \in Sections |-> "absent"]
    /\ req     = [r \in Requests |-> Idle]

Begin(r) ==
    \/ \E m \in Media, g \in Places, at \in {Unstated} \cup Positions :
         CompleteBegin(r, m, g, at)
    \/ \E g \in Places : ReorderBegin(r, g)
    \/ \E m \in Media : DeleteBegin(r, m)
    \/ CreateSectionBegin(r)
    \/ \E s \in Sections : DeleteSectionBegin(r, s)

Step(r) ==
    \/ FindRecorded(r) \/ Head(r) \/ Lock(r) \/ Insert(r)
    \/ ReadGallery(r) \/ Check(r) \/ Renumber(r)
    \/ DeleteObject(r) \/ DeleteRow(r)
    \/ InsertSection(r) \/ CountMedia(r) \/ DeleteSection(r)

Next ==
    \/ \E r \in Requests : Begin(r) \/ Step(r) \/ Abort(r)
    \/ \E m \in Media : Upload(m)

Spec == Init /\ [][Next]_vars

-----------------------------------------------------------------------------
(* Properties                                                               *)

\* Every variable keeps its shape.
TypeOK ==
    /\ may \in Settings
    /\ object \subseteq Media
    /\ gallery \in [Media -> Places \cup {NoGallery}]
    /\ pos \in [Media -> Positions]
    /\ section \in [Sections -> {"absent", "there", "deleted"}]
    /\ req \in [Requests -> RequestStates]

\* The executions in which the service alone places photos: clients that state
\* positions are on their own; and a reorder, which takes no lock, may meet other
\* requests between its checks and its writes.
Ordered == "stated" \notin may /\ ~({"race", "reorder"} \subseteq may)

\* phase29_5:39-48, phase29_6:229-236: no two rows of a gallery share a position,
\* so that the cover and the order shown are well defined: although uploads are
\* completed two at a time, and deletions leave gaps.
PlacesDiffer ==
    Ordered =>
        \A m, n \in Media :
            m # n /\ gallery[m] = gallery[n] /\ gallery[m] # NoGallery => pos[m] # pos[n]

\* media.service.ts: a row stands for an object that was checked to be there.
\* When nothing is in progress it still is: nobody is shown a photo that is gone.
\* (A completion that is repeated while the photo is deleted brings the row back,
\* and a deletion that dies half-way leaves it.)
ShownIsStored ==
    AllIdle /\ "fail" \notin may /\ ~({"race", "delete"} \subseteq may) =>
        \A m \in Media : gallery[m] # NoGallery => m \in object

\* phase29_6:24-46: a photo's section outlives it, although the service counts
\* first and deletes later, and completions come in between.
SectionsOutlive == \A m \in Media : gallery[m] # NoGallery => There(gallery[m])

\* sections.schema.ts:3-10: at most so many sections a listing.  The count is
\* not protected, so each request that overlaps may add one more; no more than
\* that, whatever happens.
CapNearlyKept ==
    Cardinality(Made) <=
        MaxSections + (IF "race" \in may THEN Cardinality(Requests) - 1 ELSE 0)

\* Request r writes the order it was given.
Renumbers(r) == At(r, "renumber") /\ req'[r] # req[r] /\ pos' # pos

\* media.service.ts:156-157: a completion, first or repeated, concurrent or not,
\* moves no row that is there: only a reorder does.
OnlyReordersMove ==
    [][\A m \in Media :
         gallery[m] # NoGallery /\ gallery'[m] # NoGallery /\ pos'[m] # pos[m] =>
           \E r \in Requests : Renumbers(r) /\ m \in DOMAIN req[r].order]_vars

\* phase29_6:412-416: a reorder leaves the gallery numbered from 0 without gaps,
\* in the order given, unless another request is at work.  And even then the rows
\* it names stand in that order.
ReorderIsExact ==
    [][\A r \in Requests :
         LET c == req[r]
             S == DOMAIN c.order \cap Rows(c.g)
         IN Renumbers(r) =>
              /\ \A m, n \in S : c.order[m] < c.order[n] => pos'[m] < pos'[n]
              /\ "race" \notin may =>
                   {pos'[m] : m \in Rows(c.g)} = 0 .. Cardinality(Rows(c.g)) - 1]_vars

\* Both: nothing moves but as a reorder was told.
MovesAreTold == OnlyReordersMove /\ ReorderIsExact

-----------------------------------------------------------------------------
(* What visitors see, and what it implements.                               *)

\* ORDER BY position, in each gallery.
before ==
    {x \in Media \X Media :
       /\ gallery[x[1]] = gallery[x[2]] /\ gallery[x[1]] # NoGallery
       /\ pos[x[1]] < pos[x[2]]}

\* An order as the pairs it puts one before the other; those that requests are
\* about to write.
RankingOf(order) ==
    {x \in Media \X Media :
       {x[1], x[2]} \subseteq DOMAIN order /\ order[x[1]] < order[x[2]]}

asked ==
    {[of |-> req[r].g, as |-> RankingOf(req[r].order)] :
       r \in {q \in Requests : req[q].pc \in {"check", "renumber"}}}

A == INSTANCE Album WITH Nowhere <- NoGallery, place <- gallery

\* media.service.ts and phase29_5/29_6 as an implementation of Album, although
\* uploads are completed two at a time, deleted half-way and completed again: a
\* photo comes in at the end of its gallery, nothing but a reorder changes who
\* stands before whom, and a reorder makes the one row that was asked for.
KeepsAlbum == A!Init /\ [][Ordered => A!Next]_<<gallery, before, asked>>
=============================================================================
