------------------------------- MODULE Offers -------------------------------
(***************************************************************************)
(* What ONE listing offers: its weekly hours, date overrides and blocked    *)
(* periods (src/src/modules/availability), its prices (pricing), its tags   *)
(* (locations), and what a booking request makes of them (bookings): the    *)
(* interval a request stands for, whether it is available, and its price.   *)
(*                                                                          *)
(* Time is counted in hours of the listing's own time zone, DayLength to a  *)
(* date; an instant is the hour that begins there.  A time of day is below  *)
(* DayLength, so no window reaches midnight ("23:59" is the latest end).    *)
(* Zones that change their offset are left out.                             *)
(*                                                                          *)
(* The host's calls read who owns the listing and then make one write, one  *)
(* action here; a request of a booker, and the host's PATCH of the tags,    *)
(* take one action for each call to the database.                           *)
(***************************************************************************)
EXTENDS Integers, FiniteSets

CONSTANTS
    LastDate,          \* the calendar's last date (bound)
    DayLength,         \* the hours of a date
    Weekday,           \* the day of the week of each date
    Rules, Blocks,     \* ids of weekly rules and of blocked periods
    Amounts, Hours,    \* rates, and durations of a half day
    Kinds, Choices,    \* the three tag tables, and the sets of ids chosen for one
    Bad,               \* an id that does not exist
    Weeks,             \* weekly rules to begin with
    Few,               \* what bookers ask for while the host changes prices (bound)
    Moving,            \* the types whose prices change (bound)
    MaxBooked,         \* active bookings (bound)
    MaxHad,            \* prices of its type that a request may live through (bound)
    Requests,          \* concurrent requests (bound: requests in progress)
    Settings           \* the executions looked at, see `may`

ASSUME CalendarAssumption ==
    /\ DayLength \in Nat \ {0}
    /\ LastDate \in Nat
    /\ DOMAIN Weekday = 0 .. LastDate
ASSUME NumbersAssumption ==
    /\ Amounts \subseteq Nat /\ \E a \in Amounts : a > 0
    /\ Hours \subseteq 1 .. DayLength - 1 /\ Hours # {}
    /\ Bad \notin UNION Choices

\* race   a request may begin while another is at work, and so may the host
\* fail   calls fail, requests die
\* rules, dates, blocks, prices, tags   the host changes these
\* book   bookers book
Words == {"race", "fail", "rules", "dates", "blocks", "prices", "tags", "book"}
ASSUME SettingsAssumption == Settings \subseteq SUBSET Words

Types == {"hourly", "half_day", "day", "multi_day"}
ASSUME MovingAssumption == Moving \subseteq Types

VARIABLES
    rule,      \* location_availability_rules, by id
    override,  \* location_availability_overrides, by date
    block,     \* location_blocked_periods, by id
    price,     \* location_pricing, by type
    booked,    \* active bookings
    tags,      \* location_categories, location_amenities, location_use_cases
    req,       \* each request: what it asks and what it has found out; and, of
               \* the code no part, the prices its type had since it began (had)
    may        \* which words this execution may meet; never changes

vars == <<rule, override, block, price, booked, tags, req, may>>
hours == <<rule, override, block>>

-----------------------------------------------------------------------------
Dates    == 0 .. LastDate
Times    == 0 .. DayLength - 1
Instants == {DayLength * d + t : d \in Dates, t \in Times}
DateOf(i) == i \div DayLength
TimeOf(i) == i % DayLength

None == [none |-> TRUE]
Rule(day, from, to)    == [none |-> FALSE, day |-> day, from |-> from, to |-> to]
Override(s, from, to)  == [none |-> FALSE, status |-> s, from |-> from, to |-> to]
Span(from, to)         == [none |-> FALSE, from |-> from, to |-> to]
Price(a, h, active)    == [none |-> FALSE, amount |-> a, hours |-> h, active |-> active]
Null == 0 - 1

Booking(type, from, to, total) == [type |-> type, from |-> from, to |-> to, total |-> total]

\* [a.from, a.to) && [b.from, b.to)
Overlap(a, b) == a.from < b.to /\ b.from < a.to

\* A request: what it asks for, the interval and the total found so far.
NoAsk == [type |-> "none", from |-> Null, to |-> Null]
Idle == [pc |-> "idle", ask |-> NoAsk, from |-> Null, to |-> Null, total |-> Null,
         had |-> {}, todo |-> {}, kind |-> Null, choice |-> {}]

At(r, label)   == req[r].pc = label
Become(r, s)   == req' = [req EXCEPT ![r] = s]
Done(r)        == Become(r, Idle)
Alone          == "race" \in may \/ \A q \in Requests : At(q, "idle")
MayBegin(r)    == At(r, "idle") /\ Alone

-----------------------------------------------------------------------------
(* The host's hours: one write each                                         *)

RuleWords == {Rule(day, f, t) : day \in {Weekday[d] : d \in Dates}, f \in Times, t \in Times}

ASSUME WeeksAssumption ==
    /\ Weeks \subseteq [Rules -> RuleWords \cup {None}]
    /\ \A w \in Weeks, id, o \in Rules :
        /\ ~w[id].none => w[id].from < w[id].to
        /\ id # o /\ ~w[id].none /\ ~w[o].none /\ w[id].day = w[o].day =>
             w[id].to <= w[o].from \/ w[o].to <= w[id].from

\* The check and the exclusion constraint.
RuleFits(id, w) ==
    /\ w.from < w.to
    /\ \A o \in Rules \ {id} :
         ~rule[o].none => ~(rule[o].day = w.day /\ Overlap(rule[o], w))

CreateRule(id, w) ==
    /\ Alone
    /\ rule[id].none /\ RuleFits(id, w)
    /\ rule' = [rule EXCEPT ![id] = w]
    /\ UNCHANGED <<override, block, price, booked, tags, req, may>>

\* A PATCH of any of the fields: any other row may come of it.
UpdateRule(id, w) ==
    /\ Alone
    /\ ~rule[id].none /\ RuleFits(id, w)
    /\ rule' = [rule EXCEPT ![id] = w]
    /\ UNCHANGED <<override, block, price, booked, tags, req, may>>

DeleteRule(id) ==
    /\ Alone
    /\ rule' = [rule EXCEPT ![id] = None]
    /\ UNCHANGED <<override, block, price, booked, tags, req, may>>

\* The table's check of status against times.
OverrideFits(o) ==
    \/ o.status = "unavailable" /\ o.from = Null /\ o.to = Null
    \/ o.status = "available" /\ o.from # Null /\ o.to # Null /\ o.from < o.to

OverrideWords == {Override(s, f, t) : s \in {"available", "unavailable"},
                                      f \in Times \cup {Null}, t \in Times \cup {Null}}

CreateOverride(d, o) ==
    /\ Alone
    /\ override[d].none /\ OverrideFits(o)
    /\ override' = [override EXCEPT ![d] = o]
    /\ UNCHANGED <<rule, block, price, booked, tags, req, may>>

\* A PATCH names some of the fields; "unavailable" clears the times.
Patched(o, p, named) ==
    IF "status" \in named /\ p.status = "unavailable"
    THEN Override("unavailable", Null, Null)
    ELSE Override(IF "status" \in named THEN p.status ELSE o.status,
                  IF "from" \in named THEN p.from ELSE o.from,
                  IF "to" \in named THEN p.to ELSE o.to)

UpdateOverride(d, p, named) ==
    LET o == Patched(override[d], p, named) IN
    /\ Alone
    /\ "status" \in named => named = IF p.status = "available" THEN {"status", "from", "to"}
                                     ELSE {"status"}
    /\ ~override[d].none /\ OverrideFits(o)
    /\ override' = [override EXCEPT ![d] = o]
    /\ UNCHANGED <<rule, block, price, booked, tags, req, may>>

DeleteOverride(d) ==
    /\ Alone
    /\ override' = [override EXCEPT ![d] = None]
    /\ UNCHANGED <<rule, block, price, booked, tags, req, may>>

BlockWords == {Span(f, t) : f, t \in Instants}

BlockFits(id, b) ==
    /\ b.from < b.to
    /\ \A o \in Blocks \ {id} : ~block[o].none => ~Overlap(block[o], b)

\* createBlock and updateBlock: no booking is asked for.
SaveBlock(id, b) ==
    /\ Alone
    /\ BlockFits(id, b)
    /\ block' = [block EXCEPT ![id] = b]
    /\ UNCHANGED <<rule, override, price, booked, tags, req, may>>

DeleteBlock(id) ==
    /\ Alone
    /\ block' = [block EXCEPT ![id] = None]
    /\ UNCHANGED <<rule, override, price, booked, tags, req, may>>

-----------------------------------------------------------------------------
(* get_location_availability and is_interval_available                      *)

Covered(S) == UNION {w.from .. w.to - 1 : w \in S}

\* The day's windows: its override's, or else its weekday's rules'.
Scheduled(d) ==
    LET on(w) == Span(DayLength * d + w.from, DayLength * d + w.to) IN
    IF ~override[d].none
    THEN {on(o) : o \in {x \in {override[d]} : x.status = "available"}}
    ELSE {on(rule[id]) : id \in {x \in Rules : ~rule[x].none /\ rule[x].day = Weekday[d]}}

BlockSpans == {block[id] : id \in {x \in Blocks : ~block[x].none}}

\* What is taken out of a day: the blocks and bookings that overlap it.
Taken(d) ==
    {s \in BlockSpans \cup booked : Overlap(s, Span(DayLength * d, DayLength * (d + 1)))}

\* The multirange of the day, and the ranges it is returned as.
Open(d)    == Covered(Scheduled(d)) \ Covered(Taken(d))
Windows(d) ==
    LET open == Open(d) IN
    {w \in {Span(f, t + 1) : f, t \in open} :
        /\ w.from < w.to /\ (w.from .. w.to - 1) \subseteq open
        /\ (w.from - 1) \notin open /\ w.to \notin open}

HasConflictingPeriod(from, to) == \E s \in BlockSpans \cup booked : Overlap(s, Span(from, to))

\* Mutant of IsIntervalAvailable: a stay that starts and ends in open hours will
\* do.
IsIntervalAvailableLoosely(from, to) ==
    /\ from < to
    /\ ~HasConflictingPeriod(from, to)
    /\ \E w \in Windows(DateOf(from)) : w.from <= from /\ from < w.to
    /\ \E w \in Windows(DateOf(to)) : w.from < to /\ to <= w.to

IsIntervalAvailable(from, to) ==
    /\ from < to
    /\ ~HasConflictingPeriod(from, to)
    /\ \/ /\ DateOf(from) = DateOf(to)
          /\ \E w \in Windows(DateOf(from)) : w.from <= from /\ to <= w.to
       \/ /\ DateOf(from) # DateOf(to) /\ DateOf(to) \in Dates
          /\ \E w \in Windows(DateOf(from)) : w.from <= from /\ from < w.to
          /\ \E w \in Windows(DateOf(to)) : w.from < to /\ to <= w.to

-----------------------------------------------------------------------------
(* Prices: one write each                                                   *)

\* The check of half_day_duration_hours against the type.
PriceFits(type, p) == IF type = "half_day" THEN p.hours \in Hours ELSE p.hours = Null

PriceWords == {Price(a, h, act) : a \in Amounts, h \in Hours \cup {Null}, act \in BOOLEAN}

\* The price p as a set: empty if it is not there, or not active.
InForce(p) == IF ~p.none /\ p.active THEN {p} ELSE {}

\* Each request that asks for this type remembers its new price.
Remembered(type, p) ==
    /\ \A r \in Requests :
         req[r].ask.type = type => Cardinality(req[r].had \cup InForce(p)) <= MaxHad
    /\ req' = [r \in Requests |->
                 IF req[r].ask.type = type
                 THEN [req[r] EXCEPT !.had = @ \cup InForce(p)] ELSE req[r]]

CreatePricing(type, p) ==
    /\ Alone
    /\ price[type].none /\ PriceFits(type, p) /\ p.active
    /\ price' = [price EXCEPT ![type] = p]
    /\ Remembered(type, p)
    /\ UNCHANGED <<hours, booked, tags, may>>

UpdatePricing(type, p) ==
    /\ Alone
    /\ ~price[type].none /\ PriceFits(type, p)
    /\ price' = [price EXCEPT ![type] = p]
    /\ Remembered(type, p)
    /\ UNCHANGED <<hours, booked, tags, may>>

DeletePricing(type) ==
    /\ Alone
    /\ price' = [price EXCEPT ![type] = None]
    /\ UNCHANGED <<hours, booked, tags, req, may>>

\* Mutant of Offers: a price that is switched off will do.
OffersAny(type) == ~price[type].none

\* getActivePricing finds a row.
Offers(type) == ~price[type].none /\ price[type].active

\* Mutant of CountDays: the days between.
CountDaysBetween(from, to) == DateOf(to) - DateOf(from)

\* The dates from one instant to another, inclusive.
CountDays(from, to) == DateOf(to) - DateOf(from) + 1

\* calculateBookingPrice, on whole hours: nothing is rounded.
Total(type, from, to) ==
    LET amount == price[type].amount IN
    CASE type = "hourly"               -> amount * (to - from)
      [] type \in {"half_day", "day"}  -> amount
      [] type = "multi_day"            -> amount * CountDays(from, to)

-----------------------------------------------------------------------------
(* POST /bookings: createBooking up to its insert                           *)

\* What the request's schema lets through.  Of a day or days, `from` and `to`
\* are dates; a half day has no end of its own.
Asks ==
    {[type |-> "hourly", from |-> f, to |-> t] : f \in Instants, t \in Instants}
    \cup {[type |-> "half_day", from |-> f, to |-> Null] : f \in Instants}
    \cup {[type |-> "day", from |-> d, to |-> d] : d \in Dates}
    \cup {[type |-> "multi_day", from |-> d, to |-> e] : d \in Dates, e \in Dates}

BookBegin(r, ask) ==
    /\ MayBegin(r) /\ "book" \in may
    /\ ask.type = "hourly" => ask.from < ask.to
    /\ ask.type = "multi_day" => ask.from <= ask.to
    /\ Cardinality(booked) < MaxBooked /\ ("prices" \in may => ask \in Few)
    /\ Become(r, [Idle EXCEPT !.pc = "resolve", !.ask = ask, !.had = InForce(price[ask.type])])
    /\ UNCHANGED <<hours, price, booked, tags, may>>

\* daySpan: the earliest start and the latest end of a date's windows.
Earliest(d) == CHOOSE f \in {w.from : w \in Windows(d)} : \A w \in Windows(d) : f <= w.from
Latest(d)   == CHOOSE t \in {w.to : w \in Windows(d)} : \A w \in Windows(d) : w.to <= t

\* resolveInterval.  Of several days the two dates are read by two calls at a
\* time, which end in any order.
ResolveTimes(r) ==
    LET ask == req[r].ask IN
    /\ At(r, "resolve") /\ ask.type \in {"hourly", "half_day"}
    /\ \/ /\ ask.type = "hourly"
          /\ Become(r, [req[r] EXCEPT !.pc = "check", !.from = ask.from, !.to = ask.to])
       \/ /\ ask.type = "half_day" /\ Offers("half_day")
          /\ Become(r, [req[r] EXCEPT !.pc = "check", !.from = ask.from,
                                      !.to = ask.from + price["half_day"].hours])
    /\ UNCHANGED <<hours, price, booked, tags, may>>

ResolveDay(r) ==
    LET d == req[r].ask.from IN
    /\ At(r, "resolve") /\ req[r].ask.type = "day"
    /\ Windows(d) # {}
    /\ Become(r, [req[r] EXCEPT !.pc = "check", !.from = Earliest(d), !.to = Latest(d)])
    /\ UNCHANGED <<hours, price, booked, tags, may>>

ResolveDays(r) ==
    LET ask == req[r].ask IN
    /\ At(r, "resolve") /\ ask.type = "multi_day"
    /\ \/ /\ req[r].from = Null /\ Windows(ask.from) # {}
          /\ Become(r, [req[r] EXCEPT !.from = Earliest(ask.from),
                                      !.pc = IF req[r].to # Null THEN "check" ELSE @])
       \/ /\ req[r].to = Null /\ Windows(ask.to) # {}
          /\ Become(r, [req[r] EXCEPT !.to = Latest(ask.to),
                                      !.pc = IF req[r].from # Null THEN "check" ELSE @])
    /\ UNCHANGED <<hours, price, booked, tags, may>>

\* The call of is_interval_available.
CheckInterval(r) ==
    /\ At(r, "check")
    /\ IsIntervalAvailable(req[r].from, req[r].to)
    /\ Become(r, [req[r] EXCEPT !.pc = "price"])
    /\ UNCHANGED <<hours, price, booked, tags, may>>

ReadPrice(r) ==
    /\ At(r, "price")
    /\ Offers(req[r].ask.type)
    /\ Become(r, [req[r] EXCEPT !.pc = "insert",
                                !.total = Total(req[r].ask.type, req[r].from, req[r].to)])
    /\ UNCHANGED <<hours, price, booked, tags, may>>

\* The insert, unless the exclusion constraint of bookings is against it.
InsertBooking(r) ==
    LET b == Booking(req[r].ask.type, req[r].from, req[r].to, req[r].total) IN
    /\ At(r, "insert")
    /\ IF \E o \in booked : Overlap(o, b) THEN UNCHANGED booked ELSE booked' = booked \cup {b}
    /\ Done(r)
    /\ UNCHANGED <<hours, price, tags, may>>

\* A booking is rejected, cancelled or completed: it is not active any more.
EndBooking(b) ==
    /\ Alone /\ "book" \in may /\ b \in booked
    /\ booked' = booked \ {b}
    /\ UNCHANGED <<hours, price, tags, req, may>>

-----------------------------------------------------------------------------
(* PATCH /locations/:id with tags: replaceTags of each kind that is named   *)

PatchBegin(r, kinds, choice) ==
    /\ MayBegin(r) /\ "tags" \in may
    /\ \E k \in kinds :
         Become(r, [Idle EXCEPT !.pc = "untag", !.kind = k, !.todo = kinds \ {k},
                                !.choice = choice])
    /\ UNCHANGED <<hours, price, booked, tags, may>>

\* The next kind, or the end.  The code's order of the kinds is any here.
NextKind(r) ==
    \/ req[r].todo = {} /\ Done(r)
    \/ \E k \in req[r].todo :
         Become(r, [req[r] EXCEPT !.pc = "untag", !.kind = k, !.todo = @ \ {k}])

\* Mutant of DeleteTags: the old ones stay.
KeepTags(r) ==
    /\ At(r, "untag")
    /\ Become(r, [req[r] EXCEPT !.pc = "tag"])
    /\ UNCHANGED <<tags, hours, price, booked, may>>

DeleteTags(r) ==
    /\ At(r, "untag")
    /\ tags' = [tags EXCEPT ![req[r].kind] = {}]
    /\ IF req[r].choice = {} THEN NextKind(r) ELSE Become(r, [req[r] EXCEPT !.pc = "tag"])
    /\ UNCHANGED <<hours, price, booked, may>>

\* All the rows, or none: an id that does not exist, or a row that is there
\* again, refuses the whole statement and ends the request.
InsertTags(r) ==
    LET k == req[r].kind
        choice == req[r].choice IN
    /\ At(r, "tag")
    /\ IF Bad \in choice \/ choice \cap tags[k] # {}
       THEN Done(r) /\ UNCHANGED tags
       ELSE tags' = [tags EXCEPT ![k] = @ \cup choice] /\ NextKind(r)
    /\ UNCHANGED <<hours, price, booked, may>>

-----------------------------------------------------------------------------
\* What a request is answered with an error for: nothing to resolve, not
\* available, no price; or a call fails and the request ends where it is.
Refuse(r) ==
    /\ \/ At(r, "resolve") /\ req[r].ask.type = "half_day" /\ ~Offers("half_day")
       \/ /\ At(r, "resolve") /\ req[r].ask.type \in {"day", "multi_day"}
          /\ {} \in {Windows(req[r].ask.from), Windows(req[r].ask.to)}
       \/ At(r, "check") /\ ~IsIntervalAvailable(req[r].from, req[r].to)
       \/ At(r, "price") /\ ~Offers(req[r].ask.type)
       \/ "fail" \in may /\ ~At(r, "idle")
    /\ Done(r)
    /\ UNCHANGED <<hours, price, booked, tags, may>>

Init ==
    /\ may \in Settings
    /\ rule     \in Weeks
    /\ override = [d \in Dates |-> None]
    /\ block    = [id \in Blocks |-> None]
    /\ price    = [t \in Types |-> IF "prices" \in may /\ t \in Moving THEN None
                                   ELSE Price(CHOOSE a \in Amounts : a > 0,
                                              IF t = "half_day" THEN CHOOSE h \in Hours : TRUE
                                              ELSE Null, TRUE)]
    /\ booked   = {}
    /\ tags     = [k \in Kinds |-> {}]
    /\ req      = [r \in Requests |-> Idle]

\* What the host changes in this execution.
Host ==
    \/ "rules" \in may /\ \E id \in Rules :
         DeleteRule(id) \/ \E w \in RuleWords : CreateRule(id, w) \/ UpdateRule(id, w)
    \/ "dates" \in may /\ \E d \in Dates :
         \/ DeleteOverride(d)
         \/ \E o \in OverrideWords :
              \/ CreateOverride(d, o)
              \/ \E named \in SUBSET {"status", "from", "to"} : UpdateOverride(d, o, named)
    \/ "blocks" \in may /\ \E id \in Blocks :
         DeleteBlock(id) \/ \E b \in BlockWords : SaveBlock(id, b)
    \/ "prices" \in may /\ \E type \in Moving :
         DeletePricing(type)
         \/ \E p \in PriceWords : CreatePricing(type, p) \/ UpdatePricing(type, p)

Next ==
    \/ Host
    \/ \E b \in booked : EndBooking(b)
    \/ \E r \in Requests :
         \/ \E ask \in Asks : BookBegin(r, ask)
         \/ ResolveTimes(r) \/ ResolveDay(r) \/ ResolveDays(r)
         \/ CheckInterval(r) \/ ReadPrice(r) \/ InsertBooking(r) \/ Refuse(r)
         \/ \E kinds \in SUBSET Kinds, choice \in Choices :
              PatchBegin(r, kinds, choice) \/ PatchBegin(r, kinds, choice \cup {Bad})
         \/ DeleteTags(r) \/ InsertTags(r)

Spec == Init /\ [][Next]_vars

Labels == {"idle", "resolve", "check", "price", "insert", "untag", "tag"}

Requesting ==
    [pc : Labels, ask : Asks \cup {NoAsk}, from : Int, to : Int, total : Int,
     had : SUBSET PriceWords,
     todo : SUBSET Kinds, kind : Kinds \cup {Null},
     choice : {{}} \cup Choices \cup {c \cup {Bad} : c \in Choices}]

\* Every variable keeps its shape.
TypeOK ==
    /\ rule \in [Rules -> RuleWords \cup {None}]
    /\ override \in [Dates -> OverrideWords \cup {None}]
    /\ block \in [Blocks -> BlockWords \cup {None}]
    /\ price \in [Types -> PriceWords \cup {None}]
    /\ booked \subseteq [type : Types, from : Int, to : Int, total : Int]
    /\ tags \in [Kinds -> SUBSET UNION Choices]
    /\ req \in [Requests -> Requesting]
    /\ may \in Settings

-----------------------------------------------------------------------------
(* Properties, by hours: no window, range or date enters them               *)

\* The listing is open in an hour, and nothing is in its way.
OpenAt(i) ==
    LET d == DateOf(i) IN
    IF ~override[d].none
    THEN override[d].status = "available"
         /\ override[d].from <= TimeOf(i) /\ TimeOf(i) < override[d].to
    ELSE \E id \in Rules :
           /\ ~rule[id].none /\ rule[id].day = Weekday[d]
           /\ rule[id].from <= TimeOf(i) /\ TimeOf(i) < rule[id].to
FreeAt(i) == ~\E s \in BlockSpans \cup booked : s.from <= i /\ i < s.to

\* A stay is on offer if nothing is in the way of any of its hours, and it
\* begins and ends in open hours; within a date it is open throughout.
OnOffer(from, to) ==
    LET stay == from .. to - 1 IN
    /\ \A i \in stay : FreeAt(i)
    /\ OpenAt(from) /\ OpenAt(to - 1)
    /\ DateOf(from) = DateOf(to - 1) => \A i \in stay : OpenAt(i)

\* is_interval_available admits what is on offer and nothing else, whatever
\* rules touch, overrides replace, blocks reach over midnight or into a stay.
\* It is looked at between requests: what they know does not enter it.
GateIsExact ==
    (\A r \in Requests : At(r, "idle")) =>
        \A f, t \in Instants : IsIntervalAvailable(f, t) <=> f < t /\ OnOffer(f, t)

\* What a booking b is made on, when its type had those prices while it was
\* made: the rate of one of them for each of its hours, for each date it touches,
\* or once, and the half day of one of them; and, of an undisturbed request, the
\* price of now and a stay that is on offer and is what its type says.
AsOffered(b, had) ==
    LET stay  == b.from .. b.to - 1
        units == CASE b.type = "hourly"    -> Cardinality(stay)
                   [] b.type = "multi_day" -> Cardinality({DateOf(i) : i \in stay})
                   [] OTHER                -> 1
        left(d) == {i \in Instants : DateOf(i) = d /\ OpenAt(i) /\ FreeAt(i)} IN
    /\ \E p \in had : p.active /\ b.total = p.amount * units
    /\ b.type = "half_day" => \E p \in had : p.active /\ Cardinality(stay) = p.hours
    /\ "race" \notin may =>
         /\ had = {price[b.type]}
         /\ OnOffer(b.from, b.to)
         /\ b.type = "day" => stay = left(DateOf(b.from))
         /\ b.type = "multi_day" =>
              \A i \in left(DateOf(b.from)) \cup left(DateOf(b.to - 1)) : i \in stay

\* A booking costs a rate that its own type had at some time since the request
\* began, and a half day lasts as long as one did; never a price that was switched
\* off, changed or deleted before, or that of another type.  (The two are read by
\* two queries, and may be of two prices.)  When requests follow one another there
\* is but the price of now, the stay was on offer, and it is what its type says:
\* so many hours; all that is left of a date; from the first hour that is left of
\* one date to the last of another.
BookedAsOffered ==
    [][\A b \in booked' \ booked :
         \E r \in Requests :
           req'[r] # req[r] /\ req[r].ask.type = b.type /\ AsOffered(b, req[r].had)]_vars

\* When requests follow one another, the tags of a kind are all that one request
\* chose for it, or none: whatever is refused or fails, they are never a mixture
\* of two choices or a part of one.
TagsAreOneChoice ==
    "race" \notin may => \A k \in Kinds : tags[k] \in Choices \cup {{}}
=============================================================================
