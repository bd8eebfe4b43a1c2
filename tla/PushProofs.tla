----------------------------- MODULE PushProofs -----------------------------
(***************************************************************************)
(* Proofs about Push, for any number of users, phones, causes and requests: *)
(* a cause is pushed to no phone twice and the fan-out is whole; it reaches *)
(* only phones of the recipient, who wanted it; what a notice was stamped   *)
(* with stays.                                                              *)
(*                                                                          *)
(* The inductive invariant says of each request what it knows while it      *)
(* waits for a call (Knows), of each cause what its notice, its phones and  *)
(* its deliveries have to do with each other (Kept), and that one request   *)
(* at most delivers a cause (Unique): the one that inserted the notice.     *)
(*                                                                          *)
(* As long as nothing fails, some request always owes a cause what it has   *)
(* not yet got (Kept), so that each has its notice in the end.              *)
(***************************************************************************)
EXTENDS Push, TLAPS

Delivers(r, c) ==
    /\ req[r].cause = c
    /\ req[r].pc \in {"preference", "list", "send", "log", "deactivate"}

Inserts(r, c) == req[r].cause = c /\ req[r].pc = "insert"

\* Of the phones listed for a cause, the rows of `todo` are left; the others
\* were tried, once each.
Planned(c, todo) ==
    /\ notice[c].there /\ past[c].judged /\ past[c].wanted
    /\ \A row \in todo : row.token \in past[c].listed
    /\ \A x, y \in todo : x.token = y.token => x = y
    /\ \A t \in Tokens : tries[<<c, t>>] =
         IF t \in past[c].listed /\ \A row \in todo : row.token # t THEN 1 ELSE 0

\* The row that a request sends to.
Row(r) == [token |-> req[r].token, env |-> req[r].env]

Knows(r) ==
    LET c == req[r].cause IN
    /\ req[r].pc # "idle" => c \in Causes
    /\ Inserts(r, c) \/ Delivers(r, c) => past[c].asked
    /\ req[r].pc \in {"preference", "list"} =>
         notice[c].there /\ past[c].listed = {} /\ \A t \in Tokens : tries[<<c, t>>] = 0
    /\ req[r].pc = "list" => past[c].wanted
    /\ req[r].pc = "send" =>
         Row(r) \in DeviceRows \ req[r].todo /\ Planned(c, req[r].todo \cup {Row(r)})
    /\ req[r].pc \in {"log", "deactivate"} =>
         req[r].token \in Tokens /\ Planned(c, req[r].todo)
    /\ req[r].pc = "read" /\ "race" \notin may => notice[c].read = 0

Kept(c) ==
    /\ \A t \in Tokens : tries[<<c, t>>] <= 1 /\ (tries[<<c, t>>] > 0 => t \in past[c].listed)
    /\ past[c].listed # {} => past[c].wanted
    /\ past[c].listed \subseteq past[c].mine
    /\ ~notice[c].there => past[c].listed = {} /\ ~past[c].judged
    /\ notice[c].there => past[c].asked
    /\ past[c].asked =>
         /\ Listed(c.user) \subseteq past[c].mine
         /\ Enabled(c.user, Category(c.type)) => past[c].wanted
    /\ notice[c].deleted <= 1
    /\ "race" \notin may => notice[c].read <= 1
    /\ "kill" \notin may /\ (\A r \in Requests : ~Delivers(r, c)) =>
         \A t \in past[c].listed : tries[<<c, t>>] = 1
    /\ past[c].asked /\ may \cap {"kill", "fail"} = {} =>
         /\ notice[c].there \/ \E r \in Requests : Inserts(r, c)
         /\ ~notice[c].there \/ past[c].judged \/ \E r \in Requests : Delivers(r, c)

Unique ==
    /\ \A r, q \in Requests, c \in Causes : Delivers(r, c) /\ Delivers(q, c) => r = q
    /\ "race" \notin may =>
         \A r, q \in Requests : req[r].pc # "idle" /\ req[q].pc # "idle" => r = q

IInv ==
    /\ TypeOK /\ Unique
    /\ \A r \in Requests : Knows(r)
    /\ \A c \in Causes : Kept(c)

-----------------------------------------------------------------------------
\* A step of one request changes what it works on, and leaves what the others
\* know, and the other causes, alone.
LEMMA Elsewhere ==
    ASSUME IInv, NEW r \in Requests, NEW c \in Causes, UNCHANGED <<pref, may>>,
           req \in [Requests -> Requesting], req' \in [Requests -> Requesting],
           \A q \in Requests \ {r} : req'[q] = req[q],
           req[r].pc = "idle" \/ req[r].cause = c,
           req'[r].pc = "idle" \/ req'[r].cause = c,
           req[r].pc # "idle" \/ MayBegin(r),
           \A d \in Causes \ {c} :
             /\ notice'[d] = notice[d] /\ past'[d] = past[d]
             /\ \A t \in Tokens : tries'[<<d, t>>] = tries[<<d, t>>],
           \A u \in Users : Listed(u)' \subseteq Listed(u),
           past[c].asked => past'[c].asked,
           \/ \A q \in Requests \ {r} : ~Delivers(q, c)
           \/ /\ req'[r].pc \in {"idle", "insert", "read", "delete"}
              /\ notice'[c].there = notice[c].there /\ past'[c] = past[c]
              /\ \A t \in Tokens : tries'[<<c, t>>] = tries[<<c, t>>]
    PROVE  /\ Unique'
           /\ \A q \in Requests \ {r} : Knows(q)'
           /\ \A d \in Causes \ {c} : Kept(d)'
<1>1. \A q \in Requests \ {r} : \A d :
         (Delivers(q, d)' <=> Delivers(q, d)) /\ (Inserts(q, d)' <=> Inserts(q, d))
  BY DEF Delivers, Inserts
<1>2. Delivers(r, c)' => \A q \in Requests \ {r} : ~Delivers(q, c)
  BY DEF Delivers
<1>3. \A d \in Causes \ {c} : ~Delivers(r, d) /\ ~Delivers(r, d)' /\ ~Inserts(r, d) /\ ~Inserts(r, d)'
  BY DEF Delivers, Inserts
<1>4. Unique'
  <2>1. \A q, p \in Requests, d \in Causes : Delivers(q, d)' /\ Delivers(p, d)' => q = p
    BY <1>1, <1>2, <1>3 DEF IInv, Unique
  <2>2. "race" \notin may =>
          \A q, p \in Requests : req'[q].pc # "idle" /\ req'[p].pc # "idle" => q = p
    BY DEF IInv, Unique, MayBegin, Alone, At
  <2>. QED
    BY <2>1, <2>2 DEF Unique
<1>5. ASSUME NEW q \in Requests \ {r} PROVE Knows(q)'
  <2>1. Knows(q) /\ req'[q] = req[q] /\ Row(q)' = Row(q)
    BY DEF IInv, Row
  <2>2. CASE req[q].pc = "idle"
    BY <2>1, <2>2 DEF Knows, Inserts, Delivers
  <2>3. CASE req[q].pc # "idle" /\ req[q].cause # c
    <3>1. /\ notice'[req[q].cause] = notice[req[q].cause] /\ past'[req[q].cause] = past[req[q].cause]
          /\ \A t \in Tokens : tries'[<<req[q].cause, t>>] = tries[<<req[q].cause, t>>]
      BY <2>1, <2>3 DEF Knows
    <3>. QED
      BY <2>1, <3>1 DEF Knows, Inserts, Delivers, Planned
  <2>4. CASE req[q].cause = c /\ req[q].pc \in {"insert", "delete"}
    BY <2>1, <2>4 DEF Knows, Inserts, Delivers
  <2>5. CASE req[q].cause = c /\ req[q].pc = "read"
    BY <2>1, <2>5 DEF Knows, Inserts, Delivers, IInv, Unique, MayBegin, Alone, At
  <2>6. CASE Delivers(q, c)
    <3>1. /\ notice'[c].there = notice[c].there /\ past'[c] = past[c]
          /\ \A t \in Tokens : tries'[<<c, t>>] = tries[<<c, t>>]
      BY <2>6
    <3>. QED
      BY <2>1, <2>6, <3>1 DEF Knows, Inserts, Delivers, Planned
  <2>. QED
    BY <2>2, <2>3, <2>4, <2>5, <2>6 DEF Delivers, Requesting, Labels
<1>6. ASSUME NEW d \in Causes \ {c} PROVE Kept(d)'
  <2>1. \A q \in Requests : (Delivers(q, d)' <=> Delivers(q, d)) /\ (Inserts(q, d)' <=> Inserts(q, d))
    BY <1>1, <1>3
  <2>2. Kept(d) /\ d.user \in Users
    BY CausesAssumption DEF IInv
  <2>3. Listed(d.user)' \subseteq Listed(d.user)
    BY <2>2
  <2>4. Enabled(d.user, Category(d.type))' = Enabled(d.user, Category(d.type))
    BY DEF Enabled
  <2>5. /\ notice'[d] = notice[d] /\ past'[d] = past[d]
        /\ \A t \in Tokens : tries'[<<d, t>>] = tries[<<d, t>>]
    OBVIOUS
  <2>6. /\ (\A q \in Requests : ~Delivers(q, d)') <=> (\A q \in Requests : ~Delivers(q, d))
        /\ (\E q \in Requests : Delivers(q, d)') <=> (\E q \in Requests : Delivers(q, d))
        /\ (\E q \in Requests : Inserts(q, d)') <=> (\E q \in Requests : Inserts(q, d))
    BY <2>1
  <2>7. Listed(d.user)' \subseteq past[d].mine \/ ~past[d].asked
    BY <2>2, <2>3 DEF Kept
  <2>8. past[d].listed \subseteq Tokens
    BY DEF IInv, TypeOK
  <2>. QED
    BY <2>2, <2>4, <2>5, <2>6, <2>7, <2>8 DEF Kept
<1>. QED
  BY <1>4, <1>5, <1>6

\* The rest of what a step of a request has to see to.
LEMMA StepKeeps ==
    ASSUME IInv, NEW r \in Requests, NEW c \in Causes, TypeOK',
           Unique', \A q \in Requests \ {r} : Knows(q)', \A d \in Causes \ {c} : Kept(d)',
           Knows(r)', Kept(c)'
    PROVE  IInv'
BY DEF IInv

\* A request that is over.
LEMMA DoneIs ==
    ASSUME NEW r \in Requests, req \in [Requests -> Requesting], Done(r)
    PROVE  /\ req' \in [Requests -> Requesting]
           /\ \A q \in Requests \ {r} : req'[q] = req[q]
           /\ req'[r].pc = "idle"
<1>1. Idle \in Requesting /\ Idle.pc = "idle"
  BY DEF Idle, Request, Requesting, Labels, Envs
<1>. QED
  BY <1>1 DEF Done, Become

\* On to the next device: what is left is what is planned.
LEMMA NextDeviceKnows ==
    ASSUME NEW r \in Requests, NEW c \in Causes, req \in [Requests -> Requesting],
           req[r].cause = c, NEW todo \in SUBSET DeviceRows, NextDevice(r, todo),
           Planned(c, todo)', past'[c].asked
    PROVE  /\ req' \in [Requests -> Requesting]
           /\ \A q \in Requests \ {r} : req'[q] = req[q]
           /\ req'[r].pc = "idle" \/ req'[r].cause = c
           /\ Knows(r)'
           /\ ~Delivers(r, c)' => todo = {}
           /\ req'[r].pc \in {"idle", "send"}
<1>1. CASE todo = {} /\ Done(r)
  <2>1. /\ req' \in [Requests -> Requesting]
        /\ \A q \in Requests \ {r} : req'[q] = req[q]
        /\ req'[r].pc = "idle"
    BY <1>1, DoneIs
  <2>. QED
    BY <1>1, <2>1 DEF Knows, Inserts, Delivers
<1>2. ASSUME NEW row \in todo,
             Become(r, [req[r] EXCEPT !.pc = "send", !.token = row.token,
                                      !.env = row.env, !.todo = todo \ {row}])
      PROVE  /\ req' \in [Requests -> Requesting]
             /\ \A q \in Requests \ {r} : req'[q] = req[q]
             /\ req'[r].cause = c /\ req'[r].pc = "send"
             /\ Knows(r)'
  <2>1. row \in DeviceRows /\ row.token \in Tokens /\ row.env \in Envs
    BY DEF DeviceRows
  <2>2. req[r] \in Requesting
    OBVIOUS
  <2>3. [req[r] EXCEPT !.pc = "send", !.token = row.token, !.env = row.env,
                       !.todo = todo \ {row}] \in Requesting
    BY <2>1, <2>2 DEF Requesting, Labels
  <2>4. /\ req' \in [Requests -> Requesting]
        /\ \A q \in Requests \ {r} : req'[q] = req[q]
    BY <1>2, <2>3 DEF Become
  <2>5. /\ req'[r].pc = "send" /\ req'[r].cause = c /\ req'[r].todo = todo \ {row}
        /\ req'[r].token = row.token /\ req'[r].env = row.env
    BY <1>2, <2>2 DEF Become, Requesting
  <2>6. Row(r)' = row
    BY <2>1, <2>5 DEF Row, DeviceRows
  <2>7. req'[r].todo \cup {Row(r)'} = todo /\ Row(r)' \in DeviceRows \ req'[r].todo
    BY <2>1, <2>5, <2>6
  <2>8. (Planned(req[r].cause, req[r].todo \cup {Row(r)}))'
    BY <2>5, <2>7 DEF Planned
  <2>9. Knows(r)'
    BY <2>5, <2>7, <2>8 DEF Knows, Inserts, Delivers
  <2>. QED
    BY <2>4, <2>5, <2>9
<1>. QED
  BY <1>1, <1>2 DEF NextDevice, Delivers

\* A step of the loop that leaves the notice and the deliveries as they are.
LEMMA LoopKeeps ==
    ASSUME IInv, NEW r \in Requests, NEW c \in Causes, Delivers(r, c),
           Planned(c, req[r].todo), NextDevice(r, req[r].todo),
           UNCHANGED <<dead, pref, notice, tries, past, may>>,
           device' \in [Tokens -> [owner : Users \cup {Nobody}, active : BOOLEAN, env : Envs]],
           \A u \in Users : Listed(u)' \subseteq Listed(u)
    PROVE  IInv'
<1>1. req \in [Requests -> Requesting] /\ req[r].todo \in SUBSET DeviceRows /\ req[r].cause = c
  BY DEF IInv, TypeOK, Requesting, Delivers
<1>2. PICK todo \in SUBSET DeviceRows : todo = req[r].todo
  BY <1>1
<1>3. Planned(c, todo)' /\ past'[c].asked
  BY <1>2 DEF Planned, IInv, Knows, Delivers
<1>4. /\ req' \in [Requests -> Requesting]
      /\ \A q \in Requests \ {r} : req'[q] = req[q]
      /\ req'[r].pc = "idle" \/ req'[r].cause = c
      /\ Knows(r)'
      /\ ~Delivers(r, c)' => todo = {}
  BY <1>1, <1>2, <1>3, NextDeviceKnows
<1>5. \A q \in Requests \ {r} : ~Delivers(q, c)
  BY DEF IInv, Unique
<1>6. req[r].pc # "idle"
  BY DEF Delivers
<1>7. /\ Unique' /\ \A q \in Requests \ {r} : Knows(q)'
      /\ \A d \in Causes \ {c} : Kept(d)'
  BY <1>1, <1>4, <1>5, <1>6, Elsewhere
<1>8. Kept(c)'
  <2>1. todo = {} => \A t \in past[c].listed : tries[<<c, t>>] = 1
    BY <1>2 DEF Planned, IInv, TypeOK
  <2>2. Kept(c) /\ c.user \in Users
    BY CausesAssumption DEF IInv
  <2>3. notice[c].there /\ past[c].judged
    BY DEF Planned
  <2>4. (\A q \in Requests : ~Delivers(q, c)') => todo = {}
    BY <1>4
  <2>5. Listed(c.user)' \subseteq Listed(c.user)
    BY <2>2
  <2>6. Enabled(c.user, Category(c.type))' = Enabled(c.user, Category(c.type))
    BY DEF Enabled
  <2>. QED
    BY <2>1, <2>2, <2>3, <2>4, <2>5, <2>6 DEF Kept
<1>9. TypeOK'
  BY <1>4 DEF IInv, TypeOK
<1>. QED
  BY <1>4, <1>7, <1>8, <1>9, StepKeeps

LEMMA LogKeeps ==
    ASSUME IInv, NEW r \in Requests, Log(r)
    PROVE  IInv'
<1>1. PICK c \in Causes :
        c = req[r].cause /\ req[r].pc = "log" /\ Delivers(r, c) /\ Planned(c, req[r].todo)
        /\ past[c].asked
  BY DEF IInv, Knows, Log, At, Delivers
<1>2. UNCHANGED <<device, dead, pref, notice, tries, past, may>>
  BY DEF Log
<1>3. \A u \in Users : Listed(u)' = Listed(u)
  BY <1>2 DEF Listed
<1>4. CASE NextDevice(r, req[r].todo)
  BY <1>1, <1>2, <1>3, <1>4, LoopKeeps DEF IInv, TypeOK
<1>5. CASE Goto(r, "deactivate")
  <2>1. req \in [Requests -> Requesting] /\ req' = [req EXCEPT ![r].pc = "deactivate"]
    BY <1>5 DEF IInv, TypeOK, Goto
  <2>2. /\ req' \in [Requests -> Requesting]
        /\ \A q \in Requests \ {r} : req'[q] = req[q]
        /\ req'[r].pc = "deactivate" /\ req'[r].cause = req[r].cause
        /\ req'[r].todo = req[r].todo /\ req'[r].token = req[r].token
    BY <2>1 DEF Requesting, Labels
  <2>3. \A q \in Requests \ {r} : ~Delivers(q, c)
    BY <1>1 DEF IInv, Unique
  <2>4. /\ Unique' /\ \A q \in Requests \ {r} : Knows(q)'
        /\ \A d \in Causes \ {c} : Kept(d)'
    BY <1>1, <1>2, <1>3, <2>1, <2>2, <2>3, Elsewhere
  <2>5. Knows(r)'
    BY <1>1, <1>2, <2>2 DEF IInv, Knows, Inserts, Delivers, Planned
  <2>6. Delivers(r, c)'
    BY <1>1, <2>2 DEF Delivers
  <2>7. Kept(c)'
    <3>1. Kept(c) /\ notice[c].there /\ past[c].judged /\ c.user \in Users
      BY <1>1, CausesAssumption DEF IInv, Planned
    <3>2. Enabled(c.user, Category(c.type))' = Enabled(c.user, Category(c.type))
      BY <1>2 DEF Enabled
    <3>. QED
      BY <1>2, <1>3, <2>6, <3>1, <3>2 DEF Kept
  <2>8. TypeOK'
    BY <1>2, <2>2 DEF IInv, TypeOK
  <2>. QED
    BY <2>4, <2>5, <2>7, <2>8, StepKeeps
<1>. QED
  BY <1>4, <1>5 DEF Log

LEMMA DeactivateKeeps ==
    ASSUME IInv, NEW r \in Requests, Deactivate(r)
    PROVE  IInv'
<1>1. PICK c \in Causes :
        Delivers(r, c) /\ Planned(c, req[r].todo) /\ req[r].token \in Tokens
  BY DEF IInv, Knows, Deactivate, At, Delivers
<1>2. UNCHANGED <<dead, pref, notice, tries, past, may>> /\ NextDevice(r, req[r].todo)
  BY DEF Deactivate
<1>3. \/ UNCHANGED device
      \/ device' = [device EXCEPT ![req[r].token].active = FALSE]
  BY DEF Deactivate
<1>4. /\ device' \in [Tokens -> [owner : Users \cup {Nobody}, active : BOOLEAN, env : Envs]]
      /\ \A t \in Tokens : device'[t].owner = device[t].owner
                           /\ (device'[t].active => device[t].active)
  <2>1. device \in [Tokens -> [owner : Users \cup {Nobody}, active : BOOLEAN, env : Envs]]
    BY DEF IInv, TypeOK
  <2>2. CASE device' = [device EXCEPT ![req[r].token].active = FALSE]
    <3>1. \A t \in Tokens : t # req[r].token => device'[t] = device[t]
      BY <2>1, <2>2
    <3>2. /\ device'[req[r].token].owner = device[req[r].token].owner
          /\ ~device'[req[r].token].active
      BY <1>1, <2>1, <2>2
    <3>3. device' \in [Tokens -> [owner : Users \cup {Nobody}, active : BOOLEAN, env : Envs]]
      BY <2>1, <2>2
    <3>. QED
      BY <3>1, <3>2, <3>3
  <2>3. CASE UNCHANGED device
    BY <2>1, <2>3
  <2>. QED
    BY <1>3, <2>2, <2>3
<1>5. \A u \in Users : Listed(u)' \subseteq Listed(u)
  BY <1>4 DEF Listed
<1>. QED
  BY <1>1, <1>2, <1>4, <1>5, LoopKeeps

\* A push to the device in hand: it was not tried before.
LEMMA SendKeeps ==
    ASSUME IInv, NEW r \in Requests, Send(r)
    PROVE  IInv'
<1>1. PICK c \in Causes, t \in Tokens :
        /\ c = req[r].cause /\ t = req[r].token /\ req[r].pc = "send" /\ Delivers(r, c)
        /\ past[c].asked /\ Row(r) \in DeviceRows \ req[r].todo
        /\ Planned(c, req[r].todo \cup {Row(r)})
  BY DEF IInv, Knows, Send, At, Delivers, Row, DeviceRows
<1>2. /\ UNCHANGED <<device, dead, pref, notice, past, may>>
      /\ tries' = [tries EXCEPT ![<<c, t>>] = @ + 1]
  BY <1>1 DEF Send
<1>3. PICK st \in Statuses : req' = [req EXCEPT ![r] = [req[r] EXCEPT !.pc = "log", !.status = st]]
  BY DEF Send, Become, Statuses, MapApnsResponse
<1>4. req \in [Requests -> Requesting] /\ tries \in [Causes \X Tokens -> Nat]
  BY DEF IInv, TypeOK
<1>5. [req[r] EXCEPT !.pc = "log", !.status = st] \in Requesting
  BY <1>4 DEF Requesting, Labels
<1>6. /\ req' \in [Requests -> Requesting]
      /\ \A q \in Requests \ {r} : req'[q] = req[q]
      /\ req'[r].pc = "log" /\ req'[r].cause = c
      /\ req'[r].todo = req[r].todo /\ req'[r].token = t
  BY <1>1, <1>3, <1>4, <1>5 DEF Requesting
<1>7. /\ tries' \in [Causes \X Tokens -> Nat]
      /\ tries[<<c, t>>] = 0 /\ tries'[<<c, t>>] = 1 /\ t \in past[c].listed
      /\ \A d \in Causes, x \in Tokens : <<d, x>> # <<c, t>> => tries'[<<d, x>>] = tries[<<d, x>>]
  BY <1>1, <1>2, <1>4 DEF Planned, Row
<1>8. Planned(c, req[r].todo)'
  <2>1. PICK todo \in SUBSET DeviceRows : todo = req[r].todo
    BY <1>4 DEF Requesting
  <2>2. Row(r).token = t /\ \A row \in todo : row.token # t
    BY <1>1, <2>1 DEF Planned, Row
  <2>3. \A x \in Tokens : tries'[<<c, x>>] =
          IF x \in past[c].listed /\ \A row \in todo : row.token # x THEN 1 ELSE 0
    BY <1>1, <1>7, <2>1, <2>2 DEF Planned
  <2>4. Planned(c, todo)'
    BY <1>1, <1>2, <2>1, <2>3 DEF Planned
  <2>. QED
    BY <1>6, <2>1, <2>4
<1>9. \A q \in Requests \ {r} : ~Delivers(q, c)
  BY <1>1 DEF IInv, Unique
<1>10. \A u \in Users : Listed(u)' = Listed(u)
  BY <1>2 DEF Listed
<1>11. /\ Unique' /\ \A q \in Requests \ {r} : Knows(q)'
       /\ \A d \in Causes \ {c} : Kept(d)'
  BY <1>1, <1>2, <1>4, <1>6, <1>7, <1>9, <1>10, Elsewhere
<1>12. Knows(r)'
  BY <1>1, <1>2, <1>6, <1>8 DEF Knows, Inserts, Delivers
<1>13. Delivers(r, c)'
  BY <1>6 DEF Delivers
<1>14. Kept(c)'
  <2>1. \A x \in Tokens : tries'[<<c, x>>] <= 1 /\ (tries'[<<c, x>>] > 0 => x \in past[c].listed)
    BY <1>7 DEF IInv, Kept
  <2>2. Enabled(c.user, Category(c.type))' = Enabled(c.user, Category(c.type))
    BY <1>2 DEF Enabled
  <2>3. Listed(c.user)' = Listed(c.user)
    BY <1>2 DEF Listed
  <2>. QED
    BY <1>1, <1>2, <1>13, <2>1, <2>2, <2>3 DEF IInv, Kept, Planned
<1>15. TypeOK'
  BY <1>2, <1>6, <1>7 DEF IInv, TypeOK
<1>. QED
  BY <1>11, <1>12, <1>14, <1>15, StepKeeps

-----------------------------------------------------------------------------
(* In front of the loop                                                     *)

\* The fields of a request that begins.
LEMMA RequestIs ==
    ASSUME NEW pc \in Labels, NEW c \in Causes
    PROVE  /\ Request(pc, c) \in Requesting
           /\ Request(pc, c).pc = pc /\ Request(pc, c).cause = c
BY DEF Request, Requesting, Envs

LEMMA BeginIs ==
    ASSUME NEW r \in Requests, req \in [Requests -> Requesting],
           NEW l \in Labels, NEW c \in Causes, Become(r, Request(l, c))
    PROVE  /\ req' \in [Requests -> Requesting]
           /\ \A q \in Requests \ {r} : req'[q] = req[q]
           /\ req'[r].pc = l /\ req'[r].cause = c
BY RequestIs DEF Become

LEMMA GotoIs ==
    ASSUME NEW r \in Requests, req \in [Requests -> Requesting], NEW l \in Labels, Goto(r, l)
    PROVE  /\ req' \in [Requests -> Requesting]
           /\ \A q \in Requests \ {r} : req'[q] = req[q]
           /\ req'[r].pc = l /\ req'[r].cause = req[r].cause
<1>1. req[r] \in Requesting /\ req' = [req EXCEPT ![r] = [req[r] EXCEPT !.pc = l]]
  BY DEF Goto
<1>2. [req[r] EXCEPT !.pc = l] \in Requesting
  BY <1>1 DEF Requesting
<1>. QED
  BY <1>1, <1>2 DEF Requesting

\* A SELECT gives one row for each device.
LEMMA RowsAre ==
    ASSUME NEW S \in SUBSET Tokens,
           device \in [Tokens -> [owner : Users \cup {Nobody}, active : BOOLEAN, env : Envs]]
    PROVE  /\ Rows(S) \in SUBSET DeviceRows
           /\ \A row \in Rows(S) : row.token \in S
           /\ \A x, y \in Rows(S) : x.token = y.token => x = y
           /\ \A t \in S : \E row \in Rows(S) : row.token = t
<1>1. \A row \in Rows(S) : \E t \in S : row = [token |-> t, env |-> device[t].env]
  BY DEF Rows
<1>2. \A t \in S : [token |-> t, env |-> device[t].env] \in Rows(S)
  BY DEF Rows
<1>3. \A t \in S : device[t].env \in Envs
  OBVIOUS
<1>4. ASSUME NEW row \in Rows(S) PROVE row \in DeviceRows /\ row.token \in S
  BY <1>1, <1>3 DEF DeviceRows
<1>5. ASSUME NEW t \in S PROVE \E row \in Rows(S) : row.token = t
  BY <1>2
<1>6. ASSUME NEW x \in Rows(S), NEW y \in Rows(S), x.token = y.token PROVE x = y
  BY <1>1, <1>6
<1>. QED
  BY <1>4, <1>5, <1>6

\* A cause is notified, for the first time or again.
LEMMA TriggerKeeps ==
    ASSUME IInv, NEW r \in Requests, NEW c \in Causes, Trigger(r, c)
    PROVE  IInv'
<1>1. /\ UNCHANGED <<device, dead, pref, notice, tries, may>> /\ MayBegin(r)
      /\ req' = [req EXCEPT ![r] = Request("insert", c)]
  BY DEF Trigger, Become
<1>2. /\ req \in [Requests -> Requesting] /\ Kept(c) /\ c.user \in Users
      /\ past \in [Causes -> [asked : BOOLEAN, judged : BOOLEAN, wanted : BOOLEAN,
                              mine : SUBSET Tokens, listed : SUBSET Tokens]]
  BY CausesAssumption DEF IInv, TypeOK
<1>3. /\ req' \in [Requests -> Requesting]
      /\ \A q \in Requests \ {r} : req'[q] = req[q]
      /\ req'[r].pc = "insert" /\ req'[r].cause = c
  BY <1>1, <1>2, RequestIs DEF Labels
<1>4. /\ past' \in [Causes -> [asked : BOOLEAN, judged : BOOLEAN, wanted : BOOLEAN,
                               mine : SUBSET Tokens, listed : SUBSET Tokens]]
      /\ \A d \in Causes \ {c} : past'[d] = past[d]
      /\ past'[c].asked
      /\ past'[c].judged = past[c].judged /\ past'[c].listed = past[c].listed
      /\ past[c].asked => past'[c] = past[c]
      /\ ~past[c].asked => /\ past'[c].mine = Listed(c.user)
                           /\ past'[c].wanted = Enabled(c.user, Category(c.type))
  <2>1. CASE past[c].asked
    BY <1>2, <2>1 DEF Trigger
  <2>2. CASE ~past[c].asked
    <3>1. past' = [past EXCEPT ![c].asked = TRUE, ![c].mine = Listed(c.user),
                               ![c].wanted = Enabled(c.user, Category(c.type))]
      BY <2>2 DEF Trigger
    <3>2. Listed(c.user) \in SUBSET Tokens /\ Enabled(c.user, Category(c.type)) \in BOOLEAN
      BY DEF Listed, Enabled
    <3>. QED
      BY <1>2, <2>2, <3>1, <3>2
  <2>. QED
    BY <2>1, <2>2
<1>5. \A u \in Users : Listed(u)' = Listed(u)
  BY <1>1 DEF Listed
<1>6. past'[c] = past[c] \/ \A q \in Requests \ {r} : ~Delivers(q, c)
  BY <1>4 DEF IInv, Knows, Delivers
<1>7. req[r].pc = "idle"
  BY <1>1 DEF MayBegin, At
<1>8. /\ Unique' /\ \A q \in Requests \ {r} : Knows(q)'
      /\ \A d \in Causes \ {c} : Kept(d)'
  BY <1>1, <1>2, <1>3, <1>4, <1>5, <1>6, <1>7, Elsewhere
<1>9. Knows(r)'
  BY <1>3, <1>4 DEF Knows, Inserts, Delivers
<1>10. Kept(c)'
  <2>1. Inserts(r, c)'
    BY <1>3 DEF Inserts
  <2>2. \A q \in Requests : Delivers(q, c)' <=> Delivers(q, c)
    BY <1>3, <1>7 DEF Delivers
  <2>3. /\ (\A q \in Requests : ~Delivers(q, c)') <=> (\A q \in Requests : ~Delivers(q, c))
        /\ (\E q \in Requests : Delivers(q, c)') <=> (\E q \in Requests : Delivers(q, c))
    BY <2>2
  <2>4. Enabled(c.user, Category(c.type))' = Enabled(c.user, Category(c.type))
    BY <1>1 DEF Enabled
  <2>5. CASE past[c].asked
    BY <1>1, <1>2, <1>4, <1>5, <2>1, <2>3, <2>4, <2>5 DEF Kept
  <2>6. CASE ~past[c].asked
    <3>1. ~notice[c].there /\ past[c].listed = {} /\ ~past[c].judged
      BY <1>2, <2>6 DEF Kept
    <3>. QED
      BY <1>1, <1>2, <1>4, <1>5, <2>1, <2>3, <2>4, <2>6, <3>1 DEF Kept
  <2>. QED
    BY <2>5, <2>6
<1>11. TypeOK'
  BY <1>1, <1>3, <1>4 DEF IInv, TypeOK
<1>. QED
  BY <1>8, <1>9, <1>10, <1>11, StepKeeps

\* Only the request that inserts the notice goes on to deliver it.
LEMMA InsertNoticeKeeps ==
    ASSUME IInv, NEW r \in Requests, InsertNotice(r)
    PROVE  IInv'
<1>1. PICK c \in Causes :
        c = req[r].cause /\ req[r].pc = "insert" /\ past[c].asked /\ Inserts(r, c)
  BY DEF IInv, Knows, InsertNotice, At, Inserts
<1>2. UNCHANGED <<device, dead, pref, tries, past, may>>
  BY DEF InsertNotice
<1>3. /\ req \in [Requests -> Requesting] /\ Kept(c) /\ c.user \in Users
      /\ notice \in [Causes -> [there : BOOLEAN, read : 0 .. 2, deleted : 0 .. 2]]
      /\ tries \in [Causes \X Tokens -> Nat] /\ past[c].listed \subseteq Tokens
  BY CausesAssumption DEF IInv, TypeOK
<1>4. \A u \in Users : Listed(u)' = Listed(u)
  BY <1>2 DEF Listed
<1>5. Enabled(c.user, Category(c.type))' = Enabled(c.user, Category(c.type))
  BY <1>2 DEF Enabled
<1>6. CASE notice' = [notice EXCEPT ![c].there = TRUE] /\ ~Notified(c) /\ Goto(r, "preference")
  <2>1. /\ req' \in [Requests -> Requesting]
        /\ \A q \in Requests \ {r} : req'[q] = req[q]
        /\ req'[r].pc = "preference" /\ req'[r].cause = c
    BY <1>1, <1>3, <1>6, GotoIs DEF Labels
  <2>2. ~notice[c].there
    BY <1>6 DEF Notified
  <2>3. /\ notice' \in [Causes -> [there : BOOLEAN, read : 0 .. 2, deleted : 0 .. 2]]
        /\ \A d \in Causes \ {c} : notice'[d] = notice[d]
        /\ notice'[c].there /\ notice'[c].read = notice[c].read
        /\ notice'[c].deleted = notice[c].deleted
    BY <1>3, <1>6
  <2>4. \A q \in Requests \ {r} : ~Delivers(q, c)
    BY <2>2 DEF IInv, Knows, Delivers, Planned
  <2>5. /\ Unique' /\ \A q \in Requests \ {r} : Knows(q)'
        /\ \A d \in Causes \ {c} : Kept(d)'
    BY <1>1, <1>2, <1>3, <1>4, <2>1, <2>3, <2>4, Elsewhere
  <2>6. past[c].listed = {} /\ \A t \in Tokens : tries[<<c, t>>] = 0
    BY <1>3, <2>2 DEF Kept
  <2>7. Knows(r)'
    BY <1>1, <1>2, <2>1, <2>3, <2>6 DEF Knows, Inserts, Delivers
  <2>8. Delivers(r, c)'
    BY <2>1 DEF Delivers
  <2>9. Kept(c)'
    BY <1>1, <1>2, <1>3, <1>4, <1>5, <2>3, <2>6, <2>8 DEF Kept
  <2>10. TypeOK'
    BY <1>2, <2>1, <2>3 DEF IInv, TypeOK
  <2>. QED
    BY <2>5, <2>7, <2>9, <2>10, StepKeeps
<1>7. CASE Notified(c) /\ Done(r) /\ UNCHANGED notice
  <2>1. /\ req' \in [Requests -> Requesting]
        /\ \A q \in Requests \ {r} : req'[q] = req[q]
        /\ req'[r].pc = "idle"
    BY <1>3, <1>7, DoneIs
  <2>2. notice[c].there
    BY <1>7, CausesAssumption DEF Notified, SourceEventId
  <2>3. /\ Unique' /\ \A q \in Requests \ {r} : Knows(q)'
        /\ \A d \in Causes \ {c} : Kept(d)'
    BY <1>1, <1>2, <1>3, <1>4, <1>7, <2>1, Elsewhere
  <2>4. Knows(r)'
    BY <2>1 DEF Knows, Inserts, Delivers
  <2>5. \A q \in Requests : Delivers(q, c)' <=> Delivers(q, c)
    BY <1>1, <2>1 DEF Delivers
  <2>6. /\ (\A q \in Requests : ~Delivers(q, c)') <=> (\A q \in Requests : ~Delivers(q, c))
        /\ (\E q \in Requests : Delivers(q, c)') <=> (\E q \in Requests : Delivers(q, c))
    BY <2>5
  <2>7. Kept(c)'
    BY <1>2, <1>3, <1>4, <1>5, <1>7, <2>2, <2>6 DEF Kept
  <2>8. TypeOK'
    BY <1>2, <1>7, <2>1 DEF IInv, TypeOK
  <2>. QED
    BY <2>3, <2>4, <2>7, <2>8, StepKeeps
<1>. QED
  BY <1>1, <1>6, <1>7 DEF InsertNotice

\* The preference, as it is when it is read.
LEMMA ReadPreferenceKeeps ==
    ASSUME IInv, NEW r \in Requests, ReadPreference(r)
    PROVE  IInv'
<1>1. PICK c \in Causes :
        /\ c = req[r].cause /\ req[r].pc = "preference" /\ past[c].asked /\ Delivers(r, c)
        /\ notice[c].there /\ past[c].listed = {} /\ \A t \in Tokens : tries[<<c, t>>] = 0
  BY DEF IInv, Knows, ReadPreference, At, Delivers
<1>2. UNCHANGED <<device, dead, pref, notice, tries, may>>
  BY DEF ReadPreference
<1>3. /\ req \in [Requests -> Requesting] /\ Kept(c) /\ c.user \in Users
      /\ past \in [Causes -> [asked : BOOLEAN, judged : BOOLEAN, wanted : BOOLEAN,
                              mine : SUBSET Tokens, listed : SUBSET Tokens]]
  BY CausesAssumption DEF IInv, TypeOK
<1>4. \A u \in Users : Listed(u)' = Listed(u)
  BY <1>2 DEF Listed
<1>5. Enabled(c.user, Category(c.type))' = Enabled(c.user, Category(c.type))
  BY <1>2 DEF Enabled
<1>6. \A q \in Requests \ {r} : ~Delivers(q, c)
  BY <1>1 DEF IInv, Unique
<1>7. CASE Enabled(c.user, Category(c.type)) /\ Goto(r, "list") /\ UNCHANGED past
  <2>1. /\ req' \in [Requests -> Requesting]
        /\ \A q \in Requests \ {r} : req'[q] = req[q]
        /\ req'[r].pc = "list" /\ req'[r].cause = c
    BY <1>1, <1>3, <1>7, GotoIs DEF Labels
  <2>2. /\ Unique' /\ \A q \in Requests \ {r} : Knows(q)'
        /\ \A d \in Causes \ {c} : Kept(d)'
    BY <1>1, <1>2, <1>3, <1>4, <1>6, <1>7, <2>1, Elsewhere
  <2>3. past[c].wanted
    BY <1>1, <1>3, <1>7 DEF Kept
  <2>4. Knows(r)'
    BY <1>1, <1>2, <1>7, <2>1, <2>3 DEF Knows, Inserts, Delivers
  <2>5. Delivers(r, c)'
    BY <2>1 DEF Delivers
  <2>6. Kept(c)'
    BY <1>1, <1>2, <1>3, <1>4, <1>5, <1>7, <2>5 DEF Kept
  <2>7. TypeOK'
    BY <1>2, <1>7, <2>1 DEF IInv, TypeOK
  <2>. QED
    BY <2>2, <2>4, <2>6, <2>7, StepKeeps
<1>8. CASE Done(r) /\ past' = [past EXCEPT ![c].judged = TRUE]
  <2>1. /\ req' \in [Requests -> Requesting]
        /\ \A q \in Requests \ {r} : req'[q] = req[q]
        /\ req'[r].pc = "idle"
    BY <1>3, <1>8, DoneIs
  <2>2. /\ past' \in [Causes -> [asked : BOOLEAN, judged : BOOLEAN, wanted : BOOLEAN,
                                 mine : SUBSET Tokens, listed : SUBSET Tokens]]
        /\ \A d \in Causes \ {c} : past'[d] = past[d]
        /\ past'[c].judged /\ past'[c].asked
        /\ past'[c].wanted = past[c].wanted /\ past'[c].mine = past[c].mine
        /\ past'[c].listed = {}
    BY <1>1, <1>3, <1>8
  <2>3. /\ Unique' /\ \A q \in Requests \ {r} : Knows(q)'
        /\ \A d \in Causes \ {c} : Kept(d)'
    BY <1>1, <1>2, <1>3, <1>4, <1>6, <2>1, <2>2, Elsewhere
  <2>4. Knows(r)'
    BY <2>1 DEF Knows, Inserts, Delivers
  <2>5. Kept(c)'
    BY <1>1, <1>2, <1>3, <1>4, <1>5, <2>2 DEF Kept
  <2>6. TypeOK'
    BY <1>2, <2>1, <2>2 DEF IInv, TypeOK
  <2>. QED
    BY <2>3, <2>4, <2>5, <2>6, StepKeeps
<1>. QED
  BY <1>1, <1>7, <1>8 DEF ReadPreference

\* The devices, as they are when they are listed.
LEMMA ListDevicesKeeps ==
    ASSUME IInv, NEW r \in Requests, ListDevices(r)
    PROVE  IInv'
<1>1. PICK c \in Causes :
        /\ c = req[r].cause /\ req[r].pc = "list" /\ past[c].asked /\ Delivers(r, c)
        /\ notice[c].there /\ past[c].wanted
        /\ past[c].listed = {} /\ \A t \in Tokens : tries[<<c, t>>] = 0
  BY DEF IInv, Knows, ListDevices, At, Delivers
<1>2. /\ UNCHANGED <<device, dead, pref, notice, tries, may>>
      /\ past' = [past EXCEPT ![c].judged = TRUE, ![c].listed = Listed(c.user)]
      /\ NextDevice(r, Rows(Listed(c.user)))
  BY <1>1 DEF ListDevices
<1>3. /\ req \in [Requests -> Requesting] /\ Kept(c) /\ c.user \in Users
      /\ past \in [Causes -> [asked : BOOLEAN, judged : BOOLEAN, wanted : BOOLEAN,
                              mine : SUBSET Tokens, listed : SUBSET Tokens]]
      /\ device \in [Tokens -> [owner : Users \cup {Nobody}, active : BOOLEAN, env : Envs]]
  BY CausesAssumption DEF IInv, TypeOK
<1>4. \A u \in Users : Listed(u)' = Listed(u)
  BY <1>2 DEF Listed
<1>5. Enabled(c.user, Category(c.type))' = Enabled(c.user, Category(c.type))
  BY <1>2 DEF Enabled
<1>6. \A q \in Requests \ {r} : ~Delivers(q, c)
  BY <1>1 DEF IInv, Unique
<1>9. Listed(c.user) \in SUBSET Tokens
  BY DEF Listed
<1>7. PICK todo \in SUBSET DeviceRows : todo = Rows(Listed(c.user))
  BY <1>3, <1>9, RowsAre
<1>8. /\ \A row \in todo : row.token \in Listed(c.user)
      /\ \A x, y \in todo : x.token = y.token => x = y
      /\ \A t \in Listed(c.user) : \E row \in todo : row.token = t
  BY <1>3, <1>7, <1>9, RowsAre
<1>10. /\ past' \in [Causes -> [asked : BOOLEAN, judged : BOOLEAN, wanted : BOOLEAN,
                                mine : SUBSET Tokens, listed : SUBSET Tokens]]
       /\ \A d \in Causes \ {c} : past'[d] = past[d]
       /\ past'[c].judged /\ past'[c].asked /\ past'[c].wanted
       /\ past'[c].mine = past[c].mine /\ past'[c].listed = Listed(c.user)
  BY <1>1, <1>2, <1>3, <1>9
<1>11. Planned(c, todo)'
  <2>1. \A t \in Tokens : tries'[<<c, t>>] =
          IF t \in past'[c].listed /\ \A row \in todo : row.token # t THEN 1 ELSE 0
    BY <1>1, <1>2, <1>8, <1>10
  <2>2. notice'[c].there
    BY <1>1, <1>2
  <2>3. \A row \in todo : row.token \in past'[c].listed
    BY <1>8, <1>10
  <2>. QED
    BY <1>8, <1>10, <2>1, <2>2, <2>3 DEF Planned
<1>12. /\ req' \in [Requests -> Requesting]
       /\ \A q \in Requests \ {r} : req'[q] = req[q]
       /\ req'[r].pc = "idle" \/ req'[r].cause = c
       /\ Knows(r)'
       /\ ~Delivers(r, c)' => todo = {}
  BY <1>1, <1>2, <1>3, <1>7, <1>10, <1>11, NextDeviceKnows
<1>13. /\ Unique' /\ \A q \in Requests \ {r} : Knows(q)'
       /\ \A d \in Causes \ {c} : Kept(d)'
  <2>1. UNCHANGED <<pref, may, notice, tries>>
    BY <1>2
  <2>2. req' \in [Requests -> Requesting]
    BY <1>12
  <2>. QED
    BY <1>1, <1>3, <1>4, <1>6, <1>10, <1>12, <2>1, <2>2, Elsewhere
<1>14. Kept(c)'
  <2>1. (\A q \in Requests : ~Delivers(q, c)') => Listed(c.user) = {}
    BY <1>8, <1>12
  <2>. QED
    BY <1>1, <1>2, <1>3, <1>4, <1>10, <2>1, SMTT(60) DEF Kept
<1>15. TypeOK'
  BY <1>2, <1>10, <1>12 DEF IInv, TypeOK
<1>. QED
  BY <1>12, <1>13, <1>14, <1>15, StepKeeps

\* A request that dies, or whose call throws in front of the loop.
LEMMA AbortKeeps ==
    ASSUME IInv, NEW r \in Requests, Abort(r)
    PROVE  IInv'
<1>1. PICK c \in Causes : c = req[r].cause /\ req[r].pc # "idle"
  BY DEF IInv, Knows, Abort, At
<1>2. UNCHANGED <<device, dead, pref, notice, tries, past, may>> /\ may \cap {"kill", "fail"} # {}
  BY DEF Abort
<1>3. /\ req' \in [Requests -> Requesting]
      /\ \A q \in Requests \ {r} : req'[q] = req[q]
      /\ req'[r].pc = "idle"
  BY DoneIs DEF IInv, TypeOK, Abort
<1>4. \A u \in Users : Listed(u)' = Listed(u)
  BY <1>2 DEF Listed
<1>5. /\ Unique' /\ \A q \in Requests \ {r} : Knows(q)'
      /\ \A d \in Causes \ {c} : Kept(d)'
  BY <1>1, <1>2, <1>3, <1>4, Elsewhere DEF IInv, TypeOK
<1>6. Knows(r)'
  BY <1>3 DEF Knows, Inserts, Delivers
<1>7. Kept(c)'
  <2>1. Kept(c) /\ c.user \in Users
    BY CausesAssumption DEF IInv
  <2>2. Enabled(c.user, Category(c.type))' = Enabled(c.user, Category(c.type))
    BY <1>2 DEF Enabled
  <2>3. ASSUME "kill" \notin may, \A q \in Requests : ~Delivers(q, c)'
        PROVE  \A t \in past[c].listed : tries[<<c, t>>] = 1
    <3>1. CASE \A q \in Requests : ~Delivers(q, c)
      BY <2>1, <2>3, <3>1 DEF Kept
    <3>2. CASE Delivers(r, c)
      BY <2>3, <3>2 DEF IInv, Knows, Delivers, Abort, At
    <3>. QED
      BY <1>3, <2>3, <3>1, <3>2 DEF Delivers
  <2>. QED
    BY <1>2, <1>4, <2>1, <2>2, <2>3 DEF Kept
<1>8. TypeOK'
  BY <1>2, <1>3 DEF IInv, TypeOK
<1>. QED
  BY <1>5, <1>6, <1>7, <1>8, StepKeeps

-----------------------------------------------------------------------------
(* The inbox, the phones and the preferences                                *)

\* A request on a notice begins.
LEMMA BeginKeeps ==
    ASSUME IInv, NEW r \in Requests, NEW c \in Causes, ReadBegin(r, c) \/ DeleteBegin(r, c)
    PROVE  IInv'
<1>1. /\ UNCHANGED <<device, dead, pref, notice, tries, past, may>>
      /\ MayBegin(r) /\ req[r].pc = "idle"
  BY DEF ReadBegin, DeleteBegin, MayBegin, At
<1>2. /\ req' \in [Requests -> Requesting]
      /\ \A q \in Requests \ {r} : req'[q] = req[q]
      /\ \/ req'[r].pc = "read" /\ notice[c].read = 0
         \/ req'[r].pc = "delete"
      /\ req'[r].cause = c
  <2>1. req \in [Requests -> Requesting] /\ "read" \in Labels /\ "delete" \in Labels
    BY DEF IInv, TypeOK, Labels
  <2>2. CASE Become(r, Request("read", c)) /\ notice[c].read = 0
    BY <2>1, <2>2, BeginIs
  <2>3. CASE Become(r, Request("delete", c))
    BY <2>1, <2>3, BeginIs
  <2>. QED
    BY <2>2, <2>3 DEF ReadBegin, DeleteBegin
<1>3. \A u \in Users : Listed(u)' = Listed(u)
  BY <1>1 DEF Listed
<1>4. /\ Unique' /\ \A q \in Requests \ {r} : Knows(q)'
      /\ \A d \in Causes \ {c} : Kept(d)'
  BY <1>1, <1>2, <1>3, Elsewhere DEF IInv, TypeOK
<1>5. Knows(r)'
  BY <1>1, <1>2 DEF Knows, Inserts, Delivers
<1>6. Kept(c)'
  <2>1. Kept(c) /\ c.user \in Users
    BY CausesAssumption DEF IInv
  <2>2. Enabled(c.user, Category(c.type))' = Enabled(c.user, Category(c.type))
    BY <1>1 DEF Enabled
  <2>3. \A q \in Requests : (Delivers(q, c)' <=> Delivers(q, c)) /\ (Inserts(q, c)' <=> Inserts(q, c))
    BY <1>1, <1>2 DEF Delivers, Inserts
  <2>4. /\ (\A q \in Requests : ~Delivers(q, c)') <=> (\A q \in Requests : ~Delivers(q, c))
        /\ (\E q \in Requests : Delivers(q, c)') <=> (\E q \in Requests : Delivers(q, c))
        /\ (\E q \in Requests : Inserts(q, c)') <=> (\E q \in Requests : Inserts(q, c))
    BY <2>3
  <2>. QED
    BY <1>1, <1>3, <2>1, <2>2, <2>4 DEF Kept
<1>7. TypeOK'
  BY <1>1, <1>2 DEF IInv, TypeOK
<1>. QED
  BY <1>4, <1>5, <1>6, <1>7, StepKeeps

\* Its update stamps the notice once.
LEMMA StampKeeps ==
    ASSUME IInv, NEW r \in Requests, Read(r) \/ Delete(r)
    PROVE  IInv'
<1>1. PICK c \in Causes :
        /\ c = req[r].cause /\ req[r].pc \in {"read", "delete"}
        /\ req[r].pc = "read" /\ "race" \notin may => notice[c].read = 0
  BY DEF IInv, Knows, Read, Delete, At
<1>2. UNCHANGED <<device, dead, pref, tries, past, may>>
  BY DEF Read, Delete
<1>3. /\ req' \in [Requests -> Requesting]
      /\ \A q \in Requests \ {r} : req'[q] = req[q]
      /\ req'[r].pc = "idle"
  BY DoneIs DEF IInv, TypeOK, Read, Delete
<1>4. \A u \in Users : Listed(u)' = Listed(u)
  BY <1>2 DEF Listed
<1>5. Kept(c) /\ c.user \in Users
  BY CausesAssumption DEF IInv
<1>6. /\ notice' \in [Causes -> [there : BOOLEAN, read : 0 .. 2, deleted : 0 .. 2]]
      /\ \A d \in Causes \ {c} : notice'[d] = notice[d]
      /\ notice'[c].there = notice[c].there
      /\ notice'[c].deleted <= 1
      /\ "race" \notin may => notice'[c].read <= 1
  <2>1. /\ notice \in [Causes -> [there : BOOLEAN, read : 0 .. 2, deleted : 0 .. 2]]
        /\ notice[c].deleted <= 1 /\ ("race" \notin may => notice[c].read <= 1)
    BY <1>5 DEF IInv, TypeOK, Kept
  <2>2. CASE Read(r)
    <3>1. notice' = [notice EXCEPT ![c].read = Stamp(notice[c].read)]
      BY <1>1, <2>2 DEF Read
    <3>2. Stamp(notice[c].read) \in 0 .. 2
      BY <2>1 DEF Stamp
    <3>3. "race" \notin may => Stamp(notice[c].read) <= 1
      BY <1>1, <2>2 DEF Read, At, Stamp
    <3>. QED
      BY <2>1, <3>1, <3>2, <3>3
  <2>3. CASE Delete(r)
    <3>1. notice' = [notice EXCEPT ![c] = Deleted(notice[c])]
      BY <1>1, <2>3 DEF Delete
    <3>2. /\ Deleted(notice[c]) \in [there : BOOLEAN, read : 0 .. 2, deleted : 0 .. 2]
          /\ Deleted(notice[c]).there = notice[c].there
          /\ Deleted(notice[c]).read = notice[c].read
          /\ Deleted(notice[c]).deleted <= 1
      BY <2>1 DEF Deleted, Stamp
    <3>. QED
      BY <2>1, <3>1, <3>2
  <2>. QED
    BY <2>2, <2>3
<1>7. /\ Unique' /\ \A q \in Requests \ {r} : Knows(q)'
      /\ \A d \in Causes \ {c} : Kept(d)'
  BY <1>1, <1>2, <1>3, <1>4, <1>6, Elsewhere DEF IInv, TypeOK
<1>8. Knows(r)'
  BY <1>3 DEF Knows, Inserts, Delivers
<1>9. Kept(c)'
  <2>1. Enabled(c.user, Category(c.type))' = Enabled(c.user, Category(c.type))
    BY <1>2 DEF Enabled
  <2>2. \A q \in Requests : (Delivers(q, c)' <=> Delivers(q, c)) /\ (Inserts(q, c)' <=> Inserts(q, c))
    BY <1>1, <1>3 DEF Delivers, Inserts
  <2>3. /\ (\A q \in Requests : ~Delivers(q, c)') <=> (\A q \in Requests : ~Delivers(q, c))
        /\ (\E q \in Requests : Delivers(q, c)') <=> (\E q \in Requests : Delivers(q, c))
        /\ (\E q \in Requests : Inserts(q, c)') <=> (\E q \in Requests : Inserts(q, c))
    BY <2>2
  <2>. QED
    BY <1>2, <1>4, <1>5, <1>6, <2>1, <2>3 DEF Kept
<1>10. TypeOK'
  BY <1>2, <1>3, <1>6 DEF IInv, TypeOK
<1>. QED
  BY <1>7, <1>8, <1>9, <1>10, StepKeeps

\* What the users do changes no delivery; it may make more phones the
\* recipient's, and more pushes wanted.
LEMMA UsersKeep ==
    ASSUME IInv, UNCHANGED <<req, tries, may>>, TypeOK',
           \A c \in Causes :
             /\ notice'[c].there = notice[c].there /\ notice'[c].deleted = notice[c].deleted
             /\ past'[c].asked = past[c].asked /\ past'[c].judged = past[c].judged
             /\ past'[c].listed = past[c].listed
             /\ past[c].wanted => past'[c].wanted
             /\ past[c].mine \subseteq past'[c].mine
             /\ past'[c].asked =>
                  /\ Listed(c.user)' \subseteq past'[c].mine
                  /\ Enabled(c.user, Category(c.type))' => past'[c].wanted,
           "race" \notin may =>
             \A c \in Causes :
                /\ notice'[c].read <= 1
                /\ notice'[c].read = notice[c].read \/ \A r \in Requests : req[r].pc = "idle"
    PROVE  IInv'
<1>1. \A r \in Requests, c \in Causes :
        (Delivers(r, c)' <=> Delivers(r, c)) /\ (Inserts(r, c)' <=> Inserts(r, c))
  BY DEF Delivers, Inserts
<1>2. Unique'
  BY <1>1 DEF IInv, Unique
<1>3. ASSUME NEW r \in Requests PROVE Knows(r)'
  <2>1. Knows(r) /\ Row(r)' = Row(r)
    BY DEF IInv, Row
  <2>2. CASE req[r].pc = "idle"
    BY <2>1, <2>2 DEF Knows, Inserts, Delivers
  <2>3. CASE req[r].pc # "idle"
    <3>1. PICK c \in Causes : c = req[r].cause
      BY <2>1, <2>3 DEF Knows
    <3>2. \A todo : Planned(c, todo) => Planned(c, todo)'
      BY DEF Planned
    <3>3. Planned(c, req[r].todo) => (Planned(req[r].cause, req[r].todo))'
      BY <3>1 DEF Planned
    <3>4. Planned(c, req[r].todo \cup {Row(r)}) => (Planned(req[r].cause, req[r].todo \cup {Row(r)}))'
      BY <2>1, <3>1 DEF Planned
    <3>5. "race" \notin may => notice'[c].read = notice[c].read
      BY <2>3
    <3>. QED
      BY <2>1, <2>3, <3>1, <3>3, <3>4, <3>5 DEF Knows, Inserts, Delivers
  <2>. QED
    BY <2>2, <2>3
<1>4. ASSUME NEW c \in Causes PROVE Kept(c)'
  <2>1. /\ (\A q \in Requests : ~Delivers(q, c)') <=> (\A q \in Requests : ~Delivers(q, c))
        /\ (\E q \in Requests : Delivers(q, c)') <=> (\E q \in Requests : Delivers(q, c))
        /\ (\E q \in Requests : Inserts(q, c)') <=> (\E q \in Requests : Inserts(q, c))
    BY <1>1
  <2>2. Kept(c)
    BY DEF IInv
  <2>. QED
    BY <2>1, <2>2 DEF Kept
<1>. QED
  BY <1>2, <1>3, <1>4 DEF IInv

LEMMA RegisterDeviceKeeps ==
    ASSUME IInv, NEW u \in Users, NEW t \in Tokens, RegisterDevice(u, t)
    PROVE  IInv'
<1>1. /\ UNCHANGED <<dead, pref, notice, req, tries, may>>
      /\ past' = [c \in Causes |-> IF past[c].asked /\ c.user = u
                                   THEN [past[c] EXCEPT !.mine = @ \cup {t}] ELSE past[c]]
  BY DEF RegisterDevice
<1>2. PICK env \in Envs : device' = [device EXCEPT ![t] = [owner |-> u, active |-> TRUE, env |-> env]]
  BY TokensAssumption DEF RegisterDevice, Envs
<1>3. /\ device \in [Tokens -> [owner : Users \cup {Nobody}, active : BOOLEAN, env : Envs]]
      /\ past \in [Causes -> [asked : BOOLEAN, judged : BOOLEAN, wanted : BOOLEAN,
                              mine : SUBSET Tokens, listed : SUBSET Tokens]]
  BY DEF IInv, TypeOK
<1>4. /\ device' \in [Tokens -> [owner : Users \cup {Nobody}, active : BOOLEAN, env : Envs]]
      /\ device'[t].owner = u
      /\ \A x \in Tokens : x # t => device'[x] = device[x]
  BY <1>2, <1>3
<1>5. ASSUME NEW c \in Causes
      PROVE  /\ past'[c] \in [asked : BOOLEAN, judged : BOOLEAN, wanted : BOOLEAN,
                              mine : SUBSET Tokens, listed : SUBSET Tokens]
             /\ past'[c].asked = past[c].asked /\ past'[c].judged = past[c].judged
             /\ past'[c].listed = past[c].listed /\ past'[c].wanted = past[c].wanted
             /\ past'[c].mine = IF past[c].asked /\ c.user = u THEN past[c].mine \cup {t}
                                                            ELSE past[c].mine
  <2>1. past[c] \in [asked : BOOLEAN, judged : BOOLEAN, wanted : BOOLEAN,
                     mine : SUBSET Tokens, listed : SUBSET Tokens]
    BY <1>3
  <2>2. CASE past[c].asked /\ c.user = u
    BY <1>1, <2>1, <2>2
  <2>3. CASE ~(past[c].asked /\ c.user = u)
    BY <1>1, <2>1, <2>3
  <2>. QED
    BY <2>2, <2>3
<1>6. TypeOK'
  <2>1. past' \in [Causes -> [asked : BOOLEAN, judged : BOOLEAN, wanted : BOOLEAN,
                              mine : SUBSET Tokens, listed : SUBSET Tokens]]
    BY <1>1, <1>5
  <2>. QED
    BY <1>1, <1>4, <2>1 DEF IInv, TypeOK
<1>7. ASSUME NEW c \in Causes, past[c].asked
      PROVE  /\ Listed(c.user)' \subseteq past'[c].mine
             /\ Enabled(c.user, Category(c.type))' => past'[c].wanted
  <2>1. Listed(c.user) \subseteq past[c].mine /\ (Enabled(c.user, Category(c.type)) => past[c].wanted)
    BY <1>7 DEF IInv, Kept
  <2>2. Listed(c.user)' \subseteq Listed(c.user) \cup (IF c.user = u THEN {t} ELSE {})
    BY <1>4 DEF Listed
  <2>3. Enabled(c.user, Category(c.type))' = Enabled(c.user, Category(c.type))
    BY <1>1 DEF Enabled
  <2>. QED
    BY <1>5, <1>7, <2>1, <2>2, <2>3
<1>8. "race" \notin may => \A c \in Causes : notice[c].read <= 1
  BY DEF IInv, Kept
<1>. QED
  BY <1>1, <1>5, <1>6, <1>7, <1>8, UsersKeep

LEMMA RemovalKeeps ==
    ASSUME IInv, NEW t \in Tokens, Uninstall(t) \/ \E u \in Users : RemoveDevice(u, t)
    PROVE  IInv'
<1>1. UNCHANGED <<pref, notice, req, tries, past, may>> /\ dead' \subseteq Tokens
  BY DEF Uninstall, RemoveDevice, IInv, TypeOK
<1>2. device \in [Tokens -> [owner : Users \cup {Nobody}, active : BOOLEAN, env : Envs]]
  BY DEF IInv, TypeOK
<1>3. /\ device' \in [Tokens -> [owner : Users \cup {Nobody}, active : BOOLEAN, env : Envs]]
      /\ \A x \in Tokens : device'[x].owner = device[x].owner
                           /\ (device'[x].active => device[x].active)
  <2>1. CASE device' = [device EXCEPT ![t].active = FALSE]
    <3>1. \A x \in Tokens : x # t => device'[x] = device[x]
      BY <1>2, <2>1
    <3>2. device'[t].owner = device[t].owner /\ ~device'[t].active
      BY <1>2, <2>1
    <3>3. device' \in [Tokens -> [owner : Users \cup {Nobody}, active : BOOLEAN, env : Envs]]
      BY <1>2, <2>1
    <3>. QED
      BY <3>1, <3>2, <3>3
  <2>2. CASE UNCHANGED device
    BY <1>2, <2>2
  <2>. QED
    BY <2>1, <2>2 DEF Uninstall, RemoveDevice
<1>4. \A u : Listed(u)' \subseteq Listed(u)
  BY <1>3 DEF Listed
<1>5. TypeOK'
  BY <1>1, <1>3 DEF IInv, TypeOK
<1>6. ASSUME NEW c \in Causes, past[c].asked
      PROVE  /\ Listed(c.user)' \subseteq past[c].mine
             /\ Enabled(c.user, Category(c.type))' => past[c].wanted
  BY <1>1, <1>4, <1>6 DEF IInv, Kept, Enabled
<1>7. "race" \notin may => \A c \in Causes : notice[c].read <= 1
  BY DEF IInv, Kept
<1>. QED
  BY <1>1, <1>5, <1>6, <1>7, UsersKeep

LEMMA UpdatePreferencesKeeps ==
    ASSUME IInv, NEW u \in Users, NEW given \in Choices, UpdatePreferences(u, given)
    PROVE  IInv'
<1>1. PICK choice \in [given -> {"on", "off"}] :
        /\ pref' = [x \in Users \X Categories |->
                      IF x[1] = u /\ x[2] \in given THEN choice[x[2]] ELSE pref[x]]
        /\ past' = [c \in Causes |->
                      IF /\ past[c].asked /\ c.user = u
                         /\ Category(c.type) \in given /\ choice[Category(c.type)] = "on"
                      THEN [past[c] EXCEPT !.wanted = TRUE] ELSE past[c]]
  BY DEF UpdatePreferences
<1>2. UNCHANGED <<device, dead, notice, req, tries, may>>
  BY DEF UpdatePreferences
<1>3. /\ pref \in [Users \X Categories -> {"none", "on", "off"}]
      /\ past \in [Causes -> [asked : BOOLEAN, judged : BOOLEAN, wanted : BOOLEAN,
                              mine : SUBSET Tokens, listed : SUBSET Tokens]]
  BY DEF IInv, TypeOK
<1>4. ASSUME NEW c \in Causes
      PROVE  /\ past'[c] \in [asked : BOOLEAN, judged : BOOLEAN, wanted : BOOLEAN,
                              mine : SUBSET Tokens, listed : SUBSET Tokens]
             /\ past'[c].asked = past[c].asked /\ past'[c].judged = past[c].judged
             /\ past'[c].listed = past[c].listed /\ past'[c].mine = past[c].mine
             /\ past[c].wanted => past'[c].wanted
             /\ past[c].asked /\ c.user = u /\ Category(c.type) \in given
                  /\ choice[Category(c.type)] = "on" => past'[c].wanted
  <2>1. past[c] \in [asked : BOOLEAN, judged : BOOLEAN, wanted : BOOLEAN,
                     mine : SUBSET Tokens, listed : SUBSET Tokens]
    BY <1>3
  <2>2. CASE /\ past[c].asked /\ c.user = u
             /\ Category(c.type) \in given /\ choice[Category(c.type)] = "on"
    BY <1>1, <2>1, <2>2
  <2>3. CASE ~(/\ past[c].asked /\ c.user = u
               /\ Category(c.type) \in given /\ choice[Category(c.type)] = "on")
    BY <1>1, <2>1, <2>3
  <2>. QED
    BY <2>2, <2>3
<1>5. ASSUME NEW x \in Users \X Categories
      PROVE  /\ pref'[x] \in {"none", "on", "off"}
             /\ pref'[x] = IF x[1] = u /\ x[2] \in given THEN choice[x[2]] ELSE pref[x]
  BY <1>1, <1>3
<1>6. TypeOK'
  <2>1. past' \in [Causes -> [asked : BOOLEAN, judged : BOOLEAN, wanted : BOOLEAN,
                              mine : SUBSET Tokens, listed : SUBSET Tokens]]
    BY <1>1, <1>4
  <2>2. pref' \in [Users \X Categories -> {"none", "on", "off"}]
    BY <1>1, <1>5
  <2>. QED
    BY <1>2, <2>1, <2>2 DEF IInv, TypeOK
<1>7. ASSUME NEW c \in Causes, past[c].asked
      PROVE  /\ Listed(c.user)' \subseteq past'[c].mine
             /\ Enabled(c.user, Category(c.type))' => past'[c].wanted
  <2>1. Listed(c.user) \subseteq past[c].mine /\ (Enabled(c.user, Category(c.type)) => past[c].wanted)
    BY <1>7 DEF IInv, Kept
  <2>2. Listed(c.user)' = Listed(c.user)
    BY <1>2 DEF Listed
  <2>3. c.user \in Users /\ Category(c.type) \in Categories
    BY CausesAssumption DEF Category, Categories
  <2>4. pref'[<<c.user, Category(c.type)>>] =
          IF c.user = u /\ Category(c.type) \in given THEN choice[Category(c.type)]
                                                      ELSE pref[<<c.user, Category(c.type)>>]
    BY <1>5, <2>3
  <2>5. choice[Category(c.type)] \in {"on", "off"} \/ Category(c.type) \notin given
    BY <1>1
  <2>. QED
    BY <1>4, <1>7, <2>1, <2>2, <2>4, <2>5 DEF Enabled
<1>8. "race" \notin may => \A c \in Causes : notice[c].read <= 1
  BY DEF IInv, Kept
<1>. QED
  BY <1>2, <1>4, <1>6, <1>7, <1>8, UsersKeep

LEMMA ReadAllKeeps ==
    ASSUME IInv, NEW u \in Users, ReadAll(u)
    PROVE  IInv'
<1>1. /\ UNCHANGED <<device, dead, pref, req, tries, past, may>>
      /\ "race" \notin may => \A r \in Requests : req[r].pc = "idle"
      /\ notice' = [c \in Causes |-> IF c \in Inbox(u) /\ notice[c].read = 0
                                     THEN [notice[c] EXCEPT !.read = Stamp(notice[c].read)]
                                     ELSE notice[c]]
  BY DEF ReadAll, Alone, At
<1>2. notice \in [Causes -> [there : BOOLEAN, read : 0 .. 2, deleted : 0 .. 2]]
  BY DEF IInv, TypeOK
<1>3. ASSUME NEW c \in Causes
      PROVE  /\ notice'[c] \in [there : BOOLEAN, read : 0 .. 2, deleted : 0 .. 2]
             /\ notice'[c].there = notice[c].there /\ notice'[c].deleted = notice[c].deleted
             /\ "race" \notin may => notice'[c].read <= 1
  <2>1. /\ notice[c] \in [there : BOOLEAN, read : 0 .. 2, deleted : 0 .. 2]
        /\ "race" \notin may => notice[c].read <= 1
    BY <1>2 DEF IInv, Kept
  <2>2. CASE c \in Inbox(u) /\ notice[c].read = 0
    <3>1. Stamp(notice[c].read) = 1
      BY <2>2 DEF Stamp
    <3>. QED
      BY <1>1, <2>1, <2>2, <3>1
  <2>3. CASE ~(c \in Inbox(u) /\ notice[c].read = 0)
    BY <1>1, <2>1, <2>3
  <2>. QED
    BY <2>2, <2>3
<1>4. TypeOK'
  <2>1. notice' \in [Causes -> [there : BOOLEAN, read : 0 .. 2, deleted : 0 .. 2]]
    BY <1>1, <1>3
  <2>. QED
    BY <1>1, <2>1 DEF IInv, TypeOK
<1>5. ASSUME NEW c \in Causes, past[c].asked
      PROVE  /\ Listed(c.user)' \subseteq past[c].mine
             /\ Enabled(c.user, Category(c.type))' => past[c].wanted
  BY <1>1, <1>5 DEF IInv, Kept, Enabled, Listed
<1>. QED
  BY <1>1, <1>3, <1>4, <1>5, UsersKeep

-----------------------------------------------------------------------------
LEMMA InitIInv == Init => IInv
<1>. SUFFICES ASSUME Init PROVE IInv
  OBVIOUS
<1>1. \A r \in Requests : req[r].pc = "idle"
  BY DEF Init, Idle, Request
<1>2. TypeOK
  <2>1. device \in [Tokens -> [owner : Users \cup {Nobody}, active : BOOLEAN, env : Envs]]
    <3>1. NoDevice \in [owner : Users \cup {Nobody}, active : BOOLEAN, env : Envs]
      BY DEF NoDevice, Envs
    <3>2. ASSUME NEW d \in Registered
          PROVE  d \in [owner : Users \cup {Nobody}, active : BOOLEAN, env : Envs]
      <4>1. PICK u \in Users, e \in Envs : d = [owner |-> u, active |-> TRUE, env |-> e]
        BY DEF Registered, Envs
      <4>. QED
        BY <4>1
    <3>3. device \in [Tokens -> {NoDevice} \cup (IF "phones" \in may THEN {} ELSE Registered)]
      BY DEF Init
    <3>. QED
      BY <3>1, <3>2, <3>3
  <2>2. req \in [Requests -> Requesting]
    BY DEF Init, Idle, Request, Requesting, Labels, Envs
  <2>. QED
    BY <2>1, <2>2 DEF Init, TypeOK, NoNotice, NoPast
<1>3. \A r \in Requests : Knows(r)
  BY <1>1 DEF Knows, Inserts, Delivers
<1>4. Unique
  BY <1>1 DEF Unique, Delivers
<1>5. \A c \in Causes : Kept(c)
  BY DEF Init, Kept, NoNotice, NoPast
<1>. QED
  BY <1>2, <1>3, <1>4, <1>5 DEF IInv

LEMMA NextIInv == IInv /\ [Next]_vars => IInv'
<1>. SUFFICES ASSUME IInv, [Next]_vars PROVE IInv'
  OBVIOUS
<1>1. ASSUME NEW r \in Requests, NEW c \in Causes,
             Trigger(r, c) \/ ReadBegin(r, c) \/ DeleteBegin(r, c)
      PROVE  IInv'
  BY <1>1, TriggerKeeps, BeginKeeps
<1>2. ASSUME NEW r \in Requests,
             \/ InsertNotice(r) \/ ReadPreference(r) \/ ListDevices(r)
             \/ Send(r) \/ Log(r) \/ Deactivate(r) \/ Abort(r) \/ Read(r) \/ Delete(r)
      PROVE  IInv'
  BY <1>2, InsertNoticeKeeps, ReadPreferenceKeeps, ListDevicesKeeps, SendKeeps, LogKeeps,
     DeactivateKeeps, AbortKeeps, StampKeeps
<1>3. ASSUME \/ \E u \in Users, t \in Tokens : RegisterDevice(u, t) \/ RemoveDevice(u, t)
             \/ \E t \in Tokens : Uninstall(t)
             \/ \E u \in Users : ReadAll(u) \/ \E g \in Choices : UpdatePreferences(u, g)
      PROVE  IInv'
  BY <1>3, RegisterDeviceKeeps, RemovalKeeps, ReadAllKeeps, UpdatePreferencesKeeps
<1>4. CASE UNCHANGED vars
  <2>1. UNCHANGED <<device, dead, pref, notice, req, tries, past, may>>
    BY <1>4 DEF vars
  <2>2. TypeOK' /\ Unique'
    BY <2>1 DEF IInv, TypeOK, Unique, Delivers
  <2>3. \A c \in Causes : Kept(c)'
    BY <2>1 DEF IInv, Kept, Delivers, Inserts, Listed, Enabled
  <2>4. \A r \in Requests : Knows(r)'
    BY <2>1 DEF IInv, Knows, Delivers, Inserts, Planned, Row
  <2>. QED
    BY <2>2, <2>3, <2>4 DEF IInv
<1>. QED
  BY <1>1, <1>2, <1>3, <1>4 DEF Next

THEOREM Inductive == Spec => []IInv
BY InitIInv, NextIInv, PTL DEF Spec

\* Every variable keeps its shape.
THEOREM TypeCorrect == Spec => []TypeOK
<1>1. IInv => TypeOK
  BY DEF IInv
<1>. QED
  BY <1>1, Inductive, PTL

\* A cause is pushed to no phone twice; every phone that was listed is tried,
\* and everybody who is to be notified is, as far as nothing failed.
THEOREM FanOutWhole == Spec => []FanOutIsWhole
<1>1. ASSUME IInv PROVE FanOutIsWhole
  <2>1. \A x \in Causes \X Tokens : tries[x] <= 1
    <3>1. \A c \in Causes, t \in Tokens : tries[<<c, t>>] <= 1
      BY <1>1 DEF IInv, Kept
    <3>. QED
      BY <3>1
  <2>2. ASSUME NEW c \in Causes, Working(c) = {}
        PROVE  /\ "kill" \notin may => \A t \in past[c].listed : tries[<<c, t>>] = 1
               /\ past[c].asked /\ may \cap {"kill", "fail"} = {} => notice[c].there /\ past[c].judged
    <3>1. \A r \in Requests : ~Delivers(r, c) /\ ~Inserts(r, c)
      BY <2>2 DEF Working, Delivers, Inserts
    <3>. QED
      BY <1>1, <3>1 DEF IInv, Kept
  <2>. QED
    BY <2>1, <2>2 DEF FanOutIsWhole
<1>. QED
  BY <1>1, Inductive, PTL

\* A push arrives only at a phone of its recipient, who wanted it.
THEOREM RecipientReached == Spec => []ReachesRecipient
<1>1. IInv => ReachesRecipient
  BY DEF IInv, Kept, ReachesRecipient
<1>. QED
  BY <1>1, Inductive, PTL

\* A deletion is stamped once and keeps its notice; so is, without overlap, a
\* reading.
THEOREM Stamped == Spec => []StampedOnce
<1>1. IInv => StampedOnce
  BY DEF IInv, Kept, StampedOnce
<1>. QED
  BY <1>1, Inductive, PTL

-----------------------------------------------------------------------------
(* Which phones go silent.                                                  *)

\* Apple cannot reach the phone, or is asked in the wrong place.
Lost(t) == t \in dead \/ (device[t].env = "null" /\ Home[t] # Default)

\* When nothing interferes, a request in the loop has the devices as they are,
\* and Apple has called a token invalid for a reason.
Informed(r) ==
    "race" \notin may /\ req[r].pc \in {"send", "log", "deactivate"} =>
        /\ \A row \in req[r].todo : row.env = device[row.token].env
        /\ req[r].env = device[req[r].token].env
        /\ req[r].pc = "deactivate" \/ (req[r].pc = "log" /\ req[r].status = "invalid_token")
             => Lost(req[r].token)

Told ==
    /\ \A t \in Tokens : device[t].env \in {Home[t], "null"}
    /\ \A r \in Requests : Informed(r)

\* On to the next device: its row is as it was read.
LEMMA NextDeviceInformed ==
    ASSUME NEW r \in Requests, req \in [Requests -> Requesting],
           NEW todo \in SUBSET DeviceRows, NextDevice(r, todo),
           "race" \notin may => \A row \in todo : row.env = device'[row.token].env,
           UNCHANGED may
    PROVE  Informed(r)' /\ \A q \in Requests \ {r} : req'[q] = req[q]
<1>1. CASE Done(r)
  BY <1>1, DoneIs DEF Informed
<1>2. ASSUME NEW row \in todo,
             Become(r, [req[r] EXCEPT !.pc = "send", !.token = row.token,
                                      !.env = row.env, !.todo = todo \ {row}])
      PROVE  Informed(r)' /\ \A q \in Requests \ {r} : req'[q] = req[q]
  <2>1. req[r] \in Requesting
    OBVIOUS
  <2>2. /\ req'[r].pc = "send" /\ req'[r].todo = todo \ {row}
        /\ req'[r].token = row.token /\ req'[r].env = row.env
        /\ \A q \in Requests \ {r} : req'[q] = req[q]
    BY <1>2, <2>1 DEF Become, Requesting
  <2>. QED
    BY <2>2 DEF Informed
<1>. QED
  BY <1>1, <1>2 DEF NextDevice

\* What the others know stays so when the devices do, or keep their
\* environments.
LEMMA OthersInformed ==
    ASSUME Told, IInv, NEW r \in Requests, UNCHANGED <<dead, may>>,
           \A q \in Requests \ {r} : req'[q] = req[q],
           \A t \in Tokens : device'[t].env = device[t].env
    PROVE  \A q \in Requests \ {r} : Informed(q)'
<1>. SUFFICES ASSUME NEW q \in Requests \ {r} PROVE Informed(q)'
  OBVIOUS
<1>1. Informed(q) /\ Knows(q) /\ req[q] \in Requesting
  BY DEF Told, IInv, TypeOK
<1>2. \A row \in req[q].todo : row.token \in Tokens
  BY <1>1 DEF Requesting, DeviceRows
<1>3. req[q].pc \in {"send", "log", "deactivate"} => req[q].token \in Tokens
  BY <1>1 DEF Knows, Row, DeviceRows
<1>. QED
  BY <1>1, <1>2, <1>3 DEF Informed, Lost

LEMMA LoopTold ==
    ASSUME Told, IInv, NEW r \in Requests, Log(r) \/ Deactivate(r)
    PROVE  Told'
<1>1. req \in [Requests -> Requesting] /\ Informed(r) /\ Knows(r)
      /\ device \in [Tokens -> [owner : Users \cup {Nobody}, active : BOOLEAN, env : Envs]]
  BY DEF IInv, TypeOK, Told
<1>2. PICK todo \in SUBSET DeviceRows : todo = req[r].todo
  BY <1>1 DEF Requesting
<1>3. /\ req[r].pc \in {"log", "deactivate"} /\ req[r].token \in Tokens
      /\ UNCHANGED <<dead, may>>
  BY <1>1 DEF Log, Deactivate, At, Knows
<1>4. \A t \in Tokens : device'[t].env = device[t].env
  BY <1>1, <1>3 DEF Log, Deactivate
<1>5. "race" \notin may => \A row \in todo : row.env = device'[row.token].env
  BY <1>1, <1>2, <1>3, <1>4 DEF Informed, DeviceRows
<1>6. CASE NextDevice(r, req[r].todo)
  <2>1. Informed(r)' /\ \A q \in Requests \ {r} : req'[q] = req[q]
    BY <1>1, <1>2, <1>3, <1>5, <1>6, NextDeviceInformed
  <2>. QED
    BY <1>3, <1>4, <2>1, OthersInformed DEF Told
<1>7. CASE Log(r) /\ Goto(r, "deactivate") /\ req[r].status = "invalid_token"
  <2>1. /\ req'[r].pc = "deactivate" /\ req'[r].todo = req[r].todo
        /\ req'[r].token = req[r].token /\ req'[r].env = req[r].env
        /\ \A q \in Requests \ {r} : req'[q] = req[q]
    BY <1>1, <1>7 DEF Goto, Requesting
  <2>2. UNCHANGED <<device, dead, may>> /\ req[r].pc = "log"
    BY <1>7 DEF Log, At
  <2>3. Informed(r)'
    BY <1>1, <1>7, <2>1, <2>2 DEF Informed, Lost
  <2>. QED
    BY <1>3, <1>4, <2>1, <2>3, OthersInformed DEF Told
<1>. QED
  BY <1>6, <1>7 DEF Log, Deactivate

LEMMA ListDevicesTold ==
    ASSUME Told, IInv, NEW r \in Requests, ListDevices(r)
    PROVE  Told'
<1>1. PICK c \in Causes : c = req[r].cause
  BY DEF IInv, Knows, ListDevices, At
<1>2. UNCHANGED <<device, dead, may>> /\ NextDevice(r, Rows(Listed(c.user)))
  BY <1>1 DEF ListDevices
<1>3. /\ req \in [Requests -> Requesting] /\ Listed(c.user) \in SUBSET Tokens
      /\ device \in [Tokens -> [owner : Users \cup {Nobody}, active : BOOLEAN, env : Envs]]
  BY DEF IInv, TypeOK, Listed
<1>4. PICK todo \in SUBSET DeviceRows : todo = Rows(Listed(c.user))
  BY <1>3, RowsAre
<1>5. \A row \in todo : row.env = device[row.token].env
  BY <1>4 DEF Rows
<1>6. Informed(r)' /\ \A q \in Requests \ {r} : req'[q] = req[q]
  BY <1>2, <1>3, <1>4, <1>5, NextDeviceInformed
<1>. QED
  BY <1>2, <1>6, OthersInformed DEF Told

\* Apple calls a token invalid that it cannot place, or does not have.
LEMMA SendTold ==
    ASSUME Told, IInv, NEW r \in Requests, Send(r)
    PROVE  Told'
<1>1. PICK t \in Tokens : t = req[r].token /\ req[r].pc = "send"
  BY DEF IInv, Knows, Send, At, Row, DeviceRows
<1>2. UNCHANGED <<device, dead, may>>
  BY DEF Send
<1>3. PICK st \in Statuses :
        /\ req' = [req EXCEPT ![r] = [req[r] EXCEPT !.pc = "log", !.status = st]]
        /\ st = "skipped" \/ \E a \in Answers(t, HostFor(req[r].env)) \cup Refusals :
                               st = MapApnsResponse(a)
  <2>1. \A a : MapApnsResponse(a) \in Statuses
    BY DEF MapApnsResponse, Statuses
  <2>2. PICK st \in (IF "disabled" \in may THEN {"skipped"}
                     ELSE {MapApnsResponse(a) : a \in Answers(t, HostFor(req[r].env))
                             \cup (IF "fail" \in may THEN Refusals ELSE {})}) :
          req' = [req EXCEPT ![r] = [req[r] EXCEPT !.pc = "log", !.status = st]]
    BY <1>1 DEF Send, Become
  <2>3. st = "skipped" \/ \E a \in Answers(t, HostFor(req[r].env)) \cup Refusals :
                            st = MapApnsResponse(a)
    BY <2>2
  <2>4. st \in Statuses
    BY <2>1, <2>3 DEF Statuses
  <2>. QED
    BY <2>2, <2>3, <2>4
<1>4. req \in [Requests -> Requesting] /\ Informed(r)
  BY DEF IInv, TypeOK, Told
<1>5. /\ req'[r].pc = "log" /\ req'[r].status = st /\ req'[r].todo = req[r].todo
      /\ req'[r].token = t /\ req'[r].env = req[r].env
      /\ \A q \in Requests \ {r} : req'[q] = req[q]
  BY <1>1, <1>3, <1>4 DEF Requesting
<1>6. st = "invalid_token" => t \in dead \/ HostFor(req[r].env) # Home[t]
  <2>1. \A a \in Refusals : MapApnsResponse(a) = "failed"
    BY DEF Refusals, MapApnsResponse
  <2>2. t \notin dead /\ HostFor(req[r].env) = Home[t] =>
          \A a \in Answers(t, HostFor(req[r].env)) : MapApnsResponse(a) = "sent"
    BY DEF Answers, MapApnsResponse
  <2>. QED
    BY <1>3, <2>1, <2>2
<1>7. "race" \notin may /\ HostFor(req[r].env) # Home[t] => device[t].env = "null" /\ Home[t] # Default
  BY <1>1, <1>4 DEF Informed, HostFor, Told
<1>8. Informed(r)'
  BY <1>1, <1>2, <1>4, <1>5, <1>6, <1>7 DEF Informed, Lost
<1>. QED
  BY <1>2, <1>5, <1>8, OthersInformed DEF Told

\* Outside the loop a request need not know anything.
LEMMA OutsideTold ==
    ASSUME Told, IInv, NEW r \in Requests, UNCHANGED <<device, dead, may>>,
           \A q \in Requests \ {r} : req'[q] = req[q],
           req'[r].pc \notin {"send", "log", "deactivate"}
    PROVE  Told'
BY OthersInformed DEF Told, Informed

LEMMA UsersTold ==
    ASSUME Told, Alone, UNCHANGED <<req, may>>,
           \A t \in Tokens : device'[t].env \in {Home[t], "null"}
    PROVE  Told'
BY DEF Told, Informed, Alone, At

LEMMA NextTold == Told /\ IInv /\ [Next]_vars => Told'
<1>. SUFFICES ASSUME Told, IInv, [Next]_vars PROVE Told'
  OBVIOUS
<1>0. req \in [Requests -> Requesting]
      /\ device \in [Tokens -> [owner : Users \cup {Nobody}, active : BOOLEAN, env : Envs]]
  BY DEF IInv, TypeOK
<1>1. ASSUME NEW r \in Requests, NEW c \in Causes,
             Trigger(r, c) \/ ReadBegin(r, c) \/ DeleteBegin(r, c)
      PROVE  Told'
  <2>1. PICK l \in {"insert", "read", "delete"} : Become(r, Request(l, c))
    BY <1>1 DEF Trigger, ReadBegin, DeleteBegin
  <2>2. l \in Labels
    BY DEF Labels
  <2>3. req'[r].pc = l /\ \A q \in Requests \ {r} : req'[q] = req[q]
    BY <1>0, <2>1, <2>2, BeginIs
  <2>. QED
    BY <1>1, <2>3, OutsideTold DEF Trigger, ReadBegin, DeleteBegin
<1>2. ASSUME NEW r \in Requests,
             InsertNotice(r) \/ ReadPreference(r) \/ Abort(r) \/ Read(r) \/ Delete(r)
      PROVE  Told'
  <2>1. CASE Done(r)
    BY <1>0, <1>2, <2>1, DoneIs, OutsideTold
       DEF InsertNotice, ReadPreference, Abort, Read, Delete
  <2>2. CASE Goto(r, "preference") \/ Goto(r, "list")
    <3>1. "preference" \in Labels /\ "list" \in Labels
      BY DEF Labels
    <3>2. req'[r].pc \in {"preference", "list"} /\ \A q \in Requests \ {r} : req'[q] = req[q]
      BY <1>0, <2>2, <3>1, GotoIs
    <3>. QED
      BY <1>2, <3>2, OutsideTold DEF InsertNotice, ReadPreference, Abort, Read, Delete
  <2>. QED
    BY <1>2, <2>1, <2>2 DEF InsertNotice, ReadPreference, Abort, Read, Delete
<1>3. ASSUME NEW r \in Requests, ListDevices(r) \/ Send(r) \/ Log(r) \/ Deactivate(r)
      PROVE  Told'
  BY <1>3, ListDevicesTold, SendTold, LoopTold
<1>4. ASSUME NEW u \in Users, NEW t \in Tokens, RegisterDevice(u, t)
      PROVE  Told'
  <2>1. PICK env \in {Home[t], "null"} :
          device' = [device EXCEPT ![t] = [owner |-> u, active |-> TRUE, env |-> env]]
    BY <1>4 DEF RegisterDevice
  <2>2. \A x \in Tokens : device'[x].env = IF x = t THEN env ELSE device[x].env
    BY <1>0, <2>1
  <2>. QED
    BY <1>4, <2>2, UsersTold DEF RegisterDevice, Told
<1>5. ASSUME NEW u \in Users, NEW t \in Tokens, RemoveDevice(u, t)
      PROVE  Told'
  <2>1. \A x \in Tokens : device'[x].env = device[x].env
    BY <1>0, <1>5 DEF RemoveDevice
  <2>. QED
    BY <1>5, <2>1, UsersTold DEF RemoveDevice, Told
<1>6. ASSUME \/ \E t \in Tokens : Uninstall(t)
             \/ \E u \in Users : ReadAll(u) \/ \E g \in Choices : UpdatePreferences(u, g)
      PROVE  Told'
  BY <1>6, UsersTold DEF Uninstall, ReadAll, UpdatePreferences, Told
<1>7. CASE UNCHANGED vars
  BY <1>7 DEF vars, Told, Informed, Lost
<1>. QED
  BY <1>1, <1>2, <1>3, <1>4, <1>5, <1>6, <1>7 DEF Next

\* A phone goes silent by its owner's wish or because it cannot be reached,
\* when nothing interferes.
THEOREM LostGoSilent == Spec => OnlyLostGoSilent
<1>1. Init => Told
  BY DEF Init, Told, Informed, Idle, Request
<1>2. Told /\ IInv /\ [Next]_vars =>
        \A t \in Tokens, r \in Requests :
           /\ "race" \notin may
           /\ device[t].active /\ ~device[t].active' /\ At(r, "deactivate")
           => t \in dead \/ (device[t].env = "null" /\ Home[t] # Default)
  <2>. SUFFICES ASSUME Told, IInv, [Next]_vars, NEW t \in Tokens, NEW r \in Requests,
                       "race" \notin may, device[t].active, ~device[t].active',
                       At(r, "deactivate")
                PROVE  Lost(t)
    BY DEF Lost
  <2>1. ~Alone
    BY DEF Alone, At
  <2>2. PICK q \in Requests : Deactivate(q)
    <3>1. device' # device
      OBVIOUS
    <3>. QED
      BY <2>1, <3>1 DEF Next, vars, Trigger, ReadBegin, DeleteBegin, InsertNotice, ReadPreference,
         ListDevices, Send, Log, Abort, Read, Delete, RegisterDevice, RemoveDevice,
         Uninstall, ReadAll, UpdatePreferences
  <2>3. req[q].pc = "deactivate" /\ device' = [device EXCEPT ![req[q].token].active = FALSE]
    BY <2>2 DEF Deactivate, At
  <2>4. t = req[q].token
    BY <2>3 DEF IInv, TypeOK
  <2>. QED
    BY <2>3, <2>4 DEF Told, Informed
<1>. QED
  BY <1>1, <1>2, NextTold, Inductive, PTL DEF Spec, OnlyLostGoSilent
-----------------------------------------------------------------------------
(* Who is notified in the end                                               *)

\* The steps of a request that is under way.
Step(r) ==
    \/ InsertNotice(r) \/ ReadPreference(r) \/ ListDevices(r)
    \/ Send(r) \/ Log(r) \/ Deactivate(r) \/ Read(r) \/ Delete(r)

\* A request is done again and again, or it takes step after step: every call
\* to the database or to Apple is answered.
GoesOn(r) == []<>At(r, "idle") \/ []<><<Step(r)>>_vars
LiveSpec  == Spec /\ \A r \in Requests : GoesOn(r)

\* No call fails and no process dies.
Calm == may \cap {"kill", "fail"} = {}

Asked(c)  == past[c].asked
There(c)  == notice[c].there
Judged(c) == past[c].judged

Weighs(r, c) == req[r].cause = c /\ req[r].pc = "preference"
Lists(r, c)  == req[r].cause = c /\ req[r].pc = "list"

Placing(r, c) == [](Inserts(r, c) => <>There(c))
Judging(r, c) == [](Delivers(r, c) => <>Judged(c))

\* What is asked, there or judged stays so, and the settings do.
LEMMA NothingUndone ==
    ASSUME IInv, [Next]_vars
    PROVE  /\ may' = may
           /\ \A c \in Causes : /\ Asked(c)  => Asked(c)'
                                /\ There(c)  => There(c)'
                                /\ Judged(c) => Judged(c)'
<1>0. /\ past \in [Causes -> [asked : BOOLEAN, judged : BOOLEAN, wanted : BOOLEAN,
                              mine : SUBSET Tokens, listed : SUBSET Tokens]]
      /\ notice \in [Causes -> [there : BOOLEAN, read : 0 .. 2, deleted : 0 .. 2]]
      /\ \A r \in Requests : Knows(r)
  BY DEF IInv, TypeOK
<1>1. may' = may
  BY DEF Next, vars, Trigger, ReadBegin, DeleteBegin, InsertNotice, ReadPreference,
         ListDevices, Send, Log, Deactivate, Abort, Read, Delete, RegisterDevice,
         RemoveDevice, Uninstall, ReadAll, UpdatePreferences
<1>2. ASSUME NEW c \in Causes
      PROVE  (Asked(c) => Asked(c)') /\ (Judged(c) => Judged(c)')
  <2>1. ASSUME NEW r \in Requests, NEW d \in Causes, Trigger(r, d)
        PROVE  (Asked(c) => Asked(c)') /\ (Judged(c) => Judged(c)')
    BY <1>0, <2>1 DEF Trigger, Asked, Judged
  <2>2. ASSUME NEW r \in Requests, ReadPreference(r) \/ ListDevices(r)
        PROVE  (Asked(c) => Asked(c)') /\ (Judged(c) => Judged(c)')
    BY <1>0, <2>2 DEF ReadPreference, ListDevices, Asked, Judged
  <2>3. ASSUME NEW u \in Users, \/ \E t \in Tokens : RegisterDevice(u, t)
                                \/ \E g \in Choices : UpdatePreferences(u, g)
        PROVE  (Asked(c) => Asked(c)') /\ (Judged(c) => Judged(c)')
    BY <1>0, <2>3 DEF RegisterDevice, UpdatePreferences, Asked, Judged
  <2>4. CASE UNCHANGED past
    BY <2>4 DEF Asked, Judged
  <2>. QED
    BY <2>1, <2>2, <2>3, <2>4 DEF Next, vars, ReadBegin, DeleteBegin, InsertNotice, Send, Log,
         Deactivate, Abort, Read, Delete, RemoveDevice, Uninstall, ReadAll
<1>3. ASSUME NEW c \in Causes PROVE There(c) => There(c)'
  <2>1. ASSUME NEW r \in Requests, InsertNotice(r) PROVE There(c) => There(c)'
    BY <1>0, <2>1 DEF InsertNotice, There
  <2>2. ASSUME NEW r \in Requests, Read(r) PROVE There(c) => There(c)'
    BY <1>0, <2>2 DEF Read, There
  <2>3. ASSUME NEW r \in Requests, Delete(r) PROVE There(c) => There(c)'
    BY <1>0, <2>3 DEF Delete, Deleted, There
  <2>4. ASSUME NEW u \in Users, ReadAll(u) PROVE There(c) => There(c)'
    BY <1>0, <2>4 DEF ReadAll, There
  <2>5. CASE UNCHANGED notice
    BY <2>5 DEF There
  <2>. QED
    BY <2>1, <2>2, <2>3, <2>4, <2>5 DEF Next, vars, Trigger, ReadBegin, DeleteBegin,
         ReadPreference, ListDevices, Send, Log, Deactivate, Abort, RegisterDevice,
         RemoveDevice, Uninstall, UpdatePreferences
<1>. QED
  BY <1>1, <1>2, <1>3

\* Only its own step moves a request that is under way, unless it is given up.
LEMMA OnlyItsOwn ==
    ASSUME IInv, Calm, [Next]_vars, NEW r \in Requests, ~At(r, "idle")
    PROVE  req'[r] = req[r] \/ Step(r)
<1>0. req \in [Requests -> Requesting]
  BY DEF IInv, TypeOK
<1>1. ASSUME NEW q \in Requests,
             \/ \E c \in Causes : Trigger(q, c) \/ ReadBegin(q, c) \/ DeleteBegin(q, c)
             \/ Step(q) \/ Abort(q)
      PROVE  req'[r] = req[r] \/ Step(r)
  <2>1. \E s : req' = [req EXCEPT ![q] = s]
    BY <1>1 DEF Step, Trigger, ReadBegin, DeleteBegin, InsertNotice, ReadPreference,
                ListDevices, Send, Log, Deactivate, Abort, Read, Delete, NextDevice,
                Become, Goto, Done
  <2>2. CASE q = r
    BY <1>1, <2>2 DEF Trigger, ReadBegin, DeleteBegin, MayBegin, Abort, Calm
  <2>3. CASE q # r
    BY <1>0, <2>1, <2>3
  <2>. QED
    BY <2>2, <2>3
<1>2. CASE UNCHANGED req
  BY <1>2
<1>. QED
  BY <1>1, <1>2 DEF Next, vars, Step, RegisterDevice, RemoveDevice, Uninstall, ReadAll,
                    UpdatePreferences

\* A request that is to insert a notice does not end without it.
LEMMA InsertsUntilThere ==
    ASSUME IInv, Calm, [Next]_vars, NEW r \in Requests, NEW c \in Causes, Inserts(r, c)
    PROVE  /\ Inserts(r, c)' \/ There(c)'
           /\ Step(r) => There(c)'
<1>1. Step(r) => There(c)'
  <2>1. SUFFICES ASSUME InsertNotice(r) PROVE There(c)'
    BY DEF Step, Inserts, At, ReadPreference, ListDevices, Send, Log, Deactivate, Read, Delete
  <2>2. CASE ~Notified(c)
    BY <2>1, <2>2 DEF InsertNotice, Inserts, There, IInv, TypeOK
  <2>3. CASE Notified(c)
    <3>1. PICK d \in Causes : notice[d].there /\ d.user = c.user /\ SourceEventId(d) = SourceEventId(c)
      BY <2>3 DEF Notified
    <3>2. d = c
      BY <3>1, CausesAssumption DEF SourceEventId
    <3>. QED
      BY <3>1, <3>2, NothingUndone DEF There
  <2>. QED
    BY <2>2, <2>3
<1>2. req'[r] = req[r] => Inserts(r, c)'
  BY DEF Inserts
<1>. QED
  BY <1>1, <1>2, OnlyItsOwn DEF Inserts, At

\* A request that weighs a notice judges it, or goes on to list the phones,
\* and that judges it.
LEMMA WeighsUntilJudged ==
    ASSUME IInv, Calm, [Next]_vars, NEW r \in Requests, NEW c \in Causes, Weighs(r, c)
    PROVE  /\ Weighs(r, c)' \/ Lists(r, c)' \/ Judged(c)'
           /\ Step(r) => Lists(r, c)' \/ Judged(c)'
<1>1. Step(r) => Lists(r, c)' \/ Judged(c)'
  <2>1. SUFFICES ASSUME ReadPreference(r) PROVE Lists(r, c)' \/ Judged(c)'
    BY DEF Step, Weighs, At, InsertNotice, ListDevices, Send, Log, Deactivate, Read, Delete
  <2>2. CASE Goto(r, "list")
    BY <2>2, GotoIs DEF Weighs, Lists, IInv, TypeOK, Labels
  <2>3. CASE past' = [past EXCEPT ![c].judged = TRUE]
    BY <2>3 DEF Judged, IInv, TypeOK
  <2>. QED
    BY <2>1, <2>2, <2>3 DEF ReadPreference, Weighs
<1>2. req'[r] = req[r] => Weighs(r, c)'
  BY DEF Weighs
<1>. QED
  BY <1>1, <1>2, OnlyItsOwn DEF Weighs, At

LEMMA ListsUntilJudged ==
    ASSUME IInv, Calm, [Next]_vars, NEW r \in Requests, NEW c \in Causes, Lists(r, c)
    PROVE  /\ Lists(r, c)' \/ Judged(c)'
           /\ Step(r) => Judged(c)'
<1>1. Step(r) => Judged(c)'
  <2>1. SUFFICES ASSUME ListDevices(r) PROVE Judged(c)'
    BY DEF Step, Lists, At, InsertNotice, ReadPreference, Send, Log, Deactivate, Read, Delete
  <2>. QED
    BY <2>1 DEF ListDevices, Lists, Judged, IInv, TypeOK
<1>2. req'[r] = req[r] => Lists(r, c)'
  BY DEF Lists
<1>. QED
  BY <1>1, <1>2, OnlyItsOwn DEF Lists, At

\* So each request does what it has to, in the end.
LEMMA PlacedInTheEnd ==
    ASSUME NEW r \in Requests, NEW c \in Causes
    PROVE  Spec /\ Calm /\ GoesOn(r) => Placing(r, c)
<1>1. IInv /\ Calm /\ [Next]_vars /\ Inserts(r, c) =>
        (Inserts(r, c)' \/ There(c)') /\ (Step(r) => There(c)')
  BY InsertsUntilThere
<1>2. IInv /\ Calm /\ [Next]_vars => Calm'
  BY NothingUndone DEF Calm
<1>3. <<Step(r)>>_vars => Step(r)
  OBVIOUS
<1>4. Inserts(r, c) => ~At(r, "idle")
  BY DEF Inserts, At
<1>. QED
  BY <1>1, <1>2, <1>3, <1>4, Inductive, PTL DEF Spec, GoesOn, Placing

LEMMA JudgedInTheEnd ==
    ASSUME NEW r \in Requests, NEW c \in Causes
    PROVE  Spec /\ Calm /\ GoesOn(r) => Judging(r, c)
<1>1. IInv /\ Calm /\ [Next]_vars /\ Weighs(r, c) =>
        /\ Weighs(r, c)' \/ Lists(r, c)' \/ Judged(c)'
        /\ Step(r) => Lists(r, c)' \/ Judged(c)'
  BY WeighsUntilJudged
<1>2. IInv /\ Calm /\ [Next]_vars /\ Lists(r, c) =>
        (Lists(r, c)' \/ Judged(c)') /\ (Step(r) => Judged(c)')
  BY ListsUntilJudged
<1>3. IInv /\ Calm /\ [Next]_vars => Calm'
  BY NothingUndone DEF Calm
<1>4. <<Step(r)>>_vars => Step(r)
  OBVIOUS
<1>5. Weighs(r, c) \/ Lists(r, c) => ~At(r, "idle")
  BY DEF Weighs, Lists, At
<1>6. IInv /\ Delivers(r, c) => Weighs(r, c) \/ Lists(r, c) \/ Judged(c)
  BY DEF IInv, Knows, Planned, Delivers, Weighs, Lists, Judged
<1>. QED
  BY <1>1, <1>2, <1>3, <1>4, <1>5, <1>6, Inductive, PTL DEF Spec, GoesOn, Judging

\* Each cause has its notice in the end, and its push was decided, for good.
CausesCome == \A c \in Causes : Asked(c) ~> [](There(c) /\ Judged(c))

\* notify and deliverPush: as long as no call fails and no process dies, a
\* cause that was notified has its notice in the inbox in the end, once and for
\* all, and its recipient's preference and phones have been looked at, however
\* many requests notify the cause and whatever users do to their notices, phones
\* and preferences meanwhile.
THEOREM CausesAreNotified == LiveSpec /\ Calm => CausesCome
<1>1. LiveSpec => Spec /\ \A r \in Requests : GoesOn(r)
  BY DEF LiveSpec
<1>2. ASSUME NEW c \in Causes
      PROVE  LiveSpec /\ Calm => (Asked(c) ~> [](There(c) /\ Judged(c)))
  <2>1. LiveSpec /\ Calm => /\ \A r \in Requests : Placing(r, c)
                            /\ \A r \in Requests : Judging(r, c)
    BY <1>1, PlacedInTheEnd, JudgedInTheEnd
  <2>2. /\ (\A r \in Requests : Placing(r, c)) =>
             [](\A r \in Requests : Inserts(r, c) => <>There(c))
        /\ (\A r \in Requests : Judging(r, c)) =>
             [](\A r \in Requests : Delivers(r, c) => <>Judged(c))
    BY DEF Placing, Judging
  <2>3. /\ (\A r \in Requests : Inserts(r, c) => <>There(c)) =>
             ((\E r \in Requests : Inserts(r, c)) => <>There(c))
        /\ (\A r \in Requests : Delivers(r, c) => <>Judged(c)) =>
             ((\E r \in Requests : Delivers(r, c)) => <>Judged(c))
    OBVIOUS
  <2>4. IInv /\ Calm /\ Asked(c) => There(c) \/ \E r \in Requests : Inserts(r, c)
    BY DEF IInv, Kept, Calm, Asked, There
  <2>5. IInv /\ Calm /\ Asked(c) /\ There(c) =>
          Judged(c) \/ \E r \in Requests : Delivers(r, c)
    BY DEF IInv, Kept, Calm, Asked, There, Judged
  <2>6. IInv /\ [Next]_vars => /\ Asked(c)  => Asked(c)'
                               /\ There(c)  => There(c)'
                               /\ Judged(c) => Judged(c)'
    BY NothingUndone
  <2>7. IInv /\ Calm /\ [Next]_vars => Calm'
    BY NothingUndone DEF Calm
  <2>. QED
    BY <1>1, <2>1, <2>2, <2>3, <2>4, <2>5, <2>6, <2>7, Inductive, PTL DEF Spec
<1>. QED
  BY <1>2 DEF CausesCome
=============================================================================
