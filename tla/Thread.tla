------------------------------- MODULE Thread -------------------------------
(***************************************************************************)
(* What messaging promises: a booker and the host have at most one thread;  *)
(* what somebody sends with one tap is posted to it at most once, however   *)
(* often it is sent; what a participant has seen stays seen, and grows only *)
(* when that participant reads, or with a post that arrives behind what has *)
(* been read already.                                                       *)
(***************************************************************************)
CONSTANTS Bookers, Host, Keys, Names, Posts

VARIABLES
    thread,   \* the names of each booker's thread, none or one
    posted,   \* by booker, sender and key: the posts made with that key
    seen      \* by participant and booker: the posts behind the read cursor

Users == Bookers \cup {Host}

Init ==
    /\ thread \in [Bookers -> {{}} \cup {{n} : n \in Names}]
    /\ posted = [x \in Bookers \X Users \X Keys |-> {}]
    /\ seen   = [x \in Users \X Bookers |-> {}]

Open(b) ==
    /\ thread[b] = {}
    /\ \E n \in Names : thread' = [thread EXCEPT ![b] = {n}]
    /\ UNCHANGED <<posted, seen>>

Post(b, u, k) ==
    /\ thread[b] # {} /\ u \in {b, Host}
    /\ posted[<<b, u, k>>] = {}
    /\ \E p \in Posts :
         /\ posted' = [posted EXCEPT ![<<b, u, k>>] = {p}]
         /\ \E behind \in SUBSET {b, Host} :
              seen' = [x \in Users \X Bookers |->
                         IF x[2] = b /\ x[1] \in behind THEN seen[x] \cup {p} ELSE seen[x]]
    /\ UNCHANGED thread

\* What has been posted to a booker's thread.
Said(b) == UNION {posted[<<b, v, k>>] : v \in {b, Host}, k \in Keys}

Read(u, b) ==
    /\ thread[b] # {} /\ u \in {b, Host}
    /\ \E s \in SUBSET Said(b) :
         seen' = [seen EXCEPT ![<<u, b>>] = @ \cup s]
    /\ UNCHANGED <<thread, posted>>

Next ==
    \E b \in Bookers, u \in Users :
        Open(b) \/ Read(u, b) \/ \E k \in Keys : Post(b, u, k)

Spec == Init /\ [][Next]_<<thread, posted, seen>>
=============================================================================
