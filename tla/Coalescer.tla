----------------------------- MODULE Coalescer ------------------------------
(***************************************************************************)
(* Coalescer::get_or_fetch_with_capacity (services/proxy/src/coalescer.rs):*)
(* the first request that misses on a key fetches from the origin, the     *)
(* others subscribe to a tokio broadcast channel and wait for its result.  *)
(*                                                                         *)
(* The map of channels is guarded by a std mutex that is never held across *)
(* an await; an action is one critical section, or the code between two.   *)
(* Requests run in tasks on several threads, so their steps interleave,    *)
(* and hyper drops the task of a client that disconnects at any await.     *)
(***************************************************************************)
EXTENDS Integers, Sequences

CONSTANTS
  Requests,    \* GET requests that missed both caches, one call each
  Keys,        \* cache keys
  Values,      \* results a fetch may bring (the origin's answers)
  Capacities,  \* capacities callers ask for (coalesce_capacity_for_host)
  Nobody,      \* no channel
  None,        \* no result yet
  Failed       \* Err(())

ASSUME CoalescerAssumption ==
  /\ Nobody \notin Requests
  /\ None \notin Values \cup {Failed}
  /\ Failed \notin Values
  /\ Capacities \subseteq Nat

Results == Values \cup {Failed}

VARIABLES
  pc,        \* pc[r]: where the call of r is
  key,       \* key[r]: the key r asked for
  in_flight, \* in_flight[k]: the request whose channel is in the map under k, or Nobody
  cap,       \* cap[r]: capacity of the channel r created
  sent,      \* sent[r]: the results sent on the channel r created
  rx,        \* rx[r]: the channel r subscribed to and its read position
  guard,     \* guard[r]: DropGuard.key is Some
  fetched,   \* fetched[r]: result of r's fetch_fn, not yet published
  result,    \* result[r]: what the call of r returned
  lagged     \* lagged_count

vars == <<pc, key, in_flight, cap, sent, rx, guard, fetched, result, lagged>>

\* "start": not called yet.  "wait": subscriber in rx.recv().  "fetch": leader in
\* fetch_fn.  "publish": fetch_fn has returned.  "return": published, the guard
\* not yet out of scope.  "done": returned.  "gone": dropped before it returned.
States == {"start", "wait", "fetch", "publish", "return", "done", "gone"}

NoRx == [chan |-> Nobody, pos |-> 0]

Init ==
  /\ pc = [r \in Requests |-> "start"]
  /\ key \in [Requests -> Keys]
  /\ in_flight = [k \in Keys |-> Nobody]
  /\ cap = [r \in Requests |-> 0]
  /\ sent = [r \in Requests |-> <<>>]
  /\ rx = [r \in Requests |-> NoRx]
  /\ guard = [r \in Requests |-> FALSE]
  /\ fetched = [r \in Requests |-> None]
  /\ result = [r \in Requests |-> None]
  /\ lagged = 0

\* The only Sender of a channel is the one in the map: the channel closes when it
\* leaves the map.
Closed(c) == in_flight[key[c]] # c

\* r created a channel; r has a fetch under way.
Leader(r) == pc[r] # "start" /\ rx[r].chan = Nobody
Leads(r)  == pc[r] \in {"fetch", "publish"}

Goto(r, s) == pc' = [pc EXCEPT ![r] = s]

\* Critical section, key in the map: subscribe behind what was sent so far.
Subscribe(r) ==
  LET c == in_flight[key[r]] IN
  /\ pc[r] = "start"
  /\ c # Nobody
  /\ rx' = [rx EXCEPT ![r] = [chan |-> c, pos |-> Len(sent[c])]]
  /\ Goto(r, "wait")
  /\ UNCHANGED <<key, in_flight, cap, sent, guard, fetched, result, lagged>>

\* Critical section, key not in the map: insert a channel of the capacity asked
\* for (at least 1) and arm the guard.
Lead(r, n) ==
  /\ pc[r] = "start"
  /\ in_flight[key[r]] = Nobody
  /\ in_flight' = [in_flight EXCEPT ![key[r]] = r]
  /\ cap' = [cap EXCEPT ![r] = IF n < 1 THEN 1 ELSE n]
  /\ guard' = [guard EXCEPT ![r] = TRUE]
  /\ Goto(r, "fetch")
  /\ UNCHANGED <<key, sent, rx, fetched, result, lagged>>

\* fetch_fn returns.
Fetch(r, v) ==
  /\ pc[r] = "fetch"
  /\ fetched' = [fetched EXCEPT ![r] = v]
  /\ Goto(r, "publish")
  /\ UNCHANGED <<key, in_flight, cap, sent, rx, guard, result, lagged>>

\* Mutants of Publish: with the guard left armed; leaving the channel in the map.
PublishArmed(r) ==
  LET c == in_flight[key[r]] IN
  /\ pc[r] = "publish"
  /\ in_flight' = [in_flight EXCEPT ![key[r]] = Nobody]
  /\ sent' = IF c = Nobody THEN sent ELSE [sent EXCEPT ![c] = Append(@, fetched[r])]
  /\ Goto(r, "return")
  /\ UNCHANGED <<key, guard, cap, rx, fetched, result, lagged>>

PublishKeeping(r) ==
  /\ pc[r] = "publish"
  /\ guard' = [guard EXCEPT ![r] = FALSE]
  /\ sent' = [sent EXCEPT ![r] = Append(@, fetched[r])]
  /\ Goto(r, "return")
  /\ UNCHANGED <<key, in_flight, cap, rx, fetched, result, lagged>>

\* Disarm the guard; in one critical section take whatever channel the map has
\* under the key, send the result on it and drop the sender.
Publish(r) ==
  LET c == in_flight[key[r]] IN
  /\ pc[r] = "publish"
  /\ guard' = [guard EXCEPT ![r] = FALSE]
  /\ in_flight' = [in_flight EXCEPT ![key[r]] = Nobody]
  /\ sent' = IF c = Nobody THEN sent
                           ELSE [sent EXCEPT ![c] = Append(@, fetched[r])]
  /\ Goto(r, "return")
  /\ UNCHANGED <<key, cap, rx, fetched, result, lagged>>

\* Mutant of DropGuard: the key stays in the map.
DropGuardIdle(r) ==
  /\ guard' = [guard EXCEPT ![r] = FALSE]
  /\ UNCHANGED in_flight

\* DropGuard::drop: an armed guard removes the key from the map.
DropGuard(r) ==
  /\ in_flight' = IF guard[r] THEN [in_flight EXCEPT ![key[r]] = Nobody] ELSE in_flight
  /\ guard' = [guard EXCEPT ![r] = FALSE]

\* The leader's call returns its own result.
Return(r) ==
  /\ pc[r] = "return"
  /\ DropGuard(r)
  /\ result' = [result EXCEPT ![r] = fetched[r]]
  /\ Goto(r, "done")
  /\ UNCHANGED <<key, cap, sent, rx, fetched, lagged>>

\* The leader's task panics or is dropped while it awaits fetch_fn.
Abandon(r) ==
  /\ pc[r] = "fetch"
  /\ DropGuard(r)
  /\ Goto(r, "gone")
  /\ UNCHANGED <<key, cap, sent, rx, fetched, result, lagged>>

\* How far the reader of r is behind, and what the channel still holds.
Behind(r) == Len(sent[rx[r].chan]) - rx[r].pos

Answer(r, v) ==
  /\ result' = [result EXCEPT ![r] = v]
  /\ Goto(r, "done")

\* rx.recv() completes: with the next message; with Lagged when the channel has
\* overwritten it; with Closed when there is none and the sender is gone.
Receive(r) ==
  LET c == rx[r].chan IN
  /\ pc[r] = "wait"
  /\ \/ /\ Behind(r) \in 1 .. cap[c]
        /\ Answer(r, sent[c][rx[r].pos + 1])
        /\ UNCHANGED lagged
     \/ /\ Behind(r) > cap[c]
        /\ Answer(r, Failed)
        /\ lagged' = lagged + 1
     \/ /\ Behind(r) = 0 /\ Closed(c)
        /\ Answer(r, Failed)
        /\ UNCHANGED lagged
  /\ UNCHANGED <<key, in_flight, cap, sent, rx, guard, fetched>>

\* A subscriber's client disconnects.
Leave(r) ==
  /\ pc[r] = "wait"
  /\ Goto(r, "gone")
  /\ UNCHANGED <<key, in_flight, cap, sent, rx, guard, fetched, result, lagged>>

\* All requests of the instance are served.
Served ==
  /\ \A r \in Requests : pc[r] \in {"done", "gone"}
  /\ UNCHANGED vars

Enter(r) == Subscribe(r) \/ \E n \in Capacities : Lead(r, n)

Work(r) ==
  Publish(r) \/ Return(r) \/ Receive(r) \/ \E v \in Results : Fetch(r, v)

Next ==
  \/ \E r \in Requests : Enter(r) \/ Work(r) \/ Abandon(r) \/ Leave(r)
  \/ Served

Spec == Init /\ [][Next]_vars

\* A task that can run runs, and fetch_fn returns: reqwest has timeouts, and
\* the semaphore is waited for five seconds at most.
Fairness == \A r \in Requests : WF_vars(Work(r))

FairSpec == Spec /\ Fairness

-----------------------------------------------------------------------------
(* Properties *)

\* The types of the variables: the map of channels, each call, and what was sent,
\* which is only ever what a fetch brought.
TypeOK ==
  /\ pc \in [Requests -> States]
  /\ key \in [Requests -> Keys]
  /\ in_flight \in [Keys -> Requests \cup {Nobody}]
  /\ cap \in [Requests -> Nat]
  /\ sent \in [Requests -> Seq(Results)]
  /\ rx \in [Requests -> [chan : Requests \cup {Nobody}, pos : Nat]]
  /\ guard \in [Requests -> BOOLEAN]
  /\ fetched \in [Requests -> Results \cup {None}]
  /\ result \in [Requests -> Results \cup {None}]
  /\ lagged \in Nat

\* The origin is fetched by one request per key at a time, although leaders
\* panic, are dropped, publish and go out of scope while others enter: no guard
\* ever removes a channel that is not its own.
SingleFlight ==
  \A r, s \in Requests : Leads(r) /\ Leads(s) /\ key[r] = key[s] => r = s

\* A subscriber that still waits has a live leader, or the answer or the end of
\* the channel is already there for it: a leader that goes away cannot leave a
\* key locked or a subscriber asleep.
NobodyStranded ==
  \A r \in Requests : pc[r] = "wait" =>
    \/ Behind(r) > 0
    \/ Closed(rx[r].chan)
    \/ Leads(rx[r].chan)

\* No subscriber ever lags, whatever capacity was asked for, zero included: the
\* comment on DEFAULT_COALESCE_CHANNEL_CAPACITY says that a single send cannot
\* overrun the channel.
NeverLags == lagged = 0

\* The flight r takes, and how the flight led by r ended.
Aboard  == [r \in Requests |->
              IF pc[r] = "start" THEN Nobody
              ELSE IF Leader(r) THEN r ELSE rx[r].chan]
Outcome == [r \in Requests |->
              IF ~Leader(r) \/ Leads(r) THEN None
              ELSE IF sent[r] = <<>> THEN Failed ELSE Head(sent[r])]

Shared == INSTANCE SharedFetch WITH
            Outcomes <- Results, flight <- in_flight, aboard <- Aboard,
            outcome <- Outcome, answer <- result

\* Coalescing is invisible but for sharing: each request rides one flight for
\* its key and is told that flight's outcome, Failed if its leader went away.
ImplementsSharedFetch == Shared!FetchSpec

\* The strengthening that makes the safety properties inductive.

\* The map holds exactly the channels of the live leaders, under their own keys,
\* and exactly their guards are armed.
MapIsLeaders ==
  /\ \A r \in Requests : Leads(r) <=> in_flight[key[r]] = r
  /\ \A k \in Keys : in_flight[k] # Nobody => key[in_flight[k]] = k
  /\ \A r \in Requests : guard[r] <=> Leads(r)

\* A leader sends its result once, when its channel leaves the map.
SendsOnce ==
  \A r \in Requests :
    /\ pc[r] \in {"publish", "return"} => fetched[r] \in Results
    /\ sent[r] = IF Leader(r) /\ pc[r] \in {"return", "done"}
                   THEN <<fetched[r]>> ELSE <<>>
    /\ Leader(r) => cap[r] >= 1
    /\ Leader(r) => pc[r] # "wait"

\* A subscriber reads a leader's channel of its own key, from the beginning.
ReadsFromStart ==
  \A r \in Requests : rx[r].chan # Nobody =>
    /\ pc[r] \in {"wait", "done", "gone"}
    /\ rx[r].pos = 0
    /\ Leader(rx[r].chan)
    /\ key[rx[r].chan] = key[r]

\* Who has an answer: those that returned.
AnswersOnReturn == \A r \in Requests : result[r] # None <=> pc[r] = "done"

CoalescerInv ==
  /\ TypeOK /\ MapIsLeaders /\ SendsOnce /\ ReadsFromStart /\ AnswersOnReturn
  /\ NeverLags

\* Every subscriber is answered, unless its client goes away.
WaitersAnswered == \A r \in Requests : pc[r] = "wait" ~> pc[r] \in {"done", "gone"}

=============================================================================
