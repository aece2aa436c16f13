----------------------------- MODULE ProxyCache -----------------------------
(***************************************************************************)
(* The life of a cacheable request in the proxy: the L1 memory cache, the  *)
(* L2 storage service behind the proxy's mutex, one coalesced origin fetch *)
(* per key, stale-if-error, the background save that fills both tiers, and *)
(* the purges that empty them.                                             *)
(*                                                                         *)
(* Coalescing is taken at the level of SharedFetch, which Coalescer        *)
(* implements, and the storage service at the level of BoundedStore, which *)
(* StorageCache implements: a put, a lookup and a purge are atomic, and an *)
(* entry may be forgotten at any time.                                     *)
(*                                                                         *)
(* A copy is the version of the origin's content it shows, whether it has  *)
(* the body (a HEAD response has none) and when it was stored.  Every      *)
(* request is sent once.                                                   *)
(***************************************************************************)
EXTENDS Integers, FiniteSets

CONSTANTS
  Requests, Keys,
  Nobody, None, Failed,
  Methods,        \* subset of {"GET", "HEAD"}
  Purges,         \* the purges that may be asked: the keys each clears in L1 and in L2,
                  \*   and the way it goes ("proxy": the proxy's admin API, "direct":
                  \*   from the admin server to the storage service)
  Ttl,            \* lifetime of a stored object in L2
  L1Ttl,          \* lifetime of an object in L1
  Window,         \* stale-if-error window
  Small,          \* the versions whose body is small enough for L1 (MAX_MEMORY_ENTRY_BYTES)
  Forgets,        \* may the storage service evict entries and L1 drop its own?
  Faults,         \* subset of {"origin", "get", "put", "purge"}: the calls that may fail
  Leaves,         \* may a client hang up?
  MaxVersion, MaxTime   \* bounds of the model

Copies == [ver : 0 .. MaxVersion, whole : BOOLEAN, put : 0 .. MaxTime]
Saves  == [step : {"put", "insert", "release"}, copy : Copies]

ASSUME ProxyAssumption ==
  /\ Nobody \notin Requests
  /\ None \notin Saves
  /\ Methods \subseteq {"GET", "HEAD"}
  /\ Faults \subseteq {"origin", "get", "put", "purge"}
  /\ Purges \subseteq [l1 : SUBSET Keys, l2 : SUBSET Keys, way : {"proxy", "direct"}]
  /\ Small \subseteq 0 .. MaxVersion
  /\ Ttl \in Nat \ {0} /\ L1Ttl \in Nat /\ Window \in Nat
  /\ MaxVersion \in Nat /\ MaxTime \in Nat
  /\ Forgets \in BOOLEAN /\ Leaves \in BOOLEAN

VARIABLES
  now,
  version,       \* version[k]: what the origin shows under k
  l1, l2,        \* l1[k], l2[k]: the copies of k in memory and on disk
  storage,       \* the request that holds the storage mutex, or Nobody
  pc, key, method,
  got,           \* got[r]: the copy r has in hand, and once done its answer
  found,         \* found[r]: the expired copy that r's L2 lookup met
  saver,         \* saver[r]: the background save that the fetch of r spawned
  saving,        \* save_tracker
  purge,         \* the purge: its state, its keys, the versions it is to clear
  flight, aboard, outcome, answer   \* the coalescer, as in SharedFetch

requestVars == <<pc, key, method, got, found>>
saveVars    == <<saver, saving>>
fetchVars   == <<flight, aboard, outcome, answer>>
vars == <<now, version, l1, l2, storage, requestVars, saveVars, purge, fetchVars>>

InMemory == [copy : Copies, at : 0 .. MaxTime]

Fetch == INSTANCE SharedFetch WITH Outcomes <- Copies \cup {Failed}

Init ==
  /\ now = 0
  /\ version = [k \in Keys |-> 0]
  /\ l1 = [k \in Keys |-> None]
  /\ l2 = [k \in Keys |-> None]
  /\ storage = Nobody
  /\ pc = [r \in Requests |-> "idle"]
  /\ key = [r \in Requests |-> None]
  /\ method = [r \in Requests |-> None]
  /\ got = [r \in Requests |-> None]
  /\ found = [r \in Requests |-> None]
  /\ saver = [r \in Requests |-> None]
  /\ saving = {}
  /\ purge = None
  /\ Fetch!FetchInit

-----------------------------------------------------------------------------
(* Lookups *)

InL1(k) == l1[k] # None /\ now < l1[k].at + L1Ttl
\* Mutant of InL2: the expiry is not looked at.
InL2Expired(k) == l2[k] # None

InL2(k) == l2[k] # None /\ now <= l2[k].put + Ttl
InWindow(c) == c # None /\ now <= c.put + Ttl + Window

\* A body larger than MAX_MEMORY_ENTRY_BYTES is not kept in memory.
FitsL1(c) == c.whole => c.ver \in Small

\* A MemoryCacheEntry is inserted under k, unless its body is too large: what L1 has of
\* k then stays.  moka counts its lifetime from here.
Remember(k, c) ==
  l1' = IF FitsL1(c) THEN [l1 EXCEPT ![k] = [copy |-> c, at |-> now]] ELSE l1

\* A request arrives and looks into L1.
Arrive(r, k, m) ==
  /\ pc[r] = "idle"
  /\ key' = [key EXCEPT ![r] = k]
  /\ method' = [method EXCEPT ![r] = m]
  /\ \/ /\ InL1(k)
        /\ got' = [got EXCEPT ![r] = l1[k].copy]
        /\ pc' = [pc EXCEPT ![r] = "done"]
     \/ /\ ~InL1(k)
        /\ pc' = [pc EXCEPT ![r] = "l2"]
        /\ UNCHANGED got
  /\ UNCHANGED <<now, version, l1, l2, storage, found, saveVars, purge, fetchVars>>

\* The L2 lookup hits.  The mutex guard is a temporary of the `if let`: the
\* request keeps it until the copy is in L1.
HitL2(r) ==
  /\ pc[r] = "l2" /\ storage = Nobody
  /\ InL2(key[r])
  /\ storage' = r
  /\ got' = [got EXCEPT ![r] = l2[key[r]]]
  /\ pc' = [pc EXCEPT ![r] = "promote"]
  /\ purge' = IF purge # None /\ purge.state = "l2" /\ key[r] \in purge.keys
              THEN [purge EXCEPT !.disturbed = TRUE] ELSE purge
  /\ UNCHANGED <<now, version, l1, l2, key, method, found, saveVars, fetchVars>>

\* The L2 lookup misses.  An expired entry is deleted on the way.
MissL2(r) ==
  /\ pc[r] = "l2" /\ storage = Nobody
  /\ \/ /\ "get" \in Faults
        /\ UNCHANGED <<l2, found>>
     \/ /\ ~InL2(key[r])
        /\ found' = [found EXCEPT ![r] = l2[key[r]]]
        /\ l2' = [l2 EXCEPT ![key[r]] = None]
  /\ pc' = [pc EXCEPT ![r] = "board"]
  /\ UNCHANGED <<now, version, l1, storage, key, method, got, saveVars, purge, fetchVars>>

\* The copy found in L2 goes into L1, if small, and is the answer.
Promote(r) ==
  /\ pc[r] = "promote"
  /\ Remember(key[r], got[r])
  /\ storage' = Nobody
  /\ pc' = [pc EXCEPT ![r] = "done"]
  /\ UNCHANGED <<now, version, l2, key, method, got, found, saveVars, purge, fetchVars>>

-----------------------------------------------------------------------------
(* The coalesced fetch *)

\* A miss boards the flight of its key, and fetches if it leads it.
Board(r) ==
  /\ pc[r] = "board"
  /\ Fetch!Board(r, key[r])
  /\ pc' = [pc EXCEPT ![r] = IF flight[key[r]] = Nobody THEN "fetch" ELSE "wait"]
  /\ UNCHANGED <<now, version, l1, l2, storage, key, method, got, found, saveVars, purge>>

\* The origin answers with what it shows now; a HEAD is forwarded as a HEAD.
\* A response the cache may store goes on to the save, any other is only passed on.
Answered(r, cacheable) ==
  /\ pc[r] = "fetch"
  /\ got' = [got EXCEPT ![r] = [ver |-> version[key[r]],
                                whole |-> method[r] = "GET", put |-> now]]
  /\ pc' = [pc EXCEPT ![r] = IF cacheable THEN "store" ELSE "land"]
  /\ UNCHANGED <<now, version, l1, l2, storage, key, method, found, saveVars, purge, fetchVars>>

\* The connection fails, or the origin answers 5xx.
OriginFails(r) ==
  /\ pc[r] = "fetch" /\ "origin" \in Faults
  /\ pc' = [pc EXCEPT ![r] = "stale"]
  /\ UNCHANGED <<now, version, l1, l2, storage, key, method, got, found, saveVars, purge, fetchVars>>

\* try_serve_stale: an L2 copy not older than the window stands in.
ServeStale(r) ==
  /\ pc[r] = "stale" /\ storage = Nobody
  /\ \/ /\ InWindow(l2[key[r]])
        /\ got' = [got EXCEPT ![r] = l2[key[r]]]
     \/ /\ ~InWindow(l2[key[r]]) \/ "get" \in Faults
        /\ got' = [got EXCEPT ![r] = Failed]
  /\ pc' = [pc EXCEPT ![r] = "land"]
  /\ UNCHANGED <<now, version, l1, l2, storage, key, method, found, saveVars, purge, fetchVars>>

\* Mutant of SpawnSave: the tracker is not asked.
SpawnSaveAlways(r) ==
  /\ pc[r] = "store"
  /\ saving' = saving \cup {key[r]}
  /\ saver' = [saver EXCEPT ![r] = [step |-> "put", copy |-> got[r]]]
  /\ pc' = [pc EXCEPT ![r] = "land"]
  /\ UNCHANGED <<now, version, l1, l2, storage, key, method, got, found, purge, fetchVars>>

\* The fetch of r spawns a save, unless one of its key is under way.
SpawnSave(r) ==
  /\ pc[r] = "store"
  /\ IF key[r] \in saving
       THEN UNCHANGED saveVars
       ELSE /\ saving' = saving \cup {key[r]}
            /\ saver' = [saver EXCEPT ![r] = [step |-> "put", copy |-> got[r]]]
  /\ pc' = [pc EXCEPT ![r] = "land"]
  /\ UNCHANGED <<now, version, l1, l2, storage, key, method, got, found, purge, fetchVars>>

\* The flight ends: its outcome goes to everyone aboard.
Land(r) ==
  /\ pc[r] = "land"
  /\ Fetch!Land(key[r], got[r])
  /\ pc' = [pc EXCEPT ![r] = "wait"]
  /\ UNCHANGED <<now, version, l1, l2, storage, key, method, got, found, saveVars, purge>>

\* A request is told the outcome of its flight, and answers its client.
Tell(r) ==
  /\ pc[r] = "wait"
  /\ Fetch!Tell(r)
  /\ got' = [got EXCEPT ![r] = outcome[aboard[r]]]
  /\ pc' = [pc EXCEPT ![r] = "done"]
  /\ UNCHANGED <<now, version, l1, l2, storage, key, method, found, saveVars, purge>>

Leads(r) == key[r] # None /\ flight[key[r]] = r

\* Mutant of HangUp: the flight stays open without its leader.
HangUpAloft(r) ==
  /\ Leaves /\ pc[r] \notin {"idle", "done"}
  /\ storage' = IF storage = r THEN Nobody ELSE storage
  /\ got' = [got EXCEPT ![r] = None]
  /\ pc' = [pc EXCEPT ![r] = "done"]
  /\ UNCHANGED <<now, version, l1, l2, key, method, found, saveVars, purge, fetchVars>>

\* The client hangs up: the request's future is dropped, with the mutex guard
\* and the flight it holds.  A save it spawned goes on.
HangUp(r) ==
  /\ Leaves /\ pc[r] \notin {"idle", "done"}
  /\ storage' = IF storage = r THEN Nobody ELSE storage
  /\ IF Leads(r) THEN Fetch!Land(key[r], Failed) ELSE UNCHANGED fetchVars
  /\ got' = [got EXCEPT ![r] = None]
  /\ pc' = [pc EXCEPT ![r] = "done"]
  /\ UNCHANGED <<now, version, l1, l2, key, method, found, saveVars, purge>>

-----------------------------------------------------------------------------
(* The background save *)

\* The copy c as stored now.
Stored(c) == [ver |-> c.ver, whole |-> c.whole, put |-> now]

\* storage.put, best effort, once the optimizer or the compressor is done.
SavePut(r) ==
  /\ saver[r] # None /\ saver[r].step = "put" /\ storage = Nobody
  /\ saver' = [saver EXCEPT ![r] = [step |-> "insert", copy |-> Stored(saver[r].copy)]]
  /\ \/ l2' = [l2 EXCEPT ![key[r]] = Stored(saver[r].copy)]
     \/ "put" \in Faults /\ UNCHANGED l2
  /\ UNCHANGED <<now, version, l1, storage, requestVars, saving, purge, fetchVars>>

\* Mutant of SaveInsert: an entry that is there already stays.
SaveInsertIfAbsent(r) ==
  /\ saver[r] # None /\ saver[r].step = "insert"
  /\ IF l1[key[r]] = None THEN Remember(key[r], saver[r].copy) ELSE UNCHANGED l1
  /\ saver' = [saver EXCEPT ![r] = [saver[r] EXCEPT !.step = "release"]]
  /\ UNCHANGED <<now, version, l2, storage, requestVars, saving, purge, fetchVars>>

SaveInsert(r) ==
  /\ saver[r] # None /\ saver[r].step = "insert"
  /\ Remember(key[r], saver[r].copy)
  /\ saver' = [saver EXCEPT ![r] = [saver[r] EXCEPT !.step = "release"]]
  /\ UNCHANGED <<now, version, l2, storage, requestVars, saving, purge, fetchVars>>

\* Mutant of SaveRelease: the key stays tracked.
SaveReleaseNot(r) ==
  /\ saver[r] # None /\ saver[r].step = "release"
  /\ saver' = [saver EXCEPT ![r] = None]
  /\ UNCHANGED <<now, version, l1, l2, storage, requestVars, saving, purge, fetchVars>>

SaveRelease(r) ==
  /\ saver[r] # None /\ saver[r].step = "release"
  /\ saving' = saving \ {key[r]}
  /\ saver' = [saver EXCEPT ![r] = None]
  /\ UNCHANGED <<now, version, l1, l2, storage, requestVars, purge, fetchVars>>

-----------------------------------------------------------------------------
(* Purges *)

\* A copy of one of these keys is in the hands of a request or of a save.
InHand(ks) ==
  \E r \in Requests : /\ key[r] \in ks
                      /\ pc[r] \in {"promote", "store"} \/ saver[r] # None

\* Mutant of PurgeL1: L1 is not invalidated.
PurgeL1Not(p) ==
  /\ purge = None
  /\ purge' = [state |-> "l2", keys |-> p.l2, way |-> p.way,
               since |-> version, disturbed |-> InHand(p.l2)]
  /\ UNCHANGED <<now, version, l1, l2, storage, requestVars, saveVars, fetchVars>>

\* A purge begins.  Its L1 part is at once: none of L1 if it does not go by the proxy.
PurgeL1(p) ==
  /\ purge = None
  /\ l1' = [k \in Keys |-> IF k \in p.l1 THEN None ELSE l1[k]]
  /\ purge' = [state |-> "l2", keys |-> p.l2, way |-> p.way,
               since |-> version, disturbed |-> InHand(p.l2)]
  /\ UNCHANGED <<now, version, l2, storage, requestVars, saveVars, fetchVars>>

\* Its L2 part, for which the proxy takes the storage mutex.  A failed call is answered
\* like one that found nothing to purge.
PurgeL2 ==
  /\ purge # None /\ purge.state = "l2"
  /\ purge.way = "proxy" => storage = Nobody
  /\ \/ /\ l2' = [k \in Keys |-> IF k \in purge.keys THEN None ELSE l2[k]]
        /\ purge' = [purge EXCEPT !.state = "done"]
     \/ /\ "purge" \in Faults
        /\ purge' = [purge EXCEPT !.state = "done", !.disturbed = TRUE]
        /\ UNCHANGED l2
  /\ UNCHANGED <<now, version, l1, storage, requestVars, saveVars, fetchVars>>

-----------------------------------------------------------------------------
(* The surroundings *)

\* The origin shows something new under k.
Publish(k) ==
  /\ version[k] < MaxVersion
  /\ version' = [version EXCEPT ![k] = @ + 1]
  /\ UNCHANGED <<now, l1, l2, storage, requestVars, saveVars, purge, fetchVars>>

\* Eviction in L1 (its weight limit) or in L2 (see StorageCache).
Forget(k) ==
  /\ Forgets
  /\ \/ l1[k] # None /\ l1' = [l1 EXCEPT ![k] = None] /\ UNCHANGED l2
     \/ l2[k] # None /\ l2' = [l2 EXCEPT ![k] = None] /\ UNCHANGED l1
  /\ UNCHANGED <<now, version, storage, requestVars, saveVars, purge, fetchVars>>

\* Time passes, but not while a copy is on its way into L1, which takes no time.
Tick ==
  /\ now < MaxTime
  /\ \A r \in Requests : pc[r] # "promote"
                         /\ (saver[r] # None => saver[r].step # "insert")
  /\ now' = now + 1
  /\ UNCHANGED <<version, l1, l2, storage, requestVars, saveVars, purge, fetchVars>>

-----------------------------------------------------------------------------
(* The specification *)

\* The steps of a request and of a save that wait for nobody's decision.
Step(r) ==
  \/ HitL2(r) \/ MissL2(r) \/ Promote(r)
  \/ Board(r)
  \/ \E cacheable \in BOOLEAN : Answered(r, cacheable)
  \/ OriginFails(r) \/ ServeStale(r)
  \/ SpawnSave(r) \/ Land(r) \/ Tell(r)

Save(r) == SavePut(r) \/ SaveInsert(r) \/ SaveRelease(r)

Next ==
  \/ \E r \in Requests, k \in Keys, m \in Methods : Arrive(r, k, m)
  \/ \E r \in Requests : Step(r) \/ Save(r) \/ HangUp(r)
  \/ \E p \in Purges : PurgeL1(p)
  \/ PurgeL2
  \/ \E k \in Keys : Publish(k) \/ Forget(k)
  \/ Tick

Spec == Init /\ [][Next]_vars

\* tokio runs a ready task; the HTTP client and the gRPC channels have timeouts.
FairSpec == Spec /\ \A r \in Requests : WF_vars(Step(r)) /\ WF_vars(Save(r))

-----------------------------------------------------------------------------
(* Properties *)

\* The types of the variables: the requests of proxy_handler, the two tiers, the
\* save tracker and the purge handlers.
TypeOK ==
  /\ now \in 0 .. MaxTime
  /\ version \in [Keys -> 0 .. MaxVersion]
  /\ l1 \in [Keys -> InMemory \cup {None}]
  /\ l2 \in [Keys -> Copies \cup {None}]
  /\ storage \in Requests \cup {Nobody}
  /\ pc \in [Requests -> {"idle", "l2", "promote", "board", "fetch", "stale",
                          "store", "land", "wait", "done"}]
  /\ key \in [Requests -> Keys \cup {None}]
  /\ method \in [Requests -> Methods \cup {None}]
  /\ got \in [Requests -> Copies \cup {None, Failed}]
  /\ found \in [Requests -> Copies \cup {None}]
  /\ saver \in [Requests -> Saves \cup {None}]
  /\ saving \in SUBSET Keys
  /\ purge \in [state : {"l2", "done"}, keys : SUBSET Keys, way : {"proxy", "direct"},
                since : [Keys -> 0 .. MaxVersion], disturbed : BOOLEAN] \cup {None}
  /\ flight \in [Keys -> Requests \cup {Nobody}]
  /\ aboard \in [Requests -> Requests \cup {Nobody}]
  /\ outcome \in [Requests -> Copies \cup {None, Failed}]
  /\ answer \in [Requests -> Copies \cup {None, Failed}]

\* SaveTracker: at most one background save of a key runs at a time, whatever fetches
\* of it follow one another, and a key is tracked exactly while its save runs, so no
\* key is locked out of the cache for good.
SavesTracked ==
  /\ saving = {key[r] : r \in {q \in Requests : saver[q] # None}}
  /\ \A r, q \in Requests : saver[r] # None /\ saver[q] # None /\ key[r] = key[q] => r = q

Inserting(k) == \E r \in Requests : /\ saver[r] # None /\ saver[r].step = "insert"
                                    /\ key[r] = k

\* Unless a save is between its two inserts, a key that is in both tiers shows the same
\* copy in both: a promotion never overwrites a newer L1 copy with the older one it read,
\* since it keeps the storage mutex, and no two saves of a key cross.  It takes a storage
\* service that stores what it is given ("put" not in Faults), and says nothing of a body
\* in L2 that L1 refused for its size.
TiersAgree ==
  \A k \in Keys : l1[k] # None /\ l2[k] # None /\ FitsL1(l2[k]) /\ ~Inserting(k)
                  => l1[k].copy = l2[k]

\* L1 serves no copy longer than the two lifetimes together: a promotion restarts L1's
\* clock, but L1 never renews what is in L2.
AgeBounded == \A k \in Keys : InL1(k) => now < l1[k].copy.put + Ttl + L1Ttl

\* What the two tiers hold of the purged keys is what the origin showed since the purge.
Cleared ==
  \A k \in purge.keys : /\ l1[k] # None => l1[k].copy.ver >= purge.since[k]
                        /\ l2[k] # None => l2[k].ver >= purge.since[k]

\* A finished purge that nothing disturbed is effective, whatever follows it: its storage
\* call succeeded, no copy of its keys was on its way into a tier when it began, and none
\* left L2 while it ran.
QuietPurgeClears ==
  purge # None /\ purge.state = "done" /\ ~purge.disturbed => Cleared

\* A finished purge is effective: "교과서 콘텐츠가 업데이트된 경우 오래된 캐시를 삭제합니다"
\* (docs/guides/user-guide.md:365).
PurgeClears == purge # None /\ purge.state = "done" => Cleared

\* A request fails only if its lookup met no copy within the stale-if-error window
\* (try_serve_stale; services/proxy/src/lib.rs:431).
StaleCoversFailure ==
  \A r \in Requests :
    pc[r] = "land" /\ got[r] = Failed => ~InWindow(found[r])

\* What is cached under a key has the origin's body, so that a HEAD can be answered with
\* its size and a GET with it (services/proxy/src/lib.rs:4885, a test).
CachedAreWhole == \A k \in Keys : l1[k] # None => l1[k].copy.whole

\* Every request is answered: nobody waits for a flight or the storage mutex for good.
RequestsAnswered == \A r \in Requests : pc[r] # "idle" ~> pc[r] = "done"

\* Every background save ends and frees its key, so a later miss may save it again.
SavesFinish == \A k \in Keys : k \in saving ~> k \notin saving

-----------------------------------------------------------------------------
(* The inductive invariant behind the safety properties; proved in ProxyCacheProofs *)

\* What a request or a save has in hand at each step.
InHandTyped ==
  \A r \in Requests :
    /\ pc[r] # "idle" => key[r] \in Keys
    /\ pc[r] \in {"promote", "store"} => got[r] \in Copies
    /\ pc[r] = "land" => got[r] \in Copies \cup {Failed}
    /\ saver[r] # None => pc[r] \in {"land", "wait", "done"}

\* The storage mutex is held over a step exactly by the request that promotes.
MutexIsPromotion == \A r \in Requests : pc[r] = "promote" <=> storage = r

\* What L2 holds of a key whose copy is on its way into L1 is that copy.
OnTheWay ==
  \A r \in Requests :
    /\ pc[r] = "promote" => l2[key[r]] \in {got[r], None}
    /\ saver[r] # None /\ saver[r].step = "insert" => l2[key[r]] \in {saver[r].copy, None}

\* A copy enters L1 within its lifetime in L2.
EntersInTime ==
  /\ \A k \in Keys : l1[k] # None => l1[k].at <= l1[k].copy.put + Ttl
  /\ \A r \in Requests :
       /\ pc[r] = "promote" => now <= got[r].put + Ttl
       /\ saver[r] # None /\ saver[r].step = "insert" => saver[r].copy.put = now

\* Every purge clears in L1 what it clears in L2.
CoversL1 == \A p \in Purges : p.l2 \subseteq p.l1

\* L2 stores whatever it is given.
TiersKeep == "put" \notin Faults

\* While a purge is undisturbed, what could fill L1 again is no older than the purge,
\* and once it is done L2 cannot bring back anything older either.
Undisturbed ==
  purge # None =>
    /\ \A k \in Keys : purge.since[k] <= version[k]
    /\ CoversL1 /\ ~purge.disturbed =>
       \A k \in purge.keys :
         /\ l1[k] # None => l1[k].copy.ver >= purge.since[k]
         /\ purge.state = "done" /\ l2[k] # None => l2[k].ver >= purge.since[k]
         /\ \A r \in Requests : key[r] = k =>
              /\ pc[r] \in {"promote", "store"} => got[r].ver >= purge.since[k]
              /\ saver[r] # None => saver[r].copy.ver >= purge.since[k]

ProxyInv ==
  /\ TypeOK
  /\ InHandTyped
  /\ MutexIsPromotion
  /\ SavesTracked
  /\ TiersKeep => OnTheWay /\ TiersAgree
  /\ EntersInTime
  /\ Undisturbed

=============================================================================
