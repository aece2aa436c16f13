# A TLA+ verification of the smart-school CDN

The CDN sits between a school's network and the web sites its classes use: a
TLS-terminating caching proxy, the services it leans on, and an administration
server.  This directory holds TLA+ models of the parts of it where steps of
several actors meet, the TLC configurations that check them on small instances,
and TLAPS proofs that hold for instances of every size.

Paths below are relative to the repository root.

## 1. The system

| part | code | state it keeps | what it does |
|---|---|---|---|
| proxy | `services/proxy/src` (Rust, axum, tokio) | L1 memory cache (moka, 600 s), coalescer map, save tracker, origin semaphore, in-flight byte counter, domain and policy maps, per-domain counters, request-log ring, certificate cache | serves requests, fetches from origins, fills both cache tiers, answers its admin API |
| storage-service | `services/storage-service/src` | index (mutex), byte counter (atomic), files in `cache_dir` | disk cache behind gRPC: get, put, purges, statistics, periodic eviction |
| tls-service | `services/tls-service/src` | CA, issued certificates, registered hosts | issues leaf certificates on demand, prunes them on sync |
| dns-service | `services/dns-service/src` | registered hosts, ring of recent queries, counters | answers registered names with the proxy's address, forwards the rest |
| optimizer-service | `services/optimizer-service/src` | profiles, statistics | recompresses images |
| admin-server | `services/admin-server/src` (TypeScript, Fastify, SQLite) | users, domains, statistics, events, settings; health cache | REST API; pushes domains to proxy, DNS and TLS; collects statistics; purges |
| admin-web | `services/admin-web/src` (React, react-query, react-router) | what its tabs remember: session, queries, filters and selections, addresses, forms, dialogs, log lines | the console: shows what admin-server answers and asks it for changes |
| wire protocol, deployment | `crates/cdn-proto`, `deploy`, `docs` | none | generated code, configuration, documents |

How they interact.  A client's request reaches the proxy, which looks into L1,
asks storage-service (L2) through one mutex-guarded gRPC client, and on a miss
fetches from the origin, at most once per key at a time (coalescer), within a
number of concurrent fetches (semaphore) and a number of buffered bytes (atomic
counter).  A cacheable answer is saved by a background task, which may call the
optimizer, into L2 and then L1.  admin-server pushes the list of domains to the
proxy (HTTP) and to DNS and TLS (gRPC), after each write and when the proxy
comes back; it purges either through the proxy or by calling storage-service
itself; the proxy pushes events to it, and it polls statistics, DNS counters and
certificates into its tables.  The console polls it, keeps answers under keys in
react-query, and holds a log stream open.

What is hard about it:

* **Interleavings.**  The Rust services run every request and RPC in a task of
  its own on several threads; a critical section ends at each `await`.  The
  admin server is single-threaded, but its handlers interleave at each `await`,
  and they share one SQLite connection.
* **Tasks that vanish.**  hyper drops the task of a client that disconnects,
  wherever it waits; whatever it held has to be given back by its destructors.
* **State read before an await and used after it.**  Room in the cache, metadata
  of an entry, the limit on in-flight bytes, the row to restore on failure.
* **Two tiers and their purges.**  L1 and L2 are written and emptied one after
  the other, by requests, saves and purges that do not wait for one another.
* **Failures in the middle.**  A failed write, origin, push or purge leaves
  something done and something not.
* **Restarts.**  The disk outlives the index; the admin server's rows outlive
  the proxy's map; counters restart from zero; a start may be cut off in the
  middle of its migrations.
* **Counting.**  Counters are taken field by field while requests go on, sent
  once, and cut into buckets by several views.
* **Late answers.**  A page asks, the user goes on typing, filtering, navigating or
  logging out, and the answer finds a page that has moved.  Several tabs share one
  cookie, two forms one `history.pushState`, two effects one address.

What makes the parts correct, in a sentence each: a hit is a whole body that was
stored, within its lifetime, and the disk stays within its limit; one fetch per key,
and everybody who waits is answered; the two limits count what is held; the tiers agree
and purges work; what was acknowledged about a domain stays, what failed leaves no
trace, and the other services come to know it; each request and event is counted
once; one certificate per host; alerts and backups exist when they are said to;
sessions end when they should and not all administrators are locked out; and the
console shows what was asked for, changes what was shown, and loses nothing that was
typed.

`PROJECT.json` lists, under "hazards", each such place with its line and the
properties that watch over it.


## 2. The modules

| module | models | at the level of |
|---|---|---|
| `StorageCache` | `services/storage-service/src/cache.rs`, its RPCs (`grpc.rs`) and the eviction loop (`main.rs`) | one critical section or one file operation |
| `BoundedStore` | the promise of a bounded cache | abstract; implemented by `StorageCache` |
| `Coalescer` | `services/proxy/src/coalescer.rs` with tokio's broadcast channel | one critical section |
| `SharedFetch` | the promise of request coalescing | abstract; implemented by `Coalescer`, used by `ProxyCache` |
| `OriginLimits` | origin semaphore and in-flight byte counter of `services/proxy/src/lib.rs` | one atomic operation |
| `ProxyCache` | the request path of `proxy_handler`, the background save, stale-if-error and the purges | one await |
| `DomainRows` | the handlers of `services/admin-server/src/routes/domains.ts` that change domains, with `db/domain-repo.ts` | one stretch of a handler between two awaits |
| `DomainSync` | what those handlers, the health monitor and a starting proxy tell the proxy and DNS: `routes/domains.ts`, `health-monitor.ts`, `update_domains_handler` in `services/proxy/src/lib.rs`, `admin_client.rs`, `main.rs` | one message or one map; composes with `DomainRows` |
| `Accounts` | accounts and sessions: `routes/auth.ts`, `routes/users.ts`, `auth/require-auth.ts`, `auth/jwt.ts`, `db/user-repo.ts` of admin-server | one stretch of a handler between two awaits |
| `AdminTabs` | the same session in several tabs: `AuthProvider`, its broadcast and the 401 interceptor of admin-web | one call, answer or event |
| `TrafficStats` | counters of the proxy, their collector, table, pruner and views | one field of a counter, one statement or transaction |
| `OptEvents` | the proxy's event pusher, the batch route, its table, pruner, reconciliation and views | one event, batch or statement |
| `DnsMetrics` | the counters of dns-service and the rows per minute made of them | one counter or one snapshot |
| `Certificates` | the certificate cache of tls-service, the renewal route, the expiry scanner | one critical section or one await |
| `AdminDatabase` | the start of admin-server: migrations over what any release left, and the daily backups | one statement or transaction |
| `DomainList` | the list of domains: toolbar, selection, bulk dialogs, mutations, react-query | one event of the page or answer |
| `UnsavedForms` | the settings tab: two forms, two interceptors of `history.pushState` | one event |
| `LogStream` | the log viewer, its `EventSource`, and `routes/logs.ts` | one chunk or event |
| `PageAddress` | pages that keep their choices in the address: tabs, periods, filters, pager | one event with the effects after it |
| `DetailTables` | log, top URLs and URL optimisation of a domain, with their routes | one event, query or answer |
| `PurgeDialogs` | the dialogs of a domain page and the calls they make | one event or answer |
| `Sums` | sums over collections, for the accounting properties | mathematics |
| `*Proofs` | theorems about the module they are named after; `DomainSyncProofs` has those of `DomainRows` too, `JobsProofs` those of `Certificates`, `AdminDatabase`, `DnsMetrics`, `TrafficStats` and `OptEvents`, `ConsoleProofs` those of `Accounts` and of the pages | |
| `MC*` | instances for TLC | |

### StorageCache

`index`, `current_size` and `disk` are the fields of `CacheLayer` and the
directory.  Each caller (`Clients`: get and put; `Admins`: purges; `Evictor`:
the loop) is a task with a `pc`.  `GetMiss`, `GetExpired`, `GetFound` are the three
outcomes of `get`'s first critical section, `GetRead`, `GetReadBr` its file
reads, `GetHeal` its second critical section.  `PutStart` .. `PutRollback` are
the stages of `put`: the room is computed from an unlocked read, `EvictLru` makes
it, the file is truncated and written (two steps, so that others see it empty),
`PutRegister` enters it if it still `Fits` and otherwise `PutRollback` removes
the file.  `Unlink` removes files after the critical section that dropped their
entries.  `Crash` is a restart: the index is lost, the files are not.  `Cancel`
drops a call at one of the awaits in `CancelAt`.  `{key}.headers.json` is left
out: it is written and removed with the body and never read.

### Coalescer and SharedFetch

`in_flight` is the map of channels; a channel is named by the request that made
it.  `Lead` and `Subscribe` are the two outcomes of the first critical section,
`Fetch`, `Publish`, `Return` the leader's way out, `DropGuard` the destructor
that runs if it panics or is dropped, `Answer` and `Leave` a subscriber's end.  A
channel keeps its last `cap` results and counts what a slow reader lost; a
capacity of zero is raised to one, as the code does.  The refinement maps the map
to flights, channels to passengers, and a result to the flight's outcome; a
leader that vanishes is a flight that ends in `Failed`.

### OriginLimits

`permits` is the semaphore, `in_flight` the counter `IN_FLIGHT_BUFFER_BYTES`,
`reserved[f]` what f's `InFlightGuard` holds.  The three code paths that take a
permit are the `Modes`.  `ReserveLoad` and `ReserveCas` are the two halves of the
compare-and-exchange loop, which may fail spuriously; `Read` is `reconcile`,
`DropGuard` and `DropPermit` the destructors in their order, after success,
failure or cancellation alike.

### ProxyCache

A request goes through `Arrive` (L1), `HitL2`/`MissL2` (L2, under the storage
mutex, which a hit keeps until `Promote`), `Board`, the leader's `Answered` or
`OriginFails` and `ServeStale`, `SpawnSave`, `Land`, and `Tell`.  The save it spawned
goes through `SavePut`, `SaveInsert`, `SaveRelease`.  `PurgeL1` and `PurgeL2` are
the halves of a purge; one that goes "direct" is admin-server's call to
storage-service, which knows no L1.  A copy is (version of the origin's content,
has it a body, when stored): what a purge, a promotion or an expiry can confuse.
Coalescing is taken from `SharedFetch`; L2 is an atomic store that may forget,
as `BoundedStore` promises.  Which answers may be cached is left to chance
(`Answered`'s second parameter), so every classification is covered.

### DomainRows

`rows` is the table `domains` as the one SQLite connection shows it to every
handler, uncommitted rows included; `tx` is the open transaction of
`runInTransactionAsync` with what its ROLLBACK goes back to.  A row is (origin,
enabled): the origin, named after the request that set it, stands for every
column but `enabled`, because handlers either restore `enabled` alone or all of them.  `hostLocks` and
`prev` are the chain of promises of `withHostLock`.  A request goes through
`Arrive`; `NotFound`, `Refused` (BEGIN inside another transaction throws) or
`Begin`, which writes and calls the proxy; `Synced` (COMMIT) or `Failed`, which is
`RolledBack` for post, delete and bulk delete, `Restored` for put and toggle, and
`Kept` for bulk insert and bulk toggle; and `Answer`, after the fan-out to TLS and
DNS.  A forced sync writes nothing and goes on after `SyncFailed`.  bulk insert
opens a nested transaction (a savepoint) and is therefore not refused.  What
the calls carry and when the proxy fails is left to chance; so is whether a put
mentions `enabled`.

`settled` is not in the code: it is each row as the last request that was decided
(acknowledged, kept, or lost in a restart after an autocommitted write) left it,
which is what `rows` must come back to.  `clash` becomes true when a request
writes a row, or writes inside a transaction, that another may still undo.

### DomainSync

Extends `DomainRows`: `Send` is its `Begin` with the push, `Acknowledged` its `Synced`,
`GiveUp` its `Failed` or `SyncFailed`, `Told` its `Answer`, `AdminCrash` its
`Crash`.  A push carries the enabled rows as they are when it is sent; the proxy
replaces its `routes` (`domain_map`) and then its `policies`
(`ApplyRoutes`, `ApplyPolicies`) and answers, if the sender still waits.  The two policy maps
of the code are one here, as nothing reads both.  A sender that gives up leaves
its push behind: it is applied later, or `Abandoned` where it is, because hyper drops
the handler of a closed connection.  After `Acknowledged` all rows go to DNS (`fan`); a
forced sync reads the enabled rows once TLS has answered (`Ask`).  `Tick` is the
monitor, which sends both lists when it sees the proxy come back and does nothing
about the outcome.  `Restart`, `Pull`, `Serve` are the proxy's: it starts from a
snapshot of the routes, or empty if the admin server does not answer, and without policies.

`drift` is not in the code: it names what may differ from the rows because pushes
overlapped, one was cut short or applied after its sender gave up, rows were kept on
failure, or a restart lost them.  A push that ran alone from its sending to its answer clears it.
Restarts of DNS and TLS are not modelled: nothing repairs them until the next
change or the proxy's next outage.

### Accounts and AdminTabs

`users` is the table, `signed` the session tokens that verify, `at`, `job` and
`reply` the requests.  `Arrive` is a handler up to its first await or its answer,
`Resume` what follows an await; hashing and verifying with argon2 are the only
awaits, so a login reads the row before and signs after others may have changed
it.  `ended` is not in the code: it is what a change of password or a disable
put an end to.  A hash stands for the password it verifies, and a token carries,
as a ghost, the password its holder proved.

`AdminTabs` takes each call of the server as one step and looks at the other
side: `cookie` belongs to a browser, `tab` (the `AuthStatus`) and `call` to a tab,
`inbox` holds the events of BroadcastChannel and of the storage fallback, which
arrive late, twice or in either order.  `Take` is the answer with what the
page does about it, `Lost` an answer that does not come.

### The jobs: TrafficStats, OptEvents, DnsMetrics, Certificates, AdminDatabase

`TrafficStats`: `Count` and `CountOutcome` are the two steps in which
`record_domain_outcome` counts a request, `Take` one `swap` of `stats_handler`,
`Respond` and `Collect` the answer and the collector's loop over it, which stops at
the first host without a row.  `DeleteBegin` .. `DeleteRollback` are a delete whose
transaction waits for the proxy.  `visits` keeps what was requested and `disturbed`
notes the ways in which the code loses counts; neither is in the code.

`OptEvents`: `Emit` drops on a full channel, `Receive` fills the batch,
`FlushTick` and `FlushEnd` post and clear it whatever the answer, `Batch` is the
route, which refuses a whole batch for one decision it does not know.  A row has a number of its own (`lastRow` is
SQLite's sequence, which a rollback turns back), and `id` numbers events, which the code does not.
`PrunerTick` prunes by age and then reconciles orphans.

`DnsMetrics`: `GetStats` takes a snapshot, `Snapshot` is `computeDelta` and the
upsert of the minute's row; either service restarts at any time.

`Certificates`: `Look` and `Store` are the two critical sections of `get_or_issue`,
`Pruned` the `prune_to` of a sync or renewal.  `Tick` starts a scan, `Send` hands an
alert to the sinks and `Arrived` stores it.

`AdminDatabase`: a file is its accounts and its schema; `AddColumn`, `Deduplicated`,
`LowerNames`, `NoCase`, `TokenVersion`, `Times` are the migrations in their order,
each atomic, and `Crash` may come between any two.  `BackupStart` .. `BackupDone` is the
maintenance job.

`MCJobs` is a sum: these parts share no state, so an initial state picks one and
only that one moves.  One run then answers what five would.

### The console: DomainList, UnsavedForms, LogStream, PageAddress, DetailTables, PurgeDialogs

All six take react-query by what the pages use of it: `queries` or `cache` is what it
holds under a key, `fetching` or `asked` the answers under way; an answer is what the
server had when it was asked and comes at any later time, or fails.  An update that
invalidates a key refetches it.

* `DomainList`: `filter` is in the address, `typed` is what the debounce of the search box
  still holds, `selectedHosts` and `dialog` are state of the page, `sent` its
  mutations.  Another session changes rows as well.
* `UnsavedForms`: `form` says of each form whether it differs from what the server has,
  `pending` which navigation its dialog asks about.  The two instances of
  `useUnsavedChangesPrompt` wrap `pushState` one inside the other; `left` are wrappers
  that stay behind because their cleanups run in the order of mounting.
* `LogStream`: `stream` is the request as the route and the connection hold it; a chunk may end
  inside a frame (`cut`), `wire` are the events on the way, `lines` the ring.
* `PageAddress`: `entries` is the browser's history with, beside each address, what
  the user had chosen (a ghost).  Effects that correct an address are part of the step, in the order in
  which React runs them, from the address of the render they belong to.
* `DetailTables`: `controls` are a table's controls, the debounced search included,
  `QueryKey` what its answer is kept under.
* `PurgeDialogs`: `popup` is the dialog that is open, `calls` the mutations with the
  dialog they were made from; `Moved` is a navigation under them, which unmounts some
  components and keeps others, and a call of an unmounted component goes on.

`MCConsole` is the sum of these and `Accounts`, like `MCJobs`.

## 3. The runs

Every run takes its constants from its own `.cfg`.  Deadlock is checked in the
`Storage*`, `Coalescing` and `LimitsExact` runs.  In the others the system does stop:
every request is sent once, and users, clocks and jobs have a bound on what they do.

| run | asks | result |
|---|---|---|
| `StorageDeployed` | As deployed: are hits whole, does self-healing only drop ghosts, do the files fit, does the eviction loop keep up? | holds |
| `StorageConcurrent` | With two callers at once, dropped calls at every await, failing writes and restarts: is the cache a `BoundedStore`, whose count is exact and within capacity? | holds |
| `Coalescing` | Is the coalescer a `SharedFetch`: one fetch per key, nobody stranded? Is everybody answered? | holds |
| `LimitsExact` | Do both counters equal what is held? Do declared bodies stay within the limit together? | holds |
| `ProxySaves` | One tracked save per key; do the tiers agree; is a copy's age bounded; does an undisturbed purge work; is every request answered, does every save end? | holds |
| `ProxyHead` | Does what is cached under a key have its body? | no |
| `Domains` | Do the host locks serve in order, one at a time? Do acknowledged changes stay and failed ones leave no trace, unless two requests wrote over one another? Is every request answered? | holds |
| `DomainSync` | Once it is quiet, do the proxy's maps equal the enabled rows, and does DNS answer for them, unless pushes overlapped or were cut short after the last that ran alone? | holds |
| `DomainRollback` | Do the host locks alone make the rollbacks of put, toggle and delete exact? | no |
| `AdminTabs` | Does a tab that is left open find out that its session has ended? | holds |
| `Jobs` | Is a request counted once, and do the views of the counts agree? Is an event stored once and seen once by each view, and do orphans go? Does a restart never count a DNS query twice? Has a host one certificate, is each alert sent? Do accounts and backups survive any start? | holds |
| `Console` | Can nobody lock everybody out, do sessions end for good and know the password? Does a bulk change reach only what was shown, does a change of one's own stay in the list, does no link take unsaved input, is the log without a gap, does an address keep its choices, do tables show what their controls ask for, do late answers leave other dialogs alone? | holds |

### Bounds, and why they are enough

* Storage: two keys of one domain.  Two keys are the least with which a put can
  evict something else, and every race is between calls on one key or on a pair.
  In `StorageDeployed` sizes 2 and 3 against a capacity of 4 at the deployed
  ratios (90 and 75 per cent): two small bodies fill the cache, a large one needs
  an eviction, and leaving one file behind overflows the directory.  Three puts and two
  clock ticks: an entry is stored, expires or is overwritten, and is stored again.  Nothing
  happens to the cache before its first put, which may as well be of the first key (`FirstPut`).
  In `StorageConcurrent` sizes 2 and 4 against 3: two concurrent puts both believe
  they fit, and one object is refused.
* Coalescing: three requests on two keys: leader, subscriber, and a successor
  of the leader or a stranger; two values.
* Limits: three fetches on two permits; lengths below, at and above the byte
  limit (3) and the streaming threshold (4), and unknown, with bodies larger and
  smaller than the estimate.
* Proxy: one key, as requests for different keys share only the storage mutex, which
  `StorageDeployed` covers from the other side; two requests, one that fills the
  cache and one that reads it, fills it anew or waits for the first.  Two versions of the
  content, of which the later is too large for L1.  The clock runs to the sum of both
  lifetimes, its last tick only where nothing was purged.  The requests are alike and come in one
  order (`Bounded`).  Each request is sent once; it may be thought of as one of any number
  that came before.  The proofs take any number of requests and keys.
* Domains: three requests: one that opens a transaction, one that writes inside
  it or is refused, and one that waits behind either.  Two hosts: a transaction on one and
  a rollback on the other.  Requests arrive in one order and the first is for the first host
  (`InOrder`).  `DomainSync` has one host and one kind of request of each
  sort, as every list is replaced as a whole; two requests, the monitor as a third sender,
  and one restart of the proxy; the admin server restarts whenever it has something to
  do.  Its `VIEW` leaves out the variables that only the properties of `DomainRows` read.
* `AdminTabs`: two tabs in one browser, two users, one change that ends sessions: the tab left
  open, and another that logs in, out and changes accounts.
* `Jobs`: two requests to a host with a row and one served by a wildcard, buckets of two
  seconds, days of four, a clock that leaves a bucket and a day; three events in batches of
  two with one place in the channel, so that one is dropped, one batched and one late, and
  a delete; two queries in three minutes of which two are kept; two handshakes for one
  host, two certificates, one restart; two accounts as any of five releases left them, with
  backups on three days of which one is kept.
* `Console`: two clients, names and passwords, and a token version of at most one; two rows of which
  one matches the search, a change of each session and one request at a time; three visits to the
  settings tab; three lines of which two fit the ring, and two services; four choices on pages opened
  with right and wrong addresses; three requests of two hosts, three moves and two keys of the query
  cache; two hosts, two paths, two dialogs and one call under way.  The constraint `Bounded` adds that
  the first account has the first name and password, that there are two sessions of which one has
  ended, two answers to the list under way (none of them failed if there are two filters), two keys of
  the tables, a request that comes or goes, and one domain that is not as it was.  The proofs have none
  of these bounds.

Each bound is the least at which the races named in the module exist; a mutation of the code breaks
each property inside them.

### Fairness

* `Coalescer`: weak fairness of each request's own steps.  tokio runs a ready
  task; the leader's fetch ends because reqwest is built with a timeout (30 s; 5 s to
  connect).  A client's leaving and a panic are never forced.
* `StorageCache`: weak fairness of each task's continuation, and of the eviction loop's
  tick, which `tokio::time::interval` repeats for ever.  Nothing is assumed
  of callers.
* `ProxyCache`: weak fairness of each request's and each save's steps; the storage
  client has a deadline, so its mutex is released.  Arrivals, purges, hang-ups,
  evictions and the clock are not forced.
* `DomainRows`: weak fairness of each request's steps: Node runs what is ready,
  and the calls to the proxy (3 s) and to TLS and DNS have deadlines.  Arrivals and restarts
  are not forced.
* `OptEvents`: weak fairness of the end of a delete that waits for the proxy (its call has the
  same deadline) and of the pruner's interval.
* `AdminTabs`: the page left open polls (`refetchInterval`), and some of its answers arrive: strong
  fairness, since other calls of the tab may come between.  Whatever is asked is answered or lost,
  and a browser hands its tabs their events.  What users do is not forced.
* `OriginLimits` has no liveness property: waiting for a permit is bounded by the
  five-second timeout of the code.

## 4. The proofs

Everything proved is proved for any sets of keys, requests, clients, hosts, rows and sizes, and for any
values of the bounds, that meet the assumptions each module states beside its constants
(`StorageAssumption`, `CoalescerAssumption`, `LimitsAssumption`, `ProxyAssumption`, `RowsAssumption`,
`NoneAssumption`, `SyncAssumption`, `SentAssumption`, `AccountsAssumption`, `CertAssumption`,
`DatabaseAssumption`, `ListAssumption`, `FormsAssumption`, `LogAssumption`, `RequestsAssumption`):
finite sets where something is counted, non-negative sizes and times, markers such as `Nobody` distinct
from the things they are not.  The TLC runs evaluate all of them.

* **`StorageCacheProofs`**: `TypeCorrect`; `AccountingHolds` (`SizeExact` and
  `WithinCapacity`); `BoundedStoreImplemented`.  The invariant is `Accounting ==
  TypeOK /\ SizeExact /\ WithinCapacity`.  Capacity alone is not inductive: an
  eviction subtracts the bytes of what it drops, and only the exact count says that
  this is no more than there is.  With `Accounting`, each critical section is a
  `Store` or a `Forget` of the abstract store, and everything else stutters.
  `FilesIntact`, `HitsStayIntact`, `NothingLeftBehind` and `HealingIsSound` are about the cache as it is
  deployed (`Deployed`: the proxy's one client, any number of administrators who purge, no crash, no
  failing write).  Their invariant `Intact` says of a body file that the put that writes it, an entry with its
  contents, or a task about to unlink it accounts for it (`FileOK`); of a put, that what it has written is there
  as it wrote it or was unlinked meanwhile (`PutOK`); and of a get, that what it is about to read is what its
  entry was filed with, or gone (`GetOK`).
* **`CoalescerProofs`**: `TypeCorrect`, `OneFlightPerKey`, `NoSubscriberStranded`,
  `NoSubscriberLags`, `SharedFetchImplemented`.  The invariant `CoalescerInv` adds
  that the map holds exactly the channels of live leaders under their own keys and
  that exactly their guards are armed (`MapIsLeaders`): that is why a late guard
  cannot remove its successor's channel; that a channel gets one result, when
  it leaves the map (`SendsOnce`); and that subscribers start reading
  at its beginning (`ReadsFromStart`).  `NoSubscriberLags` also settles the task that tunes
  the capacity (`lib.rs:108-156`): it doubles it when a subscriber has lagged and halves it after ten
  calm intervals; as none ever lags, it can only shrink it to its minimum, harmlessly.
* **`OriginLimitsProofs`**: `TypeCorrect`, `CounterIsExact`, `PermitsConserved`,
  `AdmissionWithinLimit`, `DeclaredStaysWithinLimit`.  The invariant `LimitsInv`
  adds what a fetch between the check and the exchange knows (`Reserving`).
  The exchange succeeds only on the value that was checked, so the admission is within
  the limit although the check is not atomic with it.
* **`ProxyCacheProofs`**: `TypeCorrect`, `SavesAreTracked`, `TiersDoAgree` (for a
  storage service that stores what it is given), `AgeIsBounded`,
  `QuietPurgeIsEffective` (for purges that clear in L1 what they clear in L2).
  The invariant `ProxyInv` adds that the storage mutex is held across a step
  exactly by the request that promotes (`MutexIsPromotion`), that what is on its way to
  L1 is what L2 has (`OnTheWay`), that copies enter L1 within their lifetime
  (`EntersInTime`), and what an undisturbed purge leaves (`Undisturbed`).
* **`DomainSyncProofs`**, about the rows: `TypeCorrect`, `LocksAreFair`, `TransactionsEnd`,
  `RollbacksAreExact`, and `LocksSuffice`: with puts, toggles and forced syncs only,
  the rows are always as decided.  The invariant says of the chain that whoever waits
  arrived after the one it waits for and nobody else stands between them, so
  only its head is past the lock; and of the rows that, as long as no request
  has written what another may undo, each row is the decided one or the doing of the one
  request that may still undo it.  `LocksSuffice` then shows that locked requests
  without transactions never write over one another.
  `RowsImplemented`: every step of `DomainSync` is one of
  `DomainRows` or leaves the rows alone; so what is proved of the rows holds
  beside whatever happens to the pushes (`RollbacksStayExact`).
  About what is told: `ProxyConverges` (`Converged`) and `NamesResolve` (`Resolvable`), from
  `SyncInvariant` (`SyncInvariantHolds`).  What is hard is that a push carries rows
  that its sender may still undo.  `AloneOK`: a push that runs alone is the only one, nobody else has rows to undo,
  and until its sender gives up it carries the rows as they are, as do the maps that have it.  `MapsOK`: a map
  outside `drift` equals the rows if they are decided, and what they go back to if not, unless the push under way has
  replaced it; while the proxy is down the snapshot it will serve counts as its map, and its policies have
  drifted (`DownOK`).  `FansOK` and `NamesOK` say the same of the lists on their way to DNS and of its names.
* **`ConsoleProofs`**, about `Accounts`: `TypeCorrect`, `NeverLockedOut`, `KnowsPassword`, `EndedForGood`, for
  any number of clients, names, passwords and token versions.  The invariant `AccountsInv` adds what
  each token and each request that waits for argon2 knows of a row: its version is at most
  the row's, and while the two are equal the password is the one that was proved
  (`TokensFit`, `ClientsFit`); an ended token has a version below its row's.  A password
  changes with its version only (`RowsAdvance`), which is why a login that read the row
  before others changed it signs a token that nobody accepts.  `SomeoneEnabled` holds because the count and the
  write of a disable are one stretch without an await.
  About the pages:
  * `EditsAreKept`, `UnsavedForms`: `FormsInv` adds that the origin form's dialog is on the way out of the tab
    only when nothing is typed in the optimizer form, whose interceptor comes first (`OriginAskedLast`).
  * `OwnChangesAreKept` and `BulkIsInView`, `DomainList`: `ListInv` adds that what is listed or selected was
    shown (`SelectedShown`) and that an answer on its way to the page was read after the last of the page's own
    changes that it knows of (`QueriesFit`).
  * `LogIsUnbroken`, `LogStream`: `StreamFits` says that the lines in the ring, the events on the wire
    and the rest of the response follow one another without a gap, for any ring and history.
  * `DialogsStayAsShown`, `PurgeDialogs`: `ModalUntilAnswer` says that a live call that can close a
    dialog was made from the one that is open, and is the only such call.
  * `TablesMatchControls`, `DetailTables`: an answer is a true one for its key (`AnswersTrue`) and a page
    beyond the first is one of the present filter (`PageIsOfFilter`).  That the log shows no more rows
    than asked for (`NewestAreFew`) is proved by ranks: times are distinct, so the rows among the
    newest n map into 1..n.
  * `AddressesKeepChoices`, `PageAddress`: `AddressInv` adds that addresses hold numbers where numbers belong and
    what the mounted tab holds is of its entry (`LocalFits`); on the system page nothing is ever pushed, and
    the one address has no search once the certificates are few (`SearchFits`), so that it shows the same when they
    are counted again.  That a correction never changes what an address shows is proved for each page from what each key
    gives before and after (`PeriodCorrected`, `DnsCorrected`).  `AddressAssumption` leaves out links to a
    period that begins within the first day of 1970, which the date field would read back as none.
* **`JobsProofs`**: `OneCertificateAtATime` adds that whatever valid certificate was handed out is the
  cached one (`HandedCached`); `AlertsSentOnce` counts what was sent against what is stored and the starts that came
  between (`SentAsStored`); `DataIsKept` adds how a start may change a row, whichever release left it
  (`AccountsFit`), and what each stage of the migration relies on (`StagesFit`, `NamesUnique`), wherever the last start
  stopped.
  `CountsAreServed`: `NotTwice` says for each field that the rows and what the snapshots still to be stored would add
  do not exceed what was served, whichever of them arrives; `Growing` and `RowsExact` say what the rows and their sum are
  while nothing restarts.  `RequestsCountedOnce`: `NoMore` compares what is pending in the counters, in the one being
  taken and in the answer, and what the table has, with the requests that were made, for the table as it is and as a
  rollback would leave it; `NoLess` says when these are equal, and `Grew` that what arrives beside a transaction is seen
  when it ends.
  `ViewsAlwaysAgree` needs no more of the invariant than its types: the views are taken from one table.  The rows
  of a period are split by bucket and by host, and each split adds up (`SumGroups`); what the hours of a host leave
  out of its day is the row of the second that has begun.
  `EventsCountedByAll`: an event's number is in one place of the channel, the buffer while it is not flushed,
  the batches on their way and the table (`SentOnce`); so it is stored once, in the table as it is and in the one a
  rollback restores (`StoredOnce`).  The views by decision and by address group the same rows (`GroupsCount`); the list
  with room for all has them all because fewer than all are newer than any.
* **`SumsProofs`**: the laws of `SumOf`, a fold.  What it computes takes an induction, which is done by a least
  counterexample (`WFMin` of the library, over the sizes of the sets); it shows that a sum of naturals is the cardinality
  of a set of cells, and the other laws follow from the library's theorems about `Cardinality`.
  `SumGroups` (the sums of the groups of a collection add up to its sum) and `GroupsCount` (so do their numbers) are done
  by least counterexamples too.

`OneFlightPerKey`, `NoSubscriberStranded`, `NoSubscriberLags`, `AdmissionWithinLimit`, `TransactionsEnd`,
`FilesIntact` and `AccountingHolds` need no run of their own: they are proved, and the refinements and sharper
invariants that the runs check rest on them.

Only model-checked:

* liveness (`WaitersAnswered`, `EvictionRelieves`, `RequestsAnswered` of `ProxyCache` and of `DomainRows`,
  `SavesFinish`, `OrphansGo`, `StaleTabLeaves`), which needs fairness and `ENABLED`.


## 5. What the checks show of the code

### The violated runs

* `ProxyHead`: a HEAD that misses is forwarded as a HEAD; its empty body is cached
  under the key that GETs use.
* `DomainRollback`: while a put on one host waits for the proxy, a delete of another
  opens its transaction.  The put fails and restores its row, inside that
  transaction; the delete fails and rolls it back, restoration included.  The put
  was answered 502 and its origin stays.

`RowsAsDecidedAlone` holds in `Domains` under the condition that the second finding breaks:
no row is written by two undecided requests.

### What shows when a constant or a condition is changed

* `Crashes = TRUE` in `StorageDeployed` violates `DiskWithinMax`: `CacheLayer::new` ignores the
  files it finds, so they are neither served nor evicted and the directory outgrows
  `max_size_bytes`.
* `DiskFaults = TRUE` in `StorageDeployed` violates `HitsAreIntact` and `DiskWithinMax`:
  a failed write truncates a file whose older entry stays indexed, and the next get serves the fragment.
* `Purges <- Direct` in `ProxySaves` violates `QuietPurgeClears`: the purge of the
  admin server's cache page (`routes/cache.ts:319`) reaches L2 only, and L1 goes on serving the copy.
* `StaleCoversFailure`, which no run checks, fails in `ProxySaves`: the ordinary lookup deletes
  the expired copy that stale-if-error looks for when the origin then fails.
* `PurgeClears`, which no run checks, fails in `ProxySaves`: L1 is emptied before L2
  (`proxy/src/lib.rs:2201`), so a request in between hits L2 and promotes the purged copy, or a
  save under way writes it after the purge.  `QuietPurgeClears` is what remains.
* `DeclaredWithinLimit` speaks of declared lengths only, because `reconcile` raises the
  counter without looking at the limit when a body of unknown length is larger than its estimate.
* Two concurrent POSTs of one host, which hold no lock, may leave a row that nobody
  announced: `DomainSync` counts a failure among clashing requests as `drift`.

### What the properties had to be worded around: jobs

* `stats-collector.ts:28-50`: the first host without a row (a wildcard's) breaks the loop by its
  foreign key; the counts of the hosts after it are lost.  Fields are swapped one by one, and
  a row with `requests === 0` is skipped with whatever else it carried.
* `BYPASS-METHOD`, `BYPASS-SIZE`, `BYPASS-OTHER` are not in `ALLOWED_DECISIONS`: one such event makes the
  route answer 400 to the whole batch, and `flush_once` has cleared it by then.
* `reconcileOrphans` (`optimization-events-repo.ts:303-310`) removes, every hour, the events of hosts that a
  wildcard serves and those of the eviction loop (host `*`).
* Batches inserted while a delete's transaction waits are rolled back with it.
* `domains.ts:297-316`: an hour without a row has no bucket, against the comment; the change over
  30 days compares with rows that were pruned; an average of averages is shown as the average.
  `diagnoseAggregate` counts decisions that are never stored.
* The primary key of TLS alerts is never reset, so a renewed certificate of the same host warns once per
  threshold in its life.  Renewing one certificate (`routes/tls.ts:115`) renews nothing that is
  cached and prunes every other; certificates are in memory only.
* `computeDelta` of the DNS metrics sees a restart only when the total shrinks.
* `seedIfMissing` brings `httpbin.org` back at every start.  The losers of the case
  deduplication (#190) are disabled and renamed.
* `VACUUM INTO` fails while a transaction is open, and the backup of that day is skipped;
  `lastBackupDay` is in memory, so a restart within the hour makes another; a crash leaves a partial
  file under a name that looks whole.

### Accounts and tabs

* Setup counts the users before hashing only (`auth.ts:64-68`).  A change of one's own password that is
  under way overrides an administrator's reset and signs again (`users.ts:199-234`).
  `updatePassword` and `bumpTokenVersion` are two autocommitted statements.  Enabling is not audited,
  and a failed audit insert is swallowed.
* A setup answered 409 navigates to the login page while the state stays `needs_setup`
  (`SetupPage.tsx:44-46`).  Events go over both channels although the comment calls one a fallback
  (`auth-broadcast.ts:31`).  A login is not broadcast; a change of one's own password logs the other tabs
  out although the cookie is valid.  Logging out of a dead session gets 401, and the tab stays.
  `AdminTabs` therefore asks about a tab that polls; the users and audit pages do not, and
  UsersPage can stay on a page that has become empty.

### The console

* List: the debounce captures the filter at the time of typing and overwrites a newer one; the selection survives
  Back and the sidebar's link, against `DomainsPage.tsx:335-336`; a bulk toggle that succeeds
  clears the selection under an open delete dialog; an add that is answered during the first load is not
  shown until the next poll; an inactive query's late answer clears its invalid mark.
* Settings tab: the cleanups of the two interceptors run in the order of mounting and leave the
  dead one in `pushState`, which swallows links until a reload; with both forms dirty a confirmation leads to
  Settings itself; Back loses edits without a dialog; a failed refetch replaces the form; an
  answered save overwrites what was typed meanwhile; a delete's own navigation is blocked while a form is dirty.
* Log viewer: a reconnect appends the last 100 lines again; a late `/auth/state` check of the
  previous service's stream disconnects the present one; that route always answers 200, so the 401 redirect never
  happens; `logs.ts` looks neither at Docker's status nor at a client that leaves before Docker answers.
* Addresses: "진단" pressed twice pushes two entries, after which Back leaves the input out of step with the
  address ("양방향 동기화", `DomainDiagnoseTab.tsx:4`); when the page's correction and the tab's effect run in one commit
  the later one wins; the period selector's date fields stay closed after Back to a custom period.
* Tables: the optimisation table past its last page says that nothing was collected and has no pager, and its
  offset stays when the host changes under it; the log asks for more rows than the route allows (1000);
  `access_logs` is never created, so the log is the proxy's ring of 100, which never has the hosts of a
  wildcard and is empty, with status 200, when the proxy cannot be reached; the search of the ring is
  case-sensitive, those of the page and of the database are not.
* Dialogs: the `finally` of `onConfirmRefresh` (`DomainDiagnoseTab.tsx:128-130`) clears the URL of a dialog opened during
  the refetch, which then shows none and sends nothing; Refresh judges by the debounced path's data and takes the
  present input; purges by domain never invalidate `domain-diagnose`; the proxy test, closed during a test and
  opened again, shows the late result beside the reset path; the toggle's label is stale until the refetch, so a second click
  does the opposite; a late answer to a delete navigates away from wherever the user is; the answer to a URL purge
  clears what was typed meanwhile; `usePurgeDomain` does not invalidate the summary as `usePurgeCache` does.

## 6. What is not modelled, and why

* Response building (Range, compression, header policy), Cache-Control parsing
  and the classification of responses: pure functions of one request, which unit tests reach.
  In `ProxyCache` the classification is a free choice.
* The proxy's restart: its memory is gone and every model of it starts empty; `DomainSync` has it for the maps.
  The streaming bypass caches nothing and holds only a permit (a mode of `OriginLimits`).
* dns-service's answers: a lookup in one map that each sync replaces (`DomainSync` has the map,
  `DnsMetrics` its counters).  Its ring of recent queries is read by one page.
* The cryptography of TLS, image coding, DNS wire format: libraries.
* Restarts of DNS and TLS in `DomainSync` (section 2).
* Read-only RPCs and pages, charts, the remaining cards of the settings tab (stale-if-error, capacity, TLS),
  logging, metrics endpoints; the crates and deployment files, which keep no state.
* `dev_seed_popular` in storage-service, which seeds development data.
* A panic inside a background save (`services/proxy/src/lib.rs:1522`), which would leave its key in the tracker.
* The weight limit of L1 other than as `Forget` and `Small`; moka is a library.
* React's order of a render, its effects and the next event is assumed: a navigation is rendered before the next event.

Two hazards have no property, with the reason in `PROJECT.json`: what a failed write leaves
(`cache.rs:303`) and the lookup that deletes what stale-if-error needs (`lib.rs:1187`); the code does not
keep either promise, as the notes above say.

## 7. The plan, and what became of it

1. Done: the cache path from disk to request, with proofs.
2. Done: the domains' rows under concurrent requests and what proxy and DNS are told of them, with proofs.
3. Done: certificates and DNS metrics.  Left: the ring of recent DNS queries.
4. Done: events, counters, collectors and their views, and the database across its starts.
5. Done: accounts, with proofs, and their sessions in several tabs.
6. Done, beyond the first plan: the console's list, forms, log viewer, addresses, tables and dialogs,
   with proofs.
7. Left: cache policy and ranges against reference definitions.
