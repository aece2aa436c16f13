----------------------------- MODULE TrafficStats -----------------------------
(***************************************************************************)
(* The statistics of the domains: the proxy's counters (DomainCounter and    *)
(* stats_handler in proxy/src/lib.rs), the collector of admin-server that    *)
(* takes them (stats-collector.ts), the table domain_stats with its pruner   *)
(* (db/domain-stats-repo.ts, domain-stats-pruner.ts), and the views of it    *)
(* (the repository, routes/domains.ts and routes/cache.ts).                  *)
(***************************************************************************)
EXTENDS Sequences, Sums

CONSTANTS
  Hosts,        \* the hosts that requests name
  Covered,      \* those of them that a wildcard domain serves: no row of their own
  MaxVisits,    \* bound on the requests to the proxy
  Hour, Day,    \* a bucket and a window, in seconds of the clock
  Retention,
  MaxClock,     \* bound on the clock
  None

Outcomes == {"hits", "misses"}   \* l1 and l2 are hits; the four bypasses count as misses do
Fields   == Outcomes \cup {"requests"}
Zero     == [f \in Fields |-> 0]
Got      == [Hosts -> [Fields -> Nat]]

ASSUME TrafficAssumption ==
  /\ IsFiniteSet(Hosts) /\ Covered \subseteq Hosts
  /\ Hour \in Nat \ {0} /\ Day \in Nat \ {0} /\ Retention \in Nat
  /\ None \notin [order : Seq(Hosts), got : Got]
  /\ None \notin [order : Seq(Hosts), got : Got, left : SUBSET Hosts, field : 1 .. 3]

VARIABLES
  counters,     \* the proxy's map of counters
  visits,       \* the requests so far: host, outcome, and whether the outcome is counted
  taking,       \* stats_handler under way: the hosts so far, what it got, those left, the next field
  answer,       \* its answer on the way to the collector: hosts in order, and what each had
  listed,       \* table domains
  stats,        \* table domain_stats, by host and second
  undo,         \* the transaction of a delete that waits for the proxy, if any: what it restores
  clock,
  disturbed     \* auxiliary: has anything been lost in a way that the code has?

trafficVars == <<counters, visits, taking, answer, listed, stats, undo, clock, disturbed>>

Plus(a, b)   == [f \in Fields |-> a[f] + b[f]]
Counts(of, K) == SumBy(Fields, of, K)

TrafficInit ==
  /\ counters = <<>> /\ visits = <<>>
  /\ taking = None /\ answer = None /\ undo = <<>>
  /\ listed = Hosts \ Covered
  /\ stats = <<>>
  /\ clock = 0 /\ disturbed = FALSE

-----------------------------------------------------------------------------
(* The proxy *)

Visit(h, o, done) == Append(visits, [host |-> h, outcome |-> o, done |-> done])

\* record_domain_outcome counts the request under the read lock,
Count(h, o) ==
  /\ Len(visits) < MaxVisits /\ h \in DOMAIN counters
  /\ counters' = [counters EXCEPT ![h]["requests"] = @ + 1]
  /\ visits' = Visit(h, o, FALSE)
  /\ UNCHANGED <<taking, answer, listed, stats, undo, clock, disturbed>>

\* and then its outcome.
CountOutcome(v) ==
  /\ ~visits[v].done
  /\ counters' = [counters EXCEPT ![visits[v].host][visits[v].outcome] = @ + 1]
  /\ visits' = [visits EXCEPT ![v].done = TRUE]
  /\ UNCHANGED <<taking, answer, listed, stats, undo, clock, disturbed>>

\* The first request of a host makes its counter under the write lock, which waits for the others
\* and for stats_handler.
CountFirst(h, o) ==
  /\ Len(visits) < MaxVisits /\ h \notin DOMAIN counters
  /\ taking = None /\ \A v \in DOMAIN visits : visits[v].done
  /\ counters' = [k \in DOMAIN counters \cup {h} |->
       IF k = h THEN [Zero EXCEPT !["requests"] = 1, ![o] = 1] ELSE counters[k]]
  /\ visits' = Visit(h, o, TRUE)
  /\ UNCHANGED <<taking, answer, listed, stats, undo, clock, disturbed>>

\* The collector asks every minute; stats_handler takes the counters in the order of the map.
Ask ==
  /\ taking = None /\ answer = None
  /\ taking' = [order |-> <<>>, got |-> [h \in Hosts |-> Zero], left |-> DOMAIN counters, field |-> 1]
  /\ UNCHANGED <<counters, visits, answer, listed, stats, undo, clock, disturbed>>

FieldOrder == <<"requests", "hits", "misses">>

\* take empties the fields one after the other: the first one says which host is being taken.
Took(h) ==
  LET f == FieldOrder[taking.field] IN
  /\ taking # None
  /\ IF taking.field = 1 THEN h \in taking.left ELSE h = taking.order[Len(taking.order)]
  /\ taking' =
       [order |-> IF taking.field = 1 THEN Append(taking.order, h) ELSE taking.order,
        got   |-> [taking.got EXCEPT ![h][f] = counters[h][f]],
        left  |-> taking.left \ {h},
        field |-> (taking.field % Len(FieldOrder)) + 1]

\* Changed: the counter is read but not set to zero.
TakeUnreset(h) ==
  /\ Took(h)
  /\ UNCHANGED <<counters, visits, answer, listed, stats, undo, clock, disturbed>>

Take(h) ==
  /\ Took(h)
  /\ counters' = [counters EXCEPT ![h][FieldOrder[taking.field]] = 0]
  /\ UNCHANGED <<visits, answer, listed, stats, undo, clock, disturbed>>

Respond ==
  /\ taking # None /\ taking.field = 1 /\ taking.left = {}
  /\ answer' = [order |-> taking.order, got |-> taking.got] /\ taking' = None
  /\ UNCHANGED <<counters, visits, listed, stats, undo, clock, disturbed>>

ProxyRestart ==
  /\ counters' = <<>> /\ taking' = None /\ disturbed' = TRUE
  /\ visits' = [v \in DOMAIN visits |-> [visits[v] EXCEPT !.done = TRUE]]
  /\ UNCHANGED <<answer, listed, stats, undo, clock>>

-----------------------------------------------------------------------------
(* The collector and its table *)

\* The answer does not arrive: what it took from the counters is gone.
AnswerLost ==
  /\ answer # None
  /\ answer' = None /\ disturbed' = TRUE
  /\ UNCHANGED <<counters, visits, taking, listed, stats, undo, clock>>

\* What a host got adds to the row of the host and this second.
Insert(H, got) ==
  LET new == H \X {clock} IN
  [k \in DOMAIN stats \cup new |->
     IF k \notin new THEN stats[k]
     ELSE IF k \in DOMAIN stats THEN Plus(stats[k], got[k[1]]) ELSE got[k[1]]]

\* Hosts without a request are skipped; the first host that has no row in domains violates the
\* foreign key, and the catch around the loop gives the hosts after it up.
Collect ==
  LET order   == answer.order
      asked   == {i \in DOMAIN order : answer.got[order[i]]["requests"] > 0}
      refused == {i \in asked : order[i] \notin listed}
      kept    == {i \in asked : \A j \in refused : i < j} IN
  /\ answer # None
  /\ answer' = None
  /\ stats' = Insert({order[i] : i \in kept}, answer.got)
  /\ disturbed' = (disturbed \/ refused # {}
                   \/ \E h \in Hosts : answer.got[h]["requests"] = 0 /\ answer.got[h] # Zero)
  /\ UNCHANGED <<counters, visits, taking, listed, undo, clock>>

RowsOf(H, from, to) == {k \in DOMAIN stats : k[1] \in H /\ from <= k[2] /\ k[2] < to}
Without(K) == [k \in DOMAIN stats \ K |-> stats[k]]

\* DELETE /api/domains/:host: the rows go with the domain, inside a transaction that stays open
\* until the proxy has answered,
DeleteBegin(h) ==
  /\ undo = <<>> /\ h \in listed
  /\ undo' = <<[listed |-> listed, stats |-> stats, left |-> Without(RowsOf({h}, 0, clock + 1))]>>
  /\ listed' = listed \ {h} /\ stats' = Without(RowsOf({h}, 0, clock + 1))
  /\ UNCHANGED <<counters, visits, taking, answer, clock, disturbed>>

DeleteCommit ==
  /\ undo # <<>>
  /\ undo' = <<>>
  /\ disturbed' = (disturbed \/ undo[1].left # undo[1].stats)
  /\ UNCHANGED <<counters, visits, taking, answer, listed, stats, clock>>

\* and a rollback restores the rows, without what the collector stored in between.
DeleteRollback ==
  /\ undo # <<>>
  /\ listed' = undo[1].listed /\ stats' = undo[1].stats /\ undo' = <<>>
  /\ disturbed' = (disturbed \/ stats # undo[1].left)
  /\ UNCHANGED <<counters, visits, taking, answer, clock>>

Register(h) ==
  /\ undo = <<>> /\ h \notin listed \cup Covered
  /\ listed' = listed \cup {h}
  /\ UNCHANGED <<counters, visits, taking, answer, stats, undo, clock, disturbed>>

\* The pruner's hourly tick.
Prune ==
  LET old == RowsOf(Hosts, 0, clock - Retention) IN
  /\ old # {}
  /\ stats' = Without(old) /\ disturbed' = TRUE
  /\ UNCHANGED <<counters, visits, taking, answer, listed, undo, clock>>

TrafficTick ==
  /\ clock < MaxClock /\ clock' = clock + 1
  /\ UNCHANGED <<counters, visits, taking, answer, listed, stats, undo, disturbed>>

TrafficNext ==
  \/ \E h \in Hosts, o \in Outcomes : Count(h, o) \/ CountFirst(h, o)
  \/ \E v \in DOMAIN visits : CountOutcome(v)
  \/ Ask \/ (\E h \in Hosts : Take(h)) \/ Respond \/ ProxyRestart
  \/ AnswerLost \/ Collect
  \/ \E h \in Hosts : DeleteBegin(h) \/ Register(h)
  \/ DeleteCommit \/ DeleteRollback
  \/ Prune \/ TrafficTick

TrafficSpec == TrafficInit /\ [][TrafficNext]_trafficVars

-----------------------------------------------------------------------------
(* The views of the table, at the present second. They see every row inside a transaction of the  *)
(* one connection, committed or not.                                                              *)

Now   == clock + 1   \* a window without an upper end
Stats(K) == Counts(stats, K)
Today == clock - (clock % Day)

\* Groups of rows by bucket: a bucket without a row has no group. The arrays that the pages get
\* have the groups in the order of the buckets.
Buckets(K, size) ==
  [b \in {k[2] \div size : k \in K} |-> Stats({k \in K : k[2] \div size = b})]

\* Changed: the hours begin with the day.
SummaryForHostFromMidnight(h) ==
  LET today == RowsOf({h}, Today, Now) IN
  IF today = {} THEN None
  ELSE [today     |-> Stats(today),
        yesterday |-> Stats(RowsOf({h}, Today - Day, Today)),
        hourly    |-> Buckets(today, Hour)]

\* getSummaryForHost: None when the host has no row today.
SummaryForHost(h) ==
  LET today == RowsOf({h}, Today, Now) IN
  IF today = {} THEN None
  ELSE [today     |-> Stats(today),
        yesterday |-> Stats(RowsOf({h}, Today - Day, Today)),
        hourly    |-> Buckets(RowsOf({h}, clock - Day, Now), Hour)]

\* getSummaryAll: one query for all hosts for today, one for yesterday, one for the hours.
SummaryAll ==
  LET today == RowsOf(Hosts, Today, Now)
      day   == RowsOf(Hosts, clock - Day, Now)
      hours == {<<k[1], k[2] \div Hour>> : k \in day}
      sum(K, h) == Stats({k \in K : k[1] = h}) IN
  [h \in {k[1] : k \in today} |->
     [today     |-> sum(today, h),
      yesterday |-> sum(RowsOf(Hosts, Today - Day, Today), h),
      hourly    |-> [b \in {g[2] : g \in {x \in hours : x[1] = h}} |->
                       sum({k \in day : k[2] \div Hour = b}, h)]]]

\* getStats for the period of a day: what a host had, by hour, up to the present second.
StatsOfDay(h) ==
  LET series == Buckets(RowsOf({h}, clock - Day, clock), Hour) IN
  [series |-> series, total |-> Counts(series, DOMAIN series),
   before |-> Stats(RowsOf({h}, clock - 2 * Day, clock - Day))]

\* GET /api/cache/stats and /api/cache/series.
CacheTotal   == Stats(RowsOf(Hosts, clock - Day, Now))
CacheSeries  == Buckets(RowsOf(Hosts, clock - Day, Now), Hour)

-----------------------------------------------------------------------------
(* Properties *)

Counted(h) ==
  [f \in Fields |-> Cardinality({v \in DOMAIN visits :
     visits[v].host = h /\ (f = "requests" \/ (visits[v].done /\ visits[v].outcome = f))})]

Held(h) ==
  Plus(IF h \in DOMAIN counters THEN counters[h] ELSE Zero,
  Plus(IF taking = None THEN Zero ELSE taking.got[h],
  Plus(IF answer = None THEN Zero ELSE answer.got[h],
       Stats(RowsOf({h}, 0, Now)))))

\* However requests are counted while the counters are taken, sent and stored, each of them is
\* counted once: the counters, the answer and the table never hold more of a host than its
\* requests made, and hold exactly that unless an answer was lost, a proxy restarted, a host
\* without a row or without a request was in an answer, or rows were deleted.
CountedOnce ==
  \A h \in Hosts :
    /\ \A f \in Fields : Held(h)[f] <= Counted(h)[f]
    /\ ~disturbed /\ undo = <<>> => Held(h) = Counted(h)

\* The two summaries of a host agree (the comment of getSummaryForHost promises it), its hours
\* add up to its statistics of the day and what this second has, and the hosts together to
\* the totals of the cache page, in whichever buckets they fall.
ViewsAgree ==
  /\ \A h \in Hosts : SummaryForHost(h) = IF h \in DOMAIN SummaryAll THEN SummaryAll[h] ELSE None
  /\ \A h \in DOMAIN SummaryAll :
       Counts(SummaryAll[h].hourly, DOMAIN SummaryAll[h].hourly)
         = Plus(StatsOfDay(h).total, Stats(RowsOf({h}, clock, Now)))
  /\ Counts(CacheSeries, DOMAIN CacheSeries) = CacheTotal

=============================================================================
