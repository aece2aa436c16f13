------------------------------ MODULE DnsMetrics ------------------------------
(***************************************************************************)
(* The metrics of the DNS service: its counters since it started              *)
(* (dns-service/src/grpc.rs), the collector of admin-server that turns        *)
(* snapshots of them into one row a minute (dns-metrics-collector.ts,         *)
(* db/dns-metrics-repo.ts), and the query of the rows (routes/dns.ts).        *)
(***************************************************************************)
EXTENDS Sums

CONSTANTS
  MaxQueries, MaxMinute,   \* bounds
  Kept,                    \* the collector's retention, in minutes
  Missing

ASSUME DnsAssumption == Kept \in Nat /\ Missing \notin [{"total", "matched"} -> Nat]

QueryFields == {"total", "matched"}   \* nxdomain and forwarded are counted as matched is

VARIABLES
  dns,         \* the counters of the service
  answering,   \* its queries that are counted in total, and not yet in their result
  asked,       \* the snapshot that is on its way to the collector
  last,        \* lastSnapshot
  minutes,     \* table dns_metrics_minute
  minute,      \* the clock
  served,      \* auxiliary: the queries of all times
  stored,      \* auxiliary: what was added to the rows of all times
  first,       \* auxiliary: the snapshot that the rows begin with
  restarted    \* auxiliary: has either service restarted?

dnsVars == <<dns, answering, asked, last, minutes, minute, served, stored, first, restarted>>

NoQueries     == [f \in QueryFields |-> 0]
Added(a, b)   == [f \in QueryFields |-> a[f] + b[f]]
Reduced(a, b) == [f \in QueryFields |-> a[f] - b[f]]

DnsInit ==
  /\ dns = NoQueries /\ served = NoQueries /\ stored = NoQueries
  /\ answering = 0 /\ asked = Missing /\ last = Missing /\ first = Missing
  /\ minutes = <<>> /\ minute = 0 /\ restarted = FALSE

OneMore(c, f) == [c EXCEPT ![f] = @ + 1]

\* record counts a query in total, and then in its result.
Resolve(match) ==
  /\ served["total"] < MaxQueries
  /\ dns' = OneMore(dns, "total") /\ served' = OneMore(served, "total")
  /\ answering' = IF match THEN answering + 1 ELSE answering
  /\ UNCHANGED <<asked, last, minutes, minute, stored, first, restarted>>

ResolveMatched ==
  /\ answering > 0 /\ answering' = answering - 1
  /\ dns' = OneMore(dns, "matched") /\ served' = OneMore(served, "matched")
  /\ UNCHANGED <<asked, last, minutes, minute, stored, first, restarted>>

DnsRestart ==
  /\ dns' = NoQueries /\ answering' = 0 /\ restarted' = TRUE
  /\ UNCHANGED <<asked, last, minutes, minute, served, stored, first>>

\* tick asks for a snapshot; its deadline is as long as the interval, so there is one at a time.
GetStats ==
  /\ asked = Missing
  /\ asked' = dns
  /\ UNCHANGED <<dns, answering, last, minutes, minute, served, stored, first, restarted>>

GetStatsFailed ==
  /\ asked # Missing
  /\ asked' = Missing
  /\ UNCHANGED <<dns, answering, last, minutes, minute, served, stored, first, restarted>>

\* Changed: a service that counts from zero again is not told from one that goes on.
ComputeDeltaWhole(prev, curr) ==
  IF curr["total"] # prev["total"] THEN curr ELSE NoQueries

\* A total that went down is that of a service that has restarted.
ComputeDelta(prev, curr) ==
  IF curr["total"] < prev["total"] THEN curr ELSE Reduced(curr, prev)

Upsert(d) ==
  [m \in DOMAIN minutes \cup {minute} |->
     IF m # minute THEN minutes[m] ELSE IF m \in DOMAIN minutes THEN Added(minutes[m], d) ELSE d]

\* The first snapshot is only remembered; each tick that got one prunes.
Snapshot ==
  LET delta == IF last = Missing THEN NoQueries ELSE ComputeDelta(last, asked)
      rows  == IF \E f \in QueryFields : delta[f] > 0 THEN Upsert(delta) ELSE minutes IN
  /\ asked # Missing
  /\ minutes' = [m \in {n \in DOMAIN rows : n >= minute - Kept} |-> rows[m]]
  /\ stored' = IF \E f \in QueryFields : delta[f] > 0 THEN Added(stored, delta) ELSE stored
  /\ first' = IF last = Missing THEN asked ELSE first
  /\ last' = asked /\ asked' = Missing
  /\ UNCHANGED <<dns, answering, minute, served, restarted>>

\* admin-server restarts: the rows stay, the snapshot is forgotten.
CollectorRestart ==
  /\ last' = Missing /\ asked' = Missing /\ restarted' = TRUE
  /\ UNCHANGED <<dns, answering, minutes, minute, served, stored, first>>

MinutePasses ==
  /\ minute < MaxMinute /\ minute' = minute + 1
  /\ UNCHANGED <<dns, answering, asked, last, minutes, served, stored, first, restarted>>

DnsNext ==
  \/ Resolve(TRUE) \/ Resolve(FALSE) \/ ResolveMatched \/ DnsRestart
  \/ GetStats \/ GetStatsFailed \/ Snapshot \/ CollectorRestart
  \/ MinutePasses

DnsSpec == DnsInit /\ [][DnsNext]_dnsVars

\* GET /api/dns/metrics: the rows of a window.
Metrics(window) == {m \in DOMAIN minutes : minute - window <= m /\ m <= minute}

-----------------------------------------------------------------------------

\* Whatever restarts, and whichever snapshots fail, no query is put into the rows twice, not even
\* by the guess that a smaller total means a restart; and while nothing restarts, the rows have
\* what the counters gained since the first snapshot (computeDelta). A day of rows is all there is.
NeverOvercounts ==
  /\ \A f \in QueryFields : stored[f] <= served[f]
  /\ ~restarted /\ last # Missing =>
       /\ stored = Reduced(last, first)
       /\ minute <= Kept => stored = SumBy(QueryFields, minutes, Metrics(Kept))

=============================================================================
