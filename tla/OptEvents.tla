------------------------------ MODULE OptEvents ------------------------------
(***************************************************************************)
(* The optimisation events: the proxy's buffer (events.rs), the batch route   *)
(* of admin-server (routes/optimization-events.ts), the table                 *)
(* optimization_events with its pruner (db/optimization-events-repo.ts,       *)
(* optimization-events-pruner.ts), the deletion of a domain around it         *)
(* (routes/domains.ts), and the views of it (routes/diagnose.ts too).         *)
(***************************************************************************)
EXTENDS Sequences, Sums

CONSTANTS
  Domains,      \* the hosts that may be registered
  EventKinds,   \* what the proxy and the storage service emit: records of host, url and decision
  MaxEvents, MaxDeletes, MaxTime,   \* bounds
  Capacity,     \* of the channel to the pusher
  BatchSize,
  KeepFor,      \* the pruner's retention
  Period,       \* of the views
  Watched       \* the events whose fate is looked at

\* What a diagnosis counts; one decision stands for each of its three groups, and one for what
\* image and text optimisation say.
Hits     == {"served_200"}
Misses   == {"stored_new"}
Bypasses == {"bypass_nocache"}

\* The list that the batch route and the queries accept.
ALLOWED_DECISIONS == Hits \cup Misses \cup Bypasses \cup {"compressed_br", "auto_evict"}

VARIABLES
  channel, buffer, flushing,   \* the pusher: its queue, its batch, and whether it waits for a reply
  posts,        \* batches on their way to admin-server
  emitted,      \* auxiliary: how many events there were, which numbers them
  registered,   \* table domains
  events,       \* table optimization_events, by row id
  lastRow,      \* the last row id given: the column is AUTOINCREMENT
  before,       \* the transaction of a delete that waits for the proxy, if any: what it restores
  deletes,      \* auxiliary: counts the deletes
  time

pusherVars == <<channel, buffer, flushing, posts, emitted>>
tableVars  == <<registered, events, lastRow, before, deletes, time>>
eventVars  == <<pusherVars, tableVars>>

EventInit ==
  /\ channel = <<>> /\ buffer = <<>> /\ flushing = FALSE /\ posts = {} /\ emitted = 0
  /\ registered = Domains /\ events = <<>> /\ lastRow = 0 /\ before = <<>> /\ deletes = 0 /\ time = 0

-----------------------------------------------------------------------------
(* The pusher *)

Numbered(k) == [id |-> emitted + 1, host |-> k.host, url |-> k.url, decision |-> k.decision]

\* emit never waits: a full channel drops the event.
Emit(k) ==
  /\ emitted < MaxEvents /\ k.decision # "auto_evict"
  /\ emitted' = emitted + 1
  /\ channel' = IF Len(channel) < Capacity THEN Append(channel, Numbered(k)) ELSE channel
  /\ UNCHANGED <<buffer, flushing, posts, tableVars>>

\* storage-service posts what its eviction loop did by itself, in a batch of one.
EmitEvict(k) ==
  /\ emitted < MaxEvents /\ k.decision = "auto_evict"
  /\ emitted' = emitted + 1
  /\ posts' = posts \cup {<<Numbered(k)>>}
  /\ UNCHANGED <<channel, buffer, flushing, tableVars>>

\* flush_loop takes one event, and flushes a full batch at once,
Receive ==
  LET next == Append(buffer, Head(channel)) IN
  /\ ~flushing /\ channel # <<>>
  /\ channel' = Tail(channel) /\ buffer' = next
  /\ flushing' = (Len(next) >= BatchSize)
  /\ posts' = IF Len(next) >= BatchSize THEN posts \cup {next} ELSE posts
  /\ UNCHANGED <<emitted, tableVars>>

\* or what there is when its interval has passed.
FlushTick ==
  /\ ~flushing /\ buffer # <<>>
  /\ flushing' = TRUE /\ posts' = posts \cup {buffer}
  /\ UNCHANGED <<channel, buffer, emitted, tableVars>>

\* Changed: a batch that was not acknowledged is kept for the next flush.
FlushEndKeeping ==
  /\ flushing
  /\ flushing' = FALSE
  /\ buffer' = IF buffer \in posts THEN buffer ELSE <<>>
  /\ UNCHANGED <<channel, posts, emitted, tableVars>>

\* flush_once clears the buffer whatever the reply is, or when five seconds have passed without one.
FlushEnd ==
  /\ flushing
  /\ flushing' = FALSE /\ buffer' = <<>>
  /\ UNCHANGED <<channel, posts, emitted, tableVars>>

PostLost(b) ==
  /\ posts' = posts \ {b}
  /\ UNCHANGED <<channel, buffer, flushing, emitted, tableVars>>

PusherRestart ==
  /\ channel' = <<>> /\ buffer' = <<>> /\ flushing' = FALSE
  /\ UNCHANGED <<posts, emitted, tableVars>>

-----------------------------------------------------------------------------
(* admin-server *)

Valid(b) == \A i \in DOMAIN b : b[i].decision \in ALLOWED_DECISIONS

Stored(e) == [id |-> e.id, ts |-> time, host |-> e.host, url |-> e.url, decision |-> e.decision]

InsertBatch(b) ==
  /\ lastRow' = lastRow + Len(b)
  /\ events' = [i \in DOMAIN events \cup (lastRow + 1 .. lastRow + Len(b)) |->
                  IF i > lastRow THEN Stored(b[i - lastRow]) ELSE events[i]]

\* POST /internal/events/batch: the whole batch or, when one event is not valid, nothing.
Batch(b) ==
  /\ posts' = posts \ {b}
  /\ IF Valid(b) THEN InsertBatch(b) ELSE UNCHANGED <<events, lastRow>>
  /\ UNCHANGED <<channel, buffer, flushing, emitted, registered, before, deletes, time>>

Keep(dropped, since) ==
  [i \in {j \in DOMAIN events : events[j].host \notin dropped /\ events[j].ts >= since} |-> events[i]]

\* DELETE /api/domains/:host, and the bulk delete: events and row go in one transaction, which is
\* open while the proxy is told; other writes of the one connection join it.
DropBegin(H) ==
  /\ before = <<>> /\ H \subseteq registered /\ deletes < MaxDeletes
  /\ before' = <<[registered |-> registered, events |-> events, lastRow |-> lastRow]>>
  /\ events' = Keep(H, 0)
  /\ registered' = registered \ H
  /\ deletes' = deletes + 1
  /\ UNCHANGED <<pusherVars, lastRow, time>>

DropCommit ==
  /\ before # <<>>
  /\ before' = <<>>
  /\ UNCHANGED <<pusherVars, registered, events, lastRow, deletes, time>>

\* The proxy refused, or admin-server restarted.
DropRollback ==
  /\ before # <<>> /\ before' = <<>>
  /\ registered' = before[1].registered
  /\ events' = before[1].events /\ lastRow' = before[1].lastRow
  /\ UNCHANGED <<pusherVars, deletes, time>>

Add(h) ==
  /\ before = <<>> /\ h \notin registered
  /\ registered' = registered \cup {h}
  /\ UNCHANGED <<pusherVars, events, lastRow, before, deletes, time>>

\* Changed: only events past the retention are removed.
PrunerTickOld ==
  /\ events' = Keep({}, time - KeepFor)
  /\ UNCHANGED <<pusherVars, registered, lastRow, before, deletes, time>>

\* The pruner's tick: what is past the retention, then reconcileOrphans: what names no row.
PrunerTick ==
  /\ events' = Keep({events[i].host : i \in DOMAIN events} \ registered, time - KeepFor)
  /\ UNCHANGED <<pusherVars, registered, lastRow, before, deletes, time>>

TimeTick ==
  /\ time < MaxTime /\ time' = time + 1
  /\ UNCHANGED <<pusherVars, registered, events, lastRow, before, deletes>>

EventNext ==
  \/ \E k \in EventKinds : Emit(k) \/ EmitEvict(k)
  \/ Receive \/ FlushTick \/ FlushEnd \/ PusherRestart
  \/ \E b \in posts : PostLost(b) \/ Batch(b)
  \/ \E H \in (SUBSET Domains) \ {{}} : DropBegin(H)
  \/ DropCommit \/ DropRollback
  \/ \E h \in Domains : Add(h)
  \/ PrunerTick \/ TimeTick

EventSpec == EventInit /\ [][EventNext]_eventVars

\* The push to the proxy has a deadline of three seconds, the pruner an interval.
EventFairness ==
  /\ WF_eventVars(DropCommit \/ DropRollback)
  /\ WF_eventVars(PrunerTick)

-----------------------------------------------------------------------------
(* The views *)

\* query: the newest rows, up to a limit; of one time, those of the higher ids, as the index by host
\* and time has them.
Newer(i, j) == events[i].ts > events[j].ts \/ (events[i].ts = events[j].ts /\ i > j)
Query(h, since, limit) ==
  LET found == {i \in DOMAIN events : events[i].host = h /\ events[i].ts >= since} IN
  {i \in found : Cardinality({j \in found : Newer(j, i)}) < limit}

Recent(h) == {i \in DOMAIN events : events[i].host = h /\ events[i].ts >= time - Period}

StatsByDecision(h) ==
  [d \in {events[i].decision : i \in Recent(h)} |-> Cardinality({i \in Recent(h) : events[i].decision = d})]

\* urlBreakdown: the first page of the addresses of a host, those with the most events first, what
\* each has, and how many addresses there are.
UrlBreakdown(h, limit) ==
  LET urls     == {events[i].url : i \in Recent(h)}
      count(u) == Cardinality({i \in Recent(h) : events[i].url = u})
      size     == IF Cardinality(urls) < limit THEN Cardinality(urls) ELSE limit
      page     == CHOOSE P \in SUBSET urls :
                    Cardinality(P) = size /\ \A u \in P, v \in urls \ P : count(u) >= count(v)
  IN [total |-> Cardinality(urls), items |-> [u \in page |-> count(u)]]

\* diagnoseAggregate: hits, misses and bypasses of one address.
Diagnose(h, u) ==
  LET count(D) == Cardinality({i \in Recent(h) : events[i].url = u /\ events[i].decision \in D}) IN
  [hit |-> count(Hits), miss |-> count(Misses), bypass |-> count(Bypasses)]

-----------------------------------------------------------------------------
(* Properties *)

\* What a diagnosis leaves out: what the optimisation of the answer says.
Unseen(h, u) == {i \in Recent(h) : events[i].url = u /\ events[i].decision \notin Hits \cup Misses \cup Bypasses}

\* An event is stored at most once, although the pusher cannot tell a batch that was stored after
\* it had given up from one that was not (events.rs sends a batch once and clears it); and each
\* view of a host, by decision, by address, by diagnosis or as a list, counts it once, when its
\* page has room for all.
CountedByAll ==
  /\ \A i, j \in DOMAIN events : events[i].id = events[j].id => i = j
  /\ \A h \in Domains :
       LET room      == Cardinality(DOMAIN events)
           decisions == StatsByDecision(h)
           urls      == UrlBreakdown(h, room)
           all       == Query(h, time - Period, room)
           seen(u)   == LET d == Diagnose(h, u) IN d.hit + d.miss + d.bypass
       IN /\ SumOf(decisions, DOMAIN decisions) = Cardinality(all)
          /\ SumOf(urls.items, DOMAIN urls.items) = Cardinality(all)
          /\ \A u \in DOMAIN urls.items : seen(u) + Cardinality(Unseen(h, u)) = urls.items[u]

\* Events that outlive the deletion of their domain, as those of a batch that came while the delete
\* waited for the proxy, are removed in the end (issue 379, reconcileOrphans), unless the domain
\* comes back.
OrphansGo ==
  \A n \in Watched :
    (\E i \in DOMAIN events : events[i].id = n /\ events[i].host \notin registered)
      ~> \A i \in DOMAIN events : events[i].id = n => events[i].host \in registered

=============================================================================
