----------------------------- MODULE DetailTables ----------------------------
(***************************************************************************)
(* The tables on two tabs of a domain: the log with its top URLs, and the     *)
(* URLs the optimizer has worked on; their controls, the debounce of the search,*)
(* the queries of react-query and the routes that answer them. The host may      *)
(* change under them without a remount. A page of the URL table has one row, and   *)
(* "more" asks for one more row of the log.                                         *)
(***************************************************************************)
EXTENDS Integers, FiniteSets, Functions

CONSTANTS
  Requests,   \* what the proxy may have served: time, host, path, and whether it was an error,
              \* which is also the decision of the optimizer that the model tells apart
  MaxLimit,   \* rows that the log route lets one ask for
  MaxMoves,   \* bound: changes of the controls and of the data
  MaxQueries  \* bound: keys that the client of react-query knows at a time

ASSUME RequestsAssumption ==
  /\ IsFiniteSet(Requests) /\ \A r \in Requests : r.time \in Nat
  /\ \A r, s \in Requests : r.time = s.time => r = s

VARIABLES
  log,        \* what the proxy remembers, and the table of events
  hostShown, tab,
  period,     \* in the address, for each tab
  controls,   \* state of the mounted table
  cache,      \* react-query: the answer held under each key; rows, total, and, a ghost, what was
              \* there to answer from
  asked,      \* the answers under way
  pagedFor,   \* ghost: what the URL table was filtered by when its page was turned
  moves

tableVars == <<log, hostShown, tab, period, controls, cache, asked, pagedFor, moves>>

LogHosts == {r.host : r \in Requests}

PathHas(text, q) == q = "" \/ text = q

\* A period that the log knows covers a request; the optimizer falls back to a day for "custom".
Since(p) == IF p \in {"30d", "custom-old"} THEN 1 ELSE 2
Until(p) == IF p = "custom-old" THEN 1 ELSE 3
Covers(p, r) == Since(p) <= r.time /\ r.time <= Until(p)

TrafficPeriods == {"30d", "custom-old", "custom"}
Effective(p)   == IF p \in {"custom", "custom-old"} THEN "24h" ELSE p

LogControls == [search |-> "", debounced |-> "", errorsOnly |-> FALSE, limit |-> 1]
UrlControls == [q |-> "", sort |-> "savings", decision |-> "all", offset |-> 0]

-----------------------------------------------------------------------------
(* The routes *)

OfHost(present, q) == {r \in present : r.host = q.host /\ Covers(q.period, r)}

\* fetchProxyLogs: access_logs is a table that nothing creates, so the proxy is asked. If it
\* cannot be reached there are no rows.
Logs(present, q) ==
  LET found == {r \in OfHost(present, q) : (q.errors => r.error) /\ PathHas(r.path, q.q)}
  IN  {r \in found : Cardinality({s \in found : s.time > r.time}) < q.limit}

TopUrls(present, q) == OfHost(present, q)

Urls(present, q) ==
  {r.path : r \in {r \in OfHost(present, q) :
                     (q.decision = "error" => r.error) /\ PathHas(r.path, q.q)}}

\* Each sort puts the URLs into some order.
Before(sort, u, v) == IF sort = "savings" THEN u = "x" /\ v = "y" ELSE u = "y" /\ v = "x"

UrlPage(present, q) ==
  LET urls == Urls(present, q)
  IN  {u \in urls : Cardinality({v \in urls : Before(q.sort, v, u)}) = q.offset}

Answers(q, present) ==
  [rows |-> CASE q.kind = "logs" -> Logs(present, q)
              [] q.kind = "top" -> TopUrls(present, q)
              [] q.kind = "urls" -> UrlPage(present, q),
   total |-> IF q.kind = "urls" THEN Cardinality(Urls(present, q)) ELSE 0,
   of |-> present]

\* The validations that a page of ours can fail.
Refuses(q) == q.kind = "logs" /\ q.limit > MaxLimit

-----------------------------------------------------------------------------
(* The queries *)

LogQuery ==
  [kind |-> "logs", host |-> hostShown, period |-> period["traffic"], q |-> controls.debounced,
   errors |-> controls.errorsOnly, limit |-> controls.limit]
TopQuery == [kind |-> "top", host |-> hostShown, period |-> period["traffic"]]
UrlQuery ==
  [kind |-> "urls", host |-> hostShown, period |-> Effective(period["optimizer"]),
   q |-> controls.q, sort |-> controls.sort, decision |-> controls.decision,
   offset |-> controls.offset]

\* Mutant of QueryKey: the filter of errors is left to the route.
QueryKeyShared(q) == IF q.kind = "logs" THEN [q EXCEPT !.errors = FALSE] ELSE q

QueryKey(q) == q

\* A custom period without its dates asks nothing.
Active ==
  IF tab = "optimizer" THEN {UrlQuery}
  ELSE IF period["traffic"] = "custom" THEN {} ELSE {LogQuery, TopQuery}

TablesInit ==
  /\ log = Requests
  /\ hostShown \in LogHosts /\ tab \in {"traffic", "optimizer"}
  /\ period = [t \in {"traffic", "optimizer"} |-> "30d"]
  /\ controls = IF tab = "traffic" THEN LogControls ELSE UrlControls
  /\ cache = <<>> /\ asked = <<>> /\ pagedFor = [controls |-> UrlControls, period |-> "30d"]
  /\ moves = 0

\* A query without data, one whose data has grown old, a poll, or a refresh by hand: it is asked
\* for what its controls say now.
Ask(q) ==
  /\ q \in Active /\ QueryKey(q) \notin DOMAIN asked
  /\ Cardinality({QueryKey(q)} \cup DOMAIN asked \cup DOMAIN cache) <= MaxQueries
  /\ \E reached \in (IF q.kind = "urls" THEN {TRUE} ELSE BOOLEAN) :
       asked' = [k \in DOMAIN asked \cup {QueryKey(q)} |->
                   IF k # QueryKey(q) THEN asked[k]
                   ELSE [failed |-> Refuses(q), answer |-> Answers(q, IF reached THEN log ELSE {})]]
  /\ UNCHANGED <<log, hostShown, tab, period, controls, cache, pagedFor, moves>>

\* The answer comes, whether or not the page still looks at its key. After a failure the data
\* that is there stays.
Arrives(key) ==
  /\ cache' = IF asked[key].failed THEN cache
               ELSE [k \in DOMAIN cache \cup {key} |-> IF k = key THEN asked[key].answer ELSE cache[k]]
  /\ asked' = Restrict(asked, DOMAIN asked \ {key})
  /\ UNCHANGED <<log, hostShown, tab, period, controls, pagedFor, moves>>

-----------------------------------------------------------------------------
(* The controls *)

ControlsBecome(new) ==
  /\ moves < MaxMoves /\ moves' = moves + 1
  /\ controls' = new
  /\ UNCHANGED <<log, hostShown, cache, asked>>

Sets(new) == ControlsBecome(new) /\ UNCHANGED <<tab, period, pagedFor>>

SetSearch(text) ==
  /\ tab = "traffic" /\ text # controls.search
  /\ Sets([controls EXCEPT !.search = text])

\* useDebouncedValue: the timer of the last text runs out.
DebounceEnds ==
  /\ tab = "traffic" /\ controls.debounced # controls.search
  /\ controls' = [controls EXCEPT !.debounced = controls.search]
  /\ UNCHANGED <<log, hostShown, tab, period, cache, asked, pagedFor, moves>>

\* The render that finds errorsOnly changed sets the limit back.
ToggleErrors ==
  /\ tab = "traffic"
  /\ Sets([controls EXCEPT !.errorsOnly = ~@, !.limit = 1])

LogData == IF QueryKey(LogQuery) \in DOMAIN cache THEN cache[QueryKey(LogQuery)].rows ELSE {}
LogShown == {r \in LogData : PathHas(r.path, controls.search)}

\* Offered with the message that the filters leave nothing.
HandleClearFilters ==
  /\ tab = "traffic" /\ LogShown = {}
  /\ controls.search # "" \/ controls.errorsOnly
  /\ Sets([controls EXCEPT !.search = "", !.errorsOnly = FALSE,
                           !.limit = IF controls.errorsOnly THEN 1 ELSE @])

More ==
  /\ tab = "traffic" /\ Cardinality(LogData) >= controls.limit
  /\ Sets([controls EXCEPT !.limit = @ + 1])

\* Each control of the URL table goes back to the first page.
SetUrlControl(new) ==
  /\ tab = "optimizer" /\ new # controls
  /\ Sets([new EXCEPT !.offset = 0])

\* The period, in whichever way it changes, is compared with that of the last render.
SetPeriod(p) ==
  /\ p # period[tab]
  /\ ControlsBecome(IF tab = "traffic" THEN [controls EXCEPT !.limit =
                                         IF {p, period[tab]} \subseteq {"custom", "custom-old"}
                                         THEN @ ELSE 1]
              ELSE [controls EXCEPT !.offset = IF Effective(p) = Effective(period[tab]) THEN @ ELSE 0])
  /\ period' = [period EXCEPT ![tab] = p]
  /\ UNCHANGED <<tab, pagedFor>>

UrlShown == IF QueryKey(UrlQuery) \in DOMAIN cache THEN cache[QueryKey(UrlQuery)].rows ELSE {}
FilteredBy ==
  [controls |-> [controls EXCEPT !.offset = 0], period |-> Effective(period["optimizer"])]

\* The pager is there if the page has a row.
TurnPage(by) ==
  /\ tab = "optimizer" /\ UrlShown # {}
  /\ IF by = 1 THEN controls.offset + 1 < cache[QueryKey(UrlQuery)].total ELSE controls.offset > 0
  /\ ControlsBecome([controls EXCEPT !.offset = @ + by])
  /\ pagedFor' = FilteredBy
  /\ UNCHANGED <<tab, period>>

\* Another tab mounts its tables anew.
SelectTab(t) ==
  /\ t # tab
  /\ ControlsBecome(IF t = "traffic" THEN LogControls ELSE UrlControls)
  /\ tab' = t
  /\ UNCHANGED <<period, pagedFor>>

\* The page shows another host; its tables are mounted anew if its data was not there.
ShowHost(h, remounts) ==
  /\ h # hostShown /\ moves < MaxMoves /\ moves' = moves + 1
  /\ hostShown' = h
  /\ controls' = IF ~remounts THEN controls
                 ELSE IF tab = "traffic" THEN LogControls ELSE UrlControls
  /\ UNCHANGED <<log, tab, period, cache, asked, pagedFor>>

\* Requests come and old ones go.
Serves(r) ==
  /\ moves < MaxMoves /\ moves' = moves + 1
  /\ log' = IF r \in log THEN log \ {r} ELSE log \cup {r}
  /\ UNCHANGED <<hostShown, tab, period, controls, cache, asked, pagedFor>>

-----------------------------------------------------------------------------
TablesNext ==
  \/ DebounceEnds \/ ToggleErrors \/ HandleClearFilters \/ More
  \/ \E q \in Active : Ask(q)
  \/ \E key \in DOMAIN asked : Arrives(key)
  \/ \E text \in {"", "x"} :
       SetSearch(text) \/ (tab = "optimizer" /\ SetUrlControl([controls EXCEPT !.q = text]))
  \/ \E s \in {"savings", "events"} :
       tab = "optimizer" /\ SetUrlControl([controls EXCEPT !.sort = s])
  \/ \E d \in {"all", "error"} :
       tab = "optimizer" /\ SetUrlControl([controls EXCEPT !.decision = d])
  \/ tab = "optimizer" /\ UrlShown = {} /\ SetUrlControl([controls EXCEPT !.q = "", !.decision = "all"])
  \/ \E p \in TrafficPeriods : SetPeriod(p)
  \/ \E by \in {-1, 1} : TurnPage(by)
  \/ \E t \in {"traffic", "optimizer"} : SelectTab(t)
  \/ \E h \in LogHosts, remounts \in BOOLEAN : ShowHost(h, remounts)
  \/ \E r \in Requests : Serves(r)

TablesSpec == TablesInit /\ [][TablesNext]_tableVars

\* A table shows what its controls say: rows of the host, the period, the search as it is typed,
\* the filters, and no more than was asked for; once the search has settled, all of those that
\* there were to answer from; and never a page that was turned to under other filters. This
\* though answers come late and in any order, the log is read again and again while it changes,
\* and period and host change from outside the table.
RowsMatchControls ==
  /\ tab = "traffic" /\ period["traffic"] # "custom" =>
       /\ \A r \in LogShown :
            /\ r.host = hostShown /\ Covers(period["traffic"], r)
            /\ controls.errorsOnly => r.error
       /\ Cardinality(LogShown) <= controls.limit
       /\ QueryKey(LogQuery) \in DOMAIN cache /\ controls.debounced = controls.search =>
            LogShown = Logs(cache[QueryKey(LogQuery)].of, LogQuery)
       /\ QueryKey(TopQuery) \in DOMAIN cache =>
            \A r \in cache[QueryKey(TopQuery)].rows :
              r.host = hostShown /\ Covers(period["traffic"], r)
  /\ tab = "optimizer" =>
       /\ QueryKey(UrlQuery) \in DOMAIN cache =>
            UrlShown = UrlPage(cache[QueryKey(UrlQuery)].of, UrlQuery)
       /\ controls.offset # 0 => pagedFor = FilteredBy

=============================================================================
