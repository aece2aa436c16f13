----------------------------- MODULE DomainSync -----------------------------
(***************************************************************************)
(* What the proxy and the DNS service know of the admin server's domains.  *)
(* Every change sends the full list of enabled rows to the proxy, which    *)
(* replaces its maps one after the other, and once that is acknowledged    *)
(* the hosts to DNS.  The sender gives up after three seconds, whether the *)
(* list has been applied, will be or never is.  A proxy that starts pulls  *)
(* a snapshot, without policies, and the health monitor sends the list     *)
(* again when it sees the proxy come back.  The TLS service is told what   *)
(* DNS is told.                                                            *)
(***************************************************************************)
EXTENDS DomainRows

CONSTANTS
  Monitor,      \* the health monitor, as a sender
  MaxRestarts   \* how often the proxy restarts

ASSUME SyncAssumption == Monitor \notin Requests /\ MaxRestarts \in Nat

Senders == Requests \cup {Monitor}

\* The list a push carries: the enabled rows.  An origin stands for the policies too.
Lists == [Hosts -> Requests \cup {Nobody, None}]
Enabled(h, rs) == rs[h] # None /\ rs[h].enabled
Listed(rs) == [h \in Hosts |-> IF Enabled(h, rs) THEN rs[h].origin ELSE None]
Empty == [h \in Hosts |-> None]

VARIABLES
  up,         \* does the proxy serve its admin API?
  routes,     \* the proxy's domain_map
  policies,   \* the hosts' entries in its two policy maps, which no one reads together
  boot,       \* the snapshot a starting proxy has pulled, or None
  restarts,
  wasOnline,  \* HealthMonitor.proxyWasOnline
  post,       \* post[s]: the push of s on its way to or in the proxy, or None
  names,      \* the hosts that DNS answers for
  fan,        \* fan[s]: the hosts that s is about to send to DNS, or has sent, or None
  drift       \* auxiliary: what may differ from the rows, for reasons the pushes leave open

proxyVars == <<up, routes, policies, boot, restarts, wasOnline, post>>
syncVars == <<proxyVars, names, fan, drift>>

\* stage: how many of the proxy's maps have the list.  alone: has no other push or
\* undecided request been under way since this push was sent?
Posts == [list : Lists, stage : 0 .. 2, alone : BOOLEAN]
Fans  == [hosts : SUBSET Hosts, sent : BOOLEAN, alone : BOOLEAN]

ASSUME SentAssumption == None \notin Posts /\ None \notin Fans

SyncTypeOK ==
  /\ up \in BOOLEAN /\ wasOnline \in BOOLEAN
  /\ routes \in Lists /\ policies \in Lists /\ boot \in Lists \cup {None}
  /\ restarts \in 0 .. MaxRestarts
  /\ post \in [Senders -> Posts \cup {None}]
  /\ names \in SUBSET Hosts
  /\ fan \in [Senders -> Fans \cup {None}]
  /\ drift \in SUBSET {"routes", "policies", "names"}
  /\ ~up => routes = Empty /\ policies = Empty /\ \A s \in Senders : post[s] = None

SyncInit ==
  /\ Init
  /\ up = TRUE /\ wasOnline = TRUE
  /\ routes = Listed(rows) /\ policies = Listed(rows)
  /\ boot = None /\ restarts = 0
  /\ post = [s \in Senders |-> None]
  /\ names = {h \in Hosts : Enabled(h, rows)}
  /\ fan = [s \in Senders |-> None]
  /\ drift = {}

-----------------------------------------------------------------------------
(* Pushes to the proxy *)

\* Is somebody else's push under way, or rows that somebody else may still undo?
Contended(s) == \E q \in Senders \ {s} : post[q] # None \/ q \in Pending

Clouded(f) ==
  [q \in Senders |-> IF f[q] = None THEN None ELSE [f[q] EXCEPT !.alone = FALSE]]

Maps == {"routes", "policies"}

\* syncToProxy reads the enabled rows and sends them; a proxy that is down refuses them.
Posted(s, rs) ==
  /\ post' = IF up
             THEN [Clouded(post) EXCEPT
                     ![s] = [list |-> Listed(rs), stage |-> 0, alone |-> ~Contended(s)]]
             ELSE post
  /\ drift' = drift \cup IF Contended(s) THEN Maps ELSE {}

Send(r) ==
  /\ Begin(r)
  /\ Posted(r, rows')
  /\ UNCHANGED <<up, routes, policies, boot, restarts, wasOnline, names, fan>>

Awaits(s) == s = Monitor \/ pc[s] = "push"

\* Changed: the map is not cleared first.
ApplyRoutesMerging(s) ==
  /\ post[s] # None /\ post[s].stage = 0
  /\ routes' = [h \in Hosts |-> IF post[s].list[h] # None THEN post[s].list[h] ELSE routes[h]]
  /\ post' = [post EXCEPT ![s].stage = 1]
  /\ drift' = drift \cup IF Awaits(s) THEN {} ELSE {"routes"}
  /\ UNCHANGED <<vars, up, policies, boot, restarts, wasOnline, names, fan>>

\* The proxy replaces domain_map,
ApplyRoutes(s) ==
  /\ post[s] # None /\ post[s].stage = 0
  /\ routes' = post[s].list
  /\ post' = [post EXCEPT ![s].stage = 1]
  /\ drift' = drift \cup IF Awaits(s) THEN {} ELSE {"routes"}
  /\ UNCHANGED <<vars, up, policies, boot, restarts, wasOnline, names, fan>>

\* and then the policies; it fetches certificates before it answers.
ApplyPolicies(s) ==
  /\ post[s] # None /\ post[s].stage = 1
  /\ policies' = post[s].list
  /\ post' = [post EXCEPT ![s].stage = 2]
  /\ drift' = drift \cup IF Awaits(s) THEN {} ELSE {"policies"}
  /\ UNCHANGED <<vars, up, routes, boot, restarts, wasOnline, names, fan>>

\* The connection is closed by a sender that gave up: the proxy drops the push where it is.
Abandoned(s) ==
  /\ post[s] # None /\ (s = Monitor \/ ~Awaits(s))
  /\ post' = [post EXCEPT ![s] = None]
  /\ UNCHANGED <<vars, up, routes, policies, boot, restarts, wasOnline, names, fan, drift>>

-----------------------------------------------------------------------------
(* Pushes to DNS *)

\* The hosts in rs, the disabled ones too, or the enabled ones only.
Registered(rs) == {h \in Hosts : rs[h] # None}
Resolved(rs)   == {h \in Hosts : Enabled(h, rs)}

FanBusy(s) == \E q \in Senders \ {s} : fan[q] # None \/ q \in Pending

FannedOut(s, hosts) ==
  fan' = [Clouded(fan) EXCEPT ![s] = [hosts |-> hosts, sent |-> TRUE, alone |-> ~FanBusy(s)]]

\* The proxy has answered, so the rows are committed and sent to DNS; a forced sync
\* waits for TLS before it reads them.
Acknowledged(r) ==
  /\ Synced(r)
  /\ post[r] # None /\ post[r].stage = 2
  /\ post' = [post EXCEPT ![r] = None]
  /\ \/ /\ op[r].kind # "sync"
        /\ FannedOut(r, Registered(rows))
     \/ /\ op[r].kind = "sync"
        /\ fan' = [fan EXCEPT ![r] = [hosts |-> {}, sent |-> FALSE, alone |-> FALSE]]
  /\ drift' = (drift \ IF post[r].alone THEN Maps ELSE {})
              \cup IF op[r].kind # "sync" /\ FanBusy(r) THEN {"names"} ELSE {}
  /\ UNCHANGED <<up, routes, policies, boot, restarts, wasOnline, names>>

Keeps(r) == op[r].kind \in {"bulkInsert", "bulkToggle"}

\* The proxy refused the push, or went away, or took more than three seconds.  Rows that
\* are kept all the same are not sent to DNS; nor are those of another that were undone with
\* these, or put back by them.
GiveUp(r) ==
  /\ \/ Failed(r) /\ fan' = IF Keeps(r) \/ clash THEN Clouded(fan) ELSE fan
     \/ SyncFailed(r)
        /\ fan' = [fan EXCEPT ![r] = [hosts |-> {}, sent |-> FALSE, alone |-> FALSE]]
  /\ drift' = drift
       \cup {m \in Maps : op[r].kind # "sync" /\ post[r] # None
                          /\ post[r].stage >= (IF m = "routes" THEN 1 ELSE 2)}
       \cup IF Keeps(r) \/ clash THEN Maps \cup {"names"} ELSE {}
  /\ UNCHANGED <<proxyVars, names>>

Ask(r) ==
  /\ pc[r] = "fan" /\ fan[r] # None /\ ~fan[r].sent
  /\ FannedOut(r, Resolved(rows))
  /\ drift' = drift \cup IF FanBusy(r) THEN {"names"} ELSE {}
  /\ UNCHANGED <<vars, proxyVars, names>>

\* Changed: the map is not cleared first.
DeliverMerging(s) ==
  /\ fan[s] # None /\ fan[s].sent
  /\ names' = names \cup fan[s].hosts
  /\ fan' = [fan EXCEPT ![s] = None]
  /\ drift' = IF fan[s].alone THEN drift \ {"names"} ELSE drift
  /\ UNCHANGED <<vars, proxyVars>>

\* DNS replaces its map.
Deliver(s) ==
  /\ fan[s] # None /\ fan[s].sent
  /\ names' = fan[s].hosts
  /\ fan' = [fan EXCEPT ![s] = None]
  /\ drift' = IF fan[s].alone THEN drift \ {"names"} ELSE drift
  /\ UNCHANGED <<vars, proxyVars>>

\* The call to DNS failed on its way.
Undelivered(s) ==
  /\ fan[s] # None /\ fan[s].sent
  /\ fan' = [fan EXCEPT ![s] = None]
  /\ drift' = drift \cup {"names"}
  /\ UNCHANGED <<vars, proxyVars, names>>

\* The request is answered when DNS has answered or too late for it.
Told(r) ==
  /\ Answer(r)
  /\ fan[r] # None => fan[r].sent
  /\ UNCHANGED syncVars

-----------------------------------------------------------------------------
(* The monitor and restarts *)

\* Every five seconds the monitor asks for the proxy's status, which may fail, and sends
\* all lists when the proxy is back.  Its last push is over: it was given three seconds.
Tick(seen) ==
  /\ seen => up
  /\ wasOnline' = seen
  /\ \/ (seen => wasOnline) /\ UNCHANGED <<post, fan, drift>>
     \/ /\ seen /\ ~wasOnline
        /\ post[Monitor] = None /\ fan[Monitor] = None
        /\ post' = [Clouded(post) EXCEPT
             ![Monitor] = [list |-> Listed(rows), stage |-> 0, alone |-> ~Contended(Monitor)]]
        /\ FannedOut(Monitor, Resolved(rows))
        /\ drift' = drift \cup (IF Contended(Monitor) THEN Maps ELSE {})
                          \cup (IF FanBusy(Monitor) THEN {"names"} ELSE {})
  /\ UNCHANGED <<vars, up, routes, policies, boot, restarts, names>>

\* Nothing follows from the proxy's answer to the monitor.
MonitorAnswered ==
  /\ post[Monitor] # None /\ post[Monitor].stage = 2
  /\ post' = [post EXCEPT ![Monitor] = None]
  /\ drift' = drift \ IF post[Monitor].alone THEN Maps ELSE {}
  /\ UNCHANGED <<vars, up, routes, policies, boot, restarts, wasOnline, names, fan>>

\* The proxy stops, with everything it had in memory,
Restart ==
  /\ up /\ restarts < MaxRestarts
  /\ up' = FALSE /\ restarts' = restarts + 1
  /\ routes' = Empty /\ policies' = Empty
  /\ post' = [s \in Senders |-> None]
  /\ drift' = drift \cup Maps
  /\ UNCHANGED <<vars, boot, wasOnline, names, fan>>

\* pulls a snapshot of the rows, or goes without,
Pull(answered) ==
  /\ ~up /\ boot = None
  /\ boot' = IF answered THEN Listed(rows) ELSE Empty
  /\ drift' = IF answered /\ Pending = {} THEN drift \ {"routes"} ELSE drift \cup {"routes"}
  /\ UNCHANGED <<vars, up, routes, policies, restarts, wasOnline, post, names, fan>>

\* and serves.
Serve ==
  /\ ~up /\ boot # None
  /\ up' = TRUE /\ routes' = boot /\ boot' = None
  /\ UNCHANGED <<vars, policies, restarts, wasOnline, post, names, fan, drift>>

\* The admin server restarts: what it sent may still arrive, and its monitor has seen nothing.
AdminCrash ==
  /\ Crash
  /\ wasOnline' = FALSE
  /\ fan' = [s \in Senders |-> IF fan[s] = None \/ ~fan[s].sent THEN None
                               ELSE [fan[s] EXCEPT !.alone = @ /\ Pending = {}]]
  /\ drift' = drift \cup IF Pending = {} THEN {} ELSE Maps \cup {"names"}
  /\ UNCHANGED <<up, routes, policies, boot, restarts, post, names>>

SyncNext ==
  \/ \E r \in Requests, o \in Ops : Arrive(r, o) /\ UNCHANGED syncVars
  \/ \E r \in Requests : (NotFound(r) \/ Refused(r)) /\ UNCHANGED syncVars
  \/ \E r \in Requests : Send(r) \/ Acknowledged(r) \/ GiveUp(r) \/ Ask(r) \/ Told(r)
  \/ \E s \in Senders : ApplyRoutes(s) \/ ApplyPolicies(s) \/ Abandoned(s)
  \/ \E s \in Senders : Deliver(s) \/ Undelivered(s)
  \/ \E b \in BOOLEAN : Tick(b) \/ Pull(b)
  \/ MonitorAnswered \/ Restart \/ Serve \/ AdminCrash

SyncSpec == SyncInit /\ [][SyncNext]_<<vars, syncVars>>

-----------------------------------------------------------------------------
(* Properties *)

\* No push is under way and no request may still undo its rows.
Quiet == up /\ Pending = {} /\ \A s \in Senders : post[s] = None

\* Once it is quiet the proxy routes by the rows and applies their policies, unless pushes
\* overlapped, were half done when the sender gave up, or were lost to a restart after the last
\* push that ran alone; the snapshot makes up for a restart as far as the routes go
\* (syncToProxy, update_domains_handler, fetch_domain_snapshot).
Converged ==
  Quiet => /\ "routes" \notin drift => routes = Listed(rows)
           /\ "policies" \notin drift => policies = Listed(rows)

\* Once it is quiet DNS answers for every enabled host and for no unknown one, unless lists
\* overlapped or were lost after the last that went alone (fanOutGrpc).
Resolvable ==
  (Pending = {} /\ "names" \notin drift /\ \A s \in Senders : fan[s] = None)
    => Resolved(rows) \subseteq names /\ names \subseteq Registered(rows)
=============================================================================
