------------------------------ MODULE DomainList -----------------------------
(***************************************************************************)
(* The list of domains in the console: DomainsPage with its toolbar, table   *)
(* and dialogs, the queries ['domains', filter] that react-query keeps, one  *)
(* for each filter, and the mutations that invalidate them. The server        *)
(* answers a list, and carries out a request, in one step.                    *)
(***************************************************************************)
EXTENDS Integers, FiniteSets

CONSTANTS
  Rows,         \* the hosts
  Matching,     \* those the search text matches
  Sessions,     \* what a user may use: some of the filters and some of the mutations
  Unread,       \* a query without data, a query that is not fetching, no text typed
  MaxServed,    \* bound: changes of rows by this and other sessions
  MaxSent       \* bound: requests under way

ASSUME ListAssumption == Matching \subseteq Rows

VARIABLES
  enabled, served,      \* rows of the server, and how often they changed
  session,              \* what the user of this page uses
  filter,               \* the filter in the URL
  queries,              \* react-query: what each filter's query holds
  fetching,             \* the answer under way of each query
  selectedHosts, dialog, typed, sent,   \* page, toolbar, mutations under way
  shown,        \* ghost: hosts the table has shown since the page last set the filter
  known         \* ghost: the newest change of its own that the active query must show

listVars == <<enabled, served, session, filter, queries, fetching, selectedHosts, dialog, typed, sent,
              shown, known>>
serverVars == <<enabled, served, session>>
pageVars == <<selectedHosts, dialog, typed>>

\* enabled=true or no enabled filter; a search text or none. Order is left out.
Filters == session.filters

States == {"none", "off", "on"}
Registered == {h \in Rows : enabled[h] # "none"}

\* GET /api/domains
Listing(f) ==
  {h \in Registered : (f.q => h \in Matching) /\ (f.enabled => enabled[h] = "on")}

Reading(f) == [hosts |-> Listing(f), rev |-> served]
EmptyQuery == [hosts |-> Unread, rev |-> 0, stale |-> TRUE, failed |-> FALSE]

\* The rows of the table: none while the list loads or has failed.
Table(qs, f) == IF qs[f].failed \/ qs[f].hosts = Unread THEN {} ELSE qs[f].hosts
Listed == Table(queries, filter)

ListInit ==
  /\ enabled = [h \in Rows |-> "on"] /\ served = 0
  /\ session \in Sessions /\ filter \in Filters
  /\ queries = [f \in Filters |-> EmptyQuery]
  /\ fetching = [f \in Filters |-> IF f = filter THEN Reading(f) ELSE Unread]
  /\ selectedHosts = {} /\ dialog = "none" /\ typed = Unread /\ sent = {}
  /\ shown = {} /\ known = 0

-----------------------------------------------------------------------------
(* Queries *)

\* Every 30 s, on focus, or for want of data; a fetch under way is shared.
Fetch ==
  /\ fetching[filter] = Unread
  /\ fetching' = [fetching EXCEPT ![filter] = Reading(filter)]
  /\ UNCHANGED <<serverVars, filter, queries, pageVars, sent, known>>

\* The query of a filter that is no longer shown is answered as well.
Fetched(f) ==
  /\ fetching[f] # Unread
  /\ queries' = [queries EXCEPT ![f] =
       [hosts |-> fetching[f].hosts, rev |-> fetching[f].rev, stale |-> FALSE, failed |-> FALSE]]
  /\ fetching' = [fetching EXCEPT ![f] = Unread]
  /\ UNCHANGED <<serverVars, filter, pageVars, sent, known>>

FetchFailed(f) ==
  /\ fetching[f] # Unread
  /\ queries' = [queries EXCEPT ![f].stale = TRUE, ![f].failed = TRUE]
  /\ fetching' = [fetching EXCEPT ![f] = Unread]
  /\ UNCHANGED <<serverVars, filter, pageVars, sent, known>>

\* What is not shown is dropped after five minutes.
Collected(f) ==
  /\ f # filter /\ fetching[f] = Unread /\ queries[f] # EmptyQuery
  /\ queries' = [queries EXCEPT ![f] = EmptyQuery]
  /\ UNCHANGED <<serverVars, filter, fetching, pageVars, sent, known>>

\* Mutant of InvalidateDomains: a fetch under way is left to answer.
InvalidateDomainsShared ==
  /\ queries' = [f \in Filters |-> [queries[f] EXCEPT !.stale = TRUE]]
  /\ fetching' = [fetching EXCEPT ![filter] = IF @ = Unread THEN Reading(filter) ELSE @]

\* invalidateQueries(['domains']): the queries are stale; the one that is shown is fetched anew,
\* in place of a fetch under way unless that is its first.
InvalidateDomains ==
  /\ queries' = [f \in Filters |-> [queries[f] EXCEPT !.stale = TRUE]]
  /\ fetching' = [fetching EXCEPT ![filter] =
       IF queries[filter].hosts = Unread /\ @ # Unread THEN @ ELSE Reading(filter)]

-----------------------------------------------------------------------------
(* Filter *)

\* The URL changes: the query of the new filter is read if it is stale, or older than 10 s.
Show(f) ==
  /\ f \in Filters
  /\ filter' = f
  /\ known' = IF f = filter THEN known ELSE 0
  /\ \/ fetching' = [fetching EXCEPT ![f] = IF @ = Unread THEN Reading(f) ELSE @]
     \/ ~queries[f].stale /\ UNCHANGED fetching
  /\ UNCHANGED <<serverVars, queries, sent>>

\* Mutant of SetFilter: the selection stays.
SetFilterOnly(f) == Show(f) /\ UNCHANGED <<selectedHosts, dialog>>

\* setFilter and handleSortChange also clear the selection.
SetFilter(f) == Show(f) /\ selectedHosts' = {} /\ UNCHANGED dialog

\* The search box waits 300 ms, with the filter of the moment of typing.
Type(text) ==
  /\ dialog = "none" /\ \E f \in Filters : f.q
  /\ typed' = [filter EXCEPT !.q = text]
  /\ UNCHANGED <<serverVars, filter, queries, fetching, selectedHosts, dialog, sent, known>>

Debounced == typed # Unread /\ SetFilter(typed) /\ typed' = Unread

ClearSearch == dialog = "none" /\ SetFilter([filter EXCEPT !.q = FALSE]) /\ typed' = Unread

EnabledChange(e) ==
  dialog = "none" /\ SetFilter([filter EXCEPT !.enabled = e]) /\ UNCHANGED typed

Sort == dialog = "none" /\ SetFilter(filter) /\ UNCHANGED typed

\* The sidebar's link to /domains and the browser's Back.
GoTo(f) == f # filter /\ Show(f) /\ UNCHANGED pageVars

-----------------------------------------------------------------------------
(* Selection and mutations *)

Select(hosts) ==
  /\ dialog = "none" /\ Listed # {}
  /\ selectedHosts' = hosts
  /\ UNCHANGED <<serverVars, filter, queries, fetching, dialog, typed, sent, known>>

HandleSelectAll == \E hosts \in {Listed, {}} : Select(hosts)
HandleSelectOne(h) ==
  h \in Listed /\ \E hosts \in {selectedHosts \cup {h}, selectedHosts \ {h}} : Select(hosts)

OpenDialog(d) ==
  /\ dialog = "none" /\ d \in session.kinds
  /\ d = "bulk-delete" \/ d = "bulk-purge" => selectedHosts # {}
  /\ dialog' = d
  /\ UNCHANGED <<serverVars, filter, queries, fetching, selectedHosts, typed, sent, known>>

Pending(kind) == \E m \in sent : m.kind = kind

\* No dialog closes while its mutation is pending.
Close ==
  /\ dialog # "none" /\ ~Pending(dialog)
  /\ dialog' = "none"
  /\ UNCHANGED <<serverVars, filter, queries, fetching, selectedHosts, typed, sent, known>>

Mutate(kind, hosts) ==
  /\ kind \in session.kinds /\ Cardinality(sent) < MaxSent
  /\ sent' = sent \cup {[kind |-> kind, hosts |-> hosts, answer |-> "none", rev |-> 0]}
  /\ UNCHANGED <<serverVars, filter, queries, fetching, pageVars, known>>

\* A row's switch is dead while its host is being toggled.
Toggle(h) ==
  /\ dialog = "none" /\ h \in Listed
  /\ ~\E m \in sent : m.kind = "toggle" /\ h \in m.hosts
  /\ Mutate("toggle", {h})

BulkToggle(kind) ==
  dialog = "none" /\ selectedHosts # {} /\ Mutate(kind, selectedHosts)

\* The dialogs on the selection show it as it is now. "bulk-add" and "add" name any hosts,
\* "delete" the row whose button opened the dialog.
Confirm ==
  /\ dialog # "none" /\ ~Pending(dialog)
  /\ \E hosts \in CASE dialog \in {"bulk-delete", "bulk-purge"} -> {selectedHosts}
                     [] dialog \in {"add", "delete"} -> {{h} : h \in Rows}
                     [] OTHER -> (SUBSET Rows) \ {{}} :
       Mutate(dialog, hosts)

\* What the server does; it refuses an empty list, a host twice and a host it does not have.
Outcome(kind, hosts) ==
  [h \in Rows |->
     CASE h \notin hosts -> enabled[h]
       [] kind \in {"add", "bulk-add"} -> IF enabled[h] = "none" THEN "on" ELSE enabled[h]
       [] kind \in {"delete", "bulk-delete"} -> "none"
       [] enabled[h] = "none" -> "none"
       [] kind = "enable" -> "on"
       [] kind = "disable" -> "off"
       [] kind = "toggle" -> IF enabled[h] = "on" THEN "off" ELSE "on"
       [] OTHER -> enabled[h]]

Changes(new) ==
  /\ enabled' = new
  /\ served' = IF new = enabled THEN served ELSE served + 1
  /\ served' <= MaxServed

Serve(m) ==
  /\ m.answer = "none" /\ m.hosts # {}
  /\ Changes(Outcome(m.kind, m.hosts)) /\ UNCHANGED session
  /\ sent' = (sent \ {m}) \cup {[m EXCEPT !.answer = "ok", !.rev = served']}
  /\ UNCHANGED <<filter, queries, fetching, pageVars, known>>

OtherSession(h, s) ==
  /\ enabled[h] # s
  /\ Changes([enabled EXCEPT ![h] = s]) /\ UNCHANGED session
  /\ UNCHANGED <<filter, queries, fetching, pageVars, sent, known>>

\* onSuccess. What was selected meanwhile goes as well.
Succeeded(m) ==
  /\ m.answer = "ok"
  /\ sent' = sent \ {m}
  /\ IF m.kind = "bulk-purge"
     THEN UNCHANGED <<queries, fetching, known>>
     ELSE /\ InvalidateDomains
          /\ known' = IF queries[filter].hosts = Unread THEN known
                      ELSE IF m.rev > known THEN m.rev ELSE known
  /\ selectedHosts' = CASE m.kind \in {"bulk-delete", "bulk-purge", "enable", "disable"} -> {}
                        [] m.kind = "delete" -> selectedHosts \ m.hosts
                        [] OTHER -> selectedHosts
  /\ dialog' = IF dialog = m.kind THEN "none" ELSE dialog
  /\ UNCHANGED <<serverVars, filter, typed>>

\* onError: refused, or no answer within 30 s, of a request that was carried out or was not.
\* The dialogs on one row and on a purge close, the others stay open.
MutationFailed(m) ==
  /\ sent' = sent \ {m}
  /\ dialog' = IF dialog = m.kind /\ m.kind \in {"delete", "bulk-purge"} THEN "none" ELSE dialog
  /\ UNCHANGED <<serverVars, filter, queries, fetching, selectedHosts, typed, known>>

-----------------------------------------------------------------------------
SetByPage ==
  \/ Debounced \/ ClearSearch \/ Sort
  \/ \E e \in BOOLEAN : EnabledChange(e)

OtherSteps ==
  \/ Fetch \/ Close \/ Confirm \/ HandleSelectAll
  \/ \E f \in Filters : Fetched(f) \/ FetchFailed(f) \/ Collected(f) \/ GoTo(f)
  \/ \E text \in BOOLEAN : Type(text)
  \/ \E h \in Rows : HandleSelectOne(h) \/ Toggle(h) \/ \E s \in States : OtherSession(h, s)
  \/ \E d \in {"add", "delete", "bulk-add", "bulk-delete", "bulk-purge"} : OpenDialog(d)
  \/ \E kind \in {"enable", "disable"} : BulkToggle(kind)
  \/ \E m \in sent : Serve(m) \/ Succeeded(m) \/ MutationFailed(m)

ListNext ==
  \/ SetByPage /\ shown' = Table(queries', filter')
  \/ OtherSteps /\ shown' = shown \cup Table(queries', filter')

ListSpec == ListInit /\ [][ListNext]_listVars

-----------------------------------------------------------------------------
Bulk == {"bulk-delete", "bulk-purge", "enable", "disable"}

\* A request on the selection reaches only hosts that the table has shown under the filter the
\* page set last: what a filter hides is not deleted with the rest, whatever was selected before
\* it, and however late the search box or a list takes effect.
BulkWithinView ==
  [][\A m \in sent' \ sent :
       m.kind \in Bulk /\ m.answer = "none" => m.hosts \subseteq shown]_listVars

\* Once a change of the page's own has been answered, the list it shows does not go back to one
\* read before the change, though a poll was under way when it was made.
OwnChangesStay ==
  \/ queries[filter].failed \/ queries[filter].stale \/ fetching[filter] # Unread
  \/ queries[filter].rev >= known

=============================================================================
