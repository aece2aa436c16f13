------------------------------ MODULE MCConsole ------------------------------
(***************************************************************************)
(* The accounts of the console and what its pages keep: the list of domains,  *)
(* its forms, its log, its addresses, its tables and its dialogs. In the        *)
(* models they share nothing, so one run checks them one at a time: the         *)
(* initial state picks a part, and only that part moves.                        *)
(***************************************************************************)
EXTENDS Accounts, DomainList, UnsavedForms, LogStream, PageAddress, DetailTables, PurgeDialogs

CONSTANTS
  Parts,
  MaxVersion    \* bound: no row of users goes beyond this version

VARIABLE part

\* The first account, and its first password, may as well have these names.
FirstNames ==
  users # <<>> =>
    /\ users[1].name = CHOOSE n \in Names : TRUE
    /\ users[1].tv = 0 => users[1].pw = CHOOSE p \in Passwords : TRUE

\* Two sessions, of which one has ended; two answers to the list under way, and no failed ones if
\* it has two filters; two answers of tables, and a request that comes or goes; one domain that is not
\* as it was.
Bounded ==
  /\ FirstNames
  /\ Cardinality(signed) <= 2 /\ Cardinality(ended) <= 1 /\ \A i \in Ids : users[i].tv <= MaxVersion
  /\ Cardinality({f \in Filters : fetching[f] # Unread}) + Cardinality(sent) <= 2
  /\ Cardinality(Filters) > 1 => \A f \in Filters : ~queries[f].failed
  /\ Cardinality(Requests \ log) <= 1 /\ Cardinality(DOMAIN asked \cup DOMAIN cache) <= 2
  /\ Cardinality({h \in Domains : stored[h] # "on" \/ ~row[h]}) <= 1

All == [q |-> FALSE, enabled |-> FALSE]

\* What a user of the list does: changes of a few kinds under one filter, or one kind of bulk
\* change while searching, or another while filtering by state.
MCSessions ==
  {[filters |-> {All}, kinds |-> {"toggle", "add", "delete"}],
   [filters |-> {All}, kinds |-> {"bulk-add", "bulk-purge", "enable"}],
   [filters |-> {All, [All EXCEPT !.q = TRUE]}, kinds |-> {"bulk-delete"}],
   [filters |-> {All, [All EXCEPT !.enabled = TRUE]}, kinds |-> {"disable"}]}

\* Links and bookmarks: right, half right, from an earlier release, or made up.
MCArrivals ==
  [domain |->
     {[tab |-> "overview"],
      [tab |-> "diagnose", path |-> "x", dgRange |-> "7d", opPeriod |-> "none"],
      [tab |-> "traffic", tfPeriod |-> "custom", tfFrom |-> 2, tfTo |-> 5, tfRefresh |-> 7],
      [tab |-> "optimizer", opPeriod |-> "custom", opFrom |-> 4, tfRefresh |-> 10],
      [tab |-> "nowhere", opPeriod |-> "custom", opFrom |-> 4, opTo |-> 3, dgRange |-> "30d"]},
   dns |->
     {[tab |-> "records", q |-> "x"], [tab |-> "queries", result |-> {"other"}],
      [range |-> "7d", result |-> {"matched", "other"}], [tab |-> "nowhere", result |-> {}]},
   audit |-> {[page |-> 0], [action |-> "x", page |-> 2]},
   system |-> {[certQ |-> "x"]}]

MCRequests ==
  {[time |-> 1, host |-> "a", path |-> "x", error |-> FALSE],
   [time |-> 2, host |-> "a", path |-> "y", error |-> TRUE],
   [time |-> 3, host |-> "b", path |-> "x", error |-> TRUE]}

\* For a part that does not move one initial state will do.
ConsoleInit ==
  /\ part \in Parts
  /\ Init /\ ListInit /\ UnsavedInit /\ LogInit /\ AddressInit /\ TablesInit /\ DialogInit
  /\ part # "list" => "toggle" \in session.kinds
  /\ part # "log" => \A s \in Services : logged[s] = 0
  /\ part # "address" => screen = "system"
  /\ hostShown = "a" /\ page.host = "a" /\ path = "x"
  /\ part # "tables" => tab = "traffic"
  /\ part # "dialogs" => page.tab = "overview"

\* One part moves, and the others stay as they are.
ConsoleNext ==
  /\ part' = part
  /\ \/ part = "accounts" /\ Next
     \/ part = "list"     /\ ListNext
     \/ part = "forms"    /\ UnsavedNext
     \/ part = "log"      /\ LogNext
     \/ part = "address"  /\ AddressNext
     \/ part = "tables"   /\ TablesNext
     \/ part = "dialogs"  /\ DialogNext
  /\ part # "accounts" => UNCHANGED accountVars
  /\ part # "list"     => UNCHANGED listVars
  /\ part # "forms"    => UNCHANGED formVars
  /\ part # "log"      => UNCHANGED logVars
  /\ part # "address"  => UNCHANGED addressVars
  /\ part # "tables"   => UNCHANGED tableVars
  /\ part # "dialogs"  => UNCHANGED dialogVars

consoleVars ==
  <<part, accountVars, listVars, formVars, logVars, addressVars, tableVars, dialogVars>>

\* An answer under way decides nothing, and no property reads it.
Relevant ==
  <<part, users, signed, ended, at, job, listVars, formVars, logVars, addressVars, tableVars, dialogVars>>

ConsoleSpec == ConsoleInit /\ [][ConsoleNext]_consoleVars

=============================================================================
