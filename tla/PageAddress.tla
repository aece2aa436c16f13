----------------------------- MODULE PageAddress -----------------------------
(***************************************************************************)
(* The pages that keep what the user chose in the address: the tabs of a     *)
(* domain with their periods and the diagnose fields, the DNS page, the       *)
(* audit log and the system page. An address is the function of the keys its   *)
(* query has. React renders a navigation before the next event, and then the   *)
(* effects of the page: they are part of the step. Blanks around a text and     *)
(* the case of letters are left out; a day d begins at 2 * d and ends at          *)
(* 2 * d + 1.                                                                   *)
(***************************************************************************)
EXTENDS Integers, Sequences

CONSTANTS
  Arrivals,    \* for each page, the addresses that links and bookmarks open it with
  MaxDay,      \* bound: the last day, which is today
  MaxChoices   \* bound: what the user does

VARIABLES
  screen,      \* the page
  entries,     \* the browser's history: each entry's address, and, a ghost, what it was to show
  current,     \* the entry that is shown
  local,       \* state of the mounted tab: the diagnose fields, and whether the browser has stepped
               \* under them; whether the date fields are open; the text that is being composed
  certificates,  \* on the system page: "unread", "few" (no search field) or "many"
  choices

addressVars == <<screen, entries, current, local, certificates, choices>>

Get(a, key, default) == IF key \in DOMAIN a THEN a[key] ELSE default
Put(a, key, value)   == [k \in DOMAIN a \cup {key} |-> IF k = key THEN value ELSE a[k]]
Drop(a, keys)        == [k \in DOMAIN a \ keys |-> a[k]]

Tabs == [domain |-> {"overview", "optimizer", "traffic", "diagnose", "settings"},
         dns    |-> {"records", "stats", "queries"},
         audit  |-> {}, system |-> {}]
FirstTab == [domain |-> "overview", dns |-> "records", audit |-> "none", system |-> "none"]

\* The keys of a tab's period: its prefix and what they hold.
TabPrefixes   == {"op", "tf"}
PeriodKey(p)  == IF p = "op" THEN "opPeriod" ELSE "tfPeriod"
FromKey(p)    == IF p = "op" THEN "opFrom" ELSE "tfFrom"
ToKey(p)      == IF p = "op" THEN "opTo" ELSE "tfTo"
RefreshKey(p) == IF p = "op" THEN "opRefresh" ELSE "tfRefresh"
Dates(p)      == {FromKey(p), ToKey(p)}

Presets      == {"1h", "24h", "7d", "30d"}
Refreshes    == {0, 10, 30, 60, 300}
Ranges       == {"1h", "24h", "7d"}
StatsRanges  == {"1h", "24h"}
Results      == {"matched", "forwarded", "nxdomain"}
NotComposing == "-"

\* What is not a number counts as 0, and no link asks for the first day of 1970.
NumbersFit(a) ==
  /\ Get(a, "page", 0) \in Int
  /\ \A p \in TabPrefixes : Get(a, FromKey(p), 0) \in Int \ {1} /\ Get(a, ToKey(p), 0) \in Int

ASSUME AddressAssumption ==
  /\ MaxDay \in Nat
  /\ DOMAIN Arrivals \subseteq DOMAIN Tabs
  /\ \A s \in DOMAIN Arrivals : \A a \in Arrivals[s] : NumbersFit(a)

-----------------------------------------------------------------------------
(* What an address shows *)

OneOf(a, key, valid, default) ==
  LET v == Get(a, key, default) IN IF v \in valid THEN v ELSE default

TabOn(s, a)  == OneOf(a, "tab", Tabs[s], FirstTab[s])
ActiveTab(a) == TabOn(screen, a)

Value(period, from, to) == [period |-> period, from |-> from, to |-> to]

ValidRange(a, p) ==
  0 < Get(a, FromKey(p), 0) /\ Get(a, FromKey(p), 0) < Get(a, ToKey(p), 0)

ReadPeriod(a, p) ==
  LET period == OneOf(a, PeriodKey(p), Presets \cup {"custom"}, "24h")
  IN  IF period = "custom" /\ ValidRange(a, p)
      THEN Value(period, a[FromKey(p)], a[ToKey(p)]) ELSE Value(period, 0, 0)

ReadRefresh(a, p) == OneOf(a, RefreshKey(p), Refreshes, 30)

\* A result without any label means none of them, one without a valid label all.
ParseResultFilter(a) ==
  LET v == Get(a, "result", Results)
  IN  IF v = {} \/ v \cap Results # {} THEN v \cap Results ELSE Results

OnDomain(a) ==
  [tab |-> TabOn("domain", a), period |-> [p \in TabPrefixes |-> ReadPeriod(a, p)],
   refresh |-> [p \in TabPrefixes |-> ReadRefresh(a, p)],
   path |-> Get(a, "path", ""), range |-> OneOf(a, "dgRange", Ranges, "1h")]

OnDns(a) ==
  [tab |-> TabOn("dns", a), range |-> OneOf(a, "range", StatsRanges, "1h"),
   q |-> Get(a, "q", ""), result |-> ParseResultFilter(a)]

OnAudit(a) ==
  [action |-> Get(a, "action", ""), target |-> Get(a, "target_type", ""),
   page |-> IF Get(a, "page", 0) > 0 THEN a["page"] ELSE 1]

\* The search has an effect only where its field is shown.
Meaning(a) ==
  CASE screen = "domain" -> OnDomain(a)
    [] screen = "dns"    -> OnDns(a)
    [] screen = "audit"  -> OnAudit(a)
    [] OTHER -> [certQ |-> IF certificates = "few" THEN "" ELSE Get(a, "certQ", "")]

-----------------------------------------------------------------------------
(* Effects after a commit *)

\* What the address is corrected for: the keys that each effect deletes.
BadPeriod(a, p) ==
  LET period == Get(a, PeriodKey(p), "24h") IN
  CASE period \notin Presets \cup {"custom"} -> {PeriodKey(p)} \cup Dates(p)
    [] period = "custom" /\ Dates(p) \cap DOMAIN a # {} /\ ~ValidRange(a, p) -> Dates(p)
    [] OTHER -> {}

BadTab(a) == IF Get(a, "tab", FirstTab[screen]) \in Tabs[screen] THEN {} ELSE {"tab"}

BadKeys(a) ==
  CASE screen = "domain" -> BadTab(a) \cup BadPeriod(a, "op") \cup BadPeriod(a, "tf")
    [] screen = "dns" ->
         BadTab(a)
         \cup (IF Get(a, "range", "1h") \in StatsRanges THEN {} ELSE {"range"})
         \cup (IF Get(a, "result", {}) = {} \/ a["result"] \cap Results # {} THEN {} ELSE {"result"})
    [] screen = "system" /\ certificates = "few" -> {"certQ"}
    [] OTHER -> {}

Mounted(a) ==
  LET shown == ActiveTab(a)
      m     == Meaning(a)
  IN  [tab |-> shown, text |-> NotComposing, stepped |-> FALSE,
       path |-> IF shown = "diagnose" THEN m.path ELSE "",
       range |-> IF shown = "diagnose" THEN m.range ELSE "1h",
       customOpen |-> \/ shown = "optimizer" /\ m.period["op"].period = "custom"
                      \/ shown = "traffic" /\ m.period["tf"].period = "custom"]

\* The effect of the diagnose tab, from the address of its own render.
Synced(a, path, range) ==
  LET b == Put(Put(a, "tab", "diagnose"), "dgRange", range)
  IN  IF path = "" THEN Drop(b, {"path"}) ELSE Put(b, "path", path)

\* A newly mounted tab writes first, then the page corrects. Both start from the address of the
\* commit, and the later one stays.
Settled(a, mounts) ==
  CASE BadKeys(a) \cap DOMAIN a # {} -> Drop(a, BadKeys(a))
    [] BadKeys(a) \cap DOMAIN a = {} /\ mounts /\ ActiveTab(a) = "diagnose" ->
         Synced(a, Meaning(a).path, Meaning(a).range)
    [] OTHER -> a

\* The router shows address a.
Renders(a) ==
  local' = IF ActiveTab(a) = local.tab THEN local ELSE Mounted(a)

Entry(a, c) == [address |-> a, chosen |-> c]
Here   == entries[current].address
Chosen == entries[current].chosen

AddressInit ==
  /\ screen \in DOMAIN Arrivals
  /\ certificates = "unread" /\ current = 1 /\ choices = 0
  /\ \E a \in Arrivals[screen] :
       /\ entries = <<Entry(Settled(a, TRUE), Meaning(a))>>
       /\ local = Mounted(a)

Chooses == choices < MaxChoices /\ choices' = choices + 1

\* setSearchParams with replace: the entry takes the address.
Replace(a, c) ==
  /\ Chooses
  /\ entries' = [entries EXCEPT ![current] = Entry(a, c)]
  /\ UNCHANGED <<screen, current, certificates>>

-----------------------------------------------------------------------------
(* Any page *)

\* A tab that is active already is pushed once more.
HandleTabChange(t) ==
  LET a == Put(Here, "tab", t)
  IN  /\ Chooses
      /\ t \in Tabs[screen]
      /\ entries' = Append(SubSeq(entries, 1, current),
                           Entry(Settled(a, t # local.tab), [Chosen EXCEPT !.tab = t]))
      /\ current' = current + 1
      /\ Renders(a)
      /\ UNCHANGED <<screen, certificates>>

\* Back and forward. The diagnose tab keeps its fields if both entries show it.
Step(to) ==
  LET a == entries[to].address
  IN  /\ Chooses
      /\ current' = to
      /\ entries' = [entries EXCEPT ![to].address = Settled(a, ActiveTab(a) # local.tab)]
      /\ IF ActiveTab(a) = "diagnose" /\ local.tab = "diagnose"
         THEN local' = [local EXCEPT !.stepped = TRUE] ELSE Renders(a)
      /\ UNCHANGED <<screen, certificates>>

Reload ==
  /\ Chooses
  /\ entries' = [entries EXCEPT ![current].address = Settled(Here, TRUE)]
  /\ local' = Mounted(Here)
  /\ certificates' = "unread"
  /\ UNCHANGED <<screen, current>>

-----------------------------------------------------------------------------
(* The tabs of a domain *)

Shown(p) == screen = "domain" /\ local.tab = (IF p = "op" THEN "optimizer" ELSE "traffic")

\* Mutant of WritePeriod: the dates of an earlier custom period stay.
WritePeriodOver(p, value) ==
  LET a == Put(Here, PeriodKey(p), value.period)
  IN  IF value.from # 0 /\ value.to # 0
      THEN Put(Put(a, FromKey(p), value.from), ToKey(p), value.to) ELSE a

WritePeriod(p, value) ==
  LET a == Put(Drop(Here, Dates(p)), PeriodKey(p), value.period)
  IN  IF value.period = "custom" /\ value.from # 0 /\ value.to # 0
      THEN Put(Put(a, FromKey(p), value.from), ToKey(p), value.to) ELSE a

OnChange(p, value, open) ==
  /\ Replace(WritePeriod(p, value), [Chosen EXCEPT !.period[p] = value])
  /\ local' = [local EXCEPT !.customOpen = open]

SelectPreset(p, preset) == Shown(p) /\ OnChange(p, Value(preset, 0, 0), FALSE)

SelectCustom(p) ==
  /\ Shown(p)
  /\ IF ReadPeriod(Here, p).period # "custom"
     THEN OnChange(p, Value("custom", 0, 0), TRUE)
     ELSE /\ Chooses /\ local' = [local EXCEPT !.customOpen = TRUE]
          /\ UNCHANGED <<screen, entries, current, certificates>>

\* Without an end a period ends today; without a beginning it is the day that was entered. One
\* that would end before it begins is refused.
ApplyCustom(p, firstDay, lastDay) ==
  /\ Shown(p) /\ local.customOpen
  /\ 2 * lastDay + 1 > 2 * firstDay
  /\ OnChange(p, Value("custom", 2 * firstDay, 2 * lastDay + 1), TRUE)

FromInput(p, day) ==
  LET to == ReadPeriod(Here, p).to
  IN  ApplyCustom(p, day, IF to = 0 THEN MaxDay ELSE to \div 2)

ToInput(p, day) ==
  LET from == ReadPeriod(Here, p).from
  IN  ApplyCustom(p, IF from = 0 THEN day ELSE from \div 2, day)

WriteRefresh(p, ms) ==
  /\ Shown(p)
  /\ Replace(IF ms = 30 THEN Drop(Here, {RefreshKey(p)}) ELSE Put(Here, RefreshKey(p), ms),
             [Chosen EXCEPT !.refresh[p] = ms])
  /\ UNCHANGED local

\* One of the fields is changed; the effect writes both of them.
DiagnoseFields(path, range) ==
  /\ local.tab = "diagnose"
  /\ <<path, range>> # <<local.path, local.range>>
  /\ path = local.path \/ range = local.range
  /\ Replace(Synced(Here, path, range), [Chosen EXCEPT !.path = path, !.range = range])
  /\ local' = [local EXCEPT !.path = path, !.range = range, !.stepped = FALSE]

-----------------------------------------------------------------------------
(* The DNS page *)

HandleRangeChange(v) ==
  /\ screen = "dns" /\ local.tab = "stats"
  /\ Replace(Put(Here, "range", v), [Chosen EXCEPT !.range = v])
  /\ UNCHANGED local

\* An empty text takes its key away.
WithText(key, text) == IF text = "" THEN Drop(Here, {key}) ELSE Put(Here, key, text)

HandleSearchChange(text) ==
  /\ screen = "dns" /\ local.tab = "records" /\ local.text = NotComposing
  /\ Replace(WithText("q", text), [Chosen EXCEPT !.q = text])
  /\ UNCHANGED local

\* While a syllable is composed the filter waits.
Compose(text) ==
  /\ screen = "dns" /\ local.tab = "records"
  /\ Chooses
  /\ local' = [local EXCEPT !.text = text]
  /\ UNCHANGED <<screen, entries, current, certificates>>

HandleCompositionEnd ==
  /\ local.text # NotComposing
  /\ Replace(WithText("q", local.text), [Chosen EXCEPT !.q = local.text])
  /\ local' = [local EXCEPT !.text = NotComposing]

HandleResultFilterChange(filter) ==
  /\ screen = "dns" /\ local.tab = "queries"
  /\ Replace(IF filter = Results THEN Drop(Here, {"result"}) ELSE Put(Here, "result", filter),
             [Chosen EXCEPT !.result = filter])
  /\ UNCHANGED local

ToggleResult(r) ==
  LET filter == ParseResultFilter(Here)
  IN  HandleResultFilterChange(IF r \in filter THEN filter \ {r} ELSE filter \cup {r})

\* Offered when nothing is left to see.
HandleResetFilters ==
  /\ ParseResultFilter(Here) # Results
  /\ HandleResultFilterChange(Results)

-----------------------------------------------------------------------------
(* The audit log, and the certificates of the system page *)

\* updateParam: a filter begins at the first page again.
Filter(key, text) ==
  /\ screen = "audit"
  /\ Replace(Drop(WithText(key, text), {"page"}),
             [action |-> IF key = "action" THEN text ELSE Chosen.action,
              target |-> IF key = "target_type" THEN text ELSE Chosen.target, page |-> 1])
  /\ UNCHANGED local

\* The pager, on a list of so many pages.
Turn(by, pages) ==
  LET page == Meaning(Here).page
  IN  /\ screen = "audit" /\ pages > 1
      /\ IF by = 1 THEN page < pages ELSE page > 1
      /\ Replace(Put(Here, "page", page + by), [Chosen EXCEPT !.page = Chosen.page + by])
      /\ UNCHANGED local

HandleCertSearchChange(text) ==
  /\ screen = "system" /\ certificates = "many"
  /\ Replace(WithText("certQ", text), [certQ |-> text])
  /\ UNCHANGED local

\* The list is read: a search that it is too short to have a field for is taken away.
CertificatesRead(n) ==
  /\ screen = "system" /\ n # certificates
  /\ Chooses
  /\ certificates' = n
  /\ entries' = IF n = "few" THEN <<Entry(Drop(Here, {"certQ"}), [certQ |-> ""])>> ELSE entries
  /\ UNCHANGED <<screen, current, local>>

-----------------------------------------------------------------------------
Texts == {"", "x", "y"}

AddressNext ==
  \/ Reload \/ HandleCompositionEnd \/ HandleResetFilters
  \/ \E t \in Tabs[screen] : HandleTabChange(t)
  \/ \E to \in {current - 1, current + 1} \cap DOMAIN entries : Step(to)
  \/ \E p \in TabPrefixes :
       \/ SelectCustom(p)
       \/ \E preset \in Presets : SelectPreset(p, preset)
       \/ \E day \in 1..MaxDay : FromInput(p, day) \/ ToInput(p, day)
       \/ \E ms \in Refreshes : WriteRefresh(p, ms)
  \/ \E path \in Texts, range \in Ranges : DiagnoseFields(path, range)
  \/ \E v \in StatsRanges : HandleRangeChange(v)
  \/ \E text \in Texts :
       \/ HandleSearchChange(text) \/ Compose(text) \/ HandleCertSearchChange(text)
       \/ \E key \in {"action", "target_type"} : Filter(key, text)
  \/ \E r \in Results : ToggleResult(r)
  \/ \E by \in {-1, 1}, pages \in 1..3 : Turn(by, pages)
  \/ \E n \in {"few", "many"} : CertificatesRead(n)

AddressSpec == AddressInit /\ [][AddressNext]_addressVars

\* Every entry of the history shows what was chosen on it, to whoever reloads it, comes back to it
\* or is sent its address: though pages share keys, periods leave dates behind, tabs and pages
\* correct one address from one render, and half of an address may be wrong. The diagnose fields
\* agree with it too, unless the browser has stepped from one entry of that tab to another.
AddressKeepsChoices ==
  /\ \A i \in DOMAIN entries : Meaning(entries[i].address) = entries[i].chosen
  /\ local.tab = "diagnose" /\ ~local.stepped =>
       local.path = Chosen.path /\ local.range = Chosen.range

=============================================================================
