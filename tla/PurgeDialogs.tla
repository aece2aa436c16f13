----------------------------- MODULE PurgeDialogs ----------------------------
(***************************************************************************)
(* What the page of a domain does to the domain: the buttons and dialogs of   *)
(* its header, of the quick actions, of the cache section in the settings and  *)
(* of the diagnose tab, with the mutations behind them. A dialog is modal, but   *)
(* Back and Forward move the page under it; the page is not remounted for         *)
(* another host whose data is there already. An answer finds the component         *)
(* that sent the call as it is by then, or gone.                                    *)
(***************************************************************************)
EXTENDS Naturals, FiniteSets

CONSTANTS
  Domains,     \* hosts with a page
  ListPage,    \* the list of domains
  DgPaths,     \* paths of the diagnose tab and of the proxy test
  MaxDialogs,  \* bound: dialogs opened
  MaxInFlight  \* bound: calls under way

VARIABLES
  page,        \* the host whose page is shown, and its tab
  row,         \* whether each domain is enabled, as the page has read it
  stored,      \* and as it is: "on", "off" or "gone"
  popup,       \* the dialog that is open, and the how manieth
  opened,      \* dialogs so far
  path,        \* input of the diagnose tab
  pendingPurgeUrl,
  calls,       \* mutations under way
  result,      \* what the proxy test shows
  tested,      \* ghost: what was tested last
  stray        \* ghost: an answer has closed a dialog that was opened after its call

dialogVars == <<page, row, stored, popup, opened, path, pendingPurgeUrl, calls, result, tested, stray>>

NoPopup == [by |-> "none", round |-> 0]
NoUrl   == <<>>   \* null

\* Where each control is; "any" are the header's, which all tabs have.
TabOf == [header |-> "any", remove |-> "any", toggle |-> "any",
          quick |-> "overview", test |-> "overview", sync |-> "overview",
          cache |-> "settings", url |-> "settings", refresh |-> "diagnose"]
Dialogs  == {"header", "remove", "quick", "test", "cache", "refresh"}
PageTabs == {"overview", "settings", "diagnose"}

OnPage(s) == page.host \in Domains /\ TabOf[s] \in {"any", page.tab}

DialogInit ==
  /\ page \in [host : Domains, tab : PageTabs]
  /\ row = [h \in Domains |-> TRUE] /\ stored = [h \in Domains |-> "on"]
  /\ popup = NoPopup /\ opened = 0 /\ path \in DgPaths /\ pendingPurgeUrl = NoUrl
  /\ calls = {} /\ result = NoUrl /\ tested = NoUrl /\ stray = FALSE

\* The cache section has one mutation for its two purges.
Mutation(s) == IF s = "url" THEN "cache" ELSE s

\* isPending, of the mutation of a mounted component; "loading" of the proxy test.
IsPending(s) ==
  \E c \in calls : c.live /\ c.stage # "refetch" /\ Mutation(c.by) = Mutation(s)

-----------------------------------------------------------------------------
(* Dialogs *)

\* The buttons of an inactive domain are dead; those of the settings and the removal are not.
Offered(s) ==
  /\ OnPage(s)
  /\ s \in {"header", "quick", "test", "sync"} => row[page.host]
  /\ s \in {"header", "refresh", "url", "toggle", "sync"} => ~IsPending(s)

OpenPopup(s) ==
  /\ popup = NoPopup /\ Offered(s) /\ opened < MaxDialogs
  /\ opened' = opened + 1
  /\ popup' = [by |-> s, round |-> opened + 1]
  /\ pendingPurgeUrl' = IF s = "refresh" THEN <<page.host, path>> ELSE pendingPurgeUrl
  /\ UNCHANGED <<page, row, stored, path, calls, result, tested, stray>>

\* Mutant of Closable: a dialog may be closed while its call is under way.
ClosableAlways(s) == TRUE

Closable(s) == s = "test" \/ ~IsPending(s)

ClosePopup ==
  /\ popup # NoPopup /\ Closable(popup.by)
  /\ popup' = NoPopup
  /\ pendingPurgeUrl' = IF popup.by = "refresh" THEN NoUrl ELSE pendingPurgeUrl
  /\ result' = IF popup.by = "test" THEN NoUrl ELSE result
  /\ UNCHANGED <<page, row, stored, opened, path, calls, tested, stray>>

\* What the dialog says it is about, and its handler sends.
Target(s) == IF s = "refresh" THEN pendingPurgeUrl ELSE <<page.host>>

Dispatch(s, target) ==
  /\ Cardinality(calls) < MaxInFlight
  /\ calls' = calls \cup {[by |-> s, target |-> target, round |-> popup.round, live |-> TRUE,
                           stage |-> "sent"]}

\* The dialog of the diagnose tab closes at once, and sends nothing if there is no URL; the others
\* stay open until the answer.
ConfirmPopup ==
  /\ popup.by \in Dialogs \ {"test"} /\ ~IsPending(popup.by)
  /\ popup' = IF popup.by = "refresh" THEN NoPopup ELSE popup
  /\ IF popup.by = "refresh" /\ pendingPurgeUrl = NoUrl THEN UNCHANGED calls
     ELSE Dispatch(popup.by, Target(popup.by))
  /\ UNCHANGED <<page, row, stored, opened, path, pendingPurgeUrl, result, tested, stray>>

\* The proxy test, with the path of its own field.
HandleTest(p) ==
  /\ popup.by = "test" /\ ~IsPending("test")
  /\ Dispatch("test", <<page.host, p>>)
  /\ result' = NoUrl /\ tested' = <<page.host, p>>
  /\ UNCHANGED <<page, row, stored, popup, opened, path, pendingPurgeUrl, stray>>

\* Buttons without a dialog: toggle, sync and renewal (which is alike), and a URL of the host to purge.
Press(s) ==
  /\ popup = NoPopup /\ Offered(s)
  /\ Dispatch(s, Target(s))
  /\ UNCHANGED <<page, row, stored, popup, opened, path, pendingPurgeUrl, result, tested, stray>>

SetPathInput(p) ==
  /\ popup = NoPopup /\ OnPage("refresh") /\ p # path
  /\ path' = p
  /\ UNCHANGED <<page, row, stored, popup, opened, pendingPurgeUrl, calls, result, tested, stray>>

-----------------------------------------------------------------------------
(* The page moves *)

\* The components that stay: those of the tab if it stays, and nothing if a skeleton comes between.
Stays(s, to, cached) ==
  /\ to.host \in Domains /\ (to.host = page.host \/ cached)
  /\ TabOf[s] \in {"any", to.tab} /\ (TabOf[s] = "any" \/ to.tab = page.tab)

Moved(to, cached, left) ==
  LET Kept(s) == Stays(s, to, cached)
  IN  /\ page' = to
      /\ popup' = IF popup # NoPopup /\ Kept(popup.by) THEN popup ELSE NoPopup
      /\ pendingPurgeUrl' = IF Kept("refresh") THEN pendingPurgeUrl ELSE NoUrl
      /\ result' = IF Kept("test") THEN result ELSE NoUrl
      /\ tested' = IF Kept("test") THEN tested ELSE NoUrl
      /\ calls' = {[c EXCEPT !.live = c.live /\ Kept(c.by)] : c \in left}

\* Back and forward at any time; links and tabs while no dialog covers them. Going to another tab
\* of another host does what going to the host and then to the tab does.
GoBack(to, cached) ==
  /\ to # page /\ Moved(to, cached, calls)
  /\ UNCHANGED <<row, stored, opened, path, stray>>

\* Another session removes a domain.
OtherRemoves(h) ==
  /\ stored' = [stored EXCEPT ![h] = "gone"]
  /\ UNCHANGED <<page, row, popup, opened, path, pendingPurgeUrl, calls, result, tested, stray>>

\* useDomain: a domain that is gone is left for the list.
DomainRead ==
  LET h == page.host
  IN  /\ h \in Domains
      /\ \/ /\ stored[h] # "gone" /\ row' = [row EXCEPT ![h] = stored[h] = "on"]
            /\ UNCHANGED <<page, popup, pendingPurgeUrl, result, tested, calls>>
         \/ /\ stored[h] = "gone" /\ Moved([host |-> ListPage, tab |-> "none"], FALSE, calls)
            /\ UNCHANGED row
      /\ UNCHANGED <<stored, opened, path, stray>>

-----------------------------------------------------------------------------
(* Calls *)

At(c, stage) == (calls \ {c}) \cup {[c EXCEPT !.stage = stage]}

\* The routes: 404, or 400 of the purge, for a host that is gone. Toggle and removal change the row.
Route(c) ==
  LET h == c.target[1]
  IN  /\ c.stage = "sent" /\ stored[h] # "gone"
      /\ stored' = [stored EXCEPT ![h] =
           CASE c.by = "remove" -> "gone"
             [] c.by = "toggle" -> IF @ = "on" THEN "off" ELSE "on"
             [] OTHER -> @]
      /\ calls' = At(c, "done")
      /\ UNCHANGED <<page, row, popup, opened, path, pendingPurgeUrl, result, tested, stray>>

\* setShowPurgeDialog(false), setPurgeOpen(false), setPurgeDialogOpen(false)
ClosesDialog(c) ==
  /\ popup' = IF c.live /\ popup.by = c.by THEN NoPopup ELSE popup
  /\ stray' = (stray \/ (c.live /\ popup.by = c.by /\ popup.round # c.round))

Purged(c) ==
  /\ c.stage = "done" /\ c.by \in {"header", "quick", "cache"}
  /\ ClosesDialog(c) /\ calls' = calls \ {c}
  /\ UNCHANGED <<page, row, stored, opened, path, pendingPurgeUrl, result, tested>>

\* navigate('/domains'), wherever the page is by now.
Removed(c) ==
  /\ c.stage = "done" /\ c.by = "remove"
  /\ Moved([host |-> ListPage, tab |-> "none"], FALSE, calls \ {c})
  /\ UNCHANGED <<row, stored, opened, path, stray>>

\* A refusal, the server's 502, or no answer: whatever the server has done.
Failed(c) ==
  /\ c.stage # "refetch" /\ c.by # "test"
  /\ IF c.by = "remove" THEN ClosesDialog(c) ELSE UNCHANGED <<popup, stray>>
  /\ pendingPurgeUrl' = IF c.by = "refresh" /\ c.live THEN NoUrl ELSE pendingPurgeUrl
  /\ calls' = calls \ {c}
  /\ UNCHANGED <<page, row, stored, opened, path, result, tested>>

Pressed(c) ==
  /\ c.stage = "done" /\ c.by \in {"url", "toggle", "sync"}
  /\ calls' = calls \ {c}
  /\ UNCHANGED <<page, row, stored, popup, opened, path, pendingPurgeUrl, result, tested, stray>>

\* onConfirmRefresh awaits the refetch as well; what it finally clears is no longer its own.
RefreshAnswered(c) ==
  /\ c.stage = "done" /\ c.by = "refresh"
  /\ calls' = At(c, "refetch")
  /\ UNCHANGED <<page, row, stored, popup, opened, path, pendingPurgeUrl, result, tested, stray>>

RefreshRefetched(c) ==
  /\ c.stage = "refetch"
  /\ pendingPurgeUrl' = IF c.live THEN NoUrl ELSE pendingPurgeUrl
  /\ calls' = calls \ {c}
  /\ UNCHANGED <<page, row, stored, popup, opened, path, result, tested, stray>>

\* The test has a result in any case, and shows it whether its dialog is still open or open again.
TestAnswered(c) ==
  /\ c.by = "test"
  /\ result' = IF c.live THEN c.target ELSE result
  /\ calls' = calls \ {c}
  /\ UNCHANGED <<page, row, stored, popup, opened, path, pendingPurgeUrl, tested, stray>>

-----------------------------------------------------------------------------
DialogNext ==
  \/ ClosePopup \/ ConfirmPopup \/ DomainRead
  \/ \E s \in Dialogs : OpenPopup(s)
  \/ \E p \in DgPaths : HandleTest(p) \/ SetPathInput(p)
  \/ \E s \in {"toggle", "sync", "url"} : Press(s)
  \/ \E t \in PageTabs : page.host \in Domains /\ GoBack([page EXCEPT !.tab = t], TRUE)
  \/ \E h \in Domains, cached \in BOOLEAN : page.host \in Domains /\ GoBack([page EXCEPT !.host = h], cached)
  \/ \E to \in [host : Domains, tab : PageTabs] : page.host = ListPage /\ GoBack(to, FALSE)
  \/ GoBack([host |-> ListPage, tab |-> "none"], FALSE)
  \/ \E h \in Domains : OtherRemoves(h)
  \/ \E c \in calls :
       \/ Route(c) \/ Purged(c) \/ Removed(c) \/ Failed(c) \/ Pressed(c)
       \/ RefreshAnswered(c) \/ RefreshRefetched(c) \/ TestAnswered(c)

DialogSpec == DialogInit /\ [][DialogNext]_dialogVars

\* No answer of a purge or a removal closes a dialog that was opened after its call, although Back
\* moves the page to another host or tab under the dialog, and mounts its components anew or not;
\* and the result that a proxy test shows is that of the last test, even if it comes late.
DialogsAsShown ==
  /\ ~stray
  /\ result # NoUrl => result = tested

=============================================================================
