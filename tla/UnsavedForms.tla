----------------------------- MODULE UnsavedForms ----------------------------
(***************************************************************************)
(* The settings tab of a domain: two forms, the origin's and the optimizer's, *)
(* each with useUnsavedChangesPrompt, which puts an interceptor of its own in  *)
(* front of history.pushState and replaceState. The optimizer's section is     *)
(* mounted second, so its interceptor comes first. The rest of the tab is here *)
(* with what it does to the page: deleting the domain leaves it, and the       *)
(* query of the domain decides what the page shows.                            *)
(***************************************************************************)
EXTENDS Integers, Sequences

CONSTANTS
  Elsewhere,   \* where the links of the page and its other tabs lead
  Settings,    \* this tab
  ErrorCard,   \* what the page shows when the domain could not be read
  Nowhere,     \* no navigation is pending
  MaxVisits    \* bound: interceptors that earlier visits left behind

ASSUME FormsAssumption == Nowhere \notin {"origin", "optimizer"}

VARIABLES
  place,       \* what the router shows
  form,        \* each form: "read", "clean" (edited, nothing changed), "dirty", or "behind" if it
               \* differs from the server's values because those have changed
  saving,      \* the forms whose mutation is under way
  pending,     \* pendingNavigation of each form: its dialog is open if it leads somewhere
  discarding,  \* pendingDiscard: ESC in the origin's form
  removal,     \* the delete dialog: "no", "open", "sent"
  left,        \* isDirtyRef of the interceptors that are still in pushState's chain though
               \* their sections are gone
  lost         \* ghost: a navigation has taken unsaved input that no dialog had asked about

formVars == <<place, form, saving, pending, discarding, removal, left, lost>>

Forms == {"origin", "optimizer"}
Fresh(v) == [f \in Forms |-> v]
\* isDirty of each form, and those in which the user has typed something
Dirty == {f \in Forms : form[f] \in {"dirty", "behind"}}
Typed == {f \in Forms : form[f] = "dirty"}

UnsavedInit ==
  /\ place = Settings /\ form = Fresh("read") /\ saving = {}
  /\ pending = Fresh(Nowhere) /\ discarding = FALSE /\ removal = "no"
  /\ left = <<>> /\ lost = FALSE

\* No dialog covers the page.
NoDialog == \A f \in Forms : pending[f] = Nowhere /\ ~discarding /\ removal = "no"
OnForm == place = Settings /\ NoDialog

\* A call of pushState ends in an interceptor that nobody listens to.
Swallowed == \E i \in 1..Len(left) : left[i]

-----------------------------------------------------------------------------
(* Leaving *)

\* The sections unmount. The origin's cleanup restores what it found, then the optimizer's puts
\* back what it found, which is the origin's interceptor, with the isDirty it saw last.
Unmount(to, stillDirty, unasked) ==
  /\ place' = to
  /\ form' = Fresh("read") /\ saving' = {} /\ pending' = Fresh(Nowhere)
  /\ discarding' = FALSE /\ removal' = "no"
  /\ left' = <<stillDirty>> \o left
  /\ lost' = (lost \/ unasked)

\* Mutant of Intercepted: the guard of the outer form only.
InterceptedOnce(passed) ==
  IF "optimizer" \in Dirty \ passed THEN "optimizer" ELSE Nowhere

\* The interceptor that stops a navigation which those in "passed" let through.
Intercepted(passed) ==
  CASE "optimizer" \in Dirty \ passed -> "optimizer"
    [] "optimizer" \notin Dirty \ passed /\ "origin" \in Dirty \ passed -> "origin"
    [] OTHER -> Nowhere

\* navigate(): stopped by a form, or by what is left of an earlier one, or done.
Navigate(to) ==
  LET g == Intercepted({})
  IN  \/ /\ g # Nowhere
         /\ pending' = [pending EXCEPT ![g] = IF @ = Nowhere THEN to ELSE @]
         /\ removal' = "no"
         /\ UNCHANGED <<place, form, saving, discarding, left, lost>>
      \/ /\ g = Nowhere /\ Swallowed
         /\ removal' = "no"
         /\ UNCHANGED <<place, form, saving, pending, discarding, left, lost>>
      \/ /\ g = Nowhere /\ ~Swallowed
         /\ Unmount(to, "origin" \in Dirty, Typed # {})

FollowLink(to) == OnForm /\ Navigate(to)

\* confirmNavigation: the original of the form's own interceptor is called, and a popstate
\* event is dispatched. A second form with changes stops it, and takes that event for a step
\* back to where it is. React may render the form once more before the page goes.
ConfirmNavigation(f) ==
  LET g == Intercepted({f} \cup {"optimizer"})
      to == pending[f]
  IN  /\ place = Settings /\ to # Nowhere /\ ~discarding
      /\ \/ /\ g # Nowhere
            /\ pending' = [pending EXCEPT ![f] = Nowhere,
                                          ![g] = IF @ = Nowhere THEN Settings ELSE @]
            /\ UNCHANGED <<place, form, saving, discarding, removal, left, lost>>
         \/ /\ g = Nowhere /\ (Swallowed \/ to = Settings)
            /\ pending' = [pending EXCEPT ![f] = Nowhere]
            /\ UNCHANGED <<place, form, saving, discarding, removal, left, lost>>
         \/ /\ g = Nowhere /\ ~Swallowed /\ to # Settings
            /\ \E rendered \in BOOLEAN :
                 Unmount(to, f = "origin" /\ "origin" \in Dirty /\ rendered,
                         ~Typed \subseteq {f})

CancelNavigation(f) ==
  /\ place = Settings /\ pending[f] # Nowhere /\ ~discarding
  /\ pending' = [pending EXCEPT ![f] = Nowhere]
  /\ UNCHANGED <<place, form, saving, discarding, removal, left, lost>>

\* Back and forward to another page: the router has moved before the forms hear of it, and what
\* they do to the URL does not bring it back.
Back(to) ==
  /\ OnForm
  /\ Unmount(to, "origin" \in Dirty, FALSE)

\* handlePopState, on a step to another entry of the same tab.
HandlePopState ==
  /\ OnForm
  /\ pending' = [f \in Forms |-> IF f \in Dirty THEN Settings ELSE Nowhere]
  /\ UNCHANGED <<place, form, saving, discarding, removal, left, lost>>

\* beforeunload asks if there are changes; a new document has no interceptors.
ReloadPage ==
  /\ NoDialog
  /\ place' = (IF place = ErrorCard THEN Settings ELSE place)
  /\ form' = Fresh("read") /\ saving' = {} /\ left' = <<>>
  /\ UNCHANGED <<pending, discarding, removal, lost>>

\* Links of other pages, and the retry of the error card.
Visit ==
  /\ place \in Elsewhere /\ ~Swallowed
  /\ place' = Settings
  /\ UNCHANGED <<form, saving, pending, discarding, removal, left, lost>>

Retry ==
  /\ place = ErrorCard
  /\ place' = Settings
  /\ UNCHANGED <<form, saving, pending, discarding, removal, left, lost>>

\* useDomain fails for good: the card takes the place of the tabs. A domain that is gone is left.
RefetchFailed ==
  /\ place = Settings
  /\ Unmount(ErrorCard, "origin" \in Dirty, FALSE)

RefetchMissing(to) == place = Settings /\ removal = "no" /\ Navigate(to)

-----------------------------------------------------------------------------
(* Editing *)

Edit(f) ==
  /\ OnForm /\ form[f] = "read"
  /\ form' = [form EXCEPT ![f] = "clean"]
  /\ UNCHANGED <<place, saving, pending, discarding, removal, left, lost>>

\* The fields stay open while the form is being saved.
TypeIn(f) ==
  /\ OnForm /\ form[f] # "read"
  /\ \E state \in {"clean", "dirty"} : form' = [form EXCEPT ![f] = state]
  /\ UNCHANGED <<place, saving, pending, discarding, removal, left, lost>>

\* The values of the form are compared with those of the query: another session may change them.
Refetched(f) ==
  /\ place = Settings /\ form[f] # "read"
  /\ form' = [form EXCEPT ![f] = IF @ = "clean" THEN "behind" ELSE "clean"]
  /\ UNCHANGED <<place, saving, pending, discarding, removal, left, lost>>

HandleCancel ==
  /\ OnForm /\ form["origin"] # "read" /\ "origin" \notin saving
  /\ form' = [form EXCEPT !["origin"] = "read"]
  /\ UNCHANGED <<place, saving, pending, discarding, removal, left, lost>>

HandleEscape ==
  /\ OnForm /\ form["origin"] # "read"
  /\ discarding' = ("origin" \in Dirty)
  /\ form' = [form EXCEPT !["origin"] = IF "origin" \in Dirty THEN @ ELSE "read"]
  /\ UNCHANGED <<place, saving, pending, removal, left, lost>>

ConfirmDiscard ==
  /\ discarding
  /\ discarding' = FALSE /\ form' = [form EXCEPT !["origin"] = "read"]
  /\ UNCHANGED <<place, saving, pending, removal, left, lost>>

CancelDiscard ==
  /\ discarding
  /\ discarding' = FALSE
  /\ UNCHANGED <<place, form, saving, pending, removal, left, lost>>

HandleSave(f) ==
  /\ OnForm /\ f \in Dirty /\ f \notin saving
  /\ saving' = saving \cup {f}
  /\ UNCHANGED <<place, form, pending, discarding, removal, left, lost>>

\* onSuccess puts the form back to the server's values, and what was typed meanwhile with it.
Saved(f) ==
  /\ f \in saving
  /\ saving' = saving \ {f}
  /\ form' = [form EXCEPT ![f] = "read"]
  /\ UNCHANGED <<place, pending, discarding, removal, left, lost>>

SaveFailed(f) ==
  /\ f \in saving
  /\ saving' = saving \ {f}
  /\ UNCHANGED <<place, form, pending, discarding, removal, left, lost>>

DeleteOpen ==
  /\ OnForm /\ removal' = "open"
  /\ UNCHANGED <<place, form, saving, pending, discarding, left, lost>>

DeleteClose ==
  /\ removal = "open" /\ removal' = "no"
  /\ UNCHANGED <<place, form, saving, pending, discarding, left, lost>>

HandleDelete ==
  /\ removal = "open" /\ removal' = "sent"
  /\ UNCHANGED <<place, form, saving, pending, discarding, left, lost>>

\* A domain that was deleted is left for the list; a failure leaves the dialog open.
Deleted(to) == removal = "sent" /\ Navigate(to)

DeleteFailed ==
  /\ removal = "sent" /\ removal' = "open"
  /\ UNCHANGED <<place, form, saving, pending, discarding, left, lost>>

-----------------------------------------------------------------------------
UnsavedSteps ==
  \/ HandlePopState \/ ReloadPage \/ Visit \/ Retry \/ RefetchFailed
  \/ HandleCancel \/ HandleEscape \/ ConfirmDiscard \/ CancelDiscard
  \/ DeleteOpen \/ DeleteClose \/ HandleDelete \/ DeleteFailed
  \/ \E f \in Forms :
       \/ ConfirmNavigation(f) \/ CancelNavigation(f)
       \/ Edit(f) \/ TypeIn(f) \/ Refetched(f) \/ HandleSave(f) \/ Saved(f) \/ SaveFailed(f)
  \/ \E to \in Elsewhere : FollowLink(to) \/ Back(to) \/ RefetchMissing(to) \/ Deleted(to)

UnsavedNext == UnsavedSteps /\ Len(left') <= MaxVisits

UnsavedSpec == UnsavedInit /\ [][UnsavedNext]_formVars

\* No link, no tab, and no navigation of the page's own takes unsaved input away before the
\* dialog of the form it is in has been confirmed, though the two interceptors call one another,
\* a dialog may be open already, and forms come and go.
LinksKeepEdits == ~lost

=============================================================================
