------------------------------ MODULE AdminTabs -------------------------------
(***************************************************************************)
(* The admin console in several tabs of one or of several browsers:         *)
(* AuthProvider and its broadcast (admin-web/src/components/auth), the      *)
(* mutations of LoginPage, SetupPage, UserNav and UsersPage, and the 401     *)
(* interceptor of lib/api. The cookie belongs to the browser, the state and  *)
(* the call that is waited for to the tab. The server answers a call in one  *)
(* step here; what happens inside its handlers is in Accounts.              *)
(***************************************************************************)
EXTENDS Integers, Functions, FiniteSetsExt

CONSTANTS
  Tabs, Browsers,
  LeftOpen,     \* a tab left open on a page that polls
  Users,        \* the accounts, registered or not yet
  Nothing,      \* no session
  Cleared,      \* the Set-Cookie that removes the session
  MaxChanges    \* bound: changes that end sessions

VARIABLES
  registered, disabled, version,   \* the table users
  home,         \* the browser of each tab
  cookie,       \* session cookie of each browser
  tab,          \* AuthStatus of each tab, and the user it shows
  call,         \* the call each tab waits for, with its answer under way
  inbox         \* events under way to each tab, by the way they travel

rowVars == <<registered, disabled, version>>
vars == <<rowVars, home, cookie, tab, call, inbox>>

Nobody == Nothing
Session(u) == [user |-> u, tv |-> version[u]]

\* requireAuth, on a cookie that has not expired.
Accepted(t) ==
  t # Nothing /\ t.user \in registered \ disabled /\ t.tv = version[t.user]

Status(s)   == [status |-> s, me |-> Nobody]
SignedIn(u) == [status |-> "authenticated", me |-> u]

Call(op, id, code, token) == [op |-> op, id |-> id, code |-> code, token |-> token]
Idle  == Call("none", Nobody, "none", Nothing)
\* AuthProvider is mounted, or refresh() is called: /auth/state is to be read.
Mount == Call("refresh", Nobody, "none", Nothing)

Init ==
  /\ registered = {} /\ disabled = {}
  /\ version = [u \in Users |-> 0]
  /\ home \in [Tabs -> Browsers]
  /\ cookie = [b \in Browsers |-> Nothing]
  /\ tab = [c \in Tabs |-> Status("loading")]
  /\ call = [c \in Tabs |-> Mount]
  /\ inbox = [c \in Tabs |-> {}]

Mine(c) == cookie[home[c]]
Shows(c, s) == call[c] = Idle /\ tab[c].status = s
\* The three guards of the router: each status has its pages and is sent there.
OnSetupPage(c) == Shows(c, "needs_setup")
OnLoginPage(c) == Shows(c, "needs_login")
InConsole(c)   == Shows(c, "authenticated")

Others(c) == {d \in Tabs \ {c} : home[d] = home[c]}

\* The tab sends a call; its answer, with the Set-Cookie, is on the way.
Sends(c, op, id, code, token) ==
  /\ call' = [call EXCEPT ![c] = Call(op, id, code, token)]
  /\ UNCHANGED <<home, cookie, tab, inbox>>

-----------------------------------------------------------------------------
(* Calls *)

Refresh(c) ==
  /\ call[c] = Mount
  /\ Sends(c, "state", IF Accepted(Mine(c)) THEN Mine(c).user ELSE Nobody,
           IF registered = {} THEN "needs_setup"
           ELSE IF Accepted(Mine(c)) THEN "authenticated" ELSE "needs_login",
           Nothing)
  /\ UNCHANGED rowVars

SetupSubmit(c, u) ==
  /\ OnSetupPage(c)
  /\ \/ /\ registered # {}
        /\ Sends(c, "setup", Nobody, "failed", Nothing)
        /\ UNCHANGED registered
     \/ /\ registered = {}
        /\ registered' = {u}
        /\ Sends(c, "setup", Nobody, "created", Session(u))
  /\ UNCHANGED <<disabled, version>>

\* The password is right or not.
LoginSubmit(c, u) ==
  /\ OnLoginPage(c)
  /\ \/ Sends(c, "login", Nobody, "failed", Nothing)
     \/ u \in registered \ disabled /\ Sends(c, "login", u, "ok", Session(u))
  /\ UNCHANGED rowVars

\* A call that requireAuth refuses; a stale session is cleared. "other" are the
\* calls whose answer changes nothing but what the page lists, and any refused.
Refused(c, op) ==
  /\ InConsole(c) /\ ~Accepted(Mine(c))
  /\ Sends(c, op, Nobody, "unauthenticated", IF Mine(c) = Nothing THEN Nothing ELSE Cleared)
  /\ UNCHANGED rowVars

\* A call that it lets through.
Served(c, op, id, token) ==
  /\ InConsole(c) /\ Accepted(Mine(c))
  /\ Sends(c, op, id, "ok", token)

LogoutSubmit(c) ==
  \/ Refused(c, "logout")
  \/ Served(c, "logout", Nobody, Cleared) /\ UNCHANGED rowVars

\* The queries that the pages repeat.
Poll(c) ==
  \/ Refused(c, "other")
  \/ Served(c, "other", Nobody, Nothing) /\ UNCHANGED rowVars

CreateSubmit(c, u) ==
  \/ Refused(c, "other")
  \/ /\ u \notin registered
     /\ Served(c, "other", Nobody, Nothing)
     /\ registered' = registered \cup {u}
     /\ UNCHANGED <<disabled, version>>

Bump(u) ==
  /\ FoldFunction(+, 0, version) < MaxChanges
  /\ version' = [version EXCEPT ![u] = @ + 1]

\* The dialog has a field for the current password if u is the user that the tab shows.
AsksCurrent(c, u) == u = tab[c].me

\* The dialog on the row of u. If u is the session's own, the server asks for the current
\* password, and it stays signed in with a new session.
PasswordSubmit(c, u) ==
  \/ Refused(c, "other")
  \/ /\ u \in registered
     /\ Served(c, "password", u,
               IF u = Mine(c).user THEN [user |-> u, tv |-> version[u] + 1] ELSE Nothing)
     /\ u = Mine(c).user => AsksCurrent(c, u)
     /\ Bump(u)
     /\ UNCHANGED <<registered, disabled>>

\* The button is dead on the row of the user that the tab shows.
OffersDisable(c, u) == u # tab[c].me

\* The server has no way to disable the user of the session.
DisableSubmit(c, u) ==
  /\ OffersDisable(c, u)
  /\ \/ Refused(c, "other")
     \/ /\ u \in registered \ disabled
        /\ Served(c, "disable", u, Nothing) /\ u # Mine(c).user
        /\ disabled' = disabled \cup {u}
        /\ Bump(u)
        /\ UNCHANGED registered

EnableSubmit(c, u) ==
  \/ Refused(c, "other")
  \/ /\ u \in disabled
     /\ Served(c, "other", Nobody, Nothing)
     /\ disabled' = disabled \ {u}
     /\ UNCHANGED <<registered, version>>

-----------------------------------------------------------------------------
(* Answers and events *)

\* The handler of subscribeAuthEvents.
Event(c, e) ==
  IF e.type = "logout" \/ (tab[c].status = "authenticated" /\ e.user = tab[c].me)
  THEN Status("needs_login") ELSE tab[c]

Copies(type, u) == {[via |-> v, type |-> type, user |-> u] : v \in {"channel", "storage"}}

\* broadcastAuthEvent: over the channel and through localStorage, both. The
\* copies of one event arrive before the next one is sent.
Broadcast(c, type, u) ==
  /\ \A d \in Others(c) : inbox[d] = {}
  /\ inbox' = [d \in Tabs |-> IF d \in Others(c) THEN Copies(type, u) ELSE inbox[d]]

SetCookie(c) ==
  cookie' = [cookie EXCEPT ![home[c]] =
    CASE call[c].token = Nothing -> @
      [] call[c].token = Cleared -> Nothing
      [] OTHER -> call[c].token]

\* What a tab makes of its answer: AuthProvider and the mutations' onSuccess.
Done(c) ==
  LET op == call[c].op
      code == call[c].code
  IN  /\ tab' = [tab EXCEPT ![c] =
           CASE code = "authenticated" \/ (op = "login" /\ code = "ok") -> SignedIn(call[c].id)
             [] op = "state" /\ code # "authenticated" -> Status(code)
             [] op = "logout" /\ code = "ok" -> Status("needs_login")
             [] OTHER -> @]
      /\ call' = [call EXCEPT ![c] = IF op = "setup" /\ code = "created" THEN Mount ELSE Idle]
      /\ CASE code = "ok" /\ op = "logout"   -> Broadcast(c, "logout", Nobody)
           [] code = "ok" /\ op = "password" -> Broadcast(c, "password-changed", call[c].id)
           [] code = "ok" /\ op = "disable"  -> Broadcast(c, "user-disabled", call[c].id)
           [] OTHER -> UNCHANGED inbox

Load(c) ==
  /\ tab' = [tab EXCEPT ![c] = Status("loading")]
  /\ call' = [call EXCEPT ![c] = Mount]
  /\ inbox' = [inbox EXCEPT ![c] = {}]

\* Mutant of Expelled: the interceptor only rejects.
ExpelledNever(c) == FALSE

\* The interceptor of lib/api: a 401 of any call outside /auth/ loads /login.
Expelled(c) == call[c].code = "unauthenticated" /\ call[c].op # "logout"

Waiting(c) == call[c] \notin {Idle, Mount}

Take(c) ==
  /\ Waiting(c)
  /\ SetCookie(c)
  /\ IF Expelled(c) THEN Load(c) ELSE Done(c)
  /\ UNCHANGED <<rowVars, home>>

\* No answer within 30 s, no network, or a server restarted: a tab that cannot
\* read its state shows the login page, any other call only fails.
Lost(c) ==
  /\ Waiting(c)
  /\ tab' = [tab EXCEPT ![c] = IF call[c].op = "state" THEN Status("needs_login") ELSE @]
  /\ call' = [call EXCEPT ![c] = Idle]
  /\ UNCHANGED <<rowVars, home, cookie, inbox>>

Receive(c, e) ==
  /\ e \in inbox[c]
  /\ inbox' = [inbox EXCEPT ![c] = @ \ {e}]
  /\ tab' = [tab EXCEPT ![c] = Event(c, e)]
  /\ UNCHANGED <<rowVars, home, cookie, call>>

\* An hour after the login both the token and its cookie are gone.
Expire(b) ==
  /\ cookie[b] # Nothing
  /\ cookie' = [cookie EXCEPT ![b] = Nothing]
  /\ UNCHANGED <<rowVars, home, tab, call, inbox>>

\* The reload of an idle page.
Reload(c) == call[c] = Idle /\ Load(c) /\ UNCHANGED <<rowVars, home, cookie>>

-----------------------------------------------------------------------------
Next ==
  \/ \E c \in Tabs :
       \/ Refresh(c) \/ LogoutSubmit(c) \/ Poll(c) \/ Take(c) \/ Lost(c) \/ Reload(c)
       \/ \E u \in Users :
            \/ SetupSubmit(c, u) \/ LoginSubmit(c, u) \/ CreateSubmit(c, u)
            \/ PasswordSubmit(c, u) \/ DisableSubmit(c, u) \/ EnableSubmit(c, u)
       \/ \E e \in inbox[c] : Receive(c, e)
  \/ \E b \in Browsers : Expire(b)

\* The page in LeftOpen asks again and again, whatever the users do, and some of
\* its answers arrive; a browser hands its tabs their events.
Fairness ==
  /\ WF_vars(Refresh(LeftOpen))
  /\ SF_vars(Poll(LeftOpen))
  /\ SF_vars(Take(LeftOpen) /\ call[LeftOpen].op = "other")
  /\ WF_vars(Take(LeftOpen) \/ Lost(LeftOpen))
  /\ WF_vars(\E c \in Tabs : \E e \in inbox[c] : Receive(c, e))

Spec == Init /\ [][Next]_vars /\ Fairness

Stale(c) == tab[c].status = "authenticated" /\ ~Accepted(Mine(c))

\* A page left open on a session that has ended does not go on showing the
\* console: a tab that polls finds out, however the tabs of the browser log in
\* and out, events come late or twice, or answers are lost.
StaleTabLeaves == Stale(LeftOpen) ~> ~Stale(LeftOpen)

=============================================================================
