------------------------------ MODULE Accounts -------------------------------
(***************************************************************************)
(* The administrators' accounts and sessions of admin-server: routes/auth.ts, *)
(* routes/users.ts, auth/require-auth.ts, auth/jwt.ts and db/user-repo.ts.  *)
(* One action is one stretch of a handler between two awaits: hashing and    *)
(* verifying a password (argon2) are the only ones, and the rows are read    *)
(* before them and written after them.                                      *)
(***************************************************************************)
EXTENDS Integers, Sequences

CONSTANTS
  Clients,      \* connections, each with one request at a time
  Names,        \* normalised user names
  Passwords,    \* a hash stands for the password it verifies
  Nothing,      \* no token, no password, no job, no answer
  Cleared       \* the Set-Cookie that removes the session

ASSUME AccountsAssumption == Nothing \notin Passwords

VARIABLES
  users,        \* table users; the position of a row is its id
  signed,       \* session tokens that verify: signed and not yet expired
  ended,        \* those that a change of password or a disable put an end to
  at,           \* stage of each request
  job,          \* what a request waiting for argon2 goes on with
  reply         \* the answer under way

accountVars == <<users, signed, ended, at, job, reply>>

User  == [name : Names, pw : Passwords, disabled : BOOLEAN, tv : Nat]
\* pw is not in the token: it is the password its holder proved or set.
Token == [sub : Nat, tv : Nat, pw : Passwords]
Ids   == 1..Len(users)
Nobody == 0

Named(n) == {i \in Ids : users[i].name = n}

NewUser(n, p) == [name |-> n, pw |-> p, disabled |-> FALSE, tv |-> 0]

SignFor(i, v, p) == [sub |-> i, tv |-> v, pw |-> p]

Init ==
  /\ users = <<>>
  /\ signed = {}
  /\ ended = {}
  /\ at = [c \in Clients |-> "idle"]
  /\ job = [c \in Clients |-> Nothing]
  /\ reply = [c \in Clients |-> Nothing]

-----------------------------------------------------------------------------
(* Sessions *)

\* Mutant of Accepted: the signature alone, as before issues 330 and 331.
AcceptedUnread(t) == t \in signed

\* requireAuth: the signature, then the row.
Accepted(t) ==
  /\ t \in signed
  /\ t.sub \in Ids
  /\ ~users[t.sub].disabled
  /\ users[t.sub].tv = t.tv

Answer(c, code, who, token) ==
  /\ at' = [at EXCEPT ![c] = "replied"]
  /\ job' = [job EXCEPT ![c] = Nothing]
  /\ reply' = [reply EXCEPT ![c] = [code |-> code, who |-> who, token |-> token]]

\* The answers that leave the cookie alone, and the one that clears it.
Say(c, code) == Answer(c, code, Nobody, Nothing)

Hold(c, s, j) ==
  /\ at' = [at EXCEPT ![c] = s]
  /\ job' = [job EXCEPT ![c] = j]
  /\ UNCHANGED reply

Free(c) == at[c] = "idle"

\* 401; the cookie is cleared if the token was genuine.
Refuse(c, t) ==
  /\ Free(c) /\ ~Accepted(t)
  /\ Answer(c, "unauthenticated", Nobody, IF t \in signed THEN Cleared ELSE Nothing)
  /\ UNCHANGED <<users, signed, ended>>

\* An hour after it was signed a token stops verifying.
Expire(t) ==
  /\ t \in signed
  /\ signed' = signed \ {t}
  /\ ended' = ended \ {t}
  /\ UNCHANGED <<users, at, job, reply>>

-----------------------------------------------------------------------------
(* /api/auth *)

\* GET /state, which requireAuth leaves alone.
State(c, t) ==
  /\ Free(c)
  /\ IF users = <<>> THEN Say(c, "needs_setup")
     ELSE IF Accepted(t) THEN Answer(c, "authenticated", t.sub, Nothing)
     ELSE Say(c, "needs_login")
  /\ UNCHANGED <<users, signed, ended>>

Setup(c, n, p) ==
  /\ Free(c)
  /\ IF users # <<>> THEN Say(c, "conflict")
     ELSE Hold(c, "setup", [name |-> n, pw |-> p])
  /\ UNCHANGED <<users, signed, ended>>

\* The table is not counted again: two set-ups may both get here, and fail only
\* on a common name.
SetupStore(c) ==
  /\ at[c] = "setup"
  /\ LET n == job[c].name
         p == job[c].pw
         i == Len(users) + 1
     IN  \/ /\ Named(n) # {}
            /\ Say(c, "error")
            /\ UNCHANGED <<users, signed>>
         \/ /\ Named(n) = {}
            /\ users' = Append(users, NewUser(n, p))
            /\ signed' = signed \cup {SignFor(i, 0, p)}
            /\ Answer(c, "created", i, SignFor(i, 0, p))
  /\ UNCHANGED ended

\* POST /login; an unknown or disabled account costs a dummy hash.
Login(c, n, p) ==
  /\ Free(c)
  /\ \/ /\ \A i \in Named(n) : users[i].disabled
        /\ Hold(c, "dummy", Nothing)
     \/ \E i \in Named(n) :
          /\ ~users[i].disabled
          /\ Hold(c, "login", [id |-> i, pw |-> p, hash |-> users[i].pw, tv |-> users[i].tv])
  /\ UNCHANGED <<users, signed, ended>>

LoginDummy(c) ==
  /\ at[c] = "dummy"
  /\ Say(c, "invalid_credentials")
  /\ UNCHANGED <<users, signed, ended>>

\* Mutant of LoginVerified: signs with the version the row has by now.
LoginVerifiedFresh(c) ==
  /\ at[c] = "login"
  /\ LET j == job[c]
         t == SignFor(j.id, users[j.id].tv, j.pw)
     IN  \/ /\ j.pw # j.hash
            /\ Say(c, "invalid_credentials")
            /\ UNCHANGED signed
         \/ /\ j.pw = j.hash
            /\ signed' = signed \cup {t}
            /\ Answer(c, "ok", j.id, t)
  /\ UNCHANGED <<users, ended>>

\* The row read before the verification is the one that is signed for.
LoginVerified(c) ==
  /\ at[c] = "login"
  /\ LET j == job[c]
         t == SignFor(j.id, j.tv, j.pw)
     IN  \/ /\ j.pw # j.hash
            /\ Say(c, "invalid_credentials")
            /\ UNCHANGED signed
         \/ /\ j.pw = j.hash
            /\ signed' = signed \cup {t}
            /\ Answer(c, "ok", j.id, t)
  /\ UNCHANGED <<users, ended>>

Logout(c, t) ==
  /\ Free(c) /\ Accepted(t)
  /\ Answer(c, "ok", Nobody, Cleared)
  /\ UNCHANGED <<users, signed, ended>>

-----------------------------------------------------------------------------
(* /api/users *)

\* GET /users and every other request that only reads.
List(c, t) ==
  /\ Free(c) /\ Accepted(t)
  /\ Say(c, "ok")
  /\ UNCHANGED <<users, signed, ended>>

Create(c, t, n, p) ==
  /\ Free(c) /\ Accepted(t)
  /\ IF Named(n) # {} THEN Say(c, "conflict")
     ELSE Hold(c, "create", [name |-> n, pw |-> p])
  /\ UNCHANGED <<users, signed, ended>>

\* A name taken since is a violation of UNIQUE, mapped to the same answer.
CreateStore(c) ==
  /\ at[c] = "create"
  /\ LET n == job[c].name IN
     \/ /\ Named(n) # {}
        /\ Say(c, "conflict")
        /\ UNCHANGED users
     \/ /\ Named(n) = {}
        /\ users' = Append(users, NewUser(n, job[c].pw))
        /\ Say(c, "created")
  /\ UNCHANGED <<signed, ended>>

\* PUT /users/:id/password: one's own needs the current one (old), which is
\* compared with the hash read here.
Password(c, t, i, p, old) ==
  /\ Free(c) /\ Accepted(t)
  /\ \/ /\ i \notin Ids
        /\ Say(c, "not_found")
     \/ /\ i \in Ids /\ i = t.sub /\ old = Nothing
        /\ Say(c, "current_password_required")
     \/ /\ i \in Ids /\ i = t.sub /\ old # Nothing
        /\ Hold(c, "verify", [id |-> i, pw |-> p, old |-> old, hash |-> users[i].pw])
     \/ /\ i \in Ids /\ i # t.sub
        /\ Hold(c, "reset", [id |-> i, pw |-> p])
  /\ UNCHANGED <<users, signed, ended>>

PasswordVerified(c) ==
  /\ at[c] = "verify"
  /\ LET j == job[c] IN
     IF j.old # j.hash THEN Say(c, "invalid_current_password")
     ELSE Hold(c, "own", [id |-> j.id, pw |-> j.pw])
  /\ UNCHANGED <<users, signed, ended>>

\* Mutant of WithDisabled: without bumpTokenVersion.
WithDisabledOnly(u, d) ==
  [name |-> u.name, pw |-> u.pw, disabled |-> d, tv |-> u.tv]

\* What updatePassword, disable and enable make of a row; bumpTokenVersion goes
\* with the first two.
WithPassword(u, p) ==
  [name |-> u.name, pw |-> p, disabled |-> u.disabled, tv |-> u.tv + 1]

WithDisabled(u, d) ==
  [name |-> u.name, pw |-> u.pw, disabled |-> d, tv |-> IF d THEN u.tv + 1 ELSE u.tv]

EndSessions(i) == ended' = ended \cup {t \in signed : t.sub = i}

\* The new password is written; a change of one's own comes with a new session.
PasswordStore(c) ==
  /\ at[c] \in {"own", "reset"}
  /\ LET i == job[c].id
         p == job[c].pw
         t == SignFor(i, users[i].tv + 1, p)
     IN  /\ users' = [users EXCEPT ![i] = WithPassword(users[i], p)]
         /\ EndSessions(i)
         /\ \/ /\ at[c] = "own"
               /\ signed' = signed \cup {t}
               /\ Answer(c, "ok", Nobody, t)
            \/ /\ at[c] = "reset"
               /\ Say(c, "ok")
               /\ UNCHANGED signed

\* PUT /users/:id/enable.
Enable(c, t, i) ==
  /\ Free(c) /\ Accepted(t)
  /\ IF i \notin Ids THEN Say(c, "not_found") ELSE Say(c, "ok")
  /\ users' = IF i \in Ids /\ users[i].disabled
                THEN [users EXCEPT ![i] = WithDisabled(users[i], FALSE)] ELSE users
  /\ UNCHANGED <<signed, ended>>

\* DELETE /users/:id, with no await at all: never of oneself, and only once.
Disable(c, t, i) ==
  /\ Free(c) /\ Accepted(t)
  /\ \/ /\ i \in Ids \ {t.sub} /\ ~users[i].disabled
        /\ users' = [users EXCEPT ![i] = WithDisabled(users[i], TRUE)]
        /\ EndSessions(i)
        /\ Say(c, "ok")
     \/ /\ i = t.sub
        /\ Say(c, "cannot_disable_self")
        /\ UNCHANGED <<users, ended>>
     \/ /\ i # t.sub /\ (i \in Ids => users[i].disabled)
        /\ Say(c, IF i \in Ids THEN "ok" ELSE "not_found")
        /\ UNCHANGED <<users, ended>>
  /\ UNCHANGED signed

-----------------------------------------------------------------------------
\* The requests of a client that presents t, and the ends of those that waited.
Arrive(c, t) ==
  \/ Refuse(c, t) \/ State(c, t) \/ Logout(c, t) \/ List(c, t)
  \/ \E n \in Names, p \in Passwords : Setup(c, n, p) \/ Login(c, n, p) \/ Create(c, t, n, p)
  \/ \E i \in Ids \cup {Nobody}, p \in Passwords, old \in Passwords \cup {Nothing} :
       Password(c, t, i, p, old)
  \/ \E i \in Ids \cup {Nobody} : Enable(c, t, i) \/ Disable(c, t, i)

Resume(c) ==
  SetupStore(c) \/ LoginDummy(c) \/ LoginVerified(c) \/ CreateStore(c)
  \/ PasswordVerified(c) \/ PasswordStore(c)

\* The answer arrives, or nobody is there to take it.
Deliver(c) ==
  /\ at[c] = "replied"
  /\ at' = [at EXCEPT ![c] = "idle"]
  /\ reply' = [reply EXCEPT ![c] = Nothing]
  /\ UNCHANGED <<users, signed, ended, job>>

\* A restart drops the requests and keeps the rows; tokens verify as before.
Restart ==
  /\ at' = [c \in Clients |-> "idle"]
  /\ job' = [c \in Clients |-> Nothing]
  /\ reply' = [c \in Clients |-> Nothing]
  /\ UNCHANGED <<users, signed, ended>>

Next ==
  \/ \E c \in Clients : Resume(c) \/ Deliver(c) \/ \E t \in signed \cup {Nothing} : Arrive(c, t)
  \/ \E t \in signed : Expire(t)
  \/ Restart

Spec == Init /\ [][Next]_accountVars

-----------------------------------------------------------------------------
(* Properties *)

Credentials == [name : Names, pw : Passwords]
Attempt == [id : Ids, pw : Passwords, hash : Passwords, tv : Nat]
Proof   == [id : Ids, pw : Passwords, old : Passwords, hash : Passwords]
Change  == [id : Ids, pw : Passwords]

\* Rows, tokens and pending requests are of the kinds the handlers make: a token
\* or a request that waits for argon2 names a row of the table, which has no
\* DELETE.
TypeOK ==
  /\ users \in Seq(User)
  /\ signed \subseteq Token /\ ended \subseteq signed
  /\ \A t \in signed : t.sub \in Ids
  /\ at \in [Clients -> {"idle", "setup", "dummy", "login", "create", "verify",
                        "own", "reset", "replied"}]
  /\ job \in [Clients -> {Nothing} \cup Credentials \cup Attempt \cup Proof \cup Change]
  /\ \A c \in Clients :
       /\ at[c] \in {"setup", "create"} => job[c] \in Credentials
       /\ at[c] = "login" => job[c] \in Attempt
       /\ at[c] = "verify" => job[c] \in Proof
       /\ at[c] \in {"own", "reset"} => job[c] \in Change

\* Somebody can always administer the system once anybody could: administrators
\* may disable one another at the same time, on stale pages, or while their own
\* sessions are being ended, and the last one is never locked out.
SomeoneEnabled == users # <<>> => \E i \in Ids : ~users[i].disabled

\* Whoever is let in proved the password the account has now, or set it: the
\* version in a token never outlives the password, although logins read the row
\* before argon2 runs and sign after it, while others change it.
SessionsKnowPassword ==
  \A t \in signed : Accepted(t) => t.pw = users[t.sub].pw

\* A session that was ended stays ended: no login, change of password or
\* re-enabling brings it back.
SessionsEnd == \A t \in ended : ~Accepted(t)

=============================================================================
