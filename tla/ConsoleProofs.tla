----------------------------- MODULE ConsoleProofs ----------------------------
(***************************************************************************)
(* What the console keeps: Accounts for any number of clients, users,         *)
(* passwords and changes, the forms of a domain's settings, the list of       *)
(* domains for any hosts and filters, the log viewer for any services, length *)
(* of history and ring, the dialogs of a domain, its tables for any requests, *)
(* and the addresses of the pages for any links.                              *)
(***************************************************************************)
EXTENDS Accounts, DomainList, UnsavedForms, LogStream, PurgeDialogs, DetailTables,
        PageAddress, TLAPS, SequenceTheorems, FiniteSetTheorems

-----------------------------------------------------------------------------
(* Accounts *)

Stages == {"idle", "setup", "dummy", "login", "create", "verify", "own", "reset", "replied"}
Waits  == {"setup", "dummy", "login", "create", "verify", "own", "reset"}

\* No token is ahead of its row; at the row's version it knows the row's
\* password, and one that was ended is behind it.
TokensFit ==
  /\ signed \subseteq Token /\ ended \subseteq signed
  /\ \A t \in signed :
       /\ t.sub \in Ids
       /\ t.tv <= users[t.sub].tv
       /\ t.tv = users[t.sub].tv => t.pw = users[t.sub].pw /\ t \notin ended

\* What a request that waits goes on with: a login has read a row that is at its
\* version still, with the same hash, or has moved on.
JobFits(s, j) ==
  /\ s \in {"setup", "create"} => j \in Credentials
  /\ s = "login" =>
       /\ j \in Attempt
       /\ j.tv <= users[j.id].tv
       /\ j.tv = users[j.id].tv => j.hash = users[j.id].pw
  /\ s = "verify" => j \in Proof
  /\ s \in {"own", "reset"} => j \in Change
  /\ j \in {Nothing} \cup Credentials \cup Attempt \cup Proof \cup Change

ClientsFit ==
  /\ at \in [Clients -> Stages]
  /\ DOMAIN job = Clients /\ job = [c \in Clients |-> job[c]]
  /\ \A c \in Clients : JobFits(at[c], job[c])

AccountsInv == users \in Seq(User) /\ TokensFit /\ ClientsFit /\ SomeoneEnabled

\* Rows stay, and a password changes with its version only.
RowsAdvance ==
  /\ users' \in Seq(User)
  /\ Ids \subseteq Ids'
  /\ \A i \in Ids :
       /\ users[i].tv <= users'[i].tv
       /\ users'[i].tv = users[i].tv => users'[i].pw = users[i].pw

-----------------------------------------------------------------------------
(* What becomes of a row *)

\* A new row leaves the others where they are.
LEMMA AppendedRow ==
  ASSUME users \in Seq(User), NEW u \in User, users' = Append(users, u)
  PROVE  /\ users' \in Seq(User)
         /\ Ids \subseteq Ids' /\ Len(users) + 1 \in Ids'
         /\ \A i \in Ids : users'[i] = users[i]
         /\ users'[Len(users) + 1] = u
BY DEF Ids

\* A row is replaced in place.
LEMMA ChangedRow ==
  ASSUME users \in Seq(User), NEW i \in Ids, NEW u \in User,
         users' = [users EXCEPT ![i] = u]
  PROVE  /\ users' \in Seq(User)
         /\ Ids' = Ids
         /\ \A j \in Ids : users'[j] = IF j = i THEN u ELSE users[j]
BY DEF Ids

LEMMA RowType ==
  ASSUME users \in Seq(User), NEW i \in Ids
  PROVE  /\ users[i] \in User
         /\ users[i].name \in Names /\ users[i].pw \in Passwords
         /\ users[i].disabled \in BOOLEAN /\ users[i].tv \in Nat
<1>1. users[i] \in User
  BY DEF Ids
<1> QED BY <1>1 DEF User

\* The rows that enable, disable and updatePassword write.
LEMMA WrittenRow ==
  ASSUME NEW u \in User
  PROVE  /\ \A p \in Passwords :
              /\ WithPassword(u, p) \in User
              /\ WithPassword(u, p).tv = u.tv + 1
              /\ WithPassword(u, p).pw = p
              /\ WithPassword(u, p).disabled = u.disabled
         /\ \A d \in BOOLEAN :
              /\ WithDisabled(u, d) \in User
              /\ WithDisabled(u, d).tv = IF d THEN u.tv + 1 ELSE u.tv
              /\ WithDisabled(u, d).pw = u.pw
              /\ WithDisabled(u, d).disabled = d
BY DEF User, WithPassword, WithDisabled

-----------------------------------------------------------------------------
(* Clients *)

LEMMA JobFitsOn ==
  ASSUME users \in Seq(User), RowsAdvance, NEW CONSTANT s, NEW CONSTANT j, JobFits(s, j)
  PROVE  JobFits(s, j)'
<1>1. \A i \in Ids : users[i].tv \in Nat /\ users'[i].tv \in Nat /\ i \in Ids'
  <2> SUFFICES ASSUME NEW i \in Ids
               PROVE  users[i].tv \in Nat /\ users'[i].tv \in Nat /\ i \in Ids'
    OBVIOUS
  <2>1. users[i].tv \in Nat
    BY RowType
  <2>2. i \in Ids' /\ users'[i] \in User
    BY DEF RowsAdvance, Ids
  <2> QED BY <2>1, <2>2 DEF User
<1>2. CASE s = "login"
  <2>1. j \in Attempt /\ j.id \in Ids /\ j.tv \in Nat
    BY <1>2 DEF JobFits, Attempt
  <2>2. j \in Attempt'
    BY <2>1 DEF Attempt, RowsAdvance
  <2>3. /\ j.tv <= users'[j.id].tv
        /\ j.tv = users'[j.id].tv => j.hash = users'[j.id].pw
    BY <1>1, <1>2, <2>1 DEF JobFits, RowsAdvance
  <2> QED BY <1>2, <2>2, <2>3 DEF JobFits
<1>3. CASE s # "login"
  BY <1>3 DEF JobFits, Attempt, Proof, Change, Credentials, RowsAdvance
<1> QED BY <1>2, <1>3

\* One client moves on, with a job that fits, and the others wait on.
LEMMA ClientMoves ==
  ASSUME users \in Seq(User), ClientsFit, RowsAdvance, NEW c \in Clients,
         NEW s \in Stages, NEW j,
         at' = [at EXCEPT ![c] = s], job' = [job EXCEPT ![c] = j],
         JobFits(at[c], job[c])'
  PROVE  ClientsFit'
<1>1. at' \in [Clients -> Stages] /\ DOMAIN job' = Clients
      /\ job' = [d \in Clients |-> job'[d]]
  BY DEF ClientsFit
<1>2. ASSUME NEW d \in Clients \ {c} PROVE JobFits(at[d], job[d])'
  <2>1. at'[d] = at[d] /\ job'[d] = job[d] /\ JobFits(at[d], job[d])
    BY <1>2 DEF ClientsFit
  <2> DEFINE sd == at[d]
             jd == job[d]
  <2>2. \A x, y : JobFits(x, y) => JobFits(x, y)'
    BY JobFitsOn
  <2> QED BY <2>1, <2>2, ZenonT(60) DEF JobFits
<1> QED BY <1>1, <1>2 DEF ClientsFit

\* A client is answered.
LEMMA ClientAnswered ==
  ASSUME users \in Seq(User), ClientsFit, RowsAdvance, NEW c \in Clients,
         NEW code, NEW who, NEW token, Answer(c, code, who, token)
  PROVE  ClientsFit'
<1>1. at'[c] = "replied" /\ job'[c] = Nothing
  BY DEF Answer, ClientsFit
<1>2. JobFits(at[c], job[c])'
  BY <1>1 DEF JobFits
<1> QED BY <1>2, ClientMoves DEF Answer, Stages

\* A client waits for argon2.
LEMMA ClientHeld ==
  ASSUME users \in Seq(User), ClientsFit, UNCHANGED users, NEW c \in Clients,
         NEW s \in Waits, NEW j, JobFits(s, j), Hold(c, s, j)
  PROVE  ClientsFit'
<1>1. at'[c] = s /\ job'[c] = j
  BY DEF Hold, ClientsFit
<1>2. RowsAdvance
  <2>1. \A i \in Ids : users[i].tv \in Nat
    BY RowType
  <2> QED BY <2>1 DEF RowsAdvance, Ids
<1>3. JobFits(at[c], job[c])'
  <2>1. JobFits(s, j)'
    BY JobFitsOn, <1>2
  <2> QED BY <2>1, <1>1 DEF JobFits
<1> QED BY <1>2, <1>3, ClientMoves DEF Hold, Stages, Waits

-----------------------------------------------------------------------------
(* Rows and tokens *)

\* Rows and tokens as they were.
Quiet == UNCHANGED <<users, signed, ended>>

LEMMA QuietRows ==
  ASSUME users \in Seq(User), UNCHANGED users
  PROVE  RowsAdvance
<1>1. \A i \in Ids : users[i].tv \in Nat
  BY RowType
<1> QED BY <1>1 DEF RowsAdvance, Ids

LEMMA QuietStep ==
  ASSUME AccountsInv, Quiet, ClientsFit'
  PROVE  AccountsInv'
BY DEF AccountsInv, Quiet, TokensFit, SomeoneEnabled, Ids

\* A row is appended.
LEMMA AppendStep ==
  ASSUME AccountsInv, NEW n \in Names, NEW p \in Passwords,
         users' = Append(users, NewUser(n, p)), UNCHANGED ended,
         \/ UNCHANGED signed
         \/ signed' = signed \cup {SignFor(Len(users) + 1, 0, p)}
  PROVE  RowsAdvance /\ TokensFit' /\ SomeoneEnabled' /\ users' \in Seq(User)
<1> DEFINE u == NewUser(n, p)
           k == Len(users) + 1
<1>1. /\ u \in User /\ u.tv = 0 /\ u.pw = p /\ u.disabled = FALSE
  BY DEF NewUser, User
<1>2. /\ users' \in Seq(User)
      /\ Ids \subseteq Ids' /\ k \in Ids' /\ k \notin Ids
      /\ \A i \in Ids : users'[i] = users[i]
      /\ users'[k] = u
  <2>1. users' = Append(users, u) /\ users \in Seq(User)
    BY DEF AccountsInv
  <2> HIDE DEF u
  <2> QED BY <1>1, <2>1, AppendedRow DEF Ids
<1>3. RowsAdvance
  <2>1. \A i \in Ids : users[i].tv \in Nat
    BY RowType DEF AccountsInv
  <2>2. ASSUME NEW i \in Ids
        PROVE  users[i].tv <= users'[i].tv /\ users'[i].pw = users[i].pw
    <3>1. users'[i].tv = users[i].tv /\ users'[i].pw = users[i].pw
      BY <1>2
    <3>2. users[i].tv <= users[i].tv
      BY <2>1
    <3> QED BY <3>1, <3>2
  <2> QED BY <1>2, <2>2 DEF RowsAdvance
<1>4. TokensFit'
  <2>1. \A t \in signed : t.sub \in Ids
    BY DEF AccountsInv, TokensFit
  <2>2. SignFor(k, 0, p) \in Token /\ SignFor(k, 0, p).sub = k
        /\ SignFor(k, 0, p).tv = 0 /\ SignFor(k, 0, p).pw = p
    <3>1. k \in Nat
      BY DEF AccountsInv
    <3> QED BY <3>1 DEF SignFor, Token
  <2>3. SignFor(k, 0, p) \notin ended
    BY <1>2, <2>1, <2>2 DEF AccountsInv, TokensFit
  <2>4. signed' \subseteq Token /\ ended' \subseteq signed'
    BY <2>2 DEF AccountsInv, TokensFit
  <2>5. ASSUME NEW t \in signed'
        PROVE  /\ t.sub \in Ids'
               /\ t.tv <= users'[t.sub].tv
               /\ t.tv = users'[t.sub].tv => (t.pw = users'[t.sub].pw /\ t \notin ended')
    <3>1. CASE t \in signed
      BY <3>1, <1>2 DEF AccountsInv, TokensFit
    <3>2. CASE t = SignFor(k, 0, p)
      BY <3>2, <1>1, <1>2, <2>2, <2>3
    <3> QED BY <3>1, <3>2
  <2> QED BY <2>4, <2>5 DEF TokensFit
<1>5. SomeoneEnabled'
  BY <1>1, <1>2 DEF SomeoneEnabled
<1> QED BY <1>2, <1>3, <1>4, <1>5

\* The row of i is rewritten at a higher version, and its sessions end.
LEMMA BumpStep ==
  ASSUME AccountsInv, NEW i \in Ids, NEW u \in User, u.tv = users[i].tv + 1,
         users' = [users EXCEPT ![i] = u], EndSessions(i),
         \/ UNCHANGED signed
         \/ signed' = signed \cup {SignFor(i, users[i].tv + 1, u.pw)}
  PROVE  RowsAdvance /\ TokensFit' /\ users' \in Seq(User)
<1> DEFINE new == SignFor(i, users[i].tv + 1, u.pw)
<1>1. \A j \in Ids : users[j].tv \in Nat
  BY RowType DEF AccountsInv
<1>2. /\ users' \in Seq(User) /\ Ids' = Ids
      /\ \A j \in Ids : users'[j] = IF j = i THEN u ELSE users[j]
  BY ChangedRow DEF AccountsInv
<1>3. RowsAdvance
  <2>1. ASSUME NEW j \in Ids
        PROVE  /\ users[j].tv <= users'[j].tv
               /\ users'[j].tv = users[j].tv => users'[j].pw = users[j].pw
    BY <1>1, <1>2
  <2> QED BY <1>2, <2>1 DEF RowsAdvance
<1>4. TokensFit'
  <2>1. \A t \in signed :
          /\ t.sub \in Ids /\ t.tv \in Nat /\ t.tv <= users[t.sub].tv
          /\ t.tv = users[t.sub].tv => (t.pw = users[t.sub].pw /\ t \notin ended)
    BY DEF AccountsInv, TokensFit, Token
  <2>2. new \in Token /\ new.sub = i /\ new.tv = u.tv /\ new.pw = u.pw
    BY <1>1 DEF SignFor, Token, User, Ids
  <2>3. new \notin signed
    BY <1>1, <2>1, <2>2
  <2>4. ended' = ended \cup {t \in signed : t.sub = i} /\ ended \subseteq signed
    BY DEF EndSessions, AccountsInv, TokensFit
  <2>5. signed' \subseteq Token /\ ended' \subseteq signed'
    BY <2>2, <2>4 DEF AccountsInv, TokensFit
  <2>6. ASSUME NEW t \in signed'
        PROVE  /\ t.sub \in Ids'
               /\ t.tv <= users'[t.sub].tv
               /\ t.tv = users'[t.sub].tv => (t.pw = users'[t.sub].pw /\ t \notin ended')
    <3>1. CASE t = new
      BY <3>1, <1>1, <1>2, <2>2, <2>3, <2>4
    <3>2. CASE t \in signed /\ t.sub = i
      <4>1. t.tv <= users[i].tv /\ users'[i].tv = users[i].tv + 1 /\ t.tv \in Nat
        BY <3>2, <1>2, <2>1
      <4> QED BY <4>1, <3>2, <1>1, <1>2
    <3>3. CASE t \in signed /\ t.sub # i
      BY <3>3, <1>2, <2>1, <2>4
    <3> QED BY <3>1, <3>2, <3>3
  <2> QED BY <2>5, <2>6 DEF TokensFit
<1> QED BY <1>2, <1>3, <1>4

\* The row of i is enabled again, at its version.
LEMMA EnableStep ==
  ASSUME AccountsInv, NEW i \in Ids, UNCHANGED <<signed, ended>>,
         users' = [users EXCEPT ![i] = WithDisabled(users[i], FALSE)]
  PROVE  RowsAdvance /\ TokensFit' /\ SomeoneEnabled' /\ users' \in Seq(User)
<1> DEFINE u == WithDisabled(users[i], FALSE)
<1>1. \A j \in Ids : users[j].tv \in Nat
  BY RowType DEF AccountsInv
<1>2. u \in User /\ u.tv = users[i].tv /\ u.pw = users[i].pw /\ u.disabled = FALSE
  BY RowType, WrittenRow DEF AccountsInv
<1>3. /\ users' \in Seq(User) /\ Ids' = Ids
      /\ \A j \in Ids : users'[j] = IF j = i THEN u ELSE users[j]
  <2>1. users' = [users EXCEPT ![i] = u] /\ users \in Seq(User)
    BY DEF AccountsInv
  <2> HIDE DEF u
  <2> QED BY <1>2, <2>1, ChangedRow
<1> HIDE DEF u
<1>4. \A j \in Ids : users'[j].tv = users[j].tv /\ users'[j].pw = users[j].pw
  BY <1>2, <1>3
<1>5. RowsAdvance
  <2>1. ASSUME NEW j \in Ids
        PROVE  users[j].tv <= users'[j].tv
    <3>1. users[j].tv <= users[j].tv
      BY <1>1
    <3> QED BY <3>1, <1>4
  <2> QED BY <1>3, <1>4, <2>1 DEF RowsAdvance
<1>6. TokensFit'
  BY <1>3, <1>4 DEF AccountsInv, TokensFit
<1>7. SomeoneEnabled'
  BY <1>2, <1>3 DEF SomeoneEnabled
<1> QED BY <1>3, <1>5, <1>6, <1>7

-----------------------------------------------------------------------------
(* Steps *)

\* Requests that are answered or begin to wait without touching a row.
LEMMA ReadingStep ==
  ASSUME AccountsInv, NEW c \in Clients, NEW t,
         \/ Refuse(c, t) \/ State(c, t) \/ Logout(c, t) \/ List(c, t)
         \/ \E n \in Names, p \in Passwords : Setup(c, n, p) \/ Create(c, t, n, p)
         \/ LoginDummy(c)
  PROVE  AccountsInv'
<1>1. users \in Seq(User) /\ ClientsFit /\ Quiet
  BY DEF AccountsInv, Quiet, Refuse, State, Logout, List, Setup, Create, LoginDummy
<1>2. RowsAdvance
  BY <1>1, QuietRows DEF Quiet
<1>3. ASSUME NEW n \in Names, NEW p \in Passwords
      PROVE  \A s \in {"setup", "create"} : JobFits(s, [name |-> n, pw |-> p])
  BY DEF JobFits, Credentials
<1>4. ClientsFit'
  <2>1. CASE \E code, who, token : Answer(c, code, who, token)
    BY <2>1, <1>1, <1>2, ClientAnswered
  <2>2. CASE \E n \in Names, p \in Passwords, s \in {"setup", "create"} :
               Hold(c, s, [name |-> n, pw |-> p])
    <3>1. PICK n \in Names, p \in Passwords, s \in {"setup", "create"} :
            Hold(c, s, [name |-> n, pw |-> p])
      BY <2>2
    <3>2. s \in Waits /\ UNCHANGED users
      BY <1>1 DEF Waits, Quiet
    <3> QED BY <3>1, <3>2, <1>1, <1>3, ClientHeld
  <2> QED BY <2>1, <2>2 DEF Refuse, State, Logout, List, Setup, Create, LoginDummy, Say
<1> QED BY <1>1, <1>4, QuietStep

\* Login and Password read the row that they go on with.
LEMMA WaitingStep ==
  ASSUME AccountsInv, NEW c \in Clients, NEW t, NEW p \in Passwords,
         \/ \E n \in Names : Login(c, n, p)
         \/ \E i \in Ids \cup {Nobody}, old \in Passwords \cup {Nothing} : Password(c, t, i, p, old)
         \/ PasswordVerified(c)
  PROVE  AccountsInv'
<1>1. users \in Seq(User) /\ ClientsFit /\ Quiet /\ UNCHANGED users
  BY DEF AccountsInv, Quiet, Login, Password, PasswordVerified
<1> SUFFICES ClientsFit'
  BY <1>1, QuietStep
<1>2. RowsAdvance
  BY <1>1, QuietRows
<1>3. \A i \in Ids : users[i].pw \in Passwords /\ users[i].tv \in Nat
  BY <1>1, RowType
<1>4. ASSUME NEW code, Say(c, code) PROVE ClientsFit'
  BY <1>1, <1>2, <1>4, ClientAnswered DEF Say
<1>5. CASE \E n \in Names : Login(c, n, p)
  <2>1. CASE Hold(c, "dummy", Nothing)
    <3>1. JobFits("dummy", Nothing) /\ "dummy" \in Waits
      BY DEF JobFits, Waits
    <3> QED BY <2>1, <3>1, <1>1, ClientHeld
  <2>2. ASSUME NEW i \in Ids,
               Hold(c, "login", [id |-> i, pw |-> p, hash |-> users[i].pw, tv |-> users[i].tv])
        PROVE  ClientsFit'
    <3> DEFINE j == [id |-> i, pw |-> p, hash |-> users[i].pw, tv |-> users[i].tv]
    <3>1. j \in Attempt /\ j.id = i /\ j.tv = users[i].tv /\ j.hash = users[i].pw
      BY <1>3 DEF Attempt
    <3>2. j.tv <= users[j.id].tv
      BY <3>1, <1>3
    <3>3. Hold(c, "login", j)
      BY <2>2
    <3> HIDE DEF j
    <3>4. JobFits("login", j) /\ "login" \in Waits
      BY <3>1, <3>2 DEF JobFits, Waits
    <3> QED BY <3>3, <3>4, <1>1, ClientHeld
  <2> QED BY <1>5, <2>1, <2>2 DEF Login, Named, AccountsInv
<1>6. ASSUME NEW i \in Ids, NEW old \in Passwords,
             Hold(c, "verify", [id |-> i, pw |-> p, old |-> old, hash |-> users[i].pw])
      PROVE  ClientsFit'
  <2> DEFINE j == [id |-> i, pw |-> p, old |-> old, hash |-> users[i].pw]
  <2>1. j \in Proof
    BY <1>3 DEF Proof
  <2>2. Hold(c, "verify", j)
    BY <1>6
  <2> HIDE DEF j
  <2>3. JobFits("verify", j) /\ "verify" \in Waits
    BY <2>1 DEF JobFits, Waits
  <2> QED BY <2>2, <2>3, <1>1, ClientHeld
<1>7. ASSUME NEW i \in Ids, NEW q \in Passwords, NEW s \in {"own", "reset"},
             Hold(c, s, [id |-> i, pw |-> q])
      PROVE  ClientsFit'
  <2> DEFINE j == [id |-> i, pw |-> q]
  <2>1. j \in Change
    BY DEF Change
  <2>2. Hold(c, s, j)
    BY <1>7
  <2> HIDE DEF j
  <2>3. JobFits(s, j) /\ s \in Waits
    BY <2>1 DEF JobFits, Waits
  <2> QED BY <2>2, <2>3, <1>1, ClientHeld
<1>8. CASE \E i \in Ids \cup {Nobody}, old \in Passwords \cup {Nothing} : Password(c, t, i, p, old)
  BY <1>8, <1>4, <1>6, <1>7 DEF Password
<1>9. CASE PasswordVerified(c)
  <2>1. job[c] \in Proof
    BY <1>9, <1>1 DEF PasswordVerified, ClientsFit, JobFits
  <2>2. job[c].id \in Ids /\ job[c].pw \in Passwords
    BY <2>1 DEF Proof
  <2> QED BY <1>9, <1>4, <1>7, <2>2 DEF PasswordVerified
<1> QED BY <1>5, <1>8, <1>9

\* A verified login signs for the row that it read.
LEMMA LoginStep ==
  ASSUME AccountsInv, NEW c \in Clients, LoginVerified(c)
  PROVE  AccountsInv'
<1> DEFINE j == job[c]
           new == SignFor(j.id, j.tv, j.pw)
<1>1. users \in Seq(User) /\ ClientsFit /\ UNCHANGED <<users, ended>>
  BY DEF AccountsInv, LoginVerified
<1>2. RowsAdvance
  BY <1>1, QuietRows
<1>3. ClientsFit'
  BY <1>1, <1>2, ClientAnswered DEF LoginVerified, Say
<1>4. /\ j \in Attempt
      /\ j.tv <= users[j.id].tv
      /\ j.tv = users[j.id].tv => j.hash = users[j.id].pw
  BY <1>1 DEF LoginVerified, ClientsFit, JobFits
<1>5. /\ new \in Token /\ new.sub = j.id /\ new.tv = j.tv /\ new.pw = j.pw
      /\ j.id \in Ids
  BY <1>4 DEF SignFor, Token, Attempt, Ids
<1>6. CASE UNCHANGED signed
  BY <1>6, <1>1, <1>3, QuietStep DEF Quiet
<1>7. CASE j.pw = j.hash /\ signed' = signed \cup {new}
  <2>1. \A t \in ended : t.tv # users[t.sub].tv
    BY DEF AccountsInv, TokensFit
  <2>2. new \notin ended \/ new.tv # users[new.sub].tv
    BY <2>1
  <2>3. TokensFit'
    <3>1. signed' \subseteq Token /\ ended' \subseteq signed'
      BY <1>1, <1>5, <1>7 DEF AccountsInv, TokensFit
    <3>2. ASSUME NEW t \in signed'
          PROVE  /\ t.sub \in Ids
                 /\ t.tv <= users[t.sub].tv
                 /\ t.tv = users[t.sub].tv => (t.pw = users[t.sub].pw /\ t \notin ended)
      <4>1. CASE t \in signed
        BY <4>1 DEF AccountsInv, TokensFit
      <4>2. CASE t = new
        BY <4>2, <1>4, <1>5, <1>7, <2>2
      <4> QED BY <1>7, <4>1, <4>2
    <3> QED BY <1>1, <3>1, <3>2 DEF TokensFit, Ids
  <2> QED BY <1>1, <1>3, <2>3 DEF AccountsInv, SomeoneEnabled, Ids
<1> QED BY <1>6, <1>7 DEF LoginVerified

\* A new account.
LEMMA StoreStep ==
  ASSUME AccountsInv, NEW c \in Clients, SetupStore(c) \/ CreateStore(c)
  PROVE  AccountsInv'
<1>1. users \in Seq(User) /\ ClientsFit /\ UNCHANGED ended
  BY DEF AccountsInv, SetupStore, CreateStore
<1>2. job[c].name \in Names /\ job[c].pw \in Passwords
  BY <1>1 DEF SetupStore, CreateStore, ClientsFit, JobFits, Credentials
<1>3. ASSUME RowsAdvance PROVE ClientsFit'
  BY <1>1, <1>3, ClientAnswered DEF SetupStore, CreateStore, Say
<1>4. CASE UNCHANGED <<users, signed>>
  BY <1>1, <1>3, <1>4, QuietRows, QuietStep DEF Quiet
<1>5. CASE /\ users' = Append(users, NewUser(job[c].name, job[c].pw))
           /\ \/ UNCHANGED signed
              \/ signed' = signed \cup {SignFor(Len(users) + 1, 0, job[c].pw)}
  <2>1. RowsAdvance /\ TokensFit' /\ SomeoneEnabled' /\ users' \in Seq(User)
    BY <1>1, <1>2, <1>5, AppendStep
  <2> QED BY <2>1, <1>3 DEF AccountsInv
<1> QED BY <1>4, <1>5 DEF SetupStore, CreateStore

\* A password: whether somebody is enabled does not depend on it.
LEMMA PasswordStep ==
  ASSUME AccountsInv, NEW c \in Clients, PasswordStore(c)
  PROVE  AccountsInv'
<1> DEFINE i == job[c].id
           p == job[c].pw
           u == WithPassword(users[i], p)
<1>1. users \in Seq(User) /\ ClientsFit
  BY DEF AccountsInv
<1>2. i \in Ids /\ p \in Passwords
  BY <1>1 DEF PasswordStore, ClientsFit, JobFits, Change
<1>3. /\ u \in User /\ u.tv = users[i].tv + 1 /\ u.pw = p
      /\ u.disabled = users[i].disabled
  <2>1. users[i] \in User
    BY <1>1, <1>2, RowType
  <2> QED BY <2>1, <1>2, WrittenRow
<1>4. /\ users' = [users EXCEPT ![i] = u] /\ EndSessions(i)
      /\ \/ UNCHANGED signed
         \/ signed' = signed \cup {SignFor(i, users[i].tv + 1, p)}
  BY DEF PasswordStore
<1>5. \E code, who, token : Answer(c, code, who, token)
  BY DEF PasswordStore, Say
<1> HIDE DEF i, p, u
<1>6. /\ Ids' = Ids
      /\ \A j \in Ids : users'[j] = IF j = i THEN u ELSE users[j]
  BY <1>1, <1>2, <1>3, <1>4, ChangedRow
<1>7. RowsAdvance /\ TokensFit' /\ users' \in Seq(User)
  BY <1>2, <1>3, <1>4, BumpStep
<1>8. ClientsFit'
  BY <1>1, <1>5, <1>7, ClientAnswered
<1>9. SomeoneEnabled'
  <2>1. \A j \in Ids : users'[j].disabled = users[j].disabled
    BY <1>3, <1>6
  <2>2. users # <<>>
    BY <1>1, <1>2 DEF Ids
  <2>3. PICK j \in Ids : ~users[j].disabled
    BY <2>2 DEF AccountsInv, SomeoneEnabled
  <2> QED BY <2>1, <2>3, <1>6 DEF SomeoneEnabled
<1> QED BY <1>7, <1>8, <1>9 DEF AccountsInv

\* Disabling: the session that asks for it is of an enabled account, which is
\* not the one that is disabled.
LEMMA DisableStep ==
  ASSUME AccountsInv, NEW c \in Clients, NEW t, NEW i, Disable(c, t, i)
  PROVE  AccountsInv'
<1>1. users \in Seq(User) /\ ClientsFit /\ UNCHANGED signed
  BY DEF AccountsInv, Disable
<1>2. \E code, who, token : Answer(c, code, who, token)
  BY DEF Disable, Say
<1>3. CASE UNCHANGED <<users, ended>>
  <2>1. RowsAdvance
    BY <1>1, <1>3, QuietRows
  <2> QED BY <1>1, <1>2, <1>3, <2>1, ClientAnswered, QuietStep DEF Quiet
<1>4. CASE /\ i \in Ids \ {t.sub}
           /\ users' = [users EXCEPT ![i] = WithDisabled(users[i], TRUE)]
           /\ EndSessions(i)
  <2> DEFINE u == WithDisabled(users[i], TRUE)
  <2>1. u \in User /\ u.tv = users[i].tv + 1 /\ u.pw = users[i].pw
    BY <1>1, <1>4, RowType, WrittenRow
  <2>2. i \in Ids /\ users' = [users EXCEPT ![i] = u]
    BY <1>4
  <2> HIDE DEF u
  <2>3. /\ Ids' = Ids
        /\ \A j \in Ids : users'[j] = IF j = i THEN u ELSE users[j]
    BY <1>1, <2>1, <2>2, ChangedRow
  <2>4. RowsAdvance /\ TokensFit' /\ users' \in Seq(User)
    BY <1>1, <1>4, <2>1, <2>2, BumpStep
  <2>5. ClientsFit'
    BY <1>1, <1>2, <2>4, ClientAnswered
  <2>6. t.sub \in Ids /\ ~users[t.sub].disabled /\ t.sub # i
    BY <1>4 DEF Disable, Accepted
  <2>7. SomeoneEnabled'
    BY <2>3, <2>6 DEF SomeoneEnabled
  <2> QED BY <2>4, <2>5, <2>7 DEF AccountsInv
<1> QED BY <1>3, <1>4 DEF Disable

LEMMA EnablingStep ==
  ASSUME AccountsInv, NEW c \in Clients, NEW t, NEW i, Enable(c, t, i)
  PROVE  AccountsInv'
<1>1. users \in Seq(User) /\ ClientsFit /\ UNCHANGED <<signed, ended>>
  BY DEF AccountsInv, Enable
<1>2. \E code, who, token : Answer(c, code, who, token)
  BY DEF Enable, Say
<1>3. CASE UNCHANGED users
  BY <1>1, <1>2, <1>3, QuietRows, ClientAnswered, QuietStep DEF Quiet
<1>4. CASE /\ i \in Ids
           /\ users' = [users EXCEPT ![i] = WithDisabled(users[i], FALSE)]
  <2>1. RowsAdvance /\ TokensFit' /\ SomeoneEnabled' /\ users' \in Seq(User)
    BY <1>1, <1>4, EnableStep
  <2> QED BY <1>1, <1>2, <2>1, ClientAnswered DEF AccountsInv
<1> QED BY <1>3, <1>4 DEF Enable

\* An expired token stops verifying; an answer arrives; the server restarts.
LEMMA OtherStep ==
  ASSUME AccountsInv,
         \/ \E t \in signed : Expire(t)
         \/ \E c \in Clients : Deliver(c)
         \/ Restart
  PROVE  AccountsInv'
<1>1. CASE \E t \in signed : Expire(t)
  <2>1. /\ UNCHANGED <<users, at, job>>
        /\ signed' \subseteq signed /\ ended' \subseteq ended /\ ended' \subseteq signed'
    BY <1>1 DEF Expire, AccountsInv, TokensFit
  <2>2. TokensFit'
    BY <2>1 DEF AccountsInv, TokensFit, Ids
  <2>3. ClientsFit'
    BY <2>1 DEF AccountsInv, ClientsFit, JobFits, Attempt, Proof, Change, Ids
  <2> QED BY <2>1, <2>2, <2>3 DEF AccountsInv, SomeoneEnabled, Ids
<1>2. CASE \E c \in Clients : Deliver(c)
  <2>1. PICK c \in Clients : Deliver(c)
    BY <1>2
  <2>2. Quiet /\ UNCHANGED job /\ users \in Seq(User) /\ ClientsFit
    BY <2>1 DEF Deliver, Quiet, AccountsInv
  <2>3. at' = [at EXCEPT ![c] = "idle"] /\ job' = [job EXCEPT ![c] = job[c]]
    BY <2>1, <2>2 DEF Deliver, ClientsFit
  <2>4. at'[c] = "idle" /\ job'[c] = job[c]
    BY <2>2, <2>3 DEF ClientsFit
  <2>5. JobFits(at[c], job[c]) /\ RowsAdvance
    BY <2>2, QuietRows DEF ClientsFit, Quiet
  <2>6. JobFits("idle", job[c])
    BY <2>5 DEF JobFits
  <2>7. JobFits(at[c], job[c])'
    BY <2>2, <2>4, <2>6 DEF JobFits, Quiet, Attempt, Proof, Change, Ids
  <2>8. ClientsFit'
    BY <2>2, <2>3, <2>5, <2>7, ClientMoves DEF Stages
  <2> QED BY <2>2, <2>8, QuietStep
<1>3. CASE Restart
  <2>1. Quiet /\ at' = [c \in Clients |-> "idle"] /\ job' = [c \in Clients |-> Nothing]
    BY <1>3 DEF Restart, Quiet
  <2>2. ClientsFit'
    BY <2>1 DEF ClientsFit, JobFits, Stages
  <2> QED BY <2>1, <2>2, QuietStep
<1> QED BY <1>1, <1>2, <1>3

-----------------------------------------------------------------------------
(* Theorems *)

\* The invariant holds in every state of Accounts.
THEOREM Inductive == Spec => []AccountsInv
<1>1. Init => AccountsInv
  <2> SUFFICES ASSUME Init PROVE AccountsInv
    OBVIOUS
  <2>1. users \in Seq(User) /\ TokensFit /\ SomeoneEnabled
    BY DEF Init, TokensFit, SomeoneEnabled
  <2>2. ClientsFit
    BY DEF Init, ClientsFit, JobFits, Stages
  <2> QED BY <2>1, <2>2 DEF AccountsInv
<1>2. AccountsInv /\ [Next]_accountVars => AccountsInv'
  <2> SUFFICES ASSUME AccountsInv, [Next]_accountVars PROVE AccountsInv'
    OBVIOUS
  <2>1. CASE UNCHANGED accountVars
    BY <2>1 DEF accountVars, AccountsInv, TokensFit, ClientsFit, SomeoneEnabled, JobFits,
                Attempt, Proof, Change, Ids
  <2>2. ASSUME NEW c \in Clients, Resume(c) PROVE AccountsInv'
    <3>1. CASE SetupStore(c) \/ CreateStore(c)
      BY <3>1, StoreStep
    <3>2. CASE LoginDummy(c)
      BY <3>2, ReadingStep
    <3>3. CASE LoginVerified(c)
      BY <3>3, LoginStep
    <3>4. CASE PasswordVerified(c)
      <4>1. job[c] \in Proof
        BY <3>4 DEF PasswordVerified, AccountsInv, ClientsFit, JobFits
      <4>2. job[c].pw \in Passwords
        BY <4>1 DEF Proof
      <4> QED BY <3>4, <4>2, WaitingStep
    <3>5. CASE PasswordStore(c)
      BY <3>5, PasswordStep
    <3> QED BY <2>2, <3>1, <3>2, <3>3, <3>4, <3>5 DEF Resume
  <2>3. ASSUME NEW c \in Clients, NEW t, Arrive(c, t) PROVE AccountsInv'
    <3>1. CASE Refuse(c, t) \/ State(c, t) \/ Logout(c, t) \/ List(c, t)
      BY <3>1, ReadingStep
    <3>2. CASE \E n \in Names, p \in Passwords : Setup(c, n, p) \/ Create(c, t, n, p)
      BY <3>2, ReadingStep
    <3>3. CASE \E n \in Names, p \in Passwords : Login(c, n, p)
      BY <3>3, WaitingStep
    <3>4. CASE \E i \in Ids \cup {Nobody}, p \in Passwords, old \in Passwords \cup {Nothing} :
                 Password(c, t, i, p, old)
      BY <3>4, WaitingStep
    <3>5. CASE \E i \in Ids \cup {Nobody} : Enable(c, t, i) \/ Disable(c, t, i)
      BY <3>5, EnablingStep, DisableStep
    <3> QED BY <2>3, <3>1, <3>2, <3>3, <3>4, <3>5 DEF Arrive
  <2> QED BY <2>1, <2>2, <2>3, OtherStep DEF Next
<1> QED BY <1>1, <1>2, PTL DEF Spec

\* Rows, tokens and waiting requests keep their kinds.
THEOREM TypeCorrect == Spec => []TypeOK
<1>1. AccountsInv => TypeOK
  BY DEF AccountsInv, TypeOK, TokensFit, ClientsFit, JobFits, Stages
<1> QED BY <1>1, Inductive, PTL

\* The last administrator is never locked out, whoever disables whom and when.
THEOREM NeverLockedOut == Spec => []SomeoneEnabled
<1>1. AccountsInv => SomeoneEnabled
  BY DEF AccountsInv
<1> QED BY <1>1, Inductive, PTL

\* A session that is let in knows the account's present password.
THEOREM KnowsPassword == Spec => []SessionsKnowPassword
<1>1. AccountsInv => SessionsKnowPassword
  BY DEF AccountsInv, TokensFit, SessionsKnowPassword, Accepted
<1> QED BY <1>1, Inductive, PTL

\* No session that was ended is let in again.
THEOREM EndedForGood == Spec => []SessionsEnd
<1>1. AccountsInv => SessionsEnd
  BY DEF AccountsInv, TokensFit, SessionsEnd, Accepted
<1> QED BY <1>1, Inductive, PTL

-----------------------------------------------------------------------------
(* Forms *)

FormsTypeOK ==
  /\ form \in [Forms -> {"read", "clean", "dirty", "behind"}]
  /\ pending = [f \in Forms |-> pending[f]]

\* The origin's dialog is on the way out of the tab only when the optimizer's form has nothing that
\* was typed: its interceptor, which comes first, let the navigation pass.
OriginAskedLast == pending["origin"] \notin {Nowhere, Settings} => "optimizer" \notin Typed

FormsInv == FormsTypeOK /\ OriginAskedLast /\ LinksKeepEdits

\* A form stops what would leave it while it has changes, unless it is passed over.
LEMMA WhoIntercepts ==
  ASSUME NEW passed
  PROVE  /\ Intercepted(passed) = Nowhere => Dirty \subseteq passed
         /\ Intercepted(passed) = "origin" => "optimizer" \notin Dirty \ passed
         /\ Intercepted(passed) \in {"origin", "optimizer", Nowhere}
<1>1. CASE "optimizer" \in Dirty \ passed
  BY <1>1, FormsAssumption DEF Intercepted, Dirty, Forms
<1>2. CASE "optimizer" \notin Dirty \ passed /\ "origin" \in Dirty \ passed
  BY <1>2, FormsAssumption DEF Intercepted, Dirty, Forms
<1>3. CASE "optimizer" \notin Dirty \ passed /\ "origin" \notin Dirty \ passed
  BY <1>3, FormsAssumption DEF Intercepted, Dirty, Forms
<1> QED
  BY <1>1, <1>2, <1>3

LEMMA TypedIsDirty == Typed \subseteq Dirty /\ Typed \subseteq Forms
BY DEF Typed, Dirty

\* The page goes: nothing is pending on the next.
LEMMA Unmounts ==
  ASSUME FormsInv, NEW to, NEW d, NEW unasked, Unmount(to, d, unasked), ~unasked
  PROVE  FormsInv'
BY DEF FormsInv, FormsTypeOK, OriginAskedLast, LinksKeepEdits, Unmount, Fresh, Forms, Typed

LEMMA Navigates ==
  ASSUME FormsInv, NEW to, Navigate(to)
  PROVE  FormsInv'
<1> DEFINE g == Intercepted({})
<1>1. CASE g # Nowhere /\ pending' = [pending EXCEPT ![g] = IF @ = Nowhere THEN to ELSE @]
           /\ UNCHANGED <<form, lost>>
  <2>1. g \in Forms /\ (g = "origin" => "optimizer" \notin Typed)
    BY <1>1, WhoIntercepts, TypedIsDirty DEF Forms
  <2>2. CASE g = "origin"
    BY <1>1, <2>1, <2>2 DEF FormsInv, FormsTypeOK, OriginAskedLast, LinksKeepEdits, Forms, Typed
  <2>3. CASE g = "optimizer"
    <3>1. pending'["origin"] = pending["origin"]
      BY <1>1, <2>3 DEF FormsInv, FormsTypeOK, Forms
    <3>2. pending' = [f \in Forms |-> pending'[f]]
      BY <1>1 DEF FormsInv, FormsTypeOK
    <3> HIDE DEF g
    <3> QED
      BY <1>1, <3>1, <3>2 DEF FormsInv, FormsTypeOK, OriginAskedLast, LinksKeepEdits, Typed
  <2> QED
    BY <2>1, <2>2, <2>3 DEF Forms
<1>2. CASE UNCHANGED <<form, pending, lost>>
  BY <1>2 DEF FormsInv, FormsTypeOK, OriginAskedLast, LinksKeepEdits, Typed
<1>3. CASE g = Nowhere /\ Unmount(to, "origin" \in Dirty, Typed # {})
  <2>1. Typed = {}
    BY <1>3, WhoIntercepts, TypedIsDirty
  <2> QED
    BY <1>3, <2>1, Unmounts
<1> QED
  BY <1>1, <1>2, <1>3 DEF Navigate

\* Who confirms the dialog of one form leaves the input of that form only.
LEMMA Confirms ==
  ASSUME FormsInv, NEW f \in Forms, ConfirmNavigation(f)
  PROVE  FormsInv'
<1> DEFINE g == Intercepted({f} \cup {"optimizer"})
           to == pending[f]
<1>1. CASE /\ g # Nowhere /\ UNCHANGED <<form, lost>>
           /\ pending' = [pending EXCEPT ![f] = Nowhere, ![g] = IF @ = Nowhere THEN Settings ELSE @]
  <2>1. g = "origin" /\ f = "optimizer"
    BY <1>1, FormsAssumption DEF Intercepted, Forms
  <2>2. pending'["origin"] \in {pending["origin"], Settings}
    BY <1>1, <2>1 DEF FormsInv, FormsTypeOK, Forms
  <2>3. pending' = [h \in Forms |-> pending'[h]]
    BY <1>1 DEF FormsInv, FormsTypeOK
  <2> HIDE DEF g
  <2> QED
    BY <1>1, <2>2, <2>3 DEF FormsInv, FormsTypeOK, OriginAskedLast, LinksKeepEdits, Typed
<1>2. CASE pending' = [pending EXCEPT ![f] = Nowhere] /\ UNCHANGED <<form, lost>>
  <2>1. pending'["origin"] \in {pending["origin"], Nowhere}
    BY <1>2 DEF FormsInv, FormsTypeOK, Forms
  <2>2. pending' = [h \in Forms |-> pending'[h]]
    BY <1>2 DEF FormsInv, FormsTypeOK
  <2> QED
    BY <1>2, <2>1, <2>2 DEF FormsInv, FormsTypeOK, OriginAskedLast, LinksKeepEdits, Typed
<1>3. CASE /\ g = Nowhere /\ to # Settings /\ to # Nowhere
           /\ \E rendered \in BOOLEAN :
                Unmount(to, f = "origin" /\ "origin" \in Dirty /\ rendered, ~Typed \subseteq {f})
  <2>1. Typed \subseteq {f}
    <3>1. CASE f = "origin"
      BY <1>3, <3>1, TypedIsDirty DEF FormsInv, OriginAskedLast, Forms
    <3>2. CASE f = "optimizer"
      <4>1. Dirty \subseteq {f} \cup {"optimizer"}
        BY <1>3, WhoIntercepts
      <4> QED
        BY <3>2, <4>1, TypedIsDirty
    <3> QED
      BY <3>1, <3>2 DEF Forms
  <2> QED
    BY <1>3, <2>1, Unmounts
<1> QED
  BY <1>1, <1>2, <1>3 DEF ConfirmNavigation

\* What changes a form without a keystroke leaves no form with more typed into it.
LEMMA FormChanges ==
  ASSUME FormsInv, NEW f \in Forms, NEW state \in {"read", "clean", "behind"},
         form' = [form EXCEPT ![f] = state], UNCHANGED <<pending, lost>>
  PROVE  FormsInv'
BY DEF FormsInv, FormsTypeOK, OriginAskedLast, LinksKeepEdits, Typed, Forms

LEMMA FormsInductive == FormsInv /\ [UnsavedNext]_formVars => FormsInv'
<1> SUFFICES ASSUME FormsInv, [UnsavedNext]_formVars PROVE FormsInv'
  OBVIOUS
<1>1. ASSUME UNCHANGED <<form, pending, lost>> PROVE FormsInv'
  BY <1>1 DEF FormsInv, FormsTypeOK, OriginAskedLast, LinksKeepEdits, Typed
<1>2. ASSUME NEW f \in Forms, ConfirmNavigation(f) PROVE FormsInv'
  BY <1>2, Confirms
<1>3. ASSUME NEW f \in Forms, CancelNavigation(f) PROVE FormsInv'
  <2>1. pending'["origin"] \in {pending["origin"], Nowhere}
    BY <1>3 DEF CancelNavigation, FormsInv, FormsTypeOK, Forms
  <2>2. pending' = [h \in Forms |-> pending'[h]]
    BY <1>3 DEF CancelNavigation, FormsInv, FormsTypeOK
  <2> QED
    BY <1>3, <2>1, <2>2
       DEF CancelNavigation, FormsInv, FormsTypeOK, OriginAskedLast, LinksKeepEdits, Typed
<1>4. ASSUME NEW f \in Forms, Edit(f) PROVE FormsInv'
  BY <1>4, FormChanges DEF Edit
<1>5. ASSUME NEW f \in Forms, TypeIn(f) PROVE FormsInv'
  <2>1. pending["origin"] = Nowhere
    BY <1>5 DEF TypeIn, OnForm, NoDialog, Forms
  <2> QED
    BY <1>5, <2>1 DEF TypeIn, FormsInv, FormsTypeOK, OriginAskedLast, LinksKeepEdits
<1>6. ASSUME NEW f \in Forms, Refetched(f) PROVE FormsInv'
  BY <1>6, FormChanges DEF Refetched
<1>7. ASSUME NEW f \in Forms, HandleSave(f) \/ SaveFailed(f) PROVE FormsInv'
  BY <1>1, <1>7 DEF HandleSave, SaveFailed
<1>8. ASSUME NEW f \in Forms, Saved(f) PROVE FormsInv'
  BY <1>8, FormChanges DEF Saved
<1>9. ASSUME NEW to, FollowLink(to) \/ RefetchMissing(to) \/ Deleted(to) PROVE FormsInv'
  BY <1>9, Navigates DEF FollowLink, RefetchMissing, Deleted
<1>10. ASSUME NEW to, Back(to) PROVE FormsInv'
  BY <1>10, Unmounts DEF Back
<1>11. CASE HandlePopState
  BY <1>11 DEF HandlePopState, FormsInv, FormsTypeOK, OriginAskedLast, LinksKeepEdits, Typed, Forms
<1>12. CASE ReloadPage
  BY <1>12 DEF ReloadPage, Fresh, FormsInv, FormsTypeOK, OriginAskedLast, LinksKeepEdits, Typed, Forms
<1>13. CASE RefetchFailed
  BY <1>13, Unmounts DEF RefetchFailed
<1>14. CASE HandleCancel \/ ConfirmDiscard
  BY <1>14, FormChanges DEF HandleCancel, ConfirmDiscard, Forms
<1>15. CASE HandleEscape
  <2>1. CASE "origin" \in Dirty
    <3>1. form' = form
      BY <1>15, <2>1 DEF HandleEscape, FormsInv, FormsTypeOK
    <3> QED
      BY <1>1, <1>15, <3>1 DEF HandleEscape
  <2>2. CASE "origin" \notin Dirty
    BY <1>15, <2>2, FormChanges DEF HandleEscape, Forms
  <2> QED
    BY <2>1, <2>2
<1>16. CASE Visit \/ Retry \/ CancelDiscard \/ DeleteOpen \/ DeleteClose \/ HandleDelete \/ DeleteFailed
  BY <1>1, <1>16 DEF Visit, Retry, CancelDiscard, DeleteOpen, DeleteClose, HandleDelete, DeleteFailed
<1>17. CASE UNCHANGED formVars
  BY <1>1, <1>17 DEF formVars
<1> QED
  BY <1>2, <1>3, <1>4, <1>5, <1>6, <1>7, <1>8, <1>9, <1>10, <1>11, <1>12, <1>13, <1>14, <1>15,
     <1>16, <1>17 DEF UnsavedNext, UnsavedSteps

\* No navigation takes what was typed before the dialog of its form was confirmed, whatever
\* dialogs are open and however many visits the tab has seen (useUnsavedChangesPrompt).
THEOREM EditsAreKept == UnsavedSpec => []LinksKeepEdits
<1>1. UnsavedInit => FormsInv
  BY DEF UnsavedInit, Fresh, Forms, FormsInv, FormsTypeOK, OriginAskedLast, LinksKeepEdits
<1>2. FormsInv => LinksKeepEdits
  BY DEF FormsInv
<1> QED
  BY FormsInductive, <1>1, <1>2, PTL DEF UnsavedSpec

-----------------------------------------------------------------------------
(* The list of domains *)

Kinds == {"add", "delete", "bulk-add", "bulk-delete", "bulk-purge", "toggle", "enable", "disable"}
ListMutation == [kind : Kinds, hosts : SUBSET Rows, answer : {"none", "ok"}, rev : Nat]

ListTypeOK ==
  /\ filter \in Filters /\ served \in Nat /\ known \in Nat
  /\ sent \subseteq ListMutation /\ selectedHosts \subseteq Rows
  /\ dialog \in {"none", "add", "delete", "bulk-add", "bulk-delete", "bulk-purge"}

\* What is listed was shown, and what is selected was listed.
SelectedShown == Listed \subseteq shown /\ selectedHosts \subseteq shown

\* Every list that is held, or on its way, was read from the server before now, and one that
\* is on its way to the page after the last change of the page's own.
QueriesFit ==
  /\ DOMAIN queries = Filters /\ queries = [f \in Filters |-> queries[f]]
  /\ fetching = [f \in Filters |-> fetching[f]]
  /\ \A f \in Filters :
       /\ queries[f] = [hosts |-> queries[f].hosts, rev |-> queries[f].rev,
                        stale |-> queries[f].stale, failed |-> queries[f].failed]
       /\ queries[f].rev \in Nat /\ (queries[f].hosts # Unread => queries[f].hosts \subseteq Rows)
       /\ fetching[f] # Unread =>
            fetching[f].hosts \subseteq Rows /\ fetching[f].rev \in Nat
  /\ known <= served /\ \A m \in sent : m.rev <= served
  /\ fetching[filter] # Unread => fetching[filter].rev >= known
  /\ OwnChangesStay

ListInv == ListTypeOK /\ SelectedShown /\ QueriesFit

LEMMA ListingInRows == \A f : Reading(f).hosts \subseteq Rows /\ Reading(f).rev = served
BY DEF Reading, Listing, Registered

LEMMA ListedInRows == ListInv => Listed \subseteq Rows
BY DEF ListInv, ListTypeOK, QueriesFit, Listed, Table

\* What a mutation may be.
LEMMA MutatedOnly ==
  ASSUME ListInv, NEW kind \in Kinds, NEW hosts \in SUBSET Rows, Mutate(kind, hosts)
  PROVE  /\ sent' \subseteq ListMutation /\ \A m \in sent' : m.rev <= served
         /\ \A m \in sent' \ sent : m.kind = kind /\ m.hosts = hosts
<1> DEFINE m == [kind |-> kind, hosts |-> hosts, answer |-> "none", rev |-> 0]
<1>1. sent' = sent \cup {m}
  BY DEF Mutate
<1>2. m \in ListMutation /\ m.rev = 0 /\ m.kind = kind /\ m.hosts = hosts
  BY DEF ListMutation
<1>3. served >= 0 /\ \A x \in sent : x.rev <= served
  BY DEF ListInv, ListTypeOK, QueriesFit
<1> HIDE DEF m
<1> QED
  BY <1>1, <1>2, <1>3 DEF ListInv, ListTypeOK

\* Every mutation on the selection is sent with the hosts selected then.
LEMMA BulkOnSelection ==
  ASSUME ListInv, ListNext
  PROVE  /\ sent' \subseteq ListMutation
         /\ \A m \in sent' : m.rev <= served'
         /\ \A m \in sent' \ sent : m.kind \in Bulk /\ m.answer = "none" => m.hosts = selectedHosts
<1> DEFINE Goal == /\ sent' \subseteq ListMutation
                   /\ \A m \in sent' : m.rev <= served'
                   /\ \A m \in sent' \ sent : m.kind \in Bulk /\ m.answer = "none" => m.hosts = selectedHosts
<1> USE DEF ListInv
<1>1. ASSUME sent' \subseteq sent, served' = served PROVE Goal
  BY <1>1 DEF ListTypeOK, QueriesFit
<1>2. ASSUME NEW f, Show(f) PROVE Goal
  BY <1>1, <1>2 DEF Show, serverVars
<1>3. CASE SetByPage
  BY <1>2, <1>3 DEF SetByPage, Debounced, ClearSearch, Sort, EnabledChange, SetFilter
<1>4. CASE Fetch \/ Close \/ HandleSelectAll
  BY <1>1, <1>4 DEF Fetch, Close, HandleSelectAll, Select, serverVars
<1>5. ASSUME NEW kind \in Kinds, NEW hosts \in SUBSET Rows, Mutate(kind, hosts),
             kind \in Bulk => hosts = selectedHosts
      PROVE  Goal
  <2>1. served' = served
    BY <1>5 DEF Mutate, serverVars
  <2> QED
    BY <1>5, <2>1, MutatedOnly
<1>6. CASE Confirm
  <2>1. CASE dialog \in {"bulk-delete", "bulk-purge"}
    <3>1. Mutate(dialog, selectedHosts)
      BY <1>6, <2>1 DEF Confirm
    <3> QED
      BY <1>5, <2>1, <3>1 DEF Kinds, ListTypeOK
  <2>2. CASE dialog \in {"add", "delete"}
    <3>1. PICK hosts \in {{h} : h \in Rows} : Mutate(dialog, hosts)
      BY <1>6, <2>2 DEF Confirm
    <3>2. hosts \in SUBSET Rows
      OBVIOUS
    <3> QED
      BY <1>5, <2>2, <3>1, <3>2 DEF Kinds, Bulk
  <2>3. CASE dialog = "bulk-add"
    <3>1. PICK hosts \in SUBSET Rows : Mutate(dialog, hosts)
      BY <1>6, <2>3 DEF Confirm
    <3> QED
      BY <1>5, <2>3, <3>1 DEF Kinds, Bulk
  <2> QED
    BY <1>6, <2>1, <2>2, <2>3 DEF Confirm, ListTypeOK
<1>7. ASSUME NEW f \in Filters, Fetched(f) \/ FetchFailed(f) \/ Collected(f) \/ GoTo(f) PROVE Goal
  BY <1>1, <1>2, <1>7 DEF Fetched, FetchFailed, Collected, GoTo, serverVars
<1>8. ASSUME NEW text \in BOOLEAN, Type(text) PROVE Goal
  BY <1>1, <1>8 DEF Type, serverVars
<1>9. ASSUME NEW h \in Rows, HandleSelectOne(h) PROVE Goal
  BY <1>1, <1>9 DEF HandleSelectOne, Select, serverVars
<1>10. ASSUME NEW h \in Rows, Toggle(h) PROVE Goal
  <2>1. Mutate("toggle", {h}) /\ {h} \in SUBSET Rows
    BY <1>10 DEF Toggle
  <2> QED
    BY <1>5, <2>1 DEF Kinds, Bulk
<1>11. ASSUME NEW h \in Rows, NEW s \in States, OtherSession(h, s) PROVE Goal
  <2>1. sent' = sent /\ served' \in Nat /\ served' >= served
    BY <1>11 DEF OtherSession, Changes, ListTypeOK
  <2> QED
    BY <2>1 DEF ListTypeOK, QueriesFit, ListMutation
<1>12. ASSUME NEW d, OpenDialog(d) PROVE Goal
  BY <1>1, <1>12 DEF OpenDialog, serverVars
<1>13. ASSUME NEW kind \in {"enable", "disable"}, BulkToggle(kind) PROVE Goal
  BY <1>5, <1>13 DEF BulkToggle, Kinds, ListTypeOK
<1>14. ASSUME NEW m \in sent, Serve(m) PROVE Goal
  <2>1. served' \in Nat /\ served' >= served
    BY <1>14 DEF Serve, Changes, ListTypeOK
  <2>2. PICK n : n = [m EXCEPT !.answer = "ok", !.rev = served']
    OBVIOUS
  <2>3. m \in ListMutation
    BY DEF ListTypeOK
  <2>4. n \in ListMutation /\ n.answer = "ok" /\ n.rev = served'
    BY <2>1, <2>2, <2>3 DEF ListMutation
  <2>5. sent' = (sent \ {m}) \cup {n}
    BY <1>14, <2>2 DEF Serve
  <2>6. sent' \subseteq ListMutation
    BY <2>4, <2>5 DEF ListTypeOK
  <2>7. \A x \in sent : x.rev <= served'
    BY <2>1 DEF ListTypeOK, QueriesFit, ListMutation
  <2>8. \A x \in sent' : x.rev <= served'
    BY <2>1, <2>4, <2>5, <2>7
  <2> QED
    BY <2>4, <2>5, <2>6, <2>8
<1>15. ASSUME NEW m \in sent, Succeeded(m) \/ MutationFailed(m) PROVE Goal
  BY <1>1, <1>15 DEF Succeeded, MutationFailed, serverVars
<1> QED
  BY <1>3, <1>4, <1>6, <1>7, <1>8, <1>9, <1>10, <1>11, <1>12, <1>13, <1>14, <1>15
     DEF ListNext, OtherSteps

\* The page clears the selection when it sets the filter, and else only selects what is listed.
LEMMA SelectsListed ==
  ASSUME ListInv, ListNext
  PROVE  /\ SelectedShown' /\ selectedHosts' \subseteq Rows
         /\ dialog' \in {"none", "add", "delete", "bulk-add", "bulk-delete", "bulk-purge"}
         /\ UNCHANGED session
<1> DEFINE Goal == /\ selectedHosts' \subseteq selectedHosts \cup Listed
                   /\ dialog' \in {"none", "add", "delete", "bulk-add", "bulk-delete", "bulk-purge"}
                   /\ UNCHANGED session
<1> USE DEF ListInv, ListTypeOK, serverVars, pageVars
<1>1. CASE SetByPage /\ shown' = Listed'
  <2>1. selectedHosts' = {} /\ Goal
    BY <1>1 DEF SetByPage, Debounced, ClearSearch, Sort, EnabledChange, SetFilter, Show
  <2> QED
    BY <1>1, <2>1 DEF SelectedShown
<1>2. CASE OtherSteps /\ shown' = shown \cup Listed'
  <2>1. ASSUME Fetch \/ Close \/ HandleSelectAll PROVE Goal
    BY <2>1 DEF Fetch, Close, HandleSelectAll, Select
  <2>2. ASSUME Confirm PROVE Goal
    <3>1. PICK hosts : Mutate(dialog, hosts)
      BY <2>2 DEF Confirm
    <3> QED
      BY <3>1 DEF Mutate
  <2>3. ASSUME NEW f \in Filters, Fetched(f) \/ FetchFailed(f) \/ Collected(f) \/ GoTo(f) PROVE Goal
    BY <2>3 DEF Fetched, FetchFailed, Collected, GoTo, Show
  <2>4. ASSUME NEW text \in BOOLEAN, Type(text) PROVE Goal
    BY <2>4 DEF Type
  <2>5. ASSUME NEW h \in Rows, HandleSelectOne(h) \/ Toggle(h) PROVE Goal
    BY <2>5 DEF HandleSelectOne, Select, Toggle, Mutate
  <2>6. ASSUME NEW h \in Rows, NEW s \in States, OtherSession(h, s) PROVE Goal
    BY <2>6 DEF OtherSession
  <2>7. ASSUME NEW d \in {"add", "delete", "bulk-add", "bulk-delete", "bulk-purge"}, OpenDialog(d)
        PROVE  Goal
    BY <2>7 DEF OpenDialog
  <2>8. ASSUME NEW kind \in {"enable", "disable"}, BulkToggle(kind) PROVE Goal
    BY <2>8 DEF BulkToggle, Mutate
  <2>9. ASSUME NEW m \in sent, Serve(m) \/ Succeeded(m) \/ MutationFailed(m) PROVE Goal
    BY <2>9 DEF Serve, Succeeded, MutationFailed
  <2>10. Goal
    BY <1>2, <2>1, <2>2, <2>3, <2>4, <2>5, <2>6, <2>7, <2>8, <2>9 DEF OtherSteps
  <2>11. Listed \subseteq Rows
    BY ListedInRows
  <2> QED
    BY <1>2, <2>10, <2>11 DEF SelectedShown
<1> QED
  BY <1>1, <1>2 DEF ListNext, Listed

-----------------------------------------------------------------------------
(* What the queries hold *)

\* What one step may do to the queries, if it lets the page know of no newer change.
LEMMA AsOldAsBefore ==
  ASSUME ListInv, UNCHANGED <<queries, fetching, filter, known, session>>,
         served' \in Nat, served' >= served, \A m \in sent' : m.rev <= served'
  PROVE  QueriesFit' /\ filter' \in Filters' /\ known' \in Nat
<1>1. Filters' = Filters /\ filter' \in Filters /\ known' \in Nat
  BY DEF ListInv, ListTypeOK, Filters
<1>2. known' <= served'
  BY DEF ListInv, ListTypeOK, QueriesFit
<1>3. OwnChangesStay'
  BY DEF ListInv, QueriesFit, OwnChangesStay
<1> QED
  BY <1>1, <1>2, <1>3 DEF ListInv, QueriesFit

\* A query is read anew,
LEMMA ReadAnew ==
  ASSUME ListInv, NEW f \in Filters, fetching[f] = Unread,
         fetching' = [fetching EXCEPT ![f] = Reading(f)],
         UNCHANGED <<queries, filter, known, session, served, sent>>
  PROVE  QueriesFit' /\ filter' \in Filters' /\ known' \in Nat
<1>1. Reading(f).hosts \subseteq Rows /\ Reading(f).rev = served
  BY ListingInRows
<1>2. Reading(f) = [hosts |-> Listing(f), rev |-> served]
  BY DEF Reading
<1> HIDE DEF Reading
<1>3. /\ fetching' = [g \in Filters |-> fetching'[g]]
      /\ \A g \in Filters : fetching'[g] = IF g = f THEN Reading(f) ELSE fetching[g]
  BY DEF ListInv, QueriesFit
<1>4. OwnChangesStay'
  BY <1>3 DEF ListInv, ListTypeOK, QueriesFit, OwnChangesStay
<1> QED
  BY <1>1, <1>3, <1>4 DEF ListInv, ListTypeOK, QueriesFit, Filters

\* or its answer comes.
LEMMA AnswerTaken ==
  ASSUME ListInv, NEW f \in Filters, fetching' = [fetching EXCEPT ![f] = Unread],
         NEW q, queries' = [queries EXCEPT ![f] = q],
         q = [hosts |-> q.hosts, rev |-> q.rev, stale |-> q.stale, failed |-> q.failed],
         q.rev \in Nat, q.hosts # Unread => q.hosts \subseteq Rows,
         f = filter => q.stale \/ q.failed \/ q.rev >= known,
         UNCHANGED <<filter, known, session, served, sent>>
  PROVE  QueriesFit' /\ filter' \in Filters' /\ known' \in Nat
<1>1. /\ fetching' = [g \in Filters |-> fetching'[g]]
      /\ \A g \in Filters : fetching'[g] = IF g = f THEN Unread ELSE fetching[g]
  BY DEF ListInv, QueriesFit
<1>2. /\ queries' = [g \in Filters |-> queries'[g]] /\ DOMAIN queries' = Filters
      /\ \A g \in Filters : queries'[g] = IF g = f THEN q ELSE queries[g]
  BY DEF ListInv, QueriesFit
<1>3. OwnChangesStay'
  BY <1>1, <1>2 DEF ListInv, ListTypeOK, QueriesFit, OwnChangesStay
<1> QED
  BY <1>1, <1>2, <1>3 DEF ListInv, ListTypeOK, QueriesFit, Filters

\* Another filter is shown, of which the page knows nothing.
LEMMA Shows ==
  ASSUME ListInv, NEW f, Show(f)
  PROVE  QueriesFit' /\ filter' \in Filters' /\ known' \in Nat
<1> USE DEF ListInv, ListTypeOK
<1>1. /\ f \in Filters /\ filter' = f /\ known' = IF f = filter THEN known ELSE 0
      /\ UNCHANGED <<session, served, queries, sent>>
  BY DEF Show, serverVars
<1>2. known' \in Nat /\ known' <= known
  BY <1>1
<1>3. /\ fetching' = [g \in Filters |-> fetching'[g]]
      /\ \A g \in Filters : fetching'[g] \in {fetching[g], Reading(g)}
      /\ fetching'[f] # Unread => fetching'[f].rev >= known'
      /\ fetching'[f] = Unread => fetching[f] = Unread
  <2>1. Reading(f).rev = served /\ served >= known
    BY ListingInRows DEF QueriesFit
  <2>2. fetching[f] # Unread => fetching[f].rev >= known'
    BY <1>1 DEF QueriesFit
  <2>3. CASE UNCHANGED fetching
    BY <1>1, <2>2, <2>3 DEF QueriesFit
  <2>4. CASE fetching' = [fetching EXCEPT ![f] = IF @ = Unread THEN Reading(f) ELSE @]
    <3>1. /\ fetching' = [g \in Filters |-> fetching'[g]]
          /\ \A g \in Filters : fetching'[g] = IF g = f /\ fetching[f] = Unread THEN Reading(f) ELSE fetching[g]
      BY <2>4 DEF QueriesFit
    <3> QED
      BY <1>1, <1>2, <2>1, <2>2, <3>1
  <2> QED
    BY <2>3, <2>4 DEF Show
<1>4. OwnChangesStay'
  <2>1. CASE f = filter
    BY <1>1, <1>3, <2>1 DEF QueriesFit, OwnChangesStay
  <2>2. CASE f # filter
    BY <1>1, <2>2 DEF QueriesFit, OwnChangesStay
  <2> QED
    BY <2>1, <2>2
<1>5. \A g \in Filters : fetching'[g] # Unread => fetching'[g].hosts \subseteq Rows /\ fetching'[g].rev \in Nat
  BY <1>3, ListingInRows DEF QueriesFit
<1>6. known' <= served'
  BY <1>1, <1>2 DEF QueriesFit
<1> QED
  BY <1>1, <1>2, <1>3, <1>4, <1>5, <1>6 DEF QueriesFit, Filters

\* After a change of its own the page asks for its list again.
LEMMA Invalidates ==
  ASSUME ListInv, InvalidateDomains, UNCHANGED <<filter, session, served>>,
         known' \in Nat, known' <= served,
         queries[filter].hosts = Unread => known' = known, sent' \subseteq sent
  PROVE  QueriesFit' /\ filter' \in Filters' /\ known' \in Nat
<1> USE DEF ListInv, ListTypeOK
<1>1. queries' = [f \in Filters |-> [queries[f] EXCEPT !.stale = TRUE]]
  BY DEF InvalidateDomains
<1>2. ASSUME NEW f \in Filters
      PROVE  /\ queries'[f].hosts = queries[f].hosts /\ queries'[f].rev = queries[f].rev
             /\ queries'[f].stale = TRUE
             /\ queries'[f] = [hosts |-> queries'[f].hosts, rev |-> queries'[f].rev,
                               stale |-> queries'[f].stale, failed |-> queries'[f].failed]
  <2>1. PICK q : q = queries[f]
    OBVIOUS
  <2>2. q = [hosts |-> q.hosts, rev |-> q.rev, stale |-> q.stale, failed |-> q.failed]
    BY <2>1 DEF QueriesFit
  <2>3. queries'[f] = [q EXCEPT !.stale = TRUE]
    BY <1>1, <2>1
  <2>4. queries'[f] = [hosts |-> q.hosts, rev |-> q.rev, stale |-> TRUE, failed |-> q.failed]
    BY <2>2, <2>3
  <2> QED
    BY <2>1, <2>4
<1>3. /\ fetching' = [g \in Filters |-> fetching'[g]]
      /\ \A g \in Filters : g # filter => fetching'[g] = fetching[g]
      /\ \/ fetching'[filter] = Reading(filter)
         \/ fetching'[filter] = fetching[filter] /\ queries[filter].hosts = Unread
  BY DEF InvalidateDomains, QueriesFit
<1>4. Reading(filter).hosts \subseteq Rows /\ Reading(filter).rev = served
  BY ListingInRows
<1>5. \A g \in Filters : fetching'[g] # Unread => fetching'[g].hosts \subseteq Rows /\ fetching'[g].rev \in Nat
  BY <1>3, <1>4 DEF QueriesFit
<1>6. fetching'[filter] # Unread => fetching'[filter].rev >= known'
  BY <1>3, <1>4 DEF QueriesFit
<1>7. OwnChangesStay'
  BY <1>2 DEF OwnChangesStay
<1>8. queries' = [f \in Filters |-> queries'[f]] /\ DOMAIN queries' = Filters
  BY <1>1
<1> QED
  BY <1>2, <1>3, <1>5, <1>6, <1>7, <1>8 DEF QueriesFit, Filters

LEMMA QueriesStay ==
  ASSUME ListInv, ListNext
  PROVE  QueriesFit' /\ filter' \in Filters' /\ known' \in Nat /\ served' \in Nat
<1> DEFINE Goal == QueriesFit' /\ filter' \in Filters' /\ known' \in Nat /\ served' \in Nat
<1> USE DEF ListInv, ListTypeOK, serverVars
<1>0. \A m \in sent' : m.rev <= served'
  BY BulkOnSelection
<1>1. ASSUME UNCHANGED <<queries, fetching, filter, known, session>>, served' \in Nat, served' >= served
      PROVE  Goal
  BY <1>0, <1>1, AsOldAsBefore
<1>2. ASSUME NEW f, Show(f) PROVE Goal
  BY <1>2, Shows DEF Show
<1>3. CASE SetByPage
  BY <1>2, <1>3 DEF SetByPage, Debounced, ClearSearch, Sort, EnabledChange, SetFilter
<1>4. CASE Fetch
  BY <1>4, ReadAnew DEF Fetch
<1>5. CASE Close \/ Confirm \/ HandleSelectAll
  BY <1>1, <1>5 DEF Close, Confirm, HandleSelectAll, Select, Mutate
<1>6. ASSUME NEW f \in Filters, Fetched(f) PROVE Goal
  <2>1. PICK q : q = [hosts |-> fetching[f].hosts, rev |-> fetching[f].rev, stale |-> FALSE, failed |-> FALSE]
    OBVIOUS
  <2>2. /\ q = [hosts |-> q.hosts, rev |-> q.rev, stale |-> q.stale, failed |-> q.failed]
        /\ q.rev \in Nat /\ q.hosts \subseteq Rows /\ (f = filter => q.rev >= known)
    BY <1>6, <2>1 DEF Fetched, QueriesFit
  <2>3. queries' = [queries EXCEPT ![f] = q]
    BY <1>6, <2>1 DEF Fetched
  <2> QED
    BY <1>6, <2>2, <2>3, AnswerTaken DEF Fetched
<1>7. ASSUME NEW f \in Filters, FetchFailed(f) PROVE Goal
  <2>1. PICK q : q = queries[f]
    OBVIOUS
  <2>2. q = [hosts |-> q.hosts, rev |-> q.rev, stale |-> q.stale, failed |-> q.failed]
    BY <2>1 DEF QueriesFit
  <2>3. PICK n : n = [q EXCEPT !.stale = TRUE, !.failed = TRUE]
    OBVIOUS
  <2>4. n = [hosts |-> q.hosts, rev |-> q.rev, stale |-> TRUE, failed |-> TRUE]
    BY <2>2, <2>3
  <2>5. queries' = [queries EXCEPT ![f] = n]
    BY <1>7, <2>1, <2>3 DEF FetchFailed
  <2>6. n.rev \in Nat /\ (n.hosts # Unread => n.hosts \subseteq Rows) /\ n.stale
        /\ n = [hosts |-> n.hosts, rev |-> n.rev, stale |-> n.stale, failed |-> n.failed]
    BY <2>1, <2>4 DEF QueriesFit
  <2> QED
    BY <1>7, <2>5, <2>6, AnswerTaken DEF FetchFailed
<1>8. ASSUME NEW f \in Filters, Collected(f) PROVE Goal
  <2>1. PICK q : q = EmptyQuery
    OBVIOUS
  <2>2. /\ q = [hosts |-> q.hosts, rev |-> q.rev, stale |-> q.stale, failed |-> q.failed]
        /\ q.rev \in Nat /\ q.hosts = Unread
    BY <2>1 DEF EmptyQuery
  <2>3. queries' = [queries EXCEPT ![f] = q] /\ f # filter
    BY <1>8, <2>1 DEF Collected
  <2>4. fetching' = [fetching EXCEPT ![f] = Unread]
    BY <1>8 DEF Collected, QueriesFit
  <2> QED
    BY <1>8, <2>2, <2>3, <2>4, AnswerTaken DEF Collected
<1>9. ASSUME NEW f \in Filters, GoTo(f) PROVE Goal
  BY <1>2, <1>9 DEF GoTo
<1>10. ASSUME NEW text \in BOOLEAN, Type(text) PROVE Goal
  BY <1>1, <1>10 DEF Type
<1>11. ASSUME NEW h \in Rows, HandleSelectOne(h) \/ Toggle(h) PROVE Goal
  BY <1>1, <1>11 DEF HandleSelectOne, Select, Toggle, Mutate
<1>12. ASSUME NEW h \in Rows, NEW s \in States, OtherSession(h, s) PROVE Goal
  BY <1>1, <1>12 DEF OtherSession, Changes
<1>13. ASSUME NEW d, OpenDialog(d) PROVE Goal
  BY <1>1, <1>13 DEF OpenDialog
<1>14. ASSUME NEW kind, BulkToggle(kind) PROVE Goal
  BY <1>1, <1>14 DEF BulkToggle, Mutate
<1>15. ASSUME NEW m \in sent, Serve(m) PROVE Goal
  BY <1>1, <1>15 DEF Serve, Changes
<1>16. ASSUME NEW m \in sent, Succeeded(m) PROVE Goal
  <2>1. CASE m.kind = "bulk-purge"
    BY <1>1, <1>16, <2>1 DEF Succeeded
  <2>2. CASE m.kind # "bulk-purge"
    <3>1. /\ InvalidateDomains /\ UNCHANGED <<filter, session, served>> /\ sent' \subseteq sent
          /\ known' = IF queries[filter].hosts = Unread THEN known
                      ELSE IF m.rev > known THEN m.rev ELSE known
      BY <1>16, <2>2 DEF Succeeded
    <3>2. m.rev \in Nat /\ m.rev <= served /\ known <= served
      BY DEF ListMutation, QueriesFit
    <3> QED
      BY <3>1, <3>2, Invalidates
  <2> QED
    BY <2>1, <2>2
<1>17. ASSUME NEW m \in sent, MutationFailed(m) PROVE Goal
  BY <1>1, <1>17 DEF MutationFailed
<1> QED
  BY <1>3, <1>4, <1>5, <1>6, <1>7, <1>8, <1>9, <1>10, <1>11, <1>12, <1>13, <1>14, <1>15, <1>16, <1>17
     DEF ListNext, OtherSteps

LEMMA ListInitially == ListInit => ListInv
<1> SUFFICES ASSUME ListInit PROVE ListInv
  OBVIOUS
<1> USE DEF ListInit
<1>1. ListTypeOK
  BY DEF ListTypeOK
<1>2. \A f \in Filters : queries[f] = EmptyQuery
  OBVIOUS
<1>3. SelectedShown
  BY <1>1, <1>2 DEF SelectedShown, Listed, Table, EmptyQuery, ListTypeOK
<1>4. \A f \in Filters :
        /\ queries[f] = [hosts |-> queries[f].hosts, rev |-> queries[f].rev,
                         stale |-> queries[f].stale, failed |-> queries[f].failed]
        /\ queries[f].rev = 0 /\ queries[f].hosts = Unread /\ queries[f].stale
  BY <1>2 DEF EmptyQuery
<1>5. \A f \in Filters : fetching[f] # Unread => fetching[f].hosts \subseteq Rows /\ fetching[f].rev = 0
  BY ListingInRows
<1>6. QueriesFit
  BY <1>1, <1>4, <1>5 DEF QueriesFit, OwnChangesStay, ListTypeOK
<1> QED
  BY <1>1, <1>3, <1>6 DEF ListInv

LEMMA ListInductive == ListInv /\ [ListNext]_listVars => ListInv'
<1> SUFFICES ASSUME ListInv, [ListNext]_listVars PROVE ListInv'
  OBVIOUS
<1>1. CASE ListNext
  BY <1>1, BulkOnSelection, SelectsListed, QueriesStay DEF ListInv, ListTypeOK
<1>2. CASE UNCHANGED listVars
  BY <1>2 DEF listVars, ListInv, ListTypeOK, SelectedShown, QueriesFit, Listed, Filters, OwnChangesStay
<1> QED
  BY <1>1, <1>2

\* Once a change of the page's own was answered, its list does not go back to one read before it,
\* however polls, searches and other sessions come between (useDomains' mutations).
THEOREM OwnChangesAreKept == ListSpec => []OwnChangesStay
<1>1. ListInv => OwnChangesStay
  BY DEF ListInv, QueriesFit
<1> QED
  BY ListInitially, ListInductive, <1>1, PTL DEF ListSpec

\* Bulk changes reach only what the table has shown under the filter the page set last.
THEOREM BulkIsInView == ListSpec => BulkWithinView
<1>1. ListInv /\ [ListNext]_listVars =>
        [\A m \in sent' \ sent :
           m.kind \in Bulk /\ m.answer = "none" => m.hosts \subseteq shown]_listVars
  <2> SUFFICES ASSUME ListInv, ListNext, NEW m \in sent' \ sent, m.kind \in Bulk, m.answer = "none"
               PROVE  m.hosts \subseteq shown
    OBVIOUS
  <2> QED
    BY BulkOnSelection DEF ListInv, SelectedShown
<1> QED
  BY ListInitially, ListInductive, <1>1, PTL DEF ListSpec, BulkWithinView

-----------------------------------------------------------------------------
(* The log *)

Event  == [type : {"open", "message"}, line : Nat]
Line   == [service : Services, number : Nat, first : BOOLEAN]
Stream == [service : Services, following : BOOLEAN, next : Nat, cut : BOOLEAN,
           wire : Seq(Event), ended : BOOLEAN]

LogTypeOK ==
  /\ logged \in [Services -> Nat] /\ service \in Services /\ seen \in Nat
  /\ lines \in Seq(Line)
  /\ stream # NoStream => stream \in Stream

\* The events on the wire: one that opens the stream comes first, and the lines follow one
\* another up to the next that the route will send,
InOrder(wire, next) ==
  \A i \in 1..Len(wire) :
    /\ wire[i].type = "open" => i = 1
    /\ wire[i].type = "message" => wire[i].line + (Len(wire) - i) + 1 = next

\* and once the stream is open they follow the last line that was shown of it.
FollowOn(s, last) ==
  s.following /\ (s.wire = <<>> \/ s.wire[1].type = "message") =>
    last = 0 \/ last + Len(s.wire) + 1 = s.next

Fits(s, last) ==
  /\ s.service = service
  /\ ~s.following => s.wire = <<>>
  /\ InOrder(s.wire, s.next) /\ FollowOn(s, last)

StreamFits == stream # NoStream => Fits(stream, seen)

LogInv == LogTypeOK /\ StreamFits /\ LogsUnbroken

LEMMA LogInitially == LogInit => LogInv
BY LogAssumption DEF LogInit, LogInv, LogTypeOK, StreamFits, LogsUnbroken

\* The ring keeps the last lines.
LEMMA RingKeeps ==
  ASSUME NEW all \in Seq(Line), all # <<>>
  PROVE  /\ Ring(all) \in Seq(Line) /\ Len(Ring(all)) \in 1..Len(all)
         /\ \A i \in 1..Len(Ring(all)) : Ring(all)[i] = all[i + (Len(all) - Len(Ring(all)))]
<1> DEFINE m == IF Len(all) > MAX_LINES THEN Len(all) - MAX_LINES + 1 ELSE 1
<1>1. m \in 1..Len(all)
  BY LogAssumption
<1>2. \A i \in m..Len(all) : all[i] \in Line
  BY <1>1
<1>3. Ring(all) = SubSeq(all, m, Len(all))
  BY DEF Ring
<1> HIDE DEF m
<1>4. /\ Ring(all) \in Seq(Line) /\ Len(Ring(all)) = Len(all) - m + 1
      /\ \A i \in 1..Len(all) - m + 1 : Ring(all)[i] = all[m + i - 1]
  BY <1>1, <1>2, <1>3, SubSeqProperties
<1> QED
  BY <1>1, <1>4

\* What the ring keeps ends where its input does, and neighbours stay neighbours.
Keeps(kept, all, d) ==
  /\ kept \in Seq(Line) /\ kept # <<>>
  /\ \A i \in 1..Len(kept) :
       /\ i + d \in 1..Len(all) /\ kept[i] = all[i + d]
       /\ i > 1 => kept[i - 1] = all[(i + d) - 1] /\ i + d > 1
  /\ kept[Len(kept)] = all[Len(all)]

LEMMA RingEnds ==
  ASSUME NEW all \in Seq(Line), all # <<>>
  PROVE  Keeps(Ring(all), all, Len(all) - Len(Ring(all)))
<1> PICK kept : kept = Ring(all)
  OBVIOUS
<1> PICK d : d = Len(all) - Len(kept)
  OBVIOUS
<1>1. /\ kept \in Seq(Line) /\ Len(kept) \in 1..Len(all)
      /\ \A i \in 1..Len(kept) : kept[i] = all[i + d]
  BY RingKeeps
<1> PICK k, a \in Nat : k = Len(kept) /\ a = Len(all)
  BY <1>1
<1>2. k \in 1..a /\ d = a - k
  BY <1>1
<1>3. \A i \in 1..k : i + d \in 1..a /\ (i > 1 => i - 1 \in 1..k /\ (i - 1) + d = (i + d) - 1 /\ i + d > 1)
  BY <1>2
<1>4. k \in 1..k /\ k + d = a /\ d \in Nat
  BY <1>2
<1>5. kept # <<>>
  BY <1>1
<1>6. \A i \in 1..k : kept[i] = all[i + d]
  BY <1>1
<1>7. ASSUME NEW i \in 1..k
      PROVE  /\ i + d \in 1..a /\ kept[i] = all[i + d]
             /\ i > 1 => kept[i - 1] = all[(i + d) - 1] /\ i + d > 1
  <2>1. i + d \in 1..a /\ kept[i] = all[i + d]
    BY <1>3, <1>6
  <2>2. i > 1 => kept[i - 1] = all[(i - 1) + d] /\ (i - 1) + d = (i + d) - 1 /\ i + d > 1
    BY <1>3, <1>6
  <2> QED
    BY <2>1, <2>2
<1>8. kept[k] = all[a]
  BY <1>4, <1>6
<1> QED
  BY <1>1, <1>4, <1>5, <1>7, <1>8 DEF Keeps

\* The stream moves on, and what is shown stays.
LEMMA StreamMoves ==
  ASSUME LogInv, NEW s \in Stream, stream' = s, Fits(s, seen), UNCHANGED <<logged, viewVars>>
  PROVE  LogInv'
BY DEF LogInv, LogTypeOK, StreamFits, Fits, LogsUnbroken, viewVars

LEMMA StreamRequested ==
  ASSUME LogInv, Request
  PROVE  LogInv'
<1> PICK s : s = [service |-> service, following |-> FALSE, next |-> 0, cut |-> FALSE,
                  wire |-> <<>>, ended |-> FALSE]
  OBVIOUS
<1>1. s \in Stream /\ Fits(s, seen)
  BY DEF LogInv, LogTypeOK, Stream, Fits, InOrder, FollowOn
<1>2. stream' = s /\ UNCHANGED <<logged, viewVars>>
  BY DEF Request
<1> QED
  BY <1>1, <1>2, StreamMoves

LEMMA Answered ==
  ASSUME LogInv, DockerAnswers
  PROVE  LogInv'
<1> USE DEF DockerAnswers
<1> PICK o \in Stream : o = stream
  BY DEF LogInv, LogTypeOK
<1> PICK n : n = IF logged[o.service] > History THEN logged[o.service] - History + 1 ELSE 1
  OBVIOUS
<1> PICK e : e = [type |-> "open", line |-> 0]
  OBVIOUS
<1> PICK s : s = [o EXCEPT !.following = TRUE, !.next = n, !.wire = <<e>>]
  OBVIOUS
<1>1. n \in Nat /\ e \in Event /\ e.type = "open"
  BY LogAssumption DEF LogInv, LogTypeOK, Stream, Event
<1>2. s = [service |-> o.service, following |-> TRUE, next |-> n, cut |-> o.cut,
           wire |-> <<e>>, ended |-> o.ended]
  BY DEF Stream
<1>3. <<e>> \in Seq(Event) /\ Len(<<e>>) = 1 /\ <<e>>[1] = e
  BY <1>1
<1>4. s \in Stream
  BY <1>1, <1>2, <1>3 DEF Stream
<1>5. o.service = service
  BY DEF LogInv, StreamFits, Fits
<1>6. Fits(s, seen)
  BY <1>1, <1>2, <1>3, <1>5 DEF Fits, InOrder, FollowOn
<1>7. stream' = s /\ UNCHANGED <<logged, viewVars>>
  OBVIOUS
<1> QED
  BY <1>4, <1>6, <1>7, StreamMoves

\* With the next line at its end too.
Grown(w, v, next) ==
  /\ w \in Seq(Event) /\ w # <<>> /\ Len(w) = Len(v) + 1 /\ InOrder(w, next + 1)
  /\ v = <<>> \/ w[1] = v[1]

LEMMA WireGrows ==
  ASSUME NEW v \in Seq(Event), NEW next \in Nat, InOrder(v, next),
         NEW e \in Event, e.type = "message", e.line = next
  PROVE  Grown(Append(v, e), v, next)
<1> PICK w : w = Append(v, e)
  OBVIOUS
<1>1. /\ w \in Seq(Event) /\ Len(w) = Len(v) + 1
      /\ \A i \in 1..Len(v) : w[i] = v[i]
      /\ w[Len(v) + 1] = e
  BY AppendProperties
<1>2. Len(v) \in Nat
  BY LenProperties
<1> PICK a \in Nat : a = Len(v)
  BY <1>2, Zenon
<1>3. InOrder(w, next + 1)
  <2> SUFFICES ASSUME NEW i \in 1..(a + 1)
               PROVE  /\ w[i].type = "open" => i = 1
                      /\ w[i].type = "message" => w[i].line + (a + 1 - i) + 1 = next + 1
    BY <1>1 DEF InOrder
  <2>1. CASE i = a + 1
    BY <1>1, <2>1
  <2>2. CASE i \in 1..a
    <3>1. v[i] \in Event
      BY <2>2, ElementOfSeq
    <3>2. v[i].line \in Nat
      BY <3>1 DEF Event
    <3> PICK l \in Nat : l = v[i].line
      BY <3>2, Zenon
    <3>3. /\ v[i].type = "open" => i = 1
          /\ v[i].type = "message" => l + (a - i) + 1 = next
      BY <2>2, Zenon DEF InOrder
    <3>4. l + (a + 1 - i) + 1 = l + (a - i) + 1 + 1
      BY <2>2
    <3>5. w[i] = v[i]
      BY <1>1, <2>2, Zenon
    <3> QED
      BY <3>3, <3>4, <3>5, Zenon
  <2> QED
    BY <2>1, <2>2
<1>4. v = <<>> \/ w[1] = v[1]
  <2>1. v # <<>> => 1 \in 1..Len(v)
    BY <1>2, EmptySeq
  <2> QED
    BY <1>1, <2>1, Zenon
<1>5. w # <<>>
  BY <1>1, <1>2
<1> QED
  BY <1>1, <1>3, <1>4, <1>5 DEF Grown

LEMMA Chunks ==
  ASSUME LogInv, Chunk
  PROVE  LogInv'
<1>a. /\ Streaming /\ UNCHANGED <<logged, viewVars>>
      /\ \/ stream' = [stream EXCEPT !.cut = TRUE]
         \/ stream' = [stream EXCEPT !.cut = FALSE, !.next = @ + 1,
              !.wire = Append(@, [type |-> "message", line |-> stream.next])]
  BY DEF Chunk
<1>o. PICK o \in Stream : o = stream
  BY <1>a DEF Streaming, LogInv, LogTypeOK
<1>0. Fits(o, seen) /\ o.following = TRUE /\ UNCHANGED <<logged, viewVars>>
  BY <1>a, <1>o DEF Streaming, LogInv, StreamFits, Stream
<1>1. CASE stream' = [stream EXCEPT !.cut = TRUE]
  <2>s. PICK s : s = [o EXCEPT !.cut = TRUE]
    OBVIOUS
  <2>1. s = [service |-> o.service, following |-> o.following, next |-> o.next, cut |-> TRUE,
             wire |-> o.wire, ended |-> o.ended]
    BY <2>s DEF Stream
  <2>2. s \in Stream
    BY <2>1 DEF Stream
  <2>3. Fits(s, seen)
    BY <1>0, <2>1 DEF Fits, FollowOn
  <2> QED
    BY <1>0, <1>1, <1>o, <2>s, <2>2, <2>3, StreamMoves
<1>2. CASE stream' = [stream EXCEPT !.cut = FALSE, !.next = @ + 1,
             !.wire = Append(@, [type |-> "message", line |-> stream.next])]
  <2>e. PICK e : e = [type |-> "message", line |-> o.next]
    OBVIOUS
  <2>w. PICK w : w = Append(o.wire, e)
    OBVIOUS
  <2>s. PICK s : s = [o EXCEPT !.cut = FALSE, !.next = o.next + 1, !.wire = w]
    OBVIOUS
  <2>1. o.wire \in Seq(Event) /\ o.next \in Nat
    BY DEF Stream
  <2>2. e \in Event /\ e.type = "message" /\ e.line = o.next
    BY <2>1, <2>e DEF Event
  <2>3. s = [service |-> o.service, following |-> o.following, next |-> o.next + 1, cut |-> FALSE,
             wire |-> w, ended |-> o.ended]
    BY <2>s DEF Stream
  <2>4. /\ w \in Seq(Event) /\ w # <<>> /\ Len(w) = Len(o.wire) + 1 /\ InOrder(w, o.next + 1)
        /\ o.wire = <<>> \/ w[1] = o.wire[1]
    <3>1. InOrder(o.wire, o.next)
      BY <1>0 DEF Fits
    <3>2. Grown(Append(o.wire, e), o.wire, o.next)
      BY <2>1, <2>2, <3>1, WireGrows, Zenon
    <3> QED
      BY <2>w, <3>2, Zenon DEF Grown
  <2>5. s \in Stream
    <3>1. /\ o.service \in Services /\ o.following \in BOOLEAN /\ o.ended \in BOOLEAN
          /\ o.next + 1 \in Nat
      BY <2>1 DEF Stream
    <3> QED
      BY <2>3, <2>4, <3>1 DEF Stream
  <2>6. FollowOn(s, seen)
    <3> SUFFICES ASSUME w[1].type = "message" PROVE seen = 0 \/ seen + Len(w) + 1 = o.next + 1
      BY <2>3, <2>4 DEF FollowOn
    <3>1. o.wire = <<>> \/ o.wire[1].type = "message"
      BY <2>4
    <3>2. seen = 0 \/ seen + Len(o.wire) + 1 = o.next
      BY <1>0, <3>1 DEF Fits, FollowOn
    <3> QED
      BY <2>1, <2>4, <3>2 DEF LogInv, LogTypeOK
  <2>7. Fits(s, seen)
    BY <1>0, <2>3, <2>4, <2>6 DEF Fits
  <2> QED
    BY <1>o, <2>e, <2>w, <2>s, <1>0, <1>2, <2>5, <2>7, StreamMoves
<1> QED
  BY <1>a, <1>1, <1>2

LEMMA Ends ==
  ASSUME LogInv, DockerEnds
  PROVE  LogInv'
<1> USE DEF DockerEnds
<1> PICK o \in Stream : o = stream
  BY DEF Streaming, LogInv, LogTypeOK
<1> PICK s : s = [o EXCEPT !.ended = TRUE]
  OBVIOUS
<1>1. s = [service |-> o.service, following |-> o.following, next |-> o.next, cut |-> o.cut,
           wire |-> o.wire, ended |-> TRUE]
  BY DEF Stream
<1>2. s \in Stream
  BY <1>1 DEF Stream
<1>3. Fits(s, seen)
  BY <1>1 DEF Fits, FollowOn, LogInv, StreamFits, Streaming
<1> QED
  BY <1>2, <1>3, StreamMoves

\* Without its head the wire is still in order, and says where the head was.
Shifted(w, v, next) ==
  /\ w \in Seq(Event) /\ Len(w) + 1 = Len(v) /\ InOrder(w, next)
  /\ v[1] \in Event /\ Head(v) = v[1]
  /\ w # <<>> => w[1].type = "message"
  /\ v[1].type = "message" => v[1].line + Len(w) + 1 = next
  /\ w # <<>> => w[1].line + Len(w) = next

LEMMA WireShifts ==
  ASSUME NEW v \in Seq(Event), v # <<>>, NEW next \in Nat, InOrder(v, next)
  PROVE  Shifted(Tail(v), v, next)
<1> PICK w : w = Tail(v)
  OBVIOUS
<1>1. /\ w \in Seq(Event) /\ Len(w) = Len(v) - 1 /\ \A i \in 1..Len(w) : w[i] = v[i + 1]
      /\ Head(v) = v[1]
  BY HeadTailProperties
<1>a. Len(v) \in Nat /\ Len(w) \in Nat
  BY <1>1, LenProperties
<1> PICK a, b \in Nat : a = Len(v) /\ b = Len(w)
  BY <1>a, Zenon
<1>2. b + 1 = a
  BY <1>1
<1>3. \A i \in 1..a : /\ v[i] \in Event /\ v[i].line \in Nat
                      /\ v[i].type \in {"open", "message"}
                      /\ v[i].type = "open" => i = 1
                      /\ v[i].type = "message" => v[i].line + (a - i) + 1 = next
  <2> SUFFICES ASSUME NEW i \in 1..a
               PROVE  /\ v[i] \in Event /\ v[i].line \in Nat
                      /\ v[i].type \in {"open", "message"}
                      /\ v[i].type = "open" => i = 1
                      /\ v[i].type = "message" => v[i].line + (a - i) + 1 = next
    OBVIOUS
  <2>1. v[i] \in Event
    BY ElementOfSeq
  <2>2. v[i].line \in Nat /\ v[i].type \in {"open", "message"}
    BY <2>1 DEF Event
  <2>3. /\ v[i].type = "open" => i = 1
        /\ v[i].type = "message" => v[i].line + (a - i) + 1 = next
    BY Zenon DEF InOrder
  <2> QED
    BY <2>1, <2>2, <2>3
<1>4. \A i \in 1..b : /\ w[i].type = "message" /\ w[i].line \in Nat
                      /\ w[i].line + (a - (i + 1)) + 1 = next
  <2> SUFFICES ASSUME NEW i \in 1..b
               PROVE  /\ w[i].type = "message" /\ w[i].line \in Nat
                      /\ w[i].line + (a - (i + 1)) + 1 = next
    OBVIOUS
  <2>1. w[i] = v[i + 1]
    BY <1>1
  <2> PICK j : j = i + 1
    OBVIOUS
  <2>2. j \in 1..a /\ j # 1
    BY <1>2
  <2>3. /\ v[j].type = "message" /\ v[j].line \in Nat
        /\ v[j].line + (a - j) + 1 = next
    <3>1. /\ v[j].line \in Nat /\ v[j].type \in {"open", "message"}
          /\ v[j].type = "open" => j = 1
          /\ v[j].type = "message" => v[j].line + (a - j) + 1 = next
      BY <1>3, <2>2, Zenon
    <3> QED
      BY <2>2, <3>1, Zenon
  <2> QED
    BY <2>1, <2>3, Zenon
<1>5. InOrder(w, next)
  <2> SUFFICES ASSUME NEW i \in 1..b
               PROVE  /\ w[i].type = "open" => i = 1
                      /\ w[i].type = "message" => w[i].line + (b - i) + 1 = next
    BY DEF InOrder
  <2> PICK l \in Nat : l = w[i].line
    BY <1>4
  <2>1. l + (a - (i + 1)) + 1 = next
    BY <1>4
  <2>2. l + (b - i) + 1 = next
    BY <1>2, <2>1
  <2> QED
    BY <1>4, <2>2
<1>6. w # <<>> => w[1].type = "message" /\ w[1].line + b = next
  <2> SUFFICES ASSUME w # <<>> PROVE w[1].type = "message" /\ w[1].line + b = next
    OBVIOUS
  <2>1. 1 \in 1..b
    BY <1>1
  <2> PICK l \in Nat : l = w[1].line
    BY <1>4, <2>1
  <2>2. l + (a - (1 + 1)) + 1 = next
    BY <1>4, <2>1
  <2>3. l + b = next
    BY <1>2, <2>2
  <2> QED
    BY <1>4, <2>1, <2>3
<1>7. v[1] \in Event /\ (v[1].type = "message" => v[1].line + b + 1 = next)
  <2>1. 1 \in 1..a
    BY <1>2
  <2>2. v[1] \in Event /\ v[1].line \in Nat /\ (v[1].type = "message" => v[1].line + (a - 1) + 1 = next)
    BY <1>3, <2>1, Zenon
  <2> PICK l \in Nat : l = v[1].line
    BY <2>2, Zenon
  <2>3. l + (a - 1) + 1 = l + b + 1
    BY <1>2
  <2> QED
    BY <2>2, <2>3, Zenon
<1> QED
  BY <1>1, <1>2, <1>5, <1>6, <1>7 DEF Shifted

\* The head of the wire is delivered.
LEMMA Delivered ==
  ASSUME NEW o \in Stream, NEW last \in Nat, Fits(o, last), o.wire # <<>>,
         NEW s, s = [o EXCEPT !.wire = Tail(@)]
  PROVE  /\ s \in Stream /\ s.service = o.service
         /\ o.wire[1] \in Event /\ Head(o.wire) = o.wire[1] /\ o.following
         /\ o.wire[1].type = "open" => Fits(s, 0)
         /\ o.wire[1].type = "message" =>
              /\ last = 0 \/ o.wire[1].line = last + 1
              /\ Fits(s, o.wire[1].line)
<1>w. PICK w : w = Tail(o.wire)
  OBVIOUS
<1>1. o.wire \in Seq(Event) /\ o.next \in Nat /\ o.following
  BY DEF Stream, Fits
<1>2. /\ w \in Seq(Event) /\ Len(w) + 1 = Len(o.wire) /\ InOrder(w, o.next)
      /\ o.wire[1] \in Event /\ Head(o.wire) = o.wire[1]
      /\ w # <<>> => w[1].type = "message"
      /\ o.wire[1].type = "message" => o.wire[1].line + Len(w) + 1 = o.next
      /\ w # <<>> => w[1].line + Len(w) = o.next
  <2>1. InOrder(o.wire, o.next)
    BY DEF Fits
  <2>2. Shifted(Tail(o.wire), o.wire, o.next)
    BY <1>1, <2>1, WireShifts, Zenon
  <2> QED
    BY <1>w, <2>2, Zenon DEF Shifted
<1>3. s = [service |-> o.service, following |-> o.following, next |-> o.next, cut |-> o.cut,
           wire |-> w, ended |-> o.ended]
  BY <1>w DEF Stream
<1>4. s \in Stream
  <2>1. /\ o.service \in Services /\ o.following \in BOOLEAN /\ o.next \in Nat
        /\ o.cut \in BOOLEAN /\ o.ended \in BOOLEAN
    BY DEF Stream
  <2>2. w \in Seq(Event)
    BY <1>2
  <2> QED
    BY <1>w, <1>3, <2>1, <2>2 DEF Stream
<1>5. o.wire[1].type = "message" => last = 0 \/ o.wire[1].line = last + 1
  <2> SUFFICES ASSUME o.wire[1].type = "message", last # 0 PROVE o.wire[1].line = last + 1
    OBVIOUS
  <2>1. last + Len(o.wire) + 1 = o.next
    BY <1>1 DEF Fits, FollowOn
  <2>2. o.wire[1].line \in Nat /\ Len(w) \in Nat
    BY <1>2 DEF Event
  <2> PICK l, b \in Nat : l = o.wire[1].line /\ b = Len(w)
    BY <2>2, Zenon
  <2>3. l + b + 1 = o.next /\ last + (b + 1) + 1 = o.next
    BY <1>2, <2>1, Zenon
  <2>4. l = last + 1
    BY <1>1, <2>3
  <2> QED
    BY <2>4, Zenon
<1>6. /\ o.wire[1].type = "open" => Fits(s, 0)
      /\ o.wire[1].type = "message" => Fits(s, o.wire[1].line)
  <2>1. s.service = o.service /\ s.wire = w /\ s.next = o.next /\ s.following
    BY <1>1, <1>3
  <2>2. o.service = service
    BY DEF Fits
  <2>3. FollowOn(s, 0)
    BY DEF FollowOn
  <2>4. o.wire[1].type = "message" => FollowOn(s, o.wire[1].line)
    BY <1>2, <2>1, Zenon DEF FollowOn
  <2> QED
    BY <1>2, <2>1, <2>2, <2>3, <2>4, Zenon DEF Fits
<1> QED
  BY <1>1, <1>2, <1>3, <1>4, <1>5, <1>6

LEMMA Opens ==
  ASSUME LogInv, OnOpen
  PROVE  LogInv'
<1> USE DEF OnOpen
<1> PICK o \in Stream : o = stream
  BY DEF LogInv, LogTypeOK
<1> PICK s : s = [o EXCEPT !.wire = Tail(@)]
  OBVIOUS
<1>1. Fits(o, seen) /\ o.wire # <<>> /\ seen \in Nat
  BY DEF LogInv, LogTypeOK, StreamFits
<1>2. s \in Stream /\ Fits(s, 0)
  BY <1>1, Delivered
<1>3. stream' = s /\ seen' = 0 /\ UNCHANGED <<logged, service, lines>>
  OBVIOUS
<1> QED
  BY <1>2, <1>3 DEF LogInv, LogTypeOK, StreamFits, Fits, LogsUnbroken

LEMMA MessageShows ==
  ASSUME LogInv, OnMessage
  PROVE  LogInv'
<1>0. /\ stream # NoStream /\ stream.wire # <<>> /\ Head(stream.wire).type = "message"
      /\ lines' = Ring(Append(lines, [service |-> stream.service,
                       number |-> Head(stream.wire).line, first |-> seen = 0]))
      /\ seen' = Head(stream.wire).line
      /\ stream' = [stream EXCEPT !.wire = Tail(@)]
      /\ UNCHANGED <<logged, service>>
  BY DEF OnMessage
<1>o. PICK o \in Stream : o = stream
  BY <1>0 DEF LogInv, LogTypeOK
<1>s. PICK s : s = [o EXCEPT !.wire = Tail(@)]
  OBVIOUS
<1>1. Fits(o, seen) /\ o.wire # <<>> /\ seen \in Nat
  BY <1>0, <1>o DEF LogInv, LogTypeOK, StreamFits
<1>n. PICK n : n = o.wire[1].line
  OBVIOUS
<1>2. s \in Stream /\ Fits(s, n) /\ (seen = 0 \/ n = seen + 1) /\ n \in Nat /\ Head(o.wire).line = n
  BY <1>0, <1>o, <1>s, <1>n, <1>1, Delivered DEF Event
<1>x. PICK x : x = [service |-> o.service, number |-> n, first |-> seen = 0]
  OBVIOUS
<1>3. x \in Line /\ x.service = service /\ x.number = n /\ (x.first <=> seen = 0)
  BY <1>x, <1>1, <1>2 DEF Line, Stream, Fits
<1>a. PICK all : all = Append(lines, x)
  OBVIOUS
<1>4. lines \in Seq(Line)
  BY DEF LogInv, LogTypeOK
<1>5. /\ all \in Seq(Line) /\ all # <<>> /\ Len(all) = Len(lines) + 1
      /\ \A i \in 1..Len(lines) : all[i] = lines[i]
      /\ all[Len(lines) + 1] = x
  BY <1>a, <1>3, <1>4, AppendProperties
<1>6. \A i \in 1..Len(all) :
        /\ all[i].service = service
        /\ i > 1 /\ ~all[i].first => all[i].number = all[i - 1].number + 1
  <2> SUFFICES ASSUME NEW i \in 1..Len(all)
               PROVE  /\ all[i].service = service
                      /\ i > 1 /\ ~all[i].first => all[i].number = all[i - 1].number + 1
    OBVIOUS
  <2>1. CASE i \in 1..Len(lines)
    BY <1>4, <1>5, <2>1 DEF LogInv, LogsUnbroken
  <2>2. CASE i = Len(lines) + 1
    <3>1. Len(lines) > 0 /\ seen # 0 => lines[Len(lines)].number = seen
      BY <1>4 DEF LogInv, LogsUnbroken, Last
    <3> QED
      BY <1>2, <1>3, <1>4, <1>5, <2>2, <3>1
  <2> QED
    BY <1>4, <1>5, <2>1, <2>2
<1>k. PICK kept : kept = Ring(all)
  OBVIOUS
<1>7. lines' = kept /\ stream' = s /\ seen' = n /\ UNCHANGED <<logged, service>>
  BY <1>0, <1>o, <1>s, <1>n, <1>x, <1>a, <1>k, <1>2
<1>d. PICK d : d = Len(all) - Len(kept)
  OBVIOUS
<1>8. Keeps(kept, all, d)
  <2>1. all \in Seq(Line) /\ all # <<>>
    BY <1>5
  <2>2. Keeps(Ring(all), all, Len(all) - Len(Ring(all)))
    BY <2>1, RingEnds, Zenon
  <2> QED
    BY <1>k, <1>d, <2>2, Zenon
<1>9. LogsUnbroken'
  <2>1. \A i \in DOMAIN kept :
           /\ kept[i].service = service
           /\ i > 1 /\ ~kept[i].first => kept[i].number = kept[i - 1].number + 1
    <3> SUFFICES ASSUME NEW i \in 1..Len(kept)
                 PROVE  /\ kept[i].service = service
                        /\ i > 1 /\ ~kept[i].first => kept[i].number = kept[i - 1].number + 1
      BY <1>8 DEF Keeps
    <3> PICK j : j = i + d
      OBVIOUS
    <3>1. /\ j \in 1..Len(all) /\ kept[i] = all[j]
          /\ i > 1 => kept[i - 1] = all[j - 1] /\ j > 1
      BY <1>8, Zenon DEF Keeps
    <3>2. /\ all[j].service = service
          /\ j > 1 /\ ~all[j].first => all[j].number = all[j - 1].number + 1
      BY <1>6, <3>1, Zenon
    <3> QED
      BY <3>1, <3>2, Zenon
  <2>2. Last(kept).number = n
    BY <1>3, <1>5, <1>8 DEF Last, Keeps
  <2> QED
    BY <1>7, <2>1, <2>2 DEF LogsUnbroken
<1> QED
  BY <1>2, <1>7, <1>8, <1>9 DEF LogInv, LogTypeOK, StreamFits, Fits, Keeps

LEMMA LogInductive == LogInv /\ [LogNext]_logVars => LogInv'
<1> SUFFICES ASSUME LogInv, [LogNext]_logVars PROVE LogInv'
  OBVIOUS
<1> USE DEF LogInv
<1>1. CASE OnErrorConnecting \/ OnErrorClosed
  BY <1>1 DEF OnErrorConnecting, OnErrorClosed, LogTypeOK, StreamFits, LogsUnbroken
<1>2. CASE Checked
  BY <1>2 DEF Checked, LogTypeOK, StreamFits, Fits, LogsUnbroken
<1>3. CASE ClearLines
  BY <1>3 DEF ClearLines, LogTypeOK, StreamFits, Fits, LogsUnbroken
<1>4. ASSUME NEW s \in Services, Effect(s) PROVE LogInv'
  BY <1>4 DEF Effect, LogTypeOK, StreamFits, LogsUnbroken
<1>5. ASSUME NEW s \in Services, SetService(s) PROVE LogInv'
  BY <1>4, <1>5 DEF SetService
<1>6. CASE Remount
  BY <1>4, <1>6, LogAssumption DEF Remount
<1>7. ASSUME NEW s \in Services, WriteLine(s) PROVE LogInv'
  <2>1. logged' \in [Services -> Nat]
    BY <1>7 DEF WriteLine, LogTypeOK
  <2> QED
    BY <1>7, <2>1 DEF WriteLine, viewVars, LogTypeOK, StreamFits, Fits, LogsUnbroken
<1>8. CASE UNCHANGED logVars
  BY <1>8 DEF logVars, LogTypeOK, StreamFits, Fits, LogsUnbroken
<1> QED
  BY <1>1, <1>2, <1>3, <1>5, <1>6, <1>7, <1>8, StreamRequested, Answered, Chunks, Ends, Opens,
     MessageShows
     DEF LogNext

\* The log shows lines of the selected service only, each followed by the one that its container
\* wrote next unless a stream begins there, for any length of history and ring
\* (useLogStream, routes/logs.ts).
THEOREM LogIsUnbroken == LogSpec => []LogsUnbroken
<1>1. LogInv => LogsUnbroken
  BY DEF LogInv
<1> QED
  BY LogInitially, LogInductive, <1>1, PTL DEF LogSpec

-----------------------------------------------------------------------------
(* The dialogs of a domain *)

\* The calls whose answer closes the dialog that they were made from.
Closing == {"header", "quick", "cache", "remove"}

Controls == Dialogs \cup {"toggle", "sync", "url"}

CallFits(c) ==
  /\ c = [by |-> c.by, target |-> c.target, round |-> c.round, live |-> c.live, stage |-> c.stage]
  /\ c.by \in Controls /\ c.live \in BOOLEAN /\ (c.stage = "refetch" => c.by = "refresh")

\* The dialog of a live call is open still, and the call is the only one of its kind:
ModalUntilAnswer ==
  \A c \in calls : c.live /\ c.by \in Closing =>
    /\ popup.by = c.by /\ popup.round = c.round
    /\ \A d \in calls : d.live /\ d.by \in Closing => d = c

\* and a live test is the last one.
LastTest == \A c \in calls : c.live /\ c.by = "test" => c.target = tested

DialogInv ==
  (\A c \in calls : CallFits(c)) /\ popup.by \in Dialogs \cup {"none"}
  /\ ModalUntilAnswer /\ LastTest /\ DialogsAsShown

LEMMA DialogInitially == DialogInit => DialogInv
BY DEF DialogInit, DialogInv, ModalUntilAnswer, LastTest, DialogsAsShown, NoPopup

\* While the dialog of a closing call is open and nothing of it is pending, there is none.
LEMMA NothingLive ==
  ASSUME DialogInv, ~IsPending(popup.by)
  PROVE  \A c \in calls : ~(c.live /\ c.by \in Closing)
BY DEF DialogInv, CallFits, ModalUntilAnswer, IsPending, Mutation, Closing

\* A call is sent.
LEMMA Sends ==
  ASSUME DialogInv, NEW s \in Controls, NEW target, Dispatch(s, target),
         s \in Closing => popup.by = s /\ ~IsPending(s)
  PROVE  /\ \A c \in calls' : CallFits(c)
         /\ \A c \in calls' : c.live /\ c.by \in Closing =>
              /\ popup.by = c.by /\ popup.round = c.round
              /\ \A d \in calls' : d.live /\ d.by \in Closing => d = c
         /\ \A c \in calls' \ calls : c.by = s /\ c.target = target
<1> PICK c : c = [by |-> s, target |-> target, round |-> popup.round, live |-> TRUE,
                  stage |-> "sent"]
  OBVIOUS
<1>1. calls' = calls \cup {c}
  BY DEF Dispatch
<1>2. CallFits(c) /\ c.by = s /\ c.target = target /\ c.round = popup.round
  BY DEF CallFits
<1>3. s \in Closing => \A d \in calls : ~(d.live /\ d.by \in Closing)
  BY NothingLive
<1> QED
  BY <1>1, <1>2, <1>3 DEF DialogInv, ModalUntilAnswer

\* The page moves, and takes the dialog and its calls along, or leaves both behind.
LEMMA Moves ==
  ASSUME DialogInv, NEW to, NEW cached, NEW those \in SUBSET calls, Moved(to, cached, those),
         stray' = stray
  PROVE  DialogInv'
<1> DEFINE Kept(s) == Stays(s, to, cached)
           Took(c) == [c EXCEPT !.live = c.live /\ Kept(c.by)]
<1>1. ASSUME NEW c \in those
      PROVE  /\ CallFits(Took(c)) /\ Took(c).by = c.by /\ Took(c).round = c.round
             /\ Took(c).target = c.target /\ (Took(c).live <=> c.live /\ Kept(c.by))
  <2>1. CallFits(c)
    BY DEF DialogInv
  <2> PICK k : k = (c.live /\ Kept(c.by))
    OBVIOUS
  <2>2. k \in BOOLEAN
    BY <2>1 DEF CallFits
  <2>3. [c EXCEPT !.live = k] = [by |-> c.by, target |-> c.target, round |-> c.round, live |-> k,
                                stage |-> c.stage]
    BY <2>1 DEF CallFits
  <2> QED
    BY <2>1, <2>2, <2>3 DEF CallFits
<1>2. calls' = {Took(c) : c \in those}
  BY DEF Moved
<1>3. /\ popup' = IF popup # NoPopup /\ Kept(popup.by) THEN popup ELSE NoPopup
      /\ result' = IF Kept("test") THEN result ELSE NoUrl
      /\ tested' = IF Kept("test") THEN tested ELSE NoUrl
  BY DEF Moved
<1> HIDE DEF Kept, Took
<1>4. \A c \in calls' : CallFits(c)
  BY <1>1, <1>2
<1>5. ModalUntilAnswer'
  BY <1>1, <1>2, <1>3 DEF DialogInv, ModalUntilAnswer, NoPopup, Closing
<1>6. LastTest'
  BY <1>1, <1>2, <1>3 DEF DialogInv, LastTest
<1> QED
  BY <1>3, <1>4, <1>5, <1>6 DEF DialogInv, DialogsAsShown, NoPopup

\* A call goes on to another stage.
LEMMA Proceeds ==
  ASSUME DialogInv, NEW c \in calls, NEW stage, stage = "refetch" => c.by = "refresh",
         calls' = At(c, stage), UNCHANGED <<popup, result, tested, stray>>
  PROVE  DialogInv'
<1> PICK n : n = [c EXCEPT !.stage = stage]
  OBVIOUS
<1>1. CallFits(c)
  BY DEF DialogInv
<1>2. n = [by |-> c.by, target |-> c.target, round |-> c.round, live |-> c.live, stage |-> stage]
  BY <1>1 DEF CallFits
<1>3. CallFits(n) /\ n.by = c.by /\ n.round = c.round /\ n.target = c.target /\ n.live = c.live
  BY <1>1, <1>2 DEF CallFits
<1>4. calls' = (calls \ {c}) \cup {n}
  BY DEF At
<1> QED
  BY <1>3, <1>4 DEF DialogInv, ModalUntilAnswer, LastTest, DialogsAsShown

\* A call is over.
LEMMA Over ==
  ASSUME DialogInv, NEW c \in calls, calls' = calls \ {c}, tested' = tested,
         \/ UNCHANGED <<popup, stray>>
         \/ c.by \in Closing /\ ClosesDialog(c),
         result' = result \/ (c.by = "test" /\ c.live /\ result' = c.target)
  PROVE  DialogInv'
<1>1. \A d \in calls' : CallFits(d)
  BY DEF DialogInv
<1>2. LastTest' /\ (result' # NoUrl => result' = tested')
  BY DEF DialogInv, LastTest, DialogsAsShown
<1>3. CASE UNCHANGED <<popup, stray>>
  BY <1>1, <1>2, <1>3 DEF DialogInv, ModalUntilAnswer, DialogsAsShown
<1>4. CASE c.by \in Closing /\ ClosesDialog(c)
  <2>1. ~stray'
    BY <1>4 DEF ClosesDialog, DialogInv, ModalUntilAnswer, DialogsAsShown
  <2>2. ModalUntilAnswer' /\ popup'.by \in Dialogs \cup {"none"}
    BY <1>4 DEF ClosesDialog, DialogInv, ModalUntilAnswer, NoPopup
  <2> QED
    BY <1>1, <1>2, <2>1, <2>2 DEF DialogInv, DialogsAsShown
<1> QED
  BY <1>3, <1>4

LEMMA DialogInductive == DialogInv /\ [DialogNext]_dialogVars => DialogInv'
<1> SUFFICES ASSUME DialogInv, [DialogNext]_dialogVars PROVE DialogInv'
  OBVIOUS
<1> USE DEF DialogInv
<1>1. CASE UNCHANGED dialogVars
  BY <1>1 DEF dialogVars, CallFits, ModalUntilAnswer, LastTest, DialogsAsShown
<1>2. CASE ClosePopup
  <2>1. \A c \in calls : ~(c.live /\ c.by \in Closing)
    BY <1>2, NothingLive DEF ClosePopup, Closable, ModalUntilAnswer, Closing
  <2> QED
    BY <1>2, <2>1 DEF ClosePopup, CallFits, ModalUntilAnswer, LastTest, DialogsAsShown, NoPopup
<1>3. CASE ConfirmPopup
  <2>1. popup.by \in Controls /\ popup.by # "test" /\ ~IsPending(popup.by)
    BY <1>3 DEF ConfirmPopup, Controls
  <2>2. \A c \in calls : ~(c.live /\ c.by \in Closing)
    BY <2>1, NothingLive
  <2>3. CASE UNCHANGED calls
    BY <1>3, <2>2, <2>3 DEF ConfirmPopup, CallFits, ModalUntilAnswer, LastTest, DialogsAsShown, NoPopup
  <2>4. CASE Dispatch(popup.by, Target(popup.by))
    <3>1. /\ \A c \in calls' : CallFits(c)
          /\ \A c \in calls' : c.live /\ c.by \in Closing =>
               /\ popup.by = c.by /\ popup.round = c.round
               /\ \A d \in calls' : d.live /\ d.by \in Closing => d = c
          /\ \A c \in calls' \ calls : c.by = popup.by
      BY <2>1, <2>4, Sends
    <3>2. CASE popup.by = "refresh"
      BY <1>3, <3>1, <3>2, <2>2 DEF ConfirmPopup, ModalUntilAnswer, LastTest, DialogsAsShown, NoPopup, Closing
    <3>3. CASE popup.by # "refresh"
      BY <1>3, <2>1, <3>1, <3>3 DEF ConfirmPopup, ModalUntilAnswer, LastTest, DialogsAsShown
    <3> QED
      BY <3>2, <3>3
  <2> QED
    BY <1>3, <2>3, <2>4 DEF ConfirmPopup
<1>4. CASE DomainRead
  <2>1. CASE UNCHANGED <<page, popup, pendingPurgeUrl, result, tested, calls>>
    BY <1>4, <2>1 DEF DomainRead, CallFits, ModalUntilAnswer, LastTest, DialogsAsShown
  <2>2. CASE Moved([host |-> ListPage, tab |-> "none"], FALSE, calls)
    BY <1>4, <2>2, Moves DEF DomainRead
  <2> QED
    BY <1>4, <2>1, <2>2 DEF DomainRead
<1>5. ASSUME NEW s \in Dialogs, OpenPopup(s) PROVE DialogInv'
  <2>1. \A c \in calls : ~(c.live /\ c.by \in Closing)
    BY <1>5 DEF OpenPopup, ModalUntilAnswer, NoPopup, Closing
  <2> QED
    BY <1>5, <2>1 DEF OpenPopup, CallFits, ModalUntilAnswer, LastTest, DialogsAsShown
<1>6. ASSUME NEW p \in DgPaths, HandleTest(p) PROVE DialogInv'
  <2>1. \A c \in calls : ~(c.live /\ c.by = "test")
    BY <1>6 DEF HandleTest, IsPending, CallFits, Mutation
  <2>2. /\ \A c \in calls' : CallFits(c)
        /\ \A c \in calls' : c.live /\ c.by \in Closing =>
             /\ popup.by = c.by /\ popup.round = c.round
             /\ \A d \in calls' : d.live /\ d.by \in Closing => d = c
        /\ \A c \in calls' \ calls : c.by = "test" /\ c.target = <<page.host, p>>
    BY <1>6, Sends DEF HandleTest, Closing, Controls, Dialogs
  <2> QED
    BY <1>6, <2>1, <2>2 DEF HandleTest, ModalUntilAnswer, LastTest, DialogsAsShown
<1>7. ASSUME NEW p \in DgPaths, SetPathInput(p) PROVE DialogInv'
  BY <1>7 DEF SetPathInput, CallFits, ModalUntilAnswer, LastTest, DialogsAsShown
<1>8. ASSUME NEW s \in {"toggle", "sync", "url"}, Press(s) PROVE DialogInv'
  <2>1. s \in Controls /\ s \notin Closing /\ s # "test"
    BY DEF Controls, Closing
  <2>2. /\ \A c \in calls' : CallFits(c)
        /\ \A c \in calls' : c.live /\ c.by \in Closing =>
             /\ popup.by = c.by /\ popup.round = c.round
             /\ \A d \in calls' : d.live /\ d.by \in Closing => d = c
        /\ \A c \in calls' \ calls : c.by = s
    BY <1>8, <2>1, Sends DEF Press
  <2> QED
    BY <1>8, <2>1, <2>2 DEF Press, ModalUntilAnswer, LastTest, DialogsAsShown
<1>9. ASSUME NEW to, NEW cached, GoBack(to, cached) PROVE DialogInv'
  BY <1>9, Moves DEF GoBack
<1>10. ASSUME NEW h, OtherRemoves(h) PROVE DialogInv'
  BY <1>10 DEF OtherRemoves, CallFits, ModalUntilAnswer, LastTest, DialogsAsShown
<1>11. ASSUME NEW c \in calls, Route(c) \/ RefreshAnswered(c) PROVE DialogInv'
  BY <1>11, Proceeds DEF Route, RefreshAnswered
<1>12. ASSUME NEW c \in calls, Removed(c) PROVE DialogInv'
  BY <1>12, Moves DEF Removed
<1>13. ASSUME NEW c \in calls,
              Purged(c) \/ Failed(c) \/ Pressed(c) \/ RefreshRefetched(c) \/ TestAnswered(c)
       PROVE  DialogInv'
  BY <1>13, Over DEF Purged, Failed, Pressed, RefreshRefetched, TestAnswered, Closing
<1> QED
  BY <1>1, <1>2, <1>3, <1>4, <1>5, <1>6, <1>7, <1>8, <1>9, <1>10, <1>11, <1>12, <1>13
     DEF DialogNext

\* No answer closes a dialog that was opened after its call, and the proxy test shows the last
\* result, for any hosts, paths and calls under way (DomainDetailPage, DomainCacheSection,
\* DomainQuickActions, DomainDiagnoseTab).
THEOREM DialogsStayAsShown == DialogSpec => []DialogsAsShown
<1>1. DialogInv => DialogsAsShown
  BY DEF DialogInv
<1> QED
  BY DialogInitially, DialogInductive, <1>1, PTL DEF DialogSpec

-----------------------------------------------------------------------------
(* The tables of a domain *)

TablesTypeOK ==
  /\ log \subseteq Requests /\ tab \in {"traffic", "optimizer"}
  /\ period \in [{"traffic", "optimizer"} -> TrafficPeriods]
  /\ tab = "traffic" =>
       /\ controls = [search |-> controls.search, debounced |-> controls.debounced,
                      errorsOnly |-> controls.errorsOnly, limit |-> controls.limit]
       /\ controls.limit \in Nat
  /\ tab = "optimizer" =>
       controls = [q |-> controls.q, sort |-> controls.sort, decision |-> controls.decision,
                   offset |-> controls.offset]

\* An answer is what its key asked for, of what was there then.
Answering(k, answer) == answer.of \subseteq Requests /\ answer.rows = Answers(k, answer.of).rows

AnswersTrue ==
  /\ \A k \in DOMAIN cache : Answering(k, cache[k])
  /\ \A k \in DOMAIN asked : Answering(k, asked[k].answer)

PageIsOfFilter == tab = "optimizer" /\ controls.offset # 0 => pagedFor = FilteredBy

TablesInv == TablesTypeOK /\ AnswersTrue /\ PageIsOfFilter

LEMMA TablesInitially == TablesInit => TablesInv
<1> SUFFICES ASSUME TablesInit PROVE TablesInv
  OBVIOUS
<1>1. AnswersTrue
  BY DEF TablesInit, AnswersTrue
<1>2. period \in [{"traffic", "optimizer"} -> TrafficPeriods] /\ log \subseteq Requests
  BY DEF TablesInit, TrafficPeriods
<1>3. CASE tab = "traffic"
  <2>1. controls = LogControls
    BY <1>3 DEF TablesInit
  <2> QED
    BY <1>1, <1>2, <1>3, <2>1 DEF TablesInv, TablesTypeOK, PageIsOfFilter, LogControls
<1>4. CASE tab = "optimizer"
  <2>1. controls = UrlControls
    BY <1>4 DEF TablesInit
  <2> QED
    BY <1>1, <1>2, <1>4, <2>1 DEF TablesInv, TablesTypeOK, PageIsOfFilter, UrlControls
<1> QED
  BY <1>3, <1>4 DEF TablesInit

\* What is newer than a request is less than what is newer than an earlier one: so no more than
\* n have fewer than n newer than they.
Newer(r, found) == {s \in found : s.time > r.time}

LEMMA NewestAreFew ==
  ASSUME NEW found \in SUBSET Requests, NEW n \in Nat
  PROVE  /\ IsFiniteSet({r \in found : Cardinality(Newer(r, found)) < n})
         /\ Cardinality({r \in found : Cardinality(Newer(r, found)) < n}) <= n
<1> DEFINE rank == [r \in found |-> Cardinality(Newer(r, found))]
           newest == {r \in found : rank[r] < n}
           f == [r \in newest |-> rank[r] + 1]
<1>1. \A r \in found : IsFiniteSet(Newer(r, found)) /\ rank[r] \in Nat
  BY RequestsAssumption, FS_Subset, FS_CardinalityType DEF Newer
<1>2. ASSUME NEW r \in found, NEW s \in found, r.time < s.time PROVE rank[s] < rank[r]
  <2>1. Newer(s, found) \subseteq Newer(r, found) \ {s}
    BY <1>2, RequestsAssumption DEF Newer
  <2>2. Newer(s, found) \subseteq Newer(r, found) /\ Newer(s, found) # Newer(r, found)
    BY <1>2, <2>1 DEF Newer
  <2>3. Cardinality(Newer(s, found)) <= Cardinality(Newer(r, found))
        /\ Cardinality(Newer(s, found)) # Cardinality(Newer(r, found))
    BY <1>1, <2>2, FS_Subset
  <2> QED
    BY <1>1, <2>3
<1>3. \A r, s \in found : rank[r] = rank[s] => r = s
  <2> SUFFICES ASSUME NEW r \in found, NEW s \in found, rank[r] = rank[s] PROVE r = s
    OBVIOUS
  <2>1. ~(r.time < s.time) /\ ~(s.time < r.time)
    BY <1>1, <1>2
  <2>2. r.time = s.time
    BY <2>1, RequestsAssumption
  <2> QED
    BY <2>2, RequestsAssumption
<1> HIDE DEF rank
<1>4. f \in [newest -> 1..n]
  BY <1>1
<1>5. \A r, s \in newest : f[r] = f[s] => r = s
  BY <1>1, <1>3
<1>6. f \in Injection(newest, 1..n)
  BY <1>4, <1>5 DEF Injection, IsInjective
<1>7. IsFiniteSet(1..n) /\ Cardinality(1..n) = n
  BY FS_Interval
<1>8. IsFiniteSet(newest) /\ Cardinality(newest) <= n
  BY <1>6, <1>7, FS_Injection
<1> QED
  BY <1>8 DEF rank
\* What the routes answer with.
LEMMA AnswerOf ==
  ASSUME NEW q, NEW present
  PROVE  /\ Answers(q, present).of = present
         /\ q.kind = "logs" => Answers(q, present).rows = Logs(present, q)
         /\ q.kind = "top" => Answers(q, present).rows = TopUrls(present, q)
         /\ q.kind = "urls" => Answers(q, present).rows = UrlPage(present, q)
BY DEF Answers

LEMMA Asks ==
  ASSUME TablesInv, NEW q, Ask(q)
  PROVE  AnswersTrue'
<1>1. PICK reached :
        asked' = [k \in DOMAIN asked \cup {q} |->
                    IF k # q THEN asked[k]
                    ELSE [failed |-> Refuses(q), answer |-> Answers(q, IF reached THEN log ELSE {})]]
  BY DEF Ask, QueryKey
<1>2. PICK a : a = Answers(q, IF reached THEN log ELSE {})
  OBVIOUS
<1>3. Answering(q, a)
  BY <1>2, AnswerOf DEF Answering, TablesInv, TablesTypeOK
<1>4. /\ \A k \in DOMAIN asked' : k = q \/ (k \in DOMAIN asked /\ asked'[k] = asked[k])
      /\ asked'[q].answer = a
  BY <1>1, <1>2
<1>5. cache' = cache
  BY DEF Ask
<1> QED
  BY <1>3, <1>4, <1>5 DEF TablesInv, AnswersTrue

LEMMA Arrival ==
  ASSUME TablesInv, NEW key \in DOMAIN asked, Arrives(key)
  PROVE  AnswersTrue'
<1>1. \A k \in DOMAIN asked' : k \in DOMAIN asked /\ asked'[k] = asked[k]
  BY DEF Arrives, Restrict
<1>2. \A k \in DOMAIN cache' :
        \/ k = key /\ cache'[k] = asked[key].answer
        \/ k \in DOMAIN cache /\ cache'[k] = cache[k]
  BY DEF Arrives
<1> QED
  BY <1>1, <1>2 DEF TablesInv, AnswersTrue

\* The controls of one kind of table change, and the answers stay.
LEMMA SameAnswers ==
  ASSUME TablesInv, UNCHANGED <<cache, asked>>
  PROVE  AnswersTrue'
BY DEF TablesInv, AnswersTrue

\* What the URL table is filtered by does not change with the offset.
LEMMA SameFilter ==
  ASSUME TablesInv, tab = "optimizer", tab' = tab,
         Effective(period'["optimizer"]) = Effective(period["optimizer"]),
         NEW n, controls' = [controls EXCEPT !.offset = n]
  PROVE  FilteredBy' = FilteredBy
<1>1. controls' = [q |-> controls.q, sort |-> controls.sort, decision |-> controls.decision,
                   offset |-> n]
  BY DEF TablesInv, TablesTypeOK
<1>2. [controls' EXCEPT !.offset = 0] = [controls EXCEPT !.offset = 0]
  BY <1>1 DEF TablesInv, TablesTypeOK
<1> QED
  BY <1>2 DEF FilteredBy

LEMMA TablesInductive == TablesInv /\ [TablesNext]_tableVars => TablesInv'
<1> SUFFICES ASSUME TablesInv, [TablesNext]_tableVars PROVE TablesInv'
  OBVIOUS
<1> USE DEF TablesInv
<1>1. CASE UNCHANGED tableVars
  BY <1>1 DEF tableVars, TablesTypeOK, AnswersTrue, PageIsOfFilter, FilteredBy
<1>2. ASSUME NEW q, Ask(q) PROVE TablesInv'
  BY <1>2, Asks DEF Ask, TablesTypeOK, PageIsOfFilter, FilteredBy
<1>3. ASSUME NEW key \in DOMAIN asked, Arrives(key) PROVE TablesInv'
  BY <1>3, Arrival DEF Arrives, TablesTypeOK, PageIsOfFilter, FilteredBy
<1>4. ASSUME NEW r \in Requests, Serves(r) PROVE TablesInv'
  BY <1>4, SameAnswers DEF Serves, TablesTypeOK, PageIsOfFilter, FilteredBy
<1>5. ASSUME DebounceEnds \/ ToggleErrors \/ HandleClearFilters \/ More
             \/ \E text : SetSearch(text)
      PROVE  TablesInv'
  <2>1. /\ tab = "traffic" /\ UNCHANGED <<log, tab, period, cache, asked>>
        /\ controls' = [search |-> controls'.search, debounced |-> controls'.debounced,
                        errorsOnly |-> controls'.errorsOnly, limit |-> controls'.limit]
        /\ controls'.limit \in Nat
    <3>1. tab = "traffic" /\ UNCHANGED <<log, tab, period, cache, asked>>
      BY <1>5 DEF DebounceEnds, ToggleErrors, HandleClearFilters, More, SetSearch, Sets, ControlsBecome
    <3> DEFINE Fine == /\ controls' = [search |-> controls'.search, debounced |-> controls'.debounced,
                                   errorsOnly |-> controls'.errorsOnly, limit |-> controls'.limit]
                       /\ controls'.limit \in Nat
    <3> PICK c : c = controls
      OBVIOUS
    <3>2. /\ c = [search |-> c.search, debounced |-> c.debounced, errorsOnly |-> c.errorsOnly,
                  limit |-> c.limit]
          /\ c.limit \in Nat
      BY <3>1 DEF TablesTypeOK
    <3>3. ASSUME DebounceEnds PROVE Fine
      BY <3>2, <3>3 DEF DebounceEnds
    <3>4. ASSUME ToggleErrors PROVE Fine
      BY <3>2, <3>4 DEF ToggleErrors, Sets, ControlsBecome
    <3>5. ASSUME HandleClearFilters PROVE Fine
      BY <3>2, <3>5 DEF HandleClearFilters, Sets, ControlsBecome
    <3>6. ASSUME More PROVE Fine
      BY <3>2, <3>6 DEF More, Sets, ControlsBecome
    <3>7. ASSUME NEW text, SetSearch(text) PROVE Fine
      BY <3>2, <3>7 DEF SetSearch, Sets, ControlsBecome
    <3> QED
      BY <1>5, <3>1, <3>3, <3>4, <3>5, <3>6, <3>7
  <2> QED
    BY <2>1, SameAnswers DEF TablesTypeOK, PageIsOfFilter
<1>6. ASSUME NEW new, SetUrlControl(new), tab = "optimizer" => 
        new = [q |-> new.q, sort |-> new.sort, decision |-> new.decision, offset |-> new.offset]
      PROVE  TablesInv'
  <2>1. /\ tab = "optimizer" /\ UNCHANGED <<log, tab, period, cache, asked>>
        /\ controls' = [q |-> new.q, sort |-> new.sort, decision |-> new.decision, offset |-> 0]
    BY <1>6 DEF SetUrlControl, Sets, ControlsBecome
  <2> QED
    BY <2>1, SameAnswers DEF TablesTypeOK, PageIsOfFilter
<1>7. ASSUME NEW p \in TrafficPeriods, SetPeriod(p) PROVE TablesInv'
  <2>1. /\ UNCHANGED <<log, tab, cache, asked, pagedFor>> /\ period' = [period EXCEPT ![tab] = p]
    BY <1>7 DEF SetPeriod, ControlsBecome
  <2>2. period' \in [{"traffic", "optimizer"} -> TrafficPeriods]
    BY <2>1 DEF TablesTypeOK
  <2>3. CASE tab = "traffic"
    <3>1. PICK n \in Nat : controls' = [controls EXCEPT !.limit = n]
      BY <1>7, <2>3 DEF SetPeriod, ControlsBecome, TablesTypeOK
    <3>2. controls' = [search |-> controls.search, debounced |-> controls.debounced,
                       errorsOnly |-> controls.errorsOnly, limit |-> n]
      BY <2>3, <3>1 DEF TablesTypeOK
    <3> QED
      BY <2>1, <2>2, <2>3, <3>2, SameAnswers DEF TablesTypeOK, PageIsOfFilter
  <2>4. CASE tab = "optimizer"
    <3>1. PICK n : /\ controls' = [controls EXCEPT !.offset = n]
                   /\ n = IF Effective(p) = Effective(period[tab]) THEN controls.offset ELSE 0
      BY <1>7, <2>4 DEF SetPeriod, ControlsBecome
    <3>2. controls' = [q |-> controls.q, sort |-> controls.sort, decision |-> controls.decision,
                       offset |-> n]
      BY <2>4, <3>1 DEF TablesTypeOK
    <3>3. period'["optimizer"] = p
      BY <2>1, <2>4 DEF TablesTypeOK
    <3>4. PageIsOfFilter'
      <4>1. CASE Effective(p) = Effective(period[tab])
        <5>1. FilteredBy' = FilteredBy
          BY <2>1, <2>4, <3>1, <3>3, <4>1, SameFilter
        <5> QED
          BY <2>1, <2>4, <3>1, <3>2, <4>1, <5>1 DEF PageIsOfFilter
      <4>2. CASE Effective(p) # Effective(period[tab])
        BY <3>1, <3>2, <4>2 DEF PageIsOfFilter
      <4> QED
        BY <4>1, <4>2
    <3> QED
      BY <2>1, <2>2, <2>4, <3>2, <3>4, SameAnswers DEF TablesTypeOK
  <2> QED
    BY <2>3, <2>4 DEF TablesTypeOK
<1>8. ASSUME NEW by, TurnPage(by) PROVE TablesInv'
  <2>1. PICK n : controls' = [controls EXCEPT !.offset = n]
    BY <1>8 DEF TurnPage, ControlsBecome
  <2>2. /\ tab = "optimizer" /\ UNCHANGED <<log, tab, period, cache, asked>>
        /\ pagedFor' = FilteredBy
    BY <1>8 DEF TurnPage, ControlsBecome
  <2>3. controls' = [q |-> controls.q, sort |-> controls.sort, decision |-> controls.decision,
                     offset |-> n]
    BY <2>1, <2>2 DEF TablesTypeOK
  <2>4. FilteredBy' = FilteredBy
    BY <2>1, <2>2, SameFilter
  <2> QED
    BY <2>2, <2>3, <2>4, SameAnswers DEF TablesTypeOK, PageIsOfFilter
<1>9. ASSUME NEW t \in {"traffic", "optimizer"}, SelectTab(t) PROVE TablesInv'
  <2>1. /\ UNCHANGED <<log, period, cache, asked>> /\ tab' = t
        /\ controls' = IF t = "traffic" THEN LogControls ELSE UrlControls
    BY <1>9 DEF SelectTab, ControlsBecome
  <2> QED
    BY <2>1, SameAnswers DEF TablesTypeOK, PageIsOfFilter, LogControls, UrlControls
<1>10. ASSUME NEW h, NEW remounts, ShowHost(h, remounts) PROVE TablesInv'
  <2>1. /\ UNCHANGED <<log, tab, period, cache, asked, pagedFor>>
        /\ \/ controls' = controls
           \/ controls' = IF tab = "traffic" THEN LogControls ELSE UrlControls
    BY <1>10 DEF ShowHost
  <2>2. CASE controls' = controls
    BY <2>1, <2>2, SameAnswers DEF TablesTypeOK, PageIsOfFilter, FilteredBy
  <2>3. CASE controls' = IF tab = "traffic" THEN LogControls ELSE UrlControls
    BY <2>1, <2>3, SameAnswers DEF TablesTypeOK, PageIsOfFilter, LogControls, UrlControls
  <2> QED
    BY <2>1, <2>2, <2>3
<1>11. ASSUME tab = "optimizer", NEW new, SetUrlControl(new),
              \E v, w : \/ new = [controls EXCEPT !.q = v] \/ new = [controls EXCEPT !.sort = v]
                       \/ new = [controls EXCEPT !.decision = v]
                       \/ new = [controls EXCEPT !.q = v, !.decision = w]
       PROVE  TablesInv'
  <2>1. new = [q |-> new.q, sort |-> new.sort, decision |-> new.decision, offset |-> new.offset]
    BY <1>11 DEF TablesTypeOK
  <2> QED
    BY <1>6, <1>11, <2>1
<1> QED
  BY <1>1, <1>2, <1>3, <1>4, <1>5, <1>7, <1>8, <1>9, <1>10, <1>11 DEF TablesNext

\* What is held under the keys of the tables on the page.
LEMMA RowsHeld ==
  ASSUME TablesInv
  PROVE  /\ LogQuery \in DOMAIN cache =>
              /\ cache[LogQuery].of \subseteq Requests
              /\ LogData = Logs(cache[LogQuery].of, LogQuery)
         /\ LogQuery \notin DOMAIN cache => LogData = {}
         /\ TopQuery \in DOMAIN cache => cache[TopQuery].rows = TopUrls(cache[TopQuery].of, TopQuery)
         /\ UrlQuery \in DOMAIN cache => UrlShown = UrlPage(cache[UrlQuery].of, UrlQuery)
<1>1. LogQuery.kind = "logs" /\ TopQuery.kind = "top" /\ UrlQuery.kind = "urls"
  BY DEF LogQuery, TopQuery, UrlQuery
<1>2. \A k \in DOMAIN cache : Answering(k, cache[k])
  BY DEF TablesInv, AnswersTrue
<1>3. \A k \in DOMAIN cache :
        /\ cache[k].of \subseteq Requests
        /\ k.kind = "logs" => cache[k].rows = Logs(cache[k].of, k)
        /\ k.kind = "top" => cache[k].rows = TopUrls(cache[k].of, k)
        /\ k.kind = "urls" => cache[k].rows = UrlPage(cache[k].of, k)
  BY <1>2, AnswerOf DEF Answering
<1> QED
  BY <1>1, <1>3 DEF LogData, UrlShown, QueryKey

\* The rows of the log.
LEMMA LogRows ==
  ASSUME TablesInv, tab = "traffic"
  PROVE  /\ \A r \in LogShown :
              /\ r.host = hostShown /\ Covers(period["traffic"], r)
              /\ controls.errorsOnly => r.error
         /\ Cardinality(LogShown) <= controls.limit
         /\ LogQuery \in DOMAIN cache /\ controls.debounced = controls.search =>
              LogShown = Logs(cache[LogQuery].of, LogQuery)
<1>1. LogShown \subseteq LogData /\ \A r \in LogData : PathHas(r.path, controls.search) => r \in LogShown
  BY DEF LogShown
<1>2. controls.limit \in Nat
  BY DEF TablesInv, TablesTypeOK
<1>3. CASE LogQuery \notin DOMAIN cache
  <2>1. LogShown = {}
    BY <1>1, <1>3, RowsHeld
  <2> QED
    BY <1>2, <1>3, <2>1, FS_EmptySet
<1>4. CASE LogQuery \in DOMAIN cache
  <2> PICK q : q = LogQuery
    OBVIOUS
  <2>1. /\ q.host = hostShown /\ q.period = period["traffic"] /\ q.q = controls.debounced
        /\ (q.errors <=> controls.errorsOnly) /\ q.limit = controls.limit
    BY DEF LogQuery
  <2> PICK present : present = cache[LogQuery].of
    OBVIOUS
  <2>2. present \subseteq Requests /\ LogData = Logs(present, q)
    BY <1>4, RowsHeld
  <2> PICK found : found = {r \in OfHost(present, q) : (q.errors => r.error) /\ PathHas(r.path, q.q)}
    OBVIOUS
  <2>3. LogData = {r \in found : Cardinality(Newer(r, found)) < q.limit}
    BY <2>2 DEF Logs, Newer
  <2>4. \A r \in found : /\ r \in Requests /\ r.host = q.host /\ Covers(q.period, r)
                       /\ (q.errors => r.error) /\ PathHas(r.path, q.q)
    BY <2>2 DEF OfHost
  <2>5. LogData \subseteq found
    BY <2>3
  <2>6. IsFiniteSet(LogData) /\ Cardinality(LogData) <= q.limit
    <3>1. found \in SUBSET Requests /\ q.limit \in Nat
      BY <1>2, <2>1, <2>4
    <3>2. /\ IsFiniteSet({r \in found : Cardinality(Newer(r, found)) < q.limit})
          /\ Cardinality({r \in found : Cardinality(Newer(r, found)) < q.limit}) <= q.limit
      BY <3>1, NewestAreFew, Zenon
    <3> QED
      BY <2>3, <3>2, Zenon
  <2>7. Cardinality(LogShown) <= controls.limit
    BY <1>1, <1>2, <2>1, <2>6, FS_Subset, FS_CardinalityType
  <2>8. controls.debounced = controls.search => LogShown = LogData
    BY <1>1, <2>1, <2>4, <2>5
  <2> QED
    BY <1>1, <2>1, <2>2, <2>4, <2>5, <2>7, <2>8
<1> QED
  BY <1>3, <1>4

LEMMA TablesAreRight == TablesInv => RowsMatchControls
<1> SUFFICES ASSUME TablesInv PROVE RowsMatchControls
  OBVIOUS
<1>1. ASSUME tab = "traffic", TopQuery \in DOMAIN cache, NEW r \in cache[TopQuery].rows
      PROVE  r.host = hostShown /\ Covers(period["traffic"], r)
  <2>1. TopQuery.host = hostShown /\ TopQuery.period = period["traffic"]
    BY DEF TopQuery
  <2>2. r \in OfHost(cache[TopQuery].of, TopQuery)
    BY <1>1, RowsHeld DEF TopUrls
  <2> QED
    BY <2>1, <2>2 DEF OfHost
<1>2. tab = "optimizer" => (controls.offset # 0 => pagedFor = FilteredBy)
  BY DEF TablesInv, PageIsOfFilter
<1> QED
  BY <1>1, <1>2, RowsHeld, LogRows DEF RowsMatchControls, QueryKey

\* The tables of a domain show what their controls say: rows of the host, the period, the search and
\* the filters, no more of the log than was asked for, and never a page that was turned to under
\* other filters, whatever answers come late (DomainTrafficTab, DomainOptimizerTab).
THEOREM TablesMatchControls == TablesSpec => []RowsMatchControls
BY TablesInitially, TablesInductive, TablesAreRight, PTL DEF TablesSpec

-----------------------------------------------------------------------------
(* The addresses of the pages *)

LEMMA GetOfPut ==
  \A a, key, value, k, default :
    Get(Put(a, key, value), k, default) = IF k = key THEN value ELSE Get(a, k, default)
BY DEF Put, Get

LEMMA GetOfDrop ==
  \A a, keys, k, default :
    Get(Drop(a, keys), k, default) = IF k \in keys THEN default ELSE Get(a, k, default)
BY DEF Drop, Get

LEMMA TabsAre ==
  /\ DOMAIN Tabs = {"domain", "dns", "audit", "system"}
  /\ Tabs["domain"] = {"overview", "optimizer", "traffic", "diagnose", "settings"}
  /\ Tabs["dns"] = {"records", "stats", "queries"} /\ Tabs["audit"] = {} /\ Tabs["system"] = {}
  /\ FirstTab["domain"] = "overview" /\ FirstTab["dns"] = "records"
  /\ FirstTab["audit"] = "none" /\ FirstTab["system"] = "none"
BY DEF Tabs, FirstTab

\* A period is read from what its keys give,
LEMMA PeriodByKeys ==
  ASSUME NEW a, NumbersFit(a), NEW p \in TabPrefixes
  PROVE  ReadPeriod(a, p) =
           IF OneOf(a, PeriodKey(p), Presets \cup {"custom"}, "24h") = "custom" /\ ValidRange(a, p)
           THEN Value("custom", Get(a, FromKey(p), 0), Get(a, ToKey(p), 0))
           ELSE Value(OneOf(a, PeriodKey(p), Presets \cup {"custom"}, "24h"), 0, 0)
<1>1. ASSUME ValidRange(a, p) PROVE FromKey(p) \in DOMAIN a /\ ToKey(p) \in DOMAIN a
  BY <1>1 DEF ValidRange, Get, NumbersFit
<1> QED
  BY <1>1 DEF ReadPeriod, Get

\* so addresses that give the same show the same period.
LEMMA SamePeriod ==
  ASSUME NEW a, NumbersFit(a), NEW b, NumbersFit(b), NEW p \in TabPrefixes,
         Get(a, PeriodKey(p), "24h") = Get(b, PeriodKey(p), "24h"),
         Get(a, FromKey(p), 0) = Get(b, FromKey(p), 0), Get(a, ToKey(p), 0) = Get(b, ToKey(p), 0)
  PROVE  ReadPeriod(a, p) = ReadPeriod(b, p)
BY PeriodByKeys DEF OneOf, ValidRange

\* Two addresses that give the same for some keys.
Agree(a, b, keys) == \A k \in keys : \A default : Get(a, k, default) = Get(b, k, default)

PeriodKeys(p) == {PeriodKey(p), FromKey(p), ToKey(p)}
DomainKeys ==
  {"tab", "path", "dgRange"} \cup UNION {PeriodKeys(p) \cup {RefreshKey(p)} : p \in TabPrefixes}

\* A correction of a period's keys does not change what the page of a domain shows of it.
LEMMA PeriodCorrected ==
  ASSUME NEW a, NumbersFit(a), NEW p \in TabPrefixes, NEW b, NumbersFit(b),
         \A k \in PeriodKeys(p) : \A default :
           Get(b, k, default) = IF k \in BadPeriod(a, p) THEN default ELSE Get(a, k, default)
  PROVE  ReadPeriod(b, p) = ReadPeriod(a, p)
<1> USE PeriodByKeys DEF OneOf, PeriodKeys
<1>1. CASE Get(a, PeriodKey(p), "24h") \notin Presets \cup {"custom"}
  <2>1. BadPeriod(a, p) = PeriodKeys(p)
    BY <1>1 DEF BadPeriod, Dates
  <2>2. Get(b, PeriodKey(p), "24h") = "24h"
    BY <2>1
  <2> QED
    BY <1>1, <2>2 DEF Presets
<1>2. CASE /\ Get(a, PeriodKey(p), "24h") = "custom"
           /\ Dates(p) \cap DOMAIN a # {} /\ ~ValidRange(a, p)
  <2>1. BadPeriod(a, p) = Dates(p)
    BY <1>2 DEF BadPeriod
  <2>2. PeriodKey(p) \notin Dates(p)
    BY DEF Dates, PeriodKey, FromKey, ToKey
  <2>3. Get(b, PeriodKey(p), "24h") = "custom"
    BY <1>2, <2>1, <2>2
  <2>4. ~ValidRange(b, p)
    BY <2>1 DEF ValidRange, Dates
  <2> QED
    BY <1>2, <2>3, <2>4
<1>3. CASE /\ Get(a, PeriodKey(p), "24h") \in Presets \cup {"custom"}
           /\ ~(/\ Get(a, PeriodKey(p), "24h") = "custom"
                /\ Dates(p) \cap DOMAIN a # {} /\ ~ValidRange(a, p))
  <2>1. BadPeriod(a, p) = {}
    BY <1>3 DEF BadPeriod
  <2> QED
    BY <2>1, SamePeriod
<1> QED
  BY <1>1, <1>2, <1>3

NumberKeys == {"page", "opFrom", "opTo", "tfFrom", "tfTo"}

LEMMA NumbersStay ==
  ASSUME NEW a, NumbersFit(a)
  PROVE  /\ \A keys : NumbersFit(Drop(a, keys))
         /\ \A key, value : key \notin NumberKeys => NumbersFit(Put(a, key, value))
         /\ \A key, value : value \in Int \ {1} => NumbersFit(Put(a, key, value))
BY GetOfDrop, GetOfPut DEF NumbersFit, NumberKeys, TabPrefixes, FromKey, ToKey

LEMMA SameOnDomain ==
  ASSUME NEW a, NEW b, TabOn("domain", a) = TabOn("domain", b),
         \A p \in TabPrefixes : ReadPeriod(a, p) = ReadPeriod(b, p) /\ ReadRefresh(a, p) = ReadRefresh(b, p),
         Get(a, "path", "") = Get(b, "path", ""),
         OneOf(a, "dgRange", Ranges, "1h") = OneOf(b, "dgRange", Ranges, "1h")
  PROVE  OnDomain(a) = OnDomain(b)
<1>1. /\ [p \in TabPrefixes |-> ReadPeriod(a, p)] = [p \in TabPrefixes |-> ReadPeriod(b, p)]
      /\ [p \in TabPrefixes |-> ReadRefresh(a, p)] = [p \in TabPrefixes |-> ReadRefresh(b, p)]
  OBVIOUS
<1> QED
  BY <1>1 DEF OnDomain

\* The corrections of each page leave what it shows.
LEMMA DomainCorrected ==
  ASSUME screen = "domain", NEW a, NumbersFit(a)
  PROVE  OnDomain(Drop(a, BadKeys(a))) = OnDomain(a)
<1> DEFINE b == Drop(a, BadKeys(a))
<1>1. BadKeys(a) = BadTab(a) \cup BadPeriod(a, "op") \cup BadPeriod(a, "tf")
  BY DEF BadKeys
<1>2. BadTab(a) \subseteq {"tab"} /\ BadPeriod(a, "op") \subseteq PeriodKeys("op")
                                  /\ BadPeriod(a, "tf") \subseteq PeriodKeys("tf")
  BY DEF BadTab, BadPeriod, PeriodKeys, Dates
<1>3. NumbersFit(b)
  BY NumbersStay
<1>4. \A k, default : Get(b, k, default) = IF k \in BadKeys(a) THEN default ELSE Get(a, k, default)
  BY GetOfDrop
<1> HIDE DEF b
<1>5. TabOn("domain", a) = TabOn("domain", b)
  <2>1. "tab" \in BadKeys(a) <=> Get(a, "tab", "overview") \notin Tabs["domain"]
    BY <1>1, <1>2, TabsAre DEF BadTab, PeriodKeys, PeriodKey, FromKey, ToKey
  <2> QED
    BY <1>4, <2>1, TabsAre DEF TabOn, OneOf
<1>6. ASSUME NEW p \in TabPrefixes PROVE ReadPeriod(a, p) = ReadPeriod(b, p)
  <2>1. \A k \in PeriodKeys(p) : k \in BadKeys(a) <=> k \in BadPeriod(a, p)
    BY <1>1, <1>2 DEF PeriodKeys, PeriodKey, FromKey, ToKey, TabPrefixes
  <2> QED
    BY <1>3, <1>4, <2>1, PeriodCorrected
<1>7. "path" \notin BadKeys(a) /\ "dgRange" \notin BadKeys(a)
      /\ \A p \in TabPrefixes : RefreshKey(p) \notin BadKeys(a)
  BY <1>1, <1>2 DEF PeriodKeys, PeriodKey, FromKey, ToKey, RefreshKey, TabPrefixes
<1>8. \A p \in TabPrefixes : ReadRefresh(a, p) = ReadRefresh(b, p)
  BY <1>4, <1>7 DEF ReadRefresh, OneOf
<1>9. OneOf(a, "dgRange", Ranges, "1h") = OneOf(b, "dgRange", Ranges, "1h")
      /\ Get(a, "path", "") = Get(b, "path", "")
  BY <1>4, <1>7 DEF OneOf
<1> QED
  BY <1>5, <1>6, <1>8, <1>9, SameOnDomain DEF b

LEMMA DnsCorrected ==
  ASSUME screen = "dns", NEW a
  PROVE  OnDns(Drop(a, BadKeys(a))) = OnDns(a)
<1> DEFINE b == Drop(a, BadKeys(a))
<1>1. \A k, default : Get(b, k, default) = IF k \in BadKeys(a) THEN default ELSE Get(a, k, default)
  BY GetOfDrop
<1> HIDE DEF b
<1>2. /\ "tab" \in BadKeys(a) <=> Get(a, "tab", "records") \notin Tabs["dns"]
      /\ "range" \in BadKeys(a) <=> Get(a, "range", "1h") \notin StatsRanges
      /\ "result" \in BadKeys(a) <=> Get(a, "result", {}) # {} /\ a["result"] \cap Results = {}
      /\ "q" \notin BadKeys(a)
  BY TabsAre DEF BadKeys, BadTab
<1>3. TabOn("dns", a) = TabOn("dns", b)
  BY <1>1, <1>2, TabsAre DEF TabOn, OneOf
<1>4. OneOf(a, "range", StatsRanges, "1h") = OneOf(b, "range", StatsRanges, "1h")
  BY <1>1, <1>2 DEF OneOf, StatsRanges
<1>5. ParseResultFilter(a) = ParseResultFilter(b)
  <2>1. CASE "result" \in BadKeys(a)
    <3>1. Get(a, "result", Results) = a["result"] /\ a["result"] # {} /\ a["result"] \cap Results = {}
      BY <1>2, <2>1 DEF Get
    <3>2. ParseResultFilter(a) = Results
      BY <3>1 DEF ParseResultFilter
    <3>3. Get(b, "result", Results) = Results
      BY <1>1, <2>1
    <3>4. ParseResultFilter(b) = Results
      BY <3>3 DEF ParseResultFilter, Results
    <3> QED
      BY <3>2, <3>4
  <2>2. CASE "result" \notin BadKeys(a)
    BY <1>1, <2>2 DEF ParseResultFilter
  <2> QED
    BY <2>1, <2>2
<1>6. Get(a, "q", "") = Get(b, "q", "")
  BY <1>1, <1>2
<1>7. OnDns(b) = OnDns(a)
  BY <1>3, <1>4, <1>5, <1>6 DEF OnDns
<1> QED
  BY <1>7 DEF b

\* What an address shows, as a function of the page and of the certificates.
ShownOn(s, c, a) ==
  CASE s = "domain" -> OnDomain(a)
    [] s = "dns"    -> OnDns(a)
    [] s = "audit"  -> OnAudit(a)
    [] OTHER -> [certQ |-> IF c = "few" THEN "" ELSE Get(a, "certQ", "")]

LEMMA MeaningIsShows == \A a : Meaning(a) = ShownOn(screen, certificates, a)
BY DEF Meaning, ShownOn

\* What the pages show, field by field.
DomainShown(t, p, r, x, y) == [tab |-> t, period |-> p, refresh |-> r, path |-> x, range |-> y]

\* The updates of what the user has chosen.
WithValue(f, k, v)  == [f EXCEPT ![k] = v]
WithTab(c, v)       == [c EXCEPT !.tab = v]
WithFields(c, v, w) == [c EXCEPT !.path = v, !.range = w]
WithPeriod(c, k, v) == [c EXCEPT !.period[k] = v]
WithRefresh(c, k, v) == [c EXCEPT !.refresh[k] = v]
WithRange(c, v)     == [c EXCEPT !.range = v]
WithQ(c, v)         == [c EXCEPT !.q = v]
WithResult(c, v)    == [c EXCEPT !.result = v]
WithPage(c, v)      == [c EXCEPT !.page = v]

LEMMA DomainFields ==
  \A t, p, r, x, y :
    /\ \A v : WithTab(DomainShown(t, p, r, x, y), v) = DomainShown(v, p, r, x, y)
    /\ \A v, w : WithFields(DomainShown(t, p, r, x, y), v, w) = DomainShown(t, p, r, v, w)
    /\ \A k, v : WithPeriod(DomainShown(t, p, r, x, y), k, v) = DomainShown(t, WithValue(p, k, v), r, x, y)
    /\ \A k, v : WithRefresh(DomainShown(t, p, r, x, y), k, v) = DomainShown(t, p, WithValue(r, k, v), x, y)
<1> TAKE t, p, r, x, y
<1> DEFINE c == DomainShown(t, p, r, x, y)
<1>1. ASSUME NEW T, NEW f \in [tab : T, period : T, refresh : T, path : T, range : T],
                    NEW g \in [tab : T, period : T, refresh : T, path : T, range : T],
             f.tab = g.tab, f.period = g.period, f.refresh = g.refresh, f.path = g.path, f.range = g.range
      PROVE  f = g
  BY <1>1
<1>2. ASSUME NEW v, NEW w, NEW k
      PROVE  /\ [c EXCEPT !.tab = v] = DomainShown(v, p, r, x, y)
             /\ [c EXCEPT !.path = v, !.range = w] = DomainShown(t, p, r, v, w)
             /\ [c EXCEPT !.period[k] = v] = DomainShown(t, [p EXCEPT ![k] = v], r, x, y)
             /\ [c EXCEPT !.refresh[k] = v] = DomainShown(t, p, [r EXCEPT ![k] = v], x, y)
  <2>1. PICK T : {t, p, r, x, y, v, w, [p EXCEPT ![k] = v], [r EXCEPT ![k] = v]} \subseteq T
    OBVIOUS
  <2> DEFINE R == [tab : T, period : T, refresh : T, path : T, range : T]
  <2>2. /\ c \in R /\ DomainShown(v, p, r, x, y) \in R /\ DomainShown(t, p, r, v, w) \in R
        /\ DomainShown(t, [p EXCEPT ![k] = v], r, x, y) \in R /\ DomainShown(t, p, [r EXCEPT ![k] = v], x, y) \in R
    BY <2>1 DEF DomainShown
  <2>c. c.period = p /\ c.refresh = r
    BY DEF DomainShown
  <2>d. [c EXCEPT !.tab = v] \in R /\ [c EXCEPT !.path = v, !.range = w] \in R
    BY <2>1, <2>2
  <2>e. [c EXCEPT !.period[k] = v] \in R
    BY <2>1, <2>2, <2>c
  <2>f. [c EXCEPT !.refresh[k] = v] \in R
    BY <2>1, <2>2, <2>c
  <2>3. [c EXCEPT !.tab = v] = DomainShown(v, p, r, x, y)
    BY <1>1, <2>2, <2>d, <2>e, <2>f DEF DomainShown
  <2>4. [c EXCEPT !.path = v, !.range = w] = DomainShown(t, p, r, v, w)
    BY <1>1, <2>2, <2>d, <2>e, <2>f DEF DomainShown
  <2>5. [c EXCEPT !.period[k] = v] = DomainShown(t, [p EXCEPT ![k] = v], r, x, y)
    BY <1>1, <2>2, <2>d, <2>e, <2>f DEF DomainShown
  <2>6. [c EXCEPT !.refresh[k] = v] = DomainShown(t, p, [r EXCEPT ![k] = v], x, y)
    BY <1>1, <2>2, <2>d, <2>e, <2>f DEF DomainShown
  <2> QED
    BY <2>3, <2>4, <2>5, <2>6
<1> QED
  BY <1>2 DEF WithTab, WithFields, WithPeriod, WithRefresh, WithValue

DnsShown(t, r, q, f)  == [tab |-> t, range |-> r, q |-> q, result |-> f]
AuditShown(a, t, p)   == [action |-> a, target |-> t, page |-> p]

LEMMA DnsFields ==
  \A t, r, q, f, v :
    LET c == DnsShown(t, r, q, f) IN
    /\ WithTab(c, v) = DnsShown(v, r, q, f) /\ WithRange(c, v) = DnsShown(t, v, q, f)
    /\ WithQ(c, v) = DnsShown(t, r, v, f)   /\ WithResult(c, v) = DnsShown(t, r, q, v)
<1> TAKE t, r, q, f, v
<1> DEFINE c == DnsShown(t, r, q, f)
<1>1. ASSUME NEW T, NEW x \in [tab : T, range : T, q : T, result : T], NEW y \in [tab : T, range : T, q : T, result : T],
             x.tab = y.tab, x.range = y.range, x.q = y.q, x.result = y.result
      PROVE  x = y
  BY <1>1
<1>2. PICK T : {t, r, q, f, v} \subseteq T
  OBVIOUS
<1> DEFINE R == [tab : T, range : T, q : T, result : T]
<1>3. /\ c \in R /\ DnsShown(v, r, q, f) \in R /\ DnsShown(t, v, q, f) \in R
      /\ DnsShown(t, r, v, f) \in R /\ DnsShown(t, r, q, v) \in R
  BY <1>2 DEF DnsShown
<1>4. /\ [c EXCEPT !.tab = v] \in R /\ [c EXCEPT !.range = v] \in R
      /\ [c EXCEPT !.q = v] \in R /\ [c EXCEPT !.result = v] \in R
  BY <1>2, <1>3
<1>5. [c EXCEPT !.tab = v] = DnsShown(v, r, q, f) /\ [c EXCEPT !.range = v] = DnsShown(t, v, q, f)
  BY <1>1, <1>3, <1>4 DEF DnsShown
<1>6. [c EXCEPT !.q = v] = DnsShown(t, r, v, f) /\ [c EXCEPT !.result = v] = DnsShown(t, r, q, v)
  BY <1>1, <1>3, <1>4 DEF DnsShown
<1> QED
  BY <1>5, <1>6 DEF WithTab, WithRange, WithQ, WithResult

LEMMA AuditFields ==
  \A a, t, p, v : WithPage(AuditShown(a, t, p), v) = AuditShown(a, t, v)
<1> TAKE a, t, p, v
<1>1. PICK T : {a, t, p, v} \subseteq T
  OBVIOUS
<1>2. ASSUME NEW x \in [action : T, target : T, page : T], NEW y \in [action : T, target : T, page : T],
             x.action = y.action, x.target = y.target, x.page = y.page
      PROVE  x = y
  BY <1>2
<1>3. AuditShown(a, t, p) \in [action : T, target : T, page : T] /\ AuditShown(a, t, v) \in [action : T, target : T, page : T]
  BY <1>1 DEF AuditShown
<1>4. [AuditShown(a, t, p) EXCEPT !.page = v] \in [action : T, target : T, page : T]
  BY <1>1, <1>3
<1> QED
  BY <1>2, <1>3, <1>4 DEF AuditShown, WithPage

LEMMA SyncedShows ==
  ASSUME NEW a, NumbersFit(a), TabOn("domain", a) = "diagnose", NEW way, NEW range \in Ranges
  PROVE  /\ NumbersFit(Synced(a, way, range))
         /\ OnDomain(Synced(a, way, range)) = WithFields(OnDomain(a), way, range)
<1> DEFINE b == Synced(a, way, range)
<1>1. NumbersFit(b)
  BY NumbersStay DEF Synced, NumberKeys
<1>2. /\ Get(b, "path", "") = way /\ \A default : Get(b, "dgRange", default) = range
      /\ \A default : Get(b, "tab", default) = "diagnose"
      /\ \A k : k \notin {"path", "dgRange", "tab"} => \A default : Get(b, k, default) = Get(a, k, default)
  <2> DEFINE c == Put(Put(a, "tab", "diagnose"), "dgRange", range)
  <2>1. \A k, default : Get(c, k, default) =
          IF k = "dgRange" THEN range ELSE IF k = "tab" THEN "diagnose" ELSE Get(a, k, default)
    BY GetOfPut
  <2> HIDE DEF c
  <2>2. b = IF way = "" THEN Drop(c, {"path"}) ELSE Put(c, "path", way)
    BY DEF Synced, c
  <2> HIDE DEF b
  <2>3. CASE way = ""
    <3>1. b = Drop(c, {"path"})
      BY <2>2, <2>3
    <3>2. \A k, default : Get(Drop(c, {"path"}), k, default) = IF k \in {"path"} THEN default ELSE Get(c, k, default)
      BY GetOfDrop
    <3> QED
      BY <2>1, <2>3, <3>1, <3>2
  <2>4. CASE way # ""
    <3>1. b = Put(c, "path", way)
      BY <2>2, <2>4
    <3>2. \A k, default : Get(Put(c, "path", way), k, default) = IF k = "path" THEN way ELSE Get(c, k, default)
      BY GetOfPut
    <3> QED
      BY <2>1, <3>1, <3>2
  <2> QED
    BY <2>3, <2>4
<1> HIDE DEF b
<1>3. TabOn("domain", b) = "diagnose"
  BY <1>2, TabsAre DEF TabOn, OneOf
<1>4. ASSUME NEW p \in TabPrefixes
      PROVE  ReadPeriod(b, p) = ReadPeriod(a, p) /\ ReadRefresh(b, p) = ReadRefresh(a, p)
  <2>1. {PeriodKey(p), FromKey(p), ToKey(p), RefreshKey(p)} \cap {"path", "dgRange", "tab"} = {}
    BY DEF PeriodKey, FromKey, ToKey, RefreshKey
  <2>2. ReadRefresh(b, p) = ReadRefresh(a, p)
    BY <1>2, <2>1 DEF ReadRefresh, OneOf
  <2>3. /\ Get(b, PeriodKey(p), "24h") = Get(a, PeriodKey(p), "24h")
        /\ Get(b, FromKey(p), 0) = Get(a, FromKey(p), 0) /\ Get(b, ToKey(p), 0) = Get(a, ToKey(p), 0)
    BY <1>2, <2>1
  <2> QED
    BY <1>1, <2>2, <2>3, SamePeriod
<1>5. OneOf(b, "dgRange", Ranges, "1h") = range
  BY <1>2 DEF OneOf
<1>6. /\ [p \in TabPrefixes |-> ReadPeriod(a, p)] = [p \in TabPrefixes |-> ReadPeriod(b, p)]
      /\ [p \in TabPrefixes |-> ReadRefresh(a, p)] = [p \in TabPrefixes |-> ReadRefresh(b, p)]
  BY <1>4
<1>7. OnDomain(b) = WithFields(OnDomain(a), way, range)
  <2> DEFINE active    == "diagnose"
             periods   == [p \in TabPrefixes |-> ReadPeriod(a, p)]
             refreshes == [p \in TabPrefixes |-> ReadRefresh(a, p)]
             x         == Get(a, "path", "")
             y         == OneOf(a, "dgRange", Ranges, "1h")
  <2>1. OnDomain(b) = DomainShown(active, periods, refreshes, way, range)
    BY <1>2, <1>3, <1>5, <1>6 DEF OnDomain, DomainShown
  <2>2. OnDomain(a) = DomainShown(active, periods, refreshes, x, y)
    BY DEF OnDomain, DomainShown
  <2> HIDE DEF active, periods, refreshes, x, y
  <2> QED
    BY <2>1, <2>2, DomainFields
<1> QED
  BY <1>1, <1>7 DEF b

\* The effects of a page leave what its address shows.
LEMMA SettledShows ==
  ASSUME screen \in DOMAIN Tabs, NEW a, NumbersFit(a), NEW mounts
  PROVE  NumbersFit(Settled(a, mounts)) /\ Meaning(Settled(a, mounts)) = Meaning(a)
<1>1. CASE BadKeys(a) \cap DOMAIN a # {}
  <2>1. Settled(a, mounts) = Drop(a, BadKeys(a))
    BY <1>1 DEF Settled
  <2>2. screen # "audit"
    BY <1>1 DEF BadKeys
  <2>3. screen = "domain" => Meaning(Settled(a, mounts)) = Meaning(a)
    BY <2>1, DomainCorrected DEF Meaning
  <2>4. screen = "dns" => Meaning(Settled(a, mounts)) = Meaning(a)
    BY <2>1, DnsCorrected DEF Meaning
  <2>5. screen = "system" => Meaning(Settled(a, mounts)) = Meaning(a)
    BY <1>1 DEF BadKeys, Meaning
  <2>6. NumbersFit(Settled(a, mounts))
    BY <2>1, NumbersStay
  <2> QED
    BY <2>2, <2>3, <2>4, <2>5, <2>6, TabsAre
<1>2. CASE BadKeys(a) \cap DOMAIN a = {} /\ mounts /\ ActiveTab(a) = "diagnose"
  <2>1. Settled(a, mounts) = Synced(a, Meaning(a).path, Meaning(a).range)
    BY <1>2 DEF Settled
  <2>2. screen = "domain" /\ TabOn("domain", a) = "diagnose"
    BY <1>2, TabsAre DEF ActiveTab, TabOn, OneOf
  <2>3. Meaning(a) = OnDomain(a) /\ Meaning(a).range \in Ranges
    BY <2>2 DEF Meaning, OnDomain, OneOf, Ranges
  <2>4. WithFields(OnDomain(a), OnDomain(a).path, OnDomain(a).range) = OnDomain(a)
    <3> DEFINE c == OnDomain(a)
    <3>1. c = DomainShown(c.tab, c.period, c.refresh, c.path, c.range)
      BY DEF OnDomain, DomainShown
    <3> HIDE DEF c
    <3> QED
      BY <3>1, DomainFields DEF c
  <2>5. \A x : Meaning(x) = OnDomain(x)
    BY <2>2 DEF Meaning
  <2>6. NumbersFit(Settled(a, mounts)) /\ OnDomain(Settled(a, mounts)) = OnDomain(a)
    <3>1. Meaning(a).path = OnDomain(a).path /\ Meaning(a).range = OnDomain(a).range
      BY <2>3
    <3> QED
      BY <2>1, <2>2, <2>3, <2>4, <3>1, SyncedShows
  <2> QED
    BY <2>5, <2>6
<1>3. CASE BadKeys(a) \cap DOMAIN a = {} /\ ~(mounts /\ ActiveTab(a) = "diagnose")
  BY <1>3 DEF Settled
<1> QED
  BY <1>1, <1>2, <1>3

LEMMA MountedShows ==
  ASSUME NEW a
  PROVE  /\ Mounted(a).tab = ActiveTab(a) /\ Mounted(a).text = NotComposing /\ ~Mounted(a).stepped
         /\ ActiveTab(a) = "diagnose" => Mounted(a).path = Meaning(a).path /\ Mounted(a).range = Meaning(a).range
BY DEF Mounted

\* Addresses that differ in a few keys show the same of the others.
Differ(a, b, keys) == \A k : k \notin keys => \A default : Get(b, k, default) = Get(a, k, default)

LEMMA PeriodOfOthers ==
  ASSUME NEW a, NumbersFit(a), NEW b, NumbersFit(b), NEW keys, Differ(a, b, keys), NEW p \in TabPrefixes
  PROVE  /\ keys \cap PeriodKeys(p) = {} => ReadPeriod(b, p) = ReadPeriod(a, p)
         /\ RefreshKey(p) \notin keys => ReadRefresh(b, p) = ReadRefresh(a, p)
<1>1. ASSUME keys \cap PeriodKeys(p) = {} PROVE ReadPeriod(b, p) = ReadPeriod(a, p)
  BY <1>1, SamePeriod DEF PeriodKeys, Differ
<1>2. ASSUME RefreshKey(p) \notin keys PROVE ReadRefresh(b, p) = ReadRefresh(a, p)
  BY <1>2 DEF ReadRefresh, OneOf, Differ
<1> QED
  BY <1>1, <1>2

LEMMA DomainTabChosen ==
  ASSUME NEW a, NumbersFit(a), NEW t \in Tabs["domain"]
  PROVE  OnDomain(Put(a, "tab", t)) = WithTab(OnDomain(a), t)
<1> DEFINE b == Put(a, "tab", t)
<1>1. NumbersFit(b)
  BY NumbersStay DEF NumberKeys
<1>2. Differ(a, b, {"tab"}) /\ \A default : Get(b, "tab", default) = t
  BY GetOfPut DEF Differ
<1> HIDE DEF b
<1>3. TabOn("domain", b) = t
  BY <1>2 DEF TabOn, OneOf
<1>4. \A p \in TabPrefixes : ReadPeriod(b, p) = ReadPeriod(a, p) /\ ReadRefresh(b, p) = ReadRefresh(a, p)
  <2>1. \A p \in TabPrefixes : {"tab"} \cap PeriodKeys(p) = {} /\ RefreshKey(p) \notin {"tab"}
    BY DEF PeriodKeys, PeriodKey, FromKey, ToKey, RefreshKey
  <2> QED
    BY <1>1, <1>2, <2>1, PeriodOfOthers
<1> DEFINE periods   == [p \in TabPrefixes |-> ReadPeriod(a, p)]
           refreshes == [p \in TabPrefixes |-> ReadRefresh(a, p)]
           active    == TabOn("domain", a)
           x         == Get(a, "path", "")
           y         == OneOf(a, "dgRange", Ranges, "1h")
<1>5. Get(b, "path", "") = x /\ OneOf(b, "dgRange", Ranges, "1h") = y
  BY <1>2 DEF Differ, OneOf
<1>6. OnDomain(b) = DomainShown(t, periods, refreshes, x, y)
  BY <1>3, <1>4, <1>5 DEF OnDomain, DomainShown
<1>7. OnDomain(a) = DomainShown(active, periods, refreshes, x, y)
  BY DEF OnDomain, DomainShown
<1> HIDE DEF active, periods, refreshes, x, y
<1>8. OnDomain(b) = WithTab(OnDomain(a), t)
  BY <1>6, <1>7, DomainFields
<1> QED
  BY <1>8 DEF b

\* A period as the controls give it: without dates, or with both of them.
IsPeriod(v) ==
  \/ v.period \in Presets \cup {"custom"} /\ v = Value(v.period, 0, 0)
  \/ v = Value("custom", v.from, v.to) /\ v.from \in Int \ {1} /\ v.to \in Int /\ 0 < v.from /\ v.from < v.to

LEMMA PeriodWritten ==
  ASSUME NumbersFit(Here), NEW p \in TabPrefixes, NEW v, IsPeriod(v)
  PROVE  /\ NumbersFit(WritePeriod(p, v)) /\ TabOn("domain", WritePeriod(p, v)) = TabOn("domain", Here)
         /\ OnDomain(WritePeriod(p, v)) = WithPeriod(OnDomain(Here), p, v)
<1> DEFINE a == Here
           b == WritePeriod(p, v)
           e == Put(Drop(a, Dates(p)), PeriodKey(p), v.period)
           f == Put(Put(e, FromKey(p), v.from), ToKey(p), v.to)
<1>1. PeriodKey(p) \notin NumberKeys /\ PeriodKey(p) \notin Dates(p) /\ FromKey(p) # ToKey(p)
  BY DEF PeriodKey, NumberKeys, Dates, FromKey, ToKey
<1>2. NumbersFit(e)
  BY <1>1, NumbersStay
<1>3. \A k, default : Get(e, k, default) =
        IF k = PeriodKey(p) THEN v.period ELSE IF k \in Dates(p) THEN default ELSE Get(a, k, default)
  BY GetOfPut, GetOfDrop
<1>4. \A k, default : Get(f, k, default) =
        IF k = ToKey(p) THEN v.to ELSE IF k = FromKey(p) THEN v.from ELSE Get(e, k, default)
  BY GetOfPut
<1>5. b = IF v.period = "custom" /\ v.from # 0 /\ v.to # 0 THEN f ELSE e
  BY DEF WritePeriod
<1> HIDE DEF a, b, e, f
<1>6. NumbersFit(b) /\ Differ(a, b, PeriodKeys(p)) /\ ReadPeriod(b, p) = v
  <2>1. Differ(a, e, PeriodKeys(p))
    BY <1>3 DEF Differ, PeriodKeys, Dates
  <2>2. CASE v.period \in Presets \cup {"custom"} /\ v = Value(v.period, 0, 0)
    <3>1. v.from = 0 /\ v.to = 0
      BY <2>2 DEF Value
    <3>2. b = e
      BY <1>5, <3>1
    <3>3. Get(e, PeriodKey(p), "24h") = v.period /\ Get(e, FromKey(p), 0) = 0 /\ Get(e, ToKey(p), 0) = 0
      BY <1>1, <1>3 DEF Dates
    <3>4. ReadPeriod(e, p) = Value(v.period, 0, 0)
      BY <1>2, <2>2, <3>3, PeriodByKeys DEF OneOf, ValidRange
    <3> QED
      BY <1>2, <2>1, <2>2, <3>2, <3>4
  <2>3. CASE v = Value("custom", v.from, v.to) /\ v.from \in Int \ {1} /\ v.to \in Int /\ 0 < v.from /\ v.from < v.to
    <3>1. v.period = "custom" /\ v.from # 0 /\ v.to # 0 /\ v.to \in Int \ {1}
      BY <2>3 DEF Value
    <3>2. b = f
      BY <1>5, <3>1
    <3>3. NumbersFit(f)
      <4>1. NumbersFit(Put(e, FromKey(p), v.from))
        BY <1>2, <2>3, NumbersStay
      <4> QED
        BY <3>1, <4>1, NumbersStay DEF f
    <3>4. Get(f, PeriodKey(p), "24h") = "custom" /\ Get(f, FromKey(p), 0) = v.from /\ Get(f, ToKey(p), 0) = v.to
      BY <1>1, <1>3, <1>4, <3>1 DEF Dates
    <3>5. ValidRange(f, p)
      BY <2>3, <3>4 DEF ValidRange
    <3>6. ReadPeriod(f, p) = Value("custom", v.from, v.to)
      BY <3>3, <3>4, <3>5, PeriodByKeys DEF OneOf
    <3>7. Differ(a, f, PeriodKeys(p))
      BY <1>4, <2>1 DEF Differ, PeriodKeys
    <3> QED
      BY <2>3, <3>2, <3>3, <3>6, <3>7
  <2> QED
    BY <2>2, <2>3 DEF IsPeriod
<1>7. NumbersFit(a)
  BY DEF a
<1>8. \A q \in TabPrefixes : q # p => ReadPeriod(b, q) = ReadPeriod(a, q)
  <2>1. \A q \in TabPrefixes : q # p => PeriodKeys(p) \cap PeriodKeys(q) = {}
    BY DEF TabPrefixes, PeriodKeys, PeriodKey, FromKey, ToKey
  <2> QED
    BY <1>6, <1>7, <2>1, PeriodOfOthers
<1>9. \A q \in TabPrefixes : ReadRefresh(b, q) = ReadRefresh(a, q)
  <2>1. \A q \in TabPrefixes : RefreshKey(q) \notin PeriodKeys(p)
    BY DEF TabPrefixes, PeriodKeys, PeriodKey, FromKey, ToKey, RefreshKey
  <2> QED
    BY <1>6, <1>7, <2>1, PeriodOfOthers
<1> DEFINE periods   == [q \in TabPrefixes |-> ReadPeriod(a, q)]
           refreshes == [q \in TabPrefixes |-> ReadRefresh(a, q)]
           active    == TabOn("domain", a)
           x         == Get(a, "path", "")
           y         == OneOf(a, "dgRange", Ranges, "1h")
<1>10. "tab" \notin PeriodKeys(p) /\ "path" \notin PeriodKeys(p) /\ "dgRange" \notin PeriodKeys(p)
  BY DEF PeriodKeys, PeriodKey, FromKey, ToKey
<1>11. TabOn("domain", b) = active /\ Get(b, "path", "") = x /\ OneOf(b, "dgRange", Ranges, "1h") = y
  BY <1>6, <1>10 DEF Differ, TabOn, OneOf
<1>12. [q \in TabPrefixes |-> ReadPeriod(b, q)] = WithValue(periods, p, v)
  BY <1>6, <1>8 DEF WithValue
<1>13. [q \in TabPrefixes |-> ReadRefresh(b, q)] = refreshes
  BY <1>9
<1>14. OnDomain(b) = DomainShown(active, WithValue(periods, p, v), refreshes, x, y)
  BY <1>11, <1>12, <1>13 DEF OnDomain, DomainShown
<1>15. OnDomain(a) = DomainShown(active, periods, refreshes, x, y)
  BY DEF OnDomain, DomainShown
<1>16. WithPeriod(DomainShown(active, periods, refreshes, x, y), p, v)
         = DomainShown(active, WithValue(periods, p, v), refreshes, x, y)
  <2> HIDE DEF active, periods, refreshes, x, y
  <2> QED
    BY DomainFields
<1>17. OnDomain(b) = WithPeriod(OnDomain(a), p, v)
  BY <1>14, <1>15, <1>16
<1> QED
  BY <1>6, <1>11, <1>17 DEF a, b

Refreshed(a, p, ms) == IF ms = 30 THEN Drop(a, {RefreshKey(p)}) ELSE Put(a, RefreshKey(p), ms)

LEMMA RefreshWritten ==
  ASSUME NEW a, NumbersFit(a), NEW p \in TabPrefixes, NEW ms \in Refreshes,
         NEW b, b = Refreshed(a, p, ms)
  PROVE  /\ NumbersFit(b) /\ TabOn("domain", b) = TabOn("domain", a)
         /\ OnDomain(b) = WithRefresh(OnDomain(a), p, ms)
<1>1. NumbersFit(b)
  BY NumbersStay DEF NumberKeys, RefreshKey, Refreshed
<1>2. Differ(a, b, {RefreshKey(p)}) /\ Get(b, RefreshKey(p), 30) = ms
  <2>1. CASE ms = 30
    BY <2>1, GetOfDrop DEF Differ, Refreshed
  <2>2. CASE ms # 30
    BY <2>2, GetOfPut DEF Differ, Refreshed
  <2> QED
    BY <2>1, <2>2
<1>3. ReadRefresh(b, p) = ms
  BY <1>2 DEF ReadRefresh, OneOf
<1>4. \A q \in TabPrefixes : q # p => ReadRefresh(b, q) = ReadRefresh(a, q)
  <2>1. \A q \in TabPrefixes : q # p => RefreshKey(q) \notin {RefreshKey(p)}
    BY DEF TabPrefixes, RefreshKey
  <2> QED
    BY <1>1, <1>2, <2>1, PeriodOfOthers
<1>5. \A q \in TabPrefixes : ReadPeriod(b, q) = ReadPeriod(a, q)
  <2>1. \A q \in TabPrefixes : {RefreshKey(p)} \cap PeriodKeys(q) = {}
    BY DEF TabPrefixes, PeriodKeys, PeriodKey, FromKey, ToKey, RefreshKey
  <2> QED
    BY <1>1, <1>2, <2>1, PeriodOfOthers
<1> DEFINE periods   == [q \in TabPrefixes |-> ReadPeriod(a, q)]
           refreshes == [q \in TabPrefixes |-> ReadRefresh(a, q)]
           active    == TabOn("domain", a)
           x         == Get(a, "path", "")
           y         == OneOf(a, "dgRange", Ranges, "1h")
<1>6. "tab" # RefreshKey(p) /\ "path" # RefreshKey(p) /\ "dgRange" # RefreshKey(p)
  BY DEF RefreshKey
<1>7. TabOn("domain", b) = active /\ Get(b, "path", "") = x /\ OneOf(b, "dgRange", Ranges, "1h") = y
  BY <1>2, <1>6 DEF Differ, TabOn, OneOf
<1>8. [q \in TabPrefixes |-> ReadRefresh(b, q)] = WithValue(refreshes, p, ms)
  BY <1>3, <1>4 DEF WithValue
<1>9. [q \in TabPrefixes |-> ReadPeriod(b, q)] = periods
  BY <1>5
<1>10. OnDomain(b) = DomainShown(active, periods, WithValue(refreshes, p, ms), x, y)
  BY <1>7, <1>8, <1>9 DEF OnDomain, DomainShown
<1>11. OnDomain(a) = DomainShown(active, periods, refreshes, x, y)
  BY DEF OnDomain, DomainShown
<1>12. WithRefresh(DomainShown(active, periods, refreshes, x, y), p, ms)
         = DomainShown(active, periods, WithValue(refreshes, p, ms), x, y)
  <2> HIDE DEF active, periods, refreshes, x, y
  <2> QED
    BY DomainFields
<1> QED
  BY <1>1, <1>7, <1>10, <1>11, <1>12

LEMMA DnsShownAs == \A a : OnDns(a) = DnsShown(TabOn("dns", a), OneOf(a, "range", StatsRanges, "1h"),
                                              Get(a, "q", ""), ParseResultFilter(a))
BY DEF OnDns, DnsShown

LEMMA DnsWritten ==
  ASSUME NEW a, NEW b, NEW keys, Differ(a, b, keys)
  PROVE  /\ "tab" \notin keys => TabOn("dns", b) = TabOn("dns", a)
         /\ \A v : keys = {"tab"} /\ Get(b, "tab", "records") = v /\ v \in Tabs["dns"] => OnDns(b) = WithTab(OnDns(a), v)
         /\ \A v : keys = {"range"} /\ Get(b, "range", "1h") = v /\ v \in StatsRanges => OnDns(b) = WithRange(OnDns(a), v)
         /\ \A v : keys = {"q"} /\ Get(b, "q", "") = v => OnDns(b) = WithQ(OnDns(a), v)
         /\ \A v : keys = {"result"} /\ ParseResultFilter(b) = v => OnDns(b) = WithResult(OnDns(a), v)
<1> DEFINE active == TabOn("dns", a)
           r   == OneOf(a, "range", StatsRanges, "1h")
           q   == Get(a, "q", "")
           f   == ParseResultFilter(a)
<1>1. /\ "tab" \notin keys => TabOn("dns", b) = active
      /\ "range" \notin keys => OneOf(b, "range", StatsRanges, "1h") = r
      /\ "q" \notin keys => Get(b, "q", "") = q
      /\ "result" \notin keys => ParseResultFilter(b) = f
  BY DEF Differ, TabOn, OneOf, ParseResultFilter
<1>2. OnDns(a) = DnsShown(active, r, q, f)
  BY DnsShownAs
<1>3. ASSUME NEW v, keys = {"tab"}, Get(b, "tab", "records") = v, v \in Tabs["dns"] PROVE OnDns(b) = WithTab(OnDns(a), v)
  <2>1. TabOn("dns", b) = v
    BY <1>3, TabsAre DEF TabOn, OneOf
  <2>2. OnDns(b) = DnsShown(v, r, q, f)
    BY <1>1, <1>3, <2>1, DnsShownAs
  <2> HIDE DEF active, r, q, f
  <2> QED
    BY <1>2, <2>2, DnsFields
<1>4. ASSUME NEW v, keys = {"range"}, Get(b, "range", "1h") = v, v \in StatsRanges PROVE OnDns(b) = WithRange(OnDns(a), v)
  <2>1. OneOf(b, "range", StatsRanges, "1h") = v
    BY <1>4 DEF OneOf
  <2>2. OnDns(b) = DnsShown(active, v, q, f)
    BY <1>1, <1>4, <2>1, DnsShownAs
  <2> HIDE DEF active, r, q, f
  <2> QED
    BY <1>2, <2>2, DnsFields
<1>5. ASSUME NEW v, keys = {"q"}, Get(b, "q", "") = v PROVE OnDns(b) = WithQ(OnDns(a), v)
  <2>1. OnDns(b) = DnsShown(active, r, v, f)
    BY <1>1, <1>5, DnsShownAs
  <2> HIDE DEF active, r, q, f
  <2> QED
    BY <1>2, <2>1, DnsFields
<1>6. ASSUME NEW v, keys = {"result"}, ParseResultFilter(b) = v PROVE OnDns(b) = WithResult(OnDns(a), v)
  <2>1. OnDns(b) = DnsShown(active, r, q, v)
    BY <1>1, <1>6, DnsShownAs
  <2> HIDE DEF active, r, q, f
  <2> QED
    BY <1>2, <2>1, DnsFields
<1> QED
  BY <1>1, <1>3, <1>4, <1>5, <1>6

LEMMA RangeWritten ==
  \A a, b, v :
    Differ(a, b, {"range"}) /\ Get(b, "range", "1h") = v /\ v \in StatsRanges => OnDns(b) = WithRange(OnDns(a), v)
<1> SUFFICES ASSUME NEW a, NEW b, NEW v, Differ(a, b, {"range"}), Get(b, "range", "1h") = v, v \in StatsRanges
             PROVE  OnDns(b) = WithRange(OnDns(a), v)
  OBVIOUS
<1> QED
  BY DnsWritten

LEMMA QueryWritten ==
  ASSUME NEW a, NEW b, NEW v, Differ(a, b, {"q"}), Get(b, "q", "") = v
  PROVE  OnDns(b) = WithQ(OnDns(a), v)
BY DnsWritten

LEMMA ResultWritten ==
  \A a, b, v : Differ(a, b, {"result"}) /\ ParseResultFilter(b) = v => OnDns(b) = WithResult(OnDns(a), v)
<1> SUFFICES ASSUME NEW a, NEW b, NEW v, Differ(a, b, {"result"}), ParseResultFilter(b) = v
             PROVE  OnDns(b) = WithResult(OnDns(a), v)
  OBVIOUS
<1> QED
  BY DnsWritten

\* An address with a filter as the page writes it gives that filter.
LEMMA FilterWritten ==
  ASSUME NEW a, NEW kept \in SUBSET Results,
         NEW b, b = IF kept = Results THEN Drop(a, {"result"}) ELSE Put(a, "result", kept)
  PROVE  Differ(a, b, {"result"}) /\ ParseResultFilter(b) = kept
<1>1. Differ(a, b, {"result"}) /\ Get(b, "result", Results) = kept
  <2>1. CASE kept = Results
    BY <2>1, GetOfDrop DEF Differ
  <2>2. CASE kept # Results
    BY <2>2, GetOfPut DEF Differ
  <2> QED
    BY <2>1, <2>2
<1> QED
  BY <1>1 DEF ParseResultFilter

LEMMA TextWritten ==
  ASSUME NEW key, NEW text
  PROVE  /\ Differ(Here, WithText(key, text), {key}) /\ Get(WithText(key, text), key, "") = text
         /\ NumbersFit(Here) /\ key \notin NumberKeys => NumbersFit(WithText(key, text))
<1> DEFINE a == Here
           b == WithText(key, text)
           none == ""
<1>1. b = IF text = none THEN Drop(a, {key}) ELSE Put(a, key, text)
  BY DEF WithText
<1> HIDE DEF a, b, none
<1>2. Differ(a, b, {key}) /\ Get(b, key, none) = text
  <2>1. CASE text = none
    <3>1. b = Drop(a, {key})
      BY <1>1, <2>1
    <3>2. \A k, default : Get(Drop(a, {key}), k, default) = IF k \in {key} THEN default ELSE Get(a, k, default)
      BY GetOfDrop
    <3> QED
      BY <2>1, <3>1, <3>2 DEF Differ
  <2>2. CASE text # none
    <3>1. b = Put(a, key, text)
      BY <1>1, <2>2
    <3>2. \A k, default : Get(Put(a, key, text), k, default) = IF k = key THEN text ELSE Get(a, k, default)
      BY GetOfPut
    <3> QED
      BY <3>1, <3>2 DEF Differ
  <2> QED
    BY <2>1, <2>2
<1>3. ASSUME NumbersFit(a), key \notin NumberKeys PROVE NumbersFit(b)
  BY <1>1, <1>3, NumbersStay
<1> QED
  BY <1>2, <1>3 DEF a, b, none

LEMMA AuditShownAs ==
  \A a : NumbersFit(a) =>
    OnAudit(a) = AuditShown(Get(a, "action", ""), Get(a, "target_type", ""),
                            IF Get(a, "page", 0) > 0 THEN Get(a, "page", 0) ELSE 1)
<1> SUFFICES ASSUME NEW a, NumbersFit(a)
             PROVE  OnAudit(a) = AuditShown(Get(a, "action", ""), Get(a, "target_type", ""),
                                            IF Get(a, "page", 0) > 0 THEN Get(a, "page", 0) ELSE 1)
  OBVIOUS
<1>1. Get(a, "page", 0) > 0 => a["page"] = Get(a, "page", 0)
  BY DEF Get
<1> QED
  BY <1>1 DEF OnAudit, AuditShown

LEMMA FilterTurnsBack ==
  ASSUME NumbersFit(Here), NEW key \in {"action", "target_type"}, NEW text
  PROVE  LET b == Drop(WithText(key, text), {"page"}) IN
         /\ NumbersFit(b)
         /\ OnAudit(b) = [action |-> IF key = "action" THEN text ELSE OnAudit(Here).action,
                          target |-> IF key = "target_type" THEN text ELSE OnAudit(Here).target, page |-> 1]
<1> DEFINE e == WithText(key, text)
           b == Drop(e, {"page"})
<1>1. NumbersFit(b)
  BY TextWritten, NumbersStay DEF NumberKeys
<1>2. /\ Get(e, key, "") = text
      /\ key # "action" => Get(e, "action", "") = Get(Here, "action", "")
      /\ key # "target_type" => Get(e, "target_type", "") = Get(Here, "target_type", "")
  <2>1. Differ(Here, e, {key}) /\ Get(e, key, "") = text
    BY TextWritten
  <2> HIDE DEF e
  <2> QED
    BY <2>1 DEF Differ
<1> HIDE DEF e
<1>3. \A k, default : Get(b, k, default) = IF k = "page" THEN default ELSE Get(e, k, default)
  BY GetOfDrop
<1> HIDE DEF b
<1>4. /\ Get(b, "page", 0) = 0
      /\ Get(b, "action", "") = IF key = "action" THEN text ELSE Get(Here, "action", "")
      /\ Get(b, "target_type", "") = IF key = "target_type" THEN text ELSE Get(Here, "target_type", "")
  BY <1>2, <1>3
<1>5. OnAudit(Here).action = Get(Here, "action", "") /\ OnAudit(Here).target = Get(Here, "target_type", "")
  BY DEF OnAudit
<1>6. OnAudit(b) = [action |-> IF key = "action" THEN text ELSE OnAudit(Here).action,
                    target |-> IF key = "target_type" THEN text ELSE OnAudit(Here).target, page |-> 1]
  <2>1. ~(Get(b, "page", 0) > 0)
    <3>1. \A n : n = 0 => ~(n > 0)
      OBVIOUS
    <3> QED
      BY <1>4, <3>1
  <2>2. OnAudit(b) = [action |-> Get(b, "action", ""), target |-> Get(b, "target_type", ""), page |-> 1]
    BY <2>1 DEF OnAudit
  <2> QED
    BY <1>4, <1>5, <2>2
<1> QED
  BY <1>1, <1>6 DEF b, e

LEMMA PageTurned ==
  ASSUME NumbersFit(Here), NEW n \in Int, n > 0
  PROVE  NumbersFit(Put(Here, "page", n)) /\ OnAudit(Put(Here, "page", n)) = WithPage(OnAudit(Here), n)
<1> DEFINE a == Here
           b == Put(a, "page", n)
<1>1. \A k, default : Get(b, k, default) = IF k = "page" THEN n ELSE Get(a, k, default)
  BY GetOfPut
<1> HIDE DEF b
<1>2. NumbersFit(a)
  BY DEF a
<1> HIDE DEF a
<1>3. NumbersFit(b)
  <2>1. \A p \in TabPrefixes : FromKey(p) # "page" /\ ToKey(p) # "page"
    BY DEF FromKey, ToKey
  <2> QED
    BY <1>1, <1>2, <2>1 DEF NumbersFit
<1> DEFINE x == Get(a, "action", "")
           y == Get(a, "target_type", "")
<1>4. OnAudit(b) = AuditShown(x, y, n)
  BY <1>1, <1>3, AuditShownAs
<1>5. PICK m : OnAudit(a) = AuditShown(x, y, m)
  BY <1>2, AuditShownAs
<1> HIDE DEF x, y
<1>6. OnAudit(b) = WithPage(OnAudit(a), n)
  BY <1>4, <1>5, AuditFields
<1> QED
  BY <1>3, <1>6 DEF a, b

-----------------------------------------------------------------------------
(* The history *)

IsSequence(s) == \E S : s \in Seq(S)

LEMMA SeqDomain == ASSUME NEW s, IsSequence(s) PROVE Len(s) \in Nat /\ DOMAIN s = 1 .. Len(s)
BY DEF IsSequence

LEMMA SeqWider == ASSUME NEW S, NEW s \in Seq(S), NEW T, S \subseteq T PROVE s \in Seq(T)
<1>1. Len(s) \in Nat /\ s \in [1 .. Len(s) -> S]
  OBVIOUS
<1>2. s \in [1 .. Len(s) -> T]
  BY <1>1
<1> QED
  BY <1>1, <1>2

LEMMA SeqOfOne ==
  ASSUME NEW e
  PROVE  IsSequence(<<e>>) /\ Len(<<e>>) = 1 /\ DOMAIN <<e>> = {1} /\ <<e>>[1] = e
<1>1. e \in {e}
  OBVIOUS
<1>2. <<e>> \in Seq({e}) /\ Len(<<e>>) = 1 /\ DOMAIN <<e>> = {1} /\ <<e>>[1] = e
  BY <1>1
<1> QED
  BY <1>2 DEF IsSequence

LEMMA SeqReplaced ==
  ASSUME NEW s, IsSequence(s), NEW k \in DOMAIN s, NEW e
  PROVE  LET t == [s EXCEPT ![k] = e] IN
         IsSequence(t) /\ Len(t) = Len(s) /\ DOMAIN t = DOMAIN s /\ t[k] = e /\ \A i \in DOMAIN s : i # k => t[i] = s[i]
<1> DEFINE t == [s EXCEPT ![k] = e]
<1>1. PICK S : s \in Seq(S)
  BY DEF IsSequence
<1>2. s \in Seq(S \cup {e})
  BY <1>1, SeqWider
<1>3. t \in Seq(S \cup {e}) /\ Len(t) = Len(s)
  <2> DEFINE T == S \cup {e}
  <2>1. e \in T
    OBVIOUS
  <2> HIDE DEF T
  <2> QED
    BY <1>2, <2>1
<1>4. IsSequence(t)
  BY <1>3 DEF IsSequence
<1> QED
  BY <1>2, <1>3, <1>4

LEMMA SeqPushed ==
  ASSUME NEW s, IsSequence(s), NEW n \in DOMAIN s, NEW e
  PROVE  LET t == Append(SubSeq(s, 1, n), e) IN
         /\ IsSequence(t) /\ Len(t) = n + 1 /\ DOMAIN t = 1 .. n + 1 /\ t[n + 1] = e /\ \A i \in 1 .. n : t[i] = s[i]
         /\ n \in 1 .. Len(s) /\ DOMAIN s = 1 .. Len(s) /\ Len(s) \in Nat
<1> DEFINE u == SubSeq(s, 1, n)
           t == Append(u, e)
<1>1. PICK S : s \in Seq(S)
  BY DEF IsSequence
<1>2. s \in Seq(S \cup {e}) /\ e \in S \cup {e}
  BY <1>1, SeqWider
<1>3. PICK T : s \in Seq(T) /\ e \in T
  BY <1>2
<1>4. u \in Seq(T) /\ Len(u) = n /\ \A i \in 1 .. n : u[i] = s[i]
  BY <1>3
<1> HIDE DEF u
<1>5. t \in Seq(T) /\ Len(t) = n + 1 /\ t[n + 1] = e /\ \A i \in 1 .. n : t[i] = u[i]
  BY <1>3, <1>4
<1>6. IsSequence(t)
  BY <1>5 DEF IsSequence
<1> QED
  BY <1>1, <1>4, <1>5, <1>6 DEF u

\* An entry shows what was chosen on it,
EntryFits(s, c, e) ==
  e = Entry(e.address, e.chosen) /\ NumbersFit(e.address) /\ ShownOn(s, c, e.address) = e.chosen

\* and the state of the mounted tab is of the address it is shown under.
IsLocal(l) ==
  \E T : l \in [tab : T, text : T, stepped : T, path : T, range : T, customOpen : T]
LocalFits(s, l, e) ==
  /\ IsLocal(l) /\ l.tab = TabOn(s, e.address) /\ (l.text # NotComposing => s = "dns")
  /\ l.tab = "diagnose" /\ ~l.stepped => l.path = e.chosen.path /\ l.range = e.chosen.range

\* On the system page, where nothing is pushed, a short list has taken the search away.
Searched    == {"system"}
NoSearch(a) == Get(a, "certQ", "") = ""
SearchFits(s, c, h) ==
  s \in Searched => Len(h) = 1 /\ (c = "few" => NoSearch(h[1].address))

HistoryFits(s, c, h, n, l) ==
  /\ s \in DOMAIN Tabs
  /\ IsSequence(h) /\ n \in DOMAIN h
  /\ \A i \in DOMAIN h : EntryFits(s, c, h[i])
  /\ SearchFits(s, c, h) /\ LocalFits(s, l, h[n])

AddressInv == HistoryFits(screen, certificates, entries, current, local)

LEMMA OneEntry ==
  ASSUME NEW s, NEW c, NEW h, NEW n, NEW l, HistoryFits(s, c, h, n, l), s \in Searched
  PROVE  Len(h) = 1 /\ \A i \in DOMAIN h : i = 1
<1>1. Len(h) = 1
  BY DEF HistoryFits, SearchFits
<1>2. DOMAIN h = 1 .. Len(h)
  BY SeqDomain DEF HistoryFits
<1>3. \A i \in 1 .. 1 : i = 1
  OBVIOUS
<1> QED
  BY <1>1, <1>2, <1>3

LEMMA EntryWritten ==
  ASSUME NEW s, NEW c, NEW h, NEW n, NEW l, HistoryFits(s, c, h, n, l),
         NEW k \in DOMAIN h, NEW a, NEW d, EntryFits(s, c, Entry(a, d)), NEW m, LocalFits(s, m, Entry(a, d)),
         s \in Searched /\ c = "few" => NoSearch(a)
  PROVE  HistoryFits(s, c, [h EXCEPT ![k] = Entry(a, d)], k, m)
<1> DEFINE e == Entry(a, d)
           g == [h EXCEPT ![k] = e]
<1>1. IsSequence(g) /\ Len(g) = Len(h) /\ DOMAIN g = DOMAIN h /\ g[k] = e /\ \A i \in DOMAIN h : i # k => g[i] = h[i]
  BY SeqReplaced DEF HistoryFits
<1> HIDE DEF g
<1>2. \A i \in DOMAIN g : EntryFits(s, c, g[i])
  BY <1>1 DEF HistoryFits
<1>3. e.address = a
  BY DEF Entry
<1> HIDE DEF e
<1>4. ASSUME s \in Searched PROVE Len(h) = 1 /\ k = 1
  BY <1>4, OneEntry
<1>5. SearchFits(s, c, g)
  BY <1>1, <1>3, <1>4 DEF SearchFits
<1>6. HistoryFits(s, c, g, k, m)
  BY <1>1, <1>2, <1>5 DEF HistoryFits, e
<1> QED
  BY <1>6 DEF g, e

LEMMA EntryPushed ==
  ASSUME NEW s, NEW c, NEW h, NEW n, NEW l, HistoryFits(s, c, h, n, l), s \notin Searched,
         NEW a, NEW d, EntryFits(s, c, Entry(a, d)), NEW m, LocalFits(s, m, Entry(a, d))
  PROVE  HistoryFits(s, c, Append(SubSeq(h, 1, n), Entry(a, d)), n + 1, m)
<1> DEFINE e == Entry(a, d)
           g == Append(SubSeq(h, 1, n), e)
<1>1. /\ IsSequence(g) /\ DOMAIN g = 1 .. n + 1 /\ g[n + 1] = e /\ \A i \in 1 .. n : g[i] = h[i]
      /\ n \in 1 .. Len(h) /\ DOMAIN h = 1 .. Len(h) /\ Len(h) \in Nat
  <2>1. IsSequence(h) /\ n \in DOMAIN h
    BY DEF HistoryFits
  <2> HIDE DEF e
  <2> QED
    BY <2>1, SeqPushed
<1> HIDE DEF g
<1>2. \A i \in DOMAIN g : EntryFits(s, c, g[i])
  BY <1>1 DEF HistoryFits
<1>3. n + 1 \in DOMAIN g /\ SearchFits(s, c, g)
  <2>1. n + 1 \in DOMAIN g
    BY <1>1
  <2>2. SearchFits(s, c, g)
    BY DEF SearchFits
  <2> QED
    BY <2>1, <2>2
<1> HIDE DEF e
<1>4. HistoryFits(s, c, g, n + 1, m)
  BY <1>1, <1>2, <1>3 DEF HistoryFits, e
<1> QED
  BY <1>4 DEF g, e

\* Until the certificates are read, or when they are many, the search of the address counts again.
LEMMA CertificatesForgotten ==
  ASSUME NEW s, NEW c, NEW h, NEW n, NEW l, HistoryFits(s, c, h, n, l), NEW d, d # "few"
  PROVE  HistoryFits(s, d, h, n, l)
<1>1. \A i \in DOMAIN h : EntryFits(s, d, h[i])
  <2> SUFFICES ASSUME NEW i \in DOMAIN h PROVE ShownOn(s, d, h[i].address) = ShownOn(s, c, h[i].address)
    BY DEF HistoryFits, EntryFits
  <2>1. CASE s \notin Searched \/ c # "few"
    BY <2>1, TabsAre DEF HistoryFits, ShownOn, Searched
  <2>2. CASE s \in Searched /\ c = "few"
    <3>1. i = 1
      BY <2>2, OneEntry
    <3> QED
      BY <2>2, <3>1 DEF HistoryFits, SearchFits, ShownOn, Searched, NoSearch
  <2> QED
    BY <2>1, <2>2
<1> QED
  BY <1>1 DEF HistoryFits, SearchFits

LEMMA LocalUpdates ==
  ASSUME NEW l, IsLocal(l), NEW v, NEW w
  PROVE  /\ LET m == [l EXCEPT !.customOpen = v] IN
              IsLocal(m) /\ m.tab = l.tab /\ m.text = l.text
         /\ LET m == [l EXCEPT !.text = v] IN
              IsLocal(m) /\ m.tab = l.tab /\ m.text = v
         /\ LET m == [l EXCEPT !.stepped = TRUE] IN
              IsLocal(m) /\ m.tab = l.tab /\ m.text = l.text /\ m.stepped
<1> PICK T : l \in [tab : T, text : T, stepped : T, path : T, range : T, customOpen : T]
  BY DEF IsLocal
<1> DEFINE U == T \cup {v, w, TRUE, FALSE}
           R == [tab : U, text : U, stepped : U, path : U, range : U, customOpen : U]
<1>1. T \subseteq U /\ v \in U /\ w \in U /\ TRUE \in U /\ FALSE \in U
  OBVIOUS
<1> HIDE DEF U
<1>2. l \in R
  BY <1>1
<1>3. /\ [l EXCEPT !.customOpen = v] \in R /\ [l EXCEPT !.text = v] \in R
  BY <1>1, <1>2
<1>4. [l EXCEPT !.stepped = TRUE] \in R
  BY <1>1, <1>2
<1>6. LET m == [l EXCEPT !.customOpen = v] IN IsLocal(m) /\ m.tab = l.tab /\ m.text = l.text
  BY <1>2, <1>3 DEF IsLocal
<1>7. LET m == [l EXCEPT !.text = v] IN IsLocal(m) /\ m.tab = l.tab /\ m.text = v
  BY <1>2, <1>3 DEF IsLocal
<1>8. LET m == [l EXCEPT !.stepped = TRUE] IN IsLocal(m) /\ m.tab = l.tab /\ m.text = l.text /\ m.stepped
  BY <1>2, <1>4 DEF IsLocal
<1> QED
  BY <1>6, <1>7, <1>8

WithLocalFields(l, v, w) == [l EXCEPT !.path = v, !.range = w, !.stepped = FALSE]

LEMMA LocalFieldsSet ==
  \A l, v, w :
    IsLocal(l) =>
      /\ IsLocal(WithLocalFields(l, v, w)) /\ WithLocalFields(l, v, w).tab = l.tab
      /\ WithLocalFields(l, v, w).text = l.text
      /\ WithLocalFields(l, v, w).path = v /\ WithLocalFields(l, v, w).range = w
<1> SUFFICES ASSUME NEW l, NEW v, NEW w, IsLocal(l)
             PROVE  LET m == WithLocalFields(l, v, w) IN
                    IsLocal(m) /\ m.tab = l.tab /\ m.text = l.text /\ m.path = v /\ m.range = w
  OBVIOUS
<1> PICK T : l \in [tab : T, text : T, stepped : T, path : T, range : T, customOpen : T]
  BY DEF IsLocal
<1> DEFINE U == T \cup {v, w, FALSE}
           R == [tab : U, text : U, stepped : U, path : U, range : U, customOpen : U]
<1>1. T \subseteq U /\ v \in U /\ w \in U /\ FALSE \in U
  OBVIOUS
<1> HIDE DEF U
<1>2. l \in R
  BY <1>1
<1>3. [l EXCEPT !.path = v, !.range = w, !.stepped = FALSE] \in R
  BY <1>1, <1>2
<1> QED
  BY <1>2, <1>3 DEF IsLocal, WithLocalFields

LEMMA MountedFits ==
  ASSUME NEW a, NEW e, TabOn(screen, e.address) = ActiveTab(a), e.chosen = Meaning(a)
  PROVE  LocalFits(screen, Mounted(a), e)
<1>1. IsLocal(Mounted(a))
  <2> DEFINE m == Mounted(a)
  <2>1. PICK T : {m.tab, m.text, m.stepped, m.path, m.range, m.customOpen} \subseteq T
    OBVIOUS
  <2>2. m \in [tab : T, text : T, stepped : T, path : T, range : T, customOpen : T]
    BY <2>1 DEF Mounted
  <2> QED
    BY <2>2 DEF IsLocal
<1> QED
  BY <1>1, MountedShows DEF LocalFits

LEMMA LocalKept ==
  ASSUME NEW s, NEW l, NEW e, LocalFits(s, l, e), NEW f, TabOn(s, f.address) = TabOn(s, e.address),
         l.tab # "diagnose", NEW m, IsLocal(m), m.tab = l.tab, m.text = l.text
  PROVE  LocalFits(s, m, f)
BY DEF LocalFits

LEMMA ReplaceStep ==
  ASSUME AddressInv, NEW a, NEW d, Replace(a, d), NumbersFit(a), ShownOn(screen, certificates, a) = d,
         LocalFits(screen, local', Entry(a, d)),
         screen \in Searched /\ certificates = "few" => NoSearch(a)
  PROVE  AddressInv'
<1>1. /\ entries' = [entries EXCEPT ![current] = Entry(a, d)]
      /\ screen' = screen /\ certificates' = certificates /\ current' = current
  BY DEF Replace
<1>2. EntryFits(screen, certificates, Entry(a, d))
  BY DEF EntryFits, Entry
<1>3. current \in DOMAIN entries
  BY DEF AddressInv, HistoryFits
<1>4. HistoryFits(screen, certificates, [entries EXCEPT ![current] = Entry(a, d)], current, local')
  BY <1>2, <1>3, EntryWritten DEF AddressInv
<1> QED
  BY <1>1, <1>4 DEF AddressInv

LEMMA CurrentFits ==
  ASSUME AddressInv
  PROVE  /\ screen \in DOMAIN Tabs /\ NumbersFit(Here) /\ Meaning(Here) = Chosen
         /\ IsLocal(local) /\ local.tab = TabOn(screen, Here) /\ (local.text # NotComposing => screen = "dns")
         /\ LocalFits(screen, local, entries[current])
<1>1. /\ screen \in DOMAIN Tabs /\ EntryFits(screen, certificates, entries[current])
      /\ LocalFits(screen, local, entries[current])
  BY DEF AddressInv, HistoryFits
<1> QED
  BY <1>1, MeaningIsShows DEF EntryFits, LocalFits, Here, Chosen

\* A page without tabs has the tab "none".
LEMMA TabOfMeaning ==
  ASSUME screen \in DOMAIN Tabs, NEW a, NEW b, Meaning(a) = Meaning(b)
  PROVE  TabOn(screen, a) = TabOn(screen, b)
<1>1. CASE screen = "domain"
  <2>1. OnDomain(a).tab = TabOn("domain", a) /\ OnDomain(b).tab = TabOn("domain", b)
    BY DEF OnDomain
  <2>2. OnDomain(a) = OnDomain(b)
    BY <1>1 DEF Meaning
  <2> QED
    BY <1>1, <2>1, <2>2
<1>2. CASE screen = "dns"
  <2>1. OnDns(a).tab = TabOn("dns", a) /\ OnDns(b).tab = TabOn("dns", b)
    BY DEF OnDns
  <2>2. OnDns(a) = OnDns(b)
    BY <1>2 DEF Meaning
  <2> QED
    BY <1>2, <2>1, <2>2
<1>3. CASE screen = "audit" \/ screen = "system"
  BY <1>3, TabsAre DEF TabOn, OneOf
<1> QED
  BY <1>1, <1>2, <1>3, TabsAre

LEMMA SearchStaysAway ==
  ASSUME NEW a, NoSearch(a) PROVE \A keys : NoSearch(Drop(a, keys))
<1> DEFINE none == ""
<1>1. Get(a, "certQ", none) = none
  BY DEF NoSearch
<1> HIDE DEF none
<1>2. \A keys : Get(Drop(a, keys), "certQ", none) = none
  BY <1>1, GetOfDrop
<1> QED
  BY <1>2 DEF none, NoSearch

LEMMA PathAndRangeStay ==
  ASSUME NEW a, NEW t
  PROVE  WithTab(OnDomain(a), t).path = OnDomain(a).path /\ WithTab(OnDomain(a), t).range = OnDomain(a).range
<1> PICK u, p, r, x, y : OnDomain(a) = DomainShown(u, p, r, x, y)
  <2> DEFINE c == OnDomain(a)
  <2>1. c = DomainShown(c.tab, c.period, c.refresh, c.path, c.range)
    BY DEF OnDomain, DomainShown
  <2> HIDE DEF c
  <2>2. \E u, p, r, x, y : c = DomainShown(u, p, r, x, y)
    BY <2>1
  <2> QED
    BY <2>2 DEF c
<1>1. WithTab(OnDomain(a), t) = DomainShown(t, p, r, x, y)
  BY DomainFields
<1> QED
  BY <1>1 DEF DomainShown

-----------------------------------------------------------------------------
(* The steps *)

LEMMA TabStep ==
  ASSUME AddressInv, NEW t \in Tabs[screen], HandleTabChange(t)
  PROVE  AddressInv'
<1> PICK a, b, d : a = Put(Here, "tab", t) /\ b = Settled(a, t # local.tab) /\ d = WithTab(Chosen, t)
  OBVIOUS
<1>1. screen = "domain" \/ screen = "dns"
  BY CurrentFits, TabsAre
<1>2. NumbersFit(a)
  BY CurrentFits, NumbersStay DEF NumberKeys
<1>3. Meaning(a) = d /\ TabOn(screen, a) = t
  <2>1. ASSUME screen = "domain" PROVE Meaning(a) = d
    BY <2>1, CurrentFits, DomainTabChosen DEF Meaning
  <2>2. ASSUME screen = "dns" PROVE Meaning(a) = d
    <3>1. Differ(Here, a, {"tab"}) /\ Get(a, "tab", "records") = t
      BY GetOfPut DEF Differ
    <3>2. OnDns(a) = WithTab(OnDns(Here), t)
      BY <2>2, <3>1, DnsWritten
    <3> QED
      BY <2>2, <3>2, CurrentFits DEF Meaning
  <2>3. \A default : Get(a, "tab", default) = t
    BY GetOfPut
  <2>4. TabOn(screen, a) = t
    BY <2>3 DEF TabOn, OneOf
  <2> QED
    BY <1>1, <2>1, <2>2, <2>4
<1>4. NumbersFit(b) /\ Meaning(b) = d /\ TabOn(screen, b) = t
  BY <1>2, <1>3, CurrentFits, SettledShows, TabOfMeaning
<1>5. EntryFits(screen, certificates, Entry(b, d))
  BY <1>4, MeaningIsShows DEF EntryFits, Entry
<1>6. LocalFits(screen, local', Entry(b, d))
  <2>1. Entry(b, d).address = b /\ Entry(b, d).chosen = d
    BY DEF Entry
  <2>2. CASE ActiveTab(a) = local.tab
    <3>1. local' = local
      BY <2>2 DEF HandleTabChange, Renders
    <3>2. local.tab = t
      BY <1>3, <2>2 DEF ActiveTab
    <3>3. local.tab = "diagnose" => d.path = Chosen.path /\ d.range = Chosen.range
      <4> SUFFICES ASSUME local.tab = "diagnose" PROVE d.path = Chosen.path /\ d.range = Chosen.range
        OBVIOUS
      <4>1. screen = "domain"
        BY <1>1, <3>2, TabsAre
      <4>2. Chosen = OnDomain(Here)
        BY <4>1, CurrentFits DEF Meaning
      <4> QED
        BY <4>2, PathAndRangeStay
    <3> QED
      BY <1>4, <2>1, <3>1, <3>2, <3>3, CurrentFits DEF LocalFits, Chosen
  <2>3. CASE ActiveTab(a) # local.tab
    <3>1. local' = Mounted(a)
      BY <2>3 DEF HandleTabChange, Renders
    <3> QED
      BY <1>3, <1>4, <2>1, <3>1, MountedFits DEF ActiveTab
  <2> QED
    BY <2>2, <2>3
<1>7. screen \notin Searched
  BY <1>1 DEF Searched
<1>8. /\ entries' = Append(SubSeq(entries, 1, current), Entry(b, d)) /\ current' = current + 1
      /\ screen' = screen /\ certificates' = certificates
  BY DEF HandleTabChange, WithTab
<1>9. HistoryFits(screen, certificates, Append(SubSeq(entries, 1, current), Entry(b, d)), current + 1, local')
  BY <1>5, <1>6, <1>7, EntryPushed DEF AddressInv
<1> QED
  BY <1>8, <1>9 DEF AddressInv

\* The address of an entry is set.
WithAddress(h, k, a) == [h EXCEPT ![k].address = a]
WithEntry(h, k, e)   == [h EXCEPT ![k] = e]

LEMMA AddressSet ==
  ASSUME NEW h, NEW k \in DOMAIN h, h[k] = Entry(h[k].address, h[k].chosen), NEW a
  PROVE  WithAddress(h, k, a) = WithEntry(h, k, Entry(a, h[k].chosen))
<1>1. PICK T : {h[k].address, h[k].chosen, a} \subseteq T
  OBVIOUS
<1>2. h[k] \in [address : T, chosen : T]
  BY <1>1 DEF Entry
<1>3. [h[k] EXCEPT !.address = a] \in [address : T, chosen : T] /\ Entry(a, h[k].chosen) \in [address : T, chosen : T]
  BY <1>1, <1>2 DEF Entry
<1>4. \A x, y \in [address : T, chosen : T] : x.address = y.address /\ x.chosen = y.chosen => x = y
  OBVIOUS
<1>5. [h[k] EXCEPT !.address = a] = Entry(a, h[k].chosen)
  BY <1>2, <1>3, <1>4 DEF Entry
<1> QED
  BY <1>5 DEF WithAddress, WithEntry

LEMMA StepStep ==
  ASSUME AddressInv, NEW to \in {current - 1, current + 1} \cap DOMAIN entries, Step(to)
  PROVE  AddressInv'
<1> PICK a, b, d : /\ a = entries[to].address /\ d = entries[to].chosen
                   /\ b = Settled(a, ActiveTab(a) # local.tab)
  OBVIOUS
<1>1. entries[to] = Entry(a, d) /\ NumbersFit(a) /\ Meaning(a) = d
  BY MeaningIsShows DEF AddressInv, HistoryFits, EntryFits
<1>2. NumbersFit(b) /\ Meaning(b) = d /\ TabOn(screen, b) = ActiveTab(a)
  BY <1>1, CurrentFits, SettledShows, TabOfMeaning DEF ActiveTab
<1>3. EntryFits(screen, certificates, Entry(b, d))
  BY <1>2, MeaningIsShows DEF EntryFits, Entry
<1>4. Entry(b, d).address = b /\ Entry(b, d).chosen = d
  BY DEF Entry
<1>5. LocalFits(screen, local', Entry(b, d))
  <2>1. CASE ActiveTab(a) = "diagnose" /\ local.tab = "diagnose"
    <3>1. local' = [local EXCEPT !.stepped = TRUE]
      BY <2>1 DEF Step
    <3>2. IsLocal(local') /\ local'.tab = local.tab /\ local'.text = local.text /\ local'.stepped
      BY <3>1, CurrentFits, LocalUpdates
    <3> QED
      BY <1>2, <1>4, <2>1, <3>2, CurrentFits DEF LocalFits
  <2>2. CASE ActiveTab(a) = local.tab /\ local.tab # "diagnose"
    <3>1. local' = local
      BY <2>2 DEF Step, Renders
    <3> QED
      BY <1>2, <1>4, <2>2, <3>1, CurrentFits DEF LocalFits
  <2>3. CASE ActiveTab(a) # local.tab
    <3>1. local' = Mounted(a)
      BY <2>3 DEF Step, Renders
    <3> QED
      BY <1>1, <1>2, <1>4, <3>1, MountedFits
  <2> QED
    BY <2>1, <2>2, <2>3
<1>6. screen \notin Searched
  <2> SUFFICES ASSUME screen \in Searched PROVE FALSE
    OBVIOUS
  <2>1. current = 1 /\ to = 1
    BY OneEntry DEF AddressInv, HistoryFits
  <2> QED
    BY <2>1
<1>7. /\ entries' = [entries EXCEPT ![to] = Entry(b, d)] /\ current' = to
      /\ screen' = screen /\ certificates' = certificates
  <2>1. /\ entries' = WithAddress(entries, to, b) /\ current' = to
        /\ screen' = screen /\ certificates' = certificates
    BY DEF Step, WithAddress
  <2>2. WithAddress(entries, to, b) = WithEntry(entries, to, Entry(b, d))
    BY <1>1, AddressSet
  <2> QED
    BY <2>1, <2>2 DEF WithEntry
<1>8. HistoryFits(screen, certificates, [entries EXCEPT ![to] = Entry(b, d)], to, local')
  BY <1>3, <1>5, <1>6, EntryWritten DEF AddressInv
<1> QED
  BY <1>7, <1>8 DEF AddressInv

LEMMA ReloadStep ==
  ASSUME AddressInv, Reload
  PROVE  AddressInv'
<1> PICK b : b = Settled(Here, TRUE)
  OBVIOUS
<1>1. NumbersFit(b) /\ Meaning(b) = Chosen /\ TabOn(screen, b) = ActiveTab(Here)
  BY CurrentFits, SettledShows, TabOfMeaning DEF ActiveTab
<1>2. EntryFits(screen, certificates, Entry(b, Chosen))
  BY <1>1, MeaningIsShows DEF EntryFits, Entry
<1>3. LocalFits(screen, local', Entry(b, Chosen))
  <2>1. Entry(b, Chosen).address = b /\ Entry(b, Chosen).chosen = Chosen
    BY DEF Entry
  <2>2. local' = Mounted(Here)
    BY DEF Reload
  <2> QED
    BY <1>1, <2>1, <2>2, CurrentFits, MountedFits
<1>4. ASSUME screen \in Searched, certificates = "few" PROVE NoSearch(b)
  <2>1. current = 1 /\ NoSearch(entries[1].address)
    BY <1>4, OneEntry DEF AddressInv, HistoryFits, SearchFits
  <2>2. NoSearch(Here)
    BY <2>1 DEF Here
  <2>3. b = Here \/ \E keys : b = Drop(Here, keys)
    <3>1. ActiveTab(Here) # "diagnose"
      BY <1>4, TabsAre DEF Searched, ActiveTab, TabOn, OneOf
    <3> QED
      BY <3>1 DEF Settled
  <2> QED
    BY <2>2, <2>3, SearchStaysAway
<1>5. current \in DOMAIN entries /\ entries[current] = Entry(Here, Chosen)
  BY DEF AddressInv, HistoryFits, EntryFits, Here, Chosen
<1>6. entries' = [entries EXCEPT ![current] = Entry(b, Chosen)]
  <2>1. entries[current].address = Here /\ entries[current].chosen = Chosen
    BY DEF Here, Chosen
  <2>2. entries' = WithAddress(entries, current, b)
    BY DEF Reload, WithAddress
  <2>3. WithAddress(entries, current, b) = WithEntry(entries, current, Entry(b, Chosen))
    BY <1>5, <2>1, AddressSet
  <2> QED
    BY <2>2, <2>3 DEF WithEntry
<1>7. HistoryFits(screen, certificates, [entries EXCEPT ![current] = Entry(b, Chosen)], current, local')
  BY <1>2, <1>3, <1>4, <1>5, EntryWritten DEF AddressInv
<1>8. HistoryFits(screen, "unread", entries', current, local')
  BY <1>6, <1>7, CertificatesForgotten
<1>9. screen' = screen /\ certificates' = "unread" /\ current' = current
  BY DEF Reload
<1> QED
  BY <1>8, <1>9 DEF AddressInv

LEMMA CertificatesStep ==
  ASSUME AddressInv, NEW n \in {"few", "many"}, CertificatesRead(n)
  PROVE  AddressInv'
<1>1. screen = "system" /\ screen' = screen /\ certificates' = n /\ current' = current /\ local' = local
  BY DEF CertificatesRead
<1>2. CASE n = "many"
  <2>1. entries' = entries /\ n # "few"
    BY <1>2 DEF CertificatesRead
  <2>2. HistoryFits(screen, n, entries, current, local)
    BY <2>1, CertificatesForgotten DEF AddressInv
  <2> QED
    BY <1>1, <2>1, <2>2 DEF AddressInv
<1>3. CASE n = "few"
  <2> DEFINE none == ""
             a == Drop(Here, {"certQ"})
             d == [certQ |-> none]
             h == <<Entry(a, d)>>
  <2>1. entries' = h
    BY <1>3 DEF CertificatesRead
  <2>2. NumbersFit(a)
    BY CurrentFits, NumbersStay
  <2>3. ShownOn(screen, n, a) = d
    BY <1>1, <1>3 DEF ShownOn
  <2>4. NoSearch(a)
    <3>1. "certQ" \notin DOMAIN a
      BY DEF Drop
    <3> HIDE DEF a
    <3> QED
      BY <3>1 DEF NoSearch, Get
  <2>5. current = 1
    <3>1. screen \in Searched /\ current \in DOMAIN entries
      BY <1>1 DEF Searched, AddressInv, HistoryFits
    <3> QED
      BY <3>1, OneEntry DEF AddressInv
  <2>6. \A x : TabOn(screen, x) = "none"
    BY <1>1, TabsAre DEF TabOn, OneOf
  <2> HIDE DEF a, d
  <2>7. Entry(a, d).address = a /\ EntryFits(screen, n, Entry(a, d))
    BY <2>2, <2>3 DEF EntryFits, Entry
  <2>8. LocalFits(screen, local, Entry(a, d))
    BY <2>6, CurrentFits, LocalKept
  <2>9. IsSequence(h) /\ Len(h) = 1 /\ DOMAIN h = {1} /\ h[1] = Entry(a, d)
    BY SeqOfOne
  <2> HIDE DEF h
  <2>10. HistoryFits(screen, n, h, 1, local)
    BY <2>4, <2>7, <2>8, <2>9, CurrentFits DEF HistoryFits, SearchFits
  <2> QED
    BY <1>1, <2>1, <2>5, <2>10 DEF AddressInv
<1> QED
  BY <1>2, <1>3

LEMMA KeptHere ==
  ASSUME AddressInv, NEW a, NEW d, TabOn(screen, a) = TabOn(screen, Here), local.tab # "diagnose",
         IsLocal(local'), local'.tab = local.tab, local'.text = local.text
  PROVE  LocalFits(screen, local', Entry(a, d))
<1>1. Entry(a, d).address = a /\ entries[current].address = Here
  BY DEF Entry, Here
<1>2. LocalFits(screen, local, entries[current])
  BY CurrentFits
<1> QED
  BY <1>1, <1>2, CurrentFits DEF LocalFits

LEMMA ChangeStep ==
  ASSUME AddressInv, NEW p \in TabPrefixes, NEW v, IsPeriod(v), NEW open, Shown(p), OnChange(p, v, open)
  PROVE  AddressInv'
<1> PICK a, d : a = WritePeriod(p, v) /\ d = WithPeriod(Chosen, p, v)
  OBVIOUS
<1>1. screen = "domain" /\ local.tab # "diagnose" /\ screen \notin Searched
  BY DEF Shown, Searched
<1>2. Chosen = OnDomain(Here) /\ NumbersFit(Here) /\ IsLocal(local)
  BY <1>1, CurrentFits DEF Meaning
<1>3. NumbersFit(a) /\ TabOn(screen, a) = TabOn(screen, Here) /\ OnDomain(a) = d
  BY <1>1, <1>2, PeriodWritten
<1>4. ShownOn(screen, certificates, a) = d
  BY <1>1, <1>3 DEF ShownOn
<1>5. IsLocal(local') /\ local'.tab = local.tab /\ local'.text = local.text
  BY <1>2, LocalUpdates DEF OnChange
<1>6. LocalFits(screen, local', Entry(a, d))
  BY <1>1, <1>3, <1>5, KeptHere
<1>7. Replace(a, d)
  BY DEF OnChange, WithPeriod
<1> QED
  BY <1>1, <1>3, <1>4, <1>6, <1>7, ReplaceStep

LEMMA CustomStep ==
  ASSUME AddressInv, NEW p \in TabPrefixes, NEW first \in Nat, first > 0, NEW last \in Int, ApplyCustom(p, first, last)
  PROVE  AddressInv'
<1> DEFINE v == Value("custom", 2 * first, 2 * last + 1)
<1>1. v.from = 2 * first /\ v.to = 2 * last + 1 /\ v = Value("custom", v.from, v.to)
  BY DEF Value
<1>2. 2 * last + 1 > 2 * first /\ Shown(p) /\ OnChange(p, v, TRUE)
  BY DEF ApplyCustom
<1>3. 2 * first \in Int \ {1} /\ 2 * last + 1 \in Int /\ 0 < 2 * first
  OBVIOUS
<1> HIDE DEF v
<1>4. IsPeriod(v)
  BY <1>1, <1>2, <1>3 DEF IsPeriod
<1> QED
  BY <1>2, <1>4, ChangeStep

\* A period that is shown has no dates, or begins on a day after the first.
LEMMA ShownPeriod ==
  ASSUME NEW a, NumbersFit(a), NEW p \in TabPrefixes
  PROVE  /\ ReadPeriod(a, p).from \in Nat \ {1} /\ ReadPeriod(a, p).to \in Nat
         /\ ReadPeriod(a, p).period \in Presets \cup {"custom"}
<1> DEFINE x == Get(a, FromKey(p), 0)
           y == Get(a, ToKey(p), 0)
           o == OneOf(a, PeriodKey(p), Presets \cup {"custom"}, "24h")
<1>1. x \in Int \ {1} /\ y \in Int /\ (ValidRange(a, p) => 0 < x /\ x < y)
  BY DEF NumbersFit, ValidRange
<1>2. o \in Presets \cup {"custom"}
  BY DEF OneOf, Presets
<1>3. ReadPeriod(a, p) = IF o = "custom" /\ ValidRange(a, p) THEN Value("custom", x, y) ELSE Value(o, 0, 0)
  BY PeriodByKeys
<1> HIDE DEF x, y, o
<1>4. CASE o = "custom" /\ ValidRange(a, p)
  <2>1. ReadPeriod(a, p).from = x /\ ReadPeriod(a, p).to = y /\ ReadPeriod(a, p).period = o
    BY <1>3, <1>4 DEF Value
  <2> QED
    BY <1>1, <1>2, <1>4, <2>1
<1>5. CASE ~(o = "custom" /\ ValidRange(a, p))
  <2>1. ReadPeriod(a, p).from = 0 /\ ReadPeriod(a, p).to = 0 /\ ReadPeriod(a, p).period = o
    BY <1>3, <1>5 DEF Value
  <2> QED
    BY <1>2, <2>1
<1> QED
  BY <1>4, <1>5

LEMMA PeriodSteps ==
  ASSUME AddressInv, NEW p \in TabPrefixes,
         \/ SelectCustom(p)
         \/ \E preset \in Presets : SelectPreset(p, preset)
         \/ \E day \in 1 .. MaxDay : FromInput(p, day) \/ ToInput(p, day)
  PROVE  AddressInv'
<1> DEFINE v == ReadPeriod(Here, p)
<1>1. NumbersFit(Here) /\ v.from \in Nat \ {1} /\ v.to \in Nat
  BY CurrentFits, ShownPeriod
<1> HIDE DEF v
<1>2. ASSUME SelectCustom(p) PROVE AddressInv'
  <2>1. CASE OnChange(p, Value("custom", 0, 0), TRUE)
    <3>1. IsPeriod(Value("custom", 0, 0)) /\ Shown(p)
      BY <1>2 DEF IsPeriod, Value, SelectCustom
    <3> QED
      BY <2>1, <3>1, ChangeStep
  <2>2. CASE local' = [local EXCEPT !.customOpen = TRUE] /\ UNCHANGED <<screen, entries, current, certificates>>
    <3>1. IsLocal(local') /\ local'.tab = local.tab /\ local'.text = local.text /\ local.tab # "diagnose"
      BY <1>2, <2>2, CurrentFits, LocalUpdates DEF SelectCustom, Shown
    <3>2. LocalFits(screen, local', entries[current])
      BY <3>1, CurrentFits, LocalKept
    <3> QED
      BY <2>2, <3>2 DEF AddressInv, HistoryFits
  <2> QED
    BY <1>2, <2>1, <2>2 DEF SelectCustom
<1>3. ASSUME NEW preset \in Presets, SelectPreset(p, preset) PROVE AddressInv'
  <2>1. IsPeriod(Value(preset, 0, 0))
    BY DEF IsPeriod, Value
  <2> QED
    BY <1>3, <2>1, ChangeStep DEF SelectPreset
<1>4. ASSUME NEW day \in 1 .. MaxDay, FromInput(p, day) PROVE AddressInv'
  <2> DEFINE last == IF v.to = 0 THEN MaxDay ELSE v.to \div 2
  <2>1. day \in Nat /\ day > 0 /\ last \in Int
    BY <1>1, AddressAssumption
  <2>2. ApplyCustom(p, day, last)
    BY <1>4 DEF FromInput, v
  <2> HIDE DEF last
  <2> QED
    BY <2>1, <2>2, CustomStep
<1>5. ASSUME NEW day \in 1 .. MaxDay, ToInput(p, day) PROVE AddressInv'
  <2> DEFINE first == IF v.from = 0 THEN day ELSE v.from \div 2
  <2>1. day \in Int /\ first \in Nat /\ first > 0
    BY <1>1, AddressAssumption
  <2>2. ApplyCustom(p, first, day)
    BY <1>5 DEF ToInput, v
  <2> HIDE DEF first
  <2> QED
    BY <2>1, <2>2, CustomStep
<1> QED
  BY <1>2, <1>3, <1>4, <1>5

LEMMA RefreshStep ==
  ASSUME AddressInv, NEW p \in TabPrefixes, NEW ms \in Refreshes, WriteRefresh(p, ms)
  PROVE  AddressInv'
<1> PICK a, d : a = Refreshed(Here, p, ms) /\ d = WithRefresh(Chosen, p, ms)
  OBVIOUS
<1>1. screen = "domain" /\ local.tab # "diagnose" /\ screen \notin Searched
  BY DEF WriteRefresh, Shown, Searched
<1>2. Chosen = OnDomain(Here) /\ NumbersFit(Here) /\ IsLocal(local)
  BY <1>1, CurrentFits DEF Meaning
<1>3. NumbersFit(a) /\ TabOn(screen, a) = TabOn(screen, Here) /\ OnDomain(a) = d
  BY <1>1, <1>2, RefreshWritten
<1>4. ShownOn(screen, certificates, a) = d
  BY <1>1, <1>3 DEF ShownOn
<1>5. LocalFits(screen, local', Entry(a, d))
  BY <1>1, <1>2, <1>3, KeptHere DEF WriteRefresh
<1>6. Replace(a, d)
  BY DEF WriteRefresh, WithRefresh, Refreshed
<1> QED
  BY <1>1, <1>3, <1>4, <1>5, <1>6, ReplaceStep

LEMMA FieldsStep ==
  ASSUME AddressInv, NEW way, NEW range \in Ranges, DiagnoseFields(way, range)
  PROVE  AddressInv'
<1> PICK a, d : a = Synced(Here, way, range) /\ d = WithFields(Chosen, way, range)
  OBVIOUS
<1>1. local.tab = "diagnose" /\ TabOn(screen, Here) = "diagnose"
  BY CurrentFits DEF DiagnoseFields
<1>2. screen = "domain" /\ screen \notin Searched
  BY <1>1, CurrentFits, TabsAre DEF TabOn, OneOf, Searched
<1>3. Chosen = OnDomain(Here) /\ NumbersFit(Here) /\ IsLocal(local)
  BY <1>2, CurrentFits DEF Meaning
<1>4. NumbersFit(a) /\ OnDomain(a) = d
  BY <1>1, <1>2, <1>3, SyncedShows
<1>5. ShownOn(screen, certificates, a) = d
  BY <1>2, <1>4 DEF ShownOn
<1>6. TabOn("domain", a) = "diagnose"
  <2>1. OnDomain(a).tab = TabOn("domain", a) /\ OnDomain(Here).tab = TabOn("domain", Here)
    BY DEF OnDomain
  <2>2. WithFields(OnDomain(Here), way, range).tab = OnDomain(Here).tab
    BY DEF WithFields, OnDomain
  <2> QED
    BY <1>1, <1>2, <1>3, <1>4, <2>1, <2>2
<1>7. d.path = way /\ d.range = range
  BY <1>3 DEF WithFields, OnDomain
<1>8. /\ IsLocal(local') /\ local'.tab = local.tab /\ local'.text = local.text
      /\ local'.path = way /\ local'.range = range
  <2>1. local' = WithLocalFields(local, way, range)
    BY DEF DiagnoseFields, WithLocalFields
  <2> QED
    BY <1>3, <2>1, LocalFieldsSet
<1>9. LocalFits(screen, local', Entry(a, d))
  <2>1. Entry(a, d).address = a /\ Entry(a, d).chosen = d
    BY DEF Entry
  <2> QED
    BY <1>1, <1>2, <1>6, <1>7, <1>8, <2>1, CurrentFits DEF LocalFits
<1>10. Replace(a, d)
  BY DEF DiagnoseFields, WithFields
<1> QED
  BY <1>2, <1>4, <1>5, <1>9, <1>10, ReplaceStep

\* A step of the DNS page that sets one key and leaves the tab.
LEMMA DnsReplaced ==
  ASSUME AddressInv, screen = "dns", NEW a, NEW d, NEW key, key \notin NumberKeys, key # "tab",
         NumbersFit(a), Differ(Here, a, {key}), OnDns(a) = d, Replace(a, d),
         IsLocal(local'), local'.tab = local.tab
  PROVE  AddressInv'
<1>1. TabOn(screen, a) = TabOn(screen, Here) /\ screen \notin Searched
  <2>1. "tab" \notin {key}
    OBVIOUS
  <2>2. TabOn("dns", a) = TabOn("dns", Here)
    BY <2>1, DnsWritten
  <2> QED
    BY <2>2 DEF Searched
<1>2. local.tab # "diagnose"
  BY CurrentFits, TabsAre DEF TabOn, OneOf
<1>3. Entry(a, d).address = a
  BY DEF Entry
<1>4. LocalFits(screen, local', Entry(a, d))
  BY <1>1, <1>2, <1>3, CurrentFits DEF LocalFits
<1>5. ShownOn(screen, certificates, a) = d
  BY DEF ShownOn
<1> QED
  BY <1>1, <1>4, <1>5, ReplaceStep

LEMMA RangeStep ==
  ASSUME AddressInv, NEW v \in StatsRanges, HandleRangeChange(v)
  PROVE  AddressInv'
<1> PICK a, d : a = Put(Here, "range", v) /\ d = WithRange(Chosen, v)
  OBVIOUS
<1>1. screen = "dns" /\ Chosen = OnDns(Here) /\ IsLocal(local) /\ NumbersFit(a)
  BY CurrentFits, NumbersStay DEF HandleRangeChange, Meaning, NumberKeys
<1>2. Differ(Here, a, {"range"}) /\ Get(a, "range", "1h") = v
  BY GetOfPut DEF Differ
<1>3. OnDns(a) = d
  BY <1>1, <1>2, RangeWritten
<1>4. Replace(a, d) /\ local' = local
  BY DEF HandleRangeChange, WithRange
<1> QED
  BY <1>1, <1>2, <1>3, <1>4, DnsReplaced DEF NumberKeys

LEMMA QueryStep ==
  ASSUME AddressInv, screen = "dns", NEW text,
         Replace(WithText("q", text), WithQ(Chosen, text)), IsLocal(local'), local'.tab = local.tab
  PROVE  AddressInv'
<1> PICK a, d : a = WithText("q", text) /\ d = WithQ(Chosen, text)
  OBVIOUS
<1>1. Chosen = OnDns(Here) /\ NumbersFit(Here)
  BY CurrentFits DEF Meaning
<1>2. NumbersFit(a) /\ Differ(Here, a, {"q"}) /\ Get(a, "q", "") = text
  BY <1>1, TextWritten DEF NumberKeys
<1>3. OnDns(a) = d
  BY <1>1, <1>2, QueryWritten
<1> QED
  BY <1>2, <1>3, DnsReplaced DEF NumberKeys

LEMMA ResultStep ==
  ASSUME AddressInv, NEW kept \in SUBSET Results, HandleResultFilterChange(kept)
  PROVE  AddressInv'
<1> PICK a, d : /\ a = IF kept = Results THEN Drop(Here, {"result"}) ELSE Put(Here, "result", kept)
                /\ d = WithResult(Chosen, kept)
  OBVIOUS
<1>1. screen = "dns" /\ Chosen = OnDns(Here) /\ IsLocal(local) /\ NumbersFit(a)
  BY CurrentFits, NumbersStay DEF HandleResultFilterChange, Meaning, NumberKeys
<1>2. Differ(Here, a, {"result"}) /\ ParseResultFilter(a) = kept
  BY FilterWritten
<1>3. OnDns(a) = d
  BY <1>1, <1>2, ResultWritten
<1>4. Replace(a, d) /\ local' = local
  BY DEF HandleResultFilterChange, WithResult
<1> QED
  BY <1>1, <1>2, <1>3, <1>4, DnsReplaced DEF NumberKeys

LEMMA DnsSteps ==
  ASSUME AddressInv,
         \/ \E text \in Texts : HandleSearchChange(text) \/ Compose(text)
         \/ HandleCompositionEnd
         \/ \E r \in Results : ToggleResult(r)
         \/ HandleResetFilters
  PROVE  AddressInv'
<1>1. ParseResultFilter(Here) \in SUBSET Results
  BY DEF ParseResultFilter
<1>2. ASSUME NEW text \in Texts, HandleSearchChange(text) PROVE AddressInv'
  BY <1>2, CurrentFits, QueryStep DEF HandleSearchChange, WithQ
<1>3. ASSUME NEW text \in Texts, Compose(text) PROVE AddressInv'
  <2>1. /\ screen = "dns" /\ local' = [local EXCEPT !.text = text]
        /\ UNCHANGED <<screen, entries, current, certificates>>
    BY <1>3 DEF Compose
  <2>2. IsLocal(local') /\ local'.tab = local.tab
    BY <2>1, CurrentFits, LocalUpdates
  <2>3. local.tab # "diagnose"
    BY <2>1, CurrentFits, TabsAre DEF TabOn, OneOf
  <2>4. LocalFits(screen, local', entries[current])
    BY <2>1, <2>2, <2>3, CurrentFits DEF LocalFits
  <2> QED
    BY <2>1, <2>4 DEF AddressInv, HistoryFits
<1>4. ASSUME HandleCompositionEnd PROVE AddressInv'
  <2>1. screen = "dns"
    BY <1>4, CurrentFits DEF HandleCompositionEnd
  <2>2. IsLocal(local') /\ local'.tab = local.tab
    <3>1. local' = [local EXCEPT !.text = NotComposing]
      BY <1>4 DEF HandleCompositionEnd
    <3> QED
      BY <3>1, CurrentFits, LocalUpdates
  <2>3. Replace(WithText("q", local.text), WithQ(Chosen, local.text))
    BY <1>4 DEF HandleCompositionEnd, WithQ
  <2> QED
    BY <2>1, <2>2, <2>3, QueryStep
<1>5. ASSUME NEW r \in Results, ToggleResult(r) PROVE AddressInv'
  <2> DEFINE f == ParseResultFilter(Here)
             g == IF r \in f THEN f \ {r} ELSE f \cup {r}
  <2>1. g \in SUBSET Results
    BY <1>1
  <2>2. HandleResultFilterChange(g)
    BY <1>5 DEF ToggleResult
  <2> HIDE DEF g
  <2> QED
    BY <2>1, <2>2, ResultStep
<1>6. ASSUME HandleResetFilters PROVE AddressInv'
  BY <1>6, ResultStep DEF HandleResetFilters
<1> QED
  BY <1>2, <1>3, <1>4, <1>5, <1>6

\* The pages without tabs.
LEMMA UntabbedReplaced ==
  ASSUME AddressInv, screen = "audit" \/ screen = "system", NEW a, NEW d, NumbersFit(a),
         ShownOn(screen, certificates, a) = d, Replace(a, d), local' = local,
         screen \in Searched => certificates # "few"
  PROVE  AddressInv'
<1>1. \A x : TabOn(screen, x) = "none"
  BY TabsAre DEF TabOn, OneOf
<1>2. LocalFits(screen, local', Entry(a, d))
  BY <1>1, CurrentFits, LocalKept
<1> QED
  BY <1>2, ReplaceStep

LEMMA FilterStep ==
  ASSUME AddressInv, NEW key \in {"action", "target_type"}, NEW text, Filter(key, text)
  PROVE  AddressInv'
<1> PICK a, d : /\ a = Drop(WithText(key, text), {"page"})
                /\ d = [action |-> IF key = "action" THEN text ELSE Chosen.action,
                        target |-> IF key = "target_type" THEN text ELSE Chosen.target, page |-> 1]
  OBVIOUS
<1>1. screen = "audit" /\ Chosen = OnAudit(Here) /\ NumbersFit(Here) /\ local' = local
  BY CurrentFits DEF Filter, Meaning
<1>2. NumbersFit(a) /\ OnAudit(a) = d
  BY <1>1, FilterTurnsBack
<1>3. ShownOn(screen, certificates, a) = d /\ screen \notin Searched
  BY <1>1, <1>2 DEF ShownOn, Searched
<1>4. Replace(a, d)
  BY DEF Filter
<1> QED
  BY <1>1, <1>2, <1>3, <1>4, UntabbedReplaced

LEMMA PageShown == \A a : NumbersFit(a) => OnAudit(a).page \in Int /\ OnAudit(a).page > 0
<1> SUFFICES ASSUME NEW a, NumbersFit(a) PROVE OnAudit(a).page \in Int /\ OnAudit(a).page > 0
  OBVIOUS
<1> DEFINE n == Get(a, "page", 0)
<1>1. n \in Int /\ (n > 0 => a["page"] = n)
  BY DEF NumbersFit, Get
<1>2. OnAudit(a).page = IF n > 0 THEN a["page"] ELSE 1
  BY DEF OnAudit
<1> HIDE DEF n
<1> QED
  BY <1>1, <1>2

LEMMA TurnStep ==
  ASSUME AddressInv, NEW by \in {-1, 1}, NEW pages \in 1 .. 3, Turn(by, pages)
  PROVE  AddressInv'
<1> PICK n : n = Chosen.page + by
  OBVIOUS
<1> PICK a, d : a = Put(Here, "page", n) /\ d = WithPage(Chosen, n)
  OBVIOUS
<1>1. screen = "audit" /\ Chosen = OnAudit(Here) /\ NumbersFit(Here) /\ local' = local
  BY CurrentFits DEF Turn, Meaning
<1>2. Meaning(Here).page = Chosen.page
  BY CurrentFits
<1>3. n \in Int /\ n > 0
  <2> DEFINE m == Chosen.page
  <2>1. m \in Int /\ m > 0
    BY <1>1, PageShown
  <2>2. by = 1 \/ m > 1
    BY <1>2 DEF Turn
  <2>3. n = m + by
    OBVIOUS
  <2> HIDE DEF m
  <2> QED
    BY <2>1, <2>2, <2>3
<1>4. NumbersFit(a) /\ OnAudit(a) = d
  BY <1>1, <1>3, PageTurned
<1>5. ShownOn(screen, certificates, a) = d /\ screen \notin Searched
  BY <1>1, <1>4 DEF ShownOn, Searched
<1>6. Replace(a, d)
  BY <1>2 DEF Turn, WithPage
<1> QED
  BY <1>1, <1>4, <1>5, <1>6, UntabbedReplaced

LEMMA CertSearchStep ==
  ASSUME AddressInv, NEW text, HandleCertSearchChange(text)
  PROVE  AddressInv'
<1> PICK a, d : a = WithText("certQ", text) /\ d = [certQ |-> text]
  OBVIOUS
<1>1. screen = "system" /\ certificates = "many" /\ local' = local /\ Replace(a, d) /\ NumbersFit(Here)
  BY CurrentFits DEF HandleCertSearchChange
<1>2. NumbersFit(a) /\ Get(a, "certQ", "") = text
  BY <1>1, TextWritten DEF NumberKeys
<1>3. ShownOn(screen, certificates, a) = d
  BY <1>1, <1>2 DEF ShownOn
<1> QED
  BY <1>1, <1>2, <1>3, UntabbedReplaced

LEMMA AddressInitially == AddressInit => AddressInv
<1> SUFFICES ASSUME AddressInit PROVE AddressInv
  OBVIOUS
<1>1. screen \in DOMAIN Arrivals /\ screen \in DOMAIN Tabs /\ certificates = "unread" /\ current = 1
  BY AddressAssumption DEF AddressInit
<1> PICK a \in Arrivals[screen] : /\ entries = <<Entry(Settled(a, TRUE), Meaning(a))>> /\ local = Mounted(a)
  BY DEF AddressInit
<1> PICK b, d : b = Settled(a, TRUE) /\ d = Meaning(a)
  OBVIOUS
<1>2. NumbersFit(b) /\ Meaning(b) = d /\ TabOn(screen, b) = ActiveTab(a)
  BY <1>1, AddressAssumption, SettledShows, TabOfMeaning DEF ActiveTab
<1>3. Entry(b, d).address = b /\ Entry(b, d).chosen = d
  BY DEF Entry
<1>4. EntryFits(screen, certificates, Entry(b, d))
  BY <1>2, <1>3, MeaningIsShows DEF EntryFits
<1>5. LocalFits(screen, local, Entry(b, d))
  BY <1>2, <1>3, MountedFits
<1>6. /\ IsSequence(entries) /\ Len(entries) = 1 /\ DOMAIN entries = {1}
      /\ entries[1] = Entry(b, d)
  BY SeqOfOne
<1> QED
  BY <1>1, <1>4, <1>5, <1>6 DEF AddressInv, HistoryFits, SearchFits

LEMMA AddressInductive == AddressInv /\ [AddressNext]_addressVars => AddressInv'
<1> SUFFICES ASSUME AddressInv, [AddressNext]_addressVars PROVE AddressInv'
  OBVIOUS
<1>1. CASE Reload
  BY <1>1, ReloadStep
<1>2. CASE HandleCompositionEnd \/ HandleResetFilters \/ \E r \in Results : ToggleResult(r)
  BY <1>2, DnsSteps
<1>3. CASE \E t \in Tabs[screen] : HandleTabChange(t)
  BY <1>3, TabStep
<1>4. CASE \E to \in {current - 1, current + 1} \cap DOMAIN entries : Step(to)
  BY <1>4, StepStep
<1>5. CASE \E p \in TabPrefixes :
             \/ SelectCustom(p)
             \/ \E preset \in Presets : SelectPreset(p, preset)
             \/ \E day \in 1 .. MaxDay : FromInput(p, day) \/ ToInput(p, day)
             \/ \E ms \in Refreshes : WriteRefresh(p, ms)
  BY <1>5, PeriodSteps, RefreshStep
<1>6. CASE \E way \in Texts, range \in Ranges : DiagnoseFields(way, range)
  BY <1>6, FieldsStep
<1>7. CASE \E v \in StatsRanges : HandleRangeChange(v)
  BY <1>7, RangeStep
<1>8. CASE \E text \in Texts :
             \/ HandleSearchChange(text) \/ Compose(text) \/ HandleCertSearchChange(text)
             \/ \E key \in {"action", "target_type"} : Filter(key, text)
  BY <1>8, DnsSteps, CertSearchStep, FilterStep
<1>9. CASE \E by \in {-1, 1}, pages \in 1 .. 3 : Turn(by, pages)
  BY <1>9, TurnStep
<1>10. CASE \E n \in {"few", "many"} : CertificatesRead(n)
  BY <1>10, CertificatesStep
<1>11. CASE UNCHANGED addressVars
  BY <1>11 DEF addressVars, AddressInv
<1> QED
  BY <1>1, <1>2, <1>3, <1>4, <1>5, <1>6, <1>7, <1>8, <1>9, <1>10, <1>11 DEF AddressNext

LEMMA AddressesAreRight == AddressInv => AddressKeepsChoices
<1> SUFFICES ASSUME AddressInv PROVE AddressKeepsChoices
  OBVIOUS
<1>1. \A i \in DOMAIN entries : Meaning(entries[i].address) = entries[i].chosen
  BY MeaningIsShows DEF AddressInv, HistoryFits, EntryFits
<1>2. local.tab = "diagnose" /\ ~local.stepped => local.path = Chosen.path /\ local.range = Chosen.range
  BY CurrentFits DEF LocalFits, Chosen
<1> QED
  BY <1>1, <1>2 DEF AddressKeepsChoices

\* Every entry of the history shows what was chosen on it, to whoever reloads it, comes back to it or
\* is sent its address, for any links that open the pages and any number of days: though the pages
\* correct an address after its render and the tabs of a domain share it (useSearchParams).
THEOREM AddressesKeepChoices == AddressSpec => []AddressKeepsChoices
BY AddressInitially, AddressInductive, AddressesAreRight, PTL DEF AddressSpec

=============================================================================
