----------------------------- MODULE DomainRows -----------------------------
(***************************************************************************)
(* The admin server's domain rows under concurrent requests that change    *)
(* them: the host locks (withHostLock), the transactions that stay open    *)
(* while the proxy is told (runInTransactionAsync), and the rollbacks by   *)
(* hand.  Whether the proxy could be told is a choice here; DomainSync     *)
(* says what is sent.                                                      *)
(*                                                                         *)
(* Node runs one handler at a time between two awaits, so an action is     *)
(* what a handler does from one await to the next.  All handlers share one *)
(* database connection, so a row written inside an open transaction is     *)
(* seen by everyone and belongs to that transaction, whoever writes it.    *)
(***************************************************************************)
EXTENDS Naturals

CONSTANTS
  Hosts,
  Requests,
  Nobody,    \* no request
  None,      \* no row, no transaction, no answer, no value
  Kinds      \* the kinds of request that arrive

Locked     == {"put", "toggle", "delete"}          \* run inside withHostLock
Transacted == {"post", "delete", "bulkDelete"}     \* run inside runInTransactionAsync
Existing   == {"put", "toggle", "delete", "sync"}  \* answer 404 if the host has no row
Bulk       == {"bulkInsert", "bulkDelete", "bulkToggle"}
Single     == Existing \cup {"post"}

ASSUME RowsAssumption ==
  /\ Nobody \notin Requests
  /\ Kinds \subseteq Bulk \cup Single

\* A row's origin stands for the request that set it; the seeded ones are Nobody's.
Rows == [origin : Requests \cup {Nobody}, enabled : BOOLEAN]

\* An open transaction: who opened it and what ROLLBACK goes back to.
Transactions == [owner : Requests, before : [Hosts -> Rows \cup {None}]]

ASSUME NoneAssumption ==
  None \notin Rows /\ None \notin BOOLEAN /\ None \notin Transactions

\* What a request asks: put may set enabled, bulkToggle does.
Ops ==
  {o \in [kind : Kinds, hosts : (SUBSET Hosts) \ {{}}, on : BOOLEAN \cup {None}] :
     /\ o.kind \in Single => \E h \in Hosts : o.hosts = {h}
     /\ o.kind = "bulkToggle" => o.on # None
     /\ o.kind \notin {"put", "bulkToggle"} => o.on = None}

VARIABLES
  rows,       \* rows[h]: the row of h, or None, as every handler reads it
  tx,         \* the open transaction, or None
  hostLocks,  \* hostLocks[h]: the last request in the chain of h, or Nobody
  prev,       \* prev[r]: the request whose turn r waits for, or Nobody
  pc, op,
  original,   \* original[r]: the row that put and toggle restore
  answer,
  arrivals, turn,  \* auxiliary: how many requests arrived, and when each did
  settled,    \* auxiliary: settled[h]: the row of h as decided requests leave it
  clash       \* auxiliary: has a request written what another may still undo?

lockVars == <<hostLocks, prev, arrivals, turn>>
vars == <<rows, tx, lockVars, pc, op, original, answer, settled, clash>>

\* The requests that have arrived and are not yet answered.
Active == {r \in Requests : pc[r] \in {"queued", "push", "fan"}}

TypeOK ==
  /\ rows \in [Hosts -> Rows \cup {None}]
  /\ tx \in Transactions \cup {None}
  /\ hostLocks \in [Hosts -> Requests \cup {Nobody}]
  /\ prev \in [Requests -> Requests \cup {Nobody}]
  /\ pc \in [Requests -> {"idle", "queued", "push", "fan", "done"}]
  /\ op \in [Requests -> Ops \cup {None}]
  /\ original \in [Requests -> Rows \cup {None}]
  /\ answer \in [Requests -> {None, "ok", "failed", "missing", "error", "lost"}]
  /\ arrivals \in Nat /\ turn \in [Requests -> Nat]
  /\ settled \in [Hosts -> Rows \cup {None}]
  /\ clash \in BOOLEAN
  /\ \A r \in Active : op[r] \in Ops
  /\ \A r \in Requests :
        (pc[r] = "push" /\ op[r].kind \in {"put", "toggle"}) => original[r] \in Rows

Init ==
  /\ rows \in [Hosts -> {None} \cup [origin : {Nobody}, enabled : BOOLEAN]]
  /\ tx = None
  /\ hostLocks = [h \in Hosts |-> Nobody]
  /\ prev = [r \in Requests |-> Nobody]
  /\ pc = [r \in Requests |-> "idle"]
  /\ op = [r \in Requests |-> None]
  /\ original = [r \in Requests |-> None]
  /\ answer = [r \in Requests |-> None]
  /\ arrivals = 0 /\ turn = [r \in Requests |-> 0]
  /\ settled = rows
  /\ clash = FALSE

-----------------------------------------------------------------------------
(* The host locks *)

\* A request that needs the lock of its host joins the end of the chain.
Arrive(r, o) ==
  /\ pc[r] = "idle"
  /\ pc' = [pc EXCEPT ![r] = "queued"]
  /\ op' = [op EXCEPT ![r] = o]
  /\ arrivals' = arrivals + 1
  /\ turn' = [turn EXCEPT ![r] = arrivals + 1]
  /\ \/ o.kind \notin Locked /\ UNCHANGED <<hostLocks, prev>>
     \/ /\ o.kind \in Locked
        /\ \E h \in o.hosts : prev' = [prev EXCEPT ![r] = hostLocks[h]]
        /\ hostLocks' = [h \in Hosts |-> IF h \in o.hosts THEN r ELSE hostLocks[h]]
  /\ UNCHANGED <<rows, tx, original, answer, settled, clash>>

\* Changed: a handler that threw never lets the next one in.
ItsTurnIfWell(r) ==
  pc[r] = "queued" /\ (prev[r] # Nobody => pc[prev[r]] = "done" /\ answer[prev[r]] # "error")

\* The promise before r in the chain, if any, has settled, well or badly.
ItsTurn(r) == pc[r] = "queued" /\ (prev[r] # Nobody => pc[prev[r]] = "done")

\* Changed: every request that ends forgets its chain, the last or not.
UnlockedAnyway(r) == [h \in Hosts |-> IF h \in op[r].hosts THEN Nobody ELSE hostLocks[h]]

\* A chain is forgotten when its last request ends.
Unlocked(r) == [h \in Hosts |-> IF hostLocks[h] = r THEN Nobody ELSE hostLocks[h]]

\* The request is answered, and all that its handler had in hand is gone.
Done(r, a) ==
  /\ pc' = [pc EXCEPT ![r] = "done"]
  /\ answer' = [answer EXCEPT ![r] = a]
  /\ op' = [op EXCEPT ![r] = None]
  /\ original' = [original EXCEPT ![r] = None]
  /\ hostLocks' = Unlocked(r)
  /\ prev' = [prev EXCEPT ![r] = Nobody]
  /\ UNCHANGED <<arrivals, turn>>

-----------------------------------------------------------------------------
(* Handlers, up to the call to the proxy *)

Found(r) == op[r].kind \in Existing => \A h \in op[r].hosts : rows[h] # None

NotFound(r) ==
  /\ ItsTurn(r) /\ ~Found(r)
  /\ Done(r, "missing")
  /\ UNCHANGED <<rows, tx, settled, clash>>

\* BEGIN fails inside another transaction, and the request with it.
Refused(r) ==
  /\ ItsTurn(r) /\ Found(r) /\ op[r].kind \in Transacted /\ tx # None
  /\ Done(r, "error")
  /\ UNCHANGED <<rows, tx, settled, clash>>

\* update and toggleEnabled on an existing row.
Edited(r, row) ==
  [origin  |-> IF op[r].kind = "put" THEN r ELSE row.origin,
   enabled |-> IF op[r].kind = "toggle" THEN ~row.enabled
               ELSE IF op[r].on = None THEN row.enabled ELSE op[r].on]

\* What request r makes of the row of one of its hosts.
Written(r, row) ==
  CASE op[r].kind \in {"delete", "bulkDelete"} -> None
    [] op[r].kind = "post" -> [origin |-> r, enabled |-> (row = None \/ row.enabled)]
    [] op[r].kind = "bulkInsert" ->
         IF row = None THEN [origin |-> r, enabled |-> TRUE] ELSE row
    [] op[r].kind \in {"put", "toggle", "bulkToggle"} ->
         IF row = None THEN None ELSE Edited(r, row)
    [] op[r].kind = "sync" -> row

\* The requests that may still undo what they, or others, wrote.
Pending == {q \in Requests : pc[q] = "push" /\ op[q].kind # "sync"}

Owns(q) == tx # None /\ tx.owner = q

\* The handler writes its rows, in a transaction of its own if it has one, and tells the
\* proxy: it awaits that from here on.
Begin(r) ==
  /\ ItsTurn(r) /\ Found(r)
  /\ op[r].kind \in Transacted => tx = None
  /\ rows' = [h \in Hosts |-> IF h \in op[r].hosts THEN Written(r, rows[h]) ELSE rows[h]]
  /\ tx' = IF op[r].kind \in Transacted THEN [owner |-> r, before |-> rows] ELSE tx
  /\ \/ op[r].kind \notin {"put", "toggle"} /\ UNCHANGED original
     \/ /\ op[r].kind \in {"put", "toggle"}
        /\ \E h \in op[r].hosts : original' = [original EXCEPT ![r] = rows[h]]
  /\ pc' = [pc EXCEPT ![r] = "push"]
  /\ clash' = (clash \/ /\ op[r].kind # "sync"
                        /\ \E q \in Pending : Owns(q) \/ op[q].hosts \cap op[r].hosts # {})
  /\ UNCHANGED <<lockVars, op, answer, settled>>

-----------------------------------------------------------------------------
(* Handlers, from the proxy's answer on *)

\* Rows that r has decided: they stay as they are unless another request changes them.
Decide(r) ==
  settled' = [h \in Hosts |-> IF op[r].kind # "sync" /\ h \in op[r].hosts
                               THEN rows'[h] ELSE settled[h]]

\* The proxy answered: COMMIT, and on to the TLS and DNS services.
Synced(r) ==
  /\ pc[r] = "push"
  /\ tx' = IF Owns(r) THEN None ELSE tx
  /\ pc' = [pc EXCEPT ![r] = "fan"]
  /\ UNCHANGED <<rows, lockVars, op, original, answer, clash>>
  /\ Decide(r)

\* Changed: the write stays.
RestoredNot(r) ==
  /\ op[r].kind \in {"put", "toggle"}
  /\ UNCHANGED <<rows, tx, settled, clash>>

\* The proxy did not answer: ROLLBACK puts all rows back as they were at BEGIN,
RolledBack(r) ==
  /\ Owns(r)
  /\ rows' = tx.before
  /\ tx' = None
  /\ UNCHANGED <<settled, clash>>

\* put restores what it may have changed, toggle only enabled, if the row is still there,
Restored(r) ==
  /\ op[r].kind \in {"put", "toggle"}
  /\ rows' = [h \in Hosts |->
                IF h \notin op[r].hosts \/ rows[h] = None THEN rows[h]
                ELSE IF op[r].kind = "put" THEN original[r]
                ELSE [origin |-> rows[h].origin, enabled |-> original[r].enabled]]
  /\ clash' = (clash \/ tx # None)
  /\ UNCHANGED <<tx, settled>>

\* and the other two bulk requests keep what they wrote, and say so.
Kept(r) ==
  /\ op[r].kind \in {"bulkInsert", "bulkToggle"}
  /\ UNCHANGED <<rows, tx, clash>>
  /\ Decide(r)

Failed(r) ==
  /\ pc[r] = "push"
  /\ RolledBack(r) \/ Restored(r) \/ Kept(r)
  /\ Done(r, "failed")

\* A forced sync goes on to the other services whatever the proxy says.
SyncFailed(r) ==
  /\ pc[r] = "push" /\ op[r].kind = "sync"
  /\ pc' = [pc EXCEPT ![r] = "fan"]
  /\ answer' = [answer EXCEPT ![r] = "failed"]
  /\ UNCHANGED <<rows, tx, lockVars, op, original, settled, clash>>

\* The TLS and DNS services have answered or failed, which is ignored.
Answer(r) ==
  /\ pc[r] = "fan"
  /\ Done(r, IF answer[r] = None THEN "ok" ELSE answer[r])
  /\ UNCHANGED <<rows, tx, settled, clash>>

\* The server restarts: SQLite drops the open transaction, and the locks are gone with
\* the requests.  What a request wrote outside a transaction stays.
Crash ==
  /\ Active # {}
  /\ rows' = IF tx = None THEN rows ELSE tx.before
  /\ tx' = None
  /\ hostLocks' = [h \in Hosts |-> Nobody]
  /\ prev' = [r \in Requests |-> Nobody]
  /\ op' = [r \in Requests |-> None]
  /\ original' = [r \in Requests |-> None]
  /\ pc' = [r \in Requests |-> IF r \in Active THEN "done" ELSE pc[r]]
  /\ answer' = [r \in Requests |-> IF r \in Active THEN "lost" ELSE answer[r]]
  /\ settled' = [h \in Hosts |-> IF \E q \in Pending : ~Owns(q) /\ h \in op[q].hosts
                                 THEN rows'[h] ELSE settled[h]]
  /\ UNCHANGED <<arrivals, turn, clash>>

Step(r) ==
  \/ NotFound(r) \/ Refused(r) \/ Begin(r)
  \/ Synced(r) \/ Failed(r) \/ SyncFailed(r)
  \/ Answer(r)

Next ==
  \/ \E r \in Requests, o \in Ops : Arrive(r, o)
  \/ \E r \in Requests : Step(r)
  \/ Crash

Spec == Init /\ [][Next]_vars

\* Node runs what is ready; the call to the proxy ends after 3 s at the latest.
FairSpec == Spec /\ \A r \in Requests : WF_vars(Step(r))

-----------------------------------------------------------------------------
(* Properties *)

\* The locked requests of a host run one at a time and in the order they arrived: the
\* chain never lets two through, and never forgets one that waits (withHostLock).
Overtakes(q, r) ==
  /\ pc[q] \in {"push", "fan"} /\ r \in Active /\ turn[r] < turn[q]
  /\ op[q].kind \in Locked /\ op[r].kind \in Locked /\ op[q].hosts = op[r].hosts

FirstComeFirstServed == \A q, r \in Requests : ~Overtakes(q, r)

\* An open transaction has an owner that will end it: one left open would take in, and
\* lose in the next restart, all that is written later (runInTransactionAsync).
TransactionOwned == tx # None => pc[tx.owner] = "push"

\* A row that no request is about to decide is as the last decided request left it: what
\* was acknowledged is there and what failed left no trace, whatever ran beside it, was
\* refused, waited or was lost in a restart (the rollbacks of put, toggle, post, delete).
Undecided(h) == \E q \in Pending : h \in op[q].hosts
RowsAsDecided == \A h \in Hosts : ~Undecided(h) => rows[h] = settled[h]

\* It is so as long as no request wrote a row that another could still undo.
RowsAsDecidedAlone == ~clash => RowsAsDecided

\* Every request is answered: a request that fails passes its turn on, and a refused BEGIN
\* does not leave the chain or the transaction hanging (withHostLock).
RequestsAnswered == \A r \in Requests : pc[r] = "queued" ~> pc[r] = "done"
=============================================================================
