-------------------------- MODULE DomainSyncProofs --------------------------
(***************************************************************************)
(* Domain rows, host locks and transactions, for any number of hosts and   *)
(* requests; that telling the proxy and DNS restricts what the handlers do *)
(* to the rows and adds nothing to it; and from that, and from what a push *)
(* that runs alone carries at each of its stages, that the proxy and DNS   *)
(* agree with the rows whenever it is quiet, unless drift says why they    *)
(* need not.                                                               *)
(***************************************************************************)
EXTENDS DomainSync, TLAPS


-----------------------------------------------------------------------------
(* Types of rows and requests *)

\* An edited row is a row,
LEMMA EditedIsRow ==
  ASSUME NEW r \in Requests, op[r] \in Ops, NEW row \in Rows
  PROVE  Edited(r, row) \in Rows
<1>1. op[r].on \in BOOLEAN \cup {None}
  BY DEF Ops
<1>2. row.enabled \in BOOLEAN /\ row.origin \in Requests \cup {Nobody}
  BY DEF Rows
<1> QED
  BY <1>1, <1>2 DEF Edited, Rows

\* and so is what a request writes, if anything.
LEMMA WrittenIsRow ==
  ASSUME NEW r \in Requests, op[r] \in Ops, NEW row \in Rows \cup {None}
  PROVE  Written(r, row) \in Rows \cup {None}
<1>1. CASE op[r].kind \in {"delete", "bulkDelete"}
  BY <1>1 DEF Written
<1>2. CASE op[r].kind = "post"
  <2>1. (row = None \/ row.enabled) \in BOOLEAN
    OBVIOUS
  <2> QED
    BY <1>2, <2>1 DEF Written, Rows
<1>3. CASE op[r].kind = "bulkInsert"
  BY <1>3 DEF Written, Rows
<1>4. CASE op[r].kind \in {"put", "toggle", "bulkToggle"}
  BY <1>4, EditedIsRow DEF Written
<1>5. CASE op[r].kind = "sync"
  BY <1>5 DEF Written
<1>6. op[r].kind \in Bulk \cup Single
  BY RowsAssumption DEF Ops
<1> QED
  BY <1>1, <1>2, <1>3, <1>4, <1>5, <1>6 DEF Bulk, Single, Existing

\* Type correctness of every step.
LEMMA TypeStep ==
  ASSUME TypeOK, Next
  PROVE  TypeOK'
<1> USE DEF TypeOK, Active
<1>1. ASSUME NEW r \in Requests, NEW o \in Ops, Arrive(r, o) PROVE TypeOK'
  BY <1>1 DEF Arrive, Ops
<1>2. ASSUME NEW r \in Requests, NotFound(r) \/ Refused(r) PROVE TypeOK'
  BY <1>2 DEF NotFound, Refused, Done, Unlocked
<1>3. ASSUME NEW r \in Requests, Begin(r) PROVE TypeOK'
  <2>1. op[r] \in Ops /\ op[r].hosts \subseteq Hosts
    BY <1>3 DEF Begin, ItsTurn, Ops
  <2>2. rows' \in [Hosts -> Rows \cup {None}]
    BY <1>3, <2>1, WrittenIsRow DEF Begin
  <2>3. tx' \in Transactions \cup {None}
    BY <1>3 DEF Begin, Transactions
  <2>4. /\ original' \in [Requests -> Rows \cup {None}]
        /\ \A q \in Requests \ {r} : original'[q] = original[q]
        /\ op[r].kind \in {"put", "toggle"} => original'[r] \in Rows
    BY <1>3, <2>1 DEF Begin, Found, Existing
  <2>5. clash' \in BOOLEAN
    BY <1>3 DEF Begin
  <2>6. /\ pc[r] = "queued" /\ pc' = [pc EXCEPT ![r] = "push"]
        /\ UNCHANGED <<lockVars, op, answer, settled>>
    BY <1>3 DEF Begin, ItsTurn
  <2> QED
    BY <2>2, <2>3, <2>4, <2>5, <2>6 DEF lockVars
<1>4. ASSUME NEW r \in Requests, Synced(r) PROVE TypeOK'
  BY <1>4 DEF Synced, Decide, lockVars
<1>5. ASSUME NEW r \in Requests, Failed(r) PROVE TypeOK'
  <2>1. CASE RolledBack(r)
    BY <1>5, <2>1 DEF Failed, RolledBack, Owns, Done, Unlocked, Transactions
  <2>2. CASE Restored(r)
    <3>1. op[r].kind \in {"put", "toggle"} /\ original[r] \in Rows
      BY <1>5, <2>2 DEF Failed, Restored
    <3>2. rows' \in [Hosts -> Rows \cup {None}]
      BY <2>2, <3>1 DEF Restored, Rows
    <3> QED
      BY <1>5, <2>2, <3>2 DEF Failed, Restored, Done, Unlocked
  <2>3. CASE Kept(r)
    BY <1>5, <2>3 DEF Failed, Kept, Decide, Done, Unlocked
  <2> QED
    BY <1>5, <2>1, <2>2, <2>3 DEF Failed
<1>6. ASSUME NEW r \in Requests, SyncFailed(r) PROVE TypeOK'
  BY <1>6 DEF SyncFailed, lockVars
<1>7. ASSUME NEW r \in Requests, Answer(r) PROVE TypeOK'
  BY <1>7 DEF Answer, Done, Unlocked
<1>8. ASSUME Crash PROVE TypeOK'
  <2>1. rows' \in [Hosts -> Rows \cup {None}]
    BY <1>8 DEF Crash, Transactions
  <2> QED
    BY <1>8, <2>1 DEF Crash
<1> QED
  BY <1>1, <1>2, <1>3, <1>4, <1>5, <1>6, <1>7, <1>8 DEF Next, Step

-----------------------------------------------------------------------------
(* The chains of the host locks *)

InChain(r, h) == r \in Active /\ op[r].kind \in Locked /\ op[r].hosts = {h}
Busy(r) == pc[r] \in {"push", "fan"}

\* r waits for a request of its chain that has not ended.
Waits(r, h) == prev[r] \in Requests /\ InChain(prev[r], h)

First(r, h) == \A s \in Requests : InChain(s, h) => turn[r] =< turn[s]

\* Nobody of the chain of h arrived between prev[r] and r.
Follows(r, h) ==
  /\ turn[prev[r]] < turn[r]
  /\ \A s \in Requests : InChain(s, h) => turn[s] =< turn[prev[r]] \/ turn[r] =< turn[s]

\* The lock names the last of its chain; each other one is followed, in order of arrival,
\* and the one that waits for nobody arrived first.
ChainOK(h) ==
  /\ hostLocks[h] = Nobody => \A r \in Requests : ~InChain(r, h)
  /\ hostLocks[h] # Nobody =>
        /\ InChain(hostLocks[h], h)
        /\ \A r \in Requests : InChain(r, h) => turn[r] =< turn[hostLocks[h]]
  /\ \A r \in Requests : InChain(r, h) =>
        IF Waits(r, h) THEN ~Busy(r) /\ Follows(r, h) ELSE First(r, h)

TurnsOK ==
  /\ \A r \in Requests : turn[r] =< arrivals
  /\ \A r, q \in Active : turn[r] = turn[q] => r = q

PrevArrived == \A r \in Requests : prev[r] \in Requests => pc[prev[r]] # "idle"

ChainsOK == TurnsOK /\ PrevArrived /\ \A h \in Hosts : ChainOK(h)

\* A request that may begin, or has begun, is the first of its chain.
LEMMA BeginsFirst ==
  ASSUME TypeOK, ChainsOK, NEW r \in Requests, NEW h \in Hosts, InChain(r, h),
         ItsTurn(r) \/ Busy(r)
  PROVE  ~Waits(r, h) /\ First(r, h)
<1>1. ItsTurn(r) => ~Waits(r, h)
  BY RowsAssumption DEF ItsTurn, Waits, InChain, Active
<1> QED
  BY <1>1 DEF ChainsOK, ChainOK

LEMMA ServedInOrder ==
  ASSUME TypeOK, ChainsOK
  PROVE  FirstComeFirstServed
<1> SUFFICES ASSUME NEW q \in Requests, NEW r \in Requests, Overtakes(q, r) PROVE FALSE
  BY DEF FirstComeFirstServed
<1>1. PICK h \in Hosts : op[q].hosts = {h}
  BY DEF Overtakes, Active, TypeOK, Ops, Locked, Single, Existing
<1>2. InChain(q, h) /\ InChain(r, h) /\ Busy(q)
  BY <1>1 DEF Overtakes, InChain, Active, Busy
<1>3. turn[q] =< turn[r]
  BY <1>1, <1>2, BeginsFirst DEF First
<1> QED
  BY <1>3 DEF Overtakes, TypeOK

\* The first of a chain ends.
LEMMA ChainLeft ==
  ASSUME TypeOK, ChainsOK, NEW r \in Requests, r \in Active, ItsTurn(r) \/ Busy(r),
         NEW a, Done(r, a)
  PROVE  ChainsOK'
<1>1. /\ turn' = turn /\ arrivals' = arrivals
      /\ r \notin Active'
      /\ \A q \in Requests \ {r} : /\ pc'[q] = pc[q] /\ op'[q] = op[q]
                                   /\ prev'[q] = prev[q]
                                   /\ (q \in Active') = (q \in Active)
  BY DEF Done, TypeOK, Active
<1>2. TurnsOK'
  BY <1>1 DEF ChainsOK, TurnsOK, Active
<1>4. PrevArrived'
  BY <1>1, RowsAssumption DEF ChainsOK, PrevArrived, Done, TypeOK, Active
<1>3. ASSUME NEW h \in Hosts PROVE ChainOK(h)'
  <2>1. \A q \in Requests \ {r} : /\ InChain(q, h)' = InChain(q, h)
                                  /\ Busy(q)' = Busy(q)
    BY <1>1 DEF InChain, Busy
  <2>2. ~InChain(r, h)'
    BY <1>1 DEF InChain
  <2>3. InChain(r, h) => ~Waits(r, h) /\ First(r, h)
    BY BeginsFirst
  <2>4. hostLocks'[h] = IF hostLocks[h] = r THEN Nobody ELSE hostLocks[h]
    BY DEF Done, Unlocked
  <2>5. hostLocks'[h] = Nobody => \A q \in Requests : ~InChain(q, h)'
    <3> SUFFICES ASSUME hostLocks[h] = r, NEW q \in Requests, q # r, InChain(q, h)
                 PROVE  FALSE
      BY <2>1, <2>2, <2>4 DEF ChainsOK, ChainOK
    <3>1. InChain(r, h) /\ turn[q] =< turn[r]
      BY RowsAssumption DEF ChainsOK, ChainOK
    <3>2. turn[r] =< turn[q]
      BY <2>3, <3>1 DEF First
    <3> QED
      BY <3>1, <3>2 DEF ChainsOK, TurnsOK, InChain, TypeOK
  <2>6. hostLocks'[h] # Nobody =>
          /\ InChain(hostLocks[h], h)'
          /\ \A q \in Requests : InChain(q, h)' => turn'[q] =< turn'[hostLocks'[h]]
    BY <1>1, <2>1, <2>2, <2>4 DEF ChainsOK, ChainOK, TypeOK
  <2>7. ASSUME NEW q \in Requests, InChain(q, h)'
        PROVE  IF Waits(q, h)' THEN ~Busy(q)' /\ Follows(q, h)' ELSE First(q, h)'
    <3>1. q # r /\ InChain(q, h)
      BY <2>1, <2>2, <2>7
    <3>2. CASE Waits(q, h) /\ prev[q] # r
      <4>1. Waits(q, h)' /\ ~Busy(q)'
        BY <1>1, <2>1, <3>1, <3>2 DEF Waits, ChainsOK, ChainOK
      <4>2. Follows(q, h)'
        BY <1>1, <2>1, <2>2, <3>1, <3>2 DEF Follows, ChainsOK, ChainOK
      <4> QED
        BY <4>1, <4>2
    <3>3. CASE Waits(q, h) /\ prev[q] = r
      <4>1. ~Waits(q, h)'
        BY <1>1, <2>2, <3>1, <3>3 DEF Waits
      <4>2. \A s \in Requests : s # r /\ InChain(s, h) => turn[q] =< turn[s]
        <5> SUFFICES ASSUME NEW s \in Requests, s # r, InChain(s, h), ~(turn[q] =< turn[s])
                     PROVE  FALSE
          OBVIOUS
        <5>1. turn[s] =< turn[r]
          BY <3>1, <3>3 DEF Follows, ChainsOK, ChainOK
        <5>2. InChain(r, h) /\ turn[r] =< turn[s]
          BY <2>3, <3>3 DEF First, Waits
        <5>3. turn[r] = turn[s] /\ r \in Active /\ s \in Active
          BY <5>1, <5>2 DEF TypeOK, InChain
        <5> QED
          BY <5>3 DEF ChainsOK, TurnsOK
      <4> QED
        BY <1>1, <2>1, <2>2, <4>1, <4>2 DEF First
    <3>4. CASE ~Waits(q, h)
      <4>1. ~Waits(q, h)'
        BY <1>1, <2>1, <2>2, <3>1, <3>4 DEF Waits
      <4> QED
        BY <1>1, <2>1, <2>2, <3>1, <3>4, <4>1 DEF First, ChainsOK, ChainOK
    <3> QED
      BY <3>2, <3>3, <3>4
  <2> QED
    BY <2>4, <2>5, <2>6, <2>7 DEF ChainOK
<1> QED
  BY <1>2, <1>3, <1>4 DEF ChainsOK

\* A request arrives, after all others, at the end of its chain.
LEMMA ChainJoined ==
  ASSUME TypeOK, ChainsOK, NEW r \in Requests, NEW o \in Ops, Arrive(r, o)
  PROVE  ChainsOK'
<1>1. /\ turn'[r] = arrivals + 1 /\ arrivals' = arrivals + 1
      /\ r \notin Active /\ r \in Active' /\ ~Busy(r)' /\ op'[r] = o
      /\ \A q \in Requests \ {r} : /\ pc'[q] = pc[q] /\ op'[q] = op[q]
                                   /\ prev'[q] = prev[q] /\ turn'[q] = turn[q]
                                   /\ (q \in Active') = (q \in Active)
  BY DEF Arrive, TypeOK, Active, Busy
<1>2. TurnsOK'
  BY <1>1 DEF ChainsOK, TurnsOK, TypeOK, Active
<1>3. ASSUME NEW h \in Hosts PROVE ChainOK(h)'
  <2>1. /\ ~InChain(r, h)
        /\ \A q \in Requests \ {r} : /\ InChain(q, h)' = InChain(q, h)
                                     /\ Busy(q)' = Busy(q)
    BY <1>1 DEF InChain, Busy
  <2>2. \A q \in Requests : InChain(q, h) =>
          q # r /\ turn'[q] = turn[q] /\ turn[q] \in Nat /\ turn[q] =< arrivals
    BY <1>1, <2>1 DEF ChainsOK, TurnsOK, TypeOK
  <2>3. arrivals \in Nat /\ turn'[r] = arrivals + 1
    BY <1>1 DEF TypeOK
  <2>4. ASSUME NEW q \in Requests, q # r, InChain(q, h)'
        PROVE  IF Waits(q, h)' THEN ~Busy(q)' /\ Follows(q, h)' ELSE First(q, h)'
    <3>1. InChain(q, h) /\ prev'[q] = prev[q]
      BY <1>1, <2>1, <2>4
    <3>2. CASE Waits(q, h)
      <4>1. prev[q] # r /\ Waits(q, h)'
        BY <2>1, <3>1, <3>2 DEF Waits
      <4>2. ~Busy(q)' /\ Follows(q, h)
        BY <2>1, <2>4, <3>1, <3>2 DEF ChainsOK, ChainOK
      <4>3. Follows(q, h)'
        <5>1. /\ turn'[q] = turn[q] /\ turn'[prev[q]] = turn[prev[q]]
              /\ turn[q] =< arrivals /\ turn[q] \in Nat
          BY <2>2, <3>1, <3>2 DEF Waits
        <5>2. ASSUME NEW s \in Requests, InChain(s, h)'
              PROVE  turn'[s] =< turn'[prev[q]] \/ turn'[q] =< turn'[s]
          <6>1. CASE s = r
            BY <2>3, <5>1, <6>1
          <6>2. CASE s # r
            BY <2>1, <2>2, <4>2, <5>1, <5>2, <6>2 DEF Follows
          <6> QED
            BY <6>1, <6>2
        <5> QED
          BY <3>1, <4>2, <5>1, <5>2 DEF Follows
      <4> QED
        BY <4>1, <4>2, <4>3
    <3>3. CASE ~Waits(q, h)
      <4>1. ~Waits(q, h)'
        <5> SUFFICES ASSUME prev[q] = r PROVE FALSE
          BY <2>1, <3>1, <3>3 DEF Waits
        <5> QED
          BY DEF ChainsOK, PrevArrived, Arrive
      <4>2. First(q, h)
        BY <3>1, <3>3 DEF ChainsOK, ChainOK
      <4>3. ASSUME NEW s \in Requests, InChain(s, h)' PROVE turn'[q] =< turn'[s]
        <5>1. CASE s = r
          BY <2>2, <2>3, <3>1, <5>1
        <5>2. CASE s # r
          BY <2>1, <2>2, <3>1, <4>2, <4>3, <5>2 DEF First
        <5> QED
          BY <5>1, <5>2
      <4> QED
        BY <4>1, <4>3 DEF First
    <3> QED
      BY <3>2, <3>3
  <2>5. CASE o.kind \in Locked /\ o.hosts = {h}
    <3>1. hostLocks'[h] = r /\ prev'[r] = hostLocks[h] /\ InChain(r, h)' /\ r # Nobody
      BY <1>1, <2>5, RowsAssumption DEF Arrive, TypeOK, InChain
    <3>2. \A s \in Requests : InChain(s, h)' => turn'[s] =< turn'[r]
      BY <2>1, <2>2, <2>3
    <3>3. CASE hostLocks[h] = Nobody
      <4>1. ~Waits(r, h)'
        BY <3>1, <3>3, RowsAssumption DEF Waits
      <4>2. \A s \in Requests : InChain(s, h)' => s = r
        BY <2>1, <3>3 DEF ChainsOK, ChainOK
      <4>3. First(r, h)'
        BY <2>3, <4>2 DEF First
      <4> QED
        BY <2>4, <3>1, <3>2, <4>1, <4>3 DEF ChainOK
    <3>4. CASE hostLocks[h] # Nobody
      <4>1. /\ hostLocks[h] \in Requests /\ InChain(hostLocks[h], h)
            /\ \A s \in Requests : InChain(s, h) => turn[s] =< turn[hostLocks[h]]
        BY <3>4 DEF ChainsOK, ChainOK, TypeOK
      <4>2. Waits(r, h)'
        BY <2>1, <3>1, <4>1 DEF Waits
      <4>3. turn'[hostLocks[h]] = turn[hostLocks[h]] /\ turn[hostLocks[h]] =< arrivals
        BY <2>2, <4>1
      <4>4. Follows(r, h)'
        <5>1. ASSUME NEW s \in Requests, InChain(s, h)'
              PROVE  turn'[s] =< turn'[hostLocks[h]] \/ turn'[r] =< turn'[s]
          BY <2>1, <2>2, <2>3, <4>1, <4>3, <5>1
        <5> QED
          BY <2>2, <2>3, <3>1, <4>1, <4>3, <5>1 DEF Follows
      <4> QED
        BY <1>1, <2>4, <3>1, <3>2, <4>2, <4>4 DEF ChainOK
    <3> QED
      BY <3>3, <3>4
  <2>6. CASE ~(o.kind \in Locked /\ o.hosts = {h})
    <3>1. ~InChain(r, h)'
      BY <1>1, <2>6 DEF InChain
    <3>2. hostLocks'[h] = hostLocks[h]
      BY <2>6 DEF Arrive, Ops, Locked, Single, Existing
    <3> QED
      BY <2>1, <2>2, <2>4, <3>1, <3>2 DEF ChainsOK, ChainOK, TypeOK
  <2> QED
    BY <2>5, <2>6
<1>4. PrevArrived'
  <2>1. \A h \in Hosts : hostLocks[h] \in Requests => pc[hostLocks[h]] # "idle"
    BY RowsAssumption DEF ChainsOK, ChainOK, InChain, Active
  <2> QED
    BY <1>1, <2>1 DEF ChainsOK, PrevArrived, Arrive, TypeOK, Ops
<1> QED
  BY <1>2, <1>3, <1>4 DEF ChainsOK

\* A request goes on, at its turn.
LEMMA ChainKept ==
  ASSUME TypeOK, ChainsOK, NEW r \in Requests, ItsTurn(r) \/ Busy(r), NEW x \in {"push", "fan"},
         pc' = [pc EXCEPT ![r] = x], UNCHANGED <<lockVars, op>>
  PROVE  ChainsOK'
<1>1. r \in Active
  BY DEF ItsTurn, Busy, Active
<1>2. /\ turn' = turn /\ arrivals' = arrivals /\ prev' = prev /\ hostLocks' = hostLocks
      /\ op' = op /\ Active' = Active
      /\ \A q \in Requests \ {r} : Busy(q)' = Busy(q)
  BY <1>1 DEF TypeOK, Active, lockVars, Busy
<1>3. TurnsOK' /\ PrevArrived'
  BY <1>2 DEF ChainsOK, TurnsOK, PrevArrived, TypeOK
<1>4. ASSUME NEW h \in Hosts PROVE ChainOK(h)'
  <2>1. \A q \in Requests : /\ InChain(q, h)' = InChain(q, h)
                          /\ Waits(q, h)' = Waits(q, h)
                          /\ First(q, h)' = First(q, h)
                          /\ Follows(q, h)' = Follows(q, h)
    BY <1>2 DEF InChain, Waits, First, Follows
  <2>2. InChain(r, h) => ~Waits(r, h) /\ First(r, h)
    BY BeginsFirst
  <2>3. ASSUME NEW q \in Requests, InChain(q, h)
        PROVE  IF Waits(q, h) THEN ~Busy(q)' /\ Follows(q, h) ELSE First(q, h)
    <3>1. CASE q = r
      BY <2>2, <2>3, <3>1
    <3>2. CASE q # r
      BY <1>2, <2>3, <3>2 DEF ChainsOK, ChainOK
    <3> QED
      BY <3>1, <3>2
  <2>4. /\ hostLocks[h] = Nobody => \A q \in Requests : ~InChain(q, h)
        /\ hostLocks[h] # Nobody =>
              /\ InChain(hostLocks[h], h) /\ hostLocks[h] \in Requests
              /\ \A q \in Requests : InChain(q, h) => turn[q] =< turn[hostLocks[h]]
    BY DEF ChainsOK, ChainOK, TypeOK
  <2>5. ASSUME NEW q \in Requests, InChain(q, h)'
        PROVE  IF Waits(q, h)' THEN ~Busy(q)' /\ Follows(q, h)' ELSE First(q, h)'
    BY <2>1, <2>3, <2>5
  <2> QED
    BY <1>2, <2>1, <2>4, <2>5 DEF ChainOK
<1> QED
  BY <1>3, <1>4 DEF ChainsOK

LEMMA ChainStep ==
  ASSUME TypeOK, ChainsOK, Next
  PROVE  ChainsOK'
<1>1. ASSUME NEW r \in Requests, NEW o \in Ops, Arrive(r, o) PROVE ChainsOK'
  BY <1>1, ChainJoined
<1>2. ASSUME NEW r \in Requests, NotFound(r) \/ Refused(r) \/ Failed(r) \/ Answer(r)
      PROVE  ChainsOK'
  <2>1. \E a : Done(r, a)
    BY <1>2 DEF NotFound, Refused, Failed, Answer
  <2>2. r \in Active /\ (ItsTurn(r) \/ Busy(r))
    BY <1>2 DEF NotFound, Refused, Failed, Answer, ItsTurn, Busy, Active
  <2> QED
    BY <2>1, <2>2, ChainLeft
<1>3. ASSUME NEW r \in Requests, Begin(r) PROVE ChainsOK'
  BY <1>3, ChainKept DEF Begin
<1>4. ASSUME NEW r \in Requests, Synced(r) \/ SyncFailed(r) PROVE ChainsOK'
  BY <1>4, ChainKept DEF Synced, SyncFailed, Busy
<1>5. ASSUME Crash PROVE ChainsOK'
  <2>1. Active' = {} /\ turn' = turn /\ arrivals' = arrivals
    BY <1>5 DEF Crash, Active, TypeOK
  <2>2. prev' = [r \in Requests |-> Nobody] /\ hostLocks' = [h \in Hosts |-> Nobody]
    BY <1>5 DEF Crash
  <2>3. TurnsOK' /\ PrevArrived'
    BY <2>1, <2>2, RowsAssumption DEF ChainsOK, TurnsOK, PrevArrived
  <2>4. \A h \in Hosts : ChainOK(h)'
    BY <2>1, <2>2 DEF ChainOK, InChain
  <2> QED
    BY <2>3, <2>4 DEF ChainsOK
<1> QED
  BY <1>1, <1>2, <1>3, <1>4, <1>5 DEF Next, Step

-----------------------------------------------------------------------------
(* Transactions and rows *)

\* The transaction is of the one request that has told the proxy from inside it.
OwnersOK ==
  \A r \in Requests : Owns(r) <=> pc[r] = "push" /\ op[r].kind \in Transacted

LEMMA OwnerIsPending ==
  ASSUME TypeOK, OwnersOK
  PROVE  /\ TransactionOwned
         /\ tx # None => tx.owner \in Pending /\ tx.before \in [Hosts -> Rows \cup {None}]
<1> SUFFICES ASSUME tx # None
             PROVE  /\ tx.owner \in Pending /\ pc[tx.owner] = "push"
                    /\ tx.before \in [Hosts -> Rows \cup {None}]
  BY DEF TransactionOwned
<1>1. tx \in Transactions
  BY DEF TypeOK
<1>2. tx.owner \in Requests /\ Owns(tx.owner) /\ tx.before \in [Hosts -> Rows \cup {None}]
  BY <1>1 DEF Transactions, Owns
<1> QED
  BY <1>2 DEF OwnersOK, Pending, Transacted

LEMMA OwnerStep ==
  ASSUME TypeOK, OwnersOK, Next
  PROVE  OwnersOK'
<1> USE DEF TypeOK, OwnersOK, Owns
<1>1. ASSUME NEW r \in Requests, NEW o \in Ops, Arrive(r, o) PROVE OwnersOK'
  BY <1>1 DEF Arrive
<1>2. ASSUME NEW r \in Requests, NotFound(r) \/ Refused(r) \/ Answer(r) PROVE OwnersOK'
  BY <1>2 DEF NotFound, Refused, Answer, ItsTurn, Done
<1>3. ASSUME NEW r \in Requests, Begin(r) PROVE OwnersOK'
  <2>1. CASE op[r].kind \in Transacted
    <3>1. tx = None /\ tx' = [owner |-> r, before |-> rows]
      BY <1>3, <2>1 DEF Begin
    <3>2. tx' # None
      BY <3>1, NoneAssumption DEF Transactions
    <3> QED
      BY <1>3, <2>1, <3>1, <3>2 DEF Begin, ItsTurn
  <2>2. CASE op[r].kind \notin Transacted
    BY <1>3, <2>2 DEF Begin, ItsTurn
  <2> QED
    BY <2>1, <2>2
<1>4. ASSUME NEW r \in Requests, Synced(r) PROVE OwnersOK'
  BY <1>4 DEF Synced
<1>5. ASSUME NEW r \in Requests, Failed(r) PROVE OwnersOK'
  <2>1. CASE RolledBack(r)
    BY <1>5, <2>1 DEF Failed, RolledBack, Done
  <2>2. CASE Restored(r) \/ Kept(r)
    BY <1>5, <2>2 DEF Failed, Restored, Kept, Done, Transacted
  <2> QED
    BY <1>5, <2>1, <2>2 DEF Failed
<1>6. ASSUME NEW r \in Requests, SyncFailed(r) PROVE OwnersOK'
  BY <1>6 DEF SyncFailed, Transacted
<1>7. ASSUME Crash PROVE OwnersOK'
  BY <1>7 DEF Crash, Active
<1> QED
  BY <1>1, <1>2, <1>3, <1>4, <1>5, <1>6, <1>7 DEF Next, Step

-----------------------------------------------------------------------------
(* Rows *)

\* What Pending's requests will restore is as decided requests left it: they touch different
\* rows, put and toggle know theirs, and the transaction has kept the rest as it is.
RowsOK ==
  /\ \A h \in Hosts : ~Undecided(h) => rows[h] = settled[h]
  /\ \A q, r \in Pending : q # r => op[q].hosts \cap op[r].hosts = {}
  /\ \A q \in Pending : \A h \in op[q].hosts :
        op[q].kind \in {"put", "toggle"} =>
          /\ original[q] = settled[h] /\ rows[h] # None
          /\ op[q].kind = "toggle" => rows[h].origin = original[q].origin
  /\ tx # None => \A h \in Hosts :
        tx.before[h] = IF h \in op[tx.owner].hosts THEN settled[h] ELSE rows[h]

RowsOKAlone == ~clash => RowsOK

\* A request that does not clash writes rows that nobody else has in hand.
LEMMA BeginKeeps ==
  ASSUME TypeOK, OwnersOK, RowsOK, NEW r \in Requests, Begin(r), ~clash'
  PROVE  RowsOK'
<1>0. /\ pc[r] = "queued" /\ op[r] \in Ops /\ op[r].hosts \subseteq Hosts
      /\ r \notin Pending /\ op' = op /\ settled' = settled
  BY DEF Begin, ItsTurn, TypeOK, Active, Pending, Ops
<1>1. CASE op[r].kind = "sync"
  <2>1. Pending' = Pending /\ tx' = tx /\ original' = original
    BY <1>0, <1>1 DEF Begin, Pending, TypeOK, Transacted
  <2>2. rows' = rows
    BY <1>1 DEF Begin, Written, TypeOK
  <2> QED
    BY <1>0, <2>1, <2>2 DEF RowsOK, Undecided
<1>2. CASE op[r].kind # "sync"
  <2>1. /\ \A q \in Pending : ~Owns(q) /\ op[q].hosts \cap op[r].hosts = {}
        /\ tx = None
    <3>1. \A q \in Pending : ~Owns(q) /\ op[q].hosts \cap op[r].hosts = {}
      BY <1>2 DEF Begin
    <3>2. tx = None
      BY <3>1, OwnerIsPending DEF Owns
    <3> QED
      BY <3>1, <3>2
  <2>2. Pending' = Pending \cup {r}
    BY <1>0, <1>2 DEF Begin, Pending, TypeOK
  <2>3. \A h \in Hosts : IF h \in op[r].hosts THEN rows[h] = settled[h] ELSE rows'[h] = rows[h]
    BY <2>1 DEF Begin, RowsOK, Undecided
  <2>4. \A h \in Hosts : ~Undecided(h)' => rows'[h] = settled'[h]
    BY <1>0, <2>2, <2>3 DEF RowsOK, Undecided
  <2>5. \A q, s \in Pending' : q # s => op'[q].hosts \cap op'[s].hosts = {}
    BY <1>0, <2>1, <2>2 DEF RowsOK
  <2>6. ASSUME NEW q \in Pending', NEW h \in op'[q].hosts, op'[q].kind \in {"put", "toggle"}
        PROVE  /\ original'[q] = settled'[h] /\ rows'[h] # None
               /\ op'[q].kind = "toggle" => rows'[h].origin = original'[q].origin
    <3>1. CASE q = r
      <4>1. op[r].hosts = {h} /\ h \in Hosts
        BY <1>0, <2>6, <3>1 DEF Ops, Single, Existing
      <4>2. original'[r] = rows[h] /\ rows[h] \in Rows /\ rows'[h] = Written(r, rows[h])
        BY <1>0, <2>6, <3>1, <4>1 DEF Begin, TypeOK, Found, Existing
      <4>3. rows'[h] = Edited(r, rows[h])
        BY <1>0, <2>6, <3>1, <4>2, NoneAssumption DEF Written
      <4>4. rows'[h] # None
        BY <1>0, <4>2, <4>3, EditedIsRow, NoneAssumption
      <4>5. op[r].kind = "toggle" => rows'[h].origin = rows[h].origin
        BY <4>3 DEF Edited
      <4> QED
        BY <1>0, <2>3, <3>1, <4>1, <4>2, <4>4, <4>5
    <3>2. CASE q # r
      <4>1. q \in Pending /\ h \notin op[r].hosts /\ original'[q] = original[q] /\ h \in Hosts
        BY <1>0, <2>1, <2>2, <2>6, <3>2 DEF Begin, TypeOK, Pending, Active, Ops
      <4> QED
        BY <1>0, <2>3, <2>6, <4>1 DEF RowsOK
    <3> QED
      BY <3>1, <3>2
  <2>7. ASSUME tx' # None, NEW h \in Hosts
        PROVE  tx'.before[h] = IF h \in op'[tx'.owner].hosts THEN settled'[h] ELSE rows'[h]
    <3>1. tx' = [owner |-> r, before |-> rows]
      BY <2>1, <2>7 DEF Begin
    <3> QED
      BY <1>0, <2>3, <3>1
  <2> QED
    BY <2>4, <2>5, <2>6, <2>7 DEF RowsOK
<1> QED
  BY <1>1, <1>2

\* What a failing request puts back is what was decided before it.
LEMMA FailedKeeps ==
  ASSUME TypeOK, OwnersOK, RowsOK, NEW r \in Requests, Failed(r), ~clash'
  PROVE  RowsOK'
<1>0. /\ pc[r] = "push" /\ Pending' = Pending \ {r} /\ op[r] \in Ops
      /\ \A q \in Requests \ {r} : op'[q] = op[q] /\ original'[q] = original[q]
  BY DEF Failed, Done, TypeOK, Pending, Active
<1>1. \A h \in Hosts : Undecided(h)' <=> \E q \in Pending \ {r} : h \in op[q].hosts
  BY <1>0 DEF Undecided, Pending
<1>2. CASE RolledBack(r)
  <2>1. tx # None /\ tx.owner = r /\ tx' = None /\ rows' = tx.before /\ settled' = settled
    BY <1>2 DEF RolledBack, Owns
  <2>2. \A h \in Hosts : rows'[h] = IF h \in op[r].hosts THEN settled[h] ELSE rows[h]
    BY <2>1 DEF RowsOK
  <2>3. r \in Pending
    BY <2>1, OwnerIsPending
  <2>4. \A q \in Pending \ {r} : \A h \in op[q].hosts : h \in Hosts /\ rows'[h] = rows[h]
    BY <2>2, <2>3 DEF RowsOK, TypeOK, Pending, Active, Ops
  <2>5. \A h \in Hosts : ~Undecided(h)' => rows'[h] = settled'[h]
    BY <1>1, <2>1, <2>2 DEF RowsOK, Undecided
  <2> QED
    BY <1>0, <2>1, <2>4, <2>5 DEF RowsOK, Pending
<1>3. CASE Restored(r)
  <2>1. r \in Pending /\ op[r].kind \in {"put", "toggle"} /\ tx = None /\ tx' = None
        /\ settled' = settled
    BY <1>0, <1>3 DEF Restored, Pending
  <2>2. ASSUME NEW h \in Hosts
        PROVE  rows'[h] = IF h \in op[r].hosts THEN settled[h] ELSE rows[h]
    <3>1. CASE h \in op[r].hosts
      <4>1. /\ original[r] = settled[h] /\ rows[h] # None /\ original[r] \in Rows
            /\ op[r].kind = "toggle" => rows[h].origin = original[r].origin
        BY <1>0, <2>1, <3>1 DEF RowsOK, TypeOK
      <4>2. original[r] = [origin |-> original[r].origin, enabled |-> original[r].enabled]
        BY <4>1 DEF Rows
      <4> QED
        BY <1>3, <2>1, <3>1, <4>1, <4>2 DEF Restored
    <3>2. CASE h \notin op[r].hosts
      BY <1>3, <3>2 DEF Restored
    <3> QED
      BY <3>1, <3>2
  <2>3. \A q \in Pending \ {r} : \A h \in op[q].hosts : h \in Hosts /\ rows'[h] = rows[h]
    BY <2>1, <2>2 DEF RowsOK, TypeOK, Pending, Active, Ops
  <2>4. \A h \in Hosts : ~Undecided(h)' => rows'[h] = settled'[h]
    BY <1>1, <2>1, <2>2 DEF RowsOK, Undecided
  <2> QED
    BY <1>0, <2>1, <2>3, <2>4 DEF RowsOK, Pending
<1>4. CASE Kept(r)
  <2>1. /\ r \in Pending /\ rows' = rows /\ tx' = tx /\ ~Owns(r)
        /\ \A h \in Hosts : settled'[h] = IF h \in op[r].hosts THEN rows[h] ELSE settled[h]
    BY <1>0, <1>4 DEF Kept, Decide, Pending, OwnersOK, Transacted
  <2>2. \A q \in Pending \ {r} : \A h \in op[q].hosts : h \in Hosts /\ settled'[h] = settled[h]
    BY <2>1 DEF RowsOK, TypeOK, Pending, Active, Ops
  <2>3. \A h \in Hosts : ~Undecided(h)' => rows'[h] = settled'[h]
    BY <1>1, <2>1 DEF RowsOK, Undecided
  <2>4. ASSUME tx # None, NEW h \in Hosts
        PROVE  tx.before[h] = IF h \in op'[tx.owner].hosts THEN settled'[h] ELSE rows[h]
    <3>1. tx.owner \in Pending \ {r} /\ op'[tx.owner] = op[tx.owner]
      BY <1>0, <2>1, <2>4, OwnerIsPending DEF Owns, Pending
    <3>2. tx.before[h] = IF h \in op[tx.owner].hosts THEN settled[h] ELSE rows[h]
      BY <2>4 DEF RowsOK
    <3> QED
      BY <2>2, <3>1, <3>2
  <2>5. \A q \in Pending' : \A h \in op'[q].hosts :
          op'[q].kind \in {"put", "toggle"} =>
            /\ original'[q] = settled'[h] /\ rows'[h] # None
            /\ op'[q].kind = "toggle" => rows'[h].origin = original'[q].origin
    BY <1>0, <2>1, <2>2 DEF RowsOK, Pending
  <2>6. \A q, s \in Pending' : q # s => op'[q].hosts \cap op'[s].hosts = {}
    BY <1>0 DEF RowsOK, Pending
  <2> QED
    BY <2>1, <2>3, <2>4, <2>5, <2>6 DEF RowsOK
<1> QED
  BY <1>2, <1>3, <1>4 DEF Failed

\* What a request has written is decided once the proxy knows.
LEMMA SyncedKeeps ==
  ASSUME TypeOK, OwnersOK, RowsOK, NEW r \in Requests, Synced(r)
  PROVE  RowsOK'
<1>0. /\ pc[r] = "push" /\ Pending' = Pending \ {r} /\ op[r] \in Ops
      /\ rows' = rows /\ op' = op /\ original' = original
      /\ tx' = IF Owns(r) THEN None ELSE tx
      /\ \A h \in Hosts : settled'[h] = IF op[r].kind # "sync" /\ h \in op[r].hosts
                                       THEN rows[h] ELSE settled[h]
  BY DEF Synced, Decide, TypeOK, Pending, Active
<1>1. \A q \in Pending \ {r} : \A h \in op[q].hosts : h \in Hosts /\ settled'[h] = settled[h]
  BY <1>0 DEF RowsOK, TypeOK, Pending, Active, Ops
<1>2. \A h \in Hosts : Undecided(h)' <=> \E q \in Pending \ {r} : h \in op[q].hosts
  BY <1>0 DEF Undecided
<1>3. \A h \in Hosts : ~Undecided(h)' => rows'[h] = settled'[h]
  BY <1>0, <1>2 DEF RowsOK, Undecided, Pending
<1>4. ASSUME tx' # None, NEW h \in Hosts
      PROVE  tx'.before[h] = IF h \in op'[tx'.owner].hosts THEN settled'[h] ELSE rows'[h]
  <2>1. tx' = tx /\ tx # None /\ tx.owner \in Pending \ {r}
    BY <1>0, <1>4, OwnerIsPending DEF Owns
  <2>2. tx.before[h] = IF h \in op[tx.owner].hosts THEN settled[h] ELSE rows[h]
    BY <2>1 DEF RowsOK
  <2> QED
    BY <1>0, <1>1, <2>1, <2>2
<1>5. \A q \in Pending' : \A h \in op'[q].hosts :
        op'[q].kind \in {"put", "toggle"} =>
          /\ original'[q] = settled'[h] /\ rows'[h] # None
          /\ op'[q].kind = "toggle" => rows'[h].origin = original'[q].origin
  BY <1>0, <1>1 DEF RowsOK
<1>6. \A q, s \in Pending' : q # s => op'[q].hosts \cap op'[s].hosts = {}
  BY <1>0 DEF RowsOK
<1> QED
  BY <1>3, <1>4, <1>5, <1>6 DEF RowsOK

\* A restart rolls the open transaction back, and keeps what was written outside it.
LEMMA CrashKeeps ==
  ASSUME TypeOK, OwnersOK, RowsOK, Crash
  PROVE  RowsOK'
<1>1. Pending' = {} /\ tx' = None
  BY DEF Crash, Pending, Active, TypeOK
<1>2. ASSUME NEW h \in Hosts PROVE rows'[h] = settled'[h]
  <2>1. CASE \E q \in Pending : ~Owns(q) /\ h \in op[q].hosts
    BY <2>1 DEF Crash
  <2>2. CASE ~\E q \in Pending : ~Owns(q) /\ h \in op[q].hosts
    <3>1. settled'[h] = settled[h]
      BY <2>2 DEF Crash
    <3>2. CASE tx = None
      <4>1. ~Undecided(h) /\ rows'[h] = rows[h]
        BY <2>2, <3>2 DEF Undecided, Owns, Crash
      <4> QED
        BY <3>1, <4>1 DEF RowsOK
    <3>3. CASE tx # None
      <4>1. rows'[h] = tx.before[h] /\ tx.owner \in Pending
        BY <3>3, OwnerIsPending DEF Crash
      <4>2. h \notin op[tx.owner].hosts => ~Undecided(h)
        BY <2>2 DEF Undecided, Owns
      <4> QED
        BY <3>1, <3>3, <4>1, <4>2 DEF RowsOK
    <3> QED
      BY <3>2, <3>3
  <2> QED
    BY <2>1, <2>2
<1> QED
  BY <1>1, <1>2 DEF RowsOK

LEMMA RowsStep ==
  ASSUME TypeOK, OwnersOK, RowsOKAlone, Next
  PROVE  RowsOKAlone'
<1> SUFFICES ASSUME ~clash' PROVE RowsOK'
  BY DEF RowsOKAlone
<1>0. RowsOK
  BY DEF RowsOKAlone, Next, Step, Arrive, NotFound, Refused, Begin, Synced, Failed, RolledBack,
         Restored, Kept, SyncFailed, Answer, Crash
<1>1. ASSUME NEW r \in Requests, NEW o \in Ops, Arrive(r, o) PROVE RowsOK'
  <2>1. Pending' = Pending /\ \A q \in Pending : op'[q] = op[q] /\ q # r
    BY <1>1 DEF Arrive, Pending, TypeOK
  <2>2. tx # None => tx.owner \in Pending
    BY OwnerIsPending
  <2> QED
    BY <1>0, <1>1, <2>1, <2>2 DEF Arrive, RowsOK, Undecided
<1>2. ASSUME NEW r \in Requests, NotFound(r) \/ Refused(r) \/ SyncFailed(r) \/ Answer(r)
      PROVE  RowsOK'
  <2>1. r \notin Pending /\ Pending' = Pending
    BY <1>2 DEF NotFound, Refused, SyncFailed, Answer, ItsTurn, Done, Pending, TypeOK
  <2>2. \A q \in Pending : op'[q] = op[q] /\ original'[q] = original[q]
    BY <1>2, <2>1 DEF NotFound, Refused, SyncFailed, Answer, Done, Pending, TypeOK
  <2>3. UNCHANGED <<rows, tx, settled>>
    BY <1>2 DEF NotFound, Refused, SyncFailed, Answer
  <2>4. tx # None => tx.owner \in Pending
    BY OwnerIsPending
  <2> QED
    BY <1>0, <2>1, <2>2, <2>3, <2>4 DEF RowsOK, Undecided
<1>3. ASSUME NEW r \in Requests, Begin(r) PROVE RowsOK'
  BY <1>0, <1>3, BeginKeeps
<1>4. ASSUME NEW r \in Requests, Synced(r) PROVE RowsOK'
  BY <1>0, <1>4, SyncedKeeps
<1>5. ASSUME NEW r \in Requests, Failed(r) PROVE RowsOK'
  BY <1>0, <1>5, FailedKeeps
<1>6. ASSUME Crash PROVE RowsOK'
  BY <1>0, <1>6, CrashKeeps
<1> QED
  BY <1>1, <1>2, <1>3, <1>4, <1>5, <1>6 DEF Next, Step

-----------------------------------------------------------------------------
(* Theorems about the rows *)

Invariant == TypeOK /\ ChainsOK /\ OwnersOK /\ RowsOKAlone

LEMMA InvariantInitially ==
  ASSUME Init
  PROVE  Invariant
<1>1. TypeOK
  BY DEF Init, TypeOK, Rows, Active
<1>2. Active = {} /\ Pending = {}
  BY DEF Init, Active, Pending
<1>3. ChainsOK
  BY <1>2, RowsAssumption DEF Init, ChainsOK, TurnsOK, PrevArrived, ChainOK, InChain
<1>4. OwnersOK
  BY DEF Init, OwnersOK, Owns
<1>5. RowsOKAlone
  BY <1>2 DEF Init, RowsOKAlone, RowsOK
<1> QED
  BY <1>1, <1>3, <1>4, <1>5 DEF Invariant

LEMMA InvariantStep ==
  ASSUME Invariant, [Next]_vars
  PROVE  Invariant'
<1>1. CASE Next
  BY <1>1, TypeStep, ChainStep, OwnerStep, RowsStep DEF Invariant
<1>2. CASE UNCHANGED vars
  <2>1. TypeOK'
    BY <1>2 DEF Invariant, TypeOK, Active, vars, lockVars
  <2>2. ChainsOK'
    BY <1>2 DEF Invariant, ChainsOK, TurnsOK, PrevArrived, ChainOK, InChain, Waits, First, Follows,
                Busy, Active, vars, lockVars
  <2>3. OwnersOK' /\ RowsOKAlone'
    BY <1>2 DEF Invariant, OwnersOK, Owns, RowsOKAlone, RowsOK, Undecided, Pending, vars, lockVars
  <2> QED
    BY <2>1, <2>2, <2>3 DEF Invariant
<1> QED
  BY <1>1, <1>2

\* The invariant the results below are read off: chains of requests, transactions and what
\* their rollbacks restore (withHostLock, runInTransactionAsync).
THEOREM InvariantHolds == Spec => []Invariant
  BY InvariantInitially, InvariantStep, PTL DEF Spec

\* The rows, the transaction and the requests are what they should be, whatever kinds of
\* requests arrive (domains.ts, domain-repo.ts).
THEOREM TypeCorrect == Spec => []TypeOK
<1>1. Invariant => TypeOK
  BY DEF Invariant
<1> QED
  BY InvariantHolds, <1>1, PTL

\* withHostLock runs the requests of a host one at a time, in order of arrival.
THEOREM LocksAreFair == Spec => []FirstComeFirstServed
<1>1. Invariant => FirstComeFirstServed
  BY ServedInOrder DEF Invariant
<1> QED
  BY InvariantHolds, <1>1, PTL

\* No request ends and leaves its transaction open (runInTransactionAsync).
THEOREM TransactionsEnd == Spec => []TransactionOwned
<1>1. Invariant => TransactionOwned
  BY OwnerIsPending DEF Invariant
<1> QED
  BY InvariantHolds, <1>1, PTL

\* The rollbacks of all handlers are exact as long as no request writes what another may
\* still undo.
THEOREM RollbacksAreExact == Spec => []RowsAsDecidedAlone
<1>1. Invariant => RowsAsDecidedAlone
  BY DEF Invariant, RowsOKAlone, RowsOK, RowsAsDecidedAlone, RowsAsDecided
<1> QED
  BY InvariantHolds, <1>1, PTL

\* Without transactions and bulk requests the host locks see to that: put and toggle leave
\* every row as the last of them that succeeded did, whatever else fails or is lost.
THEOREM LocksSuffice ==
  ASSUME Kinds \subseteq {"put", "toggle", "sync"}
  PROVE  Spec => []RowsAsDecided
<1>1. Init => ~clash
  BY DEF Init
<1>2. ASSUME Invariant, ~clash, [Next]_vars PROVE ~clash'
  <2>1. TypeOK /\ ChainsOK /\ OwnersOK
    BY <1>2 DEF Invariant
  <2>2. \A q \in Pending : op[q].kind \in {"put", "toggle"} /\ op[q] \in Ops
    BY <2>1 DEF TypeOK, Pending, Active, Ops
  <2>3. tx = None
    BY <2>1, <2>2, OwnerIsPending DEF OwnersOK, Owns, Transacted, Pending
  <2>4. ASSUME NEW r \in Requests, Begin(r), op[r].kind # "sync",
               NEW q \in Pending, op[q].hosts \cap op[r].hosts # {}
        PROVE  FALSE
    <3>1. op[r] \in Ops /\ op[r].kind \in {"put", "toggle"} /\ ItsTurn(r) /\ pc[q] = "push"
          /\ q \in Requests /\ pc[r] = "queued"
      BY <2>1, <2>4 DEF TypeOK, Begin, ItsTurn, Active, Ops, Pending
    <3>2. PICK h \in Hosts : op[r].hosts = {h} /\ op[q].hosts = {h}
      BY <2>2, <2>4, <3>1 DEF Ops, Single, Existing
    <3>3. InChain(r, h) /\ InChain(q, h) /\ Busy(q)
      BY <2>2, <3>1, <3>2 DEF InChain, Active, Locked, Busy
    <3>4. turn[r] =< turn[q] /\ turn[q] =< turn[r]
      BY <2>1, <3>1, <3>3, BeginsFirst DEF First
    <3>5. turn[r] = turn[q] /\ r \in Active /\ q \in Active
      BY <2>1, <3>1, <3>3, <3>4 DEF TypeOK, InChain
    <3> QED
      BY <2>1, <3>1, <3>5 DEF ChainsOK, TurnsOK
  <2>5. ASSUME NEW r \in Requests, Begin(r) PROVE ~clash'
    BY <1>2, <2>3, <2>4, <2>5 DEF Begin, Owns
  <2>6. ASSUME NEW r \in Requests, Failed(r) PROVE ~clash'
    BY <1>2, <2>3, <2>6 DEF Failed, RolledBack, Restored, Kept
  <2> QED
    BY <1>2, <2>5, <2>6 DEF Next, Step, Arrive, NotFound, Refused, Synced, SyncFailed, Answer,
                           Crash, vars
<1>3. Invariant /\ ~clash => RowsAsDecided
  BY DEF Invariant, RowsOKAlone, RowsOK, RowsAsDecided
<1> QED
  BY InvariantHolds, <1>1, <1>2, <1>3, PTL DEF Spec

-----------------------------------------------------------------------------
(* What is proved of DomainRows holds of DomainSync *)

LEMMA StepImplements == SyncNext => [Next]_vars
<1> SUFFICES ASSUME SyncNext PROVE Next \/ UNCHANGED vars
  OBVIOUS
<1>1. CASE \E r \in Requests, o \in Ops : Arrive(r, o) /\ UNCHANGED syncVars
  BY <1>1 DEF Next
<1>2. CASE \E r \in Requests : (NotFound(r) \/ Refused(r)) /\ UNCHANGED syncVars
  BY <1>2 DEF Next, Step
<1>3. CASE \E r \in Requests :
             Send(r) \/ Acknowledged(r) \/ GiveUp(r) \/ Ask(r) \/ Told(r)
  <2> PICK r \in Requests : Send(r) \/ Acknowledged(r) \/ GiveUp(r) \/ Ask(r) \/ Told(r)
    BY <1>3
  <2>1. CASE Send(r)
    BY <2>1 DEF Send, Next, Step
  <2>2. CASE Acknowledged(r)
    BY <2>2 DEF Acknowledged, Next, Step
  <2>3. CASE GiveUp(r)
    BY <2>3 DEF GiveUp, Next, Step
  <2>4. CASE Ask(r)
    BY <2>4 DEF Ask
  <2>5. CASE Told(r)
    BY <2>5 DEF Told, Next, Step
  <2> QED
    BY <2>1, <2>2, <2>3, <2>4, <2>5
<1>4. CASE \E s \in Senders : ApplyRoutes(s) \/ ApplyPolicies(s) \/ Abandoned(s)
  BY <1>4 DEF ApplyRoutes, ApplyPolicies, Abandoned
<1>5. CASE \E s \in Senders : Deliver(s) \/ Undelivered(s)
  BY <1>5 DEF Deliver, Undelivered
<1>6. CASE \E b \in BOOLEAN : Tick(b) \/ Pull(b)
  BY <1>6 DEF Tick, Pull
<1>7. CASE MonitorAnswered \/ Restart \/ Serve
  BY <1>7 DEF MonitorAnswered, Restart, Serve
<1>8. CASE AdminCrash
  BY <1>8 DEF AdminCrash, Next
<1> QED
  BY <1>1, <1>2, <1>3, <1>4, <1>5, <1>6, <1>7, <1>8 DEF SyncNext

\* The rows change as DomainRows says, whatever the proxy and DNS are told, apply, refuse or
\* lose (syncToProxy, fanOutGrpc, HealthMonitor.tick).
THEOREM RowsImplemented == SyncSpec => Spec
<1>1. SyncInit => Init
  BY DEF SyncInit
<1>2. [SyncNext]_<<vars, syncVars>> => [Next]_vars
  BY StepImplements
<1> QED
  BY <1>1, <1>2, PTL DEF SyncSpec, Spec

-----------------------------------------------------------------------------
(* What the handlers do to the rows, as the pushes see it *)

LEMMA BeginMoves ==
  ASSUME TypeOK, NEW r \in Requests, Begin(r)
  PROVE  /\ r \notin Pending /\ pc'[r] = "push"
         /\ \A q \in Requests \ {r} : pc'[q] = pc[q]
         /\ Pending' = IF op[r].kind = "sync" THEN Pending ELSE Pending \cup {r}
         /\ settled' = settled /\ (~clash' => ~clash)
         /\ op[r].kind = "sync" => rows' = rows /\ clash' = clash
<1>1. /\ pc[r] = "queued" /\ pc' = [pc EXCEPT ![r] = "push"] /\ op' = op /\ settled' = settled
      /\ ~clash' => ~clash
  BY DEF Begin, ItsTurn
<1>2. Pending' = IF op[r].kind = "sync" THEN Pending ELSE Pending \cup {r}
  BY <1>1 DEF Pending, TypeOK
<1>3. CASE op[r].kind = "sync"
  <2>1. \A h \in Hosts : rows'[h] = rows[h]
    BY <1>3 DEF Begin, Written
  <2>2. rows' = rows
    BY <2>1 DEF Begin, TypeOK
  <2> QED
    BY <1>1, <1>2, <1>3, <2>2 DEF Begin, Pending, TypeOK
<1> QED
  BY <1>1, <1>2, <1>3 DEF Pending, TypeOK

LEMMA SyncedMoves ==
  ASSUME TypeOK, NEW r \in Requests, Synced(r)
  PROVE  /\ pc[r] = "push" /\ pc'[r] = "fan"
         /\ \A q \in Requests \ {r} : pc'[q] = pc[q]
         /\ Pending' = Pending \ {r}
         /\ rows' = rows /\ clash' = clash
         /\ op[r].kind = "sync" => settled' = settled /\ r \notin Pending
<1>1. /\ pc[r] = "push" /\ pc' = [pc EXCEPT ![r] = "fan"] /\ op' = op
      /\ rows' = rows /\ clash' = clash
  BY DEF Synced
<1>2. Pending' = Pending \ {r}
  BY <1>1 DEF Pending, TypeOK
<1>3. ASSUME op[r].kind = "sync" PROVE settled' = settled /\ r \notin Pending
  BY <1>3 DEF Synced, Decide, TypeOK, Pending
<1> QED
  BY <1>1, <1>2, <1>3 DEF TypeOK

LEMMA FailedMoves ==
  ASSUME TypeOK, OwnersOK, NEW r \in Requests, Failed(r)
  PROVE  /\ r \in Pending /\ pc'[r] = "done"
         /\ \A q \in Requests \ {r} : pc'[q] = pc[q]
         /\ Pending' = Pending \ {r}
         /\ ~Keeps(r) => settled' = settled
         /\ clash => clash'
         /\ clash' => clash \/ Pending' # {}
<1>1. /\ pc[r] = "push" /\ pc' = [pc EXCEPT ![r] = "done"]
      /\ op' = [op EXCEPT ![r] = None]
  BY DEF Failed, Done
<1>2. op[r].kind # "sync"
  BY <1>1 DEF Failed, RolledBack, Restored, Kept, OwnersOK, Transacted
<1>3. r \in Pending /\ Pending' = Pending \ {r}
  BY <1>1, <1>2 DEF Pending, TypeOK
<1>4. ~Keeps(r) => settled' = settled
  BY DEF Failed, RolledBack, Restored, Kept, Keeps
<1>5. ASSUME clash', ~clash PROVE Pending' # {}
  <2>1. Restored(r) /\ tx # None
    BY <1>5 DEF Failed, RolledBack, Restored, Kept
  <2>2. tx.owner \in Pending
    BY <2>1, OwnerIsPending
  <2>3. tx.owner # r
    BY <1>1, <2>1 DEF Restored, OwnersOK, Owns, Transacted
  <2> QED
    BY <1>3, <2>2, <2>3
<1> QED
  BY <1>1, <1>3, <1>4, <1>5 DEF Failed, RolledBack, Restored, Kept, TypeOK

LEMMA SyncFailedMoves ==
  ASSUME TypeOK, NEW r \in Requests, SyncFailed(r)
  PROVE  /\ r \notin Pending /\ pc'[r] = "fan"
         /\ \A q \in Requests \ {r} : pc'[q] = pc[q]
         /\ Pending' = Pending /\ UNCHANGED <<rows, settled, clash>>
BY DEF SyncFailed, Pending, TypeOK

\* Requests that arrive, are refused or are answered.
LEMMA OtherMoves ==
  ASSUME TypeOK, NEW r \in Requests,
         (\E o \in Ops : Arrive(r, o)) \/ NotFound(r) \/ Refused(r) \/ Answer(r)
  PROVE  /\ pc[r] # "push" /\ pc'[r] # "push"
         /\ \A q \in Requests \ {r} : pc'[q] = pc[q]
         /\ Pending' = Pending /\ UNCHANGED <<rows, settled, clash>>
<1>1. /\ pc[r] # "push" /\ pc'[r] # "push" /\ UNCHANGED <<rows, settled, clash>>
      /\ \A q \in Requests \ {r} : pc'[q] = pc[q] /\ op'[q] = op[q]
  BY DEF Arrive, NotFound, Refused, Answer, ItsTurn, Done, TypeOK
<1> QED
  BY <1>1 DEF Pending

LEMMA CrashMoves ==
  ASSUME TypeOK, OwnersOK, Crash
  PROVE  /\ Pending' = {} /\ clash' = clash
         /\ \A r \in Requests : pc'[r] # "push"
         /\ Pending = {} => UNCHANGED <<rows, settled>>
<1>1. \A r \in Requests : pc'[r] # "push"
  BY DEF Crash, Active, TypeOK
<1>2. ASSUME Pending = {} PROVE UNCHANGED <<rows, settled>>
  BY <1>2, OwnerIsPending DEF Crash, TypeOK
<1> QED
  BY <1>1, <1>2 DEF Crash, Pending

-----------------------------------------------------------------------------
(* Types of pushes and of what they reach *)

LEMMA ListType ==
  ASSUME NEW rs \in [Hosts -> Rows \cup {None}]
  PROVE  Listed(rs) \in Lists
BY DEF Listed, Lists, Enabled, Rows

LEMMA CloudedTypes ==
  /\ \A f \in [Senders -> Posts \cup {None}] : Clouded(f) \in [Senders -> Posts \cup {None}]
  /\ \A f \in [Senders -> Fans \cup {None}] : Clouded(f) \in [Senders -> Fans \cup {None}]
BY DEF Clouded, Posts, Fans

LEMMA SyncTypeStep ==
  ASSUME TypeOK, TypeOK', SyncTypeOK, SyncNext
  PROVE  SyncTypeOK'
<1> USE DEF Maps
<1>0. /\ rows \in [Hosts -> Rows \cup {None}] /\ rows' \in [Hosts -> Rows \cup {None}]
      /\ Listed(rows) \in Lists /\ Listed(rows') \in Lists /\ Empty \in Lists
  BY ListType DEF TypeOK, Empty, Lists
<1>1. ASSUME UNCHANGED syncVars PROVE SyncTypeOK'
  BY <1>1 DEF SyncTypeOK, syncVars, proxyVars
<1>2. ASSUME NEW r \in Requests, Send(r) PROVE SyncTypeOK'
  <2> DEFINE p == [list |-> Listed(rows'), stage |-> 0, alone |-> ~Contended(r)]
  <2>1. p \in Posts
    BY <1>0 DEF Posts
  <2>2. post' \in [Senders -> Posts \cup {None}] /\ (~up => post' = post)
    <3>1. Clouded(post) \in [Senders -> Posts \cup {None}]
      BY CloudedTypes DEF SyncTypeOK
    <3> HIDE DEF p
    <3> QED
      BY <1>2, <2>1, <3>1 DEF Send, Posted, SyncTypeOK, Senders, p
  <2> QED
    BY <1>2, <2>2 DEF Send, Posted, SyncTypeOK
<1>3. ASSUME NEW s \in Senders, ApplyRoutes(s) \/ ApplyPolicies(s) \/ Abandoned(s)
      PROVE  SyncTypeOK'
  <2>1. /\ \A n \in 0 .. 2 : [post[s] EXCEPT !.stage = n] \in Posts \cup {None} \/ post[s] = None
        /\ post[s] # None => post[s].list \in Lists
    BY DEF SyncTypeOK, Posts
  <2> QED
    BY <1>3, <2>1 DEF ApplyRoutes, ApplyPolicies, Abandoned, SyncTypeOK
<1>4. ASSUME NEW s \in Senders, NEW H \in SUBSET Hosts, FannedOut(s, H)
      PROVE  fan' \in [Senders -> Fans \cup {None}]
  <2>1. Clouded(fan) \in [Senders -> Fans \cup {None}]
    BY CloudedTypes DEF SyncTypeOK
  <2>2. [hosts |-> H, sent |-> TRUE, alone |-> ~FanBusy(s)] \in Fans
    BY DEF Fans
  <2> QED
    BY <1>4, <2>1, <2>2 DEF FannedOut
<1>5. [hosts |-> {}, sent |-> FALSE, alone |-> FALSE] \in Fans
  BY DEF Fans
<1>6. Registered(rows) \in SUBSET Hosts /\ Resolved(rows) \in SUBSET Hosts
  BY DEF Registered, Resolved
<1>7. ASSUME NEW r \in Requests, Acknowledged(r) PROVE SyncTypeOK'
  <2>1. fan' \in [Senders -> Fans \cup {None}]
    BY <1>4, <1>5, <1>6, <1>7 DEF Acknowledged, SyncTypeOK, Senders
  <2> QED
    BY <1>7, <2>1 DEF Acknowledged, SyncTypeOK
<1>8. ASSUME NEW r \in Requests, GiveUp(r) PROVE SyncTypeOK'
  <2>1. fan' \in [Senders -> Fans \cup {None}]
    BY <1>5, <1>8, CloudedTypes DEF GiveUp, SyncTypeOK, Senders
  <2> QED
    BY <1>8, <2>1 DEF GiveUp, SyncTypeOK, proxyVars
<1>9. ASSUME NEW r \in Requests, Ask(r) PROVE SyncTypeOK'
  <2>1. fan' \in [Senders -> Fans \cup {None}]
    BY <1>4, <1>6, <1>9 DEF Ask, Senders
  <2> QED
    BY <1>9, <2>1 DEF Ask, SyncTypeOK, proxyVars
<1>10. ASSUME NEW s \in Senders, Deliver(s) \/ Undelivered(s) PROVE SyncTypeOK'
  <2>1. fan[s] \in Fans \cup {None} /\ fan' \in [Senders -> Fans \cup {None}]
    BY <1>10 DEF Deliver, Undelivered, SyncTypeOK
  <2>2. names' \in SUBSET Hosts
    BY <1>10, <2>1 DEF Deliver, Undelivered, SyncTypeOK, Fans
  <2> QED
    BY <1>10, <2>1, <2>2 DEF Deliver, Undelivered, SyncTypeOK, proxyVars
<1>11. ASSUME NEW seen \in BOOLEAN, Tick(seen) PROVE SyncTypeOK'
  <2>1. CASE UNCHANGED <<post, fan, drift>>
    BY <1>11, <2>1 DEF Tick, SyncTypeOK
  <2>2. CASE seen /\ ~wasOnline
    <3>1. /\ post' \in [Senders -> Posts \cup {None}] /\ up
          /\ FannedOut(Monitor, Resolved(rows))
      <4>1. Clouded(post) \in [Senders -> Posts \cup {None}]
        BY CloudedTypes DEF SyncTypeOK
      <4>2. [list |-> Listed(rows), stage |-> 0, alone |-> ~Contended(Monitor)] \in Posts
        BY <1>0 DEF Posts
      <4> QED
        BY <1>11, <2>2, <4>1, <4>2 DEF Tick
    <3>2. fan' \in [Senders -> Fans \cup {None}]
      BY <1>4, <1>6, <3>1 DEF Senders
    <3> QED
      BY <1>11, <2>2, <3>1, <3>2 DEF Tick, SyncTypeOK
  <2> QED
    BY <1>11, <2>1, <2>2 DEF Tick
<1>12. ASSUME NEW answered \in BOOLEAN, Pull(answered) PROVE SyncTypeOK'
  BY <1>0, <1>12 DEF Pull, SyncTypeOK
<1>13. CASE MonitorAnswered
  BY <1>13 DEF MonitorAnswered, SyncTypeOK
<1>14. CASE Restart
  <2>1. restarts' \in 0 .. MaxRestarts
    BY <1>14, SyncAssumption DEF Restart, SyncTypeOK
  <2>2. post' \in [Senders -> Posts \cup {None}] /\ \A s \in Senders : post'[s] = None
    BY <1>14 DEF Restart
  <2> QED
    BY <1>0, <1>14, <2>1, <2>2 DEF Restart, SyncTypeOK
<1>15. CASE Serve
  BY <1>15 DEF Serve, SyncTypeOK
<1>16. CASE AdminCrash
  <2>1. fan' \in [Senders -> Fans \cup {None}]
    <3>1. ASSUME NEW s \in Senders, fan[s] # None, NEW b \in BOOLEAN
          PROVE  [fan[s] EXCEPT !.alone = b] \in Fans
      BY <3>1 DEF SyncTypeOK, Fans
    <3>2. ASSUME NEW s \in Senders, fan[s] # None
          PROVE  [fan[s] EXCEPT !.alone = @ /\ Pending = {}] \in Fans
      <4> DEFINE b == fan[s].alone /\ Pending = {}
      <4>1. b \in BOOLEAN
        OBVIOUS
      <4> HIDE DEF b
      <4>2. [fan[s] EXCEPT !.alone = b] \in Fans
        BY <3>1, <3>2, <4>1
      <4> QED
        BY <4>2 DEF b
    <3> QED
      BY <1>16, <3>2 DEF AdminCrash
  <2> QED
    BY <1>16, <2>1 DEF AdminCrash, SyncTypeOK
<1> QED
  BY <1>1, <1>2, <1>3, <1>7, <1>8, <1>9, <1>10, <1>11, <1>12, <1>13, <1>14, <1>15, <1>16
  DEF SyncNext, Told

-----------------------------------------------------------------------------
(* Pushes that run alone *)

\* No other push is under way and no other request may still undo its rows; until its sender
\* gives up, such a push carries the rows as they are, and the maps that have it agree.
AloneOK ==
  \A s \in Senders : (post[s] # None /\ post[s].alone) =>
    /\ \A q \in Senders \ {s} : post[q] = None /\ q \notin Pending
    /\ Awaits(s) => /\ post[s].list = Listed(rows)
                    /\ post[s].stage >= 1 => routes = post[s].list
                    /\ post[s].stage = 2 => policies = post[s].list

\* What a new push knows of itself, and of the others.
LEMMA SentAlone ==
  ASSUME SyncTypeOK, NEW s \in Senders, NEW rs, NEW P,
         post' = [Clouded(post) EXCEPT ![s] = P], P.alone = ~Contended(s)
  PROVE  /\ post'[s] = P
         /\ \A q \in Senders \ {s} :
              /\ post[q] = None => post'[q] = None
              /\ post'[q] # None => ~post'[q].alone
         /\ P.alone => \A q \in Senders \ {s} : post[q] = None /\ post'[q] = None /\ q \notin Pending
<1>1. post'[s] = P /\ \A q \in Senders \ {s} : post'[q] = Clouded(post)[q]
  BY DEF Clouded
<1>2. \A q \in Senders \ {s} : post[q] \in Posts \cup {None}
  BY DEF SyncTypeOK
<1>3. \A q \in Senders \ {s} :
         /\ post[q] = None => Clouded(post)[q] = None
         /\ post[q] # None => ~Clouded(post)[q].alone
  BY <1>2 DEF Clouded, Posts
<1>4. \A q \in Senders \ {s} :
         /\ post[q] = None => post'[q] = None
         /\ post'[q] # None => ~post'[q].alone
  BY <1>1, <1>3
<1> QED
  BY <1>1, <1>4 DEF Contended

LEMMA AloneStep ==
  ASSUME Invariant, SyncTypeOK, AloneOK, SyncNext
  PROVE  AloneOK'
<1>0. TypeOK /\ OwnersOK /\ Monitor \notin Requests /\ Monitor \notin Pending
  BY SyncAssumption DEF Invariant, Pending
<1>1. ASSUME NEW r \in Requests,
             (\E o \in Ops : Arrive(r, o)) \/ NotFound(r) \/ Refused(r) \/ Answer(r),
             UNCHANGED syncVars
      PROVE  AloneOK'
  <2>1. /\ \A s \in Senders : Awaits(s)' <=> Awaits(s)
        /\ Pending' = Pending /\ Listed(rows)' = Listed(rows)
    BY <1>0, <1>1, OtherMoves DEF Awaits, Senders
  <2> QED
    BY <1>1, <2>1 DEF AloneOK, syncVars, proxyVars
<1>2. ASSUME NEW r \in Requests, Send(r) PROVE AloneOK'
  <2>0. Begin(r) /\ r \in Senders
    BY <1>2 DEF Send, Senders
  <2>1. \A q \in Senders \ {r} : q \in Pending' <=> q \in Pending
    BY <1>0, <2>0, BeginMoves
  <2>2. CASE up
    <3> DEFINE p == [list |-> Listed(rows'), stage |-> 0, alone |-> ~Contended(r)]
    <3>1. post' = [Clouded(post) EXCEPT ![r] = p]
      BY <1>2, <2>2 DEF Send, Posted
    <3>2. p.alone = ~Contended(r) /\ p.list = Listed(rows') /\ p.stage = 0
      OBVIOUS
    <3> HIDE DEF p
    <3>3. /\ post'[r] = p
          /\ \A q \in Senders \ {r} : post'[q] # None => ~post'[q].alone
          /\ p.alone => \A q \in Senders \ {r} : post'[q] = None /\ q \notin Pending
      BY <2>0, <3>1, <3>2, SentAlone
    <3> QED
      BY <2>0, <2>1, <3>2, <3>3 DEF AloneOK
  <2>3. CASE ~up
    BY <1>2, <2>3 DEF Send, Posted, SyncTypeOK, AloneOK
  <2> QED
    BY <2>2, <2>3
<1>3. ASSUME NEW r \in Requests, Acknowledged(r) PROVE AloneOK'
  <2>1. \A s \in Senders : post'[s] = None \/ ~post'[s].alone
    BY <1>3 DEF Acknowledged, AloneOK, SyncTypeOK, Senders
  <2> QED
    BY <2>1 DEF AloneOK
<1>4. ASSUME NEW r \in Requests, GiveUp(r) PROVE AloneOK'
  <2>0. r \in Senders /\ r # Monitor /\ UNCHANGED <<routes, policies, post>>
    BY <1>0, <1>4 DEF GiveUp, proxyVars, Senders
  <2>1. CASE SyncFailed(r)
    <3>1. /\ Pending' = Pending /\ rows' = rows
          /\ \A s \in Senders : Awaits(s)' => Awaits(s)
      BY <1>0, <2>0, <2>1, SyncFailedMoves DEF Awaits, Senders
    <3> QED
      BY <2>0, <3>1 DEF AloneOK
  <2>2. CASE Failed(r)
    <3>1. r \in Pending /\ Pending' = Pending \ {r} /\ ~Awaits(r)'
      BY <1>0, <2>0, <2>2, FailedMoves DEF Awaits
    <3>2. \A s \in Senders \ {r} : post[s] = None \/ ~post[s].alone
      BY <2>0, <3>1 DEF AloneOK
    <3> QED
      BY <2>0, <3>1, <3>2 DEF AloneOK
  <2> QED
    BY <1>4, <2>1, <2>2 DEF GiveUp
<1>5. ASSUME UNCHANGED <<vars, proxyVars>> PROVE AloneOK'
  BY <1>5 DEF AloneOK, vars, proxyVars, Pending, Awaits
<1>6. ASSUME NEW s \in Senders, ApplyRoutes(s) \/ ApplyPolicies(s) \/ Abandoned(s)
      PROVE  AloneOK'
  <2>1. /\ UNCHANGED vars /\ Pending' = Pending /\ Listed(rows)' = Listed(rows)
        /\ \A q \in Senders : Awaits(q)' <=> Awaits(q)
    BY <1>6 DEF ApplyRoutes, ApplyPolicies, Abandoned, vars, Pending, Awaits
  <2>2. post[s] # None /\ post[s] \in Posts
    BY <1>6 DEF ApplyRoutes, ApplyPolicies, Abandoned, SyncTypeOK
  <2>3. \A q \in Senders \ {s} : post'[q] = post[q] /\ (post[q] # None => ~post[q].alone)
    BY <1>6, <2>2 DEF ApplyRoutes, ApplyPolicies, Abandoned, SyncTypeOK, AloneOK
  <2>4. CASE ApplyRoutes(s)
    <3>1. /\ routes' = post[s].list /\ UNCHANGED <<policies>>
          /\ post'[s].stage = 1 /\ post'[s].list = post[s].list /\ post'[s].alone = post[s].alone
      BY <2>2, <2>4 DEF ApplyRoutes, SyncTypeOK, Posts
    <3> QED
      BY <2>1, <2>2, <2>3, <3>1 DEF AloneOK
  <2>5. CASE ApplyPolicies(s)
    <3>1. /\ post[s].stage = 1 /\ routes' = routes /\ policies' = post[s].list
          /\ post'[s].stage = 2 /\ post'[s].list = post[s].list /\ post'[s].alone = post[s].alone
      BY <2>2, <2>5 DEF ApplyPolicies, SyncTypeOK, Posts
    <3> QED
      BY <2>1, <2>2, <2>3, <3>1 DEF AloneOK
  <2>6. CASE Abandoned(s)
    <3>1. post'[s] = None
      BY <2>6 DEF Abandoned, SyncTypeOK
    <3> QED
      BY <2>3, <3>1 DEF AloneOK
  <2> QED
    BY <1>6, <2>4, <2>5, <2>6
<1>7. ASSUME NEW seen \in BOOLEAN, Tick(seen) PROVE AloneOK'
  <2>1. UNCHANGED vars /\ UNCHANGED <<routes, policies>> /\ Pending' = Pending /\ rows' = rows
    BY <1>7 DEF Tick, vars, Pending
  <2>2. CASE UNCHANGED post
    BY <2>1, <2>2 DEF AloneOK, Awaits, vars
  <2>3. CASE post' = [Clouded(post) EXCEPT ![Monitor] =
                        [list |-> Listed(rows), stage |-> 0, alone |-> ~Contended(Monitor)]]
    <3> DEFINE p == [list |-> Listed(rows), stage |-> 0, alone |-> ~Contended(Monitor)]
    <3>1. /\ post' = [Clouded(post) EXCEPT ![Monitor] = p] /\ Monitor \in Senders
          /\ p.alone = ~Contended(Monitor) /\ p.list = Listed(rows) /\ p.stage = 0
      BY <2>3 DEF Senders
    <3> HIDE DEF p
    <3>3. /\ post'[Monitor] = p
          /\ \A q \in Senders \ {Monitor} : post'[q] # None => ~post'[q].alone
          /\ p.alone => \A q \in Senders \ {Monitor} : post'[q] = None /\ q \notin Pending
      BY <3>1, SentAlone
    <3> QED
      BY <2>1, <3>1, <3>3 DEF AloneOK
  <2> QED
    BY <1>7, <2>2, <2>3 DEF Tick
<1>8. CASE MonitorAnswered
  <2>1. \A s \in Senders : post'[s] = None \/ (post[s] # None /\ ~post'[s].alone)
    BY <1>8 DEF MonitorAnswered, AloneOK, SyncTypeOK, Senders
  <2> QED
    BY <2>1 DEF AloneOK
<1>9. ASSUME Restart \/ Serve \/ \E b \in BOOLEAN : Pull(b) PROVE AloneOK'
  <2>1. \A s \in Senders : post'[s] = None
    BY <1>9 DEF Restart, Serve, Pull, SyncTypeOK
  <2> QED
    BY <2>1 DEF AloneOK
<1>10. CASE AdminCrash
  <2>1. Crash /\ UNCHANGED <<routes, policies, post>>
    BY <1>10 DEF AdminCrash
  <2>2. Pending' = {} /\ (Pending = {} => rows' = rows) /\ \A r \in Requests : ~Awaits(r)'
    BY <1>0, <2>1, CrashMoves DEF Awaits
  <2>3. (post[Monitor] # None /\ post[Monitor].alone) => Pending = {}
    BY <1>0 DEF AloneOK, Senders, Pending
  <2> QED
    BY <2>1, <2>2, <2>3 DEF AloneOK, Senders, Awaits
<1> QED
  BY <1>1, <1>2, <1>3, <1>4, <1>5, <1>6, <1>7, <1>8, <1>9, <1>10
  DEF SyncNext, Told, Ask, Deliver, Undelivered

-----------------------------------------------------------------------------
(* The proxy's maps *)

\* What the proxy routes by, or will once it serves, and what it holds of the policies.
Held(m) == IF m = "policies" THEN policies ELSE IF up THEN routes ELSE boot

\* Has the proxy got this map from a push whose sender may still undo the rows?
Half(m) ==
  \E r \in Pending : post[r] # None /\ post[r].stage >= (IF m = "routes" THEN 1 ELSE 2)

\* A map that has not drifted is that of the rows if they are decided.  If they are not, it is
\* what they go back to, unless the push that is under way has replaced it.
MapOK(m) ==
  /\ \A s \in Senders : post[s] # None => post[s].alone
  /\ Pending = {} => Held(m) = Listed(rows)
  /\ ~clash /\ ~Half(m) => Held(m) = Listed(settled)

MapsOK == \A m \in Maps : m \notin drift => MapOK(m)

\* A proxy that is down has no policies.
DownOK == ~up => "policies" \in drift

LEMMA DecidedRows ==
  /\ Invariant /\ Pending = {} /\ ~clash => rows = settled
  /\ (Invariant /\ Pending = {} /\ ~clash => rows = settled)'
<1>1. Invariant /\ Pending = {} /\ ~clash => rows = settled
  BY DEF Invariant, TypeOK, RowsOKAlone, RowsOK, Undecided
<1>2. (Invariant /\ Pending = {} /\ ~clash => rows = settled)'
  BY DEF Invariant, TypeOK, RowsOKAlone, RowsOK, Undecided
<1> QED
  BY <1>1, <1>2

LEMMA DownStep ==
  ASSUME SyncTypeOK, DownOK, SyncNext
  PROVE  DownOK'
<1> USE DEF DownOK, Maps
<1>1. ASSUME NEW r \in Requests, Send(r) \/ GiveUp(r) \/ Ask(r) PROVE DownOK'
  BY <1>1 DEF Send, Posted, GiveUp, Ask, proxyVars
<1>2. ASSUME NEW r \in Requests, Acknowledged(r) PROVE DownOK'
  BY <1>2 DEF Acknowledged, SyncTypeOK, Senders
<1>3. ASSUME NEW s \in Senders, ApplyRoutes(s) \/ ApplyPolicies(s) \/ Abandoned(s) PROVE DownOK'
  BY <1>3 DEF ApplyRoutes, ApplyPolicies, Abandoned
<1>4. ASSUME NEW s \in Senders, Deliver(s) \/ Undelivered(s) PROVE DownOK'
  BY <1>4 DEF Deliver, Undelivered, proxyVars
<1>5. ASSUME NEW b \in BOOLEAN, Tick(b) \/ Pull(b) PROVE DownOK'
  BY <1>5 DEF Tick, Pull
<1>6. CASE MonitorAnswered
  BY <1>6 DEF MonitorAnswered, SyncTypeOK, Senders
<1>7. CASE Restart \/ Serve \/ AdminCrash
  BY <1>7 DEF Restart, Serve, AdminCrash
<1>8. CASE UNCHANGED syncVars
  BY <1>8 DEF syncVars, proxyVars
<1> QED
  BY <1>1, <1>2, <1>3, <1>4, <1>5, <1>6, <1>7, <1>8 DEF SyncNext, Told

LEMMA MapStep ==
  ASSUME Invariant, Invariant', SyncTypeOK, AloneOK, DownOK, MapsOK, SyncNext,
         NEW m \in Maps, m \notin drift'
  PROVE  MapOK(m)'
<1>0. /\ TypeOK /\ OwnersOK /\ Monitor \notin Requests /\ Monitor \notin Pending
      /\ m \in {"routes", "policies"} /\ (m \notin drift => MapOK(m))
  BY SyncAssumption DEF Invariant, Pending, Maps, MapsOK
<1>1. ASSUME NEW r \in Requests,
             (\E o \in Ops : Arrive(r, o)) \/ NotFound(r) \/ Refused(r) \/ Answer(r),
             UNCHANGED syncVars
      PROVE  MapOK(m)'
  <2>1. Pending' = Pending /\ UNCHANGED <<rows, settled, clash>>
    BY <1>0, <1>1, OtherMoves
  <2> QED
    BY <1>0, <1>1, <2>1 DEF MapOK, Held, Half, syncVars, proxyVars
<1>2. ASSUME NEW r \in Requests, Send(r) PROVE MapOK(m)'
  <2>0. Begin(r) /\ r \in Senders /\ UNCHANGED <<up, routes, policies, boot>>
    BY <1>2 DEF Send, Senders
  <2>1. MapOK(m) /\ ~Contended(r)
    BY <1>0, <1>2 DEF Send, Posted, Maps
  <2>2. Pending = {} /\ \A q \in Senders \ {r} : post[q] = None
    BY <1>0, <2>0, <2>1, BeginMoves DEF Contended, Pending, Senders
  <2>3. /\ settled' = settled /\ (~clash' => ~clash)
        /\ Pending' = {} => rows' = rows
    BY <1>0, <2>0, BeginMoves
  <2>4. Held(m)' = Held(m) /\ ~Half(m)
    BY <2>0, <2>2 DEF Held, Half
  <2>5. \A s \in Senders : post'[s] # None => post'[s].alone
    <3>1. CASE up
      <4> DEFINE p == [list |-> Listed(rows'), stage |-> 0, alone |-> ~Contended(r)]
      <4>1. post' = [Clouded(post) EXCEPT ![r] = p]
        BY <1>2, <3>1 DEF Send, Posted
      <4>2. p.alone = ~Contended(r)
        OBVIOUS
      <4> HIDE DEF p
      <4>3. post'[r] = p /\ p.alone
        BY <2>0, <2>1, <4>1, <4>2, SentAlone
      <4>4. \A q \in Senders \ {r} : post'[q] = None
        BY <2>0, <2>1, <4>1, <4>2, <4>3, SentAlone
      <4> QED
        BY <4>3, <4>4
    <3>2. CASE ~up
      BY <1>2, <3>2 DEF Send, Posted, SyncTypeOK
    <3> QED
      BY <3>1, <3>2
  <2> QED
    BY <2>1, <2>2, <2>3, <2>4, <2>5 DEF MapOK
<1>3. ASSUME NEW s \in Senders, post[s] # None, post[s].stage = 2, post[s].alone, Awaits(s),
             Pending' = Pending \ {s}, rows' = rows, UNCHANGED <<up, routes, policies, boot>>,
             post' = [post EXCEPT ![s] = None]
      PROVE  MapOK(m)'
  <2>1. up /\ post[s].list = Listed(rows) /\ routes = post[s].list /\ policies = post[s].list
    BY <1>3 DEF SyncTypeOK, AloneOK
  <2>2. Pending' = {} /\ \A q \in Senders : post'[q] = None
    BY <1>3 DEF AloneOK, SyncTypeOK, Pending, Senders
  <2>3. Held(m)' = Listed(rows') /\ (~clash' => rows' = settled')
    BY <1>3, <2>1, <2>2, DecidedRows DEF Held
  <2> QED
    BY <2>2, <2>3 DEF MapOK
<1>4. ASSUME NEW r \in Requests, Acknowledged(r) PROVE MapOK(m)'
  <2>1. r \in Senders /\ post[r] # None /\ post[r].stage = 2 /\ Synced(r)
        /\ UNCHANGED <<up, routes, policies, boot>> /\ post' = [post EXCEPT ![r] = None]
    BY <1>4 DEF Acknowledged, Senders
  <2>2. post[r].alone
    BY <1>0, <1>4, <2>1 DEF Acknowledged, MapOK, SyncTypeOK, Maps
  <2>3. Awaits(r) /\ Pending' = Pending \ {r} /\ rows' = rows
    BY <1>0, <2>1, SyncedMoves DEF Awaits
  <2> QED
    BY <1>3, <2>1, <2>2, <2>3
<1>5. ASSUME NEW r \in Requests, GiveUp(r) PROVE MapOK(m)'
  <2>0. UNCHANGED proxyVars /\ m \notin drift /\ MapOK(m) /\ r \in Senders
    BY <1>0, <1>5 DEF GiveUp, Senders
  <2>1. CASE SyncFailed(r)
    <3>1. Pending' = Pending /\ UNCHANGED <<rows, settled, clash>>
      BY <1>0, <2>1, SyncFailedMoves
    <3> QED
      BY <2>0, <3>1 DEF MapOK, Held, Half, proxyVars
  <2>2. CASE Failed(r)
    <3>1. /\ r \in Pending /\ Pending' = Pending \ {r}
          /\ ~Keeps(r) => settled' = settled
          /\ clash' => clash \/ Pending' # {}
      BY <1>0, <2>2, FailedMoves
    <3>2. ~Keeps(r) /\ ~clash
      BY <1>5 DEF GiveUp, Maps
    <3>3. post[r] = None \/ ~(post[r].stage >= (IF m = "routes" THEN 1 ELSE 2))
      BY <1>0, <1>5, <3>1 DEF GiveUp, Maps, Pending
    <3>4. ~Half(m)
      <4>1. \A q \in Pending \ {r} : q \in Senders /\ (post[q] # None => post[q].alone)
        BY <2>0 DEF MapOK, Pending, Senders
      <4>2. \A q \in Pending \ {r} : post[q] = None
        BY <2>0, <3>1, <4>1 DEF AloneOK
      <4> QED
        BY <3>3, <4>2 DEF Half
    <3>5. Held(m)' = Listed(settled')
      BY <2>0, <3>1, <3>2, <3>4 DEF MapOK, Held, proxyVars
    <3>6. Pending' = {} => rows' = settled'
      BY <3>1, <3>2, DecidedRows
    <3> QED
      BY <2>0, <3>5, <3>6 DEF MapOK, proxyVars
  <2> QED
    BY <1>5, <2>1, <2>2 DEF GiveUp
<1>6. ASSUME UNCHANGED <<vars, proxyVars>>, m \notin drift PROVE MapOK(m)'
  BY <1>0, <1>6 DEF MapOK, Held, Half, Pending, vars, proxyVars
<1>7. ASSUME NEW s \in Senders, ApplyRoutes(s) \/ ApplyPolicies(s) \/ Abandoned(s)
      PROVE  MapOK(m)'
  <2>0. /\ UNCHANGED <<rows, settled, clash, up, boot>> /\ Pending' = Pending /\ MapOK(m)
        /\ post[s] # None /\ post[s] \in Posts /\ m \notin drift
    BY <1>0, <1>7 DEF ApplyRoutes, ApplyPolicies, Abandoned, vars, Pending, SyncTypeOK
  <2>1. up /\ post[s].alone /\ \A q \in Senders \ {s} : post[q] = None /\ post'[q] = None
    BY <1>7, <2>0
    DEF MapOK, AloneOK, SyncTypeOK, ApplyRoutes, ApplyPolicies, Abandoned
  <2>2. ASSUME Held(m)' = Listed(rows), Pending # {} => Half(m)',
               post'[s] # None => post'[s].alone
        PROVE  MapOK(m)'
    <3>1. Pending = {} /\ ~clash => rows = settled
      BY DecidedRows
    <3> QED
      BY <2>0, <2>1, <2>2, <3>1 DEF MapOK
  <2>3. ASSUME Held(m)' = Held(m), Half(m)' <=> Half(m), post'[s] # None => post'[s].alone
        PROVE  MapOK(m)'
    BY <2>0, <2>1, <2>3 DEF MapOK
  <2>4. \A q \in Pending : q = s \/ post[q] = None
    BY <2>1 DEF Pending, Senders
  <2>5. Pending \subseteq {s}
    BY <2>0, <2>1 DEF AloneOK, Pending, Senders
  <2>6. CASE ApplyRoutes(s)
    <3>1. /\ routes' = post[s].list /\ policies' = policies /\ post[s].stage = 0
          /\ post'[s].stage = 1 /\ post'[s].alone
          /\ m = "routes" => Awaits(s)
      BY <2>0, <2>1, <2>6 DEF ApplyRoutes, SyncTypeOK, Posts
    <3>2. CASE m = "routes"
      <4>1. Held(m)' = Listed(rows)
        BY <2>0, <2>1, <3>1, <3>2 DEF Held, AloneOK
      <4>2. Pending # {} => Half(m)'
        <5>1. post'[s] = [list |-> post[s].list, stage |-> 1, alone |-> post[s].alone]
          BY <2>0, <2>6 DEF ApplyRoutes, SyncTypeOK, Posts
        <5>2. post'[s] # None
          BY <2>0, <5>1, SentAssumption DEF Posts
        <5> QED
          BY <2>0, <2>5, <3>1, <3>2, <5>2 DEF Half
      <4> QED
        BY <2>2, <3>1, <4>1, <4>2
    <3>3. CASE m = "policies"
      <4>1. ~Half(m) /\ ~Half(m)'
        BY <2>0, <2>5, <3>1, <3>3 DEF Half
      <4> QED
        BY <2>3, <3>1, <3>3, <4>1 DEF Held
    <3> QED
      BY <1>0, <3>2, <3>3
  <2>7. CASE ApplyPolicies(s)
    <3>1. /\ policies' = post[s].list /\ routes' = routes /\ post[s].stage = 1
          /\ post'[s].stage = 2 /\ post'[s].alone
          /\ m = "policies" => Awaits(s)
      BY <2>0, <2>1, <2>7 DEF ApplyPolicies, SyncTypeOK, Posts
    <3>2. CASE m = "policies"
      <4>1. Held(m)' = Listed(rows)
        BY <2>0, <2>1, <3>1, <3>2 DEF Held, AloneOK
      <4>2. Pending # {} => Half(m)'
        <5>1. post'[s] = [list |-> post[s].list, stage |-> 2, alone |-> post[s].alone]
          BY <2>0, <2>7 DEF ApplyPolicies, SyncTypeOK, Posts
        <5>2. post'[s] # None
          BY <2>0, <5>1, SentAssumption DEF Posts
        <5> QED
          BY <2>0, <2>5, <3>1, <3>2, <5>2 DEF Half
      <4> QED
        BY <2>2, <3>1, <4>1, <4>2
    <3>3. CASE m = "routes"
      <4>0. post'[s] = [list |-> post[s].list, stage |-> 2, alone |-> post[s].alone]
        BY <2>0, <2>7 DEF ApplyPolicies, SyncTypeOK, Posts
      <4>1. post'[s] # None
        BY <2>0, <4>0, SentAssumption DEF Posts
      <4>2. Half(m)' <=> Half(m)
        BY <2>0, <2>5, <3>1, <3>3, <4>1 DEF Half
      <4> QED
        BY <2>0, <2>3, <3>1, <3>3, <4>2 DEF Held
    <3> QED
      BY <1>0, <3>2, <3>3
  <2>8. CASE Abandoned(s)
    <3>1. post'[s] = None /\ UNCHANGED <<routes, policies>>
      BY <2>8 DEF Abandoned, SyncTypeOK
    <3>2. s \notin Pending
      BY <1>0, <2>8 DEF Abandoned, Awaits, Pending
    <3>3. Half(m)' <=> Half(m)
      BY <2>0, <2>5, <3>2 DEF Half
    <3> QED
      BY <2>0, <2>3, <3>1, <3>3 DEF Held
  <2> QED
    BY <1>7, <2>6, <2>7, <2>8
<1>8. ASSUME NEW seen \in BOOLEAN, Tick(seen) PROVE MapOK(m)'
  <2>0. /\ UNCHANGED <<vars, up, routes, policies, boot>> /\ m \notin drift /\ MapOK(m)
        /\ Pending' = Pending /\ rows' = rows /\ settled' = settled /\ clash' = clash
    BY <1>0, <1>8 DEF Tick, vars, Pending
  <2>1. CASE UNCHANGED post
    BY <2>0, <2>1 DEF MapOK, Held, Half
  <2>2. CASE /\ post' = [Clouded(post) EXCEPT ![Monitor] =
                          [list |-> Listed(rows), stage |-> 0, alone |-> ~Contended(Monitor)]]
             /\ ~Contended(Monitor)
    <3> DEFINE p == [list |-> Listed(rows), stage |-> 0, alone |-> ~Contended(Monitor)]
    <3>1. /\ post' = [Clouded(post) EXCEPT ![Monitor] = p] /\ Monitor \in Senders
          /\ p.alone = ~Contended(Monitor)
      BY <2>2 DEF Senders
    <3> HIDE DEF p
    <3>2. p.alone /\ Pending = {}
      BY <1>0, <2>2, <3>1 DEF Contended, Pending, Senders
    <3>3. /\ post'[Monitor] = p
          /\ p.alone => \A q \in Senders \ {Monitor} : post'[q] = None
      BY <3>1, SentAlone
    <3>4. \A s \in Senders : post'[s] # None => post'[s].alone
      BY <3>2, <3>3
    <3> QED
      BY <2>0, <3>2, <3>4 DEF MapOK, Held, Half
  <2> QED
    BY <1>8, <2>1, <2>2 DEF Tick, Maps
<1>9. CASE MonitorAnswered
  <2>0. /\ Monitor \in Senders /\ Awaits(Monitor) /\ Pending' = Pending \ {Monitor} /\ rows' = rows
        /\ post[Monitor] # None /\ post[Monitor].stage = 2
        /\ UNCHANGED <<up, routes, policies, boot>> /\ post' = [post EXCEPT ![Monitor] = None]
    BY <1>0, <1>9 DEF MonitorAnswered, Senders, Awaits, Pending, vars
  <2>1. post[Monitor].alone
    BY <1>0, <1>9, <2>0 DEF MonitorAnswered, MapOK
  <2> QED
    BY <1>3, <2>0, <2>1
<1>10. CASE Restart
  BY <1>10 DEF Restart
<1>11. ASSUME NEW answered \in BOOLEAN, Pull(answered) PROVE MapOK(m)'
  <2>1. m = "routes" /\ answered /\ Pending = {}
    BY <1>0, <1>11 DEF Pull, DownOK
  <2>2. Pending' = {} /\ UNCHANGED <<rows, settled, clash, up, post>> /\ ~up /\ boot' = Listed(rows)
    BY <1>11, <2>1 DEF Pull, vars, Pending
  <2>3. /\ \A s \in Senders : post[s] = None
        /\ ~clash => rows = settled
    BY <2>1, <2>2, DecidedRows DEF SyncTypeOK
  <2> QED
    BY <2>1, <2>2, <2>3 DEF MapOK, Held
<1>12. CASE Serve
  <2>1. m = "routes" /\ m \notin drift
    BY <1>0, <1>12 DEF Serve, DownOK
  <2>2. /\ Pending' = Pending /\ UNCHANGED <<rows, settled, clash, post>> /\ ~up /\ up'
        /\ routes' = boot
    BY <1>12 DEF Serve, vars, Pending
  <2> QED
    BY <1>0, <2>1, <2>2 DEF MapOK, Held, Half
<1>13. CASE AdminCrash
  <2>1. /\ Crash /\ UNCHANGED <<up, routes, policies, boot, post>> /\ m \notin drift /\ MapOK(m)
        /\ Pending = {}
    BY <1>0, <1>13 DEF AdminCrash
  <2>2. Pending' = {} /\ UNCHANGED <<rows, settled, clash>>
    BY <1>0, <2>1, CrashMoves
  <2> QED
    BY <2>1, <2>2 DEF MapOK, Held, Half
<1>14. ASSUME (\E r \in Requests : Ask(r)) \/ (\E s \in Senders : Deliver(s) \/ Undelivered(s))
       PROVE  MapOK(m)'
  <2>1. UNCHANGED <<vars, proxyVars>> /\ m \notin drift
    BY <1>0, <1>14 DEF Ask, Deliver, Undelivered
  <2> QED
    BY <1>6, <2>1
<1> QED
  BY <1>1, <1>2, <1>4, <1>5, <1>7, <1>8, <1>9, <1>10, <1>11, <1>12, <1>13, <1>14
  DEF SyncNext, Told

-----------------------------------------------------------------------------
(* The hosts that DNS knows *)

Fitting(H, rs) == Resolved(rs) \subseteq H /\ H \subseteq Registered(rs)

\* These hosts are right for the rows if they are decided, and for what they go back to if not.
Suits(H) == (~clash => Fitting(H, settled)) /\ (Pending = {} => Fitting(H, rows))

OnWay(s) == fan[s] # None /\ fan[s].sent

\* A list that goes alone is right; nothing is sent before the proxy has answered.
FansOK ==
  /\ \A s \in Senders : OnWay(s) /\ fan[s].alone =>
       (\A q \in Senders \ {s} : ~OnWay(q)) /\ Suits(fan[s].hosts)
  /\ \A r \in Requests : pc[r] \in {"idle", "queued", "push"} => fan[r] = None

\* If the names have not drifted, then every list under way goes alone, and without one they
\* are right.
NamesOK ==
  "names" \notin drift =>
    /\ \A s \in Senders : OnWay(s) => fan[s].alone
    /\ (\A s \in Senders : ~OnWay(s)) => Suits(names)

\* Steps that send no list: what was right stays right.
LEMMA FansKept ==
  ASSUME FansOK, NamesOK, UNCHANGED names, "names" \notin drift' => "names" \notin drift,
         \A s \in Senders :
           /\ OnWay(s)' <=> OnWay(s)
           /\ OnWay(s) => fan'[s].alone = fan[s].alone /\ fan'[s].hosts = fan[s].hosts,
         \A H \in SUBSET Hosts : Suits(H) => Suits(H)',
         SyncTypeOK,
         \A r \in Requests : pc'[r] \in {"idle", "queued", "push"} => fan'[r] = None
  PROVE  FansOK' /\ NamesOK'
<1>1. names \in SUBSET Hosts /\ \A s \in Senders : OnWay(s) => fan[s].hosts \in SUBSET Hosts
  BY DEF SyncTypeOK, OnWay, Fans
<1>2. FansOK'
  <2>1. ASSUME NEW s \in Senders, OnWay(s)', fan'[s].alone
        PROVE  (\A q \in Senders \ {s} : ~OnWay(q)') /\ Suits(fan[s].hosts)'
    <3>1. OnWay(s) /\ fan[s].alone /\ fan[s].hosts \in SUBSET Hosts
      BY <1>1, <2>1
    <3>2. (\A q \in Senders \ {s} : ~OnWay(q)) /\ Suits(fan[s].hosts)
      BY <3>1 DEF FansOK
    <3> DEFINE H == fan[s].hosts
    <3>3. H \in SUBSET Hosts /\ Suits(H) /\ H' = H
      BY <2>1, <3>1, <3>2
    <3>4. Suits(H)'
      <4> HIDE DEF H
      <4>1. PICK G \in SUBSET Hosts : G = H
        BY <3>3
      <4>2. Suits(G)'
        BY <3>3, <4>1
      <4> QED
        BY <3>3, <4>1, <4>2 DEF Suits
    <3> QED
      BY <3>2, <3>4
  <2> QED
    BY <2>1 DEF FansOK
<1>3. NamesOK'
  <2> SUFFICES ASSUME "names" \notin drift'
               PROVE  /\ \A s \in Senders : OnWay(s)' => fan'[s].alone
                      /\ (\A s \in Senders : ~OnWay(s)') => Suits(names)'
    BY DEF NamesOK
  <2>1. ASSUME \A s \in Senders : ~OnWay(s)' PROVE Suits(names)'
    <3>1. Suits(names)
      BY <2>1 DEF NamesOK
    <3>2. PICK G \in SUBSET Hosts : G = names
      BY <1>1
    <3>3. Suits(G)'
      BY <3>1, <3>2
    <3> QED
      BY <3>2, <3>3 DEF Suits
  <2> QED
    BY <2>1 DEF NamesOK
<1> QED
  BY <1>2, <1>3

\* A list is sent: it goes alone if nothing else is under way, and the others do not.
LEMMA FanSent ==
  ASSUME SyncTypeOK, NEW s \in Senders, NEW H \in SUBSET Hosts, FannedOut(s, H),
         ~FanBusy(s) => Suits(H)', "names" \notin drift' => ~FanBusy(s),
         \A r \in Requests : pc'[r] \in {"idle", "queued", "push"} => r # s /\ fan[r] = None
  PROVE  FansOK' /\ NamesOK'
<1> DEFINE b == ~FanBusy(s)
           f == [hosts |-> H, sent |-> TRUE, alone |-> b]
<1>0. b \in BOOLEAN
  OBVIOUS
<1>2. fan' = [Clouded(fan) EXCEPT ![s] = f]
  BY DEF FannedOut
<1>a. b <=> ~FanBusy(s)
  OBVIOUS
<1> HIDE DEF b
<1>b. f \in Fans /\ f.hosts = H /\ f.sent /\ f.alone = b
  BY <1>0 DEF Fans
<1>c. f # None
  BY <1>b, SentAssumption
<1>1. f \in Fans /\ f # None /\ f.hosts = H /\ f.sent /\ (f.alone <=> ~FanBusy(s))
  BY <1>0, <1>a, <1>b, <1>c
<1> HIDE DEF f
<1>3. fan'[s] = f /\ \A q \in Senders \ {s} : fan'[q] = Clouded(fan)[q]
  BY <1>2 DEF Clouded
<1>4. \A q \in Senders \ {s} :
         /\ fan[q] = None => fan'[q] = None
         /\ fan'[q] # None => ~fan'[q].alone
  BY <1>3 DEF Clouded, SyncTypeOK, Fans
<1>5. ~FanBusy(s) => \A q \in Senders \ {s} : fan'[q] = None
  BY <1>4 DEF FanBusy
<1>6. OnWay(s)' /\ fan'[s].hosts = H /\ (fan'[s].alone <=> ~FanBusy(s))
  BY <1>1, <1>3 DEF OnWay
<1>7. Suits(H)' => Suits(fan[s].hosts)'
  BY <1>6 DEF Suits
<1>8. FansOK'
  BY <1>4, <1>5, <1>6, <1>7 DEF FansOK, OnWay, Senders
<1>9. NamesOK'
  BY <1>5, <1>6 DEF NamesOK, OnWay
<1> QED
  BY <1>8, <1>9

LEMMA NamesStep ==
  ASSUME Invariant, Invariant', SyncTypeOK, FansOK, NamesOK, SyncNext
  PROVE  FansOK' /\ NamesOK'
<1> DEFINE Goal == FansOK' /\ NamesOK'
<1>0. TypeOK /\ OwnersOK /\ Monitor \notin Requests /\ \A r \in Requests : r \in Senders
  BY SyncAssumption DEF Invariant, Senders
<1>a. ASSUME Pending' = Pending, UNCHANGED <<rows, settled, clash>>
      PROVE  \A H \in SUBSET Hosts : Suits(H) => Suits(H)'
  BY <1>a DEF Suits
<1>b. ASSUME UNCHANGED fan
      PROVE  \A s \in Senders :
               /\ OnWay(s)' <=> OnWay(s)
               /\ OnWay(s) => fan'[s].alone = fan[s].alone /\ fan'[s].hosts = fan[s].hosts
  BY <1>b DEF OnWay
<1>c. Registered(rows) \in SUBSET Hosts /\ Resolved(rows) \in SUBSET Hosts
      /\ Fitting(Registered(rows), rows) /\ Fitting(Resolved(rows), rows)
  BY DEF Registered, Resolved, Enabled, Fitting
<1>1. ASSUME NEW r \in Requests,
             (\E o \in Ops : Arrive(r, o)) \/ NotFound(r) \/ Refused(r) \/ Answer(r),
             UNCHANGED syncVars
      PROVE  Goal
  <2>1. Pending' = Pending /\ UNCHANGED <<rows, settled, clash>>
    BY <1>0, <1>1, OtherMoves
  <2>2. \A q \in Requests : pc'[q] \in {"idle", "queued", "push"} => fan'[q] = None
    <3>1. \A q \in Requests : pc'[q] \in {"idle", "queued", "push"} =>
                                pc[q] \in {"idle", "queued", "push"}
      BY <1>0, <1>1 DEF Arrive, NotFound, Refused, Answer, Done, ItsTurn, TypeOK
    <3> QED
      BY <1>1, <3>1 DEF FansOK, syncVars
  <2> QED
    BY <1>1, <1>a, <1>b, <2>1, <2>2, FansKept DEF syncVars
<1>2. ASSUME NEW r \in Requests, Send(r) PROVE Goal
  <2>0. Begin(r) /\ UNCHANGED <<names, fan>> /\ ("names" \notin drift' => "names" \notin drift)
    BY <1>2 DEF Send, Posted, Maps
  <2>1. \A H \in SUBSET Hosts : Suits(H) => Suits(H)'
    <3>1. /\ settled' = settled /\ (~clash' => ~clash)
          /\ Pending' = {} => Pending = {} /\ rows' = rows
      BY <1>0, <2>0, BeginMoves
    <3> QED
      BY <3>1 DEF Suits
  <2>2. \A q \in Requests : pc'[q] \in {"idle", "queued", "push"} => fan'[q] = None
    BY <1>0, <2>0 DEF Begin, ItsTurn, TypeOK, FansOK
  <2> QED
    BY <1>b, <2>0, <2>1, <2>2, FansKept
<1>3. ASSUME NEW r \in Requests, Acknowledged(r) PROVE Goal
  <2>0. /\ Synced(r) /\ UNCHANGED names /\ pc[r] = "push" /\ fan[r] = None
        /\ Pending' = Pending \ {r} /\ rows' = rows /\ clash' = clash
        /\ pc'[r] = "fan" /\ \A q \in Requests \ {r} : pc'[q] = pc[q]
    BY <1>0, <1>3, SyncedMoves DEF Acknowledged, FansOK
  <2>1. CASE op[r].kind # "sync" /\ FannedOut(r, Registered(rows))
    <3>1. ASSUME ~FanBusy(r) PROVE Suits(Registered(rows))'
      <4>1. Pending' = {}
        BY <1>0, <2>0, <3>1 DEF FanBusy, Pending
      <4>2. ~clash' => rows' = settled'
        BY <4>1, DecidedRows
      <4> QED
        BY <1>c, <2>0, <4>2 DEF Suits
    <3>2. Registered(rows)' = Registered(rows)
      BY <2>0
    <3> DEFINE H == Registered(rows)
    <3>3. H \in SUBSET Hosts /\ FannedOut(r, H) /\ (~FanBusy(r) => Suits(H)') /\ H' = H
      BY <1>c, <2>1, <3>1, <3>2
    <3>4. "names" \notin drift' => ~FanBusy(r)
      BY <1>3, <2>1 DEF Acknowledged
    <3>5. \A q \in Requests : pc'[q] \in {"idle", "queued", "push"} => q # r /\ fan[q] = None
      BY <2>0 DEF FansOK
    <3> HIDE DEF H
    <3>6. PICK G \in SUBSET Hosts : G = H
      BY <3>3
    <3>7. FannedOut(r, G) /\ (~FanBusy(r) => Suits(G)')
      BY <3>3, <3>6 DEF Suits
    <3> QED
      BY <1>0, <3>4, <3>5, <3>6, <3>7, FanSent
  <2>2. CASE /\ op[r].kind = "sync"
             /\ fan' = [fan EXCEPT ![r] = [hosts |-> {}, sent |-> FALSE, alone |-> FALSE]]
    <3>1. Pending' = Pending /\ UNCHANGED <<rows, settled, clash>>
      BY <1>0, <2>0, <2>2, SyncedMoves
    <3>2. \A s \in Senders :
            /\ OnWay(s)' <=> OnWay(s)
            /\ OnWay(s) => fan'[s].alone = fan[s].alone /\ fan'[s].hosts = fan[s].hosts
      BY <1>0, <2>0, <2>2 DEF OnWay, SyncTypeOK
    <3>3. \A q \in Requests : pc'[q] \in {"idle", "queued", "push"} => fan'[q] = None
      BY <1>0, <2>0, <2>2 DEF FansOK, SyncTypeOK
    <3>4. "names" \notin drift' => "names" \notin drift
      BY <1>3, <2>2 DEF Acknowledged, Maps
    <3> QED
      BY <1>a, <2>0, <3>1, <3>2, <3>3, <3>4, FansKept
  <2> QED
    BY <1>3, <2>1, <2>2 DEF Acknowledged
<1>4. ASSUME NEW r \in Requests, GiveUp(r) PROVE Goal
  <2>0. UNCHANGED names /\ ("names" \notin drift' => "names" \notin drift)
    BY <1>4 DEF GiveUp
  <2>1. CASE /\ SyncFailed(r)
             /\ fan' = [fan EXCEPT ![r] = [hosts |-> {}, sent |-> FALSE, alone |-> FALSE]]
    <3>1. /\ Pending' = Pending /\ UNCHANGED <<rows, settled, clash>>
          /\ pc'[r] = "fan" /\ \A q \in Requests \ {r} : pc'[q] = pc[q]
      BY <1>0, <2>1, SyncFailedMoves
    <3>2. fan[r] = None
      BY <2>1 DEF SyncFailed, FansOK
    <3>3. \A s \in Senders :
            /\ OnWay(s)' <=> OnWay(s)
            /\ OnWay(s) => fan'[s].alone = fan[s].alone /\ fan'[s].hosts = fan[s].hosts
      BY <1>0, <2>1, <3>2 DEF OnWay, SyncTypeOK
    <3>4. \A q \in Requests : pc'[q] \in {"idle", "queued", "push"} => fan'[q] = None
      BY <1>0, <2>1, <3>1 DEF FansOK, SyncTypeOK
    <3> QED
      BY <1>a, <2>0, <3>1, <3>3, <3>4, FansKept
  <2>2. CASE Failed(r) /\ fan' = IF Keeps(r) \/ clash THEN Clouded(fan) ELSE fan
    <3>1. /\ pc'[r] = "done" /\ \A q \in Requests \ {r} : pc'[q] = pc[q]
          /\ ~Keeps(r) => settled' = settled
          /\ clash' => clash \/ Pending' # {}
      BY <1>0, <2>2, FailedMoves
    <3>2. CASE Keeps(r) \/ clash
      <4>1. /\ fan' = Clouded(fan) /\ "names" \in drift'
        BY <1>4, <2>2, <3>2 DEF GiveUp
      <4>2. \A s \in Senders : /\ fan'[s] = None \/ ~fan'[s].alone
                               /\ fan[s] = None => fan'[s] = None
        BY <4>1 DEF Clouded, SyncTypeOK, Fans
      <4>3. \A q \in Requests : pc'[q] \in {"idle", "queued", "push"} => fan'[q] = None
        BY <1>0, <3>1, <4>2 DEF FansOK
      <4> QED
        BY <4>1, <4>2, <4>3 DEF FansOK, NamesOK, OnWay
    <3>3. CASE ~(Keeps(r) \/ clash)
      <4>1. UNCHANGED fan
        BY <2>2, <3>3
      <4>2. \A H \in SUBSET Hosts : Suits(H) => Suits(H)'
        <5>1. settled' = settled /\ (Pending' = {} => ~clash' /\ rows' = settled')
          BY <3>1, <3>3, DecidedRows
        <5> QED
          BY <3>3, <5>1 DEF Suits
      <4>3. \A q \in Requests : pc'[q] \in {"idle", "queued", "push"} => fan'[q] = None
        BY <3>1, <4>1 DEF FansOK
      <4> QED
        BY <1>b, <2>0, <4>1, <4>2, <4>3, FansKept
    <3> QED
      BY <3>2, <3>3
  <2> QED
    BY <1>4, <2>1, <2>2 DEF GiveUp
<1>5. ASSUME NEW s \in Senders, FannedOut(s, Resolved(rows)), UNCHANGED vars,
             s \notin Pending, s \in Requests => pc[s] = "fan",
             "names" \notin drift' => ~FanBusy(s)
      PROVE  Goal
  <2>1. Pending' = Pending /\ UNCHANGED <<rows, settled, clash, pc>>
    BY <1>5 DEF vars, Pending
  <2>2. \A q \in Requests : pc'[q] \in {"idle", "queued", "push"} => q # s /\ fan[q] = None
    BY <1>5, <2>1 DEF FansOK
  <2>3. PICK G \in SUBSET Hosts : G = Resolved(rows)
    BY <1>c
  <2>4. ASSUME ~FanBusy(s) PROVE Suits(G)'
    <3>1. Pending = {}
      BY <1>0, <1>5, <2>4 DEF FanBusy, Pending
    <3>2. ~clash => rows = settled
      BY <3>1, DecidedRows
    <3> QED
      BY <1>c, <2>1, <2>3, <3>2 DEF Suits
  <2> QED
    BY <1>5, <2>2, <2>3, <2>4, FanSent
<1>6. ASSUME NEW r \in Requests, Ask(r) PROVE Goal
  <2>1. /\ r \in Senders /\ FannedOut(r, Resolved(rows)) /\ UNCHANGED vars
        /\ r \notin Pending /\ pc[r] = "fan" /\ ("names" \notin drift' => ~FanBusy(r))
    BY <1>0, <1>6 DEF Ask, Pending
  <2> QED
    BY <1>5, <2>1
<1>7. ASSUME UNCHANGED <<vars, names, fan>>, "names" \notin drift' => "names" \notin drift
      PROVE  Goal
  <2>1. Pending' = Pending /\ UNCHANGED <<rows, settled, clash, pc, names, fan>>
    BY <1>7 DEF vars, Pending
  <2>2. \A q \in Requests : pc'[q] \in {"idle", "queued", "push"} => fan'[q] = None
    BY <2>1 DEF FansOK
  <2> QED
    BY <1>7, <1>a, <1>b, <2>1, <2>2, FansKept
<1>8. ASSUME NEW s \in Senders, ApplyRoutes(s) \/ ApplyPolicies(s) \/ Abandoned(s) PROVE Goal
  BY <1>7, <1>8 DEF ApplyRoutes, ApplyPolicies, Abandoned
<1>9. ASSUME NEW s \in Senders, Deliver(s) \/ Undelivered(s) PROVE Goal
  <2>0. /\ OnWay(s) /\ fan' = [fan EXCEPT ![s] = None] /\ Pending' = Pending
        /\ UNCHANGED <<rows, settled, clash, pc>>
    BY <1>9 DEF Deliver, Undelivered, OnWay, vars, Pending
  <2>1. \A q \in Senders : fan'[q] = IF q = s THEN None ELSE fan[q]
    BY <2>0 DEF SyncTypeOK
  <2>2. \A q \in Senders : OnWay(q)' => ~fan'[q].alone
    BY <2>0, <2>1 DEF FansOK, OnWay
  <2>3. FansOK'
    BY <2>0, <2>1, <2>2 DEF FansOK, Senders
  <2>4. NamesOK'
    <3> SUFFICES ASSUME "names" \notin drift'
                 PROVE  (\A q \in Senders : ~OnWay(q)') /\ Suits(names)'
      BY DEF NamesOK
    <3>1. Deliver(s) /\ fan[s].alone
      BY <1>9, <2>0 DEF Deliver, Undelivered, NamesOK
    <3>2. /\ Suits(fan[s].hosts) /\ names' = fan[s].hosts
          /\ \A q \in Senders \ {s} : ~OnWay(q)
      BY <2>0, <3>1 DEF Deliver, FansOK
    <3> QED
      BY <2>0, <2>1, <3>2 DEF Suits, OnWay
  <2> QED
    BY <2>3, <2>4
<1>10. ASSUME NEW seen \in BOOLEAN, Tick(seen) PROVE Goal
  <2>1. UNCHANGED <<vars, names>>
    BY <1>10 DEF Tick
  <2>2. CASE UNCHANGED <<post, fan, drift>>
    BY <1>7, <2>1, <2>2
  <2>3. CASE FannedOut(Monitor, Resolved(rows)) /\ ("names" \notin drift' => ~FanBusy(Monitor))
    <3>1. Monitor \in Senders /\ Monitor \notin Pending
      BY <1>0 DEF Senders, Pending
    <3> QED
      BY <1>0, <1>5, <2>1, <2>3, <3>1
  <2> QED
    BY <1>10, <2>2, <2>3 DEF Tick
<1>11. ASSUME MonitorAnswered \/ Restart \/ Serve \/ \E b \in BOOLEAN : Pull(b) PROVE Goal
  BY <1>7, <1>11 DEF MonitorAnswered, Restart, Serve, Pull, Maps
<1>12. CASE AdminCrash
  <2>0. /\ Crash /\ UNCHANGED names
        /\ fan' = [s \in Senders |-> IF fan[s] = None \/ ~fan[s].sent THEN None
                                     ELSE [fan[s] EXCEPT !.alone = @ /\ Pending = {}]]
    BY <1>12 DEF AdminCrash
  <2>1. \A s \in Senders :
           /\ fan[s] = None => fan'[s] = None
           /\ OnWay(s)' => OnWay(s) /\ (fan'[s].alone => fan[s].alone /\ Pending = {})
           /\ OnWay(s) /\ Pending = {} =>
                OnWay(s)' /\ fan'[s].alone = fan[s].alone /\ fan'[s].hosts = fan[s].hosts
    <3> TAKE s \in Senders
    <3>1. CASE OnWay(s)
      <4>1. fan[s] \in Fans /\ fan[s].alone \in BOOLEAN
        BY <3>1 DEF OnWay, SyncTypeOK, Fans
      <4> DEFINE b == fan[s].alone /\ Pending = {}
      <4>2. fan'[s] = [fan[s] EXCEPT !.alone = b]
        BY <2>0, <3>1 DEF OnWay
      <4>3. b \in BOOLEAN /\ (b <=> fan[s].alone /\ Pending = {})
        OBVIOUS
      <4> HIDE DEF b
      <4>4. /\ fan'[s] \in Fans /\ fan'[s].hosts = fan[s].hosts
            /\ fan'[s].sent = fan[s].sent /\ fan'[s].alone = b
        BY <4>1, <4>2, <4>3 DEF Fans
      <4>5. fan'[s] # None
        BY <4>4, SentAssumption
      <4>6. OnWay(s)'
        BY <3>1, <4>4, <4>5 DEF OnWay
      <4>7. Pending = {} => fan'[s].alone = fan[s].alone
        BY <4>1, <4>3, <4>4
      <4>8. fan[s] # None
        BY <3>1 DEF OnWay
      <4>9. fan'[s].alone => fan[s].alone /\ Pending = {}
        BY <4>3, <4>4
      <4> QED
        BY <3>1, <4>4, <4>6, <4>7, <4>8, <4>9
    <3>2. CASE ~OnWay(s)
      BY <2>0, <3>2 DEF OnWay
    <3> QED
      BY <3>1, <3>2
  <2>2. \A q \in Requests : pc'[q] \in {"idle", "queued", "push"} => fan'[q] = None
    BY <1>0, <2>0, <2>1 DEF Crash, Active, TypeOK, FansOK
  <2>3. CASE Pending = {}
    <3>1. Pending' = Pending /\ UNCHANGED <<rows, settled, clash>>
      BY <1>0, <2>0, <2>3, CrashMoves
    <3>2. "names" \notin drift' => "names" \notin drift
      BY <1>12 DEF AdminCrash
    <3> QED
      BY <1>a, <2>0, <2>1, <2>2, <2>3, <3>1, <3>2, FansKept
  <2>4. CASE Pending # {}
    <3>1. "names" \in drift'
      BY <1>12, <2>4 DEF AdminCrash
    <3> QED
      BY <2>1, <2>2, <2>4, <3>1 DEF FansOK, NamesOK
  <2> QED
    BY <2>3, <2>4
<1> QED
  BY <1>1, <1>2, <1>3, <1>4, <1>6, <1>8, <1>9, <1>10, <1>11, <1>12
  DEF SyncNext, Told

-----------------------------------------------------------------------------
(* Theorems about the proxy and DNS *)

SyncInvariant ==
  Invariant /\ SyncTypeOK /\ AloneOK /\ DownOK /\ MapsOK /\ FansOK /\ NamesOK

LEMMA SyncInvariantInitially ==
  ASSUME SyncInit
  PROVE  SyncInvariant
<1>1. Invariant
  BY InvariantInitially DEF SyncInit
<1>2. rows \in [Hosts -> Rows \cup {None}] /\ Pending = {} /\ settled = rows
  BY <1>1 DEF SyncInit, Init, Invariant, TypeOK, Pending
<1>3. SyncTypeOK
  BY <1>2, ListType, SyncAssumption DEF SyncInit, SyncTypeOK
<1>4. AloneOK /\ DownOK
  BY DEF SyncInit, AloneOK, DownOK
<1>5. MapsOK
  BY <1>2 DEF SyncInit, MapsOK, MapOK, Held, Half
<1>6. FansOK /\ NamesOK
  BY <1>2 DEF SyncInit, FansOK, NamesOK, OnWay, Senders, Suits, Fitting, Resolved, Registered,
              Enabled
<1> QED
  BY <1>1, <1>3, <1>4, <1>5, <1>6 DEF SyncInvariant

LEMMA SyncInvariantStep ==
  ASSUME SyncInvariant, [SyncNext]_<<vars, syncVars>>
  PROVE  SyncInvariant'
<1>1. Invariant'
  BY StepImplements, InvariantStep DEF SyncInvariant
<1>2. CASE SyncNext
  <2>1. SyncTypeOK'
    BY <1>1, <1>2, SyncTypeStep DEF SyncInvariant, Invariant
  <2>2. AloneOK' /\ DownOK'
    BY <1>2, AloneStep, DownStep DEF SyncInvariant
  <2>3. MapsOK'
    <3>1. \A m \in Maps : m \notin drift' => MapOK(m)'
      BY <1>1, <1>2, MapStep DEF SyncInvariant
    <3> QED
      BY <3>1 DEF MapsOK, Maps
  <2>4. FansOK' /\ NamesOK'
    BY <1>1, <1>2, NamesStep DEF SyncInvariant
  <2> QED
    BY <1>1, <2>1, <2>2, <2>3, <2>4 DEF SyncInvariant
<1>3. CASE UNCHANGED <<vars, syncVars>>
  <2> USE <1>3 DEF SyncInvariant, vars, syncVars, proxyVars
  <2>0. Pending' = Pending
    BY DEF Pending
  <2>1. SyncTypeOK' /\ DownOK'
    BY DEF SyncTypeOK, DownOK
  <2>2. AloneOK'
    BY <2>0 DEF AloneOK, Awaits
  <2>3. MapsOK'
    BY <2>0 DEF MapsOK, MapOK, Held, Half
  <2>4. FansOK' /\ NamesOK'
    BY <2>0 DEF FansOK, NamesOK, OnWay, Suits
  <2> QED
    BY <1>1, <2>1, <2>2, <2>3, <2>4
<1> QED
  BY <1>2, <1>3

\* What a push carries, what the maps hold and what DNS is told, in every state: the invariant
\* that the two results below are read off.
THEOREM SyncInvariantHolds == SyncSpec => []SyncInvariant
  BY SyncInvariantInitially, SyncInvariantStep, PTL DEF SyncSpec

\* The proxy routes by the rows and applies their policies whenever it is quiet and the last
\* push that ran alone was followed by none that overlapped, was half done or was lost, for any
\* number of hosts, requests and restarts (syncToProxy, update_domains_handler).
THEOREM ProxyConverges == SyncSpec => []Converged
<1>1. SyncInvariant => Converged
  BY DEF SyncInvariant, MapsOK, MapOK, Maps, Held, Converged, Quiet
<1> QED
  BY SyncInvariantHolds, <1>1, PTL

\* DNS answers for every enabled host and for no unknown one under the same terms (fanOutGrpc).
THEOREM NamesResolve == SyncSpec => []Resolvable
<1>1. SyncInvariant => Resolvable
  BY DEF SyncInvariant, NamesOK, OnWay, Suits, Fitting, Resolvable
<1> QED
  BY SyncInvariantHolds, <1>1, PTL

\* So the rollbacks of the handlers are exact beside pushes that overtake one another, half-done
\* pushes, and restarts of the proxy (domains.ts, domain-repo.ts).
THEOREM RollbacksStayExact == SyncSpec => [](FirstComeFirstServed /\ RowsAsDecidedAlone)
  BY RowsImplemented, LocksAreFair, RollbacksAreExact, PTL

=============================================================================
