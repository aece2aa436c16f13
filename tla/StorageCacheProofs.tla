------------------------- MODULE StorageCacheProofs -------------------------
(***************************************************************************)
(* The byte accounting of CacheLayer, for every set of keys, sizes and     *)
(* callers, with crashes, dropped calls and failing writes: the counter is *)
(* exact, the capacity is never exceeded, and the cache implements         *)
(* BoundedStore.  Then its files, as it is deployed: a hit is the files of *)
(* one put, nothing is left behind, and healing drops no good entry.       *)
(***************************************************************************)
EXTENDS StorageCache, SumsProofs

-----------------------------------------------------------------------------
(* Type correctness *)

LEMMA ConstantTypes ==
  /\ NoEntry \in Entry /\ NoFile \in File /\ NoReq \in Request /\ NoReply \in Reply
  /\ \A S \in SUBSET Keys : FilesOf(S) \in SUBSET Files
<1>1. (CHOOSE k \in Keys : TRUE) \in Keys
  BY StorageAssumption
<1> QED
  BY <1>1 DEF NoEntry, NoFile, NoReq, NoReply, Entry, File, Request, Reply, FilesOf

\* The bytes of any set of entries are a natural number.
LEMMA SizesSum ==
  ASSUME TypeOK, NEW S \in SUBSET Keys
  PROVE  /\ SizeOf \in [Keys -> Nat]
         /\ SumOf(SizeOf, S) \in Nat
<1>1. SizeOf \in [Keys -> Nat]
  BY DEF TypeOK, SizeOf, Entry
<1>2. IsFiniteSet(S)
  BY StorageAssumption, FS_Subset
<1> QED
  BY <1>1, <1>2, SumType

LEMMA DropType ==
  ASSUME TypeOK, NEW S \in SUBSET Keys, Drop(S)
  PROVE  index' \in [Keys -> Entry] /\ current_size' \in Int
<1>1. index' \in [Keys -> Entry]
  BY ConstantTypes DEF TypeOK, Drop
<1>2. SumOf(SizeOf, S) \in Nat
  BY SizesSum
<1> QED
  BY <1>1, <1>2 DEF TypeOK, Drop

LEMMA GotoType ==
  ASSUME TypeOK, NEW t \in Tasks, NEW s \in States, Goto(t, s)
  PROVE  pc' \in [Tasks -> States]
BY DEF TypeOK, Goto

LEMMA FinishType ==
  ASSUME TypeOK, NEW t \in Tasks, NEW r \in Reply, Finish(t, r)
  PROVE  /\ pc' \in [Tasks -> States]
         /\ req' \in [Tasks -> Request]
         /\ reply' \in [Tasks -> Reply]
BY ConstantTypes DEF TypeOK, Finish, Goto, States

LEMMA WrittenType ==
  ASSUME TypeOK, NEW f \in Files, NEW r \in Request, NEW n \in Nat
  PROVE  Written(f, r, n) \in [Files -> File]
<1>1. [ver |-> r.ver, size |-> n, whole |-> TRUE] \in File
  BY DEF Request, File
<1> QED
  BY <1>1 DEF TypeOK, Written

LEMMA TypeStep ==
  ASSUME TypeOK, Next
  PROVE  TypeOK'
<1> USE ConstantTypes
<1>1. ASSUME NEW t \in Clients, NEW k \in Keys, GetMiss(t, k) PROVE TypeOK'
  BY <1>1, FinishType DEF GetMiss, TypeOK, Tasks, Callers
<1>2. ASSUME NEW t \in Clients, NEW k \in Keys, NEW stale \in BOOLEAN,
             GetExpired(t, k, stale)
      PROVE TypeOK'
  <2>1. {k} \in SUBSET Keys /\ t \in Tasks
    BY DEF Tasks, Callers
  <2>2. index' \in [Keys -> Entry] /\ current_size' \in Int
    BY <1>2, <2>1, DropType DEF GetExpired
  <2>3. pc' \in [Tasks -> States]
    BY <1>2, <2>1, GotoType DEF GetExpired, States
  <2> QED
    BY <1>2, <2>1, <2>2, <2>3 DEF GetExpired, TypeOK
<1>3. ASSUME NEW t \in Clients, NEW k \in Keys, NEW stale \in BOOLEAN,
             GetFound(t, k, stale)
      PROVE TypeOK'
  <2>1. t \in Tasks
    BY DEF Tasks, Callers
  <2>2. index' \in [Keys -> Entry]
    BY <1>3 DEF GetFound, TypeOK, Entry
  <2>3. req' \in [Tasks -> Request]
    <3>1. [NoReq EXCEPT !.key = k, !.ver = index[k].ver, !.br = index[k].has_br]
            \in Request
      BY DEF TypeOK, Entry, Request
    <3> QED
      BY <1>3, <2>1, <3>1 DEF GetFound, TypeOK
  <2>4. pc' \in [Tasks -> States]
    BY <1>3, <2>1, GotoType DEF GetFound, States
  <2> QED
    BY <1>3, <2>1, <2>2, <2>3, <2>4 DEF GetFound, TypeOK
<1>4. ASSUME NEW t \in Clients, NEW k \in Keys, NEW n \in Sizes, NEW ttl \in Ttls,
             NEW br \in BOOLEAN, PutStart(t, k, n, ttl, br)
      PROVE TypeOK'
  <2>1. t \in Tasks /\ n \in Nat /\ ttl \in Nat
    BY StorageAssumption DEF Tasks, Callers
  <2>2. puts' \in Nat /\ reply' \in [Tasks -> Reply]
    BY <1>4, <2>1 DEF PutStart, TypeOK
  <2>3. CASE n > MaxSize
    BY <1>4, <2>1, <2>2, <2>3, StorageAssumption DEF PutStart, TypeOK
  <2>4. CASE ~(n > MaxSize)
    <3>1. [NoReq EXCEPT !.key = k, !.ver = puts + 1, !.size = n,
                        !.ttl = ttl, !.br = br] \in Request
      <4>1. PICK q \in Request : q = NoReq
        OBVIOUS
      <4> puts + 1 \in Nat
        BY DEF TypeOK
      <4>2. [q EXCEPT !.key = k, !.ver = puts + 1] \in Request
        BY DEF Request
      <4>3. PICK q2 \in Request : q2 = [q EXCEPT !.key = k, !.ver = puts + 1]
        BY <4>2
      <4>4. [q2 EXCEPT !.size = n, !.ttl = ttl, !.br = br] \in Request
        BY <2>1, <4>3 DEF Request
      <4> QED
        BY <4>1, <4>3, <4>4
    <3>2. req' \in [Tasks -> Request]
      BY <1>4, <2>1, <2>4, <3>1 DEF PutStart, TypeOK
    <3>3. needed' \in [Tasks -> Nat]
      BY <1>4, <2>1, <2>4, StorageAssumption DEF PutStart, TypeOK
    <3>4. pc' \in [Tasks -> States]
      BY <1>4, <2>1, <2>4 DEF PutStart, TypeOK, Goto, States, PutStates
    <3> QED
      BY <1>4, <2>2, <3>2, <3>3, <3>4 DEF PutStart, TypeOK
  <2> QED
    BY <2>3, <2>4
<1>5. ASSUME NEW t \in Callers, NEW S \in PurgeTargets, Purge(t, S) PROVE TypeOK'
  <2>1. S \cap Indexed \in SUBSET Keys /\ t \in Tasks
    BY DEF Indexed, Tasks
  <2>2. index' \in [Keys -> Entry] /\ current_size' \in Int
    BY <1>5, <2>1, DropType DEF Purge
  <2>3. pc' \in [Tasks -> States]
    BY <1>5, <2>1, GotoType DEF Purge, States
  <2> QED
    BY <1>5, <2>1, <2>2, <2>3 DEF Purge, TypeOK
<1>6. ASSUME NEW t \in Callers, PurgeAll(t) PROVE TypeOK'
  <2>1. Indexed \in SUBSET Keys /\ t \in Tasks
    BY DEF Indexed, Tasks
  <2>2. pc' \in [Tasks -> States]
    BY <1>6, <2>1, GotoType DEF PurgeAll, States
  <2>3. index' \in [Keys -> Entry] /\ current_size' \in Int
    BY <1>6 DEF PurgeAll
  <2>4. paths' \in [Tasks -> SUBSET Files]
    <3>1. FilesOf(Indexed) \in SUBSET Files
      BY <2>1
    <3> QED
      BY <1>6, <3>1 DEF PurgeAll, TypeOK
  <2>5. reply' \in [Tasks -> Reply]
    BY <1>6 DEF PurgeAll, TypeOK
  <2> QED
    BY <1>6, <2>2, <2>3, <2>4, <2>5 DEF PurgeAll, TypeOK
<1>7. ASSUME NEW t \in Callers, Cancel(t) PROVE TypeOK'
  BY <1>7, FinishType DEF Cancel, TypeOK, Tasks
<1>8. ASSUME NEW t \in Tasks, GetRead(t) PROVE TypeOK'
  <2> DEFINE r == req[t]
             body == disk[Body(r.key)]
  <2>1. r \in Request /\ body \in File
    BY DEF TypeOK, Request, Files, Body
  <2>2. [hit |-> TRUE, ver |-> r.ver, body |-> body, br |-> NoFile] \in Reply
    BY <2>1 DEF Reply, Request
  <2>3. [r EXCEPT !.body = body] \in Request
    BY <2>1 DEF Request
  <2>4. CASE body = NoFile /\ Goto(t, "heal") /\ UNCHANGED <<req, reply>>
    BY <1>8, <2>4 DEF GetRead, TypeOK, Goto, States
  <2>5. CASE /\ Goto(t, "read_br") /\ UNCHANGED reply
             /\ req' = [req EXCEPT ![t].body = body]
    BY <1>8, <2>3, <2>5 DEF GetRead, TypeOK, Goto, States
  <2>6. CASE Finish(t, [hit |-> TRUE, ver |-> r.ver, body |-> body, br |-> NoFile])
    <3> HIDE DEF r, body
    <3> QED
      BY <1>8, <2>2, <2>6, FinishType DEF GetRead, TypeOK
  <2> QED
    BY <1>8, <2>4, <2>5, <2>6 DEF GetRead
<1>9. ASSUME NEW t \in Tasks, GetReadBr(t) PROVE TypeOK'
  <2> DEFINE r == req[t]
             a == [hit |-> TRUE, ver |-> r.ver, body |-> r.body, br |-> disk[Br(r.key)]]
  <2>1. a \in Reply
    BY DEF TypeOK, Request, Reply, Files, Br
  <2>2. Finish(t, a)
    BY <1>9 DEF GetReadBr
  <2> HIDE DEF r, a
  <2> QED
    BY <1>9, <2>1, <2>2, FinishType DEF GetReadBr, TypeOK
<1>10. ASSUME NEW t \in Tasks, GetHeal(t) PROVE TypeOK'
  <2>1. {req[t].key} \in SUBSET Keys
    BY DEF TypeOK, Request
  <2>2. index' \in [Keys -> Entry] /\ current_size' \in Int
    BY <1>10, <2>1, DropType DEF GetHeal
  <2> QED
    BY <1>10, <2>2, FinishType DEF GetHeal, TypeOK
<1>11. ASSUME NEW t \in Tasks, PutOpen(t) PROVE TypeOK'
  BY <1>11 DEF PutOpen, TypeOK, Goto, States, PutStates, Files, Body, Request, File
<1>12. ASSUME NEW t \in Tasks, PutWrite(t) PROVE TypeOK'
  <2>1. disk' \in [Files -> File]
    <3>1. req[t] \in Request /\ req[t].size \in Nat /\ Body(req[t].key) \in Files
      BY DEF TypeOK, Request, Body, Files
    <3> QED
      BY <1>12, <3>1, WrittenType DEF PutWrite
  <2>2. [req[t] EXCEPT !.at = now] \in Request
    BY DEF TypeOK, Request
  <2>3. req' \in [Tasks -> Request]
    BY <1>12, <2>2 DEF PutWrite, TypeOK
  <2>4. pc' \in [Tasks -> States]
    BY <1>12 DEF PutWrite, TypeOK, Goto, States, PutStates
  <2> QED
    BY <1>12, <2>1, <2>3, <2>4 DEF PutWrite, TypeOK
<1>13. ASSUME NEW t \in Tasks, PutWriteFails(t) PROVE TypeOK'
  BY <1>13, FinishType DEF PutWriteFails, TypeOK
<1>14. ASSUME NEW t \in Tasks, PutOpenBr(t) PROVE TypeOK'
  BY <1>14 DEF PutOpenBr, TypeOK, Goto, States, PutStates, Files, Br, Request, File
<1>15. ASSUME NEW t \in Tasks, PutWriteBr(t) PROVE TypeOK'
  <2>1. disk' \in [Files -> File]
    <3>1. req[t] \in Request /\ Br(req[t].key) \in Files
      BY DEF TypeOK, Request, Br, Files
    <3>2. Written(Br(req[t].key), req[t], 0) \in [Files -> File]
      BY <3>1, WrittenType
    <3> QED
      BY <1>15, <3>2 DEF PutWriteBr, TypeOK
  <2>2. /\ [req[t] EXCEPT !.at = now] \in Request
        /\ [req[t] EXCEPT !.br = FALSE, !.at = now] \in Request
    BY DEF TypeOK, Request
  <2>3. req' \in [Tasks -> Request]
    BY <1>15, <2>2 DEF PutWriteBr, TypeOK
  <2>4. pc' \in [Tasks -> States]
    BY <1>15 DEF PutWriteBr, TypeOK, Goto, States, PutStates
  <2> QED
    BY <1>15, <2>1, <2>3, <2>4 DEF PutWriteBr, TypeOK
<1>16. ASSUME NEW t \in Tasks, PutRegister(t) PROVE TypeOK'
  <2> DEFINE r == req[t]
             e == [ver |-> r.ver, size |-> r.size,
                   expires |-> IF r.ttl > 0 THEN r.at + r.ttl ELSE 0,
                   accessed |-> r.at, has_br |-> r.br]
  <2>1. r \in Request /\ r.key \in Keys /\ e \in Entry
    BY DEF TypeOK, Request, Entry
  <2>2. CASE Register(r.key, e) /\ Finish(t, NoReply)
    <3>1. index' \in [Keys -> Entry] /\ current_size' \in Int
      BY <2>1, <2>2 DEF Register, TypeOK, Entry
    <3> QED
      BY <1>16, <2>2, <3>1, FinishType DEF PutRegister, TypeOK
  <2>3. CASE Goto(t, "rollback") /\ UNCHANGED <<index, current_size, req, reply>>
    BY <1>16, <2>3 DEF PutRegister, TypeOK, Goto, States, PutStates
  <2> QED
    BY <1>16, <2>2, <2>3 DEF PutRegister
<1>17. ASSUME NEW t \in Tasks, PutRollback(t) PROVE TypeOK'
  <2>1. disk' \in [Files -> File]
    BY <1>17 DEF PutRollback, TypeOK
  <2> QED
    BY <1>17, <2>1, FinishType DEF PutRollback, TypeOK
<1>18. ASSUME NEW t \in Tasks, EvictLru(t) PROVE TypeOK'
  <2>1. PICK S \in Evicted(needed[t]) :
          Drop(S) /\ paths' = [paths EXCEPT ![t] = FilesOf(S)]
    BY <1>18 DEF EvictLru
  <2>2. S \in SUBSET Keys
    BY DEF Evicted, Indexed
  <2>3. index' \in [Keys -> Entry] /\ current_size' \in Int
    BY <2>1, <2>2, DropType
  <2>4. pc' \in [Tasks -> States]
    BY <1>18 DEF EvictLru, TypeOK, Goto, States, PutStates
  <2> QED
    BY <1>18, <2>1, <2>2, <2>3, <2>4 DEF EvictLru, TypeOK
<1>19. ASSUME NEW t \in Tasks, Unlink(t) PROVE TypeOK'
  BY <1>19 DEF Unlink, TypeOK
<1>20. ASSUME NEW t \in Tasks, UnlinkDone(t) PROVE TypeOK'
  BY <1>20 DEF UnlinkDone, TypeOK, Goto, States, PutStates
<1>21. CASE EvictTick
  <2>1. needed' \in [Tasks -> Nat]
    BY <1>21, StorageAssumption DEF EvictTick, TypeOK, Tasks
  <2>2. pc' \in [Tasks -> States]
    BY <1>21 DEF EvictTick, TypeOK, Goto, States
  <2> QED
    BY <1>21, <2>1, <2>2 DEF EvictTick, TypeOK
<1>22. CASE Tick
  BY <1>22 DEF Tick, TypeOK
<1>23. CASE Crash
  BY <1>23 DEF Crash, TypeOK, States
<1> QED
  BY <1>1, <1>2, <1>3, <1>4, <1>5, <1>6, <1>7, <1>8, <1>9, <1>10, <1>11, <1>12,
     <1>13, <1>14, <1>15, <1>16, <1>17, <1>18, <1>19, <1>20, <1>21, <1>22, <1>23
     DEF Next, Continue

\* Every variable of the cache keeps its type: in particular no task ever
\* computes a negative shortfall and hands it to evict_lru, whose argument is
\* unsigned, although the shortfall is a difference of two unlocked reads.
THEOREM TypeCorrect == Spec => []TypeOK
<1>1. Init => TypeOK
  <2> SUFFICES ASSUME Init PROVE TypeOK
    OBVIOUS
  <2> QED
    BY ConstantTypes DEF Init, TypeOK, States
<1>2. TypeOK /\ [Next]_vars => TypeOK'
  <2>1. CASE UNCHANGED vars
    BY <2>1 DEF vars, TypeOK
  <2> QED
    BY <2>1, TypeStep
<1> QED
  BY <1>1, <1>2, PTL DEF Spec

-----------------------------------------------------------------------------
(* Accounting *)

\* The inductive invariant.  WithinCapacity follows from the re-check in put only
\* because current_size is exact, and SizeExact needs the types.
Accounting == TypeOK /\ SizeExact /\ WithinCapacity

\* BoundedStore adds bytes up as StorageCache does.
LEMMA SameBytes ==
  ASSUME NEW size, NEW S
  PROVE  Store!SumOf(size, S) = SumOf(size, S)
BY DEF Store!SumOf, SumOf, Store!SumFunctionOnSet, SumFunctionOnSet, Store!FoldFunctionOnSet,
       FoldFunctionOnSet, Store!MapThenFoldSet, MapThenFoldSet

\* An action that leaves the sizes and the counter alone.
LEMMA StutterAccounting ==
  ASSUME Accounting, SizeOf' = SizeOf, UNCHANGED current_size
  PROVE  SizeExact' /\ WithinCapacity' /\ UNCHANGED Store!storeVars
BY DEF Accounting, SizeExact, WithinCapacity, Store!storeVars

\* Dropping entries of S in one critical section.
LEMMA DropAccounting ==
  ASSUME Accounting, NEW S \in SUBSET Keys, Drop(S)
  PROVE  SizeExact' /\ WithinCapacity' /\ Store!Forget(S)
<1>1. SizeOf \in [Keys -> Nat]
  BY SizesSum DEF Accounting
<1>2. SizeOf' = [k \in Keys |-> IF k \in S THEN 0 ELSE SizeOf[k]]
  BY DEF Drop, SizeOf, NoEntry
<1>3. /\ SumOf(SizeOf', Keys) = SumOf(SizeOf, Keys) - SumOf(SizeOf, S)
      /\ SumOf(SizeOf', Keys) \in Nat
      /\ SumOf(SizeOf, S) \in Nat
      /\ SumOf(SizeOf, Keys) \in Nat
  <2> DEFINE a == SizeOf
             b == SizeOf'
  <2>1. /\ \A j \in Keys : a[j] \in Nat
        /\ \A j \in Keys : b[j] = IF j \in S THEN 0 ELSE a[j]
    BY <1>1, <1>2
  <2> HIDE DEF a, b
  <2>2. IsFiniteSet(Keys)
    BY StorageAssumption
  <2>3. /\ SumOf(b, Keys) = SumOf(a, Keys) - SumOf(a, S)
        /\ SumOf(b, Keys) \in Nat /\ SumOf(a, S) \in Nat /\ SumOf(a, Keys) \in Nat
    BY <2>1, <2>2, SumRemove
  <2> QED
    BY <2>3 DEF a, b
<1>4. current_size' = SumOf(SizeOf', Keys)
  BY <1>3 DEF Drop, Accounting, SizeExact
<1>5. SizeExact' /\ WithinCapacity'
  BY <1>3, <1>4, StorageAssumption DEF Accounting, SizeExact, WithinCapacity
<1>6. Store!Forget(S)
  <2>1. current_size' = Store!SumOf(SizeOf', Keys)
    BY <1>4, SameBytes
  <2> QED
    BY <1>2, <2>1 DEF Store!Forget
<1> QED
  BY <1>5, <1>6

\* Clearing the index and storing 0 in the counter.
LEMMA ClearAccounting ==
  ASSUME Accounting, index' = [k \in Keys |-> NoEntry], current_size' = 0
  PROVE  SizeExact' /\ WithinCapacity' /\ Store!Forget(Keys)
<1>1. SizeOf' = [k \in Keys |-> 0]
  BY DEF SizeOf, NoEntry
<1>2. SumOf(SizeOf', Keys) = 0
  <2> DEFINE b == SizeOf'
  <2>1. \A k \in Keys : b[k] = 0
    BY <1>1
  <2> HIDE DEF b
  <2>2. SumOf(b, Keys) = 0
    BY <2>1, StorageAssumption, SumZero
  <2> QED
    BY <2>2 DEF b
<1>3. SizeExact' /\ WithinCapacity'
  BY <1>2, StorageAssumption DEF SizeExact, WithinCapacity
<1>4. Store!Forget(Keys)
  <2>1. current_size' = Store!SumOf(SizeOf', Keys)
    BY <1>2, SameBytes
  <2> QED
    BY <1>1, <2>1 DEF Store!Forget
<1> QED
  BY <1>3, <1>4

\* Registering an entry that passed the re-check under the lock.
LEMMA RegisterAccounting ==
  ASSUME Accounting, NEW k \in Keys, NEW e \in Entry, Fits(k, e.size), Register(k, e)
  PROVE  SizeExact' /\ WithinCapacity' /\ e.size \in 0 .. MaxSize
         /\ Store!Store(k, e.size)
<1>1. SizeOf \in [Keys -> Nat] /\ e.size \in Nat /\ current_size \in Int
  BY SizesSum DEF Accounting, TypeOK, Entry
<1>2. SizeOf' = [SizeOf EXCEPT ![k] = e.size]
  BY DEF Register, SizeOf, Accounting, TypeOK
<1>3. /\ SumOf(SizeOf', Keys) = SumOf(SizeOf, Keys) - SizeOf[k] + e.size
      /\ SumOf(SizeOf', Keys) >= e.size
      /\ SumOf(SizeOf', Keys) \in Nat
      /\ SumOf(SizeOf, Keys) \in Nat
  <2> DEFINE a == SizeOf
             b == SizeOf'
  <2>1. /\ \A j \in Keys : a[j] \in Nat /\ b[j] \in Nat
        /\ \A j \in Keys \ {k} : a[j] = b[j]
        /\ b[k] = e.size
    BY <1>1, <1>2
  <2> HIDE DEF a, b
  <2>2. IsFiniteSet(Keys)
    BY StorageAssumption
  <2>3. SumOf(b, Keys) = SumOf(a, Keys) - a[k] + b[k]
    BY <2>1, <2>2, SumUpdate
  <2>4. SumOf(b, Keys) >= b[k]
    BY <2>1, <2>2, SumUpdate
  <2>5. SumOf(b, Keys) \in Nat /\ SumOf(a, Keys) \in Nat
    BY <2>1, <2>2, SumType
  <2> QED
    BY <2>1, <2>3, <2>4, <2>5 DEF a, b
<1>4. current_size' = SumOf(SizeOf', Keys)
  BY <1>1, <1>3 DEF Register, Accounting, SizeExact, SizeOf
<1>5. SumOf(SizeOf', Keys) <= MaxSize
  <2>1. SizeOf[k] = index[k].size /\ SizeOf[k] \in Nat
    BY <1>1 DEF SizeOf
  <2>2. current_size = SumOf(SizeOf, Keys) /\ current_size <= MaxSize
    BY DEF Accounting, SizeExact, WithinCapacity
  <2>3. CASE e.size > SizeOf[k]
    BY <1>1, <1>3, <2>1, <2>2, <2>3, StorageAssumption DEF Fits, NetIncrease
  <2>4. CASE ~(e.size > SizeOf[k])
    BY <1>1, <1>3, <2>1, <2>2, <2>4, StorageAssumption
  <2> QED
    BY <2>3, <2>4
<1>6. SizeExact' /\ WithinCapacity'
  BY <1>3, <1>4, <1>5 DEF SizeExact, WithinCapacity
<1>7. e.size \in 0 .. MaxSize
  BY <1>1, <1>3, <1>5, StorageAssumption
<1>8. Store!Store(k, e.size)
  <2>1. current_size' = Store!SumOf(SizeOf', Keys) /\ Store!SumOf(SizeOf', Keys) <= MaxSize
    BY <1>4, <1>5, SameBytes
  <2> QED
    BY <1>2, <2>1 DEF Store!Store
<1> QED
  BY <1>6, <1>7, <1>8

\* Every step of the cache keeps the accounting and is a step of BoundedStore.
LEMMA AccountingStep ==
  ASSUME Accounting, Next
  PROVE  SizeExact' /\ WithinCapacity' /\ [Store!StoreNext]_(Store!storeVars)
<1> DEFINE Goal == SizeExact' /\ WithinCapacity' /\ [Store!StoreNext]_(Store!storeVars)
<1>u. ASSUME UNCHANGED <<index, current_size>> PROVE Goal
  BY <1>u, StutterAccounting DEF SizeOf
<1>f. ASSUME NEW S \in SUBSET Keys, Drop(S) PROVE Goal
  BY <1>f, DropAccounting DEF Store!StoreNext
<1>z. ASSUME index' = [k \in Keys |-> NoEntry], current_size' = 0 PROVE Goal
  <2>1. Keys \in SUBSET Keys
    OBVIOUS
  <2> QED
    BY <1>z, <2>1, ClearAccounting DEF Store!StoreNext
<1> HIDE DEF Goal
<1>1. ASSUME NEW t \in Clients, NEW k \in Keys, GetMiss(t, k) PROVE Goal
  BY <1>1, <1>u DEF GetMiss
<1>2. ASSUME NEW t \in Clients, NEW k \in Keys, NEW stale \in BOOLEAN,
             GetExpired(t, k, stale)
      PROVE Goal
  BY <1>2, <1>f DEF GetExpired
<1>3. ASSUME NEW t \in Clients, NEW k \in Keys, NEW stale \in BOOLEAN,
             GetFound(t, k, stale)
      PROVE Goal
  <2>1. SizeOf' = SizeOf /\ UNCHANGED current_size
    BY <1>3 DEF GetFound, SizeOf, Accounting, TypeOK, Entry
  <2> QED
    BY <2>1, StutterAccounting DEF Goal
<1>4. ASSUME NEW t \in Clients, NEW k \in Keys, NEW n \in Sizes, NEW ttl \in Ttls,
             NEW br \in BOOLEAN, PutStart(t, k, n, ttl, br)
      PROVE Goal
  BY <1>4, <1>u DEF PutStart
<1>5. ASSUME NEW t \in Callers, NEW S \in PurgeTargets, Purge(t, S) PROVE Goal
  <2>1. S \cap Indexed \in SUBSET Keys
    BY DEF Indexed
  <2> QED
    BY <1>5, <2>1, <1>f DEF Purge
<1>6. ASSUME NEW t \in Callers, PurgeAll(t) PROVE Goal
  BY <1>6, <1>z DEF PurgeAll
<1>7. ASSUME NEW t \in Callers, Cancel(t) PROVE Goal
  BY <1>7, <1>u DEF Cancel
<1>8. ASSUME NEW t \in Tasks, GetRead(t) \/ GetReadBr(t) PROVE Goal
  BY <1>8, <1>u DEF GetRead, GetReadBr
<1>9. ASSUME NEW t \in Tasks, GetHeal(t) PROVE Goal
  <2>1. {req[t].key} \in SUBSET Keys
    BY DEF Accounting, TypeOK, Request
  <2> QED
    BY <1>9, <2>1, <1>f DEF GetHeal
<1>10. ASSUME NEW t \in Tasks,
              PutOpen(t) \/ PutWrite(t) \/ PutWriteFails(t) \/ PutOpenBr(t)
                \/ PutWriteBr(t) \/ PutRollback(t)
       PROVE Goal
  BY <1>10, <1>u
     DEF PutOpen, PutWrite, PutWriteFails, PutOpenBr, PutWriteBr, PutRollback
<1>11. ASSUME NEW t \in Tasks, PutRegister(t) PROVE Goal
  <2> DEFINE r == req[t]
             e == [ver |-> r.ver, size |-> r.size,
                   expires |-> IF r.ttl > 0 THEN r.at + r.ttl ELSE 0,
                   accessed |-> r.at, has_br |-> r.br]
  <2>1. r.key \in Keys /\ e \in Entry /\ e.size = r.size
    BY DEF Accounting, TypeOK, Request, Entry
  <2>2. CASE Fits(r.key, r.size) /\ Register(r.key, e)
    <3>1. Fits(r.key, e.size)
      BY <2>1, <2>2
    <3>2. Register(r.key, e)
      BY <2>2
    <3> HIDE DEF r, e
    <3>3. SizeExact' /\ WithinCapacity' /\ e.size \in 0 .. MaxSize
          /\ Store!Store(r.key, e.size)
      BY <2>1, <3>1, <3>2, RegisterAccounting
    <3> QED
      BY <2>1, <3>3 DEF Goal, Store!StoreNext
  <2>3. CASE UNCHANGED <<index, current_size>>
    BY <2>3, <1>u
  <2> QED
    BY <1>11, <2>2, <2>3 DEF PutRegister
<1>12. ASSUME NEW t \in Tasks, EvictLru(t) PROVE Goal
  <2>1. PICK S \in Evicted(needed[t]) : Drop(S)
    BY <1>12 DEF EvictLru
  <2>2. S \in SUBSET Keys
    BY DEF Evicted, Indexed
  <2> QED
    BY <2>1, <2>2, <1>f
<1>13. ASSUME NEW t \in Tasks, Unlink(t) \/ UnlinkDone(t) PROVE Goal
  BY <1>13, <1>u DEF Unlink, UnlinkDone
<1>14. ASSUME EvictTick \/ Tick PROVE Goal
  BY <1>14, <1>u DEF EvictTick, Tick
<1>15. ASSUME Crash PROVE Goal
  BY <1>15, <1>z DEF Crash
<1> QED
  <2>1. Goal
    BY <1>1, <1>2, <1>3, <1>4, <1>5, <1>6, <1>7, <1>8, <1>9, <1>10, <1>11,
       <1>12, <1>13, <1>14, <1>15 DEF Next, Continue
  <2> QED
    BY <2>1 DEF Goal

\* The initial state: an empty index and a zero counter.
LEMMA AccountingInit ==
  ASSUME Init
  PROVE  SizeExact /\ WithinCapacity /\ Store!StoreInit
<1>1. SizeOf = [k \in Keys |-> 0]
  BY DEF Init, SizeOf, NoEntry
<1>2. SumOf(SizeOf, Keys) = 0
  BY <1>1, StorageAssumption, SumZero
<1> QED
  BY <1>1, <1>2, StorageAssumption
     DEF Init, SizeExact, WithinCapacity, Store!StoreInit

\* current_size is exact and within max_size_bytes in every reachable state,
\* for any number of concurrent calls, dropped calls, failing writes and
\* restarts: the re-check in put is enough, whatever happened since its first
\* computation of the room.
THEOREM AccountingHolds == Spec => [](SizeExact /\ WithinCapacity)
<1>1. Init => SizeExact /\ WithinCapacity
  BY AccountingInit
<1>2. TypeOK /\ (SizeExact /\ WithinCapacity) /\ [Next]_vars
        => (SizeExact /\ WithinCapacity)'
  <2> SUFFICES ASSUME Accounting, [Next]_vars
               PROVE  SizeExact' /\ WithinCapacity'
    BY DEF Accounting
  <2>1. CASE UNCHANGED vars
    BY <2>1, StutterAccounting DEF vars, SizeOf
  <2> QED
    BY <2>1, AccountingStep
<1> QED
  BY <1>1, <1>2, TypeCorrect, PTL DEF Spec

\* CacheLayer keeps the promise of a bounded store: each of its steps stores one
\* object that fits, forgets a set of entries, or is invisible.
THEOREM BoundedStoreImplemented == Spec => ImplementsBoundedStore
<1>1. Init => Store!StoreInit
  BY AccountingInit
<1>2. TypeOK /\ (SizeExact /\ WithinCapacity) /\ [Next]_vars
        => [Store!StoreNext]_(Store!storeVars)
  <2> SUFFICES ASSUME Accounting, [Next]_vars
               PROVE  [Store!StoreNext]_(Store!storeVars)
    BY DEF Accounting
  <2>1. CASE UNCHANGED vars
    BY <2>1, StutterAccounting DEF vars, SizeOf
  <2> QED
    BY <2>1, AccountingStep
<1> QED
  BY <1>1, <1>2, TypeCorrect, AccountingHolds, PTL
     DEF Spec, ImplementsBoundedStore, Store!StoreSpec

-----------------------------------------------------------------------------
(* Files and entries, as deployed *)

\* One client, whose handle is behind a mutex; a get is dropped while it reads; no write fails
\* and the process keeps running.
Deployed ==
  /\ \E p : Clients = {p}
  /\ CancelAt \subseteq {"read", "read_br", "heal"}
  /\ ~Crashes /\ ~DiskFaults

\* Where a put may have touched the files of its key.
Writing == {"write", "open_br", "write_br", "register", "rollback"}
Writes(k) == \E t \in Clients : pc[t] \in Writing /\ req[t].key = k

\* A file is gone or the whole one of a put.
FromPut(f, ver) == disk[f] = NoFile \/ (disk[f].ver = ver /\ disk[f].whole)

\* Paths are left only to a task that unlinks; puts and gets are the client's, and puts are
\* numbered from 1.
PathsOK ==
  \A t \in Tasks :
    /\ pc[t] \notin {"unlink", "put_unlink"} => paths[t] = {}
    /\ t \notin Clients => pc[t] \in {"idle", "evict", "unlink"}
    /\ pc[t] \in PutStates => req[t].ver > 0

EntriesNumbered == \A k \in Keys : Present(k) => index[k].ver > 0

\* The files of an entry are those of its put.
EntryOK(k) ==
  /\ disk[Body(k)].whole /\ disk[Body(k)].ver = index[k].ver
  /\ disk[Body(k)].size = index[k].size
  /\ index[k].has_br => FromPut(Br(k), index[k].ver)

\* A body file belongs to the put that writes it, to the entry of its key, or to a task that is
\* about to unlink it.
FileOK(k) ==
  disk[Body(k)] # NoFile =>
    \/ Writes(k)
    \/ Present(k) /\ EntryOK(k)
    \/ ~Present(k) /\ \E t \in Tasks : Body(k) \in paths[t]

\* What a put has written is there as it wrote it, or was unlinked meanwhile.
PutOK(t) ==
  LET r == req[t] IN
  /\ pc[t] = "write" =>
       \/ disk[Body(r.key)] = NoFile
       \/ disk[Body(r.key)] = [ver |-> r.ver, size |-> r.size, whole |-> FALSE]
  /\ pc[t] \in {"open_br", "write_br", "register"} =>
       \/ disk[Body(r.key)] = NoFile
       \/ disk[Body(r.key)] = [ver |-> r.ver, size |-> r.size, whole |-> TRUE]
  /\ pc[t] = "write_br" => disk[Br(r.key)] = NoFile \/ disk[Br(r.key)].ver = r.ver
  /\ pc[t] = "register" /\ r.br => FromPut(Br(r.key), r.ver)

\* What a get is about to read is what its entry was filed with, whatever became of the entry.
GetOK(t) ==
  LET r == req[t] IN
  /\ pc[t] = "read" /\ disk[Body(r.key)] # NoFile =>
       FromPut(Body(r.key), r.ver) /\ (r.br => FromPut(Br(r.key), r.ver))
  /\ pc[t] = "read_br" =>
       r.body.ver = r.ver /\ r.body.whole /\ FromPut(Br(r.key), r.ver)
  /\ pc[t] = "heal" => disk[Body(r.key)] = NoFile

HitOK(t) ==
  reply[t].hit =>
    /\ reply[t].body.ver = reply[t].ver /\ reply[t].body.whole
    /\ reply[t].br # NoFile => reply[t].br.ver = reply[t].ver /\ reply[t].br.whole

Intact ==
  /\ PathsOK /\ EntriesNumbered
  /\ \A k \in Keys : FileOK(k)
  /\ \A t \in Clients : PutOK(t) /\ GetOK(t) /\ HitOK(t)

LEMMA PathsStep ==
  ASSUME Deployed, TypeOK, PathsOK, Next
  PROVE  PathsOK'
<1> USE DEF PathsOK, TypeOK, Tasks, Callers, Goto, Finish, States, PutStates
<1>0. /\ Evictor \notin Clients /\ ~Crashes /\ ~DiskFaults
      /\ CancelAt \subseteq {"read", "read_br", "heal"}
  BY StorageAssumption DEF Deployed, Callers
<1>1. ASSUME NEW t \in Clients, NEW k \in Keys, GetMiss(t, k) PROVE PathsOK'
  BY <1>1 DEF GetMiss
<1>2. ASSUME NEW t \in Clients, NEW k \in Keys, NEW stale \in BOOLEAN,
             GetExpired(t, k, stale) \/ GetFound(t, k, stale)
      PROVE  PathsOK'
  BY <1>2 DEF GetExpired, GetFound
<1>3. ASSUME NEW t \in Clients, NEW k \in Keys, NEW n \in Sizes, NEW ttl \in Ttls,
             NEW br \in BOOLEAN, PutStart(t, k, n, ttl, br)
      PROVE  PathsOK'
  <2>1. CASE n > MaxSize
    BY <1>3, <2>1, StorageAssumption DEF PutStart
  <2>2. CASE ~(n > MaxSize)
    <3> DEFINE q == [NoReq EXCEPT !.key = k, !.ver = puts + 1, !.size = n,
                                  !.ttl = ttl, !.br = br]
    <3>1. q.ver = puts + 1 /\ puts + 1 > 0
      BY DEF NoReq
    <3>2. n <= MaxSize
      BY <2>2, StorageAssumption
    <3>3. req'[t] = q /\ pc'[t] \in {"put_evict", "open"}
          /\ \A u \in Tasks \ {t} : pc'[u] = pc[u] /\ req'[u] = req[u]
      BY <1>3, <2>2, <3>2 DEF PutStart
    <3>4. UNCHANGED paths /\ pc[t] = "idle"
      BY <1>3 DEF PutStart
    <3> HIDE DEF q
    <3> QED
      BY <3>1, <3>3, <3>4
  <2> QED
    BY <2>1, <2>2
<1>4. ASSUME NEW t \in Callers,
             (\E S \in PurgeTargets : Purge(t, S)) \/ PurgeAll(t)
      PROVE  PathsOK'
  BY <1>4 DEF Purge, PurgeAll
<1>5. ASSUME NEW t \in Callers, Cancel(t) PROVE PathsOK'
  BY <1>5 DEF Cancel
<1>6. ASSUME NEW t \in Tasks, GetRead(t) \/ GetReadBr(t) \/ GetHeal(t) PROVE PathsOK'
  BY <1>6 DEF GetRead, GetReadBr, GetHeal
<1>7. ASSUME NEW t \in Tasks,
             PutOpen(t) \/ PutWrite(t) \/ PutWriteFails(t) \/ PutOpenBr(t) \/ PutWriteBr(t)
      PROVE  PathsOK'
  <2>1. /\ UNCHANGED paths /\ pc[t] \in PutStates /\ pc'[t] \in PutStates
        /\ \A u \in Tasks \ {t} : pc'[u] = pc[u] /\ req'[u] = req[u]
        /\ pc'[t] \notin {"unlink", "put_unlink"} /\ pc[t] \notin {"unlink", "put_unlink"}
    BY <1>0, <1>7 DEF PutOpen, PutWrite, PutWriteFails, PutOpenBr, PutWriteBr
  <2>2. /\ [req[t] EXCEPT !.at = now].ver = req[t].ver
        /\ [req[t] EXCEPT !.br = FALSE, !.at = now].ver = req[t].ver
    BY DEF Request
  <2>3. req'[t].ver = req[t].ver
    BY <1>0, <1>7, <2>2 DEF PutOpen, PutWrite, PutWriteFails, PutOpenBr, PutWriteBr
  <2> QED
    BY <2>1, <2>3
<1>8. ASSUME NEW t \in Tasks, PutRegister(t) \/ PutRollback(t) PROVE PathsOK'
  BY <1>8 DEF PutRegister, PutRollback
<1>9. ASSUME NEW t \in Tasks, EvictLru(t) PROVE PathsOK'
  BY <1>9 DEF EvictLru
<1>10. ASSUME NEW t \in Tasks, Unlink(t) \/ UnlinkDone(t) PROVE PathsOK'
  BY <1>10 DEF Unlink, UnlinkDone
<1>11. CASE EvictTick
  BY <1>0, <1>11 DEF EvictTick
<1>12. CASE Tick
  BY <1>12 DEF Tick
<1>13. CASE Crash
  BY <1>0, <1>13 DEF Crash
<1> QED
  BY <1>1, <1>2, <1>3, <1>4, <1>5, <1>6, <1>7, <1>8, <1>9, <1>10, <1>11, <1>12, <1>13
  DEF Next, Continue

LEMMA NumbersStep ==
  ASSUME TypeOK, PathsOK, EntriesNumbered, Next
  PROVE  EntriesNumbered'
<1>1. ASSUME \A k \in Keys : index'[k] = NoEntry \/ index'[k].ver = index[k].ver,
             \A k \in Keys : ~Present(k) => index'[k] = index[k]
      PROVE  EntriesNumbered'
  BY <1>1 DEF EntriesNumbered, Present
<1>2. ASSUME NEW S, Drop(S) PROVE EntriesNumbered'
  BY <1>1, <1>2 DEF Drop, Present
<1>3. ASSUME NEW t \in Tasks, PutRegister(t) PROVE EntriesNumbered'
  <2>1. CASE UNCHANGED index
    BY <1>1, <2>1
  <2>2. req[t].ver > 0
    BY <1>3 DEF PathsOK, PutRegister, PutStates
  <2>3. CASE \E e : e.ver = req[t].ver /\ index' = [index EXCEPT ![req[t].key] = e]
    BY <2>2, <2>3 DEF EntriesNumbered, Present, TypeOK
  <2> QED
    BY <1>3, <2>1, <2>3 DEF PutRegister, Register
<1>4. ASSUME NEW t \in Clients, NEW k \in Keys, NEW stale \in BOOLEAN, GetFound(t, k, stale)
      PROVE  EntriesNumbered'
  BY <1>1, <1>4 DEF GetFound, TypeOK, Entry, Present
<1>5. ASSUME NEW t \in Clients, NEW k \in Keys,
             \/ \E stale \in BOOLEAN : GetExpired(t, k, stale)
             \/ GetMiss(t, k)
             \/ \E n \in Sizes, ttl \in Ttls, br \in BOOLEAN : PutStart(t, k, n, ttl, br)
      PROVE  EntriesNumbered'
  BY <1>1, <1>2, <1>5 DEF GetExpired, GetMiss, PutStart
<1>6. ASSUME NEW t \in Callers, (\E S \in PurgeTargets : Purge(t, S)) \/ PurgeAll(t) \/ Cancel(t)
      PROVE  EntriesNumbered'
  BY <1>1, <1>2, <1>6 DEF Purge, PurgeAll, Cancel, Present
<1>7. ASSUME NEW t \in Tasks, Continue(t) PROVE EntriesNumbered'
  BY <1>1, <1>2, <1>3, <1>7 DEF Continue, GetRead, GetReadBr, GetHeal, PutOpen, PutWrite,
     PutWriteFails, PutOpenBr, PutWriteBr, PutRollback, EvictLru, Unlink, UnlinkDone
<1>8. ASSUME EvictTick \/ Tick \/ Crash PROVE EntriesNumbered'
  BY <1>1, <1>8 DEF EvictTick, Tick, Crash, Present
<1> QED
  BY <1>4, <1>5, <1>6, <1>7, <1>8 DEF Next

\* The states of the client in which it neither reads nor has written.
Quiet == States \ (Writing \cup {"read", "read_br", "heal"})

\* Files are unlinked and entries dropped, by whomever, and the client reads and writes nothing.
LEMMA ShrinkStep ==
  ASSUME TypeOK, NEW p, Clients = {p}, p \in Tasks,
         \A k \in Keys : FileOK(k), PutOK(p), GetOK(p), HitOK(p),
         \/ pc'[p] = pc[p] /\ req'[p] = req[p]
         \/ pc[p] \notin Writing /\ pc'[p] \in Quiet,
         reply'[p] = reply[p] \/ ~reply'[p].hit,
         \A f \in Files : disk'[f] = disk[f] \/ disk'[f] = NoFile,
         \A k \in Keys :
           /\ index'[k] = index[k] \/ index'[k] = NoEntry
           /\ disk'[Body(k)] # NoFile /\ Present(k) /\ index'[k] = NoEntry =>
                \E t \in Tasks : Body(k) \in paths'[t]
           /\ disk'[Body(k)] # NoFile /\ (\E t \in Tasks : Body(k) \in paths[t]) =>
                \E t \in Tasks : Body(k) \in paths'[t]
  PROVE  (\A k \in Keys : FileOK(k)') /\ PutOK(p)' /\ GetOK(p)' /\ HitOK(p)'
<1>1. \A k \in Keys : Body(k) \in Files /\ Br(k) \in Files
  BY DEF Body, Br, Files
<1>2. req[p].key \in Keys
  BY DEF TypeOK, Request
<1>3. ASSUME NEW k \in Keys PROVE FileOK(k)'
  <2> SUFFICES ASSUME disk'[Body(k)] # NoFile, ~Writes(k)'
               PROVE  \/ Present(k)' /\ EntryOK(k)'
                      \/ ~Present(k)' /\ \E t \in Tasks : Body(k) \in paths'[t]
    BY DEF FileOK
  <2>1. disk'[Body(k)] = disk[Body(k)] /\ (disk'[Br(k)] = disk[Br(k)] \/ disk'[Br(k)] = NoFile)
    BY <1>1
  <2>2. ~Writes(k)
    BY DEF Writes, Quiet
  <2>3. CASE ~Present(k) /\ \E t \in Tasks : Body(k) \in paths[t]
    BY <2>1, <2>3 DEF Present
  <2>4. CASE Present(k) /\ EntryOK(k)
    BY <2>1, <2>4 DEF Present, EntryOK, FromPut
  <2> QED
    BY <2>1, <2>2, <2>3, <2>4 DEF FileOK
<1>4. PutOK(p)'
  BY <1>1, <1>2 DEF PutOK, FromPut, Quiet, Writing
<1>5. GetOK(p)'
  BY <1>1, <1>2 DEF GetOK, FromPut, Quiet
<1>6. HitOK(p)'
  BY DEF HitOK
<1> QED
  BY <1>3, <1>4, <1>5, <1>6

LEMMA DropKeepsPaths ==
  ASSUME TypeOK, NEW t \in Tasks, paths[t] = {}, NEW S \in SUBSET Keys,
         index' = [k \in Keys |-> IF k \in S THEN NoEntry ELSE index[k]],
         paths' = [paths EXCEPT ![t] = FilesOf(S)]
  PROVE  \A k \in Keys :
           /\ index'[k] = index[k] \/ index'[k] = NoEntry
           /\ Present(k) /\ index'[k] = NoEntry => \E u \in Tasks : Body(k) \in paths'[u]
           /\ (\E u \in Tasks : Body(k) \in paths[u]) => \E u \in Tasks : Body(k) \in paths'[u]
<1>1. \A u \in Tasks : paths'[u] = IF u = t THEN FilesOf(S) ELSE paths[u]
  BY DEF TypeOK
<1>2. \A k \in S : Body(k) \in FilesOf(S)
  BY DEF Body, Files, FilesOf
<1>3. \A k \in Keys : index'[k] = IF k \in S THEN NoEntry ELSE index[k]
  OBVIOUS
<1> QED
  BY <1>1, <1>2, <1>3 DEF Present

\* The keys whose files the client does not touch.
LEMMA OthersKept ==
  ASSUME NEW p, Clients = {p}, NEW k \in Keys, FileOK(k),
         pc[p] \in Writing => req[p].key # k,
         disk'[Body(k)] = disk[Body(k)], disk'[Br(k)] = disk[Br(k)], index'[k] = index[k],
         UNCHANGED paths
  PROVE  FileOK(k)'
<1>1. ~Writes(k)
  BY DEF Writes
<1> QED
  BY <1>1 DEF FileOK, Present, EntryOK, FromPut

LEMMA IntactStep ==
  ASSUME Deployed, TypeOK, TypeOK', Intact, Next
  PROVE  Intact'
<1> DEFINE Goal(p) == (\A k \in Keys : FileOK(k)') /\ PutOK(p)' /\ GetOK(p)' /\ HitOK(p)'
<1>p. PICK p : Clients = {p}
  BY DEF Deployed
<1>0. /\ p \in Tasks /\ p \in Clients /\ ~Crashes /\ ~DiskFaults
      /\ CancelAt \subseteq {"read", "read_br", "heal"}
      /\ PathsOK /\ PutOK(p) /\ GetOK(p) /\ HitOK(p) /\ \A k \in Keys : FileOK(k)
      /\ \A k \in Keys : Body(k) \in Files /\ Br(k) \in Files
      /\ req[p].key \in Keys /\ req[p] \in Request
  BY <1>p DEF Deployed, Intact, Tasks, Callers, Body, Br, Files, TypeOK, Request
<1>a. \A j, k \in Keys : /\ Body(j) # Br(k)
                         /\ Body(j) = Body(k) => j = k
                         /\ Br(j) = Br(k) => j = k
  BY DEF Body, Br
<1> SUFFICES Goal(p) /\ PathsOK' /\ EntriesNumbered'
  BY <1>p DEF Intact
<1>b. PathsOK' /\ EntriesNumbered'
  BY PathsStep, NumbersStep DEF Intact
<1>c. ASSUME NEW t \in Tasks, pc[t] = "idle" \/ pc[t] = "evict" \/ pc[t] = "put_evict",
             NEW S \in SUBSET Keys,
             index' = [k \in Keys |-> IF k \in S THEN NoEntry ELSE index[k]],
             paths' = [paths EXCEPT ![t] = FilesOf(S)], UNCHANGED <<disk, req>>,
             pc' = [pc EXCEPT ![t] = IF pc[t] = "put_evict" THEN "put_unlink" ELSE "unlink"],
             reply' = reply \/ reply' = [reply EXCEPT ![t] = NoReply]
      PROVE  Goal(p)
  <2>1. paths[t] = {}
    BY <1>0, <1>c DEF PathsOK
  <2>2. \/ pc'[p] = pc[p] /\ req'[p] = req[p]
        \/ pc[p] \notin Writing /\ pc'[p] \in Quiet
    BY <1>0, <1>c DEF TypeOK, Writing, Quiet, States, PutStates
  <2>3. reply'[p] = reply[p] \/ ~reply'[p].hit
    BY <1>0, <1>c DEF TypeOK, NoReply
  <2>4. \A f \in Files : disk'[f] = disk[f]
    BY <1>c
  <2> HIDE DEF Goal
  <2>5. \A k \in Keys :
           /\ index'[k] = index[k] \/ index'[k] = NoEntry
           /\ Present(k) /\ index'[k] = NoEntry => \E u \in Tasks : Body(k) \in paths'[u]
           /\ (\E u \in Tasks : Body(k) \in paths[u]) => \E u \in Tasks : Body(k) \in paths'[u]
    BY <1>c, <2>1, DropKeepsPaths
  <2> QED
    BY <1>p, <1>0, <2>2, <2>3, <2>4, <2>5, ShrinkStep DEF Goal
<1>d. ASSUME \/ pc'[p] = pc[p] /\ req'[p] = req[p]
             \/ pc[p] \notin Writing /\ pc'[p] \in Quiet,
             reply'[p] = reply[p] \/ ~reply'[p].hit,
             UNCHANGED <<disk, index, paths>>
      PROVE  Goal(p)
  BY <1>p, <1>0, <1>d, ShrinkStep DEF Present
<1>1. ASSUME NEW t \in Clients, NEW k \in Keys, GetMiss(t, k) PROVE Goal(p)
  <2>1. pc'[p] = "idle" /\ pc[p] = "idle" /\ ~reply'[p].hit
    BY <1>p, <1>0, <1>1 DEF GetMiss, Finish, Goto, TypeOK, NoReply
  <2> QED
    BY <1>1, <1>d, <2>1 DEF GetMiss, Quiet, Writing, States, PutStates
<1>2. ASSUME NEW t \in Clients, NEW k \in Keys, NEW stale \in BOOLEAN,
             GetExpired(t, k, stale)
      PROVE  Goal(p)
  <2>1. {k} \in SUBSET Keys /\ t \in Tasks
    BY <1>p, <1>0
  <2> QED
    BY <1>2, <1>c, <2>1 DEF GetExpired, Drop, Goto
<1>3. ASSUME NEW t \in Clients, NEW k \in Keys, NEW stale \in BOOLEAN, GetFound(t, k, stale)
      PROVE  Goal(p)
  <2>0. t = p /\ pc[p] = "idle" /\ pc'[p] = "read" /\ ~reply'[p].hit /\ Present(k)
        /\ UNCHANGED <<disk, paths>>
    BY <1>p, <1>0, <1>3 DEF GetFound, Goto, TypeOK, NoReply
  <2>1. req'[p].key = k /\ req'[p].ver = index[k].ver /\ req'[p].br = index[k].has_br
    BY <1>0, <1>3, <2>0 DEF GetFound, TypeOK, NoReq
  <2>2. \A j \in Keys : /\ index'[j].ver = index[j].ver /\ index'[j].size = index[j].size
                        /\ index'[j].has_br = index[j].has_br /\ (~Present(j) => index'[j] = index[j])
    BY <1>3, <2>0 DEF GetFound, TypeOK, Entry, Present
  <2>3. \A j \in Keys : Present(j)' <=> Present(j)
    BY <2>2 DEF Intact, EntriesNumbered, Present, NoEntry
  <2>4. \A j \in Keys : ~Writes(j) /\ ~Writes(j)'
    BY <1>p, <2>0 DEF Writes, Writing
  <2>5. ASSUME NEW j \in Keys PROVE FileOK(j)'
    BY <1>0, <2>0, <2>2, <2>3, <2>4 DEF FileOK, EntryOK, FromPut
  <2>6. GetOK(p)'
    <3>1. disk[Body(k)] # NoFile => EntryOK(k)
      BY <1>0, <2>0, <2>4 DEF FileOK
    <3> QED
      BY <2>0, <2>1, <3>1 DEF GetOK, EntryOK, FromPut
  <2>7. PutOK(p)' /\ HitOK(p)'
    BY <2>0 DEF PutOK, HitOK
  <2> QED
    BY <2>5, <2>6, <2>7
<1>4. ASSUME NEW t \in Clients, NEW k \in Keys, NEW n \in Sizes, NEW ttl \in Ttls,
             NEW br \in BOOLEAN, PutStart(t, k, n, ttl, br)
      PROVE  Goal(p)
  <2>1. /\ t = p /\ pc[p] = "idle" /\ ~reply'[p].hit /\ UNCHANGED <<disk, index, paths>>
        /\ pc'[p] \in {"idle", "put_evict", "open"}
    BY <1>p, <1>0, <1>4 DEF PutStart, Goto, TypeOK, NoReply
  <2> QED
    BY <1>d, <2>1 DEF Quiet, Writing, States, PutStates
<1>5. ASSUME NEW t \in Callers, NEW S \in PurgeTargets, Purge(t, S) PROVE Goal(p)
  <2>1. S \cap Indexed \in SUBSET Keys /\ t \in Tasks
    BY DEF Indexed, Tasks
  <2> QED
    BY <1>5, <1>c, <2>1 DEF Purge, Drop, Goto
<1>6. ASSUME NEW t \in Callers, PurgeAll(t) PROVE Goal(p)
  <2>1. Indexed \in SUBSET Keys /\ t \in Tasks
    BY DEF Indexed, Tasks
  <2>2. index' = [k \in Keys |-> IF k \in Indexed THEN NoEntry ELSE index[k]]
    BY <1>6 DEF PurgeAll, Indexed, Present
  <2> QED
    BY <1>6, <1>c, <2>1, <2>2 DEF PurgeAll, Goto
<1>7. ASSUME NEW t \in Callers, Cancel(t) PROVE Goal(p)
  <2>1. t \in Tasks /\ pc[t] \in {"read", "read_br", "heal"} /\ paths[t] = {}
    BY <1>0, <1>7 DEF Cancel, Tasks, PathsOK
  <2>2. UNCHANGED <<disk, index, paths>>
    BY <1>7, <2>1 DEF Cancel, TypeOK
  <2>3. CASE t = p
    BY <1>7, <1>d, <2>1, <2>2, <2>3
    DEF Cancel, Finish, Goto, TypeOK, NoReply, Quiet, Writing, States, PutStates
  <2>4. CASE t # p
    BY <1>0, <1>7, <1>d, <2>1, <2>2, <2>4 DEF Cancel, Finish, Goto, TypeOK
  <2> QED
    BY <2>3, <2>4
\* The other tasks neither read nor write.
<1>e. ASSUME NEW t \in Tasks, pc[t] \in PutStates \cup {"read", "read_br", "heal"} PROVE t = p
  BY <1>p, <1>0, <1>e DEF PathsOK, PutStates
<1>8. ASSUME NEW t \in Tasks, GetRead(t) \/ GetReadBr(t) PROVE Goal(p)
  <2>0. t = p /\ UNCHANGED <<disk, index, paths>> /\ pc[p] \in {"read", "read_br"}
        /\ pc'[p] \in {"heal", "read_br", "idle"}
    BY <1>0, <1>e, <1>8 DEF GetRead, GetReadBr, Finish, Goto, TypeOK
  <2>1. ASSUME NEW j \in Keys PROVE FileOK(j)'
    <3>1. ~Writes(j)
      BY <1>p, <2>0 DEF Writes, Writing
    <3> QED
      BY <1>0, <2>0, <3>1 DEF FileOK, Present, EntryOK, FromPut
  <2>2. PutOK(p)'
    BY <2>0 DEF PutOK
  <2>3. CASE GetReadBr(p)
    <3>1. reply'[p] = [hit |-> TRUE, ver |-> req[p].ver, body |-> req[p].body,
                       br |-> disk[Br(req[p].key)]] /\ pc'[p] = "idle"
      BY <1>0, <2>3 DEF GetReadBr, Finish, Goto, TypeOK
    <3>2. GetOK(p)' /\ HitOK(p)'
      BY <1>0, <2>3, <3>1 DEF GetReadBr, GetOK, HitOK, FromPut
    <3> QED
      BY <2>1, <2>2, <3>2
  <2>4. CASE GetRead(p)
    <3> DEFINE body == disk[Body(req[p].key)]
    <3>1. CASE body = NoFile /\ pc' = [pc EXCEPT ![p] = "heal"] /\ UNCHANGED <<req, reply>>
      <4>1. pc'[p] = "heal"
        BY <1>0, <3>1 DEF TypeOK
      <4>2. GetOK(p)' /\ HitOK(p)'
        BY <1>0, <2>0, <3>1, <4>1 DEF GetOK, HitOK
      <4> QED
        BY <2>1, <2>2, <4>2
    <3>2. CASE body # NoFile /\ req[p].br /\ pc' = [pc EXCEPT ![p] = "read_br"]
               /\ req' = [req EXCEPT ![p].body = body] /\ UNCHANGED reply
      <4>1. /\ pc'[p] = "read_br" /\ req'[p].body = body /\ req'[p].ver = req[p].ver
            /\ req'[p].key = req[p].key
        BY <1>0, <3>2 DEF TypeOK, Request
      <4>2. GetOK(p)' /\ HitOK(p)'
        BY <1>0, <2>0, <2>4, <3>2, <4>1 DEF GetRead, GetOK, HitOK, FromPut
      <4> QED
        BY <2>1, <2>2, <4>2
    <3>3. CASE body # NoFile /\ Finish(p, [hit |-> TRUE, ver |-> req[p].ver, body |-> body,
                                           br |-> NoFile])
      <4>1. pc'[p] = "idle" /\ reply'[p] = [hit |-> TRUE, ver |-> req[p].ver, body |-> body,
                                           br |-> NoFile]
        BY <1>0, <3>3 DEF Finish, Goto, TypeOK
      <4>2. GetOK(p)' /\ HitOK(p)'
        BY <1>0, <2>0, <2>4, <3>3, <4>1 DEF GetRead, GetOK, HitOK, FromPut
      <4> QED
        BY <2>1, <2>2, <4>2
    <3> QED
      BY <2>4, <3>1, <3>2, <3>3 DEF GetRead, Goto
  <2> QED
    BY <1>8, <2>0, <2>3, <2>4
<1>9. ASSUME NEW t \in Tasks, GetHeal(t) PROVE Goal(p)
  <2>0. t = p /\ pc[p] = "heal" /\ pc'[p] = "idle" /\ UNCHANGED <<disk, paths>>
        /\ ~reply'[p].hit /\ disk[Body(req[p].key)] = NoFile
    BY <1>0, <1>e, <1>9 DEF GetHeal, Finish, Goto, TypeOK, NoReply, GetOK
  <2>1. \A k \in Keys : index'[k] = IF k = req[p].key THEN NoEntry ELSE index[k]
    BY <1>9, <2>0 DEF GetHeal, Drop
  <2>2. \A k \in Keys : disk'[Body(k)] # NoFile => index'[k] = index[k]
    BY <2>0, <2>1
  <2>3. pc[p] \notin Writing /\ pc'[p] \in Quiet
    BY <2>0 DEF Writing, Quiet, States, PutStates
  <2> HIDE DEF Goal
  <2> QED
    BY <1>p, <1>0, <2>0, <2>1, <2>2, <2>3, ShrinkStep DEF Goal, Present
\* A put works on the files of its key only.
<1>f. ASSUME NEW k \in Keys, pc[p] \in PutStates, k # req[p].key, index'[k] = index[k],
             UNCHANGED paths,
             \/ disk' = disk
             \/ \E x : disk' = [disk EXCEPT ![Body(req[p].key)] = x]
             \/ \E x : disk' = [disk EXCEPT ![Br(req[p].key)] = x]
      PROVE  FileOK(k)'
  <2>1. disk'[Body(k)] = disk[Body(k)] /\ disk'[Br(k)] = disk[Br(k)]
    BY <1>0, <1>a, <1>f DEF TypeOK
  <2> QED
    BY <1>p, <1>0, <1>f, <2>1, OthersKept
<1>g. ASSUME NEW k \in Keys, k = req'[p].key, pc'[p] \in Writing PROVE FileOK(k)'
  BY <1>0, <1>g DEF FileOK, Writes
<1>10. ASSUME NEW t \in Tasks, PutOpen(t) PROVE Goal(p)
  <2>0. /\ t = p /\ pc[p] = "open" /\ pc'[p] = "write" /\ UNCHANGED <<index, req, paths, reply>>
        /\ disk' = [disk EXCEPT ![Body(req[p].key)] =
                      [ver |-> req[p].ver, size |-> req[p].size, whole |-> FALSE]]
    BY <1>0, <1>e, <1>10 DEF PutOpen, Goto, TypeOK, PutStates
  <2>1. ASSUME NEW k \in Keys PROVE FileOK(k)'
    BY <1>f, <1>g, <2>0 DEF PutStates, Writing
  <2>2. disk'[Body(req[p].key)] = [ver |-> req[p].ver, size |-> req[p].size, whole |-> FALSE]
    BY <1>0, <2>0 DEF TypeOK
  <2>3. PutOK(p)' /\ GetOK(p)' /\ HitOK(p)'
    BY <1>0, <2>0, <2>2 DEF PutOK, GetOK, HitOK
  <2> QED
    BY <2>1, <2>3
<1>h. ASSUME NEW f \in Files, NEW n, disk' = Written(f, req[p], n)
      PROVE  /\ disk' = disk \/ \E x : disk' = [disk EXCEPT ![f] = x]
             /\ \/ disk'[f] = NoFile
                \/ disk'[f] = [ver |-> req[p].ver, size |-> n, whole |-> TRUE]
  BY <1>h DEF Written, TypeOK
<1>11. ASSUME NEW t \in Tasks, PutWrite(t) PROVE Goal(p)
  <2>0. /\ t = p /\ pc[p] = "write" /\ UNCHANGED <<index, paths, reply>>
        /\ pc'[p] \in {"open_br", "register"} /\ (pc'[p] = "register" => ~req[p].br)
        /\ disk' = Written(Body(req[p].key), req[p], req[p].size)
    BY <1>0, <1>e, <1>11 DEF PutWrite, Goto, TypeOK, PutStates
  <2>1. /\ req'[p].key = req[p].key /\ req'[p].ver = req[p].ver
        /\ req'[p].size = req[p].size /\ req'[p].br = req[p].br
    BY <1>0, <1>11, <2>0 DEF PutWrite, TypeOK, Request
  <2>2. ASSUME NEW k \in Keys PROVE FileOK(k)'
    BY <1>0, <1>f, <1>g, <1>h, <2>0, <2>1 DEF PutStates, Writing
  <2>3. PutOK(p)' /\ GetOK(p)' /\ HitOK(p)'
    BY <1>0, <1>h, <2>0, <2>1 DEF PutOK, GetOK, HitOK
  <2> QED
    BY <2>2, <2>3
<1>12. ASSUME NEW t \in Tasks, PutOpenBr(t) PROVE Goal(p)
  <2> DEFINE x == [ver |-> req[p].ver, size |-> 0, whole |-> FALSE]
  <2>0. /\ t = p /\ pc[p] = "open_br" /\ pc'[p] = "write_br"
        /\ UNCHANGED <<index, req, paths, reply>>
        /\ disk' = [disk EXCEPT ![Br(req[p].key)] = x]
    BY <1>0, <1>e, <1>12 DEF PutOpenBr, Goto, TypeOK, PutStates
  <2>1. x.ver = req[p].ver
    OBVIOUS
  <2> HIDE DEF x
  <2>2. ASSUME NEW k \in Keys PROVE FileOK(k)'
    BY <1>f, <1>g, <2>0 DEF PutStates, Writing
  <2>3. disk'[Br(req[p].key)] = x /\ disk'[Body(req[p].key)] = disk[Body(req[p].key)]
    BY <1>0, <1>a, <2>0 DEF TypeOK
  <2>4. PutOK(p)' /\ GetOK(p)' /\ HitOK(p)'
    BY <1>0, <2>0, <2>1, <2>3 DEF PutOK, GetOK, HitOK
  <2> QED
    BY <2>2, <2>4
<1>13. ASSUME NEW t \in Tasks, PutWriteBr(t) PROVE Goal(p)
  <2>0. /\ t = p /\ pc[p] = "write_br" /\ UNCHANGED <<index, paths, reply>>
        /\ pc'[p] = "register" /\ disk' = Written(Br(req[p].key), req[p], 0)
        /\ req' = [req EXCEPT ![p].at = now]
    BY <1>0, <1>e, <1>13 DEF PutWriteBr, Goto, TypeOK, PutStates
  <2>1. /\ req'[p].key = req[p].key /\ req'[p].ver = req[p].ver
        /\ req'[p].size = req[p].size /\ req'[p].br = req[p].br
    BY <1>0, <2>0 DEF TypeOK, Request
  <2>2. ASSUME NEW k \in Keys PROVE FileOK(k)'
    BY <1>0, <1>f, <1>g, <1>h, <2>0, <2>1 DEF PutStates, Writing
  <2>3. FromPut(Br(req[p].key), req[p].ver)'
    <3>1. \/ disk'[Br(req[p].key)] = NoFile
          \/ disk'[Br(req[p].key)] = [ver |-> req[p].ver, size |-> 0, whole |-> TRUE]
      BY <1>0, <1>h, <2>0
    <3> QED
      BY <2>1, <3>1 DEF FromPut
  <2>4. disk'[Body(req[p].key)] = disk[Body(req[p].key)]
    <3>1. disk' = disk \/ \E x : disk' = [disk EXCEPT ![Br(req[p].key)] = x]
      BY <1>0, <1>h, <2>0
    <3> QED
      BY <1>0, <1>a, <3>1 DEF TypeOK
  <2>5. PutOK(p)' /\ GetOK(p)' /\ HitOK(p)'
    BY <1>0, <2>0, <2>1, <2>3, <2>4 DEF PutOK, GetOK, HitOK, FromPut
  <2> QED
    BY <2>2, <2>5
<1>14. ASSUME NEW t \in Tasks, PutRegister(t) PROVE Goal(p)
  <2>k. PICK k \in Keys : k = req[p].key
    BY <1>0
  <2> DEFINE e == [ver |-> req[p].ver, size |-> req[p].size,
                   expires |-> IF req[p].ttl > 0 THEN req[p].at + req[p].ttl ELSE 0,
                   accessed |-> req[p].at, has_br |-> req[p].br]
  <2>0. t = p /\ pc[p] = "register" /\ UNCHANGED <<disk, paths>> /\ req[p].ver > 0
        /\ e.ver = req[p].ver /\ e.size = req[p].size /\ e.has_br = req[p].br
    BY <1>0, <1>e, <1>14 DEF PutRegister, PutStates, PathsOK
  <2>1. CASE Register(k, e) /\ Finish(p, NoReply)
    <3>1. pc'[p] = "idle" /\ ~reply'[p].hit
      BY <1>0, <2>1 DEF Finish, Goto, TypeOK, NoReply
    <3> HIDE DEF e
    <3>2. \A j \in Keys : index'[j] = IF j = k THEN e ELSE index[j]
      BY <2>1 DEF Register, TypeOK
    <3>3. FileOK(k)'
      <4>1. index'[k] = e /\ e # NoEntry
        BY <2>0, <3>2 DEF NoEntry
      <4>2. \/ disk[Body(k)] = NoFile
            \/ /\ disk[Body(k)].ver = req[p].ver /\ disk[Body(k)].size = req[p].size
               /\ disk[Body(k)].whole
        BY <1>0, <2>0, <2>k DEF PutOK
      <4>3. req[p].br => FromPut(Br(k), req[p].ver)
        BY <1>0, <2>0, <2>k DEF PutOK
      <4>4. Present(k)'
        BY <4>1 DEF Present
      <4>5. disk'[Body(k)] # NoFile => EntryOK(k)'
        BY <2>0, <4>1, <4>2, <4>3 DEF EntryOK, FromPut
      <4> QED
        BY <4>4, <4>5 DEF FileOK
    <3>4. ASSUME NEW j \in Keys PROVE FileOK(j)'
      <4>1. CASE j = k
        BY <3>3, <4>1
      <4>2. CASE j # k
        BY <1>f, <2>0, <2>k, <3>2, <4>2 DEF PutStates
      <4> QED
        BY <4>1, <4>2
    <3>5. PutOK(p)' /\ GetOK(p)' /\ HitOK(p)'
      BY <3>1 DEF PutOK, GetOK, HitOK
    <3> QED
      BY <3>4, <3>5
  <2>2. CASE Goto(p, "rollback") /\ UNCHANGED <<index, current_size, req, reply>>
    <3>1. pc'[p] = "rollback"
      BY <1>0, <2>2 DEF Goto, TypeOK
    <3>2. ASSUME NEW j \in Keys PROVE FileOK(j)'
      BY <1>f, <1>g, <2>0, <2>2, <3>1 DEF PutStates, Writing
    <3>3. PutOK(p)' /\ GetOK(p)' /\ HitOK(p)'
      BY <1>0, <2>2, <3>1 DEF PutOK, GetOK, HitOK
    <3> QED
      BY <3>2, <3>3
  <2> QED
    BY <1>14, <2>0, <2>k, <2>1, <2>2 DEF PutRegister
<1>15. ASSUME NEW t \in Tasks, PutRollback(t) PROVE Goal(p)
  <2>0. /\ t = p /\ pc[p] = "rollback" /\ pc'[p] = "idle" /\ ~reply'[p].hit
        /\ UNCHANGED <<index, paths>> /\ disk' = [disk EXCEPT ![Body(req[p].key)] = NoFile]
    BY <1>0, <1>e, <1>15 DEF PutRollback, Finish, Goto, TypeOK, NoReply, PutStates
  <2>1. disk'[Body(req[p].key)] = NoFile
    BY <1>0, <2>0 DEF TypeOK
  <2>2. ASSUME NEW k \in Keys PROVE FileOK(k)'
    <3>1. CASE k = req[p].key
      BY <2>1, <3>1 DEF FileOK
    <3>2. CASE k # req[p].key
      BY <1>f, <2>0, <3>2 DEF PutStates
    <3> QED
      BY <3>1, <3>2
  <2>3. PutOK(p)' /\ GetOK(p)' /\ HitOK(p)'
    BY <2>0 DEF PutOK, GetOK, HitOK
  <2> QED
    BY <2>2, <2>3
<1>16. ASSUME NEW t \in Tasks, EvictLru(t) PROVE Goal(p)
  <2>1. PICK S \in Evicted(needed[t]) : Drop(S) /\ paths' = [paths EXCEPT ![t] = FilesOf(S)]
    BY <1>16 DEF EvictLru
  <2>2. S \in SUBSET Keys
    BY DEF Evicted, Indexed
  <2>3. pc' = [pc EXCEPT ![t] = IF pc[t] = "put_evict" THEN "put_unlink" ELSE "unlink"]
    BY <1>16 DEF EvictLru, Goto
  <2> QED
    BY <1>16, <1>c, <2>1, <2>2, <2>3 DEF EvictLru, Drop
<1>17. ASSUME NEW t \in Tasks, Unlink(t) PROVE Goal(p)
  <2>1. PICK f \in paths[t] : /\ disk' = [disk EXCEPT ![f] = NoFile]
                              /\ paths' = [paths EXCEPT ![t] = @ \ {f}]
    BY <1>17 DEF Unlink
  <2>2. UNCHANGED <<index, pc, req, reply>>
    BY <1>17 DEF Unlink
  <2>3. \A g \in Files : disk'[g] = IF g = f THEN NoFile ELSE disk[g]
    BY <2>1 DEF TypeOK
  <2>4. \A u \in Tasks : paths'[u] = IF u = t THEN paths[u] \ {f} ELSE paths[u]
    BY <2>1 DEF TypeOK
  <2>5. \A k \in Keys : disk'[Body(k)] # NoFile /\ (\E u \in Tasks : Body(k) \in paths[u]) =>
                          \E u \in Tasks : Body(k) \in paths'[u]
    BY <1>0, <2>3, <2>4
  <2> HIDE DEF Goal
  <2> QED
    BY <1>p, <1>0, <2>2, <2>3, <2>5, ShrinkStep DEF Goal, Present
<1>18. ASSUME NEW t \in Tasks, UnlinkDone(t) PROVE Goal(p)
  <2>1. UNCHANGED <<disk, index, paths, req, reply>>
    BY <1>18 DEF UnlinkDone
  <2>2. pc'[p] = pc[p] \/ (pc[p] \notin Writing /\ pc'[p] \in Quiet)
    BY <1>0, <1>18 DEF UnlinkDone, Goto, TypeOK, Writing, Quiet, States, PutStates
  <2> QED
    BY <1>d, <2>1, <2>2
<1>19. ASSUME EvictTick \/ Tick PROVE Goal(p)
  <2>1. pc'[p] = pc[p]
    BY <1>p, <1>0, <1>19, StorageAssumption DEF EvictTick, Tick, Goto, TypeOK, Callers
  <2> QED
    BY <1>d, <1>19, <2>1 DEF EvictTick, Tick
<1>20. ASSUME Crash PROVE Goal(p)
  BY <1>0, <1>20 DEF Crash
<1>21. ASSUME NEW t \in Tasks, PutWriteFails(t) PROVE Goal(p)
  BY <1>0, <1>21 DEF PutWriteFails
<1> HIDE DEF Goal
<1>22. Goal(p)
  BY <1>1, <1>2, <1>3, <1>4, <1>5, <1>6, <1>7, <1>8, <1>9, <1>10, <1>11, <1>12, <1>13, <1>14,
     <1>15, <1>16, <1>17, <1>18, <1>19, <1>20, <1>21 DEF Next, Continue
<1> QED
  BY <1>b, <1>22

\* Between two operations the body files are those of the entries, except where one is missing.
LEMMA QuietDisk ==
  ASSUME TypeOK, Intact, SizeExact, WithinCapacity, \A t \in Tasks : pc[t] = "idle"
  PROVE  SumOf([k \in Keys |-> disk[Body(k)].size], Keys) <= MaxSize
<1> DEFINE onDisk == [k \in Keys |-> disk[Body(k)].size]
<1>1. ASSUME NEW k \in Keys
      PROVE  onDisk[k] \in Nat /\ SizeOf[k] \in Nat /\ onDisk[k] <= SizeOf[k]
  <2>1. disk[Body(k)] \in File /\ index[k] \in Entry
    BY DEF TypeOK, Body, Files
  <2>2. disk[Body(k)].size \in Nat /\ index[k].size \in Nat
    BY <2>1 DEF File, Entry
  <2>3. ~Writes(k) /\ \A t \in Tasks : paths[t] = {}
    BY DEF Intact, PathsOK, Writes, Writing, Tasks, Callers
  <2>4. disk[Body(k)] = NoFile \/ disk[Body(k)].size = index[k].size
    BY <2>3 DEF Intact, FileOK, EntryOK
  <2> QED
    BY <2>2, <2>4 DEF SizeOf, NoFile
<1>2. IsFiniteSet(Keys)
  BY StorageAssumption
<1>3. SumOf(onDisk, Keys) <= SumOf(SizeOf, Keys)
  <2> HIDE DEF onDisk
  <2> QED
    BY <1>1, <1>2, SumMonotone
<1>4. SumOf(onDisk, Keys) \in Nat /\ SumOf(SizeOf, Keys) \in Nat
  <2> HIDE DEF onDisk
  <2> QED
    BY <1>1, <1>2, SumType
<1> QED
  BY <1>3, <1>4, StorageAssumption DEF SizeExact, WithinCapacity

LEMMA IntactInitially ==
  ASSUME Init
  PROVE  Intact
<1>1. PathsOK /\ EntriesNumbered
  BY DEF Init, PathsOK, EntriesNumbered, Present, PutStates
<1>2. ASSUME NEW k \in Keys PROVE FileOK(k)
  BY DEF Init, FileOK, Body, Files
<1>3. ASSUME NEW t \in Clients PROVE PutOK(t) /\ GetOK(t) /\ HitOK(t)
  <2>1. pc[t] = "idle" /\ ~reply[t].hit
    BY DEF Init, Tasks, Callers, NoReply
  <2> QED
    BY <2>1 DEF PutOK, GetOK, HitOK
<1> QED
  BY <1>1, <1>2, <1>3 DEF Intact

\* What the files of the cache hold, in every state of the deployment.
THEOREM FilesIntact == ASSUME Deployed PROVE Spec => []Intact
<1>1. Init => Intact
  BY IntactInitially
<1>2. TypeOK /\ TypeOK' /\ Intact /\ [Next]_vars => Intact'
  <2> SUFFICES ASSUME TypeOK, TypeOK', Intact, [Next]_vars PROVE Intact'
    OBVIOUS
  <2>1. CASE UNCHANGED vars
    <3> USE <2>1 DEF vars
    <3>1. PathsOK' /\ EntriesNumbered'
      BY DEF Intact, PathsOK, EntriesNumbered, Present
    <3>2. ASSUME NEW k \in Keys PROVE FileOK(k)'
      BY DEF Intact, FileOK, Present, EntryOK, FromPut, Writes
    <3>3. ASSUME NEW t \in Clients PROVE PutOK(t)' /\ GetOK(t)' /\ HitOK(t)'
      BY DEF Intact, PutOK, GetOK, HitOK, FromPut
    <3> QED
      BY <3>1, <3>2, <3>3 DEF Intact
  <2> QED
    BY <2>1, IntactStep
<1> QED
  BY <1>1, <1>2, TypeCorrect, PTL DEF Spec

\* With one client a hit is the files of one put, whatever is purged, evicted or expires while it
\* reads and while it writes (get_with_stale and put touch the files outside of the lock).
THEOREM HitsStayIntact == ASSUME Deployed PROVE Spec => []HitsAreIntact
<1>1. Intact => HitsAreIntact
  BY DEF Intact, HitOK, HitsAreIntact
<1> QED
  BY <1>1, FilesIntact, PTL

\* The bytes on disk fit the maximum whenever no call is under way: nothing is left behind.
THEOREM NothingLeftBehind == ASSUME Deployed PROVE Spec => []DiskWithinMax
<1>1. TypeOK /\ Intact /\ (SizeExact /\ WithinCapacity) => DiskWithinMax
  BY QuietDisk DEF DiskWithinMax
<1> QED
  BY <1>1, TypeCorrect, FilesIntact, AccountingHolds, PTL

\* Self-healing drops no entry whose body is there: no put of the key comes between the failed
\* read and the second lock, which is what the mutex around the client is good for.
THEOREM HealingIsSound == ASSUME Deployed PROVE Spec => HealsOnlyGhosts
<1>1. TypeOK /\ Intact /\ [Next]_vars =>
        [\A t \in Clients, k \in Keys :
           (/\ pc[t] = "heal" /\ pc'[t] = "idle"
            /\ Present(k) /\ index'[k] = NoEntry) => disk[Body(k)] = NoFile]_vars
  <2> SUFFICES ASSUME TypeOK, Intact, Next, NEW t \in Clients, NEW k \in Keys,
                      pc[t] = "heal", pc'[t] = "idle", Present(k), index'[k] = NoEntry
               PROVE  disk[Body(k)] = NoFile
    OBVIOUS
  <2>0. t \in Tasks /\ ~Crashes /\ disk[Body(req[t].key)] = NoFile
    BY DEF Deployed, Tasks, Callers, Intact, GetOK
  <2>1. ASSUME NEW u \in Tasks, \A v \in Tasks \ {u} : pc'[v] = pc[v] PROVE u = t
    BY <2>0, <2>1
  <2>2. GetHeal(t) \/ UNCHANGED index
    <3>1. ASSUME NEW u \in Clients, NEW j \in Keys,
                 \/ GetMiss(u, j)
                 \/ \E stale \in BOOLEAN : GetExpired(u, j, stale) \/ GetFound(u, j, stale)
                 \/ \E n \in Sizes, ttl \in Ttls, br \in BOOLEAN : PutStart(u, j, n, ttl, br)
          PROVE  FALSE
      <4>1. u \in Tasks /\ pc[u] = "idle" /\ \A v \in Tasks \ {u} : pc'[v] = pc[v]
        BY <3>1 DEF GetMiss, GetExpired, GetFound, PutStart, Goto, Finish, TypeOK, Tasks, Callers
      <4> QED
        BY <2>1, <4>1
    <3>2. ASSUME NEW u \in Callers, (\E S \in PurgeTargets : Purge(u, S)) \/ PurgeAll(u)
          PROVE  FALSE
      <4>1. u \in Tasks /\ pc[u] = "idle" /\ \A v \in Tasks \ {u} : pc'[v] = pc[v]
        BY <3>2 DEF Purge, PurgeAll, Goto, TypeOK, Tasks
      <4> QED
        BY <2>1, <4>1
    <3>3. ASSUME NEW u \in Tasks, Continue(u) PROVE GetHeal(t)
      <4>1. \A v \in Tasks \ {u} : pc'[v] = pc[v]
        BY <3>3 DEF Continue, GetRead, GetReadBr, GetHeal, PutOpen, PutWrite, PutWriteFails,
           PutOpenBr, PutWriteBr, PutRegister, PutRollback, EvictLru, Unlink, UnlinkDone,
           Goto, Finish, TypeOK
      <4> QED
        BY <2>1, <3>3, <4>1 DEF Continue, GetRead, GetReadBr, PutOpen, PutWrite, PutWriteFails,
           PutOpenBr, PutWriteBr, PutRegister, PutRollback, EvictLru, Unlink, UnlinkDone
    <3>4. CASE EvictTick
      <4>1. pc' = [pc EXCEPT ![Evictor] = "evict"] /\ pc[Evictor] = "idle"
        BY <3>4 DEF EvictTick, Goto
      <4> QED
        BY <2>0, <4>1 DEF TypeOK
    <3>5. CASE Tick \/ (\E u \in Callers : Cancel(u)) \/ Crash
      BY <2>0, <3>5 DEF Tick, Cancel, Crash
    <3> QED
      BY <3>1, <3>2, <3>3, <3>4, <3>5 DEF Next
  <2>3. k = req[t].key
    BY <2>2 DEF GetHeal, Drop, Present
  <2> QED
    BY <2>0, <2>3
<1> QED
  BY <1>1, TypeCorrect, FilesIntact, PTL DEF Spec, HealsOnlyGhosts

=============================================================================
