-------------------------- MODULE ProxyCacheProofs --------------------------
(***************************************************************************)
(* The two cache tiers, for any number of requests, keys and versions.     *)
(***************************************************************************)
EXTENDS ProxyCache, TLAPS

\* Type correctness of every step.
LEMMA TypeStep ==
  ASSUME TypeOK, InHandTyped, Next
  PROVE  TypeOK'
<1> USE DEF TypeOK, InHandTyped, InMemory, Saves, requestVars, saveVars, fetchVars
<1>1. ASSUME NEW r \in Requests, NEW k \in Keys, NEW m \in Methods, Arrive(r, k, m)
      PROVE  TypeOK'
  BY <1>1 DEF Arrive, InL1
<1>2. ASSUME NEW r \in Requests, HitL2(r) PROVE TypeOK'
  BY <1>2 DEF HitL2, InL2
<1>3. ASSUME NEW r \in Requests, MissL2(r) PROVE TypeOK'
  BY <1>3 DEF MissL2
<1>4. ASSUME NEW r \in Requests, Promote(r) PROVE TypeOK'
  BY <1>4 DEF Promote, Remember
<1>5. ASSUME NEW r \in Requests, Board(r) PROVE TypeOK'
  BY <1>5 DEF Board, Fetch!Board
<1>6. ASSUME NEW r \in Requests, NEW b \in BOOLEAN, Answered(r, b) PROVE TypeOK'
  BY <1>6 DEF Answered, Copies
<1>7. ASSUME NEW r \in Requests, OriginFails(r) \/ ServeStale(r) PROVE TypeOK'
  BY <1>7 DEF OriginFails, ServeStale, InWindow
<1>8. ASSUME NEW r \in Requests, SpawnSave(r) PROVE TypeOK'
  BY <1>8 DEF SpawnSave
<1>9. ASSUME NEW r \in Requests, Land(r) PROVE TypeOK'
  BY <1>9 DEF Land, Fetch!Land
<1>10. ASSUME NEW r \in Requests, Tell(r) PROVE TypeOK'
  BY <1>10 DEF Tell, Fetch!Tell
<1>11. ASSUME NEW r \in Requests, HangUp(r) PROVE TypeOK'
  BY <1>11 DEF HangUp, Fetch!Land, Leads
<1>12. ASSUME NEW r \in Requests, SavePut(r) PROVE TypeOK'
  <2>1. Stored(saver[r].copy) \in Copies
    BY <1>12 DEF SavePut, Stored, Copies
  <2> QED
    BY <1>12, <2>1 DEF SavePut
<1>13. ASSUME NEW r \in Requests, SaveInsert(r) PROVE TypeOK'
  BY <1>13 DEF SaveInsert, Remember
<1>14. ASSUME NEW r \in Requests, SaveRelease(r) PROVE TypeOK'
  BY <1>14 DEF SaveRelease
<1>15. ASSUME NEW p \in Purges, PurgeL1(p) PROVE TypeOK'
  BY <1>15, ProxyAssumption DEF PurgeL1, InHand
<1>16. ASSUME PurgeL2 PROVE TypeOK'
  BY <1>16 DEF PurgeL2
<1>17. ASSUME NEW k \in Keys, Publish(k) \/ Forget(k) PROVE TypeOK'
  BY <1>17, ProxyAssumption DEF Publish, Forget
<1>18. ASSUME Tick PROVE TypeOK'
  BY <1>18, ProxyAssumption DEF Tick
<1> QED
  BY <1>1, <1>2, <1>3, <1>4, <1>5, <1>6, <1>7, <1>8, <1>9, <1>10, <1>11, <1>12, <1>13,
     <1>14, <1>15, <1>16, <1>17, <1>18 DEF Next, Step, Save

-----------------------------------------------------------------------------
(* Requests, the storage mutex and the save tracker *)

\* A request keeps its key once it has one, and has a copy in hand where it needs one.
LEMMA HandStep ==
  ASSUME TypeOK, InHandTyped, Next
  PROVE  InHandTyped'
<1> USE DEF TypeOK, InHandTyped, InMemory, Saves, requestVars, saveVars, fetchVars
<1>1. ASSUME NEW r \in Requests, NEW k \in Keys, NEW m \in Methods, Arrive(r, k, m)
      PROVE  InHandTyped'
  BY <1>1 DEF Arrive, InL1
<1>2. ASSUME NEW r \in Requests, HitL2(r) \/ MissL2(r) \/ Promote(r) PROVE InHandTyped'
  BY <1>2 DEF HitL2, MissL2, Promote, InL2
<1>3. ASSUME NEW r \in Requests, Board(r) PROVE InHandTyped'
  BY <1>3 DEF Board
<1>4. ASSUME NEW r \in Requests, NEW b \in BOOLEAN, Answered(r, b) PROVE InHandTyped'
  BY <1>4 DEF Answered, Copies
<1>5. ASSUME NEW r \in Requests, OriginFails(r) \/ ServeStale(r) PROVE InHandTyped'
  BY <1>5 DEF OriginFails, ServeStale, InWindow
<1>6. ASSUME NEW r \in Requests, SpawnSave(r) PROVE InHandTyped'
  BY <1>6 DEF SpawnSave
<1>7. ASSUME NEW r \in Requests, Land(r) \/ Tell(r) \/ HangUp(r) PROVE InHandTyped'
  BY <1>7 DEF Land, Tell, HangUp
<1>8. ASSUME NEW r \in Requests, Save(r) PROVE InHandTyped'
  BY <1>8 DEF Save, SavePut, SaveInsert, SaveRelease
<1>9. ASSUME NEW p \in Purges, PurgeL1(p) PROVE InHandTyped'
  BY <1>9 DEF PurgeL1
<1>10. ASSUME NEW k \in Keys, Publish(k) \/ Forget(k) PROVE InHandTyped'
  BY <1>10 DEF Publish, Forget
<1>11. ASSUME PurgeL2 \/ Tick PROVE InHandTyped'
  BY <1>11 DEF PurgeL2, Tick
<1> QED
  BY <1>1, <1>2, <1>3, <1>4, <1>5, <1>6, <1>7, <1>8, <1>9, <1>10, <1>11 DEF Next, Step

\* The mutex is taken by a hit and given back by the promotion or the hang-up.
LEMMA MutexStep ==
  ASSUME TypeOK, MutexIsPromotion, Next
  PROVE  MutexIsPromotion'
<1> USE ProxyAssumption DEF TypeOK, MutexIsPromotion, requestVars
<1>1. ASSUME NEW r \in Requests, NEW k \in Keys, NEW m \in Methods, Arrive(r, k, m)
      PROVE  MutexIsPromotion'
  BY <1>1 DEF Arrive
<1>2. ASSUME NEW r \in Requests, HitL2(r) \/ MissL2(r) \/ Promote(r) PROVE MutexIsPromotion'
  BY <1>2 DEF HitL2, MissL2, Promote
<1>3. ASSUME NEW r \in Requests, NEW b \in BOOLEAN, Answered(r, b) PROVE MutexIsPromotion'
  BY <1>3 DEF Answered
<1>4. ASSUME NEW r \in Requests, Board(r) \/ OriginFails(r) \/ ServeStale(r) \/ SpawnSave(r)
      PROVE  MutexIsPromotion'
  BY <1>4 DEF Board, OriginFails, ServeStale, SpawnSave
<1>5. ASSUME NEW r \in Requests, Land(r) \/ Tell(r) \/ HangUp(r) PROVE MutexIsPromotion'
  BY <1>5 DEF Land, Tell, HangUp
<1>6. ASSUME NEW r \in Requests, Save(r) PROVE MutexIsPromotion'
  BY <1>6 DEF Save, SavePut, SaveInsert, SaveRelease
<1>7. ASSUME NEW p \in Purges, PurgeL1(p) PROVE MutexIsPromotion'
  BY <1>7 DEF PurgeL1
<1>8. ASSUME NEW k \in Keys, Publish(k) \/ Forget(k) PROVE MutexIsPromotion'
  BY <1>8 DEF Publish, Forget
<1>9. ASSUME PurgeL2 \/ Tick PROVE MutexIsPromotion'
  BY <1>9 DEF PurgeL2, Tick
<1> QED
  BY <1>1, <1>2, <1>3, <1>4, <1>5, <1>6, <1>7, <1>8, <1>9 DEF Next, Step

\* The save of r puts the copy c, stored now, and goes on to L1 with it.
Puts(r, c) ==
  /\ saver' = [saver EXCEPT ![r] = [step |-> "insert", copy |-> c]]
  /\ [step |-> "insert", copy |-> c] # None
  /\ c.ver = saver[r].copy.ver
  /\ \/ l2' = [l2 EXCEPT ![key[r]] = c]
     \/ l2' = l2 /\ "put" \in Faults

LEMMA PutCopy ==
  ASSUME TypeOK, NEW r \in Requests, SavePut(r)
  PROVE  \E c \in Copies : Puts(r, c)
<1> DEFINE c == Stored(saver[r].copy)
<1>1. c \in Copies /\ c.ver = saver[r].copy.ver
  BY DEF SavePut, TypeOK, Saves, Copies, Stored
<1>2. [step |-> "insert", copy |-> c] # None
  BY <1>1, ProxyAssumption DEF Saves
<1>3. Puts(r, c)
  BY <1>1, <1>2 DEF SavePut, Puts
<1> QED
  BY <1>1, <1>3

\* A save starts only on an untracked key, and ends with its release.
LEMMA SavesStep ==
  ASSUME TypeOK, InHandTyped, SavesTracked, Next
  PROVE  SavesTracked'
<1>put. ASSUME NEW r \in Requests, SavePut(r) PROVE saver'[r] # None
  <2>1. PICK c \in Copies : Puts(r, c)
    BY <1>put, PutCopy
  <2> QED
    BY <2>1 DEF TypeOK, Puts
<1> USE DEF TypeOK, InHandTyped, SavesTracked, requestVars, saveVars
<1>1. ASSUME NEW r \in Requests, NEW k \in Keys, NEW m \in Methods, Arrive(r, k, m)
      PROVE  SavesTracked'
  BY <1>1 DEF Arrive
<1>2. ASSUME NEW r \in Requests, HitL2(r) \/ MissL2(r) \/ Promote(r) PROVE SavesTracked'
  BY <1>2 DEF HitL2, MissL2, Promote
<1>3. ASSUME NEW r \in Requests, NEW b \in BOOLEAN, Answered(r, b) PROVE SavesTracked'
  BY <1>3 DEF Answered
<1>4. ASSUME NEW r \in Requests, Board(r) \/ OriginFails(r) \/ ServeStale(r)
      PROVE  SavesTracked'
  BY <1>4 DEF Board, OriginFails, ServeStale
<1>5. ASSUME NEW r \in Requests, SpawnSave(r) PROVE SavesTracked'
  <2>1. CASE key[r] \in saving
    BY <1>5, <2>1 DEF SpawnSave
  <2>2. CASE key[r] \notin saving
    <3>1. [step |-> "put", copy |-> got[r]] # None
      BY <1>5, ProxyAssumption DEF SpawnSave, Saves
    <3>2. saver'[r] # None /\ \A q \in Requests \ {r} : saver'[q] = saver[q]
      BY <1>5, <2>2, <3>1 DEF SpawnSave
    <3>3. \A q \in Requests : saver[q] # None => key[q] # key[r]
      BY <2>2
    <3> QED
      BY <1>5, <2>2, <3>2, <3>3 DEF SpawnSave
  <2> QED
    BY <2>1, <2>2
<1>6. ASSUME NEW r \in Requests, Land(r) \/ Tell(r) \/ HangUp(r) PROVE SavesTracked'
  BY <1>6 DEF Land, Tell, HangUp
<1>7. ASSUME NEW r \in Requests, SavePut(r) \/ SaveInsert(r) PROVE SavesTracked'
  <2>1. saver'[r] # None
    <3>1. CASE SavePut(r)
      BY <3>1, <1>put
    <3>2. CASE SaveInsert(r)
      <4>1. [saver[r] EXCEPT !.step = "release"] \in Saves
        BY <3>2 DEF SaveInsert, Saves
      <4> QED
        BY <3>2, <4>1, ProxyAssumption DEF SaveInsert
    <3> QED
      BY <1>7, <3>1, <3>2
  <2>2. saver[r] # None /\ \A q \in Requests \ {r} : saver'[q] = saver[q]
    BY <1>7 DEF SavePut, SaveInsert
  <2> QED
    BY <1>7, <2>1, <2>2 DEF SavePut, SaveInsert
<1>8. ASSUME NEW r \in Requests, SaveRelease(r) PROVE SavesTracked'
  BY <1>8 DEF SaveRelease
<1>9. ASSUME NEW p \in Purges, PurgeL1(p) PROVE SavesTracked'
  BY <1>9 DEF PurgeL1
<1>10. ASSUME NEW k \in Keys, Publish(k) \/ Forget(k) PROVE SavesTracked'
  BY <1>10 DEF Publish, Forget
<1>11. ASSUME PurgeL2 \/ Tick PROVE SavesTracked'
  BY <1>11 DEF PurgeL2, Tick
<1> QED
  BY <1>1, <1>2, <1>3, <1>4, <1>5, <1>6, <1>7, <1>8, <1>9, <1>10, <1>11 DEF Next, Step, Save

-----------------------------------------------------------------------------
(* The two tiers *)

Tiers == OnTheWay /\ TiersAgree

\* The tiers agree after every step, if the storage service keeps what it is given.
LEMMA TiersStep ==
  ASSUME TypeOK, InHandTyped, MutexIsPromotion, SavesTracked, Tiers, Next, TiersKeep
  PROVE  Tiers'
<1>put. ASSUME NEW r \in Requests, SavePut(r) PROVE \E c \in Copies : Puts(r, c)
  BY <1>put, PutCopy
<1>rem. ASSUME NEW k \in Keys, NEW c \in Copies, Remember(k, c)
        PROVE  \/ l1' = [l1 EXCEPT ![k] = [copy |-> c, at |-> now]]
               \/ l1' = l1 /\ ~FitsL1(c)
  BY <1>rem DEF Remember
<1>keep. "put" \notin Faults
  BY DEF TiersKeep
<1> USE ProxyAssumption
    DEF TypeOK, InHandTyped, MutexIsPromotion, Tiers, OnTheWay, TiersAgree, Inserting,
        InMemory, Saves, requestVars, saveVars
<1>1. ASSUME NEW r \in Requests, NEW k \in Keys, NEW m \in Methods, Arrive(r, k, m)
      PROVE  Tiers'
  BY <1>1 DEF Arrive
<1>2. ASSUME NEW r \in Requests, HitL2(r) PROVE Tiers'
  BY <1>2 DEF HitL2
<1>3. ASSUME NEW r \in Requests, MissL2(r) PROVE Tiers'
  BY <1>3 DEF MissL2
<1>4. ASSUME NEW r \in Requests, Promote(r) PROVE Tiers'
  <2>1. CASE l1' = [l1 EXCEPT ![key[r]] = [copy |-> got[r], at |-> now]]
    BY <1>4, <2>1 DEF Promote
  <2>2. CASE l1' = l1
    BY <1>4, <2>2 DEF Promote
  <2> QED
    BY <1>4, <1>rem, <2>1, <2>2 DEF Promote
<1>5. ASSUME NEW r \in Requests, NEW b \in BOOLEAN, Answered(r, b) PROVE Tiers'
  BY <1>5 DEF Answered
<1>6. ASSUME NEW r \in Requests, Board(r) \/ OriginFails(r) \/ ServeStale(r) PROVE Tiers'
  BY <1>6 DEF Board, OriginFails, ServeStale
<1>7. ASSUME NEW r \in Requests, SpawnSave(r) PROVE Tiers'
  BY <1>7 DEF SpawnSave
<1>8. ASSUME NEW r \in Requests, Land(r) \/ Tell(r) \/ HangUp(r) PROVE Tiers'
  BY <1>8 DEF Land, Tell, HangUp
<1>9. ASSUME NEW r \in Requests, SavePut(r) PROVE Tiers'
  <2>1. PICK c \in Copies : /\ saver' = [saver EXCEPT ![r] = [step |-> "insert", copy |-> c]]
                           /\ [step |-> "insert", copy |-> c] # None
                           /\ l2' = [l2 EXCEPT ![key[r]] = c]
    BY <1>9, <1>put, <1>keep DEF Puts
  <2>2. saver[r] # None /\ storage = Nobody /\ UNCHANGED <<key, pc, got, l1>>
    BY <1>9 DEF SavePut
  <2>3. saver'[r].step = "insert" /\ saver'[r].copy = c /\ saver'[r] # None
    BY <2>1
  <2>4. \A q \in Requests : q # r /\ saver[q] # None => key[q] # key[r]
    BY <2>2 DEF SavesTracked
  <2>5. \A q \in Requests : pc[q] # "promote"
    BY <2>2
  <2>6. OnTheWay'
    BY <2>1, <2>2, <2>3, <2>4, <2>5
  <2>7. Inserting(key[r])' /\ \A k \in Keys \ {key[r]} : Inserting(k) => Inserting(k)'
    BY <2>1, <2>2, <2>3
  <2>8. TiersAgree'
    BY <2>1, <2>2, <2>7
  <2> QED
    BY <2>6, <2>8
<1>10. ASSUME NEW r \in Requests, SaveInsert(r) PROVE Tiers'
  <2>1. CASE l1' = [l1 EXCEPT ![key[r]] = [copy |-> saver[r].copy, at |-> now]]
    BY <1>10, <2>1 DEF SaveInsert, SavesTracked
  <2>2. CASE l1' = l1 /\ ~FitsL1(saver[r].copy)
    BY <1>10, <2>2 DEF SaveInsert, SavesTracked
  <2> QED
    BY <1>10, <1>rem, <2>1, <2>2 DEF SaveInsert
<1>11. ASSUME NEW r \in Requests, SaveRelease(r) PROVE Tiers'
  BY <1>11 DEF SaveRelease
<1>12. ASSUME NEW p \in Purges, PurgeL1(p) PROVE Tiers'
  BY <1>12 DEF PurgeL1
<1>13. ASSUME NEW k \in Keys, Publish(k) \/ Forget(k) PROVE Tiers'
  BY <1>13 DEF Publish, Forget
<1>14. ASSUME PurgeL2 \/ Tick PROVE Tiers'
  BY <1>14 DEF PurgeL2, Tick
<1> QED
  BY <1>1, <1>2, <1>3, <1>4, <1>5, <1>6, <1>7, <1>8, <1>9, <1>10, <1>11, <1>12, <1>13,
     <1>14 DEF Next, Step, Save

\* A copy is in its L2 lifetime when it enters L1.
LEMMA AgeStep ==
  ASSUME TypeOK, InHandTyped, EntersInTime, Next
  PROVE  EntersInTime'
<1> USE ProxyAssumption
    DEF TypeOK, InHandTyped, EntersInTime, InMemory, Saves, Copies, requestVars, saveVars,
        Remember
<1>1. ASSUME NEW r \in Requests, NEW k \in Keys, NEW m \in Methods, Arrive(r, k, m)
      PROVE  EntersInTime'
  BY <1>1 DEF Arrive
<1>2. ASSUME NEW r \in Requests, HitL2(r) PROVE EntersInTime'
  BY <1>2 DEF HitL2, InL2
<1>3. ASSUME NEW r \in Requests, MissL2(r) \/ Board(r) \/ OriginFails(r) \/ ServeStale(r)
      PROVE  EntersInTime'
  BY <1>3 DEF MissL2, Board, OriginFails, ServeStale
<1>4. ASSUME NEW r \in Requests, Promote(r) PROVE EntersInTime'
  BY <1>4 DEF Promote
<1>5. ASSUME NEW r \in Requests, NEW b \in BOOLEAN, Answered(r, b) PROVE EntersInTime'
  BY <1>5 DEF Answered
<1>6. ASSUME NEW r \in Requests, SpawnSave(r) PROVE EntersInTime'
  BY <1>6 DEF SpawnSave
<1>7. ASSUME NEW r \in Requests, Land(r) \/ Tell(r) \/ HangUp(r) PROVE EntersInTime'
  BY <1>7 DEF Land, Tell, HangUp
<1>8. ASSUME NEW r \in Requests, SavePut(r) PROVE EntersInTime'
  BY <1>8 DEF SavePut, Stored
<1>9. ASSUME NEW r \in Requests, Save(r), ~SavePut(r) PROVE EntersInTime'
  <2>1. CASE SaveInsert(r)
    <3>1. \A q \in Requests \ {r} : saver'[q] = saver[q]
      BY <2>1 DEF SaveInsert
    <3>2. saver'[r].step = "release"
      BY <2>1 DEF SaveInsert
    <3>3. l1'[key[r]] # None => l1'[key[r]].at =< l1'[key[r]].copy.put + Ttl
      BY <2>1 DEF SaveInsert
    <3>4. \A k \in Keys \ {key[r]} : l1'[k] = l1[k]
      BY <2>1 DEF SaveInsert
    <3> QED
      BY <2>1, <3>1, <3>2, <3>3, <3>4 DEF SaveInsert
  <2>2. CASE SaveRelease(r)
    BY <2>2 DEF SaveRelease
  <2> QED
    BY <1>9, <2>1, <2>2 DEF Save
<1>10. ASSUME NEW p \in Purges, PurgeL1(p) PROVE EntersInTime'
  BY <1>10 DEF PurgeL1
<1>11. ASSUME NEW k \in Keys, Publish(k) \/ Forget(k) PROVE EntersInTime'
  <2>1. CASE Publish(k)
    BY <2>1 DEF Publish
  <2>2. CASE Forget(k)
    BY <2>2 DEF Forget
  <2> QED
    BY <1>11, <2>1, <2>2
<1>12. ASSUME PurgeL2 \/ Tick PROVE EntersInTime'
  BY <1>12 DEF PurgeL2, Tick
<1> QED
  BY <1>1, <1>2, <1>3, <1>4, <1>5, <1>6, <1>7, <1>8, <1>9, <1>10, <1>11, <1>12
     DEF Next, Step, Save

-----------------------------------------------------------------------------
(* Purges *)

\* A hit on a purged key between the two parts of a purge disturbs it, and nothing else
\* brings back what is older than the purge.
LEMMA PurgeStep ==
  ASSUME TypeOK, InHandTyped, Undisturbed, Next
  PROVE  Undisturbed'
<1>put. ASSUME NEW r \in Requests, SavePut(r) PROVE \E c \in Copies : Puts(r, c)
  BY <1>put, PutCopy
<1> USE ProxyAssumption
    DEF TypeOK, InHandTyped, Undisturbed, InMemory, Saves, Copies, requestVars, saveVars
<1>1. ASSUME NEW r \in Requests, NEW k \in Keys, NEW m \in Methods, Arrive(r, k, m)
      PROVE  Undisturbed'
  BY <1>1 DEF Arrive
<1>2. ASSUME NEW r \in Requests, HitL2(r) PROVE Undisturbed'
  BY <1>2 DEF HitL2, InL2
<1>3. ASSUME NEW r \in Requests, MissL2(r) PROVE Undisturbed'
  BY <1>3 DEF MissL2
<1>4. ASSUME NEW r \in Requests, Promote(r) PROVE Undisturbed'
  BY <1>4 DEF Promote, Remember
<1>5. ASSUME NEW r \in Requests, NEW b \in BOOLEAN, Answered(r, b) PROVE Undisturbed'
  BY <1>5 DEF Answered
<1>6. ASSUME NEW r \in Requests, Board(r) \/ OriginFails(r) \/ ServeStale(r)
      PROVE  Undisturbed'
  BY <1>6 DEF Board, OriginFails, ServeStale
<1>7. ASSUME NEW r \in Requests, SpawnSave(r) PROVE Undisturbed'
  BY <1>7 DEF SpawnSave
<1>8. ASSUME NEW r \in Requests, Land(r) \/ Tell(r) \/ HangUp(r) PROVE Undisturbed'
  BY <1>8 DEF Land, Tell, HangUp
<1>9. ASSUME NEW r \in Requests, SavePut(r) PROVE Undisturbed'
  <2>1. PICK c \in Copies : Puts(r, c)
    BY <1>9, <1>put
  <2>2. saver[r] # None /\ UNCHANGED <<purge, version, l1, key, pc, got>>
    BY <1>9 DEF SavePut
  <2>3. saver'[r].copy = c /\ \A q \in Requests \ {r} : saver'[q] = saver[q]
    BY <2>1 DEF Puts
  <2>4. l2'[key[r]] \in {c, l2[key[r]]} /\ \A k \in Keys \ {key[r]} : l2'[k] = l2[k]
    BY <2>1, <2>2 DEF Puts
  <2>5. c.ver = saver[r].copy.ver
    BY <2>1 DEF Puts
  <2>6. ASSUME purge # None, CoversL1, ~purge.disturbed, NEW k \in purge.keys
        PROVE  /\ l1[k] # None => l1[k].copy.ver >= purge.since[k]
               /\ purge.state = "done" /\ l2'[k] # None => l2'[k].ver >= purge.since[k]
               /\ \A q \in Requests : key[q] = k =>
                    /\ pc[q] \in {"promote", "store"} => got[q].ver >= purge.since[k]
                    /\ saver'[q] # None => saver'[q].copy.ver >= purge.since[k]
    <3>1. k \in Keys
      BY <2>6
    <3>2. key[r] = k => c.ver >= purge.since[k]
      BY <2>2, <2>5, <2>6
    <3>3. \A q \in Requests : key[q] = k /\ saver'[q] # None =>
            saver'[q].copy.ver >= purge.since[k]
      BY <2>3, <2>6, <3>2
    <3>4. purge.state = "done" /\ l2'[k] # None => l2'[k].ver >= purge.since[k]
      BY <2>4, <2>6, <3>1, <3>2
    <3> QED
      BY <2>6, <3>3, <3>4
  <2> QED
    BY <2>2, <2>6
<1>10. ASSUME NEW r \in Requests, SaveInsert(r) PROVE Undisturbed'
  BY <1>10 DEF SaveInsert, Remember
<1>11. ASSUME NEW r \in Requests, SaveRelease(r) PROVE Undisturbed'
  BY <1>11 DEF SaveRelease
<1>12. ASSUME NEW p \in Purges, PurgeL1(p) PROVE Undisturbed'
  BY <1>12 DEF PurgeL1, InHand, CoversL1, CoversL1
<1>13. ASSUME PurgeL2 PROVE Undisturbed'
  BY <1>13 DEF PurgeL2, CoversL1
<1>14. ASSUME NEW k \in Keys, Publish(k) \/ Forget(k) PROVE Undisturbed'
  <2>1. CASE Publish(k)
    BY <2>1 DEF Publish
  <2>2. CASE Forget(k)
    BY <2>2 DEF Forget
  <2> QED
    BY <1>14, <2>1, <2>2
<1>15. ASSUME Tick PROVE Undisturbed'
  BY <1>15 DEF Tick
<1> QED
  BY <1>1, <1>2, <1>3, <1>4, <1>5, <1>6, <1>7, <1>8, <1>9, <1>10, <1>11, <1>12, <1>13,
     <1>14, <1>15 DEF Next, Step, Save

-----------------------------------------------------------------------------
(* The theorems *)

LEMMA InvInit ==
  ASSUME Init
  PROVE  ProxyInv
<1> USE ProxyAssumption DEF Init, Fetch!FetchInit
<1>1. TypeOK
  BY DEF TypeOK
<1>2. InHandTyped /\ MutexIsPromotion /\ SavesTracked
  BY DEF InHandTyped, MutexIsPromotion, SavesTracked
<1>3. OnTheWay /\ TiersAgree /\ EntersInTime /\ Undisturbed
  BY DEF OnTheWay, TiersAgree, EntersInTime, Undisturbed
<1> QED
  BY <1>1, <1>2, <1>3 DEF ProxyInv

LEMMA InvStep ==
  ASSUME ProxyInv, [Next]_vars
  PROVE  ProxyInv'
<1>1. CASE Next
  BY <1>1, TypeStep, HandStep, MutexStep, SavesStep, TiersStep, AgeStep, PurgeStep
     DEF ProxyInv, Tiers
<1>2. CASE UNCHANGED vars
  <2> USE <1>2 DEF vars, requestVars, saveVars, fetchVars
  <2>1. TypeOK' /\ InHandTyped' /\ MutexIsPromotion' /\ SavesTracked'
    BY DEF ProxyInv, TypeOK, InHandTyped, MutexIsPromotion, SavesTracked
  <2>2. TiersKeep => OnTheWay' /\ TiersAgree'
    BY DEF ProxyInv, OnTheWay, TiersAgree, Inserting
  <2>3. EntersInTime' /\ Undisturbed'
    BY DEF ProxyInv, EntersInTime, Undisturbed
  <2> QED
    BY <2>1, <2>2, <2>3 DEF ProxyInv
<1> QED
  BY <1>1, <1>2

\* The conjunction that the two tiers, the save tracker and the purges keep up together.
THEOREM InvHolds == Spec => []ProxyInv
<1>1. Init => ProxyInv
  BY InvInit
<1>2. ProxyInv /\ [Next]_vars => ProxyInv'
  BY InvStep
<1> QED
  BY <1>1, <1>2, PTL DEF Spec

\* The variables keep their types through every request, save and purge.
THEOREM TypeCorrect == Spec => []TypeOK
<1>1. ProxyInv => TypeOK
  BY DEF ProxyInv
<1> QED
  BY <1>1, InvHolds, PTL

\* At most one save of a key runs, and a key is tracked exactly while it does.
THEOREM SavesAreTracked == Spec => []SavesTracked
<1>1. ProxyInv => SavesTracked
  BY DEF ProxyInv
<1> QED
  BY <1>1, InvHolds, PTL

\* With a storage service that stores what it is given, both tiers show the same copy.
THEOREM TiersDoAgree ==
  ASSUME TiersKeep
  PROVE  Spec => []TiersAgree
<1>1. ProxyInv => TiersAgree
  BY DEF ProxyInv
<1> QED
  BY <1>1, InvHolds, PTL

\* L1 serves no copy longer than the lifetimes of the two tiers together.
THEOREM AgeIsBounded == Spec => []AgeBounded
<1>1. ProxyInv => AgeBounded
  BY ProxyAssumption
     DEF ProxyInv, EntersInTime, AgeBounded, InL1, TypeOK, InMemory, Copies
<1> QED
  BY <1>1, InvHolds, PTL

\* A purge by the proxy, which clears in L1 what it clears in L2, is effective if nothing
\* disturbs it.
THEOREM QuietPurgeIsEffective ==
  ASSUME CoversL1
  PROVE  Spec => []QuietPurgeClears
<1>1. ProxyInv => QuietPurgeClears
  BY DEF ProxyInv, Undisturbed, QuietPurgeClears, Cleared
<1> QED
  BY <1>1, InvHolds, PTL

=============================================================================
