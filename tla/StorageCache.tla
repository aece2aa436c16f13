---------------------------- MODULE StorageCache ----------------------------
(***************************************************************************)
(* The disk cache of storage-service (services/storage-service/src):       *)
(* CacheLayer of cache.rs behind the RPCs of grpc.rs and the eviction loop *)
(* of main.rs.                                                             *)
(*                                                                         *)
(* An entry lives in two places: the in-memory index, guarded by a mutex,  *)
(* and files in cache_dir, which every operation touches outside that      *)
(* mutex.  An action is what a task does between two await points: one     *)
(* critical section, or one file operation.  Every RPC runs in a task of   *)
(* its own, so critical sections and file operations of several calls      *)
(* interleave.                                                             *)
(***************************************************************************)
EXTENDS Sums

CONSTANTS
  Keys,         \* cache keys (SHA-256 of method, host, path and query)
  DomainOf,     \* DomainOf[k]: the domain an entry is filed under
  MaxSize,      \* max_size_bytes
  Sizes,        \* body sizes that occur in the model
  Ttls,         \* values of PutRequest.ttl_secs that occur in the model
  HardPct,      \* STORAGE_EVICT_HARD_RATIO, in percent
  TargetPct,    \* STORAGE_EVICT_TARGET_RATIO, in percent
  Clients,      \* callers that get and put (the proxy has one: its client is behind a mutex)
  Admins,       \* callers that only purge (admin-server)
  Evictor,      \* the task of main.rs that evicts periodically
  MaxTime,      \* bound: the clock stops here
  MaxPuts,      \* bound: number of put calls
  Crashes,      \* may the process be restarted?
  CancelAt,     \* where a call may be dropped (client gone, deadline): pc values
  DiskFaults    \* may a file write fail?

Callers == Clients \cup Admins
Tasks   == Callers \cup {Evictor}

ASSUME StorageAssumption ==
  /\ IsFiniteSet(Keys) /\ Keys # {}
  /\ MaxSize \in Nat
  /\ Sizes \subseteq Nat
  /\ Ttls \subseteq Nat
  /\ HardPct \in 1 .. 100 /\ TargetPct \in 1 .. 100 /\ TargetPct < HardPct
  /\ Evictor \notin Callers
  /\ MaxTime \in Nat /\ MaxPuts \in Nat
  /\ Crashes \in BOOLEAN /\ DiskFaults \in BOOLEAN

VARIABLES
  now,           \* Utc::now()
  index,         \* index[k]: the entry of k, or NoEntry
  current_size,  \* the AtomicU64 beside the index
  disk,          \* disk[f]: content of file f, or NoFile
  pc,            \* pc[t]: what task t awaits
  req,           \* req[t]: arguments and locals of the call t serves
  paths,         \* paths[t]: files t has still to unlink
  needed,        \* needed[t]: bytes t has decided to evict
  reply,         \* reply[t]: what t answered to its last get
  puts           \* number of put calls so far; numbers the stored versions

vars == <<now, index, current_size, disk, pc, req, paths, needed, reply, puts>>

\* {key} and {key}.br in cache_dir.  ({key}.headers.json is written and removed
\* along with them and never read: the headers are served from the index.)
Files == Keys \X {"body", "br"}
Body(k) == <<k, "body">>
Br(k)   == <<k, "br">>

\* ver identifies the put call an entry or a file comes from.
NoEntry == [ver |-> 0, size |-> 0, expires |-> 0, accessed |-> 0, has_br |-> FALSE]
NoFile  == [ver |-> 0, size |-> 0, whole |-> FALSE]
NoReq   == [key |-> CHOOSE k \in Keys : TRUE, ver |-> 0, size |-> 0, ttl |-> 0,
            br |-> FALSE, at |-> 0, body |-> NoFile]
NoReply == [hit |-> FALSE, ver |-> 0, body |-> NoFile, br |-> NoFile]

Entry   == [ver : Nat, size : Nat, expires : Nat, accessed : Nat, has_br : BOOLEAN]
File    == [ver : Nat, size : Nat, whole : BOOLEAN]
Request == [key : Keys, ver : Nat, size : Nat, ttl : Nat, br : BOOLEAN,
            at : Nat, body : File]
Reply   == [hit : BOOLEAN, ver : Nat, body : File, br : File]

\* Where a task may be suspended; PutStates are the ones of a put past its size check.
PutStates == {"put_evict", "put_unlink", "open", "write", "open_br", "write_br",
              "register", "rollback"}
States == PutStates \cup {"idle", "evict", "unlink", "read", "read_br", "heal"}

Present(k) == index[k] # NoEntry
Indexed    == {k \in Keys : Present(k)}
SizeOf     == [k \in Keys |-> index[k].size]

\* expires = 0 stands for expires_at = None, as in GetResponse.
IsExpired(e) == e.expires # 0 /\ now > e.expires

\* The types of the variables of CacheLayer and of the calls under way; the bytes a
\* caller has decided to evict are a usize, so never negative.
TypeOK ==
  /\ now \in Nat
  /\ index \in [Keys -> Entry]
  /\ current_size \in Int
  /\ disk \in [Files -> File]
  /\ pc \in [Tasks -> States]
  /\ req \in [Tasks -> Request]
  /\ paths \in [Tasks -> SUBSET Files]
  /\ needed \in [Tasks -> Nat]
  /\ reply \in [Tasks -> Reply]
  /\ puts \in Nat

\* CacheLayer::new: whatever cache_dir holds, the index starts empty.
Init ==
  /\ now = 0
  /\ index = [k \in Keys |-> NoEntry]
  /\ current_size = 0
  /\ disk = [f \in Files |-> NoFile]
  /\ pc = [t \in Tasks |-> "idle"]
  /\ req = [t \in Tasks |-> NoReq]
  /\ paths = [t \in Tasks |-> {}]
  /\ needed = [t \in Tasks |-> 0]
  /\ reply = [t \in Tasks |-> NoReply]
  /\ puts = 0

-----------------------------------------------------------------------------
(* Pieces of actions *)

\* Mutant of Drop: the bytes of the dropped entries are not subtracted.
DropUncounted(S) ==
  /\ index' = [k \in Keys |-> IF k \in S THEN NoEntry ELSE index[k]]
  /\ UNCHANGED current_size

\* Critical section: drop the entries of S and subtract their bytes.
Drop(S) ==
  /\ index' = [k \in Keys |-> IF k \in S THEN NoEntry ELSE index[k]]
  /\ current_size' = current_size - SumOf(SizeOf, S)

\* Mutant of FilesOf: the body file is left on disk.
FilesOfVariant(S) == {f \in Files : f[1] \in S /\ f[2] = "br"}

\* The files of the entries of S, which are unlinked after the critical section.
FilesOf(S) == {f \in Files : f[1] \in S}

Goto(t, s) == pc' = [pc EXCEPT ![t] = s]

\* Task t returns; what it answers to a get is r.
Finish(t, r) ==
  /\ Goto(t, "idle")
  /\ req' = [req EXCEPT ![t] = NoReq]
  /\ reply' = [reply EXCEPT ![t] = r]

\* evict_lru collects the entries by accessed_at, oldest first, until it has
\* freed n bytes or the index is exhausted.  Entries accessed at the same
\* instant come in any order.
Evicted(n) ==
  {S \in SUBSET Indexed :
     /\ \A a \in S, b \in Indexed \ S : index[a].accessed <= index[b].accessed
     /\ SumOf(SizeOf, S) >= n \/ S = Indexed
     /\ S # {} => \E last \in S :
          /\ \A a \in S : index[a].accessed <= index[last].accessed
          /\ SumOf(SizeOf, S \ {last}) < n}

-----------------------------------------------------------------------------
(* get: get_with_stale, called by the RPC with GetRequest.allow_stale *)

\* No entry: answer a miss.
GetMiss(t, k) ==
  /\ pc[t] = "idle"
  /\ ~Present(k)
  /\ Finish(t, NoReply)
  /\ UNCHANGED <<now, index, current_size, disk, paths, needed, puts>>

\* An expired entry is dropped unless the caller accepts it; its files go next.
GetExpired(t, k, allow_stale) ==
  /\ pc[t] = "idle"
  /\ Present(k) /\ IsExpired(index[k]) /\ ~allow_stale
  /\ Drop({k})
  /\ paths' = [paths EXCEPT ![t] = FilesOf({k})]
  /\ Goto(t, "unlink")
  /\ reply' = [reply EXCEPT ![t] = NoReply]
  /\ UNCHANGED <<now, disk, req, needed, puts>>

\* A usable entry: copy its metadata, note the access, and go on to the file.
GetFound(t, k, allow_stale) ==
  /\ pc[t] = "idle"
  /\ Present(k) /\ (IsExpired(index[k]) => allow_stale)
  /\ index' = IF IsExpired(index[k])
                THEN index ELSE [index EXCEPT ![k].accessed = now]
  /\ req' = [req EXCEPT ![t] =
               [NoReq EXCEPT !.key = k, !.ver = index[k].ver, !.br = index[k].has_br]]
  /\ Goto(t, "read")
  /\ reply' = [reply EXCEPT ![t] = NoReply]
  /\ UNCHANGED <<now, current_size, disk, paths, needed, puts>>

\* Mutant of GetRead: a missing body is answered as it is.
GetReadAnyway(t) ==
  LET r == req[t] IN
  /\ pc[t] = "read"
  /\ Finish(t, [hit |-> TRUE, ver |-> r.ver, body |-> disk[Body(r.key)], br |-> NoFile])
  /\ UNCHANGED <<now, index, current_size, disk, paths, needed, puts>>

\* The body is read outside the lock; a missing file sends the task to "heal".
GetRead(t) ==
  LET r == req[t]
      body == disk[Body(r.key)]
  IN
  /\ pc[t] = "read"
  /\ \/ /\ body = NoFile
        /\ Goto(t, "heal")
        /\ UNCHANGED <<req, reply>>
     \/ /\ body # NoFile /\ r.br
        /\ Goto(t, "read_br")
        /\ req' = [req EXCEPT ![t].body = body]
        /\ UNCHANGED reply
     \/ /\ body # NoFile /\ ~r.br
        /\ Finish(t, [hit |-> TRUE, ver |-> r.ver, body |-> body, br |-> NoFile])
  /\ UNCHANGED <<now, index, current_size, disk, paths, needed, puts>>

\* Mutant of GetReadBr: a missing variant is taken for a missing entry.
GetReadBrOrHeal(t) ==
  LET r == req[t] IN
  /\ pc[t] = "read_br"
  /\ IF disk[Br(r.key)] = NoFile
       THEN Goto(t, "heal") /\ UNCHANGED <<req, reply>>
       ELSE Finish(t, [hit |-> TRUE, ver |-> r.ver, body |-> r.body, br |-> disk[Br(r.key)]])
  /\ UNCHANGED <<now, index, current_size, disk, paths, needed, puts>>

\* The Brotli variant is optional: an unreadable one is left out of the answer.
GetReadBr(t) ==
  LET r == req[t] IN
  /\ pc[t] = "read_br"
  /\ Finish(t, [hit |-> TRUE, ver |-> r.ver, body |-> r.body, br |-> disk[Br(r.key)]])
  /\ UNCHANGED <<now, index, current_size, disk, paths, needed, puts>>

\* No body file: drop whatever entry the key has by now and answer a miss.
GetHeal(t) ==
  /\ pc[t] = "heal"
  /\ Drop({req[t].key})
  /\ Finish(t, NoReply)
  /\ UNCHANGED <<now, disk, paths, needed, puts>>

-----------------------------------------------------------------------------
(* put *)

\* Arguments from the RPC (ttl_secs = 0 means no expiry); an object larger than
\* the cache is refused; a lack of room is computed from an unlocked read.
PutStart(t, k, n, ttl, br) ==
  /\ pc[t] = "idle"
  /\ puts < MaxPuts
  /\ puts' = puts + 1
  /\ reply' = [reply EXCEPT ![t] = NoReply]
  /\ \/ /\ n > MaxSize
        /\ UNCHANGED <<pc, req, needed>>
     \/ /\ n <= MaxSize
        /\ req' = [req EXCEPT ![t] =
                     [NoReq EXCEPT !.key = k, !.ver = puts + 1, !.size = n,
                                   !.ttl = ttl, !.br = br]]
        /\ \/ /\ current_size + n > MaxSize
              /\ needed' = [needed EXCEPT ![t] = current_size + n - MaxSize]
              /\ Goto(t, "put_evict")
           \/ /\ current_size + n <= MaxSize
              /\ Goto(t, "open")
              /\ UNCHANGED needed
  /\ UNCHANGED <<now, index, current_size, disk, paths>>

\* tokio::fs::write creates or truncates the file, then fills it.
PutOpen(t) ==
  LET r == req[t] IN
  /\ pc[t] = "open"
  /\ disk' = [disk EXCEPT ![Body(r.key)] =
                [ver |-> r.ver, size |-> r.size, whole |-> FALSE]]
  /\ Goto(t, "write")
  /\ UNCHANGED <<now, index, current_size, req, paths, needed, reply, puts>>

\* A file that was unlinked since it was opened stays so.
Written(f, r, n) ==
  IF disk[f] = NoFile THEN disk
  ELSE [disk EXCEPT ![f] = [ver |-> r.ver, size |-> n, whole |-> TRUE]]

\* The entry's timestamps are taken when the files are written, before the lock.
PutWrite(t) ==
  LET r == req[t] IN
  /\ pc[t] = "write"
  /\ disk' = Written(Body(r.key), r, r.size)
  /\ req' = [req EXCEPT ![t].at = now]
  /\ Goto(t, IF r.br THEN "open_br" ELSE "register")
  /\ UNCHANGED <<now, index, current_size, paths, needed, reply, puts>>

\* A failed body write ends the call; what was written so far stays.
PutWriteFails(t) ==
  /\ DiskFaults
  /\ pc[t] \in {"open", "write"}
  /\ Finish(t, NoReply)
  /\ UNCHANGED <<now, index, current_size, disk, paths, needed, puts>>

PutOpenBr(t) ==
  LET r == req[t] IN
  /\ pc[t] = "open_br"
  /\ disk' = [disk EXCEPT ![Br(r.key)] =
                [ver |-> r.ver, size |-> 0, whole |-> FALSE]]
  /\ Goto(t, "write_br")
  /\ UNCHANGED <<now, index, current_size, req, paths, needed, reply, puts>>

\* A failed variant only clears has_br; the put goes on.
PutWriteBr(t) ==
  LET r == req[t] IN
  /\ pc[t] = "write_br"
  /\ \/ /\ disk' = Written(Br(r.key), r, 0)
        /\ req' = [req EXCEPT ![t].at = now]
     \/ /\ DiskFaults
        /\ req' = [req EXCEPT ![t].br = FALSE, ![t].at = now]
        /\ UNCHANGED disk
  /\ Goto(t, "register")
  /\ UNCHANGED <<now, index, current_size, paths, needed, reply, puts>>

\* The room needed on top of what the key's current entry occupies
\* (saturating_sub).
NetIncrease(k, n) == IF n > index[k].size THEN n - index[k].size ELSE 0

\* Mutant of Fits: no re-check under the lock.
FitsAlways(k, n) == TRUE

\* The re-check under the lock, after the files are written.
Fits(k, n) == current_size + NetIncrease(k, n) <= MaxSize

\* Mutant of Register: the bytes of the replaced entry are not subtracted.
RegisterAdding(k, e) ==
  /\ index' = [index EXCEPT ![k] = e]
  /\ current_size' = current_size + e.size

\* Critical section: the new entry replaces the old one and its bytes.
Register(k, e) ==
  /\ index' = [index EXCEPT ![k] = e]
  /\ current_size' = current_size - index[k].size + e.size

PutRegister(t) ==
  LET r == req[t] IN
  /\ pc[t] = "register"
  /\ \/ /\ Fits(r.key, r.size)
        /\ Register(r.key,
             [ver |-> r.ver, size |-> r.size,
              expires |-> IF r.ttl > 0 THEN r.at + r.ttl ELSE 0,
              accessed |-> r.at, has_br |-> r.br])
        /\ Finish(t, NoReply)
     \/ /\ ~Fits(r.key, r.size)
        /\ Goto(t, "rollback")
        /\ UNCHANGED <<index, current_size, req, reply>>
  /\ UNCHANGED <<now, disk, paths, needed, puts>>

\* No room after all: unlink the body (the .br file stays).
PutRollback(t) ==
  /\ pc[t] = "rollback"
  /\ disk' = [disk EXCEPT ![Body(req[t].key)] = NoFile]
  /\ Finish(t, NoReply)
  /\ UNCHANGED <<now, index, current_size, paths, needed, puts>>

-----------------------------------------------------------------------------
(* Eviction, purge, unlinking *)

\* usage >= hard_ratio: the byte count is rounded up from its share of MaxSize.
AboveHard == current_size >= (HardPct * MaxSize + 99) \div 100

\* Mutant of EvictTick: it evicts down to the hard ratio only.
EvictTickToHard ==
  LET target == (MaxSize * HardPct + 99) \div 100 IN
  /\ pc[Evictor] = "idle"
  /\ MaxSize # 0 /\ AboveHard /\ current_size > target
  /\ needed' = [needed EXCEPT ![Evictor] = current_size - target]
  /\ Goto(Evictor, "evict")
  /\ UNCHANGED <<now, index, current_size, disk, req, paths, reply, puts>>

\* evict_to_ratio: usage and shortfall come from one unlocked read.
EvictTick ==
  LET target == (MaxSize * TargetPct) \div 100 IN
  /\ pc[Evictor] = "idle"
  /\ MaxSize # 0
  /\ AboveHard
  /\ current_size > target
  /\ needed' = [needed EXCEPT ![Evictor] = current_size - target]
  /\ Goto(Evictor, "evict")
  /\ UNCHANGED <<now, index, current_size, disk, req, paths, reply, puts>>

\* evict_lru, for a put that lacks room or for the eviction loop.
EvictLru(t) ==
  /\ pc[t] \in {"evict", "put_evict"}
  /\ \E S \in Evicted(needed[t]) :
       /\ Drop(S)
       /\ paths' = [paths EXCEPT ![t] = FilesOf(S)]
  /\ needed' = [needed EXCEPT ![t] = 0]
  /\ Goto(t, IF pc[t] = "evict" THEN "unlink" ELSE "put_unlink")
  /\ UNCHANGED <<now, disk, req, reply, puts>>

\* The purge RPC by URL or by domain: S is the key of the URL, or the keys of
\* the domain.
PurgeTargets ==
  {{k} : k \in Keys} \cup {{k \in Keys : DomainOf[k] = DomainOf[j]} : j \in Keys}

Purge(t, S) ==
  /\ pc[t] = "idle"
  /\ Drop(S \cap Indexed)
  /\ paths' = [paths EXCEPT ![t] = FilesOf(S \cap Indexed)]
  /\ Goto(t, "unlink")
  /\ reply' = [reply EXCEPT ![t] = NoReply]
  /\ UNCHANGED <<now, disk, req, needed, puts>>

\* purge_all clears the index and stores 0 in current_size.
PurgeAll(t) ==
  /\ pc[t] = "idle"
  /\ index' = [k \in Keys |-> NoEntry]
  /\ current_size' = 0
  /\ paths' = [paths EXCEPT ![t] = FilesOf(Indexed)]
  /\ Goto(t, "unlink")
  /\ reply' = [reply EXCEPT ![t] = NoReply]
  /\ UNCHANGED <<now, disk, req, needed, puts>>

\* remove_file on the next path: the body of an entry before its variant.
Unlink(t) ==
  /\ pc[t] \in {"unlink", "put_unlink"}
  /\ \E f \in paths[t] :
       /\ f[2] = "br" => Body(f[1]) \notin paths[t]
       /\ disk' = [disk EXCEPT ![f] = NoFile]
       /\ paths' = [paths EXCEPT ![t] = @ \ {f}]
  /\ UNCHANGED <<now, index, current_size, pc, req, needed, reply, puts>>

\* All paths done: a put goes on to write its files, any other call returns.
UnlinkDone(t) ==
  /\ pc[t] \in {"unlink", "put_unlink"}
  /\ paths[t] = {}
  /\ Goto(t, IF pc[t] = "put_unlink" THEN "open" ELSE "idle")
  /\ UNCHANGED <<now, index, current_size, disk, req, paths, needed, reply, puts>>

-----------------------------------------------------------------------------
(* The environment *)

Tick ==
  /\ now < MaxTime
  /\ now' = now + 1
  /\ UNCHANGED <<index, current_size, disk, pc, req, paths, needed, reply, puts>>

\* The future of a call is dropped at its await point.  A file write runs on the
\* blocking pool and completes first.
Cancel(t) ==
  /\ pc[t] \in CancelAt \ {"idle", "write", "write_br"}
  /\ Finish(t, NoReply)
  /\ paths' = [paths EXCEPT ![t] = {}]
  /\ needed' = [needed EXCEPT ![t] = 0]
  /\ UNCHANGED <<now, index, current_size, disk, puts>>

\* The process stops and CacheLayer::new runs again: only the files survive.
Crash ==
  /\ Crashes
  /\ index' = [k \in Keys |-> NoEntry]
  /\ current_size' = 0
  /\ pc' = [t \in Tasks |-> "idle"]
  /\ req' = [t \in Tasks |-> NoReq]
  /\ paths' = [t \in Tasks |-> {}]
  /\ needed' = [t \in Tasks |-> 0]
  /\ reply' = [t \in Tasks |-> NoReply]
  /\ UNCHANGED <<now, disk, puts>>

\* The steps a task takes once its call is under way.
Continue(t) ==
  \/ GetRead(t) \/ GetReadBr(t) \/ GetHeal(t)
  \/ PutOpen(t) \/ PutWrite(t) \/ PutWriteFails(t) \/ PutOpenBr(t) \/ PutWriteBr(t)
  \/ PutRegister(t) \/ PutRollback(t)
  \/ EvictLru(t) \/ Unlink(t) \/ UnlinkDone(t)

Next ==
  \/ \E t \in Clients, k \in Keys :
       \/ GetMiss(t, k)
       \/ \E stale \in BOOLEAN : GetExpired(t, k, stale) \/ GetFound(t, k, stale)
       \/ \E n \in Sizes, ttl \in Ttls, br \in BOOLEAN : PutStart(t, k, n, ttl, br)
  \/ \E t \in Callers, S \in PurgeTargets : Purge(t, S)
  \/ \E t \in Callers : PurgeAll(t) \/ Cancel(t)
  \/ \E t \in Tasks : Continue(t)
  \/ EvictTick
  \/ Tick
  \/ Crash

Spec == Init /\ [][Next]_vars

\* tokio runs a task that can run, and the loop of main.rs ticks for ever.
Fairness ==
  /\ WF_vars(EvictTick)
  /\ \A t \in Tasks : WF_vars(Continue(t))

FairSpec == Spec /\ Fairness

-----------------------------------------------------------------------------
(* Properties *)

\* The atomic counter is the sum of the indexed sizes: every path that adds or
\* removes an entry (put, expiry, self-healing, eviction, purge) also moves
\* current_size by exactly its bytes, in the same critical section.
SizeExact == current_size = SumOf(SizeOf, Keys)

\* The indexed bytes never exceed max_size_bytes, although put computes its room
\* before it awaits the disk and other calls fill the cache meanwhile; and
\* current_size never drops below zero, where the AtomicU64 would wrap around.
WithinCapacity == 0 <= current_size /\ current_size <= MaxSize

\* The accounting of CacheLayer implements the promise of a bounded store.
Store == INSTANCE BoundedStore WITH contents <- SizeOf, used <- current_size

ImplementsBoundedStore == Store!StoreSpec

\* A hit answers with the files of one put: the body, and the variant when there
\* is one, come from the put whose content type and headers go with them, and
\* neither is half-written, although the files are read after the lock is
\* released and unlinked by purges and evictions that do not hold it.
HitsAreIntact ==
  \A t \in Clients : reply[t].hit =>
    /\ reply[t].body.ver = reply[t].ver /\ reply[t].body.whole
    /\ reply[t].br # NoFile => reply[t].br.ver = reply[t].ver /\ reply[t].br.whole

\* Self-healing only ever drops an entry whose body file is really gone: the key
\* has not been stored again between the failed read and the second lock.
HealsOnlyGhosts ==
  [][\A t \in Clients, k \in Keys :
       (/\ pc[t] = "heal" /\ pc'[t] = "idle"
        /\ Present(k) /\ index'[k] = NoEntry) => disk[Body(k)] = NoFile]_vars

\* Whenever no call is under way, the body files on disk fit the configured
\* maximum: nothing is left behind by overwrites, evictions, purges, expiry and
\* rolled-back puts.
DiskWithinMax ==
  (\A t \in Tasks : pc[t] = "idle") =>
    SumOf([k \in Keys |-> disk[Body(k)].size], Keys) <= MaxSize

\* Usage at the hard ratio does not stay there: the eviction loop brings it
\* below, whatever is stored and dropped while it waits for the lock.
EvictionRelieves == AboveHard ~> ~AboveHard

=============================================================================
