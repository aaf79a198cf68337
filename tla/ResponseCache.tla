--------------------------- MODULE ResponseCache ---------------------------
(***************************************************************************)
(* The stale-while-revalidate cache in front of the read endpoints of one  *)
(* process: request threads that hit, miss and compute inline under a      *)
(* per-key lock; a small pool that refreshes stale entries and warms the   *)
(* common ones after an ingest; an ingest that commits new rollups and     *)
(* then invalidates by moving the generation.                              *)
(*                                                                         *)
(* cache.py (_TTLCache, _schedule_refresh, warm, cache_response),          *)
(* ingest_warm.py.  A cached value is the version of the rollups it was    *)
(* computed from; time is only "past the TTL or not".  The byte-capped     *)
(* transcript cache and the counters are left out.                         *)
(***************************************************************************)
EXTENDS Integers, Sequences, FiniteSets

CONSTANTS
  Keys,          \* cache keys: an endpoint and its parameters
  WarmKeys,      \* those warm_common computes
  Clients,       \* request threads
  Workers,       \* threads of _refresh_pool
  Locks,         \* lock objects
  NoLock, NoThread, NoEntry, NoKey,
  MaxEntries,    \* max_entries
  MaxVersion,    \* bound: commits of new rollups
  MaxFaults,     \* bound: computes that raise
  MaxWarms,      \* bound: calls of warm_common
  MaxExpiries    \* bound: entries that pass their TTL

Threads == Clients \union Workers

ASSUME CacheAssumption ==
  /\ WarmKeys \subseteq Keys /\ Clients \intersect Workers = {}
  /\ IsFiniteSet(Keys) /\ NoKey \notin Keys /\ NoThread \notin Threads
  /\ NoLock \notin Locks
  /\ MaxEntries \in Nat \ {0} /\ MaxVersion \in Nat /\ MaxFaults \in Nat
  /\ MaxWarms \in Nat /\ MaxExpiries \in Nat

\* A new lock object is always to be had: there are more than keys and threads
\* can know of at once.
ASSUME LocksAssumption ==
  /\ IsFiniteSet(Threads)
  /\ IsFiniteSet(Locks) => Cardinality(Locks) > Cardinality(Keys) + Cardinality(Threads)

Entry == [ver: Nat, gen: Nat]
ASSUME NoEntryAssumption == NoEntry \notin Entry

VARIABLES
  version,       \* the version of the committed rollups
  told,          \* the version at the last invalidation
  generation,
  items,         \* _items: items[k]
  order,         \* the stored keys, the oldest timestamp first
  expired,       \* the stored keys past their TTL
  keyLock,       \* _key_locks
  holder,        \* holder[l]: the thread that holds lock object l
  refreshing,    \* _refreshing
  queue,         \* the pool's queue
  \* what thread t is doing
  pc, job,       \* pc[t]; job[t]: a miss, a refresh or a warm, and its key
  ref,           \* ref[t]: the lock object lock_for gave it
  gen, val,      \* gen[t], val[t]: generation captured, version read
  err,           \* err[t]: its compute raised
  faultsLeft, warmsLeft, expiriesLeft

data == <<version, told, generation>>
cache == <<items, order, expired>>
locks == <<keyLock, holder>>
pool == <<refreshing, queue>>
local == <<job, ref, gen, val, err>>
bounds == <<faultsLeft, warmsLeft, expiriesLeft>>
vars == <<data, cache, locks, pool, pc, local, bounds>>

Jobs == [kind: {"refresh", "warm"}, key: Keys]
NoJob == [kind |-> "none", key |-> NoKey]

\* get_entry: nothing, a stale value or a fresh one.
Stored(k) == items[k] # NoEntry
Fresh(k) == Stored(k) /\ k \notin expired /\ items[k].gen = generation
Stale(k) == Stored(k) /\ ~Fresh(k)

Goto(t, where) == pc' = [pc EXCEPT ![t] = where]

Init ==
  /\ version = 0 /\ told = 0 /\ generation = 0
  /\ items = [k \in Keys |-> NoEntry] /\ order = <<>> /\ expired = {}
  /\ keyLock = [k \in Keys |-> NoLock] /\ holder = [l \in Locks |-> NoThread]
  /\ refreshing = {} /\ queue = <<>>
  /\ pc = [t \in Threads |-> "idle"] /\ job = [t \in Threads |-> NoJob]
  /\ ref = [t \in Threads |-> NoLock]
  /\ gen = [t \in Threads |-> 0] /\ val = [t \in Threads |-> 0]
  /\ err = [t \in Threads |-> FALSE]
  /\ faultsLeft = MaxFaults /\ warmsLeft = MaxWarms /\ expiriesLeft = MaxExpiries
-----------------------------------------------------------------------------
\* How jobs start.

\* A request finds a stale entry (a fresh hit changes nothing) ...
HitStale(c, k) ==
  /\ pc[c] = "idle" /\ Stale(k) /\ Goto(c, "schedule")
  /\ job' = [job EXCEPT ![c] = [kind |-> "hit", key |-> k]]
  /\ UNCHANGED <<data, cache, locks, pool, ref, gen, val, err, bounds>>

\* ... and asks for a refresh, unless one is under way (_schedule_refresh).
Schedule(c) ==
  /\ pc[c] = "schedule" /\ Goto(c, "idle")
  /\ job' = [job EXCEPT ![c] = NoJob]
  /\ LET k == job[c].key
     IN  IF k \in refreshing THEN UNCHANGED pool
         ELSE /\ refreshing' = refreshing \union {k}
              /\ queue' = Append(queue, [kind |-> "refresh", key |-> k])
  /\ UNCHANGED <<data, cache, locks, ref, gen, val, err, bounds>>

\* A request finds nothing.
Miss(c, k) ==
  /\ pc[c] = "idle" /\ ~Stored(k) /\ Goto(c, "lock")
  /\ job' = [job EXCEPT ![c] = [kind |-> "miss", key |-> k]]
  /\ UNCHANGED <<data, cache, locks, pool, ref, gen, val, err, bounds>>

\* A pool thread takes the next job.
Take(w) ==
  /\ pc[w] = "idle" /\ queue # <<>>
  /\ queue' = Tail(queue) /\ job' = [job EXCEPT ![w] = Head(queue)]
  /\ Goto(w, IF Head(queue).kind = "warm" THEN "lock" ELSE "check")
  /\ UNCHANGED <<data, cache, locks, refreshing, ref, gen, val, err, bounds>>
-----------------------------------------------------------------------------
\* The per-key lock of a miss or a warm.

\* Mutant: a lock object nobody is using just now.
UnusedNow == {l \in Locks : \A u \in Threads : ref[u] # l}

\* A lock object nobody knows.
Unused == {l \in Locks : /\ \A j \in Keys : keyLock[j] # l
                         /\ \A u \in Threads : ref[u] # l}

\* lock_for: the key's lock object, a new one if it has none.
LockFor(t) ==
  /\ pc[t] = "lock" /\ Goto(t, "acquire")
  /\ LET k == job[t].key
         lock == IF keyLock[k] # NoLock THEN keyLock[k]
                 ELSE CHOOSE l \in Unused : TRUE
     IN  /\ keyLock' = [keyLock EXCEPT ![k] = lock]
         /\ ref' = [ref EXCEPT ![t] = lock]
  /\ UNCHANGED <<data, cache, holder, pool, job, gen, val, err, bounds>>

Acquire(t) ==
  /\ pc[t] = "acquire" /\ holder[ref[t]] = NoThread /\ Goto(t, "check")
  /\ holder' = [holder EXCEPT ![ref[t]] = t]
  /\ UNCHANGED <<data, cache, keyLock, pool, local, bounds>>

\* Mutant: a compute that raised leaves its lock held.
ReleaseOnSuccess(t) ==
  /\ pc[t] = "release" /\ Goto(t, IF err[t] THEN "reclaim" ELSE "idle")
  /\ holder' = IF err[t] THEN holder ELSE [holder EXCEPT ![ref[t]] = NoThread]
  /\ ref' = [ref EXCEPT ![t] = NoLock]
  /\ job' = IF err[t] THEN job ELSE [job EXCEPT ![t] = NoJob]
  /\ UNCHANGED <<data, cache, keyLock, pool, gen, val, err, bounds>>

Release(t) ==
  /\ pc[t] = "release" /\ Goto(t, IF err[t] THEN "reclaim" ELSE "idle")
  /\ holder' = [holder EXCEPT ![ref[t]] = NoThread]
  /\ ref' = [ref EXCEPT ![t] = NoLock]
  /\ job' = IF err[t] THEN job ELSE [job EXCEPT ![t] = NoJob]
  /\ UNCHANGED <<data, cache, keyLock, pool, gen, val, err, bounds>>

\* Mutant: a lock is dropped although a thread holds it.
ReclaimedHeld(ks) == [k \in Keys |-> IF k \in ks THEN NoLock ELSE keyLock[k]]

\* The locks of the keys ks nobody holds are dropped (_reclaim_lock).  The test
\* and the drop are one step: a thread that gets the lock between them touches
\* nothing else of it, so it may as well get it just after.
Reclaimed(ks) ==
  [k \in Keys |-> IF k \in ks /\ keyLock[k] # NoLock /\ holder[keyLock[k]] = NoThread
                  THEN NoLock ELSE keyLock[k]]

\* reclaim_failed_lock.
ReclaimFailedLock(t) ==
  /\ pc[t] = "reclaim" /\ Goto(t, "idle")
  /\ keyLock' = Reclaimed({job[t].key})
  /\ err' = [err EXCEPT ![t] = FALSE] /\ job' = [job EXCEPT ![t] = NoJob]
  /\ UNCHANGED <<data, cache, holder, pool, ref, gen, val, bounds>>
-----------------------------------------------------------------------------
\* The compute.

\* Whether there is nothing left to compute: a miss takes any entry, a refresh
\* and a warm only a fresh one.
Served(t) == IF job[t].kind = "miss" THEN Stored(job[t].key) ELSE Fresh(job[t].key)

Check(t) ==
  /\ pc[t] = "check"
  /\ Goto(t, IF Served(t)
             THEN IF job[t].kind = "refresh" THEN "discard" ELSE "release"
             ELSE IF job[t].kind = "warm" THEN "claim" ELSE "capture")
  /\ UNCHANGED <<data, cache, locks, pool, local, bounds>>

\* Mutant: a warm computes beside a refresh.
ClaimRegardless(t) ==
  /\ pc[t] = "claim" /\ Goto(t, "capture")
  /\ refreshing' = refreshing \union {job[t].key}
  /\ UNCHANGED <<data, cache, locks, queue, local, bounds>>

\* A warm leaves a key to the refresh that has claimed it.
Claim(t) ==
  /\ pc[t] = "claim"
  /\ IF job[t].key \in refreshing THEN Goto(t, "release") /\ UNCHANGED refreshing
     ELSE /\ refreshing' = refreshing \union {job[t].key}
          /\ Goto(t, "capture")
  /\ UNCHANGED <<data, cache, locks, queue, local, bounds>>

\* current_generation.
Capture(t) ==
  /\ pc[t] = "capture" /\ Goto(t, "read")
  /\ gen' = [gen EXCEPT ![t] = generation]
  /\ UNCHANGED <<data, cache, locks, pool, job, ref, val, err, bounds>>

\* The endpoint's queries; its result is as old as the first of them.
Read(t) ==
  /\ pc[t] = "read" /\ Goto(t, "put")
  /\ val' = [val EXCEPT ![t] = version]
  /\ UNCHANGED <<data, cache, locks, pool, job, ref, gen, err, bounds>>

AfterCompute(t) == IF job[t].kind = "miss" THEN "release" ELSE "discard"

\* A refresh that raised only logs it; a miss and a warm also reclaim.
ReadFail(t) ==
  /\ pc[t] = "read" /\ faultsLeft > 0 /\ faultsLeft' = faultsLeft - 1
  /\ Goto(t, AfterCompute(t))
  /\ err' = [err EXCEPT ![t] = TRUE] /\ gen' = [gen EXCEPT ![t] = 0]
  /\ UNCHANGED <<data, cache, locks, pool, job, ref, val, warmsLeft,
                 expiriesLeft>>

\* The keys from the oldest on once k is put anew.
PutLast(k) ==
  LET at == CHOOSE i \in DOMAIN order : order[i] = k
  IN  IF Stored(k)
      THEN Append(SubSeq(order, 1, at - 1) \o SubSeq(order, at + 1, Len(order)), k)
      ELSE Append(order, k)

\* Mutant: only expired entries are evicted.
EvictedExpired(k) ==
  IF Len(PutLast(k)) <= MaxEntries THEN 0 ELSE Cardinality(expired \ {k})

\* How many of them go when they are over the cap: the expired ones, which are
\* the oldest, and as many as are over.
Evicted(k) ==
  LET over == Len(PutLast(k)) - MaxEntries
      old == Cardinality(expired \ {k})
  IN  IF over <= 0 THEN 0 ELSE IF old > over THEN old ELSE over

Victims(k) == {PutLast(k)[i] : i \in 1..Evicted(k)}

\* Mutant: the entry is stamped with the generation at the put.
PutCurrent(t) ==
  /\ pc[t] = "put" /\ Goto(t, AfterCompute(t))
  /\ LET k == job[t].key
         out == Victims(k)
     IN  /\ items' = [j \in Keys |->
                        IF j \in out THEN NoEntry
                        ELSE IF j = k THEN [ver |-> val[t], gen |-> generation]
                        ELSE items[j]]
         /\ order' = SubSeq(PutLast(k), Evicted(k) + 1, Len(PutLast(k)))
         /\ expired' = expired \ (out \union {k})
         /\ keyLock' = Reclaimed(out)
  /\ gen' = [gen EXCEPT ![t] = 0] /\ val' = [val EXCEPT ![t] = 0]
  /\ UNCHANGED <<data, holder, pool, job, ref, err, bounds>>

\* put, with the generation the compute started from.
Put(t) ==
  /\ pc[t] = "put" /\ Goto(t, AfterCompute(t))
  /\ LET k == job[t].key
         out == Victims(k)
     IN  /\ items' = [j \in Keys |->
                        IF j \in out THEN NoEntry
                        ELSE IF j = k THEN [ver |-> val[t], gen |-> gen[t]]
                        ELSE items[j]]
         /\ order' = SubSeq(PutLast(k), Evicted(k) + 1, Len(PutLast(k)))
         /\ expired' = expired \ (out \union {k})
         /\ keyLock' = Reclaimed(out)
  /\ gen' = [gen EXCEPT ![t] = 0] /\ val' = [val EXCEPT ![t] = 0]
  /\ UNCHANGED <<data, holder, pool, job, ref, err, bounds>>

\* Mutant: a compute that raised keeps its claim.
DiscardOnSuccess(t) ==
  /\ pc[t] = "discard"
  /\ refreshing' = IF err[t] THEN refreshing ELSE refreshing \ {job[t].key}
  /\ IF job[t].kind = "warm" THEN Goto(t, "release") /\ UNCHANGED <<job, err>>
     ELSE /\ Goto(t, "idle") /\ job' = [job EXCEPT ![t] = NoJob]
          /\ err' = [err EXCEPT ![t] = FALSE]
  /\ UNCHANGED <<data, cache, locks, queue, ref, gen, val, bounds>>

\* The claim ends, however the compute ended.
Discard(t) ==
  /\ pc[t] = "discard"
  /\ refreshing' = refreshing \ {job[t].key}
  /\ IF job[t].kind = "warm" THEN Goto(t, "release") /\ UNCHANGED <<job, err>>
     ELSE /\ Goto(t, "idle") /\ job' = [job EXCEPT ![t] = NoJob]
          /\ err' = [err EXCEPT ![t] = FALSE]
  /\ UNCHANGED <<data, cache, locks, queue, ref, gen, val, bounds>>
-----------------------------------------------------------------------------
\* The ingest, and time.

\* A rollup phase commits.
Commit ==
  /\ version < MaxVersion /\ version' = version + 1
  /\ UNCHANGED <<told, generation, cache, locks, pool, pc, local, bounds>>

Invalidate ==
  /\ told # version /\ told' = version /\ generation' = generation + 1
  /\ UNCHANGED <<version, cache, locks, pool, pc, local, bounds>>

\* warm_common submits its jobs in some order.
WarmCommon ==
  /\ warmsLeft > 0 /\ warmsLeft' = warmsLeft - 1
  /\ \E s \in [1..Cardinality(WarmKeys) -> WarmKeys] :
       /\ \A k \in WarmKeys : \E i \in DOMAIN s : s[i] = k
       /\ queue' = queue \o [i \in DOMAIN s |-> [kind |-> "warm", key |-> s[i]]]
  /\ UNCHANGED <<data, cache, locks, refreshing, pc, local, faultsLeft,
                 expiriesLeft>>

\* The oldest entry that is not yet past its TTL passes it.
Expire ==
  /\ expiriesLeft > 0 /\ expiriesLeft' = expiriesLeft - 1
  /\ Cardinality(expired) < Len(order)
  /\ expired' = expired \union {order[Cardinality(expired) + 1]}
  /\ UNCHANGED <<data, items, order, locks, pool, pc, local, faultsLeft,
                 warmsLeft>>
-----------------------------------------------------------------------------
Step(t) ==
  \/ LockFor(t) \/ Acquire(t) \/ Check(t) \/ Claim(t) \/ Capture(t) \/ Read(t)
  \/ Put(t) \/ Discard(t) \/ Release(t) \/ ReclaimFailedLock(t)

Next ==
  \/ \E t \in Threads : Step(t) \/ ReadFail(t)
  \/ \E c \in Clients : Schedule(c) \/ \E k \in Keys : HitStale(c, k) \/ Miss(c, k)
  \/ \E w \in Workers : Take(w)
  \/ Commit \/ Invalidate \/ WarmCommon \/ Expire

Spec == Init /\ [][Next]_vars

\* Threads go on; a lock that is free again and again is got; and somebody
\* keeps asking for every key (what nobody asks for need not be refreshed).
FairSpec ==
  /\ Spec
  /\ \A t \in Threads : WF_vars(Step(t)) /\ SF_vars(Acquire(t))
  /\ \A c \in Clients : WF_vars(Schedule(c))
  /\ \A w \in Workers : WF_vars(Take(w))
  /\ \A k \in Keys : SF_vars(\E c \in Clients : HitStale(c, k))
-----------------------------------------------------------------------------
\* Properties.

\* Every variable has its type; the order lists the stored keys, the expired
\* ones first; no lock object serves two keys.
TypeOK ==
  /\ version \in Nat /\ told \in Nat /\ generation \in Nat
  /\ items \in [Keys -> Entry \union {NoEntry}]
  /\ order \in Seq(Keys) /\ expired \subseteq {k \in Keys : Stored(k)}
  /\ {order[i] : i \in DOMAIN order} = {k \in Keys : Stored(k)}
  /\ Len(order) = Cardinality({k \in Keys : Stored(k)})
  /\ \A i, j \in DOMAIN order : i < j /\ order[j] \in expired => order[i] \in expired
  /\ keyLock \in [Keys -> Locks \union {NoLock}]
  /\ \A j, k \in Keys : keyLock[j] = keyLock[k] => j = k \/ keyLock[k] = NoLock
  /\ holder \in [Locks -> Threads \union {NoThread}]
  /\ refreshing \subseteq Keys /\ queue \in Seq(Jobs)
  /\ pc \in [Threads -> {"idle", "schedule", "lock", "acquire", "check", "claim",
                         "capture", "read", "put", "discard", "release", "reclaim"}]
  /\ \A t \in Threads : pc[t] # "idle" => job[t].key \in Keys
  /\ ref \in [Threads -> Locks \union {NoLock}]
  /\ gen \in [Threads -> Nat] /\ val \in [Threads -> Nat]
  /\ err \in [Threads -> BOOLEAN]

\* An entry a request would be served as fresh was computed from rollups at
\* least as new as the last invalidation announced, although computes overlap
\* commits and invalidations as they like ("an invalidate() landing mid-compute
\* must leave the entry born stale").
FreshIsCurrent == \A k \in Keys : Fresh(k) => items[k].ver >= told

\* Off the request path a key is computed "at most once concurrently", by a
\* refresh or by a warm (_schedule_refresh, warm).
OffPath(t) == /\ job[t].kind \in {"refresh", "warm"}
              /\ pc[t] \in {"capture", "read", "put", "discard"}
RefreshOnce ==
  \A v, w \in Workers : OffPath(v) /\ OffPath(w) /\ v # w => job[v].key # job[w].key

\* The entry cap is the hard memory bound, whichever threads put at once.
CapHeld == Cardinality({k \in Keys : Stored(k)}) <= MaxEntries

\* "A lock held through eviction survives": while a thread computes under a
\* key's lock, neither an eviction nor another thread's failure replaces it, so
\* that later misses wait for the compute (_reclaim_lock).  A thread that only
\* waits for the lock is not protected: it may end up with one nobody else gets.
HeldLockStays ==
  [][\A k \in Keys :
       keyLock[k] # NoLock /\ holder[keyLock[k]] # NoThread => keyLock'[k] = keyLock[k]]_vars

\* What is stale and asked for is recomputed or evicted in the end, also after
\* computes that raised (_run: "a failed refresh leaves the stale entry").
StaleHeals == \A k \in Keys : Stale(k) ~> ~Stale(k)

\* No request, refresh or warm waits for ever: computes that raise release
\* their locks, and no lock is waited for in a circle.
Answered == \A t \in Threads : pc[t] # "idle" ~> pc[t] = "idle"
=============================================================================
