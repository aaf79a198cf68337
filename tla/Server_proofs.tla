---------------------------- MODULE Server_proofs ---------------------------
(***************************************************************************)
(* The server's process, for every value of the constants: the response    *)
(* cache (ResponseCache), sign-in, and what starts and must end (modules   *)
(* Login, Workers, Export, Boot and Vacuum, as ServerParts has them).      *)
(*                                                                         *)
(* The cache.  FreshIsCurrent rests on generations alone: a compute takes  *)
(* its generation before it reads, so whoever read rollups older than the  *)
(* last invalidation holds an older generation (GenInv).  RefreshOnce      *)
(* rests on _refreshing: a key in it has exactly one owner, a queued       *)
(* refresh or the pool thread computing it (ClaimInv).  CapHeld rests on   *)
(* the eviction order: it lists every stored key once, so evicting from    *)
(* its front down to the cap leaves no more than the cap (OrderInv).  No   *)
(* two keys share a lock because lock_for makes one that nobody knows      *)
(* (LocksInv), and with these TypeOK is inductive.                         *)
(*                                                                         *)
(* Sign-in.  A token is never ahead of its account's row and a revoked one *)
(* is behind it (SessionInv); what an attempt has cost is known at each    *)
(* stage (CostInv); and an attempt holds its slots exactly until its       *)
(* handler and its worker are done (LimitsHeld, inductive with the types). *)
(* Workers, Export, Boot and Vacuum each state the invariant their         *)
(* promises rest on.                                                       *)
(***************************************************************************)
EXTENDS ResponseCache, ServerParts, FiniteSetTheorems, SequenceTheorems, TLAPS

-----------------------------------------------------------------------------
\* The response cache.

\* The generations of entries and computes, and what they say of versions.
GenInv ==
  /\ version \in Nat /\ told \in Nat /\ generation \in Nat /\ told <= version
  /\ items \in [Keys -> Entry \union {NoEntry}]
  /\ gen \in [Threads -> Nat] /\ val \in [Threads -> Nat]
  /\ pc = [t \in Threads |-> pc[t]]
  /\ \A k \in Keys : Stored(k) =>
       /\ items[k].gen <= generation
       /\ items[k].gen = generation => items[k].ver >= told
  /\ \A t \in Threads :
       /\ gen[t] <= generation
       /\ pc[t] = "put" /\ gen[t] = generation => val[t] >= told

LEMMA GenInit == Init => GenInv
BY CacheAssumption, NoEntryAssumption DEF Init, GenInv, Stored, CacheAssumption

\* Putting an entry keeps what is known of generations.
LEMMA GenPut ==
  ASSUME GenInv, NEW t \in Threads, Put(t)
  PROVE  GenInv'
<1> DEFINE k == job[t].key
           new == [ver |-> val[t], gen |-> gen[t]]
<1>1. new \in Entry /\ new # NoEntry /\ new.ver = val[t] /\ new.gen = gen[t]
  BY NoEntryAssumption DEF GenInv, Entry
<1>2. \A j \in Keys : items'[j] \in {NoEntry, new, items[j]}
  BY DEF Put
<1>3. items' \in [Keys -> Entry \union {NoEntry}]
  <2>1. items' = [j \in Keys |-> items'[j]]
    BY DEF Put
  <2> QED BY <1>1, <1>2, <2>1 DEF GenInv
<1>4. pc[t] = "put" /\ pc' = [pc EXCEPT ![t] = AfterCompute(t)]
  BY DEF Put, Goto
<1>5. AfterCompute(t) # "put"
  BY DEF AfterCompute
<1>6. UNCHANGED data /\ gen' = [gen EXCEPT ![t] = 0] /\ val' = [val EXCEPT ![t] = 0]
  BY DEF Put
<1>7. \A j \in Keys : Stored(j)' =>
        /\ items'[j].gen <= generation
        /\ items'[j].gen = generation => items'[j].ver >= told
  BY <1>1, <1>2, <1>4 DEF GenInv, Stored
<1>8. \A u \in Threads :
        /\ gen'[u] <= generation
        /\ pc'[u] = "put" /\ gen'[u] = generation => val'[u] >= told
  BY <1>4, <1>5, <1>6 DEF GenInv
<1>9. gen' \in [Threads -> Nat] /\ val' \in [Threads -> Nat]
      /\ pc' = [u \in Threads |-> pc'[u]]
  BY <1>4, <1>6 DEF GenInv
<1> QED BY <1>3, <1>6, <1>7, <1>8, <1>9 DEF GenInv, data

\* Every step keeps what is known of generations.
LEMMA GenStep ==
  ASSUME GenInv, [Next]_vars
  PROVE  GenInv'
<1> USE DEF data, cache, locks, pool, local, bounds
<1>1. ASSUME NEW t \in Threads, Read(t) PROVE GenInv'
  BY <1>1 DEF Read, Goto, GenInv, Stored
<1>2. ASSUME NEW t \in Threads, Capture(t) PROVE GenInv'
  BY <1>2 DEF Capture, Goto, GenInv, Stored
<1>3. ASSUME NEW t \in Threads, ReadFail(t) PROVE GenInv'
  BY <1>3 DEF ReadFail, Goto, GenInv, Stored, AfterCompute
<1>4. ASSUME NEW t \in Threads, LockFor(t) \/ Acquire(t) PROVE GenInv'
  BY <1>4 DEF LockFor, Acquire, Goto, GenInv, Stored
<1>5. ASSUME NEW t \in Threads, Claim(t) \/ Discard(t) PROVE GenInv'
  BY <1>5 DEF Claim, Discard, Goto, GenInv, Stored
<1>6. ASSUME NEW t \in Threads, Release(t) \/ ReclaimFailedLock(t) PROVE GenInv'
  BY <1>6 DEF Release, ReclaimFailedLock, Goto, GenInv, Stored
<1>7. ASSUME NEW t \in Threads, Check(t) PROVE GenInv'
  BY <1>7 DEF Check, Goto, GenInv, Stored
<1>8. ASSUME NEW c \in Clients, Schedule(c) PROVE GenInv'
  BY <1>8 DEF Schedule, Goto, GenInv, Stored, Threads
<1>9. ASSUME NEW c \in Clients, NEW k \in Keys, HitStale(c, k) \/ Miss(c, k)
      PROVE GenInv'
  BY <1>9 DEF HitStale, Miss, Goto, GenInv, Stored, Threads
<1>10. ASSUME NEW w \in Workers, Take(w) PROVE GenInv'
  BY <1>10 DEF Take, Goto, GenInv, Stored, Threads
<1>11. CASE Commit
  BY <1>11 DEF Commit, GenInv, Stored
<1>12. CASE Invalidate
  BY <1>12 DEF Invalidate, GenInv, Stored, Entry
<1>13. CASE WarmCommon \/ Expire
  BY <1>13 DEF WarmCommon, Expire, GenInv, Stored
<1>14. CASE UNCHANGED vars
  BY <1>14 DEF vars, GenInv, Stored
<1> QED
  BY <1>1, <1>2, <1>3, <1>4, <1>5, <1>6, <1>7, <1>8, <1>9, <1>10, <1>11, <1>12,
     <1>13, <1>14, GenPut DEF Next, Step

\* An entry served as fresh is as new as the last invalidation (FreshIsCurrent),
\* for any number of threads, commits and invalidations.
THEOREM FreshStaysCurrent == Spec => []FreshIsCurrent
<1>1. GenInv => FreshIsCurrent
  BY DEF GenInv, FreshIsCurrent, Fresh, Stored
<1>2. GenInv /\ [Next]_vars => GenInv'
  BY GenStep
<1> QED BY <1>1, <1>2, GenInit, PTL DEF Spec
-----------------------------------------------------------------------------
\* Which job a thread may have where.
Places == {"idle", "schedule", "lock", "acquire", "check", "claim", "capture",
           "read", "put", "discard", "release", "reclaim"}
Kinds == {"none", "hit", "miss", "refresh", "warm"}
Suits(kind, where) ==
  \/ where = "idle" /\ kind = "none"
  \/ where = "schedule" /\ kind = "hit"
  \/ where \in {"check", "capture", "read", "put"} /\ kind \in {"miss", "refresh", "warm"}
  \/ where \in {"lock", "acquire", "release", "reclaim"} /\ kind \in {"miss", "warm"}
  \/ where = "discard" /\ kind \in {"refresh", "warm"}
  \/ where = "claim" /\ kind = "warm"
JobInv ==
  /\ pc \in [Threads -> Places]
  /\ job \in [Threads -> [kind: Kinds, key: Keys \union {NoKey}]]
  /\ \A t \in Threads : Suits(job[t].kind, pc[t])
  /\ \A t \in Threads : pc[t] # "idle" => job[t].key \in Keys
  /\ queue \in Seq(Jobs) /\ refreshing \subseteq Keys

\* Thread t has claimed the key it works on.
Owns(t) ==
  \/ job[t].kind = "refresh"
  \/ job[t].kind = "warm" /\ pc[t] \in {"capture", "read", "put", "discard"}

\* A claimed key has one owner: a thread or a queued refresh.
ClaimInv ==
  /\ \A t \in Threads : Owns(t) => job[t].key \in refreshing
  /\ \A t, u \in Threads : Owns(t) /\ Owns(u) /\ t # u => job[t].key # job[u].key
  /\ \A i \in 1..Len(queue) : queue[i].kind = "refresh" =>
       /\ queue[i].key \in refreshing
       /\ \A t \in Threads : Owns(t) => job[t].key # queue[i].key
       /\ \A j \in 1..Len(queue) :
            queue[j].kind = "refresh" /\ i # j => queue[i].key # queue[j].key

LEMMA ClaimInit == Init => JobInv /\ ClaimInv
BY DEF Init, JobInv, ClaimInv, Owns, NoJob, Kinds, Suits, Places, Jobs

\* The steps of thread t that neither claim nor give up a key: at most what it
\* does not own moves.
LEMMA OwnersStay ==
  ASSUME JobInv, ClaimInv, UNCHANGED pool,
         \A t \in Threads : Owns(t)' => Owns(t) /\ job'[t] = job[t]
  PROVE  ClaimInv'
BY DEF ClaimInv, pool

\* A thread that moves on, with a job that suits the place, keeps all jobs
\* where they belong.
LEMMA JobMoves ==
  ASSUME JobInv, NEW t \in Threads, NEW where \in Places,
         NEW j \in [kind: Kinds, key: Keys \union {NoKey}],
         Suits(j.kind, where), where # "idle" => j.key \in Keys,
         pc' = [pc EXCEPT ![t] = where], job' = [job EXCEPT ![t] = j],
         queue' \in Seq(Jobs), refreshing' \subseteq Keys
  PROVE  JobInv'
<1>1. pc' \in [Threads -> Places]
  BY DEF JobInv
<1>2. job' \in [Threads -> [kind: Kinds, key: Keys \union {NoKey}]]
  BY DEF JobInv
<1>3. ASSUME NEW u \in Threads
      PROVE  Suits(job'[u].kind, pc'[u]) /\ (pc'[u] # "idle" => job'[u].key \in Keys)
  <2>1. CASE u = t
    BY <2>1 DEF JobInv
  <2>2. CASE u # t
    <3>1. job'[u] = job[u] /\ pc'[u] = pc[u]
      BY <2>2 DEF JobInv
    <3> QED BY <3>1 DEF JobInv
  <2> QED BY <2>1, <2>2
<1> QED BY <1>1, <1>2, <1>3 DEF JobInv

LEMMA NoJobIdle ==
  NoJob \in [kind: Kinds, key: Keys \union {NoKey}] /\ Suits(NoJob.kind, "idle")
BY DEF NoJob, Kinds, Suits

LEMMA JobsAreJobs ==
  /\ Jobs \subseteq [kind: Kinds, key: Keys \union {NoKey}]
  /\ \A j \in Jobs : j.key \in Keys /\ j.kind \in {"refresh", "warm"}
BY DEF Jobs, Kinds

\* Steps keep jobs where they belong.
LEMMA JobStepThread ==
  ASSUME JobInv, NEW t \in Threads, Step(t) \/ ReadFail(t)
  PROVE  JobInv'
<1> USE DEF Goto, local, pool, locks
<1>1. CASE LockFor(t) \/ Acquire(t)
  BY <1>1 DEF LockFor, Acquire, JobInv, Places, Suits
<1>2. CASE Check(t)
  BY <1>2 DEF Check, JobInv, Places, Suits
<1>3. CASE Claim(t)
  BY <1>3 DEF Claim, JobInv, Places, Suits
<1>4. CASE Capture(t) \/ Read(t)
  BY <1>4 DEF Capture, Read, JobInv, Places, Suits
<1>5. CASE Put(t) \/ ReadFail(t)
  BY <1>5 DEF Put, ReadFail, AfterCompute, JobInv, Places, Suits
<1>6. CASE Discard(t)
  <2>1. queue' \in Seq(Jobs) /\ refreshing' \subseteq Keys
    BY <1>6 DEF Discard, JobInv
  <2>2. CASE job[t].kind = "warm"
    BY <1>6, <2>1, <2>2 DEF Discard, JobInv, Places, Suits
  <2>3. CASE job[t].kind # "warm"
    <3>1. pc' = [pc EXCEPT ![t] = "idle"] /\ job' = [job EXCEPT ![t] = NoJob]
      BY <1>6, <2>3 DEF Discard
    <3> QED BY <2>1, <3>1, NoJobIdle, JobMoves DEF Places
  <2> QED BY <2>2, <2>3
<1>7. CASE Release(t)
  <2>1. queue' \in Seq(Jobs) /\ refreshing' \subseteq Keys
    BY <1>7 DEF Release, JobInv
  <2>2. CASE err[t]
    BY <1>7, <2>1, <2>2 DEF Release, JobInv, Places, Suits
  <2>3. CASE ~err[t]
    <3>1. pc' = [pc EXCEPT ![t] = "idle"] /\ job' = [job EXCEPT ![t] = NoJob]
      BY <1>7, <2>3 DEF Release
    <3> QED BY <2>1, <3>1, NoJobIdle, JobMoves DEF Places
  <2> QED BY <2>2, <2>3
<1>8. CASE ReclaimFailedLock(t)
  <2>1. queue' \in Seq(Jobs) /\ refreshing' \subseteq Keys
    BY <1>8 DEF ReclaimFailedLock, JobInv
  <2>2. pc' = [pc EXCEPT ![t] = "idle"] /\ job' = [job EXCEPT ![t] = NoJob]
    BY <1>8 DEF ReclaimFailedLock
  <2> QED BY <2>1, <2>2, NoJobIdle, JobMoves DEF Places
<1> QED BY <1>1, <1>2, <1>3, <1>4, <1>5, <1>6, <1>7, <1>8 DEF Step

\* warm_common appends jobs, none of them a refresh.
LEMMA WarmJobs ==
  ASSUME WarmCommon
  PROVE  \E new \in Seq(Jobs) : /\ queue' = queue \o new
                                /\ \A i \in 1..Len(new) : new[i].kind # "refresh"
<1>1. PICK s \in [1..Cardinality(WarmKeys) -> WarmKeys] :
        queue' = queue \o [i \in DOMAIN s |-> [kind |-> "warm", key |-> s[i]]]
  BY DEF WarmCommon
<1> DEFINE n == Cardinality(WarmKeys)
           new == [i \in DOMAIN s |-> [kind |-> "warm", key |-> s[i]]]
<1>2. n \in Nat
  BY CacheAssumption, FS_Subset, FS_CardinalityType DEF CacheAssumption
<1>3. \A i \in 1..n : [kind |-> "warm", key |-> s[i]] \in Jobs
  BY CacheAssumption DEF CacheAssumption, Jobs
<1>4. new \in [1..n -> Jobs] /\ \A i \in 1..n : new[i].kind # "refresh"
  BY <1>3
<1>5. new \in Seq(Jobs) /\ Len(new) = n
  BY <1>2, <1>4, SeqDef, LenProperties
<1>6. queue' = queue \o new
  BY <1>1
<1> QED BY <1>4, <1>5, <1>6

LEMMA JobStep ==
  ASSUME JobInv, [Next]_vars
  PROVE  JobInv'
<1> USE DEF Goto, local, pool, locks
<1>1. ASSUME NEW c \in Clients, Schedule(c) PROVE JobInv'
  <2>1. c \in Threads /\ job[c].key \in Keys
    BY <1>1 DEF Schedule, Threads, JobInv
  <2>2. [kind |-> "refresh", key |-> job[c].key] \in Jobs
    BY <2>1 DEF Jobs
  <2>3. queue' \in Seq(Jobs) /\ refreshing' \subseteq Keys
    <3>1. CASE job[c].key \in refreshing
      BY <1>1, <3>1 DEF Schedule, JobInv
    <3>2. CASE job[c].key \notin refreshing
      <4>1. queue' = Append(queue, [kind |-> "refresh", key |-> job[c].key])
            /\ refreshing' = refreshing \union {job[c].key}
        BY <1>1, <3>2 DEF Schedule
      <4> QED BY <2>1, <2>2, <4>1, AppendProperties DEF JobInv
    <3> QED BY <3>1, <3>2
  <2>4. pc' = [pc EXCEPT ![c] = "idle"] /\ job' = [job EXCEPT ![c] = NoJob]
    BY <1>1 DEF Schedule
  <2> QED BY <2>1, <2>3, <2>4, NoJobIdle, JobMoves DEF Places
<1>2. ASSUME NEW c \in Clients, NEW k \in Keys, HitStale(c, k) PROVE JobInv'
  <2> DEFINE new == [kind |-> "hit", key |-> k]
  <2>1. new \in [kind: Kinds, key: Keys \union {NoKey}] /\ Suits(new.kind, "schedule")
    BY DEF Kinds, Suits
  <2>2. pc' = [pc EXCEPT ![c] = "schedule"] /\ job' = [job EXCEPT ![c] = new]
        /\ queue' \in Seq(Jobs) /\ refreshing' \subseteq Keys
    BY <1>2 DEF HitStale, JobInv
  <2> QED BY <2>1, <2>2, JobMoves DEF Places, Threads
<1>3. ASSUME NEW c \in Clients, NEW k \in Keys, Miss(c, k) PROVE JobInv'
  <2> DEFINE new == [kind |-> "miss", key |-> k]
  <2>1. new \in [kind: Kinds, key: Keys \union {NoKey}] /\ Suits(new.kind, "lock")
    BY DEF Kinds, Suits
  <2>2. pc' = [pc EXCEPT ![c] = "lock"] /\ job' = [job EXCEPT ![c] = new]
        /\ queue' \in Seq(Jobs) /\ refreshing' \subseteq Keys
    BY <1>3 DEF Miss, JobInv
  <2> QED BY <2>1, <2>2, JobMoves DEF Places, Threads
<1>4. ASSUME NEW w \in Workers, Take(w) PROVE JobInv'
  <2>1. Head(queue) \in Jobs /\ Tail(queue) \in Seq(Jobs)
    BY <1>4 DEF Take, JobInv
  <2> DEFINE where == IF Head(queue).kind = "warm" THEN "lock" ELSE "check"
  <2>2. Suits(Head(queue).kind, where) /\ where \in Places
    BY <2>1, JobsAreJobs DEF Suits, Places
  <2>3. pc' = [pc EXCEPT ![w] = where] /\ job' = [job EXCEPT ![w] = Head(queue)]
        /\ queue' \in Seq(Jobs) /\ refreshing' \subseteq Keys
    BY <1>4, <2>1 DEF Take, JobInv
  <2> QED BY <2>1, <2>2, <2>3, JobsAreJobs, JobMoves DEF Threads
<1>5. CASE Commit \/ Invalidate \/ Expire
  BY <1>5 DEF Commit, Invalidate, Expire, JobInv
<1>6. CASE WarmCommon
  <2>1. PICK new \in Seq(Jobs) : queue' = queue \o new
    BY <1>6, WarmJobs
  <2>2. queue' \in Seq(Jobs)
    BY <2>1, ConcatProperties DEF JobInv
  <2> QED BY <1>6, <2>2 DEF WarmCommon, JobInv
<1>7. CASE UNCHANGED vars
  BY <1>7 DEF vars, JobInv
<1> QED BY <1>1, <1>2, <1>3, <1>4, <1>5, <1>6, <1>7, JobStepThread DEF Next

\* Steps that hand no key to a thread keep one owner per claimed key.
LEMMA ClaimStepThread ==
  ASSUME JobInv, ClaimInv, NEW t \in Threads, Step(t) \/ ReadFail(t)
  PROVE  ClaimInv'
<1> USE DEF Goto, local, pool, locks
<1>1. CASE LockFor(t) \/ Acquire(t)
  BY <1>1, OwnersStay DEF LockFor, Acquire, JobInv, Owns
<1>2. CASE Check(t)
  BY <1>2, OwnersStay DEF Check, JobInv, Owns
<1>3. CASE Capture(t) \/ Read(t)
  BY <1>3, OwnersStay DEF Capture, Read, JobInv, Owns
<1>4. CASE Put(t) \/ ReadFail(t)
  BY <1>4, OwnersStay DEF Put, ReadFail, AfterCompute, JobInv, Owns
<1>5. CASE Release(t) \/ ReclaimFailedLock(t)
  BY <1>5, OwnersStay DEF Release, ReclaimFailedLock, JobInv, Owns, NoJob
<1>6. CASE Claim(t)
  <2>1. job' = job /\ queue' = queue /\ job[t].kind = "warm" /\ pc[t] = "claim"
    BY <1>6 DEF Claim, JobInv, Suits
  <2>2. CASE job[t].key \in refreshing
    <3>1. refreshing' = refreshing /\ pc' = [pc EXCEPT ![t] = "release"]
      BY <1>6, <2>2 DEF Claim
    <3> QED BY <2>1, <3>1, OwnersStay DEF JobInv, Owns
  <2>3. CASE job[t].key \notin refreshing
    <3>1. refreshing' = refreshing \union {job[t].key}
          /\ pc' = [pc EXCEPT ![t] = "capture"]
      BY <1>6, <2>3 DEF Claim
    <3>2. \A u \in Threads : u # t => (Owns(u)' <=> Owns(u))
      BY <2>1, <3>1 DEF JobInv, Owns
    <3> QED BY <2>1, <2>3, <3>1, <3>2 DEF ClaimInv
  <2> QED BY <2>2, <2>3
<1>7. CASE Discard(t)
  <2>1. Owns(t) /\ ~Owns(t)' /\ queue' = queue /\ refreshing' = refreshing \ {job[t].key}
    BY <1>7 DEF Discard, JobInv, Owns, Suits, NoJob
  <2>2. \A u \in Threads : u # t => job'[u] = job[u] /\ (Owns(u)' <=> Owns(u))
    BY <1>7 DEF Discard, JobInv, Owns
  <2> QED BY <2>1, <2>2 DEF ClaimInv
<1> QED BY <1>1, <1>2, <1>3, <1>4, <1>5, <1>6, <1>7 DEF Step

LEMMA ClaimStep ==
  ASSUME JobInv, ClaimInv, [Next]_vars
  PROVE  ClaimInv'
<1> USE DEF Goto, local, pool, locks
<1>1. ASSUME NEW c \in Clients, Schedule(c) PROVE ClaimInv'
  <2>1. c \in Threads /\ job[c].key \in Keys /\ ~Owns(c)
    BY <1>1 DEF Schedule, Threads, JobInv, Suits, Owns
  <2>2. \A u \in Threads : Owns(u)' => Owns(u) /\ job'[u] = job[u]
    BY <1>1, <2>1 DEF Schedule, JobInv, Owns, NoJob
  <2>3. CASE job[c].key \in refreshing
    BY <1>1, <2>2, <2>3, OwnersStay DEF Schedule
  <2>4. CASE job[c].key \notin refreshing
    <3> DEFINE new == [kind |-> "refresh", key |-> job[c].key]
    <3>1. queue' = Append(queue, new) /\ refreshing' = refreshing \union {new.key}
      BY <1>1, <2>4 DEF Schedule
    <3>2. Len(queue) \in Nat /\ Len(queue') = Len(queue) + 1
          /\ queue'[Len(queue) + 1] = new
          /\ \A i \in 1..Len(queue) : queue'[i] = queue[i]
      <4>1. new \in Jobs
        BY <2>1 DEF Jobs
      <4> QED BY <3>1, <4>1, AppendProperties, LenProperties DEF JobInv
    <3>3. new.key \notin refreshing
      BY <2>4
    <3> HIDE DEF new
    <3> QED BY <2>2, <3>1, <3>2, <3>3 DEF ClaimInv
  <2> QED BY <2>3, <2>4
<1>2. ASSUME NEW c \in Clients, NEW k \in Keys, HitStale(c, k) \/ Miss(c, k)
      PROVE ClaimInv'
  BY <1>2, OwnersStay DEF HitStale, Miss, JobInv, Owns, Threads
<1>3. ASSUME NEW w \in Workers, Take(w) PROVE ClaimInv'
  <2>1. w \in Threads /\ job[w].kind = "none" /\ ~Owns(w)
    BY <1>3 DEF Take, Threads, JobInv, Suits, Owns
  <2>2. job'[w] = queue[1] /\ refreshing' = refreshing
        /\ (Owns(w)' => queue[1].kind = "refresh")
    BY <1>3, <2>1 DEF Take, JobInv, Owns
  <2>3. \A u \in Threads : u # w => job'[u] = job[u] /\ (Owns(u)' <=> Owns(u))
    BY <1>3 DEF Take, JobInv, Owns
  <2>4. Len(queue) \in Nat /\ Len(queue) > 0 /\ Len(queue') = Len(queue) - 1
        /\ \A i \in 1..Len(queue') : queue'[i] = queue[i + 1]
    <3>1. queue \in Seq(Jobs) /\ queue # <<>> /\ queue' = Tail(queue)
      BY <1>3 DEF Take, JobInv
    <3> HIDE DEF Jobs
    <3> QED BY <3>1, HeadTailProperties
  <2>5. \A t \in Threads : Owns(t)' => t = w \/ (Owns(t) /\ job'[t] = job[t])
    BY <2>3
  <2>6. \A t \in Threads : Owns(t) => t # w
    BY <2>1
  <2>7. Owns(w)' => /\ queue[1].key \in refreshing
                    /\ \A t \in Threads : Owns(t) => job[t].key # queue[1].key
    BY <2>2, <2>4 DEF ClaimInv
  <2>8. \A t \in Threads : Owns(t)' => job'[t].key \in refreshing'
    BY <2>2, <2>5, <2>7 DEF ClaimInv
  <2>9. \A t, u \in Threads : Owns(t)' /\ Owns(u)' /\ t # u => job'[t].key # job'[u].key
    BY <2>2, <2>5, <2>7 DEF ClaimInv
  <2>10. ASSUME NEW i \in 1..Len(queue'), queue'[i].kind = "refresh"
         PROVE  /\ queue'[i].key \in refreshing'
                /\ \A t \in Threads : Owns(t)' => job'[t].key # queue'[i].key
                /\ \A j \in 1..Len(queue') :
                     queue'[j].kind = "refresh" /\ i # j => queue'[i].key # queue'[j].key
    <3>1. i + 1 \in 1..Len(queue) /\ 1 \in 1..Len(queue) /\ i + 1 # 1 /\ queue'[i] = queue[i + 1]
      BY <2>4, <2>10
    <3>2. /\ queue[i + 1].key \in refreshing
          /\ \A t \in Threads : Owns(t) => job[t].key # queue[i + 1].key
          /\ \A j \in 1..Len(queue) :
               queue[j].kind = "refresh" /\ i + 1 # j => queue[i + 1].key # queue[j].key
      BY <2>10, <3>1 DEF ClaimInv
    <3>3. \A t \in Threads : Owns(t)' => job'[t].key # queue'[i].key
      BY <2>2, <2>5, <3>1, <3>2
    <3>4. ASSUME NEW j \in 1..Len(queue'), queue'[j].kind = "refresh", i # j
          PROVE  queue'[i].key # queue'[j].key
      <4>1. j + 1 \in 1..Len(queue) /\ queue'[j] = queue[j + 1] /\ i + 1 # j + 1
        BY <2>4, <3>4
      <4> QED BY <3>1, <3>2, <3>4, <4>1
    <3> QED BY <2>2, <3>1, <3>2, <3>3, <3>4
  <2> QED BY <2>8, <2>9, <2>10 DEF ClaimInv
<1>4. CASE Commit \/ Invalidate \/ Expire
  BY <1>4, OwnersStay DEF Commit, Invalidate, Expire, Owns
<1>5. CASE WarmCommon
  <2>1. PICK new \in Seq(Jobs) : /\ queue' = queue \o new
                                 /\ \A i \in 1..Len(new) : new[i].kind # "refresh"
    BY <1>5, WarmJobs
  <2>2. Len(queue) \in Nat /\ Len(new) \in Nat
    BY LenProperties DEF JobInv
  <2>3. Len(queue') = Len(queue) + Len(new)
        /\ \A i \in 1..Len(queue) + Len(new) :
             queue'[i] = IF i <= Len(queue) THEN queue[i] ELSE new[i - Len(queue)]
    BY <2>1, ConcatProperties DEF JobInv
  <2>4. \A i \in 1..Len(queue') : queue'[i].kind = "refresh" =>
          i \in 1..Len(queue) /\ queue'[i] = queue[i]
    <3> SUFFICES ASSUME NEW i \in 1..Len(queue'), queue'[i].kind = "refresh",
                        ~(i <= Len(queue))
                 PROVE  FALSE
      BY <2>2, <2>3
    <3>1. i - Len(queue) \in 1..Len(new)
      BY <2>2, <2>3
    <3> QED BY <2>1, <2>3, <3>1
  <2>5. refreshing' = refreshing
        /\ \A u \in Threads : job'[u] = job[u] /\ (Owns(u)' <=> Owns(u))
    BY <1>5 DEF WarmCommon, Owns
  <2> QED BY <2>4, <2>5 DEF ClaimInv
<1>6. CASE UNCHANGED vars
  BY <1>6, OwnersStay DEF vars, Owns
<1> QED BY <1>1, <1>2, <1>3, <1>4, <1>5, <1>6, ClaimStepThread DEF Next

\* Off the request path no key is computed twice at once (RefreshOnce), for any
\* number of requests, refreshes and warms.
THEOREM RefreshedOnce == Spec => []RefreshOnce
<1>1. JobInv /\ ClaimInv => RefreshOnce
  BY DEF JobInv, ClaimInv, RefreshOnce, OffPath, Owns, Threads
<1>2. JobInv /\ ClaimInv /\ [Next]_vars => JobInv' /\ ClaimInv'
  BY JobStep, ClaimStep
<1> QED BY <1>1, <1>2, ClaimInit, PTL DEF Spec
-----------------------------------------------------------------------------
\* No step replaces the lock of a key while a thread holds it (HeldLockStays):
\* an eviction and a failed compute drop free locks only, and lock_for gives a
\* key a lock object only if it has none.
THEOREM HeldLocksStay == Spec => HeldLockStays
<1> DEFINE Inv == keyLock = [k \in Keys |-> keyLock[k]]
<1> DEFINE Held(k) == keyLock[k] # NoLock /\ holder[keyLock[k]] # NoThread
<1> USE DEF data, cache, locks, pool, local, bounds
<1>1. Init => Inv
  BY DEF Init
<1>2. ASSUME NEW ks, keyLock' = Reclaimed(ks)
      PROVE  Inv' /\ \A k \in Keys : Held(k) => keyLock'[k] = keyLock[k]
  BY <1>2 DEF Reclaimed
<1>3. ASSUME Inv, [Next]_vars
      PROVE  Inv' /\ \A k \in Keys : Held(k) => keyLock'[k] = keyLock[k]
  <2>1. ASSUME NEW t \in Threads, Put(t) \/ ReclaimFailedLock(t)
        PROVE  \E ks : keyLock' = Reclaimed(ks)
    BY <2>1, Zenon DEF Put, ReclaimFailedLock
  <2>2. ASSUME NEW t \in Threads, LockFor(t)
        PROVE  Inv' /\ \A k \in Keys : Held(k) => keyLock'[k] = keyLock[k]
    <3>1. PICK mine : /\ keyLock' = [keyLock EXCEPT ![job[t].key] = mine]
                      /\ keyLock[job[t].key] # NoLock => mine = keyLock[job[t].key]
      BY <2>2, Zenon DEF LockFor
    <3> QED BY <1>3, <3>1
  <2>3. CASE keyLock' = keyLock
    BY <1>3, <2>3
  <2>4. ASSUME NEW t \in Threads,
               Acquire(t) \/ Check(t) \/ Claim(t) \/ Capture(t) \/ Read(t)
                 \/ ReadFail(t) \/ Discard(t) \/ Release(t)
        PROVE  keyLock' = keyLock
    BY <2>4, Zenon DEF Acquire, Check, Claim, Capture, Read, ReadFail, Discard, Release
  <2>5. ASSUME NEW c \in Clients, Schedule(c) \/ \E k \in Keys : HitStale(c, k) \/ Miss(c, k)
        PROVE  keyLock' = keyLock
    BY <2>5, Zenon DEF Schedule, HitStale, Miss
  <2>6. ASSUME (\E w \in Workers : Take(w)) \/ Commit \/ Invalidate \/ WarmCommon
               \/ Expire \/ UNCHANGED vars
        PROVE  keyLock' = keyLock
    BY <2>6, Zenon DEF Take, Commit, Invalidate, WarmCommon, Expire, vars
  <2> QED BY <1>2, <1>3, <2>1, <2>2, <2>3, <2>4, <2>5, <2>6 DEF Next, Step
<1>4. Inv /\ [Next]_vars =>
        [\A k \in Keys : Held(k) => keyLock'[k] = keyLock[k]]_vars
  BY <1>3
<1> QED BY <1>1, <1>3, <1>4, PTL DEF Spec, HeldLockStays
-----------------------------------------------------------------------------
\* The entry cap.  The order lists every stored key once, the expired ones
\* first: the n oldest entries of it are n entries, and the cache is no larger
\* than the order is long.
First(seq, n) == {seq[i] : i \in 1..n}
Distinct(seq) == \A i, j \in 1..Len(seq) : seq[i] = seq[j] => i = j
OrderInv ==
  /\ order \in Seq(Keys) /\ Distinct(order)
  /\ \A k \in Keys : Stored(k) <=> \E i \in 1..Len(order) : order[i] = k
  /\ Len(order) <= MaxEntries
  /\ \E n \in 0..Len(order) : expired = First(order, n)

\* The first n of distinct keys are n keys.
LEMMA FirstCounts ==
  ASSUME NEW seq \in Seq(Keys), Distinct(seq), NEW n \in 0..Len(seq)
  PROVE  Cardinality(First(seq, n)) = n
<1> DEFINE f == [i \in 1..n |-> seq[i]]
<1>1. \A i \in 1..n : i \in 1..Len(seq)
  OBVIOUS
<1>2. f \in Bijection(1..n, First(seq, n))
  BY <1>1 DEF Bijection, Injection, Surjection, IsInjective, First, Distinct
<1>3. IsFiniteSet(1..n) /\ Cardinality(1..n) = n
  BY FS_Interval
<1> QED BY <1>2, <1>3, FS_Bijection DEF ExistsBijection

\* The order once key k is put anew: k last, the others as they stood.
LEMMA PutLastOrder ==
  ASSUME OrderInv, NEW k \in Keys
  PROVE  LET new == PutLast(k)
         IN  /\ new \in Seq(Keys) /\ Distinct(new) /\ Len(new) \in Nat \ {0}
             /\ new[Len(new)] = k
             /\ \A j \in Keys : (\E i \in 1..Len(new) : new[i] = j) <=> Stored(j) \/ j = k
             /\ \E m \in 0..(Len(new) - 1) : expired \ {k} = First(new, m)
<1> DEFINE new == PutLast(k)
           len == Len(order)
<1>1. order \in Seq(Keys) /\ len \in Nat /\ DOMAIN order = 1..len
      /\ \A i \in 1..len : order[i] \in Keys
  BY DEF OrderInv
<1>0. len \in Nat
  BY <1>1
<1>2. PICK n \in 0..len : expired = First(order, n)
  BY DEF OrderInv
<1>3. CASE ~Stored(k)
  <2>1. new = Append(order, k)
    BY <1>3 DEF PutLast
  <2>2. /\ new \in Seq(Keys) /\ Len(new) = len + 1 /\ new[len + 1] = k
        /\ \A i \in 1..len : new[i] = order[i]
    BY <1>1, <2>1, AppendProperties
  <2>3. \A i \in 1..len : order[i] # k
    BY <1>3 DEF OrderInv
  <2> HIDE DEF new
  <2>4. Distinct(new)
    BY <1>1, <2>2, <2>3 DEF OrderInv, Distinct
  <2>5. \A j \in Keys : (\E i \in 1..Len(new) : new[i] = j) <=> Stored(j) \/ j = k
    BY <1>1, <2>2 DEF OrderInv
  <2>6. expired \ {k} = First(new, n)
    BY <1>1, <1>2, <2>2, <2>3 DEF First
  <2> QED BY <1>1, <2>2, <2>4, <2>5, <2>6 DEF new
<1>4. CASE Stored(k)
  <2>0. PICK at \in 1..len :
          /\ order[at] = k
          /\ new = Append(SubSeq(order, 1, at - 1) \o SubSeq(order, at + 1, len), k)
    <3> DEFINE place == CHOOSE i \in DOMAIN order : order[i] = k
    <3>1. place \in 1..len /\ order[place] = k
      BY <1>1, <1>4 DEF OrderInv
    <3>2. new = Append(SubSeq(order, 1, place - 1) \o SubSeq(order, place + 1, len), k)
      BY <1>4 DEF PutLast
    <3> HIDE DEF place, new
    <3> QED BY <3>1, <3>2
  <2> DEFINE head == SubSeq(order, 1, at - 1)
             tail == SubSeq(order, at + 1, len)
  <2>1. at \in 1..len /\ order[at] = k
    BY <2>0
  <2>2. new = Append(head \o tail, k)
    BY <2>0
  <2> HIDE DEF new
  <2>3. /\ head \in Seq(Keys) /\ Len(head) = at - 1
        /\ \A i \in 1..(at - 1) : head[i] = order[i]
    BY <1>1, <2>1, SubSeqProperties
  <2>4. /\ tail \in Seq(Keys) /\ Len(tail) = len - at
        /\ \A i \in 1..(len - at) : tail[i] = order[at + i]
    <3>1. \A i \in (at + 1)..len : order[i] \in Keys
      BY <1>1, <2>1
    <3>2. /\ tail \in Seq(Keys)
          /\ Len(tail) = IF at + 1 <= len THEN len - (at + 1) + 1 ELSE 0
          /\ \A i \in 1..(len - (at + 1) + 1) : tail[i] = order[(at + 1) + i - 1]
      BY <1>1, <2>1, <3>1, SubSeqProperties
    <3> HIDE DEF tail
    <3>3. Len(tail) = len - at
      <4>1. CASE at + 1 <= len
        BY <1>1, <2>1, <3>2, <4>1
      <4>2. CASE at = len
        BY <1>1, <2>1, <3>2, <4>2
      <4>3. at + 1 <= len \/ at = len
        BY <1>0
      <4> QED BY <4>1, <4>2, <4>3
    <3>4. ASSUME NEW i \in 1..(len - at) PROVE tail[i] = order[at + i]
      <4>1. i \in 1..(len - (at + 1) + 1) /\ (at + 1) + i - 1 = at + i
        BY <1>1, <2>1
      <4> QED BY <3>2, <4>1
    <3> QED BY <3>2, <3>3, <3>4
  <2> HIDE DEF head, tail
  <2>5. /\ head \o tail \in Seq(Keys) /\ Len(head \o tail) = len - 1
        /\ \A i \in 1..(len - 1) :
             (head \o tail)[i] = IF i < at THEN order[i] ELSE order[i + 1]
    <3>1. /\ head \o tail \in Seq(Keys) /\ Len(head \o tail) = Len(head) + Len(tail)
          /\ \A i \in 1..(Len(head) + Len(tail)) :
               (head \o tail)[i] = IF i <= Len(head) THEN head[i] ELSE tail[i - Len(head)]
      BY <2>3, <2>4, ConcatProperties
    <3>2. Len(head \o tail) = len - 1
      BY <1>1, <2>1, <2>3, <2>4, <3>1
    <3>3. ASSUME NEW i \in 1..(len - 1)
          PROVE  (head \o tail)[i] = IF i < at THEN order[i] ELSE order[i + 1]
      <4>1. i \in 1..(Len(head) + Len(tail)) /\ (i <= Len(head) <=> i < at)
        BY <1>1, <2>1, <2>3, <2>4
      <4>2. (head \o tail)[i] = IF i <= Len(head) THEN head[i] ELSE tail[i - Len(head)]
        BY <3>1, <4>1
      <4>3. CASE i < at
        <5>1. i \in 1..(at - 1)
          BY <2>1, <4>3
        <5> QED BY <2>3, <4>1, <4>2, <4>3, <5>1
      <4>4. CASE ~(i < at)
        <5>1. /\ i - Len(head) = i - (at - 1) /\ i - (at - 1) \in 1..(len - at)
              /\ at + (i - (at - 1)) = i + 1
          BY <1>1, <2>1, <2>3, <4>4
        <5> QED BY <2>4, <4>1, <4>2, <4>4, <5>1
      <4> QED BY <4>3, <4>4
    <3> QED BY <3>1, <3>2, <3>3
  <2>6. /\ new \in Seq(Keys) /\ Len(new) = len /\ new[len] = k
        /\ \A i \in 1..(len - 1) : new[i] = IF i < at THEN order[i] ELSE order[i + 1]
    <3>1. /\ new \in Seq(Keys) /\ Len(new) = Len(head \o tail) + 1
          /\ \A i \in 1..Len(head \o tail) : new[i] = (head \o tail)[i]
          /\ new[Len(head \o tail) + 1] = k
      BY <2>2, <2>5, AppendProperties
    <3>2. Len(head \o tail) = len - 1 /\ (len - 1) + 1 = len
      BY <1>1, <2>1, <2>5
    <3>3. Len(new) = len /\ new[len] = k
      BY <3>1, <3>2
    <3>4. \A i \in 1..(len - 1) : new[i] = (head \o tail)[i]
      BY <3>1, <3>2
    <3> QED BY <2>5, <3>1, <3>3, <3>4
  <2>7. Distinct(order)
    BY DEF OrderInv
  <2>8. \A i \in 1..len : i # at => order[i] # k
    BY <2>1, <2>7 DEF Distinct
  <2>9. Distinct(new)
    <3> SUFFICES ASSUME NEW i \in 1..len, NEW j \in 1..len, new[i] = new[j], i < j
                 PROVE  FALSE
      BY <1>1, <2>6 DEF Distinct
    <3>1. CASE j = len
      BY <1>1, <2>1, <2>6, <2>8, <3>1
    <3>2. CASE j # len
      <4>1. i \in 1..(len - 1) /\ j \in 1..(len - 1)
        BY <1>0, <3>2
      <4> DEFINE h == IF i < at THEN i ELSE i + 1
                 g == IF j < at THEN j ELSE j + 1
      <4>2. h \in 1..len /\ g \in 1..len /\ h # g
        BY <1>1, <2>1, <4>1
      <4>3. new[i] = order[h] /\ new[j] = order[g]
        BY <2>6, <4>1
      <4> HIDE DEF h, g
      <4> QED BY <2>7, <4>2, <4>3 DEF Distinct
    <3> QED BY <3>1, <3>2
  <2>10. \A j \in Keys : (\E i \in 1..len : new[i] = j) <=> Stored(j) \/ j = k
    <3>1. ASSUME NEW i \in 1..len PROVE Stored(new[i])
      <4>1. \E h \in 1..len : new[i] = order[h]
        BY <1>1, <2>1, <2>6
      <4> QED BY <1>1, <4>1 DEF OrderInv
    <3>2. ASSUME NEW j \in Keys, Stored(j) PROVE \E i \in 1..len : new[i] = j
      <4>1. PICK h \in 1..len : order[h] = j
        BY <3>2 DEF OrderInv
      <4>2. CASE h = at
        BY <1>1, <2>1, <2>6, <4>1, <4>2
      <4>3. CASE h < at
        BY <1>1, <2>1, <2>6, <4>1, <4>3
      <4>4. CASE h > at
        <5>1. h - 1 \in 1..(len - 1) /\ ~(h - 1 < at) /\ (h - 1) + 1 = h
          BY <1>1, <2>1, <4>4
        <5>2. new[h - 1] = order[h]
          BY <2>6, <5>1
        <5> QED BY <1>1, <4>1, <5>1, <5>2
      <4> QED BY <1>1, <2>1, <4>2, <4>3, <4>4
    <3> QED BY <1>1, <1>4, <3>1, <3>2
  <2>11. \E m \in 0..(len - 1) : expired \ {k} = First(new, m)
    <3>1. CASE n < at
      <4>1. \A i \in 1..n : i \in 1..(len - 1) /\ new[i] = order[i] /\ order[i] # k
        BY <1>1, <2>1, <2>6, <2>8, <3>1
      <4>2. expired \ {k} = First(new, n)
        BY <1>2, <4>1 DEF First
      <4> QED BY <1>1, <2>1, <3>1, <4>2
    <3>2. CASE ~(n < at)
      <4>1. \A x : x \in expired \ {k} <=> \E i \in 1..n : i # at /\ x = order[i]
        BY <1>2, <2>1, <2>8 DEF First
      <4>2. \A i \in 1..n : i < at => i \in 1..(n - 1) /\ new[i] = order[i]
        BY <1>1, <2>1, <2>6, <3>2
      <4>3. \A i \in 1..n : i > at => i - 1 \in 1..(n - 1) /\ new[i - 1] = order[i]
        <5> TAKE i \in 1..n
        <5> HAVE i > at
        <5>1. i - 1 \in 1..(len - 1) /\ ~(i - 1 < at) /\ (i - 1) + 1 = i
          BY <1>1, <2>1
        <5> QED BY <2>1, <2>6, <5>1
      <4>4. \A i \in 1..(n - 1) : /\ i < at => i \in 1..n /\ new[i] = order[i]
                                  /\ ~(i < at) => i + 1 \in 1..n /\ i + 1 # at /\ new[i] = order[i + 1]
        BY <1>1, <2>1, <2>6, <3>2
      <4>5. First(new, n - 1) \subseteq expired \ {k}
        <5> SUFFICES ASSUME NEW i \in 1..(n - 1) PROVE new[i] \in expired \ {k}
          BY DEF First
        <5>1. CASE i < at
          <6>1. i \in 1..n /\ i # at /\ new[i] = order[i]
            BY <2>1, <4>4, <5>1
          <6> QED BY <4>1, <6>1
        <5>2. CASE ~(i < at)
          <6>1. i + 1 \in 1..n /\ i + 1 # at /\ new[i] = order[i + 1]
            BY <4>4, <5>2
          <6> QED BY <4>1, <6>1
        <5> QED BY <5>1, <5>2
      <4>6. expired \ {k} \subseteq First(new, n - 1)
        <5> SUFFICES ASSUME NEW x \in expired \ {k} PROVE x \in First(new, n - 1)
          OBVIOUS
        <5>1. PICK i \in 1..n : i # at /\ x = order[i]
          BY <4>1
        <5>2. i < at \/ i > at
          BY <2>1, <5>1
        <5> QED BY <4>2, <4>3, <5>1, <5>2 DEF First
      <4>7. n - 1 \in 0..(len - 1)
        BY <1>1, <2>1, <3>2
      <4> QED BY <4>5, <4>6, <4>7
    <3> QED BY <3>1, <3>2
  <2>12. Len(new) \in Nat \ {0}
    BY <1>1, <2>1, <2>6
  <2> QED BY <2>6, <2>9, <2>10, <2>11, <2>12 DEF new
<1> QED BY <1>3, <1>4

\* A put evicts what is over the cap, the expired entries and then the oldest,
\* and the order is that of the entries left.
LEMMA PutKeepsOrder ==
  ASSUME GenInv, JobInv, OrderInv, NEW t \in Threads, Put(t)
  PROVE  OrderInv'
<1> DEFINE k == job[t].key
           new == PutLast(k)
           len == Len(new)
           e == Evicted(k)
           entry == [ver |-> val[t], gen |-> gen[t]]
<1>1. k \in Keys
  BY DEF Put, JobInv
<1>2. /\ new \in Seq(Keys) /\ Distinct(new) /\ len \in Nat \ {0}
      /\ \A j \in Keys : (\E i \in 1..len : new[i] = j) <=> Stored(j) \/ j = k
  BY <1>1, PutLastOrder
<1>3. PICK m \in 0..(len - 1) : expired \ {k} = First(new, m)
  BY <1>1, PutLastOrder
<1>4. Cardinality(expired \ {k}) = m
  <2>1. m \in 0..Len(new)
    BY <1>2
  <2> HIDE DEF new
  <2> QED BY <1>2, <1>3, <2>1, FirstCounts
<1>5. e = IF len - MaxEntries <= 0 THEN 0 ELSE IF m > len - MaxEntries THEN m ELSE len - MaxEntries
  BY <1>4 DEF Evicted
<1>6. MaxEntries \in Nat \ {0}
  BY CacheAssumption DEF CacheAssumption
<1> HIDE DEF e
<1>7. e \in 0..len /\ len - e <= MaxEntries /\ (e = 0 \/ e >= m)
  BY <1>2, <1>5, <1>6
<1>8. /\ order' = SubSeq(new, e + 1, len)
      /\ expired' = expired \ (First(new, e) \union {k})
      /\ items' = [j \in Keys |-> IF j \in First(new, e) THEN NoEntry
                                  ELSE IF j = k THEN entry ELSE items[j]]
  BY DEF Put, Victims, First, e
<1> HIDE DEF new
<1>9. /\ order' \in Seq(Keys) /\ Len(order') = len - e
      /\ \A i \in 1..(len - e) : order'[i] = new[e + i]
  <2>1. \A i \in (e + 1)..len : new[i] \in Keys
    BY <1>2, <1>7
  <2>2. /\ order' \in Seq(Keys)
        /\ Len(order') = IF e + 1 <= len THEN len - (e + 1) + 1 ELSE 0
        /\ \A i \in 1..(len - (e + 1) + 1) : order'[i] = new[(e + 1) + i - 1]
    BY <1>2, <1>7, <1>8, <2>1, SubSeqProperties
  <2> QED BY <1>2, <1>7, <2>2
<1>10. Distinct(order')
  <2> SUFFICES ASSUME NEW i \in 1..(len - e), NEW j \in 1..(len - e), order'[i] = order'[j]
               PROVE  i = j
    BY <1>9 DEF Distinct
  <2>1. e + i \in 1..len /\ e + j \in 1..len
    BY <1>2, <1>7
  <2>2. new[e + i] = new[e + j]
    BY <1>9
  <2>3. e + i = e + j
    BY <1>2, <2>1, <2>2 DEF Distinct
  <2> QED BY <1>7, <2>3
<1>11. entry # NoEntry
  BY NoEntryAssumption DEF GenInv, Entry
<1>12. ASSUME NEW j \in Keys
       PROVE  Stored(j)' <=> \E i \in 1..Len(order') : order'[i] = j
  <2>1. Stored(j)' <=> j \notin First(new, e) /\ (Stored(j) \/ j = k)
    BY <1>8, <1>11 DEF Stored
  <2>2. (\E i \in 1..Len(order') : order'[i] = j) <=> \E h \in (e + 1)..len : new[h] = j
    <3>1. \A h \in (e + 1)..len : h - e \in 1..(len - e) /\ e + (h - e) = h
      BY <1>2, <1>7
    <3>2. \A i \in 1..(len - e) : e + i \in (e + 1)..len
      BY <1>2, <1>7
    <3> QED BY <1>9, <3>1, <3>2
  <2>3. (\E h \in (e + 1)..len : new[h] = j)
          <=> j \notin First(new, e) /\ \E h \in 1..len : new[h] = j
    <3>1. \A h \in 1..len : h \in 1..e \/ h \in (e + 1)..len
      BY <1>2, <1>7
    <3>2. \A h \in (e + 1)..len, i \in 1..e : h \in 1..len /\ i \in 1..len /\ h # i
      BY <1>2, <1>7
    <3> QED BY <1>2, <3>1, <3>2, <1>7 DEF First, Distinct
  <2> QED BY <1>2, <2>1, <2>2, <2>3
<1>13. \E n \in 0..Len(order') : expired' = First(order', n)
  <2>0. k \notin expired \ {k} /\ expired' = (expired \ {k}) \ First(new, e)
    BY <1>8
  <2>1. CASE e = 0
    <3>1. \A i \in 1..m : order'[i] = new[i]
      BY <1>2, <1>9, <2>1
    <3>2. First(new, e) = {}
      BY <2>1 DEF First
    <3>3. expired' = First(order', m)
      BY <1>3, <2>0, <3>1, <3>2 DEF First
    <3> QED BY <1>2, <1>9, <2>1, <3>3
  <2>2. CASE e >= m
    <3>1. First(new, m) \subseteq First(new, e)
      BY <1>2, <1>7, <2>2 DEF First
    <3>2. expired' = First(order', 0)
      BY <1>3, <2>0, <3>1 DEF First
    <3> QED BY <1>2, <1>7, <1>9, <3>2
  <2> QED BY <1>7, <2>1, <2>2
<1> QED BY <1>7, <1>9, <1>10, <1>12, <1>13 DEF OrderInv

\* Time passes for the oldest entry that is not expired yet.
LEMMA ExpireKeepsOrder ==
  ASSUME OrderInv, Expire
  PROVE  OrderInv'
<1>1. /\ order' = order /\ items' = items /\ Cardinality(expired) < Len(order)
      /\ expired' = expired \union {order[Cardinality(expired) + 1]}
  BY DEF Expire
<1>2. PICK n \in 0..Len(order) : expired = First(order, n)
  BY DEF OrderInv
<1>3. Cardinality(expired) = n /\ Len(order) \in Nat
  BY <1>2, FirstCounts DEF OrderInv
<1>4. 1..(n + 1) = (1..n) \union {n + 1}
  BY <1>3
<1>5. expired' = First(order, n + 1)
  BY <1>1, <1>2, <1>3, <1>4 DEF First
<1>6. n + 1 \in 0..Len(order)
  BY <1>1, <1>3
<1> QED BY <1>1, <1>5, <1>6 DEF OrderInv, Stored, Distinct

LEMMA OrderStep ==
  ASSUME GenInv, JobInv, OrderInv, [Next]_vars
  PROVE  OrderInv'
<1> USE DEF cache
<1>1. ASSUME UNCHANGED cache PROVE OrderInv'
  BY <1>1 DEF OrderInv, Stored, Distinct
<1>2. ASSUME NEW t \in Threads, Step(t) \/ ReadFail(t) PROVE Put(t) \/ UNCHANGED cache
  BY <1>2 DEF Step, LockFor, Acquire, Check, Claim, Capture, Read, ReadFail, Discard,
              Release, ReclaimFailedLock
<1>3. ASSUME NEW c \in Clients, Schedule(c) \/ \E k \in Keys : HitStale(c, k) \/ Miss(c, k)
      PROVE  UNCHANGED cache
  BY <1>3 DEF Schedule, HitStale, Miss
<1>4. ASSUME (\E w \in Workers : Take(w)) \/ Commit \/ Invalidate \/ WarmCommon \/ UNCHANGED vars
      PROVE  UNCHANGED cache
  BY <1>4 DEF Take, Commit, Invalidate, WarmCommon, vars
<1> QED BY <1>1, <1>2, <1>3, <1>4, PutKeepsOrder, ExpireKeepsOrder DEF Next

LEMMA OrderStart ==
  ASSUME Init
  PROVE  OrderInv
<1>1. order = <<>> /\ expired = {} /\ \A k \in Keys : ~Stored(k)
  BY DEF Init, Stored
<1>2. MaxEntries \in Nat
  BY CacheAssumption DEF CacheAssumption
<1> QED BY <1>1, <1>2 DEF OrderInv, First, Distinct

LEMMA OrderCounts ==
  ASSUME OrderInv
  PROVE  Cardinality({k \in Keys : Stored(k)}) = Len(order)
<1>1. order \in Seq(Keys) /\ Len(order) \in Nat
  BY DEF OrderInv
<1>2. {k \in Keys : Stored(k)} = First(order, Len(order))
  BY <1>1 DEF OrderInv, First
<1>3. Cardinality(First(order, Len(order))) = Len(order)
  BY <1>1, FirstCounts DEF OrderInv
<1> QED BY <1>2, <1>3

\* The entry cap is the hard memory bound, whichever threads put at once and
\* whatever has expired by then.
THEOREM CapStays == Spec => []CapHeld
<1>1. Init => OrderInv
  BY OrderStart
<1>2. GenInv /\ JobInv /\ OrderInv /\ [Next]_vars => OrderInv'
  BY OrderStep
<1>3. OrderInv => CapHeld
  BY OrderCounts DEF OrderInv, CapHeld
<1>4. GenInv /\ [Next]_vars => GenInv'
  BY GenStep
<1>5. JobInv /\ [Next]_vars => JobInv'
  BY JobStep
<1> QED BY <1>1, <1>2, <1>3, <1>4, <1>5, GenInit, ClaimInit, PTL DEF Spec
-----------------------------------------------------------------------------
\* Lock objects: each key has one of its own, if any.
LocksInv ==
  /\ keyLock \in [Keys -> Locks \union {NoLock}]
  /\ \A j, k \in Keys : keyLock[j] = keyLock[k] => j = k \/ keyLock[k] = NoLock
  /\ holder \in [Locks -> Threads \union {NoThread}]
  /\ ref \in [Threads -> Locks \union {NoLock}]
  /\ err \in [Threads -> BOOLEAN]

\* Keys and threads know fewer lock objects than there are.
LEMMA SomeUnused ==
  ASSUME LocksInv
  PROVE  Unused # {}
<1> DEFINE A == {keyLock[k] : k \in Keys}
           B == {ref[t] : t \in Threads}
<1>1. IsFiniteSet(Keys) /\ IsFiniteSet(Threads)
  BY CacheAssumption, LocksAssumption DEF CacheAssumption, LocksAssumption
<1>2. IsFiniteSet(A) /\ Cardinality(A) <= Cardinality(Keys)
  <2> DEFINE f == [k \in Keys |-> keyLock[k]]
  <2>1. f \in Surjection(Keys, A)
    BY DEF Surjection
  <2> HIDE DEF f
  <2> QED BY <1>1, <2>1, FS_Surjection
<1>3. IsFiniteSet(B) /\ Cardinality(B) <= Cardinality(Threads)
  <2> DEFINE f == [t \in Threads |-> ref[t]]
  <2>1. f \in Surjection(Threads, B)
    BY DEF Surjection
  <2> HIDE DEF f
  <2> QED BY <1>1, <2>1, FS_Surjection
<1> SUFFICES ASSUME Unused = {} PROVE FALSE
  OBVIOUS
<1>4. Locks \subseteq A \union B
  BY DEF Unused
<1> HIDE DEF A, B
<1>5. /\ IsFiniteSet(A \union B)
      /\ Cardinality(A \union B) = Cardinality(A) + Cardinality(B) - Cardinality(A \intersect B)
  BY <1>2, <1>3, FS_Union
<1>6. IsFiniteSet(Locks) /\ Cardinality(Locks) <= Cardinality(A \union B)
  BY <1>4, <1>5, FS_Subset
<1>7. IsFiniteSet(A \intersect B)
  BY <1>2, FS_Intersection
<1>8. /\ Cardinality(A) \in Nat /\ Cardinality(B) \in Nat /\ Cardinality(A \intersect B) \in Nat
      /\ Cardinality(Locks) \in Nat /\ Cardinality(Keys) \in Nat /\ Cardinality(Threads) \in Nat
  BY <1>1, <1>2, <1>3, <1>6, <1>7, FS_CardinalityType
<1>9. Cardinality(Locks) > Cardinality(Keys) + Cardinality(Threads)
  BY <1>6, LocksAssumption DEF LocksAssumption
<1> QED BY <1>2, <1>3, <1>5, <1>6, <1>8, <1>9

\* A key's lock is new, its own or dropped.
LEMMA LocksStepThread ==
  ASSUME LocksInv, JobInv, NEW t \in Threads, Step(t) \/ ReadFail(t)
  PROVE  LocksInv'
<1> USE DEF locks, local
<1>1. CASE LockFor(t)
  <2>1. job[t].key \in Keys
    BY <1>1 DEF LockFor, JobInv
  <2> DEFINE mine == IF keyLock[job[t].key] # NoLock THEN keyLock[job[t].key]
                     ELSE CHOOSE l \in Unused : TRUE
  <2>2. keyLock' = [keyLock EXCEPT ![job[t].key] = mine] /\ ref' = [ref EXCEPT ![t] = mine]
    BY <1>1 DEF LockFor
  <2>3. holder' = holder /\ err' = err
    BY <1>1 DEF LockFor
  <2>4. \/ keyLock[job[t].key] # NoLock /\ mine = keyLock[job[t].key]
        \/ keyLock[job[t].key] = NoLock /\ mine \in Unused
    BY SomeUnused
  <2> HIDE DEF mine
  <2>5. mine \in Locks /\ \A k \in Keys : keyLock[k] = mine => k = job[t].key
    <3>1. keyLock[job[t].key] \in Locks \union {NoLock}
      BY <2>1 DEF LocksInv
    <3>2. CASE keyLock[job[t].key] # NoLock
      BY <2>1, <2>4, <3>1, <3>2 DEF LocksInv
    <3>3. CASE mine \in Unused
      BY <3>3 DEF Unused
    <3> QED BY <2>4, <3>2, <3>3
  <2>6. \A j, k \in Keys : keyLock'[j] = keyLock'[k] => j = k \/ keyLock'[k] = NoLock
    BY <2>1, <2>2, <2>5 DEF LocksInv
  <2>7. keyLock' \in [Keys -> Locks \union {NoLock}] /\ ref' \in [Threads -> Locks \union {NoLock}]
    BY <2>2, <2>5 DEF LocksInv
  <2> QED BY <2>3, <2>6, <2>7 DEF LocksInv
<1>2. ASSUME NEW ks, keyLock' = Reclaimed(ks), holder' = holder, ref' = ref,
             err' \in [Threads -> BOOLEAN]
      PROVE  LocksInv'
  <2>1. \A k \in Keys : keyLock'[k] \in {keyLock[k], NoLock}
    BY <1>2 DEF Reclaimed
  <2>2. keyLock' \in [Keys -> Locks \union {NoLock}]
    BY <1>2, <2>1 DEF Reclaimed, LocksInv
  <2> QED BY <1>2, <2>1, <2>2 DEF LocksInv
<1>3. CASE Put(t)
  <2>1. PICK ks : keyLock' = Reclaimed(ks)
    BY <1>3, Zenon DEF Put
  <2>2. holder' = holder /\ ref' = ref /\ err' = err
    BY <1>3 DEF Put
  <2>3. err' \in [Threads -> BOOLEAN]
    BY <2>2 DEF LocksInv
  <2> QED BY <1>2, <2>1, <2>2, <2>3
<1>4. CASE ReclaimFailedLock(t)
  <2>1. keyLock' = Reclaimed({job[t].key}) /\ holder' = holder /\ ref' = ref
        /\ err' = [err EXCEPT ![t] = FALSE]
    BY <1>4 DEF ReclaimFailedLock
  <2>2. err' \in [Threads -> BOOLEAN]
    BY <2>1 DEF LocksInv
  <2> QED BY <1>2, <2>1, <2>2
<1>5. CASE Acquire(t)
  BY <1>5 DEF Acquire, LocksInv
<1>6. CASE Release(t)
  BY <1>6 DEF Release, LocksInv
<1>7. CASE Discard(t)
  <2>1. keyLock' = keyLock /\ holder' = holder /\ ref' = ref
        /\ (err' = err \/ err' = [err EXCEPT ![t] = FALSE])
    BY <1>7 DEF Discard
  <2> QED BY <2>1 DEF LocksInv
<1>8. CASE ReadFail(t)
  BY <1>8 DEF ReadFail, LocksInv
<1>9. CASE Check(t) \/ Claim(t) \/ Capture(t) \/ Read(t)
  BY <1>9 DEF Check, Claim, Capture, Read, LocksInv
<1> QED BY <1>1, <1>3, <1>4, <1>5, <1>6, <1>7, <1>8, <1>9 DEF Step

LEMMA LocksStep ==
  ASSUME LocksInv, JobInv, [Next]_vars
  PROVE  LocksInv'
<1> USE DEF locks, local
<1>1. ASSUME UNCHANGED locks, ref' = ref, err' = err PROVE LocksInv'
  BY <1>1 DEF LocksInv
<1>2. ASSUME NEW c \in Clients, Schedule(c) \/ \E k \in Keys : HitStale(c, k) \/ Miss(c, k)
      PROVE  UNCHANGED locks /\ ref' = ref /\ err' = err
  BY <1>2 DEF Schedule, HitStale, Miss
<1>3. ASSUME (\E w \in Workers : Take(w)) \/ Commit \/ Invalidate \/ WarmCommon \/ Expire
             \/ UNCHANGED vars
      PROVE  UNCHANGED locks /\ ref' = ref /\ err' = err
  BY <1>3 DEF Take, Commit, Invalidate, WarmCommon, Expire, vars
<1> QED BY <1>1, <1>2, <1>3, LocksStepThread DEF Next

\* Everything above gives every variable its type.
LEMMA InvTypes ==
  ASSUME GenInv, JobInv, OrderInv, LocksInv
  PROVE  TypeOK
<1>1. order \in Seq(Keys) /\ DOMAIN order = 1..Len(order) /\ Len(order) \in Nat
  BY DEF OrderInv
<1>2. PICK n \in 0..Len(order) : expired = First(order, n)
  BY DEF OrderInv
<1>3. expired \subseteq {k \in Keys : Stored(k)}
  BY <1>1, <1>2 DEF OrderInv, First
<1>4. {order[i] : i \in DOMAIN order} = {k \in Keys : Stored(k)}
  BY <1>1 DEF OrderInv
<1>5. ASSUME NEW i \in DOMAIN order, NEW j \in DOMAIN order, i < j, order[j] \in expired
      PROVE  order[i] \in expired
  <2>1. PICK h \in 1..n : order[j] = order[h]
    BY <1>2, <1>5 DEF First
  <2>2. j = h
    BY <1>1, <1>2, <2>1 DEF OrderInv, Distinct
  <2> QED BY <1>1, <1>2, <1>5, <2>2 DEF First
<1>6. Len(order) = Cardinality({k \in Keys : Stored(k)})
  BY OrderCounts
<1> QED BY <1>1, <1>3, <1>4, <1>5, <1>6 DEF TypeOK, GenInv, JobInv, LocksInv, Places

\* Every variable keeps its type, the order lists the stored keys, the expired
\* ones first, and no lock object serves two keys, for any number of keys and
\* threads.
THEOREM TypesHold == Spec => []TypeOK
<1>1. Init => OrderInv
  BY OrderStart
<1>2. Init => LocksInv
  BY DEF Init, LocksInv
<1>3. GenInv /\ [Next]_vars => GenInv'
  BY GenStep
<1>4. JobInv /\ [Next]_vars => JobInv'
  BY JobStep
<1>5. GenInv /\ JobInv /\ OrderInv /\ [Next]_vars => OrderInv'
  BY OrderStep
<1>6. JobInv /\ LocksInv /\ [Next]_vars => LocksInv'
  BY LocksStep
<1>7. GenInv /\ JobInv /\ OrderInv /\ LocksInv => TypeOK
  BY InvTypes
<1> QED BY <1>1, <1>2, <1>3, <1>4, <1>5, <1>6, <1>7, GenInit, ClaimInit, PTL DEF Spec

-----------------------------------------------------------------------------
\* Sign-in.

\* The handler or the worker of a request is not done: it holds its slots.
Held(a) == a.stage \in {"verify", "normalize"} \/ (a.stage = "gone" /\ a.working)

\* The invariants of sign-in.
LoginInv ==
  /\ L!LoginTypeOK
  /\ L!SessionInv
  /\ L!CostInv
  /\ L!LimitsHeld

\* What a step of one request does to the others' and its own handler.
Answers(r, b) ==
  /\ b \in L!Request \cup L!Ended
  /\ attempt' = [attempt EXCEPT ![r] = b]
-----------------------------------------------------------------------------
\* Requests: the records the handler goes through.

LEMMA CostsAreNatural ==
  ASSUME NEW c \in Accounts \cup {NoCred}
  PROVE  L!Iterations(c) \in Nat
BY DEF L!Iterations, Accounts

LEMMA RequestFields ==
  ASSUME NEW a \in L!Request
  PROVE  /\ a.stage \in L!Stages /\ a.ip \in Ips /\ a.uid \in Uids
         /\ a.seen \in Accounts \cup {NoCred} /\ a.working \in BOOLEAN
         /\ a.cost \in Nat /\ a.raised \in SUBSET {"verify", "normalize"}
         /\ a.remaining \in Nat /\ a.missed \in BOOLEAN /\ a.first \in BOOLEAN
         /\ L!Iterations(a.seen) \in Nat /\ L!Work(a) \in Nat
<1>1. /\ a.stage \in L!Stages /\ a.ip \in Ips /\ a.uid \in Uids
      /\ a.seen \in Accounts \cup {NoCred} /\ a.working \in BOOLEAN
      /\ a.cost \in Nat /\ a.raised \in SUBSET {"verify", "normalize"}
      /\ a.remaining \in Nat /\ a.missed \in BOOLEAN /\ a.first \in BOOLEAN
  BY DEF L!Request
<1>2. L!Iterations(a.seen) \in Nat
  BY <1>1, CostsAreNatural
<1>3. L!Work(a) \in Nat
  BY <1>1, <1>2 DEF L!Work
<1> QED BY <1>1, <1>2, <1>3

\* A request that is neither idle nor over is a request record.
LEMMA Made ==
  ASSUME L!LoginTypeOK, NEW r \in Attempts, attempt[r].stage \in L!Stages
  PROVE  attempt[r] \in L!Request
<1>1. attempt[r] \in L!Request \cup L!Ended
  BY DEF L!LoginTypeOK
<1>2. attempt[r] \notin L!Ended
  BY DEF L!Ended, L!Stages
<1> QED BY <1>1, <1>2

LEMMA OverIsEnded ==
  /\ \A s \in {"idle", "limited", "in", "over"} :
       L!Over(s) \in L!Ended /\ L!Over(s).stage = s /\ ~Held(L!Over(s))
  /\ L!Idle = L!Over("idle")
BY DEF L!Over, L!Ended, L!Idle, Held

\* The request that waits for the normalizing worker.
LEMMA Normalizes ==
  ASSUME NEW a \in L!Request, NEW spent \in Nat, NEW b, b = L!ToNormalize(a, spent)
  PROVE  /\ b \in L!Request /\ b.stage = "normalize" /\ b.working
         /\ b.ip = a.ip /\ b.uid = a.uid /\ b.seen = a.seen /\ b.raised = a.raised
         /\ b.missed = a.missed /\ b.cost = a.cost
         /\ b.remaining = L!Remainder(spent) /\ b.first = (L!Remainder(spent) \notin known)
<1> DEFINE n == L!Remainder(spent)
           f == n \notin known
<1>1. n \in Nat
  BY LoginAssumption DEF L!Remainder, LoginAssumption
<1>2. f \in BOOLEAN
  OBVIOUS
<1>3. b = [a EXCEPT !.stage = "normalize", !.working = TRUE, !.remaining = n, !.first = f]
  BY DEF L!ToNormalize
<1> HIDE DEF n, f
<1>4. /\ b \in L!Request /\ b.stage = "normalize" /\ b.working
      /\ b.ip = a.ip /\ b.uid = a.uid /\ b.seen = a.seen /\ b.raised = a.raised
      /\ b.missed = a.missed /\ b.cost = a.cost /\ b.remaining = n /\ b.first = f
  BY <1>1, <1>2, <1>3 DEF L!Request, L!Stages
<1> QED BY <1>4 DEF n, f

\* The request whose worker has ended.
LEMMA HasWorked ==
  ASSUME NEW a \in L!Request, NEW n \in Nat, NEW raised \in SUBSET {"verify", "normalize"},
         NEW b, b = L!Worked(a, n, raised)
  PROVE  /\ b \in L!Request /\ b.stage = a.stage /\ ~b.working
         /\ b.ip = a.ip /\ b.uid = a.uid /\ b.seen = a.seen /\ b.raised = a.raised \cup raised
         /\ b.missed = a.missed /\ b.cost = a.cost + n /\ b.remaining = a.remaining
         /\ b.first = a.first
<1> DEFINE m == a.cost + n
           z == a.raised \cup raised
<1>1. m \in Nat /\ z \in SUBSET {"verify", "normalize"}
  <2>1. a.cost \in Nat /\ a.raised \in SUBSET {"verify", "normalize"}
    BY RequestFields
  <2>2. m \in Nat
    BY <2>1
  <2>3. z \subseteq {"verify", "normalize"}
    BY <2>1
  <2> QED BY <2>2, <2>3
<1>2. b = [a EXCEPT !.working = FALSE, !.cost = m, !.raised = z]
  BY DEF L!Worked
<1> HIDE DEF m, z
<1>3. /\ b \in L!Request /\ b.stage = a.stage /\ ~b.working
      /\ b.ip = a.ip /\ b.uid = a.uid /\ b.seen = a.seen /\ b.raised = z
      /\ b.missed = a.missed /\ b.cost = m /\ b.remaining = a.remaining
      /\ b.first = a.first
  BY <1>1, <1>2 DEF L!Request
<1> QED BY <1>3 DEF m, z

\* Replacing one request keeps the type of all.
LEMMA Replaced ==
  ASSUME L!LoginTypeOK, NEW r \in Attempts, NEW b, Answers(r, b)
  PROVE  /\ attempt' \in [Attempts -> L!Request \cup L!Ended]
         /\ attempt'[r] = b
         /\ \A q \in Attempts : q # r => attempt'[q] = attempt[q]
BY DEF L!LoginTypeOK, Answers

\* What an attempt's record says of its cost.
CostOK(a, hashes) ==
  /\ a.stage = "verify" => L!Verifying(a)
  /\ a.stage = "normalize" => L!Normalizing(a, hashes)
  /\ a.stage = "failed" => L!CostsAlike(a)

\* Hashes are only added to what the process has, and what a refusal needed is
\* among them.
HashesKept ==
  /\ references \subseteq references' /\ references' \subseteq Nat
  /\ {0, Target} \subseteq known' /\ known' \subseteq references' \cup {0}

\* A step of a handler: it answers with a record of the same keys that keeps its
\* two slots, or with one that has given both back; the cost is accounted for.
Moves(r, b) ==
  /\ Answers(r, b)
  /\ CostOK(b, references')
  /\ HashesKept
  /\ \/ Held(b) /\ L!KeysOf(b) = L!KeysOf(attempt[r]) /\ inflight' = inflight
     \/ ~Held(b) /\ L!Release(attempt[r])

LEMMA HashesUnchanged ==
  ASSUME L!LoginTypeOK, L!CostInv, UNCHANGED <<references, known>>
  PROVE  HashesKept
BY DEF HashesKept, L!LoginTypeOK, L!CostInv

\* An attempt that is over, and what it holds given back.
LEMMA OverMoves ==
  ASSUME L!LoginTypeOK, HashesKept, NEW r \in Attempts, NEW s \in {"idle", "limited", "in", "over"},
         attempt' = [attempt EXCEPT ![r] = L!Over(s)], L!Release(attempt[r])
  PROVE  Moves(r, L!Over(s))
<1>1. L!Over(s) \in L!Ended /\ L!Over(s).stage = s /\ ~Held(L!Over(s))
  BY OverIsEnded
<1>2. CostOK(L!Over(s), references')
  BY <1>1 DEF CostOK
<1> QED BY <1>1, <1>2 DEF Moves, Answers

\* The padding of a refusal: what has run so far is accounted for.
LEMMA NormalizeMoves ==
  ASSUME L!LoginTypeOK, L!CostInv, NEW r \in Attempts, NEW spent \in Nat,
         attempt[r] \in L!Request, attempt[r].stage = "verify", ~attempt[r].working,
         spent = IF "verify" \in attempt[r].raised THEN 0 ELSE L!Iterations(attempt[r].seen),
         attempt' = [attempt EXCEPT ![r] = L!ToNormalize(attempt[r], spent)],
         UNCHANGED <<inflight, references, known>>
  PROVE  \E b : Moves(r, b)
<1> DEFINE a == attempt[r]
           b == L!ToNormalize(a, spent)
<1>1. /\ b \in L!Request /\ b.stage = "normalize" /\ b.working
      /\ b.ip = a.ip /\ b.uid = a.uid /\ b.seen = a.seen /\ b.raised = a.raised
      /\ b.missed = a.missed /\ b.cost = a.cost
      /\ b.remaining = L!Remainder(spent) /\ b.first = (L!Remainder(spent) \notin known)
  BY Normalizes
<1>2. attempt' = [attempt EXCEPT ![r] = b]
  OBVIOUS
<1> HIDE DEF b
<1>3. L!Verifying(a)
  BY DEF L!CostInv
<1>4. ~b.missed /\ "normalize" \notin b.raised /\ b.cost \in L!VerifyCosts(b)
  BY <1>1, <1>3 DEF L!Verifying, L!VerifyCosts
<1>5. /\ {0, Target} \subseteq known /\ known \subseteq references \cup {0}
      /\ references' = references
  BY DEF L!CostInv
<1>6. /\ b.first => b.remaining \notin {0, Target}
      /\ ~b.first => b.remaining \in references' \cup {0}
  BY <1>1, <1>5
<1>7. b.remaining = L!Remainder(IF "verify" \in b.raised THEN 0 ELSE L!Iterations(b.seen))
  BY <1>1
<1>8. L!Normalizing(b, references')
  BY <1>1, <1>4, <1>6, <1>7 DEF L!Normalizing
<1>9. CostOK(b, references')
  BY <1>1, <1>8 DEF CostOK
<1>10. Held(b) /\ L!KeysOf(b) = L!KeysOf(a)
  BY <1>1 DEF Held, L!KeysOf
<1> QED BY <1>1, <1>2, <1>9, <1>10, HashesUnchanged DEF Moves, Answers

\* A worker that has hashed the candidate finds no reference hash.
LEMMA MissingMoves ==
  ASSUME L!LoginTypeOK, L!CostInv, NEW r \in Attempts, attempt[r] \in L!Request,
         L!ReferenceMissing(r)
  PROVE  \E b : Moves(r, b)
<1> DEFINE a == attempt[r]
           b == [a EXCEPT !.missed = TRUE]
<1>1. /\ L!Working(r) /\ a.remaining \notin references \cup {0}
      /\ attempt' = [attempt EXCEPT ![r] = b] /\ UNCHANGED <<inflight, references, known>>
  BY DEF L!ReferenceMissing
<1>2. /\ b \in L!Request /\ b.stage = a.stage /\ b.working = a.working
      /\ b.ip = a.ip /\ b.uid = a.uid /\ b.seen = a.seen /\ b.raised = a.raised
      /\ b.missed /\ b.cost = a.cost /\ b.remaining = a.remaining /\ b.first = a.first
  BY DEF L!Request
<1> HIDE DEF b
<1>3. a.stage # "verify"
  BY <1>1 DEF L!CostInv, L!Verifying
<1>4. a.stage = "normalize" => L!Normalizing(b, references')
  <2> SUFFICES ASSUME a.stage = "normalize" PROVE L!Normalizing(b, references')
    OBVIOUS
  <2>1. L!Normalizing(a, references)
    BY DEF L!CostInv
  <2>2. b.working /\ L!VerifyCosts(b) = L!VerifyCosts(a)
    BY <1>1, <1>2 DEF L!Working, L!VerifyCosts
  <2> QED BY <1>1, <1>2, <2>1, <2>2 DEF L!Normalizing
<1>5. CostOK(b, references')
  BY <1>1, <1>2, <1>3, <1>4 DEF CostOK, L!Working
<1>6. Held(b) /\ L!KeysOf(b) = L!KeysOf(a)
  BY <1>1, <1>2 DEF Held, L!KeysOf, L!Working
<1> QED BY <1>1, <1>2, <1>5, <1>6, HashesUnchanged DEF Moves, Answers

\* A worker ends: what it ran is added, and what it computed is kept.
LEMMA DoneMoves ==
  ASSUME L!LoginTypeOK, L!CostInv, NEW r \in Attempts, attempt[r] \in L!Request,
         L!WorkerDone(r)
  PROVE  \E b : Moves(r, b)
<1> DEFINE a == attempt[r]
           b == L!Worked(a, L!Work(a), {})
<1>1. /\ L!Working(r) /\ (a.missed \/ a.remaining \in references \cup {0})
      /\ references' = L!Memoized(a) /\ known' = known
  BY DEF L!WorkerDone
<1>2. a.remaining \in Nat /\ a.cost \in Nat /\ L!Work(a) \in Nat
  BY RequestFields
<1>3. HashesKept /\ a.remaining \in references' \cup {0}
  BY <1>1, <1>2 DEF HashesKept, L!Memoized, L!LoginTypeOK, L!CostInv
<1>4. CASE a.stage = "gone"
  <2>1. attempt' = [attempt EXCEPT ![r] = L!Over("over")] /\ L!Release(a)
    BY <1>4 DEF L!WorkerDone
  <2> QED BY <1>3, <2>1, OverMoves
<1>5. CASE a.stage # "gone"
  <2>1. attempt' = [attempt EXCEPT ![r] = b] /\ inflight' = inflight
    BY <1>5 DEF L!WorkerDone
  <2>2. /\ b \in L!Request /\ b.stage = a.stage /\ ~b.working
        /\ b.ip = a.ip /\ b.uid = a.uid /\ b.seen = a.seen /\ b.raised = a.raised
        /\ b.missed = a.missed /\ b.cost = a.cost + L!Work(a) /\ b.remaining = a.remaining
        /\ b.first = a.first
    <3> DEFINE none == {}
               n == L!Work(a)
    <3>1. none \in SUBSET {"verify", "normalize"} /\ n \in Nat /\ b = L!Worked(a, n, none)
      BY <1>2
    <3> HIDE DEF b, none, n
    <3>2. /\ b \in L!Request /\ b.stage = a.stage /\ ~b.working
          /\ b.ip = a.ip /\ b.uid = a.uid /\ b.seen = a.seen /\ b.raised = a.raised \cup none
          /\ b.missed = a.missed /\ b.cost = a.cost + n /\ b.remaining = a.remaining
          /\ b.first = a.first
      BY <3>1, HasWorked
    <3> QED BY <3>2 DEF none, n
  <2> HIDE DEF b
  <2>3. /\ L!VerifyCosts(b) = L!VerifyCosts(a) /\ L!Work(b) = L!Work(a)
    BY <2>2 DEF L!VerifyCosts, L!Work
  <2>4. a.stage = "verify" => L!Verifying(b)
    <3> SUFFICES ASSUME a.stage = "verify" PROVE L!Verifying(b)
      OBVIOUS
    <3>1. L!Verifying(a) /\ a.working
      BY <1>1 DEF L!CostInv, L!Working
    <3>2. b.cost = L!Iterations(b.seen) /\ b.raised = {}
      BY <2>2, <3>1, RequestFields DEF L!Verifying, L!Work
    <3> QED BY <2>2, <3>1, <3>2 DEF L!Verifying, L!VerifyCosts
  <2>5. a.stage = "normalize" => L!Normalizing(b, references')
    <3> SUFFICES ASSUME a.stage = "normalize" PROVE L!Normalizing(b, references')
      OBVIOUS
    <3>1. L!Normalizing(a, references) /\ a.working
      BY <1>1 DEF L!CostInv, L!Working
    <3>2. \E spent \in L!VerifyCosts(b) : b.cost = spent + L!Work(b)
      BY <2>2, <2>3, <3>1 DEF L!Normalizing
    <3> QED BY <1>3, <2>2, <3>1, <3>2 DEF L!Normalizing
  <2>6. CostOK(b, references')
    BY <1>1, <2>2, <2>4, <2>5 DEF CostOK, L!Working
  <2>7. Held(b) /\ L!KeysOf(b) = L!KeysOf(a)
    BY <1>1, <1>5, <2>2 DEF Held, L!KeysOf, L!Working
  <2> QED BY <1>3, <2>1, <2>2, <2>6, <2>7 DEF Moves, Answers
<1> QED BY <1>4, <1>5

\* A worker raises: some of what it would have run is added.
LEMMA RaiseMoves ==
  ASSUME L!LoginTypeOK, L!CostInv, NEW r \in Attempts, attempt[r] \in L!Request,
         L!WorkerRaises(r)
  PROVE  \E b : Moves(r, b)
<1> DEFINE a == attempt[r]
<1>1. PICK n \in 0..L!Work(a) :
        attempt' = [attempt EXCEPT ![r] =
          IF a.stage = "gone" THEN L!Over("over") ELSE L!Worked(a, n, {a.stage})]
  BY DEF L!WorkerRaises
<1>2. /\ L!Working(r) /\ UNCHANGED <<references, known>>
      /\ IF a.stage = "gone" THEN L!Release(a) ELSE inflight' = inflight
  BY DEF L!WorkerRaises
<1>3. a.cost \in Nat /\ a.raised \subseteq {"verify", "normalize"} /\ L!Work(a) \in Nat /\ n \in Nat
  BY RequestFields
<1>4. CASE a.stage = "gone"
  <2>1. attempt' = [attempt EXCEPT ![r] = L!Over("over")] /\ L!Release(a)
    BY <1>1, <1>2, <1>4
  <2> QED BY <1>2, <2>1, OverMoves, HashesUnchanged
<1>5. CASE a.stage # "gone"
  <2> DEFINE b == L!Worked(a, n, {a.stage})
  <2>1. attempt' = [attempt EXCEPT ![r] = b] /\ inflight' = inflight
    BY <1>1, <1>2, <1>5
  <2>2. a.stage \in {"verify", "normalize"} /\ a.working
    BY <1>2, <1>5 DEF L!Working
  <2>3. /\ b \in L!Request /\ b.stage = a.stage /\ ~b.working
        /\ b.ip = a.ip /\ b.uid = a.uid /\ b.seen = a.seen /\ b.raised = a.raised \cup {a.stage}
        /\ b.missed = a.missed /\ b.cost = a.cost + n /\ b.remaining = a.remaining
        /\ b.first = a.first
    BY <1>3, <2>2, HasWorked
  <2> HIDE DEF b
  <2>4. a.stage = "verify" => L!Verifying(b)
    <3> SUFFICES ASSUME a.stage = "verify" PROVE L!Verifying(b)
      OBVIOUS
    <3>1. L!Verifying(a)
      BY DEF L!CostInv
    <3>2. b.cost \in 0..L!Iterations(b.seen) /\ b.raised = {"verify"}
      BY <1>1, <1>3, <2>2, <2>3, <3>1, RequestFields DEF L!Verifying, L!Work
    <3> QED BY <2>3, <3>1, <3>2 DEF L!Verifying, L!VerifyCosts
  <2>5. a.stage = "normalize" => L!Normalizing(b, references')
    <3> SUFFICES ASSUME a.stage = "normalize" PROVE L!Normalizing(b, references')
      OBVIOUS
    <3>1. L!Normalizing(a, references)
      BY DEF L!CostInv
    <3>2. "normalize" \in b.raised /\ ("verify" \in b.raised <=> "verify" \in a.raised)
      BY <2>3
    <3> QED BY <1>2, <2>3, <3>1, <3>2 DEF L!Normalizing
  <2>6. CostOK(b, references')
    BY <2>2, <2>3, <2>4, <2>5 DEF CostOK
  <2>7. Held(b) /\ L!KeysOf(b) = L!KeysOf(a)
    BY <2>2, <2>3 DEF Held, L!KeysOf
  <2> QED BY <1>2, <2>1, <2>3, <2>6, <2>7, HashesUnchanged DEF Moves, Answers
<1> QED BY <1>4, <1>5

\* The answer of a verifying worker is taken up.
LEMMA VerifiedMoves ==
  ASSUME L!LoginTypeOK, L!CostInv, NEW r \in Attempts, attempt[r] \in L!Request,
         L!Verified(r) \/ L!NotVerified(r)
  PROVE  \E b : Moves(r, b)
<1> DEFINE a == attempt[r]
<1>1. /\ a.stage = "verify" /\ ~a.working /\ UNCHANGED <<references, known>>
  BY DEF L!Verified, L!NotVerified
<1>2. L!Iterations(a.seen) \in Nat /\ a.raised \subseteq {"verify"}
  BY <1>1, RequestFields DEF L!CostInv, L!Verifying
<1>3. ASSUME NEW s \in {"in", "over"}, attempt' = [attempt EXCEPT ![r] = L!Over(s)],
             L!CloseReservation(r, a)
      PROVE  \E b : Moves(r, b)
  <2>1. L!Release(a)
    BY <1>1, <1>3 DEF L!CloseReservation
  <2> QED BY <1>1, <1>3, <2>1, OverMoves, HashesUnchanged
<1>4. ASSUME attempt' = [attempt EXCEPT ![r] = L!ToNormalize(a, L!Iterations(a.seen))],
             a.raised = {}, inflight' = inflight
      PROVE  \E b : Moves(r, b)
  BY <1>1, <1>2, <1>4, NormalizeMoves
<1>5. ASSUME attempt' = [attempt EXCEPT ![r] = L!ToNormalize(a, 0)],
             a.raised # {}, inflight' = inflight
      PROVE  \E b : Moves(r, b)
  <2>1. "verify" \in a.raised
    BY <1>2, <1>5
  <2> QED BY <1>1, <1>5, <2>1, NormalizeMoves
<1>6. CASE L!Verified(r)
  BY <1>3, <1>4, <1>6 DEF L!Verified
<1>7. CASE L!NotVerified(r)
  BY <1>4, <1>5, <1>7 DEF L!NotVerified
<1> QED BY <1>6, <1>7

\* What a refusal has cost when both workers are done.
LEMMA RefusalCosts ==
  ASSUME NEW a \in L!Request, NEW hashes, a.stage = "normalize", ~a.working,
         L!Normalizing(a, hashes), "normalize" \notin a.raised
  PROVE  L!CostsAlike(a)
<1>1. /\ L!Iterations(a.seen) \in Nat /\ Target \in Nat /\ a.remaining \in Nat
      /\ a.raised \subseteq {"verify"} /\ a.missed \in BOOLEAN
  BY RequestFields, LoginAssumption DEF LoginAssumption
<1>2. PICK spent \in L!VerifyCosts(a) : a.cost = spent + L!Work(a)
  BY DEF L!Normalizing
<1>3. /\ L!Work(a) = IF a.missed THEN 2 * a.remaining ELSE a.remaining
      /\ a.missed => a.first /\ a.remaining \notin {0, Target}
  BY DEF L!Work, L!Normalizing
<1>4. CASE a.raised = {}
  <2>1. spent = L!Iterations(a.seen) /\ a.remaining = L!Remainder(L!Iterations(a.seen))
    BY <1>2, <1>4 DEF L!VerifyCosts, L!Normalizing
  <2>2. L!Iterations(a.seen) + a.remaining = L!Level(a)
    BY <1>1, <2>1 DEF L!Remainder, L!Level
  <2>3. a.cost = L!Level(a) \/ (a.first /\ a.cost = L!Level(a) + a.remaining)
    BY <1>1, <1>2, <1>3, <2>1, <2>2
  <2> QED BY <1>4, <2>3 DEF L!CostsAlike
<1>5. CASE a.raised = {"verify"}
  <2>1. spent \in 0..L!Iterations(a.seen) /\ a.remaining = L!Remainder(0)
    BY <1>2, <1>5 DEF L!VerifyCosts, L!Normalizing
  <2>2. a.remaining = Target
    BY <1>1, <2>1 DEF L!Remainder
  <2>3. a.cost = spent + Target
    BY <1>2, <1>3, <2>2
  <2>4. a.cost \in Target..(Target + L!Iterations(a.seen))
    BY <1>1, <2>1, <2>3
  <2> QED BY <1>5, <2>4 DEF L!CostsAlike
<1> QED BY <1>1, <1>4, <1>5

\* The refusal.
LEMMA FailMoves ==
  ASSUME L!LoginTypeOK, L!CostInv, NEW r \in Attempts, attempt[r] \in L!Request, L!Fail(r)
  PROVE  \E b : Moves(r, b)
<1> DEFINE a == attempt[r]
           b == [a EXCEPT !.stage = "failed"]
<1>1. /\ a.stage = "normalize" /\ ~a.working /\ attempt' = [attempt EXCEPT ![r] = b]
      /\ L!CloseReservation(r, a) /\ references' = references
      /\ known' = IF "normalize" \in a.raised THEN known ELSE known \cup {a.remaining}
  BY DEF L!Fail, L!LoginTypeOK
<1>2. L!Release(a)
  BY <1>1 DEF L!CloseReservation
<1>3. /\ b \in L!Request /\ b.stage = "failed" /\ b.seen = a.seen /\ b.raised = a.raised
      /\ b.cost = a.cost /\ b.remaining = a.remaining /\ b.first = a.first
  BY DEF L!Request, L!Stages
<1> HIDE DEF b
<1>4. L!Normalizing(a, references)
  BY <1>1 DEF L!CostInv
<1>5. L!CostsAlike(b)
  <2>1. CASE "normalize" \in a.raised
    BY <1>3, <2>1 DEF L!CostsAlike
  <2>2. CASE "normalize" \notin a.raised
    <3>1. L!CostsAlike(a)
      BY <1>1, <1>4, <2>2, RefusalCosts
    <3> QED BY <1>3, <3>1 DEF L!CostsAlike, L!Level
  <2> QED BY <2>1, <2>2
<1>6. HashesKept
  <2>1. "normalize" \notin a.raised => a.remaining \in references \cup {0}
    BY <1>1, <1>4 DEF L!Normalizing
  <2> QED BY <1>1, <2>1 DEF HashesKept, L!LoginTypeOK, L!CostInv
<1>7. CostOK(b, references') /\ ~Held(b)
  BY <1>3, <1>5 DEF CostOK, Held
<1> QED BY <1>1, <1>2, <1>3, <1>6, <1>7 DEF Moves, Answers

\* A cancelled request keeps its slots as long as its worker runs.
LEMMA CancelMoves ==
  ASSUME L!LoginTypeOK, L!CostInv, NEW r \in Attempts, attempt[r] \in L!Request, L!Cancel(r)
  PROVE  \E b : Moves(r, b)
<1> DEFINE a == attempt[r]
           b == [a EXCEPT !.stage = "gone"]
<1>1. /\ attempt' = [attempt EXCEPT ![r] = IF a.working THEN b ELSE L!Over("over")]
      /\ L!CloseReservation(r, a) /\ UNCHANGED <<references, known>>
  BY DEF L!Cancel, L!LoginTypeOK
<1>2. CASE ~a.working
  <2>1. attempt' = [attempt EXCEPT ![r] = L!Over("over")] /\ L!Release(a)
    BY <1>1, <1>2 DEF L!CloseReservation
  <2> QED BY <1>1, <2>1, OverMoves, HashesUnchanged
<1>3. CASE a.working
  <2>1. attempt' = [attempt EXCEPT ![r] = b] /\ inflight' = inflight
    BY <1>1, <1>3 DEF L!CloseReservation
  <2>2. /\ b \in L!Request /\ b.stage = "gone" /\ b.working = a.working
        /\ b.ip = a.ip /\ b.uid = a.uid
    BY DEF L!Request, L!Stages
  <2> HIDE DEF b
  <2>3. CostOK(b, references') /\ Held(b) /\ L!KeysOf(b) = L!KeysOf(a)
    BY <1>3, <2>2 DEF CostOK, Held, L!KeysOf
  <2> QED BY <1>1, <2>1, <2>2, <2>3, HashesUnchanged DEF Moves, Answers
<1> QED BY <1>2, <1>3

\* Any step of a handler but the first, or of its worker.
HandlerStep(r) ==
  \/ L!ReferenceMissing(r) \/ L!WorkerDone(r) \/ L!WorkerRaises(r)
  \/ L!Verified(r) \/ L!NotVerified(r) \/ L!Fail(r) \/ L!Cancel(r)

LEMMA HandlerMoves ==
  ASSUME L!LoginTypeOK, L!CostInv, NEW r \in Attempts, HandlerStep(r)
  PROVE  /\ attempt[r] \in L!Request /\ Held(attempt[r])
         /\ \E b : Moves(r, b)
<1>1. Held(attempt[r])
  <2>1. L!Working(r) => Held(attempt[r])
    BY DEF L!Working, Held
  <2>2. L!ReferenceMissing(r) \/ L!WorkerDone(r) \/ L!WorkerRaises(r) => L!Working(r)
    BY DEF L!ReferenceMissing, L!WorkerDone, L!WorkerRaises
  <2>3. L!Verified(r) \/ L!NotVerified(r) => attempt[r].stage = "verify"
    BY DEF L!Verified, L!NotVerified
  <2>4. L!Fail(r) => attempt[r].stage = "normalize"
    BY DEF L!Fail
  <2>5. L!Cancel(r) => L!Open(r)
    BY DEF L!Cancel
  <2> QED BY <2>1, <2>2, <2>3, <2>4, <2>5 DEF HandlerStep, L!Open, Held
<1>2. attempt[r] \in L!Request
  BY <1>1, Made DEF Held, L!Stages
<1> QED BY <1>1, <1>2, MissingMoves, DoneMoves, RaiseMoves, VerifiedMoves, FailMoves, CancelMoves
           DEF HandlerStep

\* What the handlers' steps leave alone.
LEMMA HandlerLeaves ==
  ASSUME NEW r \in Attempts, HandlerStep(r)
  PROVE  /\ ~L!Verified(r) => UNCHANGED <<stored, cached, rows, token, revoked>>
         /\ ~L!Fail(r) => UNCHANGED <<failures, tracked>>
<1>1. CASE L!ReferenceMissing(r)
  BY <1>1 DEF L!ReferenceMissing
<1>2. CASE L!WorkerDone(r)
  BY <1>2 DEF L!WorkerDone
<1>3. CASE L!WorkerRaises(r)
  BY <1>3 DEF L!WorkerRaises
<1>4. CASE L!Verified(r)
  BY <1>4 DEF L!Verified
<1>5. CASE L!NotVerified(r)
  BY <1>5 DEF L!NotVerified
<1>6. CASE L!Fail(r)
  BY <1>6 DEF L!Fail
<1>7. CASE L!Cancel(r)
  BY <1>7 DEF L!Cancel
<1> QED BY <1>1, <1>2, <1>3, <1>4, <1>5, <1>6, <1>7 DEF HandlerStep

\* The first step of a handler: the request is turned away, or leaves with an
\* error, or takes two slots.
Admitted(r, b) == Held(b) /\ L!Reserve(b) /\ \A k \in L!KeysOf(b) : ~L!Limited(tracked', k)

LEMMA PostAnswers ==
  ASSUME L!LoginTypeOK, L!CostInv, NEW r \in Attempts, NEW ip \in Ips, NEW uid \in Uids,
         NEW pw \in Passwords, L!Post(r, ip, uid, pw)
  PROVE  /\ ~Held(attempt[r]) /\ attempt[r].stage = "idle"
         /\ HashesKept
         /\ \E b : /\ Answers(r, b) /\ CostOK(b, references')
                   /\ \/ ~Held(b) /\ inflight' = inflight
                      \/ b \in L!Request /\ Admitted(r, b)
<1> DEFINE a == [stage |-> "verify", ip |-> ip, uid |-> uid, pw |-> pw, seen |-> stored[uid],
                 working |-> TRUE, cost |-> 0, raised |-> {}, remaining |-> 0, missed |-> FALSE,
                 first |-> FALSE]
           t == L!Accessed(L!Accessed(tracked, <<ip, uid>>), ip)
<1>1. a \in L!Request
  BY DEF L!LoginTypeOK, L!Request, L!Stages
<1>2. /\ attempt[r] = L!Idle /\ tracked' = t /\ UNCHANGED <<references, known>>
  BY DEF L!Post
<1>3. ~Held(attempt[r]) /\ attempt[r].stage = "idle"
  BY <1>2, OverIsEnded
<1>4. \/ attempt' = [attempt EXCEPT ![r] = L!Over("limited")] /\ inflight' = inflight
      \/ /\ attempt' = [attempt EXCEPT ![r] = IF a.seen = NoCred THEN L!ToNormalize(a, 0) ELSE a]
         /\ L!Reserve(a) /\ \A k \in L!KeysOf(a) : ~L!Limited(t, k)
      \/ attempt' = [attempt EXCEPT ![r] = L!Over("over")] /\ inflight' = inflight
  BY DEF L!Post
<1>5. ASSUME NEW s \in {"limited", "over"}, attempt' = [attempt EXCEPT ![r] = L!Over(s)],
             inflight' = inflight
      PROVE  \E b : Answers(r, b) /\ CostOK(b, references') /\ ~Held(b) /\ inflight' = inflight
  <2>1. L!Over(s) \in L!Ended /\ L!Over(s).stage = s /\ ~Held(L!Over(s))
    BY OverIsEnded
  <2>2. CostOK(L!Over(s), references') /\ Answers(r, L!Over(s))
    BY <1>5, <2>1 DEF CostOK, Answers
  <2> QED BY <1>5, <2>1, <2>2
<1>6. ASSUME attempt' = [attempt EXCEPT ![r] = IF a.seen = NoCred THEN L!ToNormalize(a, 0) ELSE a],
             L!Reserve(a), \A k \in L!KeysOf(a) : ~L!Limited(t, k)
      PROVE  \E b : Answers(r, b) /\ CostOK(b, references') /\ b \in L!Request /\ Admitted(r, b)
  <2>1. CASE a.seen # NoCred
    <3>1. attempt' = [attempt EXCEPT ![r] = a]
      BY <1>6, <2>1
    <3>2. Held(a) /\ L!Verifying(a)
      BY <2>1 DEF Held, L!Verifying
    <3>3. CostOK(a, references')
      BY <3>2 DEF CostOK
    <3>4. Admitted(r, a)
      BY <1>2, <1>6, <3>2 DEF Admitted
    <3>5. Answers(r, a)
      BY <1>1, <3>1 DEF Answers
    <3> HIDE DEF a
    <3> QED BY <1>1, <3>3, <3>4, <3>5
  <2>2. CASE a.seen = NoCred
    <3> DEFINE b == L!ToNormalize(a, 0)
    <3>1. attempt' = [attempt EXCEPT ![r] = b]
      BY <1>6, <2>2
    <3>2. /\ a.ip = ip /\ a.uid = uid /\ a.raised = {} /\ ~a.missed /\ a.cost = 0
      OBVIOUS
    <3> HIDE DEF a
    <3>3. /\ b \in L!Request /\ b.stage = "normalize" /\ b.working
          /\ b.ip = a.ip /\ b.uid = a.uid /\ b.seen = a.seen /\ b.raised = a.raised
          /\ b.missed = a.missed /\ b.cost = a.cost
          /\ b.remaining = L!Remainder(0) /\ b.first = (L!Remainder(0) \notin known)
      BY <1>1, Normalizes
    <3> HIDE DEF b
    <3>4. Held(b) /\ L!KeysOf(b) = L!KeysOf(a)
      BY <3>3 DEF Held, L!KeysOf
    <3>5. L!Reserve(b)
      BY <1>6, <3>4 DEF L!Reserve
    <3>6. L!Iterations(b.seen) = 0 /\ L!Remainder(0) \in {0, Target}
      BY <2>2, <3>3, LoginAssumption DEF L!Iterations, L!Remainder, LoginAssumption
    <3>7. ~b.first /\ b.remaining \in references' \cup {0}
      BY <1>2, <3>3, <3>6 DEF L!CostInv
    <3>8. b.cost \in L!VerifyCosts(b)
      BY <3>2, <3>3, <3>6 DEF L!VerifyCosts
    <3>9. L!Normalizing(b, references')
      BY <3>2, <3>3, <3>6, <3>7, <3>8 DEF L!Normalizing
    <3>10. CostOK(b, references')
      BY <3>3, <3>9 DEF CostOK
    <3>11. Admitted(r, b)
      BY <1>2, <1>6, <3>4, <3>5 DEF Admitted
    <3> QED BY <3>1, <3>3, <3>10, <3>11 DEF Answers
  <2> QED BY <2>1, <2>2
<1> HIDE DEF a
<1>7. \E b : /\ Answers(r, b) /\ CostOK(b, references')
             /\ \/ ~Held(b) /\ inflight' = inflight
                \/ b \in L!Request /\ Admitted(r, b)
  BY <1>4, <1>5, <1>6
<1> QED BY <1>2, <1>3, <1>7, HashesUnchanged
-----------------------------------------------------------------------------
\* Sessions.

\* The row a login binds: the account's own, or one generation on.
LEMMA BoundRow ==
  ASSUME L!LoginTypeOK, NEW u \in Uids, NEW c \in Accounts
  PROVE  /\ L!Bound(u, c) \in L!SessionRow
         /\ L!Bound(u, c) # NoRow
         /\ L!Bound(u, c).fp = c
         /\ rows[u] # NoRow => \/ L!Bound(u, c) = rows[u]
                               \/ L!Bound(u, c).generation = rows[u].generation + 1
<1>1. rows[u] # NoRow => rows[u] \in L!SessionRow
  BY DEF L!LoginTypeOK
<1>2. L!Bound(u, c) \in L!SessionRow /\ L!Bound(u, c).fp = c
  BY <1>1 DEF L!Bound, L!SessionRow
<1>3. L!Bound(u, c) # NoRow
  BY <1>2, LoginAssumption DEF LoginAssumption, L!SessionRow
<1> QED BY <1>2, <1>3 DEF L!Bound

\* A verified attempt signs in, or leaves the sessions alone.
SignsIn(r) ==
  LET u == attempt[r].uid
      c == attempt[r].seen
      mine == L!Bound(u, c)
  IN  /\ stored[u] = c
      /\ rows' = [rows EXCEPT ![u] = mine]
      /\ cached' = [cached EXCEPT ![u] = c]
      /\ token' = [token EXCEPT ![r] =
           [uid |-> u, secret |-> mine.secret, generation |-> mine.generation, fp |-> c]]
      /\ revoked' = IF mine = rows[u] THEN revoked ELSE revoked \cup L!HoldersOf(u)
      /\ attempt' = [attempt EXCEPT ![r] = L!Over("in")]

LEMMA VerifiedSignsIn ==
  ASSUME L!LoginTypeOK, L!CostInv, NEW r \in Attempts, L!Verified(r)
  PROVE  /\ attempt[r] \in L!Request /\ attempt[r].stage = "verify"
         /\ attempt[r].seen \in Accounts
         /\ SignsIn(r) \/ UNCHANGED <<cached, rows, token, revoked>>
<1>1. attempt[r].stage = "verify"
  BY DEF L!Verified
<1>2. attempt[r] \in L!Request
  BY <1>1, Made DEF L!Stages
<1>3. attempt[r].seen \in Accounts
  BY <1>1, <1>2, RequestFields DEF L!CostInv, L!Verifying
<1>4. SignsIn(r) \/ UNCHANGED <<cached, rows, token, revoked>>
  BY DEF L!Verified, SignsIn, L!Remember
<1> QED BY <1>1, <1>2, <1>3, <1>4

\* No request whose handler is not done has a token.
LEMMA NoTokenYet ==
  ASSUME L!SessionInv, NEW r \in Attempts, Held(attempt[r])
  PROVE  token[r] = NoRow
BY DEF L!SessionInv, Held

\* Steps that leave rows and tokens, and requests that are in, alone.
LEMMA SessionsKept ==
  ASSUME L!SessionInv, UNCHANGED <<rows, token, revoked>>,
         \A q \in Attempts : attempt[q].stage = "in" => attempt'[q].stage = "in"
  PROVE  L!SessionInv'
<1>1. rows' = rows /\ token' = token /\ revoked' = revoked
  OBVIOUS
<1> QED BY <1>1 DEF L!SessionInv

LEMMA SignInKeepsSessions ==
  ASSUME L!LoginTypeOK, L!SessionInv, NEW r \in Attempts, attempt[r] \in L!Request,
         attempt[r].seen \in Accounts, token[r] = NoRow, SignsIn(r)
  PROVE  L!SessionInv'
<1> DEFINE u == attempt[r].uid
           mine == L!Bound(u, attempt[r].seen)
<1>1. u \in Uids
  BY RequestFields
<1> HIDE DEF u
<1>2. /\ mine \in L!SessionRow /\ mine # NoRow /\ mine.generation \in Nat
      /\ rows[u] # NoRow => mine = rows[u] \/ mine.generation = rows[u].generation + 1
  BY <1>1, BoundRow DEF L!SessionRow
<1>3. /\ rows' = [rows EXCEPT ![u] = mine]
      /\ token' = [token EXCEPT ![r] = [uid |-> u, secret |-> mine.secret,
                                        generation |-> mine.generation, fp |-> attempt[r].seen]]
      /\ revoked' = IF mine = rows[u] THEN revoked ELSE revoked \cup L!HoldersOf(u)
      /\ attempt' = [attempt EXCEPT ![r] = L!Over("in")]
  BY DEF SignsIn, u
<1> HIDE DEF mine
<1>4. /\ rows'[u] = mine
      /\ \A v \in Uids : v # u => rows'[v] = rows[v]
      /\ token'[r].uid = u /\ token'[r].generation = mine.generation
      /\ \A q \in Attempts : q # r => token'[q] = token[q]
  BY <1>1, <1>3 DEF L!LoginTypeOK
<1>5. attempt'[r].stage = "in" /\ \A q \in Attempts : q # r => attempt'[q] = attempt[q]
  BY <1>3 DEF L!LoginTypeOK, L!Over
<1>6. \A v \in Uids : rows[v] # NoRow => rows[v].generation \in Nat
  BY DEF L!LoginTypeOK, L!SessionRow
<1>7. \A q \in Attempts : token[q] # NoRow => token[q].uid \in Uids /\ token[q].generation \in Nat
  BY DEF L!LoginTypeOK, L!Token
<1>8. ASSUME NEW q \in Attempts, token'[q] # NoRow
      PROVE  /\ attempt'[q].stage = "in"
             /\ rows'[token'[q].uid] # NoRow
             /\ token'[q].generation <= rows'[token'[q].uid].generation
  <2>1. CASE q = r
    BY <1>2, <1>4, <1>5, <2>1
  <2>2. CASE q # r
    <3>1. token'[q] = token[q] /\ token[q] # NoRow /\ token[q].uid \in Uids
      BY <1>4, <1>7, <1>8, <2>2
    <3>2. /\ attempt[q].stage = "in" /\ rows[token[q].uid] # NoRow
          /\ token[q].generation <= rows[token[q].uid].generation
      BY <3>1 DEF L!SessionInv
    <3>3. CASE token[q].uid = u
      BY <1>2, <1>4, <1>5, <1>6, <1>7, <2>2, <3>1, <3>2, <3>3
    <3>4. CASE token[q].uid # u
      BY <1>4, <1>5, <2>2, <3>1, <3>2, <3>4
    <3> QED BY <3>3, <3>4
  <2> QED BY <2>1, <2>2
<1>9. ASSUME NEW q \in revoked'
      PROVE  token'[q].generation < rows'[token'[q].uid].generation
  <2>1. q \in Attempts /\ token[q] # NoRow
    BY <1>3, <1>9 DEF L!LoginTypeOK, L!HoldersOf
  <2>2. q # r /\ token'[q] = token[q] /\ token[q].uid \in Uids
    BY <1>4, <1>7, <2>1
  <2>3. /\ rows[token[q].uid] # NoRow
        /\ token[q].generation <= rows[token[q].uid].generation
        /\ q \in revoked => token[q].generation < rows[token[q].uid].generation
    BY <2>1 DEF L!SessionInv
  <2>4. CASE token[q].uid # u
    <3>1. q \in revoked
      BY <1>3, <1>9, <2>4 DEF L!HoldersOf
    <3> QED BY <1>4, <2>2, <2>3, <2>4, <3>1
  <2>5. CASE token[q].uid = u /\ mine = rows[u]
    <3>1. q \in revoked
      BY <1>3, <1>9, <2>5
    <3> QED BY <1>4, <2>2, <2>3, <2>5, <3>1
  <2>6. CASE token[q].uid = u /\ mine # rows[u]
    <3>1. mine.generation = rows[u].generation + 1 /\ rows[u].generation \in Nat
      BY <1>1, <1>2, <1>6, <2>3, <2>6
    <3> QED BY <1>4, <1>7, <2>1, <2>2, <2>3, <2>6, <3>1
  <2> QED BY <2>4, <2>5, <2>6
<1> QED BY <1>8, <1>9 DEF L!SessionInv

LEMMA LogoutKeepsSessions ==
  ASSUME L!LoginTypeOK, L!SessionInv, NEW r \in Attempts, L!Logout(r)
  PROVE  L!SessionInv'
<1> DEFINE u == token[r].uid
<1>1. /\ token[r] # NoRow /\ u \in Uids /\ rows[u] \in L!SessionRow
      /\ rows[u].generation \in Nat
  BY DEF L!Logout, L!Resolves, L!LoginTypeOK, L!Token, L!SessionRow
<1>2. /\ rows' = [rows EXCEPT ![u].generation = @ + 1]
      /\ revoked' = revoked \cup L!HoldersOf(u)
      /\ token' = token /\ attempt' = attempt
  BY DEF L!Logout
<1> HIDE DEF u
<1>3. /\ rows'[u] \in L!SessionRow /\ rows'[u].generation = rows[u].generation + 1
      /\ \A v \in Uids : v # u => rows'[v] = rows[v]
  BY <1>1, <1>2 DEF L!LoginTypeOK, L!SessionRow
<1>4. rows'[u] # NoRow
  BY <1>3, LoginAssumption DEF LoginAssumption, L!SessionRow
<1>5. \A q \in Attempts : token[q] # NoRow => token[q].uid \in Uids /\ token[q].generation \in Nat
  BY DEF L!LoginTypeOK, L!Token
<1>6. ASSUME NEW q \in Attempts, token[q] # NoRow
      PROVE  /\ attempt[q].stage = "in"
             /\ rows'[token[q].uid] # NoRow
             /\ token[q].generation <= rows'[token[q].uid].generation
             /\ q \in revoked' => token[q].generation < rows'[token[q].uid].generation
  <2>1. /\ attempt[q].stage = "in" /\ rows[token[q].uid] # NoRow
        /\ token[q].generation <= rows[token[q].uid].generation
        /\ q \in revoked => token[q].generation < rows[token[q].uid].generation
    BY <1>6 DEF L!SessionInv
  <2>2. CASE token[q].uid = u
    BY <1>1, <1>3, <1>4, <1>5, <1>6, <2>1, <2>2
  <2>3. CASE token[q].uid # u
    <3>1. rows'[token[q].uid] = rows[token[q].uid]
      BY <1>3, <1>5, <1>6, <2>3
    <3>2. q \in revoked' => q \in revoked
      BY <1>2, <2>3 DEF L!HoldersOf
    <3> QED BY <2>1, <3>1, <3>2
  <2> QED BY <2>2, <2>3
<1>7. \A q \in revoked' : q \in Attempts /\ token[q] # NoRow
  BY <1>2 DEF L!LoginTypeOK, L!HoldersOf
<1> QED BY <1>2, <1>6, <1>7 DEF L!SessionInv

\* Sessions, whatever happens.
LEMMA SessionStep ==
  ASSUME L!LoginTypeOK, L!SessionInv, L!CostInv, L!LoginNext
  PROVE  L!SessionInv'
<1>1. ASSUME NEW r \in Attempts, NEW ip \in Ips, NEW uid \in Uids, NEW pw \in Passwords,
             L!Post(r, ip, uid, pw)
      PROVE  L!SessionInv'
  <2>1. PICK b : Answers(r, b)
    BY <1>1, PostAnswers
  <2>2. attempt[r].stage # "in" /\ \A q \in Attempts : q # r => attempt'[q] = attempt[q]
    BY <1>1, <2>1, PostAnswers, Replaced
  <2>3. UNCHANGED <<rows, token, revoked>>
    BY <1>1 DEF L!Post
  <2> QED BY <2>2, <2>3, SessionsKept
<1>2. ASSUME NEW r \in Attempts, HandlerStep(r)
      PROVE  L!SessionInv'
  <2>1. PICK b : Answers(r, b)
    BY <1>2, HandlerMoves DEF Moves
  <2>2. \A q \in Attempts : q # r => attempt'[q] = attempt[q]
    BY <2>1, Replaced
  <2>3. attempt[r].stage # "in"
    BY <1>2, HandlerMoves DEF Held
  <2>4. CASE UNCHANGED <<rows, token, revoked>>
    BY <2>2, <2>3, <2>4, SessionsKept
  <2>5. CASE L!Verified(r)
    <3>1. /\ attempt[r] \in L!Request /\ attempt[r].seen \in Accounts
          /\ SignsIn(r) \/ UNCHANGED <<cached, rows, token, revoked>>
      BY <2>5, VerifiedSignsIn
    <3>2. token[r] = NoRow
      BY <1>2, HandlerMoves, NoTokenYet
    <3> QED BY <2>4, <3>1, <3>2, SignInKeepsSessions
  <2>6. CASE ~L!Verified(r)
    <3>1. UNCHANGED <<rows, token, revoked>>
      BY <1>2, <2>6, HandlerLeaves
    <3> QED BY <2>4, <3>1
  <2> QED BY <2>5, <2>6
<1>3. ASSUME NEW r \in Attempts, L!Logout(r)
      PROVE  L!SessionInv'
  BY <1>3, LogoutKeepsSessions
<1>4. CASE UNCHANGED <<attempt, rows, token, revoked>>
  BY <1>4, SessionsKept
<1>5. CASE L!Restart
  <2>1. \A q \in Attempts : attempt[q].stage = "in" => attempt'[q] = attempt[q]
    BY <1>5 DEF L!Restart, L!Open, L!Working, L!LoginTypeOK
  <2>2. UNCHANGED <<rows, token, revoked>>
    BY <1>5 DEF L!Restart
  <2> QED BY <2>1, <2>2, SessionsKept
<1>6. \/ \E r \in Attempts :
           \/ \E ip \in Ips, uid \in Uids, pw \in Passwords : L!Post(r, ip, uid, pw)
           \/ HandlerStep(r) \/ L!Logout(r)
      \/ UNCHANGED <<attempt, rows, token, revoked>>
      \/ L!Restart
  BY DEF L!LoginNext, HandlerStep, L!Use, L!Age, L!DropCached, L!EditCredential
<1> QED BY <1>1, <1>2, <1>3, <1>4, <1>5, <1>6

\* What a session invariant says of revoked tokens.
LEMMA RevokedIsOut ==
  ASSUME L!LoginTypeOK, L!SessionInv
  PROVE  L!RevokedStaysOut
<1> SUFFICES ASSUME NEW r \in revoked, L!Resolves(r)
             PROVE  FALSE
  BY DEF L!RevokedStaysOut
<1>1. token[r].generation < rows[token[r].uid].generation
  BY DEF L!SessionInv
<1>2. token[r].generation = rows[token[r].uid].generation /\ token[r].generation \in Nat
  BY DEF L!Resolves, L!LoginTypeOK, L!Token
<1> QED BY <1>1, <1>2

\* A step that gives a token gives one that resolves.
LEMMA SignInResolves ==
  ASSUME L!LoginTypeOK, L!CostInv, L!LoginNext
  PROVE  L!NewSessionResolves
<1>1. CASE token' = token
  BY <1>1 DEF L!NewSessionResolves
<1>2. ASSUME NEW r \in Attempts, L!Verified(r)
      PROVE  L!NewSessionResolves
  <2>1. /\ attempt[r] \in L!Request /\ attempt[r].seen \in Accounts
        /\ SignsIn(r) \/ token' = token
    BY <1>2, VerifiedSignsIn
  <2>2. CASE SignsIn(r)
    <3> DEFINE u == attempt[r].uid
               c == attempt[r].seen
               mine == L!Bound(u, c)
    <3>1. u \in Uids /\ mine \in L!SessionRow /\ mine # NoRow /\ mine.fp = c
      BY <2>1, RequestFields, BoundRow
    <3>2. /\ rows' = [rows EXCEPT ![u] = mine]
          /\ cached' = [cached EXCEPT ![u] = c]
          /\ token' = [token EXCEPT ![r] = [uid |-> u, secret |-> mine.secret,
                                            generation |-> mine.generation, fp |-> c]]
      BY <2>2 DEF SignsIn
    <3>3. c # NoRow
      BY <2>1, LoginAssumption DEF LoginAssumption
    <3> HIDE DEF u, c, mine
    <3>4. /\ rows'[u] = mine /\ cached'[u] = c
          /\ token'[r] = [uid |-> u, secret |-> mine.secret, generation |-> mine.generation, fp |-> c]
          /\ \A q \in Attempts : q # r => token'[q] = token[q]
      BY <3>1, <3>2 DEF L!LoginTypeOK
    <3>5. L!Resolves(r)' \/ token'[r] = NoRow
      BY <3>1, <3>3, <3>4 DEF L!Resolves, L!Config
    <3> QED BY <3>4, <3>5 DEF L!NewSessionResolves
  <2> QED BY <1>1, <2>1, <2>2
<1>3. token' = token \/ \E r \in Attempts : L!Verified(r)
  <2>1. ASSUME NEW r \in Attempts, NEW ip \in Ips, NEW uid \in Uids, NEW pw \in Passwords,
               L!Post(r, ip, uid, pw)
        PROVE  token' = token
    BY <2>1 DEF L!Post
  <2>2. ASSUME NEW r \in Attempts, HandlerStep(r), ~L!Verified(r)
        PROVE  token' = token
    BY <2>2, HandlerLeaves
  <2>4. ASSUME NEW r \in Attempts, L!Use(r) \/ L!Logout(r)
        PROVE  token' = token
    BY <2>4 DEF L!Use, L!Logout
  <2>3. ASSUME \/ \E k \in L!LimiterKeys : L!Age(k)
               \/ \E u \in Uids : \/ L!DropCached(u)
                                 \/ \E c \in Accounts \cup {NoCred} : L!EditCredential(u, c)
               \/ L!Restart
        PROVE  token' = token
    BY <2>3 DEF L!Age, L!DropCached, L!EditCredential, L!Restart
  <2> QED BY <2>1, <2>2, <2>3, <2>4 DEF L!LoginNext, HandlerStep
<1> QED BY <1>1, <1>2, <1>3
-----------------------------------------------------------------------------
\* Costs.

\* An attempt's cost stays accounted for when hashes are added.
LEMMA CostsStay ==
  ASSUME NEW a, NEW hashes, NEW more, hashes \subseteq more, CostOK(a, hashes)
  PROVE  CostOK(a, more)
BY DEF CostOK, L!Normalizing

LEMMA CostsPrimed ==
  ASSUME \A q \in Attempts : CostOK(attempt'[q], references'),
         {0, Target} \subseteq known', known' \subseteq references' \cup {0}
  PROVE  L!CostInv'
BY DEF CostOK, L!CostInv, L!Verifying, L!Normalizing, L!CostsAlike, L!VerifyCosts, L!Level, L!Work,
       L!Iterations, L!Remainder

LEMMA EachCost ==
  ASSUME L!LoginTypeOK, L!CostInv, HashesKept, NEW r \in Attempts, NEW b, Answers(r, b),
         CostOK(b, references')
  PROVE  L!CostInv'
<1>1. attempt'[r] = b /\ \A q \in Attempts : q # r => attempt'[q] = attempt[q]
  BY Replaced
<1>2. \A q \in Attempts : CostOK(attempt[q], references')
  <2>1. \A q \in Attempts : CostOK(attempt[q], references)
    BY DEF CostOK, L!CostInv
  <2> QED BY <2>1, CostsStay DEF HashesKept
<1>3. \A q \in Attempts : CostOK(attempt'[q], references')
  BY <1>1, <1>2
<1> QED BY <1>3, CostsPrimed DEF HashesKept

LEMMA CostStep ==
  ASSUME L!LoginTypeOK, L!CostInv, L!LoginNext
  PROVE  L!CostInv'
<1>1. ASSUME NEW r \in Attempts, NEW ip \in Ips, NEW uid \in Uids, NEW pw \in Passwords,
             L!Post(r, ip, uid, pw)
      PROVE  L!CostInv'
  <2>1. PICK b : Answers(r, b) /\ CostOK(b, references')
    BY <1>1, PostAnswers
  <2>2. HashesKept
    BY <1>1, PostAnswers
  <2> QED BY <2>1, <2>2, EachCost
<1>2. ASSUME NEW r \in Attempts, HandlerStep(r)
      PROVE  L!CostInv'
  <2>1. PICK b : Moves(r, b)
    BY <1>2, HandlerMoves
  <2> QED BY <2>1, EachCost DEF Moves
<1>3. CASE UNCHANGED <<attempt, references, known>>
  <2>1. \A q \in Attempts : CostOK(attempt'[q], references')
    BY <1>3 DEF CostOK, L!CostInv
  <2>2. {0, Target} \subseteq known' /\ known' \subseteq references' \cup {0}
    BY <1>3 DEF L!CostInv
  <2> QED BY <2>1, <2>2, CostsPrimed
<1>4. CASE L!Restart
  <2>1. \A q \in Attempts : CostOK(attempt'[q], references')
    <3> TAKE q \in Attempts
    <3>1. attempt'[q] = IF L!Open(q) \/ L!Working(q) THEN L!Over("over") ELSE attempt[q]
      BY <1>4 DEF L!Restart
    <3>2. L!Over("over").stage = "over"
      BY OverIsEnded
    <3>3. attempt[q].stage = "failed" => L!CostsAlike(attempt[q])
      BY DEF L!CostInv
    <3>4. attempt'[q].stage \notin {"verify", "normalize"}
      BY <3>1, <3>2 DEF L!Open
    <3>5. attempt'[q].stage = "failed" => attempt'[q] = attempt[q]
      BY <3>1, <3>2
    <3> QED BY <3>3, <3>4, <3>5 DEF CostOK
  <2>2. {0, Target} \subseteq known' /\ known' \subseteq references' \cup {0}
    BY <1>4 DEF L!Restart
  <2> QED BY <2>1, <2>2, CostsPrimed
<1>5. \/ \E r \in Attempts :
           \/ \E ip \in Ips, uid \in Uids, pw \in Passwords : L!Post(r, ip, uid, pw)
           \/ HandlerStep(r)
      \/ UNCHANGED <<attempt, references, known>>
      \/ L!Restart
  BY DEF L!LoginNext, HandlerStep, L!Use, L!Logout, L!Age, L!DropCached, L!EditCredential
<1> QED BY <1>1, <1>2, <1>3, <1>4, <1>5

\* What the cost invariant says of refusals.
LEMMA RefusalsCost ==
  ASSUME L!CostInv
  PROVE  L!FailuresCostAlike
BY DEF L!CostInv, L!FailuresCostAlike
-----------------------------------------------------------------------------
\* Slots, limits and tables.

\* The three parts of LimitsHeld.
SlotsCounted == \A k \in L!LimiterKeys : inflight[k] = Cardinality(L!SlotHolders(k))
UnderLimit == \A k \in L!LimiterKeys : failures[k] + inflight[k] <= L!Limit(k)
TablesBounded ==
  \A k \in L!LimiterKeys : Cardinality((tracked \cup L!Reserved) \cap L!TableOf(k)) <= MaxTracked

\* The instance's Cardinality is the library's, whose theorems are cited.
LEMMA SameCardinality == \A set : L!Cardinality(set) = Cardinality(set)
BY DEF L!Cardinality, Cardinality

LEMMA LimitParts == L!LimitsHeld <=> SlotsCounted /\ UnderLimit /\ TablesBounded
<1>1. L!LimitsHeld => SlotsCounted /\ UnderLimit /\ TablesBounded
  BY SameCardinality DEF L!LimitsHeld, SlotsCounted, UnderLimit, TablesBounded
<1>2. SlotsCounted /\ UnderLimit /\ TablesBounded => L!LimitsHeld
  BY SameCardinality DEF L!LimitsHeld, SlotsCounted, UnderLimit, TablesBounded
<1> QED BY <1>1, <1>2

\* An address and user have one key in each table.
LEMMA KeysOfRequest ==
  ASSUME NEW a \in L!Request
  PROVE  /\ L!KeysOf(a) \subseteq L!LimiterKeys
         /\ \A k \in L!LimiterKeys : \E j \in L!KeysOf(a) :
              /\ L!TableOf(j) = L!TableOf(k)
              /\ L!KeysOf(a) \cap L!TableOf(k) = {j}
<1> DEFINE pair == <<a.ip, a.uid>>
<1>1. pair \in L!Pairs /\ a.ip \in Ips
  BY DEF L!Request, L!Pairs
<1>2. Ips \cap L!Pairs = {}
  BY LoginAssumption DEF LoginAssumption, L!Pairs
<1>3. L!KeysOf(a) = {pair, a.ip}
  BY DEF L!KeysOf
<1> HIDE DEF pair
<1> QED BY <1>1, <1>2, <1>3 DEF L!LimiterKeys, L!TableOf

LEMMA KeysAreFinite == IsFiniteSet(L!LimiterKeys)
<1>1. IsFiniteSet(Ips \X Uids)
  BY LoginAssumption, FS_Product DEF LoginAssumption
<1> QED BY <1>1, LoginAssumption, FS_Union DEF LoginAssumption, L!LimiterKeys, L!Pairs

LEMMA HoldersAre ==
  ASSUME NEW k
  PROVE  /\ L!SlotHolders(k) = {q \in Attempts : Held(attempt[q]) /\ k \in L!KeysOf(attempt[q])}
         /\ L!SlotHolders(k)' = {q \in Attempts : Held(attempt'[q]) /\ k \in L!KeysOf(attempt'[q])}
         /\ IsFiniteSet(L!SlotHolders(k)) /\ Cardinality(L!SlotHolders(k)) \in Nat
<1>1. L!SlotHolders(k) = {q \in Attempts : Held(attempt[q]) /\ k \in L!KeysOf(attempt[q])}
  BY DEF L!SlotHolders, Held, L!Open, L!Working
<1>2. L!SlotHolders(k)' = {q \in Attempts : Held(attempt'[q]) /\ k \in L!KeysOf(attempt'[q])}
  BY DEF L!SlotHolders, Held, L!Open, L!Working, L!KeysOf
<1>3. IsFiniteSet(L!SlotHolders(k))
  BY <1>1, LoginAssumption, FS_Subset DEF LoginAssumption
<1> QED BY <1>1, <1>2, <1>3, FS_CardinalityType

\* A step that leaves the slots alone.
LEMMA SlotsKept ==
  ASSUME L!LoginTypeOK, SlotsCounted, NEW r \in Attempts, NEW b, Answers(r, b),
         Held(b) <=> Held(attempt[r]), Held(b) => L!KeysOf(b) = L!KeysOf(attempt[r]),
         inflight' = inflight
  PROVE  SlotsCounted'
<1>1. attempt'[r] = b /\ \A q \in Attempts : q # r => attempt'[q] = attempt[q]
  BY Replaced
<1>2. \A k : L!SlotHolders(k)' = L!SlotHolders(k)
  BY <1>1, HoldersAre
<1>3. \A k \in L!LimiterKeys : Cardinality(L!SlotHolders(k)') = inflight'[k]
  BY <1>2 DEF SlotsCounted
<1> QED BY <1>3 DEF SlotsCounted

\* An attempt that is done gives back one slot of each of its keys.
LEMMA SlotsReleased ==
  ASSUME L!LoginTypeOK, SlotsCounted, NEW r \in Attempts, NEW b, Answers(r, b),
         Held(attempt[r]), ~Held(b), L!Release(attempt[r])
  PROVE  /\ SlotsCounted'
         /\ inflight' \in [L!LimiterKeys -> Nat]
         /\ \A k \in L!LimiterKeys :
              IF k \in L!KeysOf(attempt[r]) THEN inflight[k] = inflight'[k] + 1
              ELSE inflight'[k] = inflight[k]
<1>1. attempt'[r] = b /\ \A q \in Attempts : q # r => attempt'[q] = attempt[q]
  BY Replaced
<1>2. inflight' = [k \in L!LimiterKeys |->
                     inflight[k] - (IF k \in L!KeysOf(attempt[r]) THEN 1 ELSE 0)]
  BY DEF L!Release
<1>3. ASSUME NEW k \in L!LimiterKeys
      PROVE  /\ inflight'[k] = Cardinality(L!SlotHolders(k)') /\ inflight'[k] \in Nat
             /\ IF k \in L!KeysOf(attempt[r]) THEN inflight[k] = inflight'[k] + 1
                ELSE inflight'[k] = inflight[k]
  <2>1. inflight[k] = Cardinality(L!SlotHolders(k)) /\ inflight[k] \in Nat
    BY DEF SlotsCounted, L!LoginTypeOK
  <2>2. CASE k \in L!KeysOf(attempt[r])
    <3>1. r \in L!SlotHolders(k) /\ L!SlotHolders(k)' = L!SlotHolders(k) \ {r}
      BY <1>1, <2>2, HoldersAre
    <3>2. /\ Cardinality(L!SlotHolders(k)') = Cardinality(L!SlotHolders(k)) - 1
          /\ Cardinality(L!SlotHolders(k)') \in Nat
      BY <3>1, HoldersAre, FS_RemoveElement, FS_CardinalityType
    <3>3. inflight'[k] = inflight[k] - 1
      BY <1>2, <2>2
    <3> QED BY <2>1, <2>2, <3>2, <3>3
  <2>3. CASE k \notin L!KeysOf(attempt[r])
    <3>1. L!SlotHolders(k)' = L!SlotHolders(k)
      BY <1>1, <2>3, HoldersAre
    <3>2. inflight'[k] = inflight[k] - 0
      BY <1>2, <2>3
    <3> QED BY <2>1, <2>3, <3>1, <3>2
  <2> QED BY <2>2, <2>3
<1>4. inflight' \in [L!LimiterKeys -> Nat]
  BY <1>2, <1>3
<1> QED BY <1>3, <1>4 DEF SlotsCounted

\* An admitted attempt takes one slot of each of its keys.
LEMMA SlotsReserved ==
  ASSUME L!LoginTypeOK, SlotsCounted, NEW r \in Attempts, NEW b, Answers(r, b),
         ~Held(attempt[r]), Held(b), L!Reserve(b)
  PROVE  /\ SlotsCounted'
         /\ inflight' \in [L!LimiterKeys -> Nat]
<1>1. attempt'[r] = b /\ \A q \in Attempts : q # r => attempt'[q] = attempt[q]
  BY Replaced
<1>2. inflight' = [k \in L!LimiterKeys |-> inflight[k] + (IF k \in L!KeysOf(b) THEN 1 ELSE 0)]
  BY DEF L!Reserve
<1>3. ASSUME NEW k \in L!LimiterKeys
      PROVE  inflight'[k] = Cardinality(L!SlotHolders(k)') /\ inflight'[k] \in Nat
  <2>1. inflight[k] = Cardinality(L!SlotHolders(k)) /\ inflight[k] \in Nat
    BY DEF SlotsCounted, L!LoginTypeOK
  <2>2. CASE k \in L!KeysOf(b)
    <3>1. r \notin L!SlotHolders(k) /\ L!SlotHolders(k)' = L!SlotHolders(k) \cup {r}
      BY <1>1, <2>2, HoldersAre
    <3>2. Cardinality(L!SlotHolders(k)') = Cardinality(L!SlotHolders(k)) + 1
      BY <3>1, HoldersAre, FS_AddElement
    <3>3. inflight'[k] = inflight[k] + 1
      BY <1>2, <2>2
    <3> QED BY <2>1, <3>2, <3>3
  <2>3. CASE k \notin L!KeysOf(b)
    <3>1. L!SlotHolders(k)' = L!SlotHolders(k)
      <4>1. \A q \in Attempts : Held(attempt'[q]) /\ k \in L!KeysOf(attempt'[q])
                               <=> Held(attempt[q]) /\ k \in L!KeysOf(attempt[q])
        BY <1>1, <2>3
      <4> QED BY <4>1, HoldersAre
    <3>2. inflight'[k] = inflight[k] + 0
      BY <1>2, <2>3
    <3> QED BY <2>1, <3>1, <3>2
  <2> QED BY <2>2, <2>3
<1>4. inflight' \in [L!LimiterKeys -> Nat]
  BY <1>2, <1>3
<1> QED BY <1>3, <1>4 DEF SlotsCounted

\* No table gets fuller by what only shrinks.
LEMMA TablesShrink ==
  ASSUME L!LoginTypeOK, TablesBounded,
         (tracked' \cup L!Reserved') \subseteq (tracked \cup L!Reserved)
  PROVE  TablesBounded'
<1> SUFFICES ASSUME NEW k \in L!LimiterKeys
             PROVE  Cardinality((tracked' \cup L!Reserved') \cap L!TableOf(k)) <= MaxTracked
  BY DEF TablesBounded, L!TableOf
<1> DEFINE Old == (tracked \cup L!Reserved) \cap L!TableOf(k)
           New == (tracked' \cup L!Reserved') \cap L!TableOf(k)
<1>1. New \subseteq Old /\ Old \subseteq L!LimiterKeys
  BY DEF L!LoginTypeOK, L!Reserved
<1>2. Cardinality(Old) <= MaxTracked
  BY DEF TablesBounded
<1> HIDE DEF Old, New
<1>3. IsFiniteSet(Old) /\ IsFiniteSet(New)
  BY <1>1, KeysAreFinite, FS_Subset
<1>4. Cardinality(New) <= Cardinality(Old) /\ Cardinality(New) \in Nat /\ Cardinality(Old) \in Nat
  BY <1>1, <1>3, FS_Subset, FS_CardinalityType
<1>5. Cardinality(New) <= MaxTracked
  BY <1>2, <1>4, LoginAssumption DEF LoginAssumption
<1> QED BY <1>5 DEF New

\* What a step must keep of the limiters' state.
LimiterOK ==
  /\ failures \in [L!LimiterKeys -> Nat]
  /\ tracked \subseteq L!LimiterKeys
  /\ inflight \in [L!LimiterKeys -> Nat]
  /\ SlotsCounted /\ UnderLimit /\ TablesBounded

LEMMA LimitsAreNatural ==
  ASSUME NEW k
  PROVE  L!Limit(k) \in Nat /\ L!Limit(k)' = L!Limit(k)
BY LoginAssumption DEF L!Limit, LoginAssumption

\* The handlers' steps.
LEMMA HandlerLimits ==
  ASSUME L!LoginTypeOK, L!CostInv, LimiterOK, NEW r \in Attempts, HandlerStep(r)
  PROVE  LimiterOK'
<1> DEFINE a == attempt[r]
<1>1. a \in L!Request /\ Held(a) /\ L!KeysOf(a) \subseteq L!LimiterKeys
  BY HandlerMoves, KeysOfRequest
<1>2. PICK b : /\ Answers(r, b)
               /\ \/ Held(b) /\ L!KeysOf(b) = L!KeysOf(a) /\ inflight' = inflight
                  \/ ~Held(b) /\ L!Release(a)
  BY HandlerMoves DEF Moves
<1>3. /\ SlotsCounted' /\ inflight' \in [L!LimiterKeys -> Nat]
      /\ \/ inflight' = inflight
         \/ \A k \in L!LimiterKeys :
              IF k \in L!KeysOf(a) THEN inflight[k] = inflight'[k] + 1
              ELSE inflight'[k] = inflight[k]
  <2>1. CASE Held(b) /\ L!KeysOf(b) = L!KeysOf(a) /\ inflight' = inflight
    BY <1>1, <1>2, <2>1, SlotsKept DEF LimiterOK
  <2>2. CASE ~Held(b) /\ L!Release(a)
    BY <1>1, <1>2, <2>2, SlotsReleased DEF LimiterOK
  <2> QED BY <1>2, <2>1, <2>2
<1>4. \A k \in L!LimiterKeys : /\ inflight'[k] <= inflight[k]
                               /\ inflight[k] \in Nat /\ inflight'[k] \in Nat
  BY <1>3 DEF LimiterOK
<1>5. L!Reserved' \subseteq L!Reserved
  BY <1>4 DEF L!Reserved
<1>6. CASE ~L!Fail(r)
  <2>1. failures' = failures /\ tracked' = tracked
    BY <1>6, HandlerLeaves
  <2>2. UnderLimit'
    <3>1. \A k \in L!LimiterKeys : failures'[k] + inflight'[k] <= L!Limit(k)
      <4> TAKE k \in L!LimiterKeys
      <4>1. failures[k] + inflight[k] <= L!Limit(k) /\ failures[k] \in Nat
        BY DEF LimiterOK, UnderLimit
      <4> QED BY <1>4, <2>1, <4>1, LimitsAreNatural
    <3> QED BY <3>1, LimitsAreNatural DEF UnderLimit
  <2>3. TablesBounded'
    BY <1>5, <2>1, TablesShrink DEF LimiterOK
  <2> QED BY <1>3, <2>1, <2>2, <2>3 DEF LimiterOK
<1>7. CASE L!Fail(r)
  <2>1. /\ failures' = [k \in L!LimiterKeys |->
                          failures[k] + (IF k \in L!KeysOf(a) THEN 1 ELSE 0)]
        /\ tracked' \subseteq tracked \cup L!KeysOf(a)
        /\ ~a.working /\ L!CloseReservation(r, a)
    BY <1>7 DEF L!Fail, L!RecordFailure
  <2>2. a.stage = "normalize" /\ attempt'[r].stage = "failed"
    BY <1>7 DEF L!Fail, L!LoginTypeOK, L!Request
  <2>3. L!Release(a) /\ ~Held(b)
    BY <1>2, <2>1, <2>2, Replaced DEF L!CloseReservation, Held
  <2>4. \A k \in L!LimiterKeys :
          IF k \in L!KeysOf(a) THEN inflight[k] = inflight'[k] + 1
          ELSE inflight'[k] = inflight[k]
    BY <1>1, <1>2, <2>3, SlotsReleased DEF LimiterOK
  <2>5. /\ failures' \in [L!LimiterKeys -> Nat]
        /\ \A k \in L!LimiterKeys : failures'[k] + inflight'[k] = failures[k] + inflight[k]
    BY <1>4, <2>1, <2>4 DEF LimiterOK
  <2>6. UnderLimit'
    <3>1. \A k \in L!LimiterKeys : failures'[k] + inflight'[k] <= L!Limit(k)
      BY <2>5 DEF LimiterOK, UnderLimit
    <3> QED BY <3>1, LimitsAreNatural DEF UnderLimit
  <2>7. L!KeysOf(a) \subseteq L!Reserved
    BY <1>1, <1>4, <2>4 DEF L!Reserved
  <2>8. TablesBounded'
    BY <1>5, <2>1, <2>7, TablesShrink DEF LimiterOK
  <2>9. tracked' \subseteq L!LimiterKeys
    BY <1>1, <2>1 DEF LimiterOK
  <2> QED BY <1>3, <2>5, <2>6, <2>8, <2>9 DEF LimiterOK
<1> QED BY <1>6, <1>7

\* Posting: what pruning and sweeping leave, and room for the admitted.
LEMMA AccessShrinks ==
  ASSUME NEW t, NEW k
  PROVE  L!Accessed(t, k) \subseteq t
BY DEF L!Accessed, L!Prune, L!SweepAtCapacity

LEMMA AdmittedFits ==
  ASSUME L!LoginTypeOK, LimiterOK, NEW b \in L!Request, tracked' \subseteq tracked,
         inflight' = [k \in L!LimiterKeys |-> inflight[k] + (IF k \in L!KeysOf(b) THEN 1 ELSE 0)],
         \A k \in L!KeysOf(b) : ~L!Limited(tracked', k)
  PROVE  TablesBounded'
<1>1. /\ L!KeysOf(b) \subseteq L!LimiterKeys
      /\ \A k \in L!LimiterKeys : inflight[k] \in Nat
  BY KeysOfRequest DEF LimiterOK
<1>2. L!Reserved' = L!Reserved \cup L!KeysOf(b)
  BY <1>1 DEF L!Reserved
<1> SUFFICES ASSUME NEW k \in L!LimiterKeys
             PROVE  Cardinality((tracked' \cup L!Reserved') \cap L!TableOf(k)) <= MaxTracked
  BY DEF TablesBounded, L!TableOf
<1> DEFINE R == (tracked \cup L!Reserved) \cap L!TableOf(k)
           Old == (tracked' \cup L!Reserved) \cap L!TableOf(k)
           New == (tracked' \cup L!Reserved') \cap L!TableOf(k)
<1>3. PICK j \in L!KeysOf(b) : /\ L!TableOf(j) = L!TableOf(k)
                               /\ L!KeysOf(b) \cap L!TableOf(k) = {j}
  BY KeysOfRequest
<1>4. New = Old \cup {j} /\ Old \subseteq R /\ R \subseteq L!LimiterKeys
  BY <1>2, <1>3 DEF LimiterOK, L!Reserved
<1>5. Cardinality(R) <= MaxTracked
  BY DEF LimiterOK, TablesBounded
<1>6. IsFiniteSet(R) /\ IsFiniteSet(Old)
  BY <1>4, KeysAreFinite, FS_Subset
<1>7. /\ Cardinality(Old) \in Nat /\ Cardinality(R) \in Nat /\ MaxTracked \in Nat
      /\ Cardinality(Old) <= Cardinality(R)
  BY <1>4, <1>6, FS_Subset, FS_CardinalityType, LoginAssumption DEF LoginAssumption
<1>8. j \in Old \/ ~(Cardinality(Old) >= MaxTracked)
  <2>1. ~L!HistoryFull(tracked', j)
    BY <1>3 DEF L!Limited
  <2>2. j \in L!TableOf(k)
    BY <1>3
  <2>3. ~(Cardinality(Old) >= MaxTracked) \/ j \in tracked' \/ j \in L!Reserved
    BY <1>3, <2>1, SameCardinality DEF L!HistoryFull
  <2> QED BY <2>2, <2>3
<1> HIDE DEF R, Old
<1>9. CASE j \in Old
  <2>1. New = Old
    BY <1>4, <1>9
  <2>2. Cardinality(Old) <= MaxTracked
    BY <1>5, <1>7
  <2> QED BY <2>1, <2>2
<1>10. CASE j \notin Old
  <2>1. Cardinality(Old \cup {j}) = Cardinality(Old) + 1
    BY <1>6, <1>10, FS_AddElement
  <2>2. Cardinality(Old) + 1 <= MaxTracked
    BY <1>7, <1>8, <1>10
  <2>3. Cardinality(New) <= MaxTracked
    BY <1>4, <2>1, <2>2
  <2> QED BY <2>3
<1> QED BY <1>9, <1>10

LEMMA PostLimits ==
  ASSUME L!LoginTypeOK, L!CostInv, LimiterOK, NEW r \in Attempts, NEW ip \in Ips, NEW uid \in Uids,
         NEW pw \in Passwords, L!Post(r, ip, uid, pw)
  PROVE  LimiterOK'
<1>1. PICK b : /\ Answers(r, b)
               /\ \/ ~Held(b) /\ inflight' = inflight
                  \/ b \in L!Request /\ Admitted(r, b)
  BY PostAnswers
<1>2. attempt'[r] = b /\ ~Held(attempt[r])
  BY <1>1, PostAnswers, Replaced
<1>4. tracked' \subseteq tracked /\ failures' = failures
  <2>1. /\ tracked' = L!Accessed(L!Accessed(tracked, <<ip, uid>>), ip)
        /\ failures' = failures
    BY DEF L!Post
  <2> QED BY <2>1, AccessShrinks
<1>6. CASE ~Held(b) /\ inflight' = inflight
  <2>2. SlotsCounted'
    BY <1>1, <1>2, <1>6, SlotsKept DEF LimiterOK
  <2>3. UnderLimit'
    BY <1>4, <1>6, LimitsAreNatural DEF LimiterOK, UnderLimit
  <2>4. L!Reserved' = L!Reserved
    BY <1>6 DEF L!Reserved
  <2>5. TablesBounded'
    BY <1>4, <2>4, TablesShrink DEF LimiterOK
  <2> QED BY <1>4, <1>6, <2>2, <2>3, <2>5 DEF LimiterOK
<1>7. CASE b \in L!Request /\ Admitted(r, b)
  <2>1. /\ Held(b) /\ L!Reserve(b) /\ \A k \in L!KeysOf(b) : ~L!Limited(tracked', k)
        /\ inflight' = [k \in L!LimiterKeys |->
                          inflight[k] + (IF k \in L!KeysOf(b) THEN 1 ELSE 0)]
    BY <1>7 DEF Admitted, L!Reserve
  <2>2. SlotsCounted' /\ inflight' \in [L!LimiterKeys -> Nat]
    BY <1>1, <1>2, <2>1, SlotsReserved DEF LimiterOK
  <2>3. UnderLimit'
    <3>1. ASSUME NEW k \in L!LimiterKeys
          PROVE  failures'[k] + inflight'[k] <= L!Limit(k)
      <4>1. /\ failures[k] + inflight[k] <= L!Limit(k) /\ failures[k] \in Nat
            /\ inflight[k] \in Nat /\ L!Limit(k) \in Nat
        BY LimitsAreNatural DEF LimiterOK, UnderLimit
      <4>2. k \in L!KeysOf(b) => ~(failures[k] + inflight[k] >= L!Limit(k))
        BY <2>1 DEF L!Limited
      <4>3. inflight'[k] = inflight[k] + (IF k \in L!KeysOf(b) THEN 1 ELSE 0)
        BY <2>1
      <4> QED BY <1>4, <4>1, <4>2, <4>3
    <3> QED BY <3>1, LimitsAreNatural DEF UnderLimit
  <2>4. TablesBounded'
    BY <1>4, <1>7, <2>1, AdmittedFits
  <2> QED BY <1>4, <2>2, <2>3, <2>4 DEF LimiterOK
<1> QED BY <1>1, <1>6, <1>7

\* The limiters, whatever happens.
LEMMA LimitStep ==
  ASSUME L!LoginTypeOK, L!CostInv, LimiterOK, L!LoginNext
  PROVE  LimiterOK'
<1>1. ASSUME NEW r \in Attempts, NEW ip \in Ips, NEW uid \in Uids, NEW pw \in Passwords,
             L!Post(r, ip, uid, pw)
      PROVE  LimiterOK'
  BY <1>1, PostLimits
<1>2. ASSUME NEW r \in Attempts, HandlerStep(r)
      PROVE  LimiterOK'
  BY <1>2, HandlerLimits
<1>3. CASE UNCHANGED <<failures, tracked, inflight, attempt>>
  <2>1. failures' = failures /\ tracked' = tracked /\ inflight' = inflight /\ attempt' = attempt
    BY <1>3
  <2>2. SlotsCounted'
    <3>1. \A k : L!SlotHolders(k)' = L!SlotHolders(k)
      BY <2>1, HoldersAre
    <3>2. \A k \in L!LimiterKeys : inflight'[k] = Cardinality(L!SlotHolders(k)')
      BY <2>1, <3>1 DEF LimiterOK, SlotsCounted
    <3> QED BY <3>2 DEF SlotsCounted
  <2>3. UnderLimit'
    BY <2>1, LimitsAreNatural DEF LimiterOK, UnderLimit
  <2>4. TablesBounded'
    BY <2>1, TablesShrink DEF LimiterOK, L!Reserved
  <2> QED BY <2>1, <2>2, <2>3, <2>4 DEF LimiterOK
<1>4. ASSUME NEW j \in L!LimiterKeys, L!Age(j)
      PROVE  LimiterOK'
  <2>1. /\ failures' = [failures EXCEPT ![j] = @ - 1] /\ failures[j] > 0
        /\ tracked' = tracked /\ inflight' = inflight /\ attempt' = attempt
    BY <1>4 DEF L!Age
  <2>2. SlotsCounted'
    <3>1. \A k : L!SlotHolders(k)' = L!SlotHolders(k)
      BY <2>1, HoldersAre
    <3>2. \A k \in L!LimiterKeys : inflight'[k] = Cardinality(L!SlotHolders(k)')
      BY <2>1, <3>1 DEF LimiterOK, SlotsCounted
    <3> QED BY <3>2 DEF SlotsCounted
  <2>3. /\ failures' \in [L!LimiterKeys -> Nat]
        /\ \A k \in L!LimiterKeys : failures'[k] <= failures[k]
    BY <2>1 DEF LimiterOK
  <2>4. UnderLimit'
    <3>1. ASSUME NEW k \in L!LimiterKeys
          PROVE  failures'[k] + inflight'[k] <= L!Limit(k)
      <4>1. /\ failures[k] + inflight[k] <= L!Limit(k) /\ failures[k] \in Nat
            /\ inflight[k] \in Nat /\ failures'[k] \in Nat /\ failures'[k] <= failures[k]
            /\ L!Limit(k) \in Nat
        BY <2>3, LimitsAreNatural DEF LimiterOK, UnderLimit
      <4> QED BY <2>1, <4>1
    <3> QED BY <3>1, LimitsAreNatural DEF UnderLimit
  <2>5. TablesBounded'
    BY <2>1, TablesShrink DEF LimiterOK, L!Reserved
  <2> QED BY <2>1, <2>2, <2>3, <2>4, <2>5 DEF LimiterOK
<1>5. CASE L!Restart
  <2>1. /\ failures' = [k \in L!LimiterKeys |-> 0] /\ tracked' = {}
        /\ inflight' = [k \in L!LimiterKeys |-> 0]
    BY <1>5 DEF L!Restart
  <2>2. SlotsCounted'
    <3>1. \A q \in Attempts : ~Held(attempt'[q])
      <4> TAKE q \in Attempts
      <4>1. attempt'[q] = IF L!Open(q) \/ L!Working(q) THEN L!Over("over") ELSE attempt[q]
        BY <1>5 DEF L!Restart
      <4>2. L!Open(q) \/ L!Working(q) <=> Held(attempt[q])
        BY DEF L!Open, L!Working, Held
      <4> QED BY <4>1, <4>2, OverIsEnded
    <3>2. \A k : L!SlotHolders(k)' = {}
      BY <3>1, HoldersAre
    <3>3. \A k \in L!LimiterKeys : inflight'[k] = Cardinality(L!SlotHolders(k)')
      BY <2>1, <3>2, FS_EmptySet
    <3> QED BY <3>3 DEF SlotsCounted
  <2>3. UnderLimit'
    BY <2>1, LimitsAreNatural DEF UnderLimit
  <2>4. TablesBounded'
    BY <2>1, TablesShrink DEF LimiterOK, L!Reserved
  <2> QED BY <2>1, <2>2, <2>3, <2>4 DEF LimiterOK
<1>6. \/ \E r \in Attempts :
           \/ \E ip \in Ips, uid \in Uids, pw \in Passwords : L!Post(r, ip, uid, pw)
           \/ HandlerStep(r)
      \/ UNCHANGED <<failures, tracked, inflight, attempt>>
      \/ \E k \in L!LimiterKeys : L!Age(k)
      \/ L!Restart
  BY DEF L!LoginNext, HandlerStep, L!Use, L!Logout, L!DropCached, L!EditCredential
<1> QED BY <1>1, <1>2, <1>3, <1>4, <1>5, <1>6
-----------------------------------------------------------------------------
\* Types.

LEMMA AttemptsTyped ==
  ASSUME L!LoginTypeOK, L!CostInv, L!LoginNext
  PROVE  /\ attempt' \in [Attempts -> L!Request \cup L!Ended]
         /\ references' \subseteq Nat /\ known' \subseteq Nat
<1> DEFINE Typed == /\ attempt' \in [Attempts -> L!Request \cup L!Ended]
                    /\ references' \subseteq Nat /\ known' \subseteq Nat
<1>1. ASSUME HashesKept, NEW r \in Attempts, NEW b, Answers(r, b)
      PROVE  Typed
  BY <1>1, Replaced DEF HashesKept
<1>2. ASSUME NEW r \in Attempts, NEW ip \in Ips, NEW uid \in Uids, NEW pw \in Passwords,
             L!Post(r, ip, uid, pw)
      PROVE  Typed
  BY <1>1, <1>2, PostAnswers
<1>3. ASSUME NEW r \in Attempts, HandlerStep(r)
      PROVE  Typed
  BY <1>1, <1>3, HandlerMoves DEF Moves
<1>4. CASE UNCHANGED <<attempt, references, known>>
  BY <1>4 DEF L!LoginTypeOK
<1>5. CASE L!Restart
  <2>1. /\ attempt' = [q \in Attempts |->
             IF L!Open(q) \/ L!Working(q) THEN L!Over("over") ELSE attempt[q]]
        /\ references' = {Target} /\ known' = {0, Target}
    BY <1>5 DEF L!Restart
  <2>2. \A q \in Attempts : attempt[q] \in L!Request \cup L!Ended
    BY DEF L!LoginTypeOK
  <2> QED BY <2>1, <2>2, OverIsEnded, LoginAssumption DEF LoginAssumption
<1>6. \/ \E r \in Attempts :
           \/ \E ip \in Ips, uid \in Uids, pw \in Passwords : L!Post(r, ip, uid, pw)
           \/ HandlerStep(r)
      \/ UNCHANGED <<attempt, references, known>>
      \/ L!Restart
  BY DEF L!LoginNext, HandlerStep, L!Use, L!Logout, L!Age, L!DropCached, L!EditCredential
<1> QED BY <1>2, <1>3, <1>4, <1>5, <1>6

LEMMA SessionsTyped ==
  ASSUME L!LoginTypeOK, L!SessionInv, L!CostInv, L!LoginNext
  PROVE  /\ stored' \in [Uids -> Accounts \cup {NoCred}]
         /\ cached' \in [Uids -> Accounts \cup {NoCred, NoRow}]
         /\ rows' \in [Uids -> L!SessionRow \cup {NoRow}]
         /\ token' \in [Attempts -> L!Token \cup {NoRow}]
         /\ revoked' \subseteq {r \in Attempts : token'[r] # NoRow}
<1> USE DEF L!LoginTypeOK
<1>1. CASE UNCHANGED <<stored, cached, rows, token, revoked>>
  BY <1>1
<1>2. ASSUME NEW r \in Attempts, L!Verified(r)
      PROVE  /\ stored' \in [Uids -> Accounts \cup {NoCred}]
             /\ cached' \in [Uids -> Accounts \cup {NoCred, NoRow}]
             /\ rows' \in [Uids -> L!SessionRow \cup {NoRow}]
             /\ token' \in [Attempts -> L!Token \cup {NoRow}]
             /\ revoked' \subseteq {q \in Attempts : token'[q] # NoRow}
  <2>1. /\ attempt[r] \in L!Request /\ attempt[r].seen \in Accounts
        /\ SignsIn(r) \/ UNCHANGED <<cached, rows, token, revoked>>
        /\ stored' = stored
    BY <1>2, VerifiedSignsIn DEF L!Verified
  <2>2. CASE SignsIn(r)
    <3> DEFINE u == attempt[r].uid
               c == attempt[r].seen
               mine == L!Bound(u, c)
               new == [uid |-> u, secret |-> mine.secret, generation |-> mine.generation, fp |-> c]
    <3>1. u \in Uids /\ c \in Accounts /\ mine \in L!SessionRow
      BY <2>1, RequestFields, BoundRow
    <3>2. /\ rows' = [rows EXCEPT ![u] = mine]
          /\ cached' = [cached EXCEPT ![u] = c]
          /\ token' = [token EXCEPT ![r] = new]
          /\ revoked' \subseteq revoked \cup L!HoldersOf(u)
      BY <2>2 DEF SignsIn
    <3> HIDE DEF u, c, mine
    <3>3. new \in L!Token
      BY <3>1 DEF L!Token, L!SessionRow
    <3>4. new # NoRow
      BY <3>3, LoginAssumption DEF LoginAssumption, L!Token
    <3> HIDE DEF new
    <3>5. revoked' \subseteq {q \in Attempts : token'[q] # NoRow}
      BY <3>2, <3>4 DEF L!HoldersOf
    <3> QED BY <2>1, <3>1, <3>2, <3>3, <3>5
  <2> QED BY <1>1, <2>1, <2>2
<1>3. ASSUME NEW r \in Attempts, L!Use(r)
      PROVE  /\ cached' \in [Uids -> Accounts \cup {NoCred, NoRow}]
             /\ UNCHANGED <<stored, rows, token, revoked>>
  <2>1. /\ UNCHANGED <<stored, rows, token, revoked>>
        /\ cached' = [cached EXCEPT ![token[r].uid] = stored[token[r].uid]] /\ token[r] # NoRow
    BY <1>3 DEF L!Use, L!Remember
  <2>2. token[r].uid \in Uids
    BY <2>1 DEF L!Token
  <2> QED BY <2>1, <2>2
<1>4. ASSUME NEW r \in Attempts, L!Logout(r)
      PROVE  /\ cached' \in [Uids -> Accounts \cup {NoCred, NoRow}]
             /\ rows' \in [Uids -> L!SessionRow \cup {NoRow}]
             /\ revoked' \subseteq {q \in Attempts : token'[q] # NoRow}
             /\ UNCHANGED <<stored, token>>
  <2> DEFINE u == token[r].uid
  <2>1. u \in Uids /\ rows[u] \in L!SessionRow
    BY <1>4 DEF L!Logout, L!Resolves, L!Token
  <2>2. /\ rows' = [rows EXCEPT ![u].generation = @ + 1]
        /\ cached' = [cached EXCEPT ![u] = L!Config(u)]
        /\ revoked' = revoked \cup L!HoldersOf(u)
        /\ UNCHANGED <<stored, token>>
    BY <1>4 DEF L!Logout
  <2>3. L!Config(u) \in Accounts \cup {NoCred, NoRow}
    BY <2>1 DEF L!Config
  <2> HIDE DEF u
  <2>4. rows' \in [Uids -> L!SessionRow \cup {NoRow}]
    BY <2>1, <2>2 DEF L!SessionRow
  <2>5. cached' \in [Uids -> Accounts \cup {NoCred, NoRow}]
    BY <2>1, <2>2, <2>3
  <2>6. revoked' \subseteq {q \in Attempts : token'[q] # NoRow}
    BY <2>2 DEF L!HoldersOf
  <2> QED BY <2>2, <2>4, <2>5, <2>6
<1>5. ASSUME NEW u \in Uids, L!DropCached(u)
      PROVE  /\ cached' \in [Uids -> Accounts \cup {NoCred, NoRow}]
             /\ UNCHANGED <<stored, rows, token, revoked>>
  BY <1>5 DEF L!DropCached
<1>6. ASSUME NEW u \in Uids, NEW c \in Accounts \cup {NoCred}, L!EditCredential(u, c)
      PROVE  /\ stored' \in [Uids -> Accounts \cup {NoCred}]
             /\ UNCHANGED <<cached, rows, token, revoked>>
  BY <1>6 DEF L!EditCredential
<1>7. CASE L!Restart
  BY <1>7 DEF L!Restart
<1>8. \/ UNCHANGED <<stored, cached, rows, token, revoked>>
      \/ \E r \in Attempts : L!Verified(r) \/ L!Use(r) \/ L!Logout(r)
      \/ \E u \in Uids : L!DropCached(u) \/ \E c \in Accounts \cup {NoCred} : L!EditCredential(u, c)
      \/ L!Restart
  <2>1. ASSUME NEW r \in Attempts, NEW ip \in Ips, NEW uid \in Uids, NEW pw \in Passwords,
               L!Post(r, ip, uid, pw)
        PROVE  UNCHANGED <<stored, cached, rows, token, revoked>>
    BY <2>1 DEF L!Post
  <2>2. ASSUME NEW r \in Attempts, HandlerStep(r), ~L!Verified(r)
        PROVE  UNCHANGED <<stored, cached, rows, token, revoked>>
    BY <2>2, HandlerLeaves
  <2>3. ASSUME NEW k, L!Age(k)
        PROVE  UNCHANGED <<stored, cached, rows, token, revoked>>
    BY <2>3 DEF L!Age
  <2> HIDE DEF L!LoginTypeOK
  <2> QED BY <2>1, <2>2, <2>3 DEF L!LoginNext, HandlerStep
<1> QED BY <1>1, <1>2, <1>3, <1>4, <1>5, <1>6, <1>7, <1>8

\* Every step of sign-in keeps its invariants.
LEMMA LoginStep ==
  ASSUME LoginInv, L!LoginNext
  PROVE  LoginInv'
<1>1. L!LoginTypeOK /\ L!SessionInv /\ L!CostInv /\ L!LimitsHeld
  BY DEF LoginInv
<1>2. LimiterOK
  BY <1>1, LimitParts DEF LimiterOK, L!LoginTypeOK
<1>3. LimiterOK'
  BY <1>1, <1>2, LimitStep
<1>4. L!SessionInv' /\ L!CostInv'
  BY <1>1, SessionStep, CostStep
<1>5. L!LoginTypeOK'
  <2>1. failures' \in [L!LimiterKeys -> Nat] /\ tracked' \subseteq L!LimiterKeys
        /\ inflight' \in [L!LimiterKeys -> Nat]
    BY <1>3 DEF LimiterOK
  <2> QED BY <1>1, <2>1, AttemptsTyped, SessionsTyped DEF L!LoginTypeOK
<1>6. L!LimitsHeld'
  <2>1. SlotsCounted' /\ UnderLimit' /\ TablesBounded'
    BY <1>3 DEF LimiterOK
  <2> QED BY <2>1, LimitParts, PTL
<1> QED BY <1>4, <1>5, <1>6 DEF LoginInv

LEMMA LoginStart ==
  ASSUME L!LoginInit
  PROVE  LoginInv
<1>1. L!LoginTypeOK
  BY OverIsEnded, LoginAssumption DEF L!LoginInit, L!LoginTypeOK, LoginAssumption
<1>2. L!SessionInv /\ L!CostInv
  BY OverIsEnded DEF L!LoginInit, L!SessionInv, L!CostInv
<1>3. SlotsCounted
  <2>1. \A q \in Attempts : ~Held(attempt[q])
    BY OverIsEnded DEF L!LoginInit
  <2>2. \A k : L!SlotHolders(k) = {}
    BY <2>1, HoldersAre
  <2> QED BY <2>2, FS_EmptySet DEF SlotsCounted, L!LoginInit
<1>4. UnderLimit
  BY LimitsAreNatural DEF UnderLimit, L!LoginInit
<1>5. TablesBounded
  <2>1. \A k : (tracked \cup L!Reserved) \cap L!TableOf(k) = {}
    BY DEF L!LoginInit, L!Reserved
  <2> QED BY <2>1, FS_EmptySet, LoginAssumption DEF TablesBounded, LoginAssumption
<1>6. L!LimitsHeld
  BY <1>3, <1>4, <1>5, LimitParts
<1> QED BY <1>1, <1>2, <1>6 DEF LoginInv
-----------------------------------------------------------------------------
\* The promises of sign-in.

LEMMA LoginKept ==
  ASSUME LoginInv, UNCHANGED loginVars
  PROVE  LoginInv'
<1>1. /\ failures' = failures /\ tracked' = tracked /\ inflight' = inflight
      /\ attempt' = attempt /\ stored' = stored /\ cached' = cached /\ rows' = rows
      /\ token' = token /\ revoked' = revoked /\ references' = references /\ known' = known
  BY DEF loginVars
<1>2. L!LoginTypeOK'
  BY <1>1 DEF LoginInv, L!LoginTypeOK
<1>3. L!SessionInv'
  BY <1>1, SessionsKept DEF LoginInv
<1>4. L!CostInv'
  <2>1. \A q \in Attempts : CostOK(attempt'[q], references')
    BY <1>1 DEF LoginInv, CostOK, L!CostInv
  <2>2. {0, Target} \subseteq known' /\ known' \subseteq references' \cup {0}
    BY <1>1 DEF LoginInv, L!CostInv
  <2> QED BY <2>1, <2>2, CostsPrimed
<1>5. L!LimitsHeld'
  <2>1. SlotsCounted /\ UnderLimit /\ TablesBounded /\ L!LoginTypeOK
    BY LimitParts DEF LoginInv
  <2>2. SlotsCounted'
    <3>1. \A k : L!SlotHolders(k)' = L!SlotHolders(k)
      BY <1>1, HoldersAre
    <3>2. \A k \in L!LimiterKeys : inflight'[k] = Cardinality(L!SlotHolders(k)')
      BY <1>1, <2>1, <3>1 DEF SlotsCounted
    <3> QED BY <3>2 DEF SlotsCounted
  <2>3. UnderLimit'
    BY <1>1, <2>1, LimitsAreNatural DEF UnderLimit
  <2>4. TablesBounded'
    BY <1>1, <2>1, TablesShrink DEF L!Reserved
  <2> QED BY <2>2, <2>3, <2>4, LimitParts, PTL
<1> QED BY <1>2, <1>3, <1>4, <1>5 DEF LoginInv

-----------------------------------------------------------------------------
\* Workers.

WorkersOK == W!WorkersTypeOK /\ W!WorkersInv

\* The types of a worker's fields, dead or living.
LEMMA WorkerFields ==
  ASSUME WorkersOK, NEW w \in Slots
  PROVE  /\ worker[w].step \in W!Steps /\ worker[w].armed \in BOOLEAN
         /\ worker[w].holds \in BOOLEAN
         /\ W!Living(w) => worker[w].parent \in 1..MaxServers
         /\ ~W!Living(w) => worker[w] = W!Dead
<1>1. worker[w] \in {W!Dead} \cup [step : W!Steps \ {"none"}, parent : 1..MaxServers,
                                   armed : BOOLEAN, holds : BOOLEAN]
  BY DEF WorkersOK, W!WorkersTypeOK
<1>2. CASE worker[w] = W!Dead
  BY <1>2 DEF W!Dead, W!Steps, W!Living
<1>3. CASE worker[w] \in [step : W!Steps \ {"none"}, parent : 1..MaxServers,
                          armed : BOOLEAN, holds : BOOLEAN]
  BY <1>3 DEF W!Living
<1> QED BY <1>1, <1>2, <1>3

LEMMA ServerFields ==
  ASSUME WorkersOK
  PROVE  /\ forker.pid \in Nat /\ forker.alive \in BOOLEAN
         /\ forker.alive => forker.pid \in 1..MaxServers
         /\ W!Running.alive /\ W!Running.pid \in Nat \ {0}
         /\ W!Running.pid <= MaxServers => W!Running \in [pid : 1..MaxServers, alive : BOOLEAN]
<1>1. forker \in {W!NoServer} \cup [pid : 1..MaxServers, alive : BOOLEAN]
  BY DEF WorkersOK, W!WorkersTypeOK
<1>2. /\ forker.pid \in Nat /\ forker.alive \in BOOLEAN
      /\ forker.alive => forker.pid \in 1..MaxServers
  <2>1. CASE forker = W!NoServer
    BY <2>1 DEF W!NoServer
  <2>2. CASE forker \in [pid : 1..MaxServers, alive : BOOLEAN]
    BY <2>2, StartsAssumption DEF StartsAssumption
  <2> QED BY <1>1, <2>1, <2>2
<1>3. CASE forker.alive
  <2>1. W!Running = forker /\ forker # W!NoServer
    BY <1>3 DEF W!Running, W!NoServer
  <2> QED BY <1>1, <1>2, <1>3, <2>1
<1>4. CASE ~forker.alive
  <2>1. W!Running = [pid |-> forker.pid + 1, alive |-> TRUE]
    BY <1>4 DEF W!Running
  <2> QED BY <1>2, <2>1, StartsAssumption DEF StartsAssumption
<1> QED BY <1>2, <1>3, <1>4

\* What the invariant says of one worker, before and after a step.
WorkerOK(x, f) ==
  /\ x.step # "none" => x.parent <= f.pid
  /\ x.step = "armed" /\ f.alive /\ f.pid = x.parent => x.armed
  /\ x.step \in {"kin", "ready"} => x.armed /\ f.alive /\ f.pid = x.parent
  /\ x.step \in {"none", "ready"} => ~x.holds

LEMMA WorkersOKParts ==
  /\ W!WorkersInv <=> \A w \in Slots : WorkerOK(worker[w], forker)
  /\ W!WorkersInv' <=> \A w \in Slots : WorkerOK(worker'[w], forker')
BY DEF W!WorkersInv, WorkerOK, W!Living, W!ParentLives

\* Another server leaves what is known of the workers of an earlier one.
LEMMA ServerRuns ==
  ASSUME WorkersOK, NEW w \in Slots
  PROVE  WorkerOK(worker[w], forker) /\ WorkerOK(worker[w], W!Running)
<1>1. WorkerOK(worker[w], forker)
  BY WorkersOKParts DEF WorkersOK
<1>2. /\ forker.pid \in Nat /\ forker.alive \in BOOLEAN
      /\ worker[w].step # "none" => worker[w].parent \in Nat
  BY WorkerFields, ServerFields DEF W!Living
<1>3. forker.alive => W!Running = forker
  BY DEF W!Running
<1>4. ~forker.alive => W!Running.pid = forker.pid + 1
  BY DEF W!Running
<1>5. CASE ~forker.alive
  BY <1>1, <1>2, <1>4, <1>5 DEF WorkerOK
<1> QED BY <1>1, <1>3, <1>5

LEMMA WorkersStep ==
  ASSUME WorkersOK, W!WorkersNext
  PROVE  WorkersOK'
<1> DEFINE Alive == [step : W!Steps \ {"none"}, parent : 1..MaxServers,
                     armed : BOOLEAN, holds : BOOLEAN]
           Servants == {W!NoServer} \cup [pid : 1..MaxServers, alive : BOOLEAN]
<1>1. /\ service \in BOOLEAN /\ broken \in BOOLEAN /\ forker \in Servants
      /\ poolServer \in {NoPid} \cup 1..MaxServers
      /\ worker \in [Slots -> {W!Dead} \cup Alive]
  BY DEF WorkersOK, W!WorkersTypeOK
<1>2. \A w \in Slots : WorkerOK(worker[w], forker) /\ WorkerOK(worker[w], W!Running)
  BY ServerRuns
<1>3. /\ W!Running.alive /\ forker.pid \in Nat /\ forker.alive \in BOOLEAN
      /\ W!Running.pid <= MaxServers =>
           W!Running \in Servants /\ W!Running.pid \in 1..MaxServers
      /\ forker.alive => forker.pid \in 1..MaxServers
  BY ServerFields
<1>4. WorkerOK(W!Dead, forker') /\ W!Dead.step = "none"
  BY DEF WorkerOK, W!Dead
<1> SUFFICES /\ service' \in BOOLEAN /\ broken' \in BOOLEAN /\ forker' \in Servants
             /\ poolServer' \in {NoPid} \cup 1..MaxServers
             /\ worker' \in [Slots -> {W!Dead} \cup Alive]
             /\ \A w \in Slots : WorkerOK(worker'[w], forker')
  BY WorkersOKParts DEF WorkersOK, W!WorkersTypeOK, W!Dead, W!Steps, W!NoServer
<1>5. CASE W!ParsePool
  <2>1. /\ forker' = W!Running /\ W!Running.pid <= MaxServers /\ poolServer' = W!Running.pid
        /\ broken' = FALSE /\ service' = service /\ worker' = worker
    BY <1>5 DEF W!ParsePool
  <2> HIDE DEF Alive, Servants
  <2> QED BY <1>1, <1>2, <1>3, <2>1
<1>6. ASSUME NEW w \in Slots, W!Spawn(w)
      PROVE  /\ forker' \in Servants /\ UNCHANGED <<service, broken, poolServer>>
             /\ worker' \in [Slots -> {W!Dead} \cup Alive]
             /\ \A v \in Slots : WorkerOK(worker'[v], forker')
  <2> DEFINE x == [step |-> "forked", parent |-> W!Running.pid, armed |-> FALSE, holds |-> TRUE]
  <2>1. /\ forker' = W!Running /\ W!Running.pid <= MaxServers
        /\ worker' = [worker EXCEPT ![w] = x]
        /\ UNCHANGED <<service, broken, poolServer>>
    BY <1>6 DEF W!Spawn
  <2>2. W!Running \in Servants /\ W!Running.pid \in 1..MaxServers
    BY <1>3, <2>1
  <2>3. x \in Alive
    BY <2>2 DEF W!Steps
  <2>4. WorkerOK(x, W!Running)
    BY <2>2 DEF WorkerOK
  <2> HIDE DEF x, Alive, Servants
  <2> QED BY <1>1, <1>2, <2>1, <2>2, <2>3, <2>4
\* A step of one worker: what it becomes is a worker that is known.
<1>7. ASSUME NEW w \in Slots, NEW x, worker' = [worker EXCEPT ![w] = x],
             x \in {W!Dead} \cup Alive, WorkerOK(x, forker), forker' = forker
      PROVE  /\ worker' \in [Slots -> {W!Dead} \cup Alive]
             /\ \A v \in Slots : WorkerOK(worker'[v], forker')
  <2> HIDE DEF Alive
  <2> QED BY <1>1, <1>2, <1>7
<1>8. ASSUME NEW w \in Slots, \/ W!Arm(w) \/ W!CheckParent(w) \/ W!CheckService(w)
                              \/ W!WorkerDies(w)
      PROVE  /\ forker' = forker /\ UNCHANGED <<service, poolServer>> /\ broken' \in BOOLEAN
             /\ worker' \in [Slots -> {W!Dead} \cup Alive]
             /\ \A v \in Slots : WorkerOK(worker'[v], forker')
  <2>1. W!Living(w) => worker[w] \in Alive /\ worker[w].parent \in Nat
    BY <1>1, WorkerFields DEF W!Living, W!Dead
  <2>2. W!Living(w) /\ forker' = forker /\ UNCHANGED <<service, poolServer>>
    BY <1>8 DEF W!Arm, W!CheckParent, W!CheckService, W!WorkerDies, W!Living
  <2>3. /\ worker[w] \in Alive /\ worker[w].parent \in Nat /\ WorkerOK(worker[w], forker)
    BY <1>2, <2>1, <2>2
  <2>4. CASE W!Exit(w)
    BY <1>4, <1>7, <2>2, <2>4 DEF W!Exit
  <2>5. CASE W!Arm(w)
    <3> DEFINE x == [worker[w] EXCEPT !.step = "armed", !.armed = W!ParentLives(w)]
    <3>1. worker' = [worker EXCEPT ![w] = x] /\ broken' = broken
      BY <2>5 DEF W!Arm
    <3>2. W!ParentLives(w) \in BOOLEAN /\ worker[w].step = "forked"
      BY <2>5 DEF W!ParentLives, W!Arm
    <3>3. x \in Alive /\ WorkerOK(x, forker)
      BY <2>3, <3>2 DEF WorkerOK, W!ParentLives, W!Steps
    <3> HIDE DEF x, Alive
    <3> QED BY <1>1, <1>7, <2>2, <3>1, <3>3
  <2>6. CASE W!CheckParent(w) /\ ~W!Exit(w)
    <3> DEFINE x == [worker[w] EXCEPT !.step = "kin"]
    <3>1. worker' = [worker EXCEPT ![w] = x] /\ broken' = broken
      BY <2>6 DEF W!CheckParent
    <3>2. worker[w].step = "armed" /\ forker.alive /\ forker.pid = worker[w].parent
      BY <2>6 DEF W!CheckParent, W!Orphan, W!ParentLives
    <3>3. x \in Alive /\ WorkerOK(x, forker)
      BY <2>3, <3>2 DEF WorkerOK, W!Steps
    <3> HIDE DEF x, Alive
    <3> QED BY <1>1, <1>7, <2>2, <3>1, <3>3
  <2>7. CASE W!CheckService(w) /\ ~W!Exit(w)
    <3> DEFINE x == [worker[w] EXCEPT !.step = "ready", !.holds = FALSE]
    <3>1. worker' = [worker EXCEPT ![w] = x] /\ broken' = broken /\ worker[w].step = "kin"
      BY <2>7 DEF W!CheckService, W!Closed
    <3>2. x \in Alive /\ WorkerOK(x, forker)
      BY <2>3, <3>1 DEF WorkerOK, W!Steps
    <3> HIDE DEF x, Alive
    <3> QED BY <1>1, <1>7, <2>2, <3>1, <3>2
  <2> QED BY <1>8, <2>4, <2>5, <2>6, <2>7 DEF W!WorkerDies
<1>9. CASE W!EndPool
  <2>1. /\ worker' = [w \in Slots |-> W!Dead] /\ poolServer' = NoPid
        /\ UNCHANGED <<service, forker, broken>>
    BY <1>9 DEF W!EndPool
  <2> HIDE DEF Alive, Servants
  <2> QED BY <1>1, <1>4, <2>1
<1>10. CASE W!ServiceKilled
  <2>1. service' = FALSE /\ UNCHANGED <<forker, poolServer, worker, broken>>
    BY <1>10 DEF W!ServiceKilled
  <2> HIDE DEF Alive, Servants
  <2> QED BY <1>1, <1>2, <2>1
<1>11. CASE W!ServerGone
  <2>1. /\ forker.alive /\ forker' = [forker EXCEPT !.alive = FALSE]
        /\ worker' = W!Bereaved /\ broken' \in BOOLEAN /\ UNCHANGED <<service, poolServer>>
    BY <1>1, <1>11 DEF W!ServerGone
  <2>2. forker' \in Servants /\ forker'.pid = forker.pid /\ ~forker'.alive
    <3>1. forker \in [pid : 1..MaxServers, alive : BOOLEAN]
      BY <1>1, <2>1 DEF W!NoServer
    <3> QED BY <2>1, <3>1
  <2>3. \A w \in Slots : worker'[w] = W!Dead \/ (worker'[w] = worker[w] /\
                           ~(worker[w].armed /\ worker[w].parent = forker.pid))
    BY <2>1 DEF W!Bereaved
  <2>4. worker' \in [Slots -> {W!Dead} \cup Alive]
    <3> HIDE DEF Alive
    <3> QED BY <1>1, <2>1 DEF W!Bereaved
  <2>5. \A w \in Slots : WorkerOK(worker'[w], forker')
    BY <1>2, <1>4, <2>2, <2>3 DEF WorkerOK
  <2> HIDE DEF Alive, Servants
  <2> QED BY <1>1, <2>1, <2>2, <2>4, <2>5
<1>12. W!ServerGone \/ W!ParsePool \/ W!EndPool \/ W!ServiceKilled
       \/ \E w \in Slots : \/ W!Spawn(w)
                           \/ W!Arm(w) \/ W!CheckParent(w) \/ W!CheckService(w) \/ W!WorkerDies(w)
  BY DEF W!WorkersNext, W!ServerExits, W!ServerKilled
<1> HIDE DEF Alive, Servants
<1>13. ASSUME NEW w \in Slots, W!Spawn(w) \/ W!Arm(w) \/ W!CheckParent(w) \/ W!CheckService(w)
                               \/ W!WorkerDies(w)
       PROVE  /\ service' \in BOOLEAN /\ broken' \in BOOLEAN /\ forker' \in Servants
              /\ poolServer' \in {NoPid} \cup 1..MaxServers
              /\ worker' \in [Slots -> {W!Dead} \cup Alive]
              /\ \A v \in Slots : WorkerOK(worker'[v], forker')
  BY <1>1, <1>6, <1>8, <1>13
<1> QED BY <1>5, <1>9, <1>10, <1>11, <1>12, <1>13

LEMMA WorkersEnd ==
  ASSUME WorkersOK
  PROVE  W!NoneOutlivesItsService
<1> DEFINE starting == {w \in Slots : worker[w].step \in {"forked", "armed", "kin"}}
<1>1. \A w \in Slots : worker[w].step \in W!Steps /\ WorkerOK(worker[w], forker)
  BY WorkerFields, ServerRuns
<1>2. \A w \in Slots : W!Living(w) /\ ~W!ParentLives(w) => w \in starting
  BY <1>1 DEF WorkerOK, W!Living, W!ParentLives, W!Steps
<1>3. ~service /\ starting = {} => W!Unheld
  BY <1>1 DEF WorkerOK, W!Unheld, W!Steps
<1>4. \A w \in Slots : worker[w].step \in {"kin", "ready"} => worker[w].armed
  BY <1>1 DEF WorkerOK
<1> QED BY <1>2, <1>3, <1>4 DEF W!NoneOutlivesItsService

LEMMA WorkersStart ==
  ASSUME W!WorkersInit
  PROVE  WorkersOK
BY DEF W!WorkersInit, WorkersOK, W!WorkersTypeOK, W!WorkersInv, W!Dead, W!NoServer, W!Living
-----------------------------------------------------------------------------
\* Export.

ExportOK == E!ExportTypeOK /\ E!ExportInv /\ E!NothingLeftBehind

\* What the invariants say of one request, its child, its file and the time.
RequestOK(h, c, f, t) ==
  /\ h.stage = "render" =>
       f # NoFile /\ h.since <= f /\ h.since <= t /\ t - h.since <= RenderTimeout
  /\ h.stage = "unmade" => c = "none" /\ f = NoFile
  /\ h.stage = "answered" => c # "running" /\ f = NoFile

Rendering == [stage : {"render", "reap"}, server : Servers, since : 0..MaxClock]
Over == [stage : {"lost", "answered"}]
Handling(h, s) == h.stage \in {"render", "reap"} /\ h.server = s

LEMMA ExportParts ==
  /\ ExportOK => /\ E!ExportTypeOK
                 /\ \A s \in Servers : live[s] = {e \in Exports : Handling(handler[e], s)}
                 /\ \A e \in Exports : RequestOK(handler[e], child[e], file[e], clock)
                 /\ \A s \in Servers, e \in Exports :
                      server[s] = "stopping" /\ e \in live[s] => child[e] # "running"
  /\ /\ E!ExportTypeOK'
     /\ \A s \in Servers : live'[s] = {e \in Exports : Handling(handler'[e], s)}
     /\ \A e \in Exports : RequestOK(handler'[e], child'[e], file'[e], clock')
     /\ \A s \in Servers, e \in Exports :
          server'[s] = "stopping" /\ e \in live'[s] => child'[e] # "running"
     => ExportOK'
BY DEF ExportOK, E!ExportInv, E!NothingLeftBehind, RequestOK, Handling, E!InHandler

LEMMA HandlerFields ==
  ASSUME E!ExportTypeOK, NEW e \in Exports
  PROVE  /\ handler[e].stage \in {"unmade", "lost", "answered", "render", "reap"}
         /\ handler[e].stage \in {"render", "reap"} =>
              /\ handler[e] \in Rendering
              /\ handler[e].server \in Servers /\ handler[e].since \in 0..MaxClock
<1>1. handler[e] \in {E!Unmade} \cup Over \cup Rendering
  BY DEF E!ExportTypeOK, Over, Rendering
<1>2. CASE handler[e] = E!Unmade
  BY <1>2 DEF E!Unmade
<1>3. CASE handler[e] \in Over
  BY <1>3 DEF Over
<1>4. CASE handler[e] \in Rendering
  BY <1>4 DEF Rendering
<1> QED BY <1>1, <1>2, <1>3, <1>4

\* A step of one request of one server: it enters the live renders, leaves
\* them, or stays what it was to them.
Enters(e, s, h) ==
  /\ s \in Servers /\ live' = [live EXCEPT ![s] = @ \cup {e}]
  /\ Handling(h, s) /\ live[s] = {} /\ server[s] # "stopping" /\ handler[e].stage = "unmade"
Leaves(e, s, h) ==
  /\ s \in Servers /\ live' = [live EXCEPT ![s] = @ \ {e}]
  /\ Handling(handler[e], s) /\ h.stage \notin {"render", "reap"}
Remains(e, h, c) ==
  /\ live' = live
  /\ c = "running" => child[e] = "running"
  /\ \A z \in Servers : Handling(h, z) <=> Handling(handler[e], z)

LEMMA RequestStep ==
  ASSUME ExportOK, NEW e \in Exports, NEW s, NEW h, NEW c, NEW f,
         h \in {E!Unmade} \cup Over \cup Rendering, c \in {"none", "running", "ended"},
         f \in 0..MaxClock \cup {NoFile},
         handler' = [handler EXCEPT ![e] = h], child' = [child EXCEPT ![e] = c],
         file' = [file EXCEPT ![e] = f],
         RequestOK(h, c, f, clock), server' = server, clock' = clock,
         Enters(e, s, h) \/ Leaves(e, s, h) \/ Remains(e, h, c)
  PROVE  ExportOK'
<1>1. /\ E!ExportTypeOK
      /\ \A z \in Servers : live[z] = {d \in Exports : Handling(handler[d], z)}
      /\ \A d \in Exports : RequestOK(handler[d], child[d], file[d], clock)
      /\ \A z \in Servers, d \in Exports :
           server[z] = "stopping" /\ d \in live[z] => child[d] # "running"
  BY ExportParts
<1>t. /\ live \in [Servers -> SUBSET Exports]
      /\ \A z \in Servers : \A d1, d2 \in live[z] : d1 = d2
  BY <1>1 DEF E!ExportTypeOK
<1>2. /\ handler'[e] = h /\ child'[e] = c /\ file'[e] = f
      /\ \A d \in Exports : d # e =>
           handler'[d] = handler[d] /\ child'[d] = child[d] /\ file'[d] = file[d]
  BY <1>1 DEF E!ExportTypeOK
<1>3. \A d \in Exports : RequestOK(handler'[d], child'[d], file'[d], clock')
  BY <1>1, <1>2
<1>4. /\ live' \in [Servers -> SUBSET Exports]
      /\ \A z \in Servers : \A d1, d2 \in live'[z] : d1 = d2
      /\ \A z \in Servers : live'[z] = {d \in Exports : Handling(handler'[d], z)}
      /\ \A z \in Servers, d \in Exports :
           server[z] = "stopping" /\ d \in live'[z] => child'[d] # "running"
  <2>1. CASE Enters(e, s, h)
    <3>1. live'[s] = {e} /\ \A z \in Servers : z # s => live'[z] = live[z]
      BY <1>t, <2>1 DEF Enters
    <3>2. \A z \in Servers : ~Handling(handler[e], z) /\ (Handling(h, z) => z = s)
      BY <2>1 DEF Enters, Handling
    <3>3. \A z \in Servers : z # s => e \notin live[z]
      BY <1>1, <3>2
    <3>4. ~\E d \in Exports : Handling(handler[d], s)
      BY <1>1, <2>1 DEF Enters
    <3>5. \A z \in Servers : live'[z] = {d \in Exports : Handling(handler'[d], z)}
      <4> SUFFICES ASSUME NEW z \in Servers, NEW d \in Exports
                   PROVE  d \in live'[z] <=> Handling(handler'[d], z)
        <5>1. \A z \in Servers : live'[z] \subseteq Exports
          BY <1>t, <3>1
        <5> QED BY <5>1
      <4>1. CASE d = e
        BY <4>1, <1>2, <2>1, <3>1, <3>2, <3>3 DEF Enters
      <4>2. CASE d # e
        BY <4>2, <1>1, <1>2, <3>1, <3>4
      <4> QED BY <4>1, <4>2
    <3>6. live' \in [Servers -> SUBSET Exports] /\ \A z \in Servers : \A d1, d2 \in live'[z] : d1 = d2
      BY <1>t, <2>1, <3>1 DEF Enters
    <3>7. \A z \in Servers, d \in Exports :
            server[z] = "stopping" /\ d \in live'[z] => child'[d] # "running"
      <4> SUFFICES ASSUME NEW z \in Servers, NEW d \in Exports, server[z] = "stopping", d \in live'[z]
                   PROVE  child'[d] # "running"
        OBVIOUS
      <4>1. z # s
        BY <2>1 DEF Enters
      <4>2. d \in live[z] /\ d # e
        BY <4>1, <3>1, <3>3
      <4> QED BY <4>2, <1>1, <1>2
    <3> QED BY <3>5, <3>6, <3>7
  <2>2. CASE Leaves(e, s, h)
    <3>1. live'[s] = live[s] \ {e} /\ \A z \in Servers : z # s => live'[z] = live[z]
      BY <1>t, <2>2 DEF Leaves
    <3>2. \A z \in Servers : ~Handling(h, z) /\ (Handling(handler[e], z) => z = s)
      BY <2>2 DEF Leaves, Handling
    <3>3. \A z \in Servers : e \notin live'[z] /\ live'[z] \subseteq live[z]
      BY <1>1, <3>1, <3>2
    <3>5. \A z \in Servers : live'[z] = {d \in Exports : Handling(handler'[d], z)}
      <4> SUFFICES ASSUME NEW z \in Servers, NEW d \in Exports
                   PROVE  d \in live'[z] <=> Handling(handler'[d], z)
        <5>1. \A z \in Servers : live'[z] \subseteq Exports
          BY <1>t, <3>3
        <5> QED BY <5>1
      <4>1. CASE d = e
        BY <4>1, <1>2, <3>2, <3>3
      <4>2. CASE d # e
        BY <4>2, <1>1, <1>2, <3>1
      <4> QED BY <4>1, <4>2
    <3>6. live' \in [Servers -> SUBSET Exports] /\ \A z \in Servers : \A d1, d2 \in live'[z] : d1 = d2
      BY <1>t, <2>2, <3>3 DEF Leaves
    <3>7. \A z \in Servers, d \in Exports :
            server[z] = "stopping" /\ d \in live'[z] => child'[d] # "running"
      BY <1>1, <1>2, <3>3
    <3> QED BY <3>5, <3>6, <3>7
  <2>3. CASE Remains(e, h, c)
    <3>1. live' = live
      BY <2>3 DEF Remains
    <3>2. \A z \in Servers, d \in Exports : Handling(handler'[d], z) <=> Handling(handler[d], z)
      BY <1>2, <2>3 DEF Remains
    <3>3. \A z \in Servers : live'[z] = {d \in Exports : Handling(handler'[d], z)}
      BY <1>1, <3>1, <3>2
    <3>4. \A d \in Exports : child'[d] = "running" => child[d] = "running"
      BY <1>2, <2>3 DEF Remains
    <3> QED BY <1>1, <1>t, <3>1, <3>3, <3>4
  <2> QED BY <2>1, <2>2, <2>3
<1>5. E!ExportTypeOK'
  <2>1. handler' \in [Exports -> {E!Unmade} \cup Over \cup Rendering]
    BY <1>1 DEF E!ExportTypeOK, Over, Rendering
  <2>2. /\ child' \in [Exports -> {"none", "running", "ended"}]
        /\ file' \in [Exports -> 0..MaxClock \cup {NoFile}]
    BY <1>1 DEF E!ExportTypeOK
  <2>3. server' \in [Servers -> {"up", "stopping", "down"}] /\ clock' \in 0..MaxClock
    BY <1>1 DEF E!ExportTypeOK
  <2> QED BY <1>4, <2>1, <2>2, <2>3 DEF E!ExportTypeOK, Over, Rendering, E!Unmade
<1> QED BY <1>3, <1>4, <1>5, ExportParts

\* The steps of one request are of that kind.
LEMMA RequestActs ==
  ASSUME ExportOK, NEW e \in Exports,
         \/ \E s \in Servers : E!Start(s, e) \/ E!StartFails(s, e)
         \/ E!ChildWrites(e) \/ E!ChildEnds(e) \/ E!Rendered(e)
         \/ E!TimeOut(e) \/ E!CancelRender(e) \/ E!Reaped(e)
  PROVE  ExportOK'
<1> USE StartsAssumption DEF StartsAssumption
<1>1. /\ E!ExportTypeOK
      /\ \A z \in Servers : live[z] = {d \in Exports : Handling(handler[d], z)}
      /\ RequestOK(handler[e], child[e], file[e], clock)
  BY ExportParts
<1>2. /\ handler \in [Exports -> {E!Unmade} \cup Over \cup Rendering]
      /\ child \in [Exports -> {"none", "running", "ended"}]
      /\ file \in [Exports -> 0..MaxClock \cup {NoFile}]
      /\ clock \in 0..MaxClock
  BY <1>1 DEF E!ExportTypeOK, Over, Rendering
<1>3. /\ handler = [handler EXCEPT ![e] = handler[e]] /\ child = [child EXCEPT ![e] = child[e]]
      /\ file = [file EXCEPT ![e] = file[e]]
  BY <1>2
<1>4. handler[e] \in {E!Unmade} \cup Over \cup Rendering
  BY <1>2
<1>5. child[e] \in {"none", "running", "ended"}
  BY <1>2
<1>6. file[e] \in 0..MaxClock \cup {NoFile}
  BY <1>2
<1>7. [stage |-> "answered"] \in Over /\ \A z \in Servers : ~Handling([stage |-> "answered"], z)
  BY DEF Over, Handling
<1>a. ASSUME NEW s \in Servers, E!Start(s, e)  PROVE ExportOK'
  <2> DEFINE h == [stage |-> "render", server |-> s, since |-> clock]
  <2>1. h \in Rendering
    BY <1>2 DEF Rendering
  <2>2. RequestOK(h, "running", clock, clock)
    BY <1>2 DEF RequestOK
  <2>3. Enters(e, s, h)
    <3>1. live[s] = {}
      BY <1>1, <1>a DEF E!Start, E!Busy, E!InHandler, Handling
    <3>2. handler[e].stage = "unmade"
      BY <1>a DEF E!Start, E!Unmade
    <3>3. Handling(h, s) /\ server[s] # "stopping" /\ live' = [live EXCEPT ![s] = @ \cup {e}]
      BY <1>a DEF E!Start, Handling
    <3> QED BY <3>1, <3>2, <3>3 DEF Enters
  <2>4. /\ handler' = [handler EXCEPT ![e] = h] /\ child' = [child EXCEPT ![e] = "running"]
        /\ file' = [file EXCEPT ![e] = clock] /\ server' = server /\ clock' = clock
    BY <1>a DEF E!Start
  <2>5. clock \in 0..MaxClock \cup {NoFile}
    BY <1>2
  <2> HIDE DEF h
  <2> QED BY <2>1, <2>2, <2>3, <2>4, <2>5, RequestStep
<1>b. ASSUME NEW s \in Servers, E!StartFails(s, e)  PROVE ExportOK'
  <2>1. handler[e].stage = "unmade"
    BY <1>b DEF E!StartFails, E!Unmade
  <2>2. RequestOK([stage |-> "answered"], child[e], file[e], clock)
    BY <1>1, <2>1 DEF RequestOK
  <2>3. Remains(e, [stage |-> "answered"], child[e])
    BY <1>7, <1>b, <2>1 DEF Remains, E!StartFails, Handling
  <2>4. /\ handler' = [handler EXCEPT ![e] = [stage |-> "answered"]]
        /\ child' = child /\ file' = file /\ server' = server /\ clock' = clock
    BY <1>b DEF E!StartFails
  <2> QED BY <1>3, <1>5, <1>6, <1>7, <2>2, <2>3, <2>4, RequestStep
<1>c. CASE E!ChildWrites(e) \/ E!ChildEnds(e)
  <2>1. /\ child[e] = "running" /\ handler' = handler /\ server' = server /\ clock' = clock
        /\ live' = live
    BY <1>c DEF E!ChildWrites, E!ChildEnds
  <2>2. CASE E!ChildWrites(e)
    <3>1. file' = [file EXCEPT ![e] = clock] /\ child' = child
      BY <2>2 DEF E!ChildWrites
    <3>2. RequestOK(handler[e], child[e], clock, clock) /\ clock \in 0..MaxClock \cup {NoFile}
      BY <1>1, <1>2, <2>1, HandlerFields DEF RequestOK
    <3>3. Remains(e, handler[e], child[e])
      BY <2>1 DEF Remains
    <3> QED BY <1>3, <1>4, <1>5, <2>1, <3>1, <3>2, <3>3, RequestStep
  <2>3. CASE E!ChildEnds(e)
    <3>1. child' = [child EXCEPT ![e] = "ended"] /\ file' = file
      BY <2>3 DEF E!ChildEnds
    <3>2. RequestOK(handler[e], "ended", file[e], clock)
      BY <1>1, <2>1 DEF RequestOK
    <3>3. Remains(e, handler[e], "ended")
      BY <2>1 DEF Remains
    <3> QED BY <1>3, <1>4, <1>6, <2>1, <3>1, <3>2, <3>3, RequestStep
  <2> QED BY <1>c, <2>2, <2>3
<1>d. CASE E!Rendered(e) \/ E!Reaped(e)
  <2>1. /\ handler[e].stage \in {"render", "reap"} /\ child[e] # "running" /\ E!Leave(e)
        /\ server' = server /\ child' = child /\ clock' = clock
    BY <1>d DEF E!Rendered, E!Reaped
  <2>2. PICK s \in Servers : s = handler[e].server
    BY <1>1, <2>1, HandlerFields
  <2>3. RequestOK([stage |-> "answered"], child[e], NoFile, clock)
    BY <2>1 DEF RequestOK
  <2>4. Leaves(e, s, [stage |-> "answered"])
    BY <2>1, <2>2 DEF Leaves, Handling, E!Leave
  <2>5. handler' = [handler EXCEPT ![e] = [stage |-> "answered"]] /\ file' = [file EXCEPT ![e] = NoFile]
    BY <2>1 DEF E!Leave
  <2> QED BY <1>3, <1>5, <1>7, <2>1, <2>3, <2>4, <2>5, RequestStep
<1>e. CASE E!TimeOut(e) \/ E!CancelRender(e)
  <2>1. /\ handler[e].stage = "render" /\ E!Kill(e)
        /\ handler' = [handler EXCEPT ![e].stage = "reap"]
        /\ server' = server /\ live' = live /\ file' = file /\ clock' = clock
    BY <1>e DEF E!TimeOut, E!CancelRender, E!Reap
  <2> DEFINE h == [handler[e] EXCEPT !.stage = "reap"]
             c == IF child[e] = "running" THEN "ended" ELSE child[e]
  <2>2. handler[e] \in Rendering
    BY <1>1, <2>1, HandlerFields
  <2>3. h \in Rendering /\ h.stage = "reap" /\ h.server = handler[e].server
    BY <2>2 DEF Rendering
  <2>4. handler' = [handler EXCEPT ![e] = h] /\ child' = [child EXCEPT ![e] = c]
    BY <2>1 DEF E!Kill
  <2>5. c \in {"none", "running", "ended"} /\ c # "running"
    BY <1>5
  <2>6. RequestOK(h, c, file[e], clock)
    BY <2>3 DEF RequestOK
  <2>7. Remains(e, h, c)
    BY <2>1, <2>3, <2>5 DEF Remains, Handling
  <2> HIDE DEF h, c
  <2> QED BY <1>3, <1>6, <2>1, <2>3, <2>4, <2>5, <2>6, <2>7, RequestStep
<1> QED BY <1>a, <1>b, <1>c, <1>d, <1>e

\* A server stops, ends, is killed or starts.
LEMMA ServerActs ==
  ASSUME ExportOK, NEW s \in Servers,
         E!Stop(s) \/ E!Stopped(s) \/ E!SigKill(s) \/ E!Boot(s)
  PROVE  ExportOK'
<1> USE StartsAssumption DEF StartsAssumption
<1>1. /\ E!ExportTypeOK
      /\ \A z \in Servers : live[z] = {d \in Exports : Handling(handler[d], z)}
      /\ \A d \in Exports : RequestOK(handler[d], child[d], file[d], clock)
      /\ \A z \in Servers, d \in Exports :
           server[z] = "stopping" /\ d \in live[z] => child[d] # "running"
  BY ExportParts
<1>2. /\ handler \in [Exports -> {E!Unmade} \cup Over \cup Rendering]
      /\ child \in [Exports -> {"none", "running", "ended"}]
      /\ file \in [Exports -> 0..MaxClock \cup {NoFile}]
      /\ clock \in 0..MaxClock
      /\ server \in [Servers -> {"up", "stopping", "down"}]
      /\ live \in [Servers -> SUBSET Exports]
      /\ \A z \in Servers : \A d1, d2 \in live[z] : d1 = d2
  BY <1>1 DEF E!ExportTypeOK, Over, Rendering
<1>3. SUFFICES
        /\ handler' \in [Exports -> {E!Unmade} \cup Over \cup Rendering]
        /\ child' \in [Exports -> {"none", "running", "ended"}]
        /\ file' \in [Exports -> 0..MaxClock \cup {NoFile}]
        /\ clock' = clock
        /\ server' \in [Servers -> {"up", "stopping", "down"}]
        /\ live' \in [Servers -> SUBSET Exports]
        /\ \A z \in Servers : \A d1, d2 \in live'[z] : d1 = d2
        /\ \A z \in Servers : live'[z] = {d \in Exports : Handling(handler'[d], z)}
        /\ \A d \in Exports : RequestOK(handler'[d], child'[d], file'[d], clock)
        /\ \A z \in Servers, d \in Exports :
             server'[z] = "stopping" /\ d \in live'[z] => child'[d] # "running"
  <2>1. ASSUME /\ handler' \in [Exports -> {E!Unmade} \cup Over \cup Rendering]
               /\ child' \in [Exports -> {"none", "running", "ended"}]
               /\ file' \in [Exports -> 0..MaxClock \cup {NoFile}]
               /\ clock' = clock
               /\ server' \in [Servers -> {"up", "stopping", "down"}]
               /\ live' \in [Servers -> SUBSET Exports]
               /\ \A z \in Servers : \A d1, d2 \in live'[z] : d1 = d2
        PROVE  E!ExportTypeOK'
    BY <1>2, <2>1 DEF E!ExportTypeOK, Over, Rendering, E!Unmade
  <2> QED BY <2>1, ExportParts
<1>a. CASE E!Stop(s)
  <2>1. /\ server' = [server EXCEPT ![s] = "stopping"]
        /\ child' = [d \in Exports |-> IF d \in live[s] /\ child[d] = "running"
                                        THEN "ended" ELSE child[d]]
        /\ handler' = handler /\ file' = file /\ clock' = clock /\ live' = live
    BY <1>a DEF E!Stop
  <2>2. /\ child' \in [Exports -> {"none", "running", "ended"}]
        /\ server' \in [Servers -> {"up", "stopping", "down"}]
    BY <1>2, <2>1
  <2>3. \A d \in Exports :
          /\ child'[d] = "running" => (child[d] = "running" /\ d \notin live[s])
          /\ child[d] = "none" => child'[d] = "none"
    BY <2>1
  <2>4. \A d \in Exports : RequestOK(handler'[d], child'[d], file'[d], clock)
    BY <1>1, <2>1, <2>3 DEF RequestOK
  <2>5. \A z \in Servers : z # s => server'[z] = server[z]
    BY <1>2, <2>1
  <2>6. \A z \in Servers, d \in Exports :
          server'[z] = "stopping" /\ d \in live'[z] => child'[d] # "running"
    BY <1>1, <2>1, <2>3, <2>5
  <2> QED BY <1>1, <1>2, <2>1, <2>2, <2>4, <2>6
<1> DEFINE Ended(h) == E!InHandler(h) /\ handler[h].server = s
<1>4. \A d \in Exports : Ended(d) <=> d \in live[s]
  BY <1>1 DEF E!InHandler, Handling
<1>5. ASSUME NEW last, last \in Over, live' = [live EXCEPT ![s] = {}],
             handler' = [d \in Exports |-> IF Ended(d) THEN last ELSE handler[d]]
      PROVE  /\ handler' \in [Exports -> {E!Unmade} \cup Over \cup Rendering]
             /\ live' \in [Servers -> SUBSET Exports]
             /\ \A z \in Servers : \A d1, d2 \in live'[z] : d1 = d2
             /\ \A z \in Servers : live'[z] = {d \in Exports : Handling(handler'[d], z)}
             /\ \A z \in Servers : z # s => live'[z] = live[z]
             /\ \A d \in Exports : handler'[d] = IF d \in live[s] THEN last ELSE handler[d]
  <2>1. \A d \in Exports : handler'[d] = IF d \in live[s] THEN last ELSE handler[d]
    BY <1>4, <1>5
  <2>2. handler' \in [Exports -> {E!Unmade} \cup Over \cup Rendering]
    BY <1>2, <1>5
  <2>3. live'[s] = {} /\ \A z \in Servers : z # s => live'[z] = live[z]
    BY <1>2, <1>5
  <2>4. live' \in [Servers -> SUBSET Exports] /\ \A z \in Servers : \A d1, d2 \in live'[z] : d1 = d2
    BY <1>2, <1>5
  <2>5. \A z \in Servers : ~Handling(last, z)
    BY <1>5 DEF Over, Handling
  <2>6. \A z \in Servers, d \in Exports : d \in live'[z] <=> Handling(handler'[d], z)
    <3> SUFFICES ASSUME NEW z \in Servers, NEW d \in Exports
                 PROVE  d \in live'[z] <=> Handling(handler'[d], z)
      OBVIOUS
    <3>1. CASE d \in live[s]
      <4>1. z # s => d \notin live[z]
        BY <3>1, <1>1 DEF Handling
      <4> QED BY <3>1, <4>1, <2>1, <2>3, <2>5
    <3>2. CASE d \notin live[s]
      BY <3>2, <1>1, <2>1, <2>3
    <3> QED BY <3>1, <3>2
  <2>7. \A z \in Servers : live'[z] \subseteq Exports
    BY <2>4
  <2> QED BY <2>1, <2>2, <2>3, <2>4, <2>6, <2>7
<1>b. CASE E!Stopped(s)
  <2> DEFINE last == [stage |-> "answered"]
  <2>1. /\ server[s] = "stopping" /\ server' = [server EXCEPT ![s] = "down"]
        /\ file' = [d \in Exports |-> IF d \in live[s] THEN NoFile ELSE file[d]]
        /\ child' = child /\ clock' = clock
        /\ live' = [live EXCEPT ![s] = {}]
        /\ handler' = [d \in Exports |-> IF Ended(d) THEN last ELSE handler[d]]
    BY <1>b DEF E!Stopped
  <2>2. last \in Over /\ last.stage = "answered"
    BY DEF Over
  <2> HIDE DEF last, Ended
  <2>3. /\ handler' \in [Exports -> {E!Unmade} \cup Over \cup Rendering]
        /\ live' \in [Servers -> SUBSET Exports]
        /\ \A z \in Servers : \A d1, d2 \in live'[z] : d1 = d2
        /\ \A z \in Servers : live'[z] = {d \in Exports : Handling(handler'[d], z)}
        /\ \A z \in Servers : z # s => live'[z] = live[z]
        /\ \A d \in Exports : handler'[d] = IF d \in live[s] THEN last ELSE handler[d]
    BY <1>5, <2>1, <2>2
  <2>4. /\ file' \in [Exports -> 0..MaxClock \cup {NoFile}]
        /\ server' \in [Servers -> {"up", "stopping", "down"}]
    BY <1>2, <2>1
  <2>5. \A d \in Exports : RequestOK(handler'[d], child'[d], file'[d], clock)
    <3> SUFFICES ASSUME NEW d \in Exports PROVE RequestOK(handler'[d], child'[d], file'[d], clock)
      OBVIOUS
    <3>1. CASE d \in live[s]
      <4>1. child[d] # "running" /\ file'[d] = NoFile /\ handler'[d].stage = "answered"
        BY <3>1, <1>1, <2>1, <2>2, <2>3
      <4> QED BY <4>1, <2>1 DEF RequestOK
    <3>2. CASE d \notin live[s]
      BY <3>2, <1>1, <2>1, <2>3
    <3> QED BY <3>1, <3>2
  <2>6. \A z \in Servers, d \in Exports :
          server'[z] = "stopping" /\ d \in live'[z] => child'[d] # "running"
    BY <1>1, <1>2, <2>1, <2>3
  <2> QED BY <1>2, <2>1, <2>3, <2>4, <2>5, <2>6
<1>c. CASE E!SigKill(s)
  <2> DEFINE last == [stage |-> "lost"]
  <2>1. /\ server' = [server EXCEPT ![s] = "down"]
        /\ file' = file /\ child' = child /\ clock' = clock
        /\ live' = [live EXCEPT ![s] = {}]
        /\ handler' = [d \in Exports |-> IF Ended(d) THEN last ELSE handler[d]]
    BY <1>c DEF E!SigKill
  <2>2. last \in Over /\ last.stage = "lost"
    BY DEF Over
  <2> HIDE DEF last, Ended
  <2>3. /\ handler' \in [Exports -> {E!Unmade} \cup Over \cup Rendering]
        /\ live' \in [Servers -> SUBSET Exports]
        /\ \A z \in Servers : \A d1, d2 \in live'[z] : d1 = d2
        /\ \A z \in Servers : live'[z] = {d \in Exports : Handling(handler'[d], z)}
        /\ \A z \in Servers : z # s => live'[z] = live[z]
        /\ \A d \in Exports : handler'[d] = IF d \in live[s] THEN last ELSE handler[d]
    BY <1>5, <2>1, <2>2
  <2>4. server' \in [Servers -> {"up", "stopping", "down"}]
    BY <1>2, <2>1
  <2>5. \A d \in Exports : RequestOK(handler'[d], child'[d], file'[d], clock)
    BY <1>1, <2>1, <2>2, <2>3 DEF RequestOK
  <2>6. \A z \in Servers, d \in Exports :
          server'[z] = "stopping" /\ d \in live'[z] => child'[d] # "running"
    BY <1>1, <1>2, <2>1, <2>3
  <2> QED BY <1>2, <2>1, <2>3, <2>4, <2>5, <2>6
<1>d. CASE E!Boot(s)
  <2>1. /\ server' = [server EXCEPT ![s] = "up"]
        /\ file' = [d \in Exports |-> IF E!Stale(d) THEN NoFile ELSE file[d]]
        /\ handler' = handler /\ child' = child /\ clock' = clock /\ live' = live
    BY <1>d DEF E!Boot
  <2>2. /\ file' \in [Exports -> 0..MaxClock \cup {NoFile}]
        /\ server' \in [Servers -> {"up", "stopping", "down"}]
    BY <1>2, <2>1
  <2>3. \A d \in Exports : RequestOK(handler'[d], child'[d], file'[d], clock)
    <3> SUFFICES ASSUME NEW d \in Exports PROVE RequestOK(handler'[d], child'[d], file'[d], clock)
      OBVIOUS
    <3>1. file'[d] \in {file[d], NoFile}
      BY <2>1
    <3>2. CASE handler[d].stage = "render"
      <4>1. /\ file[d] \in 0..MaxClock /\ handler[d].since \in 0..MaxClock
            /\ handler[d].since <= file[d] /\ clock - handler[d].since <= RenderTimeout
        BY <3>2, <1>1, <1>2, HandlerFields DEF RequestOK
      <4>2. ~E!Stale(d)
        BY <4>1, <1>2 DEF E!Stale, E!StaleAge
      <4>3. file'[d] = file[d]
        BY <4>2, <2>1
      <4> QED BY <4>3, <1>1, <2>1
    <3>3. CASE handler[d].stage # "render"
      BY <3>1, <3>3, <1>1, <2>1 DEF RequestOK
    <3> QED BY <3>2, <3>3
  <2>4. \A z \in Servers, d \in Exports :
          server'[z] = "stopping" /\ d \in live'[z] => child'[d] # "running"
    BY <1>1, <1>2, <2>1
  <2> QED BY <1>1, <1>2, <2>1, <2>2, <2>3, <2>4
<1> QED BY <1>a, <1>b, <1>c, <1>d

LEMMA ExportStep == ASSUME ExportOK, E!ExportNext PROVE ExportOK'
<1>1. CASE E!Tick
  <2> USE StartsAssumption DEF StartsAssumption
  <2>1. /\ E!ExportTypeOK
        /\ \A d \in Exports : RequestOK(handler[d], child[d], file[d], clock)
    BY ExportParts
  <2>2. /\ clock \in 0..MaxClock /\ clock < MaxClock /\ clock' = clock + 1
        /\ \A d \in Exports : handler[d].stage = "render" => clock - handler[d].since < RenderTimeout
        /\ server' = server /\ live' = live /\ handler' = handler /\ child' = child /\ file' = file
    BY <1>1, <2>1 DEF E!Tick, E!ExportTypeOK
  <2>3. \A d \in Exports : RequestOK(handler'[d], child'[d], file'[d], clock')
    <3> SUFFICES ASSUME NEW d \in Exports PROVE RequestOK(handler[d], child[d], file[d], clock + 1)
      BY <2>2
    <3>1. RequestOK(handler[d], child[d], file[d], clock)
      BY <2>1
    <3>2. handler[d].stage = "render" => /\ handler[d].since \in 0..MaxClock
                                         /\ clock - handler[d].since < RenderTimeout
      BY <2>1, <2>2, HandlerFields
    <3> QED BY <2>2, <3>1, <3>2 DEF RequestOK
  <2>4. E!ExportTypeOK'
    BY <2>1, <2>2 DEF E!ExportTypeOK
  <2> QED BY <2>2, <2>3, <2>4, ExportParts
<1> QED BY <1>1, RequestActs, ServerActs DEF E!ExportNext

LEMMA ExportStart == ASSUME E!ExportInit PROVE ExportOK
<1> USE StartsAssumption DEF StartsAssumption
<1>1. E!ExportTypeOK
  BY DEF E!ExportInit, E!ExportTypeOK, E!Unmade
<1> QED BY <1>1 DEF E!ExportInit, ExportOK, E!ExportInv, E!NothingLeftBehind, E!Unmade, E!InHandler

LEMMA ExportKept == ASSUME ExportOK, UNCHANGED exportVars PROVE ExportOK'
BY DEF exportVars, ExportOK, E!ExportTypeOK, E!ExportInv, E!NothingLeftBehind, E!InHandler

LEMMA ExportEnds == ASSUME ExportOK PROVE E!RenderKeepsItsFile /\ E!NothingLeftBehind
BY DEF ExportOK, E!ExportInv, E!RenderKeepsItsFile
-----------------------------------------------------------------------------
\* Boot.

BootOK == S!BootTypeOK /\ S!StampTellsCatalog /\ S!MigratesOnceWhenDue /\ S!BootInv

UpTo(script) == {r \in Releases : r <= script.release}
Boots == [stage : S!Stages, script : S!Scripts \cup {NoStamp}]
Catalogs == [columns : SUBSET Releases, indexes : BOOLEAN]
Told(named1, cat) == named1 # NoStamp => S!RunScript(cat, named1) = cat

\* What the invariants say of one process, the lock, the stamp and the catalog.
ProcessOK(p, b, held, named1, cat) ==
  /\ b.stage # "down" => b.script \in S!Scripts
  /\ b.stage \in {"recheck", "ddl", "commit", "unlock"} => held = p
  /\ b.stage \in {"unlock", "check", "serving"} => UpTo(b.script) \subseteq cat.columns
  /\ b.stage \in {"ddl", "commit"} => named1 # b.script

LEMMA BootParts ==
  /\ BootOK => /\ S!BootTypeOK /\ Told(stamp, catalog)
               /\ \A p \in Processes : ProcessOK(p, boot[p], lock, stamp, catalog)
  /\ /\ S!BootTypeOK' /\ Told(stamp', catalog')
     /\ \A p \in Processes : ProcessOK(p, boot'[p], lock', stamp', catalog')
     => BootOK'
<1>1. ASSUME BootOK
      PROVE  /\ S!BootTypeOK /\ Told(stamp, catalog)
             /\ \A p \in Processes : ProcessOK(p, boot[p], lock, stamp, catalog)
  BY <1>1 DEF BootOK, S!StampTellsCatalog, S!MigratesOnceWhenDue, S!BootInv, Told, ProcessOK, UpTo
<1>2. ASSUME S!BootTypeOK', Told(stamp', catalog'),
             \A p \in Processes : ProcessOK(p, boot'[p], lock', stamp', catalog')
      PROVE  BootOK'
  <2>1. S!StampTellsCatalog'
    BY <1>2 DEF S!StampTellsCatalog, Told, ProcessOK, UpTo, S!At
  <2>2. S!MigratesOnceWhenDue'
    <3> SUFFICES ASSUME NEW p \in Processes, boot'[p].stage \in {"ddl", "commit"}
                 PROVE  /\ stamp' # boot'[p].script
                        /\ \A q \in Processes \ {p} :
                             boot'[q].stage \notin {"recheck", "ddl", "commit", "unlock"}
      BY DEF S!MigratesOnceWhenDue
    <3>1. stamp' # boot'[p].script /\ lock' = p
      BY <1>2 DEF ProcessOK
    <3> QED BY <1>2, <3>1 DEF ProcessOK
  <2>3. S!BootInv'
    BY <1>2 DEF S!BootInv, ProcessOK, UpTo
  <2> QED BY <1>2, <2>1, <2>2, <2>3 DEF BootOK
<1> QED BY <1>1, <1>2

LEMMA ToldColumns ==
  ASSUME NEW script, NEW cat, script # NoStamp, Told(script, cat)
  PROVE  UpTo(script) \subseteq cat.columns
<1>1. S!RunScript(cat, script).columns = cat.columns \cup UpTo(script)
  BY DEF S!RunScript, UpTo
<1> QED BY <1>1 DEF Told

\* A step of one process, which holds the lock if it writes the stamp.
LEMMA ProcessStep ==
  ASSUME BootOK, NEW p \in Processes, NEW b \in Boots,
         boot' = [boot EXCEPT ![p] = b],
         ProcessOK(p, b, lock', stamp', catalog'),
         \/ lock' = lock
         \/ lock = p /\ lock' = NoProcess
         \/ lock = NoProcess /\ lock' = p,
         stamp' = stamp \/ lock = p,
         stamp' \in S!Scripts \cup {NoStamp}, catalog' \in Catalogs,
         catalog.columns \subseteq catalog'.columns, Told(stamp', catalog'),
         longTxn' = longTxn, auth' = auth
  PROVE  BootOK'
<1> USE StartsAssumption DEF StartsAssumption
<1>1. /\ S!BootTypeOK
      /\ \A q \in Processes : ProcessOK(q, boot[q], lock, stamp, catalog)
  BY BootParts
<1>2. boot \in [Processes -> Boots] /\ lock \in Processes \cup {NoProcess}
  BY <1>1 DEF S!BootTypeOK, Boots
<1>3. S!BootTypeOK'
  <2>1. boot' \in [Processes -> Boots] /\ lock' \in Processes \cup {NoProcess}
    BY <1>2
  <2> QED BY <1>1, <2>1 DEF S!BootTypeOK, Boots, Catalogs
<1>4. ASSUME NEW q \in Processes PROVE ProcessOK(q, boot'[q], lock', stamp', catalog')
  <2>1. CASE q = p
    BY <1>2, <2>1
  <2>2. CASE q # p
    <3>1. boot'[q] = boot[q] /\ q # NoProcess
      BY <1>2, <2>2
    <3>2. boot[q].stage \in {"recheck", "ddl", "commit", "unlock"} => (lock = q /\ lock' = q /\ stamp' = stamp)
      BY <1>1, <2>2, <3>1 DEF ProcessOK
    <3> QED BY <1>1, <3>1, <3>2 DEF ProcessOK
  <2> QED BY <2>1, <2>2
<1> QED BY <1>3, <1>4, BootParts

\* The steps of one process are of that kind.
LEMMA ProcessActs ==
  ASSUME BootOK, NEW p \in Processes,
         \/ \E script \in S!Scripts : S!Begin(p, script)
         \/ S!ReadStamp(p) \/ S!TakeLock(p) \/ S!Recheck(p) \/ S!Migrate(p) \/ S!CommitSchema(p)
         \/ S!TimesOut(p) \/ S!Unlock(p) \/ S!Check(p) \/ S!Die(p)
  PROVE  BootOK'
<1> USE StartsAssumption DEF StartsAssumption
<1>1. /\ S!BootTypeOK /\ Told(stamp, catalog)
      /\ ProcessOK(p, boot[p], lock, stamp, catalog)
  BY BootParts
<1>2. /\ boot \in [Processes -> Boots] /\ lock \in Processes \cup {NoProcess}
      /\ stamp \in S!Scripts \cup {NoStamp} /\ catalog \in Catalogs
  BY <1>1 DEF S!BootTypeOK, Boots, Catalogs
<1>3. /\ boot[p] \in Boots /\ boot[p].stage \in S!Stages
      /\ boot[p].script \in S!Scripts \cup {NoStamp}
  BY <1>2 DEF Boots
<1>4. S!Down \in Boots /\ S!Down.stage = "down"
  BY DEF S!Down, Boots, S!Stages
<1>5. \A held, named1, cat : ProcessOK(p, S!Down, held, named1, cat)
  BY <1>4 DEF ProcessOK
<1>6. ASSUME NEW stage \in S!Stages, S!Goto(p, stage)
      PROVE  \E b \in Boots : /\ boot' = [boot EXCEPT ![p] = b]
                               /\ b.stage = stage /\ b.script = boot[p].script
  <2> DEFINE b == [boot[p] EXCEPT !.stage = stage]
  <2>1. b \in Boots /\ b.stage = stage /\ b.script = boot[p].script
    BY <1>3 DEF Boots
  <2>2. boot' = [boot EXCEPT ![p] = b]
    BY <1>6 DEF S!Goto
  <2> QED BY <2>1, <2>2
<1>7. ASSUME lock' = IF lock = p THEN NoProcess ELSE lock,
             boot' = [boot EXCEPT ![p] = S!Down],
             stamp' = stamp, catalog' = catalog, longTxn' = longTxn, auth' = auth
      PROVE  BootOK'
  BY <1>1, <1>2, <1>4, <1>5, <1>7, ProcessStep
<1>8. ASSUME NEW stage \in S!Stages, S!Goto(p, stage), lock' = lock,
             stamp' = stamp, catalog' = catalog, longTxn' = longTxn, auth' = auth,
             ProcessOK(p, [stage |-> stage, script |-> boot[p].script], lock, stamp, catalog)
      PROVE  BootOK'
  <2>1. PICK b \in Boots : /\ boot' = [boot EXCEPT ![p] = b]
                           /\ b.stage = stage /\ b.script = boot[p].script
    BY <1>6, <1>8
  <2>2. ProcessOK(p, b, lock, stamp, catalog)
    BY <1>8, <2>1 DEF ProcessOK
  <2> QED BY <1>1, <1>2, <1>8, <2>1, <2>2, ProcessStep
<1>a. ASSUME NEW script \in S!Scripts, S!Begin(p, script)  PROVE BootOK'
  <2> DEFINE b == [stage |-> "read", script |-> script]
  <2>1. b \in Boots /\ \A held, named1, cat : ProcessOK(p, b, held, named1, cat)
    BY DEF Boots, S!Stages, ProcessOK
  <2>2. /\ boot' = [boot EXCEPT ![p] = b] /\ lock' = lock /\ stamp' = stamp
        /\ catalog' = catalog /\ longTxn' = longTxn /\ auth' = auth
    BY <1>a DEF S!Begin
  <2> HIDE DEF b
  <2> QED BY <1>1, <1>2, <2>1, <2>2, ProcessStep
<1>b. CASE S!ReadStamp(p) \/ S!Recheck(p) \/ S!Migrate(p)
  <2>1. /\ lock' = lock /\ stamp' = stamp /\ catalog' = catalog
        /\ longTxn' = longTxn /\ auth' = auth /\ boot[p].stage # "down"
    BY <1>b DEF S!ReadStamp, S!Recheck, S!Migrate, S!At
  <2>2. boot[p].script \in S!Scripts
    BY <1>1, <2>1 DEF ProcessOK
  <2>3. stamp = boot[p].script => UpTo(boot[p].script) \subseteq catalog.columns
    <3>1. \A x \in S!Scripts : x # NoStamp
      BY DEF S!Scripts
    <3> QED BY <1>1, <2>2, <3>1, ToldColumns
  <2>4. PICK stage \in S!Stages :
          S!Goto(p, stage) /\ ProcessOK(p, [stage |-> stage, script |-> boot[p].script], lock, stamp, catalog)
    <3>1. CASE S!ReadStamp(p)
      <4>1. CASE stamp = boot[p].script
        <5>1. S!Goto(p, "check") /\ "check" \in S!Stages
          BY <3>1, <4>1 DEF S!ReadStamp, S!Stages
        <5> QED BY <2>2, <2>3, <4>1, <5>1 DEF ProcessOK
      <4>2. CASE stamp # boot[p].script
        <5>1. S!Goto(p, "wait") /\ "wait" \in S!Stages
          BY <3>1, <4>2 DEF S!ReadStamp, S!Stages
        <5> QED BY <2>2, <5>1 DEF ProcessOK
      <4> QED BY <4>1, <4>2
    <3>2. CASE S!Recheck(p)
      <4>1. lock = p
        BY <1>1, <3>2 DEF S!Recheck, S!At, ProcessOK
      <4>2. CASE stamp = boot[p].script
        <5>1. S!Goto(p, "unlock") /\ "unlock" \in S!Stages
          BY <3>2, <4>2 DEF S!Recheck, S!Stages
        <5> QED BY <2>2, <2>3, <4>1, <4>2, <5>1 DEF ProcessOK
      <4>3. CASE stamp # boot[p].script
        <5>1. S!Goto(p, "ddl") /\ "ddl" \in S!Stages
          BY <3>2, <4>3 DEF S!Recheck, S!Stages
        <5> QED BY <2>2, <4>1, <4>3, <5>1 DEF ProcessOK
      <4> QED BY <4>2, <4>3
    <3>3. CASE S!Migrate(p)
      <4>1. lock = p /\ stamp # boot[p].script
        BY <1>1, <3>3 DEF S!Migrate, S!At, ProcessOK
      <4>2. S!Goto(p, "commit") /\ "commit" \in S!Stages
        BY <3>3 DEF S!Migrate, S!Stages
      <4> QED BY <2>2, <4>1, <4>2 DEF ProcessOK
    <3> QED BY <1>b, <3>1, <3>2, <3>3
  <2> QED BY <1>8, <2>1, <2>4
<1>c. CASE S!TakeLock(p)
  <2>1. /\ boot[p].stage = "wait" /\ lock = NoProcess /\ lock' = p /\ S!Goto(p, "recheck")
        /\ stamp' = stamp /\ catalog' = catalog /\ longTxn' = longTxn /\ auth' = auth
    BY <1>c DEF S!TakeLock, S!At
  <2>2. PICK b \in Boots : /\ boot' = [boot EXCEPT ![p] = b]
                           /\ b.stage = "recheck" /\ b.script = boot[p].script
    BY <1>6, <2>1 DEF S!Stages
  <2>3. ProcessOK(p, b, lock', stamp', catalog')
    BY <1>1, <2>1, <2>2 DEF ProcessOK
  <2> QED BY <1>1, <1>2, <2>1, <2>2, <2>3, ProcessStep
<1>d. CASE S!CommitSchema(p)
  <2>1. /\ boot[p].stage = "commit" /\ stamp' = boot[p].script
        /\ catalog' = S!RunScript(catalog, boot[p].script)
        /\ S!Goto(p, "unlock") /\ lock' = lock /\ longTxn' = longTxn /\ auth' = auth
    BY <1>d DEF S!CommitSchema, S!At
  <2>2. boot[p].script \in S!Scripts /\ lock = p
    BY <1>1, <2>1 DEF ProcessOK
  <2>3. PICK b \in Boots : /\ boot' = [boot EXCEPT ![p] = b]
                           /\ b.stage = "unlock" /\ b.script = boot[p].script
    BY <1>6, <2>1 DEF S!Stages
  <2>4. /\ catalog'.columns = catalog.columns \cup UpTo(boot[p].script)
        /\ catalog'.indexes = boot[p].script.collect
        /\ catalog' \in Catalogs
    BY <1>2, <2>1, <2>2 DEF S!RunScript, UpTo, Catalogs, S!Scripts
  <2>5. Told(stamp', catalog')
    BY <2>1, <2>4 DEF Told, S!RunScript, UpTo, Catalogs
  <2>6. ProcessOK(p, b, lock', stamp', catalog')
    BY <2>1, <2>2, <2>3, <2>4 DEF ProcessOK
  <2> QED BY <1>2, <2>1, <2>2, <2>3, <2>4, <2>5, <2>6, ProcessStep
<1>e. CASE S!Unlock(p)
  <2>1. /\ boot[p].stage = "unlock" /\ lock' = NoProcess /\ S!Goto(p, "check")
        /\ stamp' = stamp /\ catalog' = catalog /\ longTxn' = longTxn /\ auth' = auth
    BY <1>e DEF S!Unlock, S!At
  <2>2. PICK b \in Boots : /\ boot' = [boot EXCEPT ![p] = b]
                           /\ b.stage = "check" /\ b.script = boot[p].script
    BY <1>6, <2>1 DEF S!Stages
  <2>3. ProcessOK(p, b, lock', stamp', catalog') /\ lock = p
    BY <1>1, <2>1, <2>2 DEF ProcessOK
  <2> QED BY <1>1, <1>2, <2>1, <2>2, <2>3, ProcessStep
<1>f. CASE S!Check(p)
  <2>1. /\ boot[p].stage = "check" /\ lock' = lock
        /\ stamp' = stamp /\ catalog' = catalog /\ longTxn' = longTxn /\ auth' = auth
        /\ boot' = [boot EXCEPT ![p] =
             IF S!Diagnosis(auth) = "none" THEN [@ EXCEPT !.stage = "serving"] ELSE S!Down]
    BY <1>f DEF S!Check, S!At
  <2> DEFINE b == IF S!Diagnosis(auth) = "none" THEN [boot[p] EXCEPT !.stage = "serving"] ELSE S!Down
  <2>2. boot' = [boot EXCEPT ![p] = b]
    BY <2>1
  <2>3. [boot[p] EXCEPT !.stage = "serving"] \in Boots
    BY <1>3 DEF Boots, S!Stages
  <2>4. b \in Boots
    BY <1>4, <2>3
  <2>5. ProcessOK(p, [boot[p] EXCEPT !.stage = "serving"], lock, stamp, catalog)
    BY <1>1, <1>3, <2>1 DEF ProcessOK, Boots
  <2>6. ProcessOK(p, b, lock', stamp', catalog')
    BY <1>5, <2>1, <2>5
  <2> HIDE DEF b
  <2> QED BY <1>1, <1>2, <2>1, <2>2, <2>4, <2>6, ProcessStep
<1>g. CASE S!TimesOut(p) \/ S!Die(p)
  BY <1>7, <1>g DEF S!TimesOut, S!Die
<1> QED BY <1>a, <1>b, <1>c, <1>d, <1>e, <1>f, <1>g

\* What the operator does makes a wrong auth database less wrong.
LEMMA RepairHelps ==
  ASSUME NEW a \in S!AuthShapes
  PROVE  /\ S!Repaired(a) \in S!AuthShapes
         /\ S!Diagnosis(a) # "none" => S!Wrong(S!Repaired(a)) < S!Wrong(a)
<1>1. /\ a = [table |-> a.table, grant |-> a.grant, column |-> a.column]
      /\ a.table \in BOOLEAN /\ a.grant \in BOOLEAN /\ a.column \in {"absent", "unusable", "usable"}
  BY DEF S!AuthShapes
<1>2. \A x \in S!AuthShapes : S!Wrong(x) \in Nat
  BY DEF S!Wrong, S!AuthShapes
<1>3. CASE S!Diagnosis(a) = "table"
  <2>1. ~a.table /\ S!Repaired(a) = [a EXCEPT !.table = TRUE]
    BY <1>1, <1>3 DEF S!Diagnosis, S!Repaired
  <2>2. /\ S!Repaired(a) \in S!AuthShapes /\ S!Repaired(a).table = TRUE
        /\ S!Repaired(a).grant = a.grant /\ S!Repaired(a).column = a.column
    BY <1>1, <2>1 DEF S!AuthShapes
  <2>3. S!Wrong(S!Repaired(a)) = S!Wrong(a) - 1
    BY <1>1, <2>1, <2>2 DEF S!Wrong
  <2>4. S!Wrong(a) \in Nat
    BY <1>2
  <2> QED BY <2>2, <2>3, <2>4
<1>4. CASE S!Diagnosis(a) = "grant"
  <2>1. ~a.grant /\ S!Repaired(a) = [a EXCEPT !.grant = TRUE]
    BY <1>1, <1>4 DEF S!Diagnosis, S!Repaired
  <2>2. /\ S!Repaired(a) \in S!AuthShapes /\ S!Repaired(a).grant = TRUE
        /\ S!Repaired(a).table = a.table /\ S!Repaired(a).column = a.column
    BY <1>1, <2>1 DEF S!AuthShapes
  <2>3. S!Wrong(S!Repaired(a)) = S!Wrong(a) - 1
    BY <1>1, <2>1, <2>2 DEF S!Wrong
  <2>4. S!Wrong(a) \in Nat
    BY <1>2
  <2> QED BY <2>2, <2>3, <2>4
<1>5. CASE S!Diagnosis(a) \in {"type", "column"}
  <2>1. a.column # "usable" /\ S!Repaired(a) = [a EXCEPT !.column = "usable"]
    BY <1>1, <1>5 DEF S!Diagnosis, S!Repaired
  <2>2. /\ S!Repaired(a) \in S!AuthShapes /\ S!Repaired(a).column = "usable"
        /\ S!Repaired(a).table = a.table /\ S!Repaired(a).grant = a.grant
    BY <1>1, <2>1 DEF S!AuthShapes
  <2>3. S!Wrong(S!Repaired(a)) = S!Wrong(a) - 1
    BY <1>1, <2>1, <2>2 DEF S!Wrong
  <2>4. S!Wrong(a) \in Nat
    BY <1>2
  <2> QED BY <2>2, <2>3, <2>4
<1>6. CASE S!Diagnosis(a) = "none"
  <2>1. S!Repaired(a) = a
    BY <1>6 DEF S!Repaired
  <2> QED BY <1>6, <2>1
<1>7. S!Diagnosis(a) \in {"none", "type", "table", "grant", "column"}
  BY <1>1 DEF S!Diagnosis
<1> QED BY <1>3, <1>4, <1>5, <1>6, <1>7

LEMMA BootStep == ASSUME BootOK, S!BootNext PROVE BootOK'
<1>1. CASE S!Operate
  <2> USE StartsAssumption DEF StartsAssumption
  <2>1. /\ S!BootTypeOK /\ Told(stamp, catalog)
        /\ \A p \in Processes : ProcessOK(p, boot[p], lock, stamp, catalog)
    BY BootParts
  <2>2. catalog' = catalog /\ lock' = lock /\ boot' = boot /\ (stamp' = stamp \/ stamp' = NoStamp)
    BY <1>1 DEF S!Operate
  <2>3. S!BootTypeOK'
    <3>1. auth' \in S!AuthShapes /\ longTxn' \in BOOLEAN
      BY <1>1, <2>1, RepairHelps DEF S!Operate, S!BootTypeOK
    <3> QED BY <2>1, <2>2, <3>1 DEF S!BootTypeOK
  <2>4. \A p \in Processes : ProcessOK(p, boot'[p], lock', stamp', catalog')
    <3>1. NoStamp \notin S!Scripts
      BY DEF S!Scripts
    <3> QED BY <2>1, <2>2, <3>1 DEF ProcessOK
  <2>5. Told(stamp', catalog')
    BY <2>1, <2>2 DEF Told
  <2> QED BY <2>3, <2>4, <2>5, BootParts
<1> QED BY <1>1, ProcessActs DEF S!BootNext

LEMMA BootStart == ASSUME S!BootInit PROVE BootOK
<1>1. S!BootTypeOK
  BY DEF S!BootInit, S!BootTypeOK, S!Down, S!Stages
<1> QED BY <1>1 DEF S!BootInit, BootOK, S!StampTellsCatalog, S!MigratesOnceWhenDue, S!BootInv, S!Down, S!At

LEMMA BootKept == ASSUME BootOK, UNCHANGED bootVars PROVE BootOK'
BY DEF bootVars, BootOK, S!BootTypeOK, S!StampTellsCatalog, S!MigratesOnceWhenDue, S!BootInv, S!At

LEMMA BootEnds ==
  ASSUME BootOK PROVE S!StampTellsCatalog /\ S!MigratesOnceWhenDue /\ S!RefusalsLeadOut
BY RepairHelps DEF BootOK, S!BootTypeOK, S!RefusalsLeadOut
-----------------------------------------------------------------------------
\* Vacuum.

VacuumOK == U!VacuumTypeOK /\ U!VacuumInv /\ U!TailNamesItsOwn /\ U!InterleaveIsBounded

Tables == {"records", "projects"} \cup UNION {PhaseTables[p] : p \in U!Phases}
Counts == [files : 0..MaxFiles + 1, rows : [U!Phases -> 0..MaxRows], warning : BOOLEAN]
Walks == [stage : {"ended", "files", "phases", "tail", "finish"}, reparsed : 0..MaxFiles,
          done : SUBSET U!Phases, wrote : SUBSET Tables]

LEMMA Products == \A x, y \in Nat : x * y \in Nat /\ 0 * y = 0 /\ (x + 1) * y = x * y + y
OBVIOUS

\* What the counters of some rows add to the tables they name.
LEMMA TouchedAre ==
  ASSUME NEW c \in Counts
  PROVE  U!Touched(c) = (IF c.files > 0 THEN {"records", "projects"} ELSE {})
                          \cup UNION {PhaseTables[p] : p \in {q \in U!Phases : c.rows[q] > 0}}
BY DEF U!Touched

LEMMA VacuumFields ==
  ASSUME VacuumOK
  PROVE  /\ counters \in Counts /\ walk \in Walks
         /\ counters.files \in 0..MaxFiles + 1 /\ counters.rows \in [U!Phases -> 0..MaxRows]
         /\ counters.warning \in BOOLEAN
         /\ walk.stage \in {"ended", "files", "phases", "tail", "finish"}
         /\ walk.reparsed \in 0..MaxFiles /\ walk.done \subseteq U!Phases /\ walk.wrote \subseteq Tables
         /\ batch.enabled \in BOOLEAN /\ batch.firedAt \in 0..MaxFiles
         /\ batch \in [enabled : BOOLEAN, firedAt : 0..MaxFiles]
         /\ failing \in BOOLEAN /\ tries \in Nat /\ named \subseteq Tables
<1>1. /\ counters \in Counts /\ walk \in Walks
      /\ batch \in [enabled : BOOLEAN, firedAt : 0..MaxFiles]
      /\ failing \in BOOLEAN /\ tries \in Nat /\ named \subseteq Tables
  BY DEF VacuumOK, U!VacuumTypeOK, Counts, Walks, Tables
<1>2. /\ counters.files \in 0..MaxFiles + 1 /\ counters.rows \in [U!Phases -> 0..MaxRows]
      /\ counters.warning \in BOOLEAN
  BY <1>1 DEF Counts
<1>3. /\ walk.stage \in {"ended", "files", "phases", "tail", "finish"}
      /\ walk.reparsed \in 0..MaxFiles /\ walk.done \subseteq U!Phases /\ walk.wrote \subseteq Tables
  BY <1>1 DEF Walks
<1> QED BY <1>1, <1>2, <1>3

\* What is to be shown of a step.
LEMMA VacuumGoal ==
  ASSUME counters' \in Counts, walk' \in Walks,
         batch' \in [enabled : BOOLEAN, firedAt : 0..MaxFiles],
         failing' \in BOOLEAN, tries' \in Nat, named' \subseteq Tables,
         walk'.stage = "files" =>
           /\ counters'.files = 0 /\ counters'.rows = U!NoRows /\ walk'.done = {}
           /\ walk'.wrote = IF walk'.reparsed > 0 THEN {"records", "projects"} ELSE {},
         walk'.stage \in {"phases", "tail"} => walk'.wrote = U!Touched(counters'),
         walk'.stage = "phases" => \A p \in U!Phases \ walk'.done : counters'.rows[p] = 0,
         tries' * BatchFiles <= batch'.firedAt, batch'.firedAt <= walk'.reparsed,
         walk'.stage = "finish" => named' \in {{}, walk'.wrote},
         walk'.stage # "ended" => (counters'.warning <=> failing')
  PROVE  VacuumOK'
<1> USE StartsAssumption DEF StartsAssumption
<1>1. U!VacuumTypeOK'
  BY DEF U!VacuumTypeOK, Counts, Walks, Tables
<1>2. U!VacuumInv'
  BY DEF U!VacuumInv, U!Touched
<1>3. tries' * BatchFiles <= walk'.reparsed
  <2>1. batch'.firedAt \in Nat /\ walk'.reparsed \in Nat
    BY DEF Walks
  <2>2. tries' * BatchFiles \in Nat
    BY Products
  <2> QED BY <2>1, <2>2
<1>4. U!TailNamesItsOwn'
  BY DEF U!TailNamesItsOwn
<1>5. U!InterleaveIsBounded'
  BY <1>3 DEF U!InterleaveIsBounded
<1> QED BY <1>1, <1>2, <1>4, <1>5 DEF VacuumOK

LEMMA VacuumStep == ASSUME VacuumOK, U!VacuumNext PROVE VacuumOK'
<1> USE StartsAssumption DEF StartsAssumption
<1>1. /\ counters \in Counts /\ walk \in Walks
      /\ counters.files \in 0..MaxFiles + 1 /\ counters.rows \in [U!Phases -> 0..MaxRows]
      /\ counters.warning \in BOOLEAN
      /\ walk.stage \in {"ended", "files", "phases", "tail", "finish"}
      /\ walk.reparsed \in 0..MaxFiles /\ walk.done \subseteq U!Phases /\ walk.wrote \subseteq Tables
      /\ batch.enabled \in BOOLEAN /\ batch.firedAt \in 0..MaxFiles
      /\ batch \in [enabled : BOOLEAN, firedAt : 0..MaxFiles]
      /\ failing \in BOOLEAN /\ tries \in Nat /\ named \subseteq Tables
  BY VacuumFields
<1>2. /\ walk.stage = "files" =>
           /\ counters.files = 0 /\ counters.rows = U!NoRows /\ walk.done = {}
           /\ walk.wrote = IF walk.reparsed > 0 THEN {"records", "projects"} ELSE {}
      /\ walk.stage \in {"phases", "tail"} => walk.wrote = U!Touched(counters)
      /\ walk.stage = "phases" => \A p \in U!Phases \ walk.done : counters.rows[p] = 0
      /\ tries * BatchFiles <= batch.firedAt /\ batch.firedAt <= walk.reparsed
      /\ walk.stage # "ended" => (counters.warning <=> failing)
      /\ walk.stage = "finish" => named \in {{}, walk.wrote}
  BY DEF VacuumOK, U!VacuumInv, U!TailNamesItsOwn, U!InterleaveIsBounded
<1>3. U!NoRows \in [U!Phases -> 0..MaxRows] /\ \A p \in U!Phases : U!NoRows[p] = 0
  BY DEF U!NoRows
<1>a. ASSUME NEW full \in BOOLEAN, U!BeginVacuums(full)  PROVE VacuumOK'
  <2>1. /\ counters' = [files |-> 0, rows |-> U!NoRows, warning |-> FALSE]
        /\ batch' = [enabled |-> full, firedAt |-> 0]
        /\ walk' = [stage |-> "files", reparsed |-> 0, done |-> {}, wrote |-> {}]
        /\ named' = {} /\ failing' = FALSE /\ tries' = 0
    BY <1>a DEF U!BeginVacuums
  <2>2. counters' \in Counts /\ walk' \in Walks /\ batch' \in [enabled : BOOLEAN, firedAt : 0..MaxFiles]
    BY <1>3, <2>1 DEF Counts, Walks
  <2>3. /\ counters'.files = 0 /\ counters'.rows = U!NoRows /\ counters'.warning = FALSE
        /\ walk'.stage = "files" /\ walk'.done = {} /\ walk'.wrote = {} /\ walk'.reparsed = 0
        /\ batch'.firedAt = 0
    BY <2>1
  <2>4. tries' * BatchFiles = 0
    BY <2>1, Products
  <2>5. named' \subseteq Tables /\ failing' \in BOOLEAN /\ tries' \in Nat /\ ~failing'
    BY <2>1
  <2>6. (tries' * BatchFiles <= batch'.firedAt) /\ (batch'.firedAt <= walk'.reparsed)
    BY <2>3, <2>4
  <2>7. walk'.wrote = IF walk'.reparsed > 0 THEN {"records", "projects"} ELSE {}
    BY <2>3
  <2>8. walk'.stage \notin {"phases", "tail", "finish"}
    BY <2>3
  <2> QED BY <2>2, <2>3, <2>5, <2>6, <2>7, <2>8, VacuumGoal
<1>b. ASSUME NEW n \in 0..2, NEW outcome \in U!Outcomes, U!PersistBatch(n, outcome)  PROVE VacuumOK'
  <2> DEFINE sum == walk.reparsed + n
             fires == U!Due(batch, sum)
  <2>1. /\ walk.stage = "files" /\ sum <= MaxFiles
        /\ walk' = [walk EXCEPT !.reparsed = @ + n,
                                !.wrote = @ \cup IF n > 0 THEN {"records", "projects"} ELSE {}]
        /\ batch' = IF fires THEN U!Fired(batch, sum, outcome) ELSE batch
        /\ counters' = IF fires THEN U!Book(counters, outcome) ELSE counters
        /\ failing' = (failing \/ (fires /\ outcome = "failed"))
        /\ tries' = IF fires THEN tries + 1 ELSE tries
        /\ named' = named
    BY <1>b DEF U!PersistBatch
  <2>2. /\ walk'.stage = "files" /\ walk'.reparsed = sum /\ walk'.done = walk.done
        /\ walk'.wrote = walk.wrote \cup IF n > 0 THEN {"records", "projects"} ELSE {}
        /\ walk' \in Walks
    <3>1. (IF n > 0 THEN {"records", "projects"} ELSE {}) \subseteq Tables
      BY DEF Tables
    <3>2. sum \in 0..MaxFiles
      BY <1>1, <2>1
    <3> QED BY <1>1, <2>1, <3>1, <3>2 DEF Walks
  <2>3. /\ counters' \in Counts /\ counters'.files = counters.files /\ counters'.rows = counters.rows
        /\ counters'.warning = (counters.warning \/ (fires /\ outcome = "failed"))
    <3>1. U!Book(counters, outcome) = [counters EXCEPT !.warning = @ \/ outcome = "failed"]
      BY DEF U!Book
    <3>2. /\ U!Book(counters, outcome) \in Counts
          /\ U!Book(counters, outcome).files = counters.files
          /\ U!Book(counters, outcome).rows = counters.rows
          /\ U!Book(counters, outcome).warning = (counters.warning \/ outcome = "failed")
      BY <1>1, <3>1, Zenon DEF Counts
    <3> HIDE DEF fires
    <3> QED BY <1>1, <2>1, <3>2
  <2>4. /\ batch' \in [enabled : BOOLEAN, firedAt : 0..MaxFiles] /\ tries' \in Nat
        /\ tries' * BatchFiles <= batch'.firedAt /\ batch'.firedAt <= walk'.reparsed
    <3>1. CASE fires
      <4>1. batch'.firedAt = sum /\ batch' \in [enabled : BOOLEAN, firedAt : 0..MaxFiles]
        BY <1>1, <2>1, <3>1 DEF U!Fired
      <4>2. sum - batch.firedAt >= BatchFiles
        BY <3>1 DEF U!Due
      <4>3. (tries + 1) * BatchFiles = tries * BatchFiles + BatchFiles /\ tries * BatchFiles \in Nat
        BY <1>1, Products
      <4> QED BY <1>1, <1>2, <2>1, <2>2, <3>1, <4>1, <4>2, <4>3
    <3>2. CASE ~fires
      BY <1>1, <1>2, <2>1, <2>2, <3>2
    <3> QED BY <3>1, <3>2
  <2>5. failing' \in BOOLEAN /\ (counters'.warning <=> failing')
    BY <1>1, <1>2, <2>1, <2>3
  <2>6. walk'.wrote = IF walk'.reparsed > 0 THEN {"records", "projects"} ELSE {}
    BY <1>1, <1>2, <2>1, <2>2
  <2> QED BY <1>1, <1>2, <2>1, <2>2, <2>3, <2>4, <2>5, <2>6, VacuumGoal
<1>c. ASSUME NEW others \in 0..1, U!NoteFiles(others)  PROVE VacuumOK'
  <2>1. /\ walk.stage = "files"
        /\ counters' = [counters EXCEPT !.files = @ + walk.reparsed + others]
        /\ walk' = [walk EXCEPT !.stage = "phases",
                                !.wrote = @ \cup IF others > 0 THEN {"records", "projects"} ELSE {}]
        /\ batch' = batch /\ named' = named /\ failing' = failing /\ tries' = tries
    BY <1>c DEF U!NoteFiles
  <2>2. /\ walk'.stage = "phases" /\ walk'.reparsed = walk.reparsed /\ walk'.done = walk.done
        /\ walk'.wrote = walk.wrote \cup IF others > 0 THEN {"records", "projects"} ELSE {}
        /\ walk' \in Walks
    BY <1>1, <2>1 DEF Walks, Tables
  <2>3. /\ counters' \in Counts /\ counters'.files = walk.reparsed + others
        /\ counters'.rows = U!NoRows /\ counters'.warning = counters.warning
    BY <1>1, <1>2, <2>1 DEF Counts
  <2>4. walk'.wrote = U!Touched(counters')
    <3>1. UNION {PhaseTables[p] : p \in {q \in U!Phases : counters'.rows[q] > 0}} = {}
      <4>1. {q \in U!Phases : counters'.rows[q] > 0} = {}
        BY <1>3, <2>3
      <4> QED BY <4>1
    <3>2. U!Touched(counters') = IF counters'.files > 0 THEN {"records", "projects"} ELSE {}
      BY <2>3, <3>1, TouchedAre
    <3> QED BY <1>1, <1>2, <2>1, <2>2, <2>3, <3>2
  <2> QED BY <1>1, <1>2, <1>3, <2>1, <2>2, <2>3, <2>4, VacuumGoal
<1>d. ASSUME NEW p \in U!Phases, NEW some \in 0..MaxRows, U!NotePhase(p, some)  PROVE VacuumOK'
  <2> DEFINE wrote == IF some > 0 THEN PhaseTables[p] ELSE {}
             next == IF walk.done \cup {p} = U!Phases THEN "tail" ELSE "phases"
  <2>1. /\ walk.stage = "phases" /\ p \notin walk.done
        /\ counters' = [counters EXCEPT !.rows[p] = @ + some]
        /\ walk' = [walk EXCEPT !.done = @ \cup {p}, !.wrote = @ \cup wrote, !.stage = next]
        /\ batch' = batch /\ named' = named /\ failing' = failing /\ tries' = tries
    BY <1>d DEF U!NotePhase
  <2>2. next \in {"tail", "phases"} /\ wrote \subseteq Tables
    BY DEF Tables
  <2>w. wrote = IF some > 0 THEN PhaseTables[p] ELSE {}
    OBVIOUS
  <2> HIDE DEF next, wrote
  <2>3. /\ walk'.stage = next /\ walk'.reparsed = walk.reparsed
        /\ walk'.done = walk.done \cup {p} /\ walk'.wrote = walk.wrote \cup wrote
        /\ walk' \in Walks
    BY <1>1, <2>1, <2>2 DEF Walks
  <2>4. /\ counters'.rows = [counters.rows EXCEPT ![p] = @ + some]
        /\ counters'.files = counters.files /\ counters'.warning = counters.warning
    BY <1>1, <2>1 DEF Counts
  <2>5. /\ counters.rows[p] = 0 /\ counters'.rows[p] = some
        /\ \A q \in U!Phases : q # p => counters'.rows[q] = counters.rows[q]
    BY <1>1, <1>2, <2>1, <2>4
  <2>6. counters' \in Counts
    <3>1. counters'.rows \in [U!Phases -> 0..MaxRows]
      BY <1>1, <2>4, <2>5
    <3>2. counters' = [files |-> counters.files, rows |-> counters'.rows, warning |-> counters.warning]
      BY <1>1, <2>1, <2>4 DEF Counts
    <3> QED BY <1>1, <3>1, <3>2 DEF Counts
  <2>7. walk'.wrote = U!Touched(counters')
    <3> DEFINE before == UNION {PhaseTables[q] : q \in {q2 \in U!Phases : counters.rows[q2] > 0}}
               after == UNION {PhaseTables[q] : q \in {q2 \in U!Phases : counters'.rows[q2] > 0}}
    <3>1. after = before \cup wrote
      <4>1. CASE some > 0
        <5>1. {q2 \in U!Phases : counters'.rows[q2] > 0} = {q2 \in U!Phases : counters.rows[q2] > 0} \cup {p}
          BY <2>5, <4>1
        <5> QED BY <2>w, <4>1, <5>1
      <4>2. CASE ~(some > 0)
        <5>1. {q2 \in U!Phases : counters'.rows[q2] > 0} = {q2 \in U!Phases : counters.rows[q2] > 0}
          BY <2>5, <4>2
        <5> QED BY <2>w, <4>2, <5>1
      <4> QED BY <4>1, <4>2
    <3>2. /\ U!Touched(counters) = (IF counters.files > 0 THEN {"records", "projects"} ELSE {}) \cup before
          /\ U!Touched(counters') = (IF counters'.files > 0 THEN {"records", "projects"} ELSE {}) \cup after
      BY <1>1, <2>6, TouchedAre
    <3> HIDE DEF before, after
    <3> QED BY <1>2, <2>1, <2>3, <2>4, <3>1, <3>2
  <2>8. \A q \in U!Phases \ walk'.done : counters'.rows[q] = 0
    BY <1>2, <2>1, <2>3, <2>5
  <2> QED BY <1>1, <1>2, <2>1, <2>2, <2>3, <2>4, <2>6, <2>7, <2>8, VacuumGoal
<1>e. ASSUME NEW outcome \in U!Outcomes, U!TailVacuum(outcome)  PROVE VacuumOK'
  <2>1. /\ walk.stage = "tail"
        /\ counters' = [U!Book(counters, outcome) EXCEPT !.files = 0, !.rows = U!NoRows]
        /\ named' \in {{}, U!Touched(counters)}
        /\ failing' = (failing \/ outcome = "failed")
        /\ walk' = [walk EXCEPT !.stage = "finish"]
        /\ batch' = batch /\ tries' = tries
    BY <1>e DEF U!TailVacuum
  <2>2. /\ walk'.stage = "finish" /\ walk'.reparsed = walk.reparsed
        /\ walk'.wrote = walk.wrote /\ walk' \in Walks
    BY <1>1, <2>1 DEF Walks
  <2>3. counters' = [files |-> 0, rows |-> U!NoRows, warning |-> counters.warning \/ outcome = "failed"]
    <3>1. counters = [files |-> counters.files, rows |-> counters.rows, warning |-> counters.warning]
      BY <1>1 DEF Counts
    <3>2. U!Book(counters, outcome) = [counters EXCEPT !.warning = counters.warning \/ outcome = "failed"]
      BY DEF U!Book
    <3> QED BY <2>1, <3>1, <3>2
  <2>4. counters' \in Counts
    <3>1. (counters.warning \/ outcome = "failed") \in BOOLEAN
      OBVIOUS
    <3> QED BY <1>3, <2>3, <3>1 DEF Counts
  <2>5. counters'.warning <=> failing'
    <3>1. counters'.warning = (counters.warning \/ outcome = "failed")
      BY <2>3
    <3> QED BY <1>2, <2>1, <3>1
  <2>6. named' \subseteq Tables /\ named' \in {{}, walk'.wrote}
    BY <1>1, <1>2, <2>1, <2>2
  <2>7. failing' \in BOOLEAN
    BY <2>1
  <2> QED BY <1>1, <1>2, <2>1, <2>2, <2>4, <2>5, <2>6, <2>7, VacuumGoal
<1>f. CASE U!EndVacuums
  <2>1. /\ walk' = [walk EXCEPT !.stage = "ended"]
        /\ counters' = [counters EXCEPT !.warning = FALSE]
        /\ batch' = batch /\ named' = named /\ failing' = failing /\ tries' = tries
    BY <1>f DEF U!EndVacuums
  <2>2. walk'.stage = "ended" /\ walk'.reparsed = walk.reparsed /\ walk' \in Walks
    BY <1>1, <2>1 DEF Walks
  <2>3. counters' \in Counts
    BY <1>1, <2>1 DEF Counts
  <2> QED BY <1>1, <1>2, <2>1, <2>2, <2>3, VacuumGoal
<1> QED BY <1>a, <1>b, <1>c, <1>d, <1>e, <1>f DEF U!VacuumNext

LEMMA VacuumStart == ASSUME U!VacuumInit PROVE VacuumOK
<1> USE StartsAssumption DEF StartsAssumption
<1>1. U!NoRows \in [U!Phases -> 0..MaxRows]
  BY DEF U!NoRows
<1>2. U!VacuumTypeOK
  <2>1. counters \in [files : 0..MaxFiles + 1, rows : [U!Phases -> 0..MaxRows], warning : BOOLEAN]
    BY <1>1 DEF U!VacuumInit
  <2>2. batch \in [enabled : BOOLEAN, firedAt : 0..MaxFiles]
    BY DEF U!VacuumInit
  <2>3. walk \in Walks
    BY DEF U!VacuumInit, Walks
  <2>4. named = {} /\ failing \in BOOLEAN /\ tries \in Nat
    BY DEF U!VacuumInit
  <2> QED BY <2>1, <2>2, <2>3, <2>4 DEF U!VacuumTypeOK, Walks, Tables
<1>3. tries * BatchFiles = 0
  BY Products DEF U!VacuumInit
<1> QED BY <1>2, <1>3 DEF U!VacuumInit, VacuumOK, U!VacuumInv, U!TailNamesItsOwn, U!InterleaveIsBounded

LEMMA VacuumKept == ASSUME VacuumOK, UNCHANGED vacuumVars PROVE VacuumOK'
BY DEF vacuumVars, VacuumOK, U!VacuumTypeOK, U!VacuumInv, U!TailNamesItsOwn,
       U!InterleaveIsBounded, U!Touched
-----------------------------------------------------------------------------
LEMMA WorkersKept == ASSUME WorkersOK, UNCHANGED workerVars PROVE WorkersOK'
BY DEF workerVars, WorkersOK, W!WorkersTypeOK, W!WorkersInv, W!Living, W!ParentLives
=============================================================================
