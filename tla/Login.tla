------------------------------- MODULE Login -------------------------------
(***************************************************************************)
(* Sign-in and sessions of one claudit process: the two failure limiters   *)
(* (login.py), the worker threads that keep an admitted attempt's slots    *)
(* (login_workers.py), the session rows, tokens and the cached credential  *)
(* (session.py), and what a failed attempt costs (auth.py).                *)
(*                                                                         *)
(* The handler is a coroutine: what it does between two awaits is one      *)
(* action.  A limiter key is a pair <<ip, uid>> or an ip, for the two      *)
(* tables the code keeps side by side.  Costs are counted in units of the  *)
(* legacy 200k iterations, so the write count is 3; a worker's is added    *)
(* when it ends.                                                           *)
(***************************************************************************)
EXTENDS Naturals, FiniteSets

CONSTANTS
  Ips, Uids,       \* client addresses, account ids
  Attempts,        \* sign-in requests, each made at most once
  Passwords,       \* what can be typed
  Accounts,        \* credentials the auth database may hold: [pw, cost]
  NoCred,          \* no such account, or one without a web password
  NoRow,           \* no user_session row yet; nothing cached; no token
  MaxPair, MaxIp,  \* _LOGIN_MAX_FAILURES, _LOGIN_MAX_IP_FAILURES
  MaxTracked,      \* _LOGIN_MAX_KEYS, _LOGIN_MAX_IP_KEYS
  Target,          \* PBKDF2_WRITE_ITERATIONS, in legacy units
  MaxUpsets        \* bound: credential edits, expiries, errors and restarts

VARIABLES
  failures,        \* recorded failures of a key that are inside the window
  tracked,         \* keys present in the history tables
  inflight,        \* reserved slots of a key
  attempt,         \* the handler of each request
  stored,          \* the auth database: the credential of each account
  cached,          \* _USER_CONFIG_CACHE
  references,      \* the counts in _DUMMY_REFERENCE_HASHES
  known,           \* history: counts this process seeded, or refused with before
  rows,            \* user_session
  token,           \* the token each request was answered with
  revoked,         \* history: requests whose tokens were revoked for good
  upsets           \* bound counter

loginVars == <<failures, tracked, inflight, attempt, stored, cached, references, known,
               rows, token, revoked, upsets>>

Pairs == Ips \X Uids
LimiterKeys == Pairs \cup Ips
TableOf(k) == IF k \in Ips THEN Ips ELSE Pairs
Limit(k) == IF k \in Ips THEN MaxIp ELSE MaxPair
KeysOf(a) == {<<a.ip, a.uid>>, a.ip}

\* A request that has not been made, and one that was refused, answered with a
\* session, or left without an answer.
Over(stage) == [stage |-> stage]
Idle == Over("idle")
Working(r) == attempt[r].stage \in {"verify", "normalize", "gone"} /\ attempt[r].working
Open(r) == attempt[r].stage \in {"verify", "normalize"}

\* raised: the stages whose worker raised; remaining: the count the normalizing
\* worker runs; missed: it found no reference hash for that count; first: no
\* refusal before this one had needed it.  A worker runs on for a request that
\* is gone.
Stages == {"verify", "normalize", "gone", "failed"}
Ended == [stage : {"idle", "limited", "in", "over"}]
Request ==
  [stage : Stages, ip : Ips, uid : Uids, pw : Passwords, seen : Accounts \cup {NoCred},
   working : BOOLEAN, cost : Nat, raised : SUBSET {"verify", "normalize"},
   remaining : Nat, missed : BOOLEAN, first : BOOLEAN]
SessionRow == [secret : Nat, generation : Nat, fp : Accounts]
Token == [uid : Uids, secret : Nat, generation : Nat, fp : Accounts]

LoginTypeOK ==
  /\ failures \in [LimiterKeys -> Nat]
  /\ tracked \subseteq LimiterKeys
  /\ inflight \in [LimiterKeys -> Nat]
  /\ attempt \in [Attempts -> Request \cup Ended]
  /\ stored \in [Uids -> Accounts \cup {NoCred}]
  /\ cached \in [Uids -> Accounts \cup {NoCred, NoRow}]
  /\ references \subseteq Nat /\ known \subseteq Nat
  /\ rows \in [Uids -> SessionRow \cup {NoRow}]
  /\ token \in [Attempts -> Token \cup {NoRow}]
  /\ revoked \subseteq {r \in Attempts : token[r] # NoRow}

LoginInit ==
  /\ failures = [k \in LimiterKeys |-> 0]
  /\ tracked = {}
  /\ inflight = [k \in LimiterKeys |-> 0]
  /\ attempt = [r \in Attempts |-> Idle]
  /\ stored \in [Uids -> Accounts]
  /\ cached = [u \in Uids |-> NoRow]
  /\ references = {Target} /\ known = {0, Target}
  /\ rows = [u \in Uids |-> NoRow]
  /\ token = [r \in Attempts |-> NoRow]
  /\ revoked = {}
  /\ upsets = 0

(***************************************************************************)
(* The limiters.  A history whose failures have all left the window stays  *)
(* in its table until the key is asked for again or the table is swept.    *)
(***************************************************************************)
Prune(t, k) == IF failures[k] = 0 THEN t \ {k} ELSE t
Expired == {k \in LimiterKeys : failures[k] = 0}
SweepAtCapacity(t, k) ==
  IF Cardinality(t \cap TableOf(k)) >= MaxTracked THEN t \ (Expired \cap TableOf(k)) ELSE t
Accessed(t, k) == SweepAtCapacity(Prune(t, k), k)

Reserved == {k \in LimiterKeys : inflight[k] > 0}

\* Unseen keys are refused when histories and reserved history slots fill.
HistoryFull(t, k) ==
  /\ k \notin t /\ k \notin Reserved
  /\ Cardinality((t \cup Reserved) \cap TableOf(k)) >= MaxTracked
ReservationsFull(k) ==
  k \notin Reserved /\ Cardinality(Reserved \cap TableOf(k)) >= MaxTracked
Limited(t, k) ==
  failures[k] + inflight[k] >= Limit(k) \/ HistoryFull(t, k) \/ ReservationsFull(k)

Reserve(a) == inflight' = [k \in LimiterKeys |-> inflight[k] + (IF k \in KeysOf(a) THEN 1 ELSE 0)]
Release(a) == inflight' = [k \in LimiterKeys |-> inflight[k] - (IF k \in KeysOf(a) THEN 1 ELSE 0)]

RecordFailure(a) ==
  LET added == tracked \cup KeysOf(a)
      over(k) == Cardinality(added \cap TableOf(k)) > MaxTracked
  IN  /\ failures' = [k \in LimiterKeys |-> failures[k] + (IF k \in KeysOf(a) THEN 1 ELSE 0)]
      /\ tracked' = added \ {k \in Expired \ KeysOf(a) :
                               \E j \in KeysOf(a) : TableOf(j) = TableOf(k) /\ over(j)}

(***************************************************************************)
(* The worker threads.  The reservation is given back when the handler is  *)
(* done and no worker is still running for it.                             *)
(***************************************************************************)
\* Mutant: the slot is free although the worker works on.
CloseAtOnce(r, a) == Release(a)
CloseReservation(r, a) == IF a.working THEN UNCHANGED inflight ELSE Release(a)

\* stored_verification_iterations: what verify_web_password runs.
Iterations(c) == IF c = NoCred THEN 0 ELSE c.cost
\* What a worker runs: the stored count; or the remaining one, twice when its
\* reference hash is missing.
Work(a) ==
  IF a.stage = "verify" THEN Iterations(a.seen)
  ELSE IF a.missed THEN 2 * a.remaining ELSE a.remaining

\* The worker has ended, and run n more; "raised" is its stage if it raised.
Worked(a, n, raised) ==
  [a EXCEPT !.working = FALSE, !.cost = @ + n, !.raised = @ \cup raised]

\* Mutant: a reference hash is computed and forgotten.
MemoizedNothing(a) == references
\* _reference_hash: what it computed, the process keeps.
Memoized(a) == IF a.missed THEN references \cup {a.remaining} ELSE references

\* The candidate is hashed, and no reference hash is there to compare it with.
\* Two threads may find the same one missing.
ReferenceMissing(r) ==
  LET a == attempt[r]
  IN  /\ Working(r) /\ ~a.missed /\ a.remaining \notin references \cup {0}
      /\ attempt' = [attempt EXCEPT ![r].missed = TRUE]
      /\ UNCHANGED <<failures, tracked, inflight, stored, cached, references, known, rows, token,
                     revoked, upsets>>

WorkerDone(r) ==
  LET a == attempt[r]
  IN  /\ Working(r)
      /\ a.missed \/ a.remaining \in references \cup {0}
      /\ attempt' = [attempt EXCEPT ![r] =
           IF a.stage = "gone" THEN Over("over") ELSE Worked(a, Work(a), {})]
      /\ references' = Memoized(a)
      /\ IF a.stage = "gone" THEN Release(a) ELSE UNCHANGED inflight
      /\ UNCHANGED <<failures, tracked, stored, cached, known, rows, token, revoked, upsets>>

\* A worker raises, at any point of its work.
WorkerRaises(r) ==
  LET a == attempt[r]
  IN  /\ Working(r)
      /\ upsets < MaxUpsets /\ upsets' = upsets + 1
      /\ \E n \in 0..Work(a) :
           attempt' = [attempt EXCEPT ![r] =
             IF a.stage = "gone" THEN Over("over") ELSE Worked(a, n, {a.stage})]
      /\ IF a.stage = "gone" THEN Release(a) ELSE UNCHANGED inflight
      /\ UNCHANGED <<failures, tracked, stored, cached, references, known, rows, token, revoked>>

(***************************************************************************)
(* POST /login.  Both checks and the reservation happen in one turn of the *)
(* event loop; the attempt then goes through a verifying worker, or        *)
(* straight to the normalizing one.  "spent" is what it has cost so far,   *)
(* as the handler reckons: nothing, when the verifying worker raised.      *)
(***************************************************************************)
\* Mutant: only a refusal without any work is padded.
RemainderIfNone(spent) == IF spent = 0 THEN Target ELSE 0
\* normalize_verification_timing, for what the handler says was spent.
Remainder(spent) == IF spent < Target THEN Target - spent ELSE 0

ToNormalize(a, spent) ==
  [a EXCEPT !.stage = "normalize", !.working = TRUE, !.remaining = Remainder(spent),
            !.first = Remainder(spent) \notin known]

Post(r, ip, uid, pw) ==
  LET a == [stage |-> "verify", ip |-> ip, uid |-> uid, pw |-> pw, seen |-> stored[uid],
            working |-> TRUE, cost |-> 0, raised |-> {}, remaining |-> 0, missed |-> FALSE,
            first |-> FALSE]
      t == Accessed(Accessed(tracked, <<ip, uid>>), ip)
  IN  /\ attempt[r] = Idle
      /\ tracked' = t
      /\ \/ /\ \E k \in KeysOf(a) : Limited(t, k)
            /\ attempt' = [attempt EXCEPT ![r] = Over("limited")]
            /\ UNCHANGED <<inflight, upsets>>
         \/ /\ \A k \in KeysOf(a) : ~Limited(t, k)
            /\ Reserve(a)
            /\ attempt' = [attempt EXCEPT ![r] = IF a.seen = NoCred THEN ToNormalize(a, 0) ELSE a]
            /\ UNCHANGED upsets
         \/ \* load_user_config raised: the finally closes the reservation
            /\ \A k \in KeysOf(a) : ~Limited(t, k)
            /\ upsets < MaxUpsets /\ upsets' = upsets + 1
            /\ attempt' = [attempt EXCEPT ![r] = Over("over")]
            /\ UNCHANGED inflight
      /\ UNCHANGED <<failures, stored, cached, references, known, rows, token, revoked>>

\* Mutant: a changed fingerprint keeps secret and generation.
BoundKeeping(u, c) ==
  IF rows[u] = NoRow THEN [secret |-> 0, generation |-> 0, fp |-> c]
  ELSE [rows[u] EXCEPT !.fp = c]
\* get_or_create_session_row: a changed fingerprint rotates secret and
\* generation, the same one keeps both.
Bound(u, c) ==
  IF rows[u] = NoRow THEN [secret |-> 0, generation |-> 0, fp |-> c]
  ELSE IF rows[u].fp = c THEN rows[u]
  ELSE [secret |-> rows[u].secret + 1, generation |-> rows[u].generation + 1, fp |-> c]

HoldersOf(u) == {r \in Attempts : token[r] # NoRow /\ token[r].uid = u}

\* Mutant: a cached credential is kept.
RememberIfAbsent(u, c) == cached' = [cached EXCEPT ![u] = IF @ = NoRow THEN c ELSE @]
\* remember_user_config: what a login caches for the next 60 seconds.
Remember(u, c) == cached' = [cached EXCEPT ![u] = c]

\* The verifying worker's answer is in: right here, wrong or none below.
Verified(r) ==
  LET a == attempt[r]
      row == Bound(a.uid, a.seen)
  IN  /\ a.stage = "verify" /\ ~a.working /\ a.raised = {}
      /\ a.pw = a.seen.pw
      /\ UNCHANGED <<failures, tracked, stored, references, known>>
      /\ \/ \* the fresh read agrees: bind, cache and answer in one turn
            /\ stored[a.uid] = a.seen
            /\ rows' = [rows EXCEPT ![a.uid] = row]
            /\ Remember(a.uid, stored[a.uid])
            /\ token' = [token EXCEPT ![r] =
                 [uid |-> a.uid, secret |-> row.secret, generation |-> row.generation, fp |-> a.seen]]
            /\ revoked' = IF row = rows[a.uid] THEN revoked ELSE revoked \cup HoldersOf(a.uid)
            /\ attempt' = [attempt EXCEPT ![r] = Over("in")]
            /\ CloseReservation(r, a)
            /\ UNCHANGED upsets
         \/ \* the credential changed while the worker ran
            /\ stored[a.uid] # a.seen
            /\ attempt' = [attempt EXCEPT ![r] = ToNormalize(a, Iterations(a.seen))]
            /\ UNCHANGED <<inflight, cached, rows, token, revoked, upsets>>
         \/ \* a database error leaves through the finally
            /\ upsets < MaxUpsets /\ upsets' = upsets + 1
            /\ attempt' = [attempt EXCEPT ![r] = Over("over")]
            /\ CloseReservation(r, a)
            /\ UNCHANGED <<cached, rows, token, revoked>>

NotVerified(r) ==
  LET a == attempt[r]
  IN  /\ a.stage = "verify" /\ ~a.working
      /\ \/ /\ a.raised = {} /\ a.pw # a.seen.pw
            /\ attempt' = [attempt EXCEPT ![r] = ToNormalize(a, Iterations(a.seen))]
         \/ /\ a.raised # {}
            /\ attempt' = [attempt EXCEPT ![r] = ToNormalize(a, 0)]
      /\ UNCHANGED <<failures, tracked, inflight, stored, cached, references, known, rows, token,
                     revoked, upsets>>

\* The normalizing worker is done, or raised: record both failures, answer.
Fail(r) ==
  LET a == attempt[r]
  IN  /\ a.stage = "normalize" /\ ~a.working
      /\ RecordFailure(a)
      /\ CloseReservation(r, a)
      /\ attempt' = [attempt EXCEPT ![r].stage = "failed"]
      /\ known' = IF "normalize" \in a.raised THEN known ELSE known \cup {a.remaining}
      /\ UNCHANGED <<stored, cached, references, rows, token, revoked, upsets>>

\* The request is cancelled at its await; the shielded worker runs on.
Cancel(r) ==
  /\ Open(r)
  /\ attempt' = [attempt EXCEPT ![r] =
       IF @.working THEN [@ EXCEPT !.stage = "gone"] ELSE Over("over")]
  /\ CloseReservation(r, attempt[r])
  /\ UNCHANGED <<failures, tracked, stored, cached, references, known, rows, token, revoked,
                 upsets>>

(***************************************************************************)
(* Sessions.  resolve_session_user_id compares the token with the row and  *)
(* the row's fingerprint with the credential, cached or fresh.             *)
(***************************************************************************)
Config(u) == IF cached[u] = NoRow THEN stored[u] ELSE cached[u]

Resolves(r) ==
  LET t == token[r]
  IN  /\ t # NoRow
      /\ rows[t.uid] # NoRow
      /\ t.secret = rows[t.uid].secret
      /\ t.generation = rows[t.uid].generation
      /\ Config(t.uid) = rows[t.uid].fp

\* Any page of a session with a valid signature reads through the cache.
Use(r) ==
  LET t == token[r]
  IN  /\ t # NoRow /\ cached[t.uid] = NoRow
      /\ t.secret = rows[t.uid].secret /\ t.generation = rows[t.uid].generation
      /\ Remember(t.uid, stored[t.uid])
      /\ UNCHANGED <<failures, tracked, inflight, attempt, stored, references, known, rows, token,
                     revoked, upsets>>

\* GET /logout: revokes every token of the account; a store that cannot be
\* reached is passed over.  Only the requester's cookie is dropped then,
\* which is not a change of the server.
Logout(r) ==
  LET u == token[r].uid
  IN  /\ Resolves(r)
      /\ rows' = [rows EXCEPT ![u].generation = @ + 1]
      /\ revoked' = revoked \cup HoldersOf(u)
      /\ cached' = [cached EXCEPT ![u] = Config(u)]
      /\ upsets < MaxUpsets /\ upsets' = upsets + 1
      /\ UNCHANGED <<failures, tracked, inflight, attempt, stored, references, known, token>>

\* Environment: a failure leaves the window, an upstream edit of the
\* credential, a cache entry that expires or is evicted, a restart.
Age(k) ==
  /\ failures[k] > 0
  /\ upsets < MaxUpsets /\ upsets' = upsets + 1
  /\ failures' = [failures EXCEPT ![k] = @ - 1]
  /\ UNCHANGED <<tracked, inflight, attempt, stored, cached, references, known, rows, token,
                 revoked>>
EditCredential(u, c) ==
  /\ c # stored[u]
  /\ upsets < MaxUpsets /\ upsets' = upsets + 1
  /\ stored' = [stored EXCEPT ![u] = c]
  /\ UNCHANGED <<failures, tracked, inflight, attempt, cached, references, known, rows, token,
                 revoked>>
DropCached(u) ==
  /\ cached[u] # NoRow
  /\ upsets < MaxUpsets /\ upsets' = upsets + 1
  /\ cached' = [cached EXCEPT ![u] = NoRow]
  /\ UNCHANGED <<failures, tracked, inflight, attempt, stored, references, known, rows, token,
                 revoked>>
Restart ==
  /\ upsets < MaxUpsets /\ upsets' = upsets + 1
  /\ failures' = [k \in LimiterKeys |-> 0]
  /\ tracked' = {}
  /\ inflight' = [k \in LimiterKeys |-> 0]
  /\ cached' = [u \in Uids |-> NoRow]
  /\ references' = {Target} /\ known' = {0, Target}
  /\ attempt' = [r \in Attempts |-> IF Open(r) \/ Working(r) THEN Over("over") ELSE attempt[r]]
  /\ UNCHANGED <<stored, rows, token, revoked>>

LoginNext ==
  \/ \E r \in Attempts :
       \/ \E ip \in Ips, uid \in Uids, pw \in Passwords : Post(r, ip, uid, pw)
       \/ ReferenceMissing(r) \/ WorkerDone(r) \/ WorkerRaises(r)
       \/ Verified(r) \/ NotVerified(r) \/ Fail(r) \/ Cancel(r)
       \/ Use(r) \/ Logout(r)
  \/ \E k \in LimiterKeys : Age(k)
  \/ \E u \in Uids : DropCached(u) \/ \E c \in Accounts \cup {NoCred} : EditCredential(u, c)
  \/ Restart

LoginSpec == LoginInit /\ [][LoginNext]_loginVars

(***************************************************************************)
(* Properties.                                                             *)
(***************************************************************************)
\* The attempts whose handler or worker is not done with a key.
SlotHolders(k) == {r \in Attempts : (Open(r) \/ Working(r)) /\ k \in KeysOf(attempt[r])}

\* However attempts overlap, are cancelled or fail, an attempt holds its two
\* slots exactly until its handler and its worker are done; recorded and
\* running attempts together never exceed a limit, and neither table
\* promises more histories than it may hold (login.py:104-216,
\* login_workers.py:32-49).
LimitsHeld ==
  \A k \in LimiterKeys :
    /\ inflight[k] = Cardinality(SlotHolders(k))
    /\ failures[k] + inflight[k] <= Limit(k)
    /\ Cardinality((tracked \cup Reserved) \cap TableOf(k)) <= MaxTracked

\* A token that a logout or a login with another credential revoked never
\* resolves again, also when the credential is set back (session.py:135-172,
\* 186-196).
RevokedStaysOut == \A r \in revoked : ~Resolves(r)

\* The answer to a sign-in is a session that works: the next request resolves
\* it, even if the cache still held an older credential (login.py:255-274).
NewSessionResolves == \A r \in Attempts : token[r] = NoRow /\ token'[r] # NoRow => Resolves(r)'

\* What a refusal costs when every worker runs to its end: the write count, or
\* the stored one when that is above it.
Level(a) == IF Iterations(a.seen) > Target THEN Iterations(a.seen) ELSE Target

CostsAlike(a) ==
  /\ a.raised = {} => a.cost = Level(a) \/ (a.first /\ a.cost = Level(a) + a.remaining)
  /\ a.raised = {"verify"} => a.cost \in Target..(Target + Iterations(a.seen))

\* Whatever is stored for the account, and also when the credential changed
\* under the attempt, a refusal costs one run at the write count, more only by
\* what a stored hash above that count asks for, or by what a verifying worker
\* ran before it raised (login.py:219-252, auth.py:116-191).
\* The named exception is the code's own: the reference hash of a remaining
\* count is computed when it is first needed, so the first refusals of a count
\* other than the write count since the start run that count twice
\* (auth.py:165-171, 191) - never those of an account without a password.
\* Nothing is said of an attempt whose normalizing worker raised: it is
\* answered with what had run by then (login.py:216-224).
FailuresCostAlike ==
  \A r \in Attempts : attempt[r].stage = "failed" => CostsAlike(attempt[r])

(***************************************************************************)
(* What these rest on: a token is never ahead of its account's row, and a  *)
(* revoked one is behind it; and what an attempt has cost at each stage,    *)
(* of which counts the process has the reference hashes.                   *)
(***************************************************************************)
SessionInv ==
  /\ \A r \in Attempts : token[r] # NoRow =>
       /\ attempt[r].stage = "in"
       /\ rows[token[r].uid] # NoRow
       /\ token[r].generation <= rows[token[r].uid].generation
  /\ \A r \in revoked : token[r].generation < rows[token[r].uid].generation
\* What the verifying worker may have cost.
VerifyCosts(a) ==
  IF "verify" \in a.raised THEN 0..Iterations(a.seen) ELSE {Iterations(a.seen)}
Verifying(a) ==
  /\ a.seen # NoCred /\ a.remaining = 0 /\ ~a.missed /\ "normalize" \notin a.raised
  /\ a.working => a.cost = 0 /\ a.raised = {}
  /\ ~a.working => a.cost \in VerifyCosts(a)
\* "hashes": the counts whose reference hashes there are.
Normalizing(a, hashes) ==
  /\ a.remaining = Remainder(IF "verify" \in a.raised THEN 0 ELSE Iterations(a.seen))
  /\ a.missed => a.first
  /\ a.first => a.remaining \notin {0, Target}
  /\ ~a.first => a.remaining \in hashes \cup {0}
  /\ a.working => a.cost \in VerifyCosts(a) /\ "normalize" \notin a.raised
  /\ ~a.working /\ "normalize" \notin a.raised =>
       /\ a.remaining \in hashes \cup {0}
       /\ \E spent \in VerifyCosts(a) : a.cost = spent + Work(a)
CostInv ==
  /\ {0, Target} \subseteq known /\ known \subseteq references \cup {0}
  /\ \A r \in Attempts :
       /\ attempt[r].stage = "verify" => Verifying(attempt[r])
       /\ attempt[r].stage = "normalize" => Normalizing(attempt[r], references)
       /\ attempt[r].stage = "failed" => CostsAlike(attempt[r])
=============================================================================
