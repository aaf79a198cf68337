# claudit: specification, model checking and proofs

claudit reads the transcripts of coding agents from an object store, keeps
their rows in PostgreSQL, prices them by tables that bots refresh every hour,
and serves a usage dashboard from rollups derived from these rows. This directory
holds TLA+ modules of the parts in which order, overlap and failure decide
whether the dashboard tells the truth, the TLC configurations that check them on
small instances, and proofs of most of their properties for every instance,
checked by TLAPS. Paths below are relative to `src/backend/` unless they say
otherwise; `ci/` stands for `src/scripts/ci/`.

    tlasany M.tla                                    # parse
    tlc -workers 2 -config MCIngestRun_forks.cfg MCIngestRun
    tlapm Ingest_proofs.tla                          # check the proofs

## 1. The system: inventory

| Component | State it keeps | Operations | Hard behaviour |
|---|---|---|---|
| Run lifecycle (`ingest.py`, `ingest_runs.py`, `ingest_progress.py`, `app.py`) | `_RUN_LOCK`, `_SHUTDOWN`, `ingest_runs` rows, progress readout | start, sweep, open, close, abort, teardown | threads of one process, instances on one database, stops and kills at any step |
| Advisory lock (`ingest_lockwatch.py`) | a session lock on a dedicated connection | take, probe, release | the server drops it with its connection, the run goes on |
| Walk (`ingest_walk.py`, `ingest_fetch.py`, `ingest_collection.py`, `ingest_persist.py`, `ingest_orphans.py`) | `files`, `records`, `tool_uses`; the run's seen/persisted sets | list, fetch, parse, persist, sweep orphans | two overlapping pipelines, an object that vanishes or fails, a commit whose answer is lost |
| Parse workers (`ingest_workers.py`) | a fork server and its children | start, check parent and service, exit | either parent can die in every window of a start |
| Scope and marker (`ingest_scope.py`) | `Scope` in memory, the row of `ingest_derived_state` | begin, capture, collect, promote, consume, complete | incremental rebuilds must be as good as full ones |
| Canonical records, adoption (`ingest_rollup_state.py`, `ingest_model_adoption.py`) | `records.is_canonical`, `records.model` | rank, adopt, purge, resolve teammates | the winner of a message identity depends on other files |
| Hourly rollups (`ingest_rollup_hourly.py`, `ingest_rollup_latency.py`) | one table per question | rebuild in full or by dirty project-hour | a fixed order of tables that feed on all of the above |
| Identity (`project_aliases.py`, `lane_projects.py`, `lane_markers.py`) | `files.project_id`, `project_aliases` | fold aliases, re-key lanes | files move between projects during a run |
| Repricing (`ingest_reprice.py`, `rate_fingerprint.py`) | `records.rate_*`, `records_price` | restamp, reprice | batches, each its own transaction; skipped by fingerprint |
| Object store (`r2.py`, `r2_list.py`, `ingest_scan.py`, `blob_cache.py`) | buckets or mirror directories; a disk cache of bytes | list by streams or walk, pair sidecars, get, prune | partial listings, unmounted mirrors, objects replaced between listing and GET |
| Transcript parsers (`parse*.py`, `lane_*.py`, `turn_flags.py`, `reply_timing.py`, `codex_fork.py`) | the state of a walk over lines | book requests, tool calls, flags, timings | replays after a resume, forks, running totals, failed attempts, steers |
| Pricing (`pricing*.py`, `rate_boundaries.py`, `long_context.py`, `meter_tables.py`) | `pricing.json` in memory | resolve, cut epochs, fingerprint, encode rows | dated rows, suffix matches, host against vendor rows |
| Rate refresh (`ci/refresh_*.py`) | `pricing.json`, pins, meters | append, hold back, rewrite from the log, select endpoints, follow the catalog | the site, its log and its catalog move between hourly runs |
| Response cache (`cache.py`, `ingest_warm.py`) | entries, generation, key locks, claims | hit, miss, refresh, warm, put, evict, invalidate | computes overlap commits, invalidations, evictions and each other |
| Dashboard (`api_dashboard.py`, `dashboard_build.py`, `dashboard_queries.py`) | none | a row of statements folded into panels | each statement has its own snapshot |
| Broadcast (`events.py`, `sse.py`, `src/src/app.jsx`) | subscriber queues, the shutdown event, the page's requests | subscribe, notify, ping, disconnect, refetch | worker thread to event loop, full queues, timeouts racing messages, superseded answers |
| Login and sessions (`login.py`, `login_workers.py`, `session.py`, `auth.py`) | limiter tables, worker slots, session rows, cached credential | reserve, verify, bind, resolve, revoke | slots held across threads and cancellations |
| PNG export (`api_export.py`) | child processes, semaphore, files | render, reap, sweep | timeouts, cancelled requests, shutdown, a shared directory |
| Web metrics (`web_metrics.py`, `ingest_rollup_web_metrics.py`) | raw beacons and their rollup | insert, fold, prune, read | fold against retention, late commits |
| Schema at startup (`db.py`, `app.py`) | schema stamp, advisory lock, catalog | stamp check, migrate, check the auth database | several releases boot at once |
| Vacuum (`ingest_vacuum.py`) | counters of a run | interleave, tail | counters outlive an aborted run |
| Gates of master (`ci/classify_*.py`, `ci/aggregate_gate.py`, `ci/gate_freshness.py`, `src/.github/workflows/`) | commit statuses | classify, skip legs, aggregate, republish | lost runs, pushes that pile up, publishers that overtake each other |
| Ratchets (`ci/ratchet*.py`, `ci/thresholds*.py`) | recorded thresholds | measure, propose, merge, push | people push meanwhile |
| Shell-command analysis (`bash_*.py`), read-only endpoints (`api_*.py`), plots, reports | none | functions over text; SQL | - |

**How they interact.** A scheduler or an admin request calls `run_ingest`, which
takes `_RUN_LOCK`, then the advisory lock, sweeps stale rows, opens its own,
lists and walks the bucket, rebuilds the derived state in many transactions,
closes the row, invalidates the response cache, notifies browsers, queues warm
jobs, and marks the derived state complete. Read endpoints compute from the
rollups at any moment through the response cache. The lifespan teardown asks a
run to stop, cancels its statements, waits for a bounded time and closes its row
if the run did not. Rate tables are data of a release: the hourly refresh
pushes them to master, gates and ratchets guard that branch, and the next
deployment reprices what its fingerprints show to be outdated.

**What makes each part correct.**

* A run that starts from a marker saying `complete` rebuilds only what it
  dirties. So the marker must never say so while flags or rollups are wrong.
* The rebuild must leave every table equal to what a full rebuild would make.
* No failure may be taken for a deletion, and failures must heal.
* One run works at a time; a run that lost its lock stops at once, nearly.
* Every `ingest_runs` row is closed, once.
* What is served as fresh is as new as the last invalidation; no compute is
  doubled off the request path; nobody waits for ever.
* A connected browser asks again after every notice, shows answers in the order
  it asked, and its stream ends when it leaves or the server stops.
* A request is one row, with its largest usage, whatever repeats its lines; its
  price is the one its tables give, in whatever bucket it is summed.
* The hourly refresh never writes what the loaders refuse, rewrites nothing when
  nothing moved, and keeps each row with its own endpoint.
* A limiter admits no more than its limit, a revoked session stays out, no child
  process or file outlives its request, no bucket of beacons is stored in part.
* Green on master means every leg would pass, those that were skipped included.

`PROJECT.json` lists the hazards at the lines where they bite, each with the
property that watches it.

## 2. Modules

| Module | Models | Checked in |
|---|---|---|
| `DerivedState` | the stored rows, and canonical flags and rollups as functions of them | `MCIngestRun`, `MCData`, `MCLive`; proofs |
| `IngestRun` | one deployment's runs, step by step, with their environment and failures | `MCIngestRun`, `MCData`, `MCLive`; proofs |
| `DerivedMarker` | abstract: what the marker row promises | refined by `IngestRun` |
| `RunLock` | locks, rows, teardown, several instances | `MCRunLock`, `MCLive`; proofs |
| `ResponseCache` | the stale-while-revalidate cache of one process | `MCResponseCache`, `MCServices`; proofs |
| `Broadcast` | notices from a run's thread to a browser's refetch | itself; proofs |
| `Transcript`, `Rollout`, `Wire`, with `Lanes` | the parsers of Claude, Codex and Kimi, and what the last two share | `MCData`, `Rollout` itself; proofs of `Wire` |
| `Pricing`, `PricingRows` | prices, price epochs and fingerprints; the encoding of a row | `MCData`, `MCPricing` |
| `RateRefresh`, `Offerings`, `VendorTable` | the hourly refresh: one host's row, the choice of its endpoint, the tracked table | `MCData` |
| `Listing`, `ObjectBytes` | listing, pairing and sweeping; an object's bytes between caches and readers | `MCServices`; proofs |
| `Workers`, `Export`, `Boot`, `Vacuum` | what starts and must end: parse workers, renders, servers, vacuums | `MCServices`; proofs |
| `Login`, `WebMetrics`, `Dashboard` | sign-in and sessions, beacons, panels | `MCServices`; proofs |
| `Gates`, `GateFreshness`, `Ratchet` | CI of master | `MCServices`; proofs |
| `ServerParts`, `ReadParts`, `MasterParts`, `KimiPart` | constants with their assumptions, variables and instances of those modules, by what they serve | extended by `MCServices` and `MCData` |
| `MCIngestRun`, `MCRunLock`, `MCResponseCache`, `MCPricing` | an instance of one module; `Broadcast` and `Rollout` need only a configuration | runs |
| `MCData`, `MCServices`, `MCLive` | instances of several, side by side | runs |
| `Ingest_proofs`, `RunLock_proofs`, `Broadcast_proofs` | theorems of `IngestRun`, `RunLock` and `Broadcast` | - |
| `Server_proofs`, `Reads_proofs`, `Master_proofs` | theorems of `ResponseCache`; invariants of what `ServerParts`, `ReadParts` and `MasterParts` instantiate | - |
| `Services_proofs` | what follows for `MCServices`, part by part | - |
| `Kimi_proofs` | theorems of `Wire` | - |

Each module states the inductive invariant of its proof at its end, after the
properties, under "Why".

`IngestRun` and `RunLock` divide one program at the lock: `RunLock` decides who
may run and knows of a run's work only whether derived state describes it (the
bits `mine` and `left`); `IngestRun` takes one run at a time for granted and
models its work. `IngestRun` takes a listing for one step; `Listing` opens it.

**Parts side by side.** `MCData`, `MCServices` and `MCLive` put modules that
share no state next to each other. A variable `part`, chosen initially and never
changed, says which one a behaviour is of; only that part steps, and the others'
variables are `Off` (those of the module that is extended stay at an initial
state). Each property of such a run is a property of its parts, guarded by
`part`: the reachable states are the sum of the parts', never their product, and
a part is checked exactly as it would be alone. Mutants reach every part.

### DerivedState and IngestRun

State and code: `files`, `records`, `losers` (rows whose `is_canonical` is
false), `rollup[t]` and `marker` are the tables; `scope` is the `Scope` object;
`etags`, `seen`, `todo`, `old`, `fetched`, `persisted` are the walk's local
sets; `pc` is the phase of `_run_ingest_locked` / `_rebuild_derived_state`.
Actions follow the code's transactions: `BeginScope`, `List` (list, re-key the
lane, choose what to fetch), `Fetch`, `Vanish`, `FetchFail`, `Persist`,
`PersistFail`, `PersistUnacked`, `Collect`, `DeleteOrphans`,
`DeleteOrphanProjects`, `PurgeSuppressed`, `RepriceBatch`, `RepriceDone`,
`FoldAliases`, `RecomputeCanonical`, `Adopt`, `AdoptDone`, `ResolveTeammates`,
`RebuildRollup` (once per table), `Notify`, `MarkComplete`. `Interrupt` (an
abort or exception) and `Crash` may come between any two. The environment puts
and deletes objects, moves or removes a lane's marker, edits the operator's
tables, deploys and rolls back releases, and lets a day pass.

An aggregate is modelled as the *set of facts it sums* rather than the sum: two
aggregates that differ in a fact differ here, so nothing can cancel out.
`Facts(files, records, losers, t)` is what a full rebuild of table `t` makes.
There is a latency table, which needs the previous canonical row, and an
ordinary one; every further table is of one of these kinds.

Abstractions, and why they are safe for the properties:

* One modelled row stands for a record and its tool use; every row has a
  latency. Text, tokens and names are left out.
* `Content[f][v]` is what version `v` of an object parses to. Parsing is pure.
* A release is its pricing version; `Parser[release]` is its parser version, so
  that there are releases that reprice and do not reparse.
* Time is one hour bucket per row. Day-wide buckets are sums over hours.
* Reprice and adoption take one file or row per step (batches are any number of
  steps; interrupts can come between).
* The full-rebuild threshold `min(2000, 20%)` is `DirtyPercent` / `DirtyCap`.
  Runs use 50% because an instance has two files.
* Collection flags are fingerprint inputs like the operator's tables.
* Objects do not return to an old etag and alias cycles (which the code breaks
  arbitrarily) do not occur. Both are listed as hazards or excluded data.
* Progress figures and display names are left out; the row of the run is
  `RunLock`'s, listings `Listing`'s, the blob cache `ObjectBytes`'s.

### RunLock

`proc`, `shutdown`, `runLock`, `progress` are per process; `pc`, `conn`,
`checked`, `ok`, `full`, `mine` per thread; `dbLock`, `rows`, `complete` are the
database's. Actions: `Tick` (a scheduler's or an administrator's call),
`TakeRunLock`, `Connect`, `ConnectFail`, `Recheck`, `SweepStaleRuns`, `OpenRun`,
`SetProgress`, `BeginScope`, `Check` (every `check_lock_alive` and shutdown
poll), `Persist`, `WalkDone`, `Rebuild`, `CloseRun`, `CloseFail`, `MarkComplete`,
`Fatal`, `Unlock`, `Release`; for a process `RequestShutdown`, `CancelQueries`
(cancels any subset of the statements that may be under way), `WaitForRun`,
`WaitTimeout`, `CloseOpenRun`, `Exit`, `Kill`, `Boot`; and `LoseLock`.

Abstractions: one row per thread, its last; a guarded step is what the code does
between two checks; a tick that comes during shutdown is a skip; the server
frees an advisory lock in the moment its process or connection ends (a lock the
server holds on to only delays the next run). `MaxFaults` bounds lock losses,
kills, database errors and graceful stops together.

### ResponseCache

`items`, `order` (stored keys by timestamp), `expired` (past the TTL),
`generation`, `keyLock` and the lock objects' `holder` are `_TTLCache`;
`refreshing` and `queue` are `_refreshing` and the pool's queue; `pc`, `job`,
`ref`, `gen`, `val`, `err` are a thread's locals. A value is the version of the
rollups it was computed from, `told` the version at the last invalidation. A
request's hit, miss and compute, a refresh and a warm each take the code's
steps: `Schedule`, `LockFor`, `Acquire`, `Check`, `Claim`, `Capture`, `Read`,
`Put` (with eviction and reclaim, all under `_guard`), `Discard`, `Release`,
`ReclaimFailedLock`, and `ReadFail` where the endpoint raises.

Abstractions: time is past the TTL or not; lock objects are reused when
nobody knows them (`LocksAssumption`: there are more than keys and threads); `_reclaim_lock`'s test and drop are one step, since whoever
takes the lock between them reads nothing else of it; counters, the `fresh=1`
bypass are left out; the transcript cache of the same file is in `ObjectBytes`.

### Broadcast

`callbacks` is what `call_soon_threadsafe` was given; `phase` the loop and its
shutdown event; `stage`, `hand` and `queue` are one `event_stream_body` each;
`link` and `wire` the connection; `conn`, `dirty`, `run`, `flight` and `landed`
the page's EventSource, pending effect and requests. `notices`, `due` and `asked`
are history: what was published, what each connected stream was a target of, and
how much of it lay before the browser's last request. Publishing:
`BroadcastThreadsafe`, `SignalShutdown`, `RunCallback`. A stream: `Connect`,
`Top`, `TakeMessage`, `Woken`, `Timeout`, `Send`, `Cancel`. A page: `Load`,
`OnIngest`, `Choose`, `Effect`, `Land`, `FetchFail`, `Disconnect`.

`Timeout` may happen when the queue holds a message: `asyncio.wait` can run out
at the moment one arrives, and a cancelled `Queue.get` leaves it there. `Free`
streams are interchangeable, so `Connect` takes any one.

Abstractions: notices have no content, and neither have answers (what a fetch is
answered is `ResponseCache`'s); a stop goes through the signal handlers, so that
the loop runs `event.set` before the lifespan ends (a server that runs the
lifespan without signals is left out); EventSource and the page's other fetches
are the browser's.

### The parsers: Transcript, Lanes, Rollout, Wire

A state is a file's lines and the state of the walk after them; a step appends a
line and walks over it, so every prefix of every bounded file is covered.

* `Transcript` (`parse.py`, `turn_flags.py`, `reply_timing.py`, `ctx_turns.py`):
  a resume appends the lines so far once more. `clean` is the walk had nothing
  been repeated, the reference that `walk` is compared with
  (`ReplaysOnlyForget`); `FlagsLand` compares a request's flags with the window of
  lines it belongs to.
* `Rollout` (`parse_codex.py`, `codex_fork.py`): a parent and one fork. Codex
  writes a running total, repeats it, and a fork starts from its parent's. The
  identity of a row is its session and total; `OwnRow` and `RequestsOnce` say that
  each request sent has exactly one canonical row over both files.
* `Wire` (`parse_kimi.py`): both dialects, steps, retries, rate limits, steers.
* `Lanes`: turns, the reply anchor and the generation window, without state of
  its own.

A line has the fields the walks branch on. Timestamps are line numbers, the six
token counters are one, prose, projections and malformed lines are left out.

### Pricing, PricingRows

`history` holds the entries of table keys and provider rows, `meter` the
long-context thresholds, `charged` what each record was last repriced to, with
its fingerprint. Actions append entries, correct them, and reprice. `Resolve` is
`resolve()` with its order of rows (provider row, vendor match, models table,
tier fallbacks), `Boundaries` and `Representative` cut and price epochs,
`Fingerprint` is what a reprice compares. The five rates of an entry are one
number, an id is namespace, name and tail. `PricingRows` is a pure encoding,
checked for every history of up to `LastSecond` instants and for every stored row.

### RateRefresh, Offerings, VendorTable

One hourly run at three magnifications. `RateRefresh` is one host's row: the site
changes its price (`truth`), publishes it in a log and a listing that may each
lag, and a run appends, holds back or rewrites. `Offerings` is which of the listed
endpoints gives that price, over successive listings, with pins, regions, tiers
and windows. `VendorTable` is the pass over the document: models that become
tracked, renamed keys and what moves with them. Whether a fetch succeeds is an
input; deadlines, retries and reports are left out.

### Listing, ObjectBytes, Workers

`Listing`: `unit` holds the streams of S3 or the directories of a walk, `found`
what they gave, `files` the rows with the joined etag and the versions they were
parsed from. Objects change between any two pages, mirrors are unmounted, units
fail, GETs fail or meet nothing. A version stands for bytes and is not used
twice, so that "unchanged" means something; `ObjectBytes` does let objects return
to old contents, and different objects have equal etags. It follows bytes
through the disk cache (temporaries, replaces, pruning, crashes) and the
transcript LRU. `Workers`: fork server, pool and workers, with the alive pipe,
the parent-death signal and both checks; a pid is never reused.

### Export, Boot, Vacuum, Login, WebMetrics, Dashboard

* `Export`: one handler per request with its child and file; the reap after a
  timeout, repeated cancellations or a stop with a budget; several servers sweep
  one directory.
* `Boot`: `catalog` is the set of columns and whether the policy's indexes exist,
  a script what it adds and drops. The migration is one transaction that may time
  out on another's lock; servers of two releases boot, die, roll back.
* `Vacuum`: the module's counters, which outlive an aborted run, the interleave
  and the tail. A statement works, fails or is stopped.
* `Login`: a handler takes one action from await to await. Costs are counted in
  units of the legacy hash, so that refusals can be compared; `references` are the
  counts of `_DUMMY_REFERENCE_HASHES`, and a worker that finds none for its count
  runs the count twice. A worker may raise at any point of its work.
* `WebMetrics`: a rollup row is the *set* of beacons it counts, so that nothing
  cancels out; a beacon is stamped when its transaction begins and commits later.
* `Dashboard`: statements read the rollups, or the live tables for narrow
  buckets, one at a time while a run commits, rebuilds and invalidates.

### Gates, GateFreshness, Ratchet

A tree says of each kind of path which of a few contents it has. `Gates` decides
for each push which legs to skip and from which verified base, runs them, loses
some, and aggregates. `GateFreshness` has publishers that read master's tip and
publish later. `Ratchet` lands what a run measured on a master that moved on.
What a leg checks is a predicate on trees.

## 3. Runs

| Run | Instance | Shows |
|---|---|---|
| `forks` | two transcripts of two versions, the second a fork that replays the first's message under another model, dispatched as a teammate, with an untimed row, in a lane whose marker appears and goes; suppression edits; two releases; process-pool pipeline; 2 environment changes, 1 failure | `TypeOK`, `MarkerSound`, `CloseDescribesStore`, `NoLiveFileDeleted`, `KeepsMarkerPromise` |
| `data` | a lane whose marker appears, moves and goes, alias chains over three projects, three releases with rollbacks, thread pipeline; and the parsers, pricing and the refresh, each on its own | `MarkerSound`, `PolicyApplied`, `AnnouncedUnlessInterrupted`, `DataTypeOK`, `PricesHold`, `DocumentHolds`, `RequestsKeepTheirRows`, `TimesUnbroken`, `RowsStayWithTheirs` |
| `live` | the transcripts of `forks` with one release, no lane, 2 changes and 2 failures, and two instances with a thread each and 1 disruption, under fairness | `StoreConverges`, `RowsFinish` |
| `locks` | two instances, three threads, any 2 disruptions | `LockInv`, `RunsAlone`, `LateWorkBounded`, `MarkerHonestUnlessLost`, `RunCloseWins` |
| `services` | the response cache with one request thread, two pool threads, two keys and room for one; and twelve parts more, each on its own | `FreshIsCurrent`, `RefreshOnce`, `CapHeld`, `HeldLockStays`, `ServicesTypeOK`, `SignInsBounded`, `SessionsHold`, `StartsAndEndsHold`, `BeaconsCounted`, `BytesAreCurrent`, `PanelsAgree`, `MasterStaysGated` |
| `cache_live` | two request threads, one pool thread, one key, fairness | `StaleHeals`, `Answered` |
| `notices` | one browser, two streams, a queue of one, two notices, any two of a broken connection, a choice and a stop, fairness | `TypeOK`, `NoticeNotLost`, `ScreenForward`, `RefetchFollows`, `StreamsEnd` |
| `announce`, `marker`, `stop`, `epochs`, `searches` | the least instances | one property each is violated: findings 1 to 5 |

What the collected properties are made of:

| Property | Conjuncts |
|---|---|
| `PricesHold` | `BucketsReconcile`, `FingerprintTells` (`Pricing`) |
| `DocumentHolds` | `RefreshLoads`, `QuietRunsWriteNothing` (`RateRefresh`), `HistoryComesBack`, `RowIsCanonical` (`PricingRows`) |
| `RequestsKeepTheirRows` | `ReplaysOnlyForget`, `FlagsLand` (`Transcript`), `OwnRow`, `RequestsOnce` (`Rollout`), `StepsOwnTheirRows` (`Wire`) |
| `TimesUnbroken` | generation and reply times of the three parsers |
| `RowsStayWithTheirs` | `SilentRunsStay`, `TiersStayAside` (`Offerings`), `TablesFollow`, `QuietOnceFollowed`, `ModelsKeepTheirs` (`VendorTable`) |
| `StartsAndEndsHold` | `RenderKeepsItsFile`, `NothingLeftBehind` (`Export`), `StampTellsCatalog`, `MigratesOnceWhenDue`, `RefusalsLeadOut` (`Boot`), `TailNamesItsOwn`, `InterleaveIsBounded` (`Vacuum`), `NoneOutlivesItsService` (`Workers`) |
| `BytesAreCurrent` | `ParsedSinceListing`, `ServedNotOlder` (`ObjectBytes`), `SweptWasGone`, `UnchangedIsCurrent` (`Listing`) |
| `SignInsBounded`, `SessionsHold` | `LimitsHeld`, `FailuresCostAlike`; `NewSessionResolves`, `RevokedStaysOut` (`Login`) |
| `BeaconsCounted` | `StoredBucketWhole`, `WideReadoutExact` (`WebMetrics`) |
| `MasterStaysGated` | `GreenMeansTested` (`Gates`), `GreenIsFresh` (`GateFreshness`), `RatchetOnlyTightens` (`Ratchet`) |

**Why the bounds are enough to be interesting.** Two files are the least with a
message identity in both, so that deleting one file changes the flags of
another; a third would add symmetric copies. Two hours and a null hour separate
rows inside and outside a dirty bucket. Three projects are the least for a chain
of folds. Three environment changes (`data`) let a run be preceded, interleaved and
followed by one; with failures (`forks`, `live`) there are two. Two disruptions are the least for "instance A loses its lock,
instance B is killed"; three threads are the least for two in one process beside
another process. In the cache, two keys and room for one make every put of the
other key an eviction, and two versions make outdated values possible; two pool
threads are `_refresh_pool`'s real size. With a queue of one, two notices are
enough for one to be dropped, and with two streams the dead stream of a browser
lingers beside its next one. Six lock objects are more than the two keys and three
threads can know of. Two objects start with equal contents, so with one etag
(`EqualStarts`); of three contents two have one length (`Lengths`), for the disk
cache compares the length, and either cache has room for one long content and a
short one. Four changes, which listings and lookups count among, are the least for
an object that is listed, replaced before its GET, put back and listed again.

Parsers: four lines suffice for call, result, failure and reply, and one resume
replays every prefix; Kimi's seven are a step that fails, is retried and steered.
A fork with four lines beyond its parent's has a repeated total, a search and a
request. Prices: three instants put a change before, between and after two
records, and the twelve records cover each way an id finds its row; one edit is
an appended or corrected entry between two reprices. The refresh: four seconds
and two moves of the site are the least for a price that alternates back, a log
that lags and a runner whose clock is behind; three endpoints at once are a pair
of twins and a third beside them. Sign-in: two accounts behind one address, a
limit of one per pair and two per address, and one tracked key, so that each
table is at its limit; one stored hash below the write count and one above it, so
that two refusals may need one reference hash at once or after each other. Listing: two buckets with a transcript and its sidecar
each (`Prefixes`, `PrefixKeys`, `Sidecars`), one naming its own type, or the first of
them as the only one (`mode` `"alone"`), and any two changes, unmounts and failures: an
object replaced around its GET, a unit that fails after an unmount. Boot: two
processes, two releases, three starts, so that one is killed and rolled back
while another waits. Gates: two pushes on a verified first commit, one lost leg.

Each property of the passing runs has a mutant for each of its larger parts, a
plausible slip in one definition that its run refutes. Mutated definitions stand
before the originals and are marked "Mutant:".

All runs set `CHECK_DEADLOCK FALSE`: once the bounds on faults, edits and
commits are used up and nothing is under way, the bounded model may stop.
`Alike` in the `locks` and `services` configurations permutes threads (or clients
and pool threads) that no definition distinguishes; neither run has a liveness
property.

**Fairness.** `IngestRun`: weak fairness of the run's own steps as one action:
APScheduler starts a run every hour and its thread goes on. Failures have none.
`RunLock`: weak fairness of each thread's ticks and steps and of teardown and
boot (the service manager restarts the process), strong fairness of `WalkDone`
because a walk has finitely many files although `Persist` may repeat in the
model. `MCLive` states both again for its parts. `ResponseCache`: weak fairness
of each thread's steps, strong fairness of `Acquire` (a lock released again and
again is got by each waiter; CPython's lock gives no queue order, but a waiter is
woken at every release) and of a request arriving for each key: a stale entry
that nobody asks for is, by design, not refreshed. `Broadcast`: weak fairness of
the loop's callbacks and of each stream's steps (the loop runs what is ready,
and a wait ends after 15 seconds at the latest), strong fairness of
`TakeMessage` (a `get` on a queue that holds something is done before any timeout
but one that fires in that very moment), weak fairness of the page's event
handler and effects. Nothing is assumed of answers: a request may stay open for
ever. No other module states fairness: their properties are about what a step
or a state may never be.

## 4. Proofs

All theorems hold for every value of the constants that meets the named
assumptions, which TLC evaluates in every run of a module that extends theirs.
TLC checked each inductive invariant on a small instance before its proof.

| Assumption | Says |
|---|---|
| those of `DerivedState`, `IngestRun`, `RunLock`, `Broadcast`, `ResponseCache` | tables, bounds and marks of absence are of their kinds; files are finitely many, and a version of one parses to a row per line at most |
| `LocksAssumption` (`ResponseCache`) | threads are finitely many, and lock objects more than keys and threads if they are finitely many |
| `LoginAssumption`, `StartsAssumption` (`ServerParts`) | finitely many addresses, accounts and requests; limits are numbers; marks of absence are no values |
| `BytesAssumption` (`ReadParts`) | no content marks an absence; at first every object has a content |
| `ListingAssumption` (`ReadParts`) | there is a bucket; a prefix is of one bucket, a key of one prefix, a sidecar no transcript; names are no marks |
| `MetricsAssumption` (`ReadParts`) | bucket widths have a greatest; times are numbers |
| `MasterAssumption` (`MasterParts`) | what a ratchet records lies between two numbers; its gaps are numbers |
| `KimiAssumption` (`KimiPart`) | what stands for None is no time, window or text |

Not general are the tables that an instance of `Vacuum`, `Gates` and `Dashboard`
gives as definitions: `PhaseTables`, `PushedTogether` (the sets of paths that are
pushed together), and the records and widths of the dashboard.

**IngestRun.** `Ingest_proofs` proves `TypeCorrect` and that the invariant `IInv`
is inductive (`Inductive`), and derives `MarkerIsSound`, `CloseIsExact` and `ImplementsMarker` (the
refinement of `DerivedMarker`). Neither property is inductive itself, for during a
run nearly every table is wrong. What holds then is that the damage is known:

* every difference between a table still to be rebuilt and what it should be
  lies in a project-hour that the scope covers (`PendingInv`, `Explained`), the
  untimed ones behind `latNull`, which is false once the rollups start;
* every wrong canonical flag is at an identity the scope holds (`CanonicalInv`),
  until the ranking, after which none is wrong;
* both with what the scope *will* hold once the persisted files are collected
  (`Reach`), since in the pool pipeline a file's rows are committed before the
  scope learns of them, and with captured contributions that are still current
  (`CaptureInv`);
* every row of a dirty file is covered whole, so that purging it is (`DirtyInv`);
* tables already rebuilt in this run are right (`DoneInv`).

The proof has one lemma per action (`ListSound`, `PersistSound`, `FoldSound`,
...). The algebra behind it is that losers are local to an identity
(`LosersLocal`), that a row's facts lie in its cells (`FactsExplained`) and that
a scoped rebuild repairs what it covers (`RebuiltRight`). That `unacked` is a
hypothesis of `CloseDescribesStore` but not of `MarkerSound` is a result: a
persist whose answer was lost spoils that run's figures, never the marker.

Over `IInv` it proves what else a run owes, each with an invariant of its own:

* `LiveFilesStay` (`NoLiveFileDeleted`) from `AbsentInv`: a key that the listing
  does not name, or that vanished under the walk, has been seen absent since. The
  orphan sweep deletes what is not in `seen`, which therefore never was in the
  bucket throughout the run.
* `PolicyIsApplied` (`PolicyApplied`) from `PolicyInv`. The property speaks of the
  marker row only, and an incremental run purges only dirty files. It is
  inductive because the marker's fingerprint says what held when it was written
  (`MarkerPolicy`), and because a run carries the claim across its own steps
  (`RunPolicy`): before the purge only rows of files it knows to be dirty may be
  suppressed ones, after it none, and after repricing no price is old. An edit of
  the tables raises `edition` and voids the claims of markers and runs alike.
* `ChangesAreAnnounced` (`AnnouncedUnlessInterrupted`) from `AnnounceInv`: until
  a step raises one of the run's counts, caches agree with rollups that are exact;
  a lost answer of a commit counts as an interruption.

**RunLock.** `LocksHold` (types and nesting), then an `IInv` that adds: a run
whose connection is lost has done at most the one step it had checked for, and
has no check left for another (`LateInv`); rows not yet described belong to a run
that has its connection (`MineInv`); and while no lock was lost, the marker is
incomplete during the work and nothing is left undescribed at the close
(`MarkerInv`). From it `RunsAreAlone`, `LateWorkIsBounded`, `MarkerStaysHonest`
and `CloseWins`, for any number of instances and threads.

**ResponseCache** (`Server_proofs`). `FreshStaysCurrent` from `GenInv`: a compute captures its
generation before it reads, so whoever read rollups older than the last
invalidation carries an older generation. `RefreshedOnce` from `ClaimInv`: a
claimed key has one owner, a queued refresh or a pool thread. `HeldLocksStay`
directly, action by action. `CapStays` (`CapHeld`) from `OrderInv`: the eviction
order lists each stored key once, expired entries form a prefix of it, and it is
no longer than the cap; a put moves its key to the end and cuts at the front.
`TypesHold` (`TypeOK`) needs all of these and `LocksInv`: a lock object is one
key's, or one that a thread still knows, so that `lock_for` always finds a new one.
`CacheIsAPart` says that a behaviour of `MCServices` is one of `ResponseCache`, so
that these theorems are theirs, too.

**The parts of `MCServices`.** A part's start and steps are lemmas of
`Server_proofs`, `Reads_proofs` or `Master_proofs`; `Services_proofs` joins them:
a process of one part keeps that part's invariant (`LoginInductive`,
`PartsInductive`, `ReadsInductive`, `MasterInductive`), each of which contains the
types of the part's variables (`ServicesTypesHold`).

*Login:* `SignInsAreBounded` and `SessionsAreHeld`. `LimitsHeld` is inductive with the types: a slot is counted
for exactly the requests whose handler or worker is not done, so a refusal that
is recorded gives back the slot it counted under, and an admitted request's two
keys lie in two tables, each with room for one more. Two invariants are added.
`CostInv` says what an attempt has cost at each stage: what its verifying worker ran
and, once the normalizing one is done, the rest up to the write count, twice if it
found no reference hash. Such an attempt is the first refusal to need its count
(`first`): a count that a refusal before it had needed is among the reference
hashes (`known \subseteq references \cup {0}`), which a process never forgets, and
the write count is there from the start. `SessionInv` says that a token's generation is at most
its account's row's, and less if the token was revoked; generations only grow, so
no later login or credential can make a revoked token resolve again.

*Workers, Export, Boot, Vacuum:* `StartsAndEndsAreHeld`, from

* `WorkersInv`: a worker that has found its server to be its parent had armed its
  death signal by then, and the server lives; a ready one holds no inherited pipe.
  So what outlives a dead server has yet to ask who its parent is.
* `ExportInv`: a server's live renders are exactly those of its handlers, at most
  one; and a render's file is no older than its start, which lies within the
  timeout, so that no sweep of files twice that age takes it.
* `BootInv`: who is past the queue holds the advisory lock, and who passed the
  DDL finds its columns. A stamp that names a script means that running it again
  would change nothing (`Told`), and a process still to migrate is not stamped.
* `VacuumInv`: nothing is counted before the walk is over, then the counters name
  exactly what the run wrote; and the `n`-th interleaved vacuum fires at
  `n * BatchFiles` files or later.

*Listing, ObjectBytes:* `ReadsAreCurrent`.

* `ListInv`. `ListingMisses` is why a sweep takes only what was gone: a key that is
  not found yet is still to come, in a unit that waits or in the rest of one that is
  open, or it was absent at some moment of the listing, or its bucket is `Excused`:
  out of sight once its turn had come, or the only one and out of sight when it came,
  so that the endpoint's root was listed in its place. That a prefix is in one bucket and a key in one prefix is needed, for a
  unit that is done has dealt with all its keys. `ListedStays` is why an unchanged
  etag may be passed over: versions are not used twice, so one that was listed and
  is in the bucket has been there all along, and the GET in between met it.
* `BytesInv`. `since[o][c]` is what object `o` has held since it first held `c`.
  What it holds now is always in it (`Current`), and every thread that has listed
  the object, or read its row, and every entry of either cache, holds bytes of that
  object from that set (`FetcherHolds`, `ReaderHolds`, `DiskEntries`,
  `LruEntries`). Pruning, crashes, replaced temporaries and returning contents take
  nothing from it. A fetch keeps besides what its object has held since this very
  listing (`held`), of which its GET gives one; a hit of the disk cache gives bytes of
  `since` that are as long as the listed ones (`KeptUnderOlderEtag`).

*WebMetrics:* `BeaconsAreCounted`, from `MetricsInv`: what a fold pruned is older
than the raw rows it kept, a beacon that was still open behind the fold is noted as
late, and while folds keep their interval every bucket that is over has its row.

*Dashboard:* `DashboardSees`, from `DashboardInv`: between runs the rollups hold
what is stored, and a request whose generation is the current one has not seen a
run. So however statements, runs and invalidations fall, what is served as fresh
saw one store. `PanelsAgree` says besides that two panels of one store count the
same; these are sums over a table by folds, which stay with TLC.

*Gates, GateFreshness, Ratchet:* `MasterIsGated`.

* `GateInv`: a run compares its commit with verified ones only, and keeps what it
  found. A commit is green because every leg it skipped passed on a verified
  ancestor that differs from it in nothing the leg reads; induction along the
  ancestors is in the invariant, as the first commit is verified.
* `FreshInv`: a head is settled against the whole of master, or a publisher that
  has yet to speak for it will compare it with the whole of master (`Covers`),
  while none is red or was overtaken. A publisher's heads are never newer than the
  pull request's.
* `RatchetInv`: what the job is about to push tightens the document of the tip it
  fetched, and commits of data leave the tree and its measures alone, so that what
  was measured on an older tip holds of the newer.

**Wire** (`Kimi_proofs`). `StepsAreTimed` and `WindowsAreTimes` are the Kimi
conjuncts of `RequestsKeepTheirRows` and `TimesUnbroken`, over sessions of any
length, in both dialects. `WireInv` has three parts besides types. `ReplyInv`: the
reply anchor is what the running step answers, also while steers are queued
and delivered. `CallsInv`: a step's calls lie behind the record before its own and
before its own, so that `_attribute_tool_models`, which looks for the first record
after a call, finds the step's (`FirstAfterIs`). `WindowsInv`: the anchor of the
next window, the open and the closed one each begin behind every window booked so
far, and behind every failed attempt.

**Broadcast.** `BroadcastTyped`, whose `Links` part says that nothing travels on
a broken connection and that no stream outlives the server. With it
`NoticeNotLost` is inductive (`NoNoticeLost`): each step either keeps the token
that will make the browser ask again on its way (callback, queue, hand, wire,
pending effect), or moves it on; a notice dropped at a full queue leaves the
token it found. `ScreenOnlyForward` rests on answers being numbered up to `run`.

**What the proofs changed.** Five statements of the model were wrong or said too
little, and no run's instance had shown it:

* `Merged` (`Ratchet`) took the document's `seededOn` from the side that changed
  the record of the suite; `git merge-file` takes the side that changed it.
* `ClassOf` (`Gates`) was one `CASE` in which an empty change met several guards,
  and TLA+ does not say which of them wins; it is `full`.
* The mark of a sidecar that was out of reach (`Away`, `Listing`) was a number that
  a version could have; and `os.walk` had a fixed order, now it may be any.
* With all lock objects known, `LockFor` took one of an empty set; the code makes
  a new one. `LocksAssumption` says what an instance needs.
* `Newest` (`ObjectBytes`) was undefined where no suffix fits under the cap.

And two properties turned out to need an exception, which they name: of contents
of one length the disk cache serves either under an etag that an object had twice
(`KeptUnderOlderEtag`), and an only bucket's mirror may be listed at the wrong root
(`Excused`). That a prefix is in one bucket only had to be assumed.

**Only model-checked.** Everything under fairness (`StoreConverges`, `RowsFinish`,
`StaleHeals`, `Answered`, `RefetchFollows`, `StreamsEnd`) is out of the prover's
reach. So are the invariants over data that folds build, for what a fold
computes for every input takes induction over data:

* `RequestsKeepTheirRows` and `TimesUnbroken` of `Transcript` (a resume replays all
  lines so far through the walk) and `Rollout` (a file is parsed whole);
* `PanelsAgree` (sums by panel), the pass of `VendorTable` over the catalog
  (`RowsStayWithTheirs`), and the encoding of rows (`DocumentHolds`).

No proof was attempted of what prices and rows rest on besides: `Pricing` and
`Offerings` choose by the extremes and the number of what matches, and
`RateRefresh` rewrites histories by filtering them, all over arbitrary tables
(`PricesHold`, the rest of `DocumentHolds` and `RowsStayWithTheirs`, and their
types in `DataTypeOK`).

No module uses a `RECURSIVE` operator; what a chain of aliases resolves to is a
constant, and the parsers' walks are folds.

## 5. Findings

1. *The notice depends on this run's counts* (`ingest.py:567`, run `announce`).
   A run interrupted after it persisted announces nothing; the next run finds
   nothing to do, rebuilds and publishes those rows, and is silent too.
2. *The marker is completed without the lock* (`ingest.py:586`, run `marker`).
   After the last rollup nothing looks at the lock: a run that lost it writes
   `complete` over another run's `FALSE`. If that one is killed, its rows stay
   out of the rollups until a full rebuild.
3. *A run can start after the stop's wait* (`app.py:121`, run `stop`). A run that
   saw no shutdown flag and has not taken the run lock yet is not waited for; the
   flag is cleared because "Nothing can start a run in this process any more"
   (`app.py:122`), so its second look finds nothing either. It opens its row, and
   the process exits.
4. *A dated id has no price epochs* (`rate_boundaries.py:55`, run `epochs`). It is
   priced by a vendor row that its bare form matches, but the boundaries are
   looked up by its exact form, so one bucket spans a change of its price.
5. *A search takes a request's identity* (`parse_codex.py:103`, run `searches`). A
   repeated total after a web search books a second row under the uuid of the
   request before it. The run shows it in a fork: after the replay the fork repeats
   the inherited total with a search, and its row, which is no replay, takes the
   canonical place of the parent's, tokens and all. Within one file the earlier row
   keeps that place and the search alone is lost.

**Lesser observations**, met while modelling. Where a property would otherwise
say more than the code does, its comment or an exception with a name says so.

*Runs and objects.* A run whose lock was lost may have its live row swept as
stale. The cache keeps the lock of a key evicted between its owner's put and
release. A mirror unmounted after its walk began is taken for deletions
(`lost` in `Listing`): the walk passes over a file whose `stat` finds nothing
(`r2.py:255`), and a GET's `FileNotFoundError`, also the refusal of `r2.py:341`,
counts as a vanished object (`ingest_resolve.py:33`), whose row the sweep then
deletes. A sidecar asked for in that moment is not applied, and its etag never
asks again (`Away`); so does one deleted before its GET and put back unchanged.
A mount point that exists and is empty lists as an empty bucket, although
`r2.py:237` means to refuse what is "not yet mounted". With one bucket, the default
(`r2.py:30`), a mirror directory that is missing while the endpoint's root is there
is not refused: `_scan_root` falls back to the root (`r2.py:206`), whose walk shows
none of the bucket's keys, and the sweep deletes the history that `r2.py:184-188`
protects for several buckets (`Alone`, and `Endpoint \in lost`, in `Listing`). The
blob cache looks up key, etag and length (`blob_cache.py:62-80`), but stores what the
GET brought under the etag of the listing: if the object was replaced in between by
bytes of the same length and is put back later, a later fetch parses the
replacement under the older etag (`KeptUnderOlderEtag` in `ObjectBytes`).

*Parsers.* A parent and a fork that continue to equal totals share a uuid. A
steered Kimi prompt counts twice (pinned by `src/tests/test_parse_lanes.py:90`).
Replayed user lines of Claude still count as prompts, and a rate limit that a
resume repeats is booked again under its new line (`parse.py:221`): neither the
parse, the store (`ingest_persist.py:455`) nor the dashboard's panel
(`dashboard_queries.py:227`, `dashboard_build.py:228`) drops it, so one limit is
counted as often as it was replayed.

*Refresh.* `_global_endpoint` takes a tier that is also spelled global for the
bare namespace. A `cheapest` pin compares only the first endpoint of each price. A
refused flip followed by another change can switch twins silently. Two catalog
ids that derive one key rewrite each other every hour. An id that derives a key of
the models table makes the document refuse to load, every hour. A host first seen
is imported from `HISTORY_FLOOR`, but its next rewrite reaches before it
(`src/CONTRIBUTING.md:358`).

*Services.* "Every failure costs about one PBKDF2 run" (`login.py:7-15`) holds in the
steady state of `auth.py:144-154` only: the first refusal that needs a remaining
count's reference hash computes it after the candidate (`auth.py:165-171`, `191`) and
so runs that count twice, which one for an account without a password never does; and
one whose normalizing worker raised is answered with what had run by then
(`login.py:216-224`). `FailuresCostAlike` excepts both. A beacon that commits after its bucket was folded is missing from it
for good (`late`), and after a stall a bucket that holds the oldest beacon is
refused though whole. The dashboard's panels are separate statements and can mix
two states until the next invalidation; churn in a bucket without usage is
dropped although `src/tests/test_api_details.py:44` calls the sums exact; a bucket's
session count is its first row's; Tokens by Model leaves out cache writes of
undeclared lifetime that Tokens by Project includes.

*Gates.* The pricing bot's push races with others (`refresh-pricing.yml:332`,
`Raced` in `Gates`); `classify_changes.py` reads the verified base twice; a
publisher of an older tip can overwrite a newer verdict (`overtaken` in
`GateFreshness`).

## 6. Not modelled, and the plan

Not modelled on purpose: shell-command analysis (functions of text that a model
would repeat character by character), fields and prose of transcripts that no
property distinguishes, PostgreSQL and the object store themselves, the read
endpoints' SQL besides the dashboard's, what a DDL statement does beyond its
columns and indexes, the drawing of PNGs, pages and cookies, the refresh's
network errors and reports, what each CI leg runs.

Planned, in this order:

1. `RequestsKeepTheirRows` of `Transcript` as a step-by-step model, a replayed
   line being a step of its own, so that it needs no fold and can be proved.
2. `LiveUpdates`: `Broadcast` composed with `ResponseCache` and with what
   `IngestRun` announces: does a connected page come to *show* the rollups of the
   last announced run? Reading suggests that it need not: its refetch right after
   `invalidate()` is a stale hit, and nothing tells it to fetch again.
3. Repricing with its keyset pagination, in place of one file per step.
4. Latency bucket overlap (`ingest_rollup_latency.py`) and the other read
   endpoints over the rollups.
