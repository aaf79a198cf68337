----------------------------- MODULE IngestRun -----------------------------
(***************************************************************************)
(* One claudit deployment's ingest runs, one at a time (RunLock models why *)
(* only one): a run lists the bucket, fetches and persists the files that  *)
(* changed, deletes the orphans, and rebuilds the derived state, either    *)
(* in full or only for the project-hours and identities it dirtied.  It    *)
(* commits many small transactions and may be interrupted, or the process  *)
(* may die, between any two of them; the bucket, the operator's tables and *)
(* the deployed release change whenever they like.                         *)
(*                                                                         *)
(* ingest.py, ingest_fetch.py, ingest_scope.py, ingest_orphans.py,         *)
(* ingest_collection.py, ingest_persist.py, lane_projects.py,              *)
(* project_aliases.py, ingest_reprice.py, ingest_rollup_state.py,          *)
(* ingest_rollup_hourly.py, ingest_rollup_latency.py                       *)
(***************************************************************************)
EXTENDS DerivedState, FiniteSets

CONSTANTS
  MaxVersion,    \* bound: versions an object of the bucket goes through
  Content,       \* Content[f][v]: the rows version v of transcript f parses to
  LaneFiles,     \* transcripts of the one lane (sessions/<hash>/ keys)
  KeyProject,    \* KeyProject[f]: the project id f's key spells
  NoMarker,      \* the lane's marker is missing or could not be fetched
  Teammates,     \* transcripts that name the teammate they belong to
  DefaultRole,   \* the agent type of a transcript that names none
  Operator,      \* Operator[i]: the operator's tables after i - 1 edits
  DirtyPercent, DirtyCap,  \* dirty files above which a run turns full
  Pooled,        \* the process-pool pipeline runs, not the thread pipeline
  MaxEnv,        \* bound: changes of the environment
  MaxFaults      \* bound: failures

Editions == DOMAIN Operator
ContentRow == [line: Lines, uuid: Uuids \union {NoUuid},
               hour: Hours \union {NullHour}, model: Models, replay: BOOLEAN,
               dispatch: Roles \union {NoRole}]

ASSUME IngestAssumption ==
  /\ MaxVersion \in Nat \ {0}
  /\ IsFiniteSet(Files)
  /\ Content \in [Files -> [1..MaxVersion -> SUBSET ContentRow]]
  /\ \A f \in Files, v \in 1..MaxVersion : \A c, d \in Content[f][v] :
       c.line = d.line => c = d
  /\ LaneFiles \subseteq Files /\ Teammates \subseteq Files
  /\ KeyProject \in [Files -> Projects]
  /\ NoMarker \notin Projects /\ DefaultRole \in Roles
  /\ Editions \subseteq Nat /\ 1 \in Editions
  /\ Operator \in [Editions -> [suppress: SUBSET Models,
                                fold: [Projects -> Projects],
                                chain: [Projects -> Projects]]]
  /\ DirtyPercent \in Nat /\ DirtyCap \in Nat /\ Pooled \in BOOLEAN
  /\ MaxEnv \in Nat /\ MaxFaults \in Nat

VARIABLES
  \* the environment
  bucket,        \* bucket[f]: the object's version and whether it exists
  lane,          \* the project the lane's marker names, or NoMarker
  edition,       \* which of Operator's tables are in force
  release,       \* the running binary's release
  \* the database
  files, records,
  losers,        \* the records whose is_canonical is FALSE
  rollup,        \* rollup[t]: the facts table t sums
  marker,        \* ingest_derived_state
  \* the run in progress
  pc, scope,
  laneId,        \* the project this run gives the lane's files
  etags,         \* etags[f]: what the listing said, 0 if it did not list f
  seen, todo,
  old,           \* old[f]: what f contributed before this run touched it
  fetched,       \* fetched[f]: the version parsed and not yet persisted, or 0
  persisted,     \* persisted_keys
  failed, touched,
  table,         \* the next rollup table to rebuild
  \* history
  announced,     \* the rollups as of the last invalidation of the cache
  interrupted,   \* a run ended early, or did not know what it stored, since
  unacked,       \* this run stored a file it believes it failed to store
  absent,        \* files seen absent from the bucket since the listing
  envLeft, faultsLeft

env == <<bucket, lane, edition>>
db == <<files, records, losers, rollup, marker>>
walk == <<laneId, etags, seen, todo, old, fetched, persisted>>
history == <<announced, interrupted>>
vars == <<env, release, db, pc, scope, walk, failed, touched, table,
          history, unacked, absent, envLeft, faultsLeft>>

operator == Operator[edition]
Stored == {f \in Files : files[f] # NoFile}
Live == {f \in Files : bucket[f].live}

NoFp == <<0, 0>>
NoScope == [full |-> FALSE, fp |-> NoFp, stored |-> 0, dirty |-> {},
            cells |-> {}, uuids |-> {}, latNull |-> FALSE, used |-> "none"]
NoContribution == [cells |-> {}, uuids |-> {}, latNull |-> FALSE]
-----------------------------------------------------------------------------
\* The run's in-memory scope.

Promote(s, when) == [s EXCEPT !.full = s.full \/ when]
CheckLatencyNull(s) == Promote(s, s.latNull)
CheckDirtyThreshold(s) ==
  Promote(s, \/ Cardinality(s.dirty) > DirtyCap
             \/ 100 * Cardinality(s.dirty) > DirtyPercent * s.stored)

AddCells(s, cells) == [s EXCEPT !.cells = s.cells \union cells]
AddUntimed(s, when) == [s EXCEPT !.latNull = s.latNull \/ when]
\* Mutant: the message identities of changed rows are not collected.
AddCellsOnly(s, c, fs) ==
  [s EXCEPT !.dirty = s.dirty \union fs, !.cells = s.cells \union c.cells,
            !.latNull = s.latNull \/ c.latNull]
AddContribution(s, c, fs) ==
  [s EXCEPT !.dirty = s.dirty \union fs, !.cells = s.cells \union c.cells,
            !.uuids = s.uuids \union c.uuids,
            !.latNull = s.latNull \/ c.latNull]

\* A run's memory is gone when it ends, however it ends.
EndRun ==
  /\ pc' = "idle" /\ scope' = NoScope
  /\ laneId' = NoMarker /\ etags' = [f \in Files |-> 0]
  /\ seen' = {} /\ todo' = {} /\ persisted' = {}
  /\ old' = [f \in Files |-> NoContribution]
  /\ fetched' = [f \in Files |-> 0]
  /\ failed' = FALSE /\ touched' = FALSE /\ table' = 1
  /\ unacked' = FALSE /\ absent' = {}

\* DELETE FROM projects of the ids ps no file references: the foreign keys
\* cascade to the rollups.
WithoutProjects(ps, fls) ==
  LET Dropped(x) == /\ x.proj \in ps
                    /\ \A f \in Files : fls[f] # NoFile => fls[f].proj # x.proj
  IN  [t \in Tables |-> {x \in rollup[t] : ~Dropped(x)}]
-----------------------------------------------------------------------------
Init ==
  /\ bucket \in [Files -> [v: {1}, live: BOOLEAN]]
  /\ lane = NoMarker
  /\ edition = 1 /\ release \in Releases
  /\ files = [f \in Files |-> NoFile] /\ records = {} /\ losers = {}
  /\ rollup = [t \in Tables |-> {}]
  /\ marker = [fp |-> NoFp, complete |-> FALSE, recent |-> FALSE]
  /\ pc = "idle" /\ scope = NoScope
  /\ laneId = NoMarker /\ etags = [f \in Files |-> 0]
  /\ seen = {} /\ todo = {} /\ persisted = {}
  /\ old = [f \in Files |-> NoContribution]
  /\ fetched = [f \in Files |-> 0]
  /\ failed = FALSE /\ touched = FALSE /\ table = 1
  /\ announced = rollup /\ interrupted = FALSE /\ unacked = FALSE
  /\ absent = {} /\ envLeft = MaxEnv /\ faultsLeft = MaxFaults
-----------------------------------------------------------------------------
\* The walk.

\* Mutant: the operator's tables are left out of the fingerprint.
ReleaseFingerprint == <<1, release>>

\* _fingerprint: the code and operator inputs that change derived rows.
Fingerprint == <<edition, release>>

\* Mutant: the marker stays complete while the run works.
BeginScopeLeaving ==
  /\ pc = "idle" /\ pc' = "list"
  /\ scope' = [NoScope EXCEPT
       !.full = \/ ~marker.complete \/ marker.fp # Fingerprint
                \/ ~marker.recent,
       !.fp = Fingerprint, !.stored = Cardinality(Stored)]
  /\ UNCHANGED <<env, release, db, walk, failed, touched, table, history,
                 unacked, absent, envLeft, faultsLeft>>

\* begin_scope: decide full or incremental, and commit the marker incomplete
\* before anything else is written.
BeginScope ==
  /\ pc = "idle" /\ pc' = "list"
  /\ scope' = [NoScope EXCEPT
       !.full = \/ ~marker.complete \/ marker.fp # Fingerprint
                \/ ~marker.recent,
       !.fp = Fingerprint, !.stored = Cardinality(Stored)]
  /\ marker' = [marker EXCEPT !.complete = FALSE]
  /\ UNCHANGED <<env, release, files, records, losers, rollup, walk, failed,
                 touched, table, history, unacked, absent, envLeft, faultsLeft>>

\* The stored ids of the lane, and those stored_lane_ids may prefer: slugs
\* before the bare hash, then the id with more files.
LaneIds == {files[f].proj : f \in LaneFiles \intersect Stored}
LaneHashes == {KeyProject[f] : f \in LaneFiles}
PreferredLaneIds ==
  LET ids == IF LaneIds \subseteq LaneHashes THEN LaneIds
             ELSE LaneIds \ LaneHashes
      Count(p) == Cardinality({f \in LaneFiles \intersect Stored :
                                 files[f].proj = p})
  IN  {p \in ids : \A q \in ids : Count(q) <= Count(p)}
StoredLaneChoices ==
  IF LaneFiles = {} THEN {NoMarker}
  ELSE IF LaneIds = {} THEN LaneHashes ELSE PreferredLaneIds

\* Mutant: only files never stored are parsed.
NeverStored(f) == files[f] = NoFile

\* needs_reparse; a file a newer parser stored is left alone.
NeedsReparse(f) ==
  \/ files[f] = NoFile
  \/ /\ files[f].ver <= Parser[release]
     /\ files[f].etag # bucket[f].v \/ files[f].ver # Parser[release]

\* Mutants: the scope is not promoted; the gate does not count the move.
RekeyInPlace(p) ==
  LET target == operator.chain[lane]
      moved == [f \in Files |-> IF f \in LaneFiles \intersect Stored
                                THEN [files[f] EXCEPT !.proj = target]
                                ELSE files[f]]
  IN  IF lane = NoMarker \/ LaneIds = {} \/ p = target
      THEN UNCHANGED <<files, rollup, scope, touched>>
      ELSE /\ files' = moved /\ rollup' = WithoutProjects({p}, moved)
           /\ UNCHANGED scope /\ touched' = TRUE
RekeySilently(p) ==
  LET target == operator.chain[lane]
      moved == [f \in Files |-> IF f \in LaneFiles \intersect Stored
                                THEN [files[f] EXCEPT !.proj = target]
                                ELSE files[f]]
  IN  IF lane = NoMarker \/ LaneIds = {} \/ p = target
      THEN UNCHANGED <<files, rollup, scope, touched>>
      ELSE /\ files' = moved /\ rollup' = WithoutProjects({p}, moved)
           /\ scope' = Promote(scope, TRUE) /\ UNCHANGED touched

\* rekey_stale_lane_projects, from the stored id p: when the marker's project,
\* followed through the operator's aliases, is another one, every file of the
\* lane moves and the scope is promoted.
Rekey(p) ==
  LET target == operator.chain[lane]
      moved == [f \in Files |-> IF f \in LaneFiles \intersect Stored
                                THEN [files[f] EXCEPT !.proj = target]
                                ELSE files[f]]
  IN  IF lane = NoMarker \/ LaneIds = {} \/ p = target
      THEN UNCHANGED <<files, rollup, scope, touched>>
      ELSE /\ files' = moved /\ rollup' = WithoutProjects({p}, moved)
           /\ scope' = Promote(scope, TRUE) /\ touched' = TRUE

\* _collect_todo and the capture at the head of fetch_parse_persist: snapshot
\* the stored files, list the bucket, settle the lane's project, queue what
\* changed, and remember what the queued files contributed so far.
List ==
  /\ pc = "list" /\ pc' = "fetch"
  /\ \E p \in StoredLaneChoices :
       /\ laneId' = IF lane # NoMarker THEN lane ELSE p
       /\ Rekey(p)
  /\ seen' = Live /\ absent' = Files \ Live
  /\ etags' = [f \in Files |-> IF f \in Live THEN bucket[f].v ELSE 0]
  /\ todo' = {f \in Live : NeedsReparse(f)}
  /\ old' = [f \in Files |-> IF f \in todo' /\ ~scope'.full
                             THEN Contribution(files, records, {f})
                             ELSE NoContribution]
  /\ UNCHANGED <<env, release, records, losers, marker, fetched, persisted,
                 failed, table, history, unacked, envLeft, faultsLeft>>

\* The parse pool (or a thread) fetches f and parses what the bucket holds by
\* now, which may be newer than what was listed.  The pool pipeline marks the
\* old contribution dirty here, at submission.
Fetch(f) ==
  /\ pc = "fetch" /\ f \in todo /\ bucket[f].live
  /\ todo' = todo \ {f} /\ fetched' = [fetched EXCEPT ![f] = bucket[f].v]
  /\ scope' = IF Pooled /\ ~scope.full
              THEN AddContribution(scope, old[f], {f}) ELSE scope
  /\ UNCHANGED <<env, release, db, pc, laneId, etags, seen, old, persisted,
                 failed, touched, table, history, unacked, absent, envLeft,
                 faultsLeft>>

\* VanishedObject: gone between the listing and the fetch, so the orphan sweep
\* must treat f as never listed.
Vanish(f) ==
  /\ pc = "fetch" /\ f \in todo /\ ~bucket[f].live
  /\ todo' = todo \ {f} /\ seen' = seen \ {f}
  /\ UNCHANGED <<env, release, db, pc, scope, laneId, etags, old, fetched,
                 persisted, failed, touched, table, history, unacked, absent,
                 envLeft, faultsLeft>>

\* Mutant: a file that could not be fetched is treated as one never listed.
FetchFailUnlisted(f) ==
  /\ pc = "fetch" /\ f \in todo /\ faultsLeft > 0
  /\ todo' = todo \ {f} /\ failed' = TRUE /\ faultsLeft' = faultsLeft - 1
  /\ seen' = seen \ {f}
  /\ UNCHANGED <<env, release, db, pc, scope, laneId, etags, old,
                 fetched, persisted, touched, table, history, unacked, absent,
                 envLeft>>

\* The retries run out, or the payload is corrupt: the file is booked as
\* failed and the run goes on.
FetchFail(f) ==
  /\ pc = "fetch" /\ f \in todo /\ faultsLeft > 0
  /\ todo' = todo \ {f} /\ failed' = TRUE /\ faultsLeft' = faultsLeft - 1
  /\ UNCHANGED <<env, release, db, pc, scope, laneId, etags, seen, old,
                 fetched, persisted, touched, table, history, unacked, absent,
                 envLeft>>

Parsed(f, v) ==
  {[file |-> f, line |-> c.line, uuid |-> c.uuid, hour |-> c.hour,
    model |-> c.model, replay |-> c.replay, dispatch |-> c.dispatch,
    rate |-> release] : c \in Content[f][v]}

\* _persist, one transaction: the file row under the project the walk
\* resolved, its old rows gone, the new ones in, is_canonical defaulting TRUE.
StoreFile(f) ==
  /\ files' = [files EXCEPT ![f] =
       [etag |-> etags[f], ver |-> Parser[release], role |-> DefaultRole,
        proj |-> IF f \in LaneFiles THEN laneId ELSE KeyProject[f]]]
  /\ records' = Without(records, {f}) \union Parsed(f, fetched[f])
  /\ losers' = Without(losers, {f})
  /\ fetched' = [fetched EXCEPT ![f] = 0]
  /\ UNCHANGED <<env, release, rollup, marker, pc, laneId, etags, seen, todo,
                 old, table, announced, absent, envLeft>>

\* The persist lands and its result is drained.
Persist(f) ==
  /\ pc = "fetch" /\ fetched[f] # 0
  /\ StoreFile(f) /\ touched' = TRUE
  /\ persisted' = IF scope.full THEN persisted ELSE persisted \union {f}
  /\ scope' = IF ~Pooled /\ ~scope.full
              THEN AddContribution(scope, old[f], {f}) ELSE scope
  /\ UNCHANGED <<failed, interrupted, unacked, faultsLeft>>

\* The commit is done but its answer is lost: booked as a failure.
PersistUnacked(f) ==
  /\ pc = "fetch" /\ fetched[f] # 0 /\ faultsLeft > 0
  /\ StoreFile(f) /\ failed' = TRUE /\ unacked' = TRUE /\ interrupted' = TRUE
  /\ faultsLeft' = faultsLeft - 1
  /\ UNCHANGED <<scope, persisted, touched>>

\* The transaction rolls back: booked as a failure.
PersistFail(f) ==
  /\ pc = "fetch" /\ fetched[f] # 0 /\ faultsLeft > 0
  /\ fetched' = [fetched EXCEPT ![f] = 0]
  /\ failed' = TRUE /\ faultsLeft' = faultsLeft - 1
  /\ UNCHANGED <<env, release, db, pc, scope, laneId, etags, seen, todo, old,
                 persisted, touched, table, history, unacked, absent, envLeft>>

\* The tail of fetch_parse_persist: what the persisted files contribute now.
Collect ==
  /\ pc = "fetch" /\ pc' = "orphans"
  /\ todo = {} /\ \A f \in Files : fetched[f] = 0
  /\ scope' = IF scope.full \/ persisted = {} THEN scope
              ELSE CheckLatencyNull(AddContribution(scope,
                     Contribution(files, records, persisted), persisted))
  /\ UNCHANGED <<env, release, db, walk, failed, touched, table, history,
                 unacked, absent, envLeft, faultsLeft>>

\* _delete_orphans: files whose key the walk did not see, records by cascade.
DeleteOrphans ==
  /\ pc = "orphans" /\ pc' = "projects"
  /\ LET doomed == Stored \ seen
     IN  /\ scope' = IF scope.full THEN scope
                     ELSE CheckLatencyNull(AddContribution(scope,
                            Contribution(files, records, doomed), doomed))
         /\ files' = [f \in Files |-> IF f \in doomed THEN NoFile ELSE files[f]]
         /\ records' = Without(records, doomed)
         /\ losers' = Without(losers, doomed)
         /\ touched' = (touched \/ doomed # {})
  /\ UNCHANGED <<env, release, rollup, marker, walk, failed, table, history,
                 unacked, absent, envLeft, faultsLeft>>

\* _delete_orphan_projects, then the walk's last scope checks.
DeleteOrphanProjects ==
  /\ pc = "projects" /\ pc' = "purge"
  /\ rollup' = WithoutProjects(Projects, files)
  /\ scope' = CheckLatencyNull(CheckDirtyThreshold(scope))
  /\ UNCHANGED <<env, release, files, records, losers, marker, walk, failed,
                 touched, table, history, unacked, absent, envLeft, faultsLeft>>
-----------------------------------------------------------------------------
\* The derived state (_rebuild_derived_state), phase by phase.

\* purge_suppressed: rows of suppressed models, in the dirty files only when
\* the scope is incremental.
PurgeSuppressed ==
  /\ pc = "purge" /\ pc' = "reprice"
  /\ LET gone == {r \in records : /\ r.model \in operator.suppress
                                  /\ scope.full \/ r.file \in scope.dirty}
     IN  /\ records' = records \ gone /\ losers' = losers \ gone
         /\ touched' = (touched \/ gone # {})
  /\ UNCHANGED <<env, release, files, rollup, marker, scope, walk, failed,
                 table, history, unacked, absent, envLeft, faultsLeft>>

\* reprice_stale commits batch by batch, whatever the scope; rows a newer
\* release priced are skipped.  A row whose price moved turns the run full.
Stale == {r \in records : r.rate < release}
Restamp(r, f) == IF r \in Stale /\ r.file = f
                 THEN [r EXCEPT !.rate = release] ELSE r

RepriceBatch(f) ==
  /\ pc = "reprice" /\ \E r \in Stale : r.file = f
  /\ LET moved == \E r \in Stale : /\ r.file = f
                    /\ Price[r.rate][r.model] # Price[release][r.model]
     IN  scope' = Promote(scope, moved) /\ touched' = (touched \/ moved)
  /\ records' = {Restamp(r, f) : r \in records}
  /\ losers' = {Restamp(r, f) : r \in losers}
  /\ UNCHANGED <<env, release, files, rollup, marker, pc, walk, failed, table,
                 history, unacked, absent, envLeft, faultsLeft>>

RepriceDone ==
  /\ pc = "reprice" /\ Stale = {} /\ pc' = "aliases"
  /\ UNCHANGED <<env, release, db, scope, walk, failed, touched, table,
                 history, unacked, absent, envLeft, faultsLeft>>

\* rekey_folded_projects: every stored id moves one alias hop; an incremental
\* scope learns the moved files' project-hours on both sides.
Folded == [f \in Files |->
             IF files[f] = NoFile THEN NoFile
             ELSE [files[f] EXCEPT !.proj = operator.fold[files[f].proj]]]
MovedFiles == {f \in Stored : operator.fold[files[f].proj] # files[f].proj}

FoldAliases ==
  /\ pc = "aliases" /\ pc' = "canonical"
  /\ files' = Folded
  /\ rollup' = WithoutProjects({files[f].proj : f \in MovedFiles}, Folded)
  /\ scope' =
       IF scope.full \/ MovedFiles = {} THEN scope
       ELSE LET fs == scope.dirty \union MovedFiles
                sources == CellsOf(files, RowsOf(records, MovedFiles))
            IN  CheckDirtyThreshold(AddCells(
                  AddContribution(scope, Contribution(Folded, records, fs), fs),
                  sources))
  /\ touched' = (touched \/ MovedFiles # {})
  /\ UNCHANGED <<env, release, records, losers, marker, walk, failed, table,
                 history, unacked, absent, envLeft, faultsLeft>>

\* recompute_canonical: re-rank every identity, or those the run affected.
RecomputeCanonical ==
  /\ pc = "canonical" /\ pc' = "adopt"
  /\ LET ranked == {r \in records :
                      \/ scope.full
                      \/ r.uuid \in scope.uuids
                      \/ r.uuid = NoUuid /\ r.file \in scope.dirty}
         wrong == {r \in ranked : (r \in losers) # (r \in Losers(records))}
     IN  /\ losers' = (losers \ wrong) \union (wrong \ losers)
         /\ touched' = (touched \/ wrong # {})
         /\ scope' = IF scope.full THEN scope
                     ELSE AddUntimed(AddCells(scope, CellsOf(files, wrong)),
                                     HasNullHour(wrong))
  /\ UNCHANGED <<env, release, files, records, rollup, marker, walk, failed,
                 table, history, unacked, absent, envLeft, faultsLeft>>

\* adopt_original_models: a losing replayed copy takes its original's model
\* and the current price, unless a newer release priced it.
MayAdopt(r, w) ==
  /\ AdoptsFrom(records, losers, r, w) /\ r.rate <= release
  /\ scope.full \/ r.uuid \in scope.uuids

Adopt(r, w) ==
  /\ pc = "adopt" /\ MayAdopt(r, w)
  /\ LET adopted == [r EXCEPT !.model = w.model, !.rate = release]
     IN  /\ records' = (records \ {r}) \union {adopted}
         /\ losers' = (losers \ {r}) \union {adopted}
  /\ touched' = TRUE
  /\ UNCHANGED <<env, release, files, rollup, marker, pc, scope, walk, failed,
                 table, history, unacked, absent, envLeft, faultsLeft>>

AdoptDone ==
  /\ pc = "adopt" /\ pc' = "teammates"
  /\ \A r, w \in records : ~MayAdopt(r, w)
  /\ scope' = CheckLatencyNull(scope)
  /\ UNCHANGED <<env, release, db, walk, failed, touched, table, history,
                 unacked, absent, envLeft, faultsLeft>>

\* resolve_teammate_agent_types: a teammate's role is what the latest
\* canonical dispatch before its first row says; without one it keeps its role.
Dispatches(f) ==
  {d \in records \ losers :
     /\ d.dispatch # NoRole /\ d.hour # NullHour
     /\ files[d.file].proj = files[f].proj
     /\ \A r \in records : r.file = f /\ r.hour # NullHour => d.hour <= r.hour}
LatestDispatches(f) ==
  {d \in Dispatches(f) : \A e \in Dispatches(f) :
     e.hour < d.hour \/ (e.hour = d.hour /\ e.line <= d.line)}
RoleOf(f) ==
  IF f \in Teammates /\ LatestDispatches(f) # {}
  THEN (CHOOSE d \in LatestDispatches(f) : TRUE).dispatch
  ELSE files[f].role

ResolveTeammates ==
  /\ pc = "teammates" /\ pc' = "rollup"
  /\ LET changed == {f \in Stored : RoleOf(f) # files[f].role}
     IN  /\ files' = [f \in Files |->
               IF f \in changed THEN [files[f] EXCEPT !.role = RoleOf(f)]
               ELSE files[f]]
         /\ scope' = IF scope.full THEN scope
                     ELSE AddCells(scope, CellsOf(files, RowsOf(records, changed)))
         /\ touched' = (touched \/ changed # {})
  /\ UNCHANGED <<env, release, records, losers, rollup, marker, walk, failed,
                 table, history, unacked, absent, envLeft, faultsLeft>>

\* The rebuild_* functions, one transaction per table, in order; start_rollups
\* records the scope they use, and the last checks may still turn it full.
RebuildRollup ==
  /\ pc = "rollup"
  /\ rollup' = [rollup EXCEPT ![table] =
       Rebuilt(rollup[table], Facts(files, records, losers, table),
               scope.full, scope.cells)]
  /\ LET started == IF table = 1
                    THEN [scope EXCEPT !.used = IF scope.full THEN "full"
                                                ELSE "incremental"]
                    ELSE scope
     IN  IF table < NTables
         THEN pc' = "rollup" /\ table' = table + 1 /\ scope' = started
         ELSE /\ pc' = "notify" /\ table' = table
              /\ scope' = CheckLatencyNull(CheckDirtyThreshold(started))
  /\ UNCHANGED <<env, release, files, records, losers, marker, walk, failed,
                 touched, history, unacked, absent, envLeft, faultsLeft>>
-----------------------------------------------------------------------------
\* The end of a run.

\* The gate of _run_ingest_locked: invalidate the response cache and broadcast
\* ingest_done when any of the run's counts says that data changed.
Notify ==
  /\ pc = "notify" /\ pc' = "mark"
  /\ announced' = IF touched THEN rollup ELSE announced
  /\ interrupted' = ((interrupted /\ ~touched) \/ unacked)
  /\ UNCHANGED <<env, release, db, scope, walk, failed, touched, table,
                 unacked, absent, envLeft, faultsLeft>>

\* mark_complete, unless a file failed or the rollups used a narrower scope
\* than the run ended with.
MarkComplete ==
  /\ pc = "mark" /\ EndRun
  /\ marker' = IF failed \/ (scope.full /\ scope.used # "full") THEN marker
               ELSE [fp |-> scope.fp, complete |-> TRUE,
                     recent |-> marker.recent \/ scope.used = "full"]
  /\ UNCHANGED <<env, release, files, records, losers, rollup, history,
                 envLeft, faultsLeft>>

\* An abort at a bounded step, or a fatal error: what is committed stays, and
\* neither the gate nor mark_complete is reached.  A persist still in flight
\* lands before the pools close or not at all: Persist before this step.
Interrupt ==
  /\ pc # "idle" /\ faultsLeft > 0 /\ faultsLeft' = faultsLeft - 1
  /\ EndRun /\ interrupted' = TRUE
  /\ UNCHANGED <<env, release, db, announced, envLeft>>

\* The process is killed and started again: its caches start empty, so they
\* hold nothing older than the rollups of now.
Crash ==
  /\ pc # "idle" /\ faultsLeft > 0 /\ faultsLeft' = faultsLeft - 1
  /\ EndRun /\ announced' = rollup /\ interrupted' = TRUE
  /\ UNCHANGED <<env, release, db, envLeft>>
-----------------------------------------------------------------------------
\* The environment.

\* Transcripts only ever get new contents: no object returns to an old etag.
Put(f) ==
  /\ envLeft > 0 /\ bucket[f].v < MaxVersion
  /\ bucket' = [bucket EXCEPT ![f] = [v |-> bucket[f].v + 1, live |-> TRUE]]
  /\ envLeft' = envLeft - 1
  /\ UNCHANGED <<lane, edition, release, db, pc, scope, walk, failed, touched,
                 table, history, unacked, absent, faultsLeft>>

Delete(f) ==
  /\ envLeft > 0 /\ bucket[f].live
  /\ bucket' = [bucket EXCEPT ![f].live = FALSE]
  /\ absent' = IF pc = "fetch" THEN absent \union {f} ELSE absent
  /\ envLeft' = envLeft - 1
  /\ UNCHANGED <<lane, edition, release, db, pc, scope, walk, failed, touched,
                 table, history, unacked, faultsLeft>>

\* Another machine uploads the lane's marker, or its fetch starts failing.
SetMarker(p) ==
  /\ envLeft > 0 /\ p # lane /\ lane' = p /\ LaneFiles # {}
  /\ envLeft' = envLeft - 1
  /\ UNCHANGED <<bucket, edition, release, db, pc, scope, walk, failed,
                 touched, table, history, unacked, absent, faultsLeft>>

\* The operator edits suppressed_models or project_aliases.
OperatorEdit ==
  /\ envLeft > 0 /\ edition + 1 \in Editions /\ edition' = edition + 1
  /\ envLeft' = envLeft - 1
  /\ UNCHANGED <<bucket, lane, release, db, pc, scope, walk, failed, touched,
                 table, history, unacked, absent, faultsLeft>>

\* Another release is deployed (or rolled back to): the process is replaced,
\* in the middle of a run if need be.
Deploy(rel) ==
  /\ envLeft > 0 /\ rel # release /\ release' = rel
  /\ EndRun /\ announced' = rollup
  /\ interrupted' = (interrupted \/ pc # "idle")
  /\ envLeft' = envLeft - 1
  /\ UNCHANGED <<env, db, faultsLeft>>

\* 24 hours pass since the last full rebuild.
DayPasses ==
  /\ envLeft > 0 /\ marker.recent
  /\ marker' = [marker EXCEPT !.recent = FALSE]
  /\ envLeft' = envLeft - 1
  /\ UNCHANGED <<env, release, files, records, losers, rollup, pc, scope,
                 walk, failed, touched, table, history, unacked, absent,
                 faultsLeft>>
-----------------------------------------------------------------------------
FileStep == \E f \in Files :
  Fetch(f) \/ Vanish(f) \/ Persist(f) \/ RepriceBatch(f)
FileFault == \E f \in Files : FetchFail(f) \/ PersistFail(f) \/ PersistUnacked(f)

\* What the run does of itself.
RunStep ==
  \/ BeginScope \/ List \/ FileStep \/ Collect
  \/ DeleteOrphans \/ DeleteOrphanProjects
  \/ PurgeSuppressed \/ RepriceDone \/ FoldAliases
  \/ RecomputeCanonical \/ (\E r, w \in records : Adopt(r, w)) \/ AdoptDone
  \/ ResolveTeammates \/ RebuildRollup
  \/ Notify \/ MarkComplete

EnvStep ==
  \/ \E f \in Files : Put(f) \/ Delete(f)
  \/ \E p \in Projects \union {NoMarker} : SetMarker(p)
  \/ OperatorEdit
  \/ \E rel \in Releases : Deploy(rel)
  \/ DayPasses

Next == RunStep \/ FileFault \/ Interrupt \/ Crash \/ EnvStep

Spec == Init /\ [][Next]_vars

\* The scheduler starts a run every hour and a run that is not interrupted
\* goes on to its end.
FairSpec == Spec /\ WF_vars(RunStep)
-----------------------------------------------------------------------------
\* Properties.

Exact ==
  /\ losers = Losers(records)
  /\ \A t \in Tables : rollup[t] = Facts(files, records, losers, t)

Scope == [full: BOOLEAN, fp: Nat \X Nat, stored: Nat, dirty: SUBSET Files,
          cells: SUBSET Cell, uuids: SUBSET Uuids, latNull: BOOLEAN,
          used: {"none", "full", "incremental"}]
Phases == {"idle", "list", "fetch", "orphans", "projects", "purge", "reprice",
           "aliases", "canonical", "adopt", "teammates", "rollup", "notify",
           "mark"}

EnvTypeOK ==
  /\ bucket \in [Files -> [v: 1..MaxVersion, live: BOOLEAN]]
  /\ lane \in Projects \union {NoMarker}
  /\ edition \in Editions /\ release \in Releases
  /\ envLeft \in Nat /\ faultsLeft \in Nat
  /\ announced \in [Tables -> SUBSET Fact] /\ interrupted \in BOOLEAN
DbTypeOK ==
  /\ files \in [Files -> FileRow \union {NoFile}]
  /\ records \subseteq Record /\ losers \subseteq records
  /\ \A r \in records : files[r.file] # NoFile
  /\ rollup \in [Tables -> SUBSET Fact]
  /\ marker \in [fp: Nat \X Nat, complete: BOOLEAN, recent: BOOLEAN]
RunTypeOK ==
  /\ pc \in Phases /\ scope \in Scope
  /\ laneId \in Projects \union {NoMarker}
  /\ pc = "fetch" /\ LaneFiles # {} => laneId \in Projects
  /\ etags \in [Files -> Nat]
  /\ seen \subseteq Files /\ todo \subseteq Files /\ persisted \subseteq Files
  /\ old \in [Files -> [cells: SUBSET Cell, uuids: SUBSET Uuids,
                        latNull: BOOLEAN]]
  /\ fetched \in [Files -> 0..MaxVersion]
  /\ failed \in BOOLEAN /\ touched \in BOOLEAN /\ table \in Tables
  /\ unacked \in BOOLEAN /\ absent \subseteq Files

\* Every table and every variable of the run holds what its columns or its
\* type allow, and records and losers reference stored files (the foreign key).
TypeOK == EnvTypeOK /\ DbTypeOK /\ RunTypeOK

\* The marker a run trusts to rebuild incrementally tells the truth: while
\* ingest_derived_state says complete, the canonical flags and every rollup
\* are exactly what a full rebuild would make of the stored facts, whatever
\* was interrupted, failed or changed before (begin_scope, mark_complete).
MarkerSound == marker.complete => Exact

\* When a run that got through its rebuild closes, "the rollups and canonical
\* flags now describe what THIS run persisted" (ingest.py:504-507): failed
\* files or not, unless a commit's answer was lost.
CloseDescribesStore == pc \in {"notify", "mark"} /\ ~unacked => Exact

\* A completed marker of the current release and operator tables means that
\* their policy was applied to every stored row, not only to the dirty ones:
\* no row of a suppressed model and no stale price is left (_fingerprint,
\* purge_suppressed's and reprice_stale's incremental forms).
PolicyApplied ==
  marker.complete /\ marker.fp = Fingerprint =>
    \A r \in records : r.model \notin operator.suppress /\ r.rate >= release

\* Dashboards are told of every change: in a deployment none of whose runs was
\* interrupted since the last notice, what the caches were last told to
\* refetch is what the rollups hold between runs (the gate's counts cover
\* every cause of a changed rollup).
AnnouncedUnlessInterrupted == pc = "idle" /\ ~interrupted => announced = rollup

\* A run never drops a file whose object stayed in the bucket from the listing
\* on: a failed fetch or persist is not a deletion (_delete_orphans).
NoLiveFileDeleted ==
  [][\A f \in Files : files[f] # NoFile /\ files'[f] = NoFile => f \in absent]_vars

\* The stored files are the bucket's, at the bucket's versions, holding the
\* rows those versions hold but for the models some operator table suppressed;
\* a file stored by a newer release is left alone after a rollback.
EverSuppressed == UNION {Operator[i].suppress : i \in Editions}
Mirrors ==
  \A f \in Files :
    /\ bucket[f].live <=> files[f] # NoFile
    /\ files[f] # NoFile =>
         \/ files[f].ver > Parser[release]
         \/ /\ files[f].etag = bucket[f].v
            /\ LET rows == {[l |-> c.line, u |-> c.uuid, h |-> c.hour] :
                              c \in Content[f][bucket[f].v]}
                   kept == {[l |-> c.line, u |-> c.uuid, h |-> c.hour] :
                              c \in {d \in Content[f][bucket[f].v] :
                                       d.model \notin EverSuppressed}}
                   stored == {[l |-> r.line, u |-> r.uuid, h |-> r.hour] :
                                r \in RowsOf(records, {f})}
               IN  kept \subseteq stored /\ stored \subseteq rows

\* However runs failed before, once the bucket and the failures are quiet the
\* store comes to mirror the bucket for good, and runs keep completing with a
\* marker that licenses incremental rebuilds ("the next successful run
\* rebuilds all derived state and converges").
Converges == <>[]Mirrors /\ []<>(marker.complete /\ Exact)

\* "On data change, mark cache entries stale and notify SSE clients to refetch"
\* (ingest.py:562): after every successful run the caches and the clients have
\* been told of the rollups as they now are.
SuccessfulRunsAnnounce == pc = "mark" /\ ~failed => announced = rollup

\* The whole run, every fault and change of the environment included, keeps
\* the promise of the marker row as DerivedMarker states it.
Marker == INSTANCE DerivedMarker WITH
  running <- pc # "idle", complete <- marker.complete, exact <- Exact
KeepsMarkerPromise == Marker!Spec

(***************************************************************************)
(* Why: the inductive invariants.  Behind MarkerSound and                  *)
(* CloseDescribesStore is what an incremental run must know, at every      *)
(* point, about what it has changed.                                       *)
(*                                                                         *)
(* Between the first persist and the last rollup the derived state is      *)
(* wrong almost all the time.  It is recoverable because every difference  *)
(* between what a table holds and what it should hold lies in a project-   *)
(* hour, and every wrong canonical flag at a message identity, that the    *)
(* run's scope knows, or will know once it has collected the files it      *)
(* persisted.                                                              *)
(***************************************************************************)
\* What the scope holds once the persisted files are collected.
Reach == IF pc = "fetch"
         THEN AddContribution(scope, Contribution(files, records, persisted),
                              persisted)
         ELSE scope

\* The scope s makes the rebuild recompute project-hour <<p, h>>: the dirty
\* ones, and all of them when an untimed row is involved.
Covers(s, p, h) == IF h = NullHour THEN s.latNull ELSE <<p, h>> \in s.cells

\* ... and everything the stored row r has a part in.
RowCovered(s, fls, r) ==
  /\ Covers(s, fls[r.file].proj, r.hour)
  /\ r.uuid # NoUuid => r.uuid \in s.uuids

\* The scope s covers the contribution (or the scope) c.
Includes(s, c) ==
  c.cells \subseteq s.cells /\ c.uuids \subseteq s.uuids /\ (c.latNull => s.latNull)

\* Membership in exactly one of two sets.
Differ(x, S, T) == (x \in S) # (x \in T)

\* The scope s covers every difference between two aggregates.
Explained(s, A, B) ==
  \A x \in A \union B : Differ(x, A, B) => Covers(s, x.proj, x.hour)

\* Every wrong canonical flag of recs is at one of the identities ids.
FlagsKnown(ids, lost, recs) ==
  \A r \in recs : Differ(r, lost, Losers(recs)) => r.uuid \in ids

BeforePurge == {"list", "fetch", "orphans", "projects", "purge"}
BeforeCanonical == BeforePurge \union {"reprice", "aliases", "canonical"}
BeforeRollup == BeforeCanonical \union {"adopt", "teammates"}

\* A run that must rely on its scope.
Incremental == pc # "idle" /\ ~scope.full /\ ~unacked

\* Tables this run has rebuilt, and those it has not.
Done(t) == pc \in {"notify", "mark"} \/ (pc = "rollup" /\ t < table)
Pending(t) == pc \in BeforeRollup \/ (pc = "rollup" /\ t >= table)
-----------------------------------------------------------------------------
\* Records are keyed by transcript and line (the primary key).
UniqueLines ==
  \A r, s \in records : r.file = s.file /\ r.line = s.line => r = s

\* The marker is complete between runs only, and never after a run that lost
\* an answer.
MarkerInv ==
  /\ marker.complete => pc = "idle" /\ Exact
  /\ unacked => failed

\* A file is queued, then fetched, then persisted, and never two of these.
WalkInv ==
  /\ pc \in {"idle", "list"} =>
       todo = {} /\ persisted = {} /\ \A f \in Files : fetched[f] = 0
  /\ \A f \in Files : fetched[f] # 0 => pc = "fetch" /\ f \notin todo
  /\ \A f \in persisted : f \notin todo /\ fetched[f] = 0

\* The captured contributions of the files not persisted yet are current, and
\* the pool pipeline's are in the scope once submitted.
CaptureInv ==
  pc = "fetch" /\ ~scope.full =>
    \A f \in Files :
      /\ f \in todo \/ fetched[f] # 0 => old[f] = Contribution(files, records, {f})
      /\ Pooled /\ fetched[f] # 0 => Includes(scope, old[f])

\* Every row of a dirty file is covered: purging it leaves no trace behind.
DirtyInv ==
  Incremental /\ pc \in BeforePurge =>
    \A r \in records : r.file \in Reach.dirty => RowCovered(Reach, files, r)

\* Every wrong canonical flag is at a known identity, until all are right.
CanonicalInv ==
  /\ Incremental /\ pc \in BeforeCanonical =>
       FlagsKnown(Reach.uuids, losers, records)
  /\ ~unacked /\ pc \notin BeforeCanonical \union {"idle"} => losers = Losers(records)

\* Every difference of a table still to be rebuilt is in a known project-hour;
\* no untimed row is among them once the last check before the rollups passed.
PendingInv ==
  Incremental =>
    /\ \A t \in Tables : Pending(t) =>
         Explained(Reach, rollup[t], Facts(files, records, losers, t))
    /\ pc \in {"teammates", "rollup"} => ~scope.latNull

\* The rebuild of the tables starts with the first.
TableInv == pc \notin {"rollup", "notify", "mark"} => table = 1

\* The tables already rebuilt are right.
DoneInv ==
  ~unacked => \A t \in Tables :
    Done(t) => rollup[t] = Facts(files, records, losers, t)

SoundInv == /\ UniqueLines /\ MarkerInv /\ WalkInv /\ CaptureInv
            /\ DirtyInv /\ CanonicalInv /\ PendingInv /\ DoneInv

IInv == TypeOK /\ TableInv /\ SoundInv
-----------------------------------------------------------------------------
\* What else a run owes: to the files of the bucket, to the operator's tables
\* and to the dashboards.  Each is inductive together with IInv.

\* A key the listing does not name, or that vanished under the walk, has been
\* seen absent since; while the walk goes on every absence is noticed.
AbsentInv ==
  /\ pc = "fetch" => Files \ Live \subseteq absent
  /\ pc \in {"fetch", "orphans"} => Files \ seen \subseteq absent

\* Everything a run that nothing interrupted has changed raised one of its
\* counts: until then the caches agree with rollups that are exact.
Told == announced = rollup /\ Exact
AnnounceInv ==
  /\ unacked => interrupted
  /\ ~interrupted => Told \/ (pc \notin {"idle", "mark"} /\ touched)

\* No row of rs is of a model that the operator's tables in force suppress.
Purged(rs) == \A r \in rs : r.model \notin operator.suppress
PricedBy(rel) == \A r \in records : r.rate >= rel

\* What a complete marker says of the rows, until the operator's next edit.
MarkerPolicy ==
  /\ marker.fp[1] <= edition
  /\ marker.complete /\ marker.fp[1] = edition =>
       Purged(records) /\ PricedBy(marker.fp[2])

\* What the run in progress has seen to, unless the tables changed under it:
\* before the purge the rows of its dirty files alone may be suppressed ones.
RunPolicy ==
  pc # "idle" =>
    /\ scope.fp[1] <= edition /\ scope.fp[2] = release
    /\ scope.fp[1] = edition /\ ~unacked =>
         IF pc \in BeforePurge
         THEN ~scope.full => Purged({r \in records : r.file \notin Reach.dirty})
         ELSE Purged(records)
    /\ pc \notin BeforePurge \union {"reprice"} => PricedBy(release)

PolicyInv == MarkerPolicy /\ RunPolicy
=============================================================================
