------------------------------- MODULE Vacuum -------------------------------
(***************************************************************************)
(* The vacuums of a run (ingest_vacuum.py): the module's counters, which   *)
(* outlive a run, the interleave of a full reparse and the tail.  A run    *)
(* may be stopped or fail at any step, a statement too.                    *)
(***************************************************************************)
EXTENDS Integers, FiniteSets, FiniteSetsExt

CONSTANTS
  TablesOf,        \* _PHASE_TABLES: the tables that each phase rewrites
  ReparseTables,   \* REPARSE_TABLES
  RowsPerFile,     \* REPARSE_ROWS_PER_FILE
  MinWritten,      \* VACUUM_MIN_WRITTEN
  BatchFiles,      \* VACUUM_BATCH_FILES
  MaxRuns, MaxFiles, MaxRows   \* bounds: runs, files of a run, rows of a phase

VARIABLES
  counters,   \* _FILES_CHURNED, _PHASE_ROWS and whether _WARNING is set
  batch,      \* the run's BatchVacuum
  walk,       \* the run: its stage, the files it reparsed, the tables it rewrote
  named,      \* history: the tables of the tail's statement
  failing,    \* history: a statement of this run failed
  tries,      \* history: the interleaved vacuums of this run
  vacuumRuns

vacuumVars == <<counters, batch, walk, named, failing, tries, vacuumRuns>>

Phases == DOMAIN TablesOf
NoRows == [p \in Phases |-> 0]

VacuumTypeOK ==
  /\ counters \in [files : 0..MaxFiles + 1, rows : [Phases -> 0..MaxRows], warning : BOOLEAN]
  /\ batch \in [enabled : BOOLEAN, firedAt : 0..MaxFiles]
  /\ walk \in [stage : {"ended", "files", "phases", "tail", "finish"}, reparsed : 0..MaxFiles,
               done : SUBSET Phases, wrote : SUBSET (ReparseTables \cup UNION {TablesOf[p] : p \in Phases})]
  /\ named \subseteq ReparseTables \cup UNION {TablesOf[p] : p \in Phases}
  /\ failing \in BOOLEAN /\ tries \in Nat

VacuumInit ==
  /\ counters = [files |-> 0, rows |-> NoRows, warning |-> FALSE]
  /\ batch = [enabled |-> FALSE, firedAt |-> 0]
  /\ walk = [stage |-> "ended", reparsed |-> 0, done |-> {}, wrote |-> {}]
  /\ named = {} /\ failing = FALSE /\ tries = 0 /\ vacuumRuns = 0

\* begin_run, and the BatchVacuum of the walk, enabled by a full scope.
BeginKeepingCounts(full) == \* Mutant: the counters of an aborted run stay.
  /\ walk.stage = "ended" /\ vacuumRuns < MaxRuns
  /\ vacuumRuns' = vacuumRuns + 1
  /\ counters' = [counters EXCEPT !.warning = FALSE]
  /\ batch' = [enabled |-> full, firedAt |-> 0]
  /\ walk' = [stage |-> "files", reparsed |-> 0, done |-> {}, wrote |-> {}]
  /\ named' = {} /\ failing' = FALSE /\ tries' = 0
BeginVacuums(full) ==
  /\ walk.stage = "ended" /\ vacuumRuns < MaxRuns
  /\ vacuumRuns' = vacuumRuns + 1
  /\ counters' = [files |-> 0, rows |-> NoRows, warning |-> FALSE]
  /\ batch' = [enabled |-> full, firedAt |-> 0]
  /\ walk' = [stage |-> "files", reparsed |-> 0, done |-> {}, wrote |-> {}]
  /\ named' = {} /\ failing' = FALSE /\ tries' = 0

\* run_vacuum never raises: it did it, it failed, or the stop came first.
\* Only a failure is booked, and the first one is kept.
Outcomes == {"done", "failed", "stopped"}
Book(c, outcome) == [c EXCEPT !.warning = @ \/ outcome = "failed"]

\* BatchVacuum.maybe: the state after a vacuum that is due.
Fired(b, reparsed, outcome) == [enabled |-> outcome = "done", firedAt |-> reparsed]
FiredAtOnce(b, reparsed) ==  \* Mutant: the cadence is counted from the start of the run.
  b.enabled /\ reparsed >= BatchFiles
Due(b, reparsed) == b.enabled /\ reparsed - b.firedAt >= BatchFiles

\* A batch of files is persisted, and the next one is to come.
PersistBatch(n, outcome) ==
  /\ walk.stage = "files" /\ walk.reparsed + n <= MaxFiles
  /\ walk' = [walk EXCEPT !.reparsed = @ + n, !.wrote = @ \cup IF n > 0 THEN ReparseTables ELSE {}]
  /\ LET fires == Due(batch, walk.reparsed + n) IN
     /\ batch' = IF fires THEN Fired(batch, walk.reparsed + n, outcome) ELSE batch
     /\ counters' = IF fires THEN Book(counters, outcome) ELSE counters
     /\ failing' = (failing \/ (fires /\ outcome = "failed"))
     /\ tries' = IF fires THEN tries + 1 ELSE tries
     /\ fires \/ outcome = "done"
  /\ UNCHANGED <<named, vacuumRuns>>

\* note_files: the walk is over; it also inserted, deleted or re-keyed others.
NoteFiles(others) ==
  /\ walk.stage = "files"
  /\ counters' = [counters EXCEPT !.files = @ + walk.reparsed + others]
  /\ walk' = [walk EXCEPT !.stage = "phases", !.wrote = @ \cup IF others > 0 THEN ReparseTables ELSE {}]
  /\ UNCHANGED <<batch, named, failing, tries, vacuumRuns>>

\* note_phase: a rebuild phase has written some rows.
NotePhase(p, rows) ==
  /\ walk.stage = "phases" /\ p \notin walk.done
  /\ counters' = [counters EXCEPT !.rows[p] = @ + rows]
  /\ walk' = [walk EXCEPT !.done = @ \cup {p}, !.wrote = @ \cup IF rows > 0 THEN TablesOf[p] ELSE {},
                          !.stage = IF walk.done \cup {p} = Phases THEN "tail" ELSE "phases"]
  /\ UNCHANGED <<batch, named, failing, tries, vacuumRuns>>

Touched(c) ==
  (IF c.files > 0 THEN ReparseTables ELSE {})
    \cup UNION {TablesOf[p] : p \in {q \in Phases : c.rows[q] > 0}}
Written(c) == c.files * RowsPerFile + MapThenSumSet(LAMBDA p : c.rows[p], Phases)

\* vacuum_after_run takes the counters and vacuums what they name, or leaves
\* a small run to autovacuum.
TailVacuum(outcome) ==
  /\ walk.stage = "tail"
  /\ counters' = [Book(counters, outcome) EXCEPT !.files = 0, !.rows = NoRows]
  /\ LET vacuums == Written(counters) >= MinWritten /\ Touched(counters) # {} IN
     /\ vacuums \/ outcome = "stopped"
     /\ named' = IF vacuums THEN Touched(counters) ELSE {}
     /\ failing' = (failing \/ outcome = "failed")
  /\ walk' = [walk EXCEPT !.stage = "finish"]
  /\ UNCHANGED <<batch, tries, vacuumRuns>>

\* The run is over: aborted or failed at any step, or finished.  Its summary
\* takes the warning.
EndVacuums ==
  /\ walk.stage # "ended"
  /\ walk' = [walk EXCEPT !.stage = "ended"]
  /\ counters' = [counters EXCEPT !.warning = FALSE]
  /\ UNCHANGED <<batch, named, failing, tries, vacuumRuns>>

VacuumNext ==
  \/ \E full \in BOOLEAN : BeginVacuums(full)
  \/ \E n \in 0..2, outcome \in Outcomes : PersistBatch(n, outcome)
  \/ \E others \in 0..1 : NoteFiles(others)
  \/ \E p \in Phases, rows \in 0..MaxRows : NotePhase(p, rows)
  \/ \E outcome \in Outcomes : TailVacuum(outcome)
  \/ EndVacuums

(***************************************************************************)
(* Properties.                                                             *)
(***************************************************************************)
\* vacuum_after_run: the statement names the tables that this run rewrote, all
\* of them and no others, whatever an earlier run left in the counters.
TailNamesItsOwn == walk.stage = "finish" => named \in {{}, walk.wrote}

\* BatchVacuum: one vacuum for each BatchFiles files at most, and none after
\* one that failed or was stopped; a warning is one of this run's statements.
InterleaveIsBounded ==
  /\ tries * BatchFiles <= walk.reparsed
  /\ walk.stage # "ended" => (counters.warning <=> failing)
(***************************************************************************)
(* What these rest on: nothing is counted before the walk is over, nor of  *)
(* a phase before it is done; from then on the counters name what was      *)
(* written, until the tail takes them; and each interleaved vacuum has     *)
(* BatchFiles files of its own.                                            *)
(***************************************************************************)
VacuumInv ==
  /\ walk.stage = "files" =>
       /\ counters.files = 0 /\ counters.rows = NoRows /\ walk.done = {}
       /\ walk.wrote = IF walk.reparsed > 0 THEN ReparseTables ELSE {}
  /\ walk.stage \in {"phases", "tail"} => walk.wrote = Touched(counters)
  /\ walk.stage = "phases" => \A p \in Phases \ walk.done : counters.rows[p] = 0
  /\ tries * BatchFiles <= batch.firedAt /\ batch.firedAt <= walk.reparsed
=============================================================================
