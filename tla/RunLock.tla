------------------------------ MODULE RunLock ------------------------------
(***************************************************************************)
(* Who may run an ingest, and what becomes of a run's ingest_runs row and  *)
(* of the derived-state marker when processes stop, die, or lose the       *)
(* database-wide lock.  Several app instances share one database; in each, *)
(* scheduler and admin threads start runs.  A run holds its process's      *)
(* _RUN_LOCK and a session-scoped advisory lock on a dedicated connection; *)
(* the server drops the latter the moment that connection ends, whether    *)
(* the run knows it or not.                                                *)
(*                                                                         *)
(* ingest.py (run_ingest, _run_ingest_locked), ingest_lockwatch.py,        *)
(* ingest_runs.py, app.py (lifespan).  What a run persists and rebuilds is *)
(* IngestRun's; here it is one bit: does the derived state describe it?    *)
(***************************************************************************)
EXTENDS Naturals, FiniteSets

CONSTANTS
  Instances,     \* app processes that share the database
  Threads,       \* their threads that start runs
  Home,          \* Home[t]: the instance of thread t
  NoThread,
  MaxFaults      \* bound: lock losses, kills, database errors and graceful stops

ASSUME RunLockAssumption ==
  /\ Home \in [Threads -> Instances] /\ NoThread \notin Threads
  /\ MaxFaults \in Nat

VARIABLES
  proc,          \* proc[i]: serving, a step of its teardown, or gone
  shutdown,      \* shutdown[i]: _SHUTDOWN
  runLock,       \* runLock[i]: the holder of _RUN_LOCK
  progress,      \* progress[i]: whose row the progress readout's run_id names
  dbLock,        \* the holder of the advisory lock
  pc,            \* pc[t]: where t's run is
  conn,          \* conn[t]: its dedicated connection
  checked,       \* checked[t]: it passed the check before its next step
  ok,            \* ok[t]: neither aborted nor fatal
  full,          \* full[t]: it rebuilds everything
  mine,          \* mine[t]: it stored rows the derived state does not describe
  rows,          \* rows[t]: t's last row in ingest_runs, by who closed it
  complete,      \* ingest_derived_state.complete
  left,          \* an earlier run left such rows behind
  late,          \* late[t]: guarded steps t took since it lost the lock
  lost,          \* some run has lost its lock
  faultsLeft

process == <<proc, shutdown, runLock, progress>>
run == <<pc, conn, checked, ok, full, mine>>
bounds == <<lost, faultsLeft>>
vars == <<process, dbLock, run, rows, complete, left, late, bounds>>

Gone == {"stopped", "killed"}
Alive(t) == proc[Home[t]] \notin Gone
ThreadsOf(i) == {t \in Threads : Home[t] = i}
\* A row whose finished_at is NULL; an orphan's process is gone.
Unfinished(t) == rows[t] \in {"open", "orphan"}

Init ==
  /\ proc = [i \in Instances |-> "up"]
  /\ shutdown = [i \in Instances |-> FALSE]
  /\ runLock = [i \in Instances |-> NoThread]
  /\ progress = [i \in Instances |-> NoThread]
  /\ dbLock = NoThread
  /\ pc = [t \in Threads |-> "idle"] /\ conn = [t \in Threads |-> "none"]
  /\ checked = [t \in Threads |-> FALSE] /\ ok = [t \in Threads |-> TRUE]
  /\ full = [t \in Threads |-> FALSE] /\ mine = [t \in Threads |-> FALSE]
  /\ rows = [t \in Threads |-> "none"]
  /\ complete = FALSE /\ left = FALSE
  /\ late = [t \in Threads |-> 0]
  /\ lost = FALSE /\ faultsLeft = MaxFaults

Goto(t, where) == pc' = [pc EXCEPT ![t] = where]
-----------------------------------------------------------------------------
\* Taking the locks (run_ingest).  A run that is skipped does nothing.

Tick(t) ==
  /\ pc[t] = "idle" /\ proc[Home[t]] = "up" /\ ~shutdown[Home[t]]
  /\ Goto(t, "lock")
  /\ UNCHANGED <<process, dbLock, conn, checked, ok, full, mine, rows,
                 complete, left, late, bounds>>

TakeRunLock(t) ==
  /\ pc[t] = "lock" /\ Alive(t)
  /\ IF runLock[Home[t]] = NoThread
     THEN runLock' = [runLock EXCEPT ![Home[t]] = t] /\ Goto(t, "connect")
     ELSE Goto(t, "idle") /\ UNCHANGED runLock
  /\ UNCHANGED <<proc, shutdown, progress, dbLock, conn, checked, ok, full,
                 mine, rows, complete, left, late, bounds>>

\* Mutant: the answer of pg_try_advisory_lock is not looked at.
ConnectRegardless(t) ==
  /\ pc[t] = "connect" /\ Alive(t)
  /\ dbLock' = IF dbLock = NoThread THEN t ELSE dbLock
  /\ conn' = [conn EXCEPT ![t] = "open"] /\ Goto(t, "recheck")
  /\ UNCHANGED <<process, checked, ok, full, mine, rows, complete, left, late,
                 bounds>>

\* Connect and pg_try_advisory_lock; without the lock the connection closes.
Connect(t) ==
  /\ pc[t] = "connect" /\ Alive(t)
  /\ IF dbLock = NoThread
     THEN /\ dbLock' = t /\ conn' = [conn EXCEPT ![t] = "open"]
          /\ Goto(t, "recheck")
     ELSE Goto(t, "release") /\ UNCHANGED <<dbLock, conn>>
  /\ UNCHANGED <<process, checked, ok, full, mine, rows, complete, left, late,
                 bounds>>

ConnectFail(t) ==
  /\ pc[t] = "connect" /\ Alive(t)
  /\ faultsLeft > 0 /\ faultsLeft' = faultsLeft - 1
  /\ Goto(t, "release")
  /\ UNCHANGED <<process, dbLock, conn, checked, ok, full, mine, rows,
                 complete, left, late, lost>>

\* "landed while waiting on the locks".
Recheck(t) ==
  /\ pc[t] = "recheck" /\ Alive(t)
  /\ Goto(t, IF shutdown[Home[t]] THEN "unlock" ELSE "sweep")
  /\ UNCHANGED <<process, dbLock, conn, checked, ok, full, mine, rows,
                 complete, left, late, bounds>>
-----------------------------------------------------------------------------
\* The run's row, opened.

\* Mutant: crash leftovers stay.
SweepNothing(t) ==
  /\ pc[t] = "sweep" /\ Alive(t) /\ Goto(t, "open")
  /\ UNCHANGED <<process, dbLock, conn, checked, ok, full, mine, rows,
                 complete, left, late, bounds>>

\* sweep_stale_runs: every unfinished row is taken for a crash leftover.
SweepStaleRuns(t) ==
  /\ pc[t] = "sweep" /\ Alive(t) /\ Goto(t, "open")
  /\ rows' = [u \in Threads |-> IF Unfinished(u) THEN "sweep" ELSE rows[u]]
  /\ UNCHANGED <<process, dbLock, conn, checked, ok, full, mine, complete,
                 left, late, bounds>>

\* _open_run; the run_id of t's previous row names nothing unfinished now.
OpenRun(t) ==
  /\ pc[t] = "open" /\ Alive(t) /\ Goto(t, "progress")
  /\ rows' = [rows EXCEPT ![t] = "open"]
  /\ progress' = [progress EXCEPT ![Home[t]] = IF @ = t THEN NoThread ELSE @]
  /\ UNCHANGED <<proc, shutdown, runLock, dbLock, conn, checked, ok, full,
                 mine, complete, left, late, bounds>>

SetProgress(t) ==
  /\ pc[t] = "progress" /\ Alive(t) /\ Goto(t, "begin")
  /\ progress' = [progress EXCEPT ![Home[t]] = t]
  /\ ok' = [ok EXCEPT ![t] = TRUE]
  /\ UNCHANGED <<proc, shutdown, runLock, dbLock, conn, checked, full, mine,
                 rows, complete, left, late, bounds>>
-----------------------------------------------------------------------------
\* The run's work.

\* Mutant: the marker is not made incomplete first.
BeginScopeLeaving(t) ==
  /\ pc[t] = "begin" /\ Alive(t) /\ Goto(t, "walk")
  /\ full' = [full EXCEPT ![t] = ~complete]
  /\ UNCHANGED <<process, dbLock, conn, checked, ok, mine, rows, complete,
                 left, late, bounds>>

\* begin_scope; another reason than an incomplete marker may call for full.
BeginScope(t) ==
  /\ pc[t] = "begin" /\ Alive(t) /\ Goto(t, "walk")
  /\ \E more \in BOOLEAN : full' = [full EXCEPT ![t] = ~complete \/ more]
  /\ complete' = FALSE
  /\ UNCHANGED <<process, dbLock, conn, checked, ok, mine, rows, left, late,
                 bounds>>

Guarded == {"walk", "rollup"}

\* Mutant: only the shutdown request is looked at.
CheckShutdownOnly(t) ==
  /\ pc[t] \in Guarded /\ ~checked[t] /\ Alive(t)
  /\ IF shutdown[Home[t]]
     THEN Goto(t, "close") /\ ok' = [ok EXCEPT ![t] = FALSE] /\ UNCHANGED checked
     ELSE checked' = [checked EXCEPT ![t] = TRUE] /\ UNCHANGED <<pc, ok>>
  /\ UNCHANGED <<process, dbLock, conn, full, mine, rows, complete, left, late,
                 bounds>>

\* _check_shutdown, check_lock_alive, before a bounded step.
Check(t) ==
  /\ pc[t] \in Guarded /\ ~checked[t] /\ Alive(t)
  /\ IF shutdown[Home[t]] \/ conn[t] = "lost"
     THEN Goto(t, "close") /\ ok' = [ok EXCEPT ![t] = FALSE] /\ UNCHANGED checked
     ELSE checked' = [checked EXCEPT ![t] = TRUE] /\ UNCHANGED <<pc, ok>>
  /\ UNCHANGED <<process, dbLock, conn, full, mine, rows, complete, left, late,
                 bounds>>

\* A guarded step of t, which may have lost the lock since its check.
Step(t) ==
  /\ checked[t] /\ Alive(t) /\ checked' = [checked EXCEPT ![t] = FALSE]
  /\ late' = [late EXCEPT ![t] = IF conn[t] = "lost" THEN @ + 1 ELSE @]

\* A bounded step of the walk commits files.
Persist(t) ==
  /\ pc[t] = "walk" /\ Step(t)
  /\ mine' = [mine EXCEPT ![t] = TRUE]
  /\ UNCHANGED <<process, dbLock, pc, conn, ok, full, rows, complete, left,
                 bounds>>

WalkDone(t) ==
  /\ pc[t] = "walk" /\ Step(t) /\ Goto(t, "rollup")
  /\ UNCHANGED <<process, dbLock, conn, ok, full, mine, rows, complete, left,
                 bounds>>

\* The rollups: a full rebuild describes whatever is stored by now, an
\* incremental one only what this run dirtied.
Rebuild(t) ==
  /\ pc[t] = "rollup" /\ Step(t) /\ Goto(t, "close")
  /\ IF full[t] THEN mine' = [u \in Threads |-> FALSE] /\ left' = FALSE
     ELSE mine' = [mine EXCEPT ![t] = FALSE] /\ UNCHANGED left
  /\ UNCHANGED <<process, dbLock, conn, ok, full, rows, complete, bounds>>

\* An exception the run books as fatal.
Fatal(t) ==
  /\ pc[t] = "begin" \/ (pc[t] \in Guarded /\ checked[t])
  /\ Alive(t) /\ faultsLeft > 0 /\ faultsLeft' = faultsLeft - 1
  /\ Goto(t, "close") /\ ok' = [ok EXCEPT ![t] = FALSE]
  /\ checked' = [checked EXCEPT ![t] = FALSE]
  /\ UNCHANGED <<process, dbLock, conn, full, mine, rows, complete, left, late,
                 lost>>
-----------------------------------------------------------------------------
\* The end of a run.  Nothing here looks at the lock again.

\* _close_run, then mark_complete unless aborted, fatal or an object failed.
CloseRun(t) ==
  /\ pc[t] = "close" /\ Alive(t)
  /\ rows' = [rows EXCEPT ![t] = "run"]
  /\ \/ ok[t] /\ Goto(t, "mark")
     \/ Goto(t, "unlock")
  /\ UNCHANGED <<process, dbLock, conn, checked, ok, full, mine, complete,
                 left, late, bounds>>

CloseFail(t) ==
  /\ pc[t] = "close" /\ Alive(t) /\ faultsLeft > 0 /\ faultsLeft' = faultsLeft - 1
  /\ Goto(t, "unlock")
  /\ UNCHANGED <<process, dbLock, conn, checked, ok, full, mine, rows,
                 complete, left, late, lost>>

MarkComplete(t) ==
  /\ pc[t] = "mark" /\ Alive(t) /\ Goto(t, "unlock")
  /\ complete' = TRUE
  /\ UNCHANGED <<process, dbLock, conn, checked, ok, full, mine, rows, left,
                 late, bounds>>

\* Forget t's run; what it stored and did not rebuild stays stored.
Unlock(t) ==
  /\ pc[t] = "unlock" /\ Alive(t) /\ Goto(t, "release")
  /\ conn' = [conn EXCEPT ![t] = "none"]
  /\ dbLock' = IF dbLock = t THEN NoThread ELSE dbLock
  /\ left' = (left \/ mine[t]) /\ mine' = [mine EXCEPT ![t] = FALSE]
  /\ full' = [full EXCEPT ![t] = FALSE] /\ ok' = [ok EXCEPT ![t] = TRUE]
  /\ late' = [late EXCEPT ![t] = 0]
  /\ UNCHANGED <<process, checked, rows, complete, bounds>>

Release(t) ==
  /\ pc[t] = "release" /\ Alive(t) /\ Goto(t, "idle")
  /\ runLock' = [runLock EXCEPT ![Home[t]] = NoThread]
  /\ UNCHANGED <<proc, shutdown, progress, dbLock, conn, checked, ok, full,
                 mine, rows, complete, left, late, bounds>>
-----------------------------------------------------------------------------
\* Teardown of a process (app.py's lifespan), and ends nobody asked for.

RequestShutdown(i) ==
  /\ proc[i] = "up" /\ faultsLeft > 0 /\ faultsLeft' = faultsLeft - 1
  /\ proc' = [proc EXCEPT ![i] = "asked"]
  /\ shutdown' = [shutdown EXCEPT ![i] = TRUE]
  /\ UNCHANGED <<runLock, progress, dbLock, run, rows, complete, left, late,
                 lost>>

\* What a run does whose statement is cancelled: the steps of the work end as
\* an abort, the others raise out of the run.
InStatement(t) == \/ pc[t] \in {"sweep", "open", "begin", "close", "mark"}
                  \/ pc[t] \in Guarded /\ checked[t]
AfterCancel(t) == IF pc[t] \in Guarded \union {"begin"} THEN "close" ELSE "unlock"

\* cancel_viz_queries: some threads are inside a statement just now.
CancelQueries(i) ==
  /\ proc[i] = "asked" /\ proc' = [proc EXCEPT ![i] = "cancelled"]
  /\ \E C \in SUBSET {t \in ThreadsOf(i) : InStatement(t)} :
       /\ pc' = [t \in Threads |-> IF t \in C THEN AfterCancel(t) ELSE pc[t]]
       /\ ok' = [t \in Threads |-> ok[t] /\ t \notin C]
       /\ checked' = [t \in Threads |-> checked[t] /\ t \notin C]
  /\ UNCHANGED <<shutdown, runLock, progress, dbLock, conn, full, mine, rows,
                 complete, left, late, bounds>>

\* wait_for_run got the lock in time: clear_shutdown.
WaitForRun(i) ==
  /\ proc[i] = "cancelled" /\ runLock[i] = NoThread
  /\ proc' = [proc EXCEPT ![i] = "waited"]
  /\ shutdown' = [shutdown EXCEPT ![i] = FALSE]
  /\ UNCHANGED <<runLock, progress, dbLock, run, rows, complete, left, late,
                 bounds>>

\* Mutant: the lock is released although it was not acquired.
WaitTimeoutReleasing(i) ==
  /\ proc[i] = "cancelled" /\ runLock[i] # NoThread
  /\ proc' = [proc EXCEPT ![i] = "timedout"]
  /\ runLock' = [runLock EXCEPT ![i] = NoThread]
  /\ UNCHANGED <<shutdown, progress, dbLock, run, rows, complete, left, late,
                 bounds>>

WaitTimeout(i) ==
  /\ proc[i] = "cancelled" /\ runLock[i] # NoThread
  /\ proc' = [proc EXCEPT ![i] = "timedout"]
  /\ UNCHANGED <<shutdown, runLock, progress, dbLock, run, rows, complete,
                 left, late, bounds>>

\* Mutant: the UPDATE lacks "AND finished_at IS NULL".
CloseAnyRun(i) ==
  /\ proc[i] = "timedout" /\ proc' = [proc EXCEPT ![i] = "waited"]
  /\ rows' = [t \in Threads |-> IF progress[i] = t THEN "stop" ELSE rows[t]]
  /\ UNCHANGED <<shutdown, runLock, progress, dbLock, run, complete, left,
                 late, bounds>>

\* close_open_run: only a row that is still open.
CloseOpenRun(i) ==
  /\ proc[i] = "timedout" /\ proc' = [proc EXCEPT ![i] = "waited"]
  /\ rows' = [t \in Threads |-> IF progress[i] = t /\ rows[t] = "open"
                                THEN "stop" ELSE rows[t]]
  /\ UNCHANGED <<shutdown, runLock, progress, dbLock, run, complete, left,
                 late, bounds>>

\* The process ends, its threads with it; the server frees its locks.
EndProcess(i, how) ==
  /\ proc' = [proc EXCEPT ![i] = how]
  /\ shutdown' = [shutdown EXCEPT ![i] = FALSE]
  /\ runLock' = [runLock EXCEPT ![i] = NoThread]
  /\ progress' = [progress EXCEPT ![i] = NoThread]
  /\ dbLock' = IF dbLock \in ThreadsOf(i) THEN NoThread ELSE dbLock
  /\ pc' = [t \in Threads |-> IF Home[t] = i THEN "idle" ELSE pc[t]]
  /\ conn' = [t \in Threads |-> IF Home[t] = i THEN "none" ELSE conn[t]]
  /\ checked' = [t \in Threads |-> checked[t] /\ Home[t] # i]
  /\ ok' = [t \in Threads |-> ok[t] \/ Home[t] = i]
  /\ full' = [t \in Threads |-> full[t] /\ Home[t] # i]
  /\ mine' = [t \in Threads |-> mine[t] /\ Home[t] # i]
  /\ left' = (left \/ \E t \in ThreadsOf(i) : mine[t])
  /\ late' = [t \in Threads |-> IF Home[t] = i THEN 0 ELSE late[t]]

Exit(i) ==
  /\ proc[i] = "waited" /\ EndProcess(i, "stopped")
  /\ UNCHANGED <<rows, complete, bounds>>

Kill(i) ==
  /\ proc[i] \notin Gone /\ faultsLeft > 0 /\ faultsLeft' = faultsLeft - 1
  /\ EndProcess(i, "killed")
  /\ UNCHANGED <<rows, complete, lost>>

Boot(i) ==
  /\ proc[i] \in Gone /\ proc' = [proc EXCEPT ![i] = "up"]
  /\ rows' = [t \in Threads |-> IF Home[t] = i /\ rows[t] = "open"
                                THEN "orphan" ELSE rows[t]]
  /\ UNCHANGED <<shutdown, runLock, progress, dbLock, run, complete, left,
                 late, bounds>>

\* The lock connection dies (a failover, a network cut, an idle timeout).
LoseLock(t) ==
  /\ dbLock = t /\ faultsLeft > 0 /\ faultsLeft' = faultsLeft - 1
  /\ dbLock' = NoThread /\ conn' = [conn EXCEPT ![t] = "lost"] /\ lost' = TRUE
  /\ UNCHANGED <<process, pc, checked, ok, full, mine, rows, complete, left,
                 late>>
-----------------------------------------------------------------------------
RunStep(t) ==
  \/ TakeRunLock(t) \/ Connect(t) \/ Recheck(t)
  \/ SweepStaleRuns(t) \/ OpenRun(t) \/ SetProgress(t)
  \/ BeginScope(t) \/ Check(t) \/ WalkDone(t) \/ Rebuild(t)
  \/ CloseRun(t) \/ MarkComplete(t) \/ Unlock(t) \/ Release(t)

Teardown(i) ==
  CancelQueries(i) \/ WaitForRun(i) \/ WaitTimeout(i) \/ CloseOpenRun(i) \/ Exit(i)

Next ==
  \/ \E t \in Threads :
       \/ Tick(t) \/ RunStep(t) \/ Persist(t)
       \/ ConnectFail(t) \/ Fatal(t) \/ CloseFail(t) \/ LoseLock(t)
  \/ \E i \in Instances :
       RequestShutdown(i) \/ Teardown(i) \/ Kill(i) \/ Boot(i)

Spec == Init /\ [][Next]_vars

\* The cron job fires every hour; a run's thread and a teardown go on; the
\* service manager restarts what ended; a walk has finitely many files.
FairSpec ==
  /\ Spec
  /\ \A t \in Threads : WF_vars(Tick(t)) /\ WF_vars(RunStep(t)) /\ SF_vars(WalkDone(t))
  /\ \A i \in Instances : WF_vars(Teardown(i)) /\ WF_vars(Boot(i))
-----------------------------------------------------------------------------
\* Properties.

Working == {"sweep", "open", "progress", "begin", "walk", "rollup", "close", "mark"}
InRun(t) == pc[t] \in Working

\* Every variable holds what its column or the code's state allows.
TypeOK ==
  /\ proc \in [Instances -> {"up", "asked", "cancelled", "timedout", "waited"}
                              \union Gone]
  /\ shutdown \in [Instances -> BOOLEAN]
  /\ runLock \in [Instances -> Threads \union {NoThread}]
  /\ progress \in [Instances -> Threads \union {NoThread}]
  /\ dbLock \in Threads \union {NoThread}
  /\ pc \in [Threads -> Working \union {"idle", "lock", "connect", "recheck",
                                        "unlock", "release"}]
  /\ conn \in [Threads -> {"none", "open", "lost"}]
  /\ checked \in [Threads -> BOOLEAN] /\ ok \in [Threads -> BOOLEAN]
  /\ full \in [Threads -> BOOLEAN] /\ mine \in [Threads -> BOOLEAN]
  /\ rows \in [Threads -> {"none", "open", "orphan", "run", "stop", "sweep"}]
  /\ complete \in BOOLEAN /\ left \in BOOLEAN /\ late \in [Threads -> Nat]
  /\ lost \in BOOLEAN /\ faultsLeft \in Nat

\* A thread past TakeRunLock holds its process's lock; one past Connect has the
\* dedicated connection, which holds the advisory lock until it is lost.  So
\* one slot per process can hold the connection check_lock_alive probes
\* ("_RUN_LOCK admits one run at a time per process").
LocksNest ==
  \A t \in Threads :
    /\ runLock[Home[t]] = t <=> pc[t] \notin {"idle", "lock"}
    /\ conn[t] # "none" <=> pc[t] \in Working \union {"recheck", "unlock"}
    /\ dbLock = t <=> conn[t] = "open"

\* Every variable has its type, and the locks nest.
LockInv == TypeOK /\ LocksNest

\* Two runs work on the database at once only if one of them lost its lock
\* (_db_run_lock: "a process-local lock cannot serialize app instances").
RunsAlone ==
  \A t, u \in Threads : InRun(t) /\ InRun(u) /\ t # u =>
    conn[t] = "lost" \/ conn[u] = "lost"

\* A run that lost the lock ends at its next check: it commits at most the one
\* guarded step it had checked for (check_lock_alive).
LateWorkBounded == \A t \in Threads : late[t] <= 1

\* Once a run's own close is written, neither a teardown nor a sweep rewrites
\* it: only the thread's next run has another row (close_open_run: "the run
\* thread's own close wins on either side").
RunCloseWins ==
  [][\A t \in Threads : rows[t] = "run" /\ rows'[t] # "run" => pc[t] = "open"]_vars

\* While no run ever lost its lock, a complete marker means that the derived
\* state describes every row any run of any instance stored, whichever of them
\* were stopped or killed (begin_scope commits the marker incomplete first).
MarkerHonest == complete => ~left /\ \A t \in Threads : ~mine[t]
MarkerHonestUnlessLost == ~lost => MarkerHonest

\* Every unfinished row is closed in the end: by its run, by the teardown or by
\* the sweep of a later run.
RowsFinish == \A t \in Threads : Unfinished(t) ~> ~Unfinished(t)

\* README.md:462-463 "the next successful run rebuilds all derived state and
\* converges": what a run leaves behind when it ends is never hidden behind a
\* complete marker, which the next run would trust.
LeftoversAreRebuilt ==
  complete /\ (\A t \in Threads : pc[t] = "idle") => ~left

\* app.py:122 "Nothing can start a run in this process any more" (once the wait
\* succeeded) and app.py:126-127 "so the stop never leaves finished_at NULL": a
\* process that stopped gracefully left no row open.
StopClosesRows ==
  \A t \in Threads : proc[Home[t]] = "stopped" => rows[t] # "open"
=============================================================================
