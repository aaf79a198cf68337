------------------------------- MODULE MCLive -------------------------------
(***************************************************************************)
(* What must happen in the end, of two parts that fairness drives: the     *)
(* store and the marker of one deployment's runs, and the ingest_runs rows *)
(* of two app instances.  "part" is the one that a behaviour is of; the    *)
(* other's variables are Off.                                              *)
(***************************************************************************)
EXTENDS MCIngestRun

CONSTANTS i1, i2, cron1, cron2, Instances, Threads, NoThread, MaxLockFaults

VARIABLES
  part,
  proc, shutdown, runLock, progress, dbLock, conn, runPc, checked, ok, full,
  mine, rows, complete, left, late, lost, lockFaults

ingestVars == vars
lockVars ==
  <<proc, shutdown, runLock, progress, dbLock, conn, runPc, checked, ok, full,
    mine, rows, complete, left, late, lost, lockFaults>>

Homes == [t \in Threads |-> IF t = cron2 THEN i2 ELSE i1]
L == INSTANCE RunLock WITH
       Home <- Homes, MaxFaults <- MaxLockFaults, pc <- runPc, faultsLeft <- lockFaults

Off == 0

LiveInit ==
  \/ /\ part = "ingest" /\ Init
     /\ proc = Off /\ shutdown = Off /\ runLock = Off /\ progress = Off /\
        dbLock = Off /\ conn = Off /\ runPc = Off /\ checked = Off /\ ok = Off /\
        full = Off /\ mine = Off /\ rows = Off /\ complete = Off /\ left = Off /\
        late = Off /\ lost = Off /\ lockFaults = Off
  \/ /\ part = "lock" /\ L!Init
     /\ bucket = Off /\ lane = Off /\ edition = Off /\ release = Off /\
        files = Off /\ records = Off /\ losers = Off /\ rollup = Off /\
        marker = Off /\ pc = Off /\ scope = Off /\ laneId = Off /\ etags = Off /\
        seen = Off /\ todo = Off /\ old = Off /\ fetched = Off /\
        persisted = Off /\ failed = Off /\ touched = Off /\ table = Off /\
        announced = Off /\ interrupted = Off /\ unacked = Off /\ absent = Off /\
        envLeft = Off /\ faultsLeft = Off

LiveNext ==
  /\ UNCHANGED part
  /\ \/ part = "ingest" /\ Next /\ UNCHANGED lockVars
     \/ part = "lock" /\ L!Next /\ UNCHANGED ingestVars

\* The fairness of each part, as its module states it.
LockFairness ==
  /\ \A t \in Threads :
       /\ WF_lockVars(part = "lock" /\ L!Tick(t)) /\ WF_lockVars(part = "lock" /\ L!RunStep(t))
       /\ SF_lockVars(part = "lock" /\ L!WalkDone(t))
  /\ \A i \in Instances :
       WF_lockVars(part = "lock" /\ L!Teardown(i)) /\ WF_lockVars(part = "lock" /\ L!Boot(i))

LiveSpec ==
  /\ LiveInit /\ [][LiveNext]_<<part, ingestVars, lockVars>>
  /\ WF_ingestVars(part = "ingest" /\ RunStep) /\ LockFairness

\* Converges of IngestRun.
StoreConverges ==
  /\ <>[](part = "ingest" => Mirrors)
  /\ []<>(part = "ingest" => marker.complete /\ Exact)
\* RowsFinish of RunLock: every unfinished row is closed in the end.
RowsFinish == \A t \in Threads : (part = "lock" /\ L!Unfinished(t)) ~> (part = "lock" /\ ~L!Unfinished(t))
=============================================================================
