----------------------------- MODULE ServerParts ----------------------------
(***************************************************************************)
(* The parts of claudit around its server processes, each instantiated for *)
(* itself: sign-in, exports, boot and migration, vacuums, parse workers.   *)
(***************************************************************************)
EXTENDS Integers, FiniteSets

CONSTANTS
  i1, u1, u2, r1, r2, p1, p2, NoCred, NoRow,                      \* Login
  Ips, Uids, Attempts, Passwords, MaxPair, MaxIp, MaxTracked, Target, MaxUpsets,
  Servers, Exports, NoFile, RenderTimeout, MaxClock, MaxKills,    \* Export
  Processes, Releases, NoStamp, NoProcess, MaxStarts, MaxEdits,   \* Boot
  MinWritten, BatchFiles, MaxRuns, MaxFiles, MaxRows,             \* Vacuum
  Slots, NoPid, MaxServers                                        \* Workers

VARIABLES
  failures, tracked, inflight, attempt, stored, cached, references, known, rows, token, revoked,
  upsets,
  server, live, handler, child, file, clock, kills,
  stamp, catalog, lock, boot, longTxn, auth, starts, edits,
  counters, batch, walk, named, failing, tries, vacuumRuns,
  service, forker, poolServer, worker, broken

loginVars == <<failures, tracked, inflight, attempt, stored, cached, references, known, rows, token,
               revoked, upsets>>
exportVars == <<server, live, handler, child, file, clock, kills>>
bootVars == <<stamp, catalog, lock, boot, longTxn, auth, starts, edits>>
vacuumVars == <<counters, batch, walk, named, failing, tries, vacuumRuns>>
workerVars == <<service, forker, poolServer, worker, broken>>

Accounts == {[pw |-> p1, cost |-> 1], [pw |-> p2, cost |-> 4]}
\* Sign-in has finitely many addresses, accounts and requests; its two limiter
\* tables are separate; and what marks an absence is none of the values.
ASSUME LoginAssumption ==
  /\ IsFiniteSet(Ips) /\ IsFiniteSet(Uids) /\ IsFiniteSet(Attempts)
  /\ Ips \cap (Ips \X Uids) = {}
  /\ MaxPair \in Nat /\ MaxIp \in Nat /\ MaxTracked \in Nat /\ Target \in Nat
  /\ MaxUpsets \in Nat
  /\ NoCred \notin Accounts /\ NoRow \notin Accounts \cup {NoCred}
  /\ NoRow \notin [secret : Nat, generation : Nat, fp : Accounts]
  /\ NoRow \notin [uid : Uids, secret : Nat, generation : Nat, fp : Accounts]

\* Marks of absence are none of the values; pools, times and batches are numbers.
ASSUME StartsAssumption ==
  /\ MaxServers \in Nat /\ NoPid \notin Nat
  /\ MaxClock \in Nat /\ RenderTimeout \in Nat /\ NoFile \notin Nat
  /\ NoProcess \notin Processes /\ NoStamp \notin [release : Releases, collect : BOOLEAN]
  /\ BatchFiles \in Nat /\ MaxFiles \in Nat /\ MaxRows \in Nat

PhaseTables ==
  [canonical |-> {"records", "files"}, usage_rollup |-> {"usage_rollup"}]

L == INSTANCE Login
E == INSTANCE Export
S == INSTANCE Boot
U == INSTANCE Vacuum WITH TablesOf <- PhaseTables, ReparseTables <- {"records", "projects"},
       RowsPerFile <- 1
W == INSTANCE Workers
=============================================================================
