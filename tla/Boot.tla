-------------------------------- MODULE Boot --------------------------------
(***************************************************************************)
(* The start of a server (app.py lifespan, db.py apply_schema and          *)
(* schema_check): the schema stamp, the advisory lock, the migration as    *)
(* one transaction, and the checks before it serves.  Servers of several   *)
(* releases and configurations share the database; one may be killed at    *)
(* any step and started again, and a long transaction of somebody else may *)
(* hold a lock that the DDL needs.                                         *)
(***************************************************************************)
EXTENDS Integers

CONSTANTS
  Processes, Releases,
  NoStamp, NoProcess,
  MaxStarts, MaxEdits   \* bounds: starts, and edits by the operator

VARIABLES
  stamp,      \* schema_stamp: the script that it names
  catalog,    \* the columns and whether the analysis indexes exist
  lock,       \* who holds the advisory lock _SCHEMA_LOCK_KEY
  boot,       \* each process: its stage and its script
  longTxn,    \* a transaction holds a lock that conflicts with the DDL
  auth,       \* the shape of the auth database
  starts, edits

bootVars == <<stamp, catalog, lock, boot, longTxn, auth, starts, edits>>

\* What startup_schema compiles, and what its SHA256 stands for: the static
\* script of the release and whether the collection policy wants the indexes.
Scripts == [release : Releases, collect : BOOLEAN]

\* Columns are only ever added; the indexes follow the policy.
RunScript(c, script) ==
  [columns |-> c.columns \cup {r \in Releases : r <= script.release}, indexes |-> script.collect]

Stages == {"down", "read", "wait", "recheck", "ddl", "commit", "unlock", "check", "serving"}
AuthShapes == [table : BOOLEAN, grant : BOOLEAN, column : {"absent", "unusable", "usable"}]

Down == [stage |-> "down", script |-> NoStamp]

BootTypeOK ==
  /\ stamp \in Scripts \cup {NoStamp}
  /\ catalog \in [columns : SUBSET Releases, indexes : BOOLEAN]
  /\ lock \in Processes \cup {NoProcess}
  /\ boot \in [Processes -> [stage : Stages, script : Scripts \cup {NoStamp}]]
  /\ longTxn \in BOOLEAN
  /\ auth \in AuthShapes

BootInit ==
  /\ stamp = NoStamp
  /\ catalog = [columns |-> {}, indexes |-> FALSE]
  /\ lock = NoProcess
  /\ boot = [p \in Processes |-> Down]
  /\ longTxn = FALSE
  /\ auth \in AuthShapes
  /\ starts = 0 /\ edits = 0

At(p, stage) == boot[p].stage = stage
Goto(p, stage) == boot' = [boot EXCEPT ![p].stage = stage]

\* systemd starts the process, after a deployment, a rollback or a failure.
Begin(p, script) ==
  /\ At(p, "down") /\ starts < MaxStarts
  /\ starts' = starts + 1
  /\ boot' = [boot EXCEPT ![p] = [stage |-> "read", script |-> script]]
  /\ UNCHANGED <<stamp, catalog, lock, longTxn, auth, edits>>

\* A script that is stamped already takes no lock.
ReadStamp(p) ==
  /\ At(p, "read")
  /\ Goto(p, IF stamp = boot[p].script THEN "check" ELSE "wait")
  /\ UNCHANGED <<stamp, catalog, lock, longTxn, auth, starts, edits>>

TakeLock(p) ==
  /\ At(p, "wait") /\ lock = NoProcess
  /\ lock' = p
  /\ Goto(p, "recheck")
  /\ UNCHANGED <<stamp, catalog, longTxn, auth, starts, edits>>

\* Under the lock the stamp is read again: READ COMMITTED shows the commit of
\* a boot that this one queued behind.
RecheckNothing(p) ==    \* Mutant: the stamp read before the wait is believed.
  /\ At(p, "recheck")
  /\ Goto(p, "ddl")
  /\ UNCHANGED <<stamp, catalog, lock, longTxn, auth, starts, edits>>
Recheck(p) ==
  /\ At(p, "recheck")
  /\ Goto(p, IF stamp = boot[p].script THEN "unlock" ELSE "ddl")
  /\ UNCHANGED <<stamp, catalog, lock, longTxn, auth, starts, edits>>

\* The script runs inside the transaction: nobody sees it before the commit.
Migrate(p) ==
  /\ At(p, "ddl") /\ ~longTxn
  /\ Goto(p, "commit")
  /\ UNCHANGED <<stamp, catalog, lock, longTxn, auth, starts, edits>>
CommitSchema(p) ==
  /\ At(p, "commit")
  /\ stamp' = boot[p].script
  /\ catalog' = RunScript(catalog, boot[p].script)
  /\ Goto(p, "unlock")
  /\ UNCHANGED <<lock, longTxn, auth, starts, edits>>

\* lock_timeout passes on the advisory lock or on a lock of the DDL: nothing
\* is applied, the lock is released and the boot fails.
TimesOutStamped(p) ==   \* Mutant: the stamp is written outside the transaction.
  /\ \/ At(p, "wait") /\ lock # NoProcess
     \/ At(p, "ddl") /\ longTxn
  /\ lock' = IF lock = p THEN NoProcess ELSE lock
  /\ stamp' = IF At(p, "ddl") THEN boot[p].script ELSE stamp
  /\ boot' = [boot EXCEPT ![p] = Down]
  /\ UNCHANGED <<catalog, longTxn, auth, starts, edits>>
TimesOut(p) ==
  /\ \/ At(p, "wait") /\ lock # NoProcess
     \/ At(p, "ddl") /\ longTxn
  /\ lock' = IF lock = p THEN NoProcess ELSE lock
  /\ boot' = [boot EXCEPT ![p] = Down]
  /\ UNCHANGED <<stamp, catalog, longTxn, auth, starts, edits>>

\* A failing unlock is logged and passed over: its session is dead, and the
\* lock went with it.
Unlock(p) ==
  /\ At(p, "unlock")
  /\ lock' = NoProcess
  /\ Goto(p, "check")
  /\ UNCHANGED <<stamp, catalog, longTxn, auth, starts, edits>>

\* What schema_check says of the auth database.  The information schema shows
\* a column only of a table that is there and that the role may read.
DiagnosisOfColumn(a) == \* Mutant: a column that is not shown is taken for missing.
  CASE a.table /\ a.grant /\ a.column = "usable" -> "none"
    [] a.table /\ a.grant /\ a.column = "unusable" -> "type"
    [] ~a.table -> "table"
    [] OTHER -> "column"
Diagnosis(a) ==
  CASE a.table /\ a.grant /\ a.column = "usable" -> "none"
    [] a.table /\ a.grant /\ a.column = "unusable" -> "type"
    [] ~a.table -> "table"
    [] a.table /\ ~a.grant -> "grant"
    [] OTHER -> "column"

Check(p) ==
  /\ At(p, "check")
  /\ boot' = [boot EXCEPT ![p] =
       IF Diagnosis(auth) = "none" THEN [@ EXCEPT !.stage = "serving"] ELSE Down]
  /\ UNCHANGED <<stamp, catalog, lock, longTxn, auth, starts, edits>>

\* The process dies; its sessions end, and with them transaction and lock.
Die(p) ==
  /\ ~At(p, "down")
  /\ lock' = IF lock = p THEN NoProcess ELSE lock
  /\ boot' = [boot EXCEPT ![p] = Down]
  /\ UNCHANGED <<stamp, catalog, longTxn, auth, starts, edits>>

\* The operator does what the refused boot asks for, clears the stamp, or
\* begins or ends a long transaction.
Repaired(a) ==
  CASE Diagnosis(a) = "table" -> [a EXCEPT !.table = TRUE]
    [] Diagnosis(a) = "grant" -> [a EXCEPT !.grant = TRUE]
    [] Diagnosis(a) \in {"type", "column"} -> [a EXCEPT !.column = "usable"]
    [] OTHER -> a
Operate ==
  /\ edits < MaxEdits
  /\ edits' = edits + 1
  /\ \/ auth' = Repaired(auth) /\ UNCHANGED <<stamp, longTxn>>
     \/ stamp' = NoStamp /\ UNCHANGED <<auth, longTxn>>
     \/ longTxn' = ~longTxn /\ UNCHANGED <<auth, stamp>>
  /\ UNCHANGED <<catalog, lock, boot, starts>>

BootNext ==
  \/ \E p \in Processes :
       \/ \E s \in Scripts : Begin(p, s)
       \/ ReadStamp(p) \/ TakeLock(p) \/ Recheck(p) \/ Migrate(p) \/ CommitSchema(p)
       \/ TimesOut(p) \/ Unlock(p) \/ Check(p) \/ Die(p)
  \/ Operate

(***************************************************************************)
(* Properties.                                                             *)
(***************************************************************************)
\* apply_schema: the stamp names a script only while the catalog is what that
\* script leaves, whatever timed out, died or was rolled back to; so a boot
\* that skips the DDL finds what it needs, and a server keeps finding it.
StampTellsCatalog ==
  /\ stamp # NoStamp => RunScript(catalog, stamp) = catalog
  /\ \A p \in Processes : At(p, "serving") =>
       {r \in Releases : r <= boot[p].script.release} \subseteq catalog.columns

\* apply_schema: a migration runs alone and only when it is due: boots that
\* queue for the same script run it once.
MigratesOnceWhenDue ==
  \A p \in Processes : boot[p].stage \in {"ddl", "commit"} =>
    /\ stamp # boot[p].script
    /\ \A q \in Processes \ {p} : boot[q].stage \notin {"recheck", "ddl", "commit", "unlock"}

\* schema_check: the operator who does what each refusal says is done after
\* one round for each thing that was wrong.
Wrong(a) ==
  (IF a.table THEN 0 ELSE 1) + (IF a.grant THEN 0 ELSE 1) + (IF a.column = "usable" THEN 0 ELSE 1)
RefusalsLeadOut ==
  Diagnosis(auth) # "none" => Wrong(Repaired(auth)) < Wrong(auth)
(***************************************************************************)
(* What these rest on: who is past its turn in the queue holds the lock,   *)
(* and whoever passed the DDL finds its columns, which are never dropped.  *)
(***************************************************************************)
BootInv ==
  \A p \in Processes :
    /\ boot[p].stage # "down" => boot[p].script \in Scripts
    /\ boot[p].stage \in {"recheck", "ddl", "commit", "unlock"} => lock = p
    /\ boot[p].stage \in {"unlock", "check", "serving"} =>
         {r \in Releases : r <= boot[p].script.release} \subseteq catalog.columns
=============================================================================
