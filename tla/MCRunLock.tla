----------------------------- MODULE MCRunLock -----------------------------
(***************************************************************************)
(* Two app instances on one database: the first with a scheduler thread    *)
(* and an admin thread, the second with a scheduler thread.                *)
(***************************************************************************)
EXTENDS RunLock, TLC

CONSTANTS i1, i2, cron1, admin1, cron2

Homes == [t \in Threads |-> IF t = cron2 THEN i2 ELSE i1]

\* The first instance's threads differ in nothing.
Alike == Permutations({cron1, admin1})
=============================================================================
