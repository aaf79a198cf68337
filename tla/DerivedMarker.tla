--------------------------- MODULE DerivedMarker ---------------------------
(***************************************************************************)
(* What the marker row of ingest_derived_state promises the next run,      *)
(* whatever a run does in between: a run withdraws the promise before it   *)
(* touches anything, may leave the derived state wrong for as long as it   *)
(* works, may end at any time without a promise, and makes the promise     *)
(* anew only in the very step it ends with, if the derived state is exact. *)
(***************************************************************************)
VARIABLES
  running,       \* a run is in progress
  complete,      \* the marker's promise
  exact          \* the derived state is what a full rebuild would make it

vars == <<running, complete, exact>>

Init == running = FALSE /\ complete = FALSE /\ exact = TRUE

Begin ==
  /\ ~running /\ running' = TRUE
  /\ complete' = FALSE /\ exact' = exact

Work ==
  /\ running /\ running' = TRUE
  /\ ~complete /\ complete' = FALSE /\ exact' \in BOOLEAN

Finish ==
  /\ running /\ running' = FALSE
  /\ exact /\ complete' = TRUE /\ exact' = TRUE

Abandon ==
  /\ running /\ running' = FALSE
  /\ ~complete /\ complete' = FALSE /\ exact' = exact

Next == Begin \/ Work \/ Finish \/ Abandon

Spec == Init /\ [][Next]_vars

\* The promise holds.
Promise == complete => exact
=============================================================================
