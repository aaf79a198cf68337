-------------------------- MODULE MCResponseCache --------------------------
(***************************************************************************)
(* Two keys and room for one; or one key and two request threads.          *)
(***************************************************************************)
EXTENDS ResponseCache, TLC

CONSTANTS k1, k2, c1, c2, w1, w2

LockObjects == 1..6
Alike == Permutations({w1, w2})
=============================================================================
