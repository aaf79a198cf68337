------------------------------ MODULE KimiPart ------------------------------
(***************************************************************************)
(* The parser of Kimi sessions (Wire), instantiated for itself.            *)
(***************************************************************************)
EXTENDS Integers

CONSTANTS Nothing, WireModels, Known, OldCutoff, NewCutoff, Steers, MaxWire

VARIABLES dialect, wire, line, step, queued, heard, replying, requests, calls, failedAt

wireVars == <<dialect, wire, line, step, queued, heard, replying, requests, calls, failedAt>>

\* None is no time and no window, and no text that is typed.
ASSUME KimiAssumption ==
  /\ MaxWire \in Nat
  /\ Nothing \notin Nat /\ Nothing \notin Steers
  /\ Nothing \notin [start : Nat \cup {Nothing}, end : Nat]

K == INSTANCE Wire
=============================================================================
