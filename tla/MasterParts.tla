----------------------------- MODULE MasterParts ----------------------------
(***************************************************************************)
(* The parts of claudit that keep master, each instantiated for itself: the *)
(* gates of a push, the freshness of green checks, the ratchets.           *)
(***************************************************************************)
EXTENDS Integers

CONSTANTS
  MaxPushes, MaxLost,                                             \* Gates
  Pulls, MaxTips, MaxHeads,                                       \* GateFreshness
  Values, Gap, Hysteresis, UnrecordedLimit, MaxPersons, MaxPricing  \* Ratchet

VARIABLES
  master, gate, bot,
  defining, head, verdict, publisher, red, overtaken,
  branch, landed, push

gateVars == <<master, gate, bot>>
freshVars == <<defining, head, verdict, publisher, red, overtaken>>
ratchetVars == <<branch, landed, push>>

PushedTogether ==
  {{"code"}, {"comment"}, {"note"}, {"setup"}, {"data"}, {"floor"}, {"code", "comment"},
   {"code", "data"}}

\* Pull requests have a bounded number of pushes; what the ratchets record are
\* numbers between a least and a greatest.
ASSUME MasterAssumption ==
  /\ MaxHeads \in Nat
  /\ Values \subseteq Int /\ \E v, w \in Values : \A x \in Values : v <= x /\ x <= w
  /\ Gap \in Nat /\ Hysteresis \in Nat /\ UnrecordedLimit \in Nat \ {0}

G == INSTANCE Gates WITH Edits <- PushedTogether
N == INSTANCE GateFreshness
Q == INSTANCE Ratchet WITH master <- branch
=============================================================================
