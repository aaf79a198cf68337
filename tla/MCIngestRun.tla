---------------------------- MODULE MCIngestRun ----------------------------
(***************************************************************************)
(* Small instances of IngestRun.                                           *)
(*                                                                         *)
(* Forks: two transcripts of one session.  File 1 is the lead's; its second*)
(* version dispatches the teammate.  File 2 is the teammate's; it begins   *)
(* with a replayed copy of file 1's first message (same uuid, declared     *)
(* under another model), and its second version adds a row without a       *)
(* timestamp or an identity.                                               *)
(*                                                                         *)
(* Lanes: file 2 belongs to a lane, whose marker may appear, move and      *)
(* disappear; the operator folds projects in chains.                       *)
(***************************************************************************)
EXTENDS IngestRun

CONSTANTS p1, p2, p3, m1, m2, u1, u2, u3, lead, reviewer

Row(l, u, h, m, rep, d) ==
  [line |-> l, uuid |-> u, hour |-> h, model |-> m, replay |-> rep,
   dispatch |-> d]

Original == Row(1, u1, 1, m1, FALSE, NoRole)
Dispatch == Row(2, u2, 1, m1, FALSE, reviewer)
Replay == Row(1, u1, 2, m2, TRUE, NoRole)
Own == Row(2, u3, 2, m1, FALSE, NoRole)
Untimed == Row(3, NoUuid, NullHour, m1, FALSE, NoRole)
Twin == Row(1, u1, 2, m2, FALSE, NoRole)

ForkContent == [f \in {1, 2} |-> [v \in 1..MaxVersion |->
  IF f = 1 THEN IF v = 1 THEN {Original} ELSE {Original, Dispatch}
  ELSE IF v = 1 THEN {Replay} ELSE {Replay, Own, Untimed}]]

LaneContent == [f \in {1, 2} |-> [v \in 1..MaxVersion |->
  IF f = 1 THEN {Original} ELSE IF v = 1 THEN {Twin} ELSE {Twin, Own}]]

ForkProject == [f \in {1, 2} |-> p1]
LaneProject == [f \in {1, 2} |-> IF f = 1 THEN p1 ELSE p2]

NoFold == [p \in Projects |-> p]
Chained(fold) ==   \* resolve_chain of an acyclic fold over three projects
  [p \in Projects |-> fold[fold[fold[p]]]]
Tables2(s, fold) == [suppress |-> s, fold |-> fold, chain |-> Chained(fold)]

NoTables == Tables2({}, NoFold)
Suppressing == Tables2({m2}, NoFold)
Folding == Tables2({}, [NoFold EXCEPT ![p1] = p2])
FoldingOn == Tables2({m2}, [NoFold EXCEPT ![p1] = p2, ![p2] = p3])

ForkOperator == <<NoTables, Suppressing>>
FoldOperator == <<NoTables, Folding, FoldingOn>>
PlainOperator == <<NoTables>>

\* The price of m1 moves with the second release, that of m2 never.
TwoPrices == [r \in Releases |-> [m \in Models |-> IF m = m1 /\ r > 1 THEN 2 ELSE 1]]
TwoModels == {m1, m2}
Hours12 == {1, 2}
OneParser == [r \in Releases |-> 1]
\* The second release reprices, the third also parses anew.
ThreeReleases == {1, 2, 3}
TwoParsers == [r \in Releases |-> IF r < 3 THEN 1 ELSE 2]
Lines123 == {1, 2, 3}
=============================================================================
