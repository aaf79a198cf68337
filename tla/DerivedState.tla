--------------------------- MODULE DerivedState ---------------------------
(***************************************************************************)
(* The facts one claudit database stores and the rows it derives from      *)
(* them: which record of a message identity is canonical, which aggregate  *)
(* rows ("rollups") the canonical records make, and what one stored file   *)
(* contributes to both.  Everything here is a pure function of the tables  *)
(* files and records; IngestRun says when a run recomputes which part.     *)
(*                                                                         *)
(* A row of `records' stands for a usage record and the tool use it        *)
(* carries, its price sidecar included (`rate').  An aggregate is kept as  *)
(* the set of the facts it sums: two aggregates are equal exactly when     *)
(* they sum the same facts, so no arithmetic is modelled.                  *)
(***************************************************************************)
EXTENDS Naturals

CONSTANTS
  Files,         \* transcript keys, as numbers: their order is file_key order
  Lines,         \* line numbers of a transcript
  Projects,      \* project ids
  Hours,         \* hours of the clock
  NullHour,      \* the hour of a row without a timestamp
  Models, Unattributed,    \* model names; the placeholder for "none named"
  Uuids, NoUuid,           \* message identities; a row may have none
  Roles, NoRole,           \* agent types
  Releases,      \* release numbers: the pricing versions of binaries
  Parser,        \* Parser[release]: its parser version
  Price,         \* Price[release][model]: what a request of that model costs
  NTables,       \* how many rollup tables there are
  LatencyTable,  \* the one table that keeps rows without a timestamp
  NoFile         \* "no row in files for this key"

ASSUME DerivedAssumption ==
  /\ Files \subseteq Nat /\ Lines \subseteq Nat
  /\ Hours \subseteq Nat /\ NullHour \notin Hours
  /\ Releases \subseteq Nat /\ Parser \in [Releases -> Nat]
  /\ NoUuid \notin Uuids /\ NoRole \notin Roles
  /\ Unattributed \in Models /\ Price \in [Releases -> [Models -> Nat]]
  /\ NTables \in Nat \ {0} /\ LatencyTable \in 1..NTables

\* The rollup tables, numbered in the order a run rebuilds them.
Tables == 1..NTables

\* A row of files, of records (with its records_price sidecar), of a rollup.
FileRow == [etag: Nat, ver: Nat, proj: Projects, role: Roles]
Record == [file: Files, line: Lines, uuid: Uuids \union {NoUuid},
           hour: Hours \union {NullHour}, model: Models, replay: BOOLEAN,
           dispatch: Roles \union {NoRole}, rate: Releases]
Cell == Projects \X (Hours \union {NullHour})
Fact == [file: Files, line: Lines, proj: Projects,
         hour: Hours \union {NullHour}, model: Models, cost: Nat,
         role: Roles \union {NoRole}]

ASSUME NoFileAssumption == NoFile \notin FileRow
-----------------------------------------------------------------------------
\* The canonical record of an identity.

\* s precedes r in the winner order: originals before replayed copies, rows
\* with a named model before unattributed ones, then file_key, then line.
Precedes(s, r) ==
  \/ ~s.replay /\ r.replay
  \/ /\ s.replay = r.replay
     /\ \/ s.model # Unattributed /\ r.model = Unattributed
        \/ /\ (s.model = Unattributed) = (r.model = Unattributed)
           /\ \/ s.file < r.file
              \/ s.file = r.file /\ s.line < r.line

\* The records that must not be counted: another row of the same identity
\* precedes them.
Losers(recs) ==
  {r \in recs : /\ r.uuid # NoUuid
                /\ \E s \in recs : s.uuid = r.uuid /\ Precedes(s, r)}

\* A losing replayed copy whose canonical original names another model.
AdoptsFrom(recs, lost, r, w) ==
  /\ r \in lost /\ r.replay
  /\ w \in recs \ lost /\ ~w.replay
  /\ w.uuid # NoUuid /\ w.uuid = r.uuid /\ w.model # r.model
-----------------------------------------------------------------------------
\* The rollups.

FactOf(fls, t, r) ==
  [file |-> r.file, line |-> r.line, proj |-> fls[r.file].proj,
   hour |-> r.hour, model |-> r.model, cost |-> Price[r.rate][r.model],
   role |-> IF t = LatencyTable THEN NoRole ELSE fls[r.file].role]

\* Every table sums rows by hour; the latency table, whose buckets are wider
\* and include "no time", sums untimed rows too.
Sums(t, r) == r.hour # NullHour \/ t = LatencyTable

Facts(fls, recs, lost, t) ==
  {FactOf(fls, t, r) : r \in {s \in recs \ lost : Sums(t, s)}}

\* What table t holds after its rebuild: everything anew under a full scope,
\* else only the dirty project-hours, which NULL hours never are.
Rebuilt(old, facts, full, cells) ==
  LET IsDirty(x) == x.hour # NullHour /\ <<x.proj, x.hour>> \in cells
  IN  IF full THEN facts
      ELSE {x \in old : ~IsDirty(x)} \union {x \in facts : IsDirty(x)}
-----------------------------------------------------------------------------
\* What a set of stored rows contributes to the derived state.

CellsOf(fls, rows) == {<<fls[r.file].proj, r.hour>> : r \in rows}
UuidsOf(rows) == {r.uuid : r \in rows} \ {NoUuid}
\* Mutant: the latency contribution of untimed rows is forgotten.
HasNullHourForgotten(rows) == FALSE
HasNullHour(rows) == \E r \in rows : r.hour = NullHour

RowsOf(recs, fs) == {r \in recs : r.file \in fs}

\* Mutant: the rows stay when their file goes.
WithoutNothing(rows, fs) == rows

\* ON DELETE CASCADE, and the wipe before a file's rows are written again.
Without(rows, fs) == {r \in rows : r.file \notin fs}

Contribution(fls, recs, fs) ==
  LET rows == RowsOf(recs, fs)
  IN  [cells |-> CellsOf(fls, rows), uuids |-> UuidsOf(rows),
       latNull |-> HasNullHour(rows)]
=============================================================================
