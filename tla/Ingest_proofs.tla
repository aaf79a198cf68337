---------------------------- MODULE Ingest_proofs ----------------------------
(***************************************************************************)
(* Theorems about the ingest run, for every value of the constants.        *)
(*                                                                         *)
(* Types, and what records and canonical flags refer to, are inductive by  *)
(* themselves.  The marker of derived state is sound because IInv of       *)
(* IngestRun is inductive; it implies MarkerSound and CloseDescribesStore, *)
(* and the run implements the abstract promise of the marker.  What else a *)
(* run owes follows: no file whose object stayed in the bucket is dropped  *)
(* (AbsentInv), the operator's tables and the release's prices reach every *)
(* row before a marker says so (PolicyInv), and dashboards are told of     *)
(* every change (AnnounceInv).                                             *)
(***************************************************************************)
EXTENDS IngestRun, FiniteSetTheorems, TLAPS

\* The tuples the frame conditions name.
USE DEF env, db, walk, history
-----------------------------------------------------------------------------
\* Typing lemmas about the operators of DerivedState and the scope.

LEMMA CardinalityIsNat ==
  ASSUME NEW S \in SUBSET Files
  PROVE  IsFiniteSet(S) /\ Cardinality(S) \in Nat
BY IngestAssumption, FS_Subset, FS_CardinalityType DEF IngestAssumption

LEMMA FactTyped ==
  ASSUME NEW fls \in [Files -> FileRow \union {NoFile}], NEW recs \in SUBSET Record,
         \A r \in recs : fls[r.file] # NoFile,
         NEW lost, NEW t \in Tables
  PROVE  Facts(fls, recs, lost, t) \subseteq Fact
<1> SUFFICES ASSUME NEW r \in recs PROVE FactOf(fls, t, r) \in Fact
  BY DEF Facts, Sums
<1>1. fls[r.file] \in FileRow
  BY DEF Record
<1>2. Price[r.rate][r.model] \in Nat
  <2>1. r.rate \in Releases /\ r.model \in Models
    BY DEF Record
  <2>2. Price \in [Releases -> [Models -> Nat]]
    BY DerivedAssumption DEF DerivedAssumption
  <2> QED BY <2>1, <2>2
<1> QED BY <1>1, <1>2 DEF FactOf, Fact, Record, FileRow

LEMMA ContributionTyped ==
  ASSUME NEW fls \in [Files -> FileRow \union {NoFile}], NEW recs \in SUBSET Record,
         \A r \in recs : fls[r.file] # NoFile, NEW fs
  PROVE  Contribution(fls, recs, fs)
           \in [cells: SUBSET Cell, uuids: SUBSET Uuids, latNull: BOOLEAN]
<1> DEFINE rows == RowsOf(recs, fs)
<1>1. CellsOf(fls, rows) \subseteq Cell
  <2> SUFFICES ASSUME NEW r \in recs
               PROVE  <<fls[r.file].proj, r.hour>> \in Cell
    BY DEF CellsOf, RowsOf
  <2>1. fls[r.file] \in FileRow
    BY DEF Record
  <2> QED BY <2>1 DEF FileRow, Record, Cell
<1>2. UuidsOf(rows) \subseteq Uuids
  BY DEF UuidsOf, RowsOf, Record
<1>3. HasNullHour(rows) \in BOOLEAN
  BY DEF HasNullHour
<1> QED BY <1>1, <1>2, <1>3 DEF Contribution

LEMMA ScopeTyped ==
  ASSUME NEW s \in Scope
  PROVE  /\ \A b \in BOOLEAN : Promote(s, b) \in Scope
         /\ \A b \in BOOLEAN : AddUntimed(s, b) \in Scope
         /\ CheckLatencyNull(s) \in Scope
         /\ CheckDirtyThreshold(s) \in Scope
         /\ \A cells \in SUBSET Cell : AddCells(s, cells) \in Scope
         /\ \A c \in [cells: SUBSET Cell, uuids: SUBSET Uuids, latNull: BOOLEAN],
               fs \in SUBSET Files : AddContribution(s, c, fs) \in Scope
<1>1. \A b \in BOOLEAN : Promote(s, b) \in Scope
  BY DEF Promote, Scope
<1>6. \A b \in BOOLEAN : AddUntimed(s, b) \in Scope
  BY DEF AddUntimed, Scope
<1>2. CheckLatencyNull(s) \in Scope
  BY <1>1 DEF CheckLatencyNull, Scope
<1>3. CheckDirtyThreshold(s) \in Scope
  BY <1>1 DEF CheckDirtyThreshold
<1>4. \A cells \in SUBSET Cell : AddCells(s, cells) \in Scope
  BY DEF AddCells, Scope
<1>5. \A c \in [cells: SUBSET Cell, uuids: SUBSET Uuids, latNull: BOOLEAN],
         fs \in SUBSET Files : AddContribution(s, c, fs) \in Scope
  BY DEF AddContribution, Scope
<1> QED BY <1>1, <1>2, <1>3, <1>4, <1>5, <1>6
-----------------------------------------------------------------------------
\* Type correctness.

LEMMA EndRunTyped == EndRun => RunTypeOK'
<1> SUFFICES ASSUME EndRun PROVE RunTypeOK'
  OBVIOUS
<1>1. scope' \in Scope
  BY DEF EndRun, NoScope, NoFp, Scope
<1>2. 1 \in Tables /\ MaxVersion \in Nat
  BY DerivedAssumption, IngestAssumption
    DEF DerivedAssumption, IngestAssumption, Tables
<1>3. old' \in [Files -> [cells: SUBSET Cell, uuids: SUBSET Uuids, latNull: BOOLEAN]]
  BY DEF EndRun, NoContribution
<1>4. etags' \in [Files -> Nat] /\ fetched' \in [Files -> 0..MaxVersion]
  BY <1>2 DEF EndRun
<1> QED BY <1>1, <1>2, <1>3, <1>4 DEF EndRun, RunTypeOK, Phases

LEMMA WithoutProjectsTyped ==
  ASSUME DbTypeOK, NEW ps, NEW fls
  PROVE  WithoutProjects(ps, fls) \in [Tables -> SUBSET Fact]
BY DEF DbTypeOK, WithoutProjects

LEMMA WithoutTyped ==
  ASSUME DbTypeOK, NEW fs
  PROVE  /\ Without(records, fs) \subseteq Record
         /\ Without(losers, fs) \subseteq Without(records, fs)
         /\ \A r \in Without(records, fs) : files[r.file] # NoFile /\ r.file \notin fs
BY DEF DbTypeOK, Without

LEMMA OperatorTyped ==
  ASSUME EnvTypeOK
  PROVE  operator \in [suppress: SUBSET Models, fold: [Projects -> Projects],
                       chain: [Projects -> Projects]]
BY IngestAssumption DEF IngestAssumption, EnvTypeOK, operator

LEMMA InitTyped == Init => TypeOK
<1> SUFFICES ASSUME Init PROVE TypeOK
  OBVIOUS
<1>1. 1 \in Tables /\ 1 \in 1..MaxVersion /\ 1 \in Editions
  BY DerivedAssumption, IngestAssumption
    DEF DerivedAssumption, IngestAssumption, Tables
<1>2. EnvTypeOK
  BY <1>1, IngestAssumption DEF Init, EnvTypeOK, IngestAssumption
<1>3. DbTypeOK
  BY DEF Init, DbTypeOK, NoFp
<1>4. scope \in Scope
  BY DEF Init, NoScope, NoFp, Scope
<1>5. old \in [Files -> [cells: SUBSET Cell, uuids: SUBSET Uuids, latNull: BOOLEAN]]
  BY DEF Init, NoContribution
<1>6. etags \in [Files -> Nat] /\ fetched \in [Files -> 0..MaxVersion]
  BY <1>1, IngestAssumption DEF Init, IngestAssumption
<1>7. RunTypeOK
  BY <1>1, <1>4, <1>5, <1>6 DEF Init, RunTypeOK, Phases
<1> QED BY <1>2, <1>3, <1>7 DEF TypeOK

LEMMA WalkTyped ==
  ASSUME TypeOK, BeginScope \/ List \/ Collect \/ (\E f \in Files : Fetch(f) \/ Vanish(f))
  PROVE  TypeOK'
<1> USE DEF TypeOK
<1>1. CASE BeginScope
  <2>1. scope' \in Scope
    <3>1. Cardinality(Stored) \in Nat
      BY CardinalityIsNat DEF Stored
    <3>2. Fingerprint \in Nat \X Nat
      BY DerivedAssumption, IngestAssumption
        DEF DerivedAssumption, IngestAssumption, EnvTypeOK, Fingerprint
    <3> QED BY <3>1, <3>2, <1>1 DEF BeginScope, NoScope, Scope, DbTypeOK
  <2>2. DbTypeOK'
    BY <1>1 DEF BeginScope, DbTypeOK
  <2>3. RunTypeOK'
    BY <1>1, <2>1 DEF BeginScope, RunTypeOK, Phases
  <2> QED BY <1>1, <2>2, <2>3 DEF BeginScope, EnvTypeOK
<1>2. CASE List
  <2>1. PICK p \in StoredLaneChoices :
          laneId' = (IF lane # NoMarker THEN lane ELSE p) /\ Rekey(p)
    BY <1>2 DEF List
  <2>2. /\ files' \in [Files -> FileRow \union {NoFile}] /\ scope' \in Scope
        /\ rollup' \in [Tables -> SUBSET Fact]
        /\ \A f \in Files : files[f] # NoFile => files'[f] # NoFile
        /\ touched' \in BOOLEAN
    <3>1. CASE UNCHANGED <<files, rollup, scope, touched>>
      BY <3>1 DEF DbTypeOK, RunTypeOK
    <3>2. CASE ~UNCHANGED <<files, rollup, scope, touched>>
      <4> DEFINE target == operator.chain[lane]
                 moved == [f \in Files |-> IF f \in LaneFiles \intersect Stored
                                          THEN [files[f] EXCEPT !.proj = target]
                                          ELSE files[f]]
      <4>1. /\ lane \in Projects /\ files' = moved /\ touched' = TRUE
            /\ rollup' = WithoutProjects({p}, moved) /\ scope' = Promote(scope, TRUE)
        BY <3>2, <2>1 DEF Rekey, EnvTypeOK
      <4>2. target \in Projects
        BY <4>1, OperatorTyped
      <4>3. /\ moved \in [Files -> FileRow \union {NoFile}]
            /\ \A f \in Files : files[f] # NoFile => moved[f] # NoFile
        <5> SUFFICES ASSUME NEW f \in Files
                     PROVE  /\ moved[f] \in FileRow \union {NoFile}
                            /\ files[f] # NoFile => moved[f] # NoFile
          OBVIOUS
        <5>1. CASE f \in Stored
          <6>1. files[f] \in FileRow
            BY <5>1 DEF DbTypeOK, Stored
          <6>2. [files[f] EXCEPT !.proj = target] \in FileRow
            BY <6>1, <4>2 DEF FileRow
          <6> QED BY <6>1, <6>2, NoFileAssumption DEF NoFileAssumption
        <5>2. CASE f \notin Stored
          BY <5>2 DEF Stored
        <5> QED BY <5>1, <5>2
      <4> QED BY <4>1, <4>3, WithoutProjectsTyped, ScopeTyped DEF RunTypeOK
    <3> QED BY <3>1, <3>2
  <2>3. laneId' \in Projects \union {NoMarker} /\ (LaneFiles # {} => laneId' \in Projects)
    <3>1. LaneFiles # {} => p \in Projects
      <4>1. LaneIds \subseteq Projects
        BY DEF LaneIds, Stored, DbTypeOK, FileRow
      <4>2. PreferredLaneIds \subseteq LaneIds
        BY DEF PreferredLaneIds
      <4>3. LaneHashes \subseteq Projects
        BY IngestAssumption DEF IngestAssumption, LaneHashes
      <4> QED BY <2>1, <4>1, <4>2, <4>3 DEF StoredLaneChoices
    <3>2. LaneFiles = {} => p = NoMarker
      BY <2>1 DEF StoredLaneChoices
    <3> QED BY <2>1, <3>1, <3>2 DEF EnvTypeOK
  <2>4. old' \in [Files -> [cells: SUBSET Cell, uuids: SUBSET Uuids, latNull: BOOLEAN]]
    <3>1. NoContribution \in [cells: SUBSET Cell, uuids: SUBSET Uuids, latNull: BOOLEAN]
      BY DEF NoContribution
    <3>2. \A f \in Files : Contribution(files, records, {f})
                           \in [cells: SUBSET Cell, uuids: SUBSET Uuids, latNull: BOOLEAN]
      BY ContributionTyped DEF DbTypeOK
    <3> QED BY <3>1, <3>2, <1>2 DEF List
  <2>5. DbTypeOK'
    BY <1>2, <2>2 DEF List, DbTypeOK, Record
  <2>6. etags' \in [Files -> Nat] /\ seen' \subseteq Files /\ todo' \subseteq Files /\ absent' \subseteq Files
    <3>1. \A f \in Files : bucket[f].v \in 1..MaxVersion
      BY DEF EnvTypeOK
    <3> QED BY <1>2, <3>1, IngestAssumption DEF List, Live, IngestAssumption
  <2>7. RunTypeOK'
    BY <1>2, <2>2, <2>3, <2>4, <2>6 DEF List, RunTypeOK, Phases
  <2> QED BY <1>2, <2>5, <2>7 DEF List, EnvTypeOK
<1>3. CASE Collect
  <2>1. scope' \in Scope
    <3>1. AddContribution(scope, Contribution(files, records, persisted), persisted) \in Scope
      BY ContributionTyped, ScopeTyped DEF DbTypeOK, RunTypeOK
    <3> QED BY <3>1, <1>3, ScopeTyped DEF Collect, RunTypeOK
  <2> QED BY <1>3, <2>1 DEF Collect, EnvTypeOK, DbTypeOK, RunTypeOK, Phases
<1>4. ASSUME NEW f \in Files, Fetch(f) PROVE TypeOK'
  <2>1. scope' \in Scope
    <3>1. AddContribution(scope, old[f], {f}) \in Scope
      BY ScopeTyped DEF RunTypeOK
    <3> QED BY <3>1, <1>4 DEF Fetch, RunTypeOK
  <2>2. fetched' \in [Files -> 0..MaxVersion]
    BY <1>4, IngestAssumption DEF Fetch, RunTypeOK, EnvTypeOK, IngestAssumption
  <2> QED BY <1>4, <2>1, <2>2 DEF Fetch, EnvTypeOK, DbTypeOK, RunTypeOK
<1>5. ASSUME NEW f \in Files, Vanish(f) PROVE TypeOK'
  BY <1>5 DEF Vanish, EnvTypeOK, DbTypeOK, RunTypeOK
<1> QED BY <1>1, <1>2, <1>3, <1>4, <1>5

LEMMA ParsedTyped ==
  ASSUME NEW f \in Files, NEW v \in 1..MaxVersion, EnvTypeOK
  PROVE  /\ Parsed(f, v) \subseteq Record
         /\ \A r \in Parsed(f, v) : r.file = f
<1>1. Content[f][v] \subseteq ContentRow
  BY IngestAssumption DEF IngestAssumption
<1>2. \A c \in Content[f][v] : c \in ContentRow
  BY <1>1
<1> QED BY <1>2 DEF Parsed, Record, ContentRow, EnvTypeOK

LEMMA StoreFileTyped ==
  ASSUME TypeOK, NEW f \in Files, StoreFile(f), pc = "fetch", fetched[f] # 0
  PROVE  /\ DbTypeOK'
         /\ fetched' \in [Files -> 0..MaxVersion]
<1> DEFINE row == [etag |-> etags[f], ver |-> Parser[release], role |-> DefaultRole,
                   proj |-> IF f \in LaneFiles THEN laneId ELSE KeyProject[f]]
<1>1. row \in FileRow
  <2>1. DefaultRole \in Roles /\ KeyProject[f] \in Projects
    BY IngestAssumption DEF IngestAssumption
  <2>2. Parser[release] \in Nat
    BY DerivedAssumption DEF DerivedAssumption, TypeOK, EnvTypeOK
  <2> QED BY <2>1, <2>2 DEF TypeOK, EnvTypeOK, RunTypeOK, FileRow
<1>2. files' = [files EXCEPT ![f] = row]
  BY DEF StoreFile
<1>3. fetched[f] \in 1..MaxVersion /\ MaxVersion \in Nat
  BY IngestAssumption DEF IngestAssumption, TypeOK, RunTypeOK
<1>4. /\ Parsed(f, fetched[f]) \subseteq Record
      /\ \A r \in Parsed(f, fetched[f]) : r.file = f
  BY <1>3, ParsedTyped DEF TypeOK
<1>5. row # NoFile
  BY <1>1, NoFileAssumption DEF NoFileAssumption
<1>6. \A r \in records' : files'[r.file] # NoFile
  <2> SUFFICES ASSUME NEW r \in records' PROVE files'[r.file] # NoFile
    OBVIOUS
  <2>1. CASE r \in Parsed(f, fetched[f])
    BY <2>1, <1>2, <1>4, <1>5 DEF TypeOK, DbTypeOK
  <2>2. CASE r \in Without(records, {f})
    BY <2>2, <1>2, WithoutTyped DEF TypeOK, DbTypeOK
  <2> QED BY <2>1, <2>2 DEF StoreFile
<1>7. records' \subseteq Record /\ losers' \subseteq records'
  BY <1>4, WithoutTyped DEF StoreFile, TypeOK
<1>8. files' \in [Files -> FileRow \union {NoFile}]
  BY <1>1, <1>2 DEF TypeOK, DbTypeOK
<1>9. fetched' \in [Files -> 0..MaxVersion]
  BY <1>3 DEF StoreFile, TypeOK, RunTypeOK
<1> QED BY <1>6, <1>7, <1>8, <1>9 DEF StoreFile, TypeOK, DbTypeOK

LEMMA PersistTyped ==
  ASSUME TypeOK, NEW f \in Files,
         FetchFail(f) \/ Persist(f) \/ PersistUnacked(f) \/ PersistFail(f)
  PROVE  TypeOK'
<1> USE DEF TypeOK
<1>1. CASE FetchFail(f)
  BY <1>1 DEF FetchFail, EnvTypeOK, DbTypeOK, RunTypeOK
<1>2. CASE Persist(f)
  <2>1. DbTypeOK' /\ fetched' \in [Files -> 0..MaxVersion]
    BY <1>2, StoreFileTyped DEF Persist
  <2>2. scope' \in Scope
    <3>1. AddContribution(scope, old[f], {f}) \in Scope
      BY ScopeTyped DEF RunTypeOK
    <3> QED BY <3>1, <1>2 DEF Persist, RunTypeOK
  <2> QED BY <1>2, <2>1, <2>2 DEF Persist, StoreFile, EnvTypeOK, RunTypeOK
<1>3. CASE PersistUnacked(f)
  <2>1. DbTypeOK' /\ fetched' \in [Files -> 0..MaxVersion]
    BY <1>3, StoreFileTyped DEF PersistUnacked
  <2> QED BY <1>3, <2>1 DEF PersistUnacked, StoreFile, EnvTypeOK, RunTypeOK
<1>4. CASE PersistFail(f)
  <2>1. fetched' \in [Files -> 0..MaxVersion]
    BY <1>4, IngestAssumption DEF PersistFail, RunTypeOK, IngestAssumption
  <2> QED BY <1>4, <2>1 DEF PersistFail, EnvTypeOK, DbTypeOK, RunTypeOK
<1> QED BY <1>1, <1>2, <1>3, <1>4

LEMMA SweepTyped ==
  ASSUME TypeOK, DeleteOrphans \/ DeleteOrphanProjects \/ PurgeSuppressed
  PROVE  TypeOK'
<1> USE DEF TypeOK
<1>1. CASE DeleteOrphans
  <2> DEFINE doomed == Stored \ seen
  <2>1. scope' \in Scope
    <3>1. AddContribution(scope, Contribution(files, records, doomed), doomed) \in Scope
      BY ContributionTyped, ScopeTyped DEF DbTypeOK, RunTypeOK, Stored
    <3> QED BY <3>1, <1>1, ScopeTyped DEF DeleteOrphans, RunTypeOK
  <2>2. DbTypeOK'
    <3>1. /\ files' = [f \in Files |-> IF f \in doomed THEN NoFile ELSE files[f]]
          /\ records' = Without(records, doomed) /\ losers' = Without(losers, doomed)
          /\ UNCHANGED <<rollup, marker>>
      BY <1>1 DEF DeleteOrphans
    <3> QED BY <3>1, WithoutTyped DEF DbTypeOK, Record
  <2> QED BY <1>1, <2>1, <2>2 DEF DeleteOrphans, EnvTypeOK, RunTypeOK, Phases
<1>2. CASE DeleteOrphanProjects
  <2>1. scope' \in Scope
    BY <1>2, ScopeTyped DEF DeleteOrphanProjects, RunTypeOK
  <2>2. DbTypeOK'
    BY <1>2, WithoutProjectsTyped DEF DeleteOrphanProjects, DbTypeOK
  <2> QED BY <1>2, <2>1, <2>2 DEF DeleteOrphanProjects, EnvTypeOK, RunTypeOK, Phases
<1>3. CASE PurgeSuppressed
  BY <1>3 DEF PurgeSuppressed, EnvTypeOK, DbTypeOK, RunTypeOK, Phases
<1> QED BY <1>1, <1>2, <1>3

LEMMA RestampTyped ==
  ASSUME EnvTypeOK, NEW r \in Record, NEW f
  PROVE  /\ Restamp(r, f) \in Record
         /\ Restamp(r, f).file = r.file /\ Restamp(r, f).line = r.line
         /\ Restamp(r, f).uuid = r.uuid /\ Restamp(r, f).model = r.model
         /\ Restamp(r, f).replay = r.replay /\ Restamp(r, f).hour = r.hour
BY DEF EnvTypeOK, Restamp, Record

LEMMA DeriveTyped ==
  ASSUME TypeOK,
         \/ \E f \in Files : RepriceBatch(f)
         \/ RepriceDone \/ FoldAliases \/ RecomputeCanonical
         \/ (\E r, w \in records : Adopt(r, w))
         \/ AdoptDone \/ ResolveTeammates
  PROVE  TypeOK'
<1> USE DEF TypeOK
<1>1. ASSUME NEW f \in Files, RepriceBatch(f) PROVE TypeOK'
  <2>1. scope' \in Scope /\ touched' \in BOOLEAN
    BY <1>1, ScopeTyped DEF RepriceBatch, RunTypeOK
  <2>2. DbTypeOK'
    <3>1. records' = {Restamp(r, f) : r \in records} /\ losers' = {Restamp(r, f) : r \in losers}
      BY <1>1 DEF RepriceBatch
    <3>2. \A r \in records : Restamp(r, f) \in Record /\ Restamp(r, f).file = r.file
      BY RestampTyped DEF DbTypeOK
    <3> QED BY <1>1, <3>1, <3>2 DEF RepriceBatch, DbTypeOK
  <2> QED BY <1>1, <2>1, <2>2 DEF RepriceBatch, EnvTypeOK, RunTypeOK
<1>2. CASE RepriceDone
  BY <1>2 DEF RepriceDone, EnvTypeOK, DbTypeOK, RunTypeOK, Phases
<1>3. CASE FoldAliases
  <2>1. /\ Folded \in [Files -> FileRow \union {NoFile}]
        /\ \A f \in Files : files[f] # NoFile => Folded[f] # NoFile
    <3> SUFFICES ASSUME NEW f \in Files
                 PROVE  /\ Folded[f] \in FileRow \union {NoFile}
                        /\ files[f] # NoFile => Folded[f] # NoFile
      BY DEF Folded
    <3>1. CASE files[f] = NoFile
      BY <3>1 DEF Folded
    <3>2. CASE files[f] # NoFile
      <4>1. files[f] \in FileRow
        BY <3>2 DEF DbTypeOK
      <4>2. operator.fold[files[f].proj] \in Projects
        BY <4>1, OperatorTyped DEF FileRow
      <4>3. [files[f] EXCEPT !.proj = operator.fold[files[f].proj]] \in FileRow
        BY <4>1, <4>2 DEF FileRow
      <4> QED BY <3>2, <4>3, NoFileAssumption DEF Folded, NoFileAssumption
    <3> QED BY <3>1, <3>2
  <2>2. \A r \in records : Folded[r.file] # NoFile
    BY <2>1 DEF DbTypeOK, Record
  <2>3. scope' \in Scope
    <3> DEFINE fs == scope.dirty \union MovedFiles
               sources == CellsOf(files, RowsOf(records, MovedFiles))
    <3>1. fs \subseteq Files
      BY DEF RunTypeOK, Scope, MovedFiles, Stored
    <3>2. sources \subseteq Cell
      BY ContributionTyped DEF DbTypeOK, Contribution
    <3>3. AddContribution(scope, Contribution(Folded, records, fs), fs) \in Scope
      BY <2>1, <2>2, <3>1, ContributionTyped, ScopeTyped DEF DbTypeOK, RunTypeOK
    <3>4. AddCells(AddContribution(scope, Contribution(Folded, records, fs), fs), sources) \in Scope
      BY <3>2, <3>3, ScopeTyped
    <3> QED BY <3>4, <1>3, ScopeTyped DEF FoldAliases, RunTypeOK
  <2>4. DbTypeOK'
    BY <1>3, <2>1, <2>2, WithoutProjectsTyped DEF FoldAliases, DbTypeOK
  <2> QED BY <1>3, <2>3, <2>4 DEF FoldAliases, EnvTypeOK, RunTypeOK, Phases
<1>4. CASE RecomputeCanonical
  <2> DEFINE ranked == {r \in records : \/ scope.full
                                        \/ r.uuid \in scope.uuids
                                        \/ r.uuid = NoUuid /\ r.file \in scope.dirty}
             wrong == {r \in ranked : (r \in losers) # (r \in Losers(records))}
  <2>1. CellsOf(files, wrong) \subseteq Cell
    <3> SUFFICES ASSUME NEW r \in wrong PROVE <<files[r.file].proj, r.hour>> \in Cell
      BY DEF CellsOf
    <3>1. r \in Record /\ files[r.file] \in FileRow
      BY DEF DbTypeOK, Record
    <3> QED BY <3>1 DEF Record, FileRow, Cell
  <2>2. scope' \in Scope
    <3>1. AddCells(scope, CellsOf(files, wrong)) \in Scope
      BY <2>1, ScopeTyped DEF RunTypeOK
    <3>2. HasNullHour(wrong) \in BOOLEAN
      BY DEF HasNullHour
    <3>3. AddUntimed(AddCells(scope, CellsOf(files, wrong)), HasNullHour(wrong)) \in Scope
      BY <3>1, <3>2, ScopeTyped
    <3> QED BY <3>3, <1>4 DEF RecomputeCanonical, RunTypeOK
  <2>3. losers' = (losers \ wrong) \union (wrong \ losers) /\ touched' \in BOOLEAN
    BY <1>4 DEF RecomputeCanonical, RunTypeOK
  <2>4. losers' \subseteq records
    BY <2>3 DEF DbTypeOK
  <2> QED BY <1>4, <2>2, <2>3, <2>4 DEF RecomputeCanonical, EnvTypeOK, DbTypeOK, RunTypeOK, Phases
<1>5. ASSUME NEW r \in records, NEW w \in records, Adopt(r, w) PROVE TypeOK'
  <2>1. [r EXCEPT !.model = w.model, !.rate = release] \in Record
    BY DEF DbTypeOK, EnvTypeOK, Record
  <2>2. [r EXCEPT !.model = w.model, !.rate = release].file = r.file
    BY DEF DbTypeOK, Record
  <2> QED BY <1>5, <2>1, <2>2 DEF Adopt, EnvTypeOK, DbTypeOK, RunTypeOK
<1>6. CASE AdoptDone
  BY <1>6, ScopeTyped DEF AdoptDone, EnvTypeOK, DbTypeOK, RunTypeOK, Phases
<1>7. CASE ResolveTeammates
  <2> DEFINE changed == {f \in Stored : RoleOf(f) # files[f].role}
  <2>1. \A f \in Stored : RoleOf(f) \in Roles
    <3> SUFFICES ASSUME NEW f \in Stored PROVE RoleOf(f) \in Roles
      OBVIOUS
    <3>1. \A d \in LatestDispatches(f) : d.dispatch \in Roles
      BY DEF LatestDispatches, Dispatches, DbTypeOK, Record
    <3>2. files[f].role \in Roles
      BY DEF Stored, DbTypeOK, FileRow
    <3> QED BY <3>1, <3>2 DEF RoleOf
  <2>2. /\ files' \in [Files -> FileRow \union {NoFile}]
        /\ \A f \in Files : files[f] # NoFile => files'[f] # NoFile
    <3>1. files' = [f \in Files |-> IF f \in changed
                                   THEN [files[f] EXCEPT !.role = RoleOf(f)] ELSE files[f]]
      BY <1>7 DEF ResolveTeammates
    <3>2. \A f \in changed : [files[f] EXCEPT !.role = RoleOf(f)] \in FileRow
      BY <2>1 DEF Stored, DbTypeOK, FileRow
    <3> QED BY <3>1, <3>2, NoFileAssumption DEF NoFileAssumption, DbTypeOK
  <2>3. scope' \in Scope
    <3>1. CellsOf(files, RowsOf(records, changed)) \subseteq Cell
      BY ContributionTyped DEF DbTypeOK, Contribution
    <3> QED BY <3>1, <1>7, ScopeTyped DEF ResolveTeammates, RunTypeOK
  <2>4. DbTypeOK'
    BY <1>7, <2>2 DEF ResolveTeammates, DbTypeOK, Record
  <2>5. touched' \in BOOLEAN
    BY <1>7 DEF ResolveTeammates, RunTypeOK
  <2> QED BY <1>7, <2>3, <2>4, <2>5 DEF ResolveTeammates, EnvTypeOK, RunTypeOK, Phases
<1> QED BY <1>1, <1>2, <1>3, <1>4, <1>5, <1>6, <1>7

LEMMA EndTyped ==
  ASSUME TypeOK, RebuildRollup \/ Notify \/ MarkComplete \/ Interrupt \/ Crash
  PROVE  TypeOK'
<1> USE DEF TypeOK
<1>1. CASE RebuildRollup
  <2> DEFINE started == IF table = 1
                        THEN [scope EXCEPT !.used = IF scope.full THEN "full"
                                                    ELSE "incremental"]
                        ELSE scope
             facts == Facts(files, records, losers, table)
  <2>1. started \in Scope
    BY DEF RunTypeOK, Scope
  <2>2. scope' \in Scope /\ table' \in Tables
    <3>1. scope' = IF table < NTables THEN started
                   ELSE CheckLatencyNull(CheckDirtyThreshold(started))
      BY <1>1 DEF RebuildRollup
    <3>2. table' = IF table < NTables THEN table + 1 ELSE table
      BY <1>1 DEF RebuildRollup
    <3>3. table' \in Tables
      BY <3>2, DerivedAssumption DEF DerivedAssumption, RunTypeOK, Tables
    <3> HIDE DEF started
    <3> QED BY <2>1, <3>1, <3>3, ScopeTyped
  <2>3. Rebuilt(rollup[table], facts, scope.full, scope.cells) \subseteq Fact
    <3>1. table \in Tables /\ rollup[table] \subseteq Fact /\ facts \subseteq Fact
      BY FactTyped DEF DbTypeOK, RunTypeOK
    <3> HIDE DEF facts
    <3> QED BY <3>1 DEF Rebuilt
  <2>4. rollup' \in [Tables -> SUBSET Fact]
    BY <1>1, <2>3 DEF RebuildRollup, DbTypeOK
  <2>5. pc' \in {"rollup", "notify"}
    BY <1>1 DEF RebuildRollup
  <2>6. DbTypeOK'
    BY <1>1, <2>4 DEF RebuildRollup, DbTypeOK
  <2> QED BY <1>1, <2>2, <2>5, <2>6 DEF RebuildRollup, EnvTypeOK, RunTypeOK, Phases
<1>2. CASE Notify
  BY <1>2 DEF Notify, EnvTypeOK, DbTypeOK, RunTypeOK, Phases
<1>3. CASE MarkComplete
  <2>1. RunTypeOK'
    BY <1>3, EndRunTyped DEF MarkComplete
  <2>2. marker' \in [fp: Nat \X Nat, complete: BOOLEAN, recent: BOOLEAN]
    BY <1>3 DEF MarkComplete, DbTypeOK, RunTypeOK, Scope
  <2> QED BY <1>3, <2>1, <2>2 DEF MarkComplete, EnvTypeOK, DbTypeOK
<1>4. CASE Interrupt
  <2>1. RunTypeOK'
    BY <1>4, EndRunTyped DEF Interrupt
  <2> QED BY <1>4, <2>1 DEF Interrupt, EnvTypeOK, DbTypeOK
<1>5. CASE Crash
  <2>1. RunTypeOK'
    BY <1>5, EndRunTyped DEF Crash
  <2> QED BY <1>5, <2>1 DEF Crash, EnvTypeOK, DbTypeOK
<1> QED BY <1>1, <1>2, <1>3, <1>4, <1>5

LEMMA EnvTyped ==
  ASSUME TypeOK, EnvStep
  PROVE  TypeOK'
<1> USE DEF TypeOK
<1>1. ASSUME NEW f \in Files, Put(f) PROVE TypeOK'
  <2>1. bucket' \in [Files -> [v: 1..MaxVersion, live: BOOLEAN]]
    <3>1. bucket[f].v + 1 \in 1..MaxVersion
      BY <1>1, IngestAssumption DEF Put, EnvTypeOK, IngestAssumption
    <3> QED BY <3>1, <1>1 DEF Put, EnvTypeOK
  <2> QED BY <1>1, <2>1 DEF Put, EnvTypeOK, DbTypeOK, RunTypeOK
<1>2. ASSUME NEW f \in Files, Delete(f) PROVE TypeOK'
  <2>1. bucket' \in [Files -> [v: 1..MaxVersion, live: BOOLEAN]]
    BY <1>2 DEF Delete, EnvTypeOK
  <2>2. EnvTypeOK'
    BY <1>2, <2>1 DEF Delete, EnvTypeOK
  <2>3. absent' \subseteq Files
    BY <1>2 DEF Delete, RunTypeOK
  <2> QED BY <1>2, <2>2, <2>3 DEF Delete, DbTypeOK, RunTypeOK
<1>3. ASSUME NEW p \in Projects \union {NoMarker}, SetMarker(p) PROVE TypeOK'
  BY <1>3 DEF SetMarker, EnvTypeOK, DbTypeOK, RunTypeOK
<1>4. CASE OperatorEdit
  BY <1>4 DEF OperatorEdit, EnvTypeOK, DbTypeOK, RunTypeOK
<1>5. ASSUME NEW rel \in Releases, Deploy(rel) PROVE TypeOK'
  <2>1. RunTypeOK'
    BY <1>5, EndRunTyped DEF Deploy
  <2> QED BY <1>5, <2>1 DEF Deploy, EnvTypeOK, DbTypeOK
<1>6. CASE DayPasses
  <2>1. EnvTypeOK'
    BY <1>6 DEF DayPasses, EnvTypeOK
  <2>2. DbTypeOK'
    BY <1>6 DEF DayPasses, DbTypeOK
  <2>3. RunTypeOK'
    BY <1>6 DEF DayPasses, RunTypeOK
  <2> QED BY <2>1, <2>2, <2>3
<1>7. CASE \E f \in Files : Put(f) \/ Delete(f)
  BY <1>7, <1>1, <1>2
<1>8. CASE \E p \in Projects \union {NoMarker} : SetMarker(p)
  BY <1>8, <1>3
<1>9. CASE \E rel \in Releases : Deploy(rel)
  BY <1>9, <1>5
<1> QED BY <1>4, <1>6, <1>7, <1>8, <1>9 DEF EnvStep

LEMMA NextTyped ==
  ASSUME TypeOK, [Next]_vars
  PROVE  TypeOK'
<1>1. CASE RunStep
  BY <1>1, WalkTyped, PersistTyped, SweepTyped, DeriveTyped, EndTyped
    DEF RunStep, FileStep
<1>2. CASE FileFault
  BY <1>2, PersistTyped DEF FileFault
<1>3. CASE Interrupt \/ Crash
  BY <1>3, EndTyped
<1>4. CASE EnvStep
  BY <1>4, EnvTyped
<1>5. CASE UNCHANGED vars
  BY <1>5 DEF vars, TypeOK, EnvTypeOK, DbTypeOK, RunTypeOK
<1> QED BY <1>1, <1>2, <1>3, <1>4, <1>5 DEF Next

\* The tables and the run's memory stay well formed through every step,
\* failure, crash and deployment; no record outlives its file.
THEOREM TypeCorrect == Spec => []TypeOK
BY InitTyped, NextTyped, PTL DEF Spec

-----------------------------------------------------------------------------
\* Facts about scopes and contributions.

AnyContribution == [cells: SUBSET Cell, uuids: SUBSET Uuids, latNull: BOOLEAN]

\* What each operation does to the fields the invariant reads.
LEMMA PromoteFields ==
  ASSUME NEW s \in Scope, NEW b \in BOOLEAN
  PROVE  /\ Promote(s, b) \in Scope
         /\ Promote(s, b).full <=> s.full \/ b
         /\ Promote(s, b).cells = s.cells /\ Promote(s, b).uuids = s.uuids
         /\ Promote(s, b).latNull = s.latNull /\ Promote(s, b).dirty = s.dirty
BY DEF Promote, Scope

LEMMA UntimedFields ==
  ASSUME NEW s \in Scope, NEW b \in BOOLEAN
  PROVE  /\ AddUntimed(s, b) \in Scope
         /\ AddUntimed(s, b).full = s.full /\ AddUntimed(s, b).cells = s.cells
         /\ AddUntimed(s, b).uuids = s.uuids /\ AddUntimed(s, b).dirty = s.dirty
         /\ AddUntimed(s, b).latNull <=> s.latNull \/ b
BY DEF AddUntimed, Scope

LEMMA CellsFields ==
  ASSUME NEW s \in Scope, NEW cells \in SUBSET Cell
  PROVE  /\ AddCells(s, cells) \in Scope
         /\ AddCells(s, cells).full = s.full
         /\ AddCells(s, cells).cells = s.cells \union cells
         /\ AddCells(s, cells).uuids = s.uuids
         /\ AddCells(s, cells).latNull = s.latNull
         /\ AddCells(s, cells).dirty = s.dirty
BY DEF AddCells, Scope

LEMMA ContributionFields ==
  ASSUME NEW s \in Scope, NEW c \in AnyContribution, NEW fs \in SUBSET Files
  PROVE  /\ AddContribution(s, c, fs) \in Scope
         /\ AddContribution(s, c, fs).full = s.full
         /\ AddContribution(s, c, fs).cells = s.cells \union c.cells
         /\ AddContribution(s, c, fs).uuids = s.uuids \union c.uuids
         /\ AddContribution(s, c, fs).latNull <=> s.latNull \/ c.latNull
         /\ AddContribution(s, c, fs).dirty = s.dirty \union fs
BY DEF AddContribution, Scope, AnyContribution

\* The checks only ever promote.
LEMMA CheckFields ==
  ASSUME NEW s \in Scope
  PROVE  /\ (CheckLatencyNull(s).full <=> s.full \/ s.latNull)
         /\ ~CheckDirtyThreshold(s).full => ~s.full
         /\ \A u \in {CheckLatencyNull(s), CheckDirtyThreshold(s)} :
              /\ u \in Scope
              /\ u.cells = s.cells /\ u.uuids = s.uuids
              /\ u.latNull = s.latNull /\ u.dirty = s.dirty
<1>1. s.latNull \in BOOLEAN
  BY DEF Scope
<1>2. /\ (CheckLatencyNull(s).full <=> s.full \/ s.latNull)
      /\ CheckLatencyNull(s).cells = s.cells /\ CheckLatencyNull(s).uuids = s.uuids
      /\ CheckLatencyNull(s).latNull = s.latNull /\ CheckLatencyNull(s).dirty = s.dirty
  BY <1>1, PromoteFields DEF CheckLatencyNull
<1>3. PICK b \in BOOLEAN : CheckDirtyThreshold(s) = Promote(s, b)
  BY DEF CheckDirtyThreshold
<1>4. /\ ~CheckDirtyThreshold(s).full => ~s.full
      /\ CheckDirtyThreshold(s).cells = s.cells /\ CheckDirtyThreshold(s).uuids = s.uuids
      /\ CheckDirtyThreshold(s).latNull = s.latNull
      /\ CheckDirtyThreshold(s).dirty = s.dirty
  <2>1. Promote(s, b).full <=> s.full \/ b
    BY PromoteFields
  <2>2. ~Promote(s, b).full => ~s.full
    BY <2>1
  <2> QED BY <1>3, <2>2, PromoteFields
<1>5. CheckLatencyNull(s) \in Scope /\ CheckDirtyThreshold(s) \in Scope
  BY ScopeTyped
<1> QED BY <1>2, <1>4, <1>5

LEMMA CoversGrows ==
  ASSUME NEW s, NEW u, Includes(u, s), NEW p, NEW h, Covers(s, p, h)
  PROVE  Covers(u, p, h)
BY DEF Includes, Covers

LEMMA RowCoveredGrows ==
  ASSUME NEW s, NEW u, Includes(u, s), NEW fls, NEW r, RowCovered(s, fls, r)
  PROVE  RowCovered(u, fls, r)
BY CoversGrows DEF Includes, RowCovered

\* A scope that includes what files contribute covers each of their rows.
LEMMA IncludedRow ==
  ASSUME NEW fls, NEW recs, NEW fs, NEW s, Includes(s, Contribution(fls, recs, fs)),
         NEW r \in recs, r.file \in fs
  PROVE  RowCovered(s, fls, r)
<1> DEFINE rows == RowsOf(recs, fs)
<1>1. r \in rows
  BY DEF RowsOf
<1>2. /\ Contribution(fls, recs, fs).cells = CellsOf(fls, rows)
      /\ Contribution(fls, recs, fs).uuids = UuidsOf(rows)
      /\ Contribution(fls, recs, fs).latNull = HasNullHour(rows)
  BY DEF Contribution
<1>3. <<fls[r.file].proj, r.hour>> \in CellsOf(fls, rows)
  BY <1>1 DEF CellsOf
<1>4. r.uuid # NoUuid => r.uuid \in UuidsOf(rows)
  BY <1>1 DEF UuidsOf
<1>5. r.hour = NullHour => HasNullHour(rows)
  BY <1>1 DEF HasNullHour
<1> HIDE DEF rows
<1> QED BY <1>2, <1>3, <1>4, <1>5 DEF Includes, RowCovered, Covers

LEMMA NothingContributes ==
  ASSUME NEW fls, NEW recs, NEW s \in Scope
  PROVE  LET u == AddContribution(s, Contribution(fls, recs, {}), {})
         IN  Includes(u, s) /\ Includes(s, u) /\ u.dirty = s.dirty
<1> DEFINE c == Contribution(fls, recs, {})
<1>1. RowsOf(recs, {}) = {}
  BY DEF RowsOf
<1>2. c.cells = {} /\ c.uuids = {} /\ ~c.latNull
  BY <1>1 DEF Contribution, CellsOf, UuidsOf, HasNullHour
<1>3. c \in AnyContribution
  BY <1>1 DEF Contribution, CellsOf, UuidsOf, HasNullHour, AnyContribution
<1> HIDE DEF c
<1>4. ASSUME NEW fs \in SUBSET Files, fs = {}
      PROVE  /\ Includes(AddContribution(s, c, fs), s)
             /\ Includes(s, AddContribution(s, c, fs))
             /\ AddContribution(s, c, fs).dirty = s.dirty
  <2>1. /\ AddContribution(s, c, fs).cells = s.cells \union c.cells
        /\ AddContribution(s, c, fs).uuids = s.uuids \union c.uuids
        /\ AddContribution(s, c, fs).latNull <=> s.latNull \/ c.latNull
        /\ AddContribution(s, c, fs).dirty = s.dirty \union fs
    BY <1>3, ContributionFields
  <2> QED BY <2>1, <1>2, <1>4 DEF Includes
<1>5. {} \in SUBSET Files
  OBVIOUS
<1>6. /\ Includes(AddContribution(s, c, {}), s)
      /\ Includes(s, AddContribution(s, c, {}))
      /\ AddContribution(s, c, {}).dirty = s.dirty
  BY <1>4, <1>5
<1> QED BY <1>6 DEF c
-----------------------------------------------------------------------------
\* Facts about the derived state.

LEMMA ExplainedChain ==
  ASSUME NEW s, NEW u, Includes(u, s), NEW A, NEW B, NEW C,
         Explained(s, A, B), Explained(u, B, C)
  PROVE  Explained(u, A, C)
BY CoversGrows DEF Explained, Differ

\* An aggregate may only change by the facts of rows that are covered.
LEMMA FactsExplained ==
  ASSUME NEW fls, NEW recs, NEW lost, NEW fls2, NEW recs2, NEW lost2, NEW u,
         NEW t \in Tables,
         \A r \in recs \ lost : r.hour # NullHour \/ t = LatencyTable =>
           \/ r \in recs2 \ lost2 /\ FactOf(fls2, t, r) = FactOf(fls, t, r)
           \/ Covers(u, fls[r.file].proj, r.hour),
         \A r \in recs2 \ lost2 : r.hour # NullHour \/ t = LatencyTable =>
           \/ r \in recs \ lost /\ FactOf(fls2, t, r) = FactOf(fls, t, r)
           \/ Covers(u, fls2[r.file].proj, r.hour)
  PROVE  Explained(u, Facts(fls, recs, lost, t), Facts(fls2, recs2, lost2, t))
<1> SUFFICES ASSUME NEW x,
                    Differ(x, Facts(fls, recs, lost, t), Facts(fls2, recs2, lost2, t))
             PROVE  Covers(u, x.proj, x.hour)
  BY DEF Explained
<1>1. CASE x \in Facts(fls, recs, lost, t)
  <2>1. PICK r \in recs \ lost : /\ r.hour # NullHour \/ t = LatencyTable
                                 /\ x = FactOf(fls, t, r)
    BY <1>1 DEF Facts, Sums
  <2>2. ~(r \in recs2 \ lost2 /\ FactOf(fls2, t, r) = FactOf(fls, t, r))
    BY <1>1, <2>1 DEF Facts, Sums, Differ
  <2>3. x.proj = fls[r.file].proj /\ x.hour = r.hour
    BY <2>1 DEF FactOf
  <2> QED BY <2>1, <2>2, <2>3
<1>2. CASE x \in Facts(fls2, recs2, lost2, t)
  <2>1. PICK r \in recs2 \ lost2 : /\ r.hour # NullHour \/ t = LatencyTable
                                   /\ x = FactOf(fls2, t, r)
    BY <1>2 DEF Facts, Sums
  <2>2. ~(r \in recs \ lost /\ FactOf(fls2, t, r) = FactOf(fls, t, r))
    BY <1>2, <2>1 DEF Facts, Sums, Differ
  <2>3. x.proj = fls2[r.file].proj /\ x.hour = r.hour
    BY <2>1 DEF FactOf
  <2> QED BY <2>1, <2>2, <2>3
<1> QED BY <1>1, <1>2 DEF Differ

\* Whether a row loses depends on the rows of its identity only.
LEMMA LosersLocal ==
  ASSUME NEW recs, NEW recs2, NEW ids,
         \A q \in recs : q \notin recs2 /\ q.uuid # NoUuid => q.uuid \in ids,
         \A q \in recs2 : q \notin recs /\ q.uuid # NoUuid => q.uuid \in ids,
         NEW r, r \in recs, r \in recs2, Differ(r, Losers(recs), Losers(recs2))
  PROVE  r.uuid \in ids
BY DEF Losers, Differ

LEMMA LosersAreRecords == \A recs : Losers(recs) \subseteq recs
BY DEF Losers

\* Deleting an unreferenced project drops no fact of a stored row.
LEMMA DroppedIsNoFact ==
  ASSUME NEW ps, NEW fls, NEW recs, NEW lost, NEW t \in Tables,
         \A r \in recs : r.file \in Files /\ fls[r.file] # NoFile,
         NEW x \in rollup[t], x \notin WithoutProjects(ps, fls)[t]
  PROVE  x \notin Facts(fls, recs, lost, t)
<1>1. \A f \in Files : fls[f] # NoFile => fls[f].proj # x.proj
  BY DEF WithoutProjects
<1> SUFFICES ASSUME x \in Facts(fls, recs, lost, t) PROVE FALSE
  OBVIOUS
<1>2. PICK r \in recs : x = FactOf(fls, t, r)
  BY DEF Facts, Sums
<1> QED BY <1>1, <1>2 DEF FactOf

-----------------------------------------------------------------------------
\* Steps that leave the derived state alone.

LEMMA InitSound == Init => SoundInv
<1> SUFFICES ASSUME Init PROVE SoundInv
  OBVIOUS
<1>1. UniqueLines /\ MarkerInv
  BY DEF Init, UniqueLines, MarkerInv
<1>2. WalkInv /\ CaptureInv
  BY DEF Init, WalkInv, CaptureInv
<1>3. DirtyInv /\ CanonicalInv /\ PendingInv /\ DoneInv
  BY DEF Init, DirtyInv, CanonicalInv, PendingInv, DoneInv, Incremental, Done
<1> QED BY <1>1, <1>2, <1>3 DEF SoundInv

\* However a run ends, what it leaves is sound if its marker is.
LEMMA EndSound ==
  ASSUME IInv, EndRun, UNCHANGED <<files, records, losers, rollup>>,
         marker'.complete => Exact
  PROVE  SoundInv'
<1>1. Exact' <=> Exact
  BY DEF Exact
<1>2. UniqueLines' /\ MarkerInv'
  BY <1>1 DEF IInv, SoundInv, UniqueLines, MarkerInv, EndRun
<1>3. WalkInv' /\ CaptureInv'
  BY DEF EndRun, WalkInv, CaptureInv
<1>4. DirtyInv' /\ CanonicalInv' /\ PendingInv' /\ DoneInv'
  BY DEF EndRun, DirtyInv, CanonicalInv, PendingInv, DoneInv, Incremental, Done
<1> QED BY <1>2, <1>3, <1>4 DEF SoundInv

\* Steps of the environment and steps that only count.
LEMMA FrameSound ==
  ASSUME IInv, marker'.complete = marker.complete,
         UNCHANGED <<files, records, losers, rollup, pc, scope, todo, old, fetched,
                     persisted, failed, table, unacked>>
  PROVE  SoundInv'
<1>1. Exact' <=> Exact
  BY DEF Exact
<1>2. UniqueLines' /\ MarkerInv'
  BY <1>1 DEF IInv, SoundInv, UniqueLines, MarkerInv
<1>3. WalkInv' /\ CaptureInv'
  BY DEF IInv, SoundInv, WalkInv, CaptureInv
<1>4. Reach' = Reach /\ Incremental' = Incremental
  BY DEF Reach, Incremental
<1>5. DirtyInv' /\ CanonicalInv'
  BY <1>4 DEF IInv, SoundInv, DirtyInv, CanonicalInv
<1>6. \A t \in Tables : Pending(t)' = Pending(t) /\ Done(t)' = Done(t)
  BY DEF Pending, Done
<1>7. PendingInv' /\ DoneInv'
  BY <1>4, <1>6 DEF IInv, SoundInv, PendingInv, DoneInv
<1> QED BY <1>2, <1>3, <1>5, <1>7 DEF SoundInv

\* The part of the invariant about the walk holds by itself once it is over.
LEMMA WalkIsOver ==
  ASSUME IInv, pc \notin {"idle", "list", "fetch"}, pc' \notin {"idle", "list", "fetch"},
         UNCHANGED <<marker, todo, fetched, persisted, failed, unacked>>
  PROVE  MarkerInv' /\ WalkInv' /\ CaptureInv'
<1>1. MarkerInv'
  BY DEF IInv, SoundInv, MarkerInv
<1>2. WalkInv'
  BY DEF IInv, SoundInv, WalkInv
<1> QED BY <1>1, <1>2 DEF CaptureInv

LEMMA BeginScopeSound == ASSUME IInv, BeginScope PROVE SoundInv'
<1> USE DEF IInv, SoundInv
<1>1. UniqueLines' /\ WalkInv' /\ CaptureInv'
  <2>1. pc = "idle" /\ pc' = "list" /\ records' = records
    BY DEF BeginScope
  <2>3. todo' = todo /\ fetched' = fetched /\ persisted' = persisted
    BY DEF BeginScope
  <2>2. WalkInv'
    BY <2>1, <2>3 DEF WalkInv
  <2> QED BY <2>1, <2>2 DEF UniqueLines, CaptureInv
<1>2. ~marker'.complete
  BY DEF BeginScope, TypeOK, DbTypeOK
<1>3. MarkerInv'
  BY <1>2 DEF BeginScope, MarkerInv
<1>4. /\ pc' = "list" /\ Reach' = scope'
      /\ scope'.dirty = {}
      /\ ~scope'.full => marker.complete
  BY DEF BeginScope, Reach, NoScope
<1>5. ~scope'.full => losers' = Losers(records') /\ \A t \in Tables :
        rollup'[t] = Facts(files', records', losers', t)
  BY <1>4 DEF BeginScope, MarkerInv, Exact
<1>6. DirtyInv'
  BY <1>4 DEF DirtyInv
<1>7. CanonicalInv'
  BY <1>4, <1>5 DEF CanonicalInv, Incremental, FlagsKnown, Differ, BeforeCanonical,
                    BeforePurge
<1>8. PendingInv' /\ DoneInv'
  BY <1>4, <1>5 DEF PendingInv, DoneInv, Incremental, Explained, Differ, Done
<1> QED BY <1>1, <1>3, <1>6, <1>7, <1>8

LEMMA ListSound == ASSUME IInv, List PROVE SoundInv'
<1> USE DEF IInv, SoundInv
<1>1. /\ pc = "list" /\ pc' = "fetch" /\ todo = {} /\ todo' \subseteq Files
      /\ persisted' = {} /\ persisted = {} /\ (\A f \in Files : fetched'[f] = 0)
      /\ UNCHANGED <<records, losers, marker, failed, unacked, table>>
  BY DEF List, WalkInv, Live
<1>2. /\ scope' \in Scope /\ scope \in Scope
      /\ scope'.full \/ (scope' = scope /\ files' = files /\ rollup' = rollup)
  <2>1. PICK p : Rekey(p)
    BY DEF List
  <2>2. scope \in Scope
    BY DEF TypeOK, RunTypeOK
  <2>3. Promote(scope, TRUE) \in Scope /\ Promote(scope, TRUE).full
    BY <2>2, PromoteFields
  <2> QED BY <2>1, <2>2, <2>3 DEF Rekey
<1>3. UniqueLines' /\ MarkerInv' /\ WalkInv'
  BY <1>1 DEF UniqueLines, MarkerInv, WalkInv
<1>4. CaptureInv'
  <2>1. ~scope'.full => \A f \in todo' : old'[f] = Contribution(files', records', {f})
    BY <1>1, <1>2 DEF List
  <2> QED BY <1>1, <2>1 DEF CaptureInv
<1>5. ~scope'.full => /\ Includes(Reach', Reach) /\ Reach'.dirty = Reach.dirty
  <2> SUFFICES ASSUME ~scope'.full
               PROVE  Includes(Reach', Reach) /\ Reach'.dirty = Reach.dirty
    OBVIOUS
  <2>1. Reach = scope
    BY <1>1 DEF Reach
  <2>2. Reach' = AddContribution(scope, Contribution(files', records', {}), {})
    BY <1>1, <1>2 DEF Reach
  <2> QED BY <1>2, <2>1, <2>2, NothingContributes
<1>6. DirtyInv'
  BY <1>1, <1>2, <1>5, RowCoveredGrows DEF DirtyInv, Incremental, BeforePurge
<1>7. CanonicalInv'
  BY <1>1, <1>2, <1>5 DEF CanonicalInv, Incremental, FlagsKnown, BeforeCanonical,
                          BeforePurge, Includes
<1>8. PendingInv'
  <2> SUFFICES ASSUME Incremental', NEW t \in Tables
               PROVE  Explained(Reach, rollup[t], Facts(files, records, losers, t))'
    BY <1>1 DEF PendingInv
  <2>1. Explained(Reach, rollup[t], Facts(files, records, losers, t))
    BY <1>1, <1>2 DEF PendingInv, Incremental, Pending, BeforeRollup, BeforeCanonical,
                      BeforePurge
  <2>2. UNCHANGED <<files, records, losers, rollup>> /\ Includes(Reach', Reach)
    BY <1>1, <1>2, <1>5 DEF Incremental
  <2> QED BY <2>1, <2>2, CoversGrows DEF Explained
<1>9. DoneInv'
  BY <1>1 DEF DoneInv, Done
<1> QED BY <1>3, <1>4, <1>6, <1>7, <1>8, <1>9

-----------------------------------------------------------------------------
\* The fetch phase.

LEMMA IncludesTrans ==
  ASSUME NEW a, NEW b, NEW c, Includes(a, b), Includes(b, c)
  PROVE  Includes(a, c)
BY DEF Includes

LEMMA AddIncludes ==
  ASSUME NEW s \in Scope, NEW c \in AnyContribution, NEW fs \in SUBSET Files
  PROVE  /\ Includes(AddContribution(s, c, fs), s)
         /\ Includes(AddContribution(s, c, fs), c)
         /\ \A z : Includes(z, s) /\ Includes(z, c) =>
                     Includes(z, AddContribution(s, c, fs))
BY ContributionFields DEF Includes

LEMMA ContributionIsOne ==
  ASSUME TypeOK, NEW fs
  PROVE  Contribution(files, records, fs) \in AnyContribution
BY ContributionTyped DEF TypeOK, DbTypeOK, AnyContribution

LEMMA ContributionGrows ==
  ASSUME NEW fls, NEW recs, NEW fs, NEW fls2, NEW recs2, NEW fs2,
         RowsOf(recs, fs) \subseteq RowsOf(recs2, fs2),
         \A r \in RowsOf(recs, fs) : fls2[r.file] = fls[r.file]
  PROVE  Includes(Contribution(fls2, recs2, fs2), Contribution(fls, recs, fs))
<1> DEFINE rows == RowsOf(recs, fs)
           rows2 == RowsOf(recs2, fs2)
<1>1. CellsOf(fls, rows) \subseteq CellsOf(fls2, rows2)
  BY DEF CellsOf
<1>2. UuidsOf(rows) \subseteq UuidsOf(rows2)
  BY DEF UuidsOf
<1>3. HasNullHour(rows) => HasNullHour(rows2)
  BY DEF HasNullHour
<1> QED BY <1>1, <1>2, <1>3 DEF Contribution, Includes

LEMMA ContributionSame ==
  ASSUME NEW fls, NEW recs, NEW fls2, NEW recs2, NEW fs,
         RowsOf(recs2, fs) = RowsOf(recs, fs),
         \A f \in fs : fls2[f] = fls[f]
  PROVE  Contribution(fls2, recs2, fs) = Contribution(fls, recs, fs)
<1> DEFINE rows == RowsOf(recs, fs)
<1>1. \A r \in rows : r.file \in fs
  BY DEF RowsOf
<1>2. CellsOf(fls2, rows) = CellsOf(fls, rows)
  BY <1>1 DEF CellsOf
<1> QED BY <1>2 DEF Contribution

\* What the scope reaches during the fetch phase, now and after a step.
LEMMA ReachNow ==
  ASSUME TypeOK, pc = "fetch"
  PROVE  /\ Includes(Reach, scope)
         /\ Includes(Reach, Contribution(files, records, persisted))
         /\ Reach.dirty = scope.dirty \union persisted
         /\ \A z : Includes(z, scope) /\ Includes(z, Contribution(files, records, persisted))
                     => Includes(z, Reach)
<1>1. scope \in Scope /\ persisted \in SUBSET Files
  BY DEF TypeOK, RunTypeOK
<1>2. Contribution(files, records, persisted) \in AnyContribution
  BY ContributionIsOne
<1>3. Reach = AddContribution(scope, Contribution(files, records, persisted), persisted)
  BY DEF Reach
<1> QED BY <1>1, <1>2, <1>3, AddIncludes, ContributionFields

LEMMA ReachNext ==
  ASSUME TypeOK', pc' = "fetch"
  PROVE  /\ Includes(Reach', scope')
         /\ Includes(Reach', Contribution(files', records', persisted'))
         /\ Reach'.dirty = scope'.dirty \union persisted'
<1>1. scope' \in Scope /\ persisted' \in SUBSET Files
  BY DEF TypeOK, RunTypeOK
<1>2. Contribution(files', records', persisted') \in AnyContribution
  BY ContributionTyped DEF TypeOK, DbTypeOK, AnyContribution
<1>3. Reach' = AddContribution(scope', Contribution(files', records', persisted'), persisted')
  BY DEF Reach
<1> QED BY <1>1, <1>2, <1>3, AddIncludes, ContributionFields

\* Steps of the fetch phase that store nothing.
LEMMA QueueSound ==
  ASSUME IInv, TypeOK', NEW f \in Files,
         Fetch(f) \/ Vanish(f) \/ FetchFail(f) \/ PersistFail(f)
  PROVE  SoundInv'
<1> USE DEF IInv, SoundInv
<1>1. /\ pc = "fetch" /\ pc' = "fetch" /\ todo' \subseteq todo /\ persisted' = persisted
      /\ files' = files /\ records' = records /\ losers' = losers /\ rollup' = rollup
      /\ marker' = marker /\ unacked' = unacked /\ table' = table /\ old' = old
      /\ (failed => failed')
  BY DEF Fetch, Vanish, FetchFail, PersistFail
<1>2. /\ \A g \in Files : fetched'[g] # 0 => fetched[g] # 0 \/ (g = f /\ Fetch(f))
      /\ Fetch(f) => f \in todo /\ f \notin todo'
  BY DEF Fetch, Vanish, FetchFail, PersistFail, TypeOK, RunTypeOK
<1>3. scope' # scope => /\ Fetch(f) /\ Pooled /\ ~scope.full
                        /\ scope' = AddContribution(scope, old[f], {f})
  BY DEF Fetch, Vanish, FetchFail, PersistFail
<1>4. scope \in Scope /\ old[f] \in AnyContribution
  BY DEF TypeOK, RunTypeOK, AnyContribution
<1>5. /\ Includes(scope', scope) /\ scope'.full = scope.full
      /\ scope' # scope => Includes(scope', old[f])
      /\ scope'.dirty \subseteq scope.dirty \union (IF scope' = scope THEN {} ELSE {f})
  BY <1>3, <1>4, AddIncludes, ContributionFields DEF Includes
<1>6. UniqueLines' /\ MarkerInv'
  BY <1>1 DEF UniqueLines, MarkerInv
<1>7. WalkInv'
  BY <1>1, <1>2 DEF WalkInv, TypeOK, RunTypeOK
<1>8. Fetch(f) /\ ~scope.full => old[f] = Contribution(files, records, {f})
  BY <1>1, <1>2 DEF CaptureInv
<1>9. CaptureInv'
  <2> SUFFICES ASSUME ~scope'.full, NEW g \in Files
               PROVE  /\ g \in todo' \/ fetched'[g] # 0 =>
                           old'[g] = Contribution(files', records', {g})
                      /\ Pooled /\ fetched'[g] # 0 => Includes(scope', old'[g])
    BY DEF CaptureInv
  <2>1. g \in todo' \/ fetched'[g] # 0 => g \in todo \/ fetched[g] # 0
    BY <1>1, <1>2
  <2>2. Fetch(f) /\ Pooled => scope' = AddContribution(scope, old[f], {f})
    BY <1>5 DEF Fetch
  <2>3. Fetch(f) /\ Pooled => Includes(scope', old[f])
    BY <2>2, <1>4, AddIncludes
  <2>4. fetched[g] # 0 /\ Pooled => Includes(scope', old[g])
    BY <1>1, <1>5, IncludesTrans DEF CaptureInv
  <2> QED BY <2>1, <2>3, <2>4, <1>1, <1>2, <1>5 DEF CaptureInv
<1>10. Includes(Reach', Reach)
  <2>1. Includes(Reach', scope) /\ Includes(Reach', Contribution(files, records, persisted))
    BY <1>1, <1>5, ReachNext, IncludesTrans
  <2> QED BY <1>1, <2>1, ReachNow
<1>11. Incremental' => Incremental
  BY <1>1, <1>5 DEF Incremental
<1>12. DirtyInv'
  <2> SUFFICES ASSUME Incremental', NEW r \in records, r.file \in Reach'.dirty
               PROVE  RowCovered(Reach', files, r)
    BY <1>1 DEF DirtyInv
  <2>1. CASE r.file \in Reach.dirty
    <3>1. RowCovered(Reach, files, r)
      BY <1>1, <1>11, <2>1 DEF DirtyInv, BeforePurge
    <3> QED BY <3>1, <1>10, RowCoveredGrows
  <2>2. CASE r.file \notin Reach.dirty
    <3>1. Reach'.dirty = scope'.dirty \union persisted /\ Reach.dirty = scope.dirty \union persisted
      BY <1>1, ReachNow, ReachNext
    <3>2. r.file = f /\ scope' # scope
      BY <3>1, <2>2, <1>5
    <3>3. Includes(Reach', Contribution(files, records, {f}))
      BY <3>2, <1>1, <1>3, <1>5, <1>8, ReachNext, IncludesTrans
    <3> QED BY <3>2, <3>3, IncludedRow
  <2> QED BY <2>1, <2>2
<1>13. CanonicalInv'
  BY <1>1, <1>10, <1>11 DEF CanonicalInv, FlagsKnown, Includes, BeforeCanonical, BeforePurge
<1>14. PendingInv'
  <2> SUFFICES ASSUME Incremental', NEW t \in Tables
               PROVE  Explained(Reach', rollup[t], Facts(files, records, losers, t))
    BY <1>1 DEF PendingInv
  <2>1. Explained(Reach, rollup[t], Facts(files, records, losers, t))
    BY <1>1, <1>11 DEF PendingInv, Pending, BeforeRollup, BeforeCanonical, BeforePurge
  <2> QED BY <2>1, <1>10, CoversGrows DEF Explained
<1>15. DoneInv'
  BY <1>1 DEF DoneInv, Done
<1> QED BY <1>6, <1>7, <1>9, <1>12, <1>13, <1>14, <1>15


\* What storing a file does to the rows, whether or not its answer arrives.
LEMMA StoredRows ==
  ASSUME IInv, NEW f \in Files, StoreFile(f), pc = "fetch", fetched[f] # 0
  PROVE  /\ \A r \in records' : r.file = f \/ r \in records
         /\ \A r \in records : r.file = f \/ r \in records'
         /\ \A r \in records : r.file # f => r \in losers' <=> r \in losers
         /\ \A r \in losers' : r.file # f
         /\ \A g \in Files : g # f => files'[g] = files[g]
         /\ \A g \in Files : fetched'[g] # 0 => fetched[g] # 0 /\ g # f
         /\ \A r \in records : r.file \in Files
         /\ f \notin todo /\ f \notin persisted
         /\ UniqueLines'
<1> USE DEF IInv, SoundInv
<1>1. fetched[f] \in 1..MaxVersion
  BY IngestAssumption DEF IngestAssumption, TypeOK, RunTypeOK
<1>2. \A r \in Parsed(f, fetched[f]) : r.file = f
  BY DEF Parsed
<1>3. /\ records' = Without(records, {f}) \union Parsed(f, fetched[f])
      /\ losers' = Without(losers, {f})
  BY DEF StoreFile
<1>4. \A r \in records : r.file \in Files
  BY DEF TypeOK, DbTypeOK, Record
<1>5. \A r, s \in Parsed(f, fetched[f]) : r.line = s.line => r = s
  <2>1. \A c, d \in Content[f][fetched[f]] : c.line = d.line => c = d
    BY <1>1, IngestAssumption DEF IngestAssumption
  <2> QED BY <2>1 DEF Parsed
<1>6. UniqueLines'
  BY <1>2, <1>3, <1>5 DEF UniqueLines, Without
<1>7. f \notin todo /\ f \notin persisted
  BY DEF WalkInv
<1>8. /\ \A g \in Files : g # f => files'[g] = files[g]
      /\ \A g \in Files : fetched'[g] # 0 => fetched[g] # 0 /\ g # f
  BY DEF StoreFile, TypeOK, DbTypeOK, RunTypeOK
<1> QED BY <1>2, <1>3, <1>4, <1>6, <1>7, <1>8 DEF Without

LEMMA StoreCapture ==
  ASSUME IInv, NEW f \in Files, StoreFile(f), pc = "fetch", fetched[f] # 0,
         scope'.full = scope.full, Includes(scope', scope)
  PROVE  CaptureInv'
<1>1. pc' = "fetch" /\ todo' = todo /\ old' = old
  BY DEF StoreFile
<1> SUFFICES ASSUME ~scope.full, NEW g \in Files, g \in todo \/ fetched'[g] # 0
             PROVE  /\ old[g] = Contribution(files', records', {g})
                    /\ Pooled /\ fetched'[g] # 0 => Includes(scope', old[g])
  BY <1>1 DEF CaptureInv
<1>2. g # f /\ (fetched'[g] # 0 => fetched[g] # 0)
  BY StoredRows
<1>3. /\ old[g] = Contribution(files, records, {g})
      /\ Pooled /\ fetched[g] # 0 => Includes(scope, old[g])
  BY <1>2 DEF IInv, SoundInv, CaptureInv
<1>4. RowsOf(records', {g}) = RowsOf(records, {g})
  BY <1>2, StoredRows DEF RowsOf
<1>5. Contribution(files', records', {g}) = Contribution(files, records, {g})
  BY <1>2, <1>4, StoredRows, ContributionSame
<1> QED BY <1>2, <1>3, <1>5, IncludesTrans

LEMMA PersistSound ==
  ASSUME IInv, TypeOK', NEW f \in Files, Persist(f)
  PROVE  SoundInv'
<1> USE DEF IInv, SoundInv
<1>1. /\ pc = "fetch" /\ fetched[f] # 0 /\ StoreFile(f)
      /\ failed' = failed /\ unacked' = unacked
      /\ persisted' = IF scope.full THEN persisted ELSE persisted \union {f}
      /\ scope' = IF ~Pooled /\ ~scope.full
                  THEN AddContribution(scope, old[f], {f}) ELSE scope
  BY DEF Persist
<1>2. /\ pc' = "fetch" /\ todo' = todo /\ old' = old /\ rollup' = rollup
      /\ marker' = marker /\ table' = table
  BY <1>1 DEF StoreFile
<1>3. scope \in Scope /\ old[f] \in AnyContribution
  BY DEF TypeOK, RunTypeOK, AnyContribution
<1>4. /\ Includes(scope', scope) /\ scope'.full = scope.full
      /\ scope'.dirty \subseteq scope.dirty \union {f}
  BY <1>1, <1>3, AddIncludes, ContributionFields DEF Includes
<1>5. CaptureInv'
  BY <1>1, <1>4, StoreCapture
<1>6. MarkerInv' /\ UniqueLines'
  BY <1>1, <1>2, StoredRows DEF MarkerInv
<1>7. WalkInv'
  BY <1>1, <1>2, StoredRows DEF WalkInv, TypeOK, RunTypeOK
<1>8. DoneInv'
  BY <1>2 DEF DoneInv, Done
<1>9. ASSUME Incremental'
      PROVE  /\ Incremental
             /\ Includes(Reach', Reach) /\ Reach'.dirty \subseteq Reach.dirty \union {f}
             /\ \A r \in records : r.file = f => RowCovered(Reach', files, r)
             /\ \A r \in records' : r.file = f => RowCovered(Reach', files', r)
  <2>1. Incremental /\ ~scope.full
    BY <1>1, <1>2, <1>4, <1>9 DEF Incremental
  <2>2. persisted' = persisted \union {f}
    BY <1>1, <2>1
  <2>3. /\ Includes(Reach', scope') /\ Reach'.dirty = scope'.dirty \union persisted'
        /\ Includes(Reach', Contribution(files', records', persisted'))
    BY <1>2, ReachNext
  <2>4. Includes(Contribution(files', records', persisted'),
                 Contribution(files, records, persisted))
    <3>1. \A r \in RowsOf(records, persisted) :
            r \in RowsOf(records', persisted') /\ files'[r.file] = files[r.file]
      BY <1>1, <2>2, StoredRows DEF RowsOf
    <3> QED BY <3>1, ContributionGrows
  <2>5. Includes(Reach', Reach)
    BY <1>1, <1>4, <2>3, <2>4, ReachNow, IncludesTrans
  <2>6. Reach'.dirty \subseteq Reach.dirty \union {f}
    BY <1>1, <1>4, <2>2, <2>3, ReachNow
  <2>7. Includes(Reach', old[f])
    <3>1. CASE Pooled
      BY <1>1, <1>4, <2>1, <2>3, <3>1, IncludesTrans DEF CaptureInv
    <3>2. CASE ~Pooled
      BY <1>1, <1>3, <2>1, <2>3, <3>2, AddIncludes, IncludesTrans
    <3> QED BY <3>1, <3>2
  <2>8. old[f] = Contribution(files, records, {f})
    BY <1>1, <2>1 DEF CaptureInv
  <2>9. \A r \in records : r.file = f => RowCovered(Reach', files, r)
    BY <2>7, <2>8, IncludedRow
  <2>10. \A r \in records' : r.file = f => RowCovered(Reach', files', r)
    BY <2>2, <2>3, IncludedRow
  <2> QED BY <2>1, <2>5, <2>6, <2>9, <2>10
<1>10. DirtyInv'
  <2> SUFFICES ASSUME Incremental', NEW r \in records', r.file \in Reach'.dirty, r.file # f
               PROVE  RowCovered(Reach', files', r)
    BY <1>9 DEF DirtyInv
  <2>1. r \in records /\ files'[r.file] = files[r.file] /\ r.file \in Reach.dirty
    BY <1>1, <1>9, StoredRows
  <2>2. RowCovered(Reach, files, r)
    BY <1>1, <1>9, <2>1 DEF DirtyInv, BeforePurge
  <2> QED BY <1>9, <2>1, <2>2, RowCoveredGrows DEF RowCovered
<1>11. CanonicalInv'
  <2> SUFFICES ASSUME Incremental', NEW r \in records', Differ(r, losers', Losers(records'))
               PROVE  r.uuid \in Reach'.uuids
    BY <1>2 DEF CanonicalInv, FlagsKnown, BeforeCanonical, BeforePurge
  <2>1. CASE r.file = f
    <3>1. r.uuid # NoUuid
      BY <1>1, <2>1, StoredRows DEF Losers, Differ
    <3> QED BY <1>9, <2>1, <3>1 DEF RowCovered
  <2>2. CASE r.file # f
    <3>1. r \in records /\ (r \in losers' <=> r \in losers)
      BY <1>1, <2>2, StoredRows
    <3>2. CASE Differ(r, losers, Losers(records))
      BY <1>1, <1>9, <3>1, <3>2 DEF CanonicalInv, FlagsKnown, Includes, BeforeCanonical,
                                    BeforePurge
    <3>3. CASE Differ(r, Losers(records), Losers(records'))
      <4>1. /\ \A q \in records : q \notin records' /\ q.uuid # NoUuid => q.uuid \in Reach'.uuids
            /\ \A q \in records' : q \notin records /\ q.uuid # NoUuid => q.uuid \in Reach'.uuids
        <5>1. /\ \A q \in records : q \notin records' => q.file = f
              /\ \A q \in records' : q \notin records => q.file = f
          BY <1>1, StoredRows
        <5>2. \A q \in records \union records' :
                q.file = f /\ q.uuid # NoUuid => q.uuid \in Reach'.uuids
          BY <1>9 DEF RowCovered
        <5> QED BY <5>1, <5>2
      <4> QED BY <3>1, <3>3, <4>1, LosersLocal
    <3> QED BY <3>1, <3>2, <3>3 DEF Differ
  <2> QED BY <2>1, <2>2
<1>12. PendingInv'
  <2> SUFFICES ASSUME Incremental', NEW t \in Tables
               PROVE  Explained(Reach', rollup[t], Facts(files', records', losers', t))
    BY <1>2 DEF PendingInv
  <2>1. Explained(Reach, rollup[t], Facts(files, records, losers, t))
    BY <1>1, <1>9 DEF PendingInv, Pending, BeforeRollup, BeforeCanonical, BeforePurge
  <2>2. Explained(Reach', Facts(files, records, losers, t),
                          Facts(files', records', losers', t))
    <3>1. \A r \in records \ losers :
            \/ r \in records' \ losers' /\ FactOf(files', t, r) = FactOf(files, t, r)
            \/ Covers(Reach', files[r.file].proj, r.hour)
      BY <1>1, <1>9, StoredRows DEF RowCovered, FactOf
    <3>2. \A r \in records' \ losers' :
            \/ r \in records \ losers /\ FactOf(files', t, r) = FactOf(files, t, r)
            \/ Covers(Reach', files'[r.file].proj, r.hour)
      BY <1>1, <1>9, StoredRows DEF RowCovered, FactOf
    <3> QED BY <3>1, <3>2, FactsExplained
  <2> QED BY <1>9, <2>1, <2>2, ExplainedChain
<1> QED BY <1>5, <1>6, <1>7, <1>8, <1>10, <1>11, <1>12

LEMMA UnackedSound ==
  ASSUME IInv, NEW f \in Files, PersistUnacked(f)
  PROVE  SoundInv'
<1> USE DEF IInv, SoundInv
<1>1. /\ pc = "fetch" /\ fetched[f] # 0 /\ StoreFile(f)
      /\ failed' = TRUE /\ unacked' = TRUE
      /\ persisted' = persisted /\ scope' = scope
  BY DEF PersistUnacked
<1>2. pc' = "fetch" /\ todo' = todo /\ marker' = marker
  BY <1>1 DEF StoreFile
<1>3. UniqueLines' /\ MarkerInv'
  BY <1>1, <1>2, StoredRows DEF MarkerInv
<1>4. WalkInv'
  BY <1>1, <1>2, StoredRows DEF WalkInv, TypeOK, RunTypeOK
<1>5. CaptureInv'
  BY <1>1, StoreCapture DEF Includes
<1>6. DirtyInv' /\ CanonicalInv' /\ PendingInv' /\ DoneInv'
  BY <1>1 DEF DirtyInv, CanonicalInv, PendingInv, DoneInv, Incremental
<1> QED BY <1>3, <1>4, <1>5, <1>6


LEMMA CollectSound ==
  ASSUME IInv, TypeOK', Collect
  PROVE  SoundInv'
<1> USE DEF IInv, SoundInv
<1>1. /\ pc = "fetch" /\ pc' = "orphans" /\ todo = {} /\ (\A f \in Files : fetched[f] = 0)
      /\ files' = files /\ records' = records /\ losers' = losers /\ rollup' = rollup
      /\ marker' = marker /\ failed' = failed /\ unacked' = unacked
      /\ todo' = todo /\ fetched' = fetched /\ persisted' = persisted
  BY DEF Collect
<1>2. scope \in Scope /\ Reach \in Scope /\ Reach.full = scope.full
  <2>1. scope \in Scope /\ persisted \in SUBSET Files
    BY DEF TypeOK, RunTypeOK
  <2>2. Reach = AddContribution(scope, Contribution(files, records, persisted), persisted)
    BY <1>1 DEF Reach
  <2> QED BY <2>1, <2>2, ContributionIsOne, ContributionFields
<1>3. MarkerInv' /\ UniqueLines' /\ CaptureInv' /\ WalkInv'
  BY <1>1 DEF MarkerInv, UniqueLines, CaptureInv, WalkInv
<1>4. Reach' = scope'
  BY <1>1 DEF Reach
<1>5. ASSUME Incremental'
      PROVE  Incremental /\ Includes(Reach', Reach) /\ Reach'.dirty = Reach.dirty
  <2>1. CASE scope.full \/ persisted = {}
    <3>1. scope' = scope
      BY <2>1 DEF Collect
    <3>2. Incremental /\ persisted = {}
      BY <1>1, <1>5, <2>1, <3>1 DEF Incremental
    <3>3. Reach = AddContribution(scope, Contribution(files, records, {}), {})
      BY <1>1, <3>2 DEF Reach
    <3> QED BY <1>2, <1>4, <3>1, <3>2, <3>3, NothingContributes
  <2>2. CASE ~(scope.full \/ persisted = {})
    <3>1. scope' = CheckLatencyNull(Reach)
      BY <1>1, <2>2 DEF Collect, Reach
    <3>2. scope'.cells = Reach.cells /\ scope'.uuids = Reach.uuids
          /\ scope'.latNull = Reach.latNull /\ scope'.dirty = Reach.dirty
      BY <1>2, <3>1, CheckFields
    <3> QED BY <1>1, <1>4, <1>5, <2>2, <3>2 DEF Incremental, Includes
  <2> QED BY <2>1, <2>2
<1>6. DirtyInv'
  BY <1>1, <1>5, RowCoveredGrows DEF DirtyInv, BeforePurge
<1>7. CanonicalInv'
  BY <1>1, <1>5 DEF CanonicalInv, FlagsKnown, Includes, BeforeCanonical, BeforePurge
<1>8. PendingInv'
  <2> SUFFICES ASSUME Incremental', NEW t \in Tables
               PROVE  Explained(Reach', rollup[t], Facts(files, records, losers, t))
    BY <1>1 DEF PendingInv
  <2>1. Explained(Reach, rollup[t], Facts(files, records, losers, t))
    BY <1>1, <1>5 DEF PendingInv, Pending, BeforeRollup, BeforeCanonical, BeforePurge
  <2> QED BY <2>1, <1>5, CoversGrows DEF Explained
<1>9. DoneInv'
  BY <1>1 DEF DoneInv, Done
<1> QED BY <1>3, <1>6, <1>7, <1>8, <1>9
-----------------------------------------------------------------------------
\* The sweeps.

\* Rows that go away leave a covered trace, if they were covered.
LEMMA RowsRemoved ==
  ASSUME NEW s, NEW u, Includes(u, s), NEW recs, NEW lost, NEW recs2, NEW lost2,
         recs2 \subseteq recs, lost2 = lost \intersect recs2,
         NEW fls, NEW fls2, \A r \in recs2 : fls2[r.file] = fls[r.file],
         \A r \in recs : r \notin recs2 => RowCovered(u, fls, r)
  PROVE  /\ FlagsKnown(s.uuids, lost, recs) => FlagsKnown(u.uuids, lost2, recs2)
         /\ \A A : \A t \in Tables :
              Explained(s, A, Facts(fls, recs, lost, t)) =>
                Explained(u, A, Facts(fls2, recs2, lost2, t))
<1>1. ASSUME FlagsKnown(s.uuids, lost, recs), NEW r \in recs2,
             Differ(r, lost2, Losers(recs2))
      PROVE  r.uuid \in u.uuids
  <2>1. CASE Differ(r, lost, Losers(recs))
    BY <1>1, <2>1 DEF FlagsKnown, Includes
  <2>2. CASE Differ(r, Losers(recs), Losers(recs2))
    <3>1. \A q \in recs : q \notin recs2 /\ q.uuid # NoUuid => q.uuid \in u.uuids
      BY DEF RowCovered
    <3> QED BY <2>2, <3>1, LosersLocal
  <2> QED BY <1>1, <2>1, <2>2 DEF Differ
<1>2. ASSUME NEW t \in Tables, NEW A, Explained(s, A, Facts(fls, recs, lost, t))
      PROVE  Explained(u, A, Facts(fls2, recs2, lost2, t))
  <2>1. \A r \in recs \ lost :
          \/ r \in recs2 \ lost2 /\ FactOf(fls2, t, r) = FactOf(fls, t, r)
          \/ Covers(u, fls[r.file].proj, r.hour)
    BY DEF RowCovered, FactOf
  <2>2. \A r \in recs2 \ lost2 :
          r \in recs \ lost /\ FactOf(fls2, t, r) = FactOf(fls, t, r)
    BY DEF FactOf
  <2>3. Explained(u, Facts(fls, recs, lost, t), Facts(fls2, recs2, lost2, t))
    BY <2>1, <2>2, FactsExplained
  <2> QED BY <1>2, <2>3, ExplainedChain
<1> QED BY <1>1, <1>2 DEF FlagsKnown

\* Deleting unreferenced projects takes nothing away that must stay.
LEMMA ProjectsDropped ==
  ASSUME NEW s, NEW u, Includes(u, s), NEW ps, NEW fls, NEW recs, NEW lost,
         NEW t \in Tables, \A r \in recs : r.file \in Files /\ fls[r.file] # NoFile,
         Explained(s, rollup[t], Facts(fls, recs, lost, t))
  PROVE  Explained(u, WithoutProjects(ps, fls)[t], Facts(fls, recs, lost, t))
<1> DEFINE facts == Facts(fls, recs, lost, t)
           kept == WithoutProjects(ps, fls)[t]
<1>1. kept \subseteq rollup[t]
  BY DEF WithoutProjects
<1>2. \A x \in rollup[t] : x \notin kept => x \notin facts
  BY DroppedIsNoFact
<1> HIDE DEF facts, kept
<1>3. Explained(s, rollup[t], facts)
  BY DEF facts
<1>4. Explained(u, kept, facts)
  BY <1>1, <1>2, <1>3, CoversGrows DEF Explained, Differ
<1> QED BY <1>4 DEF facts, kept

LEMMA OrphansSound ==
  ASSUME IInv, TypeOK', DeleteOrphans
  PROVE  SoundInv'
<1> USE DEF IInv, SoundInv
<1> DEFINE doomed == Stored \ seen
<1>1. /\ pc = "orphans" /\ pc' = "projects"
      /\ scope' = IF scope.full THEN scope
                  ELSE CheckLatencyNull(AddContribution(scope,
                         Contribution(files, records, doomed), doomed))
      /\ files' = [f \in Files |-> IF f \in doomed THEN NoFile ELSE files[f]]
      /\ records' = Without(records, doomed) /\ losers' = Without(losers, doomed)
      /\ rollup' = rollup
  BY DEF DeleteOrphans
<1>2. /\ marker' = marker /\ failed' = failed /\ unacked' = unacked
      /\ todo' = todo /\ fetched' = fetched /\ persisted' = persisted
  BY DEF DeleteOrphans
<1>3. MarkerInv' /\ WalkInv' /\ CaptureInv'
  BY <1>1, <1>2, WalkIsOver
<1>4. /\ records' \subseteq records /\ losers' = losers \intersect records'
      /\ \A r \in records' : r.file \notin doomed /\ files'[r.file] = files[r.file]
      /\ \A r \in records : r \notin records' => r.file \in doomed
  BY <1>1 DEF Without, TypeOK, DbTypeOK, Record
<1>5. UniqueLines'
  BY <1>4 DEF UniqueLines
<1>6. Reach = scope /\ Reach' = scope'
  BY <1>1 DEF Reach
<1> DEFINE c == Contribution(files, records, doomed)
<1>7. ASSUME Incremental'
      PROVE  /\ Incremental /\ Includes(scope', scope)
             /\ scope'.dirty = scope.dirty \union doomed
             /\ \A r \in records : r \notin records' => RowCovered(scope', files, r)
  <2>1. ~scope.full /\ Incremental
    BY <1>1, <1>2, <1>7 DEF Incremental
  <2>2. scope \in Scope /\ doomed \in SUBSET Files
    BY DEF TypeOK, RunTypeOK, Stored
  <2>3. c \in AnyContribution
    BY ContributionIsOne
  <2>4. scope' = CheckLatencyNull(AddContribution(scope, c, doomed))
    BY <1>1, <2>1
  <2> HIDE DEF c, doomed
  <2>5. /\ AddContribution(scope, c, doomed) \in Scope
        /\ Includes(AddContribution(scope, c, doomed), scope)
        /\ Includes(AddContribution(scope, c, doomed), c)
        /\ AddContribution(scope, c, doomed).dirty = scope.dirty \union doomed
    BY <2>2, <2>3, AddIncludes, ContributionFields
  <2>6. /\ Includes(scope', scope) /\ Includes(scope', c)
        /\ scope'.dirty = scope.dirty \union doomed
    BY <2>4, <2>5, CheckFields DEF Includes
  <2>7. \A r \in records : r \notin records' => RowCovered(scope', files, r)
    BY <2>6, <1>4, IncludedRow DEF c
  <2> QED BY <2>1, <2>6, <2>7
<1> HIDE DEF doomed
<1>8. DirtyInv'
  <2> SUFFICES ASSUME Incremental', NEW r \in records', r.file \in scope'.dirty
               PROVE  RowCovered(scope', files', r)
    BY <1>6 DEF DirtyInv
  <2>1. RowCovered(scope, files, r)
    BY <1>1, <1>4, <1>6, <1>7 DEF DirtyInv, BeforePurge
  <2> QED BY <2>1, <1>4, <1>7, RowCoveredGrows DEF RowCovered
<1>9. CanonicalInv'
  <2> SUFFICES ASSUME Incremental' PROVE FlagsKnown(scope'.uuids, losers', records')
    BY <1>1, <1>6 DEF CanonicalInv, BeforeCanonical, BeforePurge
  <2>1. FlagsKnown(scope.uuids, losers, records)
    BY <1>1, <1>6, <1>7 DEF CanonicalInv, BeforeCanonical, BeforePurge
  <2> QED BY <2>1, <1>4, <1>7, RowsRemoved
<1>10. PendingInv'
  <2> SUFFICES ASSUME Incremental', NEW t \in Tables
               PROVE  Explained(scope', rollup[t], Facts(files', records', losers', t))
    BY <1>1, <1>6 DEF PendingInv
  <2>1. Explained(scope, rollup[t], Facts(files, records, losers, t))
    BY <1>1, <1>6, <1>7 DEF PendingInv, Pending, BeforeRollup, BeforeCanonical, BeforePurge
  <2> QED BY <2>1, <1>4, <1>7, RowsRemoved
<1>11. DoneInv'
  BY <1>1 DEF DoneInv, Done
<1> QED BY <1>3, <1>5, <1>8, <1>9, <1>10, <1>11


LEMMA OrphanProjectsSound ==
  ASSUME IInv, DeleteOrphanProjects
  PROVE  SoundInv'
<1> USE DEF IInv, SoundInv
<1>1. /\ pc = "projects" /\ pc' = "purge"
      /\ rollup' = WithoutProjects(Projects, files)
      /\ scope' = CheckLatencyNull(CheckDirtyThreshold(scope))
      /\ files' = files /\ records' = records /\ losers' = losers
  BY DEF DeleteOrphanProjects
<1>2. /\ marker' = marker /\ failed' = failed /\ unacked' = unacked
      /\ todo' = todo /\ fetched' = fetched /\ persisted' = persisted
  BY DEF DeleteOrphanProjects
<1>3. MarkerInv' /\ WalkInv' /\ CaptureInv'
  BY <1>1, <1>2, WalkIsOver
<1>4. Reach = scope /\ Reach' = scope'
  BY <1>1 DEF Reach
<1>5. /\ Includes(scope', scope) /\ scope'.dirty = scope.dirty
      /\ scope'.cells = scope.cells /\ scope'.uuids = scope.uuids
      /\ ~scope'.full => ~scope.full
  <2>1. scope \in Scope
    BY DEF TypeOK, RunTypeOK
  <2>2. CheckDirtyThreshold(scope) \in Scope
    BY <2>1, CheckFields
  <2> QED BY <1>1, <2>1, <2>2, CheckFields DEF Includes
<1>6. Incremental' => Incremental
  BY <1>1, <1>2, <1>5 DEF Incremental
<1>7. UniqueLines'
  BY <1>1 DEF UniqueLines
<1>8. DirtyInv'
  BY <1>1, <1>4, <1>5, <1>6, RowCoveredGrows DEF DirtyInv, BeforePurge
<1>9. CanonicalInv'
  BY <1>1, <1>4, <1>5, <1>6 DEF CanonicalInv, BeforeCanonical, BeforePurge
<1>10. PendingInv'
  <2> SUFFICES ASSUME Incremental', NEW t \in Tables
               PROVE  Explained(scope', rollup'[t], Facts(files, records, losers, t))
    BY <1>1, <1>4 DEF PendingInv
  <2>1. Explained(scope, rollup[t], Facts(files, records, losers, t))
    BY <1>1, <1>4, <1>6 DEF PendingInv, Pending, BeforeRollup, BeforeCanonical, BeforePurge
  <2>2. \A r \in records : r.file \in Files /\ files[r.file] # NoFile
    BY DEF TypeOK, DbTypeOK, Record
  <2> QED BY <2>1, <2>2, <1>1, <1>5, ProjectsDropped
<1>11. DoneInv'
  BY <1>1 DEF DoneInv, Done
<1> QED BY <1>3, <1>7, <1>8, <1>9, <1>10, <1>11

LEMMA PurgeSound ==
  ASSUME IInv, PurgeSuppressed
  PROVE  SoundInv'
<1> USE DEF IInv, SoundInv
<1> DEFINE gone == {r \in records : /\ r.model \in operator.suppress
                                    /\ scope.full \/ r.file \in scope.dirty}
<1>1. /\ pc = "purge" /\ pc' = "reprice"
      /\ records' = records \ gone /\ losers' = losers \ gone
      /\ rollup' = rollup /\ scope' = scope /\ files' = files
  BY DEF PurgeSuppressed
<1>2. /\ marker' = marker /\ failed' = failed /\ unacked' = unacked
      /\ todo' = todo /\ fetched' = fetched /\ persisted' = persisted
  BY DEF PurgeSuppressed
<1>3. MarkerInv' /\ WalkInv' /\ CaptureInv'
  BY <1>1, <1>2, WalkIsOver
<1>4. Reach = scope /\ Reach' = scope'
  BY <1>1 DEF Reach
<1>5. Incremental' => Incremental
  BY <1>1, <1>2 DEF Incremental
<1>6. /\ records' \subseteq records /\ losers' = losers \intersect records'
      /\ Includes(scope', scope)
  BY <1>1 DEF TypeOK, DbTypeOK, Includes
<1>7. Incremental' => \A r \in records : r \notin records' => RowCovered(scope', files, r)
  BY <1>1, <1>4, <1>5 DEF DirtyInv, BeforePurge, Incremental
<1>8. UniqueLines'
  BY <1>6 DEF UniqueLines
<1>9. DirtyInv'
  BY <1>1 DEF DirtyInv, BeforePurge
<1>10. CanonicalInv'
  <2> SUFFICES ASSUME Incremental' PROVE FlagsKnown(scope'.uuids, losers', records')
    BY <1>1, <1>4 DEF CanonicalInv, BeforeCanonical, BeforePurge
  <2>1. FlagsKnown(scope.uuids, losers, records)
    BY <1>1, <1>4, <1>5 DEF CanonicalInv, BeforeCanonical, BeforePurge
  <2> HIDE DEF gone
  <2> QED BY <2>1, <1>6, <1>7, RowsRemoved
<1>11. PendingInv'
  <2> SUFFICES ASSUME Incremental', NEW t \in Tables
               PROVE  Explained(scope', rollup[t], Facts(files, records', losers', t))
    BY <1>1, <1>4 DEF PendingInv
  <2>1. Explained(scope, rollup[t], Facts(files, records, losers, t))
    BY <1>1, <1>4, <1>5 DEF PendingInv, Pending, BeforeRollup, BeforeCanonical, BeforePurge
  <2> HIDE DEF gone
  <2> QED BY <2>1, <1>6, <1>7, RowsRemoved
<1>12. DoneInv'
  BY <1>1 DEF DoneInv, Done
<1> QED BY <1>3, <1>8, <1>9, <1>10, <1>11, <1>12
-----------------------------------------------------------------------------
\* The derived state.

\* A repricing that moves no price changes no fact and no winner.
LEMMA RestampKeeps ==
  ASSUME TypeOK, UniqueLines, NEW f,
         \A r \in Stale : r.file = f => Price[r.rate][r.model] = Price[release][r.model]
  PROVE  LET recs2 == {Restamp(r, f) : r \in records}
             lost2 == {Restamp(r, f) : r \in losers}
         IN  /\ \A r, s \in records : Restamp(r, f) = Restamp(s, f) => r = s
             /\ \A r \in records : Restamp(r, f) \in lost2 <=> r \in losers
             /\ \A r \in records : Restamp(r, f) \in Losers(recs2) <=> r \in Losers(records)
             /\ \A t \in Tables : Facts(files, recs2, lost2, t) = Facts(files, records, losers, t)
<1> DEFINE R(r) == Restamp(r, f)
           recs2 == {R(r) : r \in records}
           lost2 == {R(r) : r \in losers}
<1>1. \A r \in records : /\ R(r).file = r.file /\ R(r).line = r.line
                         /\ R(r).uuid = r.uuid /\ R(r).model = r.model
                         /\ R(r).replay = r.replay /\ R(r).hour = r.hour
  BY RestampTyped DEF TypeOK, DbTypeOK
<1>2. \A r, s \in records : R(r) = R(s) => r = s
  BY <1>1 DEF UniqueLines
<1>3. losers \subseteq records
  BY DEF TypeOK, DbTypeOK
<1>4. \A r \in records : R(r) \in lost2 <=> r \in losers
  BY <1>2, <1>3
<1>5. \A r, s \in records : Precedes(R(s), R(r)) <=> Precedes(s, r)
  BY <1>1 DEF Precedes
<1>6. \A r \in records : Price[R(r).rate][R(r).model] = Price[r.rate][r.model]
  BY DEF Restamp, TypeOK, DbTypeOK, Record
<1>7. \A t \in Tables, r \in records : FactOf(files, t, R(r)) = FactOf(files, t, r)
  <2> HIDE DEF R
  <2> QED BY <1>1, <1>6 DEF FactOf
<1> HIDE DEF R
<1>8. \A r \in records : R(r) \in Losers(recs2) <=> r \in Losers(records)
  BY <1>1, <1>5 DEF Losers
<1>9. ASSUME NEW t \in Tables
      PROVE  Facts(files, recs2, lost2, t) = Facts(files, records, losers, t)
  <2>1. ASSUME NEW x \in Facts(files, recs2, lost2, t)
        PROVE  x \in Facts(files, records, losers, t)
    <3>1. PICK q \in recs2 \ lost2 : /\ q.hour # NullHour \/ t = LatencyTable
                                     /\ x = FactOf(files, t, q)
      BY <2>1 DEF Facts, Sums
    <3>2. PICK r \in records : q = R(r)
      OBVIOUS
    <3>3. r \in records \ losers /\ (r.hour # NullHour \/ t = LatencyTable)
      BY <1>1, <1>4, <3>1, <3>2
    <3> QED BY <1>7, <3>1, <3>2, <3>3 DEF Facts, Sums
  <2>2. ASSUME NEW x \in Facts(files, records, losers, t)
        PROVE  x \in Facts(files, recs2, lost2, t)
    <3>1. PICK r \in records \ losers : /\ r.hour # NullHour \/ t = LatencyTable
                                        /\ x = FactOf(files, t, r)
      BY <2>2 DEF Facts, Sums
    <3>2. R(r) \in recs2 \ lost2 /\ (R(r).hour # NullHour \/ t = LatencyTable)
      BY <1>1, <1>4, <3>1
    <3>3. x = FactOf(files, t, R(r))
      BY <1>7, <3>1
    <3> HIDE DEF recs2, lost2
    <3> QED BY <3>2, <3>3 DEF Facts, Sums
  <2> HIDE DEF recs2, lost2
  <2> QED BY <2>1, <2>2
<1> QED BY <1>2, <1>4, <1>8, <1>9 DEF R


LEMMA RepriceSound ==
  ASSUME IInv, NEW f \in Files, RepriceBatch(f)
  PROVE  SoundInv'
<1> USE DEF IInv, SoundInv
<1> DEFINE moved == \E r \in Stale : /\ r.file = f
                                     /\ Price[r.rate][r.model] # Price[release][r.model]
<1>1. /\ pc = "reprice" /\ pc' = "reprice"
      /\ scope' = Promote(scope, moved)
      /\ records' = {Restamp(r, f) : r \in records}
      /\ losers' = {Restamp(r, f) : r \in losers}
      /\ rollup' = rollup /\ files' = files
  BY DEF RepriceBatch
<1>2. /\ marker' = marker /\ failed' = failed /\ unacked' = unacked
      /\ todo' = todo /\ fetched' = fetched /\ persisted' = persisted
  BY DEF RepriceBatch
<1>3. MarkerInv' /\ WalkInv' /\ CaptureInv'
  BY <1>1, <1>2, WalkIsOver
<1>4. Reach = scope /\ Reach' = scope'
  BY <1>1 DEF Reach
<1>5. /\ scope'.cells = scope.cells /\ scope'.uuids = scope.uuids
      /\ scope'.latNull = scope.latNull /\ (~scope'.full => ~scope.full /\ ~moved)
  <2>1. scope \in Scope /\ moved \in BOOLEAN
    BY DEF TypeOK, RunTypeOK
  <2> HIDE DEF moved
  <2> QED BY <1>1, <2>1, PromoteFields
<1>6. Incremental' => Incremental /\ ~moved
  BY <1>1, <1>2, <1>5 DEF Incremental
<1>7. \A r \in records : Restamp(r, f).file = r.file /\ Restamp(r, f).line = r.line
                         /\ Restamp(r, f).uuid = r.uuid
  BY RestampTyped DEF TypeOK, DbTypeOK
<1>8. UniqueLines'
  BY <1>1, <1>7 DEF UniqueLines
<1>9. DirtyInv'
  BY <1>1 DEF DirtyInv, BeforePurge
<1>10. CanonicalInv'
  <2> SUFFICES ASSUME Incremental', NEW q \in records', Differ(q, losers', Losers(records'))
               PROVE  q.uuid \in scope.uuids
    BY <1>1, <1>4, <1>5 DEF CanonicalInv, FlagsKnown, BeforeCanonical, BeforePurge
  <2>1. PICK r \in records : q = Restamp(r, f)
    BY <1>1
  <2>2. \A s \in Stale : s.file = f => Price[s.rate][s.model] = Price[release][s.model]
    BY <1>6
  <2>3. Differ(r, losers, Losers(records))
    <3>1. /\ Restamp(r, f) \in {Restamp(s, f) : s \in losers} <=> r \in losers
          /\ Restamp(r, f) \in Losers({Restamp(s, f) : s \in records})
               <=> r \in Losers(records)
      BY <2>2, RestampKeeps, Zenon
    <3> HIDE DEF moved
    <3>2. (q \in losers' <=> r \in losers) /\ (q \in Losers(records') <=> r \in Losers(records))
      BY <1>1, <2>1, <3>1, Zenon
    <3> QED BY <3>2 DEF Differ
  <2>4. FlagsKnown(scope.uuids, losers, records)
    BY <1>1, <1>4, <1>6 DEF CanonicalInv, BeforeCanonical, BeforePurge
  <2> QED BY <2>1, <2>3, <2>4, <1>7 DEF FlagsKnown
<1>11. PendingInv'
  <2> SUFFICES ASSUME Incremental', NEW t \in Tables
               PROVE  Explained(scope', rollup[t], Facts(files, records', losers', t))
    BY <1>1, <1>4 DEF PendingInv
  <2>1. Explained(scope, rollup[t], Facts(files, records, losers, t))
    BY <1>1, <1>4, <1>6 DEF PendingInv, Pending, BeforeRollup, BeforeCanonical, BeforePurge
  <2>2. \A s \in Stale : s.file = f => Price[s.rate][s.model] = Price[release][s.model]
    BY <1>6
  <2>3. Facts(files, records', losers', t) = Facts(files, records, losers, t)
    BY <1>1, <2>2, RestampKeeps
  <2> QED BY <2>1, <2>3, <1>5 DEF Explained, Covers
<1>12. DoneInv'
  BY <1>1 DEF DoneInv, Done
<1> QED BY <1>3, <1>8, <1>9, <1>10, <1>11, <1>12

LEMMA RepriceDoneSound ==
  ASSUME IInv, RepriceDone
  PROVE  SoundInv'
<1> USE DEF IInv, SoundInv
<1>1. /\ pc = "reprice" /\ pc' = "aliases" /\ scope' = scope
      /\ records' = records /\ losers' = losers /\ rollup' = rollup /\ files' = files
  BY DEF RepriceDone
<1>2. /\ marker' = marker /\ failed' = failed /\ unacked' = unacked
      /\ todo' = todo /\ fetched' = fetched /\ persisted' = persisted
  BY DEF RepriceDone
<1>3. MarkerInv' /\ WalkInv' /\ CaptureInv'
  BY <1>1, <1>2, WalkIsOver
<1>4. Reach = scope /\ Reach' = scope' /\ Incremental' = Incremental
  BY <1>1, <1>2 DEF Reach, Incremental
<1>5. UniqueLines' /\ DirtyInv' /\ DoneInv'
  BY <1>1 DEF UniqueLines, DirtyInv, BeforePurge, DoneInv, Done
<1>6. CanonicalInv' /\ PendingInv'
  BY <1>1, <1>4 DEF CanonicalInv, PendingInv, Pending, BeforeRollup, BeforeCanonical, BeforePurge
<1> QED BY <1>3, <1>5, <1>6

LEMMA FoldSound ==
  ASSUME IInv, TypeOK', FoldAliases
  PROVE  SoundInv'
<1> USE DEF IInv, SoundInv
<1>1. /\ pc = "aliases" /\ pc' = "canonical" /\ files' = Folded
      /\ rollup' = WithoutProjects({files[f].proj : f \in MovedFiles}, Folded)
      /\ records' = records /\ losers' = losers
  BY DEF FoldAliases
<1>2. /\ marker' = marker /\ failed' = failed /\ unacked' = unacked
      /\ todo' = todo /\ fetched' = fetched /\ persisted' = persisted
  BY DEF FoldAliases
<1>3. MarkerInv' /\ WalkInv' /\ CaptureInv'
  BY <1>1, <1>2, WalkIsOver
<1>4. Reach = scope /\ Reach' = scope'
  BY <1>1 DEF Reach
<1>5. \A f \in Files : f \notin MovedFiles => Folded[f] = files[f]
  <2> SUFFICES ASSUME NEW f \in Files, f \in Stored, f \notin MovedFiles
               PROVE  Folded[f] = files[f]
    BY DEF Folded, Stored
  <2>1. files[f] \in FileRow /\ operator.fold[files[f].proj] = files[f].proj
    BY DEF MovedFiles, Stored, TypeOK, DbTypeOK
  <2> QED BY <2>1 DEF Folded, Stored, FileRow
<1> DEFINE fs == scope.dirty \union MovedFiles
           c == Contribution(Folded, records, fs)
           sources == CellsOf(files, RowsOf(records, MovedFiles))
<1>6. ASSUME Incremental'
      PROVE  /\ Incremental /\ Includes(scope', scope)
             /\ \A r \in records : r.file \in MovedFiles =>
                  /\ Covers(scope', files[r.file].proj, r.hour)
                  /\ Covers(scope', Folded[r.file].proj, r.hour)
  <2>1. CASE scope.full \/ MovedFiles = {}
    <3>1. scope' = scope
      BY <2>1 DEF FoldAliases
    <3> QED BY <1>1, <1>2, <1>6, <2>1, <3>1 DEF Incremental, Includes
  <2>2. CASE ~(scope.full \/ MovedFiles = {})
    <3>1. scope' = CheckDirtyThreshold(AddCells(AddContribution(scope, c, fs), sources))
      BY <2>2 DEF FoldAliases
    <3>2. scope \in Scope /\ fs \in SUBSET Files
      BY DEF TypeOK, RunTypeOK, Scope, MovedFiles, Stored
    <3>3. c \in AnyContribution
      BY <1>1, ContributionTyped DEF TypeOK, DbTypeOK, AnyContribution
    <3>4. sources \in SUBSET Cell
      BY ContributionTyped DEF TypeOK, DbTypeOK, Contribution
    <3>5. Includes(c, Contribution(Folded, records, MovedFiles))
      BY ContributionGrows DEF RowsOf
    <3>6. \A r \in records : r.file \in MovedFiles => <<files[r.file].proj, r.hour>> \in sources
      BY DEF CellsOf, RowsOf
    <3> HIDE DEF c, fs, sources
    <3> DEFINE a == AddContribution(scope, c, fs)
               b == AddCells(a, sources)
    <3>7. a \in Scope /\ Includes(a, scope) /\ Includes(a, c) /\ a.full = scope.full
      BY <3>2, <3>3, AddIncludes, ContributionFields
    <3> HIDE DEF a
    <3>8. b \in Scope /\ Includes(b, a) /\ sources \subseteq b.cells
      BY <3>4, <3>7, CellsFields DEF Includes
    <3> HIDE DEF b
    <3>9. Includes(scope', b) /\ sources \subseteq scope'.cells
      BY <3>1, <3>8, CheckFields DEF Includes, a, b
    <3>10. Includes(scope', scope) /\ Includes(scope', Contribution(Folded, records, MovedFiles))
      BY <3>5, <3>7, <3>8, <3>9, IncludesTrans
    <3>11. \A r \in records : r.file \in MovedFiles => RowCovered(scope', Folded, r)
      BY <3>10, IncludedRow
    <3> QED BY <1>1, <1>2, <1>6, <2>2, <3>6, <3>9, <3>10, <3>11
         DEF Incremental, RowCovered, Covers
  <2> QED BY <2>1, <2>2
<1> HIDE DEF fs, c, sources
<1>7. UniqueLines' /\ DirtyInv' /\ DoneInv'
  BY <1>1 DEF UniqueLines, DirtyInv, BeforePurge, DoneInv, Done
<1>8. CanonicalInv'
  BY <1>1, <1>4, <1>6 DEF CanonicalInv, FlagsKnown, Includes, BeforeCanonical, BeforePurge
<1>9. PendingInv'
  <2> SUFFICES ASSUME Incremental', NEW t \in Tables
               PROVE  Explained(scope', rollup'[t], Facts(Folded, records, losers, t))
    BY <1>1, <1>4 DEF PendingInv
  <2>1. Explained(scope, rollup[t], Facts(files, records, losers, t))
    BY <1>1, <1>4, <1>6 DEF PendingInv, Pending, BeforeRollup, BeforeCanonical, BeforePurge
  <2>2. \A r \in records \ losers :
          \/ FactOf(Folded, t, r) = FactOf(files, t, r)
          \/ Covers(scope', files[r.file].proj, r.hour) /\ Covers(scope', Folded[r.file].proj, r.hour)
    BY <1>5, <1>6 DEF FactOf, TypeOK, DbTypeOK, Record
  <2>3. Explained(scope', Facts(files, records, losers, t), Facts(Folded, records, losers, t))
    BY <2>2, FactsExplained
  <2>4. Explained(scope', rollup[t], Facts(Folded, records, losers, t))
    BY <2>1, <2>3, <1>6, ExplainedChain
  <2>5. \A r \in records : r.file \in Files /\ Folded[r.file] # NoFile
    BY <1>1 DEF TypeOK, DbTypeOK, Record
  <2>6. Includes(scope', scope')
    BY DEF Includes
  <2> QED BY <2>4, <2>5, <2>6, <1>1, ProjectsDropped
<1> QED BY <1>3, <1>7, <1>8, <1>9


LEMMA CanonicalSound ==
  ASSUME IInv, RecomputeCanonical
  PROVE  SoundInv'
<1> USE DEF IInv, SoundInv
<1> DEFINE ranked == {r \in records : \/ scope.full
                                      \/ r.uuid \in scope.uuids
                                      \/ r.uuid = NoUuid /\ r.file \in scope.dirty}
           wrong == {r \in ranked : (r \in losers) # (r \in Losers(records))}
<1>1. /\ pc = "canonical" /\ pc' = "adopt"
      /\ losers' = (losers \ wrong) \union (wrong \ losers)
      /\ scope' = IF scope.full THEN scope
                  ELSE AddUntimed(AddCells(scope, CellsOf(files, wrong)),
                                  HasNullHour(wrong))
      /\ records' = records /\ rollup' = rollup /\ files' = files
  BY DEF RecomputeCanonical
<1>2. /\ marker' = marker /\ failed' = failed /\ unacked' = unacked
      /\ todo' = todo /\ fetched' = fetched /\ persisted' = persisted
  BY DEF RecomputeCanonical
<1>3. MarkerInv' /\ WalkInv' /\ CaptureInv'
  BY <1>1, <1>2, WalkIsOver
<1>4. Reach = scope /\ Reach' = scope'
  BY <1>1 DEF Reach
<1>5. ~unacked /\ ~scope.full => FlagsKnown(scope.uuids, losers, records)
  BY <1>1, <1>4 DEF CanonicalInv, Incremental, BeforeCanonical, BeforePurge
<1>6. ~unacked => \A r \in records : Differ(r, losers, Losers(records)) => r \in wrong
  BY <1>5 DEF FlagsKnown, Differ
<1>7. ~unacked => losers' = Losers(records)
  <2>1. losers \subseteq records /\ Losers(records) \subseteq records
    BY LosersAreRecords DEF TypeOK, DbTypeOK
  <2>2. \A r \in records : (r \in losers' <=> IF r \in wrong THEN r \notin losers ELSE r \in losers)
    BY <1>1
  <2>3. losers' \subseteq records
    BY <1>1, <2>1
  <2>4. \A r \in wrong : r \notin losers <=> r \in Losers(records)
    OBVIOUS
  <2> HIDE DEF wrong
  <2>5. ~unacked => \A r \in records : r \in losers' <=> r \in Losers(records)
    BY <1>6, <2>2, <2>4 DEF Differ
  <2> QED BY <2>1, <2>3, <2>5
<1>8. ASSUME Incremental'
      PROVE  /\ Incremental /\ Includes(scope', scope)
             /\ \A r \in wrong : Covers(scope', files[r.file].proj, r.hour)
  <2>1. ~scope.full
    BY <1>1, <1>8 DEF Incremental
  <2> DEFINE a == AddCells(scope, CellsOf(files, wrong))
  <2>2. scope' = AddUntimed(a, HasNullHour(wrong))
    BY <1>1, <2>1
  <2>3. CellsOf(files, wrong) \in SUBSET Cell
    <3> SUFFICES ASSUME NEW r \in wrong PROVE <<files[r.file].proj, r.hour>> \in Cell
      BY DEF CellsOf
    <3>1. r \in Record /\ files[r.file] \in FileRow
      BY DEF TypeOK, DbTypeOK, Record
    <3> QED BY <3>1 DEF Record, FileRow, Cell
  <2>4. scope \in Scope /\ HasNullHour(wrong) \in BOOLEAN
    BY DEF TypeOK, RunTypeOK, HasNullHour
  <2>5. \A r \in wrong : /\ <<files[r.file].proj, r.hour>> \in CellsOf(files, wrong)
                         /\ r.hour = NullHour => HasNullHour(wrong)
    BY DEF CellsOf, HasNullHour
  <2> HIDE DEF wrong
  <2>6. a \in Scope /\ a.cells = scope.cells \union CellsOf(files, wrong)
        /\ a.uuids = scope.uuids /\ a.latNull = scope.latNull /\ a.full = scope.full
    BY <2>3, <2>4, CellsFields
  <2> HIDE DEF a
  <2>7. scope'.cells = a.cells /\ scope'.uuids = a.uuids
        /\ (scope'.latNull <=> a.latNull \/ HasNullHour(wrong))
    BY <2>2, <2>4, <2>6, UntimedFields
  <2>8. Incremental
    BY <1>1, <1>2, <1>8, <2>1 DEF Incremental
  <2> QED BY <2>5, <2>6, <2>7, <2>8 DEF Includes, Covers
<1>9. \A r \in records : r \notin wrong => (r \in losers' <=> r \in losers)
  BY <1>1
<1>10. wrong \subseteq records
  OBVIOUS
<1> HIDE DEF wrong, ranked
<1>11. UniqueLines' /\ DirtyInv' /\ DoneInv'
  BY <1>1 DEF UniqueLines, DirtyInv, BeforePurge, DoneInv, Done
<1>12. CanonicalInv'
  BY <1>1, <1>2, <1>7 DEF CanonicalInv, BeforeCanonical, BeforePurge
<1>13. PendingInv'
  <2> SUFFICES ASSUME Incremental', NEW t \in Tables
               PROVE  Explained(scope', rollup[t], Facts(files, records, losers', t))
    BY <1>1, <1>4 DEF PendingInv
  <2>1. Explained(scope, rollup[t], Facts(files, records, losers, t))
    BY <1>1, <1>4, <1>8 DEF PendingInv, Pending, BeforeRollup, BeforeCanonical, BeforePurge
  <2>2. Explained(scope', Facts(files, records, losers, t), Facts(files, records, losers', t))
    BY <1>8, <1>9, FactsExplained
  <2> QED BY <2>1, <2>2, <1>8, ExplainedChain
<1> QED BY <1>3, <1>11, <1>12, <1>13

\* Adopting the winner's model changes neither the winner nor any fact: the
\* adopting row goes on losing to an original that precedes every copy.
LEMMA AdoptKeeps ==
  ASSUME TypeOK, UniqueLines, losers = Losers(records),
         NEW r \in records, NEW w \in records, AdoptsFrom(records, losers, r, w)
  PROVE  LET adopted == [r EXCEPT !.model = w.model, !.rate = release]
             recs2 == (records \ {r}) \union {adopted}
             lost2 == (losers \ {r}) \union {adopted}
         IN  /\ lost2 = Losers(recs2)
             /\ recs2 \ lost2 = records \ losers
             /\ \A q, s \in recs2 : q.file = s.file /\ q.line = s.line => q = s
<1> DEFINE adopted == [r EXCEPT !.model = w.model, !.rate = release]
           recs2 == (records \ {r}) \union {adopted}
           lost2 == (losers \ {r}) \union {adopted}
<1>1. /\ adopted.file = r.file /\ adopted.line = r.line /\ adopted.uuid = r.uuid
      /\ adopted.replay = r.replay /\ adopted.model = w.model
  BY DEF TypeOK, DbTypeOK, Record
<1>2. /\ r \in losers /\ r.replay /\ w \in records /\ w \notin losers /\ ~w.replay
      /\ w.uuid # NoUuid /\ w.uuid = r.uuid /\ w.model # r.model /\ w # r
  BY DEF AdoptsFrom
<1> HIDE DEF adopted
<1>3. adopted \notin records
  BY <1>1, <1>2 DEF UniqueLines
<1>4. \A q, s \in recs2 : q.file = s.file /\ q.line = s.line => q = s
  BY <1>1 DEF UniqueLines
<1>5. recs2 \ lost2 = records \ losers
  BY <1>2, <1>3
<1>6. w \in recs2 /\ Precedes(w, adopted)
  BY <1>1, <1>2 DEF Precedes
<1>7. adopted \in Losers(recs2)
  BY <1>1, <1>2, <1>6 DEF Losers
<1>8. \A q \in records : Precedes(r, q) \/ Precedes(adopted, q) => Precedes(w, q)
  BY <1>1, <1>2 DEF Precedes
<1>9. ASSUME NEW q \in records, q # r
      PROVE  q \in Losers(recs2) <=> q \in losers
  <2>1. q \in Losers(recs2) <=> /\ q.uuid # NoUuid
                                /\ \E s \in recs2 : s.uuid = q.uuid /\ Precedes(s, q)
    BY <1>9 DEF Losers
  <2>2. q \in losers <=> /\ q.uuid # NoUuid
                         /\ \E s \in records : s.uuid = q.uuid /\ Precedes(s, q)
    BY DEF Losers
  <2>3. ASSUME NEW s \in recs2, s.uuid = q.uuid, Precedes(s, q)
        PROVE  \E z \in records : z.uuid = q.uuid /\ Precedes(z, q)
    BY <1>1, <1>2, <1>8, <2>3
  <2>4. ASSUME NEW s \in records, s.uuid = q.uuid, Precedes(s, q)
        PROVE  \E z \in recs2 : z.uuid = q.uuid /\ Precedes(z, q)
    BY <1>2, <1>6, <1>8, <2>4
  <2> QED BY <2>1, <2>2, <2>3, <2>4
<1>10. losers \subseteq records /\ Losers(recs2) \subseteq recs2
  BY LosersAreRecords
<1>11. lost2 = Losers(recs2)
  <2>1. \A q : q \in lost2 <=> (q = adopted \/ (q \in losers /\ q # r))
    OBVIOUS
  <2>2. \A q : q \in recs2 <=> (q = adopted \/ (q \in records /\ q # r))
    OBVIOUS
  <2> HIDE DEF lost2, recs2
  <2>3. \A q : q \in lost2 <=> q \in Losers(recs2)
    BY <1>7, <1>9, <1>10, <2>1, <2>2
  <2> QED BY <2>3
<1> QED BY <1>4, <1>5, <1>11 DEF adopted

LEMMA AdoptSound ==
  ASSUME IInv, NEW r \in records, NEW w \in records, Adopt(r, w)
  PROVE  SoundInv'
<1> USE DEF IInv, SoundInv
<1> DEFINE adopted == [r EXCEPT !.model = w.model, !.rate = release]
<1>1. /\ pc = "adopt" /\ pc' = "adopt" /\ scope' = scope /\ files' = files
      /\ rollup' = rollup /\ marker' = marker /\ failed' = failed
      /\ unacked' = unacked /\ todo' = todo /\ fetched' = fetched
      /\ persisted' = persisted /\ AdoptsFrom(records, losers, r, w)
  BY DEF Adopt, MayAdopt
<1>2. /\ records' = (records \ {r}) \union {adopted}
      /\ losers' = (losers \ {r}) \union {adopted}
  BY DEF Adopt
<1>3. adopted.file = r.file /\ adopted.line = r.line
  BY DEF TypeOK, DbTypeOK, Record
<1> HIDE DEF adopted
<1>4. UniqueLines'
  BY <1>2, <1>3 DEF UniqueLines
<1>5. MarkerInv' /\ WalkInv' /\ CaptureInv'
  BY <1>1, WalkIsOver
<1>6. ~unacked => /\ losers' = Losers(records')
                  /\ records' \ losers' = records \ losers
  <2> SUFFICES ASSUME ~unacked
               PROVE  losers' = Losers(records') /\ records' \ losers' = records \ losers
    OBVIOUS
  <2>1. losers = Losers(records)
    BY <1>1 DEF CanonicalInv, BeforeCanonical, BeforePurge
  <2>2. UniqueLines /\ TypeOK /\ AdoptsFrom(records, losers, r, w)
    BY <1>1
  <2> DEFINE recs2 == (records \ {r}) \union {adopted}
             lost2 == (losers \ {r}) \union {adopted}
  <2>3. lost2 = Losers(recs2) /\ recs2 \ lost2 = records \ losers
    BY <2>1, <2>2, AdoptKeeps, Zenon DEF adopted
  <2>4. records' = recs2 /\ losers' = lost2
    BY <1>2
  <2> HIDE DEF recs2, lost2
  <2> QED BY <2>3, <2>4
<1>7. Reach' = Reach /\ (Incremental' <=> Incremental)
  BY <1>1 DEF Reach, Incremental
<1>8. DirtyInv' /\ DoneInv'
  BY <1>1 DEF DirtyInv, BeforePurge, DoneInv, Done
<1>9. CanonicalInv'
  BY <1>1, <1>6 DEF CanonicalInv, BeforeCanonical, BeforePurge
<1>10. PendingInv'
  <2> SUFFICES ASSUME Incremental', NEW t \in Tables
               PROVE  Explained(Reach, rollup[t], Facts(files, records', losers', t))
    BY <1>1, <1>7 DEF PendingInv
  <2>1. Explained(Reach, rollup[t], Facts(files, records, losers, t))
    BY <1>1, <1>7 DEF PendingInv, Pending, BeforeRollup
  <2>2. Facts(files, records', losers', t) = Facts(files, records, losers, t)
    BY <1>1, <1>6 DEF Facts, Sums, Incremental
  <2> QED BY <2>1, <2>2
<1> QED BY <1>4, <1>5, <1>8, <1>9, <1>10

LEMMA AdoptDoneSound ==
  ASSUME IInv, AdoptDone
  PROVE  SoundInv'
<1> USE DEF IInv, SoundInv
<1>1. /\ pc = "adopt" /\ pc' = "teammates" /\ scope' = CheckLatencyNull(scope)
      /\ files' = files /\ records' = records /\ losers' = losers
      /\ rollup' = rollup /\ marker' = marker /\ failed' = failed
      /\ unacked' = unacked /\ todo' = todo /\ fetched' = fetched
      /\ persisted' = persisted
  BY DEF AdoptDone
<1>2. MarkerInv' /\ WalkInv' /\ CaptureInv'
  BY <1>1, WalkIsOver
<1>3. /\ Includes(scope', scope) /\ scope'.latNull = scope.latNull
      /\ ~scope'.full => ~scope.full /\ ~scope.latNull
  <2>1. scope \in Scope
    BY DEF TypeOK, RunTypeOK
  <2> QED BY <1>1, <2>1, CheckFields DEF Includes
<1>4. Reach = scope /\ Reach' = scope'
  BY <1>1 DEF Reach
<1>5. Incremental' => Incremental /\ ~scope'.latNull
  BY <1>1, <1>3 DEF Incremental
<1>6. UniqueLines' /\ DirtyInv' /\ DoneInv' /\ CanonicalInv'
  BY <1>1 DEF UniqueLines, DirtyInv, DoneInv, Done, CanonicalInv, BeforeCanonical,
              BeforePurge
<1>7. PendingInv'
  <2> SUFFICES ASSUME Incremental', NEW t \in Tables
               PROVE  Explained(scope', rollup[t], Facts(files, records, losers, t))
    BY <1>1, <1>4, <1>5 DEF PendingInv
  <2>1. Explained(scope, rollup[t], Facts(files, records, losers, t))
    BY <1>1, <1>4, <1>5 DEF PendingInv, Pending, BeforeRollup
  <2> QED BY <2>1, <1>3, CoversGrows DEF Explained
<1> QED BY <1>2, <1>6, <1>7

LEMMA TeammatesSound ==
  ASSUME IInv, ResolveTeammates
  PROVE  SoundInv'
<1> USE DEF IInv, SoundInv
<1> DEFINE changed == {f \in Stored : RoleOf(f) # files[f].role}
<1>1. /\ pc = "teammates" /\ pc' = "rollup"
      /\ records' = records /\ losers' = losers /\ rollup' = rollup
      /\ marker' = marker /\ failed' = failed /\ unacked' = unacked
      /\ todo' = todo /\ fetched' = fetched /\ persisted' = persisted
      /\ table' = table
  BY DEF ResolveTeammates
<1>2. /\ files' = [f \in Files |->
           IF f \in changed THEN [files[f] EXCEPT !.role = RoleOf(f)]
           ELSE files[f]]
      /\ scope' = IF scope.full THEN scope
                  ELSE AddCells(scope, CellsOf(files, RowsOf(records, changed)))
  BY DEF ResolveTeammates
<1>3. \A f \in Files : /\ f \notin changed => files'[f] = files[f]
                       /\ f \in changed => files'[f].proj = files[f].proj
  <2>1. \A f \in changed : files'[f] = [files[f] EXCEPT !.role = RoleOf(f)]
    BY <1>2 DEF Stored
  <2>2. \A f \in changed : files[f] \in FileRow
    BY DEF Stored, TypeOK, DbTypeOK
  <2>3. \A f \in Files : f \notin changed => files'[f] = files[f]
    BY <1>2
  <2> HIDE DEF changed
  <2> QED BY <2>1, <2>2, <2>3 DEF FileRow
<1>4. MarkerInv' /\ WalkInv' /\ CaptureInv'
  BY <1>1, WalkIsOver
<1>5. Reach = scope /\ Reach' = scope'
  BY <1>1 DEF Reach
<1>6. \A r \in records : r \in Record /\ r.file \in Files /\ files[r.file] \in FileRow
  BY DEF TypeOK, DbTypeOK, Record
<1>7. ASSUME Incremental'
      PROVE  /\ Incremental /\ Includes(scope', scope)
             /\ scope'.latNull = scope.latNull
             /\ \A r \in records : r.file \in changed =>
                  <<files[r.file].proj, r.hour>> \in scope'.cells
  <2> DEFINE cells == CellsOf(files, RowsOf(records, changed))
  <2>1. ~scope.full /\ Incremental
    BY <1>1, <1>2, <1>7, CellsFields DEF Incremental, AddCells
  <2>2. cells \in SUBSET Cell
    BY <1>6 DEF CellsOf, RowsOf, Record, FileRow, Cell
  <2>3. \A r \in records : r.file \in changed => <<files[r.file].proj, r.hour>> \in cells
    BY DEF CellsOf, RowsOf
  <2>4. scope \in Scope /\ scope' = AddCells(scope, cells)
    BY <1>2, <2>1 DEF TypeOK, RunTypeOK
  <2> HIDE DEF cells, changed
  <2>5. scope'.cells = scope.cells \union cells /\ scope'.uuids = scope.uuids
        /\ scope'.latNull = scope.latNull
    BY <2>2, <2>4, CellsFields
  <2> QED BY <2>1, <2>3, <2>5 DEF Includes
<1> HIDE DEF changed
<1>8. UniqueLines' /\ DirtyInv' /\ CanonicalInv'
  BY <1>1 DEF UniqueLines, DirtyInv, CanonicalInv, BeforeCanonical, BeforePurge
<1>9. table = 1
  BY <1>1 DEF TableInv
<1>10. DoneInv'
  BY <1>1, <1>9 DEF DoneInv, Done, Tables
<1>11. PendingInv'
  <2> SUFFICES ASSUME Incremental', NEW t \in Tables
               PROVE  Explained(scope', rollup[t], Facts(files', records, losers, t))
    BY <1>1, <1>5, <1>7 DEF PendingInv
  <2>1. Explained(scope, rollup[t], Facts(files, records, losers, t))
    BY <1>1, <1>5, <1>7 DEF PendingInv, Pending, BeforeRollup
  <2>2. \A r \in records : r.hour # NullHour \/ t = LatencyTable =>
          \/ FactOf(files', t, r) = FactOf(files, t, r)
          \/ /\ Covers(scope', files[r.file].proj, r.hour)
             /\ Covers(scope', files'[r.file].proj, r.hour)
    <3> SUFFICES ASSUME NEW r \in records, r.hour # NullHour \/ t = LatencyTable
                 PROVE  \/ FactOf(files', t, r) = FactOf(files, t, r)
                        \/ /\ Covers(scope', files[r.file].proj, r.hour)
                           /\ Covers(scope', files'[r.file].proj, r.hour)
      OBVIOUS
    <3>1. CASE r.file \notin changed
      BY <1>3, <1>6, <3>1 DEF FactOf
    <3>2. CASE r.file \in changed /\ r.hour # NullHour
      BY <1>3, <1>6, <1>7, <3>2 DEF Covers
    <3>3. CASE r.file \in changed /\ t = LatencyTable
      BY <1>3, <1>6, <3>3 DEF FactOf
    <3> QED BY <3>1, <3>2, <3>3
  <2>3. Explained(scope', Facts(files, records, losers, t), Facts(files', records, losers, t))
    BY <2>2, FactsExplained
  <2> QED BY <2>1, <2>3, <1>7, ExplainedChain
<1> QED BY <1>4, <1>8, <1>10, <1>11

\* Rebuilding the dirty cells suffices when they explain every difference.
LEMMA RebuiltRight ==
  ASSUME NEW s, NEW A, NEW B, s.full \/ (Explained(s, A, B) /\ ~s.latNull)
  PROVE  Rebuilt(A, B, s.full, s.cells) = B
<1>1. CASE s.full
  BY <1>1 DEF Rebuilt
<1>2. CASE ~s.full
  <2> DEFINE Dirty(x) == x.hour # NullHour /\ <<x.proj, x.hour>> \in s.cells
  <2>1. \A x \in A \union B : Differ(x, A, B) => Dirty(x)
    BY <1>2 DEF Explained, Covers
  <2>2. Rebuilt(A, B, s.full, s.cells) = {x \in A : ~Dirty(x)} \union {x \in B : Dirty(x)}
    BY <1>2 DEF Rebuilt
  <2> HIDE DEF Dirty
  <2> QED BY <2>1, <2>2 DEF Differ
<1> QED BY <1>1, <1>2

LEMMA RollupSound ==
  ASSUME IInv, RebuildRollup
  PROVE  SoundInv'
<1> USE DEF IInv, SoundInv
<1> DEFINE started == IF table = 1
                      THEN [scope EXCEPT !.used = IF scope.full THEN "full"
                                                  ELSE "incremental"]
                      ELSE scope
<1>1. /\ pc = "rollup" /\ files' = files /\ records' = records /\ losers' = losers
      /\ marker' = marker /\ failed' = failed /\ unacked' = unacked
      /\ todo' = todo /\ fetched' = fetched /\ persisted' = persisted
      /\ rollup' = [rollup EXCEPT ![table] =
           Rebuilt(rollup[table], Facts(files, records, losers, table),
                   scope.full, scope.cells)]
  BY DEF RebuildRollup
<1>2. \/ pc' = "rollup" /\ table < NTables /\ table' = table + 1 /\ scope' = started
      \/ /\ pc' = "notify" /\ ~(table < NTables) /\ table' = table
         /\ scope' = CheckLatencyNull(CheckDirtyThreshold(started))
  BY DEF RebuildRollup
<1>3. /\ NTables \in Nat /\ table \in 1..NTables /\ Tables = 1..NTables
      /\ rollup \in [Tables -> SUBSET Fact] /\ scope \in Scope
  BY DerivedAssumption DEF DerivedAssumption, TypeOK, DbTypeOK, RunTypeOK, Tables
<1>4. /\ started \in Scope /\ started.full = scope.full
      /\ started.cells = scope.cells /\ started.latNull = scope.latNull
  BY <1>3 DEF Scope
<1> HIDE DEF started
<1>5. /\ scope'.cells = scope.cells /\ scope'.latNull = scope.latNull
      /\ ~scope'.full => ~scope.full
  <2>1. CheckDirtyThreshold(started) \in Scope
    BY <1>4, CheckFields
  <2> QED BY <1>2, <1>4, <2>1, CheckFields
<1>6. MarkerInv' /\ WalkInv' /\ CaptureInv'
  <2>1. pc' \notin {"idle", "list", "fetch"}
    BY <1>2
  <2> QED BY <1>1, <2>1, WalkIsOver
<1>7. UniqueLines' /\ DirtyInv' /\ CanonicalInv'
  <2>1. pc' \in {"rollup", "notify"}
    BY <1>2
  <2> QED BY <1>1, <2>1 DEF UniqueLines, DirtyInv, CanonicalInv, BeforeCanonical, BeforePurge
<1>8. Reach = scope /\ Reach' = scope' /\ (Incremental' => Incremental)
  BY <1>1, <1>2, <1>5 DEF Reach, Incremental
<1>9. /\ rollup'[table] = Rebuilt(rollup[table], Facts(files, records, losers, table),
                                  scope.full, scope.cells)
      /\ \A t \in Tables : t # table => rollup'[t] = rollup[t]
  BY <1>1, <1>3
<1>10. ~unacked => rollup'[table] = Facts(files, records, losers, table)
  <2> SUFFICES ASSUME ~unacked, ~scope.full
               PROVE  /\ Explained(scope, rollup[table], Facts(files, records, losers, table))
                      /\ ~scope.latNull
    BY <1>9, RebuiltRight
  <2>1. Incremental /\ Pending(table) /\ table \in Tables
    BY <1>1, <1>3 DEF Incremental, Pending
  <2> QED BY <1>1, <1>8, <2>1 DEF PendingInv
<1>11. \A t \in Tables : Done(t)' => Done(t) \/ t = table
  <2>1. CASE table < NTables
    <3>1. pc' = "rollup" /\ table' = table + 1
      BY <1>2, <2>1
    <3> QED BY <1>1, <1>3, <3>1 DEF Done
  <2>2. CASE ~(table < NTables)
    BY <1>1, <1>3, <2>2 DEF Done
  <2> QED BY <2>1, <2>2
<1>12. DoneInv'
  <2> SUFFICES ASSUME ~unacked, NEW t \in Tables, Done(t)'
               PROVE  rollup'[t] = Facts(files, records, losers, t)
    BY <1>1 DEF DoneInv
  <2>1. CASE t = table
    BY <1>10, <2>1
  <2>2. CASE t # table
    BY <1>9, <1>11, <2>2 DEF DoneInv
  <2> QED BY <2>1, <2>2
<1>13. PendingInv'
  <2> SUFFICES ASSUME Incremental', pc' = "rollup"
               PROVE  /\ ~scope.latNull
                      /\ \A t \in Tables : Pending(t)' =>
                           Explained(scope', rollup'[t], Facts(files, records, losers, t))
    BY <1>1, <1>2, <1>5, <1>8 DEF PendingInv, Pending, BeforeRollup, BeforeCanonical, BeforePurge
  <2>1. table' = table + 1
    BY <1>2
  <2>2. ~scope.latNull
    BY <1>1, <1>8 DEF PendingInv
  <2>3. ASSUME NEW t \in Tables, Pending(t)'
        PROVE  Explained(scope', rollup'[t], Facts(files, records, losers, t))
    <3>1. Pending(t) /\ t # table
      BY <1>1, <1>3, <2>1, <2>3 DEF Pending, BeforeRollup, BeforeCanonical, BeforePurge
    <3>2. Explained(scope, rollup[t], Facts(files, records, losers, t))
      BY <1>8, <3>1 DEF PendingInv
    <3>3. rollup'[t] = rollup[t]
      BY <1>9, <3>1
    <3> QED BY <1>5, <3>2, <3>3 DEF Explained, Covers
  <2> QED BY <2>2, <2>3
<1> QED BY <1>6, <1>7, <1>12, <1>13

LEMMA NotifySound ==
  ASSUME IInv, Notify
  PROVE  SoundInv'
<1> USE DEF IInv, SoundInv
<1>1. /\ pc = "notify" /\ pc' = "mark" /\ scope' = scope
      /\ files' = files /\ records' = records /\ losers' = losers
      /\ rollup' = rollup /\ marker' = marker /\ failed' = failed
      /\ unacked' = unacked /\ todo' = todo /\ fetched' = fetched
      /\ persisted' = persisted
  BY DEF Notify
<1>2. MarkerInv' /\ WalkInv' /\ CaptureInv'
  BY <1>1, WalkIsOver
<1>3. UniqueLines' /\ DirtyInv' /\ CanonicalInv'
  BY <1>1 DEF UniqueLines, DirtyInv, CanonicalInv, BeforeCanonical, BeforePurge
<1>4. PendingInv' /\ DoneInv'
  BY <1>1 DEF PendingInv, Pending, BeforeRollup, BeforeCanonical, BeforePurge, DoneInv, Done
<1> QED BY <1>2, <1>3, <1>4
-----------------------------------------------------------------------------
\* The end of a run, the environment, and the theorems.

\* A run that got through its rebuild describes the store.
LEMMA DescribesStore ==
  ASSUME IInv, pc \in {"notify", "mark"}, ~unacked
  PROVE  Exact
<1>1. losers = Losers(records)
  BY DEF IInv, SoundInv, CanonicalInv, BeforeCanonical, BeforePurge
<1>2. \A t \in Tables : rollup[t] = Facts(files, records, losers, t)
  BY DEF IInv, SoundInv, DoneInv, Done
<1> QED BY <1>1, <1>2 DEF Exact

LEMMA LastSound ==
  ASSUME IInv, MarkComplete \/ Interrupt \/ Crash \/ \E rel \in Releases : Deploy(rel)
  PROVE  SoundInv'
<1>1. EndRun /\ UNCHANGED <<files, records, losers, rollup>>
  BY DEF MarkComplete, Interrupt, Crash, Deploy
<1>2. marker.complete => Exact
  BY DEF IInv, SoundInv, MarkerInv
<1>3. marker' # marker => MarkComplete /\ ~failed
  BY DEF MarkComplete, Interrupt, Crash, Deploy
<1>4. MarkComplete /\ ~failed => Exact
  BY DescribesStore DEF MarkComplete, IInv, SoundInv, MarkerInv
<1> QED BY <1>1, <1>2, <1>3, <1>4, EndSound

LEMMA EnvironmentSound ==
  ASSUME IInv,
         \/ UNCHANGED vars
         \/ \E f \in Files : Put(f) \/ Delete(f)
         \/ \E p \in Projects \union {NoMarker} : SetMarker(p)
         \/ OperatorEdit \/ DayPasses
  PROVE  SoundInv'
<1>1. UNCHANGED <<files, records, losers, rollup, pc, scope, todo, old, fetched,
                  persisted, failed, table, unacked>>
  BY DEF vars, Put, Delete, SetMarker, OperatorEdit, DayPasses
<1>2. marker'.complete = marker.complete
  <2>1. CASE DayPasses
    BY <2>1 DEF DayPasses, IInv, TypeOK, DbTypeOK
  <2>2. CASE marker' = marker
    BY <2>2
  <2> QED BY <2>1, <2>2 DEF vars, Put, Delete, SetMarker, OperatorEdit
<1> QED BY <1>1, <1>2, FrameSound

LEMMA TableSound ==
  ASSUME TypeOK, TableInv, [Next]_vars
  PROVE  TableInv'
<1>1. CASE RebuildRollup \/ EndRun
  BY <1>1 DEF RebuildRollup, EndRun, TableInv
<1>2. CASE /\ table' = table
           /\ \/ pc' = pc \/ pc \notin {"rollup", "notify", "mark"}
              \/ pc' \in {"rollup", "notify", "mark"}
  BY <1>2 DEF TableInv
<1>3. CASE RunStep
  <2>1. CASE FileStep
    BY <1>2, <2>1 DEF FileStep, Fetch, Vanish, Persist, StoreFile, RepriceBatch
  <2>2. CASE \/ BeginScope \/ List \/ Collect \/ DeleteOrphans
             \/ DeleteOrphanProjects \/ PurgeSuppressed
    BY <1>2, <2>2 DEF BeginScope, List, Collect, DeleteOrphans, DeleteOrphanProjects,
                      PurgeSuppressed
  <2>3. CASE RepriceDone \/ FoldAliases \/ RecomputeCanonical \/ AdoptDone
    BY <1>2, <2>3 DEF RepriceDone, FoldAliases, RecomputeCanonical, AdoptDone
  <2>5. CASE (\E r, w \in records : Adopt(r, w)) \/ ResolveTeammates \/ Notify
    <3>1. table' = table /\ (pc' = pc \/ pc' \in {"rollup", "mark"})
      BY <2>5 DEF Adopt, ResolveTeammates, Notify
    <3> QED BY <1>2, <3>1
  <2>4. MarkComplete => EndRun
    BY DEF MarkComplete
  <2> QED BY <1>1, <1>3, <2>1, <2>2, <2>3, <2>4, <2>5 DEF RunStep
<1>4. CASE FileFault
  BY <1>2, <1>4 DEF FileFault, FetchFail, PersistFail, PersistUnacked, StoreFile
<1>5. CASE Interrupt \/ Crash
  BY <1>1, <1>5 DEF Interrupt, Crash
<1>6. CASE EnvStep
  <2>1. CASE \/ \E f \in Files : Put(f) \/ Delete(f)
             \/ \E p \in Projects \union {NoMarker} : SetMarker(p)
             \/ OperatorEdit \/ DayPasses
    <3>1. table' = table /\ pc' = pc
      BY <2>1 DEF Put, Delete, SetMarker, OperatorEdit, DayPasses
    <3> QED BY <1>2, <3>1
  <2>2. CASE \E rel \in Releases : Deploy(rel)
    BY <1>1, <2>2 DEF Deploy
  <2> QED BY <1>6, <2>1, <2>2 DEF EnvStep
<1>7. CASE UNCHANGED vars
  BY <1>2, <1>7 DEF vars
<1> QED BY <1>3, <1>4, <1>5, <1>6, <1>7 DEF Next

LEMMA InvariantKept ==
  ASSUME IInv, [Next]_vars
  PROVE  IInv'
<1>1. TypeOK' /\ TableInv'
  BY NextTyped, TableSound DEF IInv
<1>2. CASE RunStep
  <2> SUFFICES SoundInv'
    BY <1>1 DEF IInv
  <2>1. CASE BeginScope \/ List
    BY <2>1, BeginScopeSound, ListSound
  <2>2. CASE FileStep
    BY <1>1, <2>2, QueueSound, PersistSound, RepriceSound DEF FileStep
  <2>3. CASE Collect \/ DeleteOrphans \/ DeleteOrphanProjects
    BY <1>1, <2>3, CollectSound, OrphansSound, OrphanProjectsSound
  <2>4. CASE PurgeSuppressed \/ RepriceDone \/ FoldAliases
    BY <1>1, <2>4, PurgeSound, RepriceDoneSound, FoldSound
  <2>5. CASE RecomputeCanonical \/ (\E r, w \in records : Adopt(r, w)) \/ AdoptDone
    BY <2>5, CanonicalSound, AdoptSound, AdoptDoneSound
  <2>6. CASE ResolveTeammates \/ RebuildRollup
    BY <2>6, TeammatesSound, RollupSound
  <2>7. CASE Notify \/ MarkComplete
    BY <2>7, NotifySound, LastSound
  <2> QED BY <1>2, <2>1, <2>2, <2>3, <2>4, <2>5, <2>6, <2>7 DEF RunStep
<1>3. CASE FileFault
  BY <1>1, <1>3, QueueSound, UnackedSound DEF FileFault, IInv
<1>4. CASE Interrupt \/ Crash
  BY <1>1, <1>4, LastSound DEF IInv
<1>5. CASE EnvStep
  BY <1>1, <1>5, LastSound, EnvironmentSound DEF EnvStep, IInv
<1>6. CASE UNCHANGED vars
  BY <1>1, <1>6, EnvironmentSound DEF IInv
<1> QED BY <1>2, <1>3, <1>4, <1>5, <1>6 DEF Next

\* What an incremental run knows of its changes is always enough to repair the
\* canonical flags and the rollups: the strengthening the next two rest on.
THEOREM Inductive == Spec => []IInv
<1>1. Init => IInv
  BY InitTyped, InitSound DEF IInv, TableInv, Init
<1>2. IInv /\ [Next]_vars => IInv'
  BY InvariantKept
<1> QED BY <1>1, <1>2, PTL DEF Spec

\* A complete marker tells the truth in every reachable state: whatever was
\* interrupted, failed, crashed or redeployed before, the canonical flags and
\* every rollup are what a full rebuild of the stored rows would make.
THEOREM MarkerIsSound == Spec => []MarkerSound
<1>1. IInv => MarkerSound
  BY DEF IInv, SoundInv, MarkerInv, MarkerSound
<1> QED BY <1>1, Inductive, PTL

\* A run that reaches its close after the rebuild describes what it persisted,
\* failed files or not, as _close_run's caller relies on.
THEOREM CloseIsExact == Spec => []CloseDescribesStore
<1>1. IInv => CloseDescribesStore
  BY DescribesStore DEF CloseDescribesStore
<1> QED BY <1>1, Inductive, PTL
-----------------------------------------------------------------------------
\* The run implements DerivedMarker.

\* Between runs, the only step of a run is begin_scope.
LEMMA OnlyBeginScope ==
  ASSUME pc = "idle", RunStep \/ FileFault \/ Interrupt \/ Crash
  PROVE  BeginScope
<1>1. ~ FileStep
  BY DEF FileStep, Fetch, Vanish, Persist, RepriceBatch
<1>2. ~ \/ List \/ Collect \/ DeleteOrphans \/ DeleteOrphanProjects
        \/ PurgeSuppressed \/ RepriceDone \/ FoldAliases
  BY DEF List, Collect, DeleteOrphans, DeleteOrphanProjects,
         PurgeSuppressed, RepriceDone, FoldAliases
<1>3. ~ \/ RecomputeCanonical \/ (\E r, w \in records : Adopt(r, w)) \/ AdoptDone
        \/ ResolveTeammates \/ RebuildRollup \/ Notify \/ MarkComplete
  BY DEF RecomputeCanonical, Adopt, MayAdopt, AdoptDone, ResolveTeammates,
         RebuildRollup, Notify, MarkComplete
<1>4. ~ (FileFault \/ Interrupt \/ Crash)
  BY DEF FileFault, FetchFail, PersistFail, PersistUnacked, Interrupt, Crash
<1> QED BY <1>1, <1>2, <1>3, <1>4 DEF RunStep

\* A step that neither begins nor ends a run changes at most the marker's age.
LEMMA StepBetweenRuns ==
  ASSUME IInv, [Next]_vars, pc = "idle", pc' = "idle"
  PROVE  marker'.complete = marker.complete /\ UNCHANGED <<files, records, losers, rollup>>
<1>1. ~ (RunStep \/ FileFault \/ Interrupt \/ Crash)
  BY OnlyBeginScope DEF BeginScope
<1>2. CASE DayPasses
  BY <1>2 DEF DayPasses, IInv, TypeOK, DbTypeOK
<1>3. CASE \/ \E f \in Files : Put(f) \/ Delete(f)
           \/ \E p \in Projects \union {NoMarker} : SetMarker(p)
           \/ OperatorEdit \/ \E rel \in Releases : Deploy(rel)
  BY <1>3 DEF Put, Delete, SetMarker, OperatorEdit, Deploy
<1>4. CASE UNCHANGED vars
  BY <1>4 DEF vars
<1> QED BY <1>1, <1>2, <1>3, <1>4 DEF Next, EnvStep

\* Only begin_scope starts a run.
LEMMA StepIntoRun ==
  ASSUME [Next]_vars, pc = "idle", pc' # "idle"
  PROVE  BeginScope
<1>1. ~ EnvStep
  BY DEF EnvStep, Put, Delete, SetMarker, OperatorEdit, Deploy, DayPasses, EndRun
<1>2. ~ UNCHANGED vars
  BY DEF vars
<1> QED BY <1>1, <1>2, OnlyBeginScope DEF Next

LEMMA LateStepsGoOn ==
  ASSUME pc # "idle",
         (\E r, w \in records : Adopt(r, w)) \/ ResolveTeammates \/ RebuildRollup \/ Notify
  PROVE  pc' # "idle"
<1>1. CASE ResolveTeammates \/ Notify
  BY <1>1 DEF ResolveTeammates, Notify
<1>3. CASE \E r, w \in records : Adopt(r, w)
  <2>1. PICK r \in records, w \in records : Adopt(r, w)
    BY <1>3
  <2>2. pc' = pc
    BY <2>1 DEF Adopt
  <2> QED BY <2>2
<1>2. CASE RebuildRollup
  <2>1. CASE table < NTables
    BY <1>2, <2>1 DEF RebuildRollup
  <2>2. CASE ~ (table < NTables)
    BY <1>2, <2>2 DEF RebuildRollup
  <2> QED BY <2>1, <2>2
<1> QED BY <1>1, <1>2, <1>3

\* A run ends in mark_complete or is cut off; both leave the tables alone.
LEMMA StepOutOfRun ==
  ASSUME IInv, [Next]_vars, pc # "idle", pc' = "idle"
  PROVE  /\ UNCHANGED <<files, records, losers, rollup>>
         /\ marker'.complete => marker.complete \/ Exact
<1>1. MarkComplete \/ Interrupt \/ Crash \/ \E rel \in Releases : Deploy(rel)
  <2>1. ~ FileStep
    BY DEF FileStep, Fetch, Vanish, Persist, StoreFile, RepriceBatch
  <2>2. ~ \/ BeginScope \/ List \/ Collect \/ DeleteOrphans
          \/ DeleteOrphanProjects \/ PurgeSuppressed \/ RepriceDone
    BY DEF BeginScope, List, Collect, DeleteOrphans, DeleteOrphanProjects,
           PurgeSuppressed, RepriceDone
  <2>3. ~ (FoldAliases \/ RecomputeCanonical \/ AdoptDone)
    BY DEF FoldAliases, RecomputeCanonical, AdoptDone
  <2>6. ~ \/ (\E r, w \in records : Adopt(r, w)) \/ ResolveTeammates
          \/ RebuildRollup \/ Notify
    BY LateStepsGoOn
  <2>4. ~ FileFault
    BY DEF FileFault, FetchFail, PersistFail, PersistUnacked, StoreFile
  <2>5. ~ \/ \E f \in Files : Put(f) \/ Delete(f)
          \/ \E p \in Projects \union {NoMarker} : SetMarker(p)
          \/ OperatorEdit \/ DayPasses \/ UNCHANGED vars
    BY DEF Put, Delete, SetMarker, OperatorEdit, DayPasses, vars
  <2> QED BY <2>1, <2>2, <2>3, <2>4, <2>5, <2>6
         DEF Next, RunStep, EnvStep
<1>2. UNCHANGED <<files, records, losers, rollup>>
  BY <1>1 DEF MarkComplete, Interrupt, Crash, Deploy
<1>3. marker' # marker => MarkComplete /\ ~failed
  BY <1>1 DEF MarkComplete, Interrupt, Crash, Deploy
<1>4. MarkComplete /\ ~failed => Exact
  BY DescribesStore DEF MarkComplete, IInv, SoundInv, MarkerInv
<1> QED BY <1>2, <1>3, <1>4

\* Every step of the run is a step of DerivedMarker or none.
LEMMA StepKeepsPromise ==
  ASSUME IInv, IInv', [Next]_vars
  PROVE  [Marker!Next]_(Marker!vars)
<1>1. Exact \in BOOLEAN /\ Exact' \in BOOLEAN
  BY DEF Exact
<1>2. /\ marker.complete \in BOOLEAN /\ marker'.complete \in BOOLEAN
      /\ marker.complete => pc = "idle" /\ Exact
      /\ marker'.complete => pc' = "idle" /\ Exact'
  BY DEF IInv, TypeOK, DbTypeOK, SoundInv, MarkerInv
<1>3. UNCHANGED <<files, records, losers, rollup>> => Exact' = Exact
  BY DEF Exact
<1>4. CASE pc = "idle" /\ pc' = "idle"
  BY <1>3, <1>4, StepBetweenRuns DEF Marker!vars
<1>5. CASE pc = "idle" /\ pc' # "idle"
  <2>1. BeginScope
    BY <1>5, StepIntoRun
  <2>2. Exact' = Exact
    BY <1>3, <2>1 DEF BeginScope
  <2> QED BY <1>2, <1>5, <2>2 DEF Marker!Next, Marker!Begin
<1>6. CASE pc # "idle" /\ pc' # "idle"
  BY <1>1, <1>2, <1>6 DEF Marker!Next, Marker!Work
<1>7. CASE pc # "idle" /\ pc' = "idle"
  BY <1>1, <1>2, <1>3, <1>7, StepOutOfRun DEF Marker!Next, Marker!Finish, Marker!Abandon
<1> QED BY <1>4, <1>5, <1>6, <1>7

\* A run of any length, interrupted, retried or redeployed at any step, does
\* with the marker row only what DerivedMarker allows (begin_scope withdraws
\* the promise, mark_complete alone makes it).
THEOREM ImplementsMarker == Spec => KeepsMarkerPromise
<1>1. Init => Marker!Init
  BY DEF Init, Marker!Init, Exact, Losers, Facts
<1>2. IInv /\ IInv' /\ [Next]_vars => [Marker!Next]_(Marker!vars)
  BY StepKeepsPromise
<1> QED BY <1>1, <1>2, Inductive, PTL DEF Spec, KeepsMarkerPromise, Marker!Spec

-----------------------------------------------------------------------------
\* Files are dropped by the orphan sweep alone, and seen absent before.

\* A file row given another project is a file row still.
LEMMA MovedRow ==
  ASSUME NEW row \in FileRow, NEW p \in Projects
  PROVE  [row EXCEPT !.proj = p] \in FileRow /\ [row EXCEPT !.proj = p] # NoFile
<1>1. [row EXCEPT !.proj = p] \in FileRow
  BY DEF FileRow
<1> QED BY <1>1, NoFileAssumption DEF NoFileAssumption

\* Only the listing, the queue and the environment change what was listed.
LEMMA AbsentStep ==
  ASSUME TypeOK, AbsentInv, [Next]_vars
  PROVE  AbsentInv'
<1> USE DEF AbsentInv
<1>1. CASE pc' \notin {"fetch", "orphans"}
  BY <1>1
<1>2. CASE /\ pc' = pc \/ (pc = "fetch" /\ pc' = "orphans")
           /\ UNCHANGED <<bucket, seen, absent>>
  BY <1>2 DEF Live
<1>3. CASE List
  <2>1. pc' = "fetch" /\ seen' = Live /\ absent' = Files \ Live /\ bucket' = bucket
    BY <1>3 DEF List
  <2> QED BY <2>1 DEF Live
<1>4. CASE FileStep
  <2> PICK f \in Files : Fetch(f) \/ Vanish(f) \/ Persist(f) \/ RepriceBatch(f)
    BY <1>4 DEF FileStep
  <2>1. CASE Fetch(f) \/ Persist(f) \/ RepriceBatch(f)
    BY <1>2, <2>1 DEF Fetch, Persist, StoreFile, RepriceBatch
  <2>2. CASE Vanish(f)
    BY <2>2 DEF Vanish, Live
  <2> QED BY <2>1, <2>2
<1>5. CASE \/ BeginScope \/ Collect \/ DeleteOrphans \/ DeleteOrphanProjects
           \/ PurgeSuppressed \/ RepriceDone \/ FoldAliases \/ RecomputeCanonical
  <2>1. \/ pc' \notin {"fetch", "orphans"}
        \/ Collect
    BY <1>5 DEF BeginScope, DeleteOrphans, DeleteOrphanProjects, PurgeSuppressed,
                RepriceDone, FoldAliases, RecomputeCanonical
  <2>2. CASE Collect
    BY <1>2, <2>2 DEF Collect
  <2> QED BY <1>1, <2>1, <2>2
<1>6. CASE \/ (\E r, w \in records : Adopt(r, w)) \/ AdoptDone \/ ResolveTeammates
           \/ RebuildRollup \/ Notify \/ MarkComplete
  <2>1. pc' \notin {"fetch", "orphans"}
    <3>1. CASE RebuildRollup
      BY <3>1 DEF RebuildRollup
    <3>2. CASE ~RebuildRollup
      BY <1>6, <3>2 DEF Adopt, AdoptDone, ResolveTeammates, Notify, MarkComplete, EndRun
    <3> QED BY <3>1, <3>2
  <2> QED BY <1>1, <2>1
<1>7. CASE FileFault
  BY <1>2, <1>7 DEF FileFault, FetchFail, PersistFail, PersistUnacked, StoreFile
<1>8. CASE Interrupt \/ Crash \/ \E rel \in Releases : Deploy(rel)
  <2>1. pc' = "idle"
    BY <1>8 DEF Interrupt, Crash, Deploy, EndRun
  <2> QED BY <1>1, <2>1
<1>9. CASE \/ \E p \in Projects \union {NoMarker} : SetMarker(p)
           \/ OperatorEdit \/ DayPasses \/ UNCHANGED vars
  BY <1>2, <1>9 DEF SetMarker, OperatorEdit, DayPasses, vars
<1>10. ASSUME NEW f \in Files, Put(f) PROVE AbsentInv'
  <2>1. /\ pc' = pc /\ seen' = seen /\ absent' = absent
        /\ bucket' = [bucket EXCEPT ![f] = [v |-> bucket[f].v + 1, live |-> TRUE]]
    BY <1>10 DEF Put
  <2>2. Live \subseteq Live'
    BY <2>1 DEF Live, TypeOK, EnvTypeOK
  <2> QED BY <2>1, <2>2
<1>11. ASSUME NEW f \in Files, Delete(f) PROVE AbsentInv'
  <2>1. /\ pc' = pc /\ seen' = seen
        /\ absent' = IF pc = "fetch" THEN absent \union {f} ELSE absent
        /\ bucket' = [bucket EXCEPT ![f].live = FALSE]
    BY <1>11 DEF Delete
  <2>2. \A g \in Files : g # f => (g \in Live <=> g \in Live')
    BY <2>1 DEF Live, TypeOK, EnvTypeOK
  <2>3. Live' \subseteq Files /\ Live \subseteq Files
    BY DEF Live
  <2> QED BY <2>1, <2>2, <2>3
<1> QED BY <1>3, <1>4, <1>5, <1>6, <1>7, <1>8, <1>9, <1>10, <1>11
       DEF Next, RunStep, EnvStep

\* Every other step that writes files keeps the rows it does not sweep.
LEMMA DroppedWasAbsent ==
  ASSUME TypeOK, AbsentInv, [Next]_vars,
         NEW f \in Files, files[f] # NoFile, files'[f] = NoFile
  PROVE  f \in absent
<1>1. files \in [Files -> FileRow \union {NoFile}] /\ files[f] \in FileRow
  BY DEF TypeOK, DbTypeOK
<1>2. files' # files
  OBVIOUS
<1>3. CASE List
  <2>1. PICK p : Rekey(p)
    BY <1>3 DEF List
  <2>2. lane \in Projects => operator.chain[lane] \in Projects
    BY OperatorTyped DEF TypeOK
  <2>3. lane \in Projects \union {NoMarker}
    BY DEF TypeOK, EnvTypeOK
  <2>4. /\ lane # NoMarker
        /\ files'[f] \in {files[f], [files[f] EXCEPT !.proj = operator.chain[lane]]}
    BY <1>2, <2>1 DEF Rekey
  <2> QED BY <1>1, <2>2, <2>3, <2>4, MovedRow
<1>4. ASSUME NEW g \in Files, StoreFile(g), pc = "fetch" PROVE FALSE
  <2> DEFINE row == [etag |-> etags[g], ver |-> Parser[release], role |-> DefaultRole,
                     proj |-> IF g \in LaneFiles THEN laneId ELSE KeyProject[g]]
  <2>1. row \in FileRow
    <3>1. DefaultRole \in Roles /\ KeyProject[g] \in Projects
      BY IngestAssumption DEF IngestAssumption
    <3>2. Parser[release] \in Nat
      BY DerivedAssumption DEF DerivedAssumption, TypeOK, EnvTypeOK
    <3> QED BY <1>4, <3>1, <3>2 DEF TypeOK, RunTypeOK, FileRow
  <2>2. files' = [files EXCEPT ![g] = row]
    BY <1>4 DEF StoreFile
  <2> HIDE DEF row
  <2>3. files'[f] \in {files[f], row}
    BY <1>1, <2>2
  <2> QED BY <1>1, <2>1, <2>3, NoFileAssumption DEF NoFileAssumption
<1>5. CASE DeleteOrphans
  <2>1. f \notin seen /\ pc = "orphans"
    BY <1>5 DEF DeleteOrphans
  <2> QED BY <2>1 DEF AbsentInv
<1>6. CASE FoldAliases
  <2>1. files'[f] = [files[f] EXCEPT !.proj = operator.fold[files[f].proj]]
    BY <1>6 DEF FoldAliases, Folded
  <2>2. operator.fold[files[f].proj] \in Projects
    BY <1>1, OperatorTyped DEF TypeOK, FileRow
  <2> QED BY <1>1, <2>1, <2>2, MovedRow
<1>7. CASE ResolveTeammates
  <2>1. files'[f] \in {files[f], [files[f] EXCEPT !.role = RoleOf(f)]}
    BY <1>7 DEF ResolveTeammates
  <2>2. \A d \in LatestDispatches(f) : d.dispatch \in Roles
    BY DEF LatestDispatches, Dispatches, TypeOK, DbTypeOK, Record
  <2>3. RoleOf(f) \in Roles
    BY <1>1, <2>2 DEF RoleOf, FileRow
  <2>4. [files[f] EXCEPT !.role = RoleOf(f)] \in FileRow
    BY <1>1, <2>3 DEF FileRow
  <2> QED BY <1>1, <2>1, <2>4, NoFileAssumption DEF NoFileAssumption
<1>8. CASE RunStep
  <2>1. CASE FileStep
    BY <1>2, <1>4, <2>1 DEF FileStep, Fetch, Vanish, Persist, RepriceBatch
  <2>2. ~ (BeginScope \/ Collect \/ DeleteOrphanProjects \/ PurgeSuppressed \/ RepriceDone)
    BY <1>2 DEF BeginScope, Collect, DeleteOrphanProjects, PurgeSuppressed, RepriceDone
  <2>3. ~ \/ RecomputeCanonical \/ (\E r, w \in records : Adopt(r, w)) \/ AdoptDone
          \/ RebuildRollup \/ Notify \/ MarkComplete
    BY <1>2 DEF RecomputeCanonical, Adopt, AdoptDone, RebuildRollup, Notify, MarkComplete
  <2> QED BY <1>3, <1>5, <1>6, <1>7, <1>8, <2>1, <2>2, <2>3 DEF RunStep
<1>9. CASE FileFault
  BY <1>2, <1>4, <1>9 DEF FileFault, FetchFail, PersistFail, PersistUnacked
<1>10. ~ (Interrupt \/ Crash \/ EnvStep \/ UNCHANGED vars)
  BY <1>2 DEF Interrupt, Crash, EnvStep, Put, Delete, SetMarker, OperatorEdit, Deploy,
              DayPasses, vars
<1> QED BY <1>8, <1>9, <1>10 DEF Next

\* A run never drops a file whose object stayed in the bucket from the listing
\* on, however the bucket moves under the walk and whatever fails.
THEOREM LiveFilesStay == Spec => NoLiveFileDeleted
<1>1. Init => AbsentInv
  BY DEF Init, AbsentInv
<1>2. TypeOK /\ AbsentInv /\ [Next]_vars => AbsentInv'
  BY AbsentStep
<1>3. TypeOK /\ AbsentInv /\ [Next]_vars =>
        \A f \in Files : files[f] # NoFile /\ files'[f] = NoFile => f \in absent
  BY DroppedWasAbsent
<1>4. Spec => []AbsentInv
  BY <1>1, <1>2, TypeCorrect, PTL DEF Spec
<1> QED BY <1>3, <1>4, TypeCorrect, PTL DEF Spec, NoLiveFileDeleted
-----------------------------------------------------------------------------
\* The operator's tables and the release's prices.

\* Whatever a run does to its scope, the fingerprint it began with stays, and
\* no dirty file is forgotten.
LEMMA FingerprintStays ==
  ASSUME NEW s \in Scope, NEW b, NEW cells, NEW c, NEW fs
  PROVE  \A u \in {Promote(s, b), AddUntimed(s, b), AddCells(s, cells),
                   CheckLatencyNull(s), CheckDirtyThreshold(s)} :
           u.fp = s.fp /\ u.dirty = s.dirty
BY DEF Promote, AddUntimed, CheckLatencyNull, CheckDirtyThreshold, AddCells, Scope

LEMMA ContributionStays ==
  ASSUME NEW s \in Scope, NEW c, NEW fs
  PROVE  /\ AddContribution(s, c, fs).fp = s.fp
         /\ AddContribution(s, c, fs).dirty = s.dirty \union fs
         /\ AddContribution(s, c, fs).full = s.full
BY DEF AddContribution, Scope

\* What a complete marker says is true of the rows until a run begins anew.
LEMMA MarkerPolicyStep ==
  ASSUME IInv, PolicyInv, [Next]_vars
  PROVE  MarkerPolicy'
<1> USE DEF PolicyInv, MarkerPolicy
<1>1. /\ edition \in Nat /\ release \in Nat /\ marker.fp \in Nat \X Nat
      /\ pc # "idle" => ~marker.complete
  BY IngestAssumption, DerivedAssumption
    DEF IngestAssumption, DerivedAssumption, IInv, TypeOK, EnvTypeOK, DbTypeOK, SoundInv,
        MarkerInv
<1>2. CASE OperatorEdit
  BY <1>1, <1>2 DEF OperatorEdit
<1>3. CASE MarkComplete /\ marker' # marker
  <2>1. /\ marker'.fp = scope.fp /\ ~failed /\ pc = "mark" /\ records' = records
        /\ edition' = edition
    BY <1>3 DEF MarkComplete
  <2>2. ~unacked
    BY <2>1 DEF IInv, SoundInv, MarkerInv
  <2>3. /\ scope.fp[1] <= edition /\ scope.fp[2] = release /\ PricedBy(release)
        /\ scope.fp[1] = edition => Purged(records)
    BY <2>1, <2>2 DEF RunPolicy, BeforePurge
  <2> QED BY <2>1, <2>3 DEF Purged, PricedBy, operator
<1>4. ASSUME /\ UNCHANGED edition /\ marker'.fp = marker.fp
             /\ marker'.complete => marker.complete
             /\ records' = records \/ pc # "idle"
      PROVE  MarkerPolicy'
  BY <1>1, <1>4 DEF Purged, PricedBy, operator
<1>5. CASE RunStep /\ ~(MarkComplete /\ marker' # marker)
  <2>1. CASE BeginScope
    <3>1. UNCHANGED <<edition, records>> /\ marker' = [marker EXCEPT !.complete = FALSE]
      BY <2>1 DEF BeginScope
    <3>2. marker'.fp = marker.fp /\ ~marker'.complete
      BY <3>1 DEF IInv, TypeOK, DbTypeOK
    <3> QED BY <1>4, <3>1, <3>2
  <2>2. CASE FileStep
    BY <1>4, <2>2 DEF FileStep, Fetch, Vanish, Persist, StoreFile, RepriceBatch
  <2>3. CASE List \/ Collect \/ DeleteOrphans \/ DeleteOrphanProjects \/ PurgeSuppressed
    BY <1>4, <2>3 DEF List, Collect, DeleteOrphans, DeleteOrphanProjects, PurgeSuppressed
  <2>4. CASE RepriceDone \/ FoldAliases \/ RecomputeCanonical
             \/ (\E r, w \in records : Adopt(r, w))
    BY <1>4, <2>4 DEF RepriceDone, FoldAliases, RecomputeCanonical, Adopt
  <2>5. CASE AdoptDone \/ ResolveTeammates \/ RebuildRollup \/ Notify \/ MarkComplete
    BY <1>4, <1>5, <2>5 DEF AdoptDone, ResolveTeammates, RebuildRollup, Notify, MarkComplete
  <2> QED BY <1>5, <2>1, <2>2, <2>3, <2>4, <2>5 DEF RunStep
<1>6. CASE FileFault
  BY <1>4, <1>6 DEF FileFault, FetchFail, PersistFail, PersistUnacked, StoreFile
<1>7. CASE \/ Interrupt \/ Crash \/ \E f \in Files : Put(f) \/ Delete(f)
           \/ \E p \in Projects \union {NoMarker} : SetMarker(p)
           \/ \E rel \in Releases : Deploy(rel)
           \/ UNCHANGED vars
  BY <1>4, <1>7 DEF Interrupt, Crash, Put, Delete, SetMarker, Deploy, vars
<1>8. CASE DayPasses
  <2>1. UNCHANGED <<edition, records>> /\ marker' = [marker EXCEPT !.recent = FALSE]
    BY <1>8 DEF DayPasses
  <2>2. marker'.fp = marker.fp /\ marker'.complete = marker.complete
    BY <2>1 DEF IInv, TypeOK, DbTypeOK
  <2> QED BY <1>4, <2>1, <2>2
<1> QED BY <1>2, <1>3, <1>5, <1>6, <1>7, <1>8 DEF Next, EnvStep

\* A run's duties go on while rows only go, its scope only grows, and neither
\* the purge nor the repricing ends.
LEMMA RunPolicyKept ==
  ASSUME RunPolicy, pc # "idle", pc' # "idle",
         UNCHANGED <<edition, release>>, records' \subseteq records,
         scope'.fp = scope.fp, unacked => unacked',
         pc \in BeforePurge <=> pc' \in BeforePurge, pc = "reprice" <=> pc' = "reprice",
         pc \in BeforePurge /\ ~scope'.full => ~scope.full /\ Reach.dirty \subseteq Reach'.dirty
  PROVE  RunPolicy'
<1> USE DEF RunPolicy
<1>1. Purged({r \in records : r.file \notin Reach.dirty}) /\ Reach.dirty \subseteq Reach'.dirty
        => Purged({r \in records : r.file \notin Reach.dirty})'
  BY DEF Purged, operator
<1>2. Purged(records) => Purged(records)'
  BY DEF Purged, operator
<1>3. PricedBy(release) => PricedBy(release)'
  BY DEF PricedBy
<1> QED BY <1>1, <1>2, <1>3

\* The rows a persist puts in are of a file the scope will know as dirty.
LEMMA FetchPolicy ==
  ASSUME TypeOK, TypeOK', RunPolicy, NEW f \in Files,
         \/ Fetch(f) \/ Vanish(f) \/ FetchFail(f) \/ Persist(f) \/ PersistFail(f)
         \/ PersistUnacked(f)
  PROVE  RunPolicy'
<1>1. /\ pc = "fetch" /\ pc' = "fetch" /\ UNCHANGED <<edition, release>>
      /\ scope \in Scope /\ Reach.dirty = scope.dirty \union persisted
      /\ Reach'.dirty = scope'.dirty \union persisted'
  <2>1. pc = "fetch" /\ pc' = "fetch" /\ UNCHANGED <<edition, release>>
    BY DEF Fetch, Vanish, FetchFail, Persist, PersistFail, PersistUnacked, StoreFile
  <2> QED BY <2>1, ReachNow, ReachNext DEF TypeOK, RunTypeOK
<1>2. /\ scope'.fp = scope.fp /\ scope'.full = scope.full
      /\ scope.dirty \subseteq scope'.dirty
  <2>1. scope' \in {scope, AddContribution(scope, old[f], {f})}
    BY DEF Fetch, Vanish, FetchFail, Persist, PersistFail, PersistUnacked
  <2> QED BY <1>1, <2>1, ContributionStays
<1>3. CASE Fetch(f) \/ Vanish(f) \/ FetchFail(f) \/ PersistFail(f)
  <2>1. UNCHANGED <<records, persisted, unacked>>
    BY <1>3 DEF Fetch, Vanish, FetchFail, PersistFail
  <2> QED BY <1>1, <1>2, <2>1, RunPolicyKept DEF BeforePurge
<1>4. CASE PersistUnacked(f)
  BY <1>1, <1>2, <1>4 DEF PersistUnacked, RunPolicy, BeforePurge
<1>5. CASE Persist(f)
  <2>1. /\ records' = Without(records, {f}) \union Parsed(f, fetched[f])
        /\ unacked' = unacked
        /\ persisted' = IF scope.full THEN persisted ELSE persisted \union {f}
    BY <1>5 DEF Persist, StoreFile
  <2>2. \A r \in Parsed(f, fetched[f]) : r.file = f
    BY DEF Parsed
  <2>3. ASSUME ~scope.full, NEW r \in records', r.file \notin Reach'.dirty
        PROVE  r \in records /\ r.file \notin Reach.dirty
    <3>1. f \in Reach'.dirty /\ Reach.dirty \subseteq Reach'.dirty
      BY <1>1, <1>2, <2>1, <2>3
    <3> QED BY <2>1, <2>2, <2>3, <3>1 DEF Without
  <2> QED BY <1>1, <1>2, <2>1, <2>3 DEF RunPolicy, BeforePurge, Purged, operator
<1> QED BY <1>3, <1>4, <1>5

\* The rest of the walk, up to the purge, only adds dirty files.
LEMMA WalkPolicy ==
  ASSUME IInv, TypeOK', PolicyInv, BeginScope \/ List \/ Collect \/ DeleteOrphans \/ DeleteOrphanProjects
  PROVE  RunPolicy'
<1> USE DEF PolicyInv
<1>1. scope \in Scope /\ scope' \in Scope
  BY DEF IInv, TypeOK, RunTypeOK
<1>2. CASE BeginScope
  <2>1. /\ pc' = "list" /\ UNCHANGED <<edition, release, records>>
        /\ scope'.fp = <<edition, release>>
        /\ scope'.full = (~marker.complete \/ marker.fp # Fingerprint \/ ~marker.recent)
    BY <1>2 DEF BeginScope, NoScope, Fingerprint
  <2>2. edition \in Nat
    BY IngestAssumption DEF IngestAssumption, IInv, TypeOK, EnvTypeOK
  <2>3. ASSUME ~scope'.full PROVE Purged(records)
    <3>1. marker.complete /\ marker.fp = <<edition, release>>
      BY <2>1, <2>3 DEF Fingerprint
    <3>2. marker.fp[1] = edition
      BY <3>1
    <3> QED BY <3>1, <3>2 DEF MarkerPolicy
  <2> QED BY <2>1, <2>2, <2>3 DEF RunPolicy, BeforePurge, Purged, operator
<1>3. CASE List
  <2>1. /\ pc = "list" /\ pc' = "fetch" /\ UNCHANGED <<edition, release, records, unacked>>
    BY <1>3 DEF List
  <2>2. PICK p : Rekey(p)
    BY <1>3 DEF List
  <2>3. scope' \in {scope, Promote(scope, TRUE)}
    BY <2>2 DEF Rekey
  <2>4. scope'.fp = scope.fp /\ scope'.dirty = scope.dirty /\ (~scope'.full => ~scope.full)
    BY <1>1, <2>3 DEF Promote, Scope
  <2>5. Reach.dirty \subseteq Reach'.dirty
    BY <2>1, <2>4, ReachNext DEF Reach
  <2> QED BY <2>1, <2>4, <2>5, RunPolicyKept DEF BeforePurge
<1>4. CASE Collect
  <2> DEFINE added == AddContribution(scope, Contribution(files, records, persisted), persisted)
  <2>1. /\ pc = "fetch" /\ pc' = "orphans" /\ UNCHANGED <<edition, release, records, unacked>>
        /\ scope' = IF scope.full \/ persisted = {} THEN scope ELSE CheckLatencyNull(added)
    BY <1>4 DEF Collect
  <2>2. added \in Scope /\ added.fp = scope.fp /\ added.full = scope.full
        /\ added.dirty = scope.dirty \union persisted
    <3>1. persisted \in SUBSET Files /\ TypeOK
      BY DEF IInv, TypeOK, RunTypeOK
    <3>2. Contribution(files, records, persisted) \in AnyContribution
      BY <3>1, ContributionIsOne
    <3> QED BY <1>1, <3>1, <3>2, ContributionFields, ContributionStays
  <2> HIDE DEF added
  <2>3. /\ CheckLatencyNull(added).fp = added.fp /\ CheckLatencyNull(added).dirty = added.dirty
        /\ ~CheckLatencyNull(added).full => ~added.full
    BY <2>2, FingerprintStays, CheckFields
  <2>4. Reach.dirty = scope.dirty \union persisted /\ Reach'.dirty = scope'.dirty
    BY <2>1, ReachNow DEF IInv, Reach
  <2> QED BY <2>1, <2>2, <2>3, <2>4, RunPolicyKept DEF BeforePurge
<1>5. CASE DeleteOrphans
  <2> DEFINE doomed == Stored \ seen
             added == AddContribution(scope, Contribution(files, records, doomed), doomed)
  <2>1. /\ pc = "orphans" /\ pc' = "projects" /\ UNCHANGED <<edition, release, unacked>>
        /\ records' = Without(records, doomed)
        /\ scope' = IF scope.full THEN scope ELSE CheckLatencyNull(added)
    BY <1>5 DEF DeleteOrphans
  <2>2. added \in Scope /\ added.fp = scope.fp /\ added.full = scope.full
        /\ added.dirty = scope.dirty \union doomed
    <3>1. doomed \in SUBSET Files
      BY DEF Stored
    <3> QED BY <1>1, <3>1, ContributionIsOne, ScopeTyped, ContributionStays
            DEF IInv, AnyContribution
  <2>3. records' \subseteq records
    BY <2>1 DEF Without
  <2> HIDE DEF added
  <2>4. /\ CheckLatencyNull(added).fp = added.fp /\ CheckLatencyNull(added).dirty = added.dirty
        /\ ~CheckLatencyNull(added).full => ~added.full
    BY <2>2, FingerprintStays, CheckFields
  <2>5. Reach = scope /\ Reach' = scope'
    BY <2>1 DEF Reach
  <2> QED BY <2>1, <2>2, <2>3, <2>4, <2>5, RunPolicyKept DEF BeforePurge
<1>6. CASE DeleteOrphanProjects
  <2> DEFINE checked == CheckDirtyThreshold(scope)
  <2>1. /\ pc = "projects" /\ pc' = "purge"
        /\ UNCHANGED <<edition, release, records, unacked>>
        /\ scope' = CheckLatencyNull(checked)
    BY <1>6 DEF DeleteOrphanProjects
  <2>2. /\ checked \in Scope /\ checked.fp = scope.fp /\ checked.dirty = scope.dirty
        /\ ~checked.full => ~scope.full
    BY <1>1, FingerprintStays, CheckFields
  <2> HIDE DEF checked
  <2>3. scope'.fp = scope.fp /\ scope'.dirty = scope.dirty /\ (~scope'.full => ~scope.full)
    BY <2>1, <2>2, FingerprintStays, CheckFields
  <2>4. Reach = scope /\ Reach' = scope'
    BY <2>1 DEF Reach
  <2> QED BY <2>1, <2>3, <2>4, RunPolicyKept DEF BeforePurge
<1> QED BY <1>2, <1>3, <1>4, <1>5, <1>6

\* A purge of the dirty files, after a walk that knew them all, or of every
\* file leaves no row of a suppressed model.
LEMMA PurgePolicy ==
  ASSUME IInv, PolicyInv, PurgeSuppressed
  PROVE  RunPolicy'
<1>1. /\ pc = "purge" /\ pc' = "reprice"
      /\ records' = records \ {r \in records : /\ r.model \in operator.suppress
                                               /\ scope.full \/ r.file \in scope.dirty}
      /\ UNCHANGED <<edition, release, scope, unacked>>
  BY DEF PurgeSuppressed
<1>2. Reach = scope
  BY <1>1 DEF Reach
<1>3. ASSUME scope.fp[1] = edition, ~unacked PROVE Purged(records)'
  <2>1. ~scope.full => Purged({r \in records : r.file \notin scope.dirty})
    BY <1>1, <1>2, <1>3 DEF PolicyInv, RunPolicy, BeforePurge
  <2>2. ASSUME NEW r \in records', r.model \in operator.suppress PROVE FALSE
    <3>1. r \in records /\ ~scope.full /\ r.file \notin scope.dirty
      BY <1>1, <2>2
    <3> QED BY <2>1, <2>2, <3>1 DEF Purged
  <2>3. operator' = operator
    BY <1>1 DEF operator
  <2> QED BY <2>2, <2>3 DEF Purged
<1>4. scope.fp[1] <= edition /\ scope.fp[2] = release
  BY <1>1 DEF PolicyInv, RunPolicy
<1> QED BY <1>1, <1>3, <1>4 DEF RunPolicy, BeforePurge

\* A batch changes no model; when no stale row is left every row is priced.
LEMMA RepricePolicy ==
  ASSUME IInv, PolicyInv, RepriceDone \/ \E f \in Files : RepriceBatch(f)
  PROVE  RunPolicy'
<1>1. /\ pc = "reprice" /\ UNCHANGED <<edition, release, unacked>> /\ operator' = operator
  BY DEF RepriceDone, RepriceBatch, operator
<1>2. /\ scope.fp[1] <= edition /\ scope.fp[2] = release
      /\ scope.fp[1] = edition /\ ~unacked => Purged(records)
  BY <1>1 DEF PolicyInv, RunPolicy, BeforePurge
<1>3. CASE RepriceDone
  <2>1. pc' = "aliases" /\ Stale = {} /\ UNCHANGED <<records, scope>>
    BY <1>3 DEF RepriceDone
  <2>2. ASSUME NEW r \in records PROVE r.rate >= release
    <3>1. r.rate \in Nat /\ release \in Nat
      BY DerivedAssumption DEF DerivedAssumption, IInv, TypeOK, EnvTypeOK, DbTypeOK, Record
    <3>2. ~(r.rate < release)
      BY <2>1 DEF Stale
    <3> QED BY <3>1, <3>2
  <2> QED BY <1>1, <1>2, <2>1, <2>2 DEF RunPolicy, BeforePurge, Purged, PricedBy
<1>4. ASSUME NEW f \in Files, RepriceBatch(f) PROVE RunPolicy'
  <2>1. /\ pc' = "reprice" /\ records' = {Restamp(r, f) : r \in records}
        /\ \E b \in BOOLEAN : scope' = Promote(scope, b)
    BY <1>1, <1>4 DEF RepriceBatch
  <2>2. \A r \in records : Restamp(r, f).model = r.model
    BY RestampTyped DEF IInv, TypeOK, DbTypeOK
  <2>3. scope'.fp = scope.fp
    BY <2>1 DEF Promote, IInv, TypeOK, RunTypeOK, Scope
  <2>4. Purged(records) => Purged(records)'
    BY <1>1, <2>1, <2>2 DEF Purged
  <2> QED BY <1>1, <1>2, <2>1, <2>3, <2>4 DEF RunPolicy, BeforePurge
<1> QED BY <1>3, <1>4

\* Folding, ranking, the roles and the rollups add no row and price none.
LEMMA LatePolicy ==
  ASSUME IInv, PolicyInv,
         \/ FoldAliases \/ RecomputeCanonical \/ AdoptDone \/ ResolveTeammates
         \/ RebuildRollup \/ Notify
  PROVE  RunPolicy'
<1>1. /\ pc \notin BeforePurge \union {"idle", "reprice"}
      /\ pc' \notin BeforePurge \union {"idle", "reprice"}
      /\ UNCHANGED <<edition, release, records, unacked>>
  BY DEF FoldAliases, RecomputeCanonical, AdoptDone, ResolveTeammates, RebuildRollup, Notify,
         BeforePurge
<1>2. /\ scope \in Scope
      /\ \A b \in BOOLEAN : Promote(scope, b) \in Scope
  BY ScopeTyped DEF IInv, TypeOK, RunTypeOK
<1>3. scope'.fp = scope.fp
  <2>1. CASE FoldAliases
    <3> DEFINE fs == scope.dirty \union MovedFiles
               c == Contribution(Folded, records, fs)
               sources == CellsOf(files, RowsOf(records, MovedFiles))
    <3>1. scope' \in {scope, CheckDirtyThreshold(AddCells(AddContribution(scope, c, fs),
                                                          sources))}
      BY <2>1 DEF FoldAliases
    <3> HIDE DEF fs, c, sources
    <3>2. CheckDirtyThreshold(AddCells(AddContribution(scope, c, fs), sources)).fp = scope.fp
      BY <1>2 DEF CheckDirtyThreshold, Promote, AddCells, AddContribution, Scope
    <3> QED BY <3>1, <3>2
  <2>2. CASE RecomputeCanonical
    <3>1. PICK cells, b : scope' \in {scope, AddUntimed(AddCells(scope, cells), b)}
      BY <2>2 DEF RecomputeCanonical
    <3> QED BY <1>2, <3>1 DEF AddUntimed, AddCells, Scope
  <2>3. CASE AdoptDone
    BY <1>2, <2>3 DEF AdoptDone, CheckLatencyNull, Promote, Scope
  <2>4. CASE ResolveTeammates
    <3>1. PICK cells : scope' \in {scope, AddCells(scope, cells)}
      BY <2>4 DEF ResolveTeammates
    <3> QED BY <1>2, <3>1 DEF AddCells, Scope
  <2>5. CASE RebuildRollup
    <3>1. PICK used : LET started == [scope EXCEPT !.used = used]
                      IN  scope' \in {scope, started, CheckLatencyNull(CheckDirtyThreshold(scope)),
                                      CheckLatencyNull(CheckDirtyThreshold(started))}
      BY <2>5 DEF RebuildRollup
    <3>2. [scope EXCEPT !.used = used].fp = scope.fp
      BY <1>2 DEF Scope
    <3>3. CheckLatencyNull(CheckDirtyThreshold(scope)).fp = scope.fp
      BY <1>2 DEF CheckLatencyNull, CheckDirtyThreshold, Promote, Scope
    <3>4. CheckLatencyNull(CheckDirtyThreshold([scope EXCEPT !.used = used])).fp = scope.fp
      BY <1>2 DEF CheckLatencyNull, CheckDirtyThreshold, Promote, Scope
    <3> QED BY <3>1, <3>2, <3>3, <3>4
  <2>6. CASE Notify
    BY <2>6 DEF Notify
  <2> QED BY <2>1, <2>2, <2>3, <2>4, <2>5, <2>6
<1> QED BY <1>1, <1>3, RunPolicyKept DEF PolicyInv, BeforePurge

\* A copy adopts the model of a row that was not suppressed, at today's price.
LEMMA AdoptPolicy ==
  ASSUME IInv, PolicyInv, NEW r \in records, NEW w \in records, Adopt(r, w)
  PROVE  RunPolicy'
<1> DEFINE adopted == [r EXCEPT !.model = w.model, !.rate = release]
<1>1. /\ pc = "adopt" /\ pc' = "adopt" /\ records' = (records \ {r}) \union {adopted}
      /\ UNCHANGED <<edition, release, scope, unacked>>
  BY DEF Adopt
<1>2. adopted.model = w.model /\ adopted.rate = release /\ release \in Nat
  BY DerivedAssumption DEF DerivedAssumption, IInv, TypeOK, EnvTypeOK, DbTypeOK, Record
<1> HIDE DEF adopted
<1>3. Purged(records) => Purged(records)'
  BY <1>1, <1>2 DEF Purged, operator
<1>4. PricedBy(release) => PricedBy(release)'
  BY <1>1, <1>2 DEF PricedBy
<1> QED BY <1>1, <1>3, <1>4 DEF PolicyInv, RunPolicy, BeforePurge

\* A run that is over owes nothing; an edit while it works is the next run's.
LEMMA OutsidePolicy ==
  ASSUME IInv, PolicyInv, MarkComplete \/ Interrupt \/ Crash \/ EnvStep \/ UNCHANGED vars
  PROVE  RunPolicy'
<1>1. CASE pc' = "idle"
  BY <1>1 DEF RunPolicy
<1>2. CASE OperatorEdit
  <2>1. /\ edition' = edition + 1 /\ edition \in Nat /\ UNCHANGED <<release, pc, scope, records>>
    BY <1>2, IngestAssumption DEF IngestAssumption, OperatorEdit, IInv, TypeOK, EnvTypeOK
  <2>2. scope.fp[1] \in Nat
    BY DEF IInv, TypeOK, RunTypeOK, Scope
  <2> QED BY <2>1, <2>2 DEF PolicyInv, RunPolicy, PricedBy
<1>3. CASE /\ UNCHANGED <<edition, release, files, records, pc, scope, persisted, unacked>>
  <2>1. Reach' = Reach /\ operator' = operator
    BY <1>3 DEF Reach, operator
  <2> QED BY <1>3, <2>1 DEF PolicyInv, RunPolicy, Purged, PricedBy
<1>4. CASE MarkComplete \/ Interrupt \/ Crash
  BY <1>1, <1>4 DEF MarkComplete, Interrupt, Crash, EndRun
<1>5. CASE EnvStep
  BY <1>1, <1>2, <1>3, <1>5 DEF EnvStep, Put, Delete, SetMarker, DayPasses, Deploy, EndRun
<1> QED BY <1>3, <1>4, <1>5 DEF vars

LEMMA PolicyStep ==
  ASSUME IInv, IInv', PolicyInv, [Next]_vars
  PROVE  PolicyInv'
<1> SUFFICES RunPolicy'
  BY MarkerPolicyStep DEF PolicyInv
<1>1. TypeOK /\ TypeOK' /\ RunPolicy
  BY DEF IInv, PolicyInv
<1>2. CASE RunStep
  <2>1. CASE FileStep
    <3> PICK f \in Files : Fetch(f) \/ Vanish(f) \/ Persist(f) \/ RepriceBatch(f)
      BY <2>1 DEF FileStep
    <3> QED BY <1>1, FetchPolicy, RepricePolicy
  <2>2. CASE BeginScope \/ List \/ Collect \/ DeleteOrphans \/ DeleteOrphanProjects
    BY <1>1, <2>2, WalkPolicy
  <2>3. CASE \E r, w \in records : Adopt(r, w)
    BY <2>3, AdoptPolicy
  <2> QED BY <1>2, <2>1, <2>2, <2>3, PurgePolicy, RepricePolicy, LatePolicy, OutsidePolicy
          DEF RunStep
<1>3. CASE FileFault
  <2> PICK f \in Files : FetchFail(f) \/ PersistFail(f) \/ PersistUnacked(f)
    BY <1>3 DEF FileFault
  <2> QED BY <1>1, FetchPolicy
<1> QED BY <1>2, <1>3, OutsidePolicy DEF Next

\* A complete marker of the current release and tables means that no row of a
\* suppressed model and no stale price is left, though an incremental run
\* purges its dirty files alone and the tables may change while a run works.
THEOREM PolicyIsApplied == Spec => []PolicyApplied
<1>1. Init => PolicyInv
  BY IngestAssumption DEF IngestAssumption, Init, PolicyInv, MarkerPolicy, RunPolicy, NoFp
<1>2. IInv /\ IInv' /\ PolicyInv /\ [Next]_vars => PolicyInv'
  BY PolicyStep
<1>3. PolicyInv => PolicyApplied
  <2> SUFFICES ASSUME PolicyInv, marker.complete, marker.fp = Fingerprint
               PROVE  \A r \in records : r.model \notin operator.suppress /\ r.rate >= release
    BY DEF PolicyApplied
  <2>1. marker.fp[1] = edition /\ marker.fp[2] = release
    BY DEF Fingerprint
  <2> QED BY <2>1 DEF PolicyInv, MarkerPolicy, Purged, PricedBy
<1> QED BY <1>1, <1>2, <1>3, Inductive, PTL DEF Spec
-----------------------------------------------------------------------------
\* What the dashboards were told.

\* While what was told stays true ...
LEMMA StillTold ==
  ASSUME Told, UNCHANGED <<files, records, losers, rollup, announced>>
  PROVE  Told'
BY DEF Told, Exact

\* ... a step that changes nothing but the run's own state keeps the promise.
LEMMA QuietStep ==
  ASSUME AnnounceInv, UNCHANGED <<files, records, losers, rollup, announced, interrupted>>,
         pc' = pc \/ pc' \notin {"idle", "mark"}, touched => touched', unacked' => unacked
  PROVE  AnnounceInv'
BY StillTold DEF AnnounceInv

\* A step that raises one of the run's counts may change what it likes.
LEMMA CountedStep ==
  ASSUME AnnounceInv, pc' \notin {"idle", "mark"}, touched',
         UNCHANGED <<interrupted, unacked>>
  PROVE  AnnounceInv'
BY DEF AnnounceInv

\* Where the facts are exact nothing is dropped with a project no file is of.
LEMMA NothingDropped ==
  ASSUME TypeOK, Exact, NEW ps
  PROVE  WithoutProjects(ps, files) = rollup
<1>1. /\ rollup \in [Tables -> SUBSET Fact]
      /\ \A r \in records : r.file \in Files /\ files[r.file] # NoFile
  BY DEF TypeOK, DbTypeOK, Record
<1>2. ASSUME NEW t \in Tables, NEW x \in rollup[t], x \notin WithoutProjects(ps, files)[t]
      PROVE  FALSE
  <2>1. x \notin Facts(files, records, losers, t)
    BY <1>1, <1>2, DroppedIsNoFact
  <2> QED BY <2>1 DEF Exact
<1>3. \A t \in Tables : WithoutProjects(ps, files)[t] \subseteq rollup[t]
  BY DEF WithoutProjects
<1>4. \A t \in Tables : WithoutProjects(ps, files)[t] = rollup[t]
  BY <1>2, <1>3
<1>5. WithoutProjects(ps, files) = [t \in Tables |-> WithoutProjects(ps, files)[t]]
  BY DEF WithoutProjects
<1>6. rollup = [t \in Tables |-> rollup[t]]
  BY <1>1
<1> QED BY <1>4, <1>5, <1>6

\* A batch that moved no price left the facts and the flags as they were.
LEMMA RepriceTold ==
  ASSUME IInv, AnnounceInv, NEW f \in Files, RepriceBatch(f)
  PROVE  AnnounceInv'
<1> DEFINE moved == \E r \in Stale : /\ r.file = f
                                     /\ Price[r.rate][r.model] # Price[release][r.model]
<1>1. /\ pc' = pc /\ pc = "reprice" /\ touched' = (touched \/ moved)
      /\ records' = {Restamp(r, f) : r \in records}
      /\ losers' = {Restamp(r, f) : r \in losers}
      /\ UNCHANGED <<files, rollup, announced, interrupted, unacked>>
  BY DEF RepriceBatch
<1>2. CASE touched \/ moved
  <2>1. touched'
    BY <1>1, <1>2
  <2> QED BY <1>1, <2>1, CountedStep
<1>3. CASE ~touched /\ ~moved
  <2> SUFFICES ASSUME Told PROVE Told'
    BY <1>1, <1>3 DEF AnnounceInv
  <2>1. TypeOK /\ UniqueLines
    BY DEF IInv, SoundInv
  <2>2. /\ \A r \in records : Restamp(r, f) \in losers' <=> r \in losers
        /\ \A r \in records : Restamp(r, f) \in Losers(records') <=> r \in Losers(records)
        /\ \A t \in Tables : Facts(files, records', losers', t)
                             = Facts(files, records, losers, t)
    BY <1>1, <1>3, <2>1, RestampKeeps, Zenon
  <2>3. losers' \subseteq records' /\ Losers(records') \subseteq records'
    BY <1>1, <2>1, LosersAreRecords DEF TypeOK, DbTypeOK
  <2>4. ASSUME NEW q \in records' PROVE q \in losers' <=> q \in Losers(records')
    <3>1. PICK r \in records : q = Restamp(r, f)
      BY <1>1
    <3>2. r \in losers <=> r \in Losers(records)
      BY DEF Told, Exact
    <3> QED BY <2>2, <3>1, <3>2
  <2>5. losers' = Losers(records')
    BY <2>3, <2>4
  <2>6. \A t \in Tables : rollup'[t] = Facts(files', records', losers', t)
    BY <1>1, <2>2 DEF Told, Exact
  <2> QED BY <1>1, <2>5, <2>6 DEF Told, Exact
<1> QED BY <1>2, <1>3

\* Sweeping, purging, folding and resolving nothing changes nothing.
LEMMA SweepTold ==
  ASSUME TypeOK, AnnounceInv, DeleteOrphans \/ DeleteOrphanProjects \/ PurgeSuppressed
  PROVE  AnnounceInv'
<1>1. CASE DeleteOrphans
  <2> DEFINE doomed == Stored \ seen
  <2>1. /\ pc' = "projects" /\ touched' = (touched \/ doomed # {})
        /\ files' = [f \in Files |-> IF f \in doomed THEN NoFile ELSE files[f]]
        /\ records' = Without(records, doomed) /\ losers' = Without(losers, doomed)
        /\ UNCHANGED <<rollup, announced, interrupted, unacked>>
    BY <1>1 DEF DeleteOrphans
  <2>2. CASE doomed # {}
    BY <2>1, <2>2, CountedStep
  <2>3. CASE doomed = {}
    <3>1. files' = files /\ records' = records /\ losers' = losers
      BY <2>1, <2>3 DEF Without, TypeOK, DbTypeOK
    <3> QED BY <2>1, <3>1, QuietStep
  <2> QED BY <2>2, <2>3
<1>2. CASE DeleteOrphanProjects
  <2>1. /\ pc' = "purge" /\ pc = "projects" /\ rollup' = WithoutProjects(Projects, files)
        /\ UNCHANGED <<files, records, losers, announced, interrupted, unacked, touched>>
    BY <1>2 DEF DeleteOrphanProjects
  <2>2. CASE touched
    BY <2>1, <2>2, CountedStep
  <2>3. CASE Told
    <3>1. rollup' = rollup
      BY <2>1, <2>3, NothingDropped DEF Told
    <3> QED BY <2>1, <3>1, QuietStep
  <2> QED BY <2>1, <2>2, <2>3 DEF AnnounceInv
<1>3. CASE PurgeSuppressed
  <2> DEFINE gone == {r \in records : /\ r.model \in operator.suppress
                                      /\ scope.full \/ r.file \in scope.dirty}
  <2>1. /\ pc' = "reprice" /\ touched' = (touched \/ gone # {})
        /\ records' = records \ gone /\ losers' = losers \ gone
        /\ UNCHANGED <<files, rollup, announced, interrupted, unacked>>
    BY <1>3 DEF PurgeSuppressed
  <2> HIDE DEF gone
  <2>2. CASE gone # {}
    BY <2>1, <2>2, CountedStep
  <2>3. CASE gone = {}
    BY <2>1, <2>3, QuietStep
  <2> QED BY <2>2, <2>3
<1> QED BY <1>1, <1>2, <1>3

LEMMA FoldTold ==
  ASSUME TypeOK, AnnounceInv, FoldAliases
  PROVE  AnnounceInv'
<1>1. /\ pc' = "canonical" /\ touched' = (touched \/ MovedFiles # {})
      /\ files' = Folded
      /\ rollup' = WithoutProjects({files[f].proj : f \in MovedFiles}, Folded)
      /\ UNCHANGED <<records, losers, announced, interrupted, unacked>>
  BY DEF FoldAliases
<1>2. CASE MovedFiles # {}
  BY <1>1, <1>2, CountedStep
<1>3. CASE MovedFiles = {}
  <2>1. files \in [Files -> FileRow \union {NoFile}] /\ rollup \in [Tables -> SUBSET Fact]
    BY DEF TypeOK, DbTypeOK
  <2>2. ASSUME NEW f \in Files PROVE Folded[f] = files[f]
    <3>1. CASE files[f] = NoFile
      BY <3>1 DEF Folded
    <3>2. CASE files[f] # NoFile
      <4>1. files[f] \in FileRow /\ operator.fold[files[f].proj] = files[f].proj
        BY <1>3, <2>1, <3>2 DEF MovedFiles, Stored
      <4>2. Folded[f] = [files[f] EXCEPT !.proj = files[f].proj]
        BY <3>2, <4>1 DEF Folded
      <4> QED BY <4>1, <4>2 DEF FileRow
    <3> QED BY <3>1, <3>2
  <2>3. files' = files
    BY <1>1, <2>1, <2>2 DEF Folded
  <2>4. {files[f].proj : f \in MovedFiles} = {}
    BY <1>3
  <2>5. WithoutProjects({}, Folded) = [t \in Tables |-> rollup[t]]
    BY <2>1 DEF WithoutProjects
  <2>6. rollup' = rollup
    BY <1>1, <2>1, <2>4, <2>5
  <2> QED BY <1>1, <2>3, <2>6, QuietStep
<1> QED BY <1>2, <1>3

LEMMA ResolveTold ==
  ASSUME TypeOK, AnnounceInv,
         RecomputeCanonical \/ (\E r, w \in records : Adopt(r, w)) \/ ResolveTeammates
  PROVE  AnnounceInv'
<1>1. CASE RecomputeCanonical
  <2>1. PICK wrong \in SUBSET records :
          /\ losers' = (losers \ wrong) \union (wrong \ losers)
          /\ touched' = (touched \/ wrong # {})
    BY <1>1 DEF RecomputeCanonical
  <2>2. /\ pc' = "adopt"
        /\ UNCHANGED <<files, records, rollup, announced, interrupted, unacked>>
    BY <1>1 DEF RecomputeCanonical
  <2>3. CASE wrong # {}
    BY <2>1, <2>2, <2>3, CountedStep
  <2>4. CASE wrong = {}
    BY <2>1, <2>2, <2>4, QuietStep
  <2> QED BY <2>3, <2>4
<1>2. ASSUME NEW r \in records, NEW w \in records, Adopt(r, w) PROVE AnnounceInv'
  <2>1. pc' = "adopt" /\ touched' /\ UNCHANGED <<interrupted, unacked>>
    BY <1>2 DEF Adopt
  <2> QED BY <2>1, CountedStep
<1>3. CASE ResolveTeammates
  <2> DEFINE changed == {f \in Stored : RoleOf(f) # files[f].role}
  <2>1. /\ pc' = "rollup" /\ touched' = (touched \/ changed # {})
        /\ files' = [f \in Files |-> IF f \in changed
                                     THEN [files[f] EXCEPT !.role = RoleOf(f)] ELSE files[f]]
        /\ UNCHANGED <<records, losers, rollup, announced, interrupted, unacked>>
    BY <1>3 DEF ResolveTeammates
  <2> HIDE DEF changed
  <2>2. CASE changed # {}
    BY <2>1, <2>2, CountedStep
  <2>3. CASE changed = {}
    <3>1. files' = files
      BY <2>1, <2>3 DEF TypeOK, DbTypeOK
    <3> QED BY <2>1, <3>1, QuietStep
  <2> QED BY <2>2, <2>3
<1> QED BY <1>1, <1>2, <1>3

\* Rebuilding an exact table makes the same table.
LEMMA RollupTold ==
  ASSUME TypeOK, AnnounceInv, RebuildRollup
  PROVE  AnnounceInv'
<1>1. /\ pc' \notin {"idle", "mark"}
      /\ rollup' = [rollup EXCEPT ![table] =
           Rebuilt(rollup[table], Facts(files, records, losers, table),
                   scope.full, scope.cells)]
      /\ UNCHANGED <<files, records, losers, touched, announced, interrupted, unacked>>
  BY DEF RebuildRollup
<1>2. CASE touched
  BY <1>1, <1>2, CountedStep
<1>3. CASE Told
  <2>1. rollup \in [Tables -> SUBSET Fact] /\ table \in Tables
    BY DEF TypeOK, DbTypeOK, RunTypeOK
  <2>2. rollup[table] = Facts(files, records, losers, table)
    BY <1>3, <2>1 DEF Told, Exact
  <2>3. Rebuilt(rollup[table], rollup[table], scope.full, scope.cells) = rollup[table]
    BY DEF Rebuilt
  <2>4. rollup' = rollup
    BY <1>1, <2>1, <2>2, <2>3
  <2> QED BY <1>1, <2>4, QuietStep
<1>4. CASE interrupted
  BY <1>1, <1>4 DEF AnnounceInv
<1> QED BY <1>1, <1>2, <1>3, <1>4 DEF AnnounceInv, RebuildRollup

\* The gate: what changed is announced once the rollups describe the store.
LEMMA NotifyTold ==
  ASSUME IInv, AnnounceInv, Notify
  PROVE  AnnounceInv'
<1>1. /\ pc = "notify" /\ announced' = IF touched THEN rollup ELSE announced
      /\ interrupted' = ((interrupted /\ ~touched) \/ unacked)
      /\ UNCHANGED <<files, records, losers, rollup, unacked>>
  BY DEF Notify
<1>2. ASSUME ~interrupted' PROVE Told'
  <2>1. ~unacked /\ (~interrupted \/ touched)
    BY <1>1, <1>2
  <2>2. Exact
    BY <1>1, <2>1, DescribesStore
  <2>3. announced' = rollup
    BY <1>1, <2>1 DEF AnnounceInv, Told
  <2> QED BY <1>1, <2>2, <2>3 DEF Told, Exact
<1> QED BY <1>1, <1>2 DEF AnnounceInv

\* However a run ends, it was told of or counts as interrupted.
LEMMA EndTold ==
  ASSUME AnnounceInv, MarkComplete \/ Interrupt \/ Crash \/ \E rel \in Releases : Deploy(rel)
  PROVE  AnnounceInv'
<1>1. ~unacked' /\ UNCHANGED <<files, records, losers, rollup>>
  BY DEF MarkComplete, Interrupt, Crash, Deploy, EndRun
<1>2. CASE MarkComplete
  <2>1. pc = "mark" /\ UNCHANGED <<announced, interrupted>>
    BY <1>2 DEF MarkComplete
  <2> QED BY <1>1, <2>1, StillTold DEF AnnounceInv
<1>3. CASE Interrupt \/ Crash
  BY <1>1, <1>3 DEF Interrupt, Crash, AnnounceInv
<1>4. ASSUME NEW rel \in Releases, Deploy(rel) PROVE AnnounceInv'
  <2>1. announced' = rollup /\ interrupted' = (interrupted \/ pc # "idle")
    BY <1>4 DEF Deploy
  <2>2. ~interrupted' => Exact
    BY <2>1 DEF AnnounceInv, Told
  <2>3. Exact => Exact'
    BY <1>1 DEF Exact
  <2> QED BY <1>1, <2>1, <2>2, <2>3 DEF AnnounceInv, Told
<1> QED BY <1>2, <1>3, <1>4

LEMMA AnnounceStep ==
  ASSUME IInv, AnnounceInv, [Next]_vars
  PROVE  AnnounceInv'
<1>1. TypeOK
  BY DEF IInv
<1>2. CASE List
  <2>1. PICK p : Rekey(p)
    BY <1>2 DEF List
  <2>2. pc' = "fetch" /\ UNCHANGED <<records, losers, announced, interrupted, unacked>>
    BY <1>2 DEF List
  <2>3. CASE UNCHANGED <<files, rollup, touched>>
    BY <2>2, <2>3, QuietStep
  <2>4. CASE touched'
    BY <2>2, <2>4, CountedStep
  <2> QED BY <2>1, <2>3, <2>4 DEF Rekey
<1>3. CASE FileStep
  <2> PICK f \in Files : Fetch(f) \/ Vanish(f) \/ Persist(f) \/ RepriceBatch(f)
    BY <1>3 DEF FileStep
  <2>1. CASE Fetch(f) \/ Vanish(f)
    BY <2>1, QuietStep DEF Fetch, Vanish
  <2>2. CASE Persist(f)
    <3>1. pc' \notin {"idle", "mark"} /\ touched' /\ UNCHANGED <<interrupted, unacked>>
      BY <2>2 DEF Persist, StoreFile
    <3> QED BY <3>1, CountedStep
  <2> QED BY <2>1, <2>2, RepriceTold
<1>4. CASE BeginScope \/ Collect \/ RepriceDone \/ AdoptDone
  BY <1>4, QuietStep DEF BeginScope, Collect, RepriceDone, AdoptDone
<1>5. CASE FileFault
  <2> PICK f \in Files : FetchFail(f) \/ PersistFail(f) \/ PersistUnacked(f)
    BY <1>5 DEF FileFault
  <2>1. CASE FetchFail(f) \/ PersistFail(f)
    BY <2>1, QuietStep DEF FetchFail, PersistFail
  <2>2. CASE PersistUnacked(f)
    BY <2>2 DEF PersistUnacked, AnnounceInv
  <2> QED BY <2>1, <2>2
<1>6. CASE \/ \E f \in Files : Put(f) \/ Delete(f)
           \/ \E p \in Projects \union {NoMarker} : SetMarker(p)
           \/ OperatorEdit \/ DayPasses \/ UNCHANGED vars
  <2>1. UNCHANGED <<files, records, losers, rollup, announced, interrupted, pc, touched, unacked>>
    BY <1>6 DEF Put, Delete, SetMarker, OperatorEdit, DayPasses, vars
  <2> QED BY <2>1, QuietStep
<1> QED BY <1>1, <1>2, <1>3, <1>4, <1>5, <1>6, SweepTold, FoldTold, ResolveTold,
          RollupTold, NotifyTold, EndTold DEF Next, RunStep, EnvStep

\* In a deployment none of whose runs was interrupted since the last notice,
\* the caches were last told to refetch what the rollups hold between runs:
\* the counts the gate reads miss no cause of a changed rollup.
THEOREM ChangesAreAnnounced == Spec => []AnnouncedUnlessInterrupted
<1>1. Init => AnnounceInv
  BY DEF Init, AnnounceInv, Told, Exact, Losers, Facts
<1>2. IInv /\ AnnounceInv /\ [Next]_vars => AnnounceInv'
  BY AnnounceStep
<1>3. AnnounceInv => AnnouncedUnlessInterrupted
  BY DEF AnnounceInv, Told, AnnouncedUnlessInterrupted
<1> QED BY <1>1, <1>2, <1>3, Inductive, PTL DEF Spec
==============================================================================
