----------------------------- MODULE Dashboard -----------------------------
(***************************************************************************)
(* One dashboard response (api_dashboard.py, dashboard_queries.py,         *)
(* dashboard_build.py): a row of statements on one connection, each with a *)
(* snapshot of its own, over the hourly rollups when the display bucket is *)
(* at least an hour and over the live tables when it is not, folded into   *)
(* panels and cached under the generation the request began with.  A run   *)
(* commits files, rebuilds the two rollups and invalidates meanwhile.      *)
(*                                                                         *)
(* A usage record is [session, project, ts, model, host, cost, fresh,      *)
(* created, split]; created is what went into the cache, split the part of *)
(* it whose lifetime the provider declared.  A call is [project, ts,       *)
(* model, added].                                                          *)
(***************************************************************************)
EXTENDS Integers, Sequences, FiniteSets, SequencesExt, FiniteSetsExt

CONSTANTS
  Usage, Calls,    \* what may be stored: canonical records and tool calls
  Spans,           \* ranges asked for
  Today,           \* the time of the request
  Hour,            \* the grain of the rollups
  Candidates,      \* _BUCKET_CANDIDATES_S, increasing
  MinBins,         \* 100
  Top,             \* projects shown by name: 10
  MaxCommits       \* bound: files stored after that

VARIABLES
  span,            \* the range of the request
  store,           \* the records and calls committed
  rollups,         \* [usage, tools]: the store as each rollup was built from it
  run,             \* "idle", or the step of the run in progress
  generation,      \* of the response cache
  reading,         \* the request: [gen, saw], or Idle
  entry,           \* what is cached: [gen, saw], or Idle
  commits

dashboardVars == <<span, store, rollups, run, generation, reading, entry, commits>>

Idle == [gen |-> -1, saw |-> <<>>]
Untimed == -1
Statements == <<"hourly", "churn", "total", "cost", "tokens", "sessions">>

(***************************************************************************)
(* Sources: the range, its buckets, and what a statement sees.             *)
(***************************************************************************)
Floor(ts, width) == (ts \div width) * width
\* The largest candidate before the first that gives too few bins.
BucketWidth(s) ==
  LET fits == {i \in DOMAIN Candidates : \A j \in 2..i : s \div Candidates[j] >= MinBins}
  IN  Candidates[Max(fits)]
Rolled(s) == BucketWidth(s) >= Hour
\* A rollup answers whole hours.
From(s) == IF Rolled(s) THEN Floor(Today - s, Hour) ELSE Today - s
At(rows, s) ==
  {r \in rows : r.ts # Untimed /\ (IF Rolled(s) THEN Floor(r.ts, Hour) ELSE r.ts) >= From(s)}

RollSource(s) == At((IF Rolled(s) THEN rollups.usage ELSE store) \cap Usage, s)
ChurnSource(s) == {c \in At((IF Rolled(s) THEN rollups.tools ELSE store) \cap Calls, s) : c.added > 0}
Source(statement) == IF statement = "churn" THEN ChurnSource(span) ELSE RollSource(span)

(***************************************************************************)
(* Folds.                                                                  *)
(***************************************************************************)
Cost(rows) == MapThenSumSet(LAMBDA r : r.cost, rows)
\* Billed tokens as the hourly columns hold them, and as the project panel does.
Columns(rows) == MapThenSumSet(LAMBDA r : r.fresh + r.split, rows)
Billed(rows) == MapThenSumSet(LAMBDA r : r.fresh + r.created, rows)

BucketOf(ts) == Floor(ts, BucketWidth(span)) + BucketWidth(span) \div 2
Key(r) == <<BucketOf(r.ts), r.model, r.host>>
Earlier(a, b) ==
  \/ a[1] < b[1]
  \/ a[1] = b[1] /\ a[2] < b[2]
  \/ a[1] = b[1] /\ a[2] = b[2] /\ a[3] < b[3]
HourlyRows(rows) ==
  LET keys == SetToSortSeq({Key(r) : r \in rows}, Earlier)
      group(i) == {r \in rows : Key(r) = keys[i]}
  IN  [i \in DOMAIN keys |->
         [hour |-> keys[i][1], model |-> keys[i][2], host |-> keys[i][3],
          cost |-> Cost(group(i)), tokens |-> Columns(group(i)),
          sessions |-> Cardinality({r.session : r \in group(i)})]]

\* Mutant: what is counted per bucket rides every entry.
EveryEntry(rows, i) == TRUE
\* It rides the first.
OnFirst(rows, i) == \A j \in 1..i - 1 : rows[j].hour # rows[i].hour
AddedIn(hour, calls) == MapThenSumSet(LAMBDA c : c.added, {c \in calls : BucketOf(c.ts) = hour})
Hourly(rows, calls) ==
  [i \in DOMAIN rows |->
     [rows[i] EXCEPT !.sessions = IF OnFirst(rows, i) THEN @ ELSE 0]
       @@ [added |-> IF OnFirst(rows, i) THEN AddedIn(rows[i].hour, calls) ELSE 0]]

Summed(field, rows) == FoldLeft(LAMBDA sum, r : sum + r[field], 0, rows)
\* Panels of one cost or token count per name; what is nothing is left out.
PerName(parts) ==
  {[name |-> n, sum |-> Summed("sum", SelectSeq(parts, LAMBDA p : p.name = n))] :
     n \in {parts[i].name : i \in DOMAIN parts}}
Shown(panel) == {p \in panel : p.sum > 0}
CostByModel(rows) ==
  Shown(PerName([i \in DOMAIN rows |-> [name |-> rows[i].model, sum |-> rows[i].cost]]))
TokensBySplit(rows) ==
  Shown(PerName([i \in DOMAIN rows |-> [name |-> <<rows[i].model, rows[i].host>>, sum |-> rows[i].tokens]]))

\* The costliest projects by name, the others as one.
Named(panel) ==
  {p \in panel : Cardinality({q \in panel : q.sum > p.sum \/ (q.sum = p.sum /\ q.name < p.name)}) < Top}
FoldProjects(panel) ==
  LET rest == Shown(panel) \ Named(Shown(panel))
  IN  Named(Shown(panel)) \cup
        (IF rest = {} THEN {} ELSE {[name |-> 0, sum |-> MapThenSumSet(LAMBDA p : p.sum, rest)]})
CostByProject(rows) ==
  FoldProjects({[name |-> p, sum |-> Cost({r \in rows : r.project = p})] : p \in {r.project : r \in rows}})
TokensByProject(rows) ==
  FoldProjects({[name |-> p, sum |-> Billed({r \in rows : r.project = p})] : p \in {r.project : r \in rows}})
Sessions(rows) ==
  {[name |-> s, sum |-> Cost({r \in rows : r.session = s})] : s \in {r.session : r \in rows}}
Total(panel) == MapThenSumSet(LAMBDA p : p.sum, panel)

(***************************************************************************)
(* The request, and the run beside it.                                     *)
(***************************************************************************)
DashboardTypeOK ==
  /\ span \in Spans
  /\ store \subseteq Usage \cup Calls
  /\ rollups \in [usage : SUBSET (Usage \cup Calls), tools : SUBSET (Usage \cup Calls)]
  /\ run \in {"idle", "files", "usage", "tools"}
  /\ reading.gen <= generation /\ entry.gen <= generation
  /\ Len(reading.saw) <= Len(Statements) /\ Len(entry.saw) \in {0, Len(Statements)}

DashboardInit ==
  /\ span \in Spans
  /\ store \in SUBSET (Usage \cup Calls)     \* what earlier runs published
  /\ rollups = [usage |-> store, tools |-> store]
  /\ run = "idle" /\ generation = 0
  /\ reading = Idle /\ entry = Idle /\ commits = 0

Begin ==
  /\ reading = Idle
  /\ reading' = [gen |-> generation, saw |-> <<>>]
  /\ UNCHANGED <<span, store, rollups, run, generation, entry, commits>>

\* One statement, in a snapshot of its own (READ COMMITTED).
Select ==
  /\ reading # Idle /\ Len(reading.saw) < Len(Statements)
  /\ reading' = [reading EXCEPT !.saw = Append(@, Source(Statements[Len(@) + 1]))]
  /\ UNCHANGED <<span, store, rollups, run, generation, entry, commits>>

\* Mutant: the response is filed under the generation of the moment.
CachedAsOfNow(r) == [r EXCEPT !.gen = generation]
Cached(r) == r

Answer ==
  /\ reading # Idle /\ Len(reading.saw) = Len(Statements)
  /\ entry' = Cached(reading) /\ reading' = Idle
  /\ UNCHANGED <<span, store, rollups, run, generation, commits>>

\* A run stores a file's facts or replaces them, and then publishes.
Persist ==
  /\ run \in {"idle", "files"} /\ run' = "files"
  /\ commits < MaxCommits /\ commits' = commits + 1
  /\ \E f \in Usage \cup Calls : store' = IF f \in store THEN store \ {f} ELSE store \cup {f}
  /\ UNCHANGED <<span, rollups, generation, reading, entry>>
RebuildUsage ==
  /\ run = "files" /\ run' = "usage"
  /\ rollups' = [rollups EXCEPT !.usage = store]
  /\ UNCHANGED <<span, store, generation, reading, entry, commits>>
RebuildTools ==
  /\ run = "usage" /\ run' = "tools"
  /\ rollups' = [rollups EXCEPT !.tools = store]
  /\ UNCHANGED <<span, store, generation, reading, entry, commits>>
Invalidate ==
  /\ run = "tools" /\ run' = "idle"
  /\ generation' = generation + 1
  /\ UNCHANGED <<span, store, rollups, reading, entry, commits>>

DashboardNext ==
  Begin \/ Select \/ Answer \/ Persist \/ RebuildUsage \/ RebuildTools \/ Invalidate

DashboardSpec == DashboardInit /\ [][DashboardNext]_dashboardVars

\* What the statements of a request gave is what they give now.
SeesNow(saw) == \A i \in DOMAIN saw : saw[i] = Source(Statements[i])

\* Why a fresh response shows one store: between runs the rollups hold what is
\* stored, and a request of the generation of the moment has seen no run.
DashboardInv ==
  /\ generation \in Nat
  /\ run # "files" => rollups.usage = store
  /\ run \in {"idle", "tools"} => rollups.tools = store
  /\ \A r \in {reading, entry} :
       /\ r \in [gen : Nat \cup {-1}, saw : Seq(SUBSET (Usage \cup Calls))]
       /\ r.gen = -1 <=> r = Idle
       /\ run = "idle" /\ r.gen = generation => SeesNow(r.saw)

(***************************************************************************)
(* Property.                                                               *)
(***************************************************************************)
\* Between runs a response served as fresh saw one store, the one there is.
SeesOneStore == run = "idle" /\ entry # Idle /\ entry.gen = generation => SeesNow(entry.saw)

\* The panels of a response, against the records in range: every one counted
\* once in each.
Agree(saw) ==
  LET used == {u \in store \cap Usage : u.ts # Untimed /\ u.ts >= From(span)}
      added == {c \in store \cap Calls : c.ts # Untimed /\ c.ts >= From(span)}
      rows == HourlyRows(saw[1])
      hourly == Hourly(rows, saw[2])
      hours == {BucketOf(u.ts) : u \in used}
  IN  /\ Summed("cost", hourly) = Cost(used)
      /\ Total(CostByModel(hourly)) = Cost(used)
      /\ Total(CostByProject(saw[4])) = Cost(used)
      /\ Total(Sessions(saw[6])) = Cost(used)
      /\ Total(TokensBySplit(hourly)) = Columns(used)
      /\ Total(TokensByProject(saw[5])) = Billed(used)
      /\ Cardinality({r.session : r \in saw[3]}) = Cardinality(Sessions(saw[6]))
      /\ Summed("added", hourly) = MapThenSumSet(LAMBDA c : c.added, {c \in added : BucketOf(c.ts) \in hours})

\* Between runs, a response served as fresh shows one store in all its panels:
\* hours, models, hosts, projects and sessions add up to the same records,
\* each counted once, whatever range and bucket they are read through, though
\* no transaction ties the statements together and a run may have published
\* between two of them (dashboard_queries.py:11-267, cache.py:250-333).  Of
\* line churn, only that of buckets with usage is shown (dashboard_build.py:136-156).
PanelsAgree ==
  run = "idle" /\ entry # Idle /\ entry.gen = generation => Agree(entry.saw)
=============================================================================
