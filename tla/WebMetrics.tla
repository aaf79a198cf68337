----------------------------- MODULE WebMetrics -----------------------------
(***************************************************************************)
(* Browser telemetry: the sink (api_web_metrics.py, web_metrics.py), the   *)
(* fold of closed buckets into the rollup and the pruning of the raw rows  *)
(* (ingest_rollup_web_metrics.py), and the readout that joins both.        *)
(*                                                                         *)
(* A beacon is its timestamp and its grain.  The timestamp is the start of *)
(* the transaction that inserts it, which may commit later.  A rollup row  *)
(* is the set of beacons it was computed from: n and total are sums over   *)
(* it, the percentiles functions of it.                                    *)
(***************************************************************************)
EXTENDS Integers, FiniteSets, FiniteSetsExt

CONSTANTS
  Grains,            \* (metric, part, region, phase) terms of the vocabulary
  Widths,            \* LATENCY_BUCKETS
  FoldInterval,      \* FOLD_INTERVAL_S
  UserCap,           \* MAX_ROWS_PER_USER
  MaxTime, MaxSent   \* bounds: the clock, beacons ever sent

VARIABLES
  now,
  opened,            \* beacons of transactions still open
  raw,               \* web_metrics
  rollup,            \* web_metrics_rollup: [width, start, grain, members]
  sent,              \* history: beacons ever committed
  late,              \* history: beacons a fold ran past while they were open
  lastFold, maxGap   \* history: the last fold, the longest time without one

metricsVars == <<now, opened, raw, rollup, sent, late, lastFold, maxGap>>

RawKeep == 2 * Max(Widths) + FoldInterval
Cutoff == now - RawKeep                      \* retention_cutoff

StartOf(t, w) == (t \div w) * w              \* the bucket [s, s + w) of an instant
InBucket(S, w, s, g) == {b \in S : b.grain = g /\ StartOf(b.ts, w) = s}

MetricsTypeOK ==
  /\ now \in 0..MaxTime
  /\ raw \subseteq sent
  /\ sent \cup opened \subseteq [ts : 0..now, grain : Grains]
  /\ \A r \in rollup : r.width \in Widths /\ r.members # {} /\ r.members \subseteq sent

MetricsInit ==
  /\ now = 0 /\ lastFold = 0 /\ maxGap = 0
  /\ opened = {} /\ raw = {} /\ rollup = {} /\ sent = {} /\ late = {}

\* post_metrics: the cap is counted over the raw window, then the batch is
\* inserted.  Both in one transaction, whose start is the timestamp.
Receive(g) ==
  LET b == [ts |-> now, grain |-> g]
  IN  /\ b \notin sent \cup opened
      /\ Cardinality(sent \cup opened) < MaxSent
      /\ Cardinality({r \in raw : r.ts >= Cutoff}) < UserCap
      /\ opened' = opened \cup {b}
      /\ UNCHANGED <<now, raw, rollup, sent, late, lastFold, maxGap>>
Committed(b) ==
  /\ b \in opened
  /\ opened' = opened \ {b}
  /\ raw' = raw \cup {b}
  /\ sent' = sent \cup {b}
  /\ UNCHANGED <<now, rollup, late, lastFold, maxGap>>
RolledBack(b) ==
  /\ b \in opened
  /\ opened' = opened \ {b}
  /\ UNCHANGED <<now, raw, rollup, sent, late, lastFold, maxGap>>

\* fold_read_from: the retention cutoff, or the oldest beacon behind it.
ReadFrom ==
  LET oldest == Min({b.ts : b \in raw})
  IN  IF raw # {} /\ oldest <= Cutoff THEN oldest ELSE Cutoff

\* Mutant: a bucket is folded half way through its span.
ClosedByMidpoint(w, s) == 2 * s + w <= 2 * now
\* _fold: every bucket whose span is over and which the window reads whole.
Closed(w, s) == s + w <= now
Foldable(w) ==
  {[width |-> w, start |-> StartOf(b.ts, w), grain |-> b.grain,
    members |-> InBucket({r \in raw : r.ts >= ReadFrom}, w, StartOf(b.ts, w), b.grain)] :
     b \in {r \in raw : /\ r.ts >= ReadFrom
                        /\ Closed(w, StartOf(r.ts, w))
                        /\ StartOf(r.ts, w) >= ReadFrom}}
SameKey(r, q) == r.width = q.width /\ r.start = q.start /\ r.grain = q.grain
\* The DELETE of what is not closed, then INSERT ... ON CONFLICT DO NOTHING.
Folded ==
  LET kept == {r \in rollup : Closed(r.width, r.start)}
  IN  kept \cup {r \in UNION {Foldable(w) : w \in Widths} : \A q \in kept : ~SameKey(r, q)}

\* rebuild_web_metrics_rollup: fold and prune in one transaction.
Fold ==
  /\ rollup' = Folded
  /\ raw' = {b \in raw : b.ts >= Cutoff}
  /\ late' = late \cup opened
  /\ lastFold' = now
  /\ UNCHANGED <<now, opened, sent, maxGap>>

\* Time passes, in units of a fold interval: a transaction may be open when a
\* unit begins, but none stays open through a whole one.
Pass ==
  /\ now < MaxTime
  /\ \A b \in opened : b.ts = now
  /\ now' = now + 1
  /\ maxGap' = Max({maxGap, now + 1 - lastFold})
  /\ UNCHANGED <<opened, raw, rollup, sent, late, lastFold>>

MetricsNext ==
  \/ \E g \in Grains : Receive(g)
  \/ \E b \in opened : Committed(b) \/ RolledBack(b)
  \/ Fold \/ Pass

MetricsSpec == MetricsInit /\ [][MetricsNext]_metricsVars

(***************************************************************************)
(* The readout of a range too wide for the raw rows: stored buckets from   *)
(* the one that holds the start of the range, and the raw tail behind the  *)
(* newest of them.                                                         *)
(***************************************************************************)
StoredRows(w, since) == {r \in rollup : r.width = w /\ r.start >= StartOf(since, w)}
NewestEnd(w) == Max({r.start + w : r \in {q \in rollup : q.width = w}})
HasStored(w) == \E r \in rollup : r.width = w
\* Mutant: the tail begins with the newest stored bucket.
TailFromMidpoint(w, since) ==
  Max({since, Cutoff} \cup IF HasStored(w) THEN {NewestEnd(w) - w} ELSE {})
TailFrom(w, since) ==
  Max({since, Cutoff} \cup IF HasStored(w) THEN {NewestEnd(w)} ELSE {})
Tail(w, since) == {b \in raw : b.ts >= TailFrom(w, since)}

(***************************************************************************)
(* Properties.                                                             *)
(***************************************************************************)
\* A stored bucket is never revised, so it has to be whole when it is stored:
\* it holds every beacon of its span and grain but those whose transaction
\* was still open, whatever stalls and prunings went before
\* (ingest_rollup_web_metrics.py:32-110, web_metrics.py:316-343).
StoredBucketWhole ==
  \A r \in rollup :
    InBucket(sent, r.width, r.start, r.grain) \ late \subseteq r.members

\* A wide readout counts no beacon twice and, as long as no more than a fold
\* interval passes between folds, every beacon of its range: that is what the
\* length of the retention is chosen for (api_web_metrics.py:225-281,
\* web_metrics.py:122-135).
WideReadoutExact ==
  \A w \in Widths, since \in 0..now :
    LET stored_ == UNION {r.members : r \in StoredRows(w, since)}
    IN  /\ stored_ \cap Tail(w, since) \subseteq late
        /\ maxGap <= FoldInterval =>
             {b \in sent \ late : b.ts >= since} \subseteq stored_ \cup Tail(w, since)

(***************************************************************************)
(* Why: the inductive invariant.  What the last fold pruned is older than  *)
(* the raw rows it kept; what it found open is late; and while the folds   *)
(* keep their interval every bucket that was over has its row.             *)
(***************************************************************************)
PrunedTo == lastFold - RawKeep
RowOf(r, b, w) == r.width = w /\ r.start = StartOf(b.ts, w) /\ r.grain = b.grain
RowFits(r) ==
  /\ r.start + r.width <= lastFold
  /\ \A b \in r.members : b.grain = r.grain /\ StartOf(b.ts, r.width) = r.start
NoneUnfolded ==
  \A b \in sent \ late, w \in Widths :
    StartOf(b.ts, w) + w <= lastFold => \E r \in rollup : RowOf(r, b, w)
MetricsInv ==
  /\ lastFold \in 0..now /\ maxGap \in Nat /\ now - lastFold <= maxGap
  /\ \A b \in opened : b.ts >= now - 1 /\ (b.ts < lastFold => b \in late)
  /\ \A b \in raw : b.ts >= PrunedTo
  /\ \A b \in sent \ raw : b.ts < PrunedTo
  /\ \A r \in rollup : RowFits(r)
  /\ StoredBucketWhole
  /\ maxGap <= FoldInterval => NoneUnfolded
=============================================================================
