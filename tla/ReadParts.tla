------------------------------ MODULE ReadParts -----------------------------
(***************************************************************************)
(* The parts of claudit that read, each instantiated for itself: the bytes *)
(* of objects behind their caches, the dashboard, browser telemetry, the   *)
(* listing of buckets.                                                     *)
(***************************************************************************)
EXTENDS Integers, Sequences, TLC

CONSTANTS
  \* ObjectBytes
  Objects, Contents, SizeOf, Gone, Fetchers, Readers, DiskCap, LruCap, Starts, MaxChanges,
  Spans, Today, MinBins, Top, MaxCommits,                         \* Dashboard
  Grains, Widths, FoldInterval, UserCap, MaxTime, MaxSent,        \* WebMetrics
  BucketList, PrefixesOf, KeysIn, SidecarFor, OwnType, MaxListed  \* Listing

VARIABLES
  bucket, row, disk, fetcher, reader, lru, since, changes,
  span, store, rollups, run, answers, reading, entry, commits,
  now, opened, raw, rollup, sent, late, lastFold, maxGap,
  mode, objects, away, phase, unit, found, todo, fetched, files, gone, lost, events, newest

bytesVars == <<bucket, row, disk, fetcher, reader, lru, since, changes>>
dashboardVars == <<span, store, rollups, run, answers, reading, entry, commits>>
metricsVars == <<now, opened, raw, rollup, sent, late, lastFold, maxGap>>
listVars == <<mode, objects, away, phase, unit, found, todo, fetched, files, gone, lost,
              events, newest>>

\* One short content and longer ones of one length.
Lengths == [c \in Contents |-> IF c = 1 THEN 1 ELSE 2]
\* Every object holds the same at first.
EqualStarts == {[o \in Objects |-> c] : c \in Contents}

Used(session, project, ts, modelNumber, host, cost, fresh, created, split) ==
  [session |-> session, project |-> project, ts |-> ts, model |-> modelNumber, host |-> host,
   cost |-> cost, fresh |-> fresh, created |-> created, split |-> split]
UsageRecords ==
  {Used(1, 1, 2, 1, 0, 3, 1, 2, 1), Used(1, 1, 9, 2, 0, 2, 1, 0, 0), Used(2, 2, 9, 1, 1, 0, 4, 0, 0),
   Used(2, 3, 10, 1, 1, 1, 1, 1, 1), Used(3, 2, -1, 1, 0, 7, 1, 0, 0)}
ToolCalls == {[project |-> 1, ts |-> 9, model |-> 1, added |-> 2]}
BucketCandidates == <<1, 2, 4>>

\* Two buckets of one prefix each, the second's transcript naming its own type.
Prefixes == [b1 |-> <<"b1/p">>, b2 |-> <<"b2/p">>]
TwoBuckets == <<"b1", "b2">>
PrefixKeys == ("b1/p" :> <<"t1", "s1">>) @@ ("b2/p" :> <<"t2", "s2">>)
Sidecars == [t1 |-> "s1", t2 |-> "s2"]

O == INSTANCE ObjectBytes
V == INSTANCE Dashboard WITH Usage <- UsageRecords, Calls <- ToolCalls, Hour <- 2,
       Candidates <- BucketCandidates, generation <- answers
M == INSTANCE WebMetrics
I == INSTANCE Listing WITH Buckets <- BucketList, UnitsOf <- PrefixesOf, KeysOf <- KeysIn,
       SidecarOf <- SidecarFor, InBand <- OwnType

\* Buckets have a width, of which one is the greatest; times are numbers.
ASSUME MetricsAssumption ==
  /\ Widths \subseteq Nat \ {0} /\ \E w \in Widths : \A x \in Widths : x <= w
  /\ FoldInterval \in Nat /\ MaxTime \in Nat

\* No content marks an absence; at first every object has one.
ASSUME BytesAssumption == Gone \notin Contents /\ Starts \subseteq [Objects -> Contents]

\* A prefix lies in one bucket, a key in one prefix; a sidecar is no transcript;
\* and no name is one of a mark's.
ASSUME ListingAssumption ==
  /\ BucketList \in Seq(I!ToSet(BucketList)) /\ BucketList # <<>>
  /\ PrefixesOf \in [I!ToSet(BucketList) -> Seq(DOMAIN KeysIn)]
  /\ KeysIn \in [DOMAIN KeysIn -> Seq(I!ObjectKeys)]
  /\ SidecarFor \in [DOMAIN SidecarFor -> I!ObjectKeys \ DOMAIN SidecarFor]
  /\ DOMAIN SidecarFor \subseteq I!ObjectKeys
  /\ \A p \in DOMAIN KeysIn :
       /\ p \notin I!ToSet(BucketList) /\ \E b \in I!ToSet(BucketList) : p \in I!ToSet(PrefixesOf[b])
       /\ \A b, c \in I!ToSet(BucketList) :
            p \in I!ToSet(PrefixesOf[b]) /\ p \in I!ToSet(PrefixesOf[c]) => b = c
  /\ \A p, q \in DOMAIN KeysIn : p # q => I!ToSet(KeysIn[p]) \cap I!ToSet(KeysIn[q]) = {}
  /\ "none" \notin I!ToSet(BucketList) \cup DOMAIN SidecarFor
  /\ I!Endpoint \notin I!ToSet(BucketList)
  /\ \A mark \in I!States : mark \notin Seq(DOMAIN KeysIn \cup I!ObjectKeys)
=============================================================================
