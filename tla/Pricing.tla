------------------------------ MODULE Pricing ------------------------------
(***************************************************************************)
(* What a record costs: the rate tables (pricing_load.py, meter_tables.py),*)
(* the resolver (pricing.py, model_names.py), the instants at which a      *)
(* pair's rates change (rate_boundaries.py) and the fingerprint by which a *)
(* reprice tells whether anything a pair depends on has moved              *)
(* (rate_fingerprint.py).  The tables change by appended entries, and by   *)
(* hand corrections of what is there.                                      *)
(*                                                                         *)
(* An id is [ns, name, tail]: a namespace, a model, and what follows the   *)
(* model.  The five rates of an entry are one number.                      *)
(***************************************************************************)
EXTENDS Integers, Sequences, FiniteSets, SequencesExt, FiniteSetsExt

CONSTANTS
  Records,       \* stored records: [id, host, ts, window]
  ModelKeys,     \* keys of the models table, as ids
  Tracked,       \* keys of openrouter.models, as ids
  VendorHost,    \* vendor_host of each tracked key, or NoHost
  Rows,          \* <<tracked key, host>> pairs that may get a provider row
  VendorPrefixes,\* openrouter.vendor.prefixes
  Claude,        \* model names of the claude family
  Families,      \* sets of names, each a tier fallback, in the code's order
  DefaultName,   \* claude-opus-4-7
  NoHost, NoRate,
  Rates, Schedules, Thresholds,
  First,         \* histories the rows start with
  Horizon,       \* bound: instants 1..Horizon
  MaxEdits       \* bound: changes of the tables

VARIABLES
  history,       \* the entries of a models-table key or provider row
  meter,         \* long_context_meters: threshold of a key, 0 for none
  charged,       \* records_price: fingerprint and price of each record
  edits

pricingVars == <<history, meter, charged, edits>>

Untimed == 0
Instants == 1..Horizon
Begins == {0} \cup 2..Horizon   \* an entry's from; 0 is null
NoSchedule == <<>>
Entries == [from : Begins, rate : Rates, schedule : Schedules \cup {NoSchedule}]
ModelRows == ModelKeys \X {NoHost}   \* the models table
Pairs == {<<r.id, r.host>> : r \in Records}
Table == ModelRows \cup Rows

(***************************************************************************)
(* A row's history as rates, dated windows, start and schedules.  The      *)
(* newest entry is the list price; each earlier one ends where its         *)
(* successor starts.                                                       *)
(***************************************************************************)
HistoryOK(k, h) ==
  /\ \A i \in 1..Len(h) - 1 : h[i].from < h[i + 1].from /\ h[i].rate # h[i + 1].rate
  /\ k \in ModelRows => h # <<>> /\ h[1].from = 0 /\ \A i \in DOMAIN h : h[i].schedule = NoSchedule

ListRate(k) == Last(history[k]).rate
WindowEnds(k) == {history[k][i].from : i \in 2..Len(history[k])}
Start(k) == history[k][1].from
NotBegun(k, ts) == ts # Untimed /\ ts < Start(k)

\* The index of the entry in force, as the windows that ended by ts tell it.
EntryAt(k, ts) == 1 + Cardinality({i \in 2..Len(history[k]) : history[k][i].from <= ts})
InWindow(k, ts) == IF ts = Untimed THEN ListRate(k) ELSE history[k][EntryAt(k, ts)].rate

\* A week is two days of two hours; a window from an hour to itself stands
\* for one that names no hours.
Day(ts) == (ts \div 2) % 2
Hour(ts) == ts % 2
Covers(w, ts) ==
  /\ Day(ts) \in w.days
  /\ \/ w.start = w.end
     \/ w.start < w.end /\ w.start <= Hour(ts) /\ Hour(ts) < w.end
     \/ w.start > w.end /\ (Hour(ts) >= w.start \/ Hour(ts) < w.end)
Scheduled(schedule, ts, rate) ==
  LET i == SelectInSeq(schedule, LAMBDA w : Covers(w, ts))
  IN  IF i = 0 THEN rate ELSE schedule[i].rate

(***************************************************************************)
(* Spellings.                                                              *)
(***************************************************************************)
Normalise(id) == IF id.name \in Claude THEN [id EXCEPT !.ns = ""] ELSE id
IsFree(id) == id.tail = ":free" \/ id.ns = "stealth"

\* A key matches an id that adds nothing, or only a snapshot or a bracket.
Tolerated == {"-date", "@"}
Matches(key, norm) ==
  /\ key.ns = norm.ns /\ key.name = norm.name
  /\ key.tail = norm.tail \/ (key.tail = "" /\ norm.tail \in Tolerated)
Longest(keys) ==
  IF \E k \in keys : k.tail # "" THEN CHOOSE k \in keys : k.tail # "" ELSE CHOOSE k \in keys : TRUE

BareForm(t) == IF t.ns \in VendorPrefixes THEN [t EXCEPT !.ns = ""] ELSE t
BareForms == {BareForm(t) : t \in {t \in Tracked : BareForm(t).ns = ""}}
TrackedAs(form) == CHOOSE t \in Tracked : BareForm(t) = form

LongestMatch(keys, norm) ==
  LET found == {k \in keys : Matches(k, norm)} IN IF found = {} THEN {} ELSE {Longest(found)}
MatchKey(norm) == LongestMatch(ModelKeys, norm) \X {NoHost}
VendorMatch(norm) == LongestMatch(BareForms, norm)
FoldVendorPrefix(norm) ==
  LET bare == [norm EXCEPT !.ns = ""]
  IN  IF norm.ns \in VendorPrefixes /\ VendorMatch(bare) # {} THEN bare ELSE norm

HasRow(k) == k \in Rows /\ history[k] # <<>>
VendorRow(t) == <<t, VendorHost[t]>>
\* The row of a bare form, and of what _vendor_match finds.
VendorRows(forms) == {r \in {VendorRow(TrackedAs(f)) : f \in forms} : HasRow(r)}
MatchedRow(norm) == VendorRows(VendorMatch(norm))
ExactRow(norm) == VendorRows({norm} \cap BareForms)

\* The spellings a provider row is looked up by, in order; the first that
\* has a row decides, also when the row has not begun.
Spellings(norm) ==
  << norm,
     IF norm.tail = "-date" THEN [norm EXCEPT !.tail = "-mmdd"] ELSE norm,
     IF norm.tail = ":tier" THEN [norm EXCEPT !.tail = ""] ELSE norm >>
AsTracked(id) == IF id \in BareForms THEN TrackedAs(id) ELSE id
ProviderKey(norm, host) ==
  LET s == Spellings(norm)
      i == SelectInSeq(s, LAMBDA id : HasRow(<<AsTracked(id), host>>))
  IN  IF host = NoHost \/ i = 0 THEN {} ELSE {<<AsTracked(s[i]), host>>}

(***************************************************************************)
(* The resolver: what is charged, under which schedule.                    *)
(***************************************************************************)
Resolution(rate, schedule, confidence) ==
  [rate |-> rate, schedule |-> schedule, confidence |-> confidence]

\* The merged view: a models-table row, or a tracked vendor row.
MergedRows(names) ==
  {k \in ModelRows : k[1].name \in names /\ k[1].ns = "" /\ k[1].tail = ""}
    \cup VendorRows({f \in BareForms : f.name \in names /\ f.tail = ""})
\* _latest: members are listed by version, oldest first.
Latest(family) ==
  LET ranks == {i \in DOMAIN family : MergedRows({family[i]}) # {}}
  IN  IF ranks = {} THEN NoRate
      ELSE ListRate(CHOOSE k \in MergedRows({family[CHOOSE i \in ranks : \A j \in ranks : j <= i]}) : TRUE)
TierRate(norm) ==
  LET i == SelectInSeq(Families, LAMBDA f : norm.name \in f.says /\ Latest(f.members) # NoRate)
  IN  IF i = 0 THEN NoRate ELSE Latest(Families[i].members)
DefaultRate ==
  LET rows == MergedRows({DefaultName}) IN IF rows = {} THEN NoRate ELSE ListRate(CHOOSE k \in rows : TRUE)

Resolve(id, ts, host) ==
  LET norm == FoldVendorPrefix(Normalise(id))
      begun(rows) == {k \in rows : ~NotBegun(k, ts)}
      provider == begun(ProviderKey(norm, host))
      key == MatchKey(norm)
      vendor == begun(MatchedRow(norm))
      the(rows) == CHOOSE k \in rows : TRUE
  IN  IF IsFree(id) \/ IsFree(Normalise(id)) THEN Resolution(0, NoSchedule, "exact")
      ELSE IF provider # {} THEN
        Resolution(InWindow(the(provider), ts),
                   IF ts = Untimed THEN NoSchedule
                   ELSE history[the(provider)][EntryAt(the(provider), ts)].schedule, "exact")
      ELSE IF key # {} THEN Resolution(InWindow(the(key), ts), NoSchedule, "exact")
      ELSE IF vendor # {} THEN Resolution(InWindow(the(vendor), ts), NoSchedule, "exact")
      ELSE IF TierRate(norm) # NoRate THEN Resolution(TierRate(norm), NoSchedule, "tier")
      ELSE Resolution(DefaultRate, NoSchedule, "default")

Metered(id) == Normalise(id) \in DOMAIN meter /\ meter[Normalise(id)] > 0
\* What a reprice writes: the rate a record is charged and its meter flag.
ChargeOf(id, ts, host, window) ==
  LET r == Resolve(id, ts, host)
  IN  << IF ts = Untimed THEN r.rate ELSE Scheduled(r.schedule, ts, r.rate),
         Metered(id) /\ window > meter[Normalise(id)] >>

(***************************************************************************)
(* The instants at which the resolution of a pair may change.              *)
(***************************************************************************)
\* Mutant: what prices a pair before its row begins is forgotten.
BoundariesOfRow(id, host) ==
  LET norm == FoldVendorPrefix(Normalise(id))
      provider == ProviderKey(norm, host)
  IN  IF provider # {} THEN UNION {WindowEnds(k) \cup ({Start(k)} \ {0}) : k \in provider}
      ELSE IF MatchKey(norm) # {} THEN UNION {WindowEnds(k) : k \in MatchKey(norm)}
      ELSE UNION {WindowEnds(k) \cup ({Start(k)} \ {0}) : k \in ExactRow(norm)}
Boundaries(id, host) ==
  LET norm == FoldVendorPrefix(Normalise(id))
      begin(k) == {Start(k)} \ {0}
      moves(k) == WindowEnds(k) \cup begin(k)
      fallback == IF MatchKey(norm) # {} THEN UNION {WindowEnds(k) : k \in MatchKey(norm)}
                  ELSE UNION {moves(k) : k \in ExactRow(norm)}
      provider == ProviderKey(norm, host)
  IN  IF IsFree(id) \/ IsFree(Normalise(id)) THEN {}
      ELSE IF provider = {} THEN fallback
      ELSE UNION {moves(k) \cup {b \in fallback : b < Start(k)} : k \in provider}

(***************************************************************************)
(* The cache view: records of a pair summed per rate epoch and meter flag, *)
(* each group priced at one instant of its epoch.  A pair whose boundaries *)
(* were not listed (it was not in the rollups yet) falls back to every     *)
(* instant at which any rate changes.                                      *)
(***************************************************************************)
RateEpochs ==
  UNION {WindowEnds(k) \cup (IF k \in Rows /\ history[k] # <<>> THEN {Start(k)} \ {0} ELSE {}) : k \in Table}
\* Just before the first change; the list price when there is none.
BeforeAll(changes) == IF changes = {} THEN Untimed ELSE Min(changes) - 1
InEpoch(changes, ts) ==
  LET passed == {c \in changes : c <= ts} IN IF passed = {} THEN BeforeAll(changes) ELSE Max(passed)
Representative(id, host, ts, listed) ==
  IF ts = Untimed THEN Untimed
  ELSE IF ~listed THEN InEpoch(RateEpochs, ts)
  ELSE IF Boundaries(id, host) = {} THEN BeforeAll(RateEpochs)
  ELSE InEpoch(Boundaries(id, host), ts)

\* Records of one pair, named by their instants, as a reprice left them.
StoredCost(id, host, times) == MapThenSumSet(LAMBDA ts : ChargeOf(id, ts, host, 0)[1], times)
\* A scheduled row's buckets are scaled to what is stored.
BucketCost(id, host, at, times) ==
  LET res == Resolve(id, at, host)
  IN  IF res.schedule # NoSchedule THEN StoredCost(id, host, times) ELSE Cardinality(times) * res.rate

(***************************************************************************)
(* The fingerprint of a pair: everything its price is derived from.        *)
(***************************************************************************)
\* Mutant: the fingerprint leaves the schedules out.
ProviderDocRates(rows) == {<<k, [i \in DOMAIN history[k] |-> [history[k][i] EXCEPT !.schedule = NoSchedule]]>> : k \in rows}
ProviderDoc(rows) == {<<k, history[k]>> : k \in rows}
VendorDoc(norm) ==
  {<<k, [i \in DOMAIN history[k] |-> <<history[k][i].from, history[k][i].rate>>]>> : k \in MatchedRow(norm)}
ModelDoc(norm) == {<<k, history[k]>> : k \in MatchKey(norm)}
Fingerprint(id, host) ==
  LET norm == FoldVendorPrefix(Normalise(id))
      free == IsFree(id) \/ IsFree(Normalise(id))
  IN  IF free THEN <<meter>>
      ELSE << meter, norm, VendorDoc(norm), ProviderDoc(ProviderKey(norm, host)), ModelDoc(norm),
              IF MatchKey(norm) = {} THEN TierRate(norm) ELSE NoRate, DefaultRate >>

Priced(r) == [fingerprint |-> Fingerprint(r.id, r.host), price |-> ChargeOf(r.id, r.ts, r.host, r.window)]

(***************************************************************************)
(* The document moves.                                                     *)
(***************************************************************************)
PricingTypeOK ==
  /\ \A k \in Table : history[k] \in Seq(Entries) /\ HistoryOK(k, history[k])
  /\ \A k \in DOMAIN meter : meter[k] \in Thresholds \cup {0}

PricingInit ==
  /\ history \in [Table -> First]
  /\ \A k \in Table : HistoryOK(k, history[k])
  /\ meter = [k \in ModelKeys \cup Tracked |-> 0]
  /\ charged = [r \in Records |-> Priced(r)]
  /\ edits = 0

Set(k, h) ==
  /\ HistoryOK(k, h)
  /\ edits < MaxEdits /\ edits' = edits + 1
  /\ history' = [history EXCEPT ![k] = h]
  /\ UNCHANGED <<meter, charged>>

AppendEntry(k) == \E e \in Entries : (history[k] # <<>> => e.from > Last(history[k]).from) /\ Set(k, Append(history[k], e))
CorrectEntry(k) == \E i \in DOMAIN history[k], e \in Entries : e # history[k][i] /\ Set(k, [history[k] EXCEPT ![i] = e])
MoveMeter(k) ==
  /\ edits < MaxEdits /\ edits' = edits + 1
  /\ \E t \in (Thresholds \cup {0}) \ {meter[k]} : meter' = [meter EXCEPT ![k] = t]
  /\ UNCHANGED <<history, charged>>

\* A reprice writes the records whose fingerprint is not the current one.
Reprice ==
  /\ charged' = [r \in Records |->
       IF charged[r].fingerprint = Fingerprint(r.id, r.host) THEN charged[r] ELSE Priced(r)]
  /\ UNCHANGED <<history, meter, edits>>

PricingNext ==
  \/ Reprice
  \/ \E k \in Table : AppendEntry(k) \/ CorrectEntry(k)
  \/ \E k \in DOMAIN meter : MoveMeter(k)

PricingSpec == PricingInit /\ [][PricingNext]_pricingVars

(***************************************************************************)
(* Properties.                                                             *)
(***************************************************************************)
PricedAlike(id, host) ==
  \A ts \in Instants \ {Horizon} :
    ts + 1 \notin Boundaries(id, host) => Resolve(id, ts, host) = Resolve(id, ts + 1, host)

\* The buckets of a model, priced from summed tokens, add up to the stored
\* costs of its records once these are repriced: no epoch spans a change of
\* what its records are charged, also when a row begins before, after or at
\* the windows of what was charged before it, and when an ingest adds the pair
\* between the statement that lists the pairs and the one that sums
\* (api_common.py:20-24, 126-148, api_cache.py:62-84, rate_boundaries.py:15-74).
\* Not claimed of a listed id that reaches its vendor row only by the suffix
\* rules: see EpochsPriceAlike.
BucketsReconcile ==
  \A pair \in Pairs, listed \in BOOLEAN :
    LET id == pair[1]
        host == pair[2]
        norm == FoldVendorPrefix(Normalise(id))
        at == [ts \in Instants \cup {Untimed} |-> Representative(id, host, ts, listed)]
        epoch(r) == {ts \in DOMAIN at : at[ts] = r}
    IN  (listed => MatchedRow(norm) = ExactRow(norm)) =>
          \A r \in Range(at) : BucketCost(id, host, r, epoch(r)) = StoredCost(id, host, epoch(r))

\* Between neighbouring boundaries every pair is priced alike: "each record must be grouped by the boundaries of
\* its own (model, provider) rate row" (api_common.py:20-24).  A dated id is
\* priced by the vendor row its bare form matches, whose changes are not among
\* its boundaries (rate_boundaries.py:55-72).
EpochsPriceAlike == \A pair \in Pairs : PricedAlike(pair[1], pair[2])

\* A record that carries the pair's current fingerprint carries the price the
\* tables give it, at its time, with its meter: the reprice that passes over
\* equal fingerprints leaves no record behind, whatever entries were appended
\* or corrected since (rate_fingerprint.py:165-216, ingest_rate_state.py:77-117).
FingerprintTells ==
  \A r \in Records :
    charged[r].fingerprint = Fingerprint(r.id, r.host) =>
      charged[r].price = ChargeOf(r.id, r.ts, r.host, r.window)
=============================================================================
