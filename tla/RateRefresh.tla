---------------------------- MODULE RateRefresh ----------------------------
(***************************************************************************)
(* The hourly refresh of one provider row (scripts/ci/refresh_*.py): what  *)
(* the site lists now, what its price log says happened, and the history   *)
(* kept in pricing.json.  A row is rewritten from the log when the log     *)
(* agrees with the listing, and else gets an entry at detection.  The rate *)
(* of an entry comes from either; its search price is only ever sampled.   *)
(*                                                                         *)
(* A history is its occurrences in time order: grouping equal states under *)
(* one entry (PricingRows) changes neither what it prices nor what loads.  *)
(***************************************************************************)
EXTENDS Integers, Sequences, FiniteSets, SequencesExt

CONSTANTS
  RowRates, Searches,   \* prices of a token and of a search
  Floor,                \* HISTORY_FLOOR
  Alternation,          \* the seven days of refresh_alternation
  MaxSecond, MaxMoves   \* bounds: time, and moves of the site

VARIABLES
  second,     \* the refresher's clock
  truth,      \* what the site charged since when: [at, rate]
  published,  \* how many of those its log shows
  listing,    \* which of those it lists now
  search,     \* the listed search price
  hostRow,    \* the stored history
  fetched,    \* provider_rates_fetched
  settled,    \* what the last run worked from, if it held nothing back
  moved       \* bound counter

refreshVars == <<second, truth, published, listing, search, hostRow, fetched, settled, moved>>

Null == 0     \* a row without a first instant
NoRun == <<>>
RowEntries == [from : 0..MaxSecond, rate : RowRates, search : Searches]

RefreshTypeOK ==
  /\ second \in 1..MaxSecond /\ fetched \in 0..MaxSecond
  /\ \A i \in DOMAIN truth : truth[i].at \in 1..second /\ truth[i].rate \in RowRates
  /\ published \in 0..Len(truth) /\ listing \in 1..Len(truth)
  /\ search \in Searches
  /\ hostRow \in Seq(RowEntries)

RefreshInit ==
  /\ second = 1
  /\ \E r \in RowRates : truth = <<[at |-> 1, rate |-> r]>>
  /\ published = 1 /\ listing = 1 /\ search = 0
  /\ hostRow \in {<<>>} \cup {<<[from |-> Null, rate |-> r, search |-> 0]>> : r \in RowRates}
  /\ fetched = 0
  /\ settled = NoRun
  /\ moved = 0

(***************************************************************************)
(* Histories.                                                              *)
(***************************************************************************)
Before(h, at) == SelectSeq(h, LAMBDA e : e.from < at)
UpTo(h, at) == SelectSeq(h, LAMBDA e : e.from <= at)
After(h, at) == SelectSeq(h, LAMBDA e : e.from > at)
State(e) == [rate |-> e.rate, search |-> e.search]
\* _priced_history: the states without repetitions.
Repeats(h, i) == i > 1 /\ State(h[i - 1]) = State(h[i])
PricedHistory(h) ==
  LET kept == {i \in DOMAIN h : ~Repeats(h, i)}
  IN  [n \in 1..Cardinality(kept) |-> h[CHOOSE i \in kept : Cardinality({j \in kept : j <= i}) = n]]
\* _history: instants increase and none is after provider_rates_fetched.
Loads(h, at) ==
  /\ \A i \in 1..Len(h) - 1 : h[i].from < h[i + 1].from
  /\ \A i \in DOMAIN h : h[i].from <= at

(***************************************************************************)
(* An unjoined host: append at detection, unless the newest entry is not   *)
(* before it or the price comes back within a week.                        *)
(***************************************************************************)
Alternates(h, listed, at) ==
  \E i \in 1..Len(h) - 1 : State(h[i]) = State(listed) /\ h[i].from # Null /\ h[i].from > at - Alternation
\* Mutant: an entry as new as the detection does not block.
BlockedByAlternation(h, listed, at) == h # <<>> /\ Alternates(h, listed, at)
Blocked(h, listed, at) ==
  /\ h # <<>> /\ State(Last(h)) # State(listed)
  /\ (Last(h).from # Null /\ Last(h).from >= at) \/ Alternates(h, listed, at)
AppendSampled(h, listed, at) ==
  IF (h # <<>> /\ State(Last(h)) = State(listed)) \/ Blocked(h, listed, at) THEN h
  ELSE Append(h, [listed EXCEPT !.from = at])

(***************************************************************************)
(* A joined host: rewrite from the log through detection, keep the search  *)
(* prices sampled so far, then bring in the one listed now.                *)
(***************************************************************************)
\* _series_in_force and entries_for_series.
InForce(at) ==
  LET points == SelectSeq(SubSeq(truth, 1, published), LAMBDA p : p.at <= at)
      states == [i \in DOMAIN points |-> [from |-> points[i].at, rate |-> points[i].rate, search |-> 0]]
  IN  PricedHistory(states)
Floored(log) ==
  LET k == Len(UpTo(log, Floor)) IN IF k = 0 THEN log ELSE SubSeq(log, k, Len(log))

EarlierStart(old, log) == IF old < log THEN old ELSE log      \* Null is earliest
SearchBefore(h, at) == IF UpTo(h, at) = <<>> THEN 0 ELSE Last(UpTo(h, at)).search
\* _sampled_changes: the instants before detection at which it moved.
SampledChanges(h, at) ==
  {i \in DOMAIN h : h[i].from < at /\ h[i].search # IF i = 1 THEN 0 ELSE h[i - 1].search}
\* Mutant: the rewrite forgets the sampled searches.
OverlayNothing(log, h, at) == log
\* _overlay_sampled: every instant of either, the log's rate, the sampled search.
Overlay(log, h, at) ==
  LET changes == {h[i].from : i \in SampledChanges(h, at)}
      instants == {log[i].from : i \in DOMAIN log} \cup {c \in changes : c > log[1].from}
      sampled(t) == SearchBefore(Before(h, at), t)
  IN  [n \in 1..Cardinality(instants) |->
         LET t == CHOOSE t \in instants : Cardinality({u \in instants : u <= t}) = n
         IN  [Last(UpTo(log, t)) EXCEPT !.from = t, !.search = sampled(t)]]
Rewrite(h, log, at) ==
  Overlay([log EXCEPT ![1].from = EarlierStart(h[1].from, @)], h, at)

SetSearch(h, at, s) == [i \in DOMAIN h |-> IF h[i].from >= at THEN [h[i] EXCEPT !.search = s] ELSE h[i]]
\* _append_sampled_change, over a history of which the first "kept" entries
\* are stored as they are.
Deferred(h, kept, at) == \E i \in 1..kept : h[i].from # Null /\ h[i].from >= at
WithSampled(h, kept, s, at) ==
  IF Last(h).search = s \/ Deferred(h, kept, at) THEN h
  ELSE IF \E i \in kept + 1..Len(h) : h[i].from = at THEN SetSearch(h, at, s)
  ELSE IF UpTo(h, at) = <<>> THEN SetSearch(h, Null, s)
  ELSE UpTo(h, at) \o <<[Last(UpTo(h, at)) EXCEPT !.from = at, !.search = s]>> \o SetSearch(After(h, at), at, s)

AppendLogged(h, log, listed, at) ==
  LET rewritten == Rewrite(h, log, at)
      moves == PricedHistory(rewritten) # PricedHistory(h)
      result == IF moves THEN WithSampled(rewritten, 0, listed.search, at)
                ELSE WithSampled(h, Len(h), listed.search, at)
  IN  IF h = <<>> THEN WithSampled(Floored(log), 0, listed.search, at)
      ELSE IF PricedHistory(result) = PricedHistory(h) THEN h ELSE result
\* A first import leaves out what is before the floor; the next run's rewrite,
\* from the complete log, brings it in.
HeldBack(h, log, listed, at) ==
  \/ h = <<>> /\ Floored(log) # log
  \/ /\ h # <<>> /\ PricedHistory(Rewrite(h, log, at)) = PricedHistory(h)
     /\ Last(h).search # listed.search /\ Deferred(h, Len(h), at)

(***************************************************************************)
(* A run.  The log is an input that may be missing; it is joined only when *)
(* its last state in force is the listed price.                            *)
(***************************************************************************)
Listed == [from |-> Null, rate |-> truth[listing].rate, search |-> search]
Joined(readable, at) ==
  readable /\ InForce(at) # <<>> /\ Last(InForce(at)).rate = Listed.rate
Refreshed(readable, at) ==
  IF Joined(readable, at) THEN AppendLogged(hostRow, InForce(at), Listed, at) ELSE AppendSampled(hostRow, Listed, at)
Holds(readable, at) ==
  IF Joined(readable, at) THEN HeldBack(hostRow, InForce(at), Listed, at) ELSE Blocked(hostRow, Listed, at)
FetchedBy(at) == IF at > fetched THEN at ELSE fetched

\* Runners' clocks differ by up to a second; a load that fails refuses.
Run(readable, at) ==
  LET h == Refreshed(readable, at)
  IN  /\ Loads(hostRow, fetched) /\ Loads(h, FetchedBy(at))
      /\ hostRow' = h
      /\ fetched' = IF h = hostRow THEN fetched ELSE FetchedBy(at)
      /\ settled' = IF Holds(readable, at) THEN NoRun ELSE <<readable, at>>
      /\ UNCHANGED <<second, truth, published, listing, search, moved>>

\* The site: a new price, the log catching up, a listing that lags or
\* leads it, another search price.
Moves == moved < MaxMoves /\ moved' = moved + 1 /\ settled' = NoRun
PriceMoves(r) ==
  /\ Moves /\ r # Last(truth).rate /\ Last(truth).at < second
  /\ truth' = Append(truth, [at |-> second, rate |-> r])
  /\ listing' \in {listing, Len(truth) + 1}
  /\ published' \in {published, Len(truth) + 1}
  /\ UNCHANGED <<second, search, hostRow, fetched>>
CatchesUp ==
  /\ settled' = NoRun /\ UNCHANGED moved
  /\ published' \in published..Len(truth) /\ listing' \in listing..Len(truth)
  /\ <<published, listing>>' # <<published, listing>>
  /\ UNCHANGED <<second, truth, search, hostRow, fetched>>
SearchMoves(s) ==
  /\ Moves /\ s # search /\ search' = s
  /\ UNCHANGED <<second, truth, published, listing, hostRow, fetched>>
SecondPasses ==
  /\ second < MaxSecond /\ second' = second + 1
  /\ UNCHANGED <<truth, published, listing, search, hostRow, fetched, settled, moved>>

RefreshNext ==
  \/ \E readable \in BOOLEAN, at \in {second, second - 1} \ {0} : Run(readable, at)
  \/ \E r \in RowRates : PriceMoves(r)
  \/ \E s \in Searches : SearchMoves(s)
  \/ CatchesUp \/ SecondPasses

RefreshSpec == RefreshInit /\ [][RefreshNext]_refreshVars

(***************************************************************************)
(* Properties.                                                             *)
(***************************************************************************)
\* No run produces a document that the loaders refuse, which would stop every
\* later refresh: not by two prices in one second, a runner whose clock is
\* behind, a log that lags or a search price sampled between log entries
\* (refresh_provider_rates.py:224-246, 269-272).
RefreshLoads ==
  /\ Loads(hostRow, fetched)
  /\ \A readable \in BOOLEAN, at \in {second, second - 1} \ {0} : Loads(Refreshed(readable, at), FetchedBy(at))

\* A run after one that held nothing back, with the site and its log as they
\* were, writes nothing: a rewrite keeps the search prices sampled between log entries and
\* a sampled entry is not sampled again, so no version is bumped and nothing
\* is repriced for ever (refresh_provider_history_rewrite.py:93-139,
\* refresh_provider_history_logged.py:149-207).
QuietRunsWriteNothing ==
  settled # NoRun =>
    \A at \in settled[2]..second :
      InForce(at) = InForce(settled[2]) => Refreshed(settled[1], at) = hostRow
=============================================================================
