---------------------------- MODULE PricingRows ----------------------------
(***************************************************************************)
(* How a provider history is stored in pricing.json: equal states grouped  *)
(* under one entry with all their instants (the refresher's merge), cache  *)
(* writes that cost what fresh tokens cost left out (pricing_document.py), *)
(* instants as deltas (pricing_rows.py), and all of it undone by a loader. *)
(*                                                                         *)
(* An occurrence is [at, state]; a group [from, state], from a sequence of *)
(* instants, which for the undated first entry is <<Null>>.                *)
(***************************************************************************)
EXTENDS Integers, Sequences, FiniteSets, SequencesExt, FiniteSetsExt

CONSTANTS
  Prices,      \* what a token may cost
  LastSecond   \* bound: instants are 0..LastSecond

Null == -1
Absent == -2
Refused == <<>>     \* no history is empty
States == [fresh : Prices, create : Prices \cup {Absent}]

(***************************************************************************)
(* Rates.                                                                  *)
(***************************************************************************)
EffectiveRates(s) == [s EXCEPT !.create = IF @ = Absent THEN s.fresh ELSE @]
OmitDefaultRates(s) == [s EXCEPT !.create = IF @ = s.fresh THEN Absent ELSE @]
Compact(groups) == [i \in DOMAIN groups |-> [groups[i] EXCEPT !.state = OmitDefaultRates(@)]]
Expand(groups) == [i \in DOMAIN groups |-> [groups[i] EXCEPT !.state = EffectiveRates(@)]]
\* check_compact_shape
CompactShape(groups) == \A i \in DOMAIN groups : groups[i].state.create # groups[i].state.fresh

(***************************************************************************)
(* Grouping: an occurrence of a state that has a dated group joins it.     *)
(***************************************************************************)
Joins(groups, e) == {i \in DOMAIN groups : groups[i].from # <<Null>> /\ groups[i].state = e.state}
MergeOne(groups, e) ==
  IF e.at # Null /\ Joins(groups, e) # {}
  THEN [groups EXCEPT ![CHOOSE i \in Joins(groups, e) : TRUE].from = Append(@, e.at)]
  ELSE Append(groups, [from |-> <<e.at>>, state |-> e.state])
MergeHistory(h) ==
  FoldLeft(LAMBDA groups, e : MergeOne(groups, [e EXCEPT !.state = EffectiveRates(@)]), <<>>, h)

(***************************************************************************)
(* The encoder refuses what the decoder could not give back: an undated    *)
(* entry that is not the first, instants that repeat or do not increase.   *)
(* A group starts after the one before it, but may outlast its start.      *)
(***************************************************************************)
Increasing(s) == \A i \in 1..Len(s) - 1 : s[i] < s[i + 1]
Dated(groups) == {i \in DOMAIN groups : groups[i].from # <<Null>>}
Distinct(groups) ==
  \A i, j \in Dated(groups) : i # j => Range(groups[i].from) \cap Range(groups[j].from) = {}
Encodable(groups) ==
  /\ groups # <<>>
  /\ \A i \in DOMAIN groups : groups[i].from # <<>> /\ (i > 1 => i \in Dated(groups))
  /\ \A i \in Dated(groups) : Increasing(groups[i].from) /\ Null \notin Range(groups[i].from)
  /\ Distinct(groups)
  /\ \A i, j \in Dated(groups) : i < j => groups[i].from[1] < groups[j].from[1]

Deltas(from, base) == [j \in DOMAIN from |-> from[j] - IF j = 1 THEN base ELSE from[j - 1]]
\* Mutant: it counts from the previous group's last instant.
BaseOfLast(groups, i) == IF i - 1 \in Dated(groups) THEN Last(groups[i - 1].from) ELSE 0
\* The first delta counts from the previous group's first instant.
Base(groups, i) == IF i - 1 \in Dated(groups) THEN groups[i - 1].from[1] ELSE 0
Encode(groups) ==
  IF ~Encodable(groups) THEN Refused
  ELSE [i \in DOMAIN groups |->
         IF i \in Dated(groups) THEN [groups[i] EXCEPT !.from = Deltas(@, Base(groups, i))] ELSE groups[i]]

Sums(deltas, base) == [j \in DOMAIN deltas |-> base + FoldSeq(+, 0, SubSeq(deltas, 1, j))]
Decoded(stored) ==
  LET starts[i \in 0..Len(stored)] ==
        IF i = 0 \/ stored[i].from = <<Null>> THEN 0 ELSE starts[i - 1] + stored[i].from[1]
  IN  [i \in DOMAIN stored |->
         IF i \in Dated(stored) THEN [stored[i] EXCEPT !.from = Sums(@, starts[i - 1])] ELSE stored[i]]
Decode(stored) ==
  LET first(i) == i = 1 \/ i - 1 \notin Dated(stored)
  IN  IF /\ stored # <<>>
         /\ \A i \in DOMAIN stored : stored[i].from # <<>> /\ (i > 1 => i \in Dated(stored))
         /\ \A i \in Dated(stored), j \in 1..LastSecond + 2 :
              j \in DOMAIN stored[i].from =>
                stored[i].from[j] >= 0 /\ (stored[i].from[j] = 0 => j = 1 /\ first(i))
         /\ Distinct(Decoded(stored))
      THEN Decoded(stored) ELSE Refused

(***************************************************************************)
(* flatten_provider_history: every occurrence, in time order.              *)
(***************************************************************************)
Flatten(groups) ==
  LET all == UNION {{[at |-> groups[i].from[j], state |-> groups[i].state] :
                       j \in DOMAIN groups[i].from} : i \in DOMAIN groups}
  IN  IF Encodable(groups) THEN SetToSortSeq(all, LAMBDA a, b : a.at < b.at) ELSE Refused

Stored(h) == Encode(Compact(MergeHistory(h)))
Loaded(stored) == IF Decode(stored) = Refused THEN Refused ELSE Flatten(Expand(Decode(stored)))

\* Histories: at most four occurrences, the first possibly undated.
Histories ==
  UNION {{[i \in 1..Len(t) |-> [at |-> t[i], state |-> s[i]]] : s \in [1..Len(t) -> States]} :
     t \in {SetToSortSeq(T, <) : T \in {T \in SUBSET (Null..LastSecond) : Cardinality(T) \in 1..3}}}
\* Rows a hand may have edited: up to two groups of up to two deltas.
RowSets ==
  LET slots == UNION {[1..n -> Null..LastSecond] : n \in 1..2}
  IN  UNION {[1..n -> [from : slots, state : [fresh : {Min(Prices)}, create : {Absent}]]] : n \in 1..2}

(***************************************************************************)
(* Properties.                                                             *)
(***************************************************************************)
\* Whatever states a host's prices alternate between, the grouped, compacted
\* and delta-encoded row is one that loads, in the shape the checks ask for,
\* and gives back every occurrence at its instant with its price
\* (refresh_provider_history_rewrite.py:30-53, pricing_rows.py:83-239,
\* pricing_document.py:13-69).
HistoryComesBack(h) ==
  /\ Stored(h) # Refused
  /\ CompactShape(Decode(Stored(h)))
  /\ Loaded(Stored(h)) = [i \in DOMAIN h |-> [h[i] EXCEPT !.state = EffectiveRates(@)]]

\* What the loader accepts is the encoding of what it read, so a row is never
\* rewritten for its form, and the loaders after it accept it too
\* (pricing_rows.py:158-204).
RowIsCanonical(stored) ==
  Decode(stored) # Refused =>
    LET groups == Decode(stored) IN Encodable(groups) /\ Encode(groups) = stored
=============================================================================
