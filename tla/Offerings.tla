----------------------------- MODULE Offerings -----------------------------
(***************************************************************************)
(* Which of a host's listed endpoints the refresh takes for the host's     *)
(* price (scripts/ci/refresh_selection.py, refresh_selection_rules.py):    *)
(* the account's data region, a recorded pin, and else the rules by the    *)
(* shape of the tags.  The site lists, drops and reprices endpoints from   *)
(* run to run; the row keeps the price taken last.                         *)
(*                                                                         *)
(* An endpoint is [tag, limits, rate, window]: a tag [ns, tail] with its   *)
(* suffixes, the fields compared for identity, and whether a weekly window *)
(* ("none", "open", "shut") is on its price.                               *)
(***************************************************************************)
EXTENDS Integers, Sequences, FiniteSets, SequencesExt, FiniteSetsExt

CONSTANTS
  Sites,         \* what may be listed: endpoints
  Pins,          \* pins a human may record, besides Unpinned
  AccountRegion, \* the account's data region, Anywhere for "global"
  Quantizations, DataRegions, ServiceTiers,
  MaxListed, MaxHours   \* bounds: endpoints at once, changes of the site

VARIABLES
  offered,       \* the host's endpoints, as listed
  pin,
  price,         \* the row's rate, or Unlisted
  tracks,        \* the endpoints whose price that was
  shifts,        \* what changed since: changes of the site
  outcome,       \* of the last run
  hours

offeringVars == <<offered, pin, price, tracks, shifts, outcome, hours>>

Anywhere == "global"
Unlisted == 0
AnyTag == [ns |-> "", tail |-> <<>>]
Unpinned == [tag |-> AnyTag, select |-> "none", ignore |-> FALSE]
Refused == [kind |-> "refused"]
NoRow == [kind |-> "no row"]
Taken(e, said) == [kind |-> "taken", endpoint |-> e, said |-> said]

(***************************************************************************)
(* Tags and groups.                                                        *)
(***************************************************************************)
Names(tag) == Range(tag.tail)
QuantizationsOf(tag) == Names(tag) \cap Quantizations
RegionOf(tag) ==
  LET i == SelectInSeq(tag.tail, LAMBDA s : s \in DataRegions)
  IN  IF i = 0 THEN Anywhere ELSE tag.tail[i]
IsTier(tag, ns) ==
  /\ tag.ns = ns
  /\ Names(tag) \cap ServiceTiers # {}
  /\ Names(tag) \subseteq ServiceTiers \cup DataRegions
IsQuantization(tag, ns, q) ==
  /\ tag.ns = ns /\ QuantizationsOf(tag) = {q}
  /\ Names(tag) \subseteq {q} \cup DataRegions
IsUnknown(s) == s \notin Quantizations \cup DataRegions \cup ServiceTiers
IsGlobalAlias(tag, ns) ==
  /\ tag.ns = ns
  /\ tag.tail = <<>> \/ (Len(tag.tail) = 1 /\ IsUnknown(tag.tail[1]))
Extends(tag, base) ==
  tag.ns = base.ns /\ IsStrictPrefix(base.tail, tag.tail)

PriceOf(e) == <<e.rate, e.window # "none">>
PriceGroups(listed) ==
  {{e \in Range(listed) : PriceOf(e) = p} : p \in {PriceOf(e) : e \in Range(listed)}}
\* The endpoint a group is listed under: its first.
FirstIn(group, listed) == listed[SelectInSeq(listed, LAMBDA e : e \in group)]
AllTiers(groups, ns) == \A g \in groups : \A e \in g : IsTier(e.tag, ns)
QuantizationGroup(g, ns, q) ==
  \A e \in g : IsQuantization(e.tag, ns, q) \/ IsTier(e.tag, ns)
QuantizationsIn(g) == UNION {QuantizationsOf(e.tag) : e \in g}

(***************************************************************************)
(* The rules: what each takes, or nothing.                                 *)
(***************************************************************************)
BareNamespace(groups) ==
  LET bare == {e \in UNION groups : e.tag.tail = <<>>}
  IN  {e \in bare :
         /\ Cardinality(bare) = 1
         /\ \A g \in groups : \A o \in g : o.tag = e.tag \/ IsTier(o.tag, e.tag.ns)}

UniqueQuantization(groups) ==
  LET quantized == {g \in groups : QuantizationsIn(g) # {}}
  IN  {e \in UNION quantized :
         /\ Cardinality(quantized) = 1 /\ QuantizationsOf(e.tag) # {}
         /\ \E q \in QuantizationsOf(e.tag) :
              \A g \in quantized : QuantizationsIn(g) = {q} /\ QuantizationGroup(g, e.tag.ns, q)
         /\ AllTiers(groups \ quantized, e.tag.ns)}

TierVariantBase(groups) ==
  {e \in UNION groups :
     /\ \A g \in groups : e \in g \/ \A o \in g : Extends(o.tag, e.tag)
     /\ \A o \in UNION groups :
          QuantizationsOf(o.tag) = QuantizationsOf(e.tag) /\ o.limits = e.limits}

\* The cheapest of these, one of each group; a tie or a flip refuses.
\* Mutant: a twin that fell below the row's price is taken.
FlipsIgnored(twins, stored) == FALSE
Flipped(twins, stored) ==
  \E e \in twins : e.rate = stored /\ \E o \in twins : o.rate < e.rate
PriceOrder(twins, stored, said) ==
  LET lowest == {e \in twins : \A o \in twins : e.rate <= o.rate}
      cheapest == CHOOSE e \in lowest : TRUE
  IN  IF Cardinality(lowest) > 1 \/ Flipped(twins, stored) THEN Refused
      ELSE Taken(cheapest, said \/ (stored # Unlisted /\ cheapest.rate > stored))

SameQuantization(groups, listed, stored) ==
  LET candidates == {g \in groups : QuantizationsIn(g) # {}}
      fits == \E q \in Quantizations, ns \in {e.tag.ns : e \in UNION groups} :
                /\ \A g \in candidates : QuantizationsIn(g) = {q} /\ QuantizationGroup(g, ns, q)
                /\ AllTiers(groups \ candidates, ns)
      quantized(g) == {e \in g : QuantizationsOf(e.tag) # {}}
  IN  IF Cardinality(candidates) < 2 \/ ~fits THEN {}
      ELSE {PriceOrder({FirstIn(quantized(g), listed) : g \in candidates}, stored, TRUE)}

StoredPriceContinuity(groups, stored) ==
  LET matching == {g \in groups : \A e \in g : e.rate = stored}
  IN  IF Cardinality(matching) = 1 THEN UNION matching ELSE {}

(***************************************************************************)
(* One host: the region, the pin, the rules in their order.                *)
(***************************************************************************)
\* Inside a window the row's own price stays the default.
Listing(e, stored) == IF e.window = "open" THEN [e EXCEPT !.rate = stored] ELSE e
\* A pin whose tag has vanished is set aside.
ActivePin(listed) ==
  IF pin.tag = AnyTag \/ \E e \in Range(listed) : e.tag = pin.tag THEN pin ELSE Unpinned
InRegion(listed) == SelectSeq(listed, LAMBDA e : RegionOf(e.tag) = AccountRegion)
Eligible(listed, p) ==
  IF p.tag # AnyTag THEN SelectSeq(listed, LAMBDA e : e.tag = p.tag) ELSE InRegion(listed)

GlobalEndpoint(kept) ==
  LET explicit == {e \in Range(kept) : Anywhere \in Names(e.tag)}
      bare == {e \in Range(kept) : e.tag.tail = <<>>}
  IN  IF Cardinality(explicit) = 1 THEN explicit
      ELSE IF Cardinality(bare) = 1 THEN bare ELSE {}
GlobalChoice(kept) ==
  {e \in GlobalEndpoint(kept) :
     /\ AccountRegion = Anywhere /\ Cardinality(PriceGroups(kept)) > 1
     /\ \A o \in Range(kept) : PriceOf(o) = PriceOf(e) \/ IsGlobalAlias(o.tag, e.tag.ns)}

AnyOf(s) == Taken(CHOOSE e \in s : TRUE, TRUE)
AutomaticRule(listed, stored) ==
  LET groups == PriceGroups(listed)
      shape == << BareNamespace(groups), UniqueQuantization(groups), TierVariantBase(groups) >>
      i == SelectInSeq(shape, LAMBDA s : s # {})
      twins == SameQuantization(groups, listed, stored)
  IN  IF i > 0 THEN AnyOf(shape[i])
      ELSE IF twins # {} THEN CHOOSE t \in twins : TRUE
      ELSE IF stored # Unlisted /\ StoredPriceContinuity(groups, stored) # {}
           THEN AnyOf(StoredPriceContinuity(groups, stored))
      ELSE Refused

Cheapest(listed, p, stored) ==
  LET prices == {FirstIn(g, listed) : g \in PriceGroups(listed)}
  IN  IF Cardinality({<<e.tag, IF p.ignore THEN 0 ELSE e.limits>> : e \in prices}) > 1 THEN Refused
      ELSE PriceOrder(prices, stored, FALSE)

HostPrice(all, stored) ==
  LET p == ActivePin(all)
      listed == Eligible(all, p)
      many == Cardinality(PriceGroups(listed)) > 1
      twins == SameQuantization(PriceGroups(listed), listed, stored)
  IN  IF listed = <<>> THEN NoRow
      ELSE IF many /\ p.select = "cheapest" THEN Cheapest(listed, p, stored)
      ELSE IF p = Unpinned /\ GlobalChoice(listed) # {} THEN AnyOf(GlobalChoice(listed))
      ELSE IF many /\ p.tag # AnyTag THEN IF twins = {} THEN Refused ELSE CHOOSE t \in twins : TRUE
      ELSE IF many THEN AutomaticRule(listed, stored)
      ELSE Taken(Head(listed), p = Unpinned /\ Len(listed) < Len(all))

\* A host without a row is not read inside a window.
HostRow(all, stored) ==
  IF stored = Unlisted /\ \E e \in Range(all) : e.window = "open" THEN Refused
  ELSE HostPrice([i \in DOMAIN all |-> Listing(all[i], stored)], stored)

(***************************************************************************)
(* The vendor's own endpoint (refresh_vendor_rates.py), whose long-context *)
(* meter the tracked table follows: the bare one, the one quantization     *)
(* beside tiers, or all at one price.                                      *)
(***************************************************************************)
VendorPrice(all, ns) ==
  LET mine == SelectSeq(all, LAMBDA e : e.tag.ns = ns)
      p == ActivePin(mine)
      bare == SelectSeq(mine, LAMBDA e : e.tag.tail = <<>>)
      listed == IF p.tag # AnyTag THEN SelectSeq(mine, LAMBDA e : e.tag = p.tag)
                ELSE IF bare # <<>> THEN bare ELSE mine
      groups == PriceGroups(listed)
  IN  IF mine = <<>> THEN NoRow
      ELSE IF Cardinality(groups) = 1 THEN Taken(Head(listed), FALSE)
      ELSE IF p.tag = AnyTag /\ bare = <<>> /\ UniqueQuantization(groups) # {}
           THEN AnyOf(UniqueQuantization(groups))
      ELSE Refused

(***************************************************************************)
(* Runs, and the site.                                                     *)
(***************************************************************************)
Listable(s) ==
  /\ s # <<>> /\ Len(s) <= MaxListed /\ Range(s) \subseteq Sites
  /\ \A i, j \in DOMAIN s : i < j => <<s[i].tag, s[i].limits>> # <<s[j].tag, s[j].limits>>

OfferingTypeOK ==
  /\ Listable(offered) /\ pin \in Pins \cup {Unpinned}
  /\ price \in {Unlisted} \cup {e.rate : e \in Sites}
  /\ tracks \subseteq Sites
  /\ outcome.kind \in {"none", "refused", "no row", "taken"}

OfferingInit ==
  /\ offered \in {s \in SeqOf(Sites, MaxListed - 1) : Listable(s)}
  /\ pin \in Pins \cup {Unpinned}
  /\ price = Unlisted /\ tracks = {} /\ shifts = 0
  /\ outcome = [kind |-> "none"] /\ hours = 0

Considered == Range(Eligible(offered, ActivePin(offered)))
Twins(taken) == {e \in Considered : PriceOf(Listing(e, price)) = PriceOf(taken)}
Refresh ==
  /\ outcome.kind = "none"
  /\ outcome' = HostRow(offered, price)
  /\ IF outcome'.kind = "taken"
     THEN price' = outcome'.endpoint.rate /\ tracks' = Twins(outcome'.endpoint) /\ shifts' = 0
     ELSE UNCHANGED <<price, tracks, shifts>>
  /\ UNCHANGED <<offered, pin, hours>>

\* The site adds an endpoint, drops one, or changes a price or a window.
SiteMoves(new) ==
  /\ Listable(new) /\ new # offered
  /\ hours < MaxHours /\ hours' = hours + 1
  /\ offered' = new /\ shifts' = shifts + 1
  /\ outcome' = [kind |-> "none"]
  /\ UNCHANGED <<pin, price, tracks>>
Changed(i) ==
  \E e \in Sites :
    /\ e.tag = offered[i].tag /\ e.limits = offered[i].limits
    /\ SiteMoves([offered EXCEPT ![i] = e])

OfferingNext ==
  \/ Refresh
  \/ \E e \in Sites : Len(offered) < MaxListed /\ SiteMoves(Append(offered, e))
  \/ \E i \in DOMAIN offered : Changed(i) \/ (Len(offered) > 1 /\ SiteMoves(RemoveAt(offered, i)))

OfferingSpec == OfferingInit /\ [][OfferingNext]_offeringVars

(***************************************************************************)
(* Properties.                                                             *)
(***************************************************************************)
Tracked(e) == \E t \in tracks : e.tag = t.tag /\ e.limits = t.limits

\* Unless the site changed twice since, a run that reports nothing leaves the
\* row with the endpoint it tracks, as long as that one is considered: no
\* cheaper twin, added tier, region or window silently becomes the row's price
\* (refresh_selection_rules.py:325-347, refresh_selection.py:239-269).
SilentRunsStay ==
  Refresh /\ price # Unlisted /\ shifts <= 1 /\ outcome'.kind = "taken" /\ ~outcome'.said =>
    LET still == {e \in Considered : Tracked(e)}
    IN  price' = price \/ still = {} \/ \E e \in still : price' = Listing(e, price).rate

\* Without a pin neither the host's row nor the vendor's meter moves to an
\* endpoint at a price that only service tiers have while another offering is
\* listed: a tier is "a distinct offering under its own tag, never a price twin
\* of the endpoint beside it" (refresh_selection_rules.py:38-41).  Not claimed
\* of a tier that is also spelled global, which _global_endpoint takes for the
\* namespace's own (refresh_selection_rules.py:128-138).
OnlyTiers(taken, listed) ==
  LET tier(e) == IsTier(e.tag, e.tag.ns) /\ Anywhere \notin Names(e.tag)
  IN  /\ taken # {} /\ \A e \in taken : tier(e)
      /\ \E o \in listed : ~tier(o) /\ ~\E e \in taken : Extends(o.tag, e.tag)
VendorTakesOnlyTiers(ns) ==
  LET mine == {o \in Range(offered) : o.tag.ns = ns}
      result == VendorPrice(offered, ns)
  IN  /\ result.kind = "taken"
      /\ OnlyTiers({e \in mine : PriceOf(e) = PriceOf(result.endpoint)}, mine)
TiersStayAside ==
  Refresh /\ ActivePin(offered) = Unpinned =>
    /\ outcome'.kind = "taken" /\ price' # price =>
         ~OnlyTiers(Twins(outcome'.endpoint), Considered)
    /\ \A o \in Range(offered) : ~VendorTakesOnlyTiers(o.tag.ns)
=============================================================================
