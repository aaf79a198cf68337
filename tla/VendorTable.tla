---------------------------- MODULE VendorTable ----------------------------
(***************************************************************************)
(* The hourly refresh over the whole pricing document                      *)
(* (scripts/ci/refresh_provider_rates.py, refresh_vendor_rates.py,         *)
(* refresh_vendor_keys.py): the provider pass fetches each tracked model's *)
(* hosts under the tracked id, then the vendor pass strips the namespaces  *)
(* that became tracked prefixes and folds the catalog's first-party        *)
(* models into the tracked table and the long-context meters.  A document  *)
(* is                                                                      *)
(*   tracked: key -> [id, context],   rows: key -> whose prices they are,  *)
(*   pins: key -> whose endpoint is pinned,   meters: key -> its meter;    *)
(* a key or an id is its path, <<name>> or <<namespace, name>>.  What is   *)
(* chosen from one listing is Offerings, a row's history RateRefresh.      *)
(***************************************************************************)
EXTENDS Integers, Sequences, FiniteSets, SequencesExt, Functions

CONSTANTS
  CatalogIds,    \* what the site may list, in the order the pass walks
  FirstDocuments, FirstPrefixes, LaterPrefixes,
  ModelKeys,     \* keys of the hand-kept models table
  Meters, NoMeter, Contexts,
  MaxCatalogMoves   \* bound: changes of the site and of the prefixes

VARIABLES
  doc, prefixes,
  catalog,       \* id -> its first-party listing
  recorded,      \* ids the last committing run noted as delisted
  result,       \* of the last run: "none", "refused", "quiet", "written"
  followed,      \* whether that run read everything, and nothing changed since
  catalogMoves

tableVars == <<doc, prefixes, catalog, recorded, result, followed, catalogMoves>>

Ids == Range(CatalogIds)
Empty == <<>>
Unlisted == [kind |-> "unlisted"]
\* "skipped": no first-party endpoint, or contexts that disagree.
Listings == [kind : {"unlisted", "refused", "skipped"}] \cup
            [kind : {"priced"}, meter : Meters \cup {NoMeter}, context : Contexts]

BareForm(key) == IF Len(key) > 1 /\ key[1] \in prefixes THEN Tail(key) ELSE key
DeriveKey(id) == Tail(id)

Loads(d) ==
  LET bare == [k \in {k \in DOMAIN d.tracked : Len(BareForm(k)) = 1} |-> BareForm(k)]
  IN  /\ IsInjective(bare) /\ Range(bare) \cap ModelKeys = {}
      /\ DOMAIN d.meters \subseteq ModelKeys \cup DOMAIN d.tracked

(***************************************************************************)
(* The provider pass: rows under the tracked ids.                          *)
(***************************************************************************)
\* read: whether the models catalog could be read.
Delisted(id, read) == IF read THEN catalog[id].kind = "unlisted" ELSE id \in recorded
Refetched(d, read) ==
  LET asked == {k \in DOMAIN d.tracked : ~Delisted(d.tracked[k].id, read)}
      answered(k) == k \in asked /\ catalog[d.tracked[k].id].kind \notin {"unlisted", "refused"}
  IN  [d EXCEPT !.rows =
         [k \in DOMAIN d.rows \cup asked |->
            IF answered(k) THEN d.tracked[k].id
            ELSE IF k \in DOMAIN d.rows THEN d.rows[k] ELSE Empty]]
\* A created row that stays empty is no move.
RowsMoved(before, after) ==
  \E k \in DOMAIN after.rows :
    after.rows[k] # (IF k \in DOMAIN before.rows THEN before.rows[k] ELSE Empty)

(***************************************************************************)
(* The vendor pass: namespaces off the keys, then one id after another.    *)
(***************************************************************************)
Collides(table) ==
  \/ ~IsInjective([k \in DOMAIN table |-> BareForm(k)])
  \/ \E k \in DOMAIN table : BareForm(BareForm(k)) # BareForm(k)
Bared(table) ==
  [b \in {BareForm(k) : k \in DOMAIN table} |->
     table[CHOOSE k \in DOMAIN table : BareForm(k) = b]]

\* A member follows its tracked row, unless it is the models table's.
Member(d, k) == IF k \in DOMAIN d.tracked \ ModelKeys THEN BareForm(k) ELSE k
MembersCollide(d) == ~IsInjective([k \in DOMAIN d.meters |-> Member(d, k)])
\* Mutant: the pins keep their old keys.
RekeyedButPins(d) ==
  [tracked |-> Bared(d.tracked), rows |-> Bared(d.rows), pins |-> d.pins,
   meters |-> [m \in {Member(d, k) : k \in DOMAIN d.meters} |->
                 d.meters[CHOOSE k \in DOMAIN d.meters : Member(d, k) = m]]]
Rekeyed(d) ==
  [tracked |-> Bared(d.tracked), rows |-> Bared(d.rows), pins |-> Bared(d.pins),
   meters |-> [m \in {Member(d, k) : k \in DOMAIN d.meters} |->
                 d.meters[CHOOSE k \in DOMAIN d.meters : Member(d, k) = m]]]

FoldMeter(meters, key, meter) ==
  IF meter = NoMeter THEN Restrict(meters, DOMAIN meters \ {key})
  ELSE [k \in DOMAIN meters \cup {key} |-> IF k = key THEN meter ELSE meters[k]]
\* A tracked key keeps its id.
OneModel(d, id) ==
  LET listed == catalog[id]
      key == DeriveKey(id)
      entry == [id |-> IF key \in DOMAIN d.tracked THEN d.tracked[key].id ELSE id,
                context |-> listed.context]
  IN  IF listed.kind # "priced" THEN d
      ELSE [d EXCEPT
        !.tracked = [k \in DOMAIN @ \cup {key} |-> IF k = key THEN entry ELSE @[k]],
        !.meters = FoldMeter(@, key, listed.meter)]

Walked(walks) ==
  SelectSeq(CatalogIds,
    LAMBDA id : walks /\ id[1] \in prefixes /\ catalog[id].kind # "unlisted")
\* The document, and whether any one id moved it.
Fold(d, walks) ==
  LET step(sofar, id) ==
        [doc |-> OneModel(sofar.doc, id),
         moved |-> sofar.moved \/ OneModel(sofar.doc, id) # sofar.doc]
  IN  FoldLeft(step, [doc |-> d, moved |-> FALSE], Walked(walks))

(***************************************************************************)
(* A run.  The catalog is fetched once by either pass.                     *)
(***************************************************************************)
Refused ==
  /\ result' = "refused" /\ followed' = FALSE
  /\ UNCHANGED <<doc, recorded>>
RunRefresh(read, walks) ==
  LET fetched == Refetched(doc, read)
      bare == Rekeyed(fetched)
      folded == Fold(bare, walks)
      moved == RowsMoved(doc, fetched) \/ DOMAIN bare.tracked # DOMAIN doc.tracked \/ folded.moved
  IN  /\ UNCHANGED <<prefixes, catalog, catalogMoves>>
      /\ IF \/ ~Loads(doc) \/ Collides(doc.tracked) \/ Collides(fetched.rows)
            \/ Collides(doc.pins) \/ MembersCollide(doc) \/ ~Loads(folded.doc)
         THEN Refused
         ELSE /\ result' = IF moved THEN "written" ELSE "quiet"
              /\ followed' = (read /\ walks)
              /\ doc' = IF moved THEN folded.doc ELSE doc
              /\ recorded' =
                   IF moved THEN {e.id : e \in {e \in Range(doc.tracked) : Delisted(e.id, read)}}
                   ELSE recorded

Site(id) ==
  /\ catalogMoves < MaxCatalogMoves /\ catalogMoves' = catalogMoves + 1
  /\ \E listed \in Listings \ {catalog[id]} : catalog' = [catalog EXCEPT ![id] = listed]
  /\ followed' = FALSE
  /\ UNCHANGED <<doc, prefixes, recorded, result>>

\* A human tracks another namespace.
AddPrefix(ns) ==
  /\ catalogMoves < MaxCatalogMoves /\ catalogMoves' = catalogMoves + 1
  /\ ns \notin prefixes /\ prefixes' = prefixes \cup {ns}
  /\ followed' = FALSE
  /\ UNCHANGED <<doc, catalog, recorded, result>>

TableInit ==
  /\ doc \in FirstDocuments /\ prefixes = FirstPrefixes
  /\ catalog \in [Ids -> {Unlisted, [kind |-> "priced", meter |-> NoMeter,
                                      context |-> CHOOSE c \in Contexts : TRUE]}]
  /\ recorded = {} /\ result = "none" /\ followed = FALSE /\ catalogMoves = 0

TableNext ==
  \/ \E read, walks \in BOOLEAN : RunRefresh(read, walks)
  \/ \E id \in Ids : Site(id)
  \/ \E ns \in LaterPrefixes : AddPrefix(ns)

TableSpec == TableInit /\ [][TableNext]_tableVars

(***************************************************************************)
(* Properties.                                                             *)
(***************************************************************************)
TableTypeOK ==
  /\ \A k \in DOMAIN doc.tracked : doc.tracked[k].id \in Ids /\ doc.tracked[k].context \in Contexts
  /\ \A k \in DOMAIN doc.meters : doc.meters[k] \in Meters
  /\ catalog \in [Ids -> Listings] /\ recorded \subseteq Ids
  /\ result \in {"none", "refused", "quiet", "written"}

\* The ids no other walked id derives the same key as.
Alone(id) == \A o \in Ids : DeriveKey(o) = DeriveKey(id) => o = id \/ o \notin Range(Walked(TRUE))
PricedAlone == {id \in Range(Walked(TRUE)) : catalog[id].kind = "priced" /\ Alone(id)}

\* Neither the site nor a human changes without one of these.
Run == UNCHANGED <<catalog, prefixes>>

\* After a run that read everything the table and the meters say what the
\* catalog lists, under bare keys, and another run over the same catalog writes
\* no more than the first rows of a model just added
\* (refresh_vendor_rates.py:383-457, refresh_provider_rates.py:368-375).  Two
\* walked ids of one derived key rewrite each other in every run: not claimed.
TablesFollow ==
  followed =>
    /\ \A k \in DOMAIN doc.tracked : BareForm(k) = k
    /\ \A id \in PricedAlone :
         LET key == DeriveKey(id)
         IN  /\ doc.tracked[key].context = catalog[id].context
             /\ IF key \in DOMAIN doc.meters THEN doc.meters[key] = catalog[id].meter
                ELSE catalog[id].meter = NoMeter
QuietOnceFollowed ==
  Run /\ followed /\ (\A id \in Range(Walked(TRUE)) : Alone(id)) =>
      \/ result' = "quiet"
      \/ \E k \in DOMAIN doc.tracked : k \notin DOMAIN doc.rows \/ doc.rows[k] = Empty

\* A run renames a model's entry, row, pin and meter together: none is lost,
\* none becomes another model's (refresh_vendor_keys.py:78-100).
ModelsKeepTheirs ==
  Run =>
    \A k \in DOMAIN doc.tracked : \E n \in {k, BareForm(k)} \cap DOMAIN doc'.tracked :
      LET id == doc.tracked[k].id
      IN  /\ doc'.tracked[n].id = id
          /\ k \in DOMAIN doc.rows => n \in DOMAIN doc'.rows /\ doc'.rows[n] \in {doc.rows[k], id}
          /\ n \in DOMAIN doc'.rows => doc'.rows[n] \in {id, Empty}
          /\ k \in DOMAIN doc.pins => n \in DOMAIN doc'.pins /\ doc'.pins[n] = doc.pins[k]
          /\ (\A o \in Ids : DeriveKey(o) = n => catalog[o].kind # "priced") =>
               /\ k \in DOMAIN doc.meters <=> n \in DOMAIN doc'.meters
               /\ k \in DOMAIN doc.meters => doc'.meters[n] = doc.meters[k]
=============================================================================
