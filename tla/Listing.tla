------------------------------ MODULE Listing ------------------------------
(***************************************************************************)
(* A run's listing of the buckets, the pairing of transcripts with their   *)
(* sidecars, the fetch of what changed and the orphan sweep, while objects *)
(* come, change and go and mirror directories are unmounted: r2._scan_root,*)
(* r2._list_keys_file, r2_list.list_keys, ingest_scan._scan_objects,       *)
(* ingest_fetch.fetch_and_parse, ingest_orphans._delete_orphans.           *)
(*                                                                         *)
(* A listing is made of units.  On S3 these are streams of pages, one per  *)
(* bucket root and one per first-level prefix, up to eight at a time; in a *)
(* mirror the directories of a serial walk.  A version of an object stands *)
(* for its bytes and its etag and is never used twice.                     *)
(***************************************************************************)
EXTENDS Integers, Sequences, FiniteSets, SequencesExt

\* Objects that lie at a bucket's root, outside every prefix, are left out.
CONSTANTS
  Buckets,                \* buckets(), in the configured order
  UnitsOf,                \* the prefixes of each bucket, in key order
  KeysOf,                 \* the keys of each prefix, in key order
  SidecarOf,              \* transcript -> key of its meta.json
  InBand,                 \* transcripts that name their agent type themselves
  MaxListed               \* bound: changes, unmounts, failures together

Endpoint == "endpoint"    \* the mirror's root, above the bucket directories
ObjectKeys == UNION {ToSet(KeysOf[p]) : p \in DOMAIN KeysOf}
Transcripts == DOMAIN SidecarOf
Units == ToSet(Buckets) \cup DOMAIN KeysOf
BucketOfUnit(u) ==
  IF u \in ToSet(Buckets) THEN u ELSE CHOOSE b \in ToSet(Buckets) : u \in ToSet(UnitsOf[b])
UnitOf(k) == CHOOSE u \in DOMAIN KeysOf : k \in ToSet(KeysOf[u])
BucketOf(k) == BucketOfUnit(UnitOf(k))

None == 0                 \* no version: not there, not listed, not applied
Away == -1                \* the sidecar was asked for while its mirror was away
Waiting == <<"waiting">>
Done == <<"done">>
Untouched == <<"untouched">>
States == {Waiting, Done, Untouched}

VARIABLES
  mode,        \* "s3" or "file": CLAUDIT_R2_ENDPOINT; "alone": file, with the
               \* first bucket only, as when CLAUDIT_R2_BUCKET names no other
  objects,     \* version of each key, None: not in the bucket
  away,        \* mirror directories that are not mounted
  phase,       \* of the run
  unit,        \* each unit: a state, or what it has still to visit
  found,       \* the listing so far
  todo,        \* transcripts to fetch
  fetched,     \* the one being fetched and its transcript's version
  files,       \* files row of each transcript: etag and what it was parsed from
  gone, lost,  \* history of this run: keys absent, mirrors unmounted (Endpoint:
               \* the root was listed for a mirror that was)
  events, newest

listVars == <<mode, objects, away, phase, unit, found, todo, fetched, files, gone, lost,
              events, newest>>

\* buckets() of the deployment, and whether there is only one.
Configured == IF mode = "alone" THEN {Buckets[1]} ELSE ToSet(Buckets)
Alone == mode = "alone" \/ Len(Buckets) = 1

NoFetch == [key |-> "none", version |-> None]
NoFileRow == [etag |-> <<None, None>>, from |-> <<None, None>>]

ListTypeOK ==
  /\ mode \in {"s3", "file", "alone"}
  /\ objects \in [ObjectKeys -> 0..newest] /\ found \in [ObjectKeys -> 0..newest]
  /\ away \subseteq ToSet(Buckets) \cup {Endpoint}
  /\ phase \in {"idle", "listing", "fetching", "sweeping"}
  /\ \A u \in Units : unit[u] \in States \/ Len(unit[u]) > 0
  /\ todo \subseteq Transcripts /\ fetched.key \in Transcripts \cup {"none"}
  /\ \A t \in Transcripts : files[t].etag[1] \in 0..newest
  /\ gone \subseteq ObjectKeys /\ lost \subseteq ToSet(Buckets) \cup {Endpoint}

ListInit ==
  /\ mode \in {"s3", "file", "alone"}
  /\ objects = [k \in ObjectKeys |-> IF BucketOf(k) \in Configured THEN 1 ELSE None]
  /\ newest = 1
  /\ away = {} /\ phase = "idle"
  /\ unit = [u \in Units |-> Untouched] /\ found = [k \in ObjectKeys |-> None]
  /\ todo = {} /\ fetched = NoFetch
  /\ files = [t \in Transcripts |-> NoFileRow]
  /\ gone = {} /\ lost = {} /\ events = 0

Happens == events < MaxListed /\ events' = events + 1

\* The archiver writes or deletes an object.
Archive(k, there) ==
  /\ Happens /\ BucketOf(k) \in Configured
  /\ there \/ objects[k] # None
  /\ objects' = [objects EXCEPT ![k] = IF there THEN newest + 1 ELSE None]
  /\ newest' = IF there THEN newest + 1 ELSE newest
  /\ gone' = IF there \/ phase = "idle" THEN gone ELSE gone \cup {k}
  /\ UNCHANGED <<mode, away, phase, unit, found, todo, fetched, files, lost>>
MountedOver(b) == away \cap {b, Endpoint} = {}
\* A mirror directory, or the root of them all, goes away or comes back.
Mount(d) ==
  /\ Happens /\ mode # "s3" /\ d \in Configured \cup {Endpoint}
  /\ away' = IF d \in away THEN away \ {d} ELSE away \cup {d}
  /\ lost' = IF d \in away \/ phase = "idle" THEN lost
             ELSE lost \cup {b \in Configured : d \in {b, Endpoint} /\
                    (phase # "listing" \/ unit[b] \notin {Waiting, Untouched})}
  /\ UNCHANGED <<mode, objects, phase, unit, found, todo, fetched, files, gone, newest>>
Visible(k) == objects[k] # None /\ MountedOver(BucketOf(k))

(***************************************************************************)
(* The listing.                                                            *)
(***************************************************************************)
\* Any error of a unit ends the run before it fetched or swept anything.
Ended == [u \in Units |-> Untouched]
NothingFound == [k \in ObjectKeys |-> None]
\* The run and what it gathered are over.
BackToIdle ==
  /\ phase' = "idle" /\ unit' = Ended /\ found' = NothingFound
  /\ todo' = {} /\ fetched' = NoFetch /\ gone' = {} /\ lost' = {}

Ready == [u \in Units |-> IF u \in Configured THEN Waiting ELSE Untouched]
StartListing ==
  /\ phase = "idle" /\ phase' = "listing"
  /\ unit' = Ready
  /\ found' = NothingFound
  /\ gone' = {k \in ObjectKeys : objects[k] = None} /\ lost' = {}
  /\ UNCHANGED <<mode, objects, away, todo, fetched, files, events, newest>>

\* Mutant: a missing mirror directory falls back to the root at any time.
ScanRootOrEndpoint(b) ==
  IF MountedOver(b) THEN b ELSE IF Endpoint \in away THEN "none" ELSE Endpoint
\* _scan_root and the check of its result: the bucket's own directory, the
\* endpoint's root (an only bucket's), or nothing that may be listed.
ScanRoot(b) ==
  IF MountedOver(b) THEN b
  ELSE IF Endpoint \in away \/ ~Alone THEN "none" ELSE Endpoint

\* Streams run side by side, a walk goes directory by directory.
MayOpen(u) ==
  /\ phase = "listing" /\ unit[u] = Waiting
  /\ mode # "s3" =>
       /\ \A v \in Units : unit[v] \in States
       /\ u \in ToSet(Buckets) =>
            /\ \A v \in DOMAIN KeysOf : unit[v] # Waiting
            /\ \A i \in 1..(IndexFirstSubSeq(<<u>>, Buckets) - 1) : unit[Buckets[i]] # Waiting
After(rest) == IF rest = <<>> THEN Done ELSE rest
\* The names a unit has to visit: what a directory's scan saw, in any order, or
\* every key its pages may come to.
Names(u) ==
  IF u \in ToSet(Buckets) THEN {UnitsOf[u]}
  ELSE IF mode = "s3" THEN {KeysOf[u]}
  ELSE SetToSeqs({k \in ToSet(KeysOf[u]) : objects[k] # None})
\* The endpoint's root, where it is listed, shows none of the bucket's objects.
Open(u) ==
  LET b == BucketOfUnit(u)
      unlisted == mode # "s3" /\ u = b /\ ScanRoot(b) = Endpoint
  IN  /\ MayOpen(u)
      /\ IF mode # "s3" /\ (ScanRoot(b) = "none" \/ (u # b /\ ~MountedOver(b)))
         THEN BackToIdle
         ELSE /\ \E names \in IF unlisted THEN {<<>>} ELSE Names(u) :
                   unit' = [unit EXCEPT ![u] = After(names)]
              /\ lost' = IF unlisted THEN lost \cup {Endpoint} ELSE lost
              /\ UNCHANGED <<phase, found, todo, fetched, gone>>
      /\ UNCHANGED <<mode, objects, away, files, events, newest>>

Reading(u) == phase = "listing" /\ unit[u] \notin States
\* A page: the next n names at one instant.  A walk sees a bucket's directories
\* at once, stats one file at a time and passes over one that vanished since
\* its directory was scanned.
PageSizes(u) ==
  IF mode = "s3" THEN 1..Len(unit[u]) ELSE IF u \in ToSet(Buckets) THEN {Len(unit[u])} ELSE {1}
ReadPage(u, n) ==
  LET page == ToSet(SubSeq(unit[u], 1, n))
      rest == After(SubSeq(unit[u], n + 1, Len(unit[u])))
      holding == {p \in page : \E i \in DOMAIN KeysOf[p] : Visible(KeysOf[p][i])}
  IN  /\ IF u \in ToSet(Buckets)
         THEN /\ unit' = [v \in Units |-> IF v = u THEN rest
                                          ELSE IF v \in holding THEN Waiting ELSE unit[v]]
              /\ UNCHANGED found
         ELSE /\ unit' = [unit EXCEPT ![u] = rest]
              /\ found' = [k \in ObjectKeys |-> IF k \in page /\ Visible(k) THEN objects[k] ELSE found[k]]
      /\ UNCHANGED <<mode, objects, away, phase, todo, fetched, files, gone, lost, events, newest>>

\* Mutant: a unit that fails ends, with what it had found.
UnitPassedOver(u) ==
  /\ Reading(u) /\ Happens
  /\ unit' = [unit EXCEPT ![u] = Done]
  /\ UNCHANGED <<mode, objects, away, phase, found, todo, fetched, files, gone, lost, newest>>
\* A page or a directory that cannot be read: the error leaves the pool, or
\* os.walk, and the run.
UnitFails(u) ==
  /\ Reading(u) /\ Happens
  /\ BackToIdle
  /\ UNCHANGED <<mode, objects, away, files, newest>>

\* Mutant: the transcript's etag alone.
EtagOfTranscript(t, s) == <<t, None>>
\* _Wire.etag
Etag(t, s) == <<t, s>>
ListedEtag(t) == Etag(found[t], found[SidecarOf[t]])
Listed == {t \in Transcripts : found[t] # None}

\* Every unit succeeded: pair, and fetch what is new or listed differently.
EndListing ==
  /\ phase = "listing" /\ \A u \in Units : unit[u] \in {Done, Untouched}
  /\ phase' = "fetching" /\ unit' = Ended
  /\ todo' = {t \in Listed : files[t].etag # ListedEtag(t)}
  /\ UNCHANGED <<mode, objects, away, found, fetched, files, gone, lost, events, newest>>

(***************************************************************************)
(* Fetch, parse and persist, one transcript at a time.                     *)
(***************************************************************************)
\* A vanished transcript counts as not listed, a failing one is booked.
FetchTranscript(t, fails) ==
  /\ phase = "fetching" /\ fetched = NoFetch /\ t \in todo
  /\ todo' = todo \ {t}
  /\ found' = IF fails \/ Visible(t) THEN found ELSE [found EXCEPT ![t] = None]
  /\ fetched' = IF fails \/ ~Visible(t) THEN NoFetch ELSE [key |-> t, version |-> objects[t]]
  /\ IF fails THEN Happens ELSE UNCHANGED events
  /\ UNCHANGED <<mode, objects, away, phase, unit, files, gone, lost, newest>>

\* What the sidecar's GET gives: nothing was listed or is asked for, it has
\* vanished, or its version.
Applied(t) ==
  LET s == SidecarOf[t]
  IN  IF t \in InBand \/ found[s] = None THEN None
      ELSE IF objects[s] # None /\ ~MountedOver(BucketOf(s)) THEN Away ELSE objects[s]
Write(t) ==
  /\ files' = [files EXCEPT ![t] = [etag |-> ListedEtag(t), from |-> <<fetched.version, Applied(t)>>]]
  /\ fetched' = NoFetch
\* Mutant: a failing GET of the sidecar counts as a vanished one.
SidecarFailsUnseen(t) ==
  /\ files' = [files EXCEPT ![t] = [etag |-> ListedEtag(t), from |-> <<fetched.version, None>>]]
  /\ fetched' = NoFetch
\* A GET that fails past its retries fails the file: nothing is written.
SidecarFails(t) == fetched' = NoFetch /\ UNCHANGED files
Persist(fails) ==
  LET t == fetched.key
  IN  /\ phase = "fetching" /\ fetched # NoFetch
      /\ IF fails THEN t \notin InBand /\ found[SidecarOf[t]] # None /\ Happens /\ SidecarFails(t)
         ELSE Write(t) /\ UNCHANGED events
      /\ UNCHANGED <<mode, objects, away, phase, unit, found, todo, gone, lost, newest>>

EndFetching ==
  /\ phase = "fetching" /\ todo = {} /\ fetched = NoFetch
  /\ phase' = "sweeping"
  /\ UNCHANGED <<mode, objects, away, unit, found, todo, fetched, files, gone, lost, events, newest>>
\* _delete_orphans: every row the listing did not show.
Sweep ==
  /\ phase = "sweeping"
  /\ files' = [t \in Transcripts |-> IF t \in Listed THEN files[t] ELSE NoFileRow]
  /\ BackToIdle
  /\ UNCHANGED <<mode, objects, away, events, newest>>
Killed ==
  /\ phase # "idle" /\ Happens
  /\ BackToIdle
  /\ UNCHANGED <<mode, objects, away, files, newest>>

ListNext ==
  \/ \E k \in ObjectKeys, there \in BOOLEAN : Archive(k, there)
  \/ \E d \in ToSet(Buckets) \cup {Endpoint} : Mount(d)
  \/ StartListing \/ EndListing \/ EndFetching \/ Sweep \/ Killed
  \/ \E u \in Units :
       \/ Open(u) \/ UnitFails(u)
       \/ Reading(u) /\ \E n \in PageSizes(u) : ReadPage(u, n)
  \/ \E fails \in BOOLEAN : Persist(fails) \/ \E t \in Transcripts : FetchTranscript(t, fails)

ListSpec == ListInit /\ [][ListNext]_listVars

(***************************************************************************)
(* Properties.                                                             *)
(***************************************************************************)
\* The named exceptions of what follows: a mirror that was unmounted once its
\* bucket's turn had come (the stats of its last directory, or the GETs, take
\* what is away for deleted); and the mirror of an only bucket, away when its
\* turn came, for which the endpoint's root was listed (r2.py:206).
Excused(b) == b \in lost \/ (Alone /\ Endpoint \in lost)

\* A run that may sweep has missed no transcript but one that was out of its
\* bucket at some moment of the run, or is excused: not after a failed or refused
\* unit, nor, of several buckets, for a mirror that was away when its turn came
\* (r2.py:190-270, r2_list.py:31-49).
SweptWasGone ==
  phase \in {"fetching", "sweeping"} =>
    \A t \in Transcripts : found[t] # None \/ t \in gone \/ Excused(BucketOf(t))

\* A file that the next listing would pass over as unchanged was parsed from
\* the very versions in the bucket, transcript and sidecar, in whichever order
\* they were replaced around the listing and the GETs (ingest_scan.py:21-28,
\* ingest_fetch.py:134-148).  A sidecar whose GET met an unmounted mirror is
\* excepted: it is taken for a vanished one, and nothing asks for it again.
UnchangedIsCurrent ==
  \A t \in Transcripts :
    LET s == objects[SidecarOf[t]]
    IN  files[t].etag[1] # None /\ files[t].etag = Etag(objects[t], s) =>
          files[t].from \in {<<objects[t], IF t \in InBand THEN None ELSE s>>, <<objects[t], Away>>}

(***************************************************************************)
(* Why: the inductive invariants.                                          *)
(***************************************************************************)
\* A unit that will still be, or is being, read.
Begun(b) == unit[b] \notin {Waiting, Untouched}
\* What the listing has still to come to.
StillToCome(k) ==
  LET u == UnitOf(k)
      b == BucketOfUnit(u)
  IN  \/ unit[b] = Waiting \/ (unit[b] \notin States /\ u \in ToSet(unit[b]))
      \/ unit[u] = Waiting \/ (unit[u] \notin States /\ k \in ToSet(unit[u]))
Missed(k) == found[k] = None /\ k \notin gone /\ ~Excused(BucketOf(k))

\* A key that is not found is still to come, or was seen to be absent or out of
\* sight; what is out of sight once its bucket's turn has come is noted as lost.
ListingMisses ==
  /\ \A k \in ObjectKeys : BucketOf(k) \notin Configured => objects[k] = None
  /\ phase # "idle" =>
       /\ \A k \in ObjectKeys : objects[k] = None => k \in gone
       /\ \A b \in Configured :
            (phase = "listing" => Begun(b)) /\ ~MountedOver(b) => Excused(b)
  /\ mode = "s3" => away = {}
  /\ phase = "listing" =>
       /\ \A b \in Configured : unit[b] # Untouched
       /\ \A u \in DOMAIN KeysOf : unit[u] # Untouched => Begun(BucketOfUnit(u))
       /\ \A k \in ObjectKeys : Missed(k) => StillToCome(k)
  /\ SweptWasGone

\* A version that was listed and is in the bucket has been there all along.
ListedStays ==
  /\ \A t \in todo \cup ({fetched.key} \ {"none"}) : found[t] # None
  /\ fetched.key # "none" /\ found[fetched.key] = objects[fetched.key] =>
       fetched.version = objects[fetched.key]
  /\ \A t \in Transcripts :
       LET s == SidecarOf[t]
           row == files[t]
       IN  row.etag[1] # None =>
             /\ row.etag[1] = objects[t] => row.from[1] = objects[t]
             /\ row.etag[2] = None => row.from[2] = None
             /\ row.etag[2] = objects[s] => row.from[2] \in {IF t \in InBand THEN None ELSE objects[s], Away}

Versions == 0..newest
\* The names that may be in a unit.
Held(u) == IF u \in ToSet(Buckets) THEN ToSet(UnitsOf[u]) ELSE ToSet(KeysOf[u])
FileRows == [etag : Versions \X Versions, from : Versions \X (Versions \cup {Away})]
ListInv ==
  /\ newest \in Nat
  /\ DOMAIN unit = Units /\ \A u \in Units : unit[u] \in States \cup Seq(Held(u))
  /\ files \in [Transcripts -> FileRows]
  /\ fetched \in {NoFetch} \cup [key : Transcripts, version : Versions]
  /\ phase # "fetching" => todo = {} /\ fetched = NoFetch
  /\ ListingMisses /\ ListedStays
=============================================================================
