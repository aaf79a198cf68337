---------------------------- MODULE ObjectBytes ----------------------------
(***************************************************************************)
(* The bytes of bucket objects on their way to the ingest and to the       *)
(* transcript endpoint: r2.get_object behind the disk cache of the deploy  *)
(* (blob_cache.py), and api_sessions.get_transcript behind the LRU of      *)
(* cache.py.  Objects may be replaced, put back or deleted at any moment.  *)
(*                                                                         *)
(* A content stands for bytes and the etag they are listed with, of which  *)
(* there is one for each bytes.  Different contents may have one length,   *)
(* and different objects one etag.                                         *)
(***************************************************************************)
EXTENDS Naturals, Sequences, FiniteSets, SequencesExt, FiniteSetsExt

CONSTANTS
  Objects, Contents,
  SizeOf,              \* length of a content: what the lookup compares
  Gone,                \* not in the bucket; no row; nothing read
  Fetchers, Readers,   \* ingest workers; threads answering the endpoint
  DiskCap,             \* CLAUDIT_R2_BLOB_CACHE_MAX_BYTES
  LruCap,              \* transcript_cache.max_bytes
  Starts,              \* what the bucket may hold at first
  MaxChanges           \* bound: listings, reads, changes of the bucket, crashes, idle periods

VARIABLES
  bucket,              \* content of each object
  row,                 \* files.r2_etag of each object, as its content
  disk,                \* entries of the blob cache, oldest first
  fetcher, reader,
  lru,                 \* _IdleLRU._items in access order
  since,               \* history: what each object has held since a content
  changes

bytesVars == <<bucket, row, disk, fetcher, reader, lru, since, changes>>

Bytes == Objects \X Contents
IdleThread == [at |-> "idle"]

BytesTypeOK ==
  /\ bucket \in [Objects -> Contents \cup {Gone}]
  /\ row \in [Objects -> Contents \cup {Gone}]
  /\ \A i \in DOMAIN disk : disk[i].bytes \in Bytes /\ disk[i].temp \in BOOLEAN
  /\ \A i \in DOMAIN lru : lru[i].bytes \in Bytes
  /\ \A f \in Fetchers : fetcher[f].at \in {"idle", "listed", "got", "temp", "parsed"}
  /\ \A r \in Readers : reader[r].at \in {"idle", "selected", "missed", "got", "served"}

BytesInit ==
  /\ bucket \in Starts
  /\ row \in {bucket, [o \in Objects |-> Gone]}
  /\ disk = <<>> /\ lru = <<>>
  /\ fetcher = [f \in Fetchers |-> IdleThread]
  /\ reader = [r \in Readers |-> IdleThread]
  /\ since = [o \in Objects |-> [c \in Contents |-> IF c = bucket[o] THEN {c} ELSE {}]]
  /\ changes = 0

\* An object is replaced, put back or removed: what a thread listed before
\* may still be asked for, and what was current remains in the histories.
Change(o, c) ==
  /\ changes < MaxChanges /\ changes' = changes + 1
  /\ c # bucket[o]
  /\ bucket' = [bucket EXCEPT ![o] = c]
  /\ since' = [since EXCEPT ![o] = [d \in Contents |->
       IF c = Gone THEN @[d] ELSE IF d = c THEN @[d] \cup {c}
       ELSE IF @[d] = {} THEN {} ELSE @[d] \cup {c}]]
  /\ fetcher' = [f \in Fetchers |->
       IF fetcher[f].at = "idle" \/ fetcher[f].o # o \/ c = Gone THEN fetcher[f]
       ELSE [fetcher[f] EXCEPT !.held = @ \cup {c}]]
  /\ UNCHANGED <<row, disk, reader, lru>>

(***************************************************************************)
(* The ingest's fetch, with the etag and the size of the listing, of an    *)
(* object that changed, or of any one when the parser did.                 *)
(***************************************************************************)
List(f, o) ==
  /\ fetcher[f] = IdleThread /\ bucket[o] # Gone
  /\ changes < MaxChanges /\ changes' = changes + 1
  /\ fetcher' = [fetcher EXCEPT ![f] = [at |-> "listed", o |-> o, etag |-> bucket[o],
                                        held |-> {bucket[o]}, bytes |-> Gone]]
  /\ UNCHANGED <<bucket, row, disk, reader, lru, since>>

EntryFor(o, etag) == {i \in DOMAIN disk : ~disk[i].temp /\ disk[i].o = o /\ disk[i].etag = etag}
\* Mutant: the length is not compared.
HitsAnyLength(o, etag) == EntryFor(o, etag)
\* lookup: the entry of (key, etag), unless its length is not the listing's.
Hits(o, etag) ==
  {i \in EntryFor(o, etag) : SizeOf[disk[i].bytes[2]] = SizeOf[etag]}

FetchHit(f) ==
  LET t == fetcher[f]
  IN  /\ t.at = "listed"
      /\ \E i \in Hits(t.o, t.etag) :
           fetcher' = [fetcher EXCEPT ![f].at = "parsed", ![f].bytes = disk[i].bytes]
      /\ UNCHANGED <<bucket, row, disk, reader, lru, since, changes>>
FetchGet(f) ==
  LET t == fetcher[f]
  IN  /\ t.at = "listed" /\ Hits(t.o, t.etag) = {}
      /\ fetcher' = [fetcher EXCEPT ![f] =
           IF bucket[t.o] = Gone THEN IdleThread       \* VanishedObject
           ELSE [t EXCEPT !.at = "got", !.bytes = <<t.o, bucket[t.o]>>]]
      /\ UNCHANGED <<bucket, row, disk, reader, lru, since, changes>>

\* store: a temporary file in the fan-out directory, then the replace.  A
\* failing store is dropped; a temporary that prune took makes it fail.
StoreTemp(f) ==
  LET t == fetcher[f]
      entry == [o |-> t.o, etag |-> t.etag, bytes |-> t.bytes, temp |-> TRUE, by |-> f]
  IN  /\ t.at = "got"
      /\ \/ disk' = Append(disk, entry) /\ fetcher' = [fetcher EXCEPT ![f].at = "temp"]
         \/ UNCHANGED disk /\ fetcher' = [fetcher EXCEPT ![f].at = "parsed"]
      /\ UNCHANGED <<bucket, row, reader, lru, since, changes>>
MyTemp(f) == {i \in DOMAIN disk : disk[i].temp /\ disk[i].by = f}
Renamed(e) == [e EXCEPT !.temp = FALSE, !.by = Gone]
\* A path holds one file: the sequence without the ones at the places given,
\* of which there is one at most.
Dropped(s, places) == IF places = {} THEN s ELSE RemoveAt(s, Min(places))
StoreReplace(f) ==
  LET t == fetcher[f]
      final == [i \in DOMAIN disk |-> IF i \in MyTemp(f) THEN Renamed(disk[i]) ELSE disk[i]]
  IN  /\ t.at = "temp"
      /\ fetcher' = [fetcher EXCEPT ![f].at = "parsed"]
      /\ disk' = IF MyTemp(f) = {} THEN disk ELSE Dropped(final, EntryFor(t.o, t.etag))
      /\ UNCHANGED <<bucket, row, reader, lru, since, changes>>

\* The file is parsed and its row written with the listing's etag.
Persist(f) ==
  /\ fetcher[f].at = "parsed"
  /\ row' = [row EXCEPT ![fetcher[f].o] = fetcher[f].etag]
  /\ fetcher' = [fetcher EXCEPT ![f] = IdleThread]
  /\ UNCHANGED <<bucket, disk, reader, lru, since, changes>>
Crash(f) ==
  /\ fetcher[f] # IdleThread
  /\ changes < MaxChanges /\ changes' = changes + 1
  /\ fetcher' = [fetcher EXCEPT ![f] = IdleThread]
  /\ disk' = [i \in DOMAIN disk |-> IF disk[i].temp /\ disk[i].by = f
                                    THEN [disk[i] EXCEPT !.by = Gone] ELSE disk[i]]
  /\ UNCHANGED <<bucket, row, reader, lru, since>>

SizeSum(s) == FoldSeq(LAMBDA e, n : SizeOf[e.bytes[2]] + n, 0, s)
\* What is left when the oldest go first, until the rest is within a cap or
\* nothing is left.
Newest(s, cap) ==
  LET fits == {i \in 0..Len(s) : i = Len(s) \/ SizeSum(SubSeq(s, i + 1, Len(s))) <= cap}
  IN  SubSeq(s, Min(fits) + 1, Len(s))
PruneDisk ==
  /\ SizeSum(disk) > DiskCap
  /\ disk' = Newest(disk, DiskCap)
  /\ UNCHANGED <<bucket, row, fetcher, reader, lru, since, changes>>

(***************************************************************************)
(* The transcript endpoint.                                                *)
(***************************************************************************)
\* Mutant: the object is not part of the key.
EtagOnly(o, etag) == <<etag>>
\* transcript_key
CacheKey(o, etag) == <<o, etag>>

\* The place of a key in an ordered dictionary, and the dictionary without it.
At(s, key) == {i \in DOMAIN s : s[i].key = key}
Without(s, key) == Dropped(s, At(s, key))

Select(r, o) ==
  /\ reader[r].at \in {"idle", "served"} /\ row[o] # Gone
  /\ changes < MaxChanges /\ changes' = changes + 1
  /\ reader' = [reader EXCEPT ![r] = [at |-> "selected", o |-> o, etag |-> row[o], bytes |-> Gone]]
  /\ UNCHANGED <<bucket, row, disk, fetcher, lru, since>>
\* _IdleLRU.get: a hit moves the entry to the end.
Get(r) ==
  LET t == reader[r]
      key == CacheKey(t.o, t.etag)
  IN  /\ t.at = "selected"
      /\ \/ At(lru, key) = {} /\ reader' = [reader EXCEPT ![r].at = "missed"] /\ UNCHANGED lru
         \/ \E i \in At(lru, key) :
              /\ reader' = [reader EXCEPT ![r].at = "served", ![r].bytes = lru[i].bytes]
              /\ lru' = Append(Without(lru, key), lru[i])
      /\ UNCHANGED <<bucket, row, disk, fetcher, since, changes>>
Read(r) ==
  LET t == reader[r]
  IN  /\ t.at = "missed"
      /\ reader' = [reader EXCEPT ![r] =
           IF bucket[t.o] = Gone THEN IdleThread
           ELSE [t EXCEPT !.at = "got", !.bytes = <<t.o, bucket[t.o]>>]]
      /\ UNCHANGED <<bucket, row, disk, fetcher, lru, since, changes>>
\* _IdleLRU.put: replace, then evict the least recently used until it fits;
\* what is larger than the cap is not cached at all.
Replaced(key, bytes) ==
  LET n == SizeOf[bytes[2]]
  IN  IF n > LruCap THEN lru
      ELSE Append(Newest(Without(lru, key), LruCap - n), [key |-> key, bytes |-> bytes])
PutTranscript(r) ==
  LET t == reader[r]
      key == CacheKey(t.o, t.etag)
  IN  /\ t.at = "got"
      /\ lru' = Replaced(key, t.bytes)
      /\ reader' = [reader EXCEPT ![r].at = "served"]
      /\ UNCHANGED <<bucket, row, disk, fetcher, since, changes>>
\* Entries idle for longer than idle_seconds: the least recently used ones.
EvictIdle ==
  /\ lru # <<>>
  /\ changes < MaxChanges /\ changes' = changes + 1
  /\ lru' = Tail(lru)
  /\ UNCHANGED <<bucket, row, disk, fetcher, reader, since>>
\* The orphan sweep: the row goes, and what is cached for it.
SweepOrphan(o) ==
  /\ bucket[o] = Gone /\ row[o] # Gone
  /\ row' = [row EXCEPT ![o] = Gone]
  /\ lru' = Without(lru, CacheKey(o, row[o]))
  /\ UNCHANGED <<bucket, disk, fetcher, reader, since, changes>>

BytesNext ==
  \/ \E o \in Objects : SweepOrphan(o) \/ \E c \in Contents \cup {Gone} : Change(o, c)
  \/ \E f \in Fetchers :
       \/ \E o \in Objects : List(f, o)
       \/ FetchHit(f) \/ FetchGet(f) \/ StoreTemp(f) \/ StoreReplace(f) \/ Persist(f) \/ Crash(f)
  \/ PruneDisk
  \/ \E r \in Readers :
       \/ \E o \in Objects : Select(r, o)
       \/ Get(r) \/ Read(r) \/ PutTranscript(r)
  \/ EvictIdle

BytesSpec == BytesInit /\ [][BytesNext]_bytesVars

(***************************************************************************)
(* Properties.                                                             *)
(***************************************************************************)
\* The named exception of what follows: the disk cache compares key, etag and
\* length.  Bytes that an object held after it was listed with the etag, and
\* that were stored under it because the GET came after the replacement, are
\* taken for those of the etag when they are as long, once these were put back.
KeptUnderOlderEtag(t) ==
  t.bytes[2] \in since[t.o][t.etag] /\ SizeOf[t.bytes[2]] = SizeOf[t.etag]

\* What the ingest parses is that object's, and as it was at some moment since
\* its listing, also when it was replaced between listing and GET, so that the
\* disk cache holds newer bytes under the older etag, and then put back: but for
\* newer bytes of the same length (r2.py:321-359, blob_cache.py:62-80).
ParsedSinceListing ==
  \A f \in Fetchers : fetcher[f].at = "parsed" =>
    /\ fetcher[f].bytes[1] = fetcher[f].o
    /\ fetcher[f].bytes[2] \in fetcher[f].held \/ KeptUnderOlderEtag(fetcher[f])

\* A transcript that is served is that object's, never another's with an
\* equal etag, and nothing it held only before it was first listed with the
\* etag of the answer (api_sessions.py:18-44, cache.py:94-108).
ServedNotOlder ==
  \A r \in Readers : reader[r].at = "served" =>
    reader[r].bytes[1] = reader[r].o /\ reader[r].bytes[2] \in since[reader[r].o][reader[r].etag]

(***************************************************************************)
(* Why: the inductive invariant.  What an object holds now is among what   *)
(* it has held since anything it once held; a thread that has listed an    *)
(* object, or read its row, and every entry of either cache, hold bytes of *)
(* that object from after it was first listed so.                          *)
(***************************************************************************)
Current(o) == bucket[o] # Gone =>
  \A c \in Contents : since[o][c] # {} \/ c = bucket[o] => bucket[o] \in since[o][c]
OfObject(bytes, o, held) == bytes[1] = o /\ bytes[2] \in held

FetcherStates ==
  {IdleThread} \cup
  [at : {"listed", "got", "temp", "parsed"}, o : Objects, etag : Contents,
   held : SUBSET Contents, bytes : Bytes \cup {Gone}]
ReaderStates ==
  {IdleThread} \cup
  [at : {"selected", "missed", "got", "served"}, o : Objects, etag : Contents,
   bytes : Bytes \cup {Gone}]

FetcherHolds(f) == fetcher[f].at # "idle" =>
  /\ fetcher[f].etag \in fetcher[f].held
  /\ fetcher[f].held \subseteq since[fetcher[f].o][fetcher[f].etag]
  /\ bucket[fetcher[f].o] # Gone => bucket[fetcher[f].o] \in fetcher[f].held
  /\ fetcher[f].at # "listed" =>
       /\ fetcher[f].bytes \in Bytes /\ fetcher[f].bytes[1] = fetcher[f].o
       /\ \/ fetcher[f].bytes[2] \in fetcher[f].held
          \/ fetcher[f].at = "parsed" /\ KeptUnderOlderEtag(fetcher[f])
ReaderHolds(r) == reader[r].at # "idle" =>
  /\ since[reader[r].o][reader[r].etag] # {}
  /\ reader[r].at \in {"got", "served"} =>
       /\ reader[r].bytes \in Bytes
       /\ OfObject(reader[r].bytes, reader[r].o, since[reader[r].o][reader[r].etag])

DiskEntries ==
  {e \in [o : Objects, etag : Contents, bytes : Bytes, temp : BOOLEAN, by : Fetchers \cup {Gone}] :
     OfObject(e.bytes, e.o, since[e.o][e.etag])}
LruEntries ==
  {e \in [key : Objects \X Contents, bytes : Bytes] :
     OfObject(e.bytes, e.key[1], since[e.key[1]][e.key[2]])}

BytesInv ==
  /\ fetcher \in [Fetchers -> FetcherStates] /\ reader \in [Readers -> ReaderStates]
  /\ since \in [Objects -> [Contents -> SUBSET Contents]]
  /\ disk \in Seq(DiskEntries) /\ lru \in Seq(LruEntries)
  /\ \A o \in Objects : Current(o) /\ (row[o] # Gone => since[o][row[o]] # {})
  /\ \A f \in Fetchers : FetcherHolds(f)
  /\ \A r \in Readers : ReaderHolds(r)
=============================================================================
