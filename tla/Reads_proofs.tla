---------------------------- MODULE Reads_proofs ----------------------------
(***************************************************************************)
(* What is read, for every value of the constants: the listing of the      *)
(* buckets and what a run skips or sweeps after it, the bytes of objects   *)
(* behind the two caches, the readouts of browser telemetry, and what the  *)
(* statements of a dashboard response see (modules Listing, ObjectBytes,   *)
(* WebMetrics and Dashboard, as ReadParts has them).                       *)
(***************************************************************************)
EXTENDS ReadParts, FiniteSetTheorems, SequenceTheorems, WellFoundedInduction, TLAPS

-----------------------------------------------------------------------------
\* Least and greatest numbers: a nonempty set of naturals has a least element,
\* and with a bound a greatest one.
LEMMA LeastOf ==
  ASSUME NEW T, T \subseteq Nat, T # {}
  PROVE  \E x \in T : \A y \in T : x <= y
<1>1. IsWellFoundedOn(OpToRel(<, Nat), Nat)
  BY NatLessThanWellFounded
<1>2. \A x, y \in Nat : y < x => <<y, x>> \in OpToRel(<, Nat)
  BY DEF OpToRel
<1>3. \A T2 \in SUBSET Nat : T2 # {} =>
        \E x \in T2 : \A y \in T2 : ~(<<y, x>> \in OpToRel(<, Nat))
  BY <1>1, WFMin
<1>4. ASSUME NEW R, \A x, y \in Nat : y < x => <<y, x>> \in R,
             \E x \in T : \A y \in T : ~(<<y, x>> \in R)
      PROVE  \E x \in T : \A y \in T : x <= y
  <2>1. PICK x \in T : \A y \in T : ~(<<y, x>> \in R)
    BY <1>4
  <2>2. \A y \in T : x \in Nat /\ y \in Nat /\ ~(y < x)
    BY <1>4, <2>1
  <2>3. \A y \in T : x <= y
    BY <2>2
  <2> QED BY <2>3
<1>5. \E x \in T : \A y \in T : ~(<<y, x>> \in OpToRel(<, Nat))
  BY <1>3, Zenon
<1> QED BY <1>2, <1>4, <1>5, Zenon

LEMMA GreatestOf ==
  ASSUME NEW T, NEW n \in Nat, T \subseteq 0..n, T # {}
  PROVE  \E x \in T : \A y \in T : y <= x
<1> DEFINE D == {n - y : y \in T}
<1>1. D \subseteq Nat
  OBVIOUS
<1>2. D # {}
  OBVIOUS
<1> HIDE DEF D
<1>3. PICK m \in D : \A k \in D : m <= k
  BY <1>1, <1>2, LeastOf
<1>4. PICK x \in T : m = n - x
  BY <1>3 DEF D
<1>5. \A y \in T : n - x <= n - y
  BY <1>3, <1>4 DEF D
<1>6. \A y \in T : y <= x
  BY <1>5
<1> QED BY <1>6

-----------------------------------------------------------------------------
\* ObjectBytes.

BytesOK == O!BytesTypeOK /\ O!BytesInv

\* The sequences of the caches: what is dropped or pruned leaves entries alone.
LEMMA DroppedIn ==
  ASSUME NEW X, NEW s \in Seq(X), NEW places, places \subseteq DOMAIN s
  PROVE  O!Dropped(s, places) \in Seq(X)
<1>1. CASE places = {}
  BY <1>1 DEF O!Dropped
<1>2. CASE places # {}
  <2>1. DOMAIN s = 1..Len(s) /\ Len(s) \in Nat /\ \A i \in 1..Len(s) : s[i] \in X
    BY LenProperties, ElementOfSeq
  <2>2. PICK x \in places : \A y \in places : x <= y
    BY <1>2, <2>1, LeastOf
  <2>3. O!Min(places) \in places
    BY <2>2 DEF O!Min
  <2>4. PICK n \in 1..Len(s) : n = O!Min(places)
    BY <2>1, <2>3
  <2>5. SubSeq(s, 1, n - 1) \in Seq(X) /\ SubSeq(s, n + 1, Len(s)) \in Seq(X)
    <3>1. \A i \in 1..(n - 1) : s[i] \in X
      BY <2>1
    <3>2. \A i \in (n + 1)..Len(s) : s[i] \in X
      BY <2>1
    <3>3. n - 1 \in Int /\ n + 1 \in Int /\ 1 \in Int /\ Len(s) \in Int
      BY <2>1
    <3>4. SubSeq(s, 1, n - 1) \in Seq(X)
      BY <3>1, <3>3, SubSeqProperties
    <3>5. SubSeq(s, n + 1, Len(s)) \in Seq(X)
      BY <3>2, <3>3, SubSeqProperties
    <3> QED BY <3>4, <3>5
  <2>6. O!Dropped(s, places) = SubSeq(s, 1, n - 1) \o SubSeq(s, n + 1, Len(s))
    BY <1>2, <2>4 DEF O!Dropped, O!RemoveAt
  <2> QED BY <2>5, <2>6, ConcatProperties
<1> QED BY <1>1, <1>2

LEMMA NewestIn ==
  ASSUME NEW X, NEW s \in Seq(X), NEW cap
  PROVE  O!Newest(s, cap) \in Seq(X)
<1> DEFINE fits == {i \in 0..Len(s) : i = Len(s) \/ O!SizeSum(SubSeq(s, i + 1, Len(s))) <= cap}
<1>1. DOMAIN s = 1..Len(s) /\ Len(s) \in Nat /\ \A i \in 1..Len(s) : s[i] \in X
  BY LenProperties, ElementOfSeq
<1>2. fits \subseteq Nat /\ Len(s) \in fits
  BY <1>1
<1>3. O!Newest(s, cap) = SubSeq(s, O!Min(fits) + 1, Len(s))
  BY DEF O!Newest
<1> HIDE DEF fits
<1>4. PICK x \in fits : \A y \in fits : x <= y
  BY <1>2, LeastOf
<1>5. O!Min(fits) \in fits
  BY <1>4 DEF O!Min
<1>6. PICK n \in Nat : n = O!Min(fits)
  BY <1>2, <1>5
<1>7. \A i \in (n + 1)..Len(s) : s[i] \in X
  BY <1>1
<1>8. n + 1 \in Int /\ Len(s) \in Int
  BY <1>1
<1>9. SubSeq(s, n + 1, Len(s)) \in Seq(X)
  BY <1>7, <1>8, SubSeqProperties
<1> QED BY <1>3, <1>6, <1>9

\* What a thread holds, for the objects and histories as they are.
\* Bytes a thread may have for what it listed; "done" if it has no more to store.
MayHave(t, bytes, done) ==
  /\ bytes \in O!Bytes /\ bytes[1] = t.o
  /\ \/ bytes[2] \in t.held
     \/ done /\ bytes[2] \in since[t.o][t.etag] /\ SizeOf[bytes[2]] = SizeOf[t.etag]
FetcherFits(t) ==
  /\ t \in O!FetcherStates
  /\ t.at # "idle" =>
       /\ t.etag \in t.held /\ t.held \subseteq since[t.o][t.etag]
       /\ bucket[t.o] # Gone => bucket[t.o] \in t.held
       /\ t.at # "listed" => MayHave(t, t.bytes, t.at = "parsed")
ReaderFits(t) ==
  /\ t \in O!ReaderStates
  /\ t.at # "idle" =>
       /\ since[t.o][t.etag] # {}
       /\ t.at \in {"got", "served"} =>
            t.bytes \in O!Bytes /\ O!OfObject(t.bytes, t.o, since[t.o][t.etag])

LEMMA BytesParts ==
  ASSUME BytesOK
  PROVE  /\ bucket \in [Objects -> Contents \cup {Gone}] /\ row \in [Objects -> Contents \cup {Gone}]
         /\ since \in [Objects -> [Contents -> SUBSET Contents]]
         /\ DOMAIN fetcher = Fetchers /\ DOMAIN reader = Readers
         /\ disk \in Seq(O!DiskEntries) /\ lru \in Seq(O!LruEntries)
         /\ \A o \in Objects : O!Current(o) /\ (row[o] # Gone => since[o][row[o]] # {})
         /\ \A f \in Fetchers : FetcherFits(fetcher[f])
         /\ \A r \in Readers : ReaderFits(reader[r])
<1>1. \A f \in Fetchers : FetcherFits(fetcher[f])
  BY DEF BytesOK, O!BytesInv, O!FetcherHolds, FetcherFits, MayHave, O!KeptUnderOlderEtag
<1> QED BY <1>1 DEF BytesOK, O!BytesTypeOK, O!BytesInv, O!ReaderHolds, ReaderFits

LEMMA EntriesOf ==
  ASSUME BytesOK
  PROVE  /\ \A i \in DOMAIN disk : disk[i] \in O!DiskEntries
         /\ \A i \in DOMAIN lru : lru[i] \in O!LruEntries
BY BytesParts, LenProperties, ElementOfSeq

LEMMA FetcherFields ==
  ASSUME NEW t \in O!FetcherStates, t.at # "idle"
  PROVE  /\ t \in [at : {"listed", "got", "temp", "parsed"}, o : Objects, etag : Contents,
                    held : SUBSET Contents, bytes : O!Bytes \cup {Gone}]
         /\ t.o \in Objects /\ t.etag \in Contents /\ t.held \subseteq Contents
         /\ t.at \in {"listed", "got", "temp", "parsed"}
<1>1. t # O!IdleThread
  BY DEF O!IdleThread
<1> QED BY <1>1 DEF O!FetcherStates

LEMMA ReaderFields ==
  ASSUME NEW t \in O!ReaderStates, t.at # "idle"
  PROVE  /\ t \in [at : {"selected", "missed", "got", "served"}, o : Objects, etag : Contents,
                    bytes : O!Bytes \cup {Gone}]
         /\ t.o \in Objects /\ t.etag \in Contents
<1>1. t # O!IdleThread
  BY DEF O!IdleThread
<1> QED BY <1>1 DEF O!ReaderStates

LEMMA IdleFits ==
  FetcherFits(O!IdleThread) /\ ReaderFits(O!IdleThread)
BY DEF FetcherFits, ReaderFits, O!IdleThread, O!FetcherStates, O!ReaderStates

\* The type invariant, from the ranges of the state.
LEMMA BytesTypes ==
  ASSUME NEW D, NEW d \in Seq(D), NEW H, NEW l \in Seq(H),
         \A e \in D : e.bytes \in O!Bytes /\ e.temp \in BOOLEAN,
         \A e \in H : e.bytes \in O!Bytes,
         NEW x \in [Fetchers -> O!FetcherStates], NEW y \in [Readers -> O!ReaderStates]
  PROVE  /\ \A i \in DOMAIN d : d[i].bytes \in O!Bytes /\ d[i].temp \in BOOLEAN
         /\ \A i \in DOMAIN l : l[i].bytes \in O!Bytes
         /\ \A f \in Fetchers : x[f].at \in {"idle", "listed", "got", "temp", "parsed"}
         /\ \A r \in Readers : y[r].at \in {"idle", "selected", "missed", "got", "served"}
<1>1. \A i \in DOMAIN d : d[i] \in D
  BY LenProperties, ElementOfSeq
<1>2. \A i \in DOMAIN l : l[i] \in H
  BY LenProperties, ElementOfSeq
<1>3. ASSUME NEW t \in O!FetcherStates PROVE t.at \in {"idle", "listed", "got", "temp", "parsed"}
  BY FetcherFields
<1>4. ASSUME NEW t \in O!ReaderStates PROVE t.at \in {"idle", "selected", "missed", "got", "served"}
  BY ReaderFields
<1> QED BY <1>1, <1>2, <1>3, <1>4

\* Steps that leave the bucket alone: one thread, one cache or one row changes.
LEMMA BucketStays ==
  ASSUME BytesOK, bucket' = bucket, since' = since,
         row' \in [Objects -> Contents \cup {Gone}],
         \A o \in Objects : row'[o] # Gone => since[o][row'[o]] # {},
         disk' \in Seq(O!DiskEntries), lru' \in Seq(O!LruEntries),
         \/ fetcher' = fetcher
         \/ \E f \in Fetchers : \E t : FetcherFits(t) /\ fetcher' = [fetcher EXCEPT ![f] = t],
         \/ reader' = reader
         \/ \E r \in Readers : \E t : ReaderFits(t) /\ reader' = [reader EXCEPT ![r] = t]
  PROVE  BytesOK'
<1>1. fetcher \in [Fetchers -> O!FetcherStates] /\ reader \in [Readers -> O!ReaderStates]
  BY DEF BytesOK, O!BytesInv
<1>2. /\ fetcher' \in [Fetchers -> O!FetcherStates]
      /\ \A f \in Fetchers : \E t : fetcher'[f] = t /\ FetcherFits(t)
  <2>1. CASE fetcher' = fetcher
    BY <1>1, <2>1, BytesParts
  <2>2. ASSUME NEW f \in Fetchers, NEW t, FetcherFits(t), fetcher' = [fetcher EXCEPT ![f] = t]
        PROVE  /\ fetcher' \in [Fetchers -> O!FetcherStates]
               /\ \A g \in Fetchers : \E u : fetcher'[g] = u /\ FetcherFits(u)
    <3>1. t \in O!FetcherStates
      BY <2>2 DEF FetcherFits
    <3>2. fetcher' \in [Fetchers -> O!FetcherStates] /\ fetcher'[f] = t
          /\ \A g \in Fetchers : g # f => fetcher'[g] = fetcher[g]
      BY <1>1, <2>2, <3>1
    <3> QED BY <2>2, <3>2, BytesParts
  <2> QED BY <2>1, <2>2
<1>3. /\ reader' \in [Readers -> O!ReaderStates]
      /\ \A r \in Readers : \E t : reader'[r] = t /\ ReaderFits(t)
  <2>1. CASE reader' = reader
    BY <1>1, <2>1, BytesParts
  <2>2. ASSUME NEW r \in Readers, NEW t, ReaderFits(t), reader' = [reader EXCEPT ![r] = t]
        PROVE  /\ reader' \in [Readers -> O!ReaderStates]
               /\ \A g \in Readers : \E u : reader'[g] = u /\ ReaderFits(u)
    <3>1. t \in O!ReaderStates
      BY <2>2 DEF ReaderFits
    <3>2. reader' \in [Readers -> O!ReaderStates] /\ reader'[r] = t
          /\ \A g \in Readers : g # r => reader'[g] = reader[g]
      BY <1>1, <2>2, <3>1
    <3> QED BY <2>2, <3>2, BytesParts
  <2> QED BY <2>1, <2>2
<1>4. ASSUME NEW f \in Fetchers PROVE O!FetcherHolds(f)'
  <2>1. PICK t : fetcher'[f] = t /\ FetcherFits(t)
    BY <1>2
  <2> QED BY <2>1 DEF FetcherFits, O!FetcherHolds, MayHave, O!KeptUnderOlderEtag
<1>5. ASSUME NEW r \in Readers PROVE O!ReaderHolds(r)'
  <2>1. PICK t : reader'[r] = t /\ ReaderFits(t)
    BY <1>3
  <2> QED BY <2>1 DEF ReaderFits, O!ReaderHolds
<1>6. \A o \in Objects : O!Current(o)' /\ (row'[o] # Gone => since'[o][row'[o]] # {})
  BY BytesParts DEF O!Current
<1>7. lru' \in Seq(O!LruEntries') /\ disk' \in Seq(O!DiskEntries')
  <2>1. O!LruEntries' = O!LruEntries /\ O!DiskEntries' = O!DiskEntries
    BY DEF O!LruEntries, O!DiskEntries, O!OfObject, O!Bytes
  <2> QED BY <2>1
<1>8. O!BytesInv'
  BY <1>2, <1>3, <1>4, <1>5, <1>6, <1>7, BytesParts DEF O!BytesInv
<1>9. O!BytesTypeOK'
  <2>1. /\ \A e \in O!LruEntries' : e.bytes \in O!Bytes
        /\ \A e \in O!DiskEntries' : e.bytes \in O!Bytes /\ e.temp \in BOOLEAN
    BY DEF O!LruEntries, O!DiskEntries
  <2>3. /\ \A i \in DOMAIN disk' : disk'[i].bytes \in O!Bytes /\ disk'[i].temp \in BOOLEAN
        /\ \A i \in DOMAIN lru' : lru'[i].bytes \in O!Bytes
        /\ \A f \in Fetchers : fetcher'[f].at \in {"idle", "listed", "got", "temp", "parsed"}
        /\ \A r \in Readers : reader'[r].at \in {"idle", "selected", "missed", "got", "served"}
    BY <1>2, <1>3, <1>7, <2>1, BytesTypes
  <2> QED BY <2>3, BytesParts DEF O!BytesTypeOK
<1> QED BY <1>8, <1>9 DEF BytesOK

\* An object changes: what it holds now enters every history that has begun, and
\* what the threads that listed it may come by.
LEMMA ChangeStep ==
  ASSUME BytesOK, NEW o \in Objects, NEW c \in Contents \cup {Gone}, O!Change(o, c)
  PROVE  BytesOK'
<1>1. /\ bucket' = [bucket EXCEPT ![o] = c]
      /\ since' = [since EXCEPT ![o] = [d \in Contents |->
           IF c = Gone THEN since[o][d] ELSE IF d = c THEN since[o][d] \cup {c}
           ELSE IF since[o][d] = {} THEN {} ELSE since[o][d] \cup {c}]]
      /\ fetcher' = [f \in Fetchers |->
           IF fetcher[f].at = "idle" \/ fetcher[f].o # o \/ c = Gone THEN fetcher[f]
           ELSE [fetcher[f] EXCEPT !.held = fetcher[f].held \cup {c}]]
      /\ row' = row /\ disk' = disk /\ reader' = reader /\ lru' = lru
  BY DEF O!Change
<1>2. /\ bucket' \in [Objects -> Contents \cup {Gone}] /\ bucket'[o] = c
      /\ \A p \in Objects : p # o => bucket'[p] = bucket[p] /\ since'[p] = since[p]
  BY <1>1, BytesParts
<1>3. \A d \in Contents :
        since'[o][d] = IF c = Gone THEN since[o][d] ELSE IF d = c THEN since[o][d] \cup {c}
                       ELSE IF since[o][d] = {} THEN {} ELSE since[o][d] \cup {c}
  BY <1>1, BytesParts
<1>4. since' \in [Objects -> [Contents -> SUBSET Contents]]
  <2> DEFINE n == [d \in Contents |->
           IF c = Gone THEN since[o][d] ELSE IF d = c THEN since[o][d] \cup {c}
           ELSE IF since[o][d] = {} THEN {} ELSE since[o][d] \cup {c}]
  <2>1. n \in [Contents -> SUBSET Contents]
    BY BytesParts
  <2>2. since' = [since EXCEPT ![o] = n]
    BY <1>1
  <2> HIDE DEF n
  <2> QED BY <2>1, <2>2, BytesParts
<1>5. ASSUME NEW p \in Objects, NEW d \in Contents
      PROVE  /\ since[p][d] \subseteq since'[p][d]
             /\ p = o /\ c # Gone /\ since[p][d] # {} => c \in since'[p][d]
  <2>1. CASE p = o
    BY <1>3, <2>1
  <2>2. CASE p # o
    BY <1>2, <2>2
  <2> QED BY <2>1, <2>2
<1>6. ASSUME NEW p \in Objects PROVE O!Current(p)'
  <2>1. CASE p = o
    <3>1. ASSUME NEW d \in Contents, c # Gone, since'[o][d] # {} \/ d = c
          PROVE  c \in since'[o][d]
      BY <1>3, <3>1
    <3> QED BY <1>2, <2>1, <3>1 DEF O!Current
  <2>2. CASE p # o
    <3>1. O!Current(p) /\ bucket'[p] = bucket[p] /\ since'[p] = since[p]
      BY <1>2, <2>2, BytesParts
    <3> QED BY <3>1 DEF O!Current
  <2> QED BY <2>1, <2>2
<1>7. ASSUME NEW p \in Objects, row'[p] # Gone PROVE since'[p][row'[p]] # {}
  <2>1. row[p] # Gone /\ since[p][row[p]] # {} /\ row[p] \in Contents
    BY <1>1, <1>7, BytesParts
  <2> QED BY <1>1, <1>5, <2>1
<1>8. ASSUME NEW e \in O!LruEntries PROVE e \in O!LruEntries'
  <2>1. e.key[1] \in Objects /\ e.key[2] \in Contents
    BY DEF O!LruEntries
  <2>2. since[e.key[1]][e.key[2]] \subseteq since'[e.key[1]][e.key[2]]
    BY <1>5, <2>1
  <2> QED BY <2>2 DEF O!LruEntries, O!OfObject
<1>d. ASSUME NEW e \in O!DiskEntries PROVE e \in O!DiskEntries'
  <2>1. e.o \in Objects /\ e.etag \in Contents
    BY DEF O!DiskEntries
  <2>2. since[e.o][e.etag] \subseteq since'[e.o][e.etag]
    BY <1>5, <2>1
  <2> QED BY <2>2 DEF O!DiskEntries, O!OfObject
<1>9. lru' \in Seq(O!LruEntries') /\ disk' \in Seq(O!DiskEntries')
  <2>1. O!LruEntries \subseteq O!LruEntries' /\ O!DiskEntries \subseteq O!DiskEntries'
    BY <1>8, <1>d
  <2> QED BY <1>1, <2>1, BytesParts, SeqMonotonic
<1>10. ASSUME NEW f \in Fetchers
       PROVE  fetcher'[f] \in O!FetcherStates /\ O!FetcherHolds(f)'
  <2>1. PICK t : t = fetcher[f] /\ FetcherFits(t)
    BY BytesParts
  <2>2. PICK u : u = fetcher'[f]
    OBVIOUS
  <2>3. CASE t.at = "idle"
    <3>1. u = t
      BY <1>1, <2>1, <2>2, <2>3
    <3> QED BY <2>1, <2>2, <2>3, <3>1 DEF FetcherFits, O!FetcherHolds
  <2>4. CASE t.at # "idle"
    <3>1. /\ t \in [at : {"listed", "got", "temp", "parsed"}, o : Objects, etag : Contents,
                     held : SUBSET Contents, bytes : O!Bytes \cup {Gone}]
          /\ t.o \in Objects /\ t.etag \in Contents /\ t.held \subseteq Contents
      BY <2>1, <2>4, FetcherFields DEF FetcherFits
    <3>2. PICK h : h = IF t.o # o \/ c = Gone THEN t.held ELSE t.held \cup {c}
      OBVIOUS
    <3>3. h \in SUBSET Contents /\ t.held \subseteq h
      BY <3>1, <3>2
    <3>4. u = [t EXCEPT !.held = h]
      BY <1>1, <2>1, <2>2, <2>4, <3>1, <3>2
    <3>5. /\ u \in [at : {"listed", "got", "temp", "parsed"}, o : Objects, etag : Contents,
                     held : SUBSET Contents, bytes : O!Bytes \cup {Gone}]
          /\ u.at = t.at /\ u.o = t.o /\ u.etag = t.etag /\ u.held = h /\ u.bytes = t.bytes
      BY <3>1, <3>3, <3>4
    <3>6. /\ t.etag \in t.held /\ t.held \subseteq since[t.o][t.etag]
          /\ bucket[t.o] # Gone => bucket[t.o] \in t.held
          /\ t.at # "listed" => MayHave(t, t.bytes, t.at = "parsed")
      BY <2>1, <2>4 DEF FetcherFits
    <3>7. h \subseteq since'[t.o][t.etag]
      <4>1. since[t.o][t.etag] # {} /\ since[t.o][t.etag] \subseteq since'[t.o][t.etag]
        BY <1>5, <3>1, <3>6
      <4>2. h # t.held => t.o = o /\ c # Gone
        BY <3>2
      <4>3. h # t.held => c \in since'[t.o][t.etag]
        BY <1>5, <3>1, <4>1, <4>2
      <4> QED BY <3>2, <3>6, <4>1, <4>3
    <3>8. bucket'[t.o] # Gone => bucket'[t.o] \in h
      BY <1>2, <3>1, <3>2, <3>6
    <3>9. t.at # "listed" =>
            /\ t.bytes \in O!Bytes /\ t.bytes[1] = t.o
            /\ \/ t.bytes[2] \in h
               \/ /\ t.at = "parsed" /\ t.bytes[2] \in since'[t.o][t.etag]
                  /\ SizeOf[t.bytes[2]] = SizeOf[t.etag]
      BY <1>5, <3>1, <3>3, <3>6 DEF MayHave
    <3>10. u \in O!FetcherStates
      BY <3>5 DEF O!FetcherStates
    <3> QED BY <2>2, <3>3, <3>5, <3>6, <3>7, <3>8, <3>9, <3>10
            DEF O!FetcherHolds, O!Bytes, O!KeptUnderOlderEtag
  <2> QED BY <2>3, <2>4
<1>11. ASSUME NEW r \in Readers PROVE O!ReaderHolds(r)'
  <2>1. PICK t : t = reader[r] /\ ReaderFits(t)
    BY BytesParts
  <2>2. CASE t.at = "idle"
    BY <1>1, <2>1, <2>2 DEF O!ReaderHolds
  <2>3. CASE t.at # "idle"
    <3>1. t.o \in Objects /\ t.etag \in Contents
      BY <2>1, <2>3, ReaderFields DEF ReaderFits
    <3>2. since[t.o][t.etag] \subseteq since'[t.o][t.etag]
      BY <1>5, <3>1
    <3> QED BY <1>1, <2>1, <2>3, <3>2 DEF ReaderFits, O!ReaderHolds, O!OfObject, O!Bytes
  <2> QED BY <2>2, <2>3
<1>12. fetcher' \in [Fetchers -> O!FetcherStates] /\ reader' \in [Readers -> O!ReaderStates]
  <2>1. reader \in [Readers -> O!ReaderStates]
    BY DEF BytesOK, O!BytesInv
  <2>2. fetcher' = [f \in Fetchers |-> fetcher'[f]]
    BY <1>1
  <2> QED BY <1>1, <1>10, <2>1, <2>2
<1>13. O!BytesInv'
  BY <1>1, <1>4, <1>6, <1>7, <1>9, <1>10, <1>11, <1>12, BytesParts DEF O!BytesInv
<1>14. O!BytesTypeOK'
  <2>1. /\ \A e \in O!LruEntries' : e.bytes \in O!Bytes
        /\ \A e \in O!DiskEntries' : e.bytes \in O!Bytes /\ e.temp \in BOOLEAN
    BY DEF O!LruEntries, O!DiskEntries
  <2>3. /\ \A i \in DOMAIN disk' : disk'[i].bytes \in O!Bytes /\ disk'[i].temp \in BOOLEAN
        /\ \A i \in DOMAIN lru' : lru'[i].bytes \in O!Bytes
        /\ \A f \in Fetchers : fetcher'[f].at \in {"idle", "listed", "got", "temp", "parsed"}
        /\ \A r \in Readers : reader'[r].at \in {"idle", "selected", "missed", "got", "served"}
    BY <1>9, <1>12, <2>1, BytesTypes
  <2> QED BY <1>1, <1>2, <2>3, BytesParts DEF O!BytesTypeOK
<1> QED BY <1>13, <1>14 DEF BytesOK

\* The bytes a thread gets are of the object as it is.
LEMMA GotFromBucket ==
  ASSUME BytesOK, NEW o \in Objects, bucket[o] # Gone
  PROVE  /\ bucket[o] \in Contents /\ <<o, bucket[o]>> \in O!Bytes
         /\ \A h : bucket[o] \in h => O!OfObject(<<o, bucket[o]>>, o, h)
         /\ \A c \in Contents : since[o][c] # {} \/ c = bucket[o] => bucket[o] \in since[o][c]
BY BytesParts DEF O!Bytes, O!OfObject, O!Current

LEMMA ListStep ==
  ASSUME BytesOK, NEW f \in Fetchers, NEW o \in Objects, O!List(f, o)
  PROVE  BytesOK'
<1>1. PICK t : t = [at |-> "listed", o |-> o, etag |-> bucket[o], held |-> {bucket[o]}, bytes |-> Gone]
  OBVIOUS
<1>2. /\ bucket[o] # Gone /\ fetcher' = [fetcher EXCEPT ![f] = t]
      /\ bucket' = bucket /\ row' = row /\ disk' = disk /\ reader' = reader /\ lru' = lru
      /\ since' = since
  BY <1>1 DEF O!List
<1>3. bucket[o] \in Contents /\ bucket[o] \in since[o][bucket[o]]
  BY <1>2, GotFromBucket
<1>4. t \in O!FetcherStates
  BY <1>1, <1>3 DEF O!FetcherStates
<1>5. FetcherFits(t)
  BY <1>1, <1>3, <1>4 DEF FetcherFits
<1> QED BY <1>2, <1>5, BucketStays, BytesParts

\* A thread that has listed its object comes by bytes of it.
LEMMA FetcherGets ==
  ASSUME BytesOK, NEW f \in Fetchers, fetcher[f].at = "listed",
         NEW at \in {"got", "parsed"}, NEW bytes, MayHave(fetcher[f], bytes, at = "parsed"),
         NEW m, m = [fetcher[f] EXCEPT !.at = at], NEW t, t = [m EXCEPT !.bytes = bytes]
  PROVE  FetcherFits(t)
<1>1. PICK u : u = fetcher[f] /\ FetcherFits(u)
  BY BytesParts
<1>2. u \in [at : {"listed", "got", "temp", "parsed"}, o : Objects, etag : Contents,
             held : SUBSET Contents, bytes : O!Bytes \cup {Gone}]
  BY <1>1, FetcherFields DEF FetcherFits
<1>3. /\ m \in [at : {"listed", "got", "temp", "parsed"}, o : Objects, etag : Contents,
                held : SUBSET Contents, bytes : O!Bytes \cup {Gone}]
      /\ m.at = at /\ m.o = u.o /\ m.etag = u.etag /\ m.held = u.held
  BY <1>1, <1>2
<1>b. bytes \in O!Bytes
  BY DEF MayHave
<1>4. /\ t \in [at : {"listed", "got", "temp", "parsed"}, o : Objects, etag : Contents,
                held : SUBSET Contents, bytes : O!Bytes \cup {Gone}]
      /\ t.at = at /\ t.bytes = bytes /\ t.o = u.o /\ t.etag = u.etag /\ t.held = u.held
  BY <1>2, <1>3, <1>b
<1>5. t \in O!FetcherStates
  BY <1>4 DEF O!FetcherStates
<1>6. MayHave(t, t.bytes, t.at = "parsed")
  BY <1>1, <1>4 DEF MayHave
<1> QED BY <1>1, <1>4, <1>5, <1>6 DEF FetcherFits

LEMMA FetchHitStep ==
  ASSUME BytesOK, NEW f \in Fetchers, O!FetchHit(f)
  PROVE  BytesOK'
<1>1. /\ fetcher[f].at = "listed"
      /\ bucket' = bucket /\ row' = row /\ disk' = disk /\ reader' = reader /\ lru' = lru
      /\ since' = since
  BY DEF O!FetchHit
<1>2. PICK i \in O!Hits(fetcher[f].o, fetcher[f].etag) :
        fetcher' = [fetcher EXCEPT ![f].at = "parsed", ![f].bytes = disk[i].bytes]
  BY DEF O!FetchHit
<1>3. PICK e : e = disk[i]
  OBVIOUS
<1>4. /\ e \in O!DiskEntries /\ e.o = fetcher[f].o /\ e.etag = fetcher[f].etag
      /\ SizeOf[e.bytes[2]] = SizeOf[fetcher[f].etag]
  BY <1>2, <1>3, EntriesOf DEF O!Hits, O!EntryFor
<1>5. e.bytes \in O!Bytes /\ O!OfObject(e.bytes, e.o, since[e.o][e.etag])
  BY <1>4 DEF O!DiskEntries
<1>8. MayHave(fetcher[f], e.bytes, TRUE)
  BY <1>4, <1>5 DEF O!OfObject, MayHave
<1>m. PICK m : m = [fetcher[f] EXCEPT !.at = "parsed"]
  OBVIOUS
<1>9. PICK t : t = [m EXCEPT !.bytes = e.bytes]
  OBVIOUS
<1>10. FetcherFits(t)
  BY <1>1, <1>8, <1>m, <1>9, FetcherGets
<1>11. fetcher' = [fetcher EXCEPT ![f] = t]
  BY <1>2, <1>3, <1>m, <1>9
<1> QED BY <1>1, <1>10, <1>11, BucketStays, BytesParts

LEMMA FetchGetStep ==
  ASSUME BytesOK, NEW f \in Fetchers, O!FetchGet(f)
  PROVE  BytesOK'
<1>1. /\ fetcher[f].at = "listed"
      /\ bucket' = bucket /\ row' = row /\ disk' = disk /\ reader' = reader /\ lru' = lru
      /\ since' = since
  BY DEF O!FetchGet
<1>2. PICK o \in Objects : o = fetcher[f].o
  BY <1>1, FetcherFields, BytesParts DEF FetcherFits
<1>m. PICK m : m = [fetcher[f] EXCEPT !.at = "got"]
  OBVIOUS
<1>3. PICK t : t = IF bucket[o] = Gone THEN O!IdleThread ELSE [m EXCEPT !.bytes = <<o, bucket[o]>>]
  OBVIOUS
<1>4. fetcher' = [fetcher EXCEPT ![f] = t]
  BY <1>2, <1>m, <1>3 DEF O!FetchGet
<1>5. FetcherFits(t)
  <2>1. CASE bucket[o] = Gone
    BY <1>3, <2>1, IdleFits
  <2>2. CASE bucket[o] # Gone
    <3>1. PICK bytes \in O!Bytes : bytes = <<o, bucket[o]>>
      BY <2>2, GotFromBucket
    <3>2. bucket[o] \in fetcher[f].held
      BY <1>1, <1>2, <2>2, BytesParts DEF FetcherFits
    <3>3. MayHave(fetcher[f], bytes, FALSE)
      BY <1>2, <3>1, <3>2 DEF MayHave
    <3>4. t = [m EXCEPT !.bytes = bytes]
      BY <1>3, <2>2, <3>1
    <3> QED BY <1>1, <1>m, <3>3, <3>4, FetcherGets
  <2> QED BY <2>1, <2>2
<1> QED BY <1>1, <1>4, <1>5, BucketStays, BytesParts

\* A thread that has its bytes goes on with them.
LEMMA FetcherGoesOn ==
  ASSUME BytesOK, NEW f \in Fetchers, fetcher[f].at \in {"got", "temp", "parsed"},
         NEW at \in {"temp", "parsed"}, at = "parsed" \/ fetcher[f].at # "parsed",
         NEW t, t = [fetcher[f] EXCEPT !.at = at]
  PROVE  FetcherFits(t) /\ fetcher[f].o \in Objects /\ fetcher[f].etag \in Contents
         /\ fetcher[f].bytes \in O!Bytes
         /\ O!OfObject(fetcher[f].bytes, fetcher[f].o, since[fetcher[f].o][fetcher[f].etag])
<1>1. PICK u : u = fetcher[f] /\ FetcherFits(u)
  BY BytesParts
<1>2. u \in [at : {"listed", "got", "temp", "parsed"}, o : Objects, etag : Contents,
             held : SUBSET Contents, bytes : O!Bytes \cup {Gone}]
  BY <1>1, FetcherFields DEF FetcherFits
<1>3. t = [u EXCEPT !.at = at]
  BY <1>1
<1>4. /\ t \in [at : {"listed", "got", "temp", "parsed"}, o : Objects, etag : Contents,
                held : SUBSET Contents, bytes : O!Bytes \cup {Gone}]
      /\ t.at = at /\ t.bytes = u.bytes /\ t.o = u.o /\ t.etag = u.etag /\ t.held = u.held
  BY <1>2, <1>3
<1>5. t \in O!FetcherStates
  BY <1>4 DEF O!FetcherStates
<1>6. /\ u.etag \in u.held /\ u.held \subseteq since[u.o][u.etag]
      /\ bucket[u.o] # Gone => bucket[u.o] \in u.held
      /\ MayHave(u, u.bytes, u.at = "parsed")
  BY <1>1 DEF FetcherFits
<1>7. FetcherFits(t)
  <2>1. MayHave(t, t.bytes, t.at = "parsed")
    BY <1>1, <1>4, <1>6 DEF MayHave
  <2> QED BY <1>4, <1>5, <1>6, <2>1 DEF FetcherFits
<1> QED BY <1>1, <1>2, <1>6, <1>7 DEF O!OfObject, MayHave

LEMMA StoreTempStep ==
  ASSUME BytesOK, NEW f \in Fetchers, O!StoreTemp(f)
  PROVE  BytesOK'
<1>1. /\ fetcher[f].at = "got"
      /\ bucket' = bucket /\ row' = row /\ reader' = reader /\ lru' = lru /\ since' = since
  BY DEF O!StoreTemp
<1>2. PICK e : e = [o |-> fetcher[f].o, etag |-> fetcher[f].etag, bytes |-> fetcher[f].bytes,
                    temp |-> TRUE, by |-> f]
  OBVIOUS
<1>3. PICK at \in {"temp", "parsed"} :
        /\ disk' = disk \/ disk' = Append(disk, e)
        /\ fetcher' = [fetcher EXCEPT ![f].at = at]
  BY <1>2 DEF O!StoreTemp
<1>4. PICK t : t = [fetcher[f] EXCEPT !.at = at]
  OBVIOUS
<1>5. /\ FetcherFits(t) /\ fetcher[f].o \in Objects /\ fetcher[f].etag \in Contents
      /\ fetcher[f].bytes \in O!Bytes
      /\ O!OfObject(fetcher[f].bytes, fetcher[f].o, since[fetcher[f].o][fetcher[f].etag])
  BY <1>1, <1>4, FetcherGoesOn
<1>6. e \in O!DiskEntries
  BY <1>2, <1>5 DEF O!DiskEntries
<1>7. disk' \in Seq(O!DiskEntries)
  BY <1>3, <1>6, BytesParts, AppendProperties
<1>8. fetcher' = [fetcher EXCEPT ![f] = t]
  BY <1>3, <1>4
<1> QED BY <1>1, <1>5, <1>7, <1>8, BucketStays, BytesParts

\* The entries of the disk cache, some of them renamed or orphaned.
LEMMA Relabelled ==
  ASSUME NEW d \in Seq(O!DiskEntries), NEW n,
         DOMAIN n = DOMAIN d, n = [i \in DOMAIN n |-> n[i]],
         \A i \in DOMAIN d : n[i] \in O!DiskEntries
  PROVE  n \in Seq(O!DiskEntries)
<1>1. Len(d) \in Nat /\ DOMAIN d = 1..Len(d)
  BY LenProperties
<1>2. n \in [1..Len(d) -> O!DiskEntries]
  BY <1>1
<1> QED BY <1>1, <1>2, IsASeq

LEMMA StoreReplaceStep ==
  ASSUME BytesOK, NEW f \in Fetchers, O!StoreReplace(f)
  PROVE  BytesOK'
<1>1. /\ fetcher[f].at = "temp" /\ fetcher' = [fetcher EXCEPT ![f].at = "parsed"]
      /\ bucket' = bucket /\ row' = row /\ reader' = reader /\ lru' = lru /\ since' = since
  BY DEF O!StoreReplace
<1>2. PICK n : n = [i \in DOMAIN disk |-> IF i \in O!MyTemp(f) THEN O!Renamed(disk[i]) ELSE disk[i]]
  OBVIOUS
<1>3. disk' = IF O!MyTemp(f) = {} THEN disk
              ELSE O!Dropped(n, O!EntryFor(fetcher[f].o, fetcher[f].etag))
  BY <1>2 DEF O!StoreReplace
<1>4. ASSUME NEW i \in DOMAIN disk PROVE n[i] \in O!DiskEntries
  <2>1. PICK e \in O!DiskEntries : e = disk[i]
    BY EntriesOf
  <2>2. PICK u : u = [e EXCEPT !.temp = FALSE]
    OBVIOUS
  <2>3. u \in O!DiskEntries
    BY <2>1, <2>2 DEF O!DiskEntries
  <2>4. O!Renamed(e) = [u EXCEPT !.by = Gone]
    BY <2>2 DEF O!Renamed
  <2>5. O!Renamed(e) \in O!DiskEntries
    BY <2>3, <2>4 DEF O!DiskEntries
  <2> QED BY <1>2, <2>1, <2>5
<1>5. n \in Seq(O!DiskEntries) /\ DOMAIN n = DOMAIN disk
  BY <1>2, <1>4, Relabelled, BytesParts
<1>6. O!EntryFor(fetcher[f].o, fetcher[f].etag) \subseteq DOMAIN n
  BY <1>5 DEF O!EntryFor
<1>7. disk' \in Seq(O!DiskEntries)
  BY <1>3, <1>5, <1>6, DroppedIn, BytesParts
<1>8. PICK t : t = [fetcher[f] EXCEPT !.at = "parsed"]
  OBVIOUS
<1>9. FetcherFits(t)
  BY <1>1, <1>8, FetcherGoesOn
<1>10. fetcher' = [fetcher EXCEPT ![f] = t]
  BY <1>1, <1>8
<1> QED BY <1>1, <1>7, <1>9, <1>10, BucketStays, BytesParts

LEMMA PersistBytesStep ==
  ASSUME BytesOK, NEW f \in Fetchers, O!Persist(f)
  PROVE  BytesOK'
<1>1. /\ fetcher[f].at = "parsed" /\ row' = [row EXCEPT ![fetcher[f].o] = fetcher[f].etag]
      /\ fetcher' = [fetcher EXCEPT ![f] = O!IdleThread]
      /\ bucket' = bucket /\ disk' = disk /\ reader' = reader /\ lru' = lru /\ since' = since
  BY DEF O!Persist
<1>2. PICK t : t = [fetcher[f] EXCEPT !.at = "parsed"]
  OBVIOUS
<1>3. /\ fetcher[f].o \in Objects /\ fetcher[f].etag \in Contents
      /\ since[fetcher[f].o][fetcher[f].etag] # {}
  BY <1>1, <1>2, FetcherGoesOn DEF O!OfObject
<1>4. /\ row' \in [Objects -> Contents \cup {Gone}]
      /\ \A o \in Objects : row'[o] # Gone => since[o][row'[o]] # {}
  BY <1>1, <1>3, BytesParts
<1> QED BY <1>1, <1>4, IdleFits, BucketStays, BytesParts

LEMMA CrashStep ==
  ASSUME BytesOK, NEW f \in Fetchers, O!Crash(f)
  PROVE  BytesOK'
<1>1. /\ fetcher' = [fetcher EXCEPT ![f] = O!IdleThread]
      /\ disk' = [i \in DOMAIN disk |-> IF disk[i].temp /\ disk[i].by = f
                                        THEN [disk[i] EXCEPT !.by = Gone] ELSE disk[i]]
      /\ bucket' = bucket /\ row' = row /\ reader' = reader /\ lru' = lru /\ since' = since
  BY DEF O!Crash
<1>2. PICK n : n = [i \in DOMAIN disk |-> IF disk[i].temp /\ disk[i].by = f
                                         THEN [disk[i] EXCEPT !.by = Gone] ELSE disk[i]]
  OBVIOUS
<1>3. ASSUME NEW i \in DOMAIN disk PROVE n[i] \in O!DiskEntries
  <2>1. PICK e \in O!DiskEntries : e = disk[i]
    BY EntriesOf
  <2>2. [e EXCEPT !.by = Gone] \in O!DiskEntries
    <3>1. [e EXCEPT !.by = Gone] \in
            [o : Objects, etag : Contents, bytes : O!Bytes, temp : BOOLEAN, by : Fetchers \cup {Gone}]
      BY <2>1 DEF O!DiskEntries
    <3> QED BY <3>1, <2>1 DEF O!DiskEntries
  <2> QED BY <1>2, <2>1, <2>2
<1>4. n \in Seq(O!DiskEntries)
  BY <1>2, <1>3, Relabelled, BytesParts
<1> QED BY <1>1, <1>2, <1>4, IdleFits, BucketStays, BytesParts

LEMMA PruneStep == ASSUME BytesOK, O!PruneDisk PROVE BytesOK'
<1>1. /\ disk' = O!Newest(disk, DiskCap) /\ fetcher' = fetcher
      /\ bucket' = bucket /\ row' = row /\ reader' = reader /\ lru' = lru /\ since' = since
  BY DEF O!PruneDisk
<1>2. disk' \in Seq(O!DiskEntries)
  BY <1>1, NewestIn, BytesParts
<1> QED BY <1>1, <1>2, BucketStays, BytesParts

\* A thread that answers goes on, with the bytes it has or with others.
LEMMA ReaderGoesOn ==
  ASSUME BytesOK, NEW r \in Readers, reader[r].at # "idle",
         NEW at \in {"missed", "got", "served"}, NEW bytes \in O!Bytes \cup {Gone},
         at # "missed" => /\ bytes \in O!Bytes
                          /\ O!OfObject(bytes, reader[r].o, since[reader[r].o][reader[r].etag]),
         NEW m, m = [reader[r] EXCEPT !.at = at], NEW t, t = [m EXCEPT !.bytes = bytes]
  PROVE  ReaderFits(t)
<1>1. PICK u : u = reader[r] /\ ReaderFits(u)
  BY BytesParts
<1>2. u \in [at : {"selected", "missed", "got", "served"}, o : Objects, etag : Contents,
             bytes : O!Bytes \cup {Gone}]
  BY <1>1, ReaderFields DEF ReaderFits
<1>3. /\ m \in [at : {"selected", "missed", "got", "served"}, o : Objects, etag : Contents,
                bytes : O!Bytes \cup {Gone}]
      /\ m.at = at /\ m.o = u.o /\ m.etag = u.etag /\ m.bytes = u.bytes
  BY <1>1, <1>2
<1>4. /\ t \in [at : {"selected", "missed", "got", "served"}, o : Objects, etag : Contents,
                bytes : O!Bytes \cup {Gone}]
      /\ t.at = at /\ t.bytes = bytes /\ t.o = u.o /\ t.etag = u.etag
  BY <1>3
<1>5. t \in O!ReaderStates
  BY <1>4 DEF O!ReaderStates
<1> QED BY <1>1, <1>4, <1>5 DEF ReaderFits

\* The bytes a thread already has.
LEMMA ReaderHas ==
  ASSUME BytesOK, NEW r \in Readers, reader[r].at # "idle"
  PROVE  /\ reader[r].o \in Objects /\ reader[r].etag \in Contents
         /\ reader[r].bytes \in O!Bytes \cup {Gone}
         /\ since[reader[r].o][reader[r].etag] # {}
         /\ reader[r].at \in {"got", "served"} =>
              /\ reader[r].bytes \in O!Bytes
              /\ O!OfObject(reader[r].bytes, reader[r].o, since[reader[r].o][reader[r].etag])
         /\ reader[r] = [reader[r] EXCEPT !.bytes = reader[r].bytes]
<1>1. PICK u : u = reader[r] /\ ReaderFits(u)
  BY BytesParts
<1>2. u \in [at : {"selected", "missed", "got", "served"}, o : Objects, etag : Contents,
             bytes : O!Bytes \cup {Gone}]
  BY <1>1, ReaderFields DEF ReaderFits
<1>3. u = [u EXCEPT !.bytes = u.bytes]
  BY <1>2
<1> QED BY <1>1, <1>2, <1>3 DEF ReaderFits

LEMMA SelectStep ==
  ASSUME BytesOK, NEW r \in Readers, NEW o \in Objects, O!Select(r, o)
  PROVE  BytesOK'
<1>1. PICK t : t = [at |-> "selected", o |-> o, etag |-> row[o], bytes |-> Gone]
  OBVIOUS
<1>2. /\ row[o] # Gone /\ reader' = [reader EXCEPT ![r] = t]
      /\ bucket' = bucket /\ row' = row /\ disk' = disk /\ fetcher' = fetcher /\ lru' = lru
      /\ since' = since
  BY <1>1 DEF O!Select
<1>3. row[o] \in Contents /\ since[o][row[o]] # {}
  BY <1>2, BytesParts
<1>4. t \in O!ReaderStates
  BY <1>1, <1>3 DEF O!ReaderStates
<1>5. ReaderFits(t)
  BY <1>1, <1>3, <1>4 DEF ReaderFits
<1> QED BY <1>2, <1>5, BucketStays, BytesParts

LEMMA WithoutIn ==
  ASSUME BytesOK, NEW key PROVE O!Without(lru, key) \in Seq(O!LruEntries)
<1>1. O!At(lru, key) \subseteq DOMAIN lru
  BY DEF O!At
<1> QED BY <1>1, DroppedIn, BytesParts DEF O!Without

LEMMA GetStep ==
  ASSUME BytesOK, NEW r \in Readers, O!Get(r)
  PROVE  BytesOK'
<1>1. /\ reader[r].at = "selected"
      /\ bucket' = bucket /\ row' = row /\ disk' = disk /\ fetcher' = fetcher /\ since' = since
  BY DEF O!Get
<1>2. PICK key : key = O!CacheKey(reader[r].o, reader[r].etag)
  OBVIOUS
<1>3. \/ reader' = [reader EXCEPT ![r].at = "missed"] /\ lru' = lru
      \/ \E i \in O!At(lru, key) :
           /\ reader' = [reader EXCEPT ![r].at = "served", ![r].bytes = lru[i].bytes]
           /\ lru' = Append(O!Without(lru, key), lru[i])
  BY <1>2 DEF O!Get
<1>4. CASE reader' = [reader EXCEPT ![r].at = "missed"] /\ lru' = lru
  <2>1. PICK m : m = [reader[r] EXCEPT !.at = "missed"]
    OBVIOUS
  <2>2. PICK bytes \in O!Bytes \cup {Gone} : bytes = reader[r].bytes
    BY <1>1, ReaderHas
  <2>3. PICK t : t = [m EXCEPT !.bytes = bytes]
    OBVIOUS
  <2>4. ReaderFits(t)
    BY <1>1, <2>1, <2>3, ReaderGoesOn
  <2>5. t = m
    <3>1. PICK u : u = reader[r] /\ ReaderFits(u)
      BY BytesParts
    <3>2. u \in [at : {"selected", "missed", "got", "served"}, o : Objects, etag : Contents,
                 bytes : O!Bytes \cup {Gone}]
      BY <1>1, <3>1, ReaderFields DEF ReaderFits
    <3> QED BY <2>1, <2>2, <2>3, <3>1, <3>2
  <2>6. reader' = [reader EXCEPT ![r] = t]
    BY <1>4, <2>1, <2>5
  <2> QED BY <1>1, <1>4, <2>4, <2>6, BucketStays, BytesParts
<1>5. ASSUME NEW i \in O!At(lru, key),
             reader' = [reader EXCEPT ![r].at = "served", ![r].bytes = lru[i].bytes],
             lru' = Append(O!Without(lru, key), lru[i])
      PROVE  BytesOK'
  <2>1. PICK e \in O!LruEntries : e = lru[i] /\ e.key = key
    BY EntriesOf DEF O!At
  <2>2. /\ e.bytes \in O!Bytes
        /\ O!OfObject(e.bytes, reader[r].o, since[reader[r].o][reader[r].etag])
    <3>1. e.key[1] = reader[r].o /\ e.key[2] = reader[r].etag
      BY <1>2, <2>1 DEF O!CacheKey
    <3> QED BY <2>1, <3>1 DEF O!LruEntries
  <2>3. PICK m : m = [reader[r] EXCEPT !.at = "served"]
    OBVIOUS
  <2>4. PICK t : t = [m EXCEPT !.bytes = e.bytes]
    OBVIOUS
  <2>5. ReaderFits(t)
    BY <1>1, <2>2, <2>3, <2>4, ReaderGoesOn
  <2>6. reader' = [reader EXCEPT ![r] = t]
    BY <1>5, <2>1, <2>3, <2>4
  <2>7. lru' \in Seq(O!LruEntries)
    BY <1>5, <2>1, WithoutIn, AppendProperties
  <2> QED BY <1>1, <2>5, <2>6, <2>7, BucketStays, BytesParts
<1> QED BY <1>3, <1>4, <1>5

LEMMA TranscriptReadStep ==
  ASSUME BytesOK, NEW r \in Readers, O!Read(r)
  PROVE  BytesOK'
<1>1. /\ reader[r].at = "missed"
      /\ bucket' = bucket /\ row' = row /\ disk' = disk /\ fetcher' = fetcher /\ lru' = lru
      /\ since' = since
  BY DEF O!Read
<1>2. PICK o \in Objects : o = reader[r].o
  BY <1>1, ReaderHas
<1>3. PICK m : m = [reader[r] EXCEPT !.at = "got"]
  OBVIOUS
<1>4. PICK t : t = IF bucket[o] = Gone THEN O!IdleThread ELSE [m EXCEPT !.bytes = <<o, bucket[o]>>]
  OBVIOUS
<1>5. reader' = [reader EXCEPT ![r] = t]
  BY <1>2, <1>3, <1>4 DEF O!Read
<1>6. ReaderFits(t)
  <2>1. CASE bucket[o] = Gone
    BY <1>4, <2>1, IdleFits
  <2>2. CASE bucket[o] # Gone
    <3>1. PICK bytes \in O!Bytes : bytes = <<o, bucket[o]>>
      BY <2>2, GotFromBucket
    <3>2. reader[r].etag \in Contents /\ since[o][reader[r].etag] # {}
      BY <1>1, <1>2, ReaderHas
    <3>3. O!OfObject(bytes, reader[r].o, since[reader[r].o][reader[r].etag])
      BY <1>2, <2>2, <3>1, <3>2, GotFromBucket
    <3>4. t = [m EXCEPT !.bytes = bytes]
      BY <1>4, <2>2, <3>1
    <3> QED BY <1>1, <1>3, <3>3, <3>4, ReaderGoesOn
  <2> QED BY <2>1, <2>2
<1> QED BY <1>1, <1>5, <1>6, BucketStays, BytesParts

LEMMA PutTranscriptStep ==
  ASSUME BytesOK, NEW r \in Readers, O!PutTranscript(r)
  PROVE  BytesOK'
<1>1. /\ reader[r].at = "got"
      /\ lru' = O!Replaced(O!CacheKey(reader[r].o, reader[r].etag), reader[r].bytes)
      /\ reader' = [reader EXCEPT ![r].at = "served"]
      /\ bucket' = bucket /\ row' = row /\ disk' = disk /\ fetcher' = fetcher /\ since' = since
  BY DEF O!PutTranscript
<1>2. PICK bytes \in O!Bytes :
        /\ bytes = reader[r].bytes
        /\ O!OfObject(bytes, reader[r].o, since[reader[r].o][reader[r].etag])
  BY <1>1, ReaderHas
<1>3. PICK key : key = <<reader[r].o, reader[r].etag>>
  OBVIOUS
<1>4. PICK e : e = [key |-> key, bytes |-> bytes]
  OBVIOUS
<1>5. e \in O!LruEntries
  <2>1. key \in Objects \X Contents /\ key[1] = reader[r].o /\ key[2] = reader[r].etag
    BY <1>1, <1>3, ReaderHas
  <2> QED BY <1>2, <1>4, <2>1 DEF O!LruEntries
<1>6. lru' \in Seq(O!LruEntries)
  <2>1. O!Newest(O!Without(lru, key), LruCap - SizeOf[bytes[2]]) \in Seq(O!LruEntries)
    BY WithoutIn, NewestIn
  <2>2. lru' = IF SizeOf[bytes[2]] > LruCap THEN lru
               ELSE Append(O!Newest(O!Without(lru, key), LruCap - SizeOf[bytes[2]]), e)
    BY <1>1, <1>2, <1>3, <1>4 DEF O!Replaced, O!CacheKey
  <2> QED BY <1>5, <2>1, <2>2, BytesParts, AppendProperties
<1>7. PICK m : m = [reader[r] EXCEPT !.at = "served"]
  OBVIOUS
<1>8. PICK t : t = [m EXCEPT !.bytes = bytes]
  OBVIOUS
<1>9. ReaderFits(t)
  BY <1>1, <1>2, <1>7, <1>8, ReaderGoesOn
<1>10. t = m
  <2>1. PICK u : u = reader[r] /\ ReaderFits(u)
    BY BytesParts
  <2>2. u \in [at : {"selected", "missed", "got", "served"}, o : Objects, etag : Contents,
               bytes : O!Bytes \cup {Gone}]
    BY <1>1, <2>1, ReaderFields DEF ReaderFits
  <2> QED BY <1>2, <1>7, <1>8, <2>1, <2>2
<1>11. reader' = [reader EXCEPT ![r] = t]
  BY <1>1, <1>7, <1>10
<1> QED BY <1>1, <1>6, <1>9, <1>11, BucketStays, BytesParts

LEMMA EvictIdleStep == ASSUME BytesOK, O!EvictIdle PROVE BytesOK'
<1>1. /\ lru # <<>> /\ lru' = Tail(lru) /\ fetcher' = fetcher
      /\ bucket' = bucket /\ row' = row /\ disk' = disk /\ reader' = reader /\ since' = since
  BY DEF O!EvictIdle
<1>2. lru' \in Seq(O!LruEntries)
  BY <1>1, BytesParts, HeadTailProperties
<1> QED BY <1>1, <1>2, BucketStays, BytesParts

LEMMA SweepOrphanStep ==
  ASSUME BytesOK, NEW o \in Objects, O!SweepOrphan(o)
  PROVE  BytesOK'
<1>1. /\ row' = [row EXCEPT ![o] = Gone] /\ lru' = O!Without(lru, O!CacheKey(o, row[o]))
      /\ bucket' = bucket /\ disk' = disk /\ fetcher' = fetcher /\ reader' = reader
      /\ since' = since
  BY DEF O!SweepOrphan
<1>2. /\ row' \in [Objects -> Contents \cup {Gone}]
      /\ \A p \in Objects : row'[p] # Gone => since[p][row'[p]] # {}
  BY <1>1, BytesParts
<1>3. lru' \in Seq(O!LruEntries)
  BY <1>1, WithoutIn
<1> QED BY <1>1, <1>2, <1>3, BucketStays, BytesParts

LEMMA BytesStart == ASSUME O!BytesInit PROVE BytesOK
<1>1. /\ bucket \in [Objects -> Contents] /\ row \in {bucket, [o \in Objects |-> Gone]}
      /\ disk = <<>> /\ lru = <<>>
      /\ fetcher = [f \in Fetchers |-> O!IdleThread] /\ reader = [r \in Readers |-> O!IdleThread]
      /\ since = [o \in Objects |-> [c \in Contents |-> IF c = bucket[o] THEN {c} ELSE {}]]
  BY BytesAssumption DEF O!BytesInit
<1>2. /\ since \in [Objects -> [Contents -> SUBSET Contents]]
      /\ \A o \in Objects : O!Current(o) /\ (row[o] # Gone => since[o][row[o]] # {})
  <2>1. /\ since \in [Objects -> [Contents -> SUBSET Contents]]
        /\ \A o \in Objects : \A c \in Contents : since[o][c] = IF c = bucket[o] THEN {c} ELSE {}
    BY <1>1
  <2>2. \A o \in Objects : row[o] # Gone => row[o] = bucket[o] /\ bucket[o] \in Contents
    BY <1>1
  <2>3. ASSUME NEW o \in Objects  PROVE O!Current(o) /\ (row[o] # Gone => since[o][row[o]] # {})
    <3>1. \A c \in Contents : since[o][c] # {} => c = bucket[o]
      BY <2>1
    <3>2. bucket[o] \in Contents /\ since[o][bucket[o]] = {bucket[o]}
      BY <1>1, <2>1
    <3>3. O!Current(o)
      BY <3>1, <3>2 DEF O!Current
    <3>4. row[o] # Gone => since[o][row[o]] # {}
      BY <2>2, <3>2
    <3> QED BY <3>3, <3>4
  <2> QED BY <2>1, <2>3
<1>3. disk \in Seq(O!DiskEntries) /\ lru \in Seq(O!LruEntries)
  BY <1>1, EmptySeq
<1>4. /\ fetcher \in [Fetchers -> O!FetcherStates] /\ reader \in [Readers -> O!ReaderStates]
      /\ \A f \in Fetchers : fetcher[f].at = "idle"
      /\ \A r \in Readers : reader[r].at = "idle"
  BY <1>1 DEF O!FetcherStates, O!ReaderStates, O!IdleThread
<1>5. O!BytesInv
  BY <1>2, <1>3, <1>4 DEF O!BytesInv, O!FetcherHolds, O!ReaderHolds
<1>6. O!BytesTypeOK
  BY <1>1, <1>4 DEF O!BytesTypeOK
<1> QED BY <1>5, <1>6 DEF BytesOK

LEMMA BytesKept == ASSUME BytesOK, UNCHANGED bytesVars PROVE BytesOK'
<1>1. /\ bucket' = bucket /\ row' = row /\ disk' = disk /\ fetcher' = fetcher
      /\ reader' = reader /\ lru' = lru /\ since' = since
  BY DEF bytesVars
<1> QED BY <1>1, BucketStays, BytesParts

LEMMA BytesStep == ASSUME BytesOK, O!BytesNext PROVE BytesOK'
BY ChangeStep, ListStep, FetchHitStep, FetchGetStep, StoreTempStep, StoreReplaceStep,
   PersistBytesStep, CrashStep, PruneStep, SelectStep, GetStep, TranscriptReadStep, PutTranscriptStep,
   EvictIdleStep, SweepOrphanStep DEF O!BytesNext

\* What the ingest parsed and what the endpoint served.
LEMMA BytesEnds == ASSUME BytesOK PROVE O!ParsedSinceListing /\ O!ServedNotOlder
<1>1. ASSUME NEW f \in Fetchers, fetcher[f].at = "parsed"
      PROVE  /\ fetcher[f].bytes[1] = fetcher[f].o
             /\ fetcher[f].bytes[2] \in fetcher[f].held \/ O!KeptUnderOlderEtag(fetcher[f])
  BY <1>1, BytesParts DEF FetcherFits, MayHave, O!KeptUnderOlderEtag
<1>2. ASSUME NEW r \in Readers, reader[r].at = "served"
      PROVE  reader[r].bytes[1] = reader[r].o /\ reader[r].bytes[2] \in since[reader[r].o][reader[r].etag]
  BY <1>2, ReaderHas DEF O!OfObject
<1> QED BY <1>1, <1>2 DEF O!ParsedSinceListing, O!ServedNotOlder

-----------------------------------------------------------------------------
\* Listing.

ListOK == I!ListTypeOK /\ I!ListInv

\* The buckets, and the keys that a run lists.
Mirrors == I!ToSet(BucketList)
LeafUnits == DOMAIN KeysIn

LEMMA SetOfSeq ==
  ASSUME NEW X, NEW s \in Seq(X)
  PROVE  /\ I!ToSet(s) \subseteq X /\ Len(s) \in Nat /\ DOMAIN s = 1..Len(s)
         /\ \A x \in I!ToSet(s) : s # <<>>
BY LenProperties, ElementOfSeq DEF I!ToSet

\* Every prefix has its bucket, every key its prefix.
LEMMA Layout ==
  /\ I!Configured \subseteq Mirrors /\ I!Units = Mirrors \cup LeafUnits
  /\ \A b \in Mirrors : I!BucketOfUnit(b) = b /\ PrefixesOf[b] \in Seq(LeafUnits)
  /\ \A p \in LeafUnits :
       /\ p \notin Mirrors /\ I!BucketOfUnit(p) \in Mirrors
       /\ p \in I!ToSet(PrefixesOf[I!BucketOfUnit(p)]) /\ KeysIn[p] \in Seq(I!ObjectKeys)
       /\ \A b \in Mirrors : p \in I!ToSet(PrefixesOf[b]) => b = I!BucketOfUnit(p)
  /\ \A k \in I!ObjectKeys :
       /\ I!UnitOf(k) \in LeafUnits /\ k \in I!ToSet(KeysIn[I!UnitOf(k)])
       /\ I!BucketOf(k) = I!BucketOfUnit(I!UnitOf(k)) /\ I!BucketOf(k) \in Mirrors
       /\ \A p \in LeafUnits : k \in I!ToSet(KeysIn[p]) => p = I!UnitOf(k)
  /\ \A t \in I!Transcripts : /\ t \in I!ObjectKeys /\ t # "none"
                              /\ SidecarFor[t] \in I!ObjectKeys /\ SidecarFor[t] # t
<1>1. I!Configured \subseteq Mirrors
  <2>1. 1 \in DOMAIN BucketList
    BY ListingAssumption, LenProperties, EmptySeq
  <2> QED BY <2>1 DEF I!Configured, I!ToSet, Mirrors
<1>2. I!Units = Mirrors \cup LeafUnits
  BY DEF I!Units, Mirrors, LeafUnits
<1>3. \A b \in Mirrors : I!BucketOfUnit(b) = b /\ PrefixesOf[b] \in Seq(LeafUnits)
  BY ListingAssumption DEF I!BucketOfUnit, Mirrors, LeafUnits
<1>4. ASSUME NEW p \in LeafUnits
      PROVE  /\ p \notin Mirrors /\ I!BucketOfUnit(p) \in Mirrors
             /\ p \in I!ToSet(PrefixesOf[I!BucketOfUnit(p)]) /\ KeysIn[p] \in Seq(I!ObjectKeys)
             /\ \A b \in Mirrors : p \in I!ToSet(PrefixesOf[b]) => b = I!BucketOfUnit(p)
  <2>1. p \notin Mirrors /\ \E b \in Mirrors : p \in I!ToSet(PrefixesOf[b])
    BY ListingAssumption DEF Mirrors, LeafUnits
  <2>2. I!BucketOfUnit(p) = CHOOSE b \in Mirrors : p \in I!ToSet(PrefixesOf[b])
    BY <2>1 DEF I!BucketOfUnit, Mirrors
  <2>3. I!BucketOfUnit(p) \in Mirrors /\ p \in I!ToSet(PrefixesOf[I!BucketOfUnit(p)])
    BY <2>1, <2>2
  <2>4. \A b \in Mirrors : p \in I!ToSet(PrefixesOf[b]) => b = I!BucketOfUnit(p)
    BY <2>3, ListingAssumption DEF Mirrors, LeafUnits
  <2>5. KeysIn[p] \in Seq(I!ObjectKeys)
    BY ListingAssumption DEF LeafUnits
  <2> QED BY <2>1, <2>3, <2>4, <2>5
<1>5. ASSUME NEW k \in I!ObjectKeys
      PROVE  /\ I!UnitOf(k) \in LeafUnits /\ k \in I!ToSet(KeysIn[I!UnitOf(k)])
             /\ I!BucketOf(k) = I!BucketOfUnit(I!UnitOf(k)) /\ I!BucketOf(k) \in Mirrors
             /\ \A p \in LeafUnits : k \in I!ToSet(KeysIn[p]) => p = I!UnitOf(k)
  <2>1. \E p \in LeafUnits : k \in I!ToSet(KeysIn[p])
    BY DEF I!ObjectKeys, LeafUnits
  <2>2. I!UnitOf(k) = CHOOSE p \in LeafUnits : k \in I!ToSet(KeysIn[p])
    BY DEF I!UnitOf, LeafUnits
  <2>3. I!UnitOf(k) \in LeafUnits /\ k \in I!ToSet(KeysIn[I!UnitOf(k)])
    BY <2>1, <2>2
  <2>4. \A p \in LeafUnits : k \in I!ToSet(KeysIn[p]) => p = I!UnitOf(k)
    BY <2>3, ListingAssumption DEF LeafUnits
  <2> QED BY <1>4, <2>3, <2>4 DEF I!BucketOf
<1>6. \A t \in I!Transcripts : /\ t \in I!ObjectKeys /\ t # "none"
                               /\ SidecarFor[t] \in I!ObjectKeys /\ SidecarFor[t] # t
  BY ListingAssumption DEF I!Transcripts
<1> QED BY <1>1, <1>2, <1>3, <1>4, <1>5, <1>6

\* A deployment stays what it is, and so does what is excused in a run.
LEMMA SameDeployment ==
  ASSUME mode' = mode
  PROVE  /\ I!Configured' = I!Configured /\ (I!Alone' <=> I!Alone)
         /\ lost \subseteq lost' => \A b : I!Excused(b) => I!Excused(b)'
BY DEF I!Configured, I!Alone, I!Excused

LEMMA Marks ==
  /\ I!Waiting # I!Done /\ I!Waiting # I!Untouched /\ I!Done # I!Untouched
  /\ I!Waiting \in I!States /\ I!Done \in I!States /\ I!Untouched \in I!States
  /\ \A x \in I!States : x = I!Waiting \/ x = I!Done \/ x = I!Untouched
BY DEF I!States, I!Waiting, I!Done, I!Untouched

\* What a unit may have still to visit, and what is left of it.
LEMMA HeldOf ==
  ASSUME NEW u \in I!Units
  PROVE  /\ u \in Mirrors => I!Held(u) = I!ToSet(PrefixesOf[u]) /\ I!Held(u) \subseteq LeafUnits
         /\ u \in LeafUnits => I!Held(u) = I!ToSet(KeysIn[u]) /\ I!Held(u) \subseteq I!ObjectKeys
BY Layout, SetOfSeq DEF I!Held, Mirrors

LEMMA RestOf ==
  ASSUME NEW u \in I!Units, NEW rest \in Seq(I!Held(u))
  PROVE  /\ I!After(rest) \in I!States \cup Seq(I!Held(u))
         /\ I!After(rest) \in I!States \/ Len(I!After(rest)) > 0
         /\ I!After(rest) # I!Waiting /\ I!After(rest) # I!Untouched
         /\ \A x \in I!ToSet(rest) : I!After(rest) = rest /\ I!After(rest) \notin I!States
<1>1. I!Held(u) \subseteq LeafUnits \cup I!ObjectKeys
  BY HeldOf, Layout
<1>2. rest \in Seq(LeafUnits \cup I!ObjectKeys)
  BY <1>1, SeqMonotonic
<1>3. rest \notin I!States
  BY <1>2, ListingAssumption DEF LeafUnits
<1>4. rest = <<>> \/ Len(rest) > 0
  BY EmptySeq, LenProperties
<1>5. \A x \in I!ToSet(rest) : rest # <<>>
  BY SetOfSeq
<1> QED BY <1>3, <1>4, <1>5, Marks DEF I!After

\* A page and what it leaves.
LEMMA PageOf ==
  ASSUME NEW X, NEW s \in Seq(X), NEW n \in 1..Len(s)
  PROVE  /\ SubSeq(s, n + 1, Len(s)) \in Seq(X)
         /\ I!ToSet(SubSeq(s, 1, n)) \subseteq X
         /\ \A x \in I!ToSet(s) : \/ x \in I!ToSet(SubSeq(s, 1, n))
                                  \/ x \in I!ToSet(SubSeq(s, n + 1, Len(s)))
<1>1. DOMAIN s = 1..Len(s) /\ Len(s) \in Nat /\ \A i \in 1..Len(s) : s[i] \in X
  BY LenProperties, ElementOfSeq
<1>2. n + 1 \in Int /\ n \in Int /\ Len(s) \in Int /\ 1 \in Int
  BY <1>1
<1>3. \A i \in (n + 1)..Len(s) : s[i] \in X
  BY <1>1
<1>4. \A i \in 1..n : s[i] \in X
  BY <1>1
<1>5. PICK a : a = SubSeq(s, 1, n)
  OBVIOUS
<1>6. PICK z : z = SubSeq(s, n + 1, Len(s))
  OBVIOUS
<1>7. a \in Seq(X) /\ Len(a) = n /\ \A i \in 1..n : a[i] = s[i]
  BY <1>1, <1>2, <1>4, <1>5, SubSeqProperties
<1>8. z \in Seq(X) /\ Len(z) = Len(s) - n /\ \A i \in 1..(Len(s) - n) : z[i] = s[n + i]
  <2>1. z \in Seq(X)
    BY <1>2, <1>3, <1>6, SubSeqProperties
  <2>2. Len(z) = IF n + 1 <= Len(s) THEN Len(s) - (n + 1) + 1 ELSE 0
    BY <1>2, <1>3, <1>6, SubSeqProperties
  <2>3. \A i \in 1..(Len(s) - n) : z[i] = s[n + 1 + i - 1]
    BY <1>1, <1>2, <1>3, <1>6, SubSeqProperties
  <2>4. \A i \in 1..(Len(s) - n) : n + 1 + i - 1 = n + i
    BY <1>1
  <2>5. Len(z) = Len(s) - n
    <3>1. CASE n + 1 <= Len(s)
      <4>1. Len(z) = Len(s) - (n + 1) + 1
        BY <2>2, <3>1
      <4> QED BY <1>1, <1>2, <4>1
    <3>2. CASE ~(n + 1 <= Len(s))
      <4>1. Len(z) = 0
        BY <2>2, <3>2
      <4>2. n \in Nat /\ Len(s) \in Nat /\ n <= Len(s)
        BY <1>1
      <4>3. n = Len(s)
        BY <3>2, <4>2
      <4>4. Len(s) - n = 0
        BY <4>2, <4>3
      <4> QED BY <4>1, <4>4
    <3> QED BY <3>1, <3>2
  <2>6. \A i \in 1..(Len(s) - n) : z[i] = s[n + i]
    BY <2>3, <2>4
  <2> QED BY <2>1, <2>5, <2>6
<1>9. DOMAIN a = 1..n /\ DOMAIN z = 1..(Len(s) - n)
  BY <1>7, <1>8, LenProperties
<1>10. ASSUME NEW i \in 1..Len(s)
       PROVE  s[i] \in I!ToSet(a) \/ s[i] \in I!ToSet(z)
  <2>1. CASE i <= n
    <3>1. i \in 1..n
      BY <1>1, <2>1
    <3> QED BY <1>7, <1>9, <3>1 DEF I!ToSet
  <2>2. CASE i > n
    <3>1. i - n \in 1..(Len(s) - n) /\ n + (i - n) = i
      BY <1>1, <2>2
    <3> QED BY <1>8, <1>9, <3>1 DEF I!ToSet
  <2> QED BY <1>1, <2>1, <2>2
<1>11. I!ToSet(a) \subseteq X
  BY <1>7, SetOfSeq
<1>12. \A x \in I!ToSet(s) : x \in I!ToSet(a) \/ x \in I!ToSet(z)
  BY <1>1, <1>10 DEF I!ToSet
<1> QED BY <1>5, <1>6, <1>8, <1>11, <1>12

\* A directory's scan comes to every name that was there, in whatever order.
LEMMA ScanHasAll ==
  ASSUME NEW Set, IsFiniteSet(Set), NEW names \in I!SetToSeqs(Set)
  PROVE  names \in Seq(Set) /\ \A k \in Set : k \in I!ToSet(names)
<1>1. \A set : I!Cardinality(set) = Cardinality(set)
  BY DEF I!Cardinality, Cardinality
<1>2. PICK n \in Nat : n = Cardinality(Set)
  BY FS_CardinalityType
<1>3. names \in [1..n -> Set] /\ \A i, j \in 1..n : i # j => names[i] # names[j]
  BY <1>1, <1>2 DEF I!SetToSeqs
<1>4. names \in Seq(Set)
  BY <1>3, IsASeq
<1>5. names \in Injection(1..n, Set)
  BY <1>3 DEF Injection, IsInjective
<1>6. IsFiniteSet(1..n) /\ Cardinality(1..n) = n
  BY FS_Interval
<1>7. names \in Surjection(1..n, Set)
  BY <1>2, <1>5, <1>6, FS_Injection
<1>8. \A k \in Set : \E i \in 1..n : names[i] = k
  BY <1>7 DEF Surjection
<1> QED BY <1>3, <1>4, <1>8 DEF I!ToSet

LEMMA FiniteToSet ==
  ASSUME NEW X, NEW s \in Seq(X), NEW Set, Set \subseteq I!ToSet(s)
  PROVE  IsFiniteSet(Set)
<1>1. Len(s) \in Nat /\ DOMAIN s = 1..Len(s) /\ s \in [1..Len(s) -> X]
  BY LenProperties
<1>2. s \in Surjection(1..Len(s), I!ToSet(s))
  BY <1>1 DEF Surjection, I!ToSet
<1>3. IsFiniteSet(1..Len(s))
  BY <1>1, FS_Interval
<1>4. IsFiniteSet(I!ToSet(s))
  BY <1>2, <1>3, FS_Surjection
<1> QED BY <1>4, FS_Subset

\* The parts of the invariant.
UnitFits(u, x) == x \in I!States \cup Seq(I!Held(u)) /\ (x \in I!States \/ Len(x) > 0)
\* What a row says of its transcript and its sidecar, as they are in the bucket.
RowStays(r, t) ==
  r.etag[1] # I!None =>
    /\ r.etag[1] = objects[t] => r.from[1] = objects[t]
    /\ r.etag[2] = I!None => r.from[2] = I!None
    /\ r.etag[2] = objects[SidecarFor[t]] =>
         r.from[2] \in {IF t \in OwnType THEN I!None ELSE objects[SidecarFor[t]], I!Away}
FetchStays ==
  /\ \A t \in todo \cup ({fetched.key} \ {"none"}) : found[t] # I!None
  /\ fetched.key # "none" /\ found[fetched.key] = objects[fetched.key] =>
       fetched.version = objects[fetched.key]

LEMMA ListParts ==
  ASSUME ListOK
  PROVE  /\ newest \in Nat /\ mode \in {"s3", "file", "alone"}
         /\ objects \in [I!ObjectKeys -> I!Versions] /\ found \in [I!ObjectKeys -> I!Versions]
         /\ away \subseteq Mirrors \cup {I!Endpoint}
         /\ phase \in {"idle", "listing", "fetching", "sweeping"}
         /\ DOMAIN unit = I!Units /\ \A u \in I!Units : UnitFits(u, unit[u])
         /\ todo \subseteq I!Transcripts
         /\ fetched \in {I!NoFetch} \cup [key : I!Transcripts, version : I!Versions]
         /\ phase # "fetching" => todo = {} /\ fetched = I!NoFetch
         /\ files \in [I!Transcripts -> I!FileRows]
         /\ gone \subseteq I!ObjectKeys /\ lost \subseteq Mirrors \cup {I!Endpoint}
         /\ I!ListingMisses /\ FetchStays
         /\ \A t \in I!Transcripts : RowStays(files[t], t)
BY DEF ListOK, I!ListTypeOK, I!ListInv, I!ListedStays, FetchStays, RowStays, UnitFits, I!Versions,
       Mirrors

LEMMA ListMade ==
  ASSUME newest' \in Nat, mode' \in {"s3", "file", "alone"},
         objects' \in [I!ObjectKeys -> 0..newest'], found' \in [I!ObjectKeys -> 0..newest'],
         away' \subseteq Mirrors \cup {I!Endpoint},
         phase' \in {"idle", "listing", "fetching", "sweeping"},
         DOMAIN unit' = I!Units, \A u \in I!Units : UnitFits(u, unit'[u]),
         todo' \subseteq I!Transcripts,
         fetched' \in {I!NoFetch} \cup [key : I!Transcripts, version : 0..newest'],
         phase' # "fetching" => todo' = {} /\ fetched' = I!NoFetch,
         files' \in [I!Transcripts -> I!FileRows'],
         gone' \subseteq I!ObjectKeys, lost' \subseteq Mirrors \cup {I!Endpoint},
         I!ListingMisses', FetchStays', \A t \in I!Transcripts : RowStays(files[t], t)'
  PROVE  ListOK'
<1>1. fetched'.key \in I!Transcripts \cup {"none"}
  BY DEF I!NoFetch
<1>2. \A t \in I!Transcripts : files'[t].etag[1] \in 0..newest'
  BY DEF I!FileRows, I!Versions
<1>3. \A u \in I!Units : unit'[u] \in I!States \/ Len(unit'[u]) > 0
  BY DEF UnitFits
<1>4. I!ListTypeOK'
  BY <1>1, <1>2, <1>3 DEF I!ListTypeOK, Mirrors
<1>5. I!ListedStays'
  BY DEF I!ListedStays, FetchStays, RowStays
<1>6. I!ListInv'
  BY <1>5 DEF I!ListInv, UnitFits, I!Versions
<1> QED BY <1>4, <1>6 DEF ListOK

\* Steps in which the bucket and its mirrors are as they were.
LEMMA ListGoesOn ==
  ASSUME ListOK, mode' = mode, objects' = objects, away' = away, newest' = newest,
         found' \in [I!ObjectKeys -> I!Versions],
         phase' \in {"idle", "listing", "fetching", "sweeping"},
         DOMAIN unit' = I!Units, \A u \in I!Units : UnitFits(u, unit'[u]),
         todo' \subseteq I!Transcripts,
         fetched' \in {I!NoFetch} \cup [key : I!Transcripts, version : I!Versions],
         phase' # "fetching" => todo' = {} /\ fetched' = I!NoFetch,
         files' \in [I!Transcripts -> I!FileRows],
         \A t \in I!Transcripts : RowStays(files'[t], t),
         gone' \subseteq I!ObjectKeys, lost' \subseteq Mirrors \cup {I!Endpoint},
         I!ListingMisses', FetchStays'
  PROVE  ListOK'
<1>1. I!FileRows' = I!FileRows /\ I!Versions = 0..newest'
  BY DEF I!FileRows, I!Versions
<1>2. \A t \in I!Transcripts : RowStays(files[t], t)'
  BY DEF RowStays
<1>3. files' \in [I!Transcripts -> I!FileRows']
  BY <1>1
<1>4. objects' \in [I!ObjectKeys -> 0..newest'] /\ found' \in [I!ObjectKeys -> 0..newest']
  BY <1>1, ListParts
<1>5. fetched' \in {I!NoFetch} \cup [key : I!Transcripts, version : 0..newest']
  BY <1>1
<1> QED BY <1>2, <1>3, <1>4, <1>5, ListParts, ListMade

\* Nothing is listed, fetched or being read.
LEMMA QuietUnits ==
  ASSUME NEW x, x = I!Ended \/ x = I!Ready
  PROVE  /\ DOMAIN x = I!Units /\ \A u \in I!Units : UnitFits(u, x[u])
         /\ x = I!Ready =>
              /\ \A b \in Mirrors : x[b] = IF b \in I!Configured THEN I!Waiting ELSE I!Untouched
              /\ \A p \in LeafUnits : x[p] = I!Untouched
BY Marks, Layout DEF I!Ended, I!Ready, UnitFits, Mirrors

LEMMA ListIdle ==
  ASSUME ListOK, I!BackToIdle, mode' = mode, objects' = objects, away' = away, newest' = newest,
         files' \in [I!Transcripts -> I!FileRows], \A t \in I!Transcripts : RowStays(files'[t], t)
  PROVE  ListOK'
<1>1. /\ phase' = "idle" /\ unit' = I!Ended /\ found' = I!NothingFound
      /\ todo' = {} /\ fetched' = I!NoFetch /\ gone' = {} /\ lost' = {}
  BY DEF I!BackToIdle
<1>2. found' \in [I!ObjectKeys -> I!Versions]
  BY <1>1, ListParts DEF I!NothingFound, I!Versions, I!None
<1>3. I!ListingMisses'
  <2>1. /\ mode = "s3" => away = {}
        /\ \A k \in I!ObjectKeys : I!BucketOf(k) \notin I!Configured => objects[k] = I!None
    BY ListParts DEF I!ListingMisses
  <2> QED BY <1>1, <2>1, SameDeployment DEF I!ListingMisses, I!SweptWasGone
<1>4. FetchStays'
  BY <1>1 DEF FetchStays, I!NoFetch
<1> QED BY <1>1, <1>2, <1>3, <1>4, QuietUnits, ListGoesOn

\* What is out of sight although its bucket's turn has come is accounted for.
LEMMA OutOfSight ==
  ASSUME ListOK, phase # "idle", NEW k \in I!ObjectKeys, ~I!Visible(k),
         phase = "listing" => I!Begun(I!BucketOf(k))
  PROVE  k \in gone \/ I!Excused(I!BucketOf(k))
BY ListParts, Layout DEF I!Visible, I!ListingMisses

LEMMA ArchiveStep ==
  ASSUME ListOK, NEW k \in I!ObjectKeys, NEW there \in BOOLEAN, I!Archive(k, there)
  PROVE  ListOK'
<1>1. /\ objects' = [objects EXCEPT ![k] = IF there THEN newest + 1 ELSE I!None]
      /\ newest' = (IF there THEN newest + 1 ELSE newest)
      /\ gone' = (IF there \/ phase = "idle" THEN gone ELSE gone \cup {k})
      /\ mode' = mode /\ away' = away /\ phase' = phase /\ unit' = unit /\ found' = found
      /\ todo' = todo /\ fetched' = fetched /\ files' = files /\ lost' = lost
      /\ I!BucketOf(k) \in I!Configured
  BY DEF I!Archive
<1>2. newest \in Nat /\ newest' \in Nat /\ newest' >= newest /\ (there => newest' = newest + 1)
  BY <1>1, ListParts
<1>3. I!Versions \subseteq 0..newest' /\ (there => newest' \notin I!Versions)
  BY <1>2 DEF I!Versions
<1>4. /\ objects' \in [I!ObjectKeys -> 0..newest'] /\ objects'[k] = IF there THEN newest' ELSE I!None
      /\ \A j \in I!ObjectKeys : j # k => objects'[j] = objects[j]
  <2>1. objects \in [I!ObjectKeys -> 0..newest']
    BY <1>3, ListParts
  <2>2. I!None \in 0..newest' /\ newest + 1 \in Nat
    BY <1>2 DEF I!None
  <2>3. there => newest + 1 \in 0..newest'
    BY <1>2
  <2> QED BY <1>1, <1>2, <2>1, <2>2, <2>3
<1>5. found' \in [I!ObjectKeys -> 0..newest']
  BY <1>1, <1>3, ListParts
<1>6. files' \in [I!Transcripts -> I!FileRows']
  <2>1. I!FileRows \subseteq I!FileRows'
    BY <1>3 DEF I!FileRows, I!Versions
  <2> QED BY <1>1, <2>1, ListParts
<1>7. fetched' \in {I!NoFetch} \cup [key : I!Transcripts, version : 0..newest']
  BY <1>1, <1>3, ListParts
<1>8. ASSUME NEW t \in I!Transcripts PROVE RowStays(files[t], t)'
  <2>1. PICK r \in I!FileRows : r = files[t]
    BY ListParts
  <2>2. /\ r.etag[1] \in I!Versions /\ r.etag[2] \in I!Versions /\ RowStays(r, t)
    BY <2>1, ListParts DEF I!FileRows
  <2>3. t \in I!ObjectKeys /\ SidecarFor[t] \in I!ObjectKeys
    BY Layout
  <2>4. r.etag[1] # I!None /\ r.etag[1] = objects'[t] => objects'[t] = objects[t]
    BY <1>3, <1>4, <2>2, <2>3
  <2>5. r.etag[2] = objects'[SidecarFor[t]] =>
          objects'[SidecarFor[t]] = objects[SidecarFor[t]] \/ r.etag[2] = I!None
    BY <1>3, <1>4, <2>2, <2>3
  <2> QED BY <1>1, <2>1, <2>2, <2>4, <2>5 DEF RowStays
<1>9. FetchStays'
  <2>1. FetchStays
    BY ListParts
  <2>2. ASSUME NEW f, f = fetched, f.key # "none", found[f.key] = objects'[f.key]
        PROVE  objects'[f.key] = objects[f.key]
    <3>1. f.key \in I!Transcripts
      BY <2>2, ListParts DEF I!NoFetch
    <3>2. f.key \in I!ObjectKeys /\ found[f.key] # I!None /\ found[f.key] \in I!Versions
      BY <2>1, <2>2, <3>1, ListParts, Layout DEF FetchStays
    <3> QED BY <1>3, <1>4, <2>2, <3>2
  <2> QED BY <1>1, <2>1, <2>2 DEF FetchStays
<1>10. I!ListingMisses'
  <2>1. I!ListingMisses
    BY ListParts
  <2>2. /\ gone \subseteq gone' /\ I!Configured' = I!Configured
        /\ \A b : /\ I!Begun(b)' = I!Begun(b) /\ I!MountedOver(b)' = I!MountedOver(b)
                  /\ I!Excused(b) => I!Excused(b)'
    BY <1>1, SameDeployment DEF I!Begun, I!MountedOver
  <2>3. phase # "idle" => \A j \in I!ObjectKeys : objects'[j] = I!None => j \in gone'
    <3>1. phase # "idle" => \A j \in I!ObjectKeys : objects[j] = I!None => j \in gone
      BY <2>1 DEF I!ListingMisses
    <3>2. there => newest' # I!None
      BY <1>2 DEF I!None
    <3>3. phase # "idle" /\ ~there => k \in gone'
      BY <1>1
    <3> QED BY <1>4, <2>2, <3>1, <3>2, <3>3
  <2>4. ASSUME NEW j \in I!ObjectKeys, I!Missed(j)', I!Missed(j) => I!StillToCome(j)
        PROVE  I!StillToCome(j)'
    BY <1>1, <2>2, <2>4 DEF I!Missed, I!StillToCome
  <2>5. I!SweptWasGone'
    BY <1>1, <2>1, <2>2 DEF I!ListingMisses, I!SweptWasGone
  <2>6. \A j \in I!ObjectKeys : I!BucketOf(j) \notin I!Configured => objects'[j] = I!None
    BY <1>1, <1>4, <2>1 DEF I!ListingMisses
  <2>7. phase' # "idle" =>
          \A b \in I!Configured' :
            (phase' = "listing" => I!Begun(b)') /\ ~I!MountedOver(b)' => I!Excused(b)'
    BY <1>1, <2>1, <2>2 DEF I!ListingMisses
  <2> QED BY <1>1, <2>1, <2>2, <2>3, <2>4, <2>5, <2>6, <2>7, Layout DEF I!ListingMisses
<1>11. gone' \subseteq I!ObjectKeys
  BY <1>1, ListParts
<1> QED BY <1>1, <1>2, <1>4, <1>5, <1>6, <1>7, <1>8, <1>9, <1>10, <1>11, ListParts, ListMade

\* A mirror that goes away is noted, once its bucket's turn has come.
LEMMA MountStep ==
  ASSUME ListOK, NEW d \in Mirrors \cup {I!Endpoint}, I!Mount(d)
  PROVE  ListOK'
<1>1. /\ mode # "s3"
      /\ away' = (IF d \in away THEN away \ {d} ELSE away \cup {d})
      /\ lost' = (IF d \in away \/ phase = "idle" THEN lost
                  ELSE lost \cup {b \in I!Configured : d \in {b, I!Endpoint} /\
                         (phase # "listing" \/ unit[b] \notin {I!Waiting, I!Untouched})})
      /\ mode' = mode /\ objects' = objects /\ phase' = phase /\ unit' = unit /\ found' = found
      /\ todo' = todo /\ fetched' = fetched /\ files' = files /\ gone' = gone /\ newest' = newest
  BY DEF I!Mount, Mirrors
<1>2. /\ away' \subseteq Mirrors \cup {I!Endpoint} /\ lost' \subseteq Mirrors \cup {I!Endpoint}
      /\ lost \subseteq lost' /\ I!Configured' = I!Configured
      /\ \A b : (I!Excused(b) => I!Excused(b)') /\ (b \in lost' => I!Excused(b)')
  <2>1. lost \subseteq lost' /\ lost' \subseteq Mirrors \cup {I!Endpoint}
    BY <1>1, ListParts, Layout
  <2>2. away' \subseteq Mirrors \cup {I!Endpoint}
    BY <1>1, ListParts
  <2> QED BY <1>1, <2>1, <2>2, SameDeployment DEF I!Excused
<1>3. I!ListingMisses'
  <2>1. I!ListingMisses
    BY ListParts
  <2>2. ASSUME NEW b \in I!Configured, phase # "idle", phase = "listing" => I!Begun(b),
               ~I!MountedOver(b)'
        PROVE  I!Excused(b)'
    <3>1. CASE I!MountedOver(b)
      <4>1. b \in lost'
        BY <1>1, <2>2, <3>1 DEF I!MountedOver, I!Begun
      <4> QED BY <1>2, <4>1
    <3>2. CASE ~I!MountedOver(b)
      <4>1. I!Excused(b)
        BY <2>1, <2>2, <3>2 DEF I!ListingMisses
      <4> QED BY <1>2, <4>1
    <3> QED BY <3>1, <3>2
  <2>3. \A b : I!Begun(b)' = I!Begun(b)
    BY <1>1 DEF I!Begun
  <2>4. ASSUME NEW j \in I!ObjectKeys, I!Missed(j)', I!Missed(j) => I!StillToCome(j)
        PROVE  I!StillToCome(j)'
    BY <1>1, <1>2, <2>4 DEF I!Missed, I!StillToCome
  <2>5. I!SweptWasGone'
    BY <1>1, <1>2, <2>1 DEF I!ListingMisses, I!SweptWasGone
  <2> QED BY <1>1, <1>2, <2>1, <2>2, <2>3, <2>4, <2>5 DEF I!ListingMisses
<1>4. FetchStays' /\ \A t \in I!Transcripts : RowStays(files[t], t)'
  BY <1>1, ListParts DEF FetchStays, RowStays
<1>5. I!FileRows' = I!FileRows /\ I!Versions = 0..newest'
  BY <1>1 DEF I!FileRows, I!Versions
<1> QED BY <1>1, <1>2, <1>3, <1>4, <1>5, ListParts, ListMade

LEMMA StartListingStep == ASSUME ListOK, I!StartListing PROVE ListOK'
<1>1. /\ phase = "idle" /\ phase' = "listing" /\ unit' = I!Ready /\ found' = I!NothingFound
      /\ gone' = {k \in I!ObjectKeys : objects[k] = I!None} /\ lost' = {}
      /\ mode' = mode /\ objects' = objects /\ away' = away /\ todo' = todo
      /\ fetched' = fetched /\ files' = files /\ newest' = newest
  BY DEF I!StartListing
<1>2. /\ DOMAIN unit' = I!Units /\ \A u \in I!Units : UnitFits(u, unit'[u])
      /\ \A b \in Mirrors : unit'[b] = IF b \in I!Configured THEN I!Waiting ELSE I!Untouched
      /\ \A p \in LeafUnits : unit'[p] = I!Untouched
  BY <1>1, QuietUnits
<1>3. found' \in [I!ObjectKeys -> I!Versions]
  BY <1>1, ListParts DEF I!NothingFound, I!Versions, I!None
<1>4. I!ListingMisses'
  <2>1. I!ListingMisses
    BY ListParts
  <2>2. ASSUME NEW k \in I!ObjectKeys, I!Missed(k)' PROVE I!StillToCome(k)'
    <3>1. I!BucketOf(k) \in I!Configured
      BY <1>1, <2>1, <2>2 DEF I!ListingMisses, I!Missed
    <3> QED BY <1>2, <3>1, Layout DEF I!StillToCome
  <2>3. \A b \in I!Configured : ~I!Begun(b)' /\ unit'[b] # I!Untouched
    BY <1>2, Marks, Layout DEF I!Begun
  <2>4. I!Configured' = I!Configured
    BY <1>1, SameDeployment
  <2> QED BY <1>1, <1>2, <2>1, <2>2, <2>3, <2>4 DEF I!ListingMisses, I!SweptWasGone, LeafUnits
<1>5. FetchStays' /\ todo = {} /\ fetched = I!NoFetch
  BY <1>1, ListParts DEF FetchStays, I!NoFetch
<1> QED BY <1>1, <1>2, <1>3, <1>4, <1>5, ListParts, ListGoesOn

LEMMA EndListingStep == ASSUME ListOK, I!EndListing PROVE ListOK'
<1>1. /\ phase = "listing" /\ \A u \in I!Units : unit[u] \in {I!Done, I!Untouched}
      /\ phase' = "fetching" /\ unit' = I!Ended
      /\ todo' = {t \in I!Listed : files[t].etag # I!ListedEtag(t)}
      /\ mode' = mode /\ objects' = objects /\ away' = away /\ found' = found
      /\ fetched' = fetched /\ files' = files /\ gone' = gone /\ lost' = lost
      /\ newest' = newest
  BY DEF I!EndListing
<1>2. I!ListingMisses /\ FetchStays /\ fetched = I!NoFetch
  BY <1>1, ListParts
<1>3. ASSUME NEW k \in I!ObjectKeys PROVE ~I!Missed(k)
  <2>1. /\ I!UnitOf(k) \in I!Units /\ I!BucketOfUnit(I!UnitOf(k)) \in I!Units
    BY Layout
  <2>2. ~I!StillToCome(k)
    BY <1>1, <2>1, Marks DEF I!StillToCome
  <2> QED BY <1>1, <1>2, <2>2 DEF I!ListingMisses
<1>4. /\ I!SweptWasGone' /\ I!Configured' = I!Configured
      /\ \A b : I!Excused(b) => I!Excused(b)'
  <2>1. I!Configured' = I!Configured /\ \A b : I!Excused(b) => I!Excused(b)'
    BY <1>1, SameDeployment
  <2> QED BY <1>1, <1>3, <2>1, Layout DEF I!SweptWasGone, I!Missed
<1>5. ASSUME NEW b \in I!Configured, ~I!MountedOver(b) PROVE I!Excused(b)
  <2>1. unit[b] = I!Done
    BY <1>1, <1>2, Layout DEF I!ListingMisses
  <2>2. I!Begun(b)
    BY <2>1, Marks DEF I!Begun
  <2> QED BY <1>1, <1>2, <1>5, <2>2 DEF I!ListingMisses
<1>6. I!ListingMisses'
  <2>1. \A b \in I!Configured : ~I!MountedOver(b)' => I!Excused(b)'
    BY <1>1, <1>4, <1>5 DEF I!MountedOver
  <2> QED BY <1>1, <1>2, <1>4, <2>1 DEF I!ListingMisses
<1>7. todo' \subseteq I!Transcripts /\ FetchStays'
  BY <1>1, <1>2 DEF I!Listed, FetchStays, I!NoFetch
<1> QED BY <1>1, <1>6, <1>7, QuietUnits, ListParts, ListGoesOn

LEMMA UnitFailsStep ==
  ASSUME ListOK, NEW u \in I!Units, I!UnitFails(u)
  PROVE  ListOK'
BY ListIdle, ListParts DEF I!UnitFails

LEMMA ListKilledStep == ASSUME ListOK, I!Killed PROVE ListOK'
BY ListIdle, ListParts DEF I!Killed

LEMMA SweepStep == ASSUME ListOK, I!Sweep PROVE ListOK'
<1>1. /\ files' = [t \in I!Transcripts |-> IF t \in I!Listed THEN files[t] ELSE I!NoFileRow]
      /\ I!BackToIdle /\ mode' = mode /\ objects' = objects /\ away' = away /\ newest' = newest
  BY DEF I!Sweep
<1>2. I!NoFileRow \in I!FileRows /\ \A t : RowStays(I!NoFileRow, t)
  <2>1. I!None \in I!Versions
    BY ListParts DEF I!None, I!Versions
  <2> QED BY <2>1 DEF I!NoFileRow, I!FileRows, RowStays
<1>3. \A t \in I!Transcripts : files'[t] \in I!FileRows /\ RowStays(files'[t], t)
  BY <1>1, <1>2, ListParts
<1>4. files' \in [I!Transcripts -> I!FileRows]
  BY <1>1, <1>3
<1> QED BY <1>1, <1>3, <1>4, ListIdle

LEMMA EndFetchingStep == ASSUME ListOK, I!EndFetching PROVE ListOK'
<1>1. /\ phase = "fetching" /\ todo = {} /\ fetched = I!NoFetch /\ phase' = "sweeping"
      /\ mode' = mode /\ objects' = objects /\ away' = away /\ unit' = unit /\ found' = found
      /\ todo' = todo /\ fetched' = fetched /\ files' = files /\ gone' = gone /\ lost' = lost
      /\ newest' = newest
  BY DEF I!EndFetching
<1>2. I!Configured' = I!Configured /\ \A b : I!Excused(b) => I!Excused(b)'
  BY <1>1, SameDeployment
<1>3. FetchStays' /\ I!ListingMisses'
  BY <1>1, <1>2, ListParts DEF FetchStays, I!ListingMisses, I!SweptWasGone, I!MountedOver
<1> QED BY <1>1, <1>3, ListParts, ListGoesOn

\* A unit is opened in its bucket's turn: with its mirror in place, or an only
\* bucket that is noted.
LEMMA OpenStep ==
  ASSUME ListOK, NEW u \in I!Units, I!Open(u)
  PROVE  ListOK'
<1>1. CASE I!BackToIdle /\ mode' = mode /\ objects' = objects /\ away' = away
           /\ newest' = newest /\ files' = files
  BY <1>1, ListIdle, ListParts
<1>2. ASSUME NEW b, b = I!BucketOfUnit(u),
             NEW unlisted \in BOOLEAN,
             unlisted <=> mode # "s3" /\ u = b /\ I!ScanRoot(b) = I!Endpoint,
             ~(mode # "s3" /\ (I!ScanRoot(b) = "none" \/ (u # b /\ ~I!MountedOver(b)))),
             NEW names, names \in IF unlisted THEN {<<>>} ELSE I!Names(u),
             I!MayOpen(u), unit' = [unit EXCEPT ![u] = I!After(names)],
             lost' = IF unlisted THEN lost \cup {I!Endpoint} ELSE lost,
             UNCHANGED <<phase, found, todo, fetched, gone>>,
             UNCHANGED <<mode, objects, away, files, events, newest>>
      PROVE  ListOK'
  <2>1. /\ phase = "listing" /\ unit[u] = I!Waiting
        /\ phase' = phase /\ found' = found /\ todo' = todo /\ fetched' = fetched /\ gone' = gone
        /\ mode' = mode /\ objects' = objects /\ away' = away /\ files' = files
        /\ newest' = newest /\ lost \subseteq lost'
    BY <1>2 DEF I!MayOpen
  <2>2. /\ b \in Mirrors /\ (u \in Mirrors => b = u) /\ (u \in LeafUnits => u # b)
        /\ I!Configured \subseteq Mirrors
    BY <1>2, Layout
  <2>3. /\ I!ListingMisses /\ I!Configured' = I!Configured /\ (I!Alone' <=> I!Alone)
        /\ \A c : I!Excused(c) => I!Excused(c)'
    BY <2>1, ListParts, SameDeployment
  <2>4. ~unlisted => I!MountedOver(b)
    <3>1. CASE mode = "s3"
      BY <2>3, <3>1 DEF I!ListingMisses, I!MountedOver
    <3>2. CASE mode # "s3" /\ u = b
      BY <1>2, <3>2 DEF I!ScanRoot
    <3>3. CASE mode # "s3" /\ u # b
      BY <1>2, <3>3
    <3> QED BY <3>1, <3>2, <3>3
  <2>5. unlisted => u = b /\ \A c : I!Excused(c)'
    <3>1. ASSUME unlisted PROVE I!Alone
      <4>1. I!ScanRoot(b) = I!Endpoint /\ b # I!Endpoint /\ I!Endpoint # "none"
        BY <1>2, <2>2, <3>1, ListingAssumption DEF Mirrors, I!Endpoint
      <4> QED BY <4>1 DEF I!ScanRoot
    <3> QED BY <1>2, <2>3, <3>1 DEF I!Excused
  <2>6. /\ names \in Seq(I!Held(u))
        /\ ~unlisted =>
             /\ \A p \in LeafUnits : u = I!BucketOfUnit(p) => p \in I!ToSet(names)
             /\ \A k \in I!ObjectKeys : u = I!UnitOf(k) /\ objects[k] # I!None => k \in I!ToSet(names)
    <3>1. CASE unlisted
      <4>1. names = <<>>
        BY <1>2, <3>1
      <4> QED BY <3>1, <4>1, EmptySeq
    <3> SUFFICES ASSUME ~unlisted
                 PROVE  /\ names \in Seq(I!Held(u))
                        /\ \A p \in LeafUnits : u = I!BucketOfUnit(p) => p \in I!ToSet(names)
                        /\ \A k \in I!ObjectKeys :
                             u = I!UnitOf(k) /\ objects[k] # I!None => k \in I!ToSet(names)
      BY <3>1
    <3>2. names \in I!Names(u)
      BY <1>2
    <3>3. CASE u \in Mirrors
      <4>1. names = PrefixesOf[u] /\ PrefixesOf[u] \in Seq(LeafUnits) /\ u \notin LeafUnits
        BY <3>2, <3>3, Layout DEF I!Names, Mirrors
      <4>2. names \in Seq(I!Held(u))
        BY <3>3, <4>1, LenProperties, IsASeq DEF I!Held, I!ToSet, Mirrors
      <4> QED BY <3>3, <4>1, <4>2, Layout
    <3>4. CASE u \in LeafUnits
      <4>1. /\ KeysIn[u] \in Seq(I!ObjectKeys) /\ u \notin Mirrors
            /\ I!Held(u) = I!ToSet(KeysIn[u])
        BY <3>4, Layout, HeldOf
      <4>2. CASE mode = "s3"
        <5>1. names = KeysIn[u]
          BY <3>2, <4>1, <4>2 DEF I!Names, Mirrors
        <5>2. names \in Seq(I!Held(u))
          BY <4>1, <5>1, LenProperties, IsASeq DEF I!ToSet
        <5> QED BY <3>4, <4>1, <5>1, <5>2, Layout
      <4>3. CASE mode # "s3"
        <5>1. PICK there : there = {k \in I!ToSet(KeysIn[u]) : objects[k] # I!None}
          OBVIOUS
        <5>2. names \in I!SetToSeqs(there) /\ there \subseteq I!Held(u)
          BY <3>2, <4>1, <4>3, <5>1 DEF I!Names, Mirrors
        <5>3. IsFiniteSet(there)
          BY <4>1, <5>1, FiniteToSet
        <5>4. names \in Seq(there) /\ \A k \in there : k \in I!ToSet(names)
          BY <5>2, <5>3, ScanHasAll
        <5>5. names \in Seq(I!Held(u))
          BY <5>2, <5>4, SeqMonotonic
        <5> QED BY <3>4, <4>1, <5>1, <5>4, <5>5, Layout
      <4> QED BY <4>2, <4>3
    <3> QED BY <3>3, <3>4, Layout
  <2>7. PICK x : x = I!After(names)
    OBVIOUS
  <2>8. /\ UnitFits(u, x) /\ x # I!Waiting /\ x # I!Untouched
        /\ \A y \in I!ToSet(names) : x = names /\ x \notin I!States
    BY <2>6, <2>7, RestOf DEF UnitFits
  <2>9. /\ DOMAIN unit' = I!Units /\ unit'[u] = x
        /\ \A v \in I!Units : v # u => unit'[v] = unit[v]
    BY <1>2, <2>7, ListParts
  <2>10. \A v \in I!Units : UnitFits(v, unit'[v])
    BY <2>8, <2>9, ListParts
  <2>11. I!ListingMisses'
    <3>1. ASSUME NEW c \in I!Configured, I!Begun(c)', ~I!MountedOver(c)' PROVE I!Excused(c)'
      <4>1. CASE unlisted
        BY <2>5, <4>1
      <4>2. CASE ~unlisted
        <5>1. ~I!MountedOver(c) /\ c \in I!Units /\ c \in Mirrors
          BY <2>1, <2>2, <3>1, Layout DEF I!MountedOver
        <5>2. c # u
          BY <2>2, <2>4, <4>2, <5>1
        <5>3. I!Begun(c)
          BY <2>9, <3>1, <5>1, <5>2 DEF I!Begun
        <5> QED BY <2>1, <2>3, <5>1, <5>3 DEF I!ListingMisses
      <4> QED BY <4>1, <4>2
    <3>2. \A c \in I!Configured : unit'[c] # I!Untouched
      BY <2>1, <2>2, <2>3, <2>8, <2>9, Layout DEF I!ListingMisses
    <3>3. ASSUME NEW p \in LeafUnits, unit'[p] # I!Untouched
          PROVE  I!Begun(I!BucketOfUnit(p))'
      <4>1. p \in I!Units /\ I!BucketOfUnit(p) \in I!Units /\ I!BucketOfUnit(p) # p
        BY Layout
      <4>2. unit[p] # I!Untouched
        BY <2>1, <2>9, <3>3, <4>1, Marks
      <4>3. I!Begun(I!BucketOfUnit(p))
        BY <2>1, <2>3, <4>2 DEF I!ListingMisses, LeafUnits
      <4> QED BY <2>8, <2>9, <4>1, <4>3 DEF I!Begun
    <3>4. ASSUME NEW k \in I!ObjectKeys, I!Missed(k)' PROVE I!StillToCome(k)'
      <4>1. PICK p \in LeafUnits : p = I!UnitOf(k)
        BY Layout
      <4>2. PICK c \in Mirrors : c = I!BucketOfUnit(p)
        BY <4>1, Layout
      <4>3. p \in I!Units /\ c \in I!Units /\ p # c
        BY Layout
      <4>4. I!Missed(k) /\ ~unlisted
        BY <2>1, <2>3, <2>5, <3>4 DEF I!Missed
      <4>5. objects[k] # I!None
        BY <2>1, <2>3, <4>4 DEF I!ListingMisses, I!Missed
      <4>6. I!StillToCome(k)
        BY <2>1, <2>3, <4>4 DEF I!ListingMisses
      <4>7. \/ unit[c] = I!Waiting \/ (unit[c] \notin I!States /\ p \in I!ToSet(unit[c]))
            \/ unit[p] = I!Waiting \/ (unit[p] \notin I!States /\ k \in I!ToSet(unit[p]))
        BY <4>1, <4>2, <4>6 DEF I!StillToCome
      <4>8. \/ unit'[c] = I!Waiting \/ (unit'[c] \notin I!States /\ p \in I!ToSet(unit'[c]))
            \/ unit'[p] = I!Waiting \/ (unit'[p] \notin I!States /\ k \in I!ToSet(unit'[p]))
        <5>1. CASE u = c
          BY <2>6, <4>4, <2>8, <2>9, <4>2, <5>1
        <5>2. CASE u = p
          BY <2>6, <4>4, <2>8, <2>9, <4>1, <4>5, <5>2
        <5>3. CASE u # c /\ u # p
          BY <2>9, <4>3, <4>7, <5>3
        <5> QED BY <5>1, <5>2, <5>3
      <4> QED BY <4>1, <4>2, <4>8 DEF I!StillToCome
    <3>5. /\ \A k \in I!ObjectKeys : objects'[k] = I!None => k \in gone'
          /\ \A k \in I!ObjectKeys : I!BucketOf(k) \notin I!Configured' => objects'[k] = I!None
      BY <2>1, <2>3 DEF I!ListingMisses
    <3>6. mode' = "s3" => away' = {}
      BY <2>1, <2>3 DEF I!ListingMisses
    <3> QED BY <2>1, <2>3, <3>1, <3>2, <3>3, <3>4, <3>5, <3>6
         DEF I!ListingMisses, I!SweptWasGone, LeafUnits
  <2>12. FetchStays'
    BY <2>1, ListParts DEF FetchStays
  <2>13. lost' \subseteq Mirrors \cup {I!Endpoint}
    BY <1>2, ListParts
  <2> QED BY <2>1, <2>9, <2>10, <2>11, <2>12, <2>13, ListParts, ListGoesOn
<1> QED BY <1>1, <1>2 DEF I!Open

\* A page of names: each is found, or out of sight, or left for later.
LEMMA ReadPageStep ==
  ASSUME ListOK, NEW u \in I!Units, I!Reading(u), NEW n \in I!PageSizes(u), I!ReadPage(u, n)
  PROVE  ListOK'
<1>1. /\ phase = "listing" /\ unit[u] \notin I!States
      /\ mode' = mode /\ objects' = objects /\ away' = away /\ phase' = phase /\ todo' = todo
      /\ fetched' = fetched /\ files' = files /\ gone' = gone /\ lost' = lost /\ newest' = newest
  BY DEF I!Reading, I!ReadPage
<1>2. unit[u] \in Seq(I!Held(u)) /\ Len(unit[u]) > 0 /\ Len(unit[u]) \in Nat
  BY <1>1, ListParts, LenProperties DEF UnitFits
<1>3. n \in 1..Len(unit[u])
  BY <1>2 DEF I!PageSizes
<1>4. PICK page : page = I!ToSet(SubSeq(unit[u], 1, n))
  OBVIOUS
<1>5. PICK left : left = SubSeq(unit[u], n + 1, Len(unit[u]))
  OBVIOUS
<1>6. PICK x : x = I!After(left)
  OBVIOUS
<1>7. /\ left \in Seq(I!Held(u)) /\ page \subseteq I!Held(u)
      /\ \A y \in I!ToSet(unit[u]) : y \in page \/ y \in I!ToSet(left)
  BY <1>2, <1>3, <1>4, <1>5, PageOf
<1>8. /\ UnitFits(u, x) /\ x # I!Waiting /\ x # I!Untouched
      /\ \A y \in I!ToSet(left) : x = left /\ x \notin I!States
  BY <1>6, <1>7, RestOf DEF UnitFits
<1>9. unit[u] # I!Untouched /\ unit[u] # I!Waiting
  BY <1>1, Marks
<1>10. /\ I!ListingMisses /\ I!Configured' = I!Configured /\ I!Configured \subseteq Mirrors
       /\ \A b : I!Excused(b) => I!Excused(b)'
  BY <1>1, ListParts, SameDeployment, Layout
<1>11. ASSUME NEW k \in I!ObjectKeys, I!Missed(k)
       PROVE  /\ \/ unit[I!BucketOf(k)] = I!Waiting
                 \/ /\ unit[I!BucketOf(k)] \notin I!States
                    /\ I!UnitOf(k) \in I!ToSet(unit[I!BucketOf(k)])
                 \/ unit[I!UnitOf(k)] = I!Waiting
                 \/ unit[I!UnitOf(k)] \notin I!States /\ k \in I!ToSet(unit[I!UnitOf(k)])
              /\ I!Begun(I!BucketOf(k)) => I!Visible(k)
  <2>1. I!StillToCome(k)
    BY <1>1, <1>10, <1>11 DEF I!ListingMisses
  <2>2. I!Begun(I!BucketOf(k)) /\ ~I!Visible(k) => FALSE
    BY <1>1, <1>11, OutOfSight DEF I!Missed
  <2> QED BY <2>1, <2>2, Layout DEF I!StillToCome
<1>12. CASE u \in Mirrors
  <2>1. page \subseteq LeafUnits /\ \A p \in page : I!BucketOfUnit(p) = u
    BY <1>7, <1>12, HeldOf, Layout
  <2>2. PICK holding : holding = {p \in page : \E i \in DOMAIN KeysIn[p] : I!Visible(KeysIn[p][i])}
    OBVIOUS
  <2>3. /\ unit' = [v \in I!Units |-> IF v = u THEN x ELSE IF v \in holding THEN I!Waiting ELSE unit[v]]
        /\ found' = found
    BY <1>4, <1>5, <1>6, <1>12, <2>2 DEF I!ReadPage, Mirrors
  <2>4. holding \subseteq LeafUnits /\ \A p \in holding : I!BucketOfUnit(p) = u
    BY <2>1, <2>2
  <2>5. /\ DOMAIN unit' = I!Units /\ unit'[u] = x
        /\ \A b \in Mirrors : b # u => unit'[b] = unit[b]
        /\ \A p \in LeafUnits : unit'[p] = IF p \in holding THEN I!Waiting ELSE unit[p]
    BY <1>12, <2>3, <2>4, Layout
  <2>6. ASSUME NEW v \in I!Units PROVE UnitFits(v, unit'[v])
    <3>1. UnitFits(v, I!Waiting)
      BY Marks DEF UnitFits
    <3> QED BY <1>8, <2>3, <3>1, ListParts
  <2>7. \A b \in Mirrors : I!Begun(b)' <=> I!Begun(b)
    BY <1>8, <1>9, <2>5 DEF I!Begun
  <2>8. ASSUME NEW b \in I!Configured, I!Begun(b)', ~I!MountedOver(b)' PROVE I!Excused(b)'
    <3>1. I!Begun(b) /\ ~I!MountedOver(b)
      BY <1>1, <1>10, <2>7, <2>8 DEF I!MountedOver
    <3> QED BY <1>1, <1>10, <3>1 DEF I!ListingMisses
  <2>9. \A b \in I!Configured : unit'[b] # I!Untouched
    BY <1>1, <1>8, <1>10, <2>5 DEF I!ListingMisses
  <2>10. ASSUME NEW p \in LeafUnits, unit'[p] # I!Untouched
         PROVE  I!Begun(I!BucketOfUnit(p))'
    <3>1. I!Begun(u)
      BY <1>9 DEF I!Begun
    <3>2. p \notin holding => I!Begun(I!BucketOfUnit(p))
      BY <1>1, <1>10, <2>5, <2>10 DEF I!ListingMisses, LeafUnits
    <3> QED BY <1>12, <2>4, <2>7, <3>1, <3>2, Layout
  <2>11. ASSUME NEW k \in I!ObjectKeys, I!Missed(k)' PROVE I!StillToCome(k)'
    <3>1. PICK p \in LeafUnits : p = I!UnitOf(k)
      BY Layout
    <3>2. PICK b \in Mirrors : b = I!BucketOfUnit(p) /\ b = I!BucketOf(k)
      BY <3>1, Layout
    <3>3. I!Missed(k)
      BY <1>1, <1>10, <2>3, <2>11 DEF I!Missed
    <3>4. \/ unit'[b] = I!Waiting \/ (unit'[b] \notin I!States /\ p \in I!ToSet(unit'[b]))
          \/ unit'[p] = I!Waiting \/ (unit'[p] \notin I!States /\ k \in I!ToSet(unit'[p]))
      <4>1. CASE b = u /\ p \in page
        <5>1. I!Visible(k)
          BY <1>9, <1>11, <3>2, <3>3, <4>1 DEF I!Begun
        <5>2. \E i \in DOMAIN KeysIn[p] : KeysIn[p][i] = k
          BY <3>1, Layout DEF I!ToSet
        <5>3. p \in holding
          BY <2>2, <4>1, <5>1, <5>2
        <5> QED BY <2>5, <5>3
      <4>2. CASE b = u /\ p \in I!ToSet(left)
        BY <1>8, <2>5, <4>2
      <4>3. CASE ~(b = u /\ p \in page) /\ ~(b = u /\ p \in I!ToSet(left))
        <5>1. \/ unit[b] = I!Waiting \/ (unit[b] \notin I!States /\ p \in I!ToSet(unit[b]))
              \/ unit[p] = I!Waiting \/ (unit[p] \notin I!States /\ k \in I!ToSet(unit[p]))
          BY <1>11, <3>1, <3>2, <3>3
        <5> QED BY <1>7, <1>9, <2>5, <4>3, <5>1
      <4> QED BY <4>1, <4>2, <4>3
    <3> QED BY <3>1, <3>2, <3>4 DEF I!StillToCome
  <2>12. I!ListingMisses'
    <3>1. /\ \A k \in I!ObjectKeys : objects'[k] = I!None => k \in gone'
          /\ \A k \in I!ObjectKeys : I!BucketOf(k) \notin I!Configured' => objects'[k] = I!None
      BY <1>1, <1>10 DEF I!ListingMisses
    <3>2. mode' = "s3" => away' = {}
      BY <1>1, <1>10 DEF I!ListingMisses
    <3> QED BY <1>1, <1>10, <2>8, <2>9, <2>10, <2>11, <3>1, <3>2
         DEF I!ListingMisses, I!SweptWasGone, LeafUnits
  <2>13. FetchStays'
    BY <1>1, <2>3, ListParts DEF FetchStays
  <2> QED BY <1>1, <2>3, <2>5, <2>6, <2>12, <2>13, ListParts, ListGoesOn
<1>13. CASE u \in LeafUnits
  <2>1. page \subseteq I!ObjectKeys /\ \A k \in page : I!UnitOf(k) = u
    BY <1>7, <1>13, HeldOf, Layout
  <2>2. /\ unit' = [unit EXCEPT ![u] = x]
        /\ found' = [k \in I!ObjectKeys |-> IF k \in page /\ I!Visible(k) THEN objects[k] ELSE found[k]]
    BY <1>4, <1>5, <1>6, <1>13, Layout DEF I!ReadPage, Mirrors
  <2>3. /\ DOMAIN unit' = I!Units /\ unit'[u] = x
        /\ \A v \in I!Units : v # u => unit'[v] = unit[v]
    BY <2>2, ListParts
  <2>4. \A v \in I!Units : UnitFits(v, unit'[v])
    BY <1>8, <2>3, ListParts
  <2>5. /\ found' \in [I!ObjectKeys -> I!Versions]
        /\ \A k \in I!ObjectKeys : found'[k] = found[k] \/ found'[k] # I!None
        /\ \A k \in page : I!Visible(k) => found'[k] # I!None
    BY <2>1, <2>2, ListParts DEF I!Visible
  <2>6. I!Begun(I!BucketOfUnit(u)) /\ I!BucketOfUnit(u) # u
    BY <1>1, <1>9, <1>10, <1>13, Layout DEF I!ListingMisses, LeafUnits
  <2>7. \A b \in Mirrors : b # u /\ b \in I!Units /\ unit'[b] = unit[b]
    BY <1>13, <2>3, Layout
  <2>8. ASSUME NEW k \in I!ObjectKeys, I!Missed(k)' PROVE I!StillToCome(k)'
    <3>1. PICK p \in LeafUnits : p = I!UnitOf(k)
      BY Layout
    <3>2. PICK b \in Mirrors : b = I!BucketOfUnit(p) /\ b = I!BucketOf(k)
      BY <3>1, Layout
    <3>3. I!Missed(k)
      BY <1>1, <1>10, <2>5, <2>8 DEF I!Missed
    <3>4. \/ unit'[b] = I!Waiting \/ (unit'[b] \notin I!States /\ p \in I!ToSet(unit'[b]))
          \/ unit'[p] = I!Waiting \/ (unit'[p] \notin I!States /\ k \in I!ToSet(unit'[p]))
      <4>1. CASE k \in page
        <5>1. I!Visible(k)
          BY <1>11, <2>1, <2>6, <3>1, <3>2, <3>3, <4>1
        <5> QED BY <2>5, <2>8, <4>1, <5>1 DEF I!Missed
      <4>2. CASE k \in I!ToSet(left) /\ p = u
        BY <1>8, <2>3, <4>2
      <4>3. CASE k \notin page /\ ~(k \in I!ToSet(left) /\ p = u)
        <5>1. \/ unit[b] = I!Waiting \/ (unit[b] \notin I!States /\ p \in I!ToSet(unit[b]))
              \/ unit[p] = I!Waiting \/ (unit[p] \notin I!States /\ k \in I!ToSet(unit[p]))
          BY <1>11, <3>1, <3>2, <3>3
        <5>2. p \in I!Units
          BY Layout
        <5> QED BY <1>7, <1>9, <2>3, <2>7, <4>3, <5>1, <5>2
      <4> QED BY <4>1, <4>2, <4>3
    <3> QED BY <3>1, <3>2, <3>4 DEF I!StillToCome
  <2>9. I!ListingMisses'
    <3>1. /\ \A k \in I!ObjectKeys : objects'[k] = I!None => k \in gone'
          /\ \A k \in I!ObjectKeys : I!BucketOf(k) \notin I!Configured' => objects'[k] = I!None
      BY <1>1, <1>10 DEF I!ListingMisses
    <3>2. mode' = "s3" => away' = {}
      BY <1>1, <1>10 DEF I!ListingMisses
    <3>3. ASSUME NEW b \in I!Configured, I!Begun(b)', ~I!MountedOver(b)' PROVE I!Excused(b)'
      <4>1. I!Begun(b) /\ ~I!MountedOver(b)
        BY <1>1, <1>10, <2>7, <3>3 DEF I!MountedOver, I!Begun
      <4> QED BY <1>1, <1>10, <4>1 DEF I!ListingMisses
    <3>4. \A b \in I!Configured : unit'[b] # I!Untouched
      BY <1>1, <1>10, <2>7 DEF I!ListingMisses
    <3>5. ASSUME NEW p \in LeafUnits, unit'[p] # I!Untouched
          PROVE  I!Begun(I!BucketOfUnit(p))'
      <4>1. unit[p] # I!Untouched
        BY <1>9, <2>3, <3>5, Layout
      <4>2. I!Begun(I!BucketOfUnit(p)) /\ I!BucketOfUnit(p) \in Mirrors
        BY <1>1, <1>10, <4>1, Layout DEF I!ListingMisses, LeafUnits
      <4> QED BY <2>7, <4>2 DEF I!Begun
    <3> QED BY <1>1, <1>10, <2>8, <3>1, <3>2, <3>3, <3>4, <3>5
         DEF I!ListingMisses, I!SweptWasGone, LeafUnits
  <2>10. FetchStays'
    BY <1>1, ListParts DEF FetchStays, I!NoFetch
  <2> QED BY <1>1, <2>3, <2>4, <2>5, <2>9, <2>10, ListParts, ListGoesOn
<1> QED BY <1>12, <1>13, Layout

\* A vanished transcript counts as not listed.
LEMMA FetchTranscriptStep ==
  ASSUME ListOK, NEW t \in I!Transcripts, NEW fails \in BOOLEAN, I!FetchTranscript(t, fails)
  PROVE  ListOK'
<1>1. /\ phase = "fetching" /\ fetched = I!NoFetch /\ t \in todo /\ todo' = todo \ {t}
      /\ found' = (IF fails \/ I!Visible(t) THEN found ELSE [found EXCEPT ![t] = I!None])
      /\ fetched' = (IF fails \/ ~I!Visible(t) THEN I!NoFetch ELSE [key |-> t, version |-> objects[t]])
      /\ mode' = mode /\ objects' = objects /\ away' = away /\ phase' = phase /\ unit' = unit
      /\ files' = files /\ gone' = gone /\ lost' = lost /\ newest' = newest
  BY DEF I!FetchTranscript
<1>2. t \in I!ObjectKeys
  BY Layout
<1>3. /\ found' \in [I!ObjectKeys -> I!Versions]
      /\ \A k \in I!ObjectKeys : k # t => found'[k] = found[k]
      /\ I!Visible(t) => found'[t] = found[t]
  <2>1. I!None \in I!Versions
    BY ListParts DEF I!None, I!Versions
  <2> QED BY <1>1, <1>2, <2>1, ListParts
<1>4. fetched' \in {I!NoFetch} \cup [key : I!Transcripts, version : I!Versions]
  BY <1>1, <1>2, ListParts
<1>5. FetchStays'
  <2>1. \A k \in todo : found[k] # I!None
    BY ListParts DEF FetchStays
  <2>2. \A k \in todo' : k \in I!ObjectKeys /\ k # t /\ found'[k] # I!None
    BY <1>1, <1>3, <2>1, ListParts, Layout
  <2>3. fetched' = I!NoFetch \/ (I!Visible(t) /\ fetched' = [key |-> t, version |-> objects[t]])
    BY <1>1
  <2> QED BY <1>1, <1>3, <2>1, <2>2, <2>3 DEF FetchStays, I!NoFetch
<1>6. I!ListingMisses'
  <2>1. /\ I!ListingMisses /\ I!Configured' = I!Configured
        /\ \A b : I!Excused(b) => I!Excused(b)'
    BY <1>1, ListParts, SameDeployment
  <2>2. ~I!Visible(t) => t \in gone \/ I!Excused(I!BucketOf(t))
    BY <1>1, <1>2, OutOfSight
  <2>3. I!SweptWasGone'
    <3>1. ASSUME NEW k \in I!Transcripts
          PROVE  found'[k] # I!None \/ k \in gone \/ I!Excused(I!BucketOf(k))
      <4>1. k \in I!ObjectKeys
        BY Layout
      <4>2. found[k] # I!None \/ k \in gone \/ I!Excused(I!BucketOf(k))
        BY <1>1, <2>1 DEF I!ListingMisses, I!SweptWasGone
      <4> QED BY <1>3, <2>2, <4>1, <4>2
    <3> QED BY <1>1, <2>1, <3>1 DEF I!SweptWasGone
  <2> QED BY <1>1, <2>1, <2>3 DEF I!ListingMisses, I!MountedOver
<1> QED BY <1>1, <1>3, <1>4, <1>5, <1>6, ListParts, ListGoesOn

\* The row that is written: its etag was listed before its bytes were fetched.
LEMMA PersistRowStep ==
  ASSUME ListOK, NEW fails \in BOOLEAN, I!Persist(fails)
  PROVE  ListOK'
<1>1. PICK t : t = fetched.key
  OBVIOUS
<1>2. /\ phase = "fetching" /\ fetched # I!NoFetch
      /\ mode' = mode /\ objects' = objects /\ away' = away /\ phase' = phase /\ unit' = unit
      /\ found' = found /\ todo' = todo /\ gone' = gone /\ lost' = lost /\ newest' = newest
      /\ fetched' = I!NoFetch
      /\ \/ files' = files
         \/ files' = [files EXCEPT ![t] = [etag |-> I!ListedEtag(t),
                                           from |-> <<fetched.version, I!Applied(t)>>]]
  BY <1>1 DEF I!Persist, I!Write, I!SidecarFails
<1>3. t \in I!Transcripts /\ fetched.version \in I!Versions
  BY <1>1, <1>2, ListParts
<1>4. /\ t \in I!ObjectKeys /\ SidecarFor[t] \in I!ObjectKeys /\ t # "none"
  BY <1>3, Layout
<1>5. I!ListingMisses' /\ FetchStays'
  <2>1. I!Configured' = I!Configured /\ \A b : I!Excused(b) => I!Excused(b)'
    BY <1>2, SameDeployment
  <2> QED BY <1>2, <2>1, ListParts
       DEF I!ListingMisses, I!SweptWasGone, I!MountedOver, FetchStays, I!NoFetch
<1>6. PICK r : r = [etag |-> <<found[t], found[SidecarFor[t]]>>,
                    from |-> <<fetched.version, I!Applied(t)>>]
  OBVIOUS
<1>7. I!Applied(t) \in I!Versions \cup {I!Away}
  <2>1. I!None \in I!Versions
    BY ListParts DEF I!None, I!Versions
  <2> QED BY <1>4, <2>1, ListParts DEF I!Applied
<1>8. r \in I!FileRows
  BY <1>3, <1>4, <1>6, <1>7, ListParts DEF I!FileRows
<1>9. RowStays(r, t)
  <2>1. found[t] # I!None /\ (found[t] = objects[t] => fetched.version = objects[t])
    BY <1>1, <1>4, ListParts DEF FetchStays
  <2>2. found[SidecarFor[t]] = I!None => I!Applied(t) = I!None
    BY DEF I!Applied
  <2>3. found[SidecarFor[t]] = objects[SidecarFor[t]] =>
          I!Applied(t) \in {IF t \in OwnType THEN I!None ELSE objects[SidecarFor[t]], I!Away}
    BY DEF I!Applied
  <2> QED BY <1>6, <2>1, <2>2, <2>3 DEF RowStays
<1>10. files' = files \/ files' = [files EXCEPT ![t] = r]
  BY <1>2, <1>6 DEF I!ListedEtag, I!Etag
<1>11. /\ files' \in [I!Transcripts -> I!FileRows]
       /\ \A k \in I!Transcripts : files'[k] = files[k] \/ (k = t /\ files'[k] = r)
  BY <1>3, <1>8, <1>10, ListParts
<1>12. \A k \in I!Transcripts : RowStays(files'[k], k)
  BY <1>9, <1>11, ListParts
<1> QED BY <1>2, <1>5, <1>11, <1>12, ListParts, ListGoesOn

LEMMA ListStart == ASSUME I!ListInit PROVE ListOK
<1>1. /\ mode \in {"s3", "file", "alone"} /\ newest = 1
      /\ objects = [k \in I!ObjectKeys |-> IF I!BucketOf(k) \in I!Configured THEN 1 ELSE I!None]
      /\ away = {} /\ phase = "idle" /\ unit = [u \in I!Units |-> I!Untouched]
      /\ found = [k \in I!ObjectKeys |-> I!None] /\ todo = {} /\ fetched = I!NoFetch
      /\ files = [t \in I!Transcripts |-> I!NoFileRow] /\ gone = {} /\ lost = {}
  BY DEF I!ListInit
<1>2. I!ListingMisses
  BY <1>1 DEF I!ListingMisses, I!SweptWasGone
<1>3. I!ListedStays
  BY <1>1 DEF I!ListedStays, I!NoFetch, I!NoFileRow
<1>4. \A u \in I!Units : unit[u] \in I!States
  BY <1>1, Marks
<1>5. files \in [I!Transcripts -> I!FileRows]
  BY <1>1 DEF I!NoFileRow, I!FileRows, I!Versions, I!None
<1>6. I!ListInv
  BY <1>1, <1>2, <1>3, <1>4, <1>5 DEF I!ListInv
<1>7. \A t \in I!Transcripts : files[t].etag[1] \in 0..newest
  BY <1>1 DEF I!NoFileRow, I!None
<1>8. I!ListTypeOK
  BY <1>1, <1>4, <1>7 DEF I!ListTypeOK, I!NoFetch, I!None
<1> QED BY <1>6, <1>8 DEF ListOK

LEMMA ListKept == ASSUME ListOK, UNCHANGED listVars PROVE ListOK'
<1>1. /\ mode' = mode /\ objects' = objects /\ away' = away /\ phase' = phase /\ unit' = unit
      /\ found' = found /\ todo' = todo /\ fetched' = fetched /\ files' = files /\ gone' = gone
      /\ lost' = lost /\ newest' = newest
  BY DEF listVars
<1>2. I!Configured' = I!Configured /\ \A b : I!Excused(b)' <=> I!Excused(b)
  BY <1>1 DEF I!Configured, I!Alone, I!Excused
<1>3. I!ListingMisses' /\ FetchStays'
  BY <1>1, <1>2, ListParts DEF I!ListingMisses, I!SweptWasGone, I!MountedOver, I!Begun, I!Missed,
       I!StillToCome, FetchStays
<1> QED BY <1>1, <1>3, ListParts, ListGoesOn

LEMMA ListNextStep == ASSUME ListOK, I!ListNext PROVE ListOK'
BY ArchiveStep, MountStep, StartListingStep, EndListingStep, EndFetchingStep, SweepStep,
   ListKilledStep, OpenStep, UnitFailsStep, ReadPageStep, PersistRowStep, FetchTranscriptStep
   DEF I!ListNext, Mirrors

\* What a run sweeps, and what the next one passes over.
LEMMA ListEnds == ASSUME ListOK PROVE I!SweptWasGone /\ I!UnchangedIsCurrent
<1>1. I!SweptWasGone
  BY ListParts DEF I!ListingMisses
<1>2. ASSUME NEW t \in I!Transcripts, files[t].etag[1] # I!None,
             files[t].etag = I!Etag(objects[t], objects[SidecarFor[t]])
      PROVE  files[t].from \in {<<objects[t], IF t \in OwnType THEN I!None ELSE objects[SidecarFor[t]]>>,
                                <<objects[t], I!Away>>}
  <2>1. files[t] \in I!FileRows /\ RowStays(files[t], t)
    BY ListParts
  <2>2. files[t].etag[1] = objects[t] /\ files[t].etag[2] = objects[SidecarFor[t]]
    BY <1>2 DEF I!Etag
  <2>3. /\ files[t].from[1] = objects[t]
        /\ files[t].from[2] \in {IF t \in OwnType THEN I!None ELSE objects[SidecarFor[t]], I!Away}
    BY <1>2, <2>1, <2>2 DEF RowStays
  <2>4. files[t].from = <<files[t].from[1], files[t].from[2]>>
    BY <2>1 DEF I!FileRows
  <2> QED BY <2>3, <2>4
<1> QED BY <1>1, <1>2 DEF I!UnchangedIsCurrent

-----------------------------------------------------------------------------
\* WebMetrics.

MetricsOK == M!MetricsTypeOK /\ M!MetricsInv

\* The raw rows are kept for two of the widest buckets and a fold interval.
LEMMA KeepOf ==
  /\ FoldInterval \in Nat /\ M!RawKeep \in Nat
  /\ \A w \in Widths : w \in Nat /\ w > 0 /\ M!RawKeep >= w + w + FoldInterval
<1>1. PICK x \in Widths : \A w \in Widths : w <= x
  BY MetricsAssumption
<1>2. \A w \in Widths : w \in Nat /\ w > 0 /\ x >= w
  <2>1. \A w \in Widths : w \in Nat \ {0}
    BY MetricsAssumption
  <2> QED BY <1>1, <2>1
<1>3. M!Max(Widths) \in Widths /\ \A w \in Widths : M!Max(Widths) >= w
  BY <1>2 DEF M!Max
<1>4. PICK m \in Widths : m = M!Max(Widths)
  BY <1>3
<1>5. M!RawKeep = 2 * m + FoldInterval
  BY <1>4 DEF M!RawKeep
<1> QED BY <1>2, <1>3, <1>4, <1>5, MetricsAssumption

\* The buckets of one width follow each other.
LEMMA SpanOf ==
  ASSUME NEW t \in Nat, NEW w \in Widths
  PROVE  M!StartOf(t, w) \in Nat /\ M!StartOf(t, w) <= t /\ t < M!StartOf(t, w) + w
<1>1. w \in Nat \ {0}
  BY KeepOf
<1>2. t \div w \in Nat /\ (t \div w) * w <= t /\ t < (t \div w) * w + w
  BY <1>1
<1>3. (t \div w) * w \in Nat
  BY <1>1, <1>2
<1> QED BY <1>2, <1>3 DEF M!StartOf

LEMMA SpansApart ==
  ASSUME NEW t \in Nat, NEW x \in Nat, NEW w \in Widths
  PROVE  /\ M!StartOf(t, w) < M!StartOf(x, w) => M!StartOf(t, w) + w <= M!StartOf(x, w)
         /\ t <= x => M!StartOf(t, w) <= M!StartOf(x, w)
<1>1. w \in Nat \ {0}
  BY KeepOf
<1>2. ASSUME NEW y \in Nat, NEW z \in Nat, M!StartOf(y, w) < M!StartOf(z, w)
      PROVE  M!StartOf(y, w) + w <= M!StartOf(z, w)
  <2>1. PICK a \in Nat : a = y \div w
    BY <1>1
  <2>2. PICK c \in Nat : c = z \div w
    BY <1>1
  <2>3. a * w < c * w
    BY <1>2, <2>1, <2>2 DEF M!StartOf
  <2>4. a < c
    <3>1. c <= a => c * w <= a * w
      BY <1>1
    <3>2. a * w \in Nat /\ c * w \in Nat
      BY <1>1
    <3> QED BY <2>3, <3>1, <3>2
  <2>5. a + 1 <= c
    BY <2>4
  <2>6. a * w + w <= c * w
    <3>1. PICK d \in Nat : c = a + 1 + d
      <4>1. c - a - 1 \in Nat /\ c = a + 1 + (c - a - 1)
        BY <2>5
      <4> QED BY <4>1
    <3>2. c * w = a * w + w + d * w /\ d * w \in Nat /\ a * w \in Nat
      BY <1>1, <3>1
    <3> QED BY <1>1, <3>2
  <2> QED BY <2>1, <2>2, <2>6 DEF M!StartOf
<1>3. ASSUME t <= x, M!StartOf(x, w) < M!StartOf(t, w) PROVE FALSE
  <2>1. M!StartOf(x, w) + w <= M!StartOf(t, w)
    BY <1>2, <1>3
  <2> QED BY <1>1, <1>3, <2>1, SpanOf
<1> QED BY <1>2, <1>3, SpanOf

LEMMA MetricsParts ==
  ASSUME MetricsOK
  PROVE  /\ now \in Nat /\ lastFold \in Nat /\ lastFold <= now /\ maxGap \in Nat /\ now <= MaxTime
         /\ now - lastFold <= maxGap /\ M!PrunedTo = lastFold - M!RawKeep /\ M!PrunedTo \in Int
         /\ M!Cutoff = now - M!RawKeep /\ M!Cutoff \in Int /\ M!PrunedTo <= M!Cutoff
         /\ raw \subseteq sent
         /\ \A b \in sent \cup opened : b \in [ts : 0..now, grain : Grains] /\ b.ts \in Nat /\ b.ts <= now
         /\ \A r \in rollup : /\ r.width \in Widths /\ r.members # {} /\ r.members \subseteq sent
                              /\ M!RowFits(r)
         /\ \A b \in opened : b.ts >= now - 1 /\ (b.ts < lastFold => b \in late)
         /\ \A b \in raw : b.ts >= M!PrunedTo
         /\ \A b \in sent : b.ts >= M!PrunedTo => b \in raw
         /\ M!StoredBucketWhole
         /\ maxGap <= FoldInterval => M!NoneUnfolded
<1>1. now \in Nat /\ lastFold \in Nat /\ lastFold <= now /\ maxGap \in Nat /\ now <= MaxTime
  BY MetricsAssumption DEF MetricsOK, M!MetricsTypeOK, M!MetricsInv
<1>2. M!RawKeep \in Nat
  BY KeepOf
<1>3. /\ M!PrunedTo = lastFold - M!RawKeep /\ M!PrunedTo \in Int
      /\ M!Cutoff = now - M!RawKeep /\ M!Cutoff \in Int /\ M!PrunedTo <= M!Cutoff
  BY <1>1, <1>2 DEF M!PrunedTo, M!Cutoff
<1>4. \A b \in sent \cup opened : b \in [ts : 0..now, grain : Grains] /\ b.ts \in Nat /\ b.ts <= now
  BY <1>1 DEF MetricsOK, M!MetricsTypeOK
<1>5. \A b \in sent : b.ts >= M!PrunedTo => b \in raw
  BY <1>3, <1>4 DEF MetricsOK, M!MetricsInv
<1> QED BY <1>1, <1>3, <1>4, <1>5 DEF MetricsOK, M!MetricsTypeOK, M!MetricsInv

LEMMA Numbers ==
  ASSUME MetricsOK
  PROVE  /\ now \in Nat /\ lastFold \in Nat /\ lastFold <= now /\ maxGap \in Nat /\ now <= MaxTime
         /\ now - lastFold <= maxGap /\ M!PrunedTo = lastFold - M!RawKeep /\ M!PrunedTo \in Int
         /\ M!Cutoff = now - M!RawKeep /\ M!Cutoff \in Int /\ M!PrunedTo <= M!Cutoff
BY MetricsParts

\* The fold reads from where the raw rows begin.
LEMMA ReadFromOf ==
  ASSUME MetricsOK
  PROVE  M!ReadFrom \in Int /\ M!PrunedTo <= M!ReadFrom /\ M!ReadFrom <= M!Cutoff
<1>1. CASE raw # {} /\ M!Min({b.ts : b \in raw}) <= M!Cutoff
  <2>1. PICK T : T = {b.ts : b \in raw}
    OBVIOUS
  <2>2. T \subseteq Nat /\ T # {}
    BY <1>1, <2>1, MetricsParts
  <2>3. PICK x \in T : \A y \in T : x <= y
    BY <2>2, LeastOf
  <2>4. M!Min(T) \in T
    BY <2>3 DEF M!Min
  <2>5. PICK b \in raw : b.ts = M!Min({c.ts : c \in raw})
    BY <2>1, <2>4
  <2>6. M!ReadFrom = b.ts
    BY <1>1, <2>5 DEF M!ReadFrom
  <2> QED BY <1>1, <2>5, <2>6, MetricsParts
<1>2. CASE ~(raw # {} /\ M!Min({b.ts : b \in raw}) <= M!Cutoff)
  <2>1. M!ReadFrom = M!Cutoff
    BY <1>2 DEF M!ReadFrom
  <2> QED BY <2>1, MetricsParts
<1> QED BY <1>1, <1>2

\* A beacon whose bucket is newer than the last fold is among the raw rows, and
\* while the folds keep their interval the next one reads its bucket whole.
LEMMA NewerKept ==
  ASSUME MetricsOK, NEW b \in sent, NEW w \in Widths, M!StartOf(b.ts, w) + w > lastFold
  PROVE  /\ b \in raw
         /\ maxGap <= FoldInterval => M!StartOf(b.ts, w) >= M!Cutoff
<1>1. /\ w \in Nat /\ w > 0 /\ M!RawKeep >= w + w + FoldInterval /\ M!RawKeep \in Nat
      /\ FoldInterval \in Nat
  BY KeepOf
<1>2. PICK q \in Nat : q = M!StartOf(b.ts, w) /\ q <= b.ts
  BY SpanOf, MetricsParts
<1>3. b.ts \in Nat /\ b.ts >= M!PrunedTo
  BY <1>1, <1>2, MetricsParts
<1>4. maxGap <= FoldInterval => q >= M!Cutoff
  BY <1>1, <1>2, MetricsParts
<1> QED BY <1>2, <1>3, <1>4, MetricsParts

\* Steps that leave the rollup and the folds alone.
LEMMA MetricsGoesOn ==
  ASSUME MetricsOK, rollup' = rollup, lastFold' = lastFold, late' = late,
         now' \in 0..MaxTime, now' >= now, maxGap' \in Nat, maxGap' >= maxGap,
         now' - lastFold <= maxGap',
         raw \subseteq raw', raw' \subseteq sent', sent \subseteq sent',
         sent' \ sent \subseteq raw', sent' \ sent \subseteq opened,
         opened' \subseteq [ts : 0..now', grain : Grains],
         \A b \in opened' : b.ts >= now' - 1 /\ (b.ts < lastFold => b \in late),
         raw' \ raw \subseteq sent' \ sent
  PROVE  MetricsOK'
<1>1. now \in Nat /\ now' \in Nat
  BY MetricsParts, MetricsAssumption
<1>2. M!PrunedTo' = M!PrunedTo
  BY DEF M!PrunedTo, M!RawKeep
<1>3. ASSUME NEW b \in sent' \ sent
      PROVE  /\ b \in [ts : 0..now, grain : Grains] /\ b.ts \in Nat /\ b.ts >= M!PrunedTo
             /\ b.ts < lastFold => b \in late
  <2>1. b \in opened /\ M!RawKeep \in Nat /\ M!RawKeep >= 1
    <3>1. \E w \in Widths : M!RawKeep >= w + w + FoldInterval /\ w \in Nat /\ w > 0
      BY KeepOf, MetricsAssumption
    <3> QED BY <3>1, KeepOf
  <2> QED BY <2>1, MetricsParts
<1>4. sent' \cup opened' \subseteq [ts : 0..now', grain : Grains]
  <2>1. 0..now \subseteq 0..now'
    BY <1>1
  <2> QED BY <1>3, <2>1, MetricsParts
<1>5. M!MetricsTypeOK'
  BY <1>4, MetricsParts DEF M!MetricsTypeOK
<1>6. \A r \in rollup' : M!RowFits(r)'
  BY MetricsParts DEF M!RowFits
<1>7. M!StoredBucketWhole'
  <2>1. ASSUME NEW r \in rollup, NEW b \in M!InBucket(sent', r.width, r.start, r.grain), b \notin late
        PROVE  b \in r.members
    <3>1. b \in sent' /\ b.grain = r.grain /\ M!StartOf(b.ts, r.width) = r.start
      BY <2>1 DEF M!InBucket
    <3>2. CASE b \in sent
      <4>1. b \in M!InBucket(sent, r.width, r.start, r.grain)
        BY <3>1, <3>2 DEF M!InBucket
      <4> QED BY <2>1, <4>1, MetricsParts DEF M!StoredBucketWhole
    <3>3. CASE b \notin sent
      <4>1. b.ts \in Nat /\ (b.ts < lastFold => b \in late)
        BY <1>3, <3>1, <3>3
      <4>2. b.ts < r.start + r.width /\ r.start \in Nat /\ r.width \in Nat
        BY <3>1, <4>1, SpanOf, KeepOf, MetricsParts
      <4>3. r.start + r.width <= lastFold
        BY MetricsParts DEF M!RowFits
      <4> QED BY <2>1, <4>1, <4>2, <4>3, MetricsParts
    <3> QED BY <3>2, <3>3
  <2> QED BY <2>1 DEF M!StoredBucketWhole
<1>8. maxGap' <= FoldInterval => M!NoneUnfolded'
  <2>1. ASSUME maxGap' <= FoldInterval, NEW b \in sent' \ late, NEW w \in Widths,
               M!StartOf(b.ts, w) + w <= lastFold
        PROVE  \E r \in rollup : M!RowOf(r, b, w)
    <3>1. maxGap <= FoldInterval
      BY <2>1, MetricsParts, KeepOf
    <3>2. CASE b \in sent
      BY <2>1, <3>1, <3>2, MetricsParts DEF M!NoneUnfolded
    <3>3. CASE b \notin sent
      <4>1. b.ts \in Nat /\ (b.ts < lastFold => b \in late)
        BY <1>3, <3>3
      <4>2. b.ts < M!StartOf(b.ts, w) + w /\ M!StartOf(b.ts, w) \in Nat /\ w \in Nat
        BY <4>1, SpanOf, KeepOf
      <4> QED BY <2>1, <4>1, <4>2, MetricsParts
    <3> QED BY <3>2, <3>3
  <2> QED BY <2>1 DEF M!NoneUnfolded, M!RowOf
<1>9. /\ \A b \in raw' : b.ts >= M!PrunedTo'
      /\ \A b \in sent' \ raw' : b.ts < M!PrunedTo'
  <2>1. \A b \in raw' : b \in raw \/ b \in sent' \ sent
    OBVIOUS
  <2>2. \A b \in sent' \ raw' : b \in sent /\ b \notin raw
    OBVIOUS
  <2>3. \A b \in sent : b \notin raw => b.ts < M!PrunedTo
    BY MetricsParts
  <2> QED BY <1>2, <1>3, <2>1, <2>2, <2>3, MetricsParts
<1>10. M!MetricsInv'
  <2>1. lastFold' \in 0..now'
    BY <1>1, MetricsParts
  <2> QED BY <1>6, <1>7, <1>8, <1>9, <2>1 DEF M!MetricsInv
<1> QED BY <1>5, <1>10 DEF MetricsOK

LEMMA ReceiveStep ==
  ASSUME MetricsOK, NEW g \in Grains, M!Receive(g)
  PROVE  MetricsOK'
<1>1. PICK b : b = [ts |-> now, grain |-> g]
  OBVIOUS
<1>2. /\ opened' = opened \cup {b} /\ now' = now /\ raw' = raw /\ rollup' = rollup
      /\ sent' = sent /\ late' = late /\ lastFold' = lastFold /\ maxGap' = maxGap
  BY <1>1 DEF M!Receive
<1>3. b \in [ts : 0..now, grain : Grains] /\ b.ts = now /\ now \in 0..MaxTime
  BY <1>1, MetricsParts, MetricsAssumption
<1> QED BY <1>2, <1>3, MetricsParts, MetricsGoesOn

LEMMA EndedStep ==
  ASSUME MetricsOK, NEW b \in opened, M!Committed(b) \/ M!RolledBack(b)
  PROVE  MetricsOK'
<1>1. /\ opened' = opened \ {b} /\ now' = now /\ rollup' = rollup
      /\ late' = late /\ lastFold' = lastFold /\ maxGap' = maxGap
      /\ \/ raw' = raw \cup {b} /\ sent' = sent \cup {b}
         \/ raw' = raw /\ sent' = sent
  BY DEF M!Committed, M!RolledBack
<1>2. now \in 0..MaxTime
  BY MetricsParts, MetricsAssumption
<1>3. CASE b \in sent
  <2>1. b \in raw
    <3>1. \E w \in Widths : M!RawKeep >= w + w + FoldInterval /\ w \in Nat /\ w > 0
      BY KeepOf, MetricsAssumption
    <3>2. b.ts >= M!PrunedTo
      BY <3>1, KeepOf, MetricsParts
    <3> QED BY <1>3, <3>2, MetricsParts
  <2> QED BY <1>1, <1>2, <1>3, <2>1, MetricsParts, MetricsGoesOn
<1>4. CASE b \notin sent
  BY <1>1, <1>2, <1>4, MetricsParts, MetricsGoesOn
<1> QED BY <1>3, <1>4

LEMMA PassStep == ASSUME MetricsOK, M!Pass PROVE MetricsOK'
<1>1. /\ now < MaxTime /\ \A b \in opened : b.ts = now
      /\ now' = now + 1 /\ maxGap' = M!Max({maxGap, now + 1 - lastFold})
      /\ opened' = opened /\ raw' = raw /\ rollup' = rollup /\ sent' = sent /\ late' = late
      /\ lastFold' = lastFold
  BY DEF M!Pass
<1>2. now' \in 0..MaxTime
  BY <1>1, Numbers, MetricsAssumption
<1>3. maxGap' \in {maxGap, now + 1 - lastFold} /\ maxGap' >= maxGap /\ maxGap' >= now + 1 - lastFold
  <2>1. PICK T : T = {maxGap, now + 1 - lastFold}
    OBVIOUS
  <2>2. \E x \in T : \A y \in T : x >= y
    BY <2>1, Numbers
  <2>3. M!Max(T) \in T /\ \A y \in T : M!Max(T) >= y
    BY <2>2 DEF M!Max
  <2> QED BY <1>1, <2>1, <2>3
<1>4. maxGap' \in Nat
  BY <1>3, MetricsParts
<1>5. /\ opened' \subseteq [ts : 0..now', grain : Grains]
      /\ \A b \in opened' : b.ts >= now' - 1 /\ (b.ts < lastFold => b \in late)
  <2>1. 0..now \subseteq 0..now'
    BY <1>1, MetricsParts
  <2> QED BY <1>1, <2>1, MetricsParts
<1> QED BY <1>1, <1>2, <1>3, <1>4, <1>5, MetricsParts, MetricsGoesOn

\* A fold stores every bucket that is over, whole, and prunes behind it.
LEMMA FoldStep == ASSUME MetricsOK, M!Fold PROVE MetricsOK'
<1>1. /\ rollup' = M!Folded /\ raw' = {b \in raw : b.ts >= M!Cutoff}
      /\ late' = late \cup opened /\ lastFold' = now
      /\ now' = now /\ opened' = opened /\ sent' = sent /\ maxGap' = maxGap
  BY DEF M!Fold
<1>2. M!PrunedTo' = M!Cutoff
  BY <1>1 DEF M!PrunedTo, M!Cutoff, M!RawKeep
<1>3. ASSUME NEW r \in rollup
      PROVE  /\ M!Closed(r.width, r.start) /\ r.start \in Nat /\ r.width \in Widths
             /\ M!RowFits(r) /\ r.start + r.width <= lastFold
             /\ r.members # {} /\ r.members \subseteq sent
  <2>1. /\ r.width \in Widths /\ r.members # {} /\ r.members \subseteq sent /\ M!RowFits(r)
        /\ r.start + r.width <= lastFold
        /\ \A b \in r.members : M!StartOf(b.ts, r.width) = r.start
    BY MetricsParts DEF M!RowFits
  <2>2. PICK b \in r.members : b \in sent /\ b.ts \in Nat
    BY <2>1, MetricsParts
  <2>3. r.start \in Nat
    BY <2>1, <2>2, SpanOf
  <2>4. r.width \in Nat
    BY <2>1, KeepOf
  <2> QED BY <2>1, <2>3, <2>4, MetricsParts DEF M!Closed
<1>4. /\ rollup \subseteq rollup'
      /\ \A w \in Widths : \A r \in M!Foldable(w) :
           r \in rollup' \/ \E q \in rollup : M!SameKey(r, q)
      /\ \A r \in rollup' : r \in rollup \/ \E w \in Widths : r \in M!Foldable(w)
  BY <1>1, <1>3 DEF M!Folded
<1>5. ASSUME NEW w \in Widths, NEW r \in M!Foldable(w)
      PROVE  /\ r.width = w /\ r.members # {} /\ r.members \subseteq raw
             /\ r.start \in Nat /\ r.start + w <= now
             /\ \A b \in r.members : b.grain = r.grain /\ M!StartOf(b.ts, w) = r.start
             /\ M!InBucket(sent, w, r.start, r.grain) \subseteq r.members
  <2>1. PICK b \in raw :
          /\ b.ts >= M!ReadFrom /\ M!Closed(w, M!StartOf(b.ts, w)) /\ M!StartOf(b.ts, w) >= M!ReadFrom
          /\ r = [width |-> w, start |-> M!StartOf(b.ts, w), grain |-> b.grain,
                  members |-> M!InBucket({c \in raw : c.ts >= M!ReadFrom}, w,
                                         M!StartOf(b.ts, w), b.grain)]
    BY <1>5 DEF M!Foldable
  <2>2. PICK q \in Nat : q = M!StartOf(b.ts, w) /\ q >= M!ReadFrom /\ M!Closed(w, q)
    BY <2>1, SpanOf, MetricsParts
  <2>3. /\ r.width = w /\ r.start = q /\ r.grain = b.grain
        /\ r.members = M!InBucket({c \in raw : c.ts >= M!ReadFrom}, w, q, b.grain)
    BY <2>1, <2>2
  <2>4. q + w <= now
    BY <2>2 DEF M!Closed
  <2>5. b \in r.members
    BY <2>1, <2>2, <2>3 DEF M!InBucket
  <2>6. r.members \subseteq raw /\ \A c \in r.members : c.grain = r.grain /\ M!StartOf(c.ts, w) = r.start
    BY <2>3 DEF M!InBucket
  <2>7. ASSUME NEW c \in M!InBucket(sent, w, q, b.grain) PROVE c \in r.members
    <3>1. c \in sent /\ c.grain = b.grain /\ M!StartOf(c.ts, w) = q
      BY DEF M!InBucket
    <3>2. c.ts \in Nat /\ q <= c.ts
      BY <3>1, SpanOf, MetricsParts
    <3>3. c.ts >= M!ReadFrom /\ c.ts >= M!PrunedTo
      BY <2>2, <3>2, ReadFromOf, MetricsParts
    <3>4. c \in raw
      BY <3>1, <3>3, MetricsParts
    <3> QED BY <2>3, <3>1, <3>3, <3>4 DEF M!InBucket
  <2> QED BY <2>2, <2>3, <2>4, <2>5, <2>6, <2>7
<1>6. ASSUME NEW r \in rollup'
      PROVE  /\ r.width \in Widths /\ r.members # {} /\ r.members \subseteq sent /\ M!RowFits(r)'
             /\ M!InBucket(sent, r.width, r.start, r.grain) \ late' \subseteq r.members
  <2>1. CASE r \in rollup
    <3>1. /\ r.width \in Widths /\ r.members # {} /\ r.members \subseteq sent
          /\ r.start + r.width <= lastFold /\ r.start \in Nat /\ M!RowFits(r)
      BY <1>3, <2>1
    <3>2. r.start + r.width <= now
      BY <3>1, KeepOf, MetricsParts
    <3>3. M!RowFits(r)'
      BY <1>1, <3>1, <3>2 DEF M!RowFits
    <3>4. M!InBucket(sent, r.width, r.start, r.grain) \ late \subseteq r.members
      BY <2>1, MetricsParts DEF M!StoredBucketWhole
    <3> QED BY <1>1, <3>1, <3>3, <3>4
  <2>2. ASSUME NEW w \in Widths, r \in M!Foldable(w)
        PROVE  /\ r.width \in Widths /\ r.members # {} /\ r.members \subseteq sent /\ M!RowFits(r)'
               /\ M!InBucket(sent, r.width, r.start, r.grain) \ late' \subseteq r.members
    <3>1. /\ r.width = w /\ r.members # {} /\ r.members \subseteq raw
          /\ r.start \in Nat /\ r.start + w <= now
          /\ \A b \in r.members : b.grain = r.grain /\ M!StartOf(b.ts, w) = r.start
          /\ M!InBucket(sent, w, r.start, r.grain) \subseteq r.members
      BY <1>5, <2>2
    <3>2. M!RowFits(r)'
      BY <1>1, <3>1 DEF M!RowFits
    <3> QED BY <3>1, <3>2, MetricsParts
  <2> QED BY <1>4, <2>1, <2>2
<1>7. M!StoredBucketWhole'
  BY <1>1, <1>6 DEF M!StoredBucketWhole
<1>8. maxGap' <= FoldInterval => M!NoneUnfolded'
  <2>1. ASSUME maxGap <= FoldInterval, NEW b \in sent \ late', NEW w \in Widths,
               M!StartOf(b.ts, w) + w <= now
        PROVE  \E r \in rollup' : M!RowOf(r, b, w)
    <3>1. b \in sent /\ b \notin late /\ b.ts \in Nat
      BY <1>1, <2>1, MetricsParts
    <3>2. PICK q \in Nat : q = M!StartOf(b.ts, w) /\ q <= b.ts
      BY <3>1, SpanOf
    <3>3. w \in Nat
      BY KeepOf
    <3>4. CASE q + w <= lastFold
      <4>1. \E r \in rollup : M!RowOf(r, b, w)
        BY <2>1, <3>1, <3>2, <3>4, MetricsParts DEF M!NoneUnfolded
      <4> QED BY <1>4, <4>1
    <3>5. CASE q + w > lastFold
      <4>1. b \in raw /\ q >= M!Cutoff
        BY <2>1, <3>1, <3>2, <3>5, NewerKept
      <4>2. q >= M!ReadFrom /\ b.ts >= M!ReadFrom
        BY <3>1, <3>2, <4>1, ReadFromOf, MetricsParts
      <4>3. M!Closed(w, q)
        BY <2>1, <3>2 DEF M!Closed
      <4>4. PICK r : r = [width |-> w, start |-> M!StartOf(b.ts, w), grain |-> b.grain,
                          members |-> M!InBucket({c \in raw : c.ts >= M!ReadFrom}, w,
                                                 M!StartOf(b.ts, w), b.grain)]
        OBVIOUS
      <4>5. r \in M!Foldable(w)
        BY <3>2, <4>1, <4>2, <4>3, <4>4 DEF M!Foldable
      <4>6. M!RowOf(r, b, w)
        BY <4>4 DEF M!RowOf
      <4>7. CASE r \in rollup'
        BY <4>6, <4>7
      <4>8. ASSUME NEW p \in rollup, M!SameKey(r, p) PROVE M!RowOf(p, b, w) /\ p \in rollup'
        BY <1>4, <4>6, <4>8 DEF M!RowOf, M!SameKey
      <4> QED BY <1>4, <4>5, <4>7, <4>8
    <3> QED BY <3>2, <3>3, <3>4, <3>5, MetricsParts
  <2>2. ASSUME NEW b, NEW w, NEW r, M!RowOf(r, b, w) PROVE M!RowOf(r, b, w)'
    BY <2>2 DEF M!RowOf
  <2> QED BY <1>1, <2>1, <2>2 DEF M!NoneUnfolded
<1>9. M!MetricsTypeOK'
  <2>1. now' \in 0..MaxTime
    BY <1>1, MetricsParts, MetricsAssumption
  <2>2. sent' \cup opened' \subseteq [ts : 0..now', grain : Grains]
    BY <1>1, MetricsParts
  <2> QED BY <1>1, <1>6, <2>1, <2>2, MetricsParts DEF M!MetricsTypeOK
<1>10. M!MetricsInv'
  <2>1. lastFold' \in 0..now' /\ maxGap' \in Nat /\ now' - lastFold' <= maxGap'
    BY <1>1, MetricsParts
  <2>2. \A b \in opened' : b.ts >= now' - 1 /\ (b.ts < lastFold' => b \in late')
    BY <1>1, MetricsParts
  <2>3. \A b \in raw' : b.ts >= M!PrunedTo'
    BY <1>1, <1>2
  <2>4. \A b \in sent' \ raw' : b.ts < M!PrunedTo'
    BY <1>1, <1>2, MetricsParts
  <2> QED BY <1>6, <1>7, <1>8, <2>1, <2>2, <2>3, <2>4 DEF M!MetricsInv
<1> QED BY <1>9, <1>10 DEF MetricsOK

LEMMA MetricsStart == ASSUME M!MetricsInit PROVE MetricsOK
<1>1. /\ now = 0 /\ lastFold = 0 /\ maxGap = 0
      /\ opened = {} /\ raw = {} /\ rollup = {} /\ sent = {} /\ late = {}
  BY DEF M!MetricsInit
<1>2. M!MetricsTypeOK
  BY <1>1, MetricsAssumption DEF M!MetricsTypeOK
<1>3. M!MetricsInv
  BY <1>1 DEF M!MetricsInv, M!StoredBucketWhole, M!NoneUnfolded
<1> QED BY <1>2, <1>3 DEF MetricsOK

LEMMA MetricsKept == ASSUME MetricsOK, UNCHANGED metricsVars PROVE MetricsOK'
<1>1. /\ now' = now /\ opened' = opened /\ raw' = raw /\ rollup' = rollup /\ sent' = sent
      /\ late' = late /\ lastFold' = lastFold /\ maxGap' = maxGap
  BY DEF metricsVars
<1>2. now' \in 0..MaxTime
  BY <1>1, MetricsParts, MetricsAssumption
<1> QED BY <1>1, <1>2, MetricsParts, MetricsGoesOn

LEMMA MetricsStep == ASSUME MetricsOK, M!MetricsNext PROVE MetricsOK'
BY ReceiveStep, EndedStep, FoldStep, PassStep DEF M!MetricsNext

\* The stored buckets and the raw tail behind the newest of them make up the range.
LEMMA MetricsEnds == ASSUME MetricsOK PROVE M!StoredBucketWhole /\ M!WideReadoutExact
<1>1. ASSUME NEW w \in Widths, NEW from \in 0..now
      PROVE  /\ (UNION {r.members : r \in M!StoredRows(w, from)}) \cap M!Tail(w, from) \subseteq late
             /\ maxGap <= FoldInterval =>
                  {b \in sent \ late : b.ts >= from}
                    \subseteq (UNION {r.members : r \in M!StoredRows(w, from)}) \cup M!Tail(w, from)
  <2>1. PICK ends : ends = {r.start + w : r \in {q \in rollup : q.width = w}}
    OBVIOUS
  <2>2. ASSUME NEW r \in rollup, r.width = w
        PROVE  /\ r.start + w \in ends /\ r.start \in Nat /\ r.start + w <= lastFold
               /\ \E b \in sent : b.ts \in Nat /\ M!StartOf(b.ts, w) = r.start
    <3>1. /\ r.members # {} /\ r.members \subseteq sent /\ r.start + w <= lastFold
          /\ \A b \in r.members : M!StartOf(b.ts, w) = r.start
      BY <2>2, MetricsParts DEF M!RowFits
    <3>2. PICK b \in r.members : b \in sent /\ b.ts \in Nat
      BY <3>1, MetricsParts
    <3>3. r.start \in Nat
      BY <3>1, <3>2, SpanOf
    <3> QED BY <2>1, <2>2, <3>1, <3>2, <3>3
  <2>3. w \in Nat /\ w > 0
    BY KeepOf
  <2>4. ends \subseteq 0..lastFold
    BY <2>1, <2>2, <2>3, Numbers
  <2>5. M!HasStored(w) => /\ M!NewestEnd(w) \in ends
                          /\ \A e \in ends : e <= M!NewestEnd(w)
    <3>1. ASSUME M!HasStored(w) PROVE ends # {}
      BY <2>1, <3>1 DEF M!HasStored
    <3>2. ASSUME ends # {} PROVE M!Max(ends) \in ends /\ \A e \in ends : e <= M!Max(ends)
      <4>1. PICK x \in ends : \A y \in ends : y <= x
        BY <2>4, <3>2, GreatestOf, Numbers
      <4>2. \A y \in ends : x >= y
        BY <4>1
      <4>3. M!Max(ends) \in ends /\ \A y \in ends : M!Max(ends) >= y
        BY <4>2 DEF M!Max
      <4> QED BY <4>3
    <3> QED BY <2>1, <3>1, <3>2 DEF M!NewestEnd
  <2>6. PICK T : T = {from, M!Cutoff} \cup IF M!HasStored(w) THEN {M!NewestEnd(w)} ELSE {}
    OBVIOUS
  <2>7. from \in Int /\ M!Cutoff \in Int /\ (M!HasStored(w) => M!NewestEnd(w) \in Int)
    <3>1. from \in Int /\ M!Cutoff \in Int
      BY MetricsParts
    <3>2. \A e \in ends : e \in Int
      BY <2>4
    <3> QED BY <2>5, <3>1, <3>2
  <2>8. /\ M!TailFrom(w, from) \in T /\ \A x \in T : x <= M!TailFrom(w, from)
        /\ T \subseteq Int
    <3>1. T \subseteq Int
      BY <2>6, <2>7
    <3>2. \E x \in T : \A y \in T : x >= y
      BY <2>6, <2>7
    <3>3. M!Max(T) \in T /\ \A y \in T : M!Max(T) >= y
      BY <3>2 DEF M!Max
    <3>4. M!TailFrom(w, from) = M!Max(T)
      BY <2>6 DEF M!TailFrom
    <3> QED BY <3>1, <3>3, <3>4
  <2>9. ASSUME NEW r \in M!StoredRows(w, from), NEW b \in r.members, b \in M!Tail(w, from)
        PROVE  FALSE
    <3>1. r \in rollup /\ r.width = w
      BY <2>9 DEF M!StoredRows
    <3>2. b \in sent /\ b.ts \in Nat /\ M!StartOf(b.ts, w) = r.start
      BY <3>1, <2>9, MetricsParts DEF M!RowFits
    <3>3. b.ts < r.start + w
      BY <3>2, SpanOf
    <3>4. M!HasStored(w) /\ r.start + w <= M!NewestEnd(w)
      BY <2>2, <2>5, <3>1 DEF M!HasStored
    <3>5. M!NewestEnd(w) \in T
      BY <2>6, <3>4
    <3>6. M!NewestEnd(w) <= M!TailFrom(w, from) /\ M!TailFrom(w, from) <= b.ts
      BY <2>8, <2>9, <3>5 DEF M!Tail
    <3>7. r.start \in Nat /\ M!NewestEnd(w) \in Int /\ M!TailFrom(w, from) \in Int
      BY <2>2, <2>7, <2>8, <3>1, <3>4
    <3> QED BY <2>3, <3>2, <3>3, <3>4, <3>6, <3>7
  <2>10. ASSUME maxGap <= FoldInterval, NEW b \in sent \ late, b.ts >= from
         PROVE  \/ \E r \in M!StoredRows(w, from) : b \in r.members
                \/ b \in M!Tail(w, from)
    <3>1. b \in sent /\ b.ts \in Nat /\ from \in Nat
      BY MetricsParts
    <3>2. PICK q \in Nat : q = M!StartOf(b.ts, w) /\ q <= b.ts
      BY <3>1, SpanOf
    <3>3. CASE q + w <= lastFold
      <4>1. PICK r \in rollup : M!RowOf(r, b, w)
        BY <2>10, <3>2, <3>3, MetricsParts DEF M!NoneUnfolded
      <4>2. r.width = w /\ r.start = q /\ r.grain = b.grain
        BY <3>2, <4>1 DEF M!RowOf
      <4>3. M!StartOf(from, w) <= q
        BY <2>10, <3>1, <3>2, SpansApart
      <4>4. M!StartOf(from, w) \in Nat
        BY <3>1, SpanOf
      <4>5. r \in M!StoredRows(w, from)
        BY <4>2, <4>3, <4>4 DEF M!StoredRows
      <4>6. b \in M!InBucket(sent, r.width, r.start, r.grain)
        BY <3>1, <3>2, <4>2 DEF M!InBucket
      <4>7. b \in r.members
        BY <2>10, <4>6, MetricsParts DEF M!StoredBucketWhole
      <4> QED BY <4>5, <4>7
    <3>4. CASE q + w > lastFold
      <4>1. b \in raw /\ q >= M!Cutoff
        BY <2>10, <3>1, <3>2, <3>4, NewerKept
      <4>2. ASSUME M!HasStored(w) PROVE M!NewestEnd(w) <= b.ts
        <5>1. PICK r \in rollup : r.width = w /\ r.start + w = M!NewestEnd(w)
          BY <2>1, <2>5, <4>2
        <5>2. PICK c \in sent : c.ts \in Nat /\ M!StartOf(c.ts, w) = r.start
          BY <2>2, <5>1
        <5>3. r.start \in Nat /\ r.start + w <= lastFold
          BY <2>2, <5>1
        <5>4. r.start < q
          BY <2>3, <3>4, <5>3, MetricsParts
        <5>5. r.start + w <= q
          BY <3>1, <3>2, <5>2, <5>4, SpansApart
        <5> QED BY <2>3, <3>1, <3>2, <5>1, <5>3, <5>5
      <4>3. \A x \in T : x <= b.ts
        BY <2>6, <2>7, <2>10, <3>1, <3>2, <4>1, <4>2
      <4>4. b.ts >= M!TailFrom(w, from)
        BY <2>8, <3>1, <4>3
      <4> QED BY <4>1, <4>4 DEF M!Tail
    <3> QED BY <2>3, <3>2, <3>3, <3>4, MetricsParts
  <2> QED BY <2>9, <2>10
<1> QED BY <1>1, MetricsParts DEF M!WideReadoutExact

-----------------------------------------------------------------------------
\* Dashboard.

DashboardOK == V!DashboardTypeOK /\ V!DashboardInv
Stores == SUBSET (UsageRecords \cup ToolCalls)
Responses == [gen : Nat \cup {-1}, saw : Seq(Stores)]

LEMMA DashboardParts ==
  ASSUME DashboardOK
  PROVE  /\ span \in Spans /\ store \in Stores /\ rollups \in [usage : Stores, tools : Stores]
         /\ run \in {"idle", "files", "usage", "tools"} /\ answers \in Nat
         /\ \A r \in {reading, entry} :
              /\ r \in Responses /\ r.gen <= answers /\ (r.gen = -1 <=> r = V!Idle)
              /\ run = "idle" /\ r.gen = answers => V!SeesNow(r.saw)
         /\ Len(reading.saw) <= 6 /\ Len(entry.saw) \in {0, 6}
BY DEF DashboardOK, V!DashboardTypeOK, V!DashboardInv, Stores, Responses, V!Statements

\* A statement sees no more than is stored, or was when its rollup was built.
LEMMA SourceIn ==
  ASSUME DashboardOK, NEW s
  PROVE  V!Source(s) \in Stores
<1>1. store \in Stores /\ rollups.usage \in Stores /\ rollups.tools \in Stores
  BY DashboardParts
<1>2. \A rows \in Stores : V!At(rows, span) \subseteq rows
  BY DEF V!At
<1>3. V!RollSource(span) \in Stores
  <2>1. PICK rows \in Stores : rows = (IF V!Rolled(span) THEN rollups.usage ELSE store) \cap UsageRecords
    BY <1>1 DEF Stores
  <2>2. V!RollSource(span) = V!At(rows, span)
    BY <2>1 DEF V!RollSource
  <2> QED BY <1>2, <2>1, <2>2 DEF Stores
<1>4. V!ChurnSource(span) \in Stores
  <2>1. PICK rows \in Stores : rows = (IF V!Rolled(span) THEN rollups.tools ELSE store) \cap ToolCalls
    BY <1>1 DEF Stores
  <2>2. V!ChurnSource(span) \subseteq V!At(rows, span)
    BY <2>1 DEF V!ChurnSource
  <2> QED BY <1>2, <2>1, <2>2 DEF Stores
<1> QED BY <1>3, <1>4 DEF V!Source

\* As long as nothing is stored or rebuilt, a statement gives what it gave.
LEMMA SourceStays ==
  ASSUME span' = span, store' = store, rollups' = rollups
  PROVE  \A saw : V!SeesNow(saw) => V!SeesNow(saw)'
BY DEF V!SeesNow, V!Source, V!RollSource, V!ChurnSource, V!At, V!From, V!Rolled, V!BucketWidth

\* Steps of the request, which leave the run and its rollups alone.
LEMMA DashboardReads ==
  ASSUME DashboardOK, NEW x \in Responses, NEW y \in Responses,
         reading' = x, entry' = y, UNCHANGED <<span, store, rollups, run, answers>>,
         x.gen <= answers, x.gen = -1 <=> x = V!Idle, Len(x.saw) <= 6,
         y.gen <= answers, y.gen = -1 <=> y = V!Idle, Len(y.saw) \in {0, 6},
         run = "idle" /\ x.gen = answers => V!SeesNow(x.saw),
         run = "idle" /\ y.gen = answers => V!SeesNow(y.saw)
  PROVE  DashboardOK'
<1>1. run = "idle" /\ x.gen = answers => V!SeesNow(x.saw)'
  BY SourceStays
<1>2. run = "idle" /\ y.gen = answers => V!SeesNow(y.saw)'
  BY SourceStays
<1>3. V!DashboardTypeOK'
  BY DEF DashboardOK, V!DashboardTypeOK, V!Statements
<1>4. V!DashboardInv'
  BY <1>1, <1>2 DEF DashboardOK, V!DashboardInv, Responses, Stores
<1> QED BY <1>3, <1>4 DEF DashboardOK

LEMMA NothingSeen ==
  /\ V!Idle \in Responses /\ V!Idle.gen = -1 /\ Len(V!Idle.saw) = 0 /\ V!SeesNow(V!Idle.saw)
  /\ \A g \in Nat : /\ [gen |-> g, saw |-> <<>>] \in Responses
                    /\ V!SeesNow(<<>>)
BY DEF V!Idle, Responses, V!SeesNow

LEMMA BeginStep == ASSUME DashboardOK, V!Begin PROVE DashboardOK'
<1>1. /\ reading' = [gen |-> answers, saw |-> <<>>]
      /\ UNCHANGED <<span, store, rollups, run, answers, entry>>
  BY DEF V!Begin
<1>2. PICK x \in Responses : x = [gen |-> answers, saw |-> <<>>]
  BY NothingSeen, DashboardParts
<1>3. x.gen = answers /\ x.saw = <<>> /\ V!SeesNow(x.saw) /\ x # V!Idle /\ answers \in Nat
  BY <1>2, NothingSeen, DashboardParts
<1>4. Len(x.saw) = 0
  BY <1>3
<1>5. /\ entry \in Responses /\ entry.gen <= answers /\ (entry.gen = -1 <=> entry = V!Idle)
      /\ Len(entry.saw) \in {0, 6}
      /\ run = "idle" /\ entry.gen = answers => V!SeesNow(entry.saw)
  BY DashboardParts
<1> QED BY <1>1, <1>2, <1>3, <1>4, <1>5, DashboardReads

LEMMA SelectStatementStep == ASSUME DashboardOK, V!Select PROVE DashboardOK'
<1>1. /\ reading # V!Idle /\ Len(reading.saw) < 6
      /\ UNCHANGED <<span, store, rollups, run, answers, entry>>
      /\ reading' = [reading EXCEPT !.saw = Append(@, V!Source(V!Statements[Len(@) + 1]))]
  BY DEF V!Select, V!Statements
<1>2. /\ reading \in Responses /\ reading.gen <= answers /\ reading.gen # -1
      /\ run = "idle" /\ reading.gen = answers => V!SeesNow(reading.saw)
  BY <1>1, DashboardParts
<1>3. PICK s \in Seq(Stores) : s = reading.saw
  BY <1>2 DEF Responses
<1>4. PICK z \in Stores : z = V!Source(V!Statements[Len(s) + 1])
  BY SourceIn
<1>5. PICK t : t = Append(s, z)
  OBVIOUS
<1>6. /\ t \in Seq(Stores) /\ Len(t) = Len(s) + 1 /\ t[Len(s) + 1] = z
      /\ \A i \in 1..Len(s) : t[i] = s[i]
  BY <1>5, AppendProperties
<1>7. DOMAIN t = 1..(Len(s) + 1) /\ DOMAIN s = 1..Len(s) /\ Len(s) \in Nat
  BY <1>6, LenProperties
<1>8. PICK x : x = [reading EXCEPT !.saw = t]
  OBVIOUS
<1>9. x \in Responses /\ x.gen = reading.gen /\ x.saw = t
  BY <1>2, <1>6, <1>8 DEF Responses
<1>10. ASSUME V!SeesNow(s) PROVE V!SeesNow(t)
  <2>1. ASSUME NEW i \in DOMAIN t PROVE t[i] = V!Source(V!Statements[i])
    <3>1. CASE i = Len(s) + 1
      BY <1>4, <1>6, <3>1
    <3>2. CASE i # Len(s) + 1
      <4>1. i \in DOMAIN s /\ t[i] = s[i]
        BY <1>6, <1>7, <3>2
      <4> QED BY <1>10, <4>1 DEF V!SeesNow
    <3> QED BY <3>1, <3>2
  <2> QED BY <2>1 DEF V!SeesNow
<1>11. reading' = x
  BY <1>1, <1>3, <1>4, <1>5, <1>8
<1>12. x # V!Idle /\ Len(x.saw) <= 6 /\ x.gen <= answers
  BY <1>1, <1>2, <1>3, <1>6, <1>7, <1>9, NothingSeen
<1>13. run = "idle" /\ x.gen = answers => V!SeesNow(x.saw)
  BY <1>2, <1>3, <1>9, <1>10
<1>14. /\ entry \in Responses /\ entry.gen <= answers /\ (entry.gen = -1 <=> entry = V!Idle)
       /\ Len(entry.saw) \in {0, 6}
       /\ run = "idle" /\ entry.gen = answers => V!SeesNow(entry.saw)
  BY DashboardParts
<1> QED BY <1>1, <1>2, <1>9, <1>11, <1>12, <1>13, <1>14, DashboardReads

LEMMA AnswerStep == ASSUME DashboardOK, V!Answer PROVE DashboardOK'
<1>1. /\ Len(reading.saw) = 6 /\ entry' = reading /\ reading' = V!Idle
      /\ UNCHANGED <<span, store, rollups, run, answers>>
  BY DEF V!Answer, V!Cached, V!Statements
<1>2. /\ reading \in Responses /\ reading.gen <= answers /\ (reading.gen = -1 <=> reading = V!Idle)
      /\ run = "idle" /\ reading.gen = answers => V!SeesNow(reading.saw)
      /\ answers \in Nat
  BY DashboardParts
<1>3. -1 <= answers /\ -1 # answers
  BY <1>2
<1> QED BY <1>1, <1>2, <1>3, NothingSeen, DashboardReads

\* Steps of the run: not idle, or past the generation of every request.
LEMMA DashboardRuns ==
  ASSUME DashboardOK, UNCHANGED <<span, reading, entry>>,
         NEW st \in Stores, store' = st, NEW ro \in [usage : Stores, tools : Stores], rollups' = ro,
         run' \in {"idle", "files", "usage", "tools"}, answers' \in {answers, answers + 1},
         run' = "idle" => answers' = answers + 1,
         run' # "files" => ro.usage = st, run' \in {"idle", "tools"} => ro.tools = st
  PROVE  DashboardOK'
<1>1. answers \in Nat /\ answers' \in Nat /\ answers <= answers'
  BY DashboardParts
<1>2. \A r \in {reading, entry} : r.gen \in Int /\ r.gen <= answers'
  BY <1>1, DashboardParts DEF Responses
<1>3. run' = "idle" => \A r \in {reading, entry} : r.gen # answers'
  BY <1>1, DashboardParts DEF Responses
<1>4. V!DashboardTypeOK'
  BY <1>2 DEF DashboardOK, V!DashboardTypeOK, V!Statements, Stores
<1>5. V!DashboardInv'
  BY <1>1, <1>3 DEF DashboardOK, V!DashboardInv
<1> QED BY <1>4, <1>5 DEF DashboardOK

LEMMA PersistFileStep == ASSUME DashboardOK, V!Persist PROVE DashboardOK'
<1>1. /\ run' = "files" /\ UNCHANGED <<span, reading, entry, rollups, answers>>
      /\ \E f \in UsageRecords \cup ToolCalls :
           store' = IF f \in store THEN store \ {f} ELSE store \cup {f}
  BY DEF V!Persist
<1>2. PICK st \in Stores : store' = st
  BY <1>1, DashboardParts DEF Stores
<1>3. rollups \in [usage : Stores, tools : Stores]
  BY DashboardParts
<1> QED BY <1>1, <1>2, <1>3, DashboardRuns

LEMMA RebuildStep == ASSUME DashboardOK, V!RebuildUsage \/ V!RebuildTools PROVE DashboardOK'
<1>1. PICK ro : ro = rollups'
  OBVIOUS
<1>2. rollups \in [usage : Stores, tools : Stores] /\ store \in Stores
  BY DashboardParts
<1>3. CASE V!RebuildUsage
  <2>1. /\ run' = "usage" /\ ro = [rollups EXCEPT !.usage = store]
        /\ UNCHANGED <<span, store, reading, entry, answers>>
    BY <1>1, <1>3 DEF V!RebuildUsage
  <2>2. ro \in [usage : Stores, tools : Stores] /\ ro.usage = store
    BY <1>2, <2>1
  <2> QED BY <1>1, <1>2, <2>1, <2>2, DashboardRuns
<1>4. CASE V!RebuildTools
  <2>1. /\ run = "usage" /\ run' = "tools" /\ ro = [rollups EXCEPT !.tools = store]
        /\ UNCHANGED <<span, store, reading, entry, answers>>
    BY <1>1, <1>4 DEF V!RebuildTools
  <2>2. rollups.usage = store
    BY <2>1 DEF DashboardOK, V!DashboardInv
  <2>3. ro \in [usage : Stores, tools : Stores] /\ ro.tools = store /\ ro.usage = store
    BY <1>2, <2>1, <2>2
  <2> QED BY <1>1, <1>2, <2>1, <2>3, DashboardRuns
<1> QED BY <1>3, <1>4

LEMMA InvalidateStep == ASSUME DashboardOK, V!Invalidate PROVE DashboardOK'
<1>1. /\ run = "tools" /\ run' = "idle" /\ answers' = answers + 1
      /\ UNCHANGED <<span, store, rollups, reading, entry>>
  BY DEF V!Invalidate
<1>2. rollups.usage = store /\ rollups.tools = store
  BY <1>1 DEF DashboardOK, V!DashboardInv
<1>3. rollups \in [usage : Stores, tools : Stores] /\ store \in Stores
  BY DashboardParts
<1> QED BY <1>1, <1>2, <1>3, DashboardRuns

LEMMA DashboardStart == ASSUME V!DashboardInit PROVE DashboardOK
<1>1. /\ span \in Spans /\ store \in Stores /\ rollups = [usage |-> store, tools |-> store]
      /\ run = "idle" /\ answers = 0 /\ reading = V!Idle /\ entry = V!Idle
  BY DEF V!DashboardInit, Stores
<1>2. V!Idle.gen = -1 /\ V!Idle.saw = <<>>
  BY DEF V!Idle
<1>3. V!DashboardTypeOK
  BY <1>1, <1>2 DEF V!DashboardTypeOK, V!Statements, Stores
<1>4. V!DashboardInv
  BY <1>1, <1>2, NothingSeen DEF V!DashboardInv, Responses, Stores
<1> QED BY <1>3, <1>4 DEF DashboardOK

LEMMA DashboardKept == ASSUME DashboardOK, UNCHANGED dashboardVars PROVE DashboardOK'
<1>1. /\ UNCHANGED <<span, store, rollups, run, answers>> /\ reading' = reading /\ entry' = entry
  BY DEF dashboardVars
<1>2. \A saw : V!SeesNow(saw) => V!SeesNow(saw)'
  BY <1>1, SourceStays
<1>3. V!DashboardTypeOK'
  BY <1>1 DEF DashboardOK, V!DashboardTypeOK
<1>4. V!DashboardInv'
  BY <1>1, <1>2 DEF DashboardOK, V!DashboardInv
<1> QED BY <1>3, <1>4 DEF DashboardOK

LEMMA DashboardStep == ASSUME DashboardOK, V!DashboardNext PROVE DashboardOK'
BY BeginStep, SelectStatementStep, AnswerStep, PersistFileStep, RebuildStep, InvalidateStep
   DEF V!DashboardNext

LEMMA DashboardEnds == ASSUME DashboardOK PROVE V!SeesOneStore
BY DEF DashboardOK, V!DashboardInv, V!SeesOneStore
=============================================================================
