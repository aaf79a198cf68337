---------------------------- MODULE Master_proofs ---------------------------
(***************************************************************************)
(* The gates of master, for every value of the constants: what a green run *)
(* says of the legs it skipped, what a green check says of the commits its *)
(* head lacks, and what a ratchet may do to a record (modules Gates,       *)
(* GateFreshness and Ratchet, as MCServices runs them).                    *)
(***************************************************************************)
EXTENDS MasterParts, SequenceTheorems, WellFoundedInduction, TLAPS

-----------------------------------------------------------------------------
\* The greatest of finitely many numbers, as the gates of master take it: it is
\* the one whose distance to their bound is least.
LEMMA Bounded ==
  ASSUME NEW T, NEW n \in Nat, T \subseteq 0..n, T # {}
  PROVE  \E x \in T : \A y \in T : y <= x
<1> DEFINE D == {n - y : y \in T}
<1>1. IsWellFoundedOn(OpToRel(<, Nat), Nat)
  BY NatLessThanWellFounded
<1>2. \A x, y \in Nat : y < x => <<y, x>> \in OpToRel(<, Nat)
  BY DEF OpToRel
<1>3. D \subseteq Nat /\ D # {}
  <2>1. \A y \in T : n - y \in Nat
    OBVIOUS
  <2> QED BY <2>1
<1>4. ASSUME NEW R, \A x, y \in Nat : y < x => <<y, x>> \in R,
             \E x \in D : \A y \in D : ~(<<y, x>> \in R)
      PROVE  \E x \in T : \A y \in T : y <= x
  <2>1. PICK m \in D : \A k \in D : ~(<<k, m>> \in R)
    BY <1>4
  <2>2. \A k \in D : ~(k < m)
    BY <1>3, <1>4, <2>1
  <2>3. PICK x \in T : m = n - x
    OBVIOUS
  <2>4. \A y \in T : n - y \in D
    OBVIOUS
  <2>5. \A y \in T : ~(n - y < n - x)
    BY <2>2, <2>3, <2>4
  <2>6. \A y \in T : y <= x
    BY <2>5
  <2> QED BY <2>6
<1> HIDE DEF D
<1>5. \A T2 \in SUBSET Nat : T2 # {} =>
        \E x \in T2 : \A y \in T2 : ~(<<y, x>> \in OpToRel(<, Nat))
  BY <1>1, WFMin
<1>6. \E x \in D : \A y \in D : ~(<<y, x>> \in OpToRel(<, Nat))
  BY <1>3, <1>5, Zenon
<1> QED BY <1>2, <1>4, <1>6, Zenon

LEMMA MaxOf ==
  ASSUME NEW T, NEW n \in Nat, T \subseteq 0..n, T # {}
  PROVE  /\ N!Max(T) \in T /\ \A y \in T : y <= N!Max(T)
         /\ G!Max(T) \in T /\ \A y \in T : y <= G!Max(T)
<1>1. PICK x \in T : \A y \in T : y <= x
  BY Bounded
<1>2. \A y \in T : x >= y
  BY <1>1
<1>3. N!Max(T) \in T /\ \A y \in T : N!Max(T) >= y
  BY <1>2 DEF N!Max
<1>4. G!Max(T) \in T /\ \A y \in T : G!Max(T) >= y
  BY <1>2 DEF G!Max
<1> QED BY <1>3, <1>4

-----------------------------------------------------------------------------
\* GateFreshness.

\* Removing a publisher keeps the others.
LEMMA RemovedKeeps ==
  ASSUME NEW X, NEW q \in Seq(X), NEW n \in DOMAIN q
  PROVE  /\ N!RemoveAt(q, n) \in Seq(X)
         /\ \A m \in DOMAIN N!RemoveAt(q, n) :
              \E k \in DOMAIN q : k # n /\ N!RemoveAt(q, n)[m] = q[k]
         /\ \A k \in DOMAIN q : k # n => \E m \in DOMAIN N!RemoveAt(q, n) : N!RemoveAt(q, n)[m] = q[k]
<1> DEFINE l == SubSeq(q, 1, n - 1)
           r == SubSeq(q, n + 1, Len(q))
<1>1. n \in 1..Len(q) /\ Len(q) \in Nat /\ DOMAIN q = 1..Len(q)
  BY LenProperties
<1>a. \A j \in 1..Len(q) : q[j] \in X
  BY ElementOfSeq
<1>2. l \in Seq(X) /\ Len(l) = n - 1 /\ \A j \in 1..(n - 1) : l[j] = q[j]
  <2>1. \A j \in 1..(n - 1) : q[j] \in X
    BY <1>1, <1>a
  <2>2. /\ l \in Seq(X) /\ Len(l) = IF 1 <= n - 1 THEN n - 1 - 1 + 1 ELSE 0
        /\ \A j \in 1..(n - 1 - 1 + 1) : l[j] = q[1 + j - 1]
    BY <1>1, <2>1, SubSeqProperties
  <2> QED BY <1>1, <2>2
<1>3. r \in Seq(X) /\ Len(r) = Len(q) - n /\ \A j \in 1..(Len(q) - n) : r[j] = q[n + j]
  <2>1. \A j \in (n + 1)..Len(q) : q[j] \in X
    BY <1>1, <1>a
  <2>2. /\ r \in Seq(X) /\ Len(r) = IF n + 1 <= Len(q) THEN Len(q) - (n + 1) + 1 ELSE 0
        /\ \A j \in 1..(Len(q) - (n + 1) + 1) : r[j] = q[n + 1 + j - 1]
    BY <1>1, <2>1, SubSeqProperties
  <2> QED BY <1>1, <2>2
<1>4. N!RemoveAt(q, n) = l \o r
  BY DEF N!RemoveAt
<1> HIDE DEF l, r
<1>5. l \o r \in Seq(X) /\ Len(l \o r) = Len(q) - 1
  <2>1. l \o r \in Seq(X) /\ Len(l \o r) = Len(l) + Len(r)
    BY <1>2, <1>3, ConcatProperties
  <2> QED BY <1>1, <1>2, <1>3, <2>1
<1>6. \A m \in 1..(Len(q) - 1) :
        (l \o r)[m] = IF m <= n - 1 THEN q[m] ELSE q[m + 1]
  <2>1. \A m \in 1..(Len(l) + Len(r)) : (l \o r)[m] = IF m <= Len(l) THEN l[m] ELSE r[m - Len(l)]
    BY <1>2, <1>3, ConcatProperties
  <2> SUFFICES ASSUME NEW m \in 1..(Len(q) - 1)
               PROVE  (l \o r)[m] = IF m <= n - 1 THEN q[m] ELSE q[m + 1]
    OBVIOUS
  <2>2. (l \o r)[m] = IF m <= n - 1 THEN l[m] ELSE r[m - (n - 1)]
    BY <1>1, <1>2, <1>3, <2>1
  <2>3. CASE m <= n - 1
    <3>1. l[m] = q[m] BY <1>1, <1>2, <2>3
    <3> QED BY <2>2, <2>3, <3>1
  <2>4. CASE ~(m <= n - 1)
    <3>1. m - (n - 1) \in 1..(Len(q) - n) /\ n + (m - (n - 1)) = m + 1 BY <1>1, <2>4
    <3>2. r[m - (n - 1)] = q[m + 1] BY <3>1, <1>3
    <3> QED BY <2>2, <2>4, <3>2
  <2> QED BY <2>3, <2>4
<1>7. DOMAIN (l \o r) = 1..(Len(q) - 1)
  BY <1>5, LenProperties
<1> DEFINE s == l \o r
<1> HIDE DEF s
<1>b. /\ DOMAIN s = 1..(Len(q) - 1)
      /\ \A m \in 1..(Len(q) - 1) : s[m] = IF m <= n - 1 THEN q[m] ELSE q[m + 1]
  BY <1>6, <1>7 DEF s
<1>8. ASSUME NEW m \in DOMAIN s PROVE \E k \in DOMAIN q : k # n /\ s[m] = q[k]
  <2>1. CASE m <= n - 1
    <3>1. m \in DOMAIN q /\ m # n BY <1>1, <1>b, <2>1
    <3> QED BY <3>1, <1>b, <2>1
  <2>2. CASE ~(m <= n - 1)
    <3>1. m + 1 \in DOMAIN q /\ m + 1 # n BY <1>1, <1>b, <2>2
    <3> QED BY <3>1, <1>b, <2>2
  <2> QED BY <2>1, <2>2
<1>9. ASSUME NEW k \in DOMAIN q, k # n PROVE \E m \in DOMAIN s : s[m] = q[k]
  <2>1. CASE k < n
    <3>1. k \in DOMAIN s /\ k <= n - 1 BY <1>1, <1>b, <2>1
    <3> QED BY <3>1, <1>b
  <2>2. CASE ~(k < n)
    <3>1. k - 1 \in DOMAIN s /\ ~(k - 1 <= n - 1) /\ (k - 1) + 1 = k BY <1>1, <1>b, <1>9, <2>2
    <3> QED BY <3>1, <1>b
  <2> QED BY <2>1, <2>2
<1> USE DEF s
<1> QED BY <1>4, <1>5, <1>8, <1>9

FreshOK == N!FreshTypeOK /\ N!FreshInv

Publishers(n) ==
  [pulls : SUBSET Pulls, stage : {"queued", "resolved", "publishing"}, tip : 0..n,
   todo : SUBSET N!AHead]

LEMMA FreshParts ==
  ASSUME FreshOK
  PROVE  /\ defining \in Seq(BOOLEAN) /\ Len(defining) \in Nat /\ Len(defining) > 0
         /\ head \in [Pulls -> N!AHead] /\ publisher \in Seq(Publishers(Len(defining)))
         /\ DOMAIN publisher = 1..Len(publisher) /\ Len(publisher) \in Nat
         /\ \A n \in DOMAIN publisher : publisher[n] \in Publishers(Len(defining))
<1>1. defining \in Seq(BOOLEAN) /\ publisher \in Seq(Publishers(Len(defining)))
  BY DEF FreshOK, N!FreshTypeOK, N!FreshInv, Publishers
<1>2. \A n \in DOMAIN publisher : publisher[n] \in Publishers(Len(defining))
  BY <1>1, ElementOfSeq, LenProperties
<1> QED BY <1>1, <1>2, LenProperties DEF FreshOK, N!FreshInv

\* A head that a publisher has yet to speak for: a pull request's, or an older one.
TodoHolds(h) ==
  /\ h.sha # 0
  /\ \E p \in Pulls : h.sha <= head[p].sha
  /\ \A p \in Pulls : head[p].sha = h.sha => head[p] = h

\* A new publisher joins the list of the others.
LEMMA PublisherJoins ==
  ASSUME FreshOK, NEW k \in Nat, Len(defining) <= k, NEW t \in SUBSET Pulls,
         publisher' = Append(publisher, N!Publisher(t))
  PROVE  /\ publisher' \in Seq(Publishers(k))
         /\ \A n \in DOMAIN publisher : n \in DOMAIN publisher' /\ publisher'[n] = publisher[n]
         /\ \A n \in DOMAIN publisher' :
              n \in DOMAIN publisher \/ publisher'[n] = N!Publisher(t)
         /\ \E n \in DOMAIN publisher' : publisher'[n] = N!Publisher(t)
<1>1. publisher \in Seq(Publishers(Len(defining))) /\ Len(publisher) \in Nat
      /\ DOMAIN publisher = 1..Len(publisher) /\ Len(defining) \in Nat
  BY FreshParts
<1>2. Publishers(Len(defining)) \subseteq Publishers(k)
  BY <1>1 DEF Publishers
<1>3. publisher \in Seq(Publishers(k))
  BY <1>1, <1>2, SeqMonotonic
<1>4. N!Publisher(t) \in Publishers(k)
  BY DEF N!Publisher, Publishers
<1>5. /\ publisher' \in Seq(Publishers(k)) /\ Len(publisher') = Len(publisher) + 1
      /\ \A i \in 1..Len(publisher) : publisher'[i] = publisher[i]
      /\ publisher'[Len(publisher) + 1] = N!Publisher(t)
  BY <1>3, <1>4, AppendProperties
<1>6. DOMAIN publisher' = 1..(Len(publisher) + 1)
  BY <1>5, LenProperties
<1> QED BY <1>1, <1>5, <1>6

LEMMA PushMasterStep == ASSUME FreshOK, N!PushMaster PROVE FreshOK'
<1>1. PICK d \in BOOLEAN : defining' = Append(defining, d)
  BY DEF N!PushMaster
<1>2. UNCHANGED <<head, verdict, red, overtaken>> /\ publisher' = Append(publisher, N!Publisher(Pulls))
  BY DEF N!PushMaster
<1>3. /\ defining' \in Seq(BOOLEAN) /\ Len(defining') = Len(defining) + 1
      /\ Len(defining) \in Nat /\ Len(defining) > 0
  BY <1>1, FreshParts, AppendProperties
<1>4. /\ publisher' \in Seq(Publishers(Len(defining')))
      /\ \A n \in DOMAIN publisher' :
           (n \in DOMAIN publisher /\ publisher'[n] = publisher[n]) \/ publisher'[n] = N!Publisher(Pulls)
      /\ \E n \in DOMAIN publisher' : publisher'[n] = N!Publisher(Pulls)
  <2>1. Len(defining') \in Nat /\ Len(defining) <= Len(defining') BY <1>3
  <2> QED BY <1>2, <2>1, PublisherJoins
<1>5. N!FreshTypeOK'
  BY <1>2, <1>3 DEF FreshOK, N!FreshTypeOK
<1>6. \A n \in DOMAIN publisher' : \A h \in publisher'[n].todo :
        /\ h.sha # 0
        /\ \E p \in Pulls : h.sha <= head'[p].sha
        /\ \A p \in Pulls : head'[p].sha = h.sha => head'[p] = h
  <2> SUFFICES ASSUME NEW n \in DOMAIN publisher', NEW h \in publisher'[n].todo
               PROVE  /\ h.sha # 0
                      /\ \E p \in Pulls : h.sha <= head[p].sha
                      /\ \A p \in Pulls : head[p].sha = h.sha => head[p] = h
    BY <1>2
  <2>1. publisher'[n] # N!Publisher(Pulls)
    BY DEF N!Publisher
  <2>2. n \in DOMAIN publisher /\ publisher'[n] = publisher[n]
    BY <1>4, <2>1
  <2> QED BY <2>2 DEF FreshOK, N!FreshInv
<1>7. \A p \in Pulls : \E n \in DOMAIN publisher' : N!Covers(publisher[n], p)'
  <2>1. PICK n \in DOMAIN publisher' : publisher'[n] = N!Publisher(Pulls)
    BY <1>4
  <2>2. \A p \in Pulls : N!Covers(publisher[n], p)'
    BY <2>1 DEF N!Covers, N!Publisher
  <2> QED BY <2>2
<1>8. \A s \in DOMAIN verdict' : verdict'[s].tip \in 0..Len(defining')
  BY <1>2, <1>3 DEF FreshOK, N!FreshInv
<1>9. publisher' \in Seq([pulls : SUBSET Pulls, stage : {"queued", "resolved", "publishing"},
                           tip : 0..Len(defining'), todo : SUBSET N!AHead])
  BY <1>4 DEF Publishers
<1>b. head' \in [Pulls -> N!AHead] /\ Len(defining') > 0
  BY <1>2, <1>3, FreshParts
<1>c. /\ \A p \in Pulls : head'[p].sha = 0 => head'[p] = N!NoHead
      /\ \A p, q \in Pulls : head'[p].sha = head'[q].sha => head'[p] = N!NoHead \/ p = q
  BY <1>2 DEF FreshOK, N!FreshInv
<1>d. N!FreshInv'
  BY <1>6, <1>7, <1>8, <1>9, <1>b, <1>c DEF N!FreshInv
<1> QED BY <1>5, <1>d DEF FreshOK

LEMMA PushHeadStep == ASSUME FreshOK, NEW p \in Pulls, N!PushHead(p) PROVE FreshOK'
<1> DEFINE top == IF N!Heads = {} THEN 1 ELSE N!Max(N!Heads) + 1
<1>1. PICK has \in head[p].has..Len(defining) :
        /\ has > 0
        /\ head' = [head EXCEPT ![p] = [sha |-> top, has |-> has]]
  BY DEF N!PushHead
<1>2. UNCHANGED <<defining, verdict, red, overtaken>> /\ publisher' = Append(publisher, N!Publisher({p}))
  BY DEF N!PushHead
<1>3. /\ head \in [Pulls -> N!AHead] /\ Len(defining) \in Nat /\ Len(defining) > 0
      /\ \A q \in Pulls : head[q].sha \in Nat /\ head[q].has \in Nat
  BY FreshParts DEF N!AHead
<1>4. top \in Nat /\ \A q \in Pulls : head[q].sha < top
  <2>1. \A q \in Pulls : head[q].sha # 0 => head[q].sha \in N!Heads
    BY DEF N!Heads
  <2>2. N!Heads \subseteq 0..MaxHeads
    <3>1. \A h \in N!Heads : h < MaxHeads
      BY DEF N!PushHead
    <3>2. \A h \in N!Heads : h \in Nat
      BY <1>3 DEF N!Heads
    <3> QED BY <3>1, <3>2, MasterAssumption DEF MasterAssumption
  <2>3. CASE N!Heads = {}
    BY <2>1, <2>3, <1>3
  <2>4. CASE N!Heads # {}
    <3>1. N!Max(N!Heads) \in N!Heads /\ \A y \in N!Heads : y <= N!Max(N!Heads)
      BY <2>2, <2>4, MaxOf, MasterAssumption DEF MasterAssumption
    <3>2. N!Max(N!Heads) \in Nat
      <4>1. PICK m : m = N!Max(N!Heads)
        OBVIOUS
      <4>2. m \in 0..MaxHeads
        BY <2>2, <3>1, <4>1
      <4> QED BY <4>1, <4>2
    <3>3. top = N!Max(N!Heads) + 1
      BY <2>4
    <3> QED BY <3>1, <3>2, <3>3, <2>1, <1>3
  <2> QED BY <2>3, <2>4
<1> HIDE DEF top
<1>5. /\ head' \in [Pulls -> N!AHead] /\ head'[p] = [sha |-> top, has |-> has]
      /\ \A q \in Pulls : q # p => head'[q] = head[q]
  <2>1. has \in Nat BY <1>1, <1>3
  <2> QED BY <2>1, <1>1, <1>3, <1>4 DEF N!AHead
<1>6. /\ publisher' \in Seq(Publishers(Len(defining)))
      /\ \A n \in DOMAIN publisher : n \in DOMAIN publisher' /\ publisher'[n] = publisher[n]
      /\ \A n \in DOMAIN publisher' :
           (n \in DOMAIN publisher /\ publisher'[n] = publisher[n]) \/ publisher'[n] = N!Publisher({p})
      /\ \E n \in DOMAIN publisher' : publisher'[n] = N!Publisher({p})
  <2>1. Len(defining) \in Nat /\ Len(defining) <= Len(defining) BY <1>3
  <2> QED BY <1>2, <2>1, PublisherJoins
<1>7. N!FreshTypeOK'
  <2>1. \A q \in Pulls : head'[q].sha \in Nat /\ head'[q].has \in 0..Len(defining)
    <3>1. head'[p].sha \in Nat /\ head'[p].has \in 0..Len(defining)
      BY <1>1, <1>3, <1>4, <1>5
    <3>2. \A q \in Pulls : q # p => head'[q].sha \in Nat /\ head'[q].has \in 0..Len(defining)
      BY <1>5 DEF FreshOK, N!FreshTypeOK
    <3> QED BY <3>1, <3>2
  <2> QED BY <2>1, <1>2 DEF FreshOK, N!FreshTypeOK
<1>8. \A n \in DOMAIN publisher' : \A h \in publisher'[n].todo : TodoHolds(h)'
  <2> SUFFICES ASSUME NEW n \in DOMAIN publisher', NEW h \in publisher'[n].todo PROVE TodoHolds(h)'
    OBVIOUS
  <2>1. publisher'[n] # N!Publisher({p})
    BY DEF N!Publisher
  <2>2. n \in DOMAIN publisher /\ publisher'[n] = publisher[n]
    BY <1>6, <2>1
  <2>3. TodoHolds(h) /\ h.sha \in Nat
    <3>1. h \in N!AHead
      BY <2>2, FreshParts DEF Publishers
    <3> QED BY <2>2, <3>1 DEF FreshOK, N!FreshInv, TodoHolds, N!AHead
  <2>4. PICK q \in Pulls : h.sha <= head[q].sha
    BY <2>3 DEF TodoHolds
  <2>5. h.sha < top /\ h.sha <= head'[q].sha
    BY <2>3, <2>4, <1>3, <1>4, <1>5
  <2>6. \A x \in Pulls : head'[x].sha = h.sha => head'[x] = h
    <3> SUFFICES ASSUME NEW x \in Pulls, head'[x].sha = h.sha PROVE head'[x] = h
      OBVIOUS
    <3>1. x # p
      BY <2>5, <1>4, <1>5, <2>3
    <3> QED BY <3>1, <1>5, <2>3 DEF TodoHolds
  <2> QED BY <2>3, <2>5, <2>6 DEF TodoHolds
<1>9. /\ \A x \in Pulls : head'[x].sha = 0 => head'[x] = N!NoHead
      /\ \A x, y \in Pulls : head'[x].sha = head'[y].sha => head'[x] = N!NoHead \/ x = y
  <2>1. ASSUME NEW x \in Pulls, head'[x].sha = 0 PROVE head'[x] = N!NoHead
    <3>1. x # p
      BY <2>1, <1>3, <1>4, <1>5
    <3> QED BY <2>1, <3>1, <1>5 DEF FreshOK, N!FreshInv
  <2>2. ASSUME NEW x \in Pulls, NEW y \in Pulls, head'[x].sha = head'[y].sha, x # y
        PROVE  head'[x] = N!NoHead
    <3>1. x # p /\ y # p
      BY <2>2, <1>3, <1>4, <1>5
    <3> QED BY <2>2, <3>1, <1>5 DEF FreshOK, N!FreshInv
  <2> QED BY <2>1, <2>2
<1>b. ASSUME ~red', ~overtaken', NEW q \in Pulls, head'[q] # N!NoHead
      PROVE  N!Settled(q)' \/ \E n \in DOMAIN publisher' : N!Covers(publisher[n], q)'
  <2>1. CASE q = p
    <3>1. PICK n \in DOMAIN publisher' : publisher'[n] = N!Publisher({p})
      BY <1>6
    <3>2. N!Covers(publisher[n], q)'
      BY <2>1, <3>1 DEF N!Covers, N!Publisher
    <3> QED BY <3>2
  <2>2. CASE q # p
    <3>1. head'[q] = head[q]
      BY <1>5, <2>2
    <3>2. N!Settled(q) \/ \E n \in DOMAIN publisher : N!Covers(publisher[n], q)
      BY <1>b, <1>2, <3>1 DEF FreshOK, N!FreshInv
    <3>3. N!Settled(q) => N!Settled(q)'
      BY <1>2, <3>1 DEF N!Settled, N!HeadVerdict
    <3>4. ASSUME NEW n \in DOMAIN publisher, N!Covers(publisher[n], q)
          PROVE  n \in DOMAIN publisher' /\ N!Covers(publisher[n], q)'
      BY <1>2, <1>6, <3>1, <3>4 DEF N!Covers
    <3> QED BY <3>2, <3>3, <3>4
  <2> QED BY <2>1, <2>2
<1>c. publisher' \in Seq([pulls : SUBSET Pulls, stage : {"queued", "resolved", "publishing"},
                           tip : 0..Len(defining'), todo : SUBSET N!AHead])
  BY <1>2, <1>6 DEF Publishers
<1>d. \A s \in DOMAIN verdict' : verdict'[s].tip \in 0..Len(defining')
  BY <1>2 DEF FreshOK, N!FreshInv
<1>e. N!FreshInv'
  <2>1. head' \in [Pulls -> N!AHead] /\ Len(defining') > 0
    BY <1>2, <1>3, <1>5
  <2>2. \A n \in DOMAIN publisher' : \A h \in publisher'[n].todo :
          /\ h.sha # 0
          /\ \E q \in Pulls : h.sha <= head'[q].sha
          /\ \A q \in Pulls : head'[q].sha = h.sha => head'[q] = h
    BY <1>8 DEF TodoHolds
  <2> QED BY <2>1, <2>2, <1>9, <1>b, <1>c, <1>d DEF N!FreshInv
<1> QED BY <1>7, <1>e DEF FreshOK

\* What the steps of a publisher have to keep: pull requests and master stay.
LEMMA FreshGoal ==
  ASSUME FreshOK, UNCHANGED <<defining, head>>,
         publisher' \in Seq(Publishers(Len(defining))),
         \A s \in DOMAIN verdict' :
           verdict'[s].tip \in 0..Len(defining) /\ verdict'[s].conclusion \in {"success", "failure"},
         red' \in BOOLEAN, overtaken' \in BOOLEAN,
         \A n \in DOMAIN publisher' : \A h \in publisher'[n].todo : TodoHolds(h),
         ~red' /\ ~overtaken' => \A p \in Pulls : head[p] # N!NoHead =>
           N!Settled(p)' \/ \E n \in DOMAIN publisher' : N!Covers(publisher[n], p)'
  PROVE  FreshOK'
<1>1. N!FreshTypeOK'
  BY DEF FreshOK, N!FreshTypeOK
<1>2. publisher' \in Seq([pulls : SUBSET Pulls, stage : {"queued", "resolved", "publishing"},
                           tip : 0..Len(defining'), todo : SUBSET N!AHead])
  BY DEF Publishers
<1>3. \A n \in DOMAIN publisher' : \A h \in publisher'[n].todo :
        /\ h.sha # 0
        /\ \E q \in Pulls : h.sha <= head'[q].sha
        /\ \A q \in Pulls : head'[q].sha = h.sha => head'[q] = h
  BY DEF TodoHolds
<1>4. /\ head' \in [Pulls -> N!AHead] /\ Len(defining') > 0
      /\ \A p \in Pulls : head'[p].sha = 0 => head'[p] = N!NoHead
      /\ \A p, q \in Pulls : head'[p].sha = head'[q].sha => head'[p] = N!NoHead \/ p = q
  BY DEF FreshOK, N!FreshInv
<1>5. ~red' /\ ~overtaken' => \A p \in Pulls : head'[p] # N!NoHead =>
           N!Settled(p)' \/ \E n \in DOMAIN publisher' : N!Covers(publisher[n], p)'
  OBVIOUS
<1>6. N!FreshInv'
  BY <1>2, <1>3, <1>4, <1>5 DEF N!FreshInv
<1> QED BY <1>1, <1>6 DEF FreshOK

\* One publisher changes, the others stay.
LEMMA PublisherChanges ==
  ASSUME FreshOK, NEW n \in DOMAIN publisher, NEW e \in Publishers(Len(defining)),
         publisher' = [publisher EXCEPT ![n] = e]
  PROVE  /\ publisher' \in Seq(Publishers(Len(defining))) /\ DOMAIN publisher' = DOMAIN publisher
         /\ publisher'[n] = e
         /\ \A m \in DOMAIN publisher : m # n => publisher'[m] = publisher[m]
<1>1. publisher \in Seq(Publishers(Len(defining))) /\ n \in 1..Len(publisher)
  BY FreshParts
<1>2. /\ publisher' \in Seq(Publishers(Len(defining))) /\ Len(publisher') = Len(publisher)
      /\ \A m \in 1..Len(publisher) : publisher'[m] = IF m = n THEN e ELSE publisher[m]
  BY <1>1, ExceptSeq
<1> QED BY <1>1, <1>2, FreshParts

LEMMA TodoIsHeld ==
  ASSUME FreshOK, NEW n \in DOMAIN publisher, NEW h \in publisher[n].todo
  PROVE  TodoHolds(h) /\ h \in N!AHead
BY FreshParts DEF FreshOK, N!FreshInv, TodoHolds, Publishers

LEMMA VerdictsStay ==
  ASSUME FreshOK, UNCHANGED <<verdict, defining>>
  PROVE  \A s \in DOMAIN verdict' :
           verdict'[s].tip \in 0..Len(defining) /\ verdict'[s].conclusion \in {"success", "failure"}
BY DEF FreshOK, N!FreshInv, N!FreshTypeOK

LEMMA ResolveStep == ASSUME FreshOK, NEW n \in DOMAIN publisher, N!ResolveMasterTip(n) PROVE FreshOK'
<1> DEFINE e == [publisher[n] EXCEPT !.stage = "resolved", !.tip = Len(defining)]
<1>1. publisher[n] \in Publishers(Len(defining)) /\ Len(defining) \in Nat
  BY FreshParts
<1>2. e \in Publishers(Len(defining)) /\ e.pulls = publisher[n].pulls /\ e.todo = publisher[n].todo
      /\ e.stage = "resolved" /\ e.tip = Len(defining)
  <2>1. Len(defining) \in 0..Len(defining) BY <1>1
  <2> QED BY <1>1, <2>1 DEF Publishers
<1>3. publisher' = [publisher EXCEPT ![n] = e]
  BY DEF N!ResolveMasterTip
<1> HIDE DEF e
<1>4. /\ publisher' \in Seq(Publishers(Len(defining))) /\ DOMAIN publisher' = DOMAIN publisher
      /\ publisher'[n] = e
      /\ \A m \in DOMAIN publisher : m # n => publisher'[m] = publisher[m]
  BY <1>2, <1>3, PublisherChanges
<1>5. UNCHANGED <<defining, head, verdict, red, overtaken>>
  BY DEF N!ResolveMasterTip
<1>6. \A m \in DOMAIN publisher' : \A h \in publisher'[m].todo : TodoHolds(h)
  BY <1>2, <1>4, TodoIsHeld
<1>7. ASSUME ~red', ~overtaken', NEW p \in Pulls, head[p] # N!NoHead
      PROVE  N!Settled(p)' \/ \E m \in DOMAIN publisher' : N!Covers(publisher[m], p)'
  <2>1. N!Settled(p) \/ \E m \in DOMAIN publisher : N!Covers(publisher[m], p)
    BY <1>5, <1>7 DEF FreshOK, N!FreshInv
  <2>2. N!Settled(p) => N!Settled(p)'
    BY <1>5 DEF N!Settled, N!HeadVerdict
  <2>3. ASSUME NEW m \in DOMAIN publisher, N!Covers(publisher[m], p)
        PROVE  m \in DOMAIN publisher' /\ N!Covers(publisher[m], p)'
    <3>1. CASE m = n
      BY <1>2, <1>4, <1>5, <2>3, <3>1 DEF N!Covers
    <3>2. CASE m # n
      BY <1>4, <1>5, <2>3, <3>2 DEF N!Covers
    <3> QED BY <3>1, <3>2
  <2> QED BY <2>1, <2>2, <2>3
<1>8. red' \in BOOLEAN /\ overtaken' \in BOOLEAN
  BY <1>5 DEF FreshOK, N!FreshTypeOK
<1> QED BY <1>4, <1>5, <1>6, <1>7, <1>8, VerdictsStay, FreshGoal

LEMMA HeadsForRunStep == ASSUME FreshOK, NEW n \in DOMAIN publisher, N!HeadsForRun(n) PROVE FreshOK'
<1> DEFINE listed == {head[p] : p \in publisher[n].pulls} \ {N!NoHead}
           e == [publisher[n] EXCEPT !.stage = "publishing", !.todo = listed]
<1>1. /\ publisher[n] \in Publishers(Len(defining)) /\ Len(defining) \in Nat
      /\ head \in [Pulls -> N!AHead] /\ publisher[n].stage = "resolved"
  BY FreshParts DEF N!HeadsForRun
<1>2. publisher[n].pulls \subseteq Pulls
  BY <1>1 DEF Publishers
<1>3. listed \subseteq N!AHead
  BY <1>1, <1>2
<1>4. publisher' = [publisher EXCEPT ![n] = e]
  BY DEF N!HeadsForRun
<1> HIDE DEF listed
<1>5. e \in Publishers(Len(defining)) /\ e.pulls = publisher[n].pulls /\ e.todo = listed
      /\ e.stage = "publishing" /\ e.tip = publisher[n].tip
  BY <1>1, <1>3 DEF Publishers
<1> HIDE DEF e
<1>6. /\ publisher' \in Seq(Publishers(Len(defining))) /\ DOMAIN publisher' = DOMAIN publisher
      /\ publisher'[n] = e
      /\ \A m \in DOMAIN publisher : m # n => publisher'[m] = publisher[m]
  BY <1>4, <1>5, PublisherChanges
<1>7. UNCHANGED <<defining, head, verdict, red, overtaken>>
  BY DEF N!HeadsForRun
<1>8. \A h \in listed : TodoHolds(h)
  <2> SUFFICES ASSUME NEW h \in listed PROVE TodoHolds(h)
    OBVIOUS
  <2>1. PICK p \in Pulls : h = head[p] /\ h # N!NoHead
    BY <1>2 DEF listed
  <2>2. h.sha # 0 /\ \A q \in Pulls : head[q].sha = h.sha => head[q] = h
    BY <2>1 DEF FreshOK, N!FreshInv
  <2>3. h.sha <= head[p].sha
    BY <2>1, <1>1 DEF N!AHead
  <2> QED BY <2>2, <2>3 DEF TodoHolds
<1>9. \A m \in DOMAIN publisher' : \A h \in publisher'[m].todo : TodoHolds(h)
  BY <1>5, <1>6, <1>8, TodoIsHeld
<1>b. ASSUME ~red', ~overtaken', NEW p \in Pulls, head[p] # N!NoHead
      PROVE  N!Settled(p)' \/ \E m \in DOMAIN publisher' : N!Covers(publisher[m], p)'
  <2>1. N!Settled(p) \/ \E m \in DOMAIN publisher : N!Covers(publisher[m], p)
    BY <1>7, <1>b DEF FreshOK, N!FreshInv
  <2>2. N!Settled(p) => N!Settled(p)'
    BY <1>7 DEF N!Settled, N!HeadVerdict
  <2>3. ASSUME NEW m \in DOMAIN publisher, N!Covers(publisher[m], p)
        PROVE  m \in DOMAIN publisher' /\ N!Covers(publisher[m], p)'
    <3>1. CASE m = n
      <4>1. p \in publisher[n].pulls /\ publisher[n].tip = Len(defining)
        BY <1>1, <2>3, <3>1 DEF N!Covers
      <4>2. head[p] \in listed
        BY <4>1, <1>b DEF listed
      <4> QED BY <1>5, <1>6, <1>7, <3>1, <4>1, <4>2 DEF N!Covers
    <3>2. CASE m # n
      BY <1>6, <1>7, <2>3, <3>2 DEF N!Covers
    <3> QED BY <3>1, <3>2
  <2> QED BY <2>1, <2>2, <2>3
<1>c. red' \in BOOLEAN /\ overtaken' \in BOOLEAN
  BY <1>7 DEF FreshOK, N!FreshTypeOK
<1> QED BY <1>6, <1>7, <1>9, <1>b, <1>c, VerdictsStay, FreshGoal

LEMMA PublishHeadStep == ASSUME FreshOK, NEW n \in DOMAIN publisher, N!PublishHead(n) PROVE FreshOK'
<1>1. /\ publisher[n] \in Publishers(Len(defining)) /\ Len(defining) \in Nat
      /\ publisher[n].stage = "publishing" /\ UNCHANGED <<defining, head>>
  BY FreshParts DEF N!PublishHead
<1>2. PICK h \in publisher[n].todo :
        /\ publisher' = [publisher EXCEPT ![n].todo = @ \ {h}]
        /\ \/ /\ \E conclusion \in N!Verdicts(publisher[n].tip, h) :
                   N!PublishCheck(h.sha, conclusion, publisher[n].tip)
              /\ red' = red
           \/ red' = TRUE /\ UNCHANGED <<verdict, overtaken>>
  BY DEF N!PublishHead
<1> DEFINE e == [publisher[n] EXCEPT !.todo = @ \ {h}]
<1>3. publisher' = [publisher EXCEPT ![n] = e]
  BY <1>2
<1>4. /\ e \in Publishers(Len(defining)) /\ e.pulls = publisher[n].pulls
      /\ e.todo = publisher[n].todo \ {h} /\ e.stage = "publishing" /\ e.tip = publisher[n].tip
  BY <1>1 DEF Publishers
<1> HIDE DEF e
<1>5. /\ publisher' \in Seq(Publishers(Len(defining))) /\ DOMAIN publisher' = DOMAIN publisher
      /\ publisher'[n] = e
      /\ \A m \in DOMAIN publisher : m # n => publisher'[m] = publisher[m]
  BY <1>3, <1>4, PublisherChanges
<1>6. \A m \in DOMAIN publisher' : \A x \in publisher'[m].todo : TodoHolds(x)
  BY <1>4, <1>5, TodoIsHeld
\* A publisher that covers a head still does, unless it has just spoken for it.
<1>7. ASSUME NEW p \in Pulls, NEW m \in DOMAIN publisher, N!Covers(publisher[m], p),
             ~(m = n /\ head[p] = h)
      PROVE  m \in DOMAIN publisher' /\ N!Covers(publisher[m], p)'
  <2>1. CASE m = n
    BY <1>1, <1>4, <1>5, <1>7, <2>1 DEF N!Covers
  <2>2. CASE m # n
    BY <1>1, <1>5, <1>7, <2>2 DEF N!Covers
  <2> QED BY <2>1, <2>2
<1>8. CASE red' = TRUE /\ UNCHANGED <<verdict, overtaken>>
  <2>1. red' \in BOOLEAN /\ overtaken' \in BOOLEAN
    BY <1>8 DEF FreshOK, N!FreshTypeOK
  <2> QED BY <1>1, <1>5, <1>6, <1>8, <2>1, VerdictsStay, FreshGoal
<1>9. ASSUME red' = red, NEW conclusion \in N!Verdicts(publisher[n].tip, h),
             N!PublishCheck(h.sha, conclusion, publisher[n].tip)
      PROVE  FreshOK'
  <2>1. conclusion \in {N!HeadVerdict(publisher[n].tip, h), "failure"}
        /\ conclusion \in {"success", "failure"}
    BY <1>9 DEF N!Verdicts, N!HeadVerdict
  <2>2. /\ publisher[n].tip \in 0..Len(defining)
        /\ h \in N!AHead /\ h.sha \in Nat
    BY <1>1, TodoIsHeld DEF Publishers, N!AHead
  <2>3. /\ DOMAIN verdict' = DOMAIN verdict \cup {h.sha}
        /\ verdict'[h.sha] = [conclusion |-> conclusion, tip |-> publisher[n].tip]
        /\ \A s \in DOMAIN verdict : s # h.sha => verdict'[s] = verdict[s]
        /\ overtaken' = (overtaken \/ (h.sha \in DOMAIN verdict /\ verdict[h.sha].tip > publisher[n].tip))
    BY <1>9 DEF N!PublishCheck
  <2>4. \A s \in DOMAIN verdict' :
          verdict'[s].tip \in 0..Len(defining) /\ verdict'[s].conclusion \in {"success", "failure"}
    BY <2>1, <2>2, <2>3 DEF FreshOK, N!FreshInv, N!FreshTypeOK
  <2>5. red' \in BOOLEAN /\ overtaken' \in BOOLEAN
    BY <1>9, <2>3 DEF FreshOK, N!FreshTypeOK
  <2>6. ASSUME ~red', ~overtaken', NEW p \in Pulls, head[p] # N!NoHead
        PROVE  N!Settled(p)' \/ \E m \in DOMAIN publisher' : N!Covers(publisher[m], p)'
    <3>1. ~red /\ ~overtaken /\ ~(h.sha \in DOMAIN verdict /\ verdict[h.sha].tip > publisher[n].tip)
      BY <1>9, <2>3, <2>6
    <3>2. N!Settled(p) \/ \E m \in DOMAIN publisher : N!Covers(publisher[m], p)
      BY <3>1, <2>6 DEF FreshOK, N!FreshInv
    <3>3. CASE head[p].sha = h.sha
      <4>1. head[p] = h
        BY <3>3, TodoIsHeld DEF TodoHolds
      <4>2. CASE publisher[n].tip = Len(defining)
        BY <1>1, <2>1, <2>3, <4>1, <4>2 DEF N!Settled, N!HeadVerdict
      <4>3. CASE publisher[n].tip # Len(defining)
        <5>1. ~N!Settled(p)
          BY <1>1, <2>2, <3>1, <3>3, <4>3 DEF N!Settled
        <5>2. PICK m \in DOMAIN publisher : N!Covers(publisher[m], p)
          BY <3>2, <5>1
        <5>3. m # n
          BY <1>1, <4>3, <5>2 DEF N!Covers
        <5> QED BY <1>7, <5>2, <5>3
      <4> QED BY <4>2, <4>3
    <3>4. CASE head[p].sha # h.sha
      <4>1. N!Settled(p) => N!Settled(p)'
        BY <1>1, <2>3, <3>4 DEF N!Settled, N!HeadVerdict
      <4>2. head[p] # h
        BY <3>4
      <4> QED BY <1>7, <3>2, <4>1, <4>2
    <3> QED BY <3>3, <3>4
  <2> QED BY <1>1, <1>5, <1>6, <2>4, <2>5, <2>6, FreshGoal
<1> QED BY <1>2, <1>8, <1>9

\* A publisher that has spoken for every head leaves; one that fails leaves red.
LEMMA LeavesStep ==
  ASSUME FreshOK, NEW n \in DOMAIN publisher, N!Publish(n) \/ N!Fails(n)
  PROVE  FreshOK'
<1>1. /\ publisher' = N!RemoveAt(publisher, n)
      /\ UNCHANGED <<defining, head, verdict, overtaken>>
      /\ red' = red \/ red' = TRUE
      /\ ~red' => ~red /\ publisher[n].stage = "publishing" /\ publisher[n].todo = {}
  BY DEF N!Publish, N!Fails, FreshOK, N!FreshTypeOK
<1>2. publisher \in Seq(Publishers(Len(defining)))
  BY FreshParts
<1>3. /\ publisher' \in Seq(Publishers(Len(defining)))
      /\ \A m \in DOMAIN publisher' : \E k \in DOMAIN publisher : publisher'[m] = publisher[k]
      /\ \A k \in DOMAIN publisher : k # n => \E m \in DOMAIN publisher' : publisher'[m] = publisher[k]
  BY <1>1, <1>2, RemovedKeeps
<1>4. \A m \in DOMAIN publisher' : \A x \in publisher'[m].todo : TodoHolds(x)
  BY <1>3, TodoIsHeld
<1>5. red' \in BOOLEAN /\ overtaken' \in BOOLEAN
  BY <1>1 DEF FreshOK, N!FreshTypeOK
<1>6. ASSUME ~red', ~overtaken', NEW p \in Pulls, head[p] # N!NoHead
      PROVE  N!Settled(p)' \/ \E m \in DOMAIN publisher' : N!Covers(publisher[m], p)'
  <2>1. N!Settled(p) \/ \E k \in DOMAIN publisher : N!Covers(publisher[k], p)
    BY <1>1, <1>6 DEF FreshOK, N!FreshInv
  <2>2. N!Settled(p) => N!Settled(p)'
    BY <1>1 DEF N!Settled, N!HeadVerdict
  <2>3. ASSUME NEW k \in DOMAIN publisher, N!Covers(publisher[k], p)
        PROVE  \E m \in DOMAIN publisher' : N!Covers(publisher[m], p)'
    <3>1. k # n
      BY <1>1, <1>6, <2>3 DEF N!Covers
    <3>2. PICK m \in DOMAIN publisher' : publisher'[m] = publisher[k]
      BY <1>3, <3>1
    <3>3. N!Covers(publisher[m], p)'
      BY <1>1, <2>3, <3>2 DEF N!Covers
    <3> QED BY <3>3
  <2> QED BY <2>1, <2>2, <2>3
<1> QED BY <1>1, <1>3, <1>4, <1>5, <1>6, VerdictsStay, FreshGoal

LEMMA FreshStart == ASSUME N!FreshInit PROVE FreshOK
<1>1. /\ defining = <<FALSE>> /\ Len(defining) = 1 /\ defining \in Seq(BOOLEAN)
      /\ head = [p \in Pulls |-> N!NoHead] /\ verdict = <<>> /\ publisher = <<>>
      /\ red = FALSE /\ overtaken = FALSE
  BY DEF N!FreshInit
<1>2. DOMAIN verdict = {} /\ DOMAIN publisher = {}
      /\ publisher \in Seq([pulls : SUBSET Pulls, stage : {"queued", "resolved", "publishing"},
                             tip : 0..Len(defining), todo : SUBSET N!AHead])
  BY <1>1
<1>3. \A p \in Pulls : head[p] = N!NoHead /\ head[p].sha = 0 /\ head[p].has = 0
  BY <1>1 DEF N!NoHead
<1>4. head \in [Pulls -> N!AHead]
  BY <1>1 DEF N!NoHead, N!AHead
<1>5. N!FreshTypeOK
  <2>1. \A p \in Pulls : head[p].sha \in Nat /\ head[p].has \in 0..Len(defining)
    BY <1>1, <1>3
  <2>2. \A s \in DOMAIN verdict : verdict[s].conclusion \in {"success", "failure"}
    BY <1>2
  <2> QED BY <1>1, <2>1, <2>2 DEF N!FreshTypeOK
<1>6. N!FreshInv
  BY <1>1, <1>2, <1>3, <1>4 DEF N!FreshInv
<1> QED BY <1>5, <1>6 DEF FreshOK

LEMMA FreshKept == ASSUME FreshOK, UNCHANGED freshVars PROVE FreshOK'
BY DEF FreshOK, freshVars, N!FreshTypeOK, N!FreshInv, N!Settled, N!Covers, N!HeadVerdict

LEMMA FreshStep == ASSUME FreshOK, N!FreshNext PROVE FreshOK'
BY PushMasterStep, PushHeadStep, ResolveStep, HeadsForRunStep, PublishHeadStep, LeavesStep
   DEF N!FreshNext

LEMMA FreshEnds == ASSUME FreshOK PROVE N!GreenIsFresh
<1> SUFFICES ASSUME publisher = <<>>, ~red, ~overtaken, NEW p \in Pulls, head[p] # N!NoHead
             PROVE  /\ head[p].sha \in DOMAIN verdict
                    /\ verdict[head[p].sha].conclusion = "success" =>
                         N!HeadVerdict(Len(defining), head[p]) = "success"
  BY DEF N!GreenIsFresh
<1>1. DOMAIN publisher = {}
  OBVIOUS
<1>2. N!Settled(p)
  BY <1>1 DEF FreshOK, N!FreshInv
<1> QED BY <1>2 DEF N!Settled

-----------------------------------------------------------------------------
\* Gates.

GateOK == G!GateTypeOK /\ G!GateInv

\* What every leg together says of a tree.
Good(t) ==
  /\ t["code"] # 1 /\ ~(t["code"] = 2 /\ t["data"] = 1)
  /\ t["comment"] = 0 /\ t["setup"] = 0 /\ t["floor"] = 0

LEMMA GoodIsAllPass ==
  ASSUME NEW t
  PROVE  (\A leg \in G!Legs : G!Passes(leg, t)) <=> Good(t)
<1>1. G!Passes("tests", t) /\ G!Passes("scanners", t) <=> Good(t)
  BY DEF G!Passes, Good
<1>2. Good(t) => \A leg \in G!Legs : G!Passes(leg, t)
  BY DEF G!Passes, Good, G!Legs
<1> QED BY <1>1, <1>2 DEF G!Legs

\* Trees that agree outside the paths that changed.
LEMMA SameOutside ==
  ASSUME NEW old, NEW new, NEW f \in G!Fields, f \notin G!Changed(old, new)
  PROVE  old[f] = new[f]
BY DEF G!Changed

\* The legs a class starts are enough, over a base that all of them passed on:
\* _verified_base, classify_* and the start of each leg together.
LEMMA NarrowingIsSound ==
  ASSUME NEW c, NEW b, NEW again, NEW class,
         Good(master[b].tree), Good(master[again].tree),
         master[c].author = "bot" => G!Passes("tests", master[c].tree),
         class \in {G!ClassOf(c, G!Changed(master[b].tree, master[c].tree), again), "full"},
         \A leg \in G!Started(class) : G!Passes(leg, master[c].tree)
  PROVE  Good(master[c].tree)
<1> DEFINE old == master[b].tree
           new == master[c].tree
           twice == master[again].tree
           paths == G!Changed(old, new)
<1>1. Good(old) /\ Good(twice) /\ paths \subseteq G!Fields
  BY DEF G!Changed
<1>2. \A f \in G!Fields : f \notin paths => old[f] = new[f]
  BY SameOutside
<1>3. G!Fields = {"code", "comment", "note", "setup", "data", "floor"}
  BY DEF G!Fields
<1>4. \A leg \in G!Started(class) : G!Passes(leg, new)
  OBVIOUS
<1>5. class \in {G!ClassOf(c, paths, again), "full"}
  OBVIOUS
<1>6. master[c].author = "bot" => G!Passes("tests", new)
  OBVIOUS
<1>7. G!SetupFactsMoved(paths, twice, new) <=> "setup" \in paths /\ twice["setup"] # new["setup"]
  BY DEF G!SetupFactsMoved
<1>8. G!CommentOnly(paths, twice, new) => paths \subseteq {"code", "comment"} /\ twice["code"] = new["code"]
  BY DEF G!CommentOnly, G!Sources, G!Stripped
<1> DEFINE floor == paths = {"floor"}
           prose == paths \subseteq {"note", "setup"}
           refresh == paths = {"data"} /\ master[c].author = "bot"
           remarks == G!CommentOnly(paths, twice, new)
<1>9. G!ClassOf(c, paths, again) =
        IF paths = {} THEN "full"
        ELSE CASE floor -> "thresholds"
               [] prose -> IF G!SetupFactsMoved(paths, twice, new) THEN "setup" ELSE "docs"
               [] refresh -> "data"
               [] remarks -> "comment"
               [] OTHER -> "full"
  BY DEF G!ClassOf, G!ThresholdsOnly, G!DocumentationOnly, G!Documentation, G!DataOnly, G!IsBotPush
<1>a. paths # {} => /\ floor => ~prose /\ ~refresh /\ ~remarks
                    /\ prose => ~refresh /\ ~remarks
                    /\ refresh => ~remarks
  BY <1>8
<1>h. /\ remarks => paths \subseteq {"code", "comment"} /\ twice["code"] = new["code"]
      /\ refresh => paths = {"data"} /\ master[c].author = "bot"
      /\ floor => paths = {"floor"}
      /\ prose => paths \subseteq {"note", "setup"}
  BY <1>8
<1> HIDE DEF old, new, twice, paths, floor, prose, refresh, remarks
<1>i. \/ class = "full"
      \/ class = "thresholds" /\ floor
      \/ prose /\ class = IF G!SetupFactsMoved(paths, twice, new) THEN "setup" ELSE "docs"
      \/ class = "data" /\ refresh
      \/ class = "comment" /\ remarks
  BY <1>5, <1>9, <1>a
<1>b. CASE class = "full"
  <2>1. G!Passes("tests", new) /\ G!Passes("scanners", new)
    BY <1>4, <1>b DEF G!Started, G!Legs
  <2> QED BY <2>1 DEF G!Passes, Good, new
<1>c. CASE class = "thresholds" /\ floor
  <2>1. G!Passes("tests", new)
    BY <1>4, <1>c DEF G!Started
  <2>2. old["comment"] = new["comment"]
    BY <1>2, <1>3, <1>c, <1>h
  <2> QED BY <1>1, <2>1, <2>2 DEF G!Passes, Good, new
<1>d. CASE prose /\ class = IF G!SetupFactsMoved(paths, twice, new) THEN "setup" ELSE "docs"
  <2>1. \A f \in {"code", "comment", "data", "floor"} : old[f] = new[f]
    BY <1>2, <1>3, <1>d, <1>h
  <2>2. new["setup"] = 0
    <3>1. CASE class = "setup"
      <4>1. G!Passes("setup-docs", new)
        BY <1>4, <3>1 DEF G!Started
      <4> QED BY <4>1 DEF G!Passes
    <3>2. CASE class # "setup"
      <4>1. "setup" \in paths => twice["setup"] = new["setup"]
        BY <1>d, <3>2, <1>7
      <4>2. "setup" \notin paths => old["setup"] = new["setup"]
        BY <1>2, <1>3
      <4> QED BY <4>1, <4>2, <1>1 DEF Good
    <3> QED BY <3>1, <3>2
  <2> QED BY <1>1, <2>1, <2>2 DEF Good, new
<1>e. CASE class = "data" /\ refresh
  <2>1. G!Passes("tests", new) /\ old["comment"] = new["comment"]
    BY <1>2, <1>3, <1>6, <1>e, <1>h
  <2> QED BY <1>1, <2>1 DEF G!Passes, Good, new
<1>f. CASE class = "comment" /\ remarks
  <2>1. G!Passes("tests", new) /\ G!Passes("scanners", new)
    BY <1>4, <1>f DEF G!Started
  <2> QED BY <2>1 DEF G!Passes, Good, new
<1> QED BY <1>b, <1>c, <1>d, <1>e, <1>f, <1>i

\* A leg that was started is not taken for a narrowed one.
LEMMA StartedIsNotNarrowed ==
  ASSUME NEW class \in G!Classes
  PROVE  G!Started(class) \subseteq G!Legs /\ G!Started(class) \cap G!Narrowed(class) = {}
BY DEF G!Started, G!Narrowed, G!Legs, G!Classes

LEMMA GateParts ==
  ASSUME GateOK
  PROVE  /\ Len(master) \in Nat /\ Len(master) > 0 /\ Len(gate) = Len(master)
         /\ DOMAIN master = 1..Len(master) /\ DOMAIN gate = 1..Len(master)
         /\ gate \in Seq(G!Runs)
         /\ \A c \in DOMAIN master :
              /\ master[c] \in [tree : [G!Fields -> 0..2], author : {"person", "bot"}, testedOn : Nat]
              /\ master[c].tree \in [G!Fields -> 0..2] /\ master[c].author \in {"person", "bot"}
              /\ master[c].testedOn \in Nat
              /\ \A f \in G!Fields : master[c].tree[f] \in G!ContentsOf(f)
<1>1. gate \in Seq(G!Runs) /\ Len(gate) = Len(master) /\ Len(master) > 0
      /\ master \in Seq([tree : [G!Fields -> 0..2], author : {"person", "bot"}, testedOn : Nat])
      /\ \A c \in DOMAIN master : \A f \in G!Fields : master[c].tree[f] \in G!ContentsOf(f)
  BY DEF GateOK, G!GateInv, G!GateTypeOK
<1>2. Len(master) \in Nat /\ DOMAIN master = 1..Len(master) /\ DOMAIN gate = 1..Len(master)
  BY <1>1, LenProperties
<1>3. \A c \in DOMAIN master :
        master[c] \in [tree : [G!Fields -> 0..2], author : {"person", "bot"}, testedOn : Nat]
  BY <1>1, <1>2, ElementOfSeq
<1> QED BY <1>1, <1>2, <1>3

\* The newest verified commit is one, the first commit at least.
LEMMA VerifiedBaseIs ==
  ASSUME GateOK
  PROVE  G!VerifiedBase \in DOMAIN gate /\ G!Verified(G!VerifiedBase)
<1> DEFINE verified == {c \in 1..Len(master) :
                          gate[c].stage = "done" /\ gate[c].green /\ gate[c].ran}
<1>1. Len(master) \in Nat /\ Len(master) > 0 /\ DOMAIN gate = 1..Len(master)
  BY GateParts
<1>2. 1 \in verified
  BY <1>1 DEF GateOK, G!GateInv, G!Verified
<1>3. verified \subseteq 0..Len(master) /\ verified # {}
  BY <1>1, <1>2
<1>4. G!Max(verified) \in verified
  BY <1>1, <1>3, MaxOf
<1>5. G!VerifiedBase = G!Max(verified)
  BY DEF G!VerifiedBase
<1> QED BY <1>1, <1>4, <1>5 DEF G!Verified

\* The commits a run compared with are good, when no push raced the bot's.
LEMMA VerifiedIsGood ==
  ASSUME GateOK, ~G!Raced, NEW c \in DOMAIN gate, G!Verified(c)
  PROVE  Good(master[c].tree)
BY GoodIsAllPass DEF GateOK, G!GateInv, G!GreenMeansTested, G!Verified

\* What one run of the gates may do: the others and the commits stay, and a
\* run that is verified is no longer touched.
LEMMA RunChanges ==
  ASSUME GateOK, NEW c \in DOMAIN gate, NEW r \in G!Runs, UNCHANGED <<master, bot>>,
         gate' = [gate EXCEPT ![c] = r], gate[c].stage # "done",
         r.stage \in {"none", "queued", "read", "classed", "done"},
         G!ComparedWell(c)',
         ~G!Raced /\ r.stage = "done" /\ r.green => Good(master[c].tree)
  PROVE  GateOK'
<1>1. /\ DOMAIN gate = 1..Len(master) /\ DOMAIN master = 1..Len(master) /\ gate \in Seq(G!Runs)
      /\ Len(gate) = Len(master) /\ Len(master) > 0 /\ Len(master) \in Nat
  BY GateParts
<1>2. /\ gate' \in Seq(G!Runs) /\ Len(gate') = Len(gate) /\ DOMAIN gate' = DOMAIN gate
      /\ gate'[c] = r /\ \A d \in DOMAIN gate : d # c => gate'[d] = gate[d]
  <2>1. /\ gate' \in Seq(G!Runs) /\ Len(gate') = Len(gate)
        /\ \A d \in 1..Len(gate) : gate'[d] = IF d = c THEN r ELSE gate[d]
    BY <1>1, ExceptSeq
  <2> QED BY <1>1, <2>1, LenProperties
<1>3. \A d \in DOMAIN gate : G!Verified(d) => d # c /\ G!Verified(d)'
  BY <1>2 DEF G!Verified
<1>4. \A d \in DOMAIN gate' : G!ComparedWell(d)'
  <2> SUFFICES ASSUME NEW d \in DOMAIN gate, d # c PROVE G!ComparedWell(d)'
    BY <1>2
  <2>1. G!ComparedWell(d) /\ gate'[d] = gate[d]
    BY <1>2 DEF GateOK, G!GateInv
  <2>2. gate[d].base \in DOMAIN gate => gate[d].base \in DOMAIN gate'
    BY <1>2
  <2> QED BY <1>2, <1>3, <2>1 DEF G!ComparedWell, G!ClassOf, G!IsBotPush
<1>5. G!Raced' = G!Raced
  BY DEF G!Raced
<1>6. G!GreenMeansTested'
  <2> SUFFICES ASSUME ~G!Raced, NEW d \in DOMAIN gate, gate'[d].stage = "done", gate'[d].green
               PROVE  \A leg \in G!Legs : G!Passes(leg, master[d].tree)
    BY <1>2, <1>5 DEF G!GreenMeansTested
  <2>1. CASE d = c
    BY <1>2, <2>1, GoodIsAllPass
  <2>2. CASE d # c
    BY <1>2, <2>2 DEF GateOK, G!GateInv, G!GreenMeansTested
  <2> QED BY <2>1, <2>2
<1>7. G!BotTested'
  BY DEF GateOK, G!GateInv, G!BotTested
<1>8. G!Verified(1)'
  BY <1>1, <1>3 DEF GateOK, G!GateInv
<1>9. G!GateInv'
  BY <1>1, <1>2, <1>4, <1>6, <1>7, <1>8 DEF GateOK, G!GateInv
<1>b. G!GateTypeOK'
  <2>1. \A d \in DOMAIN master : gate'[d].stage \in {"none", "queued", "read", "classed", "done"}
    BY <1>1, <1>2 DEF GateOK, G!GateTypeOK
  <2> QED BY <1>2, <2>1 DEF GateOK, G!GateTypeOK
<1> QED BY <1>9, <1>b DEF GateOK

LEMMA ClassedFields ==
  ASSUME GateOK, NEW c \in DOMAIN gate, gate[c].stage = "classed"
  PROVE  gate[c].class \in G!Classes /\ gate[c].base \in Nat /\ gate[c].again \in Nat
<1>1. gate[c] \in G!Runs
  BY GateParts, ElementOfSeq
<1>2. gate[c] \in [stage : {"classed"}, class : G!Classes, base : Nat, again : Nat]
  BY <1>1 DEF G!Runs, G!NoRun, G!NewRun
<1> QED BY <1>2

LEMMA ReadStep == ASSUME GateOK, NEW c \in DOMAIN master, G!ReadPaths(c) PROVE GateOK'
<1>a. PICK base : base = G!VerifiedBase
  OBVIOUS
<1> DEFINE r == [stage |-> "read", base |-> base,
                 paths |-> G!Changed(master[base].tree, master[c].tree)]
<1>1. c \in DOMAIN gate /\ gate[c].stage = "queued" /\ UNCHANGED <<master, bot>>
      /\ gate' = [gate EXCEPT ![c] = r] /\ gate \in Seq(G!Runs) /\ DOMAIN gate = 1..Len(master)
  BY <1>a, GateParts DEF G!ReadPaths
<1>2. base \in DOMAIN gate /\ G!Verified(base)
  BY <1>a, VerifiedBaseIs
<1>3. base # c /\ base \in Nat
  BY <1>1, <1>2, GateParts DEF G!Verified
<1>4. r.stage = "read" /\ r.base = base /\ r.paths = G!Changed(master[base].tree, master[c].tree)
  OBVIOUS
<1>5. r \in G!Runs
  <2>1. G!Changed(master[base].tree, master[c].tree) \in SUBSET G!Fields
    BY DEF G!Changed
  <2>2. r \in [stage : {"read"}, base : Nat, paths : SUBSET G!Fields]
    BY <1>3, <2>1
  <2> QED BY <2>2 DEF G!Runs
<1> HIDE DEF r
<1>6. G!ComparedWell(c)'
  <2>1. gate'[c] = r /\ gate'[base] = gate[base] /\ DOMAIN gate' = DOMAIN gate
    BY <1>1, <1>2, <1>3
  <2>2. G!Verified(base)'
    BY <1>2, <2>1 DEF G!Verified
  <2> QED BY <1>1, <1>2, <1>4, <2>1, <2>2 DEF G!ComparedWell
<1> QED BY <1>1, <1>4, <1>5, <1>6, RunChanges

LEMMA ClassifyStep == ASSUME GateOK, NEW c \in DOMAIN master, G!Classify(c) PROVE GateOK'
<1>a. PICK again, base : again = G!VerifiedBase /\ base = gate[c].base
  OBVIOUS
<1> DEFINE paths == G!Changed(master[base].tree, master[c].tree)
<1>1. /\ c \in DOMAIN gate /\ gate[c].stage = "read" /\ UNCHANGED <<master, bot>>
      /\ gate \in Seq(G!Runs) /\ DOMAIN gate = 1..Len(master)
  BY GateParts DEF G!Classify
<1>2. again \in DOMAIN gate /\ G!Verified(again)
  BY <1>a, VerifiedBaseIs
<1>3. base \in DOMAIN gate /\ G!Verified(base) /\ gate[c].paths = paths
  BY <1>1, <1>a DEF GateOK, G!GateInv, G!ComparedWell
<1>4. PICK class \in {G!ClassOf(c, paths, again), "full"} :
        gate' = [gate EXCEPT ![c] =
          [stage |-> "classed", class |-> class, base |-> base, again |-> again]]
  BY <1>3, <1>a DEF G!Classify
<1> DEFINE r == [stage |-> "classed", class |-> class, base |-> base, again |-> again]
<1>5. r.stage = "classed" /\ r.class = class /\ r.base = base /\ r.again = again
  OBVIOUS
<1>6. r \in G!Runs
  <2>1. class \in G!Classes
    BY <1>4 DEF G!ClassOf, G!Classes
  <2>2. base \in Nat /\ again \in Nat
    BY <1>1, <1>2, <1>3
  <2>3. r \in [stage : {"classed"}, class : G!Classes, base : Nat, again : Nat]
    BY <2>1, <2>2
  <2> QED BY <2>3 DEF G!Runs
<1>7. base # c /\ again # c
  BY <1>1, <1>2, <1>3 DEF G!Verified
<1>8. gate' = [gate EXCEPT ![c] = r]
  BY <1>4
<1> HIDE DEF r, paths
<1>9. G!ComparedWell(c)'
  <2>1. gate'[c] = r /\ gate'[base] = gate[base] /\ gate'[again] = gate[again]
        /\ DOMAIN gate' = DOMAIN gate
    BY <1>1, <1>2, <1>3, <1>7, <1>8
  <2>2. G!Verified(base)' /\ G!Verified(again)'
    BY <1>2, <1>3, <2>1 DEF G!Verified
  <2>3. class \in {G!ClassOf(c, G!Changed(master[base].tree, master[c].tree), again), "full"}
    BY <1>4 DEF paths
  <2>4. /\ gate'[c].stage = "classed" /\ gate'[c].base = base /\ gate'[c].again = again
        /\ gate'[c].class = class /\ base \in DOMAIN gate' /\ again \in DOMAIN gate'
    BY <1>2, <1>3, <1>5, <2>1
  <2>5. master' = master
    BY <1>1
  <2> QED BY <2>2, <2>3, <2>4, <2>5 DEF G!ComparedWell, G!ClassOf, G!IsBotPush
<1> QED BY <1>1, <1>5, <1>6, <1>8, <1>9, RunChanges

LEMMA AggregateStep == ASSUME GateOK, NEW c \in DOMAIN master, G!Aggregate(c) PROVE GateOK'
<1> DEFINE class == gate[c].class
           base == gate[c].base
           again == gate[c].again
<1>1. /\ c \in DOMAIN gate /\ gate[c].stage = "classed" /\ UNCHANGED <<master, bot>>
      /\ gate \in Seq(G!Runs) /\ DOMAIN gate = 1..Len(master) /\ DOMAIN master = 1..Len(master)
  BY GateParts DEF G!Aggregate
<1>2. class \in G!Classes /\ base \in Nat /\ again \in Nat
  BY <1>1, ClassedFields
<1>3. PICK dropped \in SUBSET G!Started(gate[c].class), how \in {"failure", "skipped"} :
        /\ G!Cardinality(dropped) <= MaxLost
        /\ dropped = {} => how = "failure"
        /\ LET kind == gate[c].class
               results == [leg \in G!Legs |->
                 IF leg \notin G!Started(kind) THEN "skipped"
                 ELSE IF leg \in dropped THEN how
                 ELSE IF G!Passes(leg, master[c].tree) THEN "success" ELSE "failure"]
           IN  gate' = [gate EXCEPT ![c] =
                 [stage |-> "done", class |-> kind, base |-> gate[c].base, again |-> gate[c].again,
                  green |-> G!Fold(results, kind),
                  ran |-> \E leg \in G!Legs : results[leg] # "skipped"]]
  BY Zenon DEF G!Aggregate
<1> DEFINE results == [leg \in G!Legs |->
                IF leg \notin G!Started(class) THEN "skipped"
                ELSE IF leg \in dropped THEN how
                ELSE IF G!Passes(leg, master[c].tree) THEN "success" ELSE "failure"]
           green == G!Fold(results, class)
           ran == \E leg \in G!Legs : results[leg] # "skipped"
           r == [stage |-> "done", class |-> class, base |-> base, again |-> again,
                 green |-> green, ran |-> ran]
<1>4. gate' = [gate EXCEPT ![c] = r]
  BY <1>3
<1>5. ASSUME green, NEW leg \in G!Started(class) PROVE G!Passes(leg, master[c].tree)
  <2>1. leg \in G!Legs /\ leg \notin G!Narrowed(class)
    BY <1>2, StartedIsNotNarrowed
  <2>2. results[leg] = "success"
    BY <1>5, <2>1 DEF G!Fold
  <2>3. results[leg] = IF leg \in dropped THEN how
                       ELSE IF G!Passes(leg, master[c].tree) THEN "success" ELSE "failure"
    BY <2>1
  <2> QED BY <2>2, <2>3, <1>3
<1>6. green \in BOOLEAN /\ ran \in BOOLEAN
  BY DEF G!Fold
<1> HIDE DEF results, green, ran
<1>7. r.stage = "done" /\ r.green = green
  OBVIOUS
<1>8. r \in G!Runs
  <2>1. r \in [stage : {"done"}, class : G!Classes, base : Nat, again : Nat,
               green : BOOLEAN, ran : BOOLEAN]
    BY <1>2, <1>6
  <2> QED BY <2>1 DEF G!Runs
<1>9. ASSUME ~G!Raced, green PROVE Good(master[c].tree)
  <2>1. /\ base \in DOMAIN gate /\ G!Verified(base) /\ again \in DOMAIN gate /\ G!Verified(again)
        /\ class \in {G!ClassOf(c, G!Changed(master[base].tree, master[c].tree), again), "full"}
    BY <1>1 DEF GateOK, G!GateInv, G!ComparedWell
  <2>2. Good(master[base].tree) /\ Good(master[again].tree)
    BY <1>9, <2>1, VerifiedIsGood
  <2>3. master[c].author = "bot" => G!Passes("tests", master[c].tree)
    <3>1. SUFFICES ASSUME master[c].author = "bot" PROVE G!Passes("tests", master[c].tree)
      OBVIOUS
    <3>2. c # 1
      BY <3>1 DEF GateOK, G!GateInv
    <3>3. master[c].testedOn = c - 1
      BY <1>1, <1>9, <3>2, GateParts DEF G!Raced
    <3> QED BY <3>1, <3>3 DEF GateOK, G!GateInv
  <2>4. \A leg \in G!Started(class) : G!Passes(leg, master[c].tree)
    BY <1>5, <1>9
  <2> QED BY <2>1, <2>2, <2>3, <2>4, NarrowingIsSound
<1> HIDE DEF r, class, base, again
<1>b. G!ComparedWell(c)'
  <2>1. gate'[c] = r
    BY <1>1, <1>4
  <2> QED BY <1>7, <2>1 DEF G!ComparedWell
<1> QED BY <1>1, <1>4, <1>7, <1>8, <1>9, <1>b, RunChanges

\* A commit joins master, with a run or without.
LEMMA CommitJoins ==
  ASSUME GateOK, NEW x, NEW r \in {G!NoRun, G!NewRun},
         x \in [tree : [G!Fields -> 0..2], author : {"person", "bot"}, testedOn : Nat],
         \A f \in G!Fields : x.tree[f] \in G!ContentsOf(f),
         x.author = "bot" /\ x.testedOn = Len(master) => G!Passes("tests", x.tree),
         master' = Append(master, x), gate' = Append(gate, r),
         bot' = bot \/ bot' = [stage |-> "ended"]
  PROVE  GateOK'
<1> DEFINE C == [tree : [G!Fields -> 0..2], author : {"person", "bot"}, testedOn : Nat]
           n == Len(master)
<1>1. /\ n \in Nat /\ n > 0 /\ Len(gate) = n /\ DOMAIN master = 1..n /\ DOMAIN gate = 1..n
      /\ gate \in Seq(G!Runs) /\ master \in Seq(C)
  BY GateParts DEF GateOK, G!GateInv
<1>2. r \in G!Runs /\ r.stage \in {"none", "queued"}
  BY DEF G!Runs, G!NoRun, G!NewRun
<1>3. /\ master' \in Seq(C) /\ Len(master') = n + 1 /\ DOMAIN master' = 1..(n + 1)
      /\ \A c \in 1..n : master'[c] = master[c]
      /\ master'[n + 1] = x
  <2>1. /\ master' \in Seq(C) /\ Len(master') = n + 1 /\ \A c \in 1..n : master'[c] = master[c]
        /\ master'[n + 1] = x
    BY <1>1, AppendProperties
  <2> QED BY <2>1, LenProperties
<1>4. /\ gate' \in Seq(G!Runs) /\ Len(gate') = n + 1 /\ DOMAIN gate' = 1..(n + 1)
      /\ \A c \in 1..n : gate'[c] = gate[c]
      /\ gate'[n + 1] = r
  <2>1. /\ gate' \in Seq(G!Runs) /\ Len(gate') = Len(gate) + 1
        /\ \A c \in 1..Len(gate) : gate'[c] = gate[c] /\ gate'[Len(gate) + 1] = r
    BY <1>1, <1>2, AppendProperties
  <2> QED BY <1>1, <2>1, LenProperties
<1> HIDE DEF C
<1>b. PICK k \in Nat : k = n
  BY <1>1
<1>5. \A c \in 1..n : G!Verified(c) => G!Verified(c)'
  BY <1>4 DEF G!Verified
<1>6. \A c \in DOMAIN gate' : G!ComparedWell(c)'
  <2> SUFFICES ASSUME NEW c \in 1..(k + 1) PROVE G!ComparedWell(c)'
    BY <1>4, <1>b
  <2>1. CASE c = k + 1
    BY <1>2, <1>4, <1>b, <2>1 DEF G!ComparedWell
  <2>2. CASE c # k + 1
    <3>1. c \in 1..n /\ c \in DOMAIN gate
      BY <1>1, <1>b, <2>2
    <3>2. G!ComparedWell(c) /\ gate'[c] = gate[c] /\ master'[c] = master[c]
      BY <1>3, <1>4, <3>1 DEF GateOK, G!GateInv
    <3>3. \A d \in DOMAIN gate : d \in 1..n /\ d \in DOMAIN gate' /\ master'[d] = master[d]
      BY <1>1, <1>3, <1>4
    <3> QED BY <1>5, <3>2, <3>3 DEF G!ComparedWell, G!ClassOf, G!IsBotPush
  <2> QED BY <2>1, <2>2
<1>7. G!Raced => G!Raced'
  BY <1>1, <1>3 DEF G!Raced
<1>8. G!GreenMeansTested'
  <2> SUFFICES ASSUME ~G!Raced, NEW c \in DOMAIN gate', gate'[c].stage = "done", gate'[c].green
               PROVE  \A leg \in G!Legs : G!Passes(leg, master'[c].tree)
    BY <1>7 DEF G!GreenMeansTested
  <2>1. c \in 1..n
    BY <1>1, <1>2, <1>4
  <2> QED BY <1>1, <1>3, <1>4, <2>1 DEF GateOK, G!GateInv, G!GreenMeansTested
<1>9. \A c \in DOMAIN master' :
        master'[c].author = "bot" /\ master'[c].testedOn = c - 1 => G!Passes("tests", master'[c].tree)
  <2> SUFFICES ASSUME NEW c \in 1..(n + 1), master'[c].author = "bot", master'[c].testedOn = c - 1
               PROVE  G!Passes("tests", master'[c].tree)
    BY <1>3
  <2>1. CASE c = n + 1
    BY <1>1, <1>3, <2>1
  <2>2. CASE c # n + 1
    <3>1. c \in 1..n
      BY <1>1, <2>2
    <3>2. c \in DOMAIN master /\ master'[c] = master[c]
      BY <1>1, <1>3, <3>1
    <3>3. master[c].author = "bot" /\ master[c].testedOn = c - 1
      BY <3>2
    <3> QED BY <3>2, <3>3 DEF GateOK, G!GateInv
  <2> QED BY <2>1, <2>2
<1>c. G!BotTested'
  <2>1. CASE bot' = bot
    <3>1. G!BotTested
      BY DEF GateOK, G!GateInv
    <3>2. \A c \in DOMAIN master : c \in DOMAIN master' /\ master'[c] = master[c]
      BY <1>1, <1>3
    <3> QED BY <2>1, <3>1, <3>2 DEF G!BotTested
  <2>2. CASE bot' = [stage |-> "ended"]
    BY <2>2 DEF G!BotTested
  <2> QED BY <2>1, <2>2
<1>d. master'[1].author = "person" /\ G!Verified(1)'
  BY <1>1, <1>3, <1>5 DEF GateOK, G!GateInv
<1>e. Len(master') > 0 /\ Len(gate') = Len(master')
  BY <1>1, <1>3, <1>4
<1>f. G!GateInv'
  BY <1>3, <1>4, <1>6, <1>8, <1>9, <1>c, <1>d, <1>e DEF G!GateInv, C
<1>g. G!GateTypeOK'
  <2>1. \A c \in DOMAIN master' :
          /\ DOMAIN master'[c].tree = G!Fields
          /\ \A f \in G!Fields : master'[c].tree[f] \in G!ContentsOf(f)
          /\ master'[c].author \in {"person", "bot"}
          /\ gate'[c].stage \in {"none", "queued", "read", "classed", "done"}
    <3> SUFFICES ASSUME NEW c \in 1..(n + 1)
                 PROVE  /\ DOMAIN master'[c].tree = G!Fields
                        /\ \A f \in G!Fields : master'[c].tree[f] \in G!ContentsOf(f)
                        /\ master'[c].author \in {"person", "bot"}
                        /\ gate'[c].stage \in {"none", "queued", "read", "classed", "done"}
      BY <1>3
    <3>1. CASE c = n + 1
      BY <1>1, <1>2, <1>3, <1>4, <3>1
    <3>2. CASE c # n + 1
      BY <1>1, <1>3, <1>4, <3>2 DEF GateOK, G!GateTypeOK
    <3> QED BY <3>1, <3>2
  <2>2. bot'.stage \in {"idle", "tested", "compared", "fetched", "ended"}
    BY DEF GateOK, G!GateTypeOK
  <2> QED BY <1>3, <1>4, <2>1, <2>2 DEF G!GateTypeOK
<1> QED BY <1>f, <1>g DEF GateOK

LEMMA PersonStep == ASSUME GateOK, G!PersonPushes PROVE GateOK'
<1> DEFINE old == G!Last(master).tree
<1>1. PICK paths \in PushedTogether, code \in G!ContentsOf("code") \ {old["code"]} :
        LET tree == [f \in G!Fields |-> IF f \notin paths THEN old[f]
                                        ELSE IF f = "code" THEN code ELSE 1 - old[f]]
        IN  G!Push(G!Commit(tree, "person", Len(master)), paths)
  BY DEF G!PersonPushes
<1> DEFINE tree == [f \in G!Fields |-> IF f \notin paths THEN old[f]
                                       ELSE IF f = "code" THEN code ELSE 1 - old[f]]
<1>2. /\ Len(master) \in Nat /\ Len(master) > 0 /\ Len(master) \in DOMAIN master
      /\ old = master[Len(master)].tree
      /\ old \in [G!Fields -> 0..2] /\ \A f \in G!Fields : old[f] \in G!ContentsOf(f)
  BY GateParts DEF G!Last
<1>3. bot' = bot /\ G!Push(G!Commit(tree, "person", Len(master)), paths)
  BY <1>1 DEF G!PersonPushes
<1> HIDE DEF old
<1>4. \A f \in G!Fields : tree[f] \in G!ContentsOf(f) /\ tree[f] \in 0..2
  <2> SUFFICES ASSUME NEW f \in G!Fields PROVE tree[f] \in G!ContentsOf(f) /\ tree[f] \in 0..2
    OBVIOUS
  <2>1. CASE f \notin paths
    BY <1>2, <2>1 DEF G!ContentsOf
  <2>2. CASE f \in paths /\ f = "code"
    BY <1>1, <2>2 DEF G!ContentsOf
  <2>3. CASE f \in paths /\ f # "code"
    <3>1. old[f] \in 0..1
      BY <1>2, <2>3 DEF G!ContentsOf
    <3> QED BY <2>3, <3>1 DEF G!ContentsOf
  <2> QED BY <2>1, <2>2, <2>3
<1>5. tree \in [G!Fields -> 0..2]
  BY <1>4
<1> DEFINE x == G!Commit(tree, "person", Len(master))
<1> HIDE DEF tree
<1>6. x \in [tree : [G!Fields -> 0..2], author : {"person", "bot"}, testedOn : Nat]
      /\ x.author = "person" /\ x.tree = tree
  BY <1>2, <1>5 DEF G!Commit
<1>7. master' = Append(master, x) /\ gate' = Append(gate, G!RunOf(paths))
      /\ G!RunOf(paths) \in {G!NoRun, G!NewRun}
  BY <1>3 DEF G!Push, G!RunOf
<1> HIDE DEF x
<1> QED BY <1>3, <1>4, <1>6, <1>7, CommitJoins

\* The bot's looks at master.
LEMMA BotLooks ==
  ASSUME GateOK, G!BotTests \/ G!BotCompares \/ G!BotFetches
  PROVE  GateOK'
<1>1. UNCHANGED <<master, gate>>
  BY DEF G!BotTests, G!BotCompares, G!BotFetches
<1>2. Len(master) \in DOMAIN master /\ G!Last(master) = master[Len(master)]
      /\ master[Len(master)].tree["data"] \in 0..1
  BY GateParts DEF G!Last, G!Fields, G!ContentsOf
<1>3. G!BotTested'
  <2>1. CASE G!BotTests
    <3>1. bot' = [stage |-> "tested", base |-> Len(master), data |-> 1 - G!Last(master).tree["data"]]
          /\ G!Passes("tests", [G!Last(master).tree EXCEPT !["data"] = 1 - G!Last(master).tree["data"]])
      BY <2>1 DEF G!BotTests
    <3>2. 1 - G!Last(master).tree["data"] \in 0..1
      BY <1>2
    <3> QED BY <1>1, <1>2, <3>1, <3>2 DEF G!BotTested
  <2>2. CASE G!BotCompares
    BY <1>1, <2>2 DEF G!BotCompares, GateOK, G!GateInv, G!BotTested
  <2>3. CASE G!BotFetches
    BY <1>1, <1>2, <2>3 DEF G!BotFetches, GateOK, G!GateInv, G!BotTested
  <2> QED BY <2>1, <2>2, <2>3
<1>4. bot'.stage \in {"idle", "tested", "compared", "fetched", "ended"}
  BY DEF G!BotTests, G!BotCompares, G!BotFetches
<1>5. G!GateTypeOK'
  BY <1>1, <1>4 DEF GateOK, G!GateTypeOK
<1>6. \A c \in DOMAIN gate : G!ComparedWell(c)'
  BY <1>1 DEF GateOK, G!GateInv, G!ComparedWell, G!Verified, G!ClassOf, G!IsBotPush
<1>7. G!GreenMeansTested' /\ G!Verified(1)'
  BY <1>1 DEF GateOK, G!GateInv, G!GreenMeansTested, G!Raced, G!Verified
<1>8. G!GateInv'
  BY <1>1, <1>3, <1>6, <1>7 DEF GateOK, G!GateInv
<1> QED BY <1>5, <1>8 DEF GateOK

LEMMA BotPushStep == ASSUME GateOK, G!BotPushes PROVE GateOK'
<1> DEFINE tree == [master[bot.tip].tree EXCEPT !["data"] = bot.data]
<1>1. /\ bot.stage = "fetched" /\ bot' = [stage |-> "ended"]
      /\ \/ /\ bot.tip = Len(master)
            /\ G!Push(G!Commit(tree, "bot", bot.base), {"data"})
         \/ UNCHANGED <<master, gate>>
  BY DEF G!BotPushes
<1>2. /\ bot.base \in DOMAIN master /\ bot.tip \in DOMAIN master /\ bot.data \in 0..1
      /\ G!Passes("tests", [master[bot.base].tree EXCEPT !["data"] = bot.data])
  BY <1>1 DEF GateOK, G!GateInv, G!BotTested
<1>3. CASE UNCHANGED <<master, gate>>
  <2>1. G!BotTested'
    BY <1>1 DEF G!BotTested
  <2>2. G!GateTypeOK'
    BY <1>1, <1>3 DEF GateOK, G!GateTypeOK
  <2>3. \A c \in DOMAIN gate : G!ComparedWell(c)'
    BY <1>3 DEF GateOK, G!GateInv, G!ComparedWell, G!Verified, G!ClassOf, G!IsBotPush
  <2>4. G!GreenMeansTested' /\ G!Verified(1)'
    BY <1>3 DEF GateOK, G!GateInv, G!GreenMeansTested, G!Raced, G!Verified
  <2>5. G!GateInv'
    BY <1>3, <2>1, <2>3, <2>4 DEF GateOK, G!GateInv
  <2> QED BY <2>2, <2>5 DEF GateOK
<1>4. CASE bot.tip = Len(master) /\ G!Push(G!Commit(tree, "bot", bot.base), {"data"})
  <2>1. /\ master[bot.tip].tree \in [G!Fields -> 0..2] /\ bot.base \in Nat
        /\ \A f \in G!Fields : master[bot.tip].tree[f] \in G!ContentsOf(f)
    BY <1>2, GateParts
  <2>2. tree \in [G!Fields -> 0..2]
    <3>1. bot.data \in 0..2
      BY <1>2
    <3> QED BY <2>1, <3>1
  <2>3. \A f \in G!Fields : tree[f] \in G!ContentsOf(f)
    BY <1>2, <2>1 DEF G!ContentsOf
  <2>4. bot.base = Len(master) => G!Passes("tests", tree)
    BY <1>2, <1>4
  <2> DEFINE x == G!Commit(tree, "bot", bot.base)
  <2> HIDE DEF tree
  <2>5. /\ x \in [tree : [G!Fields -> 0..2], author : {"person", "bot"}, testedOn : Nat]
        /\ x.tree = tree /\ x.testedOn = bot.base
    BY <2>1, <2>2 DEF G!Commit
  <2>6. master' = Append(master, x) /\ gate' = Append(gate, G!RunOf({"data"}))
        /\ G!RunOf({"data"}) \in {G!NoRun, G!NewRun}
    BY <1>4 DEF G!Push, G!RunOf
  <2> HIDE DEF x
  <2> QED BY <1>1, <2>3, <2>4, <2>5, <2>6, CommitJoins
<1> QED BY <1>1, <1>3, <1>4

LEMMA GateStart == ASSUME G!GateInit PROVE GateOK
<1> DEFINE x == G!Commit(G!CleanTree, "person", 0)
           r == [stage |-> "done", class |-> "full", base |-> 0, again |-> 0,
                 green |-> TRUE, ran |-> TRUE]
<1>1. master = <<x>> /\ gate = <<r>> /\ bot = G!IdleBot
  BY DEF G!GateInit
<1>2. /\ x \in [tree : [G!Fields -> 0..2], author : {"person", "bot"}, testedOn : Nat]
      /\ x.author = "person" /\ x.tree = G!CleanTree /\ x.testedOn = 0
  BY DEF G!Commit, G!CleanTree
<1>3. r.stage = "done" /\ r.green /\ r.ran
  OBVIOUS
<1>4. r \in G!Runs
  <2>1. r \in [stage : {"done"}, class : G!Classes, base : Nat, again : Nat, green : BOOLEAN, ran : BOOLEAN]
    BY DEF G!Classes
  <2> QED BY <2>1 DEF G!Runs
<1> HIDE DEF x, r
<1>5. /\ DOMAIN master = {1} /\ DOMAIN gate = {1} /\ Len(master) = 1 /\ Len(gate) = 1
      /\ master[1] = x /\ gate[1] = r
      /\ master \in Seq([tree : [G!Fields -> 0..2], author : {"person", "bot"}, testedOn : Nat])
      /\ gate \in Seq(G!Runs)
  BY <1>1, <1>2, <1>4
<1>6. Good(G!CleanTree) /\ \A f \in G!Fields : G!CleanTree[f] \in G!ContentsOf(f)
  BY DEF Good, G!CleanTree, G!Fields, G!ContentsOf
<1>7. DOMAIN G!CleanTree = G!Fields
  BY DEF G!CleanTree
<1>8. G!GateTypeOK
  BY <1>1, <1>2, <1>3, <1>5, <1>6, <1>7 DEF G!GateTypeOK, G!IdleBot
<1>9. G!GreenMeansTested
  BY <1>2, <1>5, <1>6, GoodIsAllPass DEF G!GreenMeansTested
<1>b. \A c \in DOMAIN gate : G!ComparedWell(c)
  BY <1>3, <1>5 DEF G!ComparedWell
<1>c. G!Verified(1) /\ G!BotTested
  BY <1>1, <1>3, <1>5 DEF G!Verified, G!BotTested, G!IdleBot
<1>d. G!GateInv
  BY <1>2, <1>5, <1>9, <1>b, <1>c DEF G!GateInv
<1> QED BY <1>8, <1>d DEF GateOK

LEMMA GateKept == ASSUME GateOK, UNCHANGED gateVars PROVE GateOK'
<1>1. UNCHANGED <<master, gate, bot>>
  BY DEF gateVars
<1>2. G!GateTypeOK' /\ G!BotTested'
  BY <1>1 DEF GateOK, G!GateInv, G!GateTypeOK, G!BotTested
<1>3. \A c \in DOMAIN gate : G!ComparedWell(c)'
  BY <1>1 DEF GateOK, G!GateInv, G!ComparedWell, G!Verified, G!ClassOf, G!IsBotPush
<1>4. G!GreenMeansTested' /\ G!Verified(1)'
  BY <1>1 DEF GateOK, G!GateInv, G!GreenMeansTested, G!Raced, G!Verified
<1>5. G!GateInv'
  BY <1>1, <1>2, <1>3, <1>4 DEF GateOK, G!GateInv
<1> QED BY <1>2, <1>5 DEF GateOK

LEMMA GateStep == ASSUME GateOK, G!GateNext PROVE GateOK'
BY ReadStep, ClassifyStep, AggregateStep, PersonStep, BotLooks, BotPushStep DEF G!GateNext

LEMMA GateEnds == ASSUME GateOK PROVE G!GreenMeansTested
BY DEF GateOK, G!GateInv

-----------------------------------------------------------------------------
\* Ratchet.

RatchetOK == Q!RatchetTypeOK /\ Q!RatchetInv

\* A record that a document has not is the empty set here, so that a change of
\* a family is one of the sets Record gives.
LEMMA Records ==
  ASSUME NEW doc, NEW f
  PROVE  /\ f \in DOMAIN doc.recorded => Q!Record(doc, f) = {doc.recorded[f]}
         /\ f \notin DOMAIN doc.recorded => Q!Record(doc, f) = {}
BY DEF Q!Record

LEMMA DocFields ==
  ASSUME NEW doc \in Q!Docs
  PROVE  /\ doc.recorded \in [DOMAIN doc.recorded -> Values] /\ DOMAIN doc.recorded \subseteq Q!Families
         /\ doc.seededOn \in Nat
         /\ \A f : Q!Record(doc, f) \subseteq Values
<1>1. PICK kept \in SUBSET Q!Families : doc.recorded \in [kept -> Values]
  BY DEF Q!Docs
<1>2. DOMAIN doc.recorded = kept
  BY <1>1
<1>3. doc.seededOn \in Nat
  BY DEF Q!Docs
<1>4. \A f : Q!Record(doc, f) \subseteq Values
  BY <1>1, <1>2 DEF Q!Record
<1> QED BY <1>1, <1>2, <1>3, <1>4

LEMMA NewDoc ==
  ASSUME NEW recorded, NEW seededOn \in Nat, DOMAIN recorded \subseteq Q!Families,
         recorded \in [DOMAIN recorded -> Values]
  PROVE  Q!Doc(recorded, seededOn) \in Q!Docs
<1>1. recorded \in UNION {[kept -> Values] : kept \in SUBSET Q!Families}
  OBVIOUS
<1> QED BY <1>1 DEF Q!Doc, Q!Docs

LEMMA WithRecords ==
  ASSUME NEW doc \in Q!Docs, NEW f \in Q!Families, NEW v \in Values
  PROVE  /\ Q!With(doc, f, v) \in Q!Docs /\ Q!With(doc, f, v).seededOn = doc.seededOn
         /\ Q!Record(Q!With(doc, f, v), f) = {v}
         /\ \A g : g # f => Q!Record(Q!With(doc, f, v), g) = Q!Record(doc, g)
<1> DEFINE r == [g \in DOMAIN doc.recorded \cup {f} |-> IF g = f THEN v ELSE doc.recorded[g]]
<1>1. doc \in [recorded : UNION {[kept -> Values] : kept \in SUBSET Q!Families}, seededOn : Nat]
  BY DEF Q!Docs
<1>2. Q!With(doc, f, v) = [doc EXCEPT !.recorded = r]
  BY DEF Q!With
<1>3. /\ DOMAIN r = DOMAIN doc.recorded \cup {f} /\ r[f] = v
      /\ \A g \in DOMAIN doc.recorded : g # f => r[g] = doc.recorded[g]
  OBVIOUS
<1>4. r \in [DOMAIN r -> Values] /\ DOMAIN r \subseteq Q!Families
  BY <1>3, DocFields
<1> HIDE DEF r
<1>5. Q!With(doc, f, v) = Q!Doc(r, doc.seededOn)
  BY <1>1, <1>2 DEF Q!Doc
<1>6. Q!With(doc, f, v).recorded = r /\ Q!With(doc, f, v).seededOn = doc.seededOn
  BY <1>5 DEF Q!Doc
<1>7. Q!With(doc, f, v) \in Q!Docs
  BY <1>4, <1>5, NewDoc, DocFields
<1>8. \A g : g # f => Q!Record(Q!With(doc, f, v), g) = Q!Record(doc, g)
  BY <1>3, <1>6 DEF Q!Record
<1> QED BY <1>3, <1>6, <1>7, <1>8 DEF Q!Record

LEMMA WithoutRecords ==
  ASSUME NEW doc \in Q!Docs, NEW f
  PROVE  /\ Q!Without(doc, f) \in Q!Docs
         /\ f # "suite_cost" => Q!Without(doc, f).seededOn = doc.seededOn
         /\ Q!Record(Q!Without(doc, f), f) = {}
         /\ \A g : g # f => Q!Record(Q!Without(doc, f), g) = Q!Record(doc, g)
<1> DEFINE r == [g \in DOMAIN doc.recorded \ {f} |-> doc.recorded[g]]
           s == IF f = "suite_cost" THEN 0 ELSE doc.seededOn
<1>1. Q!Without(doc, f) = Q!Doc(r, s)
  BY DEF Q!Without
<1>2. /\ DOMAIN r = DOMAIN doc.recorded \ {f}
      /\ \A g \in DOMAIN r : r[g] = doc.recorded[g]
  OBVIOUS
<1>3. r \in [DOMAIN r -> Values] /\ DOMAIN r \subseteq Q!Families /\ s \in Nat
  BY <1>2, DocFields
<1> HIDE DEF r
<1>4. Q!Without(doc, f).recorded = r /\ Q!Without(doc, f).seededOn = s
  BY <1>1 DEF Q!Doc
<1>5. Q!Without(doc, f) \in Q!Docs
  BY <1>1, <1>3, NewDoc
<1>6. \A g : g # f => Q!Record(Q!Without(doc, f), g) = Q!Record(doc, g)
  BY <1>2, <1>4 DEF Q!Record
<1> QED BY <1>2, <1>4, <1>5, <1>6 DEF Q!Record

\* What a family's record may become, given what is measured: the part of
\* Tightens that is about one family.
Holds(f, b, values) ==
  IF f = "suppressions"
  THEN IF b = {} THEN values[f] < UnrecordedLimit ELSE \A y \in b : values[f] <= y
  ELSE \A y \in b : IF f = "coverage" THEN values[f] >= y - Gap ELSE values[f] <= y + Gap
FamilyTightens(f, a, b, values) ==
  /\ \A x \in a, y \in b : IF f = "coverage" THEN ~(y < x) ELSE ~(y > x)
  /\ a # {} /\ b = {} => f = "suppressions" /\ values["suppressions"] = 0
  /\ b # a => Holds(f, b, values)

LEMMA HoldsIs ==
  ASSUME NEW doc, NEW f, NEW values
  PROVE  Q!FamilyHolds(f, doc, values) <=> Holds(f, Q!Record(doc, f), values)
<1>1. CASE f \in DOMAIN doc.recorded
  <2>1. Q!Record(doc, f) = {doc.recorded[f]}
    BY <1>1, Records
  <2> QED BY <1>1, <2>1 DEF Holds, Q!FamilyHolds, Q!SuppressionsHold, Q!Bound
<1>2. CASE f \notin DOMAIN doc.recorded
  <2>1. Q!Record(doc, f) = {}
    BY <1>2, Records
  <2> QED BY <1>2, <2>1 DEF Holds, Q!FamilyHolds, Q!SuppressionsHold, Q!Bound
<1> QED BY <1>1, <1>2

LEMMA TightensIs ==
  ASSUME NEW old \in Q!Docs, NEW new \in Q!Docs, NEW values, NEW tree,
         \A f \in Q!Families : FamilyTightens(f, Q!Record(old, f), Q!Record(new, f), values),
         new.seededOn # old.seededOn => new.seededOn = tree
  PROVE  Q!Tightens(old, new, values, tree)
<1>1. DOMAIN old.recorded \subseteq Q!Families /\ DOMAIN new.recorded \subseteq Q!Families
  BY DocFields
<1>2. ASSUME NEW f \in DOMAIN old.recorded \cap DOMAIN new.recorded
      PROVE  ~Q!Looser(f, new.recorded[f], old.recorded[f])
  <2>1. Q!Record(old, f) = {old.recorded[f]} /\ Q!Record(new, f) = {new.recorded[f]}
    BY Records
  <2>2. FamilyTightens(f, Q!Record(old, f), Q!Record(new, f), values)
    BY <1>1
  <2> QED BY <2>1, <2>2 DEF FamilyTightens, Q!Looser
<1>3. ASSUME NEW f \in DOMAIN old.recorded \ DOMAIN new.recorded
      PROVE  f = "suppressions" /\ values["suppressions"] = 0
  <2>1. Q!Record(old, f) # {} /\ Q!Record(new, f) = {}
    BY Records
  <2>2. FamilyTightens(f, Q!Record(old, f), Q!Record(new, f), values)
    BY <1>1
  <2> QED BY <2>1, <2>2 DEF FamilyTightens
<1>4. \A f \in Q!Families : Q!Record(new, f) # Q!Record(old, f) => Q!FamilyHolds(f, new, values)
  BY HoldsIs DEF FamilyTightens
<1> QED BY <1>2, <1>3, <1>4 DEF Q!Tightens

\* A record that a measurement may move.
LEMMA NoMoveTightens ==
  ASSUME NEW f, NEW doc \in Q!Docs, NEW values
  PROVE  FamilyTightens(f, Q!Record(doc, f), Q!Record(doc, f), values)
<1> DEFINE a == Q!Record(doc, f)
<1>1. a \subseteq Int
  BY DocFields, MasterAssumption DEF MasterAssumption
<1>2. \A x, y \in a : x = y
  BY DEF Q!Record
<1> QED BY <1>1, <1>2 DEF FamilyTightens

LEMMA RaiseIs ==
  ASSUME NEW doc \in Q!Docs, NEW v \in Values, NEW values, values["coverage"] = v
  PROVE  LET new == Q!RaiseCoverage(doc, v)
         IN  /\ new \in Q!Docs /\ new.seededOn = doc.seededOn
             /\ \A g : g # "coverage" => Q!Record(new, g) = Q!Record(doc, g)
             /\ FamilyTightens("coverage", Q!Record(doc, "coverage"), Q!Record(new, "coverage"), values)
<1>1. CASE Q!RaiseCoverage(doc, v) = doc
  BY <1>1, NoMoveTightens
<1>2. CASE Q!RaiseCoverage(doc, v) # doc
  <2> DEFINE new == Q!With(doc, "coverage", v)
  <2>1. /\ Q!RaiseCoverage(doc, v) = new
        /\ "coverage" \in DOMAIN doc.recorded => ~(v - doc.recorded["coverage"] <= Hysteresis)
    BY <1>2 DEF Q!RaiseCoverage
  <2>2. /\ new \in Q!Docs /\ new.seededOn = doc.seededOn
        /\ Q!Record(new, "coverage") = {v}
        /\ \A g : g # "coverage" => Q!Record(new, g) = Q!Record(doc, g)
    BY WithRecords DEF Q!Families
  <2>3. \A x \in Q!Record(doc, "coverage") : ~(v < x)
    <3> SUFFICES ASSUME NEW x \in Q!Record(doc, "coverage") PROVE ~(v < x)
      OBVIOUS
    <3>1. x = doc.recorded["coverage"] /\ "coverage" \in DOMAIN doc.recorded
      BY DEF Q!Record
    <3>2. x \in Int /\ v \in Int /\ Hysteresis \in Nat
      BY DocFields, MasterAssumption DEF MasterAssumption
    <3> QED BY <2>1, <3>1, <3>2
  <2>4. Holds("coverage", {v}, values)
    BY MasterAssumption DEF Holds, MasterAssumption
  <2> HIDE DEF new
  <2> QED BY <2>1, <2>2, <2>3, <2>4 DEF FamilyTightens
<1> QED BY <1>1, <1>2

\* A cost: tightened, or recorded for the first time.
LEMMA CostIs ==
  ASSUME NEW f \in {"suite_cost", "reparse"}, NEW doc \in Q!Docs, NEW v \in Values, NEW values,
         values[f] = v,
         NEW new, new = (IF f \in DOMAIN doc.recorded THEN Q!TightenCost(doc, f, v)
                         ELSE Q!With(doc, f, v))
  PROVE  /\ new \in Q!Docs /\ new.seededOn = doc.seededOn
         /\ \A g : g # f => Q!Record(new, g) = Q!Record(doc, g)
         /\ FamilyTightens(f, Q!Record(doc, f), Q!Record(new, f), values)
<1>1. CASE new = doc
  BY <1>1, NoMoveTightens
<1>2. CASE new # doc
  <2>1. /\ new = Q!With(doc, f, v)
        /\ f \in DOMAIN doc.recorded => doc.recorded[f] - v > Hysteresis
    BY <1>2 DEF Q!TightenCost
  <2>2. /\ new \in Q!Docs /\ new.seededOn = doc.seededOn
        /\ Q!Record(new, f) = {v}
        /\ \A g : g # f => Q!Record(new, g) = Q!Record(doc, g)
    <3>1. f \in Q!Families /\ f # "suppressions"
      BY DEF Q!Families
    <3> QED BY <2>1, <3>1, WithRecords
  <2>3. \A x \in Q!Record(doc, f) : ~(v > x)
    <3> SUFFICES ASSUME NEW x \in Q!Record(doc, f) PROVE ~(v > x)
      OBVIOUS
    <3>1. x = doc.recorded[f] /\ f \in DOMAIN doc.recorded
      BY DEF Q!Record
    <3>2. x \in Int /\ v \in Int /\ Hysteresis \in Nat
      BY DocFields, MasterAssumption DEF MasterAssumption
    <3> QED BY <2>1, <3>1, <3>2
  <2>4. Holds(f, {v}, values)
    BY MasterAssumption DEF Holds, MasterAssumption
  <2> QED BY <2>2, <2>3, <2>4 DEF FamilyTightens
<1> QED BY <1>1, <1>2

LEMMA TightenedIs ==
  ASSUME NEW doc \in Q!Docs, NEW v \in Values, NEW values, values["suppressions"] = v,
         NEW new, new = Q!Tightened(doc, v)
  PROVE  /\ new \in Q!Docs /\ new.seededOn = doc.seededOn
         /\ \A g : g # "suppressions" => Q!Record(new, g) = Q!Record(doc, g)
         /\ FamilyTightens("suppressions", Q!Record(doc, "suppressions"),
                           Q!Record(new, "suppressions"), values)
<1>1. CASE new = doc
  BY <1>1, NoMoveTightens
<1>2. CASE "suppressions" \in DOMAIN doc.recorded /\ v = 0
  <2>1. new = Q!Without(doc, "suppressions")
    BY <1>2 DEF Q!Tightened
  <2>2. /\ new \in Q!Docs /\ new.seededOn = doc.seededOn /\ Q!Record(new, "suppressions") = {}
        /\ \A g : g # "suppressions" => Q!Record(new, g) = Q!Record(doc, g)
    BY <2>1, WithoutRecords
  <2>3. Holds("suppressions", {}, values)
    BY <1>2, MasterAssumption DEF Holds, MasterAssumption
  <2> QED BY <1>2, <2>2, <2>3 DEF FamilyTightens
<1>3. CASE new # doc /\ ~("suppressions" \in DOMAIN doc.recorded /\ v = 0)
  <2>1. /\ new = Q!With(doc, "suppressions", v)
        /\ "suppressions" \in DOMAIN doc.recorded => v < doc.recorded["suppressions"]
    BY <1>3 DEF Q!Tightened
  <2>2. "suppressions" \in Q!Families
    BY DEF Q!Families
  <2>3. /\ new \in Q!Docs /\ new.seededOn = doc.seededOn /\ Q!Record(new, "suppressions") = {v}
        /\ \A g : g # "suppressions" => Q!Record(new, g) = Q!Record(doc, g)
    BY <2>1, <2>2, WithRecords
  <2>4. \A x \in Q!Record(doc, "suppressions") : ~(v > x)
    <3> SUFFICES ASSUME NEW x \in Q!Record(doc, "suppressions") PROVE ~(v > x)
      OBVIOUS
    <3>1. x = doc.recorded["suppressions"] /\ "suppressions" \in DOMAIN doc.recorded
      BY DEF Q!Record
    <3>2. x \in Int /\ v \in Int
      BY DocFields, MasterAssumption DEF MasterAssumption
    <3> QED BY <2>1, <3>1, <3>2
  <2>5. Holds("suppressions", {v}, values)
    BY MasterAssumption DEF Holds, MasterAssumption
  <2> QED BY <2>3, <2>4, <2>5 DEF FamilyTightens
<1> QED BY <1>1, <1>2, <1>3

\* What the ratchet job stages, family by family.
LEMMA StagedIs ==
  ASSUME NEW c, branch[c].doc \in Q!Docs, branch[c].values \in [Q!Families -> Values]
  PROVE  LET old == branch[c].doc
             new == Q!Staged(c)
         IN  /\ new \in Q!Docs /\ new.seededOn = old.seededOn
             /\ Q!Record(new, "suite_cost") = Q!Record(old, "suite_cost")
             /\ \A f \in Q!Families :
                  FamilyTightens(f, Q!Record(old, f), Q!Record(new, f), branch[c].values)
<1> DEFINE old == branch[c].doc
           values == branch[c].values
           raised == Q!RaiseCoverage(old, values["coverage"])
           costed == Q!ReparseRatchet(raised, values["reparse"])
           new == Q!Tightened(costed, values["suppressions"])
<1>1. values["coverage"] \in Values /\ values["reparse"] \in Values /\ values["suppressions"] \in Values
  BY DEF Q!Families
<1>2. /\ raised \in Q!Docs /\ raised.seededOn = old.seededOn
      /\ \A g : g # "coverage" => Q!Record(raised, g) = Q!Record(old, g)
      /\ FamilyTightens("coverage", Q!Record(old, "coverage"), Q!Record(raised, "coverage"), values)
  BY <1>1, RaiseIs
<1> HIDE DEF raised
<1>3. /\ costed \in Q!Docs /\ costed.seededOn = raised.seededOn
      /\ \A g : g # "reparse" => Q!Record(costed, g) = Q!Record(raised, g)
      /\ FamilyTightens("reparse", Q!Record(raised, "reparse"), Q!Record(costed, "reparse"), values)
  <2>1. costed = IF "reparse" \in DOMAIN raised.recorded
                 THEN Q!TightenCost(raised, "reparse", values["reparse"])
                 ELSE Q!With(raised, "reparse", values["reparse"])
    BY DEF Q!ReparseRatchet, Q!SeedReparse
  <2> HIDE DEF costed
  <2> QED BY <1>1, <1>2, <2>1, CostIs
<1> HIDE DEF costed
<1>4. /\ new \in Q!Docs /\ new.seededOn = costed.seededOn
      /\ \A g : g # "suppressions" => Q!Record(new, g) = Q!Record(costed, g)
      /\ FamilyTightens("suppressions", Q!Record(costed, "suppressions"),
                        Q!Record(new, "suppressions"), values)
  BY <1>1, <1>3, TightenedIs
<1>5. Q!Staged(c) = new
  BY DEF Q!Staged, new, costed, raised
<1> HIDE DEF new
<1>6. ASSUME NEW f \in Q!Families PROVE FamilyTightens(f, Q!Record(old, f), Q!Record(new, f), values)
  <2>1. CASE f = "coverage"
    BY <1>2, <1>3, <1>4, <2>1
  <2>2. CASE f = "reparse"
    BY <1>2, <1>3, <1>4, <2>2
  <2>3. CASE f = "suppressions"
    BY <1>2, <1>3, <1>4, <2>3
  <2>4. CASE f = "suite_cost"
    <3>1. Q!Record(new, f) = Q!Record(old, f)
      BY <1>2, <1>3, <1>4, <2>4
    <3> QED BY <3>1, NoMoveTightens
  <2> QED BY <2>1, <2>2, <2>3, <2>4 DEF Q!Families
<1>7. Q!Record(new, "suite_cost") = Q!Record(old, "suite_cost")
  BY <1>2, <1>3, <1>4
<1> QED BY <1>2, <1>3, <1>4, <1>5, <1>6, <1>7

\* The suite's measurement moves its own record alone, and a seed names the tree.
LEMMA SuiteIs ==
  ASSUME NEW doc \in Q!Docs, NEW v \in Values, NEW values, values["suite_cost"] = v,
         NEW tree, NEW tipTree \in Nat, NEW new, new = Q!SuiteRatchet(doc, v, tree, tipTree)
  PROVE  /\ new \in Q!Docs
         /\ new.seededOn # doc.seededOn => new.seededOn = tipTree
         /\ \A g : g # "suite_cost" => Q!Record(new, g) = Q!Record(doc, g)
         /\ FamilyTightens("suite_cost", Q!Record(doc, "suite_cost"),
                           Q!Record(new, "suite_cost"), values)
<1>1. CASE new = doc
  BY <1>1, NoMoveTightens
<1>2. CASE "suite_cost" \in DOMAIN doc.recorded
  <2>1. new = IF "suite_cost" \in DOMAIN doc.recorded THEN Q!TightenCost(doc, "suite_cost", v)
              ELSE Q!With(doc, "suite_cost", v)
    BY <1>2 DEF Q!SuiteRatchet
  <2> QED BY <2>1, CostIs
<1>3. CASE "suite_cost" \notin DOMAIN doc.recorded /\ new # doc
  <2>1. PICK w : w = Q!With(doc, "suite_cost", v)
    OBVIOUS
  <2>2. w = IF "suite_cost" \in DOMAIN doc.recorded THEN Q!TightenCost(doc, "suite_cost", v)
            ELSE Q!With(doc, "suite_cost", v)
    BY <1>3, <2>1
  <2>3. /\ w \in Q!Docs
        /\ \A g : g # "suite_cost" => Q!Record(w, g) = Q!Record(doc, g)
        /\ FamilyTightens("suite_cost", Q!Record(doc, "suite_cost"),
                          Q!Record(w, "suite_cost"), values)
    BY <2>2, CostIs
  <2>4. new = [w EXCEPT !.seededOn = tipTree]
    BY <1>3, <2>1 DEF Q!SuiteRatchet, Q!SeedSuite, Q!SameTree
  <2>5. new \in Q!Docs /\ new.recorded = w.recorded /\ new.seededOn = tipTree
    BY <2>3, <2>4 DEF Q!Docs
  <2>6. \A g : Q!Record(new, g) = Q!Record(w, g)
    BY <2>5 DEF Q!Record
  <2> QED BY <2>3, <2>5, <2>6
<1> QED BY <1>1, <1>2, <1>3

\* The merge, record by record, when the run staged no other tree.
LEMMA MergedIs ==
  ASSUME NEW ours \in Q!Docs, NEW base \in Q!Docs, NEW theirs \in Q!Docs,
         theirs.seededOn = base.seededOn,
         NEW new, new = Q!Merged(ours, base, theirs)
  PROVE  /\ new \in Q!Docs /\ new.seededOn = ours.seededOn
         /\ \A f \in Q!Families :
              Q!Record(new, f) = IF Q!Record(ours, f) = Q!Record(base, f)
                                 THEN Q!Record(theirs, f) ELSE Q!Record(ours, f)
<1> DEFINE side(f) == IF Q!Record(ours, f) = Q!Record(base, f) THEN theirs ELSE ours
           kept == {f \in Q!Families : f \in DOMAIN side(f).recorded}
           r == [f \in kept |-> side(f).recorded[f]]
           s == IF ours.seededOn = base.seededOn THEN theirs.seededOn ELSE ours.seededOn
<1>1. new = Q!Doc(r, s)
  BY DEF Q!Merged
<1>2. s = ours.seededOn /\ s \in Nat
  BY DocFields
<1>3. \A f : side(f) \in Q!Docs
  OBVIOUS
<1>4. \A f \in Q!Families : f \in DOMAIN r <=> f \in DOMAIN side(f).recorded
  OBVIOUS
<1>5. \A f \in DOMAIN r : r[f] = side(f).recorded[f] /\ f \in Q!Families
  OBVIOUS
<1>6. \A f \in DOMAIN r : r[f] \in Values
  BY <1>3, <1>4, <1>5, DocFields
<1>7. DOMAIN r \subseteq Q!Families /\ r \in [DOMAIN r -> Values]
  BY <1>6
<1>8. ASSUME NEW f \in Q!Families
      PROVE  Q!Record(Q!Doc(r, s), f) = Q!Record(side(f), f)
  <2> HIDE DEF r, side
  <2>1. Q!Doc(r, s).recorded = r
    BY DEF Q!Doc
  <2>2. CASE f \in DOMAIN r
    BY <1>4, <1>5, <2>1, <2>2 DEF Q!Record
  <2>3. CASE f \notin DOMAIN r
    BY <1>4, <2>1, <2>3 DEF Q!Record
  <2> QED BY <2>2, <2>3
<1>9. Q!Doc(r, s).seededOn = s
  BY DEF Q!Doc
<1> HIDE DEF r, s
<1>10. new \in Q!Docs
  BY <1>1, <1>2, <1>7, NewDoc
<1> QED BY <1>1, <1>2, <1>8, <1>9, <1>10

\* The commits.
LEMMA CommitFields ==
  ASSUME NEW x \in Q!Commits
  PROVE  /\ x.kind \in {"code", "thresholds", "pricing", "bot"} /\ x.doc \in Q!Docs
         /\ x.values \in [Q!Families -> Values] /\ x.tree \in Nat
BY DEF Q!Commits

LEMMA CommitsAreTyped ==
  ASSUME NEW b \in Seq(Q!Commits), NEW c \in DOMAIN b
  PROVE  /\ b[c].kind \in {"code", "thresholds", "pricing", "bot"}
         /\ DOMAIN b[c].doc.recorded \subseteq Q!Families
         /\ \A f \in DOMAIN b[c].doc.recorded : b[c].doc.recorded[f] \in Values
         /\ b[c].values \in [Q!Families -> Values]
<1>1. b[c] \in Q!Commits
  BY ElementOfSeq, LenProperties
<1> QED BY <1>1, CommitFields, DocFields

LEMMA RatchetParts ==
  ASSUME RatchetOK
  PROVE  /\ branch \in Seq(Q!Commits) /\ Len(branch) \in Nat /\ Len(branch) > 0
         /\ DOMAIN branch = 1..Len(branch) /\ Len(branch) \in DOMAIN branch
         /\ \A c \in DOMAIN branch : branch[c] \in Q!Commits
         /\ Q!Tip = branch[Len(branch)] /\ Q!Tip \in Q!Commits
         /\ landed \subseteq DOMAIN branch
<1>1. branch \in Seq(Q!Commits) /\ Len(branch) > 0 /\ landed \subseteq DOMAIN branch
  BY DEF RatchetOK, Q!RatchetInv, Q!RatchetTypeOK
<1>2. Len(branch) \in Nat /\ DOMAIN branch = 1..Len(branch)
  BY <1>1, LenProperties
<1>3. \A c \in DOMAIN branch : branch[c] \in Q!Commits
  BY <1>1, <1>2, ElementOfSeq
<1>4. Q!Tip = branch[Len(branch)] /\ Len(branch) \in DOMAIN branch
  BY <1>1, <1>2 DEF Q!Tip, Q!Last
<1> QED BY <1>1, <1>2, <1>3, <1>4

\* A commit lands on the tip: one of code measures what it likes, one of data
\* leaves the tree alone, and a bot's tightens.
LEMMA CommitLands ==
  ASSUME RatchetOK, NEW x \in Q!Commits, branch' = Append(branch, x),
         x.kind # "code" => x.values = Q!Tip.values /\ x.tree = Q!Tip.tree,
         x.kind = "bot" => Q!Tightens(Q!Tip.doc, x.doc, x.values, x.tree),
         landed' = landed, push' = push \/ push' = Q!IdleJob
  PROVE  RatchetOK'
<1> DEFINE n == Len(branch)
<1>1. /\ branch' \in Seq(Q!Commits) /\ Len(branch') = n + 1
      /\ branch'[n + 1] = x /\ \A c \in DOMAIN branch : branch'[c] = branch[c]
  BY RatchetParts, AppendProperties
<1>2. DOMAIN branch' = 1..(n + 1) /\ DOMAIN branch = 1..n /\ n \in Nat /\ n > 0
  BY <1>1, RatchetParts, LenProperties
<1>3. Q!RatchetTypeOK'
  <2>1. landed' \subseteq DOMAIN branch'
    BY <1>2, RatchetParts
  <2> QED BY <1>1, <2>1, CommitsAreTyped DEF Q!RatchetTypeOK
<1>4. branch'[1].kind = "code"
  BY <1>1, <1>2 DEF RatchetOK, Q!RatchetInv
<1>5. push'.stage \in {"idle", "committed"}
  BY DEF RatchetOK, Q!RatchetInv, Q!IdleJob
<1>6. ASSUME push'.stage = "committed"
      PROVE  /\ push'.tip \in DOMAIN branch' /\ push'.doc \in Q!Docs
             /\ Q!Tightens(branch'[push'.tip].doc, push'.doc, branch'[push'.tip].values,
                           branch'[push'.tip].tree)
  <2>1. push' = push
    BY <1>6 DEF Q!IdleJob
  <2>2. /\ push.tip \in DOMAIN branch /\ push.doc \in Q!Docs
        /\ Q!Tightens(branch[push.tip].doc, push.doc, branch[push.tip].values,
                      branch[push.tip].tree)
    BY <1>6, <2>1 DEF RatchetOK, Q!RatchetInv
  <2>3. branch'[push.tip] = branch[push.tip] /\ push.tip \in DOMAIN branch'
    BY <1>1, <1>2, <2>2
  <2> QED BY <2>1, <2>2, <2>3
<1>7. ASSUME NEW c \in DOMAIN branch', NEW d \in DOMAIN branch',
             c <= d, \A k \in (c + 1)..d : branch'[k].kind # "code"
      PROVE  branch'[c].values = branch'[d].values /\ branch'[c].tree = branch'[d].tree
  <2>1. CASE d \in DOMAIN branch
    <3>1. c \in DOMAIN branch /\ \A k \in (c + 1)..d : k \in DOMAIN branch
      BY <1>2, <1>7, <2>1
    <3>2. \A k \in (c + 1)..d : branch[k].kind # "code"
      BY <1>1, <1>7, <3>1
    <3>3. branch[c].values = branch[d].values /\ branch[c].tree = branch[d].tree
      BY <1>7, <2>1, <3>1, <3>2 DEF RatchetOK, Q!RatchetInv, Q!EveryDataOnly
    <3> QED BY <1>1, <2>1, <3>1, <3>3
  <2>2. CASE d = n + 1 /\ c = n + 1
    BY <2>2
  <2>3. CASE d = n + 1 /\ c \in DOMAIN branch
    <3>1. x.kind # "code"
      BY <1>1, <1>2, <1>7, <2>3
    <3>2. \A k \in (c + 1)..n : branch[k].kind # "code"
      BY <1>1, <1>2, <1>7, <2>3
    <3>3. n \in DOMAIN branch /\ c <= n
      BY <1>2, <2>3
    <3>4. branch[c].values = branch[n].values /\ branch[c].tree = branch[n].tree
      BY <2>3, <3>2, <3>3 DEF RatchetOK, Q!RatchetInv, Q!EveryDataOnly
    <3>5. x.values = branch[n].values /\ x.tree = branch[n].tree
      BY <3>1, RatchetParts
    <3> QED BY <1>1, <2>3, <3>4, <3>5
  <2> QED BY <1>2, <2>1, <2>2, <2>3
<1>8. ASSUME NEW c \in DOMAIN branch', branch'[c].kind = "bot"
      PROVE  Q!Tightens(branch'[c - 1].doc, branch'[c].doc, branch'[c].values, branch'[c].tree)
  <2>1. CASE c = n + 1
    <3>1. c - 1 = n /\ n \in DOMAIN branch
      BY <1>2, <2>1
    <3> QED BY <1>1, <1>8, <2>1, <3>1, RatchetParts
  <2>2. CASE c \in DOMAIN branch
    <3>1. branch[c].kind = "bot" /\ branch'[c] = branch[c]
      BY <1>1, <1>8, <2>2
    <3>2. c # 1
      BY <3>1 DEF RatchetOK, Q!RatchetInv
    <3>3. c - 1 \in DOMAIN branch
      BY <1>2, <2>2, <3>2
    <3>4. Q!Tightens(branch[c - 1].doc, branch[c].doc, branch[c].values, branch[c].tree)
      BY <2>2, <3>1 DEF RatchetOK, Q!RatchetInv, Q!RatchetOnlyTightens, Q!By
    <3>5. branch'[c - 1] = branch[c - 1]
      BY <1>1, <3>3
    <3> QED BY <3>1, <3>4, <3>5
  <2>3. c = n + 1 \/ c \in DOMAIN branch
    BY <1>2
  <2> QED BY <1>8, <2>1, <2>2, <2>3
<1>9. Q!RatchetOnlyTightens'
  BY <1>8 DEF Q!RatchetOnlyTightens, Q!By
<1>10. \A c, d \in DOMAIN branch' :
        c <= d /\ Q!EveryDataOnly(c, d)' =>
          branch'[c].values = branch'[d].values /\ branch'[c].tree = branch'[d].tree
  BY <1>7 DEF Q!EveryDataOnly
<1>11. Len(branch') > 0
  BY <1>1, <1>2
<1>12. Q!RatchetInv'
  BY <1>1, <1>4, <1>5, <1>6, <1>9, <1>10, <1>11 DEF Q!RatchetInv
<1> QED BY <1>3, <1>12 DEF RatchetOK

LEMMA PersonLandsStep == ASSUME RatchetOK, Q!PersonCommits PROVE RatchetOK'
<1> DEFINE tip == Q!Tip
<1>0. PICK f \in Q!Families :
        \E v \in Values, doc \in {tip.doc, Q!Without(tip.doc, f)} \cup {Q!With(tip.doc, f, w) : w \in Values} :
        LET kind == IF v = tip.values[f] /\ doc # tip.doc THEN "thresholds" ELSE "code"
            values == [tip.values EXCEPT ![f] = v]
        IN  branch' = Append(branch,
              Q!Commit(kind, doc, values, IF kind = "code" THEN Len(branch) + 1 ELSE tip.tree))
  BY DEF Q!PersonCommits
<1>1. PICK v \in Values, doc \in {tip.doc, Q!Without(tip.doc, f)} \cup {Q!With(tip.doc, f, w) : w \in Values} :
        LET kind == IF v = tip.values[f] /\ doc # tip.doc THEN "thresholds" ELSE "code"
            values == [tip.values EXCEPT ![f] = v]
        IN  branch' = Append(branch,
              Q!Commit(kind, doc, values, IF kind = "code" THEN Len(branch) + 1 ELSE tip.tree))
  BY <1>0
<1> DEFINE kind == IF v = tip.values[f] /\ doc # tip.doc THEN "thresholds" ELSE "code"
           values == [tip.values EXCEPT ![f] = v]
           tree == IF kind = "code" THEN Len(branch) + 1 ELSE tip.tree
           x == Q!Commit(kind, doc, values, tree)
<1>2. tip.doc \in Q!Docs /\ tip.values \in [Q!Families -> Values] /\ tip.tree \in Nat
  BY RatchetParts, CommitFields
<1>3. doc \in Q!Docs
  BY <1>1, <1>2, WithRecords, WithoutRecords
<1>4. kind \in {"code", "thresholds"} /\ values \in [Q!Families -> Values] /\ tree \in Nat
  BY <1>1, <1>2, RatchetParts
<1>5. kind # "code" => values = tip.values /\ tree = tip.tree
  BY <1>2
<1>6. x.kind = kind /\ x.doc = doc /\ x.values = values /\ x.tree = tree
  BY DEF Q!Commit
<1>7. branch' = Append(branch, x) /\ landed' = landed /\ push' = push
  BY <1>1 DEF Q!PersonCommits
<1>8. x \in Q!Commits
  BY <1>3, <1>4 DEF Q!Commit, Q!Commits
<1> HIDE DEF x, values, kind, tree, tip
<1> QED BY <1>4, <1>5, <1>6, <1>7, <1>8, CommitLands DEF tip

LEMMA PricingLandsStep == ASSUME RatchetOK, Q!PricingBotCommits PROVE RatchetOK'
<1>1. PICK x : x = [Q!Tip EXCEPT !.kind = "pricing"]
  OBVIOUS
<1>2. x \in Q!Commits /\ x.kind = "pricing" /\ x.values = Q!Tip.values /\ x.tree = Q!Tip.tree
  BY <1>1, RatchetParts DEF Q!Commits
<1>3. branch' = Append(branch, x) /\ landed' = landed /\ push' = push
  BY <1>1 DEF Q!PricingBotCommits
<1> QED BY <1>2, <1>3, CommitLands

\* Steps that add no commit.
LEMMA BranchStays ==
  ASSUME RatchetOK, branch' = branch, landed' \subseteq DOMAIN branch,
         push'.stage \in {"idle", "committed"},
         push'.stage = "committed" =>
           /\ push'.tip \in DOMAIN branch /\ push'.doc \in Q!Docs
           /\ Q!Tightens(branch[push'.tip].doc, push'.doc, branch[push'.tip].values,
                         branch[push'.tip].tree)
  PROVE  RatchetOK'
<1>1. Q!RatchetTypeOK'
  BY DEF RatchetOK, Q!RatchetTypeOK
<1>2. Q!RatchetOnlyTightens'
  BY DEF RatchetOK, Q!RatchetInv, Q!RatchetOnlyTightens, Q!By
<1>3. \A c, d \in DOMAIN branch : Q!EveryDataOnly(c, d)' <=> Q!EveryDataOnly(c, d)
  BY DEF Q!EveryDataOnly
<1>4. Q!RatchetInv'
  BY <1>2, <1>3 DEF RatchetOK, Q!RatchetInv
<1> QED BY <1>1, <1>4 DEF RatchetOK

LEMMA PushLandsStep == ASSUME RatchetOK, Q!Push PROVE RatchetOK'
<1>1. push.stage = "committed" /\ push' = Q!IdleJob /\ landed' = landed
  BY DEF Q!Push
<1>2. CASE push.tip = Len(branch)
  <2>1. PICK x : x = Q!Commit("bot", push.doc, Q!Tip.values, Q!Tip.tree)
    OBVIOUS
  <2>2. branch' = Append(branch, x)
    BY <1>2, <2>1 DEF Q!Push
  <2>3. push.doc \in Q!Docs /\ Q!Tightens(Q!Tip.doc, push.doc, Q!Tip.values, Q!Tip.tree)
    BY <1>1, <1>2, RatchetParts DEF RatchetOK, Q!RatchetInv
  <2>4. /\ x.kind = "bot" /\ x.doc = push.doc /\ x.values = Q!Tip.values
        /\ x.tree = Q!Tip.tree
    BY <2>1 DEF Q!Commit
  <2>5. Q!Tip.values \in [Q!Families -> Values] /\ Q!Tip.tree \in Nat
    BY RatchetParts, CommitFields
  <2>6. x \in Q!Commits
    BY <2>1, <2>3, <2>5 DEF Q!Commit, Q!Commits
  <2> QED BY <1>1, <2>2, <2>3, <2>4, <2>6, CommitLands
<1>3. CASE push.tip # Len(branch)
  <2>1. branch' = branch
    BY <1>3 DEF Q!Push
  <2> QED BY <1>1, <2>1, BranchStays, RatchetParts DEF Q!IdleJob
<1> QED BY <1>2, <1>3

\* What the job merges onto the tip tightens the tip's document: each family
\* makes one move, the run's or none, and the tree measured is the tip's.
LEMMA MergeTightens ==
  ASSUME RatchetOK, NEW c \in DOMAIN branch, NEW doc,
         doc = (IF Len(branch) = c THEN Q!Staged(c)
                ELSE Q!Merged(Q!Tip.doc, branch[c].doc, Q!Staged(c)))
  PROVE  /\ doc \in Q!Docs /\ doc.seededOn = Q!Tip.doc.seededOn
         /\ Q!Record(doc, "suite_cost") = Q!Record(Q!Tip.doc, "suite_cost")
         /\ \A f \in Q!Families :
              FamilyTightens(f, Q!Record(Q!Tip.doc, f), Q!Record(doc, f), branch[c].values)
<1> DEFINE base == branch[c].doc
           ours == Q!Tip.doc
           values == branch[c].values
<1>1. base \in Q!Docs /\ values \in [Q!Families -> Values] /\ ours \in Q!Docs
  BY RatchetParts, CommitFields
<1>2. PICK theirs : theirs = Q!Staged(c)
  OBVIOUS
<1>3. /\ theirs \in Q!Docs /\ theirs.seededOn = base.seededOn
      /\ Q!Record(theirs, "suite_cost") = Q!Record(base, "suite_cost")
      /\ \A f \in Q!Families :
           FamilyTightens(f, Q!Record(base, f), Q!Record(theirs, f), values)
  BY <1>1, <1>2, StagedIs
<1>4. CASE Len(branch) = c
  <2>1. ours = base /\ doc = theirs
    BY <1>2, <1>4, RatchetParts
  <2> QED BY <1>3, <2>1
<1>5. CASE Len(branch) # c
  <2>1. doc = Q!Merged(ours, base, theirs)
    BY <1>2, <1>5
  <2> HIDE DEF ours, base, values
  <2>2. /\ doc \in Q!Docs /\ doc.seededOn = ours.seededOn
        /\ \A f \in Q!Families :
             Q!Record(doc, f) = IF Q!Record(ours, f) = Q!Record(base, f)
                                THEN Q!Record(theirs, f) ELSE Q!Record(ours, f)
    BY <1>1, <1>3, <2>1, MergedIs
  <2>3. ASSUME NEW f \in Q!Families
        PROVE  FamilyTightens(f, Q!Record(ours, f), Q!Record(doc, f), values)
    <3>1. CASE Q!Record(ours, f) = Q!Record(base, f)
      BY <1>3, <2>2, <3>1
    <3>2. CASE Q!Record(ours, f) # Q!Record(base, f)
      <4>1. Q!Record(doc, f) = Q!Record(ours, f)
        BY <2>2, <3>2
      <4> QED BY <1>1, <4>1, NoMoveTightens
    <3> QED BY <3>1, <3>2
  <2>4. "suite_cost" \in Q!Families
    BY DEF Q!Families
  <2>5. Q!Record(doc, "suite_cost") = Q!Record(ours, "suite_cost")
    BY <1>3, <2>2, <2>4
  <2> QED BY <2>2, <2>3, <2>5 DEF ours, values
<1> QED BY <1>4, <1>5

LEMMA FetchLandsStep == ASSUME RatchetOK, NEW c \in DOMAIN branch, Q!Fetch(c) PROVE RatchetOK'
<1> DEFINE tip == Len(branch)
           doc == IF tip = c THEN Q!Staged(c) ELSE Q!Merged(Q!Tip.doc, branch[c].doc, Q!Staged(c))
           final == IF Q!Tip.doc = branch[c].doc
                    THEN Q!SuiteRatchet(doc, branch[c].values["suite_cost"], branch[c].tree, Q!Tip.tree)
                    ELSE doc
<1>1. branch' = branch /\ landed' \subseteq DOMAIN branch
  BY RatchetParts DEF Q!Fetch
<1>2. CASE push' = Q!IdleJob
  BY <1>1, <1>2, BranchStays DEF Q!IdleJob
<1>3. CASE /\ tip # c => Q!EveryDataOnly(c, tip)
           /\ push' = [stage |-> "committed", tip |-> tip, doc |-> final]
  <2>1. branch[c].values = Q!Tip.values /\ branch[c].tree = Q!Tip.tree
    <3>1. CASE tip = c
      BY <3>1, RatchetParts
    <3>2. CASE tip # c
      <4>1. Q!EveryDataOnly(c, tip) /\ c <= tip /\ tip \in DOMAIN branch
        BY <1>3, <3>2, RatchetParts
      <4> QED BY <4>1, RatchetParts DEF RatchetOK, Q!RatchetInv
    <3> QED BY <3>1, <3>2
  <2>2. PICK values : values = branch[c].values
    OBVIOUS
  <2>3. PICK ours : ours = Q!Tip.doc
    OBVIOUS
  <2>4. PICK merged : merged = doc
    OBVIOUS
  <2>5. /\ merged \in Q!Docs /\ merged.seededOn = ours.seededOn
        /\ Q!Record(merged, "suite_cost") = Q!Record(ours, "suite_cost")
        /\ \A f \in Q!Families :
             FamilyTightens(f, Q!Record(ours, f), Q!Record(merged, f), values)
    BY <2>2, <2>3, <2>4, MergeTightens
  <2>6. PICK new : new = final
    OBVIOUS
  <2>7. ours \in Q!Docs /\ values["suite_cost"] \in Values /\ Q!Tip.tree \in Nat
    <3>1. "suite_cost" \in Q!Families
      BY DEF Q!Families
    <3> QED BY <2>2, <2>3, <3>1, RatchetParts, CommitFields
  <2>8. \/ new = merged
        \/ new = Q!SuiteRatchet(merged, values["suite_cost"], branch[c].tree, Q!Tip.tree)
    BY <2>2, <2>4, <2>6
  <2>9. /\ new \in Q!Docs
        /\ new.seededOn # ours.seededOn => new.seededOn = Q!Tip.tree
        /\ \A f \in Q!Families : FamilyTightens(f, Q!Record(ours, f), Q!Record(new, f), values)
    <3>1. CASE new = merged
      BY <2>5, <3>1
    <3>2. CASE new = Q!SuiteRatchet(merged, values["suite_cost"], branch[c].tree, Q!Tip.tree)
      <4>1. /\ new \in Q!Docs
            /\ new.seededOn # merged.seededOn => new.seededOn = Q!Tip.tree
            /\ \A g : g # "suite_cost" => Q!Record(new, g) = Q!Record(merged, g)
            /\ FamilyTightens("suite_cost", Q!Record(merged, "suite_cost"),
                              Q!Record(new, "suite_cost"), values)
        <5>1. PICK tree, tipTree : tree = branch[c].tree /\ tipTree = Q!Tip.tree
          OBVIOUS
        <5>2. merged \in Q!Docs /\ values["suite_cost"] \in Values /\ tipTree \in Nat
          BY <2>5, <2>7, <5>1
        <5>3. new = Q!SuiteRatchet(merged, values["suite_cost"], tree, tipTree)
          BY <3>2, <5>1
        <5>4. PICK v \in Values : v = values["suite_cost"]
          BY <5>2
        <5>5. new = Q!SuiteRatchet(merged, v, tree, tipTree)
          BY <5>3, <5>4
        <5>6. /\ new \in Q!Docs
              /\ new.seededOn # merged.seededOn => new.seededOn = tipTree
              /\ \A g : g # "suite_cost" => Q!Record(new, g) = Q!Record(merged, g)
              /\ FamilyTightens("suite_cost", Q!Record(merged, "suite_cost"),
                                Q!Record(new, "suite_cost"), values)
          BY <5>2, <5>4, <5>5, SuiteIs
        <5> QED BY <5>1, <5>6
      <4>2. ASSUME NEW f \in Q!Families
            PROVE  FamilyTightens(f, Q!Record(ours, f), Q!Record(new, f), values)
        <5>1. CASE f = "suite_cost"
          BY <2>5, <4>1, <5>1
        <5>2. CASE f # "suite_cost"
          BY <2>5, <4>1, <5>2
        <5> QED BY <5>1, <5>2
      <4> QED BY <2>5, <4>1, <4>2
    <3> QED BY <2>8, <3>1, <3>2
  <2>10. Q!Tightens(ours, new, values, Q!Tip.tree)
    BY <2>7, <2>9, TightensIs
  <2>11. push'.stage = "committed" /\ push'.tip = tip /\ push'.doc = new
    BY <1>3, <2>6
  <2>12. /\ tip \in DOMAIN branch /\ branch[tip].doc = ours /\ branch[tip].values = values
         /\ branch[tip].tree = Q!Tip.tree
    BY <2>1, <2>2, <2>3, RatchetParts
  <2> HIDE DEF final, doc, tip
  <2> QED BY <1>1, <2>9, <2>10, <2>11, <2>12, BranchStays
<1>4. \/ push' = Q!IdleJob
      \/ /\ tip # c => Q!EveryDataOnly(c, tip)
         /\ push' = [stage |-> "committed", tip |-> tip, doc |-> final]
  BY DEF Q!Fetch
<1> QED BY <1>2, <1>3, <1>4

LEMMA RatchetStart == ASSUME Q!RatchetInit PROVE RatchetOK
<1>1. PICK recorded \in {Q!Families, Q!Families \ {"suite_cost"}} :
        branch = <<Q!Commit("code", Q!Doc([f \in recorded |-> Q!Loosest[f]], 0), Q!Best, 1)>>
  BY DEF Q!RatchetInit
<1>2. PICK v, w \in Values : \A x \in Values : v <= x /\ x <= w
  BY MasterAssumption DEF MasterAssumption
<1>3. /\ (CHOOSE x \in Values : \A y \in Values : x <= y) \in Values
      /\ (CHOOSE x \in Values : \A y \in Values : y <= x) \in Values
  BY <1>2
<1>4. Q!Loosest \in [Q!Families -> Values]
  BY <1>3 DEF Q!Loosest
<1>5. Q!Best \in [Q!Families -> Values]
  BY <1>4 DEF Q!Best, Q!Families
<1>6. PICK r : r = [f \in recorded |-> Q!Loosest[f]]
  OBVIOUS
<1>7. DOMAIN r \subseteq Q!Families /\ r \in [DOMAIN r -> Values]
  BY <1>4, <1>6
<1>8. PICK x : x = Q!Commit("code", Q!Doc(r, 0), Q!Best, 1)
  OBVIOUS
<1>9. x \in Q!Commits /\ x.kind = "code"
  BY <1>5, <1>7, <1>8, NewDoc DEF Q!Commit, Q!Commits
<1>10. branch = <<x>>
  BY <1>1, <1>6, <1>8
<1>11. /\ branch \in Seq(Q!Commits) /\ Len(branch) = 1 /\ DOMAIN branch = {1}
       /\ branch[1] = x
  BY <1>9, <1>10
<1>12. landed = {} /\ push.stage = "idle"
  BY DEF Q!RatchetInit, Q!IdleJob
<1>13. Q!RatchetTypeOK
  BY <1>11, <1>12, CommitsAreTyped DEF Q!RatchetTypeOK
<1>14. Q!RatchetOnlyTightens
  BY <1>9, <1>11 DEF Q!RatchetOnlyTightens, Q!By
<1>15. Q!RatchetInv
  BY <1>9, <1>11, <1>12, <1>14 DEF Q!RatchetInv
<1> QED BY <1>13, <1>15 DEF RatchetOK

LEMMA RatchetKept == ASSUME RatchetOK, UNCHANGED ratchetVars PROVE RatchetOK'
<1>1. branch' = branch /\ landed' = landed /\ push' = push
  BY DEF ratchetVars
<1>2. /\ landed \subseteq DOMAIN branch /\ push.stage \in {"idle", "committed"}
      /\ push.stage = "committed" =>
           /\ push.tip \in DOMAIN branch /\ push.doc \in Q!Docs
           /\ Q!Tightens(branch[push.tip].doc, push.doc, branch[push.tip].values,
                         branch[push.tip].tree)
  BY RatchetParts DEF RatchetOK, Q!RatchetInv
<1> QED BY <1>1, <1>2, BranchStays

LEMMA RatchetStep == ASSUME RatchetOK, Q!RatchetNext PROVE RatchetOK'
BY PersonLandsStep, PricingLandsStep, PushLandsStep, FetchLandsStep DEF Q!RatchetNext

LEMMA RatchetEnds == ASSUME RatchetOK PROVE Q!RatchetOnlyTightens
BY DEF RatchetOK, Q!RatchetInv
=============================================================================
