-------------------------- MODULE EmbeddingsProofs --------------------------
(***************************************************************************)
(* The embedding store, its retry marker and semantic search, for any      *)
(* pages, contents, models, caps and failures.  The proof follows what the *)
(* command that holds the lock has read (the merged marker, the collected  *)
(* pages, the migrated store) and relates it to what is on disk; a search  *)
(* takes no lock, so its invariant speaks of its own copy and the ghosts.  *)
(***************************************************************************)
EXTENDS Embeddings, FiniteSetTheorems, SequenceTheorems, WellFoundedInduction, TLAPS

-----------------------------------------------------------------------------
(* The inductive invariants. *)

Book == [Pages -> Contents \cup {Gone}]

JobType == [by : {"none", "compile", "save"}, changed : SUBSET Pages, merged : Seq(Entry),
            collected : Book, migrated : StoreType, reembed : SUBSET Pages]

SearchType == [pc : {"idle", "filter", "walk", "fallback", "done"}, kind : 0..1,
               items : SUBSET Items, ranked : Seq(Items), hits : Seq(Items),
               stale : SUBSET (Pages \cup Slugs), gone : SUBSET Pages]

\* What TypeOK says of the store and its marker, and the locals of the command.
StoreTyped ==
    /\ live \in Book /\ store \in StoreType /\ model \in Models
    /\ Len(marker) <= MaxPending /\ marker \in Seq(Entry)
    /\ pc \in {"idle", "flushed", "core", "embed", "embedded", "failed"}
    /\ excused \subseteq Pages /\ job \in JobType

\* A store holds finitely many vectors, all of the model it names.
StoreSane == IsFiniteSet(store.items) /\ \A x \in store.items : x.m = store.model

\* The command that holds the lock has merged every entry of the marker on disk.
MergedKnown ==
    pc \in {"core", "embed", "embedded", "failed"} /\ job.by # "save" =>
        Ids(marker) \subseteq Ids(job.merged)

\* The migrated store holds vectors of the collected pages only, and every eligible
\* page that is not to be embedded has its page vector there.
Reconciled ==
    /\ \A p \in Pages \ excused : job.collected[p] = live[p]
    /\ job.reembed \subseteq Eligible(job.collected)
    /\ job.migrated.ver = 3 /\ job.migrated.model \in Models
    /\ job.migrated.items \subseteq
           ItemsOf(job.collected, Eligible(job.collected), job.migrated.model)
    /\ \A p \in Eligible(job.collected) \ job.reembed :
           \E x \in job.migrated.items : x.id = p /\ x.i = 0

Collected == pc \in {"embed", "embedded", "failed"} => Reconciled

\* After a refresh the store has a current page vector of each collected page.
Refreshed ==
    pc = "embedded" =>
        \A p \in Eligible(job.collected) :
            \E x \in store.items : x.id = p /\ x.i = 0 /\ x.h = job.collected[p].h

\* A stale page is excused, in the marker, or among those of a command that has not
\* written the marker yet.
Remembered ==
    \A p \in Pages \ excused : Stale(p) =>
        \/ p \in Ids(marker)
        \/ pc = "flushed" /\ p \in job.changed

StoreInv == StoreTyped /\ StoreSane /\ MergedKnown /\ Collected /\ Refreshed /\ Remembered

\* What a search has read; until it ends, the ghosts follow the pages.
SearchSane ==
    /\ search \in SearchType /\ IsFiniteSet(search.items)
    /\ search.gone \cap Eligible(live) = {}
    /\ search.pc # "idle" => \A p \in Exists(live) : live[p] \in seen[p]

\* Neither a hit nor a candidate of the walk is a page that was gone all along.
Candidates ==
    \A k \in DOMAIN search.ranked : search.ranked[k].id \in Pages \ search.gone

HitPages == \A k \in DOMAIN search.hits : search.hits[k].id \in Pages

Walked ==
    /\ search.pc \in {"filter", "walk"} => Len(search.hits) <= TopK
    /\ search.pc \in {"idle", "filter", "fallback"} => search.hits = <<>> /\ search.ranked = <<>>

SearchInv == SearchSane /\ Candidates /\ HitPages /\ Walked /\ HitsHonest

EmbInv == StoreInv /\ SearchInv

-----------------------------------------------------------------------------
(* Sequences. *)

\* The elements of a finite set can be listed.
LEMMA Listed ==
    ASSUME NEW S, IsFiniteSet(S)
    PROVE  /\ SetToSeq(S) \in Seq(S)
           /\ \A x \in S : \E i \in DOMAIN SetToSeq(S) : SetToSeq(S)[i] = x
<1> DEFINE n == Cardinality(S)
           l == SetToSeq(S)
<1>1. n \in Nat /\ IsFiniteSet(1..n) /\ Cardinality(1..n) = n
  BY FS_CardinalityType, FS_Interval
<1>2. \E f \in [1..n -> S] : IsInjective(f)
  BY FS_CardinalityType DEF ExistsBijection, Bijection, Injection
<1>3. l \in [1..n -> S] /\ IsInjective(l)
  BY <1>2 DEF SetToSeq
<1> HIDE DEF l, n
<1>4. l \in Injection(1..n, S)
  BY <1>3 DEF Injection
<1>5. l \in Surjection(1..n, S)
  BY <1>1, <1>4, FS_Injection DEF n
<1>6. \A x \in S : \E i \in 1..n : l[i] = x
  BY <1>5 DEF Surjection
<1> QED
  BY <1>1, <1>3, <1>6 DEF l

\* Kept keeps the entries it is told to keep, none of them further back than before.
LEMMA KeptEntries ==
    ASSUME NEW T, NEW s \in Seq(T), NEW K \in SUBSET DOMAIN s
    PROVE  /\ \A j \in DOMAIN Kept(s, K) : \E k \in K : Kept(s, K)[j] = s[k]
           /\ \A k \in K : \E j \in DOMAIN Kept(s, K) : j <= k /\ Kept(s, K)[j] = s[k]
           /\ Kept(s, K) \in Seq(T)
<1> DEFINE n == Cardinality(K)
           upto(k) == {i \in K : i <= k}
           rank == [k \in K |-> Cardinality(upto(k))]
           at(j) == CHOOSE k \in K : Cardinality(upto(k)) = j
           r == [j \in 1..n |-> s[at(j)]]
<1>1. Len(s) \in Nat /\ DOMAIN s = 1..Len(s) /\ K \subseteq 1..Len(s)
  OBVIOUS
<1>2. IsFiniteSet(K) /\ n \in Nat
  <2>1. IsFiniteSet(1..Len(s))
    BY <1>1, FS_Interval
  <2> QED
    BY <1>1, <2>1, FS_Subset, FS_CardinalityType
<1>3. ASSUME NEW k \in K
      PROVE  /\ IsFiniteSet(upto(k)) /\ rank[k] \in 1..n /\ rank[k] <= k
  <2>1. upto(k) \in SUBSET K /\ upto(k) \in SUBSET (1..k) /\ k \in upto(k) /\ k \in Nat
    BY <1>1
  <2>2. IsFiniteSet(upto(k)) /\ Cardinality(upto(k)) <= n
    BY <1>2, <2>1, FS_Subset
  <2>3. Cardinality(upto(k)) <= k
    <3>1. IsFiniteSet(1..k) /\ Cardinality(1..k) = k
      BY <1>1, <2>1, FS_Interval
    <3> QED
      BY <2>1, <3>1, FS_Subset
  <2>4. Cardinality(upto(k)) \in Nat /\ Cardinality(upto(k)) # 0
    BY <2>1, <2>2, FS_CardinalityType, FS_EmptySet
  <2> HIDE DEF upto
  <2> QED
    BY <1>2, <2>2, <2>3, <2>4
<1>4. ASSUME NEW k \in K, NEW m \in K, k < m PROVE rank[k] # rank[m]
  <2>1. upto(k) \in SUBSET upto(m) /\ m \in upto(m) /\ m \notin upto(k)
    BY <1>1, <1>4
  <2> HIDE DEF upto
  <2> QED
    BY <1>3, <2>1, FS_Subset
<1>5. \A k, m \in K : rank[k] = rank[m] => k = m
  <2>1. \A k, m \in K : k = m \/ k < m \/ m < k
    BY <1>1
  <2> QED
    BY <1>4, <2>1
<1> HIDE DEF upto, n
<1>6. rank \in Injection(K, 1..n)
  BY <1>3, <1>5 DEF Injection, IsInjective
<1>7. rank \in Surjection(K, 1..n)
  <2>1. IsFiniteSet(1..n) /\ Cardinality(1..n) = n
    BY <1>2, FS_Interval
  <2> QED
    BY <1>6, <2>1, FS_Injection DEF n
<1>8. \A j \in 1..n : \E k \in K : rank[k] = j
  BY <1>7 DEF Surjection
<1>9. \A j \in 1..n : at(j) \in K /\ rank[at(j)] = j
  BY <1>8
<1>10. ASSUME NEW k \in K PROVE at(rank[k]) = k
  <2>1. at(rank[k]) \in K /\ rank[at(rank[k])] = rank[k]
    BY <1>3, <1>9
  <2> QED
    BY <1>5, <2>1
<1>11. Kept(s, K) = r
  BY DEF Kept, upto, n
<1>12. ASSUME NEW k \in K PROVE rank[k] \in 1..n /\ rank[k] <= k /\ r[rank[k]] = s[k]
  BY <1>3, <1>10
<1>13. \A j \in 1..n : r[j] = s[at(j)] /\ at(j) \in K
  BY <1>9
<1>14. r \in Seq(T) /\ DOMAIN r = 1..n
  <2>1. \A j \in 1..n : s[at(j)] \in T
    <3> HIDE DEF at
    <3> QED
      BY <1>1, <1>13
  <2> HIDE DEF at, rank
  <2> QED
    BY <1>2, <2>1
<1> HIDE DEF r, at, rank
<1> QED
  BY <1>11, <1>12, <1>13, <1>14

\* Where the elements of a concatenation are.
LEMMA Joined ==
    ASSUME NEW T, NEW a \in Seq(T), NEW b \in Seq(T)
    PROVE  /\ a \o b \in Seq(T) /\ Len(a \o b) = Len(a) + Len(b)
           /\ Len(a) \in Nat /\ Len(b) \in Nat
           /\ \A k \in 1..Len(a) : (a \o b)[k] = a[k]
           /\ \A k \in 1..Len(b) : Len(a) + k \in DOMAIN (a \o b) /\ (a \o b)[Len(a) + k] = b[k]
           /\ \A k \in DOMAIN (a \o b) :
                  k \in 1..Len(a) \/ \E j \in 1..Len(b) : k = Len(a) + j
<1> DEFINE m == Len(a)
           n == Len(b)
<1>1. m \in Nat /\ n \in Nat
  OBVIOUS
<1>2. /\ a \o b \in Seq(T) /\ Len(a \o b) = m + n
      /\ \A i \in 1..m + n : (a \o b)[i] = IF i <= m THEN a[i] ELSE b[i - m]
  BY ConcatProperties
<1>3. DOMAIN (a \o b) = 1..m + n
  BY <1>2
<1> HIDE DEF m, n
<1>4. \A k \in 1..m : k \in 1..m + n /\ k <= m
  BY <1>1
<1>5. \A k \in 1..n : m + k \in 1..m + n /\ ~(m + k <= m) /\ (m + k) - m = k
  BY <1>1
<1>6. \A k \in 1..n : (a \o b)[m + k] = b[k]
  <2> TAKE k \in 1..n
  <2>1. (a \o b)[m + k] = b[(m + k) - m]
    BY <1>2, <1>5
  <2> QED
    BY <1>5, <2>1
<1>7. \A k \in 1..m + n : k \in 1..m \/ \E j \in 1..n : k = m + j
  <2> TAKE k \in 1..m + n
  <2>1. CASE k <= m
    BY <1>1, <2>1
  <2>2. CASE ~(k <= m)
    <3>1. k - m \in 1..n /\ k = m + (k - m)
      BY <1>1, <2>2
    <3> QED
      BY <3>1
  <2> QED
    BY <2>1, <2>2
<1> QED
  BY <1>1, <1>2, <1>3, <1>4, <1>5, <1>6, <1>7 DEF m, n

-----------------------------------------------------------------------------
(* The retry marker. *)

\* Entries before the attempts of a failure are weighed.
Aged == [p : Pages, n : Nat]

\* The new marker of a command answers for the old one and for what it changed.
LEMMA MergeKeepsAll ==
    ASSUME NEW prior \in Seq(Entry), NEW fresh \in SUBSET Pages
    PROVE  /\ mergeFreshAttempts(prior, fresh) \in Seq(Entry)
           /\ Ids(mergeFreshAttempts(prior, fresh)) = Ids(prior) \cup fresh
<1> DEFINE was(p) == IF p \in Ids(prior) THEN prior[CHOOSE k \in DOMAIN prior : prior[k].p = p].n
                                         ELSE 0
           first == SetToSeq(fresh)
           K == {k \in DOMAIN prior : prior[k].p \notin fresh}
           a == [k \in DOMAIN first |-> [p |-> first[k], n |-> was(first[k])]]
           b == Kept(prior, K)
<1>1. IsFiniteSet(fresh)
  BY EmbeddingsAssumption, FS_Subset
<1>2. first \in Seq(fresh) /\ \A x \in fresh : \E i \in DOMAIN first : first[i] = x
  BY <1>1, Listed
<1>3. K \in SUBSET DOMAIN prior
  OBVIOUS
<1>4. /\ \A j \in DOMAIN b : \E k \in K : b[j] = prior[k]
      /\ \A k \in K : \E j \in DOMAIN b : b[j] = prior[k]
      /\ b \in Seq(Entry)
  BY <1>3, KeptEntries
<1>5. \A p \in Pages : was(p) \in 0..MaxAttempts - 1
  <2>1. \A e \in Entry : e.n \in 0..MaxAttempts - 1
    BY DEF Entry
  <2>2. ASSUME NEW p \in Ids(prior) PROVE was(p) \in 0..MaxAttempts - 1
    <3>1. (CHOOSE k \in DOMAIN prior : prior[k].p = p) \in DOMAIN prior
      BY DEF Ids
    <3> QED
      BY <2>1, <3>1
  <2>3. 0 \in 0..MaxAttempts - 1
    BY EmbeddingsAssumption
  <2> QED
    BY <2>2, <2>3
<1> HIDE DEF first, b, was
<1>6. a \in Seq(Entry) /\ Len(a) = Len(first) /\ \A k \in DOMAIN first : a[k].p = first[k]
  <2>1. \A k \in 1..Len(first) : /\ first[k] \in Pages
                                 /\ [p |-> first[k], n |-> was(first[k])] \in Entry
    BY <1>2, <1>5 DEF Entry
  <2> QED
    BY <1>2, <2>1
<1> HIDE DEF a
<1>7. /\ a \o b \in Seq(Entry) /\ Len(a \o b) = Len(a) + Len(b)
      /\ Len(a) \in Nat /\ Len(b) \in Nat
      /\ \A k \in 1..Len(a) : (a \o b)[k] = a[k]
      /\ \A k \in 1..Len(b) : Len(a) + k \in DOMAIN (a \o b) /\ (a \o b)[Len(a) + k] = b[k]
      /\ \A k \in DOMAIN (a \o b) :
             k \in 1..Len(a) \/ \E j \in 1..Len(b) : k = Len(a) + j
  <2>1. a \in Seq(Entry) /\ b \in Seq(Entry)
    BY <1>4, <1>6
  <2>2. /\ a \o b \in Seq(Entry) /\ Len(a \o b) = Len(a) + Len(b)
        /\ Len(a) \in Nat /\ Len(b) \in Nat
    BY <2>1, Joined
  <2>3. \A k \in 1..Len(a) : (a \o b)[k] = a[k]
    BY <2>1, Joined
  <2>4. \A k \in 1..Len(b) : Len(a) + k \in DOMAIN (a \o b) /\ (a \o b)[Len(a) + k] = b[k]
    BY <2>1, Joined
  <2>5. \A k \in DOMAIN (a \o b) :
             k \in 1..Len(a) \/ \E j \in 1..Len(b) : k = Len(a) + j
    BY <2>1, Joined
  <2> QED
    BY <2>2, <2>3, <2>4, <2>5
<1>8. mergeFreshAttempts(prior, fresh) = a \o b
  BY DEF mergeFreshAttempts, a, b, first, was
<1>9. ASSUME NEW p \in Ids(prior) \cup fresh PROVE p \in Ids(a \o b)
  <2>1. CASE p \in fresh
    <3>1. PICK k \in DOMAIN first : first[k] = p
      BY <1>2, <2>1
    <3>2. k \in DOMAIN (a \o b) /\ (a \o b)[k].p = p
      BY <1>2, <1>4, <1>6, <1>7, <3>1
    <3> QED
      BY <3>2 DEF Ids
  <2>2. CASE p \notin fresh
    <3>1. PICK k \in K : prior[k].p = p
      BY <2>2, <1>9 DEF Ids
    <3>2. PICK j \in DOMAIN b : b[j] = prior[k]
      BY <1>4
    <3>3. j \in 1..Len(b)
      BY <1>4
    <3>4. Len(a) + j \in DOMAIN (a \o b) /\ (a \o b)[Len(a) + j].p = p
      BY <1>7, <3>1, <3>2, <3>3
    <3> QED
      BY <3>4 DEF Ids
  <2> QED
    BY <2>1, <2>2
<1>10. ASSUME NEW k \in DOMAIN (a \o b) PROVE (a \o b)[k].p \in Ids(prior) \cup fresh
  <2>1. CASE k \in 1..Len(a)
    <3>1. k \in DOMAIN first /\ (a \o b)[k].p = first[k] /\ first[k] \in fresh
      BY <1>2, <1>6, <1>7, <2>1
    <3> QED
      BY <3>1
  <2>2. CASE \E j \in 1..Len(b) : k = Len(a) + j
    <3>1. PICK j \in 1..Len(b) : k = Len(a) + j
      BY <2>2
    <3>2. PICK i \in K : b[j] = prior[i]
      BY <1>4, <3>1
    <3> QED
      BY <1>7, <3>1, <3>2 DEF Ids
  <2> QED
    BY <1>7, <2>1, <2>2
<1>11. Ids(a \o b) \subseteq Ids(prior) \cup fresh
  BY <1>10 DEF Ids
<1> QED
  BY <1>7, <1>8, <1>9, <1>11

\* What is written fits the cap.
LEMMA Normalized ==
    ASSUME NEW s \in Seq(Entry)
    PROVE  /\ normalizeMarker(s) \in Seq(Entry) /\ Len(normalizeMarker(s)) <= MaxPending
           /\ Ids(normalizeMarker(s)) \subseteq Ids(s)
<1> DEFINE n == IF Len(s) < MaxPending THEN Len(s) ELSE MaxPending
<1>1. n \in Nat /\ n <= Len(s) /\ n <= MaxPending /\ Len(s) \in Nat
  BY EmbeddingsAssumption
<1>2. normalizeMarker(s) = SubSeq(s, 1, n)
  BY DEF normalizeMarker
<1> HIDE DEF n
<1>3. \A i \in 1..n : s[i] \in Entry /\ i \in DOMAIN s
  BY <1>1
<1>4. /\ SubSeq(s, 1, n) \in Seq(Entry) /\ Len(SubSeq(s, 1, n)) = n
      /\ \A i \in 1..n : SubSeq(s, 1, n)[i] = s[i]
  BY <1>1, <1>3, SubSeqProperties
<1> QED
  BY <1>1, <1>2, <1>3, <1>4 DEF Ids

\* A sequence rebuilt entry by entry is a sequence of aged entries.
LEMMA AgedSeq ==
    ASSUME NEW s \in Seq(Entry), NEW u, DOMAIN u = DOMAIN s, u = [k \in DOMAIN u |-> u[k]],
           \A k \in DOMAIN s : u[k] \in Aged
    PROVE  u \in Seq(Aged)
<1>1. Len(s) \in Nat /\ DOMAIN s = 1..Len(s)
  OBVIOUS
<1>2. u \in [1..Len(s) -> Aged]
  BY <1>1
<1> QED
  BY <1>1, <1>2

\* Settling leaves entries with attempts to spare, of pages that were there.
LEMMA Settled ==
    ASSUME NEW s \in Seq(Entry), NEW embedded, NEW eligible
    PROVE  settleAfterFailure(s) \in Seq(Entry) /\ settleAfterSuccess(s, embedded, eligible) \in Seq(Entry)
<1>1. ASSUME NEW u \in Seq(Aged), NEW K \in SUBSET DOMAIN u, \A k \in K : u[k].n < MaxAttempts
      PROVE  Kept(u, K) \in Seq(Entry)
  <2>1. /\ \A j \in DOMAIN Kept(u, K) : \E k \in K : Kept(u, K)[j] = u[k]
        /\ Kept(u, K) \in Seq(Aged)
    BY KeptEntries
  <2>2. \A k \in K : u[k] \in Entry
    <3>1. \A k \in K : u[k] \in Aged
      OBVIOUS
    <3> QED
      BY <1>1, <3>1, EmbeddingsAssumption DEF Aged, Entry
  <2> DEFINE v == Kept(u, K)
  <2> HIDE DEF v
  <2>3. v \in Seq(Aged) /\ \A j \in DOMAIN v : v[j] \in Entry
    BY <2>1, <2>2 DEF v
  <2>4. v \in Seq(Entry)
    BY <2>3
  <2> QED
    BY <2>4 DEF v
<1>4. \A k \in DOMAIN s : s[k] \in Aged /\ [s[k] EXCEPT !.n = @ + 1] \in Aged
  <2> SUFFICES ASSUME NEW k \in DOMAIN s
               PROVE  s[k] \in Aged /\ [s[k] EXCEPT !.n = @ + 1] \in Aged
    OBVIOUS
  <2>1. s[k] \in Entry
    OBVIOUS
  <2>2. PICK q \in Pages, n \in 0..MaxAttempts - 1 : s[k] = [p |-> q, n |-> n]
    BY <2>1 DEF Entry
  <2>3. [s[k] EXCEPT !.n = @ + 1] = [p |-> q, n |-> n + 1] /\ n \in Nat /\ n + 1 \in Nat
    BY <2>2, EmbeddingsAssumption
  <2> QED
    BY <2>2, <2>3 DEF Aged
<1>2. settleAfterFailure(s) \in Seq(Entry)
  <2> DEFINE u == Bumped(s)
             K == {k \in DOMAIN u : Survives(u[k])}
  <2>1. u \in Seq(Aged)
    <3>1. \A k \in DOMAIN s : Bumped(s)[k] = [s[k] EXCEPT !.n = @ + 1]
      BY DEF Bumped
    <3> QED
      BY <1>4, <3>1, AgedSeq DEF Bumped
  <2>2. \A k \in K : u[k].n < MaxAttempts
    BY DEF Survives
  <2>3. settleAfterFailure(s) = Kept(u, K)
    BY DEF settleAfterFailure
  <2> HIDE DEF u
  <2> QED
    BY <1>1, <2>1, <2>2, <2>3
<1>3. settleAfterSuccess(s, embedded, eligible) \in Seq(Entry)
  <2> DEFINE u == [k \in DOMAIN s |-> IF s[k].p \in eligible THEN s[k]
                                       ELSE [s[k] EXCEPT !.n = @ + 1]]
             K == {k \in DOMAIN u : /\ u[k].p \notin embedded
                                    /\ u[k].p \in eligible \/ Survives(u[k])}
  <2>1. u \in Seq(Aged)
    <3>1. \A k \in DOMAIN s : u[k] \in Aged
      BY <1>4
    <3> QED
      BY <3>1, AgedSeq
  <2>2. \A k \in K : u[k].n < MaxAttempts
    <3>1. ASSUME NEW k \in K PROVE u[k].n < MaxAttempts
      <4>1. k \in DOMAIN s /\ s[k] \in Entry
        OBVIOUS
      <4>2. CASE s[k].p \in eligible
        BY <4>1, <4>2, EmbeddingsAssumption DEF Entry
      <4>3. CASE s[k].p \notin eligible
        <5>1. u[k].p = s[k].p
          BY <4>1, <4>3 DEF Entry
        <5> QED
          BY <4>3, <5>1 DEF Survives
      <4> QED
        BY <4>2, <4>3
    <3> QED
      BY <3>1
  <2>3. settleAfterSuccess(s, embedded, eligible) = Kept(u, K)
    BY DEF settleAfterSuccess
  <2> HIDE DEF u
  <2> QED
    BY <1>1, <2>1, <2>2, <2>3
<1> QED
  BY <1>2, <1>3
-----------------------------------------------------------------------------
(* The vectors of a set of pages. *)

\* The image of a finite set is finite.
LEMMA ImageFinite ==
    ASSUME NEW S, IsFiniteSet(S), NEW f, DOMAIN f = S
    PROVE  IsFiniteSet({f[x] : x \in S})
<1> DEFINE T == {f[x] : x \in S}
           g == [x \in S |-> f[x]]
<1>1. g \in Surjection(S, T)
  BY DEF Surjection
<1> HIDE DEF g, T
<1>2. IsFiniteSet(T)
  BY <1>1, FS_Surjection
<1> QED
  BY <1>2 DEF T

\* The texts of a page are the page itself and its chunks, and each has a hash.
LEMMA TextHashes ==
    ASSUME NEW c \in Contents, NEW i \in Nat
    PROVE  /\ Len(c.cs) \in Nat /\ c.h \in Nat \ {0} /\ TextHash(c, 0) = c.h
           /\ i \in 0..Len(c.cs) => TextHash(c, i) \in Nat \ {0}
           /\ TextHash(c, i) # 0 => i \in 0..Len(c.cs)
<1>1. c.h \in Nat \ {0} /\ c.cs \in Seq(Nat \ {0})
  BY EmbeddingsAssumption
<1> QED
  BY <1>1 DEF TextHash

\* The vectors of a page are finitely many, one for each of its texts.
LEMMA ItemsOfPages ==
    ASSUME NEW pages \in Book, NEW ids \in SUBSET Exists(pages), NEW m \in Models
    PROVE  /\ IsFiniteSet(ItemsOf(pages, ids, m)) /\ ItemsOf(pages, ids, m) \subseteq Items
           /\ \A x \in ItemsOf(pages, ids, m) :
                  x.m = m /\ x.id \in ids /\ x.h = TextHash(pages[x.id], x.i)
           /\ \A x \in Items : x.m = m /\ x.id \in ids /\ x.h = TextHash(pages[x.id], x.i) =>
                  x \in ItemsOf(pages, ids, m)
           /\ \A p \in ids : \E x \in ItemsOf(pages, ids, m) : x.id = p /\ x.i = 0
<1> DEFINE items(p) == PageItems(p, pages[p], m)
           all == {items(p) : p \in ids}
<1>1. \A p \in ids : p \in Pages /\ pages[p] \in Contents
  BY DEF Exists, Book
<1>2. ASSUME NEW p \in ids
      PROVE  /\ IsFiniteSet(items(p)) /\ items(p) \subseteq Items
             /\ \A x \in items(p) : x.m = m /\ x.id = p /\ x.h = TextHash(pages[p], x.i)
             /\ \A x \in Items : x.m = m /\ x.id = p /\ x.h = TextHash(pages[p], x.i) => x \in items(p)
             /\ \E x \in items(p) : x.id = p /\ x.i = 0
  <2> DEFINE c == pages[p]
             item == [i \in 0..Len(c.cs) |-> [id |-> p, i |-> i, h |-> TextHash(c, i), m |-> m]]
  <2>1. c \in Contents /\ p \in Pages /\ Len(c.cs) \in Nat
    BY <1>1, TextHashes
  <2>2. items(p) = {item[i] : i \in 0..Len(c.cs)}
    BY DEF PageItems
  <2>3. IsFiniteSet(items(p))
    <3>1. IsFiniteSet(0..Len(c.cs)) /\ DOMAIN item = 0..Len(c.cs)
      BY <2>1, FS_Interval
    <3> HIDE DEF item, c
    <3> QED
      BY <2>2, <3>1, ImageFinite
  <2>4. \A i \in 0..Len(c.cs) : i \in Nat /\ item[i] \in Items
    BY <2>1, TextHashes DEF Items
  <2>5. \A x \in items(p) : x.m = m /\ x.id = p /\ x.h = TextHash(pages[p], x.i)
    BY DEF PageItems
  <2>6. ASSUME NEW x \in Items, x.m = m, x.id = p, x.h = TextHash(c, x.i) PROVE x \in items(p)
    <3>1. x.i \in Nat /\ x.h # 0 /\ x = [id |-> x.id, i |-> x.i, h |-> x.h, m |-> x.m]
      BY DEF Items
    <3>2. x.i \in 0..Len(c.cs)
      BY <2>1, <2>6, <3>1, TextHashes
    <3> QED
      BY <2>6, <3>1, <3>2 DEF PageItems
  <2>7. \E x \in items(p) : x.id = p /\ x.i = 0
    <3>1. 0 \in 0..Len(c.cs) /\ item[0].id = p /\ item[0].i = 0
      BY <2>1
    <3> QED
      BY <2>2, <3>1
  <2>8. items(p) \subseteq Items
    BY <2>2, <2>4
  <2> QED
    BY <2>3, <2>5, <2>6, <2>7, <2>8
<1>3. ItemsOf(pages, ids, m) = UNION all
  BY DEF ItemsOf
<1>4. IsFiniteSet(all)
  <2> DEFINE of == [p \in ids |-> items(p)]
  <2>1. IsFiniteSet(ids)
    BY EmbeddingsAssumption, FS_Subset DEF Exists
  <2>2. all = {of[p] : p \in ids} /\ DOMAIN of = ids
    OBVIOUS
  <2> HIDE DEF of, all
  <2> QED
    BY <2>1, <2>2, ImageFinite
<1>5. IsFiniteSet(UNION all)
  <2>1. \A T \in all : IsFiniteSet(T)
    BY <1>2
  <2> HIDE DEF all
  <2> QED
    BY <1>4, <2>1, FS_UNION
<1>6. \A x : x \in UNION all <=> \E p \in ids : x \in items(p)
  OBVIOUS
<1> HIDE DEF all, items
<1> QED
  BY <1>2, <1>3, <1>5, <1>6

-----------------------------------------------------------------------------
(* Migration. *)

\* Migration moves a vector only to an eligible page that still has its text.
LEMMA PreservedCurrent ==
    ASSUME NEW st \in StoreType, NEW pages \in Book,
           IsFiniteSet(st.items), \A x \in st.items : x.m = st.model, st.model \in Models
    PROVE  Preserved(st, pages) \subseteq ItemsOf(pages, Eligible(pages), st.model)
<1>1. Eligible(pages) \in SUBSET Exists(pages)
  BY DEF Eligible
<1>2. SUFFICES ASSUME NEW x \in st.items, NEW p \in LivePageOf(st, x, pages),
                      TextHash(pages[p], x.i) = x.h
               PROVE  [x EXCEPT !.id = p] \in ItemsOf(pages, Eligible(pages), st.model)
  BY DEF Preserved
<1>3. p \in Eligible(pages) /\ p \in Pages /\ pages[p] \in Contents
  BY DEF LivePageOf, soleEligiblePageId, Eligible, Exists, Book
<1>4. x \in Items /\ x.m = st.model
  BY DEF StoreType
<1>5. [x EXCEPT !.id = p] \in Items
  BY <1>3, <1>4 DEF Items
<1>6. /\ [x EXCEPT !.id = p].id = p /\ [x EXCEPT !.id = p].i = x.i
      /\ [x EXCEPT !.id = p].h = x.h /\ [x EXCEPT !.id = p].m = x.m
  BY <1>4 DEF Items
<1> DEFINE y == [x EXCEPT !.id = p]
<1>7. /\ y \in Items /\ y.m = st.model /\ y.id \in Eligible(pages)
      /\ y.h = TextHash(pages[y.id], y.i)
  BY <1>2, <1>3, <1>4, <1>5, <1>6
<1> HIDE DEF y
<1>8. y \in ItemsOf(pages, Eligible(pages), st.model)
  BY <1>1, <1>7, ItemsOfPages
<1> QED
  BY <1>8 DEF y

\* What migration leaves out of the store is to be embedded.
LEMMA Migrated ==
    ASSUME NEW st \in StoreType, NEW pages \in Book, NEW m \in Models,
           IsFiniteSet(st.items), \A x \in st.items : x.m = st.model
    PROVE  LET r == migrateEmbeddingStore(st, pages, m)
           IN  /\ r.store \in StoreType /\ r.store.ver = 3 /\ r.store.model = m /\ r.store.valid
               /\ r.store.items \subseteq ItemsOf(pages, Eligible(pages), m)
               /\ r.reembed \subseteq Eligible(pages)
               /\ \A p \in Eligible(pages) \ r.reembed : \E x \in r.store.items : x.id = p /\ x.i = 0
               /\ r.store.items # {} => r.store.items = Preserved(st, pages) /\ ~shouldRebuild(st, m)
<1> DEFINE r == migrateEmbeddingStore(st, pages, m)
           keep == IF shouldRebuild(st, m) THEN {} ELSE Preserved(st, pages)
<1>1. Eligible(pages) \in SUBSET Exists(pages)
  BY DEF Eligible
<1>2. keep \subseteq ItemsOf(pages, Eligible(pages), m)
  <2>1. CASE shouldRebuild(st, m)
    BY <2>1
  <2>2. CASE ~shouldRebuild(st, m)
    <3>1. st.model = m
      BY <2>2 DEF shouldRebuild
    <3> QED
      BY <2>2, <3>1, PreservedCurrent
  <2> QED
    BY <2>1, <2>2
<1>3. keep \subseteq Items
  BY <1>1, <1>2, ItemsOfPages
<1>4. /\ r.store = [ver |-> 3, valid |-> TRUE, model |-> m, dim |-> st.dim, items |-> keep]
      /\ r.reembed = IF shouldRebuild(st, m) THEN Eligible(pages)
                     ELSE Changed(st, pages) \cup addNewEligiblePages(keep, pages)
  BY DEF migrateEmbeddingStore
<1>5. r.store \in StoreType
  BY <1>3, <1>4 DEF StoreType
<1>6. Changed(st, pages) \subseteq Eligible(pages)
  BY DEF Changed, LivePageOf, soleEligiblePageId, Eligible
<1>7. addNewEligiblePages(keep, pages) \subseteq Eligible(pages)
  BY DEF addNewEligiblePages
<1>8. \A p \in Eligible(pages) \ r.reembed : \E x \in keep : x.id = p /\ x.i = 0
  BY <1>4 DEF addNewEligiblePages
<1>9. keep # {} => keep = Preserved(st, pages) /\ ~shouldRebuild(st, m)
  OBVIOUS
<1> HIDE DEF keep, r
<1> QED
  BY <1>2, <1>4, <1>5, <1>6, <1>7, <1>8, <1>9 DEF r

\* In a store that migration found complete, every eligible page has its vector.
LEMMA NothingToEmbed ==
    ASSUME NEW st \in StoreType, NEW pages \in Book, NEW m \in Models,
           IsFiniteSet(st.items), \A x \in st.items : x.m = st.model,
           st.ver \notin 1..2, migrateEmbeddingStore(st, pages, m).reembed = {},
           NEW p \in Eligible(pages)
    PROVE  \E x \in st.items : x.id = p /\ x.i = 0 /\ x.h = pages[p].h
<1> DEFINE r == migrateEmbeddingStore(st, pages, m)
<1>1. PICK y \in r.store.items : y.id = p /\ y.i = 0
  BY Migrated
<1>2. r.store.items = Preserved(st, pages) /\ ~shouldRebuild(st, m)
  BY <1>1, Migrated
<1>3. st.ver = 3
  <2>1. st.ver \in 2..3
    BY <1>2 DEF shouldRebuild
  <2> QED
    BY <2>1
<1>4. PICK x \in st.items, q \in Pages :
        /\ q \in LivePageOf(st, x, pages) /\ TextHash(pages[q], x.i) = x.h
        /\ y = [x EXCEPT !.id = q]
  BY <1>1, <1>2 DEF Preserved
<1>5. x \in Items /\ q = x.id
  BY <1>3, <1>4 DEF LivePageOf, StoreType
<1>6. y.id = q /\ y.i = x.i
  BY <1>4, <1>5 DEF Items
<1>7. pages[p] \in Contents
  BY DEF Eligible, Exists, Book
<1> QED
  BY <1>1, <1>4, <1>5, <1>6, <1>7, TextHashes

\* The new store has a vector of each collected page, of the text it collected.
LEMMA Rewritten ==
    ASSUME NEW mig \in StoreType, NEW pages \in Book, NEW re \in SUBSET Eligible(pages),
           mig.model \in Models, mig.items \subseteq ItemsOf(pages, Eligible(pages), mig.model),
           \A p \in Eligible(pages) \ re : \E x \in mig.items : x.id = p /\ x.i = 0
    PROVE  LET new == mergeReembedded(mig, pages, re)
               all == ItemsOf(pages, Eligible(pages), mig.model)
           IN  /\ new \in StoreType /\ new.model = mig.model /\ IsFiniteSet(new.items)
               /\ \A x \in new.items : x.m = new.model
               /\ new.items \subseteq all /\ PageLevel(new.items) = PageLevel(all)
               /\ \A p \in Eligible(pages) :
                      \E x \in new.items : x.id = p /\ x.i = 0 /\ x.h = pages[p].h
<1> DEFINE new == mergeReembedded(mig, pages, re)
           m == mig.model
           all == ItemsOf(pages, Eligible(pages), m)
           items == {x \in mig.items : x.id \notin re} \cup ItemsOf(pages, re, m)
           d == IF items = {} THEN mig.dim ELSE Dim[(CHOOSE x \in items : TRUE).m]
<1>1. Eligible(pages) \in SUBSET Exists(pages) /\ re \in SUBSET Exists(pages) /\ m \in Models
  BY DEF Eligible
<1>2. /\ IsFiniteSet(all) /\ all \subseteq Items
      /\ \A x \in all : x.m = m /\ x.id \in Eligible(pages) /\ x.h = TextHash(pages[x.id], x.i)
      /\ \A x \in Items : x.m = m /\ x.id \in Eligible(pages) /\ x.h = TextHash(pages[x.id], x.i)
             => x \in all
  BY <1>1, ItemsOfPages
<1>3. /\ ItemsOf(pages, re, m) \subseteq Items
      /\ \A x \in ItemsOf(pages, re, m) : x.m = m /\ x.id \in re /\ x.h = TextHash(pages[x.id], x.i)
      /\ \A p \in re : \E x \in ItemsOf(pages, re, m) : x.id = p /\ x.i = 0
  BY <1>1, ItemsOfPages
<1>4. new = [mig EXCEPT !.items = items, !.dim = d]
  BY DEF mergeReembedded
<1>5. items \subseteq all
  <2>1. ItemsOf(pages, re, m) \subseteq all
    BY <1>2, <1>3
  <2> QED
    BY <2>1
<1>6. d \in Nat
  <2>1. CASE items = {}
    BY <2>1 DEF StoreType
  <2>2. CASE items # {}
    <3>1. (CHOOSE x \in items : TRUE) \in items
      BY <2>2
    <3>2. (CHOOSE x \in items : TRUE).m = m
      BY <1>2, <1>5, <3>1
    <3>3. Dim[m] \in Nat
      BY <1>1, EmbeddingsAssumption
    <3> QED
      BY <2>2, <3>2, <3>3
  <2> QED
    BY <2>1, <2>2
<1>7. ASSUME NEW p \in Eligible(pages)
      PROVE  \E x \in items : x.id = p /\ x.i = 0 /\ x.h = pages[p].h
  <2>1. \E x \in items : x.id = p /\ x.i = 0
    <3>1. CASE p \in re
      BY <1>3, <3>1
    <3>2. CASE p \notin re
      BY <3>2
    <3> QED
      BY <3>1, <3>2
  <2>2. PICK x \in items : x.id = p /\ x.i = 0
    BY <2>1
  <2>3. x.h = TextHash(pages[p], 0) /\ pages[p] \in Contents
    BY <1>2, <1>5, <2>2 DEF Eligible, Exists, Book
  <2> QED
    BY <2>2, <2>3, TextHashes
<1> HIDE DEF items, d, all
<1>8. PageLevel(items) = PageLevel(all)
  <2>1. ASSUME NEW y \in all, y.i = 0 PROVE y \in items
    <3>1. y \in Items /\ y.m = m /\ y.id \in Eligible(pages) /\ y.h = TextHash(pages[y.id], 0)
      BY <1>2, <2>1
    <3>2. PICK x \in items : x.id = y.id /\ x.i = 0 /\ x.h = pages[y.id].h
      BY <1>7, <3>1
    <3>3. x \in Items /\ x.m = m /\ x.h = TextHash(pages[y.id], 0)
      BY <1>2, <1>5, <3>2
    <3>4. x = y
      BY <2>1, <3>1, <3>2, <3>3 DEF Items
    <3> QED
      BY <3>4
  <2> QED
    BY <1>5, <2>1 DEF PageLevel
<1>9. IsFiniteSet(items)
  BY <1>2, <1>5, FS_Subset
<1>10. new \in StoreType /\ new.model = m /\ new.items = items
  BY <1>2, <1>4, <1>5, <1>6 DEF StoreType
<1> HIDE DEF new
<1>11. \A x \in items : x.m = m
  BY <1>2, <1>5
<1> QED
  BY <1>5, <1>7, <1>8, <1>9, <1>10, <1>11 DEF new, all

-----------------------------------------------------------------------------
(* The command that holds the lock. *)

storeVars == <<live, store, model, marker, pc, job, excused>>

\* StoreInv speaks of the store, the marker, the command and the pages.
LEMMA StoreStays == StoreInv /\ UNCHANGED storeVars => StoreInv'
BY DEF StoreInv, storeVars, StoreTyped, StoreSane, MergedKnown, Collected, Reconciled, Refreshed,
       Remembered, Stale, PageVector, Eligible, Exists, Ids

\* It holds of every store an earlier release may have left.
LEMMA InitStore == Init => StoreInv
<1> SUFFICES ASSUME Init PROVE StoreInv
  OBVIOUS
<1>1. live \in Book /\ model \in Models /\ Eligible(live) \in SUBSET Exists(live)
  BY EmbeddingsAssumption DEF Init, Book, Eligible
<1> DEFINE all == ItemsOf(live, Eligible(live), model)
<1>2. /\ IsFiniteSet(all) /\ all \subseteq Items /\ Dim[model] \in Nat
      /\ \A x \in all : x.m = model /\ x.id \in Pages
      /\ \A p \in Eligible(live) : \E x \in all : x.id = p /\ x.i = 0 /\ x.h = live[p].h
  <2>1. \A p \in Eligible(live) : p \in Pages /\ live[p] \in Contents
    BY <1>1 DEF Eligible, Exists, Book
  <2>2. /\ IsFiniteSet(all) /\ all \subseteq Items
        /\ \A x \in all : x.m = model /\ x.id \in Eligible(live) /\ x.h = TextHash(live[x.id], x.i)
        /\ \A p \in Eligible(live) : \E x \in all : x.id = p /\ x.i = 0
    BY <1>1, ItemsOfPages
  <2> HIDE DEF all
  <2>3. ASSUME NEW p \in Eligible(live)
        PROVE  \E x \in all : x.id = p /\ x.i = 0 /\ x.h = live[p].h
    <3>1. PICK x \in all : x.id = p /\ x.i = 0
      BY <2>2
    <3>2. x.h = TextHash(live[p], 0) /\ live[p] \in Contents
      BY <2>1, <2>2, <3>1
    <3> QED
      BY <3>1, <3>2, TextHashes
  <2> QED
    BY <1>1, <2>1, <2>2, <2>3, EmbeddingsAssumption
<1> HIDE DEF all
<1>3. NoStore \in StoreType
  BY DEF NoStore, StoreType
<1>4. NoJob \in JobType
  BY <1>3 DEF NoJob, JobType, Book
<1>5. /\ store \in StoreType /\ StoreSane
      /\ excused \subseteq Pages
      /\ excused = Pages \/ \A p \in Eligible(live) :
                               \E x \in store.items : x.id = p /\ x.i = 0 /\ x.h = live[p].h
  <2>1. CASE store = NoStore /\ excused = Pages
    BY <1>3, <2>1, FS_EmptySet DEF StoreSane, NoStore
  <2>2. CASE store \in {LegacyStore(ver, model, live) : ver \in 1..2} /\ excused = Pages
    <3>1. PICK ver \in 1..2 : store = LegacyStore(ver, model, live)
      BY <2>2
    <3> DEFINE slugged == [x \in all |-> [x EXCEPT !.id = SlugOf[x.id]]]
    <3>2. store.items = {slugged[x] : x \in all} /\ store.model = model
      BY <3>1 DEF LegacyStore, all
    <3>3. IsFiniteSet(store.items)
      <4>1. DOMAIN slugged = all
        OBVIOUS
      <4> HIDE DEF slugged
      <4> QED
        BY <1>2, <3>2, <4>1, ImageFinite
    <3>4. \A x \in all : slugged[x] \in Items /\ slugged[x].m = model
      <4> TAKE x \in all
      <4>1. SlugOf[x.id] \in Slugs /\ x \in Items /\ x.m = model
        BY <1>2 DEF Slugs
      <4>2. slugged[x] = [x EXCEPT !.id = SlugOf[x.id]]
        OBVIOUS
      <4> HIDE DEF slugged
      <4> QED
        BY <4>1, <4>2 DEF Items
    <3>5. store.items \subseteq Items /\ \A x \in store.items : x.m = model
      <4> HIDE DEF slugged
      <4> QED
        BY <3>2, <3>4
    <3>6. PICK its : /\ its = store.items
                     /\ store = [ver |-> ver, valid |-> TRUE, model |-> model, dim |-> Dim[model],
                                 items |-> its]
      BY <3>1 DEF LegacyStore
    <3>7. store \in StoreType
      <4>1. ver \in 0..3 /\ its \subseteq Items
        BY <3>5, <3>6
      <4> QED
        BY <1>1, <1>2, <3>6, <4>1 DEF StoreType
    <3> QED
      BY <2>2, <3>2, <3>3, <3>5, <3>7 DEF StoreSane
  <2>3. CASE store = FreshStore(model, live) /\ excused = {}
    <3>1. store = [ver |-> 3, valid |-> TRUE, model |-> model, dim |-> Dim[model], items |-> all]
      BY <2>3 DEF FreshStore, all
    <3>2. store \in StoreType
      BY <1>1, <1>2, <3>1 DEF StoreType
    <3> QED
      BY <1>2, <2>3, <3>1, <3>2 DEF StoreSane
  <2> QED
    BY <2>1, <2>2, <2>3 DEF Init
<1>6. marker = <<>> /\ pc = "idle" /\ job = NoJob
  BY DEF Init
<1>7. StoreTyped
  BY <1>1, <1>4, <1>5, <1>6, EmbeddingsAssumption DEF StoreTyped
<1>8. Remembered
  BY <1>5 DEF Remembered, Stale, PageVector
<1> QED
  BY <1>5, <1>6, <1>7, <1>8 DEF StoreInv, MergedKnown, Collected, Refreshed

\* The locals of no command.
LEMMA IdleJob == NoJob \in JobType
<1>1. NoStore \in StoreType
  BY DEF NoStore, StoreType
<1> QED
  BY <1>1 DEF NoJob, JobType, Book

\* The pages and the state are written first; what query saves is excused.
LEMMA WritePagesStore ==
    ASSUME StoreInv, NEW by \in {"compile", "save"}, NEW new \in Rewrites(by), WritePages(by, new)
    PROVE  StoreInv'
<1> DEFINE changed == {p \in Pages : new[p] # live[p]}
<1> USE DEF StoreInv
<1>1. new \in Book
  BY DEF StoreTyped, Rewrites, Book
<1>2. /\ live' = new /\ pc = "idle" /\ pc' = (IF by = "save" THEN "core" ELSE "flushed")
      /\ job' = [NoJob EXCEPT !.by = by, !.changed = changed]
      /\ excused' = (IF by = "save" THEN excused \cup changed ELSE excused \ changed)
      /\ UNCHANGED <<store, model, marker>>
  BY DEF WritePages, PagesBecome
<1>3. changed \in SUBSET Pages /\ \A p \in Pages \ changed : new[p] = live[p]
  OBVIOUS
<1> HIDE DEF changed
<1>4. job' \in JobType /\ job'.by = by /\ job'.changed = changed
  BY <1>2, <1>3, IdleJob DEF JobType
<1>5. StoreTyped'
  BY <1>1, <1>2, <1>3, <1>4 DEF StoreTyped
<1>6. StoreSane' /\ MergedKnown' /\ Collected' /\ Refreshed'
  BY <1>2, <1>4 DEF StoreSane, MergedKnown, Collected, Refreshed
<1>7. Remembered'
  <2> SUFFICES ASSUME NEW p \in Pages \ excused', Stale(p)', p \notin changed \/ by = "save"
               PROVE  p \in Ids(marker')
    BY <1>2, <1>4 DEF Remembered
  <2>1. p \notin changed /\ p \notin excused
    BY <1>2
  <2>2. live'[p] = live[p] /\ store' = store
    BY <1>2, <1>3, <2>1
  <2>3. Stale(p)
    BY <2>2 DEF Stale, Eligible, Exists, PageVector
  <2> QED
    BY <1>2, <2>1, <2>3 DEF Remembered
<1> QED
  BY <1>5, <1>6, <1>7

\* What a write of the marker leaves there.
LEMMA MarkerWritten ==
    ASSUME marker \in Seq(Entry), Len(marker) <= MaxPending,
           NEW entries \in Seq(Entry), NEW fails, writePendingEmbeddings(entries, fails)
    PROVE  /\ marker' \in Seq(Entry) /\ Len(marker') <= MaxPending
           /\ Ids(marker') \subseteq Ids(marker) \cup Ids(entries)
BY Normalized DEF writePendingEmbeddings

\* The marker is written before anything is embedded; it answers for the changed pages.
LEMMA RecordPendingStore ==
    ASSUME StoreInv, NEW fails, RecordPending(fails)
    PROVE  StoreInv'
<1> DEFINE merged == mergeFreshAttempts(marker, job.changed)
<1> USE DEF StoreInv
<1>1. job.changed \in SUBSET Pages /\ marker \in Seq(Entry) /\ Len(marker) <= MaxPending
  BY DEF StoreTyped, JobType
<1>2. merged \in Seq(Entry) /\ Ids(merged) = Ids(marker) \cup job.changed
  BY <1>1, MergeKeepsAll
<1>3. pc = "flushed" /\ UNCHANGED <<live, store, model>>
  BY DEF RecordPending
<1>4. \A p : Stale(p)' = Stale(p)
  BY <1>3 DEF Stale, Eligible, Exists, PageVector
<1>5. CASE merged = <<>>
  <2>1. pc' = "idle" /\ job' = NoJob /\ marker' = marker /\ excused' = excused
    BY <1>5 DEF RecordPending
  <2>2. Ids(marker) \cup job.changed = {}
    <3>1. Ids(<<>>) = {}
      BY DEF Ids
    <3> HIDE DEF merged
    <3> QED
      BY <1>2, <1>5, <3>1
  <2>3. StoreTyped'
    BY <1>3, <2>1, IdleJob DEF StoreTyped
  <2>4. Remembered'
    BY <1>3, <1>4, <2>1, <2>2 DEF Remembered
  <2> QED
    BY <1>3, <2>1, <2>3, <2>4 DEF StoreSane, MergedKnown, Collected, Refreshed
<1>6. CASE merged # <<>>
  <2>1. /\ pc' = "core" /\ job' = [job EXCEPT !.merged = merged]
        /\ writePendingEmbeddings(merged, fails)
        /\ excused' = excused \cup {p \in Ids(merged) : p \notin Ids(marker')}
    BY <1>6 DEF RecordPending, Excuse
  <2> HIDE DEF merged
  <2>2. /\ marker' \in Seq(Entry) /\ Len(marker') <= MaxPending
        /\ Ids(marker') \subseteq Ids(marker) \cup Ids(merged)
    BY <1>1, <1>2, <2>1, MarkerWritten
  <2>3. job' \in JobType /\ job'.merged = merged
    BY <1>2, <2>1 DEF StoreTyped, JobType
  <2>4. Ids(merged) \subseteq Pages
    <3>1. \A e \in Entry : e.p \in Pages
      BY DEF Entry
    <3>2. \A k \in DOMAIN merged : merged[k].p \in Pages
      BY <1>2, <3>1
    <3> QED
      BY <3>2 DEF Ids
  <2>5. StoreTyped'
    BY <1>3, <2>1, <2>2, <2>3, <2>4 DEF StoreTyped
  <2>6. MergedKnown'
    BY <1>2, <2>2, <2>3 DEF MergedKnown
  <2>7. Remembered'
    BY <1>2, <1>3, <1>4, <2>1 DEF Remembered
  <2> QED
    BY <1>3, <2>1, <2>5, <2>6, <2>7 DEF StoreSane, Collected, Refreshed
<1> QED
  BY <1>5, <1>6

\* Migration reconciles the store with the pages just collected.
LEMMA CollectStore ==
    ASSUME StoreInv, Collect
    PROVE  StoreInv'
<1> DEFINE r == migrateEmbeddingStore(store, live, model)
           re == r.reembed \cup ((Ids(job.merged) \cup job.changed) \cap Eligible(live))
           persists == shouldPersist(store, r.store, re)
<1> USE DEF StoreInv
<1>1. /\ live \in Book /\ store \in StoreType /\ model \in Models /\ job \in JobType
      /\ IsFiniteSet(store.items) /\ \A x \in store.items : x.m = store.model
  BY DEF StoreTyped, StoreSane
<1>2. /\ r.store \in StoreType /\ r.store.ver = 3 /\ r.store.model = model
      /\ r.store.items \subseteq ItemsOf(live, Eligible(live), model)
      /\ r.reembed \subseteq Eligible(live)
      /\ \A p \in Eligible(live) \ r.reembed : \E x \in r.store.items : x.id = p /\ x.i = 0
  BY <1>1, Migrated
<1>3. /\ pc = "core" /\ job' = [job EXCEPT !.collected = live, !.migrated = r.store, !.reembed = re]
      /\ pc' = (IF persists THEN "embed" ELSE "embedded")
      /\ UNCHANGED <<live, store, model, marker, excused>>
  BY DEF Collect
<1>4. re \subseteq Eligible(live) /\ re \in SUBSET Pages /\ r.reembed \subseteq re
  BY <1>2 DEF Eligible, Exists
<1>5. ~persists => store.ver \notin 1..2 /\ r.reembed = {}
  BY <1>4 DEF shouldPersist
<1>6. ASSUME ~persists, NEW p \in Eligible(live)
      PROVE  \E x \in store.items : x.id = p /\ x.i = 0 /\ x.h = live[p].h
  BY <1>1, <1>5, <1>6, NothingToEmbed
<1> HIDE DEF r, re, persists
<1>7. /\ job' \in JobType /\ job'.collected = live /\ job'.migrated = r.store /\ job'.reembed = re
      /\ job'.merged = job.merged /\ job'.changed = job.changed /\ job'.by = job.by
  BY <1>1, <1>2, <1>3, <1>4 DEF JobType
<1>8. StoreTyped'
  BY <1>3, <1>7 DEF StoreTyped
<1>9. Collected'
  BY <1>1, <1>2, <1>3, <1>4, <1>7 DEF Collected, Reconciled
<1>10. Refreshed'
  BY <1>3, <1>6, <1>7 DEF Refreshed
<1>11. StoreSane'
  BY <1>3 DEF StoreSane
<1>12. MergedKnown'
  BY <1>3, <1>7 DEF MergedKnown
<1>13. Remembered'
  <2>1. \A p : Stale(p)' = Stale(p)
    BY <1>3 DEF Stale, Eligible, Exists, PageVector
  <2> QED
    BY <1>3, <2>1 DEF Remembered
<1> QED
  BY <1>8, <1>9, <1>10, <1>11, <1>12, <1>13

\* The migrated store and what is to be embedded make the store of the collected pages.
LEMMA Replaced ==
    ASSUME StoreInv, NEW ok, Persist(ok)
    PROVE  /\ store' \in StoreType /\ store'.model = job.migrated.model /\ IsFiniteSet(store'.items)
           /\ \A x \in store'.items : x.m = store'.model
           /\ LET all == ItemsOf(job.collected, Eligible(job.collected), store'.model)
              IN  store'.items \subseteq all /\ PageLevel(store'.items) = PageLevel(all)
           /\ \A p \in Eligible(job.collected) :
                  \E x \in store'.items : x.id = p /\ x.i = 0 /\ x.h = job.collected[p].h
<1>1. job \in JobType /\ Reconciled
  BY DEF StoreInv, StoreTyped, Collected, Persist
<1>2. /\ job.migrated \in StoreType /\ job.collected \in Book
      /\ job.reembed \in SUBSET Eligible(job.collected) /\ job.migrated.model \in Models
      /\ job.migrated.items \subseteq
             ItemsOf(job.collected, Eligible(job.collected), job.migrated.model)
      /\ \A p \in Eligible(job.collected) \ job.reembed :
             \E x \in job.migrated.items : x.id = p /\ x.i = 0
  BY <1>1 DEF JobType, Reconciled
<1>3. store' = mergeReembedded(job.migrated, job.collected, job.reembed)
  BY DEF Persist
<1> DEFINE mig == job.migrated
           book == job.collected
           todo == job.reembed
<1> HIDE DEF mig, book, todo
<1>4. /\ mig \in StoreType /\ book \in Book /\ todo \in SUBSET Eligible(book) /\ mig.model \in Models
      /\ mig.items \subseteq ItemsOf(book, Eligible(book), mig.model)
      /\ \A p \in Eligible(book) \ todo : \E x \in mig.items : x.id = p /\ x.i = 0
  BY <1>2 DEF mig, book, todo
<1> DEFINE new == mergeReembedded(mig, book, todo)
<1>5. /\ new \in StoreType /\ new.model = mig.model /\ IsFiniteSet(new.items)
      /\ \A x \in new.items : x.m = new.model
      /\ new.items \subseteq ItemsOf(book, Eligible(book), mig.model)
      /\ PageLevel(new.items) = PageLevel(ItemsOf(book, Eligible(book), mig.model))
      /\ \A p \in Eligible(book) : \E x \in new.items : x.id = p /\ x.i = 0 /\ x.h = book[p].h
  BY <1>4, Rewritten
<1> QED
  BY <1>3, <1>5 DEF mig, book, todo

\* What was embedded is current, so the marker may forget it.
LEMMA PersistStore ==
    ASSUME StoreInv, NEW ok, Persist(ok)
    PROVE  StoreInv'
<1> USE DEF StoreInv
<1>1. /\ pc = "embed" /\ pc' = "embedded" /\ UNCHANGED <<live, model, marker, job, excused>>
      /\ job \in JobType /\ Reconciled
  BY DEF StoreTyped, Collected, Persist
<1>2. /\ store' \in StoreType /\ StoreSane'
      /\ \A p \in Eligible(job.collected) :
             \E x \in store'.items : x.id = p /\ x.i = 0 /\ x.h = job.collected[p].h
  BY Replaced DEF StoreSane
<1>3. StoreTyped' /\ MergedKnown' /\ Collected' /\ Refreshed'
  BY <1>1, <1>2 DEF StoreTyped, MergedKnown, Collected, Reconciled, Refreshed
<1>4. Remembered'
  <2> SUFFICES ASSUME NEW p \in Pages \ excused, p \in Eligible(live),
                      \A x \in PageVector(p)' : x.h # live[p].h
               PROVE  FALSE
    BY <1>1 DEF Remembered, Stale, Eligible, Exists
  <2>1. job.collected[p] = live[p]
    BY <1>1 DEF Reconciled
  <2>2. p \in Eligible(job.collected)
    BY <2>1 DEF Eligible, Exists
  <2> QED
    BY <1>2, <2>1, <2>2 DEF PageVector
<1> QED
  BY <1>2, <1>3, <1>4

\* A refresh that fails leaves the store as it was.
LEMMA EmbedFailsStore ==
    ASSUME StoreInv, NEW ok, EmbedFails(ok)
    PROVE  StoreInv'
<1> USE DEF StoreInv
<1>1. /\ pc = "embed" /\ pc' = "failed"
      /\ UNCHANGED <<live, store, model, marker, job, excused>>
  BY DEF EmbedFails
<1>2. \A p : Stale(p)' = Stale(p)
  BY <1>1 DEF Stale, Eligible, Exists, PageVector
<1> QED
  BY <1>1, <1>2 DEF StoreTyped, StoreSane, MergedKnown, Collected, Reconciled, Refreshed, Remembered

\* What the marker drops was embedded, or is excused.
LEMMA SettleStore ==
    ASSUME StoreInv, NEW fails, Settle(fails)
    PROVE  StoreInv'
<1> DEFINE entries == IF pc = "failed" THEN settleAfterFailure(job.merged)
                      ELSE settleAfterSuccess(job.merged, job.reembed, Eligible(job.collected))
<1> USE DEF StoreInv
<1>1. /\ pc \in {"embedded", "failed"} /\ pc' = "idle" /\ job' = NoJob
      /\ UNCHANGED <<live, store, model>>
      /\ job \in JobType /\ job.merged \in Seq(Entry) /\ Reconciled
      /\ marker \in Seq(Entry) /\ Len(marker) <= MaxPending
  BY DEF Settle, Done, StoreTyped, JobType, Collected
<1>2. entries \in Seq(Entry)
  BY <1>1, Settled
<1>3. \/ /\ job.by = "save" /\ UNCHANGED <<marker, excused>>
      \/ /\ job.by # "save" /\ writePendingEmbeddings(entries, fails)
         /\ IF pc = "failed" THEN excused' = excused \cup {p \in Ids(job.merged) : p \notin Ids(marker')}
                             ELSE excused' = excused
  BY DEF Settle, Excuse
<1> HIDE DEF entries
<1>4. marker' \in Seq(Entry) /\ Len(marker') <= MaxPending
  BY <1>1, <1>2, <1>3, MarkerWritten
<1>5. excused' \subseteq Pages /\ excused \subseteq excused'
  <2>1. \A e \in Entry : e.p \in Pages
    BY DEF Entry
  <2>2. Ids(job.merged) \subseteq Pages
    BY <1>1, <2>1 DEF Ids
  <2> QED
    BY <1>3, <2>2 DEF StoreTyped
<1>6. StoreTyped'
  BY <1>1, <1>4, <1>5, IdleJob DEF StoreTyped
<1>7. StoreSane' /\ MergedKnown' /\ Collected' /\ Refreshed'
  BY <1>1 DEF StoreSane, MergedKnown, Collected, Refreshed
<1>8. Remembered'
  <2> SUFFICES ASSUME NEW p \in Pages \ excused', Stale(p) PROVE p \in Ids(marker')
    BY <1>1 DEF Remembered, Stale, Eligible, Exists, PageVector
  <2>1. p \notin excused /\ p \in Ids(marker)
    BY <1>1, <1>5 DEF Remembered
  <2>2. CASE pc = "embedded"
    <3>1. job.collected[p] = live[p]
      BY <1>1, <2>1 DEF Reconciled
    <3>2. p \in Eligible(job.collected)
      BY <3>1 DEF Stale, Eligible, Exists
    <3> QED
      BY <2>2, <3>1, <3>2 DEF Refreshed, Stale, PageVector
  <2>3. CASE pc = "failed"
    BY <1>3, <2>1, <2>3 DEF MergedKnown
  <2> QED
    BY <1>1, <2>2, <2>3
<1> QED
  BY <1>6, <1>7, <1>8

\* A crash before the marker is written excuses the pages it forgets.
LEMMA CrashStore ==
    ASSUME StoreInv, Crash
    PROVE  StoreInv'
<1> USE DEF StoreInv
<1>1. /\ pc' = "idle" /\ job' = NoJob /\ UNCHANGED <<live, store, model, marker>>
      /\ excused' = (IF pc = "flushed" THEN excused \cup job.changed ELSE excused)
      /\ job.changed \subseteq Pages
  BY DEF Crash, Done, StoreTyped, JobType
<1>2. \A p : Stale(p)' = Stale(p)
  BY <1>1 DEF Stale, Eligible, Exists, PageVector
<1>3. StoreTyped'
  BY <1>1, IdleJob DEF StoreTyped
<1>4. Remembered'
  BY <1>1, <1>2 DEF Remembered
<1> QED
  BY <1>1, <1>3, <1>4 DEF StoreSane, MergedKnown, Collected, Refreshed

\* A page edited by hand is excused, so nothing is asked of it.
LEMMA HandEditStore ==
    ASSUME StoreInv, NEW q \in Pages, NEW c \in Contents \cup {Gone}, HandEdit(q, c)
    PROVE  StoreInv'
<1> USE DEF StoreInv
<1>1. /\ live' = [live EXCEPT ![q] = c] /\ excused' = excused \cup {q}
      /\ UNCHANGED <<store, model, marker, pc, job>>
  BY DEF HandEdit, PagesBecome
<1>2. live' \in Book /\ \A p \in Pages \ {q} : live'[p] = live[p]
  BY <1>1 DEF StoreTyped, Book
<1>3. StoreTyped'
  BY <1>1, <1>2 DEF StoreTyped
<1>4. Collected'
  BY <1>1, <1>2 DEF Collected, Reconciled
<1>5. Remembered'
  <2> SUFFICES ASSUME NEW p \in Pages \ (excused \cup {q}), Stale(p)'
               PROVE  Stale(p)
    BY <1>1 DEF Remembered
  <2>1. live'[p] = live[p] /\ store' = store
    BY <1>1, <1>2
  <2> QED
    BY <2>1 DEF Stale, Eligible, Exists, PageVector
<1> QED
  BY <1>1, <1>3, <1>4, <1>5 DEF StoreSane, MergedKnown, Refreshed

\* Damage makes a store invalid; a new model only makes the next refresh rebuild it.
LEMMA OutsideStore ==
    ASSUME StoreInv, Damage \/ \E m \in Models : SwitchModel(m)
    PROVE  StoreInv'
<1> USE DEF StoreInv
<1>1. CASE Damage
  <2>1. /\ store' = [store EXCEPT !.valid = FALSE] /\ pc = "idle"
        /\ UNCHANGED <<live, model, marker, pc, job, excused>>
    BY <1>1 DEF Damage
  <2>2. store' \in StoreType /\ store'.items = store.items /\ store'.model = store.model
    BY <2>1 DEF StoreTyped, StoreType
  <2>3. \A p : Stale(p)' = Stale(p)
    BY <2>1, <2>2 DEF Stale, Eligible, Exists, PageVector
  <2>4. StoreTyped'
    BY <2>1, <2>2 DEF StoreTyped
  <2> QED
    BY <2>1, <2>2, <2>3, <2>4 DEF StoreSane, MergedKnown, Collected, Refreshed, Remembered
<1>2. CASE \E m \in Models : SwitchModel(m)
  <2>1. model' \in Models /\ pc = "idle" /\ UNCHANGED <<live, store, marker, pc, job, excused>>
    BY <1>2 DEF SwitchModel
  <2>2. \A p : Stale(p)' = Stale(p)
    BY <2>1 DEF Stale, Eligible, Exists, PageVector
  <2> QED
    BY <2>1, <2>2 DEF StoreTyped, StoreSane, MergedKnown, Collected, Refreshed, Remembered
<1> QED
  BY <1>1, <1>2

\* Every step keeps StoreInv.
LEMMA StoreStep ==
    ASSUME StoreInv, [Next]_vars
    PROVE  StoreInv'
<1>1. CASE UNCHANGED storeVars
  BY <1>1, StoreStays
<1>2. CASE Searching \/ UNCHANGED vars
  <2>1. UNCHANGED storeVars
    BY <1>2 DEF Searching, storeVars, vars, LoadStore, Rank, walkRankedFresh, SearchEnds,
                selectFallbackRefs, SearchReturns
  <2> QED
    BY <1>1, <2>1
<1>3. CASE Command
  BY <1>3, WritePagesStore, RecordPendingStore, CollectStore, PersistStore, EmbedFailsStore, SettleStore
     DEF Command
<1>4. CASE Outside
  BY <1>4, HandEditStore, OutsideStore, CrashStore DEF Outside
<1> QED
  BY <1>2, <1>3, <1>4 DEF Next

-----------------------------------------------------------------------------
(* The search, which takes no lock. *)

searchVars == <<live, search, seen>>

\* SearchInv speaks of the search, its ghosts and the pages.
LEMMA SearchStays == SearchInv /\ UNCHANGED searchVars => SearchInv'
BY DEF SearchInv, searchVars, SearchSane, Candidates, HitPages, Walked, HitsHonest, NoGoneHit,
       HitsAreCurrent, NoCrowding, Eligible, Exists

\* The locals of no search.
LEMMA IdleSearch == NoSearch \in SearchType /\ IsFiniteSet(NoSearch.items)
BY FS_EmptySet DEF NoSearch, SearchType

\* No search is under way at the start.
LEMMA InitSearch == Init => SearchInv
BY IdleSearch, EmbeddingsAssumption
   DEF Init, SearchInv, SearchSane, Candidates, HitPages, Walked, HitsHonest, NoGoneHit,
       HitsAreCurrent, NoCrowding, NoSearch

\* When the pages change, the ghosts of the search follow them.
LEMMA PagesBecomeSearch ==
    ASSUME SearchInv, NEW new, PagesBecome(new)
    PROVE  SearchInv'
<1> USE DEF SearchInv
<1>1. /\ live' = new /\ seen' = [p \in Pages |-> seen[p] \cup Texts(new, p)]
      /\ search' = [search EXCEPT !.gone = @ \ Eligible(new)]
      /\ search \in SearchType /\ IsFiniteSet(search.items)
  BY DEF PagesBecome, SearchSane
<1>2. /\ search' \in SearchType /\ search'.gone = search.gone \ Eligible(new)
      /\ search'.pc = search.pc /\ search'.items = search.items /\ search'.ranked = search.ranked
      /\ search'.hits = search.hits /\ search'.kind = search.kind
  BY <1>1 DEF SearchType
<1>3. \A p \in Pages : seen[p] \subseteq seen'[p] /\ Texts(new, p) \subseteq seen'[p]
  BY <1>1
<1>4. SearchSane'
  <2>1. search'.gone \cap Eligible(live') = {}
    BY <1>1, <1>2
  <2>2. \A p \in Exists(live') : live'[p] \in seen'[p]
    BY <1>1, <1>3 DEF Exists, Texts
  <2> QED
    BY <1>1, <1>2, <2>1, <2>2 DEF SearchSane, Eligible, Exists
<1>5. Candidates' /\ HitPages' /\ Walked'
  BY <1>2 DEF Candidates, HitPages, Walked
<1>6. HitsHonest'
  <2>1. NoGoneHit' /\ NoCrowding'
    BY <1>2 DEF HitsHonest, NoGoneHit, NoCrowding
  <2>2. HitsAreCurrent'
    <3> SUFFICES ASSUME NEW k \in DOMAIN search.hits
                 PROVE  \E c \in seen'[search.hits[k].id] :
                            TextHash(c, search.hits[k].i) = search.hits[k].h
      BY <1>2 DEF HitsAreCurrent
    <3> QED
      BY <1>3 DEF HitsHonest, HitsAreCurrent, HitPages
  <2> QED
    BY <2>1, <2>2 DEF HitsHonest
<1> QED
  BY <1>4, <1>5, <1>6

\* A search starts from the store as it is, with ghosts of its own.
LEMMA LoadStoreSearch ==
    ASSUME StoreInv, SearchInv, LoadStore
    PROVE  SearchInv'
<1> USE DEF SearchInv
<1>1. /\ live' = live /\ seen' = [p \in Pages |-> Texts(live, p)]
      /\ search' = [NoSearch EXCEPT !.pc = IF gateActiveStore THEN "filter" ELSE "fallback",
                                    !.kind = 1, !.items = IF gateActiveStore THEN store.items ELSE {},
                                    !.gone = Pages \ Eligible(live)]
  BY DEF LoadStore
<1>2. IsFiniteSet(store.items) /\ store.items \subseteq Items /\ IsFiniteSet({})
  BY FS_EmptySet DEF StoreInv, StoreTyped, StoreSane, StoreType
<1>3. /\ search' \in SearchType /\ IsFiniteSet(search'.items) /\ search'.pc \in {"filter", "fallback"}
      /\ search'.gone = Pages \ Eligible(live) /\ search'.hits = <<>> /\ search'.ranked = <<>>
  <2> DEFINE first == IF gateActiveStore THEN "filter" ELSE "fallback"
             items == IF gateActiveStore THEN store.items ELSE {}
  <2>1. IsFiniteSet(items) /\ items \subseteq Items /\ first \in {"filter", "fallback"}
    BY <1>2
  <2> HIDE DEF first, items
  <2>2. search' = [NoSearch EXCEPT !.pc = first, !.kind = 1, !.items = items,
                                   !.gone = Pages \ Eligible(live)]
    BY <1>1 DEF first, items
  <2>3. <<>> \in Seq(Items) /\ {} \in SUBSET (Pages \cup Slugs) /\ 1 \in 0..1
        /\ Pages \ Eligible(live) \in SUBSET Pages /\ items \in SUBSET Items
    BY <2>1
  <2>4. search' = [pc |-> first, kind |-> 1, items |-> items, ranked |-> <<>>, hits |-> <<>>,
                   stale |-> {}, gone |-> Pages \ Eligible(live)]
    BY <2>2 DEF NoSearch
  <2> QED
    BY <2>1, <2>3, <2>4 DEF SearchType
<1>4. SearchSane'
  <2>1. \A p \in Exists(live) : live[p] \in seen'[p]
    BY <1>1 DEF Exists, Texts
  <2> QED
    BY <1>1, <1>3, <2>1 DEF SearchSane, Eligible, Exists
<1>5. Candidates' /\ HitPages' /\ Walked' /\ HitsHonest'
  BY <1>3, EmbeddingsAssumption
     DEF Candidates, HitPages, Walked, HitsHonest, NoGoneHit, HitsAreCurrent, NoCrowding
<1> QED
  BY <1>4, <1>5

\* The candidates are vectors of pages that are eligible at that moment.
LEMMA RankSearch ==
    ASSUME SearchInv, Rank
    PROVE  SearchInv'
<1> DEFINE S == {x \in OfKind(search.items, search.kind) : passesPrefilter(x)}
<1> USE DEF SearchInv
<1>1. PICK r \in Rankings(S) : search' = [search EXCEPT !.pc = "walk", !.ranked = r]
  BY DEF Rank
<1>2. S \subseteq search.items /\ \A x \in S : x.id \in Eligible(live)
  BY DEF OfKind, passesPrefilter
<1>3. search \in SearchType /\ IsFiniteSet(search.items) /\ search.pc = "filter"
  BY DEF SearchSane, Rank
<1>4. IsFiniteSet(S) /\ S \subseteq Items
  BY <1>2, <1>3, FS_Subset DEF SearchType
<1> HIDE DEF S
<1>5. Cardinality(S) \in Nat
  BY <1>4, FS_CardinalityType
<1>6. r \in [1..Cardinality(S) -> S]
  BY <1>1 DEF Rankings, SetToSeqs
<1>7. r \in Seq(Items) /\ \A k \in DOMAIN r : r[k] \in S
  BY <1>4, <1>5, <1>6
<1>8. /\ search' \in SearchType /\ search'.pc = "walk" /\ search'.ranked = r
      /\ search'.hits = search.hits /\ search'.gone = search.gone /\ search'.items = search.items
  BY <1>1, <1>3, <1>7 DEF SearchType
<1>9. UNCHANGED <<live, seen>>
  BY DEF Rank
<1>10. SearchSane'
  BY <1>3, <1>8, <1>9 DEF SearchSane, Eligible, Exists
<1>11. Candidates'
  <2>1. \A k \in DOMAIN r : r[k].id \in Eligible(live) /\ r[k].id \notin search.gone
    BY <1>2, <1>7 DEF SearchSane
  <2> QED
    BY <1>8, <2>1 DEF Candidates, Eligible, Exists
<1>12. search.hits = <<>>
  BY <1>3 DEF Walked
<1>13. HitPages' /\ Walked' /\ HitsHonest'
  BY <1>8, <1>12, EmbeddingsAssumption
     DEF HitPages, Walked, HitsHonest, NoGoneHit, HitsAreCurrent, NoCrowding
<1> QED
  BY <1>10, <1>11, <1>13

\* A turn of the walk compares the candidate with the page as it is now.
LEMMA WalkSearch ==
    ASSUME SearchInv, walkRankedFresh
    PROVE  SearchInv'
<1> DEFINE x == Head(search.ranked)
           hits == IF IsFresh(x) THEN Append(search.hits, x) ELSE search.hits
           stale == IF IsFresh(x) THEN search.stale ELSE search.stale \cup {x.id}
<1> USE DEF SearchInv
<1>1. /\ search \in SearchType /\ search.pc = "walk" /\ UNCHANGED <<live, seen>>
      /\ Len(search.hits) < TopK /\ search.ranked # <<>>
      /\ search' = [search EXCEPT !.ranked = Tail(@),
                      !.hits = IF IsFresh(x) THEN Append(@, x) ELSE @,
                      !.stale = IF IsFresh(x) THEN @ ELSE @ \cup {x.id}]
  BY DEF SearchSane, walkRankedFresh, Walking
<1>2. /\ search.ranked \in Seq(Items) /\ search.hits \in Seq(Items)
      /\ search.stale \subseteq Pages \cup Slugs
  BY <1>1 DEF SearchType
<1>3. /\ x \in Items /\ x.id \in Pages \ search.gone
      /\ Tail(search.ranked) \in Seq(Items)
      /\ \A k \in DOMAIN Tail(search.ranked) : Tail(search.ranked)[k].id \in Pages \ search.gone
  <2>1. 1 \in DOMAIN search.ranked /\ x = search.ranked[1]
    BY <1>1, <1>2
  <2>2. Tail(search.ranked) \in Seq(Items)
    BY <1>1, <1>2, HeadTailProperties
  <2>3. \A k \in DOMAIN Tail(search.ranked) :
            k + 1 \in DOMAIN search.ranked /\ Tail(search.ranked)[k] = search.ranked[k + 1]
    BY <1>1, <1>2, HeadTailProperties
  <2> QED
    BY <1>2, <2>1, <2>2, <2>3 DEF Candidates
<1> HIDE DEF x
<1>4. /\ hits \in Seq(Items) /\ Len(hits) <= TopK
      /\ \A k \in DOMAIN hits : \/ hits[k] = x /\ IsFresh(x)
                                \/ k \in DOMAIN search.hits /\ hits[k] = search.hits[k]
  <2>1. CASE IsFresh(x)
    <3>1. /\ Append(search.hits, x) \in Seq(Items) /\ Len(Append(search.hits, x)) = Len(search.hits) + 1
          /\ \A k \in 1..Len(search.hits) : Append(search.hits, x)[k] = search.hits[k]
          /\ Append(search.hits, x)[Len(search.hits) + 1] = x
      BY <1>2, <1>3, AppendProperties
    <3>2. Len(search.hits) \in Nat /\ TopK \in Nat
      BY <1>2, EmbeddingsAssumption
    <3>3. \A k \in 1..Len(search.hits) + 1 :
              k = Len(search.hits) + 1 \/ k \in 1..Len(search.hits)
      BY <3>2
    <3>4. Len(search.hits) + 1 <= TopK
      BY <1>1, <3>2
    <3>5. hits = Append(search.hits, x)
      BY <2>1
    <3> HIDE DEF hits
    <3>6. DOMAIN hits = 1..Len(search.hits) + 1 /\ DOMAIN search.hits = 1..Len(search.hits)
      BY <1>2, <3>1, <3>5
    <3>7. hits \in Seq(Items) /\ Len(hits) <= TopK
      BY <3>1, <3>4, <3>5
    <3>8. /\ hits[Len(search.hits) + 1] = x
          /\ \A k \in 1..Len(search.hits) : hits[k] = search.hits[k]
      BY <3>1, <3>5
    <3>9. \A k \in DOMAIN hits : hits[k] = x \/ (k \in DOMAIN search.hits /\ hits[k] = search.hits[k])
      <4> SUFFICES ASSUME NEW k \in DOMAIN hits
                   PROVE  hits[k] = x \/ (k \in DOMAIN search.hits /\ hits[k] = search.hits[k])
        OBVIOUS
      <4>1. k = Len(search.hits) + 1 \/ k \in 1..Len(search.hits)
        BY <3>3, <3>6
      <4>2. CASE k = Len(search.hits) + 1
        BY <3>8, <4>2
      <4>3. CASE k \in 1..Len(search.hits)
        BY <3>6, <3>8, <4>3
      <4> QED
        BY <4>1, <4>2, <4>3
    <3> QED
      BY <2>1, <3>7, <3>9
  <2>2. CASE ~IsFresh(x)
    BY <1>1, <1>2, <2>2, EmbeddingsAssumption
  <2> QED
    BY <2>1, <2>2
<1>5. stale \subseteq Pages \cup Slugs
  BY <1>2, <1>3
<1> HIDE DEF hits, stale
<1>6. search' = [search EXCEPT !.ranked = Tail(@), !.hits = hits, !.stale = stale]
  BY <1>1 DEF hits, stale
<1>7. /\ search' \in SearchType /\ search'.pc = "walk" /\ search'.ranked = Tail(search.ranked)
      /\ search'.hits = hits /\ search'.gone = search.gone /\ search'.items = search.items
  BY <1>1, <1>3, <1>4, <1>5, <1>6 DEF SearchType
<1>8. SearchSane'
  BY <1>1, <1>7 DEF SearchSane, Eligible, Exists
<1>9. Candidates' /\ Walked' /\ NoCrowding'
  BY <1>3, <1>4, <1>7 DEF Candidates, Walked, NoCrowding
<1>10. HitPages' /\ NoGoneHit'
  BY <1>3, <1>4, <1>7 DEF HitPages, HitsHonest, NoGoneHit
<1>11. HitsAreCurrent'
  <2>1. IsFresh(x) => \E c \in seen[x.id] : TextHash(c, x.i) = x.h
    BY <1>1 DEF IsFresh, SearchSane
  <2>2. \A k \in DOMAIN hits : \E c \in seen[hits[k].id] : TextHash(c, hits[k].i) = hits[k].h
    BY <1>4, <2>1 DEF HitsHonest, HitsAreCurrent
  <2> QED
    BY <1>1, <1>7, <2>2 DEF HitsAreCurrent
<1> QED
  BY <1>8, <1>9, <1>10, <1>11 DEF HitsHonest

\* The walk ends with all the hits asked for, or with no candidate left.
LEMMA SearchEndsSearch ==
    ASSUME SearchInv, SearchEnds
    PROVE  SearchInv'
<1> USE DEF SearchInv
<1>1. /\ search \in SearchType /\ search.pc = "walk" /\ UNCHANGED <<live, seen>>
      /\ ~(Len(search.hits) < TopK) \/ search.ranked = <<>>
      /\ Len(search.hits) \in Nat /\ Len(search.hits) <= TopK /\ TopK \in Nat \ {0}
  BY EmbeddingsAssumption DEF SearchSane, SearchEnds, Walking, Walked, SearchType
<1>2. CASE search.hits # <<>>
  <2>1. search' = [search EXCEPT !.pc = "done"]
    BY <1>2 DEF SearchEnds
  <2>2. /\ search' \in SearchType /\ search'.pc = "done" /\ search'.ranked = search.ranked
        /\ search'.hits = search.hits /\ search'.gone = search.gone /\ search'.items = search.items
    BY <1>1, <2>1 DEF SearchType
  <2>3. Len(search.hits) = TopK \/ search.ranked = <<>>
    BY <1>1
  <2> QED
    BY <1>1, <2>2, <2>3 DEF SearchSane, Candidates, HitPages, Walked, HitsHonest, NoGoneHit,
       HitsAreCurrent, NoCrowding, Eligible, Exists
<1>3. CASE search.hits = <<>> /\ search.kind = 1
  <2>1. search' = [search EXCEPT !.pc = "filter", !.kind = 0, !.ranked = <<>>, !.stale = {}]
    BY <1>3 DEF SearchEnds
  <2>2. /\ search' \in SearchType /\ search'.pc = "filter" /\ search'.ranked = <<>>
        /\ search'.hits = <<>> /\ search'.gone = search.gone /\ search'.items = search.items
    <3>1. <<>> \in Seq(Items) /\ {} \in SUBSET (Pages \cup Slugs) /\ 0 \in 0..1
      OBVIOUS
    <3> QED
      BY <1>1, <1>3, <2>1, <3>1 DEF SearchType
  <2> QED
    BY <1>1, <2>2 DEF SearchSane, Candidates, HitPages, Walked, HitsHonest, NoGoneHit,
       HitsAreCurrent, NoCrowding, Eligible, Exists
<1>4. CASE search.hits = <<>> /\ search.kind # 1
  <2>1. search' = [search EXCEPT !.pc = "fallback"] /\ search.ranked = <<>>
    BY <1>1, <1>4 DEF SearchEnds
  <2>2. /\ search' \in SearchType /\ search'.pc = "fallback" /\ search'.ranked = <<>>
        /\ search'.hits = <<>> /\ search'.gone = search.gone /\ search'.items = search.items
    BY <1>1, <1>4, <2>1 DEF SearchType
  <2> QED
    BY <1>1, <2>2 DEF SearchSane, Candidates, HitPages, Walked, HitsHonest, NoGoneHit,
       HitsAreCurrent, NoCrowding, Eligible, Exists
<1> QED
  BY <1>2, <1>3, <1>4

\* The fallback names eligible live pages, as they are now.
LEMMA FallbackSearch ==
    ASSUME StoreInv, SearchInv, selectFallbackRefs
    PROVE  SearchInv'
<1> USE DEF SearchInv
<1> DEFINE S(named) == {[id |-> p, i |-> 0, h |-> live[p].h, m |-> model] :
                           p \in named \cap Eligible(live)}
<1>1. PICK named \in SUBSET Pages :
        search' = [search EXCEPT !.pc = "done", !.hits = SetToSeq(S(named))]
  BY DEF selectFallbackRefs
<1>2. /\ search \in SearchType /\ search.pc = "fallback" /\ UNCHANGED <<live, seen>>
      /\ live \in Book /\ model \in Models /\ search.ranked = <<>>
  BY DEF selectFallbackRefs, SearchSane, StoreInv, StoreTyped, Walked
<1> DEFINE D == named \cap Eligible(live)
           hit == [p \in D |-> [id |-> p, i |-> 0, h |-> live[p].h, m |-> model]]
<1>3. IsFiniteSet(S(named))
  <2>1. IsFiniteSet(D) /\ DOMAIN hit = D
    BY EmbeddingsAssumption, FS_Subset
  <2>2. S(named) = {hit[p] : p \in D}
    OBVIOUS
  <2> HIDE DEF hit, D, S
  <2> QED
    BY <2>1, <2>2, ImageFinite
<1>4. ASSUME NEW x \in S(named)
      PROVE  /\ x \in Items /\ x.id \in Pages \ search.gone
             /\ \E c \in seen[x.id] : TextHash(c, x.i) = x.h
  <2>1. PICK p \in D : x = [id |-> p, i |-> 0, h |-> live[p].h, m |-> model]
    OBVIOUS
  <2>2. p \in Pages /\ p \in Eligible(live) /\ p \in Exists(live) /\ live[p] \in Contents
    BY <1>2 DEF Eligible, Exists, Book
  <2>3. live[p] \in seen[p] /\ p \notin search.gone
    BY <1>2, <2>2 DEF SearchSane
  <2>4. TextHash(live[p], 0) = live[p].h /\ live[p].h \in Nat \ {0}
    BY <2>2, TextHashes
  <2>5. x \in Items
    BY <1>2, <2>1, <2>2, <2>4 DEF Items
  <2>6. x.id = p /\ x.i = 0 /\ x.h = live[p].h
    BY <2>1
  <2> QED
    BY <2>2, <2>3, <2>4, <2>5, <2>6
<1> DEFINE T == S(named)
<1> HIDE DEF S
<1>5. SetToSeq(T) \in Seq(T)
  BY <1>3, Listed
<1>6. SetToSeq(T) \in Seq(Items) /\ \A k \in DOMAIN SetToSeq(T) : SetToSeq(T)[k] \in T
  BY <1>4, <1>5
<1> DEFINE l == SetToSeq(T)
<1> HIDE DEF l, T
<1>7. l \in Seq(Items) /\ \A k \in DOMAIN l : l[k] \in T
  BY <1>6 DEF l
<1>8. search' = [search EXCEPT !.pc = "done", !.hits = l]
  BY <1>1 DEF l, T
<1>9. /\ search' \in SearchType /\ search'.pc = "done" /\ search'.ranked = <<>>
      /\ search'.hits = l /\ search'.gone = search.gone /\ search'.items = search.items
  BY <1>2, <1>7, <1>8 DEF SearchType
<1>10. SearchSane' /\ Candidates' /\ Walked' /\ NoCrowding'
  BY <1>2, <1>9 DEF SearchSane, Candidates, Walked, NoCrowding, Eligible, Exists
<1>11. \A k \in DOMAIN l : /\ l[k].id \in Pages \ search.gone
                           /\ \E c \in seen[l[k].id] : TextHash(c, l[k].i) = l[k].h
  BY <1>4, <1>7 DEF T
<1>12. HitPages' /\ NoGoneHit' /\ HitsAreCurrent'
  BY <1>2, <1>9, <1>11 DEF HitPages, NoGoneHit, HitsAreCurrent
<1> QED
  BY <1>10, <1>12 DEF HitsHonest

\* A search that returned leaves nothing behind.
LEMMA SearchReturnsSearch ==
    ASSUME SearchInv, SearchReturns
    PROVE  SearchInv'
<1>1. search' = NoSearch
  BY DEF SearchReturns
<1>2. /\ search'.pc = "idle" /\ search'.gone = {} /\ search'.hits = <<>> /\ search'.ranked = <<>>
      /\ Len(search'.hits) <= TopK
  BY <1>1, EmbeddingsAssumption DEF NoSearch
<1> QED
  BY <1>1, <1>2, IdleSearch
     DEF SearchInv, SearchSane, Candidates, HitPages, Walked, HitsHonest, NoGoneHit,
         HitsAreCurrent, NoCrowding

\* Every step keeps SearchInv.
LEMMA SearchStep ==
    ASSUME StoreInv, SearchInv, [Next]_vars
    PROVE  SearchInv'
<1>1. CASE UNCHANGED searchVars
  BY <1>1, SearchStays
<1>2. CASE \E new : PagesBecome(new)
  BY <1>2, PagesBecomeSearch
<1>3. CASE Searching
  BY <1>3, LoadStoreSearch, RankSearch, WalkSearch, SearchEndsSearch, FallbackSearch, SearchReturnsSearch
     DEF Searching
<1>4. CASE Command
  <2>1. ASSUME NEW by, NEW new, WritePages(by, new) PROVE PagesBecome(new)
    BY <2>1 DEF WritePages
  <2>2. ASSUME NEW b, RecordPending(b) \/ Settle(b) \/ Persist(b) \/ EmbedFails(b) \/ Collect
        PROVE  UNCHANGED searchVars
    BY <2>2 DEF RecordPending, Settle, Persist, EmbedFails, Collect, searchVars
  <2> QED
    BY <1>1, <1>2, <1>4, <2>1, <2>2 DEF Command
<1>5. CASE Outside
  <2>1. ASSUME NEW p, NEW c, HandEdit(p, c) PROVE \E new : PagesBecome(new)
    BY <2>1 DEF HandEdit
  <2>2. ASSUME NEW m, SwitchModel(m) \/ Damage \/ Crash PROVE UNCHANGED searchVars
    BY <2>2 DEF SwitchModel, Damage, Crash, searchVars
  <2> QED
    BY <1>1, <1>2, <1>5, <2>1, <2>2 DEF Outside
<1>6. CASE UNCHANGED vars
  BY <1>1, <1>6 DEF vars, searchVars
<1> QED
  BY <1>3, <1>4, <1>5, <1>6 DEF Next

-----------------------------------------------------------------------------
(* What holds of every behaviour. *)

\* Both invariants hold of every behaviour.
LEMMA EmbInvariant == Spec => []EmbInv
<1>1. Init => EmbInv
  BY InitStore, InitSearch DEF EmbInv
<1>2. EmbInv /\ [Next]_vars => EmbInv'
  BY StoreStep, SearchStep DEF EmbInv
<1> QED
  BY <1>1, <1>2, PTL DEF Spec

\* The embedding store and its retry marker are sound at rest: no vector of another
\* model, and every page a compile, approval or import changed is either embedded as it
\* is now or in the marker (embeddings-refresh.ts, pending-embeddings.ts).
THEOREM StoreStaysSound == Spec => []StoreSound
<1>1. EmbInv => StoreSound
  <2> SUFFICES ASSUME EmbInv PROVE StoreSound
    OBVIOUS
  <2>1. StoreTyped /\ StoreSane /\ Remembered /\ search \in SearchType
    BY DEF EmbInv, StoreInv, SearchInv, SearchSane
  <2>2. TypeOK
    BY <2>1 DEF TypeOK, StoreTyped, SearchType, Book
  <2>3. StaleIsPending
    BY <2>1 DEF Remembered, StaleIsPending
  <2> QED
    BY <2>1, <2>2, <2>3 DEF StoreSound, OneModel, StoreSane
<1> QED
  BY <1>1, EmbInvariant, PTL

\* A search that takes no lock returns no page that was gone all along, no text older
\* than itself, and no fewer hits than there are fresh candidates (embeddings-load.ts).
THEOREM SearchIsHonest == Spec => []HitsHonest
<1>1. EmbInv => HitsHonest
  BY DEF EmbInv, SearchInv
<1> QED
  BY <1>1, EmbInvariant, PTL

\* Whatever the refresh writes is exactly the pages it collected, as they were then
\* (embeddings-migrate.ts, embeddings-refresh.ts).
THEOREM RefreshReconciles == Spec => PersistReconciles
<1> DEFINE A == store' # store /\ store'.valid =>
                    LET new == ItemsOf(job.collected, Eligible(job.collected), store'.model)
                    IN /\ PageLevel(store'.items) = PageLevel(new)
                       /\ store'.items \subseteq new
<1>1. EmbInv /\ [Next]_vars => [A]_vars
  <2> DEFINE new == ItemsOf(job.collected, Eligible(job.collected), store'.model)
  <2> SUFFICES ASSUME EmbInv, Next, store' # store, store'.valid
               PROVE  PageLevel(store'.items) = PageLevel(new) /\ store'.items \subseteq new
    OBVIOUS
  <2>1. ASSUME NEW ok, Persist(ok)
        PROVE  PageLevel(store'.items) = PageLevel(new) /\ store'.items \subseteq new
    BY <2>1, Replaced DEF EmbInv
  <2>2. ASSUME Damage PROVE ~store'.valid
    <3>1. store' = [store EXCEPT !.valid = FALSE] /\ store \in StoreType
      BY <2>2 DEF Damage, EmbInv, StoreInv, StoreTyped
    <3> QED
      BY <3>1 DEF StoreType
  <2>3. \/ \E ok : Persist(ok)
        \/ Damage
        \/ UNCHANGED store
    BY DEF Next, Command, Searching, Outside, WritePages, RecordPending, Settle, Collect, EmbedFails,
           LoadStore, Rank, walkRankedFresh, SearchEnds, selectFallbackRefs, SearchReturns, HandEdit,
           SwitchModel, Crash
  <2> QED
    BY <2>1, <2>2, <2>3
<1>2. Spec => [][A]_vars
  BY <1>1, EmbInvariant, PTL DEF Spec
<1> QED
  BY <1>2 DEF PersistReconciles

=============================================================================
