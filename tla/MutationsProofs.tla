-------------------------- MODULE MutationsProofs --------------------------
(***************************************************************************)
(* What the audited writers and the path of a page write do.  First the    *)
(* modules Mutations and EventStore, for any event kinds, relations,       *)
(* states and digests, any store caps, any number of crashes, and any      *)
(* rewriting of the log; then PageWrites; then Journal, for any pages,     *)
(* contents, approved plans, direct writes and batch ids.                  *)
(***************************************************************************)
EXTENDS Mutations, PageWrites, Journal, FiniteSetTheorems, SequenceTheorems, TLAPS

-----------------------------------------------------------------------------
(* Least and greatest elements, and sequences. *)

\* A set of naturals that is not empty has a least element: the intervals 1..n are
\* well ordered by inclusion.
LEMMA LeastNatural ==
    ASSUME NEW S \in SUBSET Nat, S # {}
    PROVE  \E n \in S : \A m \in S : n <= m
<1> DEFINE T == {1..n : n \in S}
           R == StrictSubsetOrdering(Nat)
           F == FiniteSubsetsOf(Nat)
<1>1. IsWellFoundedOn(R, F)
  BY FS_StrictSubsetOrderingWellFounded
<1>2. T \subseteq F /\ T # {}
  <2>1. \A n \in S : 1..n \in SUBSET Nat /\ IsFiniteSet(1..n)
    BY FS_Interval
  <2> QED
    BY <2>1 DEF FiniteSubsetsOf
<1> HIDE DEF T, R, F
<1>3. PICK x \in T : \A y \in T : <<y, x>> \notin R
  BY <1>1, <1>2, WFMin
<1>4. PICK n \in S : x = 1..n
  BY <1>3 DEF T
<1>5. ASSUME NEW m \in S, m < n PROVE FALSE
  <2>1. 1..m \subseteq 1..n /\ n \in 1..n /\ n \notin 1..m
    BY <1>5
  <2>2. 1..m \in SUBSET Nat /\ 1..n \in SUBSET Nat
    OBVIOUS
  <2>3. <<1..m, 1..n>> \in R
    BY <2>1, <2>2 DEF R, StrictSubsetOrdering
  <2> QED
    BY <1>3, <1>4, <2>3 DEF T
<1> QED
  BY <1>5

\* A set of indices that is not empty has a greatest element.
LEMMA GreatestIndex ==
    ASSUME NEW n \in Nat, NEW E \in SUBSET (1..n), E # {}
    PROVE  \E i \in E : \A j \in E : j <= i
<1> DEFINE D == {n - i : i \in E}
<1>1. \A i \in E : i \in Nat /\ n - i \in Nat
  OBVIOUS
<1>2. D \in SUBSET Nat /\ D # {}
  BY <1>1
<1> HIDE DEF D
<1>3. PICK d \in D : \A e \in D : d <= e
  BY <1>2, LeastNatural
<1>4. PICK i \in E : d = n - i
  BY <1>3 DEF D
<1>5. ASSUME NEW j \in E PROVE j <= i
  <2>1. n - i <= n - j
    BY <1>3, <1>4 DEF D
  <2> QED
    BY <1>1, <2>1
<1> QED
  BY <1>5

\* Dropping the last element.
LEMMA ButLastProperties ==
    ASSUME NEW S, NEW l \in Seq(S), l # <<>>
    PROVE  /\ ButLast(l) \in Seq(S)
           /\ Len(l) \in Nat \ {0}
           /\ Len(ButLast(l)) = Len(l) - 1
           /\ \A i \in 1..(Len(l) - 1) : ButLast(l)[i] = l[i]
           /\ l = Append(ButLast(l), l[Len(l)])
<1>1. Len(l) \in Nat \ {0} /\ l[Len(l)] \in S
  BY EmptySeq
<1>2. /\ ButLast(l) \in Seq(S)
      /\ Len(ButLast(l)) = Len(l) - 1
      /\ \A i \in 1..(Len(l) - 1) : ButLast(l)[i] = l[i]
  BY <1>1 DEF ButLast
<1>3. l = Append(ButLast(l), l[Len(l)])
  <2> DEFINE a == Append(ButLast(l), l[Len(l)])
  <2>1. /\ a \in Seq(S) /\ Len(a) = Len(l)
        /\ \A i \in 1..(Len(l) - 1) : a[i] = l[i]
        /\ a[Len(l)] = l[Len(l)]
    BY <1>1, <1>2, AppendProperties
  <2> HIDE DEF a
  <2>2. \A i \in 1..Len(l) : a[i] = l[i]
    BY <1>1, <2>1
  <2> QED
    BY <2>1, <2>2, SeqEqual DEF a
<1> QED
  BY <1>1, <1>2, <1>3

\* Appending an element and dropping it again.
LEMMA ButLastAppend ==
    ASSUME NEW S, NEW l \in Seq(S), NEW e \in S
    PROVE  ButLast(Append(l, e)) = l
<1> DEFINE a == Append(l, e)
<1>1. a \in Seq(S) /\ a # <<>> /\ Len(a) = Len(l) + 1 /\ \A i \in 1..Len(l) : a[i] = l[i]
  BY AppendProperties
<1> HIDE DEF a
<1>2. /\ ButLast(a) \in Seq(S) /\ Len(ButLast(a)) = Len(l)
      /\ \A i \in 1..Len(l) : ButLast(a)[i] = l[i]
  BY <1>1, ButLastProperties
<1>3. ButLast(a) = l
  BY <1>2, SeqEqual
<1> QED
  BY <1>3 DEF a

-----------------------------------------------------------------------------
(* Hash chains. *)

\* The digest a head anchor may hold.
LEMMA PrevHashType ==
    ASSUME NEW l \in Seq(EventRecord)
    PROVE  /\ eventPrevHash(l) \in EventIds \cup {Genesis}
           /\ l = <<>> => eventPrevHash(l) = Genesis
           /\ l # <<>> => /\ eventPrevHash(l) = l[Len(l)].id
                          /\ l[Len(l)] \in EventRecord /\ Len(l) \in Nat \ {0}
<1>1. l # <<>> => Len(l) \in Nat \ {0} /\ l[Len(l)] \in EventRecord
  BY EmptySeq
<1> QED
  BY <1>1 DEF eventPrevHash, EventRecord

LEMMA RecordIds ==
    ASSUME NEW l \in Seq(EventRecord)
    PROVE  \A i \in 1..Len(l) : l[i] \in EventRecord /\ l[i].id \in Nat \ {0}
<1>1. \A r \in EventRecord : r.id \in Nat \ {0}
  BY EventAssumption DEF EventRecord, EventIds
<1>2. \A i \in 1..Len(l) : l[i] \in EventRecord
  OBVIOUS
<1> QED
  BY <1>1, <1>2

\* No id in l is beyond n, and equal ids in l and s name equal records.
IdsUpTo(l, n) == \A i \in 1..Len(l) : l[i].id <= n

SameById(l, s) ==
    \A i \in 1..Len(l), j \in 1..Len(s) : l[i].id = s[j].id => l[i] = s[j]

\* Two chains whose last digests agree are equal, when equal ids name equal records:
\* what the head anchor seals is the whole log.
LEMMA ChainsAgree ==
    ASSUME NEW l \in Seq(EventRecord), NEW s \in Seq(EventRecord),
           verifyEventChain(l), verifyEventChain(s),
           eventPrevHash(l) = eventPrevHash(s),
           SameById(l, s)
    PROVE  l = s
<1> USE EventAssumption DEF SameById
<1>0. /\ Len(l) \in Nat /\ Len(s) \in Nat
      /\ \A i \in 1..Len(l) : l[i] \in EventRecord /\ l[i].id \in Nat \ {0}
      /\ \A i \in 1..Len(s) : s[i] \in EventRecord /\ s[i].id \in Nat \ {0}
  BY RecordIds
<1>1. CASE l = <<>> \/ s = <<>>
  <2>1. l = <<>> /\ s = <<>>
    BY <1>0, <1>1, PrevHashType DEF Genesis
  <2> QED
    BY <2>1
<1>2. CASE l # <<>> /\ s # <<>>
  <2> DEFINE Bad == {k \in Nat : /\ k < Len(l) /\ k < Len(s)
                                 /\ l[Len(l) - k] # s[Len(s) - k]}
  <2>0. Len(l) > 0 /\ Len(s) > 0
    BY <1>2, PrevHashType
  <2>1. Bad = {}
    <3> SUFFICES ASSUME Bad # {} PROVE FALSE
      OBVIOUS
    <3>1. Bad \in SUBSET Nat
      OBVIOUS
    <3>2. PICK k \in Bad : \A m \in Bad : k <= m
      BY <3>1, LeastNatural
    <3>3. CASE k = 0
      <4>1. l[Len(l)].id = s[Len(s)].id
        BY <1>2, PrevHashType
      <4> QED
        BY <1>0, <2>0, <3>2, <3>3, <4>1
    <3>4. CASE k # 0
      <4> DEFINE i == Len(l) - k  j == Len(s) - k
      <4>1. /\ k \in Nat \ {0} /\ i \in 1..Len(l) /\ j \in 1..Len(s)
            /\ i + 1 \in 1..Len(l) /\ j + 1 \in 1..Len(s)
        BY <1>0, <3>2, <3>4
      <4>2. k - 1 \notin Bad
        BY <3>2, <4>1
      <4>3. l[i + 1] = s[j + 1]
        <5>1. /\ Len(l) - (k - 1) = i + 1 /\ Len(s) - (k - 1) = j + 1
              /\ k - 1 \in Nat /\ k - 1 < Len(l) /\ k - 1 < Len(s)
          BY <1>0, <4>1
        <5> QED
          BY <4>2, <5>1
      <4>4. l[i + 1].prev = l[i].id /\ s[j + 1].prev = s[j].id
        <5>1. i + 1 # 1 /\ j + 1 # 1 /\ (i + 1) - 1 = i /\ (j + 1) - 1 = j
          BY <4>1
        <5>2. \A n \in 1..Len(l) : n # 1 => l[n].prev = l[n - 1].id
          BY DEF verifyEventChain
        <5>3. \A n \in 1..Len(s) : n # 1 => s[n].prev = s[n - 1].id
          BY DEF verifyEventChain
        <5> QED
          BY <4>1, <5>1, <5>2, <5>3
      <4>5. l[i] = s[j]
        BY <4>1, <4>3, <4>4
      <4> QED
        BY <3>2, <4>5
    <3> QED
      BY <3>3, <3>4
  <2>2. ASSUME NEW a \in Seq(EventRecord), NEW b \in Seq(EventRecord),
               verifyEventChain(a), verifyEventChain(b), Len(a) < Len(b), Len(a) > 0,
               \A k \in Nat : k < Len(a) /\ k < Len(b) => a[Len(a) - k] = b[Len(b) - k]
        PROVE  FALSE
    <3>0. PICK k \in Nat, n \in Nat : k = Len(a) - 1 /\ n = Len(b) - k
      <4>1. Len(a) \in Nat /\ Len(b) \in Nat
        BY LenProperties
      <4>2. Len(a) - 1 \in Nat /\ Len(b) - (Len(a) - 1) \in Nat
        BY <2>2, <4>1
      <4> QED
        BY <4>2
    <3>1. /\ Len(a) \in Nat /\ Len(b) \in Nat /\ k < Len(a) /\ k < Len(b)
          /\ n \in 2..Len(b) /\ Len(a) - k = 1 /\ n - 1 \in 1..Len(b)
      BY <2>2, <3>0
    <3>2. a[1] = b[n]
      BY <2>2, <3>0, <3>1
    <3>3. a[1].prev = Genesis
      <4>1. 1 \in 1..Len(a)
        BY <3>0, <3>1
      <4> QED
        BY <2>2, <4>1 DEF verifyEventChain
    <3>4. b[n].prev = b[n - 1].id
      <4>1. n \in 1..Len(b) /\ n # 1
        BY <3>1
      <4> QED
        BY <2>2, <4>1 DEF verifyEventChain
    <3>5. b[n - 1].id \in Nat \ {0}
      <4>1. b[n - 1] \in EventRecord
        BY <3>1, ElementOfSeq
      <4> QED
        BY <4>1 DEF EventRecord, EventIds
    <3> QED
      BY <3>2, <3>3, <3>4, <3>5 DEF Genesis
  <2>3. \A k \in Nat : k < Len(l) /\ k < Len(s) => l[Len(l) - k] = s[Len(s) - k]
    BY <2>1
  <2>4. Len(l) = Len(s)
    BY <1>0, <2>0, <2>2, <2>3
  <2>5. \A i \in 1..Len(l) : l[i] = s[i]
    <3> TAKE i \in 1..Len(l)
    <3>1. /\ Len(l) - i \in Nat /\ Len(l) - i < Len(l) /\ Len(l) - i < Len(s)
          /\ Len(l) - (Len(l) - i) = i /\ Len(s) - (Len(l) - i) = i
      BY <1>0, <2>4
    <3> QED
      BY <2>3, <3>1
  <2> QED
    BY <2>4, <2>5, SeqEqual
<1> QED
  BY <1>1, <1>2

\* A chain without its last record is a chain.
LEMMA ChainPrefix ==
    ASSUME NEW l \in Seq(EventRecord), l # <<>>, verifyEventChain(l)
    PROVE  verifyEventChain(ButLast(l))
<1>1. /\ Len(ButLast(l)) = Len(l) - 1 /\ Len(l) \in Nat \ {0}
      /\ \A i \in 1..(Len(l) - 1) : ButLast(l)[i] = l[i]
  BY ButLastProperties
<1> DEFINE b == ButLast(l)
<1> HIDE DEF b
<1>2. ASSUME NEW i \in 1..Len(b)
      PROVE  b[i].prev = IF i = 1 THEN Genesis ELSE b[i - 1].id
  <2>1. i \in 1..Len(l) /\ i \in 1..(Len(l) - 1) /\ (i # 1 => i - 1 \in 1..(Len(l) - 1))
    BY <1>1 DEF b
  <2> QED
    BY <1>1, <2>1 DEF verifyEventChain, b
<1> QED
  BY <1>2 DEF verifyEventChain, b

\* A chain with one more record that names its last digest is a chain.
LEMMA ChainAppend ==
    ASSUME NEW l \in Seq(EventRecord), NEW r \in EventRecord, verifyEventChain(l),
           r.prev = eventPrevHash(l)
    PROVE  verifyEventChain(Append(l, r))
<1> DEFINE a == Append(l, r)
<1>1. /\ a \in Seq(EventRecord) /\ Len(a) = Len(l) + 1 /\ a[Len(l) + 1] = r
      /\ \A i \in 1..Len(l) : a[i] = l[i]
  BY AppendProperties
<1>2. Len(l) \in Nat /\ (l # <<>> => Len(l) # 0)
  BY EmptySeq
<1> HIDE DEF a
<1>3. ASSUME NEW i \in 1..Len(a)
      PROVE  a[i].prev = IF i = 1 THEN Genesis ELSE a[i - 1].id
  <2>1. CASE i \in 1..Len(l)
    <3>1. i # 1 => i - 1 \in 1..Len(l)
      BY <1>2, <2>1
    <3> QED
      BY <1>1, <2>1, <3>1 DEF verifyEventChain
  <2>2. CASE i = Len(l) + 1
    <3>1. CASE l = <<>>
      BY <1>1, <1>2, <2>2, <3>1 DEF eventPrevHash
    <3>2. CASE l # <<>>
      <4>1. i # 1 /\ i - 1 = Len(l) /\ Len(l) \in 1..Len(l)
        BY <1>2, <2>2, <3>2
      <4> QED
        BY <1>1, <2>2, <3>2, <4>1 DEF eventPrevHash
    <3> QED
      BY <3>1, <3>2
  <2> QED
    BY <1>1, <1>2, <1>3, <2>1, <2>2
<1> QED
  BY <1>3 DEF verifyEventChain, a

-----------------------------------------------------------------------------
(* The event store. *)

\* The log after a repair, with an append under way: what is sealed, and then the
\* one record the head does not seal yet.
Underway ==
    /\ step \in {"ready", "append"} => log = sealed /\ ~tail /\ header # "torn"
    /\ step = "ready" => HasRoom(log)
    /\ step = "seal" =>
          /\ log # <<>> /\ ButLast(log) = sealed
          /\ log[Len(log)].payload = event /\ log[Len(log)].prev = head
          /\ log[Len(log)].id = lastId
          /\ \A j \in 1..Len(sealed) : sealed[j].id < lastId
    /\ step = "idle" <=> event = NoEvent

\* Ids are minted in order, and a record in the log that bears a sealed id is the
\* sealed record: whoever rewrites the log cannot forge a digest.
Unforged ==
    /\ IdsUpTo(log, lastId) /\ IdsUpTo(sealed, lastId)
    /\ SameById(log, sealed) /\ SameById(sealed, sealed)

\* The head anchors the sealed chain, whatever became of the log.
Anchored == head = eventPrevHash(sealed) /\ verifyEventChain(sealed)

\* Nobody but this program wrote the log: it is the sealed one or one ahead.
Untouched ==
    ~tampered => /\ log = sealed \/ (log # <<>> /\ ButLast(log) = sealed)
                 /\ verifyEventChain(log)

EsInv == EvTypeOK /\ Anchored /\ Unforged /\ Untouched /\ Underway

\* A store that accepts an append holds, once repaired, exactly what was sealed.
LEMMA RepairRestores ==
    ASSUME EsInv, Preparable
    PROVE  Kept = sealed
<1> USE DEF EsInv, EvTypeOK
<1>1. verifyEventChain(log) /\ classifyHeadState(head, log) # "tamper"
  BY DEF Preparable
<1>2. CASE head = eventPrevHash(log)
  <2>1. log = sealed
    BY <1>1, <1>2, ChainsAgree DEF Anchored, Unforged
  <2> QED
    BY <1>2, <2>1 DEF Kept, classifyHeadState
<1>3. CASE head # eventPrevHash(log)
  <2>1. /\ log # <<>> /\ head = eventPrevHash(ButLast(log))
        /\ classifyHeadState(head, log) = "one-ahead"
    BY <1>1, <1>3 DEF classifyHeadState
  <2>2. /\ ButLast(log) \in Seq(EventRecord) /\ verifyEventChain(ButLast(log))
        /\ Len(ButLast(log)) = Len(log) - 1 /\ Len(log) \in Nat \ {0}
        /\ \A i \in 1..(Len(log) - 1) : ButLast(log)[i] = log[i]
    BY <1>1, <2>1, ChainPrefix, ButLastProperties
  <2>3. SameById(ButLast(log), sealed)
    <3>0. 1..Len(ButLast(log)) = 1..(Len(log) - 1) /\ 1..(Len(log) - 1) \subseteq 1..Len(log)
      BY <2>2
    <3>1. \A i \in 1..Len(ButLast(log)) : i \in 1..Len(log) /\ ButLast(log)[i] = log[i]
      BY <2>2, <3>0
    <3>2. SameById(log, sealed)
      BY DEF Unforged
    <3> QED
      BY <3>1, <3>2 DEF SameById
  <2>4. ButLast(log) = sealed
    BY <2>1, <2>2, <2>3, ChainsAgree DEF Anchored
  <2> QED
    BY <2>1, <2>4 DEF Kept
<1> QED
  BY <1>2, <1>3

\* A repair leaves the sealed log, in every store that accepts an append, and the
\* invariant, whatever step follows from "idle" or "ready".
LEMMA RepairStep ==
    ASSUME EsInv, Preparable, Repair, step \in {"idle", "ready"},
           UNCHANGED <<head, lastId, sealed, tampered>>,
           \/ step' = step /\ event' = event
           \/ step' = "idle" /\ event' = NoEvent
           \/ step' \in {"ready", "append"} /\ event' \in Payloads /\ HasRoom(Kept)
    PROVE  EsInv' /\ log' = sealed
<1> USE DEF EsInv, EvTypeOK
<1>1. log' = sealed /\ sealed' = sealed /\ tail' = FALSE /\ header' \in {header, "ok"}
  BY RepairRestores DEF Repair
<1>2. header # "torn"
  BY DEF Preparable, Readable
<1>3. EvTypeOK'
  BY <1>1
<1>4. Anchored'
  BY <1>1 DEF Anchored
<1>5. Unforged'
  BY <1>1 DEF Unforged
<1>6. Untouched'
  BY <1>1 DEF Untouched, Anchored
<1>7. HasRoom(Kept) => HasRoom(log)'
  BY <1>1, RepairRestores DEF HasRoom
<1>8. step = "ready" => HasRoom(log)'
  BY <1>1 DEF Underway, HasRoom
<1>9. Underway'
  BY <1>1, <1>2, <1>7, <1>8, EventAssumption DEF Underway
<1> QED
  BY <1>1, <1>3, <1>4, <1>5, <1>6, <1>9

\* The two steps that open an append.
LEMMA OpenStep ==
    ASSUME EsInv, NEW p \in Payloads, preflightEventAppend(p) \/ StartAppend(p)
    PROVE  EsInv' /\ log' = sealed
<1>1. CASE preflightEventAppend(p)
  BY <1>1, RepairStep DEF preflightEventAppend
<1>2. CASE StartAppend(p)
  BY <1>2, RepairStep DEF StartAppend
<1> QED
  BY <1>1, <1>2

\* The header, the record and the seal.
LEMMA WriteHeaderStep == EsInv /\ WriteHeader => EsInv'
BY DEF EsInv, EvTypeOK, Anchored, Unforged, Untouched, Underway, WriteHeader, HasRoom

LEMMA WriteRecordStep ==
    ASSUME EsInv, WriteRecord
    PROVE  /\ EsInv' /\ log = sealed /\ sealed' = sealed
           /\ Len(log') = Len(log) + 1 /\ log'[Len(log')].payload = event
<1> USE EventAssumption DEF EsInv, EvTypeOK
<1>1. /\ log = sealed /\ header = "ok" /\ ~tail /\ step = "append" /\ event \in Payloads
      /\ log' = Append(log, NewRecord) /\ lastId' = lastId + 1 /\ step' = "seal"
      /\ UNCHANGED <<header, tail, head, event, sealed, tampered>> /\ lastId' \in EventIds
  BY DEF WriteRecord, Underway, EventIds
<1>2. /\ NewRecord \in EventRecord /\ NewRecord.id = lastId + 1
      /\ NewRecord.prev = eventPrevHash(log) /\ NewRecord.payload = event
  <2>1. eventPrevHash(log) \in EventIds \cup {Genesis}
    BY PrevHashType
  <2> QED
    BY <1>1, <2>1 DEF NewRecord, EventRecord
<1>3. /\ log' \in Seq(EventRecord) /\ log' # <<>> /\ Len(log') = Len(log) + 1
      /\ \A i \in 1..Len(log) : log'[i] = log[i]
      /\ log'[Len(log')] = NewRecord /\ Len(log) \in Nat
  BY <1>1, <1>2, AppendProperties
<1>4. ButLast(log') = sealed
  BY <1>1, <1>2, ButLastAppend
<1>5. Anchored'
  BY <1>1 DEF Anchored
<1>6. /\ \A j \in 1..Len(sealed) : sealed[j].id <= lastId /\ sealed[j].id \in Nat
      /\ \A i \in 1..Len(log) : log[i].id <= lastId /\ log[i].id \in Nat
  BY RecordIds DEF Unforged, IdsUpTo
<1>7. Unforged'
  <2>1. ASSUME NEW i \in 1..Len(log')
        PROVE  log'[i] = NewRecord \/ (i \in 1..Len(log) /\ log'[i] = log[i])
    BY <1>3
  <2>3. IdsUpTo(log', lastId')
    BY <1>1, <1>2, <1>6, <2>1 DEF IdsUpTo
  <2>4. SameById(log', sealed)
    <3> SUFFICES ASSUME NEW i \in 1..Len(log'), NEW j \in 1..Len(sealed),
                        log'[i].id = sealed[j].id
                 PROVE  log'[i] = sealed[j]
      BY DEF SameById
    <3>1. SameById(log, sealed)
      BY DEF Unforged
    <3> QED
      <4>1. CASE log'[i] = NewRecord
        BY <1>2, <1>6, <4>1
      <4>2. CASE i \in 1..Len(log) /\ log'[i] = log[i]
        BY <3>1, <4>2 DEF SameById
      <4> QED
        BY <2>1, <4>1, <4>2
  <2>5. IdsUpTo(sealed, lastId')
    BY <1>1, <1>6 DEF IdsUpTo
  <2> QED
    BY <1>1, <2>3, <2>4, <2>5 DEF Unforged
<1>8. Untouched'
  BY <1>1, <1>2, <1>3, <1>4, ChainAppend DEF Untouched, Anchored
<1>9. Underway'
  <2>1. \A j \in 1..Len(sealed) : sealed[j].id < lastId + 1
    BY <1>6
  <2>2. event # NoEvent
    BY <1>1
  <2>3. head = eventPrevHash(log)
    BY <1>1 DEF Anchored
  <2> QED
    BY <1>1, <1>2, <1>3, <1>4, <2>1, <2>2, <2>3 DEF Underway
<1> QED
  <2>1. EvTypeOK'
    BY <1>1, <1>3 DEF EventIds
  <2>2. log'[Len(log')].payload = event
    BY <1>2, <1>3
  <2> QED
    BY <1>1, <1>3, <1>5, <1>7, <1>8, <1>9, <2>1, <2>2

LEMMA SealStep ==
    ASSUME EsInv, sealHeadAnchor
    PROVE  /\ EsInv' /\ log' = sealed' /\ ButLast(sealed') = sealed
           /\ sealed' = Append(sealed, log[Len(log)]) /\ log[Len(log)] \in EventRecord
           /\ log[Len(log)].payload = event /\ event \in Payloads
<1> USE EventAssumption DEF EsInv, EvTypeOK
<1>1. /\ log # <<>> /\ ButLast(log) = sealed /\ step = "seal" /\ event \in Payloads
      /\ log[Len(log)].payload = event /\ log[Len(log)].prev = head
      /\ log[Len(log)].id = lastId
      /\ \A j \in 1..Len(sealed) : sealed[j].id < lastId
      /\ head' = eventPrevHash(log) /\ sealed' = Append(sealed, log[Len(log)])
      /\ step' = "idle" /\ event' = NoEvent
      /\ UNCHANGED <<header, log, tail, lastId, tampered>>
  BY DEF sealHeadAnchor, Underway
<1>2. log[Len(log)] \in EventRecord /\ log = Append(ButLast(log), log[Len(log)])
  BY <1>1, PrevHashType, ButLastProperties
<1>3. log' = sealed'
  BY <1>1, <1>2
<1>4. verifyEventChain(sealed')
  BY <1>1, <1>2, ChainAppend DEF Anchored
<1>5. Anchored'
  BY <1>1, <1>3, <1>4 DEF Anchored
<1>6. IdsUpTo(log, lastId) /\ SameById(log, log)
  <2>1. /\ Len(log) \in Nat \ {0} /\ Len(sealed) = Len(log) - 1
        /\ \A i \in 1..(Len(log) - 1) : sealed[i] = log[i]
    BY <1>1, ButLastProperties
  <2>2. IdsUpTo(log, lastId) /\ SameById(log, sealed)
    BY DEF Unforged
  <2>3. ASSUME NEW i \in 1..Len(log) PROVE i = Len(log) \/ i \in 1..Len(sealed)
    BY <2>1
  <2>5. SameById(log, log)
    <3> SUFFICES ASSUME NEW i \in 1..Len(log), NEW j \in 1..Len(log),
                        log[i].id = log[j].id
                 PROVE  log[i] = log[j]
      BY DEF SameById
    <3>1. CASE j \in 1..Len(sealed)
      BY <2>1, <2>2, <3>1 DEF SameById
    <3>2. CASE i \in 1..Len(sealed)
      BY <2>1, <2>2, <3>2 DEF SameById
    <3> QED
      BY <2>3, <3>1, <3>2
  <2> QED
    BY <2>2, <2>5
<1>7. Unforged'
  BY <1>1, <1>3, <1>6 DEF Unforged
<1>8. Untouched'
  BY <1>3, <1>4 DEF Untouched
<1>9. EvTypeOK'
  BY <1>1, <1>2, <1>3, PrevHashType
<1>10. Underway'
  BY <1>1 DEF Underway
<1>11. ButLast(sealed') = sealed
  BY <1>1, <1>3
<1> QED
  BY <1>1, <1>2, <1>3, <1>5, <1>7, <1>8, <1>9, <1>10, <1>11

\* A crash, or a write that tears.
LEMMA CrashStep == EsInv /\ (Abort \/ TornHeader \/ TornRecord) => EsInv'
<1> SUFFICES ASSUME EsInv, Abort \/ TornHeader \/ TornRecord PROVE EsInv'
  OBVIOUS
<1>1. /\ step' = "idle" /\ event' = NoEvent
      /\ UNCHANGED <<log, head, lastId, sealed, tampered>>
      /\ header' \in {header, "torn"} /\ tail' \in {tail, TRUE}
  BY DEF Abort, TornHeader, TornRecord, store
<1> QED
  BY <1>1 DEF EsInv, EvTypeOK, Anchored, Unforged, Untouched, Underway

\* Somebody rewrites the log: records may go, and a forged one bears a new id.
LEMMA TamperedLog ==
    ASSUME EsInv, Tamper
    PROVE  /\ log' \in Seq(EventRecord) /\ tail' \in BOOLEAN /\ Len(log') <= Len(log)
           /\ \A i \in 1..Len(log') :
                 log'[i].id = lastId + 1 \/ \E k \in 1..Len(log) : log'[i] = log[k]
<1> USE EventAssumption DEF EsInv, EvTypeOK
<1>0. /\ lastId \in Nat /\ lastId + 1 \in EventIds
      /\ log # <<>> /\ Len(log) \in Nat \ {0}
  <2>1. lastId < MaxIds /\ log # <<>>
    BY DEF Tamper
  <2>2. lastId \in Nat /\ lastId + 1 \in EventIds
    BY <2>1 DEF EventIds
  <2> QED
    BY <2>1, <2>2, EmptySeq
<1>1. CASE \E n \in 0..(Len(log) - 1), torn \in BOOLEAN :
              log' = SubSeq(log, 1, n) /\ tail' = torn
  <2>1. PICK n \in 0..(Len(log) - 1) : log' = SubSeq(log, 1, n) /\ tail' \in BOOLEAN
    BY <1>1
  <2>2. \A i \in 1..n : i \in 1..Len(log) /\ log[i] \in EventRecord
    BY <1>0
  <2>3. /\ log' \in Seq(EventRecord) /\ Len(log') = n
        /\ \A i \in 1..n : log'[i] = log[i]
    BY <1>0, <2>1, <2>2, SubSeqProperties
  <2> QED
    BY <2>1, <2>2, <2>3
<1>2. CASE \E n \in 1..(Len(log) - 1) :
              /\ log' = SubSeq(log, 1, n - 1) \o SubSeq(log, n + 1, Len(log))
              /\ UNCHANGED tail
  <2>1. PICK n \in 1..(Len(log) - 1) :
              /\ log' = SubSeq(log, 1, n - 1) \o SubSeq(log, n + 1, Len(log))
              /\ UNCHANGED tail
    BY <1>2
  <2> DEFINE a == SubSeq(log, 1, n - 1)  b == SubSeq(log, n + 1, Len(log))
  <2>2. /\ a \in Seq(EventRecord) /\ Len(a) = n - 1
        /\ \A i \in 1..(n - 1) : a[i] = log[i]
    <3>1. \A i \in 1..(n - 1) : log[i] \in EventRecord
      BY <1>0
    <3> QED
      BY <1>0, <3>1, SubSeqProperties
  <2>3. /\ b \in Seq(EventRecord) /\ Len(b) = Len(log) - n
        /\ \A i \in 1..(Len(log) - n) : b[i] = log[n + i]
    <3>0. n + 1 \in Int /\ Len(log) \in Int /\ n + 1 <= Len(log)
      BY <1>0
    <3>1. \A i \in (n + 1)..Len(log) : log[i] \in EventRecord
      BY <1>0
    <3>2. /\ b \in Seq(EventRecord) /\ Len(b) = Len(log) - (n + 1) + 1
          /\ \A i \in 1..(Len(log) - (n + 1) + 1) : b[i] = log[(n + 1) + i - 1]
      <4> HIDE DEF EsInv, EvTypeOK
      <4> QED
        BY ONLY <3>0, <3>1, SubSeqProperties
    <3> HIDE DEF b
    <3> QED
      BY <3>0, <3>2
  <2> HIDE DEF a, b
  <2>4. log' = a \o b
    BY <2>1 DEF a, b
  <2>5. /\ log' \in Seq(EventRecord) /\ Len(log') = Len(a) + Len(b)
        /\ \A i \in 1..Len(log') :
              log'[i] = IF i <= Len(a) THEN a[i] ELSE b[i - Len(a)]
    <3>1. /\ a \o b \in Seq(EventRecord) /\ Len(a \o b) = Len(a) + Len(b)
          /\ \A i \in 1..Len(a) + Len(b) :
                (a \o b)[i] = IF i <= Len(a) THEN a[i] ELSE b[i - Len(a)]
      BY <2>2, <2>3, ConcatProperties
    <3> QED
      BY <2>4, <3>1
  <2>6. ASSUME NEW i \in 1..Len(log') PROVE \E k \in 1..Len(log) : log'[i] = log[k]
    <3>1. CASE i <= n - 1
      <4>1. i \in 1..(n - 1) /\ i \in 1..Len(log)
        BY <1>0, <3>1
      <4> QED
        BY <2>2, <2>5, <3>1, <4>1
    <3>2. CASE ~(i <= n - 1)
      <4>0. i \in Nat /\ i <= (n - 1) + (Len(log) - n) /\ Len(log) \in Nat
        BY <1>0, <2>2, <2>3, <2>5
      <4>1. /\ i - (n - 1) \in 1..(Len(log) - n) /\ n + (i - (n - 1)) \in 1..Len(log)
        BY <3>2, <4>0
      <4> QED
        BY <2>2, <2>3, <2>5, <3>2, <4>1
    <3> QED
      BY <3>1, <3>2
  <2>7. Len(log') <= Len(log)
    BY <1>0, <2>2, <2>3, <2>5
  <2> QED
    BY <2>1, <2>5, <2>6, <2>7
<1>3. CASE \E n \in 1..Len(log), p \in Payloads :
              /\ log' = [log EXCEPT ![n].payload = p, ![n].id = lastId + 1]
              /\ UNCHANGED tail
  <2>1. PICK n \in 1..Len(log), p \in Payloads :
              /\ log' = [log EXCEPT ![n].payload = p, ![n].id = lastId + 1]
              /\ UNCHANGED tail
    BY <1>3
  <2> DEFINE r == [log[n] EXCEPT !.payload = p, !.id = lastId + 1]
  <2>2. log[n] \in EventRecord
    BY <2>1
  <2>3. r \in EventRecord /\ r.id = lastId + 1
    BY <1>0, <2>2 DEF EventRecord
  <2>4. log' = [log EXCEPT ![n] = r]
    <3>1. log \in [1..Len(log) -> EventRecord]
      BY LenProperties
    <3> QED
      BY <2>1, <2>2, <3>1 DEF EventRecord
  <2> HIDE DEF r
  <2>5. /\ log' \in Seq(EventRecord) /\ Len(log') = Len(log)
        /\ \A i \in 1..Len(log) : log'[i] = IF i = n THEN r ELSE log[i]
    BY <2>3, <2>4, ExceptSeq
  <2> QED
    BY <2>1, <2>3, <2>5
<1> QED
  BY <1>1, <1>2, <1>3 DEF Tamper

LEMMA TamperStep == EsInv /\ Tamper => EsInv'
<1> SUFFICES ASSUME EsInv, Tamper PROVE EsInv'
  OBVIOUS
<1> USE EventAssumption DEF EsInv, EvTypeOK
<1>1. /\ UNCHANGED <<header, head, step, event, sealed>> /\ step = "idle"
      /\ tampered' = TRUE /\ lastId' = lastId + 1 /\ lastId' \in EventIds
      /\ log # <<>> /\ Len(log) \in Nat \ {0} /\ lastId \in Nat
  <2>1. /\ UNCHANGED <<header, head, step, event, sealed>> /\ step = "idle"
        /\ tampered' = TRUE /\ lastId' = lastId + 1 /\ lastId < MaxIds /\ log # <<>>
    BY DEF Tamper
  <2>2. lastId \in Nat /\ lastId + 1 \in EventIds
    BY <2>1 DEF EventIds
  <2>3. Len(log) \in Nat \ {0}
    BY <2>1, EmptySeq
  <2> QED
    BY <2>1, <2>2, <2>3
<1>2. /\ log' \in Seq(EventRecord) /\ tail' \in BOOLEAN
      /\ \A i \in 1..Len(log') :
            log'[i].id = lastId + 1 \/ \E k \in 1..Len(log) : log'[i] = log[k]
  BY TamperedLog
<1>3. Unforged'
  <2>1. /\ \A j \in 1..Len(sealed) : sealed[j].id <= lastId /\ sealed[j].id \in Nat
        /\ \A k \in 1..Len(log) : log[k].id <= lastId /\ log[k].id \in Nat
    BY RecordIds DEF Unforged, IdsUpTo
  <2>3. IdsUpTo(log', lastId')
    <3> SUFFICES ASSUME NEW i \in 1..Len(log') PROVE log'[i].id <= lastId'
      BY DEF IdsUpTo
    <3>1. CASE log'[i].id = lastId + 1
      BY <1>1, <3>1
    <3>2. ASSUME NEW k \in 1..Len(log), log'[i] = log[k] PROVE log'[i].id <= lastId'
      BY <1>1, <2>1, <3>2
    <3> QED
      BY <1>2, <3>1, <3>2
  <2>4. SameById(log', sealed)
    <3> SUFFICES ASSUME NEW i \in 1..Len(log'), NEW j \in 1..Len(sealed),
                        log'[i].id = sealed[j].id
                 PROVE  log'[i] = sealed[j]
      BY DEF SameById
    <3>1. sealed[j].id # lastId + 1
      BY <1>1, <2>1
    <3>2. PICK k \in 1..Len(log) : log'[i] = log[k]
      BY <1>2, <3>1
    <3>3. SameById(log, sealed)
      BY DEF Unforged
    <3> QED
      BY <3>2, <3>3 DEF SameById
  <2>5. IdsUpTo(sealed, lastId')
    BY <1>1, <2>1 DEF IdsUpTo
  <2> QED
    BY <1>1, <2>3, <2>4, <2>5 DEF Unforged
<1>4. Anchored' /\ Untouched' /\ Underway'
  BY <1>1 DEF Anchored, Untouched, Underway
<1>5. EvTypeOK'
  BY <1>1, <1>2 DEF EventIds
<1> QED
  BY <1>3, <1>4, <1>5

LEMMA EsStutter == EsInv /\ UNCHANGED esvars => EsInv'
BY DEF EsInv, EvTypeOK, Anchored, Unforged, Untouched, Underway, HasRoom, esvars

\* The three promises of the event store follow.
LEMMA EsSafety ==
    ASSUME EsInv
    PROVE  /\ SealedKept /\ AppendRecovers /\ TamperReported
           /\ step = "ready" => Preparable /\ HasRoom(Kept)
<1> USE DEF EsInv, EvTypeOK
<1>1. SealedKept
  BY DEF SealedKept, Anchored, Untouched
<1>2. AppendRecovers
  BY DEF AppendRecovers, Preparable, Readable, Anchored, Untouched, classifyHeadState
<1>3. TamperReported
  <2> SUFFICES ASSUME checkEventChain \subseteq {"event-store-torn"} PROVE log = sealed
    BY DEF TamperReported
  <2>1. verifyEventChain(log) /\ head = eventPrevHash(log)
    <3>1. "event-store-corrupt" \notin checkEventChain
          /\ "event-chain-broken" \notin checkEventChain
      OBVIOUS
    <3> QED
      BY <3>1 DEF checkEventChain
  <2> QED
    BY <2>1, ChainsAgree DEF Anchored, Unforged
<1>4. step = "ready" => Preparable /\ HasRoom(Kept)
  BY DEF Underway, Anchored, Preparable, Readable, classifyHeadState, Kept
<1> QED
  BY <1>1, <1>2, <1>3, <1>4

-----------------------------------------------------------------------------
(* The relation file. *)

Row == RelationRef \cup {Garbled}

LEMMA RowFields ==
    \A r \in RelationRef : /\ r \in Row /\ r # Garbled /\ r.id \in RelationIds
                           /\ r.content \in Contents /\ r.content.to \in Endpoints
                           /\ r.content.attr \in Attributes
BY LineAssumption DEF Row, RelationRef, Contents

\* What reads back of a file: lines that parse, one for each id.
LEMMA LatestProperties ==
    ASSUME NEW l \in Seq(Row)
    PROVE  /\ latestPerId(l) \subseteq RelationRef
           /\ \A r \in latestPerId(l) : \E i \in 1..Len(l) : l[i] = r /\ l[i] # Garbled
           /\ \A r, q \in latestPerId(l) : r.id = q.id => r = q
           /\ \A i \in 1..Len(l) : l[i] # Garbled =>
                 \E r \in latestPerId(l) : r.id = l[i].id
           /\ l # <<>> /\ l[Len(l)] # Garbled => l[Len(l)] \in latestPerId(l)
<1> DEFINE Rec == {i \in 1..Len(l) : l[i] # Garbled}
           New == {j \in Rec : \A k \in Rec : k > j => l[k].id # l[j].id}
<1>1. latestPerId(l) = {l[i] : i \in New}
  BY DEF latestPerId
<1>2. Len(l) \in Nat /\ (l # <<>> => Len(l) # 0) /\ \A i \in 1..Len(l) : l[i] \in Row
  BY EmptySeq, ElementOfSeq
<1>3. \A i \in Rec : i \in Nat /\ i \in 1..Len(l) /\ l[i] \in RelationRef
  BY <1>2 DEF Row
<1>4. ASSUME NEW i \in Rec PROVE \E j \in New : l[j].id = l[i].id
  <2> DEFINE E == {j \in Rec : l[j].id = l[i].id}
  <2>1. E \in SUBSET (1..Len(l)) /\ E # {}
    OBVIOUS
  <2> HIDE DEF E
  <2>2. PICK j \in E : \A k \in E : k <= j
    BY <1>2, <2>1, GreatestIndex
  <2>3. j \in Rec /\ l[j].id = l[i].id /\ j \in Nat
    BY <1>3, <2>2 DEF E
  <2>4. ASSUME NEW k \in Rec, k > j PROVE l[k].id # l[j].id
    <3>1. k \notin E
      BY <1>3, <2>2, <2>3, <2>4
    <3> QED
      BY <2>3, <3>1 DEF E
  <2> QED
    BY <2>3, <2>4
<1>5. ASSUME NEW i \in New, NEW j \in New, l[i].id = l[j].id PROVE i = j
  BY <1>3, <1>5
<1>6. l # <<>> /\ l[Len(l)] # Garbled => Len(l) \in New
  BY <1>2
<1> HIDE DEF New
<1>7. \A i \in New : i \in Rec
  BY DEF New
<1>8. \A r \in latestPerId(l) : \E i \in New : r = l[i]
  BY <1>1
<1>9. \A i \in New : l[i] \in latestPerId(l)
  BY <1>1
<1>10. \A r, q \in latestPerId(l) : r.id = q.id => r = q
  BY <1>5, <1>8
<1>11. \A i \in 1..Len(l) : l[i] # Garbled => \E r \in latestPerId(l) : r.id = l[i].id
  BY <1>4, <1>9
<1> QED
  BY <1>3, <1>6, <1>7, <1>8, <1>9, <1>10, <1>11

\* What reads back is finite.
LEMMA LatestFinite ==
    ASSUME NEW l \in Seq(Row)
    PROVE  IsFiniteSet(latestPerId(l))
<1> DEFINE T == {l[i] : i \in 1..Len(l)}
           f == [i \in 1..Len(l) |-> l[i]]
<1>1. Len(l) \in Nat /\ IsFiniteSet(1..Len(l))
  BY FS_Interval
<1>2. f \in Surjection(1..Len(l), T)
  BY DEF Surjection
<1>3. IsFiniteSet(T)
  BY <1>1, <1>2, FS_Surjection
<1>4. latestPerId(l) \in SUBSET T
  BY LatestProperties
<1> QED
  BY <1>3, <1>4, FS_Subset

\* A set of relations with distinct ids, written out and read back.
LEMMA CompactReads ==
    ASSUME NEW S \in SUBSET RelationRef, IsFiniteSet(S),
           \A r, q \in S : r.id = q.id => r = q
    PROVE  /\ SetToSeq(S) \in Seq(Row)
           /\ \A i \in 1..Len(SetToSeq(S)) : SetToSeq(S)[i] \in S
           /\ latestPerId(SetToSeq(S)) = S
<1> DEFINE n == Cardinality(S)
           l == SetToSeq(S)
<1>1. n \in Nat /\ IsFiniteSet(1..n) /\ Cardinality(1..n) = n
  BY FS_CardinalityType, FS_Interval
<1>2. \E f \in [1..n -> S] : IsInjective(f)
  BY FS_CardinalityType DEF ExistsBijection, Bijection, Injection
<1>3. l \in [1..n -> S] /\ IsInjective(l)
  BY <1>2 DEF SetToSeq
<1> HIDE DEF l, n
<1>4. l \in Injection(1..n, S)
  BY <1>3 DEF Injection
<1>5. l \in Surjection(1..n, S)
  BY <1>1, <1>4, FS_Injection DEF n
<1>6. \A r \in S : \E i \in 1..n : l[i] = r
  BY <1>5 DEF Surjection
<1>7. l \in Seq(S) /\ Len(l) = n
  BY <1>1, <1>3
<1>8. l \in Seq(Row)
  BY <1>7, SeqMonotonic DEF Row
<1>9. \A i \in 1..Len(l) : l[i] \in S /\ l[i] # Garbled
  BY <1>3, <1>7, RowFields
<1>10. ASSUME NEW r \in latestPerId(l) PROVE r \in S
  BY <1>8, <1>9, LatestProperties
<1>11. ASSUME NEW r \in S PROVE r \in latestPerId(l)
  <2>1. PICK i \in 1..Len(l) : l[i] = r
    BY <1>6, <1>7
  <2>2. PICK q \in latestPerId(l) : q.id = r.id
    BY <1>8, <1>9, <2>1, LatestProperties
  <2> QED
    BY <1>10, <2>2
<1>12. latestPerId(l) = S
  BY <1>10, <1>11
<1> QED
  BY <1>8, <1>9, <1>12 DEF l

\* The file's lines, a torn one included.
FileLines(l, t) == IF t THEN Append(l, Garbled) ELSE l

LEMMA FileProperties ==
    ASSUME NEW l \in Seq(Row), NEW t \in BOOLEAN, NEW f, f = FileLines(l, t)
    PROVE  /\ f \in Seq(Row) /\ Len(f) = IF t THEN Len(l) + 1 ELSE Len(l)
           /\ t => f[Len(f)] = Garbled
           /\ \A i \in 1..Len(l) : i \in 1..Len(f) /\ f[i] = l[i]
           /\ latestPerId(f) \subseteq RelationRef /\ IsFiniteSet(latestPerId(f))
           /\ \A r \in latestPerId(f) : \E i \in 1..Len(l) : l[i] = r /\ l[i] # Garbled
           /\ \A r, q \in latestPerId(f) : r.id = q.id => r = q
           /\ \A i \in 1..Len(l) : l[i] # Garbled =>
                 \E r \in latestPerId(f) : r.id = l[i].id
<1>0. Len(l) \in Nat /\ Garbled \in Row
  BY DEF Row
<1>1. /\ f \in Seq(Row) /\ Len(f) = IF t THEN Len(l) + 1 ELSE Len(l)
      /\ t => f[Len(f)] = Garbled
      /\ \A i \in 1..Len(l) : i \in 1..Len(f) /\ f[i] = l[i]
  <2>1. CASE t
    BY <1>0, <2>1, AppendProperties DEF FileLines
  <2>2. CASE ~t
    BY <1>0, <2>2 DEF FileLines
  <2> QED
    BY <2>1, <2>2
<1>2. ASSUME NEW i \in 1..Len(f), f[i] # Garbled PROVE i \in 1..Len(l) /\ l[i] = f[i]
  BY <1>0, <1>1, <1>2
<1>3. /\ latestPerId(f) \subseteq RelationRef
      /\ \A r \in latestPerId(f) : \E i \in 1..Len(f) : f[i] = r /\ f[i] # Garbled
      /\ \A r, q \in latestPerId(f) : r.id = q.id => r = q
      /\ \A i \in 1..Len(f) : f[i] # Garbled => \E r \in latestPerId(f) : r.id = f[i].id
  BY <1>1, LatestProperties
<1>4. \A r \in latestPerId(f) : \E i \in 1..Len(l) : l[i] = r /\ l[i] # Garbled
  BY <1>2, <1>3
<1>5. \A i \in 1..Len(l) : l[i] # Garbled => \E r \in latestPerId(f) : r.id = l[i].id
  <2> SUFFICES ASSUME NEW i \in 1..Len(l), l[i] # Garbled
               PROVE  \E r \in latestPerId(f) : r.id = l[i].id
    OBVIOUS
  <2>1. i \in 1..Len(f) /\ f[i] = l[i]
    BY <1>1
  <2> QED
    BY <1>3, <2>1
<1> QED
  BY <1>1, <1>3, <1>4, <1>5, LatestFinite

\* The five kinds of event.
LEMMA PayloadKinds ==
    ASSUME NEW p \in AllPayloads
    PROVE  \/ /\ p[1] = "relation-create" /\ p[2] \in Contents /\ p = CreateOf(p[2])
           \/ /\ p[1] = "relation-update" /\ p[2] \in RelationRef /\ p = UpdateOf(p[2])
           \/ /\ p[1] = "relation-compact" /\ p = Compaction
           \/ /\ p[1] = "lifecycle-transition"
              /\ \E s \in States, d \in Digests \cup {None} : p[2] = <<s, d>>
           \/ /\ p[1] = "artifact-write" /\ p[2] \in Digests
BY DEF AllPayloads, CreateOf, UpdateOf, Compaction, TransitionOf, ArtifactOf

\* The newest event of a kind, after one more is sealed.
LEMMA LastInAppend ==
    ASSUME NEW l \in Seq(EventRecord), NEW r \in EventRecord, NEW k
    PROVE  LastIn(Append(l, r), k) = IF r.payload[1] = k THEN r.payload[2] ELSE LastIn(l, k)
<1> DEFINE a == Append(l, r)
           E == {i \in 1..Len(l) : l[i].payload[1] = k}
           D == {i \in 1..Len(a) : a[i].payload[1] = k}
<1>1. /\ Len(l) \in Nat /\ a \in Seq(EventRecord) /\ Len(a) = Len(l) + 1
      /\ a[Len(l) + 1] = r /\ \A i \in 1..Len(l) : a[i] = l[i]
  BY AppendProperties
<1> HIDE DEF a
<1>2. /\ LastIn(a, k) = IF D = {} THEN None
                        ELSE a[CHOOSE i \in D : \A j \in D : j <= i].payload[2]
      /\ LastIn(l, k) = IF E = {} THEN None
                        ELSE l[CHOOSE i \in E : \A j \in E : j <= i].payload[2]
  BY DEF LastIn
<1>3. CASE r.payload[1] = k
  <2>1. Len(l) + 1 \in D /\ \A j \in D : j \in Nat /\ j <= Len(l) + 1
    BY <1>1, <1>3
  <2> HIDE DEF D
  <2>2. (CHOOSE i \in D : \A j \in D : j <= i) = Len(l) + 1
    <3> DEFINE m == CHOOSE i \in D : \A j \in D : j <= i
    <3>1. m \in D /\ \A j \in D : j <= m
      BY <2>1
    <3> HIDE DEF m
    <3>2. m = Len(l) + 1
      BY <1>1, <2>1, <3>1
    <3> QED
      BY <3>2 DEF m
  <2> QED
    BY <1>1, <1>2, <1>3, <2>1, <2>2 DEF a
<1>4. CASE r.payload[1] # k
  <2>1. D = E
    <3>1. \A i \in 1..Len(a) : i \in 1..Len(l) \/ i = Len(l) + 1
      BY <1>1
    <3>2. \A i \in 1..Len(l) : i \in 1..Len(a)
      BY <1>1
    <3> QED
      BY <1>1, <1>4, <3>1, <3>2
  <2>2. E # {} => (CHOOSE i \in E : \A j \in E : j <= i) \in 1..Len(l)
    <3> HAVE E # {}
    <3>1. E \in SUBSET (1..Len(l))
      OBVIOUS
    <3>2. \E i \in E : \A j \in E : j <= i
      BY <1>1, <3>1, GreatestIndex
    <3> HIDE DEF E
    <3>3. (CHOOSE i \in E : \A j \in E : j <= i) \in E
      BY <3>2
    <3> QED
      BY <3>1, <3>3
  <2> HIDE DEF D, E
  <2> QED
    BY <1>1, <1>2, <1>4, <2>1, <2>2 DEF a
<1> QED
  BY <1>3, <1>4

-----------------------------------------------------------------------------
(* The invariant of the audited writers. *)

\* The session, its append and its event go together.
Session ==
    /\ pc = "idle" <=> step = "idle"
    /\ pc = "land" => step = "ready"
    /\ pc # "idle" => event \in AllPayloads

\* Changes in force without an event yet: orphaned ones, and the one under way.
Open == orphaned \cup (IF pc = "audit" THEN {event} ELSE {})

Line(k) == k \in 1..Len(rlines) /\ rlines[k] # Garbled

\* A line for an endpoint, or one that does not parse and may have been it.
Traced(e) == \E k \in 1..Len(rlines) : Line(k) => rlines[k].content.to = e

\* What was checked before the preflight still holds when the change is written.
Checked ==
    pc = "land" =>
        /\ event[1] = "relation-update" =>
              \E k \in 1..Len(rlines) :
                 /\ Line(k) /\ rlines[k].id = event[2].id
                 /\ rlines[k].content.to = event[2].content.to
        /\ event[1] = "lifecycle-transition" /\ event[2][1] = GatedState =>
              RelationVerdict = "met" /\ ArtifactVerdict(event[2][2]) = "met"

\* What was written is there when its event is, unless a torn line took it.
Landed ==
    /\ rtail => rtorn
    /\ pc = "audit" =>
        /\ ~rtorn \/ event[1] \in {"lifecycle-transition", "artifact-write"}
              => Present(event)
        /\ event[1] = "relation-create" => Traced(event[2].to)

\* A superseding line keeps the endpoint.
SameEndpoint ==
    \A i, j \in 1..Len(rlines) :
        Line(i) /\ Line(j) /\ rlines[i].id = rlines[j].id
            => rlines[i].content.to = rlines[j].content.to

\* LogExplainsState at every moment: the event under way counts.
OpenOf(k) == \E p \in Open : p[1] = k

\* Every event on the books, open or sealed.
Known == Open \cup {sealed[i].payload : i \in 1..Len(sealed)}

PageExplained ==
    \/ OpenOf("lifecycle-transition")
    \/ LastOf("lifecycle-transition") = <<page, ref>>
    \/ LastOf("lifecycle-transition") = None /\ page = Initial /\ ref = None

ArtifactExplained ==
    OpenOf("artifact-write") \/ art.manifest = LastOf("artifact-write")

LinesExplained ==
    \A k \in 1..Len(rlines) :
        Line(k) => CreateOf(rlines[k].content) \in Known \/ UpdateOf(rlines[k]) \in Known

\* LossReported at every moment.
Accounted ==
    \A i \in 1..Len(sealed) :
        sealed[i].payload[1] = "relation-create" =>
            \/ \E j \in i..Len(sealed) : sealed[j].payload = Compaction
            \/ Compaction \in Open
            \/ Traced(sealed[i].payload[2].to)

Explained == PageExplained /\ ArtifactExplained /\ LinesExplained /\ Accounted

AuditInv ==
    EsInv /\ AuditTypeOK /\ Session /\ Checked /\ Landed /\ SameEndpoint /\ Explained

LEMMA InitAudit == AuditInit => AuditInv
<1> SUFFICES ASSUME AuditInit PROVE AuditInv
  OBVIOUS
<1> USE MutationAssumption, EventAssumption DEF AuditInit, EvInit
<1>1. /\ Len(<<>>) = 0 /\ <<>> \in Seq(EventRecord)
      /\ <<>> \in Seq(RelationRef \cup {Garbled})
  BY EmptySeq
<1>2. EvTypeOK
  <2>1. 0 \in 0..MaxIds
    OBVIOUS
  <2> QED
    BY <1>1, <2>1 DEF EvTypeOK
<1>3. EsInv
  BY <1>1, <1>2 DEF EsInv, Anchored, Unforged, IdsUpTo, SameById, Untouched, Underway,
                    eventPrevHash, verifyEventChain
<1>4. AuditTypeOK
  <2>1. {Initial} \cup OtherStates \subseteq States \cup {"absent", "unreadable"}
    OBVIOUS
  <2>2. other \in [Endpoints -> States \cup {"absent", "unreadable"}]
    BY <2>1
  <2>3. mishaps \in 0..MaxMishaps
    OBVIOUS
  <2> QED
    BY <1>1, <1>2, <2>2, <2>3 DEF AuditTypeOK
<1>5. Session /\ Checked /\ Landed /\ SameEndpoint
  BY <1>1 DEF Session, Checked, Landed, SameEndpoint
<1>6. LastOf("lifecycle-transition") = None /\ LastOf("artifact-write") = None
  BY <1>1 DEF LastOf, LastIn
<1>7. Explained
  BY <1>1, <1>6 DEF Explained, PageExplained, ArtifactExplained, LinesExplained, Accounted
<1> QED
  BY <1>3, <1>4, <1>5, <1>7 DEF AuditInv

\* What the explanation depends on.
LEMMA ExplanationKept ==
    ASSUME Explained, SameEndpoint, UNCHANGED <<rlines, sealed, page, ref>>,
           art'.manifest = art.manifest, Open' = Open
    PROVE  Explained' /\ SameEndpoint'
<1> USE DEF Line
<1>1. SameEndpoint'
  BY DEF SameEndpoint
<1>2. \A k : OpenOf(k)' = OpenOf(k)
  BY DEF OpenOf
<1>3. Known' = Known
  BY DEF Known
<1>4. \A k : LastOf(k)' = LastOf(k)
  BY DEF LastOf
<1>5. PageExplained' /\ ArtifactExplained'
  BY <1>2, <1>4 DEF Explained, PageExplained, ArtifactExplained
<1>6. LinesExplained'
  BY <1>3 DEF Explained, LinesExplained
<1>7. Accounted'
  BY DEF Explained, Accounted, Traced
<1> QED
  BY <1>1, <1>5, <1>6, <1>7 DEF Explained

\* What a verdict depends on.
LEMMA VerdictKept ==
    ASSUME UNCHANGED <<rvars, valid, other, art>>
    PROVE  /\ Lines' = Lines /\ RelationsReadable' = RelationsReadable
           /\ readRelations' = readRelations /\ LiveValid' = LiveValid
           /\ RelationVerdict' = RelationVerdict
           /\ \A d : ArtifactVerdict(d)' = ArtifactVerdict(d)
<1>1. Lines' = Lines
  BY DEF rvars, Lines
<1>2. RelationsReadable' = RelationsReadable
  BY <1>1 DEF rvars, RelationsReadable
<1>3. readRelations' = readRelations
  BY <1>1 DEF readRelations
<1>4. LiveValid' = LiveValid
  BY <1>3 DEF LiveValid, validateRelationAgainstProfile
<1>5. Qualifying' = Qualifying
  BY <1>4 DEF Qualifying
<1>6. RelationVerdict' = RelationVerdict
  BY <1>2, <1>4, <1>5 DEF RelationVerdict
<1>7. \A d : ArtifactVerdict(d)' = ArtifactVerdict(d)
  BY DEF ArtifactVerdict, ArtifactHealth
<1> QED
  BY <1>1, <1>2, <1>3, <1>4, <1>6, <1>7

\* The conditions a payload's preflight is behind.
Admitted(p) ==
    /\ p[1] = "relation-update" =>
          \E k \in 1..Len(rlines) :
             /\ Line(k) /\ rlines[k].id = p[2].id
             /\ rlines[k].content.to = p[2].content.to
    /\ p[1] = "lifecycle-transition" /\ p[2][1] = GatedState =>
          RelationVerdict = "met" /\ ArtifactVerdict(p[2][2]) = "met"

LEMMA AdmittedKept ==
    ASSUME NEW p, Admitted(p), UNCHANGED <<rvars, valid, other, art>>
    PROVE  Admitted(p)'
BY VerdictKept DEF Admitted, Line, rvars

\* A preflight: the session may now write, or there is no room.
LEMMA PreflightStep ==
    ASSUME AuditInv, NEW p \in AllPayloads, Preflight(p), Admitted(p)
    PROVE  AuditInv'
<1> USE DEF AuditInv
<1>1. /\ pc = "idle" /\ step = "idle" /\ preflightEventAppend(p)
      /\ UNCHANGED <<rvars, wiki, mishaps, hist>> /\ p \in Payloads
      /\ pc' = IF step' = "ready" THEN "land" ELSE pc
  BY LineAssumption DEF Preflight, Session
<1>2. EsInv' /\ UNCHANGED sealed
  BY <1>1, OpenStep DEF preflightEventAppend
<1>3. \/ step' = "ready" /\ event' = p /\ pc' = "land"
      \/ step' = "idle" /\ pc' = "idle"
  BY <1>1 DEF preflightEventAppend
<1>4. AuditTypeOK'
  BY <1>1, <1>2, <1>3 DEF AuditTypeOK, EsInv, rvars, wiki, hist
<1>5. Session'
  BY <1>3 DEF Session
<1>6. Checked'
  <2>1. Admitted(p)'
    BY <1>1, AdmittedKept DEF wiki
  <2> QED
    BY <1>3, <2>1 DEF Checked, Admitted
<1>7. Landed'
  BY <1>1, <1>3 DEF Landed, rvars, hist
<1>8. Open' = Open
  BY <1>1, <1>3 DEF Open, hist
<1>9. Explained' /\ SameEndpoint'
  BY <1>1, <1>2, <1>8, ExplanationKept DEF rvars, wiki
<1> QED
  BY <1>2, <1>4, <1>5, <1>6, <1>7, <1>9

\* A duplicate: the log is repaired, and nothing else.
LEMMA DuplicateStep ==
    ASSUME AuditInv, NEW c, DuplicateRelation(c)
    PROVE  AuditInv'
<1> USE DEF AuditInv
<1>1. /\ pc = "idle" /\ step = "idle" /\ Preparable /\ Repair
      /\ UNCHANGED <<head, step, event, lastId, sealed, tampered, rvars, wiki, pc,
                     mishaps, hist>>
  BY DEF DuplicateRelation
<1>2. EsInv'
  BY <1>1, RepairStep
<1>3. AuditTypeOK'
  BY <1>1, <1>2 DEF AuditTypeOK, EsInv, rvars, wiki, hist
<1>4. Session' /\ Checked' /\ Landed' /\ Open' = Open
  BY <1>1 DEF Session, Checked, Landed, Open, rvars, hist
<1>5. Explained' /\ SameEndpoint'
  BY <1>1, <1>4, ExplanationKept DEF rvars, wiki
<1> QED
  BY <1>2, <1>3, <1>4, <1>5

\* The event is appended, header and record.
LEMMA AppendStep ==
    ASSUME AuditInv, Audit
    PROVE  AuditInv'
<1> USE DEF AuditInv
<1>1. /\ pc = "audit" /\ step # "idle"
      /\ StartAppend(event) \/ WriteHeader \/ WriteRecord
      /\ UNCHANGED <<rvars, wiki, pc, mishaps, hist>>
      /\ event \in AllPayloads /\ event \in Payloads
  BY LineAssumption DEF Audit, Session
<1>2. EsInv' /\ UNCHANGED sealed /\ event' = event /\ step' # "idle"
  <2>1. CASE StartAppend(event)
    <3>1. step = "ready" /\ HasRoom(Kept)
      BY <1>1, <2>1, EsSafety DEF StartAppend
    <3> QED
      BY <1>1, <2>1, <3>1, OpenStep DEF StartAppend
  <2>2. CASE WriteHeader
    BY <1>1, <2>2, WriteHeaderStep DEF WriteHeader
  <2>3. CASE WriteRecord
    BY <1>1, <2>3, WriteRecordStep DEF WriteRecord
  <2> QED
    BY <1>1, <2>1, <2>2, <2>3
<1>3. AuditTypeOK'
  BY <1>1, <1>2 DEF AuditTypeOK, EsInv, rvars, wiki, hist
<1>4. Session' /\ Checked'
  <2>1. pc' = "audit" /\ event' \in AllPayloads
    BY <1>1, <1>2
  <2> QED
    BY <1>2, <2>1 DEF Session, Checked
<1>5. Landed'
  <2>1. Present(event)' = Present(event)
    BY <1>1, <1>2, VerdictKept DEF wiki, Present, isAlreadyApplied
  <2>2. \A e : Traced(e)' = Traced(e)
    BY <1>1 DEF Traced, Line, rvars
  <2> QED
    BY <1>1, <1>2, <2>1, <2>2 DEF Landed, rvars, hist
<1>6. Open' = Open
  BY <1>1, <1>2 DEF Open, hist
<1>7. Explained' /\ SameEndpoint'
  BY <1>1, <1>2, <1>6, ExplanationKept DEF rvars, wiki
<1> QED
  BY <1>2, <1>3, <1>4, <1>5, <1>7

\* A session ends before its event: a change that landed is orphaned.
LEMMA AbortStep ==
    ASSUME AuditInv, pc # "idle", pc' = "idle", Abort \/ TornHeader \/ TornRecord,
           UNCHANGED <<wiki, rlines>>, mishaps' \in 0..MaxMishaps,
           rheader' \in {"absent", "ok", "torn"}, rtail' \in BOOLEAN, rtorn' \in BOOLEAN,
           rtail' => rtorn', Open' = Open
    PROVE  AuditInv'
<1> USE DEF AuditInv
<1>1. EsInv' /\ UNCHANGED sealed /\ step' = "idle" /\ event' = NoEvent
  BY CrashStep DEF Abort, TornHeader, TornRecord
<1>2. orphaned' \subseteq Payloads
  BY LineAssumption DEF Open, Session, AuditTypeOK
<1>3. AuditTypeOK'
  BY <1>1, <1>2 DEF AuditTypeOK, EsInv, wiki
<1>4. Session' /\ Checked' /\ Landed'
  BY <1>1 DEF Session, Checked, Landed
<1>5. Explained' /\ SameEndpoint'
  BY <1>1, ExplanationKept DEF wiki
<1> QED
  BY <1>1, <1>3, <1>4, <1>5

LEMMA FailureStep ==
    ASSUME AuditInv, RelationStoreFull \/ Fail \/ FailTornRelation
    PROVE  AuditInv'
<1> USE DEF AuditInv
<1>0. rheader \in {"absent", "ok", "torn"} /\ mishaps \in 0..MaxMishaps
  BY DEF AuditTypeOK
<1>1. CASE RelationStoreFull
  BY <1>0, <1>1, AbortStep
     DEF RelationStoreFull, Appending, Open, Landed, AuditTypeOK, rvars, hist
<1>2. CASE Fail
  <2>1. mishaps' \in 0..MaxMishaps
    BY <1>0, <1>2, MutationAssumption DEF Fail, Mishap
  <2>2. Open' = Open
    BY <1>2 DEF Fail, Open
  <2> QED
    BY <1>0, <1>2, <2>1, <2>2, AbortStep DEF Fail, Landed, AuditTypeOK, rvars
<1>3. CASE FailTornRelation
  <2>1. mishaps' \in 0..MaxMishaps
    BY <1>0, <1>3, MutationAssumption DEF FailTornRelation, Mishap
  <2>2. Open' = Open
    BY <1>3 DEF FailTornRelation, Appending, Open
  <2> QED
    BY <1>0, <1>3, <2>1, <2>2, AbortStep DEF FailTornRelation, Appending
<1> QED
  BY <1>1, <1>2, <1>3

\* Between sessions.
LEMMA OutsideStep ==
    ASSUME AuditInv, Outside
    PROVE  AuditInv'
<1> USE DEF AuditInv
<1>1. /\ pc = "idle" /\ step = "idle" /\ UNCHANGED <<rvars, page, ref, pc, hist>>
      /\ UNCHANGED esvars \/ Tamper
  BY DEF Outside, Session
<1>2. EsInv' /\ UNCHANGED <<sealed, step>>
  BY <1>1, EsStutter, TamperStep DEF esvars, Tamper
<1>3. valid' \subseteq Attributes
  BY DEF Outside, AuditTypeOK
<1>4. other' \in [Endpoints -> States \cup {"absent", "unreadable"}]
  BY DEF Outside, AuditTypeOK
<1>5. /\ art' \in [body : Digests \cup {None, "unreadable"}, manifest : Digests \cup {None}]
      /\ art'.manifest = art.manifest
  BY DEF Outside, AuditTypeOK
<1>6. mishaps' \in 0..MaxMishaps
  BY MutationAssumption DEF Outside, Mishap, AuditTypeOK
<1>7. AuditTypeOK'
  BY <1>1, <1>2, <1>3, <1>4, <1>5, <1>6 DEF AuditTypeOK, EsInv, rvars, hist
<1>8. Session' /\ Checked' /\ Landed' /\ Open' = Open
  BY <1>1, <1>2 DEF Session, Checked, Landed, Open, rvars, hist
<1>9. Explained' /\ SameEndpoint'
  BY <1>1, <1>2, <1>5, <1>8, ExplanationKept DEF rvars
<1> QED
  BY <1>2, <1>7, <1>8, <1>9

-----------------------------------------------------------------------------
(* The change lands, and its event is sealed. *)

\* The explanation of a wiki whose last change has its event under way.
LEMMA LandStep ==
    ASSUME AuditInv, pc = "land", Land, AuditTypeOK', Landed', SameEndpoint',
           \/ /\ UNCHANGED <<page, ref>>
           \/ event[1] = "lifecycle-transition",
           \/ art'.manifest = art.manifest
           \/ event[1] = "artifact-write",
           LinesExplained',
           \/ \A e : Traced(e) => Traced(e)'
           \/ event = Compaction
    PROVE  AuditInv'
<1> USE DEF AuditInv
<1>1. /\ pc' = "audit" /\ step = "ready"
      /\ UNCHANGED <<esvars, mishaps, hist>> /\ event' = event /\ event \in AllPayloads
      /\ sealed' = sealed /\ orphaned' = orphaned /\ step' = step
  BY DEF Land, Session, esvars, hist
<1>2. EsInv'
  BY <1>1, EsStutter
<1>3. Session' /\ Checked'
  BY <1>1 DEF Session, Checked
<1>4. Open' = Open \cup {event}
  BY <1>1 DEF Open
<1>5. \A k : OpenOf(k) \/ k = event[1] => OpenOf(k)'
  BY <1>4 DEF OpenOf
<1>6. \A k : LastOf(k)' = LastOf(k)
  BY <1>1 DEF LastOf
<1>7. PageExplained'
  BY <1>5, <1>6 DEF Explained, PageExplained
<1>8. ArtifactExplained'
  BY <1>5, <1>6 DEF Explained, ArtifactExplained
<1>9. Accounted'
  BY <1>1, <1>4 DEF Explained, Accounted
<1> QED
  BY <1>1, <1>2, <1>3, <1>7, <1>8, <1>9 DEF Explained

LEMMA WritePageStep ==
    ASSUME AuditInv, WritePage
    PROVE  AuditInv'
<1> USE DEF AuditInv
<1>1. /\ pc = "land" /\ event[1] = "lifecycle-transition" /\ Land
      /\ page' = event[2][1] /\ ref' = event[2][2]
      /\ UNCHANGED <<rvars, valid, other, art>> /\ event \in AllPayloads
      /\ UNCHANGED <<esvars, mishaps, hist>> /\ pc' = "audit" /\ event' = event
  BY DEF WritePage, Session, Land, esvars
<1>2. PICK s \in States, d \in Digests \cup {None} : event[2] = <<s, d>>
  BY <1>1, PayloadKinds
<1>3. page' = s /\ ref' = d
  BY <1>1, <1>2
<1>4. EvTypeOK'
  BY <1>1, EsStutter DEF EsInv
<1>5. AuditTypeOK'
  BY <1>1, <1>3, <1>4 DEF AuditTypeOK, rvars, hist
<1>6. Present(event)'
  BY <1>1, <1>2, <1>3 DEF Present
<1>7. Landed'
  BY <1>1, <1>6 DEF Landed, rvars, hist
<1>8. UNCHANGED <<rlines, sealed, orphaned>>
  BY <1>1 DEF rvars, esvars, hist
<1>9. SameEndpoint'
  BY <1>8 DEF SameEndpoint, Line
<1>10. LinesExplained'
  <2>1. Open \subseteq Open'
    BY <1>1, <1>8 DEF Open
  <2>2. Known \subseteq Known'
    BY <1>8, <2>1 DEF Known
  <2> QED
    BY <1>8, <2>2 DEF Explained, LinesExplained, Line
<1>11. \A e : Traced(e) => Traced(e)'
  BY <1>8 DEF Traced, Line
<1> QED
  BY <1>1, <1>5, <1>7, <1>9, <1>10, <1>11, LandStep

LEMMA WriteArtifactStep ==
    ASSUME AuditInv, WriteArtifact
    PROVE  AuditInv'
<1> USE DEF AuditInv
<1>1. /\ pc = "land" /\ event[1] = "artifact-write" /\ Land
      /\ art' = [body |-> event[2], manifest |-> event[2]]
      /\ UNCHANGED <<rvars, valid, other, page, ref>> /\ event \in AllPayloads
      /\ UNCHANGED <<esvars, mishaps, hist>> /\ pc' = "audit" /\ event' = event
  BY DEF WriteArtifact, Session, Land, esvars
<1>2. event[2] \in Digests
  BY <1>1, PayloadKinds
<1>4. EvTypeOK'
  BY <1>1, EsStutter DEF EsInv
<1>5. AuditTypeOK'
  BY <1>1, <1>2, <1>4 DEF AuditTypeOK, rvars, hist
<1>6. Present(event)'
  BY <1>1 DEF Present, isAlreadyApplied
<1>7. Landed'
  BY <1>1, <1>6 DEF Landed, rvars, hist
<1>8. UNCHANGED <<rlines, sealed, orphaned>>
  BY <1>1 DEF rvars, esvars, hist
<1>9. SameEndpoint'
  BY <1>8 DEF SameEndpoint, Line
<1>10. LinesExplained'
  <2>1. Open \subseteq Open'
    BY <1>1, <1>8 DEF Open
  <2>2. Known \subseteq Known'
    BY <1>8, <2>1 DEF Known
  <2> QED
    BY <1>8, <2>2 DEF Explained, LinesExplained, Line
<1>11. \A e : Traced(e) => Traced(e)'
  BY <1>8 DEF Traced, Line
<1> QED
  BY <1>1, <1>5, <1>7, <1>9, <1>10, <1>11, LandStep

\* The relation file as it is read.
LEMMA ReadProperties ==
    ASSUME AuditTypeOK
    PROVE  /\ Lines \in Seq(Row) /\ Len(Lines) = IF rtail THEN Len(rlines) + 1 ELSE Len(rlines)
           /\ rlines \in Seq(Row) /\ Len(rlines) \in Nat
           /\ rtail => Lines[Len(Lines)] = Garbled
           /\ \A i \in 1..Len(rlines) : i \in 1..Len(Lines) /\ Lines[i] = rlines[i]
           /\ \A k \in 1..Len(rlines) : Line(k) => rlines[k] \in RelationRef
           /\ readRelations \subseteq RelationRef /\ IsFiniteSet(readRelations)
           /\ \A r \in readRelations : \E k \in 1..Len(rlines) : Line(k) /\ rlines[k] = r
           /\ \A r, q \in readRelations : r.id = q.id => r = q
           /\ \A k \in 1..Len(rlines) : Line(k) =>
                 \E r \in readRelations : r.id = rlines[k].id
<1>1. rlines \in Seq(Row) /\ rtail \in BOOLEAN
  BY DEF AuditTypeOK, Row
<1>2. Lines = FileLines(rlines, rtail)
  BY DEF Lines, FileLines
<1>3. Len(rlines) \in Nat /\ \A i \in 1..Len(rlines) : rlines[i] \in Row
  BY <1>1, ElementOfSeq
<1> DEFINE R == latestPerId(Lines)
<1>4. /\ Lines \in Seq(Row) /\ Len(Lines) = IF rtail THEN Len(rlines) + 1 ELSE Len(rlines)
      /\ rtail => Lines[Len(Lines)] = Garbled
      /\ \A i \in 1..Len(rlines) : i \in 1..Len(Lines) /\ Lines[i] = rlines[i]
      /\ R \subseteq RelationRef /\ IsFiniteSet(R)
      /\ \A r \in R : \E i \in 1..Len(rlines) : rlines[i] = r /\ rlines[i] # Garbled
      /\ \A r, q \in R : r.id = q.id => r = q
      /\ \A i \in 1..Len(rlines) : rlines[i] # Garbled => \E r \in R : r.id = rlines[i].id
  BY <1>1, <1>2, FileProperties
<1>5. readRelations = R
  BY DEF readRelations
<1> HIDE DEF R
<1>6. \A r \in R : \E k \in 1..Len(rlines) : Line(k) /\ rlines[k] = r
  BY <1>4 DEF Line
<1>7. \A k \in 1..Len(rlines) : Line(k) => \E r \in R : r.id = rlines[k].id
  BY <1>4 DEF Line
<1>8. \A k \in 1..Len(rlines) : Line(k) => rlines[k] \in RelationRef
  BY <1>3 DEF Line, Row
<1> QED
  BY <1>1, <1>3, <1>4, <1>5, <1>6, <1>7, <1>8

LEMMA WriteCompactedStep ==
    ASSUME AuditInv, WriteCompacted
    PROVE  AuditInv'
<1> USE DEF AuditInv
<1>1. /\ pc = "land" /\ event[1] = "relation-compact" /\ Land
      /\ rheader' = "ok" /\ rtail' = FALSE /\ rlines' = SetToSeq(LiveValid)
      /\ UNCHANGED wiki /\ event \in AllPayloads
      /\ UNCHANGED <<esvars, mishaps, hist>> /\ pc' = "audit" /\ event' = event
  BY DEF WriteCompacted, Session, Land, esvars
<1>2. event = Compaction
  BY <1>1, PayloadKinds
<1>3. LiveValid \in SUBSET readRelations
  BY DEF LiveValid
<1>4. /\ readRelations \subseteq RelationRef /\ IsFiniteSet(readRelations)
      /\ \A r, q \in readRelations : r.id = q.id => r = q
      /\ \A r \in readRelations : \E k \in 1..Len(rlines) : Line(k) /\ rlines[k] = r
  BY ReadProperties
<1>5. /\ rlines' \in Seq(Row) /\ latestPerId(rlines') = LiveValid
      /\ \A i \in 1..Len(rlines') : rlines'[i] \in LiveValid
  <2>1. IsFiniteSet(LiveValid) /\ LiveValid \in SUBSET RelationRef
        /\ \A r, q \in LiveValid : r.id = q.id => r = q
    BY <1>3, <1>4, FS_Subset
  <2> QED
    BY <1>1, <2>1, CompactReads
<1>6. readRelations' = LiveValid
  BY <1>1, <1>5 DEF readRelations, Lines
<1>7. LiveValid' = LiveValid
  <2>1. \A r : validateRelationAgainstProfile(r)' = validateRelationAgainstProfile(r)
    BY <1>1 DEF validateRelationAgainstProfile, wiki
  <2>2. \A r \in LiveValid : validateRelationAgainstProfile(r)
    BY DEF LiveValid
  <2>3. LiveValid' = {r \in readRelations' : validateRelationAgainstProfile(r)'}
    BY DEF LiveValid
  <2> QED
    BY <1>6, <2>1, <2>2, <2>3
<1>8. EvTypeOK'
  BY <1>1, EsStutter DEF EsInv
<1>9. AuditTypeOK'
  BY <1>1, <1>5, <1>8 DEF AuditTypeOK, wiki, hist, Row
<1>10. Present(event)'
  BY <1>1, <1>6, <1>7 DEF Present
<1>11. Landed'
  BY <1>1, <1>2, <1>10 DEF Landed, Compaction
<1>12. \A i \in 1..Len(rlines') : \E k \in 1..Len(rlines) : Line(k) /\ rlines[k] = rlines'[i]
  BY <1>3, <1>4, <1>5
<1>13. SameEndpoint'
  <2> SUFFICES ASSUME NEW i \in 1..Len(rlines'), NEW j \in 1..Len(rlines'),
                      rlines'[i].id = rlines'[j].id
               PROVE  rlines'[i].content.to = rlines'[j].content.to
    BY DEF SameEndpoint, Line
  <2> QED
    BY <1>12 DEF SameEndpoint
<1>14. sealed' = sealed /\ orphaned' = orphaned
  BY <1>1 DEF esvars, hist
<1>15. LinesExplained'
  <2>1. Open \subseteq Open'
    BY <1>1, <1>14 DEF Open
  <2>2. Known \subseteq Known'
    BY <1>14, <2>1 DEF Known
  <2> SUFFICES ASSUME NEW i \in 1..Len(rlines')
               PROVE  CreateOf(rlines'[i].content) \in Known' \/ UpdateOf(rlines'[i]) \in Known'
    BY DEF LinesExplained, CreateOf, UpdateOf
  <2>3. PICK k \in 1..Len(rlines) : Line(k) /\ rlines[k] = rlines'[i]
    BY <1>12
  <2>4. CreateOf(rlines[k].content) \in Known \/ UpdateOf(rlines[k]) \in Known
    BY <2>3 DEF Explained, LinesExplained
  <2> QED
    BY <2>2, <2>3, <2>4
<1> QED
  BY <1>1, <1>2, <1>9, <1>11, <1>13, <1>15, LandStep DEF wiki

\* One line more: a record, or the torn line it joins.
LEMMA WriteRelationStep ==
    ASSUME AuditInv, NEW i \in RelationIds, WriteRelation(i)
    PROVE  AuditInv'
<1> USE DEF AuditInv
<1> DEFINE row == IF rtail THEN Garbled ELSE NewLine(i)
           n == Len(rlines) + 1
<1>1. /\ pc = "land" /\ event[1] \in {"relation-create", "relation-update"} /\ Land
      /\ event[1] = "relation-create" => i \notin UsedIds
      /\ rheader' = IF rheader = "absent" THEN "ok" ELSE rheader
      /\ rlines' = Append(rlines, row) /\ rtail' = FALSE
      /\ UNCHANGED wiki /\ event \in AllPayloads
      /\ UNCHANGED <<esvars, mishaps, hist>> /\ pc' = "audit" /\ event' = event
  BY DEF WriteRelation, Appending, appendLine, Session, Land, esvars
<1>2. /\ NewLine(i) \in RelationRef
      /\ event[1] = "relation-create" =>
            /\ event[2] \in Contents /\ event = CreateOf(event[2])
            /\ NewLine(i).id = i /\ NewLine(i).content = event[2]
      /\ event[1] = "relation-update" =>
            /\ event[2] \in RelationRef /\ event = UpdateOf(event[2])
            /\ NewLine(i) = event[2]
  BY <1>1, PayloadKinds DEF NewLine, RelationRef
<1>3. row \in Row /\ (row # Garbled => ~rtail /\ row = NewLine(i))
  BY <1>2 DEF Row
<1> HIDE DEF row
<1>4. /\ rlines' \in Seq(Row) /\ Len(rlines') = n /\ rlines'[n] = row /\ rlines' # <<>>
      /\ \A k \in 1..Len(rlines) : rlines'[k] = rlines[k]
      /\ Len(rlines) \in Nat
  <2>1. rlines \in Seq(Row)
    BY DEF AuditTypeOK, Row
  <2> QED
    BY <1>1, <1>3, <2>1, AppendProperties
<1>5. \A k \in 1..Len(rlines') : k = n \/ k \in 1..Len(rlines)
  BY <1>4
<1>6. n \in 1..Len(rlines') /\ \A k \in 1..Len(rlines) : k \in 1..Len(rlines')
  BY <1>4
<1>7. EvTypeOK'
  BY <1>1, EsStutter DEF EsInv
<1>8. AuditTypeOK'
  <2>1. rheader' \in {"absent", "ok", "torn"}
    BY <1>1 DEF AuditTypeOK
  <2> QED
    BY <1>1, <1>4, <1>7, <2>1 DEF AuditTypeOK, wiki, hist, Row
<1> HIDE DEF n
<1>9. sealed' = sealed /\ orphaned' = orphaned /\ rtorn' = rtorn
  BY <1>1 DEF esvars, hist
<1>10. \A e : Traced(e) => Traced(e)'
  BY <1>4, <1>6 DEF Traced, Line
<1>11. Landed'
  <2>1. event[1] = "relation-create" => Traced(event[2].to)'
    BY <1>1, <1>2, <1>3, <1>4, <1>6 DEF Traced, Line
  <2>2. ASSUME ~rtorn PROVE Present(event)'
    <3>1. ~rtail /\ row = NewLine(i) /\ row # Garbled
      BY <1>2, <2>2, RowFields DEF Landed, row
    <3>2. rlines'[n] \in latestPerId(rlines')
      BY <1>4, <3>1, LatestProperties
    <3>3. NewLine(i) \in readRelations'
      BY <1>1, <1>4, <3>1, <3>2 DEF readRelations, Lines
    <3> QED
      BY <1>1, <1>2, <3>3 DEF Present
  <2> QED
    BY <1>1, <1>9, <2>1, <2>2 DEF Landed
<1>12. ASSUME row # Garbled, NEW k \in 1..Len(rlines), Line(k), rlines[k].id = row.id
       PROVE  rlines[k].content.to = row.content.to
  <2>1. CASE event[1] = "relation-create"
    <3>1. rlines[k].id \in UsedIds
      <4>1. k \in 1..Len(Lines) /\ Lines[k] = rlines[k] /\ Lines[k] # Garbled
        BY <1>12, ReadProperties DEF Line
      <4> QED
        BY <4>1 DEF UsedIds
    <3> QED
      BY <1>1, <1>2, <1>3, <1>12, <2>1, <3>1
  <2>2. CASE event[1] = "relation-update"
    <3>1. PICK j \in 1..Len(rlines) : /\ Line(j) /\ rlines[j].id = event[2].id
                                     /\ rlines[j].content.to = event[2].content.to
      BY <1>1, <2>2 DEF Checked
    <3>2. row = event[2]
      BY <1>2, <1>3, <1>12, <2>2
    <3> QED
      BY <1>12, <3>1, <3>2 DEF SameEndpoint
  <2> QED
    BY <1>1, <2>1, <2>2
<1>13. SameEndpoint'
  <2> SUFFICES ASSUME NEW j \in 1..Len(rlines'), NEW k \in 1..Len(rlines'),
                      rlines'[j] # Garbled, rlines'[k] # Garbled,
                      rlines'[j].id = rlines'[k].id
               PROVE  rlines'[j].content.to = rlines'[k].content.to
    BY DEF SameEndpoint, Line
  <2>1. CASE j \in 1..Len(rlines) /\ k \in 1..Len(rlines)
    BY <1>4, <2>1 DEF SameEndpoint, Line
  <2>2. CASE j = n /\ k \in 1..Len(rlines)
    <3>1. row # Garbled /\ Line(k) /\ rlines[k].id = row.id
      BY <1>4, <2>2 DEF Line
    <3> QED
      BY <1>4, <1>12, <2>2, <3>1
  <2>3. CASE k = n /\ j \in 1..Len(rlines)
    <3>1. row # Garbled /\ Line(j) /\ rlines[j].id = row.id
      BY <1>4, <2>3 DEF Line
    <3> QED
      BY <1>4, <1>12, <2>3, <3>1
  <2> QED
    BY <1>5, <2>1, <2>2, <2>3
<1>14. LinesExplained'
  <2>1. Open \subseteq Open' /\ event \in Open'
    BY <1>1, <1>9 DEF Open
  <2>2. Known \subseteq Known'
    BY <1>9, <2>1 DEF Known
  <2>3. event \in Known'
    BY <2>1 DEF Known
  <2> SUFFICES ASSUME NEW k \in 1..Len(rlines'), rlines'[k] # Garbled
               PROVE  CreateOf(rlines'[k].content) \in Known' \/ UpdateOf(rlines'[k]) \in Known'
    BY DEF LinesExplained, Line, CreateOf, UpdateOf
  <2>4. CASE k \in 1..Len(rlines)
    <3>1. CreateOf(rlines[k].content) \in Known \/ UpdateOf(rlines[k]) \in Known
      BY <1>4, <2>4 DEF Explained, LinesExplained, Line
    <3> QED
      BY <1>4, <2>2, <2>4, <3>1
  <2>5. CASE k = n
    <3>1. rlines'[k] = NewLine(i)
      BY <1>3, <1>4, <2>5
    <3>2. event = CreateOf(rlines'[k].content) \/ event = UpdateOf(rlines'[k])
      BY <1>1, <1>2, <3>1
    <3> QED
      BY <2>3, <3>2
  <2> QED
    BY <1>5, <2>4, <2>5
<1>15. event[1] # "lifecycle-transition" /\ event[1] # "artifact-write"
  BY <1>1
<1> QED
  BY <1>1, <1>8, <1>10, <1>11, <1>13, <1>14, LandStep DEF wiki

\* The seal: the change has its event, and what it replaces is no longer open.
LEMMA SealedStep ==
    ASSUME AuditInv, AuditSealed
    PROVE  AuditInv'
<1> USE DEF AuditInv
<1> DEFINE n == Len(sealed) + 1
           rec == log[Len(log)]
<1>1. /\ pc = "audit" /\ sealHeadAnchor /\ pc' = "idle" /\ step' = "idle"
      /\ orphaned' = {q \in orphaned : ~Supersedes(event, q)}
      /\ UNCHANGED <<rvars, wiki, mishaps, rtorn>> /\ event \in AllPayloads
  BY DEF AuditSealed, Session, sealHeadAnchor
<1>2. /\ EsInv' /\ sealed' = Append(sealed, rec) /\ rec \in EventRecord
      /\ rec.payload = event
  BY <1>1, SealStep
<1> HIDE DEF rec
<1>3. /\ sealed' \in Seq(EventRecord) /\ Len(sealed') = n /\ n \in 1..n
      /\ \A i \in 1..Len(sealed) : sealed'[i] = sealed[i] /\ i \in 1..n
      /\ sealed'[n] = rec /\ Len(sealed) \in Nat
  <2>1. sealed \in Seq(EventRecord)
    BY DEF EsInv, EvTypeOK
  <2> QED
    BY <1>2, <2>1, AppendProperties
<1>4. AuditTypeOK'
  BY <1>1, <1>2 DEF AuditTypeOK, EsInv, rvars, wiki
<1>5. Session' /\ Checked' /\ Landed'
  BY <1>1 DEF Session, Checked, Landed, rvars
<1>6. UNCHANGED <<rlines, page, ref, art>>
  BY <1>1 DEF rvars, wiki
<1>7. SameEndpoint'
  BY <1>6 DEF SameEndpoint, Line
<1>8. Open = orphaned \cup {event} /\ Open' = orphaned'
  BY <1>1 DEF Open
<1>9. ASSUME NEW p \in Open, p # event,
             p[1] # event[1] \/ p[1] \notin {"lifecycle-transition", "artifact-write"}
      PROVE  p \in Open'
  BY <1>1, <1>8, <1>9 DEF Supersedes
<1>10. \A k : LastOf(k)' = IF event[1] = k THEN event[2] ELSE LastOf(k)
  <2>1. sealed \in Seq(EventRecord)
    BY DEF EsInv, EvTypeOK
  <2>2. \A k : LastIn(sealed', k) = IF rec.payload[1] = k THEN rec.payload[2]
                                    ELSE LastIn(sealed, k)
    BY <1>2, <2>1, LastInAppend
  <2> QED
    BY <1>2, <2>2 DEF LastOf
<1>11. \A k : OpenOf(k) /\ k # event[1] => OpenOf(k)'
  BY <1>9 DEF OpenOf
<1>12. PageExplained'
  <2>1. CASE event[1] = "lifecycle-transition"
    <3>1. event[2] = <<page, ref>>
      BY <1>1, <2>1 DEF Landed, Present
    <3> QED
      BY <1>6, <1>10, <2>1, <3>1 DEF PageExplained
  <2>2. CASE event[1] # "lifecycle-transition"
    BY <1>6, <1>10, <1>11, <2>2 DEF Explained, PageExplained
  <2> QED
    BY <2>1, <2>2
<1>13. ArtifactExplained'
  <2>1. CASE event[1] = "artifact-write"
    <3>1. art.manifest = event[2]
      BY <1>1, <2>1 DEF Landed, Present, isAlreadyApplied
    <3> QED
      BY <1>6, <1>10, <2>1, <3>1 DEF ArtifactExplained
  <2>2. CASE event[1] # "artifact-write"
    BY <1>6, <1>10, <1>11, <2>2 DEF Explained, ArtifactExplained
  <2> QED
    BY <2>1, <2>2
<1>14. LinesExplained'
  <2>1. event \in Known'
    BY <1>2, <1>3 DEF Known
  <2>2. \A i \in 1..Len(sealed) : sealed[i].payload \in Known'
    BY <1>3 DEF Known
  <2>3. ASSUME NEW p \in Known,
               p[1] \notin {"lifecycle-transition", "artifact-write"}
        PROVE  p \in Known'
    <3>1. CASE p = event
      BY <2>1, <3>1
    <3>2. CASE p # event /\ p \in Open
      BY <1>9, <2>3, <3>2 DEF Known
    <3>3. CASE p \notin Open
      BY <2>2, <3>3 DEF Known
    <3> QED
      BY <3>1, <3>2, <3>3
  <2> SUFFICES ASSUME NEW k \in 1..Len(rlines), Line(k)
               PROVE  CreateOf(rlines[k].content) \in Known' \/ UpdateOf(rlines[k]) \in Known'
    BY <1>6 DEF LinesExplained, Line, CreateOf, UpdateOf
  <2>4. CreateOf(rlines[k].content) \in Known \/ UpdateOf(rlines[k]) \in Known
    BY DEF Explained, LinesExplained
  <2>5. /\ CreateOf(rlines[k].content)[1] = "relation-create"
        /\ UpdateOf(rlines[k])[1] = "relation-update"
    BY DEF CreateOf, UpdateOf
  <2> QED
    BY <2>3, <2>4, <2>5
<1>15. Accounted'
  <2>1. \A e : Traced(e) => Traced(e)'
    BY <1>6 DEF Traced, Line
  <2> SUFFICES ASSUME NEW i \in 1..n, sealed'[i].payload[1] = "relation-create"
               PROVE  \/ \E j \in i..n : sealed'[j].payload = Compaction
                      \/ Compaction \in Open'
                      \/ \E e : e = sealed'[i].payload[2].to /\ Traced(e)'
    BY <1>3 DEF Accounted, Compaction, Traced
  <2>2. CASE i = n
    <3>1. Traced(event[2].to) /\ sealed'[i].payload = event
      BY <1>1, <1>2, <1>3, <2>2 DEF Landed
    <3> QED
      BY <2>1, <3>1
  <2>3. CASE i # n
    <3>1. i \in 1..Len(sealed) /\ sealed'[i] = sealed[i]
      BY <1>3, <2>3
    <3>2. CASE \E j \in i..Len(sealed) : sealed[j].payload = Compaction
      <4>1. PICK j \in i..Len(sealed) : sealed[j].payload = Compaction
        BY <3>2
      <4>2. j \in 1..Len(sealed) /\ j \in i..n
        BY <1>3, <3>1
      <4> QED
        BY <1>3, <4>1, <4>2
    <3>3. CASE Compaction \in Open
      <4>1. CASE event = Compaction
        <5>1. n \in i..n
          BY <1>3
        <5> QED
          BY <1>2, <1>3, <4>1, <5>1
      <4>2. CASE event # Compaction
        <5>1. Compaction[1] = "relation-compact"
          BY DEF Compaction
        <5> QED
          BY <1>9, <3>3, <4>2, <5>1
      <4> QED
        BY <4>1, <4>2
    <3>4. CASE Traced(sealed[i].payload[2].to)
      BY <2>1, <3>1, <3>4
    <3> QED
      BY <3>1, <3>2, <3>3, <3>4 DEF Explained, Accounted
  <2> QED
    BY <2>2, <2>3
<1> QED
  BY <1>2, <1>4, <1>5, <1>7, <1>12, <1>13, <1>14, <1>15 DEF Explained

\* Every preflight is behind the condition of its payload.
LEMMA WriterStep ==
    ASSUME AuditInv,
           \/ \E c \in Contents : applyRelationLocked(c) \/ applyTrustedRelations(c)
           \/ \E r \in RelationRef : updateRelation(r)
           \/ compactRelations
           \/ \E s \in States, d \in Digests \cup {None} : applyLifecycleLocked(s, d)
           \/ \E d \in Digests : applyArtifactLocked(d)
    PROVE  AuditInv'
<1>1. CASE \E c \in Contents : applyRelationLocked(c) \/ applyTrustedRelations(c)
  <2>1. PICK c \in Contents : appendRelationLocked(c)
    BY <1>1 DEF applyRelationLocked, applyTrustedRelations
  <2>2. CreateOf(c) \in AllPayloads
    BY DEF AllPayloads
  <2>3. Admitted(CreateOf(c))
    BY DEF Admitted, CreateOf
  <2> QED
    BY <2>1, <2>2, <2>3, PreflightStep DEF appendRelationLocked
<1>2. CASE \E r \in RelationRef : updateRelation(r)
  <2>1. PICK r \in RelationRef : updateRelation(r)
    BY <1>2
  <2>2. UpdateOf(r) \in AllPayloads
    BY DEF AllPayloads
  <2>3. Admitted(UpdateOf(r))
    <3>1. PICK old \in readRelations : old.id = r.id /\ old.content.to = r.content.to
      BY <2>1 DEF updateRelation
    <3>2. PICK k \in 1..Len(rlines) : Line(k) /\ rlines[k] = old
      BY ReadProperties DEF AuditInv
    <3> QED
      BY <3>1, <3>2 DEF Admitted, UpdateOf
  <2> QED
    BY <2>1, <2>2, <2>3, PreflightStep DEF updateRelation
<1>3. CASE compactRelations
  <2>1. Compaction \in AllPayloads
    BY DEF AllPayloads
  <2>2. Admitted(Compaction)
    BY DEF Admitted, Compaction
  <2> QED
    BY <1>3, <2>1, <2>2, PreflightStep DEF compactRelations
<1>4. CASE \E s \in States, d \in Digests \cup {None} : applyLifecycleLocked(s, d)
  <2>1. PICK s \in States, d \in Digests \cup {None} : applyLifecycleLocked(s, d)
    BY <1>4
  <2>2. PICK e \in Digests \cup {None} : e = Evidence(s, d)
    BY DEF Evidence, AuditInv, AuditTypeOK
  <2>3. TransitionOf(s, e) \in AllPayloads
    BY DEF AllPayloads
  <2>4. Admitted(TransitionOf(s, e))
    BY <2>1, <2>2 DEF applyLifecycleLocked, enforceGatedStateEntry, Admitted, TransitionOf
  <2> QED
    BY <2>1, <2>2, <2>3, <2>4, PreflightStep DEF applyLifecycleLocked
<1>5. CASE \E d \in Digests : applyArtifactLocked(d)
  <2>1. PICK d \in Digests : applyArtifactLocked(d)
    BY <1>5
  <2>2. ArtifactOf(d) \in AllPayloads
    BY DEF AllPayloads
  <2>3. Admitted(ArtifactOf(d))
    BY DEF Admitted, ArtifactOf
  <2> QED
    BY <2>1, <2>2, <2>3, PreflightStep DEF applyArtifactLocked
<1> QED
  BY <1>1, <1>2, <1>3, <1>4, <1>5

LEMMA AuditStep == AuditInv /\ [AuditNext]_auditVars => AuditInv'
<1> SUFFICES ASSUME AuditInv, [AuditNext]_auditVars PROVE AuditInv'
  OBVIOUS
<1>1. ASSUME NEW c \in Contents, DuplicateRelation(c) PROVE AuditInv'
  BY <1>1, DuplicateStep
<1>2. ASSUME NEW i \in RelationIds, WriteRelation(i) PROVE AuditInv'
  BY <1>2, WriteRelationStep
<1>3. CASE WriteCompacted \/ WritePage \/ WriteArtifact
  BY <1>3, WriteCompactedStep, WritePageStep, WriteArtifactStep
<1>4. CASE Audit \/ AuditSealed
  BY <1>4, AppendStep, SealedStep
<1>5. CASE RelationStoreFull \/ Fail \/ FailTornRelation \/ Outside
  BY <1>5, FailureStep, OutsideStep
<1>6. CASE UNCHANGED auditVars
  <2>1. /\ UNCHANGED <<rvars, valid, other, art, page, ref, pc, mishaps, orphaned, rtorn>>
        /\ UNCHANGED esvars
    BY <1>6 DEF auditVars, wiki, hist
  <2>2. UNCHANGED <<step, event, sealed, rlines, rtail, rheader>>
    BY <2>1 DEF esvars, rvars
  <2>3. EsInv'
    BY <2>1, EsStutter DEF AuditInv
  <2>4. AuditTypeOK' /\ Session'
    BY <2>1, <2>2, <2>3 DEF AuditInv, AuditTypeOK, EsInv, Session
  <2>5. Checked'
    BY <2>1, <2>2, VerdictKept DEF AuditInv, Checked, Line
  <2>6. Landed'
    <3>1. Present(event)' = Present(event)
      BY <2>1, <2>2, VerdictKept DEF Present, isAlreadyApplied
    <3> QED
      BY <2>1, <2>2, <3>1 DEF AuditInv, Landed, Traced, Line
  <2>7. Explained' /\ SameEndpoint'
    BY <2>1, <2>2, ExplanationKept DEF AuditInv, Open
  <2> QED
    BY <2>3, <2>4, <2>5, <2>6, <2>7 DEF AuditInv
<1> QED
  BY <1>1, <1>2, <1>3, <1>4, <1>5, <1>6, WriterStep DEF AuditNext

\* What the runs check follows.
LEMMA AuditSafety == AuditInv => AuditSound
<1> SUFFICES ASSUME AuditInv PROVE AuditSound
  OBVIOUS
<1> USE DEF AuditInv
<1>1. /\ SealedKept /\ AppendRecovers /\ TamperReported /\ PreflightSuffices
  BY EsSafety DEF PreflightSuffices
<1>2. LogExplainsState
  <2> SUFFICES ASSUME pc = "idle"
               PROVE  /\ \/ Orphan("lifecycle-transition")
                         \/ LastOf("lifecycle-transition") = <<page, ref>>
                         \/ LastOf("lifecycle-transition") = None
                            /\ page = Initial /\ ref = None
                      /\ Orphan("artifact-write") \/ art.manifest = LastOf("artifact-write")
                      /\ RelationsReadable => \A r \in readRelations :
                             Audited(CreateOf(r.content)) \/ Audited(UpdateOf(r))
    BY DEF LogExplainsState
  <2>1. Open = orphaned
    BY DEF Open
  <2>2. \A k : OpenOf(k) <=> Orphan(k)
    BY <2>1 DEF OpenOf, Orphan
  <2>3. \A p \in Known : Audited(p)
    BY <2>1 DEF Known, Audited
  <2>4. ASSUME NEW r \in readRelations
        PROVE  Audited(CreateOf(r.content)) \/ Audited(UpdateOf(r))
    <3>1. PICK k \in 1..Len(rlines) : Line(k) /\ rlines[k] = r
      BY ReadProperties
    <3> QED
      BY <2>3, <3>1 DEF Explained, LinesExplained
  <2> QED
    BY <2>2, <2>4 DEF Explained, PageExplained, ArtifactExplained
<1>3. LossReported
  <2> SUFFICES ASSUME pc = "idle", checkRelationStore = {}, NEW i \in 1..Len(sealed),
                      sealed[i].payload[1] = "relation-create",
                      ~\E j \in i..Len(sealed) : sealed[j].payload = Compaction,
                      Compaction \notin orphaned
               PROVE  \E r \in readRelations : r.content.to = sealed[i].payload[2].to
    BY DEF LossReported
  <2>1. PICK k \in 1..Len(rlines) :
            Line(k) => rlines[k].content.to = sealed[i].payload[2].to
    BY DEF Explained, Accounted, Open, Traced
  <2>2. Line(k)
    <3>1. /\ k \in 1..Len(Lines) /\ Lines[k] = rlines[k] /\ Len(Lines) \in Nat
      BY ReadProperties
    <3>2. RelationsReadable /\ ~(Lines # <<>> /\ Lines[Len(Lines)] = Garbled)
      BY DEF checkRelationStore
    <3>3. Lines # <<>>
      BY <3>1, EmptySeq
    <3>4. CASE k = Len(Lines)
      BY <3>1, <3>2, <3>3, <3>4 DEF Line
    <3>5. CASE k # Len(Lines)
      <4>1. k \in 1..(Len(Lines) - 1)
        BY <3>1, <3>5
      <4> QED
        BY <3>1, <3>2, <4>1 DEF RelationsReadable, Line
    <3> QED
      BY <3>4, <3>5
  <2>3. PICK r \in readRelations : r.id = rlines[k].id
    BY <2>2, ReadProperties
  <2>4. PICK m \in 1..Len(rlines) : Line(m) /\ rlines[m] = r
    BY ReadProperties
  <2> QED
    BY <2>1, <2>2, <2>3, <2>4 DEF SameEndpoint
<1> QED
  BY <1>1, <1>2, <1>3 DEF AuditSound

\* At every moment, whatever crashed or was rewritten: the log is the sealed one or one
\* line ahead of it, it takes the next event, tampering shows, a preflight is enough,
\* and pages, artifacts and relations are what the events say, or a loss is reported.
THEOREM AuditTrail == AuditSpec => []AuditSound
<1>1. AuditInit => AuditInv
  BY InitAudit
<1>2. AuditInv /\ [AuditNext]_auditVars => AuditInv'
  BY AuditStep
<1>3. AuditInv => AuditSound
  BY AuditSafety
<1> QED
  BY <1>1, <1>2, <1>3, PTL DEF AuditSpec

-----------------------------------------------------------------------------
(* What a step may not do. *)

-----------------------------------------------------------------------------
(* What a step may not do. *)

\* What a step does to the log, the head and the page.
LEMMA StepKinds ==
    ASSUME AuditInv, [AuditNext]_auditVars
    PROVE  \/ Preparable /\ Repair /\ UNCHANGED <<head, sealed, page>>
           \/ WriteRecord /\ pc = "audit" /\ UNCHANGED <<head, sealed, page>>
           \/ sealHeadAnchor /\ UNCHANGED <<log, page>>
           \/ Tamper /\ UNCHANGED <<head, sealed, page>>
           \/ WritePage /\ UNCHANGED <<log, head, sealed>>
           \/ UNCHANGED <<log, head, sealed, page>>
<1>1. ASSUME NEW p, Preflight(p)
      PROVE  Preparable /\ Repair /\ UNCHANGED <<head, sealed, page>>
  BY <1>1 DEF Preflight, preflightEventAppend, wiki
<1>2. ASSUME NEW c \in Contents,
             applyRelationLocked(c) \/ applyTrustedRelations(c) \/ DuplicateRelation(c)
      PROVE  Preparable /\ Repair /\ UNCHANGED <<head, sealed, page>>
  BY <1>1, <1>2 DEF applyRelationLocked, applyTrustedRelations, appendRelationLocked,
                    DuplicateRelation, wiki
<1>3. ASSUME \/ \E r \in RelationRef : updateRelation(r)
             \/ compactRelations
             \/ \E s \in States, d \in Digests \cup {None} : applyLifecycleLocked(s, d)
             \/ \E d \in Digests : applyArtifactLocked(d)
      PROVE  Preparable /\ Repair /\ UNCHANGED <<head, sealed, page>>
  BY <1>1, <1>3 DEF updateRelation, compactRelations, applyLifecycleLocked,
                    applyArtifactLocked
<1>4. ASSUME NEW i \in RelationIds, WriteRelation(i)
      PROVE  UNCHANGED <<log, head, sealed, page>>
  BY <1>4 DEF WriteRelation, Land, esvars, wiki
<1>5. CASE WriteCompacted \/ WriteArtifact \/ UNCHANGED auditVars
  BY <1>5 DEF WriteCompacted, WriteArtifact, Land, esvars, wiki, auditVars
<1>6. CASE WritePage
  BY <1>6 DEF WritePage, Land, esvars
<1>7. CASE Audit
  <2>1. UNCHANGED page /\ pc = "audit"
    BY <1>7 DEF Audit, wiki
  <2>2. CASE StartAppend(event)
    BY <2>1, <2>2 DEF StartAppend
  <2>3. CASE WriteHeader \/ WriteRecord
    BY <2>1, <2>3 DEF WriteHeader, WriteRecord
  <2> QED
    BY <1>7, <2>2, <2>3 DEF Audit
<1>8. CASE AuditSealed
  BY <1>8 DEF AuditSealed, sealHeadAnchor, wiki
<1>9. CASE RelationStoreFull \/ Fail \/ FailTornRelation
  BY <1>9 DEF RelationStoreFull, Fail, FailTornRelation, Abort, TornHeader, TornRecord,
              store, wiki
<1>10. CASE Outside
  BY <1>10 DEF Outside, Tamper, esvars
<1> QED
  BY <1>2, <1>3, <1>4, <1>5, <1>6, <1>7, <1>8, <1>9, <1>10 DEF AuditNext

\* The repair drops at most a record.
LEMMA RepairShrinks ==
    ASSUME EsInv, Repair
    PROVE  Len(log') <= Len(log) /\ Len(log) \in Nat /\ Len(log') \in Nat
<1> USE DEF EsInv, EvTypeOK
<1>1. log' = log \/ (log # <<>> /\ log' = ButLast(log))
  BY DEF Repair, Kept, classifyHeadState
<1>2. log # <<>> => Len(ButLast(log)) = Len(log) - 1 /\ Len(log) \in Nat \ {0}
  BY ButLastProperties
<1> QED
  BY <1>1, <1>2

\* An event is written only once its change reads back.
LEMMA EventAfterChange ==
    ASSUME AuditInv, [AuditNext]_auditVars
    PROVE  NoPhantomAudit
<1> USE DEF AuditInv
<1> SUFFICES ASSUME Len(log') > Len(log), ~rtorn
             PROVE  Present(log'[Len(log')].payload)
  BY DEF NoPhantomAudit
<1>1. CASE Repair
  BY <1>1, RepairShrinks
<1>2. CASE Tamper
  <2>1. Len(log') <= Len(log) /\ Len(log') \in Nat /\ Len(log) \in Nat
    BY <1>2, TamperedLog DEF EsInv, EvTypeOK
  <2> QED
    BY <2>1
<1>3. CASE log' = log
  BY <1>3 DEF EsInv, EvTypeOK
<1>4. CASE WriteRecord /\ pc = "audit"
  <2>1. log'[Len(log')].payload = event
    BY <1>4, WriteRecordStep
  <2>2. Present(event)
    BY <1>4 DEF Landed
  <2> QED
    BY <2>1, <2>2
<1> QED
  BY <1>1, <1>2, <1>3, <1>4, StepKinds

\* The head moves over exactly what was sealed before and the new event.
LEMMA HeadSealsTheLog ==
    ASSUME AuditInv, [AuditNext]_auditVars
    PROVE  NoLaundering
BY StepKinds, SealStep DEF AuditInv, NoLaundering

\* A count of endpoints is a number: finitely many relations are read.
LEMMA QualifyingFinite == AuditInv => Cardinality(Qualifying) \in Nat
<1> SUFFICES ASSUME AuditInv PROVE IsFiniteSet(Qualifying)
  BY FS_CardinalityType
<1> DEFINE T == {r.content.to : r \in LiveValid}
           f == [r \in LiveValid |-> r.content.to]
<1>1. IsFiniteSet(LiveValid)
  <2>1. LiveValid \in SUBSET readRelations /\ IsFiniteSet(readRelations)
    BY ReadProperties DEF LiveValid, AuditInv
  <2> QED
    BY <2>1, FS_Subset
<1>2. f \in Surjection(LiveValid, T)
  BY DEF Surjection
<1>3. IsFiniteSet(T)
  BY <1>1, <1>2, FS_Surjection
<1>4. Qualifying \in SUBSET T
  BY DEF Qualifying
<1> QED
  BY <1>3, <1>4, FS_Subset

\* The requirements of the gated state hold when the page enters it.
LEMMA EvidenceAtEntry ==
    ASSUME AuditInv, [AuditNext]_auditVars
    PROVE  GatedEntry
<1> USE DEF AuditInv
<1> SUFFICES ASSUME page' # page, page' = GatedState
             PROVE  /\ RelationsReadable /\ Cardinality(Qualifying) >= MinCount
                    /\ art.body = ref' /\ art.manifest = ref'
  BY DEF GatedEntry
<1>1. WritePage
  BY StepKinds
<1>2. /\ pc = "land" /\ event[1] = "lifecycle-transition" /\ event[2][1] = GatedState
      /\ ref' = event[2][2]
  BY <1>1 DEF WritePage
<1>3. RelationVerdict = "met" /\ ArtifactVerdict(ref') = "met"
  <2>1. RelationVerdict = "met" /\ ArtifactVerdict(event[2][2]) = "met"
    BY <1>2 DEF Checked
  <2>2. PICK d : d = event[2][2]
    OBVIOUS
  <2>3. ArtifactVerdict(d) = "met" /\ ref' = d
    BY <1>2, <2>1, <2>2
  <2> QED
    BY <2>1, <2>3
<1>4. RelationsReadable /\ ~(Cardinality(Qualifying) < MinCount)
  BY <1>3 DEF RelationVerdict
<1>5. art.body = ref' /\ art.manifest = ref'
  BY <1>3 DEF ArtifactVerdict, ArtifactHealth
<1> QED
  BY <1>4, <1>5, QualifyingFinite, MutationAssumption

\* No step of any writer, no crash and no rewriting of the log records what has not
\* happened, seals a record this program did not write, or lets a page into the gated
\* state without its evidence.
THEOREM AuditedSteps == AuditSpec => AuditSteps
<1>1. AuditInit => AuditInv
  BY InitAudit
<1>2. AuditInv /\ [AuditNext]_auditVars => AuditInv'
  BY AuditStep
<1>3. AuditInv /\ [AuditNext]_auditVars
         => [NoPhantomAudit /\ NoLaundering /\ GatedEntry]_auditVars
  BY EventAfterChange, HeadSealsTheLog, EvidenceAtEntry
<1> QED
  BY <1>1, <1>2, <1>3, PTL DEF AuditSpec, AuditSteps

-----------------------------------------------------------------------------
(* The path of a page write, for all caps, bodies and numbers of edits by  *)
(* the owner.                                                              *)

\* What the planner cleared: a body within the cap of its origin that parses, and for
\* a typed target a slug-safe name.
Cleared ==
    write # Gone /\ write.surface # "lifecycle" =>
        /\ write.surface \in DOMAIN SurfaceOf /\ write.origin = SurfaceOf[write.surface].origin
        /\ write.body.parses /\ write.body.chars <= resourceCapForOrigin(write.origin)

\* What the executor checked still holds, or the owner touched the page since.
Rechecked ==
    write # Gone /\ write.step = "write" =>
        /\ write.body.parses
        /\ \/ write.body.chars <= resourceCapForOrigin(write.origin)
           \/ target # Gone /\ write.body.chars <= target.chars
           \/ "write" \in touched

\* What the operation says of the page, and since when it may be wrong.
Probed ==
    /\ write = Gone => touched = {}
    /\ write # Gone => (write.operation = "none" <=> write.step = "probe")
    /\ write # Gone /\ write.surface = "workflow" =>
          /\ write.step = "probe" => target = Gone \/ "probe" \in touched
          /\ write.operation = "update" => "probe" \in touched
    /\ write # Gone /\ write.operation = "create" =>
          /\ write.step = "apply" => target = Gone \/ "apply" \in touched
          /\ write.step = "write" => target = Gone \/ "write" \in touched

\* A staged candidate passes the checks of its promotion.
Promotable ==
    draft # Gone => draft.body.parses /\ draft.body.chars <= SourceCap

PageIInv == PageTypeOK /\ StagedPromotable /\ Cleared /\ Rechecked /\ Probed /\ Promotable

\* composeTrustDecision is total and monotone (decision.ts): adding a result never
\* clears a write that was blocked, and never takes back a warning.
THEOREM DecisionMonotone ==
    ASSUME NEW R \in SUBSET Results, NEW r \in Results, NEW routed \in BOOLEAN
    PROVE  /\ composeTrustDecision(R, routed) \in Decisions
           /\ composeTrustDecision(R, routed) \notin LIVE_WRITE_DECISIONS
                 => composeTrustDecision(R \cup {r}, routed) \notin LIVE_WRITE_DECISIONS
           /\ composeTrustDecision(R \cup {r}, routed) = "allow"
                 => composeTrustDecision(R, routed) = "allow"
BY DEF composeTrustDecision, LIVE_WRITE_DECISIONS, Decisions, Results

\* A write is cleared exactly if no check blocks it.
LEMMA LiveIffNoBlock ==
    ASSUME NEW R, NEW routed
    PROVE  composeTrustDecision(R, routed) \in LIVE_WRITE_DECISIONS
              <=> \A r \in R : r.verdict # "block"
BY DEF composeTrustDecision, LIVE_WRITE_DECISIONS

LEMMA VerdictBlocks ==
    ASSUME NEW ok \in BOOLEAN
    PROVE  Verdict(ok).verdict # "block" <=> ok
BY DEF Verdict

\* So a plan is live exactly if each of the checks passes.
LEMMA PlanIsFloor ==
    ASSUME NEW s \in DOMAIN SurfaceOf, NEW name, NEW body \in PageBodies
    PROVE  planDecision(s, name, body) \in LIVE_WRITE_DECISIONS <=>
              /\ nameSafe(SurfaceOf[s].entity, name)
              /\ target = Gone \/ SurfaceOf[s].allowOverwrite
              /\ body.chars <= resourceCapForOrigin(SurfaceOf[s].origin)
              /\ body.parses
<1>1. /\ nameSafe(SurfaceOf[s].entity, name) \in BOOLEAN
      /\ (target = Gone \/ SurfaceOf[s].allowOverwrite) \in BOOLEAN
      /\ (body.chars <= resourceCapForOrigin(SurfaceOf[s].origin)) \in BOOLEAN
      /\ body.parses \in BOOLEAN
  <2>1. resourceCapForOrigin(SurfaceOf[s].origin) \in Nat
      BY PageWritesAssumption DEF resourceCapForOrigin
  <2>2. body.chars \in Nat /\ body.parses \in BOOLEAN
      BY DEF PageBodies
  <2>3. nameSafe(SurfaceOf[s].entity, name) \in BOOLEAN
      BY DEF nameSafe
  <2> QED
      BY <2>1, <2>2, <2>3
<1>2. planDecision(s, name, body) \in LIVE_WRITE_DECISIONS <=>
         /\ Verdict(nameSafe(SurfaceOf[s].entity, name)).verdict # "block"
         /\ Verdict(target = Gone \/ SurfaceOf[s].allowOverwrite).verdict # "block"
         /\ Verdict(body.chars <= resourceCapForOrigin(SurfaceOf[s].origin)).verdict # "block"
         /\ Verdict(body.parses).verdict # "block"
    BY LiveIffNoBlock DEF planDecision, checkTargetCollision, checkResourceLimit, checkFrontmatter
<1> QED
    BY <1>1, <1>2, VerdictBlocks

\* And the executor admits a body exactly if both of its checks pass.
LEMMA FloorIsChecks ==
    ASSUME NEW w, w.body \in PageBodies, effectiveMaxChars(w) \in Nat
    PROVE  assertFloorAtApply(w) <=> w.body.chars <= effectiveMaxChars(w) /\ w.body.parses
<1>1. (w.body.chars <= effectiveMaxChars(w)) \in BOOLEAN /\ w.body.parses \in BOOLEAN
  <2>1. w.body.chars \in Nat /\ w.body.parses \in BOOLEAN
      BY DEF PageBodies
  <2> QED
      BY <2>1
<1>2. assertFloorAtApply(w) <=>
         /\ Verdict(w.body.chars <= effectiveMaxChars(w)).verdict # "block"
         /\ Verdict(w.body.parses).verdict # "block"
  <2> DEFINE R == {Verdict(w.body.chars <= effectiveMaxChars(w)), Verdict(w.body.parses)}
  <2>1. composeTrustDecision(R, FALSE) \in LIVE_WRITE_DECISIONS <=> \A r \in R : r.verdict # "block"
      BY LiveIffNoBlock, Zenon
  <2>2. assertFloorAtApply(w) <=> composeTrustDecision(R, FALSE) \in LIVE_WRITE_DECISIONS
      BY DEF assertFloorAtApply, checkResourceLimit, checkFrontmatter
  <2> QED
      BY <2>1, <2>2
<1> QED
    BY <1>1, <1>2, VerdictBlocks

LEMMA CapIsNat ==
    ASSUME PageTypeOK, NEW w
    PROVE  effectiveMaxChars(w) \in Nat /\ resourceCapForOrigin(w.origin) \in Nat
BY PageWritesAssumption DEF PageTypeOK, PageBodies, effectiveMaxChars, resourceCapForOrigin

\* The executor admits what the planner cleared, whatever became of the page.
LEMMA ClearedIsAdmitted ==
    ASSUME PageIInv, write # Gone, write.surface # "lifecycle"
    PROVE  assertFloorAtApply(write)
<1>1. write.body.chars <= effectiveMaxChars(write)
    BY PageWritesAssumption DEF PageIInv, Cleared, PageTypeOK, PageMutations, PageBodies,
       effectiveMaxChars, resourceCapForOrigin
<1> QED
    BY <1>1, FloorIsChecks, CapIsNat DEF PageIInv, Cleared, PageTypeOK, PageMutations

LEMMA PageInductive == PageIInv /\ [PageNext]_pageVars => PageIInv'
<1> SUFFICES ASSUME PageIInv, [PageNext]_pageVars PROVE PageIInv'
    OBVIOUS
<1> USE PageWritesAssumption DEF PageIInv
<1>1. ASSUME NEW s \in DOMAIN SurfaceOf, NEW name \in Names, NEW body \in Tried,
             planPageMutation(s, name, body)
      PROVE  PageIInv'
  <2>0. body \in PageBodies
    BY DEF Tried, PageBodies
  <2>1. CASE planDecision(s, name, body) \in LIVE_WRITE_DECISIONS
    <3>1. /\ nameSafe(SurfaceOf[s].entity, name)
          /\ target = Gone \/ SurfaceOf[s].allowOverwrite
          /\ body.chars <= resourceCapForOrigin(SurfaceOf[s].origin)
          /\ body.parses
        BY <2>0, <2>1, PlanIsFloor
    <3>2. /\ write' = [surface |-> s, origin |-> SurfaceOf[s].origin, name |-> name,
                       body |-> body, operation |-> "none", step |-> "probe"]
          /\ UNCHANGED <<target, draft, handEdits, outcome, touched>>
          /\ touched = {}
        BY <1>1, <2>1 DEF planPageMutation, Probed
    <3>3. name \in {"slug", "stem"} /\ (SurfaceOf[s].entity => name = "slug")
        BY <3>1 DEF nameSafe, Names
    <3>4. /\ write'.surface = s /\ write'.origin = SurfaceOf[s].origin /\ write'.name = name
          /\ write'.body = body /\ write'.operation = "none" /\ write'.step = "probe"
        BY <3>2
    <3>5. SurfaceOf[s].origin \in {"compile", "review", "workflow", "sdk"}
          /\ (s \notin {"compile", "approve"} => SurfaceOf[s].entity)
          /\ (s = "workflow" => ~SurfaceOf[s].allowOverwrite)
          /\ s # "lifecycle"
        BY DEF SurfaceOf
    <3>6. write' \in PageMutations
        BY <2>0, <3>2, <3>3, <3>5 DEF PageMutations
    <3>7. PageTypeOK'
        BY <3>2, <3>3, <3>4, <3>5, <3>6 DEF PageTypeOK
    <3>8. Cleared' /\ Rechecked' /\ Probed' /\ Promotable' /\ StagedPromotable'
        BY <3>1, <3>2, <3>4, <3>5 DEF Cleared, Rechecked, Probed, Promotable, StagedPromotable, resourceCapForOrigin
    <3> QED
        BY <3>7, <3>8
  <2>2. CASE planDecision(s, name, body) \notin LIVE_WRITE_DECISIONS
    <3>1. s # "promote"
      <4> SUFFICES ASSUME s = "promote" PROVE FALSE
        OBVIOUS
      <4>1. draft = [name |-> name, body |-> body] /\ draft # Gone
        BY <1>1 DEF planPageMutation, applyTypedCandidate
      <4> QED
        BY <4>1, <2>0, <2>2, PlanIsFloor DEF PageTypeOK, Promotable, SurfaceOf, nameSafe, resourceCapForOrigin
    <3> QED
        BY <1>1, <2>2, <3>1 DEF planPageMutation, EndWrite, PageTypeOK, StagedPromotable, Cleared,
           Rechecked, Probed, Promotable
  <2> QED
    BY <2>1, <2>2
<1>2. CASE targetAlreadyExists
  <2>1. write \in PageMutations /\ write # Gone /\ write.step = "probe" /\ write.operation = "none"
      BY <1>2 DEF targetAlreadyExists, PageTypeOK, Probed
  <2>2. CASE write.surface = "sdk"
    <3>1. draft' = [name |-> write.name, body |-> write.body] /\ EndWrite("staged")
          /\ UNCHANGED <<target, handEdits>>
        BY <1>2, <2>2 DEF targetAlreadyExists, keepDraft
    <3>2. draft'.name = "slug" /\ draft'.body \in PageBodies /\ draft'.body.parses
          /\ draft'.body.chars <= SourceCap
        BY <2>1, <2>2, <3>1 DEF PageTypeOK, PageMutations, Cleared, SurfaceOf, resourceCapForOrigin
    <3> QED
        BY <3>1, <3>2 DEF EndWrite, PageTypeOK, StagedPromotable, Cleared, Rechecked, Probed, Promotable
  <2>3. CASE write.surface # "sdk"
    <3>1. /\ write' = [write EXCEPT !.operation = IF target = Gone THEN "create" ELSE "update",
                                    !.step = "apply"]
          /\ UNCHANGED <<target, draft, handEdits, outcome, touched>>
        BY <1>2, <2>3 DEF targetAlreadyExists
    <3>2. /\ write'.operation = IF target = Gone THEN "create" ELSE "update"
          /\ write'.step = "apply" /\ write'.surface = write.surface /\ write'.origin = write.origin
          /\ write'.name = write.name /\ write'.body = write.body /\ write' \in PageMutations
        BY <2>1, <3>1 DEF PageMutations
    <3> QED
        BY <2>1, <3>1, <3>2 DEF PageTypeOK, StagedPromotable, Cleared, Rechecked, Probed, Promotable,
           resourceCapForOrigin
  <2> QED
      BY <2>2, <2>3
<1>3. ASSUME NEW chars \in 1..(MaxChars + 1), buildLifecycleUpdate(chars)
      PROVE  PageIInv'
  <2>1. /\ write' = [surface |-> "lifecycle", origin |-> "lifecycle", name |-> "slug",
                     body |-> [chars |-> chars, parses |-> TRUE], operation |-> "update", step |-> "apply"]
        /\ UNCHANGED <<target, draft, handEdits, outcome, touched>>
      BY <1>3 DEF buildLifecycleUpdate
  <2>2. /\ write'.surface = "lifecycle" /\ write'.name = "slug" /\ write'.operation = "update"
        /\ write'.step = "apply" /\ write' \in PageMutations
      BY <2>1 DEF PageMutations, PageBodies
  <2> QED
      BY <2>1, <2>2 DEF PageTypeOK, StagedPromotable, Cleared, Rechecked, Probed, Promotable
<1>4. CASE assertApply
  <2>1. write \in PageMutations /\ write # Gone /\ write.step = "apply"
      BY <1>4 DEF assertApply, PageTypeOK
  <2>2. CASE createCollides(write) \/ ~assertFloorAtApply(write)
      BY <1>4, <2>2 DEF assertApply, EndWrite, PageTypeOK, StagedPromotable, Cleared, Rechecked, Probed, Promotable
  <2>3. CASE ~createCollides(write) /\ assertFloorAtApply(write)
    <3>1. write' = [write EXCEPT !.step = "write"] /\ UNCHANGED <<target, draft, handEdits, outcome, touched>>
        BY <1>4, <2>3 DEF assertApply
    <3>2. /\ write'.operation = write.operation /\ write'.step = "write" /\ write'.surface = write.surface
          /\ write'.origin = write.origin /\ write'.name = write.name /\ write'.body = write.body
          /\ write' \in PageMutations
        BY <2>1, <3>1 DEF PageMutations
    <3>3. write.body.parses /\ write.body.chars <= effectiveMaxChars(write)
        BY <2>1, <2>3, FloorIsChecks, CapIsNat DEF PageMutations
    <3>4. \/ write.body.chars <= resourceCapForOrigin(write.origin)
          \/ target # Gone /\ write.body.chars <= target.chars
        BY <3>3 DEF effectiveMaxChars
    <3>5. PageTypeOK' /\ StagedPromotable' /\ Cleared' /\ Promotable'
        BY <2>1, <3>1, <3>2 DEF PageTypeOK, StagedPromotable, Cleared, Promotable, resourceCapForOrigin
    <3>6. Rechecked'
        BY <3>1, <3>2, <3>3, <3>4 DEF Rechecked, resourceCapForOrigin
    <3>7. Probed'
        BY <2>1, <2>3, <3>1, <3>2 DEF Probed, createCollides
    <3> QED
        BY <3>5, <3>6, <3>7
  <2> QED
      BY <2>2, <2>3
<1>5. CASE writeOne
  <2>1. write.body \in PageBodies
      BY <1>5 DEF writeOne, PageTypeOK, PageMutations
  <2> QED
      BY <1>5, <2>1 DEF writeOne, EndWrite, PageTypeOK, StagedPromotable, Cleared, Rechecked, Probed, Promotable
<1>6. ASSUME NEW body \in Tried \cup {Gone}, HandEdit(body)
      PROVE  PageIInv'
  <2>1. body \in PageBodies \cup {Gone}
      BY DEF Tried, PageBodies
  <2>2. /\ target' = body /\ handEdits' = handEdits + 1
        /\ touched' = IF write = Gone THEN {} ELSE touched \cup {write.step}
        /\ UNCHANGED <<write, draft, outcome>>
      BY <1>6 DEF HandEdit
  <2>3. PageTypeOK'
    <3>1. write # Gone => write.step \in {"probe", "apply", "write"}
        BY DEF PageTypeOK, PageMutations
    <3>2. touched' \subseteq {"probe", "apply", "write"}
        BY <2>2, <3>1 DEF PageTypeOK
    <3> QED
        BY <2>1, <2>2, <3>2 DEF PageTypeOK
  <2>4. Rechecked' /\ Probed'
      BY <2>2 DEF Rechecked, Probed, resourceCapForOrigin, PageTypeOK, PageMutations
  <2>5. Cleared' /\ Promotable' /\ StagedPromotable'
      BY <2>2 DEF Cleared, Promotable, StagedPromotable, resourceCapForOrigin
  <2> QED
      BY <2>3, <2>4, <2>5
<1>7. CASE UNCHANGED pageVars
    BY <1>7 DEF pageVars, PageTypeOK, StagedPromotable, Cleared, Rechecked, Probed, Promotable, resourceCapForOrigin
<1> QED
    BY <1>1, <1>2, <1>3, <1>4, <1>5, <1>6, <1>7 DEF PageNext

LEMMA PageInitial == PageInit => PageIInv
BY DEF PageInit, PageIInv, PageTypeOK, StagedPromotable, Cleared, Rechecked, Probed, Promotable

LEMMA PageInvariant == PageSpec => []PageIInv
<1> QED
    BY PageInitial, PageInductive, PTL DEF PageSpec

\* Types for every value of the caps and bounds, names that are safe for their kind of
\* target, and: the planner never refuses to promote what stageEntityPage persisted,
\* whatever the owner did to the page meanwhile.
THEOREM PageIsSound == PageSpec => []PageSound
<1>1. PageIInv => PageSound
    BY DEF PageIInv, PageSound
<1> QED
    BY <1>1, PageInvariant, PTL

\* applyPageMutationLocked replaces a page for a create-only surface only in the two
\* windows.
THEOREM CreatesAreStrict == PageSpec => CreateNeverOverwrites
<1>1. PageIInv /\ writeOne /\ target # Gone /\ write.surface = "workflow"
         => touched \cap {"probe", "write"} # {}
    BY DEF PageIInv, PageTypeOK, PageMutations, Probed, writeOne
<1> QED
    BY <1>1, PageInvariant, PTL DEF CreateNeverOverwrites

\* assertFloorAtApply never refuses what planPageMutation cleared.
LEMMA PlansHold == PageIInv => PlanHolds
<1> SUFFICES ASSUME PageIInv, write # Gone, write.surface # "lifecycle", assertApply, write' = Gone
             PROVE  createCollides(write) /\ "apply" \in touched
    BY DEF PlanHolds
<1>1. [write EXCEPT !.step = "write"] # Gone
    BY PageWritesAssumption DEF PageIInv, PageTypeOK, PageMutations
<1>2. createCollides(write)
    BY <1>1, ClearedIsAdmitted DEF assertApply
<1> QED
    BY <1>2 DEF createCollides, assertApply, PageIInv, Probed

\* Whatever built a mutation, the bytes it writes parse and do not grow past the cap of
\* its origin (assertFloorAtApply), unless the owner cut the page under the executor.
LEMMA FloorsHold == PageIInv => FloorHolds
BY DEF PageIInv, Rechecked, writeOne, FloorHolds

\* Every step of every page write: the executor agrees with the planner, and what is
\* written keeps the floor.
THEOREM WritesHold == PageSpec => WriteHolds
<1> QED
    BY PlansHold, FloorsHold, PageInvariant, PTL DEF WriteHolds

-----------------------------------------------------------------------------
(* The inductive invariant of the journal. *)

Applying == phase \in {"check", "record", "write", "commit"}

\* Who may be pending, by phase: the batch in hand is pending, a scan has every
\* pending batch still on its list, and a clean directory has none.
PendingByPhase ==
    /\ OnePending
    /\ Applying \/ phase = "revert" => status[cur] = "pending"
    /\ phase = "scan" => \A i \in Ids : status[i] = "pending" => i \in scan
    /\ phase \in {"open", "compile"} => \A i \in Ids : status[i] # "pending"
    /\ \A i \in Ids : status[i] # "pending" => pre[i] = Blank

\* How far the batch is: records run ahead of writes.
Progress ==
    /\ ~Applying => saved = 0 /\ wrote = 0
    /\ phase = "open" \/ Applying => plan \in Plans
    /\ phase = "scan" /\ kind \notin {"recover", "compile", "updateError"} => plan \in Plans
    /\ phase = "revert" /\ kind \notin {"recover", "compile", "updateError"}
         => plan \in Plans
    /\ phase \in {"check", "record"} /\ ~Grouped => saved = wrote /\ saved < Len(plan)
    /\ phase = "record" /\ Grouped => wrote = 0 /\ saved < Len(plan)
    /\ phase = "write" => wrote < saved /\ (~Grouped => saved = wrote + 1)
    /\ phase = "write" /\ Grouped => saved = Len(plan)
    /\ phase = "check" => ~Grouped
    /\ phase = "commit" => saved = Len(plan) /\ wrote = Len(plan)

\* The entries of the batch in hand are those of the mutations recorded so far.
EntriesMatch ==
    Applying => \A t \in Targets :
        pre[cur][t] # NotRecorded <=> \E j \in 1..saved : plan[j].target = t

\* The mutations written so far are on the pages.
WritesLanded ==
    Applying => \A t \in Targets :
        (\E j \in 1..wrote : plan[j].target = t)
            => pageFile[t] = ApplyFirst(acked, plan, wrote)[t]

\* A revert in progress has put back every entry it has passed.
Reverted ==
    phase = "revert" =>
        /\ left \subseteq Recorded(cur)
        /\ \A t \in Recorded(cur) \ left : pageFile[t] = pre[cur][t]

IInv ==
    /\ TypeOK /\ PendingByPhase /\ Progress
    /\ EntriesMatch /\ WritesLanded /\ Reverted
    /\ AckedSurvives

-----------------------------------------------------------------------------
\* Recovered as a function of the state it reads, to speak of both states of a
\* step.
RecoveredOf(pg, st, pr, t) ==
    LET C == {i \in Ids : st[i] = "pending" /\ pr[i][t] # NotRecorded}
    IN  IF C = {} THEN pg[t] ELSE pr[CHOOSE i \in C : TRUE][t]

LEMMA RecoveredHere ==
    \A t \in Targets :
        /\ Recovered(t) = RecoveredOf(pageFile, status, pre, t)
        /\ Recovered(t)' = RecoveredOf(pageFile', status', pre', t)
BY DEF Recovered, RecoveredOf, Covering

\* i is the one pending batch of the directory st.
OnlyPending(st, i) ==
    i \in Ids /\ st[i] = "pending" /\ \A j \in Ids : st[j] = "pending" => j = i

\* With one pending batch i, recovery consults i alone: a target without an entry
\* stays as it is,
LEMMA RecoveredPage ==
    ASSUME NEW pg, NEW st, NEW pr, NEW i, NEW t \in Targets,
           OnlyPending(st, i), pr[i][t] = NotRecorded
    PROVE  RecoveredOf(pg, st, pr, t) = pg[t]
<1>1. {j \in Ids : st[j] = "pending" /\ pr[j][t] # NotRecorded} = {}
  BY DEF OnlyPending
<1> QED
  BY <1>1 DEF RecoveredOf

\* and one with an entry is restored from it.
LEMMA RecoveredEntry ==
    ASSUME NEW pg, NEW st, NEW pr, NEW i, NEW t \in Targets,
           OnlyPending(st, i), pr[i][t] # NotRecorded
    PROVE  RecoveredOf(pg, st, pr, t) = pr[i][t]
<1> DEFINE C == {j \in Ids : st[j] = "pending" /\ pr[j][t] # NotRecorded}
<1>1. C = {i}
  BY DEF OnlyPending
<1>2. (CHOOSE j \in C : TRUE) = i
  BY <1>1
<1> QED
  BY <1>1, <1>2 DEF RecoveredOf

\* Without a pending batch, recovery changes nothing.
LEMMA RecoveredNone ==
    ASSUME NEW pg, NEW st, NEW pr, NEW t \in Targets,
           \A j \in Ids : st[j] # "pending"
    PROVE  RecoveredOf(pg, st, pr, t) = pg[t]
BY DEF RecoveredOf

-----------------------------------------------------------------------------
(* ApplyFirst: what the first n mutations of a plan make of a store. *)

LEMMA PlanMutation ==
    ASSUME NEW p \in Plans, NEW j \in 1..Len(p)
    PROVE  p[j] \in Mutation /\ p[j].target \in Targets /\ p[j].body \in Bodies
<1>1. p \in Seq(Mutation)
  BY JournalAssumption
<1>2. p[j] \in Mutation
  BY <1>1
<1> QED
  BY <1>2 DEF Mutation

LEMMA PlanLength == ASSUME NEW p \in Plans PROVE Len(p) \in Nat /\ Len(p) > 0
BY JournalAssumption

\* No mutation, no change.
LEMMA ApplyNone ==
    ASSUME NEW s, NEW p, NEW n \in Nat, NEW t \in Targets,
           ~\E j \in 1..n : p[j].target = t
    PROVE  ApplyFirst(s, p, n)[t] = s[t]
BY DEF ApplyFirst

\* A target some mutation names does not depend on what was there before.
LEMMA ApplySome ==
    ASSUME NEW r, NEW s, NEW p, NEW n \in Nat, NEW t \in Targets,
           \E j \in 1..n : p[j].target = t
    PROVE  ApplyFirst(r, p, n)[t] = ApplyFirst(s, p, n)[t]
BY DEF ApplyFirst

\* One more mutation overwrites its target
LEMMA ApplyHit ==
    ASSUME NEW s, NEW p, NEW n \in Nat, NEW t \in Targets, p[n + 1].target = t
    PROVE  ApplyFirst(s, p, n + 1)[t] = p[n + 1].body
<1> DEFINE W == {j \in 1..(n + 1) : p[j].target = t}
           Latest == CHOOSE j \in W : \A k \in W : k <= j
<1>0. ApplyFirst(s, p, n + 1)[t] = IF W = {} THEN s[t] ELSE p[Latest].body
  BY DEF ApplyFirst
<1>1. n + 1 \in W /\ \A k \in W : k <= n + 1
  OBVIOUS
<1>2. Latest \in W /\ n + 1 <= Latest
  BY <1>1
<1>3. Latest = n + 1
  BY <1>2
<1> HIDE DEF W, Latest
<1> QED
  BY <1>0, <1>1, <1>3

\* and nothing else.
LEMMA ApplyMiss ==
    ASSUME NEW s, NEW p, NEW n \in Nat, NEW t \in Targets, p[n + 1].target # t
    PROVE  ApplyFirst(s, p, n + 1)[t] = ApplyFirst(s, p, n)[t]
<1> DEFINE W(m) == {j \in 1..m : p[j].target = t}
           Latest(m) == CHOOSE j \in W(m) : \A k \in W(m) : k <= j
<1>0. \A m \in Nat : ApplyFirst(s, p, m)[t] = IF W(m) = {} THEN s[t] ELSE p[Latest(m)].body
  BY DEF ApplyFirst
<1>1. W(n + 1) = W(n)
  OBVIOUS
<1>2. Latest(n + 1) = Latest(n)
  BY <1>1
<1> HIDE DEF W, Latest
<1> QED
  BY <1>0, <1>1, <1>2

-----------------------------------------------------------------------------
(* Types. *)

LEMMA InitInv == Init => IInv
<1> SUFFICES ASSUME Init PROVE IInv
  OBVIOUS
<1>1. TypeOK
  BY DEF Init, TypeOK, Statuses, Blank, Content
<1>2. PendingByPhase
  BY DEF Init, PendingByPhase, OnePending, Applying
<1>3. Progress /\ EntriesMatch /\ WritesLanded /\ Reverted
  BY DEF Init, Progress, EntriesMatch, WritesLanded, Reverted, Applying
<1>4. AckedSurvives
  <2> SUFFICES ASSUME NEW t \in Targets PROVE Recovered(t) = acked[t]
    BY DEF AckedSurvives
  <2>1. \A j \in Ids : status[j] # "pending"
    BY DEF Init
  <2> QED
    BY <2>1, RecoveredHere, RecoveredNone DEF Init
<1> QED
  BY <1>1, <1>2, <1>3, <1>4 DEF IInv

LEMMA RemoveType ==
    ASSUME TypeOK, NEW i \in Ids, RemoveBatch(i)
    PROVE  /\ status' \in [Ids -> Statuses] /\ status'[i] = "none"
           /\ \A j \in Ids \ {i} : status'[j] = status[j] /\ pre'[j] = pre[j]
           /\ pre' \in [Ids -> [Targets -> Content \cup {NotRecorded}]]
           /\ pre'[i] = Blank
<1>1. Blank \in [Targets -> Content \cup {NotRecorded}]
  BY DEF Blank
<1> QED
  BY <1>1 DEF TypeOK, RemoveBatch, Statuses

\* Type correctness is inductive, given how far the batch is.
LEMMA TypeStep == TypeOK /\ Progress /\ WritesLanded /\ Reverted /\ Next => TypeOK'
<1> SUFFICES ASSUME TypeOK, Progress, WritesLanded, Reverted, Next PROVE TypeOK'
  OBVIOUS
<1> USE DEF journal, session
<1>1. ASSUME NEW k \in Strict \cup {"pages", "artifact", "compileBatch"},
             NEW p \in Plans \cup {<<>>}, ListJournal(k, p)
      PROVE  TypeOK'
  <2>1. Len(p) \in Nat
    BY PlanLength
  <2> QED
    BY <1>1, <2>1 DEF ListJournal, TypeOK
<1>2. ASSUME NEW p \in Plans, StartApply("pages", p) \/ CompileBatch(p)
      PROVE  TypeOK'
  BY <1>1, <1>2 DEF StartApply, CompileBatch
<1>3. ASSUME NEW p \in PairPlans, StartApply("artifact", p) \/ StartStrict("update", p)
      PROVE  TypeOK'
  BY <1>1, <1>3 DEF StartApply, StartStrict, Strict, PairPlans
<1>4. ASSUME NEW k \in {"recover", "compile"}, StartStrict(k, <<>>) PROVE TypeOK'
  BY <1>1, <1>4 DEF StartStrict, Strict
<1>5. ASSUME NEW i \in Ids, ScanCommitted(i) \/ QuarantineBatch(i) PROVE TypeOK'
  <2>1. /\ status' \in [Ids -> Statuses]
        /\ pre' \in [Ids -> [Targets -> Content \cup {NotRecorded}]]
    BY <1>5, RemoveType DEF ScanCommitted, QuarantineBatch, TypeOK
  <2>2. Leave(i)
    BY <1>5 DEF ScanCommitted, QuarantineBatch
  <2> QED
    BY <2>1, <2>2 DEF TypeOK, Leave
<1>6. ASSUME End, UNCHANGED <<pageFile, status, pre, cur, acked, exposed>> PROVE TypeOK'
  BY <1>6 DEF TypeOK, End
<1>7. ASSUME NEW i \in Ids, RefuseUnsafe(i) PROVE TypeOK'
  BY <1>6, <1>7 DEF RefuseUnsafe
<1>8. ASSUME NEW i \in Ids, RevertBatch(i) PROVE TypeOK'
  BY <1>8 DEF RevertBatch, TypeOK, Recorded
<1>9. ASSUME NEW i \in Ids, OpenBatch(i) PROVE TypeOK'
  BY <1>9 DEF OpenBatch, TypeOK, Statuses
<1>10. ASSUME NEW t \in Targets, RevertEntry(t) PROVE TypeOK'
  <2>1. pre[cur][t] \in Content
    BY <1>10 DEF RevertEntry, Reverted, Recorded, TypeOK
  <2> QED
    BY <1>10, <2>1 DEF RevertEntry, TypeOK
<1>11. ASSUME ResolvePending PROVE TypeOK'
  <2>1. /\ status' \in [Ids -> Statuses]
        /\ pre' \in [Ids -> [Targets -> Content \cup {NotRecorded}]]
    BY <1>11, RemoveType DEF ResolvePending, TypeOK
  <2> QED
    BY <1>11, <2>1 DEF ResolvePending, TypeOK
<1>12. ASSUME ScanDone PROVE TypeOK'
  <2>1. CASE End
    BY <1>6, <1>12, <2>1 DEF ScanDone
  <2>2. CASE ~End
    BY <1>12, <2>2 DEF ScanDone, TypeOK
  <2> QED
    BY <2>1, <2>2
<1>13. ASSUME CompileDone \/ SessionFails PROVE TypeOK'
  BY <1>6, <1>13 DEF CompileDone, SessionFails
<1>14. ASSUME CheckMutation PROVE TypeOK'
  BY <1>14 DEF CheckMutation, TypeOK
<1>15. ASSUME RecordPreState PROVE TypeOK'
  <2>1. plan \in Plans /\ saved \in Nat /\ saved < Len(plan) /\ Len(plan) \in Nat
    BY <1>15, PlanLength DEF RecordPreState, Progress, Applying, TypeOK
  <2>2. plan[saved + 1].target \in Targets
    BY <2>1, PlanMutation
  <2>3. pre' \in [Ids -> [Targets -> Content \cup {NotRecorded}]]
    BY <1>15, <2>2 DEF RecordPreState, TypeOK
  <2>4. saved' \in 0..Len(plan')
    BY <1>15, <2>1 DEF RecordPreState
  <2> QED
    BY <1>15, <2>3, <2>4 DEF RecordPreState, TypeOK
<1>16. ASSUME WriteOne PROVE TypeOK'
  <2>1. plan \in Plans /\ wrote \in Nat /\ wrote < Len(plan) /\ Len(plan) \in Nat
    BY <1>16, PlanLength DEF WriteOne, Progress, Applying, TypeOK
  <2>2. plan[wrote + 1].target \in Targets /\ plan[wrote + 1].body \in Bodies
    BY <2>1, PlanMutation
  <2>3. pageFile' \in [Targets -> Content]
    BY <1>16, <2>2 DEF WriteOne, TypeOK, Content
  <2>4. wrote' \in 0..Len(plan')
    BY <1>16, <2>1 DEF WriteOne
  <2> QED
    BY <1>16, <2>3, <2>4 DEF WriteOne, TypeOK
<1>17. ASSUME CommitBatch PROVE TypeOK'
  <2>1. /\ status' \in [Ids -> Statuses]
        /\ pre' \in [Ids -> [Targets -> Content \cup {NotRecorded}]]
    BY <1>17, RemoveType DEF CommitBatch, TypeOK
  <2>2. acked' \in [Targets -> Content]
    <3>1. plan \in Plans /\ wrote \in Nat /\ wrote = Len(plan)
      BY <1>17, PlanLength DEF CommitBatch, Progress, Applying, TypeOK
    <3>2. \A t \in Targets : ApplyFirst(acked, plan, wrote)[t] \in Content
      <4> SUFFICES ASSUME NEW t \in Targets
                   PROVE  ApplyFirst(acked, plan, wrote)[t] \in Content
        OBVIOUS
      <4>1. CASE \E j \in 1..wrote : plan[j].target = t
        BY <1>17, <4>1 DEF WritesLanded, CommitBatch, Applying, TypeOK
      <4>2. CASE ~\E j \in 1..wrote : plan[j].target = t
        BY <3>1, <4>2, ApplyNone DEF TypeOK
      <4> QED
        BY <4>1, <4>2
    <3>3. acked' = ApplyFirst(acked, plan, wrote)
      BY <1>17 DEF CommitBatch
    <3> QED
      BY <3>2, <3>3 DEF ApplyFirst
  <2>3. /\ phase' \in {"idle", "compile"} /\ kind' \in {"none", "compile"}
        /\ scan' \subseteq Ids /\ left' \subseteq Targets
        /\ plan' = <<>> /\ saved' = 0 /\ wrote' = 0
    BY <1>17 DEF CommitBatch, End, TypeOK
  <2> QED
    BY <1>17, <2>1, <2>2, <2>3 DEF CommitBatch, TypeOK, Strict
<1>18. ASSUME UpdateError PROVE TypeOK'
  BY <1>1, <1>18 DEF UpdateError, Strict
<1>19. ASSUME NEW w \in DirectWrites, DirectWrite(w) PROVE TypeOK'
  <2>1. w[1] \in Targets /\ w[2] \in Content
    BY JournalAssumption DEF Content
  <2> QED
    BY <1>19, <2>1 DEF DirectWrite, TypeOK
<1> QED
  BY <1>2, <1>3, <1>4, <1>5, <1>7, <1>8, <1>9, <1>10, <1>11, <1>12, <1>13, <1>14,
     <1>15, <1>16, <1>17, <1>18, <1>19 DEF Next

-----------------------------------------------------------------------------
(* The rest of the inductive invariant. *)

Rest == /\ PendingByPhase /\ Progress /\ EntriesMatch /\ WritesLanded /\ Reverted
        /\ AckedSurvives

\* The step leaves what recovery yields alone.
SameView == \A t \in Targets : Recovered(t)' = Recovered(t)

\* A step that does not touch the disk does.
LEMMA SameDisk == ASSUME UNCHANGED <<pageFile, status, pre>> PROVE SameView
BY DEF SameView, Recovered, Covering

\* Such a step, if it reports nothing, keeps what was reported.
LEMMA AckedStep ==
    ASSUME AckedSurvives, SameView, UNCHANGED <<acked, exposed>>
    PROVE  AckedSurvives'
BY DEF AckedSurvives, SameView

\* Listing the directory starts a scan of every file there is.
LEMMA ListStep ==
    ASSUME TypeOK, Rest, NEW k, NEW p, ListJournal(k, p),
           k \in {"recover", "compile", "updateError"} \/ p \in Plans
    PROVE  Rest' /\ SameView
<1> USE DEF journal
<1>1. SameView /\ AckedSurvives'
  BY SameDisk, AckedStep DEF Rest, ListJournal
<1>2. PendingByPhase'
  BY DEF Rest, ListJournal, PendingByPhase, OnePending, Applying, Blank
<1>3. Progress'
  BY DEF ListJournal, Progress, Applying
<1>4. EntriesMatch' /\ WritesLanded' /\ Reverted'
  BY DEF ListJournal, EntriesMatch, WritesLanded, Reverted, Applying
<1> QED
  BY <1>1, <1>2, <1>3, <1>4 DEF Rest

\* Ending a session, by success, refusal or failure, leaves disk as it is.
LEMMA EndStep ==
    ASSUME TypeOK, Rest, End, UNCHANGED <<pageFile, status, pre, cur, acked, exposed>>
    PROVE  Rest' /\ SameView
<1>1. SameView /\ AckedSurvives'
  BY SameDisk, AckedStep DEF Rest
<1>2. PendingByPhase'
  BY DEF Rest, End, PendingByPhase, OnePending, Applying, Blank
<1>3. Progress' /\ EntriesMatch' /\ WritesLanded' /\ Reverted'
  BY DEF End, Progress, EntriesMatch, WritesLanded, Reverted, Applying
<1> QED
  BY <1>1, <1>2, <1>3 DEF Rest

\* A file that is not pending may go or stay; recovery does not look at it.
LEMMA ScanStep ==
    ASSUME TypeOK, Rest, NEW i \in Ids, ScanCommitted(i) \/ QuarantineBatch(i)
    PROVE  Rest' /\ SameView
<1> USE DEF journal
<1>1. /\ phase = "scan" /\ status[i] # "pending" /\ Leave(i)
      /\ status'[i] # "pending" /\ pre'[i] = Blank /\ pre[i] = Blank
      /\ \A j \in Ids \ {i} : status'[j] = status[j] /\ pre'[j] = pre[j]
  BY RemoveType DEF ScanCommitted, QuarantineBatch, Rest, PendingByPhase
<1>2. SameView
  <2> SUFFICES ASSUME NEW t \in Targets PROVE Recovered(t)' = Recovered(t)
    BY DEF SameView
  <2>1. Covering(t)' = Covering(t)
    BY <1>1 DEF Covering
  <2>2. (CHOOSE j \in Covering(t)' : TRUE) = (CHOOSE j \in Covering(t) : TRUE)
    BY <2>1
  <2>3. \A j \in Covering(t) : pre'[j] = pre[j]
    BY <1>1 DEF Covering
  <2> QED
    BY <1>1, <2>1, <2>2, <2>3 DEF Recovered, Leave
<1>2a. AckedSurvives'
  BY <1>1, <1>2, AckedStep DEF Rest, Leave
<1>3. PendingByPhase'
  BY <1>1 DEF Rest, PendingByPhase, OnePending, Applying, Leave, Blank
<1>4. Progress' /\ EntriesMatch' /\ WritesLanded' /\ Reverted'
  BY <1>1 DEF Rest, Leave, Progress, EntriesMatch, WritesLanded, Reverted, Applying,
     Grouped
<1> QED
  BY <1>2, <1>2a, <1>3, <1>4 DEF Rest

\* The batch in hand is the only pending one, so recovery consults it alone.
LEMMA InHand ==
    ASSUME TypeOK, PendingByPhase, Applying \/ phase = "revert"
    PROVE  /\ OnlyPending(status, cur)
           /\ \A t \in Targets : Recovered(t) =
                 IF pre[cur][t] = NotRecorded THEN pageFile[t] ELSE pre[cur][t]
<1>1. OnlyPending(status, cur)
  BY DEF TypeOK, PendingByPhase, OnePending, OnlyPending
<1>2. ASSUME NEW t \in Targets
      PROVE  RecoveredOf(pageFile, status, pre, t) =
                 IF pre[cur][t] = NotRecorded THEN pageFile[t] ELSE pre[cur][t]
  <2>1. CASE pre[cur][t] = NotRecorded
    <3>1. RecoveredOf(pageFile, status, pre, t) = pageFile[t]
      BY <1>1, <2>1, RecoveredPage
    <3> QED
      BY <2>1, <3>1
  <2>2. CASE pre[cur][t] # NotRecorded
    <3>1. RecoveredOf(pageFile, status, pre, t) = pre[cur][t]
      BY <1>1, <2>2, RecoveredEntry
    <3> QED
      BY <2>2, <3>1
  <2> QED
    BY <2>1, <2>2
<1> QED
  BY <1>1, <1>2, RecoveredHere

\* The same of the state after a step.
LEMMA InHandNext ==
    ASSUME NEW i, OnlyPending(status', i), NEW t \in Targets
    PROVE  Recovered(t)' = IF pre'[i][t] = NotRecorded THEN pageFile'[t] ELSE pre'[i][t]
<1>1. CASE pre'[i][t] = NotRecorded
  <2>1. RecoveredOf(pageFile', status', pre', t) = pageFile'[t]
    BY <1>1, RecoveredPage
  <2> QED
    BY <1>1, <2>1, RecoveredHere
<1>2. CASE pre'[i][t] # NotRecorded
  <2>1. RecoveredOf(pageFile', status', pre', t) = pre'[i][t]
    BY <1>2, RecoveredEntry
  <2> QED
    BY <1>2, <2>1, RecoveredHere
<1> QED
  BY <1>1, <1>2

\* Reverting one entry: recovery already counted on it.
LEMMA RevertStep ==
    ASSUME TypeOK, Rest, NEW t \in Targets, RevertEntry(t)
    PROVE  Rest' /\ SameView
<1> USE DEF journal
<1>1. /\ OnlyPending(status, cur)
      /\ \A u \in Targets : Recovered(u) =
            IF pre[cur][u] = NotRecorded THEN pageFile[u] ELSE pre[cur][u]
  BY InHand DEF RevertEntry, Rest
<1>2. /\ UNCHANGED <<status, pre, phase, kind, scan, cur, plan, saved, wrote, acked, exposed>>
      /\ phase = "revert" /\ t \in left /\ left' = left \ {t}
      /\ pageFile'[t] = pre[cur][t] /\ \A u \in Targets \ {t} : pageFile'[u] = pageFile[u]
  BY DEF RevertEntry, TypeOK
<1>3. pre[cur][t] # NotRecorded
  BY <1>2 DEF Rest, Reverted, Recorded
<1>4. SameView
  <2> SUFFICES ASSUME NEW u \in Targets PROVE Recovered(u)' = Recovered(u)
    BY DEF SameView
  <2>0. OnlyPending(status', cur)
    BY <1>1, <1>2
  <2>1. Recovered(u)' = IF pre'[cur][u] = NotRecorded THEN pageFile'[u] ELSE pre'[cur][u]
    BY <2>0, InHandNext
  <2> QED
    BY <1>1, <1>2, <1>3, <2>1
<1>4a. AckedSurvives'
  BY <1>2, <1>4, AckedStep DEF Rest
<1>5. PendingByPhase'
  BY <1>2 DEF Rest, PendingByPhase, OnePending, Applying, Blank
<1>6. Progress' /\ EntriesMatch' /\ WritesLanded'
  BY <1>2 DEF Rest, Progress, EntriesMatch, WritesLanded, Applying, Grouped
<1>7. Reverted'
  BY <1>2 DEF Rest, Reverted, Recorded
<1> QED
  BY <1>4, <1>4a, <1>5, <1>6, <1>7 DEF Rest

\* Removing the journal of a batch that is wholly reverted.
LEMMA ResolveStep ==
    ASSUME TypeOK, Rest, ResolvePending
    PROVE  Rest' /\ SameView
<1> USE DEF journal
<1>1. /\ OnlyPending(status, cur)
      /\ \A u \in Targets : Recovered(u) =
            IF pre[cur][u] = NotRecorded THEN pageFile[u] ELSE pre[cur][u]
  BY InHand DEF ResolvePending, Rest
<1>2. /\ UNCHANGED <<pageFile, kind, cur, left, plan, saved, wrote, acked, exposed>>
      /\ phase = "revert" /\ phase' = "scan" /\ left = {}
      /\ status'[cur] = "none" /\ pre'[cur] = Blank
      /\ \A j \in Ids \ {cur} : status'[j] = status[j] /\ pre'[j] = pre[j]
  BY <1>1, RemoveType DEF ResolvePending, OnlyPending
<1>3. \A j \in Ids : status'[j] # "pending"
  BY <1>1, <1>2 DEF OnlyPending
<1>4. SameView
  <2> SUFFICES ASSUME NEW u \in Targets PROVE Recovered(u)' = Recovered(u)
    BY DEF SameView
  <2>1. Recovered(u)' = pageFile'[u]
    BY <1>3, RecoveredHere, RecoveredNone
  <2>2. pageFile[u] = Recovered(u)
    BY <1>1, <1>2 DEF Rest, Reverted, Recorded
  <2> QED
    BY <1>2, <2>1, <2>2
<1>4a. AckedSurvives'
  BY <1>2, <1>4, AckedStep DEF Rest
<1>5. PendingByPhase'
  BY <1>2, <1>3 DEF Rest, PendingByPhase, OnePending, Applying, Blank
<1>6. Progress' /\ EntriesMatch' /\ WritesLanded' /\ Reverted'
  BY <1>2 DEF Rest, Progress, EntriesMatch, WritesLanded, Reverted, Applying
<1> QED
  BY <1>4, <1>4a, <1>5, <1>6 DEF Rest

\* Starting a revert with every entry still to be put back.
LEMMA RevertBatchStep ==
    ASSUME TypeOK, Rest, NEW i \in Ids, RevertBatch(i)
    PROVE  Rest' /\ SameView
<1> USE DEF journal
<1>1. SameView /\ AckedSurvives'
  BY SameDisk, AckedStep DEF Rest, RevertBatch
<1>2. PendingByPhase'
  BY DEF Rest, RevertBatch, PendingByPhase, OnePending, Applying, Blank
<1>3. Progress' /\ EntriesMatch' /\ WritesLanded'
  BY DEF Rest, RevertBatch, Progress, EntriesMatch, WritesLanded, Applying, Grouped
<1>4. Reverted'
  BY DEF RevertBatch, Reverted, Recorded
<1> QED
  BY <1>1, <1>2, <1>3, <1>4 DEF Rest

\* The scan is over: nothing is pending any more.
LEMMA ScanDoneStep ==
    ASSUME TypeOK, Rest, ScanDone
    PROVE  Rest' /\ SameView
<1> USE DEF journal
<1>1. CASE kind \in {"recover", "updateError"}
  BY <1>1, EndStep DEF ScanDone
<1>2. CASE kind \notin {"recover", "updateError"}
  <2>1. SameView /\ AckedSurvives'
    BY SameDisk, AckedStep DEF Rest, ScanDone
  <2>2. PendingByPhase'
    BY <1>2 DEF Rest, ScanDone, PendingByPhase, OnePending, Applying, Blank
  <2>3. Progress' /\ EntriesMatch' /\ WritesLanded' /\ Reverted'
    BY <1>2 DEF Rest, ScanDone, Progress, EntriesMatch, WritesLanded, Reverted, Applying
  <2> QED
    BY <2>1, <2>2, <2>3 DEF Rest
<1> QED
  BY <1>1, <1>2

\* A new batch has no entry, so recovery changes nothing yet.
LEMMA OpenBatchStep ==
    ASSUME TypeOK, Rest, NEW i \in Ids, OpenBatch(i)
    PROVE  Rest' /\ SameView
<1>1. /\ UNCHANGED <<pageFile, pre, kind, scan, left, plan, saved, wrote, acked, exposed>>
      /\ phase = "open" /\ phase' \in {"record", "check"} /\ cur' = i
      /\ (phase' = "check" <=> ~Grouped)
      /\ status'[i] = "pending" /\ status[i] # "pending"
      /\ \A j \in Ids \ {i} : status'[j] = status[j]
  BY DEF OpenBatch, TypeOK
<1>2. pre[i] = Blank /\ \A j \in Ids : status[j] # "pending"
  BY <1>1 DEF Rest, PendingByPhase
<1>3. OnlyPending(status', i)
  BY <1>1, <1>2 DEF OnlyPending
<1>4. SameView
  <2> SUFFICES ASSUME NEW t \in Targets PROVE Recovered(t)' = Recovered(t)
    BY DEF SameView
  <2>1. pre'[i][t] = NotRecorded
    BY <1>1, <1>2 DEF Blank
  <2>2. Recovered(t)' = pageFile'[t]
    BY <1>3, <2>1, InHandNext
  <2>3. RecoveredOf(pageFile, status, pre, t) = pageFile[t]
    BY <1>2, RecoveredNone
  <2> QED
    BY <1>1, <2>2, <2>3, RecoveredHere
<1>4a. AckedSurvives'
  BY <1>1, <1>4, AckedStep DEF Rest
<1>5. PendingByPhase'
  BY <1>1, <1>2, <1>3 DEF Rest, PendingByPhase, OnePending, OnlyPending, Applying, Blank
<1>6. plan \in Plans /\ saved = 0 /\ wrote = 0 /\ Len(plan) > 0
  BY <1>1, PlanLength DEF Rest, Progress, Applying
<1>7. Progress'
  BY <1>1, <1>6 DEF Progress, Applying, Grouped
<1>8. EntriesMatch' /\ WritesLanded' /\ Reverted'
  BY <1>1, <1>2, <1>6 DEF EntriesMatch, WritesLanded, Reverted, Blank
<1> QED
  BY <1>4, <1>4a, <1>5, <1>7, <1>8 DEF Rest

LEMMA CheckStep ==
    ASSUME TypeOK, Rest, CheckMutation
    PROVE  Rest' /\ SameView
<1> USE DEF journal
<1>1. /\ UNCHANGED <<pageFile, status, pre, kind, scan, cur, left, plan, saved, wrote,
                     acked, exposed>>
      /\ phase = "check" /\ phase' = "record"
  BY DEF CheckMutation
<1>2. SameView /\ AckedSurvives'
  BY <1>1, SameDisk, AckedStep DEF Rest
<1>3. PendingByPhase'
  BY <1>1 DEF Rest, PendingByPhase, OnePending, Applying, Blank
<1>4. Progress' /\ EntriesMatch' /\ Reverted'
  BY <1>1 DEF Rest, Progress, EntriesMatch, Reverted, Applying, Grouped
<1>5. WritesLanded'
  BY <1>1 DEF Rest, WritesLanded, Applying
<1> QED
  BY <1>2, <1>3, <1>4, <1>5 DEF Rest

\* The first record of a target saves what is on the page, before any write to it.
LEMMA RecordStep ==
    ASSUME TypeOK, Rest, RecordPreState
    PROVE  Rest' /\ SameView
<1> DEFINE t == plan[saved + 1].target
<1>1. /\ plan \in Plans /\ saved \in Nat /\ wrote \in Nat /\ Len(plan) \in Nat
      /\ saved < Len(plan) /\ wrote <= saved
  BY PlanLength DEF RecordPreState, Rest, Progress, Applying, TypeOK
<1>2. t \in Targets
  BY <1>1, PlanMutation
<1>3. /\ UNCHANGED <<pageFile, status, kind, scan, cur, left, plan, wrote, acked, exposed>>
      /\ phase = "record" /\ phase' \in {"record", "write"} /\ saved' = saved + 1
      /\ (phase' = "record" <=> Grouped /\ saved + 1 < Len(plan))
  BY DEF RecordPreState
<1>4. /\ OnlyPending(status, cur) /\ cur \in Ids
      /\ \A u \in Targets : Recovered(u) =
            IF pre[cur][u] = NotRecorded THEN pageFile[u] ELSE pre[cur][u]
  BY <1>3, InHand DEF Rest, Applying, OnlyPending
<1>5. /\ \A u \in Targets \ {t} : pre'[cur][u] = pre[cur][u]
      /\ pre'[cur][t] = IF pre[cur][t] = NotRecorded THEN pageFile[t] ELSE pre[cur][t]
      /\ \A j \in Ids \ {cur} : pre'[j] = pre[j]
  BY <1>2, <1>4 DEF RecordPreState, TypeOK
<1>6. pageFile[t] # NotRecorded
  BY <1>2, JournalAssumption DEF TypeOK
<1>7. SameView
  <2> SUFFICES ASSUME NEW u \in Targets PROVE Recovered(u)' = Recovered(u)
    BY DEF SameView
  <2>1. OnlyPending(status', cur)
    BY <1>3, <1>4
  <2>2. Recovered(u)' = IF pre'[cur][u] = NotRecorded THEN pageFile'[u] ELSE pre'[cur][u]
    BY <2>1, InHandNext
  <2> QED
    BY <1>3, <1>4, <1>5, <1>6, <2>2
<1>7a. AckedSurvives'
  BY <1>3, <1>7, AckedStep DEF Rest
<1>8. PendingByPhase'
  BY <1>3, <1>4, <1>5 DEF Rest, PendingByPhase, OnePending, OnlyPending, Applying, Blank
<1>9. Progress'
  BY <1>1, <1>3 DEF Rest, Progress, Applying, Grouped
<1>10. EntriesMatch'
  <2> SUFFICES ASSUME NEW u \in Targets
               PROVE  pre'[cur][u] # NotRecorded
                        <=> \E j \in 1..(saved + 1) : plan[j].target = u
    BY <1>3 DEF EntriesMatch
  <2>1. pre[cur][u] # NotRecorded <=> \E j \in 1..saved : plan[j].target = u
    BY <1>3 DEF Rest, EntriesMatch, Applying
  <2>2. CASE u = t
    BY <1>1, <1>5, <1>6, <2>2
  <2>3. CASE u # t
    BY <1>1, <1>5, <2>1, <2>3
  <2> QED
    BY <2>2, <2>3
<1>11. WritesLanded'
  BY <1>3 DEF Rest, WritesLanded, Applying
<1>12. Reverted'
  BY <1>3 DEF Reverted
<1> QED
  BY <1>7, <1>7a, <1>8, <1>9, <1>10, <1>11, <1>12 DEF Rest

\* A write touches a recorded target only, so recovery does not see it.
LEMMA WriteStep ==
    ASSUME TypeOK, Rest, WriteOne
    PROVE  Rest' /\ SameView
<1> USE DEF journal
<1> DEFINE m == plan[wrote + 1]
<1>1. /\ plan \in Plans /\ saved \in Nat /\ wrote \in Nat /\ Len(plan) \in Nat
      /\ wrote < saved /\ saved <= Len(plan)
  BY PlanLength DEF WriteOne, Rest, Progress, Applying, TypeOK
<1>2. m.target \in Targets /\ m.body \in Bodies
  BY <1>1, PlanMutation
<1>3. /\ UNCHANGED <<status, pre, kind, scan, cur, left, plan, saved, acked, exposed>>
      /\ phase = "write" /\ wrote' = wrote + 1
      /\ pageFile'[m.target] = m.body /\ \A u \in Targets \ {m.target} : pageFile'[u] = pageFile[u]
      /\ phase' = IF wrote + 1 = Len(plan) THEN "commit"
               ELSE IF Grouped THEN "write" ELSE "check"
  BY <1>2 DEF WriteOne, TypeOK
<1>4. /\ OnlyPending(status, cur) /\ cur \in Ids
      /\ \A u \in Targets : Recovered(u) =
            IF pre[cur][u] = NotRecorded THEN pageFile[u] ELSE pre[cur][u]
  BY <1>3, InHand DEF Rest, Applying, OnlyPending
<1>5. pre[cur][m.target] # NotRecorded
  <2>1. wrote + 1 \in 1..saved
    BY <1>1
  <2> QED
    BY <1>2, <1>3, <2>1 DEF Rest, EntriesMatch, Applying
<1>6. SameView
  <2> SUFFICES ASSUME NEW u \in Targets PROVE Recovered(u)' = Recovered(u)
    BY DEF SameView
  <2>1. OnlyPending(status', cur)
    BY <1>3, <1>4
  <2>2. Recovered(u)' = IF pre'[cur][u] = NotRecorded THEN pageFile'[u] ELSE pre'[cur][u]
    BY <2>1, InHandNext
  <2> QED
    BY <1>3, <1>4, <1>5, <2>2
<1>6a. AckedSurvives'
  BY <1>3, <1>6, AckedStep DEF Rest
<1>7. PendingByPhase'
  BY <1>3 DEF Rest, PendingByPhase, OnePending, Applying, Blank
<1>8. Progress'
  BY <1>1, <1>3 DEF Rest, Progress, Applying, Grouped
<1>9. EntriesMatch'
  BY <1>3 DEF Rest, EntriesMatch, Applying
<1>10. WritesLanded'
  <2> SUFFICES ASSUME NEW u \in Targets, NEW j \in 1..(wrote + 1), plan[j].target = u
               PROVE  pageFile'[u] = ApplyFirst(acked, plan, wrote + 1)[u]
    BY <1>3 DEF WritesLanded
  <2>1. CASE m.target = u
    <3>1. ApplyFirst(acked, plan, wrote + 1)[u] = m.body
      BY <1>1, <2>1, ApplyHit
    <3> QED
      BY <1>3, <2>1, <3>1
  <2>2. CASE m.target # u
    <3>1. ApplyFirst(acked, plan, wrote + 1)[u] = ApplyFirst(acked, plan, wrote)[u]
      BY <1>1, <2>2, ApplyMiss
    <3>2. j \in 1..wrote
      BY <1>1, <2>2
    <3>3. pageFile[u] = ApplyFirst(acked, plan, wrote)[u]
      BY <1>3, <3>2 DEF Rest, WritesLanded, Applying
    <3> QED
      BY <1>3, <2>2, <3>1, <3>3
  <2> QED
    BY <2>1, <2>2
<1>11. Reverted'
  BY <1>3 DEF Reverted
<1> QED
  BY <1>6, <1>6a, <1>7, <1>8, <1>9, <1>10, <1>11 DEF Rest

-----------------------------------------------------------------------------
(* The two steps that change what recovery yields. *)

\* Every mutation of the plan is on the pages when the journal goes, and no other
\* page has changed: the whole plan becomes what recovery yields.
LEMMA CommitStep ==
    ASSUME TypeOK, Rest, CommitBatch
    PROVE  /\ Rest' /\ plan \in Plans /\ wrote = Len(plan)
           /\ \A t \in Targets : Recovered(t)' = ApplyFirst(view, plan, wrote)[t]
<1>1. plan \in Plans /\ saved = Len(plan) /\ wrote = Len(plan) /\ Len(plan) \in Nat
  BY PlanLength DEF CommitBatch, Rest, Progress, Applying
<1>2. /\ OnlyPending(status, cur) /\ cur \in Ids
      /\ \A u \in Targets : Recovered(u) =
            IF pre[cur][u] = NotRecorded THEN pageFile[u] ELSE pre[cur][u]
  BY InHand DEF CommitBatch, Rest, Applying, OnlyPending
<1>3. /\ status'[cur] = "none" /\ pre'[cur] = Blank
      /\ \A j \in Ids \ {cur} : status'[j] = status[j] /\ pre'[j] = pre[j]
  BY <1>2, RemoveType DEF CommitBatch
<1>4. /\ UNCHANGED <<pageFile, cur>> /\ phase' \in {"idle", "compile"}
      /\ acked' = ApplyFirst(acked, plan, wrote) /\ exposed' = exposed \ Recorded(cur)
      /\ saved' = 0 /\ wrote' = 0
  BY DEF CommitBatch, End
<1>5. \A j \in Ids : status'[j] # "pending"
  BY <1>2, <1>3 DEF OnlyPending
<1>6. \A t \in Targets : Recovered(t)' = pageFile[t]
  BY <1>4, <1>5, RecoveredHere, RecoveredNone
<1>7. ASSUME NEW t \in Targets, NEW j \in 1..wrote, plan[j].target = t
      PROVE  /\ pageFile[t] = ApplyFirst(acked, plan, wrote)[t]
             /\ pageFile[t] = ApplyFirst(view, plan, wrote)[t]
  <2>1. pageFile[t] = ApplyFirst(acked, plan, wrote)[t]
    BY <1>7 DEF Rest, WritesLanded, CommitBatch, Applying
  <2>2. ApplyFirst(acked, plan, wrote)[t] = ApplyFirst(view, plan, wrote)[t]
    BY <1>1, <1>7, ApplySome
  <2> QED
    BY <2>1, <2>2
<1>8. ASSUME NEW t \in Targets, ~\E j \in 1..wrote : plan[j].target = t
      PROVE  /\ ApplyFirst(acked, plan, wrote)[t] = acked[t]
             /\ ApplyFirst(view, plan, wrote)[t] = pageFile[t]
             /\ t \notin Recorded(cur) /\ Recovered(t) = pageFile[t]
  <2>1. pre[cur][t] = NotRecorded
    BY <1>1, <1>8 DEF Rest, EntriesMatch, CommitBatch, Applying
  <2>2. Recovered(t) = pageFile[t] /\ t \notin Recorded(cur)
    BY <1>2, <2>1 DEF Recorded
  <2>3. view[t] = pageFile[t]
    BY <2>2 DEF view
  <2>4. ApplyFirst(acked, plan, wrote)[t] = acked[t]
    BY <1>1, <1>8, ApplyNone
  <2>5. ApplyFirst(view, plan, wrote)[t] = view[t]
    BY <1>1, <1>8, ApplyNone
  <2> QED
    BY <2>2, <2>3, <2>4, <2>5
<1>9. AckedSurvives'
  <2> SUFFICES ASSUME NEW t \in Targets, t \notin exposed'
               PROVE  Recovered(t)' = acked'[t]
    BY DEF AckedSurvives
  <2>1. CASE \E j \in 1..wrote : plan[j].target = t
    BY <1>4, <1>6, <1>7, <2>1
  <2>2. CASE ~\E j \in 1..wrote : plan[j].target = t
    <3>1. t \notin exposed
      BY <1>4, <1>8, <2>2
    <3> QED
      BY <1>4, <1>6, <1>8, <2>2, <3>1 DEF Rest, AckedSurvives
  <2> QED
    BY <2>1, <2>2
<1>10. \A t \in Targets : Recovered(t)' = ApplyFirst(view, plan, wrote)[t]
  BY <1>6, <1>7, <1>8
<1>11. PendingByPhase'
  BY <1>3, <1>4, <1>5 DEF Rest, PendingByPhase, OnePending, Applying, Blank
<1>12. Progress' /\ EntriesMatch' /\ WritesLanded' /\ Reverted'
  BY <1>4 DEF Progress, EntriesMatch, WritesLanded, Reverted, Applying
<1> QED
  BY <1>1, <1>9, <1>10, <1>11, <1>12 DEF Rest

\* A direct write shows unless a pending entry hides it.
LEMMA DirectStep ==
    ASSUME TypeOK, Rest, NEW w \in DirectWrites, DirectWrite(w)
    PROVE  /\ Rest'
           /\ SameView \/ \A t \in Targets :
                 Recovered(t)' = IF t = w[1] THEN w[2] ELSE Recovered(t)
<1> USE DEF journal, session
<1>1. w[1] \in Targets
  BY JournalAssumption
<1>2. /\ UNCHANGED <<status, pre, phase, kind, scan, cur, left, plan, saved, wrote>>
      /\ phase = "idle"
      /\ pageFile'[w[1]] = w[2] /\ \A t \in Targets \ {w[1]} : pageFile'[t] = pageFile[t]
      /\ acked'[w[1]] = w[2] /\ \A t \in Targets \ {w[1]} : acked'[t] = acked[t]
      /\ exposed' = IF Covering(w[1]) = {} THEN exposed \ {w[1]} ELSE exposed \cup {w[1]}
  BY <1>1 DEF DirectWrite, TypeOK
<1>3. \A t \in Targets : Covering(t)' = Covering(t)
  BY <1>2 DEF Covering
<1>4. ASSUME NEW t \in Targets \ {w[1]} PROVE Recovered(t)' = Recovered(t)
  <2>1. (CHOOSE i \in Covering(t)' : TRUE) = (CHOOSE i \in Covering(t) : TRUE)
    BY <1>3
  <2> QED
    BY <1>2, <1>3, <2>1 DEF Recovered
<1>6. PendingByPhase' /\ Progress' /\ EntriesMatch' /\ WritesLanded' /\ Reverted'
  BY <1>2 DEF Rest, PendingByPhase, OnePending, Progress, EntriesMatch, WritesLanded,
     Reverted, Applying, Blank
<1>5. CASE Covering(w[1]) = {}
  <2>1. Recovered(w[1])' = w[2]
    BY <1>1, <1>2, <1>3, <1>5 DEF Recovered
  <2>2. AckedSurvives'
    BY <1>2, <1>4, <1>5, <2>1 DEF Rest, AckedSurvives
  <2>3. \A t \in Targets : Recovered(t)' = IF t = w[1] THEN w[2] ELSE Recovered(t)
    BY <1>4, <2>1
  <2> QED
    BY <2>2, <2>3, <1>6 DEF Rest
<1>7. CASE Covering(w[1]) # {}
  <2>1. (CHOOSE i \in Covering(w[1])' : TRUE) = (CHOOSE i \in Covering(w[1]) : TRUE)
    BY <1>1, <1>3
  <2>2. Recovered(w[1])' = Recovered(w[1])
    BY <1>1, <1>2, <1>3, <1>7, <2>1 DEF Recovered
  <2>3. SameView
    BY <1>4, <2>2 DEF SameView
  <2>4. AckedSurvives'
    BY <1>2, <1>4, <1>7 DEF Rest, AckedSurvives
  <2> QED
    BY <2>3, <2>4, <1>6 DEF Rest
<1> QED
  BY <1>5, <1>7

-----------------------------------------------------------------------------
(* All steps together. *)

\* What a step may do to what recovery yields.
ViewStep ==
    \/ SameView
    \/ \E p \in Plans :
          \A t \in Targets : Recovered(t)' = ApplyFirst(view, p, Len(p))[t]
    \/ \E w \in DirectWrites :
          \A t \in Targets : Recovered(t)' = IF t = w[1] THEN w[2] ELSE Recovered(t)

LEMMA NextStep == IInv /\ Next => IInv' /\ ViewStep
<1> SUFFICES ASSUME IInv, Next PROVE IInv' /\ ViewStep
  OBVIOUS
<1> USE DEF journal
<1>1. TypeOK /\ Rest
  BY DEF IInv, Rest
<1>2. TypeOK'
  BY <1>1, TypeStep DEF Rest
<1>3. ASSUME NEW p \in Plans, StartApply("pages", p) \/ CompileBatch(p)
      PROVE  Rest' /\ SameView
  BY <1>1, <1>3, ListStep DEF StartApply, CompileBatch
<1>4. ASSUME NEW p \in PairPlans, StartApply("artifact", p) \/ StartStrict("update", p)
      PROVE  Rest' /\ SameView
  BY <1>1, <1>4, ListStep DEF StartApply, StartStrict, PairPlans
<1>5. ASSUME NEW k \in {"recover", "compile"}, StartStrict(k, <<>>)
      PROVE  Rest' /\ SameView
  BY <1>1, <1>5, ListStep DEF StartStrict
<1>6. ASSUME NEW i \in Ids, ScanCommitted(i) \/ QuarantineBatch(i)
      PROVE  Rest' /\ SameView
  BY <1>1, <1>6, ScanStep
<1>7. ASSUME NEW i \in Ids, RefuseUnsafe(i) PROVE Rest' /\ SameView
  BY <1>1, <1>7, EndStep DEF RefuseUnsafe
<1>8. ASSUME NEW i \in Ids, RevertBatch(i) \/ OpenBatch(i) PROVE Rest' /\ SameView
  BY <1>1, <1>8, RevertBatchStep, OpenBatchStep
<1>9. ASSUME NEW t \in Targets, RevertEntry(t) PROVE Rest' /\ SameView
  BY <1>1, <1>9, RevertStep
<1>10. ASSUME ResolvePending \/ ScanDone \/ CheckMutation \/ RecordPreState \/ WriteOne
       PROVE  Rest' /\ SameView
  BY <1>1, <1>10, ResolveStep, ScanDoneStep, CheckStep, RecordStep, WriteStep
<1>11. ASSUME CompileDone \/ SessionFails PROVE Rest' /\ SameView
  BY <1>1, <1>11, EndStep DEF CompileDone, SessionFails
<1>12. ASSUME UpdateError PROVE Rest' /\ SameView
  BY <1>1, <1>12, ListStep DEF UpdateError
<1>13. ASSUME CommitBatch PROVE Rest' /\ ViewStep
  BY <1>1, <1>13, CommitStep DEF ViewStep
<1>14. ASSUME NEW w \in DirectWrites, DirectWrite(w) PROVE Rest' /\ ViewStep
  BY <1>1, <1>14, DirectStep DEF ViewStep
<1>15. Rest' /\ ViewStep
  <2>1. SameView => ViewStep
    BY DEF ViewStep
  <2> QED
    BY <2>1, <1>3, <1>4, <1>5, <1>6, <1>7, <1>8, <1>9, <1>10, <1>11, <1>12, <1>13,
       <1>14 DEF Next
<1> QED
  BY <1>2, <1>15 DEF IInv, Rest

LEMMA StutterStep == IInv /\ UNCHANGED vars => IInv' /\ SameView
<1> SUFFICES ASSUME IInv, UNCHANGED vars PROVE IInv' /\ SameView
  OBVIOUS
<1> USE DEF vars
<1>1. TypeOK'
  BY DEF IInv, TypeOK
<1>2. SameView
  BY SameDisk
<1>3. AckedSurvives'
  BY <1>2, AckedStep DEF IInv
<1>4. PendingByPhase' /\ Progress'
  BY DEF IInv, PendingByPhase, OnePending, Progress, Applying, Grouped, Blank
<1>5. EntriesMatch' /\ WritesLanded' /\ Reverted'
  BY DEF IInv, EntriesMatch, WritesLanded, Reverted, Recorded, Applying
<1> QED
  BY <1>1, <1>2, <1>3, <1>4, <1>5 DEF IInv

\* The inductive invariant holds throughout.
THEOREM JournalInvariant == Spec => []IInv
<1>1. IInv /\ [Next]_vars => IInv'
  BY NextStep, StutterStep
<1> QED
  BY InitInv, <1>1, PTL DEF Spec

\* Every variable of the journal, the pages and the session keeps its type.
THEOREM JournalTypeCorrect == Spec => []TypeOK
<1>1. IInv => TypeOK
  BY DEF IInv
<1> QED
  BY JournalInvariant, <1>1, PTL

\* No command ever opens a batch while another one is pending (replayJournal and
\* recoverJournalBeforeCompile run before openBatch), whatever failed before.
THEOREM AtMostOnePendingBatch == Spec => []OnePending
<1>1. IInv => OnePending
  BY DEF IInv, PendingByPhase
<1> QED
  BY JournalInvariant, <1>1, PTL

\* Recovery yields exactly the batches that returned, in every state a failure can
\* leave behind, except on pages written directly under a pending entry.
THEOREM BatchesAtomicAndDurable == Spec => []AckedSurvives
<1>1. IInv => AckedSurvives
  BY DEF IInv
<1> QED
  BY JournalInvariant, <1>1, PTL

\* The executor with its journal implements the atomic store.
THEOREM JournalImplementsAtomicStore == Spec => ImplementsAtomicStore
<1>1. Init => Store!Init
  <2> SUFFICES ASSUME Init PROVE view \in [Targets -> Content]
    BY DEF Store!Init, Content
  <2>1. IInv /\ \A j \in Ids : status[j] # "pending"
    BY InitInv DEF Init
  <2>2. \A t \in Targets : Recovered(t) = pageFile[t]
    BY <2>1, RecoveredHere, RecoveredNone
  <2> QED
    BY <2>2 DEF view, Init
<1>2. SameView => view' = view
  BY DEF SameView, view
<1>3. ASSUME NEW p \in Plans,
             \A t \in Targets : Recovered(t)' = ApplyFirst(view, p, Len(p))[t]
      PROVE  Store!Apply(p)
  <2>1. Store!ApplyPlan(view, p) = ApplyFirst(view, p, Len(p))
    BY DEF Store!ApplyPlan, ApplyFirst
  <2>2. view' = [t \in Targets |-> ApplyFirst(view, p, Len(p))[t]]
    BY <1>3 DEF view
  <2>3. @ = ApplyFirst(view, p, Len(p))
    BY DEF ApplyFirst
  <2> QED
    BY <2>1, <2>2, <2>3 DEF Store!Apply
<1>4. ASSUME NEW w \in DirectWrites,
             \A t \in Targets : Recovered(t)' = IF t = w[1] THEN w[2] ELSE Recovered(t)
      PROVE  Store!Write(w)
  BY <1>4 DEF Store!Write, view
<1>5. IInv /\ [Next]_vars => [Store!Next]_view
  BY NextStep, StutterStep, <1>2, <1>3, <1>4 DEF ViewStep, Store!Next
<1> QED
  BY JournalInvariant, <1>1, <1>5, PTL DEF Spec, ImplementsAtomicStore, Store!Spec
=============================================================================
