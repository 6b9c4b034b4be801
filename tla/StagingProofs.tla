---------------------------- MODULE StagingProofs ----------------------------
(***************************************************************************)
(* The review queue, for any sessions, slugs, sources, answers and bounds, *)
(* and any number of deaths, failed renames, hand edits and profile edits. *)
(***************************************************************************)
EXTENDS Staging, SequenceTheorems, FiniteSetTheorems, WellFoundedInduction, TLAPS

(* Sequences of candidates, by their sets.                                 *)

\* A set of naturals that is not empty has a least element.
LEMMA LeastNatural ==
    ASSUME NEW S \in SUBSET Nat, S # {}
    PROVE  \E n \in S : \A m \in S : n <= m
<1> DEFINE T == {1..n : n \in S}
           R == StrictSubsetOrdering(Nat)
           F == FiniteSubsetsOf(Nat)
<1>1. IsWellFoundedOn(R, F)
  BY FS_StrictSubsetOrderingWellFounded
<1>2. T \subseteq F /\ T # {}
  <2>1. \A n \in S : 1..n \in SUBSET Nat /\ IsFiniteSet(1..n)
    BY FS_Interval
  <2> QED
    BY <2>1 DEF FiniteSubsetsOf
<1> HIDE DEF T, R, F
<1>3. PICK x \in T : \A y \in T : <<y, x>> \notin R
  BY <1>1, <1>2, WFMin
<1>4. PICK n \in S : x = 1..n
  BY <1>3 DEF T
<1>5. ASSUME NEW m \in S, m < n PROVE FALSE
  <2>1. 1..m \subseteq 1..n /\ n \in 1..n /\ n \notin 1..m
    BY <1>5
  <2>2. 1..m \in SUBSET Nat /\ 1..n \in SUBSET Nat
    OBVIOUS
  <2>3. <<1..m, 1..n>> \in R
    BY <2>1, <2>2 DEF R, StrictSubsetOrdering
  <2> QED
    BY <1>3, <1>4, <2>3 DEF T
<1> QED
  BY <1>5

UniqueIds(q) == \A i, j \in DOMAIN q : q[i].id = q[j].id => i = j

\* Removing one element of a sequence.
LEMMA RemoveAtProperties ==
    ASSUME NEW X, NEW q \in Seq(X), NEW k \in DOMAIN q
    PROVE  /\ RemoveAt(q, k) \in Seq(X) /\ Len(RemoveAt(q, k)) = Len(q) - 1
           /\ \A i \in 1..(Len(q) - 1) : RemoveAt(q, k)[i] = IF i < k THEN q[i] ELSE q[i + 1]
<1>1. PICK n \in Nat : n = Len(q) /\ DOMAIN q = 1..n
  OBVIOUS
<1>2. k \in 1..n /\ \A i \in 1..n : q[i] \in X
  BY <1>1
<1> DEFINE a == SubSeq(q, 1, k - 1)
           b == SubSeq(q, k + 1, n)
<1>3. /\ a \in Seq(X) /\ Len(a) = k - 1
      /\ \A i \in 1..(k - 1) : a[i] = q[i]
  <2>1. 1 \in Int /\ k - 1 \in Int /\ \A i \in 1..(k - 1) : q[i] \in X
    BY <1>2
  <2>2. /\ SubSeq(q, 1, k - 1) \in Seq(X)
        /\ Len(SubSeq(q, 1, k - 1)) = IF 1 <= k - 1 THEN (k - 1) - 1 + 1 ELSE 0
        /\ \A i \in 1..((k - 1) - 1 + 1) : SubSeq(q, 1, k - 1)[i] = q[1 + i - 1]
    BY <2>1, SubSeqProperties
  <2> QED
    BY <1>2, <2>2
<1>4. /\ b \in Seq(X) /\ Len(b) = n - k
      /\ \A i \in 1..(n - k) : b[i] = q[i + k]
  <2>1. k + 1 \in Int /\ n \in Int /\ \A i \in (k + 1)..n : q[i] \in X
    BY <1>2
  <2>2. /\ SubSeq(q, k + 1, n) \in Seq(X)
        /\ Len(SubSeq(q, k + 1, n)) = IF k + 1 <= n THEN n - (k + 1) + 1 ELSE 0
        /\ \A i \in 1..(n - (k + 1) + 1) : SubSeq(q, k + 1, n)[i] = q[(k + 1) + i - 1]
    BY <2>1, SubSeqProperties
  <2>3. \A i \in 1..(n - k) : (k + 1) + i - 1 = i + k /\ n - (k + 1) + 1 = n - k
    BY <1>2
  <2> QED
    BY <1>2, <2>2, <2>3
<1> HIDE DEF a, b
<1>5. /\ a \o b \in Seq(X) /\ Len(a \o b) = Len(a) + Len(b)
      /\ \A i \in 1..(Len(a) + Len(b)) : (a \o b)[i] = IF i <= Len(a) THEN a[i] ELSE b[i - Len(a)]
  BY <1>3, <1>4, ConcatProperties
<1>6. Len(a) + Len(b) = n - 1
  BY <1>2, <1>3, <1>4
<1>7. ASSUME NEW i \in 1..(n - 1)
      PROVE  (a \o b)[i] = IF i < k THEN q[i] ELSE q[i + 1]
  <2>1. (a \o b)[i] = IF i <= k - 1 THEN a[i] ELSE b[i - (k - 1)]
    BY <1>3, <1>5, <1>6
  <2>2. CASE i < k
    <3>1. i <= k - 1 /\ i \in 1..(k - 1)
      BY <1>2, <2>2
    <3> QED
      BY <1>3, <2>1, <2>2, <3>1
  <2>3. CASE ~(i < k)
    <3>1. ~(i <= k - 1) /\ i - (k - 1) \in 1..(n - k) /\ (i - (k - 1)) + k = i + 1
      BY <1>2, <2>3
    <3> QED
      BY <1>4, <2>1, <2>3, <3>1
  <2> QED
    BY <2>2, <2>3
<1>8. RemoveAt(q, k) = a \o b
  BY <1>1 DEF RemoveAt, a, b
<1> QED
  BY <1>1, <1>5, <1>6, <1>7, <1>8

\* Deleting the file of an id (candidates.ts deleteCandidate).
LEMMA WithoutProperties ==
    ASSUME NEW X, NEW q \in Seq(X), NEW id, UniqueIds(q)
    PROVE  /\ Without(q, id) \in Seq(X) /\ UniqueIds(Without(q, id))
           /\ ToSet(Without(q, id)) = {c \in ToSet(q) : c.id # id}
<1>1. PICK n \in Nat : n = Len(q) /\ DOMAIN q = 1..n
  OBVIOUS
<1>2. CASE ~\E i \in DOMAIN q : q[i].id = id
  <2>1. Without(q, id) = q
    BY <1>2 DEF Without
  <2> QED
    BY <1>2, <2>1 DEF ToSet
<1>3. CASE \E i \in DOMAIN q : q[i].id = id
  <2>1. PICK k \in 1..n : q[k].id = id /\ Without(q, id) = RemoveAt(q, k)
    BY <1>1, <1>3 DEF Without
  <2> DEFINE r == RemoveAt(q, k)
  <2>2. /\ r \in Seq(X) /\ Len(r) = n - 1
        /\ \A i \in 1..(n - 1) : r[i] = IF i < k THEN q[i] ELSE q[i + 1]
    BY <1>1, RemoveAtProperties
  <2> HIDE DEF r
  <2>3. DOMAIN r = 1..(n - 1)
    BY <2>2
  <2>4. \A i \in 1..n : q[i].id = id => i = k
    BY <1>1, <2>1 DEF UniqueIds
  <2>5. UniqueIds(r)
    <3>1. SUFFICES ASSUME NEW i \in 1..(n - 1), NEW j \in 1..(n - 1), r[i].id = r[j].id
                   PROVE  i = j
      BY <2>3 DEF UniqueIds
    <3> DEFINE ii == IF i < k THEN i ELSE i + 1
               jj == IF j < k THEN j ELSE j + 1
    <3>2. ii \in 1..n /\ jj \in 1..n /\ r[i] = q[ii] /\ r[j] = q[jj]
      BY <2>2
    <3>3. ii = jj
      BY <1>1, <3>1, <3>2 DEF UniqueIds
    <3> QED
      BY <3>3
  <2>6. ASSUME NEW i \in 1..(n - 1)
        PROVE  r[i] \in {c \in ToSet(q) : c.id # id}
    <3> DEFINE ii == IF i < k THEN i ELSE i + 1
    <3>1. ii \in 1..n /\ r[i] = q[ii] /\ ii # k
      BY <2>2
    <3> QED
      BY <1>1, <2>4, <3>1 DEF ToSet
  <2>7. ASSUME NEW j \in 1..n, q[j].id # id
        PROVE  \E i \in 1..(n - 1) : r[i] = q[j]
    <3>1. j # k
      BY <2>1, <2>7
    <3>2. CASE j < k
      <4>1. j \in 1..(n - 1)
        BY <3>2
      <4> QED
        BY <2>2, <3>2, <4>1
    <3>3. CASE j > k
      <4>1. j - 1 \in 1..(n - 1) /\ ~(j - 1 < k) /\ (j - 1) + 1 = j
        BY <3>3
      <4> QED
        BY <2>2, <4>1
    <3> QED
      BY <3>1, <3>2, <3>3
  <2>8. ToSet(r) = {c \in ToSet(q) : c.id # id}
    <3>1. \A c \in ToSet(r) : \E i \in 1..(n - 1) : c = r[i]
      BY <2>3 DEF ToSet
    <3>2. \A c \in ToSet(q) : \E j \in 1..n : c = q[j]
      BY <1>1 DEF ToSet
    <3>3. \A i \in 1..(n - 1) : r[i] \in ToSet(r)
      BY <2>3 DEF ToSet
    <3>4. \A c \in ToSet(r) : c \in {d \in ToSet(q) : d.id # id}
      BY <2>6, <3>1
    <3>5. \A c \in ToSet(q) : c.id # id => c \in ToSet(r)
      BY <2>7, <3>2, <3>3
    <3> QED
      BY <3>4, <3>5
  <2> QED
    BY <2>1, <2>2, <2>5, <2>8 DEF r
<1> QED
  BY <1>2, <1>3

\* Writing a file under a new id.
LEMMA AppendCandidate ==
    ASSUME NEW X, NEW q \in Seq(X), NEW c \in X, UniqueIds(q), \A d \in ToSet(q) : d.id # c.id
    PROVE  /\ Append(q, c) \in Seq(X) /\ UniqueIds(Append(q, c))
           /\ ToSet(Append(q, c)) = ToSet(q) \cup {c}
<1>1. PICK n \in Nat : n = Len(q) /\ DOMAIN q = 1..n
  OBVIOUS
<1> DEFINE r == Append(q, c)
<1>2. /\ r \in Seq(X) /\ Len(r) = n + 1 /\ r[n + 1] = c
      /\ \A i \in 1..n : r[i] = q[i]
  BY <1>1, AppendProperties
<1> HIDE DEF r
<1>3. DOMAIN r = 1..(n + 1)
  BY <1>2
<1>4. \A i \in 1..n : q[i].id # c.id
  BY <1>1 DEF ToSet
<1>5. \A i \in 1..(n + 1) : i = n + 1 \/ i \in 1..n
  OBVIOUS
<1>6. UniqueIds(r)
  <2>1. SUFFICES ASSUME NEW i \in 1..(n + 1), NEW j \in 1..(n + 1), r[i].id = r[j].id
                 PROVE  i = j
    BY <1>3 DEF UniqueIds
  <2> QED
    BY <1>1, <1>2, <1>4, <1>5, <2>1 DEF UniqueIds
<1>7. ToSet(r) = ToSet(q) \cup {c}
  <2>1. \A d \in ToSet(r) : d \in ToSet(q) \cup {c}
    BY <1>1, <1>2, <1>3, <1>5 DEF ToSet
  <2>2. n + 1 \in 1..(n + 1) /\ \A i \in 1..n : i \in 1..(n + 1)
    OBVIOUS
  <2>3. \A d \in ToSet(q) \cup {c} : d \in ToSet(r)
    BY <1>1, <1>2, <1>3, <2>2 DEF ToSet
  <2> QED
    BY <2>1, <2>3
<1> QED
  BY <1>2, <1>6, <1>7 DEF r

\* Moving files back (candidate-store.ts restoreArchivedCandidate).
LEMMA ConcatCandidates ==
    ASSUME NEW X, NEW o \in Seq(X), NEW q \in Seq(X), UniqueIds(o), UniqueIds(q),
           \A c \in ToSet(o), d \in ToSet(q) : d.id # c.id
    PROVE  /\ o \o q \in Seq(X) /\ UniqueIds(o \o q)
           /\ ToSet(o \o q) = ToSet(o) \cup ToSet(q)
<1>1. PICK m \in Nat : m = Len(o) /\ DOMAIN o = 1..m
  OBVIOUS
<1>2. PICK n \in Nat : n = Len(q) /\ DOMAIN q = 1..n
  OBVIOUS
<1> DEFINE r == o \o q
<1>3. /\ r \in Seq(X) /\ Len(r) = m + n
      /\ \A i \in 1..(m + n) : r[i] = IF i <= m THEN o[i] ELSE q[i - m]
  BY <1>1, <1>2, ConcatProperties
<1> HIDE DEF r
<1>4. DOMAIN r = 1..(m + n)
  BY <1>3
<1>5. /\ \A i \in 1..m : i \in 1..(m + n) /\ r[i] = o[i]
      /\ \A i \in 1..n : i + m \in 1..(m + n) /\ r[i + m] = q[i]
      /\ \A i \in 1..(m + n) : i \in 1..m \/ (i - m \in 1..n /\ (i - m) + m = i)
  BY <1>3
<1>6. \A i \in 1..(m + n) : (i \in 1..m /\ r[i] = o[i]) \/ (i - m \in 1..n /\ r[i] = q[i - m])
  BY <1>5
<1>7. UniqueIds(r)
  <2>1. SUFFICES ASSUME NEW i \in 1..(m + n), NEW j \in 1..(m + n), r[i].id = r[j].id
                 PROVE  i = j
    BY <1>4 DEF UniqueIds
  <2>2. CASE i \in 1..m /\ r[i] = o[i] /\ j \in 1..m /\ r[j] = o[j]
    BY <1>1, <2>1, <2>2 DEF UniqueIds
  <2>3. CASE i - m \in 1..n /\ r[i] = q[i - m] /\ j - m \in 1..n /\ r[j] = q[j - m]
    <3>1. i - m = j - m
      BY <1>2, <2>1, <2>3 DEF UniqueIds
    <3> QED
      BY <3>1
  <2>4. ~(i \in 1..m /\ r[i] = o[i] /\ j - m \in 1..n /\ r[j] = q[j - m])
    BY <1>1, <1>2, <2>1 DEF ToSet
  <2>5. ~(j \in 1..m /\ r[j] = o[j] /\ i - m \in 1..n /\ r[i] = q[i - m])
    BY <1>1, <1>2, <2>1 DEF ToSet
  <2> QED
    BY <1>6, <2>2, <2>3, <2>4, <2>5
<1>8. ToSet(r) = ToSet(o) \cup ToSet(q)
  <2>1. /\ \A d \in ToSet(r) : \E i \in 1..(m + n) : d = r[i]
        /\ \A d \in ToSet(o) : \E i \in 1..m : d = o[i]
        /\ \A d \in ToSet(q) : \E i \in 1..n : d = q[i]
    BY <1>1, <1>2, <1>4 DEF ToSet
  <2>2. /\ \A i \in 1..(m + n) : r[i] \in ToSet(r)
        /\ \A i \in 1..m : o[i] \in ToSet(o)
        /\ \A i \in 1..n : q[i] \in ToSet(q)
    BY <1>1, <1>2, <1>4 DEF ToSet
  <2>3. \A d \in ToSet(r) : d \in ToSet(o) \cup ToSet(q)
    BY <1>6, <2>1, <2>2
  <2>4. \A d \in ToSet(o) : d \in ToSet(r)
    BY <1>5, <2>1, <2>2
  <2>5. \A d \in ToSet(q) : d \in ToSet(r)
    <3>1. \A i \in 1..n : q[i] \in ToSet(r)
      <4>1. \A i \in 1..n : i + m \in 1..(m + n) /\ r[i + m] = q[i]
        BY <1>5
      <4> QED
        BY <2>2, <4>1
    <3> QED
      BY <2>1, <3>1
  <2> QED
    BY <2>3, <2>4, <2>5
<1> QED
  BY <1>3, <1>7, <1>8 DEF r

\* The oldest of some pending candidates is one of them.
LEMMA OldestIsOne ==
    ASSUME queue \in Seq(Candidate), NEW S, S \subseteq Pending, S # {}
    PROVE  Oldest(S) \in S
<1> DEFINE I == {i \in DOMAIN queue : queue[i] \in S}
<1>1. I \in SUBSET Nat /\ I # {}
  BY DEF Pending, ToSet
<1>2. \E i \in I : \A j \in I : i <= j
  BY <1>1, LeastNatural
<1>3. Min(I) \in I
  BY <1>2 DEF Min
<1> QED
  BY <1>3 DEF Oldest

(***************************************************************************)
(* The inductive invariant.                                                *)
(***************************************************************************)

Kinds == {"native", "typed", "unknown"}

Operations == {"approve", "reject", "promote", "stage", "hold", "import", "connector"}

LockedTurns == Operations \cup {"dedupe", "states", "clear", "archive", "replace", "doc",
                                "promoteStaged", "stamp"}

Turns == LockedTurns \cup {"idle", "shown", "lock", "rate", "fetch"}

Job == [op : Operations \cup {"none"}, id : Nat, pin : Bodies \cup {NoBody},
        seen : Candidate \cup {NoCandidate}, todo : SUBSET Candidate,
        unstated : SUBSET Sources, old : Seq(Candidate), docs : SUBSET (Kinds \X Slugs),
        then : {"done", "doc", "promoteStaged"}, trusted : BOOLEAN,
        content : Bodies \cup {NoBody}]

\* What the files hold.
FileTypes ==
    /\ pages \in [Targets -> Bodies \cup {NoBody}]
    /\ queue \in Seq(Candidate) /\ archive \subseteq Candidate
    /\ recorded \in [Sources -> SUBSET Slugs] /\ nextId \in Nat \ {0}
    /\ superseded \subseteq Nat /\ lastConn \in Nat

\* What the processes hold.
ControlTypes ==
    /\ declared \in BOOLEAN /\ holder \in Sessions \cup {Nobody}
    /\ turn \in [Sessions -> Turns] /\ job \in [Sessions -> Job]
    /\ age \in 0..MinInterval /\ died \in BOOLEAN

\* An id is pending or archived, never both or twice, and never given again.
Ids ==
    /\ UniqueIds(queue)
    /\ \A c \in archive : /\ \A d \in archive : c.id = d.id => c = d
                          /\ \A d \in Pending : c.id # d.id
    /\ \A c \in Pending \cup archive : c.id < nextId
    /\ lastConn < nextId
    /\ superseded \subseteq {c.id : c \in archive}

\* Whose body it is says where a candidate goes and what it records.
Shaped(c) ==
    /\ c.body[1] = "held" => c.dir = "concepts" /\ c.srcs = Sources
    /\ c.body[1] = "conn" => candidateTargetKey(c) = ConnTarget

Shapes == \A c \in Pending \cup archive : Shaped(c)

\* Only concepts have legacy duplicates.
TypedOnce ==
    \A c, d \in Pending :
        candidateTargetKey(c) = candidateTargetKey(d) /\ c.dir = "typed" => c = d

\* What is pending for the connector's target is younger than what it superseded there.
SupersededOlder ==
    \A c \in archive, d \in Pending :
        c.id \in superseded /\ candidateTargetKey(d) = ConnTarget => c.id < d.id

FilesInv ==
    FileTypes /\ Ids /\ Shapes /\ TypedOnce /\ SupersededOlder /\ ApprovalResumable

\* p at step t with locals j: who holds the lock, and what the step knows without files.
LockOk(p, t, j, h, a) ==
    /\ t \in LockedTurns => h = p
    /\ t = "lock" => j.op # "none"
    /\ t = "stamp" => a = MinInterval
    /\ (t \in {"connector", "archive", "replace"} \/ (t = "lock" /\ j.op = "connector"))
          => j.content[1] = "conn"

Locked == \A p \in Sessions : LockOk(p, turn[p], job[p], holder, age)

\* The rewritten candidate is there, and what is still to be deleted doubles it.
Deduping(j) ==
    \E c \in Pending :
        /\ c.id = j.id
        /\ \A d \in j.todo : /\ d \in Pending /\ d.id # j.id
                             /\ candidateTargetKey(d) = candidateTargetKey(c)

\* The page of the candidate to be removed is live; each source records it, or will.
Publishing(t, j) ==
    \A c \in Pending : c.id = j.id =>
        /\ pages[candidateTargetKey(c)] # NoBody
        /\ t = "states" => c.slug = j.seen.slug
        /\ c.dir = "concepts" /\ pages[candidateTargetKey(c)] = <<"held", 1>>
              => \A f \in Sources : c.slug \in recorded[f] \/ (t = "states" /\ f \in j.unstated)

\* Of the connector's pending drafts, todo are left; old are archived and can come back.
Superseding(t, j) ==
    /\ t = "replace" => j.todo = {}
    /\ \A d \in j.todo : d \in Pending /\ isConnectorCandidate(d)
    /\ \A d \in Pending : isConnectorCandidate(d) => d \in j.todo
    /\ \A d \in ToSet(j.old) : isConnectorCandidate(d) /\ d \in archive /\ d.id \in superseded
    /\ \A i, k \in DOMAIN j.old : i = k
    /\ j.old # <<>> => \A d \in Pending : candidateTargetKey(d) # ConnTarget
    /\ \A d \in ToSet(j.old), c \in archive \ ToSet(j.old) : c.id \in superseded => c.id < d.id

SessionOk(t, j) ==
    /\ t = "dedupe" => Deduping(j)
    /\ t \in {"states", "clear"} => Publishing(t, j)
    /\ t \in {"archive", "replace"} => Superseding(t, j)
    /\ t = "promoteStaged" \/ (t = "dedupe" /\ j.then = "promoteStaged")
          => \A c \in Pending : c.id = j.id => c.dir = "typed"

SessionsOk == \A p \in Sessions : SessionOk(turn[p], job[p])

\* Unless somebody died, what a connector run archived is replaced or still in its hands.
Replaced ==
    ~died => \A c \in archive : c.id \in superseded =>
        \/ c.id < lastConn
        \/ \E p \in Sessions : turn[p] \in {"archive", "replace"} /\ c \in ToSet(job[p].old)

StagingInv == FilesInv /\ ControlTypes /\ Locked /\ SessionsOk /\ Replaced

(***************************************************************************)
(* What a step may do to the files, and that it keeps what is said of them. *)
(***************************************************************************)

\* Nothing.
Idles == UNCHANGED <<stagingFiles, superseded, lastConn>>

\* A candidate's file is written: a new one, or over the pending one of its target.
Writes(c) ==
    /\ c \in Candidate /\ Shaped(c)
    /\ queue' \in Seq(Candidate) /\ UniqueIds(queue')
    /\ Pending' = {d \in Pending : d.id # c.id} \cup {c}
    /\ \/ Matching(candidateTargetKey(c)) = {} /\ c.id = nextId /\ nextId' = nextId + 1
       \/ (\E o \in Matching(candidateTargetKey(c)) : o.id = c.id) /\ nextId' = nextId
    /\ UNCHANGED <<pages, archive, recorded, superseded>>
    /\ \/ lastConn' = lastConn
       \/ lastConn' = c.id /\ candidateTargetKey(c) = ConnTarget

\* The page of c is held, and a source does not record it.
Stranded(c) == /\ c.dir = "concepts" /\ pages[candidateTargetKey(c)] = <<"held", 1>>
               /\ \E f \in Sources : c.slug \notin recorded[f]

\* A candidate's file is deleted: it is a duplicate, or its page is live and recorded.
Drops(id) ==
    /\ queue' \in Seq(Candidate) /\ UniqueIds(queue')
    /\ Pending' = {d \in Pending : d.id # id}
    /\ \A c \in Pending : c.id = id =>
         \/ \E d \in Pending : d.id # id /\ candidateTargetKey(d) = candidateTargetKey(c)
         \/ pages[candidateTargetKey(c)] # NoBody /\ ~Stranded(c)
    /\ UNCHANGED <<pages, archive, recorded, nextId, superseded, lastConn>>

\* A candidate's file is moved away.
Archives(c) ==
    /\ c \in Pending
    /\ queue' \in Seq(Candidate) /\ UniqueIds(queue')
    /\ Pending' = {d \in Pending : d.id # c.id}
    /\ archive' = archive \cup {c}
    /\ \/ superseded' = superseded
       \/ isConnectorCandidate(c) /\ superseded' = superseded \cup {c.id}
    /\ UNCHANGED <<pages, recorded, nextId, lastConn>>

\* What a connector run archived is moved back.
Restores(old) ==
    /\ old \in Seq(Candidate) /\ ToSet(old) \subseteq archive
    /\ \A d \in ToSet(old) : isConnectorCandidate(d)
    /\ \A i, k \in DOMAIN old : i = k
    /\ old # <<>> => \A d \in Pending : candidateTargetKey(d) # ConnTarget
    /\ \A d \in ToSet(old), c \in archive \ ToSet(old) : c.id \in superseded => c.id < d.id
    /\ queue' = old \o queue
    /\ archive' = archive \ ToSet(old)
    /\ superseded' = superseded \ {c.id : c \in ToSet(old)}
    /\ UNCHANGED <<pages, recorded, nextId, lastConn>>

\* A page is written: of a pending candidate, or of nobody's.
Publishes(t, b) ==
    /\ t \in Targets /\ b \in Bodies
    /\ pages' = [pages EXCEPT ![t] = b]
    /\ \/ \E c \in Pending : candidateTargetKey(c) = t /\ c.body = b
       \/ b[1] \in {"okf", "hand"}
    /\ UNCHANGED <<queue, archive, recorded, nextId, superseded, lastConn>>

\* A source's state entry gets a slug.
Records(f, s) ==
    /\ f \in Sources /\ s \in Slugs
    /\ recorded' = [recorded EXCEPT ![f] = @ \cup {s}]
    /\ UNCHANGED <<pages, queue, archive, nextId, superseded, lastConn>>

LEMMA PendingTypes ==
    ASSUME FileTypes
    PROVE  /\ Pending \subseteq Candidate
           /\ \A c \in Pending \cup archive :
                /\ c.id \in 1..MaxCandidates /\ c.id \in Nat /\ candidateTargetKey(c) \in Targets
                /\ c.body \in Bodies /\ c.srcs \subseteq Sources /\ c.slug \in Slugs /\ c.dir \in Dirs
                /\ candidateTargetKey(c) = <<c.dir, c.slug>>
<1>1. Pending \subseteq Candidate
  BY DEF FileTypes, Pending, ToSet
<1>2. MaxCandidates \in Nat
  BY StagingAssumption
<1>3. \A c \in Candidate :
        /\ c.id \in 1..MaxCandidates /\ c.id \in Nat /\ candidateTargetKey(c) \in Targets
        /\ c.body \in Bodies /\ c.srcs \subseteq Sources /\ c.slug \in Slugs /\ c.dir \in Dirs
        /\ candidateTargetKey(c) = <<c.dir, c.slug>>
  BY <1>2 DEF Candidate, candidateTargetKey, Targets
<1> QED
  BY <1>1, <1>3 DEF FileTypes

\* ConnTarget is a typed target.
LEMMA ConnTargetTyped ==
    ConnTarget \in Targets /\ ConnTarget[1] = "typed" /\ ConnTarget[2] \in Slugs
<1>1. (CHOOSE s \in Slugs : TRUE) \in Slugs
  BY StagingAssumption
<1> QED
  BY <1>1 DEF ConnTarget, Targets, Dirs

LEMMA BodiesAreNotNone == \A b \in Bodies : b # NoBody
  BY DEF Bodies, NoBody

LEMMA IdlesKeepsFiles ==
    ASSUME FilesInv, Idles
    PROVE  FilesInv'
<1>1. Pending' = Pending
  BY DEF Idles, stagingFiles, Pending
<1>2. FileTypes' /\ Ids' /\ Shapes' /\ TypedOnce' /\ SupersededOlder'
  BY <1>1 DEF Idles, stagingFiles, FilesInv, FileTypes, Ids, Shapes, TypedOnce, SupersededOlder
<1>3. ApprovalResumable'
  BY <1>1 DEF Idles, stagingFiles, FilesInv, ApprovalResumable
<1> QED
  BY <1>2, <1>3 DEF FilesInv

LEMMA WritesKeepsFiles ==
    ASSUME FilesInv, NEW c, Writes(c)
    PROVE  FilesInv'
<1> DEFINE key == candidateTargetKey(c)
<1>1. /\ Pending \subseteq Candidate
      /\ \A d \in Pending \cup archive : d.id \in Nat /\ candidateTargetKey(d) = <<d.dir, d.slug>>
  BY PendingTypes DEF FilesInv
<1>2. /\ c \in Candidate /\ c.id \in Nat /\ Pending' = {d \in Pending : d.id # c.id} \cup {c}
      /\ pages' = pages /\ archive' = archive /\ recorded' = recorded /\ superseded' = superseded
      /\ key = <<c.dir, c.slug>>
  BY StagingAssumption DEF Writes, Candidate, candidateTargetKey
<1>3. nextId \in Nat /\ lastConn \in Nat
  BY DEF FilesInv, FileTypes
<1>4. nextId' \in Nat /\ nextId <= nextId' /\ c.id < nextId'
  <2>1. CASE c.id = nextId /\ nextId' = nextId + 1
    BY <1>3, <2>1
  <2>2. CASE (\E o \in Matching(key) : o.id = c.id) /\ nextId' = nextId
    BY <1>3, <2>2 DEF Matching, FilesInv, Ids
  <2> QED
    BY <2>1, <2>2 DEF Writes
\* The one it replaces, if any, is for the same target, and in no archive.
<1>5. /\ \A d \in Pending : d.id = c.id => candidateTargetKey(d) = key
      /\ \A d \in archive : d.id # c.id
  <2>1. CASE c.id = nextId
    <3>1. \A d \in Pending \cup archive : d.id < nextId
      BY DEF FilesInv, Ids
    <3> QED
      BY <1>1, <1>3, <2>1, <3>1
  <2>2. CASE \E o \in Matching(key) : o.id = c.id
    <3>1. PICK o \in Pending : candidateTargetKey(o) = key /\ o.id = c.id
      BY <2>2 DEF Matching
    <3>2. \A d \in Pending : d.id = c.id => d = o
      BY <3>1 DEF FilesInv, Ids, UniqueIds, Pending, ToSet
    <3>3. \A d \in archive : d.id # c.id
      BY <3>1 DEF FilesInv, Ids
    <3> QED
      BY <3>1, <3>2, <3>3
  <2> QED
    BY <2>1, <2>2 DEF Writes
<1>13. nextId' \in Nat \ {0}
  <2>1. nextId \in Nat \ {0}
    BY DEF FilesInv, FileTypes
  <2> QED
    BY <1>4, <2>1
<1>6. FileTypes'
  BY <1>2, <1>3, <1>4, <1>13 DEF Writes, FilesInv, FileTypes
<1>7. Ids'
  <2>1. UniqueIds(queue')
    BY DEF Writes
  <2>2. \A d \in archive' : /\ \A e \in archive' : d.id = e.id => d = e
                            /\ \A e \in Pending' : d.id # e.id
    BY <1>2, <1>5 DEF FilesInv, Ids
  <2>3. \A d \in Pending' \cup archive' : d.id < nextId'
    BY <1>1, <1>2, <1>3, <1>4 DEF FilesInv, Ids
  <2>4. lastConn' < nextId'
    BY <1>2, <1>3, <1>4 DEF Writes, FilesInv, Ids
  <2>5. superseded' \subseteq {d.id : d \in archive'}
    BY <1>2 DEF FilesInv, Ids
  <2> QED
    BY <2>1, <2>2, <2>3, <2>4, <2>5 DEF Ids
<1>8. Shapes'
  BY <1>2 DEF Writes, FilesInv, Shapes, Shaped
<1>9. \A d \in Pending : candidateTargetKey(d) = key /\ d.dir = "typed" => d.id = c.id
  <2>1. CASE Matching(key) = {}
    BY <2>1 DEF Matching
  <2>2. CASE \E o \in Matching(key) : o.id = c.id
    <3>1. PICK o \in Pending : candidateTargetKey(o) = key /\ o.id = c.id
      BY <2>2 DEF Matching
    <3> QED
      BY <3>1 DEF FilesInv, TypedOnce
  <2> QED
    BY <2>1, <2>2 DEF Writes
<1>10. TypedOnce'
  <2>1. ASSUME NEW d \in Pending', NEW e \in Pending', d.dir = "typed",
               candidateTargetKey(d) = candidateTargetKey(e)
        PROVE  d = e
    <3>1. CASE d = c /\ e # c
      <4>1. e \in Pending /\ e.id # c.id /\ candidateTargetKey(e) = key /\ e.dir = "typed"
        BY <1>1, <1>2, <2>1, <3>1
      <4> QED
        BY <1>9, <4>1
    <3>2. CASE d # c /\ e = c
      <4>1. d \in Pending /\ d.id # c.id /\ candidateTargetKey(d) = key
        BY <1>2, <2>1, <3>2
      <4> QED
        BY <1>9, <2>1, <4>1
    <3>3. CASE d # c /\ e # c
      <4>1. d \in Pending /\ e \in Pending
        BY <1>2, <3>3
      <4> QED
        BY <2>1, <4>1 DEF FilesInv, TypedOnce
    <3> QED
      BY <3>1, <3>2, <3>3
  <2> QED
    BY <2>1 DEF TypedOnce, candidateTargetKey
<1>11. SupersededOlder'
  <2>1. ASSUME NEW d \in archive, d.id \in superseded, key = ConnTarget
        PROVE  d.id < c.id
    <3>1. CASE c.id = nextId
      BY <3>1 DEF FilesInv, Ids
    <3>2. CASE \E o \in Matching(key) : o.id = c.id
      BY <2>1, <3>2 DEF Matching, FilesInv, SupersededOlder
    <3> QED
      BY <3>1, <3>2 DEF Writes
  <2>2. ASSUME NEW d \in archive, NEW e \in Pending', d.id \in superseded,
               candidateTargetKey(e) = ConnTarget
        PROVE  d.id < e.id
    BY <1>2, <2>1, <2>2 DEF FilesInv, SupersededOlder
  <2> QED
    BY <1>2, <2>2 DEF SupersededOlder, candidateTargetKey, ConnTarget
<1>12. ApprovalResumable'
  <2>1. SUFFICES ASSUME NEW s \in Slugs, pages[<<"concepts", s>>] = <<"held", 1>>,
                        \E f \in Sources : s \notin recorded[f]
                 PROVE  \E d \in Pending' \cup archive' : candidateTargetKey(d) = <<"concepts", s>>
    BY <1>2 DEF ApprovalResumable, candidateTargetKey
  <2>2. PICK d \in Pending \cup archive : candidateTargetKey(d) = <<"concepts", s>>
    BY <2>1 DEF FilesInv, ApprovalResumable
  <2>3. CASE d \in Pending /\ d.id = c.id
    BY <1>2, <1>5, <2>2, <2>3
  <2>4. CASE ~(d \in Pending /\ d.id = c.id)
    BY <1>2, <2>2, <2>4
  <2> QED
    BY <2>3, <2>4
<1> QED
  BY <1>6, <1>7, <1>8, <1>10, <1>11, <1>12 DEF FilesInv

LEMMA DropsKeepsFiles ==
    ASSUME FilesInv, NEW id, Drops(id)
    PROVE  FilesInv'
<1>1. /\ Pending' = {d \in Pending : d.id # id}
      /\ pages' = pages /\ archive' = archive /\ recorded' = recorded
      /\ superseded' = superseded /\ nextId' = nextId /\ lastConn' = lastConn
  BY DEF Drops
<1>2. FileTypes'
  BY <1>1 DEF Drops, FilesInv, FileTypes
<1>3. Ids' /\ Shapes' /\ TypedOnce' /\ SupersededOlder'
  BY <1>1 DEF Drops, FilesInv, Ids, Shapes, TypedOnce, SupersededOlder
<1>4. ApprovalResumable'
  <2>1. SUFFICES ASSUME NEW s \in Slugs, pages[<<"concepts", s>>] = <<"held", 1>>,
                        \E f \in Sources : s \notin recorded[f]
                 PROVE  \E d \in Pending' \cup archive' : candidateTargetKey(d) = <<"concepts", s>>
    BY <1>1 DEF ApprovalResumable, candidateTargetKey
  <2>2. PICK d \in Pending \cup archive : candidateTargetKey(d) = <<"concepts", s>>
    BY <2>1 DEF FilesInv, ApprovalResumable
  <2>3. CASE d \in Pending /\ d.id = id
    <3>1. Stranded(d)
      <4>1. d.dir = "concepts" /\ d.slug = s
        BY <2>2 DEF candidateTargetKey
      <4> QED
        BY <2>1, <2>2, <4>1 DEF Stranded
    <3>2. PICK e \in Pending : e.id # id /\ candidateTargetKey(e) = candidateTargetKey(d)
      BY <2>3, <3>1 DEF Drops
    <3> QED
      BY <1>1, <2>2, <3>2
  <2>4. CASE ~(d \in Pending /\ d.id = id)
    BY <1>1, <2>2, <2>4
  <2> QED
    BY <2>3, <2>4
<1> QED
  BY <1>2, <1>3, <1>4 DEF FilesInv

LEMMA ArchivesKeepsFiles ==
    ASSUME FilesInv, NEW c, Archives(c)
    PROVE  FilesInv'
<1>1. /\ c \in Pending /\ Pending' = {d \in Pending : d.id # c.id}
      /\ pages' = pages /\ archive' = archive \cup {c} /\ recorded' = recorded
      /\ nextId' = nextId /\ lastConn' = lastConn
      /\ superseded \subseteq superseded' /\ superseded' \subseteq superseded \cup {c.id}
  BY DEF Archives
<1>2. /\ Pending \subseteq Candidate
      /\ \A d \in Pending \cup archive : d.id \in Nat /\ candidateTargetKey(d) = <<d.dir, d.slug>>
  BY PendingTypes DEF FilesInv
<1>3. FileTypes'
  BY <1>1, <1>2 DEF Archives, FilesInv, FileTypes
<1>4. Ids'
  BY <1>1 DEF Archives, FilesInv, Ids
<1>5. Shapes' /\ TypedOnce'
  BY <1>1 DEF FilesInv, Shapes, Shaped, TypedOnce, candidateTargetKey, ConnTarget
<1>6. SupersededOlder'
  <2>1. ASSUME NEW d \in Pending, d.id # c.id, candidateTargetKey(d) = ConnTarget, c.id \in superseded'
        PROVE  c.id < d.id
    <3>1. c.id \notin superseded
      BY <1>1 DEF FilesInv, Ids
    <3>2. isConnectorCandidate(c)
      BY <2>1, <3>1 DEF Archives
    <3>3. candidateTargetKey(c) = ConnTarget
      BY <1>1, <3>2 DEF isConnectorCandidate, FilesInv, Shapes, Shaped
    <3>4. d.dir = "typed"
      BY <1>2, <2>1, ConnTargetTyped
    <3> QED
      BY <1>1, <2>1, <3>3, <3>4 DEF FilesInv, TypedOnce
  <2>2. ASSUME NEW e \in archive', NEW d \in Pending', e.id \in superseded',
               candidateTargetKey(d) = ConnTarget
        PROVE  e.id < d.id
    <3>1. d \in Pending /\ d.id # c.id
      BY <1>1
    <3>2. CASE e = c
      BY <2>1, <2>2, <3>1, <3>2
    <3>3. CASE e # c
      <4>1. e \in archive /\ e.id # c.id
        BY <1>1, <3>3 DEF FilesInv, Ids
      <4>2. e.id \in superseded
        BY <1>1, <2>2, <4>1
      <4> QED
        BY <2>2, <3>1, <4>1, <4>2 DEF FilesInv, SupersededOlder
    <3> QED
      BY <3>2, <3>3
  <2> QED
    BY <2>2 DEF SupersededOlder, candidateTargetKey, ConnTarget
<1>7. ApprovalResumable'
  <2>1. SUFFICES ASSUME NEW s \in Slugs, pages[<<"concepts", s>>] = <<"held", 1>>,
                        \E f \in Sources : s \notin recorded[f]
                 PROVE  \E d \in Pending' \cup archive' : candidateTargetKey(d) = <<"concepts", s>>
    BY <1>1 DEF ApprovalResumable, candidateTargetKey
  <2>2. PICK d \in Pending \cup archive : candidateTargetKey(d) = <<"concepts", s>>
    BY <2>1 DEF FilesInv, ApprovalResumable
  <2>3. d \in Pending' \cup archive'
    <3>1. \A e \in Pending : e.id = c.id => e = c
      BY <1>1 DEF FilesInv, Ids, UniqueIds, Pending, ToSet
    <3> QED
      BY <1>1, <3>1
  <2> QED
    BY <2>2, <2>3
<1> QED
  BY <1>3, <1>4, <1>5, <1>6, <1>7 DEF FilesInv

LEMMA RestoresKeepsFiles ==
    ASSUME FilesInv, NEW old, Restores(old)
    PROVE  /\ FilesInv'
           /\ Pending' = ToSet(old) \cup Pending
<1>1. /\ old \in Seq(Candidate) /\ ToSet(old) \subseteq archive
      /\ \A d \in ToSet(old) : isConnectorCandidate(d)
      /\ \A c, d \in ToSet(old) : c = d
      /\ ToSet(old) # {} => \A d \in Pending : candidateTargetKey(d) # ConnTarget
      /\ pages' = pages /\ archive' = archive \ ToSet(old) /\ recorded' = recorded
      /\ nextId' = nextId /\ lastConn' = lastConn
      /\ superseded' = superseded \ {c.id : c \in ToSet(old)}
  <2>1. \A c, d \in ToSet(old) : c = d
    BY DEF Restores, ToSet
  <2>2. old = <<>> => ToSet(old) = {}
    BY DEF ToSet
  <2> QED
    BY <2>1, <2>2 DEF Restores
<1>2. /\ Pending \subseteq Candidate
      /\ \A d \in Pending \cup archive : d.id \in Nat /\ candidateTargetKey(d) = <<d.dir, d.slug>>
  BY PendingTypes DEF FilesInv
<1>3. /\ queue' \in Seq(Candidate) /\ UniqueIds(queue') /\ Pending' = ToSet(old) \cup Pending
  <2>1. UniqueIds(old) /\ UniqueIds(queue) /\ queue \in Seq(Candidate)
    BY DEF Restores, UniqueIds, FilesInv, FileTypes, Ids
  <2>2. \A c \in ToSet(old), d \in ToSet(queue) : d.id # c.id
    BY <1>1 DEF FilesInv, Ids, Pending
  <2>3. queue' = old \o queue
    BY DEF Restores
  <2> QED
    BY <1>1, <2>1, <2>2, <2>3, ConcatCandidates DEF Pending
<1>4. FileTypes'
  BY <1>1, <1>3 DEF FilesInv, FileTypes
<1>5. \A d \in ToSet(old) : d.body[1] = "conn" /\ candidateTargetKey(d) = ConnTarget /\ d.dir = "typed"
  BY <1>1, <1>2, ConnTargetTyped DEF isConnectorCandidate, FilesInv, Shapes, Shaped
<1>6. Ids'
  <2>1. \A c \in archive' : /\ \A d \in archive' : c.id = d.id => c = d
                            /\ \A d \in Pending' : c.id # d.id
    BY <1>1, <1>3 DEF FilesInv, Ids
  <2>2. \A c \in Pending' \cup archive' : c.id < nextId'
    BY <1>1, <1>3 DEF FilesInv, Ids
  <2>3. superseded' \subseteq {c.id : c \in archive'}
    BY <1>1 DEF FilesInv, Ids
  <2> QED
    BY <1>1, <1>3, <2>1, <2>2, <2>3 DEF FilesInv, Ids
<1>7. Shapes'
  BY <1>1, <1>3 DEF FilesInv, Shapes, Shaped, candidateTargetKey, ConnTarget
<1>8. TypedOnce'
  <2>1. ASSUME NEW c \in Pending', NEW d \in Pending',
               candidateTargetKey(c) = candidateTargetKey(d), c.dir = "typed"
        PROVE  c = d
    <3>1. CASE c \in Pending /\ d \in Pending
      BY <2>1, <3>1 DEF FilesInv, TypedOnce
    <3>2. CASE c \in ToSet(old) /\ d \in ToSet(old)
      BY <1>1, <3>2
    <3>3. CASE c \in ToSet(old) /\ d \in Pending
      BY <1>1, <1>5, <2>1, <3>3
    <3>4. CASE c \in Pending /\ d \in ToSet(old)
      BY <1>1, <1>5, <2>1, <3>4
    <3> QED
      BY <1>3, <3>1, <3>2, <3>3, <3>4
  <2> QED
    BY <2>1 DEF TypedOnce, candidateTargetKey
<1>9. SupersededOlder'
  <2>1. ASSUME NEW c \in archive', NEW d \in Pending', c.id \in superseded',
               candidateTargetKey(d) = ConnTarget
        PROVE  c.id < d.id
    <3>1. c \in archive /\ c \notin ToSet(old) /\ c.id \in superseded
      BY <1>1, <2>1
    <3>2. CASE d \in ToSet(old)
      BY <3>1, <3>2 DEF Restores
    <3>3. CASE d \in Pending
      BY <2>1, <3>1, <3>3 DEF FilesInv, SupersededOlder
    <3> QED
      BY <1>3, <3>2, <3>3
  <2> QED
    BY <2>1 DEF SupersededOlder, candidateTargetKey, ConnTarget
<1>10. ApprovalResumable'
  BY <1>1, <1>3 DEF FilesInv, ApprovalResumable, candidateTargetKey
<1> QED
  BY <1>3, <1>4, <1>6, <1>7, <1>8, <1>9, <1>10 DEF FilesInv

LEMMA PublishesKeepsFiles ==
    ASSUME FilesInv, NEW t, NEW b, Publishes(t, b)
    PROVE  /\ FilesInv'
           /\ pages'[t] = b /\ \A u \in Targets : u # t => pages'[u] = pages[u]
<1>1. /\ t \in Targets /\ b \in Bodies /\ pages \in [Targets -> Bodies \cup {NoBody}]
      /\ pages' = [pages EXCEPT ![t] = b]
  BY DEF Publishes, FilesInv, FileTypes
<1>2. /\ pages' \in [Targets -> Bodies \cup {NoBody}]
      /\ pages'[t] = b /\ \A u \in Targets : u # t => pages'[u] = pages[u]
  BY <1>1
<1>3. /\ Pending' = Pending /\ archive' = archive /\ recorded' = recorded
      /\ queue' = queue /\ nextId' = nextId /\ superseded' = superseded /\ lastConn' = lastConn
  BY DEF Publishes, Pending
<1>4. FileTypes' /\ Ids' /\ Shapes' /\ TypedOnce' /\ SupersededOlder'
  BY <1>2, <1>3 DEF FilesInv, FileTypes, Ids, Shapes, TypedOnce, SupersededOlder
<1>5. ApprovalResumable'
  <2>1. SUFFICES ASSUME NEW s \in Slugs, pages'[<<"concepts", s>>] = <<"held", 1>>,
                        \E f \in Sources : s \notin recorded[f]
                 PROVE  \E d \in Pending \cup archive : candidateTargetKey(d) = <<"concepts", s>>
    BY <1>3 DEF ApprovalResumable, candidateTargetKey
  <2>2. <<"concepts", s>> \in Targets
    BY DEF Targets, Dirs
  <2>3. CASE t = <<"concepts", s>>
    <3>1. b = <<"held", 1>>
      BY <1>2, <2>1, <2>3
    <3>2. b[1] = "held"
      BY <3>1
    <3> QED
      BY <2>3, <3>2 DEF Publishes
  <2>4. CASE t # <<"concepts", s>>
    BY <1>2, <2>1, <2>2, <2>4 DEF FilesInv, ApprovalResumable
  <2> QED
    BY <2>3, <2>4
<1> QED
  BY <1>2, <1>4, <1>5 DEF FilesInv

LEMMA RecordsKeepsFiles ==
    ASSUME FilesInv, NEW f, NEW s, Records(f, s)
    PROVE  /\ FilesInv'
           /\ s \in recorded'[f] /\ \A g \in Sources : recorded[g] \subseteq recorded'[g]
<1>1. /\ recorded' \in [Sources -> SUBSET Slugs]
      /\ s \in recorded'[f] /\ \A g \in Sources : recorded[g] \subseteq recorded'[g]
  <2>1. /\ f \in Sources /\ s \in Slugs /\ recorded \in [Sources -> SUBSET Slugs]
        /\ recorded' = [recorded EXCEPT ![f] = @ \cup {s}]
    BY DEF Records, FilesInv, FileTypes
  <2> QED
    BY <2>1
<1>2. /\ Pending' = Pending /\ archive' = archive /\ pages' = pages
      /\ queue' = queue /\ nextId' = nextId /\ superseded' = superseded /\ lastConn' = lastConn
  BY DEF Records, Pending
<1>3. FileTypes' /\ Ids' /\ Shapes' /\ TypedOnce' /\ SupersededOlder'
  BY <1>1, <1>2 DEF FilesInv, FileTypes, Ids, Shapes, TypedOnce, SupersededOlder
<1>4. ApprovalResumable'
  BY <1>1, <1>2 DEF FilesInv, ApprovalResumable
<1> QED
  BY <1>1, <1>3, <1>4 DEF FilesInv

(***************************************************************************)
(* What a step may do to the processes.                                    *)
(***************************************************************************)

Others(p) == \A r \in Sessions : r # p => turn'[r] = turn[r] /\ job'[r] = job[r]

\* The lock is kept, given back by its holder, or taken while it is free.
LockMoves(p) == holder' = holder \/ holder = Nobody \/ (holder = p /\ holder' = Nobody)

LEMMA Advance ==
    ASSUME StagingInv, NEW p \in Sessions, FilesInv', ControlTypes', Replaced',
           Others(p), LockMoves(p), Idles \/ holder = p, age' = age \/ holder = p,
           LockOk(p, turn'[p], job'[p], holder', age'), SessionOk(turn[p], job[p])'
    PROVE  StagingInv'
<1>1. Locked'
  <2>1. SUFFICES ASSUME NEW r \in Sessions, r # p
                 PROVE  LockOk(r, turn'[r], job'[r], holder', age')
    BY DEF Locked
  <2>2. turn'[r] = turn[r] /\ job'[r] = job[r] /\ LockOk(r, turn[r], job[r], holder, age)
    BY <2>1 DEF Others, StagingInv, Locked
  <2>3. r # Nobody
    BY StagingAssumption
  <2>4. turn[r] \in LockedTurns => holder = r /\ holder' = r /\ age' = age
    BY <2>1, <2>2, <2>3 DEF LockOk, LockMoves
  <2>5. turn[r] \notin LockedTurns => turn[r] # "stamp"
    BY DEF LockedTurns
  <2> QED
    BY <2>2, <2>4, <2>5 DEF LockOk
<1>2. SessionsOk'
  <2>1. SUFFICES ASSUME NEW r \in Sessions, r # p
                 PROVE  SessionOk(turn[r], job[r])'
    BY DEF SessionsOk
  <2>2. turn'[r] = turn[r] /\ job'[r] = job[r] /\ SessionOk(turn[r], job[r])
    BY <2>1 DEF Others, StagingInv, SessionsOk
  <2>3. CASE Idles
    <3>1. Pending' = Pending /\ pages' = pages /\ recorded' = recorded /\ archive' = archive
          /\ superseded' = superseded
      BY <2>3 DEF Idles, stagingFiles, Pending
    <3> QED
      BY <2>2, <3>1 DEF SessionOk, Deduping, Publishing, Superseding
  <2>4. CASE holder = p
    <3>1. turn[r] \notin LockedTurns
      BY <2>1, <2>4 DEF StagingInv, Locked, LockOk
    <3> QED
      BY <2>2, <3>1 DEF SessionOk, LockedTurns, Operations
  <2> QED
    BY <2>3, <2>4
<1> QED
  BY <1>1, <1>2 DEF StagingInv

\* Nothing new was superseded, and p was not superseding.
LEMMA StillReplaced ==
    ASSUME Replaced, NEW p \in Sessions, Others(p), turn[p] \notin {"archive", "replace"},
           lastConn' = lastConn, died' = died,
           \A c \in archive' : c.id \in superseded' => c \in archive /\ c.id \in superseded
    PROVE  Replaced'
BY DEF Replaced, Others

LEMMA NoJobType == NoJob \in Job
<1>1. <<>> \in Seq(Candidate) /\ {} \in SUBSET Candidate /\ {} \in SUBSET Sources
      /\ {} \in SUBSET (Kinds \X Slugs)
  OBVIOUS
<1> QED
  BY <1>1 DEF NoJob, Job

LEMMA GotoFacts ==
    ASSUME ControlTypes, NEW p \in Sessions, NEW l \in Turns, turn' = [turn EXCEPT ![p] = l]
    PROVE  /\ turn' \in [Sessions -> Turns] /\ turn'[p] = l
           /\ \A r \in Sessions : r # p => turn'[r] = turn[r]
BY DEF ControlTypes

LEMMA JobFacts ==
    ASSUME ControlTypes, NEW p \in Sessions, NEW j \in Job, job' = [job EXCEPT ![p] = j]
    PROVE  /\ job' \in [Sessions -> Job] /\ job'[p] = j
           /\ \A r \in Sessions : r # p => job'[r] = job[r]
BY DEF ControlTypes

LEMMA FinishFacts ==
    ASSUME ControlTypes, NEW p \in Sessions, Finish(p)
    PROVE  /\ turn' \in [Sessions -> Turns] /\ turn'[p] = "idle"
           /\ job' \in [Sessions -> Job] /\ job'[p] = NoJob
           /\ Others(p) /\ LockMoves(p) /\ holder' \in Sessions \cup {Nobody}
<1>1. /\ turn' \in [Sessions -> Turns] /\ turn'[p] = "idle"
      /\ \A r \in Sessions : r # p => turn'[r] = turn[r]
  BY GotoFacts DEF Finish, Turns
<1>2. /\ job' \in [Sessions -> Job] /\ job'[p] = NoJob
      /\ \A r \in Sessions : r # p => job'[r] = job[r]
  BY NoJobType, JobFacts DEF Finish
<1>3. LockMoves(p) /\ holder' \in Sessions \cup {Nobody}
  BY DEF Finish, LockMoves, ControlTypes
<1> QED
  BY <1>1, <1>2, <1>3 DEF Others

LEMMA FinishAdvance ==
    ASSUME StagingInv, NEW p \in Sessions, Finish(p), FilesInv', Replaced',
           Idles \/ holder = p, UNCHANGED <<age, declared>>, died' \in BOOLEAN
    PROVE  StagingInv'
<1>1. /\ turn' \in [Sessions -> Turns] /\ turn'[p] = "idle"
      /\ job' \in [Sessions -> Job] /\ job'[p] = NoJob
      /\ Others(p) /\ LockMoves(p) /\ holder' \in Sessions \cup {Nobody}
  BY FinishFacts DEF StagingInv
<1>2. ControlTypes'
  BY <1>1 DEF StagingInv, ControlTypes
<1>3. LockOk(p, turn'[p], job'[p], holder', age')
  BY <1>1 DEF LockOk, LockedTurns, Operations
<1>4. SessionOk(turn[p], job[p])'
  BY <1>1 DEF SessionOk
<1> QED
  BY <1>1, <1>2, <1>3, <1>4, Advance

\* A step that leaves the files alone and starts none of the long operations.
LEMMA IdleAdvance ==
    ASSUME StagingInv, NEW p \in Sessions, Idles, ControlTypes', died' = died,
           Others(p), LockMoves(p), age' = age \/ holder = p,
           LockOk(p, turn'[p], job'[p], holder', age'),
           turn[p] \notin {"archive", "replace"},
           turn'[p] \notin {"dedupe", "states", "clear", "archive", "replace", "promoteStaged"}
    PROVE  StagingInv'
<1>1. FilesInv'
  BY IdlesKeepsFiles DEF StagingInv
<1>2. Replaced'
  BY StillReplaced DEF StagingInv, Idles, stagingFiles
<1>3. SessionOk(turn[p], job[p])'
  BY DEF SessionOk
<1> QED
  BY <1>1, <1>2, <1>3, Advance

LEMMA IdleFinish ==
    ASSUME StagingInv, NEW p \in Sessions, Finish(p), Idles, UNCHANGED <<age, declared, died>>,
           turn[p] \notin {"archive", "replace"}
    PROVE  StagingInv'
<1>1. FilesInv'
  BY IdlesKeepsFiles DEF StagingInv
<1>2. Others(p)
  BY FinishFacts DEF StagingInv
<1>3. Replaced'
  BY <1>2, StillReplaced DEF StagingInv, Idles, stagingFiles
<1>4. died' \in BOOLEAN
  BY DEF StagingInv, ControlTypes
<1> QED
  BY <1>1, <1>3, <1>4, FinishAdvance

(***************************************************************************)
(* One lemma per action: the steps that leave the files alone.             *)
(***************************************************************************)

LEMMA ShowKeeps ==
    ASSUME StagingInv, NEW p \in Sessions, NEW c \in Pending, Show(p, c)
    PROVE  StagingInv'
<1> DEFINE j == [job[p] EXCEPT !.id = c.id, !.pin = c.body]
<1>1. c.id \in Nat /\ c.body \in Bodies
  BY PendingTypes DEF StagingInv, FilesInv
<1>2. job[p] \in Job
  BY DEF StagingInv, ControlTypes
<1>3. j \in Job
  BY <1>1, <1>2 DEF Job
<1>4. job' = [job EXCEPT ![p] = j]
  BY DEF Show, StagingInv, ControlTypes
<1> HIDE DEF j
<1>5. turn' \in [Sessions -> Turns] /\ turn'[p] = "shown"
      /\ \A r \in Sessions : r # p => turn'[r] = turn[r]
  BY GotoFacts DEF Show, Start, Turns, StagingInv
<1>6. job' \in [Sessions -> Job] /\ job'[p] = j /\ \A r \in Sessions : r # p => job'[r] = job[r]
  BY <1>3, <1>4, JobFacts DEF StagingInv
<1>7. ControlTypes' /\ Others(p) /\ LockMoves(p)
  BY <1>5, <1>6 DEF Show, env, StagingInv, ControlTypes, Others, LockMoves
<1>8. LockOk(p, turn'[p], job'[p], holder', age')
  BY <1>5 DEF LockOk, LockedTurns, Operations
<1>9. Idles /\ died' = died /\ age' = age /\ turn[p] = "idle"
  BY DEF Show, Start, Idles, stagingFiles, env
<1> QED
  BY <1>5, <1>7, <1>8, <1>9, IdleAdvance

LEMMA PreCheckKeeps ==
    ASSUME StagingInv, NEW p \in Sessions, NEW op \in Operations \ {"connector"}, PreCheck(p, op)
    PROVE  StagingInv'
<1>1. Idles /\ died' = died /\ age' = age /\ turn[p] = "shown" /\ declared' = declared
  BY DEF PreCheck, Idles, stagingFiles, env, ghosts
<1>2. CASE readCandidate(job[p].id) = NoCandidate
  <2>1. Finish(p)
    BY <1>2 DEF PreCheck
  <2> QED
    BY <1>1, <2>1, IdleFinish
<1>3. CASE readCandidate(job[p].id) # NoCandidate
  <2> DEFINE c == readCandidate(job[p].id)
             j == [job[p] EXCEPT !.op = op, !.seen = c]
  <2>1. c \in Candidate
    BY <1>3, PendingTypes DEF readCandidate, StagingInv, FilesInv
  <2>2. job[p] \in Job
    BY DEF StagingInv, ControlTypes
  <2>3. turn' = [turn EXCEPT ![p] = "lock"] /\ holder' = holder
        /\ job' = [job EXCEPT ![p].op = op, ![p].seen = c]
    BY <1>3 DEF PreCheck, Goto
  <2> HIDE DEF c
  <2>4. j \in Job /\ j.op = op
    BY <2>1, <2>2 DEF Job
  <2>5. job' = [job EXCEPT ![p] = j]
    BY <2>3 DEF StagingInv, ControlTypes
  <2> HIDE DEF j
  <2>6. turn' \in [Sessions -> Turns] /\ turn'[p] = "lock"
        /\ \A r \in Sessions : r # p => turn'[r] = turn[r]
    BY <2>3, GotoFacts DEF Turns, StagingInv
  <2>7. job' \in [Sessions -> Job] /\ job'[p] = j /\ \A r \in Sessions : r # p => job'[r] = job[r]
    BY <2>4, <2>5, JobFacts DEF StagingInv
  <2>8. ControlTypes' /\ Others(p) /\ LockMoves(p)
    BY <1>1, <2>3, <2>6, <2>7 DEF StagingInv, ControlTypes, Others, LockMoves
  <2>9. LockOk(p, turn'[p], job'[p], holder', age')
    BY <2>4, <2>6, <2>7 DEF LockOk, LockedTurns, Operations
  <2> QED
    BY <1>1, <2>6, <2>8, <2>9, IdleAdvance
<1> QED
  BY <1>2, <1>3

LEMMA BeginKeeps ==
    ASSUME StagingInv, NEW p \in Sessions, NEW op \in Operations \ {"connector"}, NEW id \in Nat,
           NEW trusted \in BOOLEAN, Begin(p, op, id, trusted)
    PROVE  StagingInv'
<1> DEFINE j == [job[p] EXCEPT !.op = op, !.id = id, !.trusted = trusted]
<1>1. Idles /\ died' = died /\ age' = age /\ turn[p] = "idle" /\ holder' = holder
      /\ declared' = declared
  BY DEF Begin, Start, Idles, stagingFiles, env
<1>2. job[p] \in Job
  BY DEF StagingInv, ControlTypes
<1>3. j \in Job /\ j.op = op
  BY <1>2 DEF Job
<1>4. job' = [job EXCEPT ![p] = j]
  BY DEF Begin, StagingInv, ControlTypes
<1> HIDE DEF j
<1>5. turn' \in [Sessions -> Turns] /\ turn'[p] = "lock"
      /\ \A r \in Sessions : r # p => turn'[r] = turn[r]
  BY GotoFacts DEF Begin, Start, Turns, StagingInv
<1>6. job' \in [Sessions -> Job] /\ job'[p] = j /\ \A r \in Sessions : r # p => job'[r] = job[r]
  BY <1>3, <1>4, JobFacts DEF StagingInv
<1>7. ControlTypes' /\ Others(p) /\ LockMoves(p)
  BY <1>1, <1>5, <1>6 DEF StagingInv, ControlTypes, Others, LockMoves
<1>8. LockOk(p, turn'[p], job'[p], holder', age')
  BY <1>3, <1>5, <1>6 DEF LockOk, LockedTurns, Operations
<1> QED
  BY <1>1, <1>5, <1>7, <1>8, IdleAdvance

LEMMA AcquireKeeps ==
    ASSUME StagingInv, NEW p \in Sessions, Acquire(p)
    PROVE  StagingInv'
<1>1. Idles /\ died' = died /\ age' = age /\ turn[p] = "lock" /\ declared' = declared
  BY DEF Acquire, Idles, stagingFiles, env, ghosts
<1>2. CASE Finish(p)
  BY <1>1, <1>2, IdleFinish
<1>3. CASE holder = Nobody /\ holder' = p /\ Goto(p, job[p].op) /\ UNCHANGED job
  <2>1. job[p].op \in Operations
    BY <1>1 DEF StagingInv, ControlTypes, Job, Locked, LockOk
  <2>2. job[p].op \in Turns
    BY <2>1 DEF Turns, LockedTurns
  <2>3. turn' \in [Sessions -> Turns] /\ turn'[p] = job[p].op
        /\ \A r \in Sessions : r # p => turn'[r] = turn[r]
    BY <1>3, <2>2, GotoFacts DEF Goto, StagingInv
  <2>4. ControlTypes' /\ Others(p) /\ LockMoves(p)
    BY <1>1, <1>3, <2>3 DEF StagingInv, ControlTypes, Others, LockMoves
  <2>5. LockOk(p, turn[p], job[p], holder, age)
    BY DEF StagingInv, Locked
  <2>6. LockOk(p, turn'[p], job'[p], holder', age')
    BY <1>1, <1>3, <2>1, <2>3, <2>5 DEF LockOk, Operations
  <2>7. turn'[p] \notin {"dedupe", "states", "clear", "archive", "replace", "promoteStaged"}
    BY <2>1, <2>3 DEF Operations
  <2> QED
    BY <1>1, <2>4, <2>6, <2>7, IdleAdvance
<1> QED
  BY <1>2, <1>3 DEF Acquire

LEMMA GateKeeps ==
    ASSUME StagingInv, NEW p \in Sessions, gateConnectorRun(p)
    PROVE  StagingInv'
<1>1. Idles /\ died' = died /\ age' = age /\ turn[p] = "idle" /\ holder' = holder
      /\ declared' = declared /\ job' = job
  BY DEF gateConnectorRun, Start, Idles, stagingFiles, env
<1>2. turn' \in [Sessions -> Turns] /\ turn'[p] = "rate"
      /\ \A r \in Sessions : r # p => turn'[r] = turn[r]
  BY GotoFacts DEF gateConnectorRun, Start, Turns, StagingInv
<1>3. ControlTypes' /\ Others(p) /\ LockMoves(p)
  BY <1>1, <1>2 DEF StagingInv, ControlTypes, Others, LockMoves
<1>4. LockOk(p, turn'[p], job'[p], holder', age')
  BY <1>2 DEF LockOk, LockedTurns, Operations
<1> QED
  BY <1>1, <1>2, <1>3, <1>4, IdleAdvance

LEMMA IntervalKeeps ==
    ASSUME StagingInv, NEW p \in Sessions, enforceRequestInterval(p)
    PROVE  StagingInv'
<1>1. Idles /\ died' = died /\ age' = age /\ turn[p] = "rate" /\ declared' = declared
  BY DEF enforceRequestInterval, Idles, stagingFiles, env, ghosts
<1>2. CASE Finish(p)
  BY <1>1, <1>2, IdleFinish
<1>3. CASE holder = Nobody /\ ~(age < MinInterval) /\ holder' = p /\ Goto(p, "stamp") /\ UNCHANGED job
  <2>1. turn' \in [Sessions -> Turns] /\ turn'[p] = "stamp"
        /\ \A r \in Sessions : r # p => turn'[r] = turn[r]
    BY <1>3, GotoFacts DEF Goto, Turns, LockedTurns, StagingInv
  <2>2. ControlTypes' /\ Others(p) /\ LockMoves(p)
    BY <1>1, <1>3, <2>1 DEF StagingInv, ControlTypes, Others, LockMoves
  <2>3. age = MinInterval
    BY <1>3, StagingAssumption DEF StagingInv, ControlTypes
  <2>4. LockOk(p, turn'[p], job'[p], holder', age')
    BY <1>1, <1>3, <2>1, <2>3 DEF LockOk
  <2> QED
    BY <1>1, <2>1, <2>2, <2>4, IdleAdvance
<1> QED
  BY <1>2, <1>3 DEF enforceRequestInterval

LEMMA StampKeeps ==
    ASSUME StagingInv, NEW p \in Sessions, updateRateStamp(p)
    PROVE  StagingInv'
<1>1. /\ Idles /\ died' = died /\ age' = 0 /\ turn[p] = "stamp" /\ declared' = declared /\ job' = job
      /\ holder' = IF holder = p THEN Nobody ELSE holder
  BY DEF updateRateStamp, Idles, stagingFiles, ghosts
<1>2. holder = p
  BY <1>1 DEF StagingInv, Locked, LockOk, LockedTurns
<1>3. turn' \in [Sessions -> Turns] /\ turn'[p] = "fetch"
      /\ \A r \in Sessions : r # p => turn'[r] = turn[r]
  BY GotoFacts DEF updateRateStamp, Goto, Turns, StagingInv
<1>4. ControlTypes' /\ Others(p) /\ LockMoves(p)
  BY <1>1, <1>2, <1>3, StagingAssumption DEF StagingInv, ControlTypes, Others, LockMoves
<1>5. LockOk(p, turn'[p], job'[p], holder', age')
  BY <1>3 DEF LockOk, LockedTurns, Operations
<1> QED
  BY <1>1, <1>2, <1>3, <1>4, <1>5, IdleAdvance

LEMMA FetchKeeps ==
    ASSUME StagingInv, NEW p \in Sessions, Fetch(p)
    PROVE  StagingInv'
<1>1. Idles /\ died' = died /\ age' = age /\ turn[p] = "fetch" /\ declared' = declared
  BY DEF Fetch, Idles, stagingFiles, env, ghosts
<1>2. CASE Finish(p)
  BY <1>1, <1>2, IdleFinish
<1>3. CASE \E n \in Answers :
             /\ job' = [job EXCEPT ![p].op = "connector", ![p].content = <<"conn", n>>]
             /\ Goto(p, "lock") /\ UNCHANGED holder
  <2>1. PICK n \in Answers :
             /\ job' = [job EXCEPT ![p].op = "connector", ![p].content = <<"conn", n>>]
             /\ Goto(p, "lock") /\ UNCHANGED holder
    BY <1>3
  <2> DEFINE j == [job[p] EXCEPT !.op = "connector", !.content = <<"conn", n>>]
  <2>2. job[p] \in Job
    BY DEF StagingInv, ControlTypes
  <2>3. <<"conn", n>> \in Bodies
    BY DEF Bodies
  <2>4. j \in Job /\ j.op = "connector" /\ j.content = <<"conn", n>>
    BY <2>2, <2>3 DEF Job, Operations
  <2>5. job' = [job EXCEPT ![p] = j]
    BY <2>1 DEF StagingInv, ControlTypes
  <2> HIDE DEF j
  <2>6. turn' \in [Sessions -> Turns] /\ turn'[p] = "lock"
        /\ \A r \in Sessions : r # p => turn'[r] = turn[r]
    BY <2>1, GotoFacts DEF Goto, Turns, StagingInv
  <2>7. job' \in [Sessions -> Job] /\ job'[p] = j /\ \A r \in Sessions : r # p => job'[r] = job[r]
    BY <2>4, <2>5, JobFacts DEF StagingInv
  <2>8. ControlTypes' /\ Others(p) /\ LockMoves(p)
    BY <1>1, <2>1, <2>6, <2>7 DEF StagingInv, ControlTypes, Others, LockMoves
  <2>9. LockOk(p, turn'[p], job'[p], holder', age')
    BY <2>4, <2>6, <2>7 DEF LockOk, LockedTurns, Operations
  <2> QED
    BY <1>1, <2>6, <2>8, <2>9, IdleAdvance
<1> QED
  BY <1>2, <1>3 DEF Fetch

LEMMA ImportKeeps ==
    ASSUME StagingInv, NEW p \in Sessions, runOkfImport(p)
    PROVE  StagingInv'
<1>1. /\ Idles /\ died' = died /\ age' = age /\ turn[p] = "import" /\ declared' = declared
      /\ holder = p
  BY DEF runOkfImport, Holds, Idles, stagingFiles, env, ghosts
<1>2. CASE Finish(p)
  BY <1>1, <1>2, IdleFinish
<1>3. CASE ~Finish(p)
  <2>1. PICK bundle \in SUBSET Kinds, s \in Slugs :
             /\ job' = [job EXCEPT ![p].docs = {<<k, s>> : k \in {k \in bundle : Keeps(k, s)}}]
             /\ Goto(p, "doc") /\ UNCHANGED holder
    BY <1>3 DEF runOkfImport, Kinds
  <2> DEFINE docs == {<<k, s>> : k \in {k \in bundle : Keeps(k, s)}}
             j == [job[p] EXCEPT !.docs = docs]
  <2>2. job[p] \in Job
    BY DEF StagingInv, ControlTypes
  <2>3. docs \in SUBSET (Kinds \X Slugs) /\ job' = [job EXCEPT ![p].docs = docs]
    BY <2>1
  <2> HIDE DEF docs
  <2>4. j \in Job
    BY <2>2, <2>3 DEF Job
  <2>5. job' = [job EXCEPT ![p] = j]
    BY <2>3 DEF StagingInv, ControlTypes
  <2> HIDE DEF j
  <2>6. turn' \in [Sessions -> Turns] /\ turn'[p] = "doc"
        /\ \A r \in Sessions : r # p => turn'[r] = turn[r]
    BY <2>1, GotoFacts DEF Goto, Turns, LockedTurns, StagingInv
  <2>7. job' \in [Sessions -> Job] /\ job'[p] = j /\ \A r \in Sessions : r # p => job'[r] = job[r]
    BY <2>4, <2>5, JobFacts DEF StagingInv
  <2>8. ControlTypes' /\ Others(p) /\ LockMoves(p)
    BY <1>1, <2>1, <2>6, <2>7 DEF StagingInv, ControlTypes, Others, LockMoves
  <2>9. LockOk(p, turn'[p], job'[p], holder', age')
    BY <1>1, <2>1, <2>6 DEF LockOk
  <2> QED
    BY <1>1, <2>6, <2>8, <2>9, IdleAdvance
<1> QED
  BY <1>2, <1>3

LEMMA ImportDoneKeeps ==
    ASSUME StagingInv, NEW p \in Sessions, ImportDone(p)
    PROVE  StagingInv'
<1>1. Idles /\ UNCHANGED <<age, declared, died>> /\ turn[p] = "doc" /\ Finish(p)
  BY DEF ImportDone, Holds, Idles, stagingFiles, env, ghosts
<1> QED
  BY <1>1, IdleFinish

LEMMA CrashKeeps ==
    ASSUME StagingInv, NEW p \in Sessions, Crash(p)
    PROVE  StagingInv'
<1>1. Idles /\ UNCHANGED <<age, declared>> /\ died' = TRUE /\ Finish(p)
  BY DEF Crash, Idles, stagingFiles, env
<1>2. FilesInv'
  BY <1>1, IdlesKeepsFiles DEF StagingInv
<1>3. Replaced' /\ died' \in BOOLEAN
  BY <1>1 DEF Replaced
<1> QED
  BY <1>1, <1>2, <1>3, FinishAdvance

LEMMA RedeclareKeeps ==
    ASSUME StagingInv, Redeclare
    PROVE  StagingInv'
<1>1. Idles /\ UNCHANGED <<age, holder, turn, job, died>> /\ declared' = ~declared
  BY DEF Redeclare, Idles, stagingFiles
<1>2. FilesInv'
  BY <1>1, IdlesKeepsFiles DEF StagingInv
<1>3. ControlTypes'
  BY <1>1 DEF StagingInv, ControlTypes
<1>4. Locked'
  BY <1>1 DEF StagingInv, Locked
<1>5. Pending' = Pending /\ UNCHANGED <<pages, recorded, archive, superseded, lastConn>>
  BY <1>1 DEF Idles, stagingFiles, Pending
<1>6. SessionsOk'
  BY <1>1, <1>5 DEF StagingInv, SessionsOk, SessionOk, Deduping, Publishing, Superseding
<1>7. Replaced'
  BY <1>1, <1>5 DEF StagingInv, Replaced
<1> QED
  BY <1>2, <1>3, <1>4, <1>6, <1>7 DEF StagingInv

LEMMA TickKeeps ==
    ASSUME StagingInv, Tick
    PROVE  StagingInv'
<1>1. Idles /\ UNCHANGED <<declared, holder, turn, job, died>> /\ age' = age + 1 /\ age < MinInterval
  BY DEF Tick, Idles, stagingFiles, ghosts
<1>2. FilesInv'
  BY <1>1, IdlesKeepsFiles DEF StagingInv
<1>3. ControlTypes'
  BY <1>1, StagingAssumption DEF StagingInv, ControlTypes
<1>4. Locked'
  <2>1. \A p \in Sessions : turn[p] # "stamp"
    BY <1>1, StagingAssumption DEF StagingInv, ControlTypes, Locked, LockOk
  <2> QED
    BY <1>1, <2>1 DEF StagingInv, Locked, LockOk
<1>5. Pending' = Pending /\ UNCHANGED <<pages, recorded, archive, superseded, lastConn>>
  BY <1>1 DEF Idles, stagingFiles, Pending
<1>6. SessionsOk'
  BY <1>1, <1>5 DEF StagingInv, SessionsOk, SessionOk, Deduping, Publishing, Superseding
<1>7. Replaced'
  BY <1>1, <1>5 DEF StagingInv, Replaced
<1> QED
  BY <1>2, <1>3, <1>4, <1>6, <1>7 DEF StagingInv

LEMMA HandWriteKeeps ==
    ASSUME StagingInv, NEW t \in Targets, HandWrite(t)
    PROVE  StagingInv' /\ Publishes(t, <<"hand", 1>>)
<1>1. /\ UNCHANGED <<declared, age, holder, turn, job, died>> /\ pages[t] = NoBody
      /\ UNCHANGED <<queue, archive, recorded, nextId, superseded, lastConn>>
      /\ pages' = [pages EXCEPT ![t] = <<"hand", 1>>]
  BY DEF HandWrite, env
<1>2. Publishes(t, <<"hand", 1>>)
  <2>1. <<"hand", 1>> \in Bodies /\ <<"hand", 1>>[1] = "hand"
    BY DEF Bodies
  <2> QED
    BY <1>1, <2>1 DEF Publishes
<1>3. FilesInv' /\ pages'[t] = <<"hand", 1>> /\ \A u \in Targets : u # t => pages'[u] = pages[u]
  BY <1>2, PublishesKeepsFiles DEF StagingInv
<1>4. ControlTypes' /\ Locked'
  BY <1>1 DEF StagingInv, ControlTypes, Locked
<1>5. Pending' = Pending
  BY <1>1 DEF Pending
<1>6. SessionsOk'
  <2>1. SUFFICES ASSUME NEW p \in Sessions
                 PROVE  SessionOk(turn[p], job[p])'
    BY DEF SessionsOk
  <2>2. SessionOk(turn[p], job[p])
    BY DEF StagingInv, SessionsOk
  <2>3. ASSUME turn[p] \in {"states", "clear"}
        PROVE  Publishing(turn[p], job[p])'
    <3>1. SUFFICES ASSUME NEW c \in Pending, c.id = job[p].id
                   PROVE  /\ pages'[candidateTargetKey(c)] # NoBody
                          /\ turn[p] = "states" => c.slug = job[p].seen.slug
                          /\ c.dir = "concepts" /\ pages'[candidateTargetKey(c)] = <<"held", 1>>
                                => \A f \in Sources : \/ c.slug \in recorded[f]
                                                      \/ turn[p] = "states" /\ f \in job[p].unstated
      BY <1>1, <1>5 DEF Publishing, candidateTargetKey
    <3>2. candidateTargetKey(c) \in Targets
      BY PendingTypes DEF StagingInv, FilesInv
    <3>3. pages[candidateTargetKey(c)] # NoBody
      BY <2>2, <2>3, <3>1 DEF SessionOk, Publishing
    <3>4. pages'[candidateTargetKey(c)] = pages[candidateTargetKey(c)]
      BY <1>1, <1>3, <3>2, <3>3
    <3> QED
      BY <2>2, <2>3, <3>1, <3>4 DEF SessionOk, Publishing
  <2> QED
    BY <1>1, <1>5, <2>2, <2>3 DEF SessionOk, Deduping, Superseding, candidateTargetKey, ConnTarget
<1>7. Replaced'
  BY <1>1 DEF StagingInv, Replaced
<1> QED
  BY <1>2, <1>3, <1>4, <1>6, <1>7 DEF StagingInv

(***************************************************************************)
(* The steps that write, delete and move candidates.                       *)
(***************************************************************************)

\* What writeCandidate does (candidates.ts).
LEMMA WriteCandidateWrites ==
    ASSUME StagingInv, NEW p \in Sessions, NEW d \in Draft, NEW th \in {"done", "doc", "promoteStaged"},
           NEW docs \in SUBSET (Kinds \X Slugs), writeCandidate(p, d, th, docs),
           superseded' = superseded,
           d.body[1] = "held" => d.dir = "concepts" /\ d.srcs = Sources,
           d.body[1] = "conn" => candidateTargetKey(d) = ConnTarget,
           th = "promoteStaged" => d.dir = "typed",
           lastConn' = lastConn \/ (lastConn' = job'[p].id /\ candidateTargetKey(d) = ConnTarget)
    PROVE  /\ \E c \in Candidate :
                /\ Writes(c) /\ candidateTargetKey(c) = candidateTargetKey(d)
                /\ c.body = d.body /\ job'[p].id = c.id
           /\ job' \in [Sessions -> Job] /\ job'[p].then = th /\ job'[p].content = job[p].content
           /\ turn' \in [Sessions -> Turns] /\ turn'[p] = "dedupe" /\ Others(p)
           /\ SessionOk(turn[p], job[p])'
<1> DEFINE key == candidateTargetKey(d)
           same == Matching(key)
           id == IF same = {} THEN nextId ELSE Oldest(same).id
           c == [id |-> id, dir |-> d.dir, slug |-> d.slug, body |-> d.body, srcs |-> d.srcs]
           todo == {e \in same : e.id # id}
           j == [job[p] EXCEPT !.todo = todo, !.id = id, !.then = th, !.docs = docs]
<1>1. /\ id <= MaxCandidates
      /\ queue' = Append(Without(queue, id), c)
      /\ nextId' = IF same = {} THEN nextId + 1 ELSE nextId
      /\ turn' = [turn EXCEPT ![p] = "dedupe"]
      /\ job' = [job EXCEPT ![p].todo = todo, ![p].id = id, ![p].then = th, ![p].docs = docs]
      /\ UNCHANGED <<pages, archive, recorded>>
  BY DEF writeCandidate, Goto
<1>2. /\ FileTypes /\ Ids /\ queue \in Seq(Candidate) /\ UniqueIds(queue) /\ MaxCandidates \in Nat
      /\ nextId \in Nat \ {0} /\ same \subseteq Pending /\ Pending \subseteq Candidate
      /\ \A e \in Pending : e.id \in Nat \ {0} /\ e.id < nextId
  <2>1. Pending \subseteq Candidate /\ \A e \in Pending : e.id \in 1..MaxCandidates
    BY PendingTypes DEF StagingInv, FilesInv
  <2> QED
    BY <2>1, StagingAssumption DEF StagingInv, FilesInv, FileTypes, Ids, Matching
<1>3. /\ id \in Nat \ {0}
      /\ \/ same = {} /\ id = nextId
         \/ same # {} /\ \E o \in same : o.id = id
  <2>1. CASE same = {}
    BY <1>2, <2>1
  <2>2. CASE same # {}
    <3>1. Oldest(same) \in same
      BY <1>2, <2>2, OldestIsOne
    <3> QED
      BY <1>2, <2>2, <3>1
  <2> QED
    BY <2>1, <2>2
<1>4. key = <<d.dir, d.slug>>
  BY DEF candidateTargetKey
<1> HIDE DEF id, same
<1>18. id \in 1..MaxCandidates
  <2>1. id <= MaxCandidates
    BY <1>1
  <2>2. id \in Nat /\ id # 0 /\ MaxCandidates \in Nat
    BY <1>2, <1>3
  <2> QED
    BY <2>1, <2>2
<1>19. d.dir \in Dirs /\ d.slug \in Slugs /\ d.body \in Bodies /\ d.srcs \in SUBSET Sources
  BY DEF Draft
<1>5. /\ c \in Candidate /\ c.id = id /\ c.body = d.body /\ c.srcs = d.srcs
      /\ c.dir = d.dir /\ c.slug = d.slug
  BY <1>18, <1>19 DEF Candidate
<1>6. candidateTargetKey(c) = key
  BY <1>4, <1>5 DEF candidateTargetKey
<1> HIDE DEF c, key
<1>7. /\ Without(queue, id) \in Seq(Candidate) /\ UniqueIds(Without(queue, id))
      /\ ToSet(Without(queue, id)) = {e \in Pending : e.id # id}
  BY <1>2, WithoutProperties DEF Pending
<1>8. /\ queue' \in Seq(Candidate) /\ UniqueIds(queue')
      /\ Pending' = {e \in Pending : e.id # id} \cup {c}
  <2> DEFINE q == Without(queue, id)
  <2>1. /\ q \in Seq(Candidate) /\ UniqueIds(q) /\ queue' = Append(q, c)
        /\ ToSet(q) = {e \in Pending : e.id # id}
    BY <1>1, <1>7
  <2> HIDE DEF q
  <2>2. \A e \in ToSet(q) : e.id # c.id
    BY <1>5, <2>1
  <2>3. /\ Append(q, c) \in Seq(Candidate) /\ UniqueIds(Append(q, c))
        /\ ToSet(Append(q, c)) = ToSet(q) \cup {c}
    BY <1>5, <2>1, <2>2, AppendCandidate
  <2>4. Pending' = ToSet(queue')
    BY DEF Pending
  <2> QED
    BY <2>1, <2>3, <2>4
<1>9. job[p] \in Job /\ todo \in SUBSET Candidate
  BY <1>2 DEF StagingInv, ControlTypes
<1>10. job' = [job EXCEPT ![p] = j]
  BY <1>1 DEF StagingInv, ControlTypes
<1>11. todo = {e \in same : e.id # id}
  OBVIOUS
<1> HIDE DEF todo
<1>12. /\ j \in Job /\ j.todo = todo /\ j.id = id /\ j.then = th /\ j.content = job[p].content
  BY <1>3, <1>9 DEF Job
<1> HIDE DEF j
<1>13. job' \in [Sessions -> Job] /\ job'[p] = j /\ \A r \in Sessions : r # p => job'[r] = job[r]
  BY <1>10, <1>12, JobFacts DEF StagingInv
<1>14. turn' \in [Sessions -> Turns] /\ turn'[p] = "dedupe"
       /\ \A r \in Sessions : r # p => turn'[r] = turn[r]
  BY <1>1, GotoFacts DEF Turns, LockedTurns, StagingInv
<1>15. Writes(c)
  <2>1. Shaped(c)
    <3>1. candidateTargetKey(c) = candidateTargetKey(d)
      BY <1>6 DEF key
    <3> QED
      BY <1>5, <3>1 DEF Shaped
  <2>2. \/ Matching(key) = {} /\ c.id = nextId /\ nextId' = nextId + 1
        \/ (\E o \in Matching(key) : o.id = c.id) /\ nextId' = nextId
    BY <1>1, <1>3, <1>5 DEF same
  <2>3. lastConn' = lastConn \/ (lastConn' = c.id /\ candidateTargetKey(c) = ConnTarget)
    BY <1>5, <1>6, <1>12, <1>13 DEF key
  <2> QED
    BY <1>1, <1>5, <1>6, <1>8, <2>1, <2>2, <2>3 DEF Writes
<1>16. SessionOk(turn[p], job[p])'
  <2>1. Deduping(job[p])'
    <3>1. c \in Pending' /\ c.id = job'[p].id
      BY <1>5, <1>8, <1>12, <1>13
    <3>2. ASSUME NEW e \in job'[p].todo
          PROVE  e \in Pending' /\ e.id # job'[p].id /\ candidateTargetKey(e) = candidateTargetKey(c)
      <4>1. e \in same /\ e.id # id
        BY <1>11, <1>12, <1>13, <3>2
      <4>2. e \in Pending /\ candidateTargetKey(e) = key
        BY <4>1 DEF same, Matching
      <4> QED
        BY <1>6, <1>8, <1>12, <1>13, <4>1, <4>2
    <3> QED
      BY <3>1, <3>2 DEF Deduping, candidateTargetKey
  <2>2. ASSUME th = "promoteStaged", NEW e \in Pending', e.id = job'[p].id
        PROVE  e.dir = "typed"
    <3>1. e = c
      BY <1>8, <1>12, <1>13, <2>2
    <3> QED
      BY <1>5, <2>2, <3>1
  <2> QED
    BY <1>12, <1>13, <1>14, <2>1, <2>2 DEF SessionOk
<1>17. candidateTargetKey(c) = candidateTargetKey(d) /\ job'[p].id = c.id
  BY <1>5, <1>6, <1>12, <1>13 DEF key
<1> QED
  BY <1>5, <1>12, <1>13, <1>14, <1>15, <1>16, <1>17 DEF Others

\* Two pending candidates of one id are one.
LEMMA SameId ==
    ASSUME FilesInv, NEW c \in Pending, NEW d \in Pending, c.id = d.id
    PROVE  c = d
BY DEF FilesInv, Ids, UniqueIds, Pending, ToSet

LEMMA WithoutPending ==
    ASSUME FilesInv, NEW id, queue' = Without(queue, id)
    PROVE  /\ queue' \in Seq(Candidate) /\ UniqueIds(queue')
           /\ Pending' = {d \in Pending : d.id # id}
<1>1. queue \in Seq(Candidate) /\ UniqueIds(queue)
  BY DEF FilesInv, FileTypes, Ids
<1>2. /\ Without(queue, id) \in Seq(Candidate) /\ UniqueIds(Without(queue, id))
      /\ ToSet(Without(queue, id)) = {d \in ToSet(queue) : d.id # id}
  BY <1>1, WithoutProperties
<1> QED
  BY <1>2 DEF Pending

LEMMA ReadCandidate ==
    ASSUME FilesInv, NEW id, readCandidate(id) # NoCandidate
    PROVE  readCandidate(id) \in Pending /\ readCandidate(id).id = id
BY DEF readCandidate

\* What follows a shared step: the operation ends or goes on, with the lock.
LEMMA AfterAdvance ==
    ASSUME StagingInv, NEW p \in Sessions, holder = p, turn[p] \notin {"archive", "replace"},
           After(p), FilesInv', UNCHANGED <<archive, superseded, lastConn, age, declared, died>>,
           job[p].then = "promoteStaged" =>
              \A c \in Pending' : c.id = job[p].id => c.dir = "typed"
    PROVE  StagingInv'
<1>1. job[p].then \in {"done", "doc", "promoteStaged"}
  BY DEF StagingInv, ControlTypes, Job
<1>2. CASE job[p].then = "done"
  <2>1. Finish(p)
    BY <1>2 DEF After
  <2>2. Others(p)
    BY <2>1, FinishFacts DEF StagingInv
  <2>3. Replaced' /\ died' \in BOOLEAN
    BY <2>2, StillReplaced DEF StagingInv, ControlTypes
  <2> QED
    BY <2>1, <2>3, FinishAdvance
<1>3. CASE job[p].then # "done"
  <2>1. turn' = [turn EXCEPT ![p] = job[p].then] /\ UNCHANGED <<holder, job>>
    BY <1>3 DEF After, Goto
  <2>2. job[p].then \in Turns /\ job[p].then \in LockedTurns
    BY <1>1, <1>3 DEF Turns, LockedTurns
  <2>3. turn' \in [Sessions -> Turns] /\ turn'[p] = job[p].then
        /\ \A r \in Sessions : r # p => turn'[r] = turn[r]
    BY <2>1, <2>2, GotoFacts DEF StagingInv
  <2>4. Others(p) /\ LockMoves(p) /\ ControlTypes'
    BY <2>1, <2>3 DEF Others, LockMoves, StagingInv, ControlTypes
  <2>5. Replaced'
    BY <2>4, StillReplaced DEF StagingInv
  <2>6. LockOk(p, turn'[p], job'[p], holder', age')
    BY <1>1, <1>3, <2>1, <2>3 DEF LockOk
  <2>7. SessionOk(turn[p], job[p])'
    BY <1>1, <1>3, <2>1, <2>3 DEF SessionOk
  <2> QED
    BY <2>4, <2>5, <2>6, <2>7, Advance
<1> QED
  BY <1>2, <1>3

LEMMA DeleteDuplicatesKeeps ==
    ASSUME StagingInv, NEW p \in Sessions, deleteDuplicates(p)
    PROVE  StagingInv' /\ (Idles \/ \E id : Drops(id))
<1>1. /\ turn[p] = "dedupe" /\ holder = p /\ SessionOk(turn[p], job[p])
      /\ UNCHANGED <<pages, archive, recorded, nextId, superseded, lastConn, age, declared, died>>
  BY DEF deleteDuplicates, Holds, env, ghosts, StagingInv, SessionsOk
<1>2. CASE job[p].todo = {}
  <2>1. After(p) /\ queue' = queue
    BY <1>2 DEF deleteDuplicates
  <2>2. Idles /\ Pending' = Pending
    BY <1>1, <2>1 DEF Idles, stagingFiles, Pending
  <2>3. FilesInv'
    BY <2>2, IdlesKeepsFiles DEF StagingInv
  <2> QED
    BY <1>1, <2>1, <2>2, <2>3, AfterAdvance DEF SessionOk
<1>3. CASE job[p].todo # {}
  <2> DEFINE o == Oldest(job[p].todo)
             j == [job[p] EXCEPT !.todo = @ \ {o}]
  <2>1. /\ queue' = Without(queue, o.id) /\ UNCHANGED <<holder, turn>>
        /\ job' = [job EXCEPT ![p].todo = @ \ {Oldest(@)}]
    BY <1>3 DEF deleteDuplicates
  <2>2. PICK c \in Pending :
          /\ c.id = job[p].id
          /\ \A d \in job[p].todo : /\ d \in Pending /\ d.id # job[p].id
                                    /\ candidateTargetKey(d) = candidateTargetKey(c)
    BY <1>1 DEF SessionOk, Deduping
  <2>3. o \in job[p].todo
    <3>1. queue \in Seq(Candidate) /\ job[p].todo \subseteq Pending
      BY <2>2 DEF StagingInv, FilesInv, FileTypes
    <3> QED
      BY <1>3, <3>1, OldestIsOne
  <2>4. job' = [job EXCEPT ![p] = j]
    BY <2>1 DEF StagingInv, ControlTypes
  <2>5. job[p] \in Job
    BY DEF StagingInv, ControlTypes
  <2> HIDE DEF o
  <2>6. /\ j \in Job /\ j.todo = job[p].todo \ {o} /\ j.id = job[p].id
        /\ j.then = job[p].then
    BY <2>5 DEF Job
  <2> HIDE DEF j
  <2>7. job' \in [Sessions -> Job] /\ job'[p] = j /\ \A r \in Sessions : r # p => job'[r] = job[r]
    BY <2>4, <2>6, JobFacts DEF StagingInv
  <2>8. /\ queue' \in Seq(Candidate) /\ UniqueIds(queue')
        /\ Pending' = {d \in Pending : d.id # o.id}
    BY <2>1, WithoutPending DEF StagingInv
  <2>9. o \in Pending /\ o.id # c.id /\ candidateTargetKey(o) = candidateTargetKey(c)
    BY <2>2, <2>3
  <2>10. Drops(o.id)
    <3>1. ASSUME NEW e \in Pending, e.id = o.id
          PROVE  \E d \in Pending : d.id # o.id /\ candidateTargetKey(d) = candidateTargetKey(e)
      <4>1. e = o
        BY <2>9, <3>1, SameId DEF StagingInv
      <4> QED
        BY <2>9, <4>1
    <3> QED
      BY <1>1, <2>8, <3>1 DEF Drops
  <2>11. FilesInv'
    BY <2>10, DropsKeepsFiles DEF StagingInv
  <2>12. Others(p) /\ LockMoves(p) /\ ControlTypes'
    BY <1>1, <2>1, <2>7 DEF Others, LockMoves, StagingInv, ControlTypes
  <2>13. Replaced'
    BY <1>1, <2>12, StillReplaced DEF StagingInv
  <2>14. LockOk(p, turn'[p], job'[p], holder', age')
    BY <1>1, <2>1 DEF LockOk
  <2>15. Deduping(job[p])'
    <3>1. c \in Pending' /\ c.id = job'[p].id
      BY <2>2, <2>6, <2>7, <2>8, <2>9
    <3>2. ASSUME NEW d \in job'[p].todo
          PROVE  d \in Pending' /\ d.id # job'[p].id /\ candidateTargetKey(d) = candidateTargetKey(c)
      <4>1. d \in job[p].todo /\ d # o /\ d \in Pending
        BY <2>2, <2>6, <2>7, <3>2
      <4>2. d.id # o.id
        BY <2>9, <4>1, SameId DEF StagingInv
      <4> QED
        BY <2>2, <2>6, <2>7, <2>8, <4>1, <4>2
    <3> QED
      BY <3>1, <3>2 DEF Deduping, candidateTargetKey
  <2>16. SessionOk(turn[p], job[p])'
    BY <1>1, <2>1, <2>6, <2>7, <2>8, <2>15 DEF SessionOk
  <2> QED
    BY <1>1, <2>10, <2>11, <2>12, <2>13, <2>14, <2>16, Advance
<1> QED
  BY <1>2, <1>3

LEMMA ClearKeeps ==
    ASSUME StagingInv, NEW p \in Sessions, ClearCandidate(p)
    PROVE  StagingInv' /\ Drops(job[p].id)
<1>1. /\ turn[p] = "clear" /\ holder = p /\ SessionOk(turn[p], job[p])
      /\ queue' = Without(queue, job[p].id) /\ After(p)
      /\ UNCHANGED <<pages, archive, recorded, nextId, superseded, lastConn, age, declared, died>>
  BY DEF ClearCandidate, Holds, env, ghosts, StagingInv, SessionsOk
<1>2. /\ queue' \in Seq(Candidate) /\ UniqueIds(queue')
      /\ Pending' = {d \in Pending : d.id # job[p].id}
  BY <1>1, WithoutPending DEF StagingInv
<1>3. Drops(job[p].id)
  <2>1. ASSUME NEW c \in Pending, c.id = job[p].id
        PROVE  pages[candidateTargetKey(c)] # NoBody /\ ~Stranded(c)
    BY <1>1, <2>1 DEF SessionOk, Publishing, Stranded
  <2> QED
    BY <1>1, <1>2, <2>1 DEF Drops
<1>4. FilesInv'
  BY <1>3, DropsKeepsFiles DEF StagingInv
<1>5. \A c \in Pending' : c.id # job[p].id
  BY <1>2
<1> QED
  BY <1>1, <1>3, <1>4, <1>5, AfterAdvance

\* p keeps the lock and goes on to l with the locals j.
LEMMA HeldFacts ==
    ASSUME StagingInv, NEW p \in Sessions, NEW l \in Turns, NEW j \in Job,
           turn' = [turn EXCEPT ![p] = l], job' = [job EXCEPT ![p] = j], holder' = holder,
           UNCHANGED <<age, declared, died>>
    PROVE  turn'[p] = l /\ job'[p] = j /\ Others(p) /\ LockMoves(p) /\ ControlTypes'
<1>1. turn' \in [Sessions -> Turns] /\ turn'[p] = l
      /\ \A r \in Sessions : r # p => turn'[r] = turn[r]
  BY GotoFacts DEF StagingInv
<1>2. job' \in [Sessions -> Job] /\ job'[p] = j /\ \A r \in Sessions : r # p => job'[r] = job[r]
  BY JobFacts DEF StagingInv
<1> QED
  BY <1>1, <1>2 DEF Others, LockMoves, StagingInv, ControlTypes

LEMMA SlugOfNoCandidate == NoCandidate.slug \in Slugs
<1>1. (CHOOSE s \in Slugs : TRUE) \in Slugs
  BY StagingAssumption
<1> QED
  BY <1>1 DEF NoCandidate

LEMMA ApproveKeeps ==
    ASSUME StagingInv, NEW p \in Sessions, approveUnderLock(p)
    PROVE  /\ StagingInv'
           /\ \/ Idles
              \/ \E c \in Pending : /\ Publishes(candidateTargetKey(c), c.body)
                                    /\ connectorPinMatches(c, job[p].pin)
<1>1. turn[p] = "approve" /\ holder = p /\ UNCHANGED <<age, declared, superseded, lastConn, died>>
  BY DEF approveUnderLock, Holds, env, ghosts
<1> DEFINE c == readCandidate(job[p].id)
<1>2. CASE ~(Promotable(c) /\ connectorPinMatches(c, job[p].pin))
  <2>1. Finish(p) /\ Idles
    BY <1>1, <1>2 DEF approveUnderLock, loadCandidateUnderLock, Idles, stagingFiles
  <2> QED
    BY <1>1, <2>1, IdleFinish
<1>3. CASE Promotable(c) /\ connectorPinMatches(c, job[p].pin)
  <2> DEFINE u == IF c.dir = "typed" THEN {} ELSE c.srcs
             j == [job[p] EXCEPT !.seen = c, !.unstated = u]
  <2>1. /\ pages' = [pages EXCEPT ![candidateTargetKey(c)] = c.body]
        /\ turn' = [turn EXCEPT ![p] = "states"]
        /\ job' = [job EXCEPT ![p].seen = c, ![p].unstated = u]
        /\ UNCHANGED <<queue, archive, recorded, nextId, holder>>
    BY <1>3 DEF approveUnderLock, loadCandidateUnderLock, Goto
  <2>2. c \in Pending /\ c.id = job[p].id
    BY <1>3, ReadCandidate DEF Promotable, StagingInv
  <2>3. connectorPinMatches(c, job[p].pin)
    BY <1>3
  <2> HIDE DEF c
  <2>4. /\ c \in Candidate /\ candidateTargetKey(c) \in Targets /\ c.body \in Bodies
        /\ c.srcs \subseteq Sources /\ Shaped(c)
    BY <2>2, PendingTypes DEF StagingInv, FilesInv, Shapes
  <2>5. u \in SUBSET Sources
    BY <2>4
  <2>6. c.dir # "typed" => u = c.srcs
    OBVIOUS
  <2> HIDE DEF u
  <2>7. job[p] \in Job
    BY DEF StagingInv, ControlTypes
  <2>8. j \in Job /\ j.seen = c /\ j.unstated = u /\ j.id = job[p].id
    BY <2>4, <2>5, <2>7 DEF Job
  <2>9. job' = [job EXCEPT ![p] = j]
    BY <2>1 DEF StagingInv, ControlTypes
  <2> HIDE DEF j
  <2>10. turn'[p] = "states" /\ job'[p] = j /\ Others(p) /\ LockMoves(p) /\ ControlTypes'
    BY <1>1, <2>1, <2>8, <2>9, HeldFacts DEF Turns, LockedTurns
  <2>11. Publishes(candidateTargetKey(c), c.body)
    BY <1>1, <2>1, <2>2, <2>4 DEF Publishes
  <2>12. FilesInv' /\ pages'[candidateTargetKey(c)] = c.body
    BY <2>11, PublishesKeepsFiles DEF StagingInv
  <2>13. Replaced'
    BY <1>1, <2>1, <2>10, StillReplaced DEF StagingInv
  <2>14. LockOk(p, turn'[p], job'[p], holder', age')
    BY <1>1, <2>1, <2>10 DEF LockOk
  <2>15. Pending' = Pending
    BY <2>1 DEF Pending
  <2>16. Publishing(turn[p], job[p])'
    <3>1. SUFFICES ASSUME NEW e \in Pending, e.id = j.id
                   PROVE  /\ pages'[candidateTargetKey(e)] # NoBody
                          /\ e.slug = j.seen.slug
                          /\ e.dir = "concepts" /\ pages'[candidateTargetKey(e)] = <<"held", 1>>
                                => \A f \in Sources : f \in j.unstated
      BY <2>10, <2>15 DEF Publishing, candidateTargetKey
    <3>2. e = c
      BY <2>2, <2>8, <3>1, SameId DEF StagingInv
    <3>3. pages'[candidateTargetKey(e)] # NoBody /\ e.slug = j.seen.slug
      BY <2>4, <2>8, <2>12, <3>2, BodiesAreNotNone
    <3>4. ASSUME e.dir = "concepts", pages'[candidateTargetKey(e)] = <<"held", 1>>
          PROVE  j.unstated = Sources
      <4>1. c.body[1] = "held" /\ c.dir # "typed"
        BY <2>12, <3>2, <3>4
      <4> QED
        BY <2>4, <2>6, <2>8, <4>1 DEF Shaped
    <3> QED
      BY <3>3, <3>4
  <2>17. SessionOk(turn[p], job[p])'
    BY <2>10, <2>16 DEF SessionOk
  <2> QED
    BY <1>1, <2>2, <2>3, <2>10, <2>11, <2>12, <2>13, <2>14, <2>17, Advance
<1> QED
  BY <1>2, <1>3

LEMMA PersistKeeps ==
    ASSUME StagingInv, NEW p \in Sessions, persistCandidateSourceStates(p)
    PROVE  StagingInv' /\ (Idles \/ \E f, s : Records(f, s))
<1>1. /\ turn[p] = "states" /\ holder = p /\ SessionOk(turn[p], job[p])
      /\ UNCHANGED <<pages, queue, archive, nextId, holder, age, declared, superseded, lastConn, died>>
  BY DEF persistCandidateSourceStates, Holds, env, ghosts, StagingInv, SessionsOk
<1>2. Publishing("states", job[p]) /\ Pending' = Pending
  BY <1>1 DEF SessionOk, Pending
<1>3. job[p] \in Job /\ job[p].unstated \in SUBSET Sources
  BY DEF StagingInv, ControlTypes, Job
<1>4. CASE /\ \E f \in job[p].unstated :
                /\ recorded' = [recorded EXCEPT ![f] = @ \cup {job[p].seen.slug}]
                /\ job' = [job EXCEPT ![p].unstated = @ \ {f}]
           /\ UNCHANGED turn
  <2>1. PICK f \in job[p].unstated :
                /\ recorded' = [recorded EXCEPT ![f] = @ \cup {job[p].seen.slug}]
                /\ job' = [job EXCEPT ![p].unstated = @ \ {f}]
    BY <1>4
  <2> DEFINE j == [job[p] EXCEPT !.unstated = @ \ {f}]
  <2>2. job[p].seen.slug \in Slugs /\ f \in Sources
    BY <1>3, SlugOfNoCandidate DEF Job, Candidate
  <2>3. Records(f, job[p].seen.slug)
    BY <1>1, <2>1, <2>2 DEF Records
  <2>4. /\ FilesInv' /\ job[p].seen.slug \in recorded'[f]
        /\ \A g \in Sources : recorded[g] \subseteq recorded'[g]
    BY <2>3, RecordsKeepsFiles DEF StagingInv
  <2>5. j \in Job /\ j.id = job[p].id /\ j.seen = job[p].seen /\ j.unstated = job[p].unstated \ {f}
    BY <1>3 DEF Job
  <2>6. job' = [job EXCEPT ![p] = j] /\ turn' = [turn EXCEPT ![p] = "states"]
    BY <1>1, <1>4, <2>1 DEF StagingInv, ControlTypes
  <2> HIDE DEF j
  <2>7. turn'[p] = "states" /\ job'[p] = j /\ Others(p) /\ LockMoves(p) /\ ControlTypes'
    BY <1>1, <2>5, <2>6, HeldFacts DEF Turns, LockedTurns
  <2>8. Replaced'
    BY <1>1, <2>7, StillReplaced DEF StagingInv
  <2>9. LockOk(p, turn'[p], job'[p], holder', age')
    BY <1>1, <2>7 DEF LockOk
  <2>10. Publishing(turn[p], job[p])'
    <3>1. SUFFICES ASSUME NEW c \in Pending, c.id = j.id
                   PROVE  /\ pages[candidateTargetKey(c)] # NoBody
                          /\ c.slug = j.seen.slug
                          /\ c.dir = "concepts" /\ pages[candidateTargetKey(c)] = <<"held", 1>>
                                => \A g \in Sources : c.slug \in recorded'[g] \/ g \in j.unstated
      BY <1>1, <1>2, <2>7 DEF Publishing, candidateTargetKey
    <3>2. /\ pages[candidateTargetKey(c)] # NoBody
          /\ c.slug = job[p].seen.slug
          /\ c.dir = "concepts" /\ pages[candidateTargetKey(c)] = <<"held", 1>>
                => \A g \in Sources : c.slug \in recorded[g] \/ g \in job[p].unstated
      BY <1>2, <2>5, <3>1 DEF Publishing
    <3> QED
      BY <2>4, <2>5, <3>2
  <2>11. SessionOk(turn[p], job[p])'
    BY <2>7, <2>10 DEF SessionOk
  <2> QED
    BY <1>1, <2>3, <2>4, <2>7, <2>8, <2>9, <2>11, Advance
<1>5. CASE job[p].unstated = {} /\ Goto(p, "clear") /\ UNCHANGED <<recorded, job>>
  <2>1. Idles
    BY <1>1, <1>5 DEF Idles, stagingFiles
  <2>2. turn' = [turn EXCEPT ![p] = "clear"] /\ job' = [job EXCEPT ![p] = job[p]]
    BY <1>5 DEF Goto, StagingInv, ControlTypes
  <2>3. turn'[p] = "clear" /\ job'[p] = job[p] /\ Others(p) /\ LockMoves(p) /\ ControlTypes'
    BY <1>1, <1>3, <2>2, HeldFacts DEF Turns, LockedTurns
  <2>4. FilesInv'
    BY <2>1, IdlesKeepsFiles DEF StagingInv
  <2>5. Replaced'
    BY <1>1, <2>3, StillReplaced DEF StagingInv
  <2>6. LockOk(p, turn'[p], job'[p], holder', age')
    BY <1>1, <2>3 DEF LockOk
  <2>7. Publishing(turn[p], job[p])'
    BY <1>1, <1>2, <1>5, <2>3 DEF Publishing, candidateTargetKey
  <2>8. SessionOk(turn[p], job[p])'
    BY <2>3, <2>7 DEF SessionOk
  <2> QED
    BY <1>1, <2>1, <2>3, <2>4, <2>5, <2>6, <2>8, Advance
<1> QED
  BY <1>4, <1>5 DEF persistCandidateSourceStates

LEMMA RejectKeeps ==
    ASSUME StagingInv, NEW p \in Sessions, rejectUnderLock(p)
    PROVE  StagingInv' /\ (Idles \/ \E c : Archives(c))
<1> DEFINE c == readCandidate(job[p].id)
<1>1. /\ turn[p] = "reject" /\ holder = p /\ Finish(p)
      /\ UNCHANGED <<pages, recorded, nextId, age, declared, superseded, lastConn, died>>
      /\ IF c = NoCandidate THEN UNCHANGED <<queue, archive>> ELSE moveCandidateToArchive(c)
  BY DEF rejectUnderLock, loadCandidateUnderLock, Holds, env, ghosts
<1>2. CASE c = NoCandidate
  <2>1. Idles
    BY <1>1, <1>2 DEF Idles, stagingFiles
  <2> QED
    BY <1>1, <2>1, IdleFinish
<1>3. CASE c # NoCandidate
  <2>1. c \in Pending
    BY <1>3, ReadCandidate DEF StagingInv
  <2>2. queue' = Without(queue, c.id) /\ archive' = archive \cup {c}
    BY <1>1, <1>3 DEF moveCandidateToArchive
  <2> HIDE DEF c
  <2>3. Archives(c)
    BY <1>1, <2>1, <2>2, WithoutPending DEF Archives, StagingInv
  <2>4. FilesInv'
    BY <2>3, ArchivesKeepsFiles DEF StagingInv
  <2>5. c.id \notin superseded
    BY <2>1 DEF StagingInv, FilesInv, Ids
  <2>6. Others(p)
    BY <1>1, FinishFacts DEF StagingInv
  <2>7. Replaced' /\ died' \in BOOLEAN
    BY <1>1, <2>2, <2>5, <2>6, StillReplaced DEF StagingInv, ControlTypes
  <2> QED
    BY <1>1, <2>3, <2>4, <2>7, FinishAdvance
<1> QED
  BY <1>2, <1>3

LEMMA PromoteKeeps ==
    ASSUME StagingInv, NEW p \in Sessions, promoteCandidateUnderLock(p)
    PROVE  /\ StagingInv'
           /\ Idles \/ \E c \in Pending : Publishes(candidateTargetKey(c), c.body)
<1> DEFINE c == readCandidate(job[p].id)
<1>1. turn[p] = "promote" /\ holder = p /\ UNCHANGED <<age, declared, superseded, lastConn, died>>
  BY DEF promoteCandidateUnderLock, Holds, env, ghosts
<1>2. CASE ~(Promotable(c) /\ c.dir = "typed")
  <2>1. Finish(p) /\ Idles
    BY <1>1, <1>2 DEF promoteCandidateUnderLock, Idles, stagingFiles
  <2> QED
    BY <1>1, <2>1, IdleFinish
<1>3. CASE Promotable(c) /\ c.dir = "typed"
  <2>1. /\ pages' = [pages EXCEPT ![candidateTargetKey(c)] = c.body]
        /\ turn' = [turn EXCEPT ![p] = "clear"]
        /\ UNCHANGED <<queue, archive, recorded, nextId, holder, job>>
    BY <1>3 DEF promoteCandidateUnderLock, Goto
  <2>2. c \in Pending /\ c.id = job[p].id /\ c.dir = "typed"
    BY <1>3, ReadCandidate DEF Promotable, StagingInv
  <2> HIDE DEF c
  <2>3. candidateTargetKey(c) \in Targets /\ c.body \in Bodies
    BY <2>2, PendingTypes DEF StagingInv, FilesInv
  <2>4. Publishes(candidateTargetKey(c), c.body)
    BY <1>1, <2>1, <2>2, <2>3 DEF Publishes
  <2>5. FilesInv' /\ pages'[candidateTargetKey(c)] = c.body
    BY <2>4, PublishesKeepsFiles DEF StagingInv
  <2>6. job[p] \in Job /\ job' = [job EXCEPT ![p] = job[p]]
    BY <2>1 DEF StagingInv, ControlTypes
  <2>7. turn'[p] = "clear" /\ job'[p] = job[p] /\ Others(p) /\ LockMoves(p) /\ ControlTypes'
    BY <1>1, <2>1, <2>6, HeldFacts DEF Turns, LockedTurns
  <2>8. Replaced'
    BY <1>1, <2>1, <2>7, StillReplaced DEF StagingInv
  <2>9. LockOk(p, turn'[p], job'[p], holder', age')
    BY <1>1, <2>1, <2>7 DEF LockOk
  <2>10. Publishing(turn[p], job[p])'
    <3>1. Pending' = Pending
      BY <2>1 DEF Pending
    <3>2. ASSUME NEW e \in Pending, e.id = job[p].id
          PROVE  pages'[candidateTargetKey(e)] # NoBody /\ e.dir = "typed"
      BY <2>2, <2>3, <2>5, <3>2, SameId, BodiesAreNotNone DEF StagingInv
    <3> QED
      BY <2>7, <3>1, <3>2 DEF Publishing, candidateTargetKey
  <2>11. SessionOk(turn[p], job[p])'
    BY <2>7, <2>10 DEF SessionOk
  <2> QED
    BY <1>1, <2>2, <2>4, <2>5, <2>7, <2>8, <2>9, <2>11, Advance
<1> QED
  BY <1>2, <1>3

LEMMA StagePreparedKeeps ==
    ASSUME StagingInv, NEW p \in Sessions, stagePreparedDraft(p)
    PROVE  StagingInv' /\ Idles
<1>1. /\ turn[p] = "connector" /\ holder = p /\ Idles
      /\ UNCHANGED <<age, declared, died>>
  BY DEF stagePreparedDraft, Holds, Idles, stagingFiles, env, ghosts
<1>2. CASE Finish(p)
  BY <1>1, <1>2, IdleFinish
<1>3. CASE /\ Goto(p, "archive") /\ UNCHANGED holder
           /\ job' = [job EXCEPT ![p].todo = Supersedable, ![p].old = <<>>]
  <2> DEFINE j == [job[p] EXCEPT !.todo = Supersedable, !.old = <<>>]
  <2>1. job[p] \in Job
    BY DEF StagingInv, ControlTypes
  <2>2. job' = [job EXCEPT ![p] = j] /\ turn' = [turn EXCEPT ![p] = "archive"]
    BY <1>3 DEF Goto, StagingInv, ControlTypes
  <2>3. Supersedable \in SUBSET Candidate /\ <<>> \in Seq(Candidate)
    BY PendingTypes DEF Supersedable, StagingInv, FilesInv
  <2>4. j \in Job /\ j.todo = Supersedable /\ j.old = <<>> /\ j.content = job[p].content
    BY <2>1, <2>3 DEF Job
  <2> HIDE DEF j
  <2>5. turn'[p] = "archive" /\ job'[p] = j /\ Others(p) /\ LockMoves(p) /\ ControlTypes'
    BY <1>1, <1>3, <2>2, <2>4, HeldFacts DEF Turns, LockedTurns
  <2>6. FilesInv'
    BY <1>1, IdlesKeepsFiles DEF StagingInv
  <2>7. Replaced'
    BY <1>1, <2>5, StillReplaced DEF StagingInv, Idles, stagingFiles
  <2>8. LockOk(p, turn'[p], job'[p], holder', age')
    <3>1. job[p].content[1] = "conn"
      BY <1>1 DEF StagingInv, Locked, LockOk
    <3> QED
      BY <1>1, <1>3, <2>4, <2>5, <3>1 DEF LockOk
  <2>9. Superseding(turn[p], job[p])'
    <3>1. Pending' = Pending /\ ToSet(j.old) = {} /\ DOMAIN j.old = {}
      BY <1>1, <2>4 DEF Idles, stagingFiles, Pending, ToSet
    <3> QED
      BY <2>4, <2>5, <3>1 DEF Superseding, Supersedable, isConnectorCandidate, candidateTargetKey, ConnTarget
  <2>10. SessionOk(turn[p], job[p])'
    BY <2>5, <2>9 DEF SessionOk
  <2> QED
    BY <1>1, <2>5, <2>6, <2>7, <2>8, <2>10, Advance
<1> QED
  BY <1>1, <1>2, <1>3 DEF stagePreparedDraft

\* The end of a connector run that moves back what it archived.
LEMMA RestoreAdvance ==
    ASSUME StagingInv, NEW p \in Sessions, holder = p, turn[p] \in {"archive", "replace"},
           queue' = Restored(job[p].old), archive' = archive \ ToSet(job[p].old),
           superseded' = superseded \ {c.id : c \in ToSet(job[p].old)}, Finish(p),
           UNCHANGED <<pages, recorded, nextId, lastConn, age, declared, died>>
    PROVE  StagingInv' /\ Restores(job[p].old)
<1>1. Superseding(turn[p], job[p])
  BY DEF StagingInv, SessionsOk, SessionOk
<1>2. Restores(job[p].old)
  <2>1. job[p].old \in Seq(Candidate)
    BY DEF StagingInv, ControlTypes, Job
  <2> QED
    BY <1>1, <2>1 DEF Superseding, Restores, Restored
<1>3. FilesInv'
  BY <1>2, RestoresKeepsFiles DEF StagingInv
<1>4. Others(p)
  BY FinishFacts DEF StagingInv
<1>5. Replaced' /\ died' \in BOOLEAN
  <2>1. SUFFICES ASSUME ~died, NEW c \in archive', c.id \in superseded'
                 PROVE  \/ c.id < lastConn
                        \/ \E r \in Sessions : turn'[r] \in {"archive", "replace"} /\ c \in ToSet(job'[r].old)
    BY DEF Replaced, StagingInv, ControlTypes
  <2>2. c \in archive /\ c.id \in superseded /\ c \notin ToSet(job[p].old)
    BY <2>1
  <2>3. CASE c.id < lastConn
    BY <2>3
  <2>4. CASE \E r \in Sessions : turn[r] \in {"archive", "replace"} /\ c \in ToSet(job[r].old)
    BY <1>4, <2>2, <2>4 DEF Others
  <2> QED
    BY <2>1, <2>2, <2>3, <2>4 DEF StagingInv, Replaced
<1> QED
  BY <1>2, <1>3, <1>5, FinishAdvance

\* At most one draft is superseded: the connector has one target, and it is typed.
LEMMA OneToSupersede ==
    ASSUME FilesInv, NEW t, NEW j \in Job, Superseding(t, j), NEW c \in j.todo
    PROVE  /\ c \in Pending /\ isConnectorCandidate(c) /\ candidateTargetKey(c) = ConnTarget
           /\ c.dir = "typed" /\ j.old = <<>>
           /\ \A d \in Pending : candidateTargetKey(d) = ConnTarget => d = c
<1>1. c \in Pending /\ isConnectorCandidate(c)
  BY DEF Superseding
<1>2. candidateTargetKey(c) = ConnTarget
  BY <1>1 DEF isConnectorCandidate, FilesInv, Shapes, Shaped
<1>3. c.dir = "typed"
  BY <1>1, <1>2, PendingTypes, ConnTargetTyped DEF FilesInv
<1>4. j.old = <<>>
  BY <1>1, <1>2 DEF Superseding
<1>5. \A d \in Pending : candidateTargetKey(d) = ConnTarget => d = c
  BY <1>1, <1>2, <1>3 DEF FilesInv, TypedOnce
<1> QED
  BY <1>1, <1>2, <1>3, <1>4, <1>5

LEMMA ArchiveKeeps ==
    ASSUME StagingInv, NEW p \in Sessions, archiveCandidatesWithUndo(p)
    PROVE  StagingInv' /\ (Idles \/ (\E c : Archives(c)) \/ Restores(job[p].old))
<1>1. /\ turn[p] = "archive" /\ holder = p /\ Superseding(turn[p], job[p]) /\ job[p] \in Job
      /\ UNCHANGED <<pages, recorded, nextId, lastConn, age, declared, died>>
  BY DEF archiveCandidatesWithUndo, Holds, env, ghosts, StagingInv, SessionsOk, SessionOk, ControlTypes
<1>2. CASE /\ job[p].todo # {}
           /\ moveCandidateToArchive(Oldest(job[p].todo))
           /\ job' = [job EXCEPT ![p].todo = @ \ {Oldest(job[p].todo)},
                                 ![p].old = Append(@, Oldest(job[p].todo))]
           /\ superseded' = superseded \cup {Oldest(job[p].todo).id}
           /\ UNCHANGED <<turn, holder>>
  <2> DEFINE c == Oldest(job[p].todo)
             j == [job[p] EXCEPT !.todo = @ \ {c}, !.old = Append(@, c)]
  <2>1. c \in job[p].todo
    <3>1. queue \in Seq(Candidate) /\ job[p].todo \subseteq Pending
      BY <1>1 DEF Superseding, StagingInv, FilesInv, FileTypes
    <3> QED
      BY <1>2, <3>1, OldestIsOne
  <2>2. /\ queue' = Without(queue, c.id) /\ archive' = archive \cup {c}
        /\ superseded' = superseded \cup {c.id}
    BY <1>2 DEF moveCandidateToArchive
  <2>3. job' = [job EXCEPT ![p] = j] /\ turn' = [turn EXCEPT ![p] = "archive"]
    BY <1>1, <1>2 DEF StagingInv, ControlTypes
  <2> HIDE DEF c
  <2>4. /\ c \in Pending /\ isConnectorCandidate(c) /\ candidateTargetKey(c) = ConnTarget
        /\ c.dir = "typed" /\ job[p].old = <<>>
        /\ \A d \in Pending : candidateTargetKey(d) = ConnTarget => d = c
    BY <1>1, <2>1, OneToSupersede DEF StagingInv
  <2>5. c \in Candidate /\ c.id \in Nat
    BY <2>4, PendingTypes DEF StagingInv, FilesInv
  <2>6. Append(job[p].old, c) = <<c>> /\ <<c>> \in Seq(Candidate)
    BY <2>4, <2>5
  <2>7. j \in Job /\ j.todo = job[p].todo \ {c} /\ j.old = <<c>> /\ j.content = job[p].content
    BY <1>1, <2>6 DEF Job
  <2> HIDE DEF j
  <2>8. turn'[p] = "archive" /\ job'[p] = j /\ Others(p) /\ LockMoves(p) /\ ControlTypes'
    BY <1>1, <1>2, <2>3, <2>7, HeldFacts DEF Turns, LockedTurns
  <2>9. /\ queue' \in Seq(Candidate) /\ UniqueIds(queue')
        /\ Pending' = {d \in Pending : d.id # c.id}
    BY <2>2, WithoutPending DEF StagingInv
  <2>10. Archives(c)
    BY <1>1, <2>2, <2>4, <2>9 DEF Archives
  <2>11. FilesInv'
    BY <2>10, ArchivesKeepsFiles DEF StagingInv
  <2>12. ToSet(j.old) = {c} /\ j.old # <<>> /\ \A i, k \in DOMAIN j.old : i = k
    <3>1. DOMAIN <<c>> = {1} /\ <<c>>[1] = c
      OBVIOUS
    <3>2. ToSet(<<c>>) = {c}
      BY <3>1 DEF ToSet
    <3> QED
      BY <2>7, <3>1, <3>2
  <2>13. Replaced'
    <3>1. SUFFICES ASSUME ~died, NEW e \in archive', e.id \in superseded'
                   PROVE  \/ e.id < lastConn
                          \/ \E r \in Sessions : turn'[r] \in {"archive", "replace"} /\ e \in ToSet(job'[r].old)
      BY <1>1 DEF Replaced
    <3>2. CASE e = c
      BY <2>8, <2>12, <3>2
    <3>3. CASE e # c
      <4>1. e \in archive /\ e.id # c.id
        BY <2>2, <2>4, <3>3 DEF StagingInv, FilesInv, Ids
      <4>2. e.id \in superseded
        BY <2>2, <3>1, <4>1
      <4>3. CASE \E r \in Sessions : turn[r] \in {"archive", "replace"} /\ e \in ToSet(job[r].old)
        <5>1. PICK r \in Sessions : turn[r] \in {"archive", "replace"} /\ e \in ToSet(job[r].old)
          BY <4>3
        <5>2. r # p
          BY <2>4, <5>1 DEF ToSet
        <5> QED
          BY <2>8, <5>1, <5>2 DEF Others
      <4> QED
        BY <3>1, <4>1, <4>2, <4>3 DEF StagingInv, Replaced
    <3> QED
      BY <3>2, <3>3
  <2>14. LockOk(p, turn'[p], job'[p], holder', age')
    <3>1. job[p].content[1] = "conn"
      BY <1>1 DEF StagingInv, Locked, LockOk
    <3> QED
      BY <1>1, <1>2, <2>7, <2>8, <3>1 DEF LockOk
  <2>15. Superseding(turn[p], job[p])'
    <3>1. \A d \in j.todo : d \in Pending' /\ isConnectorCandidate(d)
      <4>1. SUFFICES ASSUME NEW d \in job[p].todo, d # c
                     PROVE  d \in Pending' /\ isConnectorCandidate(d)
        BY <2>7
      <4>2. d \in Pending /\ isConnectorCandidate(d)
        BY <1>1 DEF Superseding
      <4>3. d.id # c.id
        BY <2>4, <4>1, <4>2, SameId DEF StagingInv
      <4> QED
        BY <2>9, <4>2, <4>3
    <3>2. \A d \in Pending' : isConnectorCandidate(d) => d \in j.todo
      BY <1>1, <2>7, <2>9 DEF Superseding
    <3>3. \A d \in ToSet(j.old) : isConnectorCandidate(d) /\ d \in archive' /\ d.id \in superseded'
      BY <2>2, <2>4, <2>12
    <3>4. \A d \in Pending' : candidateTargetKey(d) # ConnTarget
      BY <2>4, <2>9
    <3>5. \A d \in ToSet(j.old), e \in archive' \ ToSet(j.old) : e.id \in superseded' => e.id < d.id
      <4>1. SUFFICES ASSUME NEW e \in archive, e # c, e.id \in superseded'
                     PROVE  e.id < c.id
        BY <2>2, <2>12
      <4>2. e.id # c.id
        BY <2>4, <4>1 DEF StagingInv, FilesInv, Ids
      <4>3. e.id \in superseded
        BY <2>2, <4>1, <4>2
      <4> QED
        BY <2>4, <4>3 DEF StagingInv, FilesInv, SupersededOlder
    <3> QED
      BY <2>8, <2>12, <3>1, <3>2, <3>3, <3>4, <3>5
         DEF Superseding, isConnectorCandidate, candidateTargetKey, ConnTarget
  <2>16. SessionOk(turn[p], job[p])'
    BY <2>8, <2>15 DEF SessionOk
  <2> QED
    BY <1>1, <2>8, <2>10, <2>11, <2>13, <2>14, <2>16, Advance
<1>3. CASE /\ queue' = Restored(job[p].old) /\ archive' = archive \ ToSet(job[p].old)
           /\ superseded' = superseded \ {c.id : c \in ToSet(job[p].old)}
           /\ Finish(p)
  BY <1>1, <1>3, RestoreAdvance
<1>4. CASE job[p].todo = {} /\ Goto(p, "replace") /\ UNCHANGED <<queue, archive, job, superseded, holder>>
  <2>1. Idles /\ Pending' = Pending
    BY <1>1, <1>4 DEF Idles, stagingFiles, Pending
  <2>2. turn' = [turn EXCEPT ![p] = "replace"] /\ job' = [job EXCEPT ![p] = job[p]]
    BY <1>4 DEF Goto, StagingInv, ControlTypes
  <2>3. turn'[p] = "replace" /\ job'[p] = job[p] /\ Others(p) /\ LockMoves(p) /\ ControlTypes'
    BY <1>1, <1>4, <2>2, HeldFacts DEF Turns, LockedTurns
  <2>4. FilesInv'
    BY <2>1, IdlesKeepsFiles DEF StagingInv
  <2>5. Replaced'
    BY <1>1, <1>4, <2>3 DEF Replaced, Others, StagingInv
  <2>6. LockOk(p, turn'[p], job'[p], holder', age')
    <3>1. job[p].content[1] = "conn"
      BY <1>1 DEF StagingInv, Locked, LockOk
    <3> QED
      BY <1>1, <1>4, <2>3, <3>1 DEF LockOk
  <2>7. Superseding(turn[p], job[p])'
    BY <1>1, <1>4, <2>1, <2>3 DEF Superseding, isConnectorCandidate, candidateTargetKey, ConnTarget
  <2>8. SessionOk(turn[p], job[p])'
    BY <2>3, <2>7 DEF SessionOk
  <2> QED
    BY <1>1, <2>1, <2>3, <2>4, <2>5, <2>6, <2>8, Advance
<1> QED
  BY <1>2, <1>3, <1>4 DEF archiveCandidatesWithUndo

\* A candidate was written, and what is left is to delete what it doubles.
LEMMA StagesAdvance ==
    ASSUME StagingInv, NEW p \in Sessions, holder = p, UNCHANGED <<holder, age, declared, died>>,
           NEW c \in Candidate, Writes(c),
           \/ turn[p] \notin {"archive", "replace"} /\ lastConn' = lastConn
           \/ lastConn' = c.id /\ candidateTargetKey(c) = ConnTarget,
           job' \in [Sessions -> Job], turn' \in [Sessions -> Turns], turn'[p] = "dedupe", Others(p),
           SessionOk(turn[p], job[p])'
    PROVE  StagingInv'
<1>1. FilesInv'
  BY WritesKeepsFiles DEF StagingInv
<1>2. ControlTypes' /\ LockMoves(p)
  BY DEF StagingInv, ControlTypes, LockMoves
<1>3. LockOk(p, turn'[p], job'[p], holder', age')
  BY DEF LockOk
<1>4. archive' = archive /\ superseded' = superseded
  BY DEF Writes
<1>5. Replaced'
  <2>1. CASE turn[p] \notin {"archive", "replace"} /\ lastConn' = lastConn
    BY <1>4, <2>1, StillReplaced DEF StagingInv
  <2>2. CASE lastConn' = c.id /\ candidateTargetKey(c) = ConnTarget
    <3>1. ASSUME NEW e \in archive, e.id \in superseded
          PROVE  e.id < c.id
      <4>1. CASE c.id = nextId
        BY <4>1 DEF StagingInv, FilesInv, Ids
      <4>2. CASE \E o \in Matching(candidateTargetKey(c)) : o.id = c.id
        BY <2>2, <3>1, <4>2 DEF Matching, StagingInv, FilesInv, SupersededOlder
      <4> QED
        BY <4>1, <4>2 DEF Writes
    <3> QED
      BY <1>4, <2>2, <3>1 DEF Replaced
  <2> QED
    BY <2>1, <2>2
<1> QED
  BY <1>1, <1>2, <1>3, <1>5, Advance

LEMMA StageKeeps ==
    ASSUME StagingInv, NEW p \in Sessions, stageEntityPage(p)
    PROVE  StagingInv' /\ (Idles \/ \E c : Writes(c))
<1>1. turn[p] = "stage" /\ holder = p /\ UNCHANGED <<age, declared, superseded, lastConn, died>>
  BY DEF stageEntityPage, Holds, env, ghosts
<1>2. CASE Finish(p) /\ UNCHANGED stagingFiles
  <2>1. Idles
    BY <1>1, <1>2 DEF Idles
  <2> QED
    BY <1>1, <1>2, <2>1, IdleFinish
<1>3. CASE \E s \in Slugs :
             /\ writeCandidate(p, [dir |-> "typed", slug |-> s, body |-> <<"sdk", 1>>, srcs |-> {}],
                               "done", {})
             /\ UNCHANGED holder
  <2>1. PICK s \in Slugs :
             /\ writeCandidate(p, [dir |-> "typed", slug |-> s, body |-> <<"sdk", 1>>, srcs |-> {}],
                               "done", {})
             /\ UNCHANGED holder
    BY <1>3
  <2> DEFINE d == [dir |-> "typed", slug |-> s, body |-> <<"sdk", 1>>, srcs |-> {}]
  <2>2. d \in Draft /\ d.body[1] = "sdk"
    BY DEF Draft, Dirs, Bodies
  <2>3. writeCandidate(p, d, "done", {})
    BY <2>1
  <2> HIDE DEF d
  <2>4. PICK c \in Candidate : Writes(c)
    BY <1>1, <2>2, <2>3, WriteCandidateWrites
  <2>5. /\ job' \in [Sessions -> Job] /\ turn' \in [Sessions -> Turns] /\ turn'[p] = "dedupe"
        /\ Others(p) /\ SessionOk(turn[p], job[p])'
    BY <1>1, <2>2, <2>3, WriteCandidateWrites
  <2> QED
    BY <1>1, <2>1, <2>4, <2>5, StagesAdvance
<1> QED
  BY <1>2, <1>3 DEF stageEntityPage

LEMMA HoldKeeps ==
    ASSUME StagingInv, NEW p \in Sessions, HoldConcept(p)
    PROVE  StagingInv' /\ \E c : Writes(c)
<1>1. turn[p] = "hold" /\ holder = p /\ UNCHANGED <<holder, age, declared, superseded, lastConn, died>>
  BY DEF HoldConcept, Holds, env, ghosts
<1>2. PICK s \in Slugs :
        writeCandidate(p, [dir |-> "concepts", slug |-> s, body |-> <<"held", 1>>, srcs |-> Sources],
                       "done", {})
  BY DEF HoldConcept
<1> DEFINE d == [dir |-> "concepts", slug |-> s, body |-> <<"held", 1>>, srcs |-> Sources]
<1>3. d \in Draft /\ d.body[1] = "held" /\ d.dir = "concepts" /\ d.srcs = Sources
  BY DEF Draft, Dirs, Bodies
<1>4. writeCandidate(p, d, "done", {})
  BY <1>2
<1> HIDE DEF d
<1>5. PICK c \in Candidate : Writes(c)
  BY <1>1, <1>3, <1>4, WriteCandidateWrites
<1>6. /\ job' \in [Sessions -> Job] /\ turn' \in [Sessions -> Turns] /\ turn'[p] = "dedupe"
      /\ Others(p) /\ SessionOk(turn[p], job[p])'
  BY <1>1, <1>3, <1>4, WriteCandidateWrites
<1> QED
  BY <1>1, <1>5, <1>6, StagesAdvance

\* writeFreshCandidate, for a target nothing is pending for.
LEMMA WriteFreshWrites ==
    ASSUME StagingInv, NEW p \in Sessions, NEW d \in Draft, writeFreshCandidate(p, d),
           superseded' = superseded, lastConn' = job'[p].id,
           d.body[1] = "conn", candidateTargetKey(d) = ConnTarget, Matching(ConnTarget) = {}
    PROVE  /\ \E c \in Candidate : Writes(c) /\ lastConn' = c.id /\ candidateTargetKey(c) = ConnTarget
           /\ job' \in [Sessions -> Job] /\ turn' \in [Sessions -> Turns]
           /\ turn'[p] = "dedupe" /\ Others(p) /\ SessionOk(turn[p], job[p])'
<1> DEFINE c == [id |-> nextId, dir |-> d.dir, slug |-> d.slug, body |-> d.body, srcs |-> d.srcs]
           j == [job[p] EXCEPT !.todo = {}, !.id = nextId, !.then = "done"]
<1>1. /\ nextId <= MaxCandidates
      /\ queue' = Append(queue, c) /\ nextId' = nextId + 1
      /\ turn' = [turn EXCEPT ![p] = "dedupe"]
      /\ job' = [job EXCEPT ![p].todo = {}, ![p].id = nextId, ![p].then = "done"]
      /\ UNCHANGED <<pages, archive, recorded>>
  BY DEF writeFreshCandidate, Goto
<1>2. nextId \in 1..MaxCandidates
  <2>1. nextId <= MaxCandidates /\ nextId \in Nat \ {0} /\ MaxCandidates \in Nat
    BY <1>1, StagingAssumption DEF StagingInv, FilesInv, FileTypes
  <2> QED
    BY <2>1
<1>3. job[p] \in Job /\ nextId \in Nat /\ {} \in SUBSET Candidate
  BY DEF StagingInv, ControlTypes, FilesInv, FileTypes
<1>4. job' = [job EXCEPT ![p] = j]
  BY <1>1 DEF StagingInv, ControlTypes
<1>5. j \in Job /\ j.todo = {} /\ j.id = nextId /\ j.then = "done"
  BY <1>3 DEF Job
<1> HIDE DEF j
<1>6. job' \in [Sessions -> Job] /\ job'[p] = j /\ \A r \in Sessions : r # p => job'[r] = job[r]
  BY <1>4, <1>5, JobFacts DEF StagingInv
<1>7. turn' \in [Sessions -> Turns] /\ turn'[p] = "dedupe"
      /\ \A r \in Sessions : r # p => turn'[r] = turn[r]
  BY <1>1, GotoFacts DEF Turns, LockedTurns, StagingInv
<1>8. d.dir \in Dirs /\ d.slug \in Slugs /\ d.body \in Bodies /\ d.srcs \in SUBSET Sources
  BY DEF Draft
<1>9. c \in Candidate /\ c.id = nextId /\ c.body = d.body /\ c.dir = d.dir /\ c.slug = d.slug
  BY <1>2, <1>8 DEF Candidate
<1> HIDE DEF c
<1>10. candidateTargetKey(c) = ConnTarget
  BY <1>9 DEF candidateTargetKey
<1>11. queue \in Seq(Candidate) /\ UniqueIds(queue) /\ \A e \in Pending : e.id # c.id
  <2>1. \A e \in Pending : e.id < nextId /\ e.id \in Nat
    BY PendingTypes DEF StagingInv, FilesInv, Ids
  <2> QED
    BY <1>2, <1>9, <2>1 DEF StagingInv, FilesInv, FileTypes, Ids
<1>12. /\ queue' \in Seq(Candidate) /\ UniqueIds(queue') /\ Pending' = Pending \cup {c}
  <2>1. /\ Append(queue, c) \in Seq(Candidate) /\ UniqueIds(Append(queue, c))
        /\ ToSet(Append(queue, c)) = ToSet(queue) \cup {c}
    BY <1>9, <1>11, AppendCandidate DEF Pending
  <2> QED
    BY <1>1, <2>1 DEF Pending
<1>13. Pending' = {e \in Pending : e.id # c.id} \cup {c}
  BY <1>11, <1>12
<1>14. Writes(c) /\ lastConn' = c.id
  <2>1. Shaped(c)
    BY <1>9, <1>10 DEF Shaped
  <2>2. lastConn' = c.id
    BY <1>5, <1>6, <1>9
  <2> QED
    BY <1>1, <1>9, <1>10, <1>12, <1>13, <2>1, <2>2 DEF Writes
<1>15. SessionOk(turn[p], job[p])'
  <2>1. Deduping(job[p])'
    BY <1>5, <1>6, <1>9, <1>12 DEF Deduping
  <2> QED
    BY <1>5, <1>6, <1>7, <2>1 DEF SessionOk
<1> QED
  BY <1>6, <1>7, <1>9, <1>10, <1>14, <1>15 DEF Others

LEMMA ReplaceKeeps ==
    ASSUME StagingInv, NEW p \in Sessions, stageReplacementOrRestore(p)
    PROVE  StagingInv' /\ ((\E c : Writes(c)) \/ Restores(job[p].old))
<1>1. /\ turn[p] = "replace" /\ holder = p /\ Superseding(turn[p], job[p]) /\ job[p] \in Job
      /\ UNCHANGED <<age, declared, died>>
  BY DEF stageReplacementOrRestore, Holds, env, StagingInv, SessionsOk, SessionOk, ControlTypes
<1> DEFINE d == [dir |-> ConnTarget[1], slug |-> ConnTarget[2], body |-> job[p].content, srcs |-> {}]
<1>2. CASE RestoreArchived(p) /\ UNCHANGED lastConn
  BY <1>1, <1>2, RestoreAdvance DEF RestoreArchived
<1>3. CASE /\ IF freshCandidateId(p) THEN writeFreshCandidate(p, d)
                                     ELSE writeCandidate(p, d, "done", {})
           /\ lastConn' = job'[p].id
           /\ UNCHANGED <<holder, superseded>>
  <2>1. job[p].content[1] = "conn" /\ job[p].content \in Bodies
    <3>1. job[p].content[1] = "conn"
      BY <1>1 DEF StagingInv, Locked, LockOk
    <3>2. NoBody[1] # "conn"
      BY DEF NoBody
    <3> QED
      BY <1>1, <3>1, <3>2 DEF Job
  <2>2. d \in Draft /\ d.body[1] = "conn" /\ candidateTargetKey(d) = ConnTarget /\ d.dir = "typed"
    <3>1. ConnTarget = <<ConnTarget[1], ConnTarget[2]>>
      BY DEF ConnTarget
    <3> QED
      BY <2>1, <3>1, ConnTargetTyped DEF Draft, Dirs, candidateTargetKey
  <2> HIDE DEF d
  <2>3. CASE freshCandidateId(p)
    <3>1. Matching(ConnTarget) = {}
      BY <1>1, <2>3 DEF freshCandidateId, Superseding, Matching
    <3>2. PICK c \in Candidate : Writes(c) /\ lastConn' = c.id /\ candidateTargetKey(c) = ConnTarget
      BY <1>3, <2>2, <2>3, <3>1, WriteFreshWrites
    <3>3. /\ job' \in [Sessions -> Job] /\ turn' \in [Sessions -> Turns] /\ turn'[p] = "dedupe"
          /\ Others(p) /\ SessionOk(turn[p], job[p])'
      BY <1>3, <2>2, <2>3, <3>1, WriteFreshWrites
    <3> QED
      BY <1>1, <1>3, <3>2, <3>3, StagesAdvance
  <2>4. CASE ~freshCandidateId(p)
    <3>1. writeCandidate(p, d, "done", {})
      BY <1>3, <2>4
    <3>2. PICK c \in Candidate : Writes(c) /\ job'[p].id = c.id /\ candidateTargetKey(c) = ConnTarget
      BY <1>3, <2>2, <3>1, WriteCandidateWrites
    <3>3. /\ job' \in [Sessions -> Job] /\ turn' \in [Sessions -> Turns] /\ turn'[p] = "dedupe"
          /\ Others(p) /\ SessionOk(turn[p], job[p])'
      BY <1>3, <2>2, <3>1, WriteCandidateWrites
    <3> QED
      BY <1>1, <1>3, <3>2, <3>3, StagesAdvance
  <2> QED
    BY <2>3, <2>4
<1> QED
  BY <1>2, <1>3 DEF stageReplacementOrRestore

\* What is published is pending at that moment, or a document of a trusted import.
PublishesPending(p) ==
    \E c \in Pending : /\ Publishes(candidateTargetKey(c), c.body) /\ holder = p
                       /\ turn[p] = "approve" => connectorPinMatches(c, job[p].pin)

PublishesDoc(p) == /\ Holds(p, "doc") /\ job[p].trusted
                   /\ \E t \in Targets : Publishes(t, <<"okf", 1>>)

LEMMA ApplyKeeps ==
    ASSUME StagingInv, NEW p \in Sessions, applyOneDoc(p)
    PROVE  StagingInv' /\ (Idles \/ (\E c : Writes(c)) \/ PublishesDoc(p))
<1>1. turn[p] = "doc" /\ holder = p /\ UNCHANGED <<age, declared, superseded, lastConn, died>>
  BY DEF applyOneDoc, Holds, env, ghosts
<1>2. PICK doc \in job[p].docs :
        \/ /\ job[p].trusted
           /\ pages' = [pages EXCEPT ![<<"concepts", doc[2]>>] = <<"okf", 1>>]
           /\ job' = [job EXCEPT ![p].docs = job[p].docs \ {doc}]
           /\ UNCHANGED <<queue, archive, recorded, nextId, holder, turn>>
        \/ /\ writeCandidate(p, OkfDraft("typed", doc[2]),
                             IF job[p].trusted THEN "promoteStaged" ELSE "doc", job[p].docs \ {doc})
           /\ UNCHANGED holder
        \/ Finish(p) /\ UNCHANGED stagingFiles
        \/ /\ writeCandidate(p, OkfDraft("concepts", doc[2]), "doc", job[p].docs \ {doc})
           /\ UNCHANGED holder
  BY DEF applyOneDoc
<1> DEFINE rest == job[p].docs \ {doc}
<1>3. job[p] \in Job /\ rest \in SUBSET (Kinds \X Slugs) /\ doc[2] \in Slugs
  BY DEF StagingInv, ControlTypes, Job
<1>4. CASE /\ job[p].trusted
           /\ pages' = [pages EXCEPT ![<<"concepts", doc[2]>>] = <<"okf", 1>>]
           /\ job' = [job EXCEPT ![p].docs = rest]
           /\ UNCHANGED <<queue, archive, recorded, nextId, holder, turn>>
  <2> DEFINE j == [job[p] EXCEPT !.docs = rest]
  <2>1. Publishes(<<"concepts", doc[2]>>, <<"okf", 1>>) /\ <<"concepts", doc[2]>> \in Targets
    <3>1. <<"concepts", doc[2]>> \in Targets /\ <<"okf", 1>> \in Bodies /\ <<"okf", 1>>[1] = "okf"
      BY <1>3 DEF Targets, Dirs, Bodies
    <3> QED
      BY <1>1, <1>4, <3>1 DEF Publishes
  <2>2. FilesInv'
    BY <2>1, PublishesKeepsFiles DEF StagingInv
  <2>3. job' = [job EXCEPT ![p] = j] /\ turn' = [turn EXCEPT ![p] = "doc"]
    BY <1>1, <1>4 DEF StagingInv, ControlTypes
  <2>4. j \in Job
    <3> HIDE DEF rest
    <3> QED
      BY <1>3 DEF Job
  <2> HIDE DEF j
  <2>5. turn'[p] = "doc" /\ job'[p] = j /\ Others(p) /\ LockMoves(p) /\ ControlTypes'
    BY <1>1, <1>4, <2>3, <2>4, HeldFacts DEF Turns, LockedTurns
  <2>6. Replaced'
    BY <1>1, <1>4, <2>5, StillReplaced DEF StagingInv
  <2>7. LockOk(p, turn'[p], job'[p], holder', age')
    BY <1>1, <1>4, <2>5 DEF LockOk
  <2>8. SessionOk(turn[p], job[p])'
    BY <2>5 DEF SessionOk
  <2>9. PublishesDoc(p)
    BY <1>1, <1>4, <2>1 DEF PublishesDoc, Holds
  <2> QED
    BY <1>1, <2>2, <2>5, <2>6, <2>7, <2>8, <2>9, Advance
<1>5. CASE Finish(p) /\ UNCHANGED stagingFiles
  <2>1. Idles
    BY <1>1, <1>5 DEF Idles
  <2> QED
    BY <1>1, <1>5, <2>1, IdleFinish
<1>6. ASSUME NEW dir \in Dirs, NEW th \in {"doc", "promoteStaged"},
             th = "promoteStaged" => dir = "typed",
             writeCandidate(p, OkfDraft(dir, doc[2]), th, rest), UNCHANGED holder
      PROVE  StagingInv' /\ \E c : Writes(c)
  <2> DEFINE d == OkfDraft(dir, doc[2])
  <2>1. d \in Draft /\ d.body[1] = "okf" /\ d.dir = dir
    BY <1>3 DEF OkfDraft, Draft, Bodies
  <2>2. writeCandidate(p, d, th, rest)
    BY <1>6
  <2> HIDE DEF d, rest
  <2>3. PICK c \in Candidate : Writes(c)
    BY <1>1, <1>3, <1>6, <2>1, <2>2, WriteCandidateWrites
  <2>4. /\ job' \in [Sessions -> Job] /\ turn' \in [Sessions -> Turns] /\ turn'[p] = "dedupe"
        /\ Others(p) /\ SessionOk(turn[p], job[p])'
    BY <1>1, <1>3, <1>6, <2>1, <2>2, WriteCandidateWrites
  <2> QED
    BY <1>1, <1>6, <2>3, <2>4, StagesAdvance
<1>7. CASE /\ writeCandidate(p, OkfDraft("typed", doc[2]),
                             IF job[p].trusted THEN "promoteStaged" ELSE "doc", rest)
           /\ UNCHANGED holder
  <2>1. "typed" \in Dirs /\ (IF job[p].trusted THEN "promoteStaged" ELSE "doc") \in {"doc", "promoteStaged"}
    BY DEF Dirs
  <2> QED
    BY <1>6, <1>7, <2>1
<1>8. CASE /\ writeCandidate(p, OkfDraft("concepts", doc[2]), "doc", rest)
           /\ UNCHANGED holder
  BY <1>6, <1>8 DEF Dirs
<1> QED
  BY <1>2, <1>4, <1>5, <1>7, <1>8

LEMMA PromoteStagedKeeps ==
    ASSUME StagingInv, NEW p \in Sessions, promoteStaged(p)
    PROVE  StagingInv' /\ (Idles \/ PublishesPending(p))
<1> DEFINE c == readCandidate(job[p].id)
<1>1. /\ turn[p] = "promoteStaged" /\ holder = p /\ SessionOk(turn[p], job[p])
      /\ UNCHANGED <<queue, archive, recorded, nextId, holder, age, declared, superseded, lastConn, died>>
  BY DEF promoteStaged, Holds, env, ghosts, StagingInv, SessionsOk
<1>2. job[p] \in Job
  BY DEF StagingInv, ControlTypes
<1>3. CASE Promotable(c)
  <2> DEFINE j == [job[p] EXCEPT !.then = "doc"]
  <2>1. /\ pages' = [pages EXCEPT ![candidateTargetKey(c)] = c.body]
        /\ turn' = [turn EXCEPT ![p] = "clear"]
        /\ job' = [job EXCEPT ![p].then = "doc"]
    BY <1>3 DEF promoteStaged, Goto
  <2>2. c \in Pending /\ c.id = job[p].id
    BY <1>3, ReadCandidate DEF Promotable, StagingInv
  <2> HIDE DEF c
  <2>3. candidateTargetKey(c) \in Targets /\ c.body \in Bodies /\ c.dir = "typed"
    BY <1>1, <2>2, PendingTypes DEF StagingInv, FilesInv, SessionOk
  <2>4. Publishes(candidateTargetKey(c), c.body)
    BY <1>1, <2>1, <2>2, <2>3 DEF Publishes
  <2>5. FilesInv' /\ pages'[candidateTargetKey(c)] = c.body
    BY <2>4, PublishesKeepsFiles DEF StagingInv
  <2>6. j \in Job /\ j.id = job[p].id
    BY <1>2 DEF Job
  <2>7. job' = [job EXCEPT ![p] = j]
    BY <2>1 DEF StagingInv, ControlTypes
  <2> HIDE DEF j
  <2>8. turn'[p] = "clear" /\ job'[p] = j /\ Others(p) /\ LockMoves(p) /\ ControlTypes'
    BY <1>1, <2>1, <2>6, <2>7, HeldFacts DEF Turns, LockedTurns
  <2>9. Replaced'
    BY <1>1, <2>8, StillReplaced DEF StagingInv
  <2>10. LockOk(p, turn'[p], job'[p], holder', age')
    BY <1>1, <2>8 DEF LockOk
  <2>11. Publishing(turn[p], job[p])'
    <3>1. Pending' = Pending
      BY <1>1 DEF Pending
    <3>2. ASSUME NEW e \in Pending, e.id = job[p].id
          PROVE  pages'[candidateTargetKey(e)] # NoBody /\ e.dir = "typed"
      BY <2>2, <2>3, <2>5, <3>2, SameId, BodiesAreNotNone DEF StagingInv
    <3> QED
      BY <2>6, <2>8, <3>1, <3>2 DEF Publishing, candidateTargetKey
  <2>12. SessionOk(turn[p], job[p])'
    BY <2>8, <2>11 DEF SessionOk
  <2>13. PublishesPending(p)
    BY <1>1, <2>2, <2>4 DEF PublishesPending
  <2> QED
    BY <1>1, <2>5, <2>8, <2>9, <2>10, <2>12, <2>13, Advance
<1>4. CASE ~Promotable(c)
  <2>1. turn' = [turn EXCEPT ![p] = "doc"] /\ UNCHANGED <<pages, job>>
    BY <1>4 DEF promoteStaged, Goto
  <2>2. Idles
    BY <1>1, <2>1 DEF Idles, stagingFiles
  <2>3. job' = [job EXCEPT ![p] = job[p]]
    BY <2>1 DEF StagingInv, ControlTypes
  <2>4. turn'[p] = "doc" /\ job'[p] = job[p] /\ Others(p) /\ LockMoves(p) /\ ControlTypes'
    BY <1>1, <1>2, <2>1, <2>3, HeldFacts DEF Turns, LockedTurns
  <2>5. LockOk(p, turn'[p], job'[p], holder', age')
    BY <1>1, <2>4 DEF LockOk
  <2> QED
    BY <1>1, <2>2, <2>4, <2>5, IdleAdvance
<1> QED
  BY <1>3, <1>4

(***************************************************************************)
(* Every step of every process.                                            *)
(***************************************************************************)

\* What a step of p does to the files.
Moves(p) ==
    \/ Idles
    \/ \E c : Writes(c)
    \/ \E id : Drops(id)
    \/ \E c : Archives(c)
    \/ \E old : Restores(old)
    \/ \E f, s : Records(f, s)
    \/ PublishesPending(p)
    \/ PublishesDoc(p)

LEMMA StepKeeps ==
    ASSUME StagingInv, NEW p \in Sessions, Step(p) \/ Crash(p)
    PROVE  StagingInv' /\ Moves(p)
<1> USE DEF Moves
<1>1. CASE \E c \in Pending : Show(p, c)
  <2>1. Idles
    BY <1>1 DEF Show, Idles, stagingFiles
  <2> QED
    BY <1>1, <2>1, ShowKeeps
<1>2. CASE \E op \in {"approve", "reject"} : PreCheck(p, op)
  <2>1. Idles
    BY <1>2 DEF PreCheck, Idles, stagingFiles, ghosts
  <2> QED
    BY <1>2, <2>1, PreCheckKeeps DEF Operations
<1>3. ASSUME NEW op \in Operations \ {"connector"}, NEW id \in Nat, NEW trusted \in BOOLEAN,
             Begin(p, op, id, trusted)
      PROVE  StagingInv' /\ Idles
  <2>1. Idles
    BY <1>3 DEF Begin, Idles, stagingFiles
  <2> QED
    BY <1>3, <2>1, BeginKeeps
<1>4. CASE \E c \in Pending : c.dir = "typed" /\ Begin(p, "promote", c.id, FALSE)
  <2>1. \A c \in Pending : c.id \in Nat
    BY PendingTypes DEF StagingInv, FilesInv
  <2> QED
    BY <1>3, <1>4, <2>1 DEF Operations
<1>5. CASE \E op \in {"stage", "hold"} : Begin(p, op, 0, FALSE)
  BY <1>3, <1>5 DEF Operations
<1>6. CASE \E trusted \in BOOLEAN : Begin(p, "import", 0, trusted)
  BY <1>3, <1>6 DEF Operations
<1>7. CASE Acquire(p)
  <2>1. Idles
    BY <1>7 DEF Acquire, Idles, stagingFiles, ghosts
  <2> QED
    BY <1>7, <2>1, AcquireKeeps
<1>8. CASE stageEntityPage(p)
  BY <1>8, StageKeeps
<1>9. CASE HoldConcept(p)
  BY <1>9, HoldKeeps
<1>10. CASE deleteDuplicates(p)
  BY <1>10, DeleteDuplicatesKeeps
<1>11. CASE approveUnderLock(p)
  <2>1. turn[p] = "approve" /\ holder = p
    BY <1>11 DEF approveUnderLock, Holds
  <2> QED
    BY <1>11, <2>1, ApproveKeeps DEF PublishesPending
<1>12. CASE persistCandidateSourceStates(p)
  BY <1>12, PersistKeeps
<1>13. CASE ClearCandidate(p)
  BY <1>13, ClearKeeps
<1>14. CASE rejectUnderLock(p)
  BY <1>14, RejectKeeps
<1>15. CASE promoteCandidateUnderLock(p)
  <2>1. turn[p] = "promote" /\ holder = p
    BY <1>15 DEF promoteCandidateUnderLock, Holds
  <2> QED
    BY <1>15, <2>1, PromoteKeeps DEF PublishesPending
<1>16. CASE gateConnectorRun(p)
  <2>1. Idles
    BY <1>16 DEF gateConnectorRun, Idles, stagingFiles
  <2> QED
    BY <1>16, <2>1, GateKeeps
<1>17. CASE enforceRequestInterval(p)
  <2>1. Idles
    BY <1>17 DEF enforceRequestInterval, Idles, stagingFiles, ghosts
  <2> QED
    BY <1>17, <2>1, IntervalKeeps
<1>18. CASE updateRateStamp(p)
  <2>1. Idles
    BY <1>18 DEF updateRateStamp, Idles, stagingFiles, ghosts
  <2> QED
    BY <1>18, <2>1, StampKeeps
<1>19. CASE Fetch(p)
  <2>1. Idles
    BY <1>19 DEF Fetch, Idles, stagingFiles, ghosts
  <2> QED
    BY <1>19, <2>1, FetchKeeps
<1>20. CASE stagePreparedDraft(p)
  BY <1>20, StagePreparedKeeps
<1>21. CASE archiveCandidatesWithUndo(p)
  BY <1>21, ArchiveKeeps
<1>22. CASE stageReplacementOrRestore(p)
  BY <1>22, ReplaceKeeps
<1>23. CASE runOkfImport(p)
  <2>1. Idles
    BY <1>23 DEF runOkfImport, Idles, stagingFiles, ghosts
  <2> QED
    BY <1>23, <2>1, ImportKeeps
<1>24. CASE applyOneDoc(p)
  BY <1>24, ApplyKeeps
<1>25. CASE promoteStaged(p)
  BY <1>25, PromoteStagedKeeps
<1>26. CASE ImportDone(p)
  <2>1. Idles
    BY <1>26 DEF ImportDone, Idles, stagingFiles, ghosts
  <2> QED
    BY <1>26, <2>1, ImportDoneKeeps
<1>27. CASE Crash(p)
  <2>1. Idles
    BY <1>27 DEF Crash, Idles, stagingFiles
  <2> QED
    BY <1>27, <2>1, CrashKeeps
<1> QED
  BY <1>1, <1>2, <1>4, <1>5, <1>6, <1>7, <1>8, <1>9, <1>10, <1>11, <1>12, <1>13, <1>14, <1>15,
     <1>16, <1>17, <1>18, <1>19, <1>20, <1>21, <1>22, <1>23, <1>24, <1>25, <1>26, <1>27 DEF Step

LEMMA InitHolds == StagingInit => StagingInv
<1> SUFFICES ASSUME StagingInit PROVE StagingInv
  OBVIOUS
<1>1. /\ pages = [t \in Targets |-> NoBody] /\ archive = {} /\ recorded = [s \in Sources |-> {}]
      /\ nextId = Len(queue) + 1 /\ declared = TRUE /\ holder = Nobody
      /\ turn = [p \in Sessions |-> "idle"] /\ job = [p \in Sessions |-> NoJob]
      /\ age = MinInterval /\ superseded = {} /\ lastConn = 0 /\ died = FALSE
  BY DEF StagingInit
<1>2. /\ queue \in Seq(Candidate) /\ UniqueIds(queue) /\ nextId \in Nat \ {0}
      /\ \A c \in Pending : c.id < nextId /\ c.dir = "concepts" /\ c.body[1] = "held" /\ c.srcs = Sources
  <2>1. CASE queue = <<>>
    <3>1. Pending = {} /\ Len(queue) = 0 /\ DOMAIN queue = {}
      BY <2>1 DEF Pending, ToSet
    <3> QED
      BY <1>1, <2>1, <3>1 DEF UniqueIds
  <2>2. ASSUME NEW s \in Slugs,
               queue = [i \in 1..2 |-> [id |-> i, dir |-> "concepts", slug |-> s,
                                        body |-> <<"held", 1>>, srcs |-> Sources]]
        PROVE  /\ queue \in Seq(Candidate) /\ UniqueIds(queue) /\ nextId \in Nat \ {0}
               /\ \A c \in Pending : /\ c.id < nextId /\ c.dir = "concepts"
                                     /\ c.body[1] = "held" /\ c.srcs = Sources
    <3>1. DOMAIN queue = 1..2 /\ \A i \in 1..2 : /\ queue[i].id = i /\ queue[i].dir = "concepts"
                                                 /\ queue[i].body = <<"held", 1>>
                                                 /\ queue[i].srcs = Sources
      BY <2>2
    <3>2. \A i \in 1..2 : queue[i] \in Candidate
      <4>1. \A i \in 1..2 : i \in 1..MaxCandidates
        BY StagingAssumption
      <4> QED
        BY <2>2, <4>1 DEF Candidate, Dirs, Bodies
    <3>3. queue \in [1..2 -> Candidate]
      BY <2>2, <3>2
    <3>4. queue \in Seq(Candidate) /\ Len(queue) = 2
      <4>1. \A n \in Nat : queue \in [1..n -> Candidate] => queue \in Seq(Candidate)
        OBVIOUS
      <4>2. queue \in Seq(Candidate)
        BY <3>3, <4>1
      <4>3. Len(queue) = 2
        BY <3>1, <4>2, LenProperties
      <4> QED
        BY <4>2, <4>3
    <3>5. nextId = 3
      BY <1>1, <3>4
    <3>6. UniqueIds(queue)
      BY <3>1 DEF UniqueIds
    <3>7. \A c \in Pending : \E i \in 1..2 : c = queue[i]
      BY <3>1 DEF Pending, ToSet
    <3>8. \A i \in 1..2 : i < 3
      OBVIOUS
    <3> QED
      BY <3>1, <3>4, <3>5, <3>6, <3>7, <3>8
  <2> QED
    BY <2>1, <2>2 DEF StagingInit
<1>3. FileTypes
  BY <1>1, <1>2 DEF FileTypes
<1>4. Ids
  BY <1>1, <1>2 DEF Ids
<1>5. Shapes /\ TypedOnce /\ SupersededOlder
  BY <1>1, <1>2 DEF Shapes, Shaped, TypedOnce, SupersededOlder
<1>6. ApprovalResumable
  <2>1. \A s \in Slugs : pages[<<"concepts", s>>] # <<"held", 1>>
    BY <1>1 DEF Targets, Dirs, NoBody
  <2> QED
    BY <2>1 DEF ApprovalResumable
<1>7. ControlTypes
  <2>1. MinInterval \in 0..MinInterval
    BY StagingAssumption
  <2> QED
    BY <1>1, <2>1, NoJobType DEF ControlTypes, Turns
<1>8. Locked /\ SessionsOk /\ Replaced
  BY <1>1 DEF Locked, LockOk, LockedTurns, Operations, SessionsOk, SessionOk, Replaced
<1> QED
  BY <1>3, <1>4, <1>5, <1>6, <1>7, <1>8 DEF StagingInv, FilesInv

LEMMA NextKeeps == StagingInv /\ [StagingNext]_stagingVars => StagingInv'
<1> SUFFICES ASSUME StagingInv, [StagingNext]_stagingVars PROVE StagingInv'
  OBVIOUS
<1>1. CASE StagingNext
  BY <1>1, StepKeeps, HandWriteKeeps, RedeclareKeeps, TickKeeps DEF StagingNext
<1>2. CASE UNCHANGED stagingVars
  <2>1. Idles /\ UNCHANGED <<declared, holder, turn, job, age, died>>
    BY <1>2 DEF stagingVars, Idles, stagingFiles
  <2>2. FilesInv'
    BY <2>1, IdlesKeepsFiles DEF StagingInv
  <2>3. ControlTypes' /\ Locked'
    BY <2>1 DEF StagingInv, ControlTypes, Locked
  <2>4. Pending' = Pending /\ UNCHANGED <<pages, recorded, archive, superseded, lastConn>>
    BY <2>1 DEF Idles, stagingFiles, Pending
  <2>5. SessionsOk' /\ Replaced'
    BY <2>1, <2>4 DEF StagingInv, SessionsOk, SessionOk, Deduping, Publishing, Superseding, Replaced
  <2> QED
    BY <2>2, <2>3, <2>5 DEF StagingInv
<1> QED
  BY <1>1, <1>2

LEMMA Invariance == StagingSpec => []StagingInv
BY InitHolds, NextKeeps, PTL DEF StagingSpec

(***************************************************************************)
(* The review queue is sound: an id is pending or archived, once; a page   *)
(* whose approval died half way has a candidate to approve again; and a    *)
(* connector's supersede is all or nothing (review-approve.ts,             *)
(* candidate-store.ts, connectors/run.ts).                                 *)
(***************************************************************************)
THEOREM QueueIsSound == StagingSpec => []QueueSound
<1>1. StagingInv => QueueSound
  <2> SUFFICES ASSUME StagingInv PROVE QueueSound
    OBVIOUS
  <2>1. StagingTypeOK
    BY PendingTypes DEF StagingInv, FilesInv, FileTypes, ControlTypes, Ids, UniqueIds, StagingTypeOK
  <2>2. ApprovalResumable
    BY DEF StagingInv, FilesInv
  <2>3. SupersedeAllOrNothing
    BY DEF StagingInv, Replaced, SupersedeAllOrNothing
  <2> QED
    BY <2>1, <2>2, <2>3 DEF QueueSound
<1> QED
  BY <1>1, Invariance, PTL

(***************************************************************************)
(* What becomes a page is pending at that moment, and of a connector's     *)
(* what the approver was shown (review-helpers.ts, review-approve.ts).     *)
(***************************************************************************)
THEOREM WhatIsPublished == StagingSpec => PublishedAsApproved
<1>1. ASSUME StagingInv, [StagingNext]_stagingVars, pages' # pages
      PROVE  OnlyPendingPublished /\ PinHolds
  <2>1. \/ \E p \in Sessions : PublishesPending(p) \/ PublishesDoc(p)
        \/ \E t \in Targets : HandWrite(t)
    <3>1. ASSUME NEW p \in Sessions, Step(p) \/ Crash(p)
          PROVE  PublishesPending(p) \/ PublishesDoc(p)
      BY <1>1, <3>1, StepKeeps
         DEF Moves, Idles, stagingFiles, Writes, Drops, Archives, Restores, Records
    <3>2. ~Redeclare /\ ~Tick /\ ~UNCHANGED stagingVars
      BY <1>1 DEF Redeclare, Tick, stagingFiles, stagingVars
    <3> QED
      BY <1>1, <3>1, <3>2 DEF StagingNext
  <2>2. CASE \E p \in Sessions : PublishesPending(p)
    <3>1. PICK p \in Sessions, c \in Pending :
            /\ Publishes(candidateTargetKey(c), c.body) /\ holder = p
            /\ turn[p] = "approve" => connectorPinMatches(c, job[p].pin)
      BY <2>2 DEF PublishesPending
    <3>2. /\ pages'[candidateTargetKey(c)] = c.body
          /\ \A u \in Targets : u # candidateTargetKey(c) => pages'[u] = pages[u]
      BY <1>1, <3>1, PublishesKeepsFiles DEF StagingInv
    <3>3. OnlyPendingPublished
      BY <3>2 DEF OnlyPendingPublished
    <3>4. PinHolds
      BY <3>1, <3>2 DEF PinHolds, Holds, connectorPinMatches, isConnectorCandidate
    <3> QED
      BY <3>3, <3>4
  <2>3. CASE \E p \in Sessions : PublishesDoc(p)
    <3>1. PICK p \in Sessions, t \in Targets :
            Holds(p, "doc") /\ job[p].trusted /\ Publishes(t, <<"okf", 1>>)
      BY <2>3 DEF PublishesDoc
    <3>2. pages'[t] = <<"okf", 1>> /\ \A u \in Targets : u # t => pages'[u] = pages[u]
      BY <1>1, <3>1, PublishesKeepsFiles DEF StagingInv
    <3>3. OnlyPendingPublished
      BY <3>1 DEF OnlyPendingPublished
    <3>4. <<"okf", 1>>[1] # "conn"
      OBVIOUS
    <3>5. PinHolds
      BY <3>2, <3>4 DEF PinHolds
    <3> QED
      BY <3>3, <3>5
  <2>4. CASE \E t \in Targets : HandWrite(t)
    <3>1. PICK t \in Targets : HandWrite(t)
      BY <2>4
    <3>2. pages'[t] = <<"hand", 1>> /\ \A u \in Targets : u # t => pages'[u] = pages[u]
      BY <1>1, <3>1, HandWriteKeeps, PublishesKeepsFiles DEF StagingInv
    <3>3. <<"hand", 1>>[1] = "hand" /\ <<"hand", 1>>[1] # "conn"
      OBVIOUS
    <3>4. OnlyPendingPublished /\ PinHolds
      BY <3>2, <3>3 DEF OnlyPendingPublished, PinHolds
    <3> QED
      BY <3>4
  <2> QED
    BY <2>1, <2>2, <2>3, <2>4
<1>2. pages' = pages => OnlyPendingPublished /\ PinHolds
  BY DEF OnlyPendingPublished, PinHolds
<1>3. StagingInv /\ [StagingNext]_stagingVars => [OnlyPendingPublished /\ PinHolds]_stagingVars
  BY <1>1, <1>2
<1> QED
  BY <1>3, Invariance, PTL DEF StagingSpec, PublishedAsApproved

(***************************************************************************)
(* A queue of finitely many candidates, per target.                        *)
(***************************************************************************)

PendingAt(t) == {c \in Pending : <<c.dir, c.slug>> = t}

LEMMA PendingIsFinite ==
    ASSUME FilesInv
    PROVE  IsFiniteSet(Pending) /\ \A t : IsFiniteSet(PendingAt(t)) /\ Cardinality(PendingAt(t)) \in Nat
<1>1. PICK n \in Nat : DOMAIN queue = 1..n /\ queue \in [1..n -> Candidate]
  BY DEF FilesInv, FileTypes
<1>2. queue \in Surjection(1..n, Pending)
  <2>1. queue \in [1..n -> Pending] /\ \A c \in Pending : \E i \in 1..n : queue[i] = c
    BY <1>1 DEF Pending, ToSet
  <2> QED
    BY <2>1 DEF Surjection
<1>3. IsFiniteSet(Pending)
  <2>1. IsFiniteSet(1..n)
    BY FS_Interval
  <2> QED
    BY <1>2, <2>1, FS_Surjection
<1>4. ASSUME NEW t PROVE IsFiniteSet(PendingAt(t)) /\ Cardinality(PendingAt(t)) \in Nat
  <2>1. PendingAt(t) \in SUBSET Pending
    BY DEF PendingAt
  <2>2. IsFiniteSet(PendingAt(t))
    BY <1>3, <2>1, FS_Subset
  <2> QED
    BY <2>2, FS_CardinalityType
<1> QED
  BY <1>3, <1>4

LEMMA FewerAt ==
    ASSUME FilesInv, NEW t, PendingAt(t)' \subseteq PendingAt(t)
    PROVE  Cardinality(PendingAt(t)') <= Cardinality(PendingAt(t))
<1>1. IsFiniteSet(PendingAt(t))
  BY PendingIsFinite
<1> QED
  BY <1>1, FS_Subset

\* What a write rewrites has its target.
LEMMA WritesOver ==
    ASSUME FilesInv, NEW c, Writes(c), NEW d \in Pending, d.id = c.id
    PROVE  /\ d \in Matching(candidateTargetKey(c)) /\ nextId' = nextId
           /\ candidateTargetKey(d) = candidateTargetKey(c)
<1>1. d.id < nextId /\ nextId \in Nat
  BY DEF FilesInv, FileTypes, Ids
<1>2. c.id # nextId
  BY <1>1
<1>3. PICK o \in Matching(candidateTargetKey(c)) : o.id = c.id
  BY <1>2 DEF Writes
<1>4. o \in Pending /\ candidateTargetKey(o) = candidateTargetKey(c)
  BY DEF Matching
<1>5. d = o
  BY <1>3, <1>4, SameId
<1> QED
  BY <1>2, <1>4, <1>5 DEF Writes

LEMMA MovesDropNothing ==
    ASSUME FilesInv, NEW p, Moves(p)
    PROVE  NothingDropped
<1>1. SUFFICES ASSUME NEW c \in Pending, c \notin Pending'
               PROVE  \/ c \in archive'
                      \/ pages[<<c.dir, c.slug>>] # NoBody
                      \/ \E d \in Pending' : <<d.dir, d.slug>> = <<c.dir, c.slug>>
  BY DEF NothingDropped
<1>2. CASE \E w : Writes(w)
  <2>1. PICK w : Writes(w)
    BY <1>2
  <2>2. Pending' = {d \in Pending : d.id # w.id} \cup {w}
    BY <2>1 DEF Writes
  <2>3. c.id = w.id
    BY <1>1, <2>2
  <2> QED
    BY <2>1, <2>2, <2>3, WritesOver DEF candidateTargetKey
<1>3. CASE \E id : Drops(id)
  <2>1. PICK id : Drops(id)
    BY <1>3
  <2>2. Pending' = {d \in Pending : d.id # id} /\ c.id = id
    BY <1>1, <2>1 DEF Drops
  <2> QED
    BY <2>1, <2>2 DEF Drops, candidateTargetKey
<1>4. CASE \E a : Archives(a)
  <2>1. PICK a : Archives(a)
    BY <1>4
  <2>2. a \in Pending /\ Pending' = {d \in Pending : d.id # a.id} /\ archive' = archive \cup {a}
    BY <2>1 DEF Archives
  <2>3. c = a
    BY <1>1, <2>2, SameId
  <2> QED
    BY <2>2, <2>3
<1>5. CASE \E old : Restores(old)
  BY <1>1, <1>5, RestoresKeepsFiles
<1>6. CASE Idles \/ (\E f, s : Records(f, s)) \/ PublishesPending(p) \/ PublishesDoc(p)
  BY <1>1, <1>6 DEF Idles, stagingFiles, Records, PublishesPending, PublishesDoc, Publishes, Pending
<1> QED
  BY <1>2, <1>3, <1>4, <1>5, <1>6 DEF Moves

LEMMA MovesDoubleNothing ==
    ASSUME FilesInv, NEW p, Moves(p)
    PROVE  OnePerTarget
<1>1. SUFFICES ASSUME NEW t
               PROVE  \/ Cardinality(PendingAt(t)') <= Cardinality(PendingAt(t))
                      \/ Cardinality(PendingAt(t)') <= 1
  BY DEF OnePerTarget, PendingAt, Pending
<1>2. CASE \E w : Writes(w)
  <2>1. PICK w : Writes(w)
    BY <1>2
  <2> DEFINE S == {d \in PendingAt(t) : d.id # w.id}
  <2>2. Pending' = {d \in Pending : d.id # w.id} \cup {w}
    BY <2>1 DEF Writes
  <2>3. IsFiniteSet(PendingAt(t)) /\ Cardinality(PendingAt(t)) \in Nat
    BY PendingIsFinite
  <2>4. CASE <<w.dir, w.slug>> # t
    <3>1. PendingAt(t)' \subseteq PendingAt(t)
      BY <2>2, <2>4 DEF PendingAt
    <3> QED
      BY <3>1, FewerAt
  <2>5. CASE <<w.dir, w.slug>> = t
    <3>1. PendingAt(t)' = S \cup {w}
      BY <2>2, <2>5 DEF PendingAt
    <3>2. CASE Matching(candidateTargetKey(w)) = {}
      <4>1. S = {}
        BY <2>5, <3>2 DEF Matching, PendingAt, candidateTargetKey
      <4>2. PendingAt(t)' = {w}
        BY <3>1, <4>1
      <4>3. Cardinality({w}) = 1
        BY FS_Singleton
      <4> QED
        BY <4>2, <4>3
    <3>3. CASE Matching(candidateTargetKey(w)) # {}
      <4>1. PICK o \in Pending : candidateTargetKey(o) = candidateTargetKey(w) /\ o.id = w.id
        BY <2>1, <3>3 DEF Writes, Matching
      <4>2. o \in PendingAt(t)
        BY <2>5, <4>1 DEF PendingAt, candidateTargetKey
      <4>3. S = PendingAt(t) \ {o}
        BY <4>1, SameId DEF PendingAt
      <4>4. IsFiniteSet(S) /\ Cardinality(S) = Cardinality(PendingAt(t)) - 1
        BY <2>3, <4>2, <4>3, FS_RemoveElement
      <4> HIDE DEF S
      <4>5. Cardinality(S \cup {w}) <= Cardinality(S) + 1
        <5>1. Cardinality(S) \in Int
          BY <2>3, <4>4
        <5>2. Cardinality(S \cup {w}) = IF w \in S THEN Cardinality(S) ELSE Cardinality(S) + 1
          BY <4>4, FS_AddElement
        <5> QED
          BY <5>1, <5>2
      <4>6. Cardinality(S \cup {w}) <= Cardinality(PendingAt(t))
        BY <2>3, <4>4, <4>5
      <4> QED
        BY <3>1, <4>6
    <3> QED
      BY <3>2, <3>3
  <2> QED
    BY <2>4, <2>5
<1>3. CASE \E old : Restores(old)
  <2>1. PICK old : Restores(old)
    BY <1>3
  <2>2. Pending' = ToSet(old) \cup Pending
    BY <2>1, RestoresKeepsFiles
  <2>3. CASE \A d \in ToSet(old) : <<d.dir, d.slug>> # t
    <3>1. PendingAt(t)' \subseteq PendingAt(t)
      BY <2>2, <2>3 DEF PendingAt
    <3> QED
      BY <3>1, FewerAt
  <2>4. CASE \E d \in ToSet(old) : <<d.dir, d.slug>> = t
    <3>1. PICK d \in ToSet(old) : <<d.dir, d.slug>> = t
      BY <2>4
    <3>2. \A e \in ToSet(old) : e = d
      BY <2>1 DEF Restores, ToSet
    <3>3. candidateTargetKey(d) = ConnTarget
      BY <2>1 DEF Restores, isConnectorCandidate, FilesInv, Shapes, Shaped
    <3>4. t = ConnTarget
      BY <3>1, <3>3 DEF candidateTargetKey
    <3>5. old # <<>>
      BY DEF ToSet
    <3>6. \A e \in Pending : <<e.dir, e.slug>> # t
      BY <2>1, <3>4, <3>5 DEF Restores, candidateTargetKey
    <3>7. PendingAt(t)' = {d}
      BY <2>2, <3>1, <3>2, <3>6 DEF PendingAt
    <3>8. Cardinality({d}) = 1
      BY FS_Singleton
    <3> QED
      BY <3>7, <3>8
  <2> QED
    BY <2>3, <2>4
<1>4. CASE (\E id : Drops(id)) \/ (\E c : Archives(c))
  <2>1. PendingAt(t)' \subseteq PendingAt(t)
    BY <1>4 DEF Drops, Archives, PendingAt
  <2> QED
    BY <2>1, FewerAt
<1>5. CASE Idles \/ (\E f, s : Records(f, s)) \/ PublishesPending(p) \/ PublishesDoc(p)
  <2>1. Pending' = Pending
    BY <1>5 DEF Idles, stagingFiles, Records, PublishesPending, PublishesDoc, Publishes, Pending
  <2>2. PendingAt(t)' \subseteq PendingAt(t)
    BY <2>1 DEF PendingAt
  <2> QED
    BY <2>2, FewerAt
<1> QED
  BY <1>2, <1>3, <1>4, <1>5 DEF Moves

\* Only the stamp of a request sets the clock back.
LEMMA OnlyStampsReset ==
    ASSUME NEW p \in Sessions, Step(p) \/ Crash(p), age' # age
    PROVE  updateRateStamp(p)
<1> USE DEF env
<1>1. \A c \in Pending : ~Show(p, c)
  BY DEF Show
<1>2. \A op, id, trusted : ~PreCheck(p, op) /\ ~Begin(p, op, id, trusted)
  BY DEF PreCheck, Begin
<1>3. ~Acquire(p) /\ ~stageEntityPage(p) /\ ~HoldConcept(p) /\ ~deleteDuplicates(p)
  BY DEF Acquire, stageEntityPage, HoldConcept, deleteDuplicates
<1>4. ~approveUnderLock(p) /\ ~persistCandidateSourceStates(p) /\ ~ClearCandidate(p)
  BY DEF approveUnderLock, persistCandidateSourceStates, ClearCandidate
<1>5. ~rejectUnderLock(p) /\ ~promoteCandidateUnderLock(p) /\ ~gateConnectorRun(p)
  BY DEF rejectUnderLock, promoteCandidateUnderLock, gateConnectorRun
<1>6. ~enforceRequestInterval(p) /\ ~Fetch(p) /\ ~stagePreparedDraft(p) /\ ~archiveCandidatesWithUndo(p)
  BY DEF enforceRequestInterval, Fetch, stagePreparedDraft, archiveCandidatesWithUndo
<1>7. ~stageReplacementOrRestore(p) /\ ~runOkfImport(p) /\ ~applyOneDoc(p)
  BY DEF stageReplacementOrRestore, runOkfImport, applyOneDoc
<1>8. ~promoteStaged(p) /\ ~ImportDone(p) /\ ~Crash(p)
  BY DEF promoteStaged, ImportDone, Crash
<1> QED
  BY <1>1, <1>2, <1>3, <1>4, <1>5, <1>6, <1>7, <1>8 DEF Step

(***************************************************************************)
(* No step of any process loses a candidate, doubles one, or sends a       *)
(* request too early (candidates.ts, candidate-store.ts, rate-limit.ts).   *)
(***************************************************************************)
THEOREM QueueMoves == StagingSpec => QueueSteps
<1>1. ASSUME StagingInv, StagingNext
      PROVE  NothingDropped /\ OnePerTarget
  <2>1. ASSUME NEW p \in Sessions, Step(p) \/ Crash(p)
        PROVE  NothingDropped /\ OnePerTarget
    BY <1>1, <2>1, StepKeeps, MovesDropNothing, MovesDoubleNothing DEF StagingInv
  <2>2. ASSUME queue' = queue
        PROVE  NothingDropped /\ OnePerTarget
    <3>1. Pending' = Pending
      BY <2>2 DEF Pending
    <3>2. NothingDropped
      BY <3>1 DEF NothingDropped
    <3>3. OnePerTarget
      <4>1. SUFFICES ASSUME NEW t
                     PROVE  Cardinality(PendingAt(t)') <= Cardinality(PendingAt(t))
        BY DEF OnePerTarget, PendingAt, Pending
      <4>2. PendingAt(t)' = PendingAt(t) /\ Cardinality(PendingAt(t)) \in Nat
        BY <1>1, <3>1, PendingIsFinite DEF PendingAt, StagingInv
      <4> QED
        BY <4>2
    <3> QED
      BY <3>2, <3>3
  <2>3. (\E t \in Targets : HandWrite(t)) \/ Redeclare \/ Tick => queue' = queue
    BY DEF HandWrite, Redeclare, Tick, stagingFiles
  <2> QED
    BY <1>1, <2>1, <2>2, <2>3 DEF StagingNext
<1>2. ASSUME StagingInv, StagingNext
      PROVE  RequestsSpaced
  <2>1. age \in Nat
    BY <1>2, StagingAssumption DEF StagingInv, ControlTypes
  <2>2. ASSUME NEW p \in Sessions, updateRateStamp(p)
        PROVE  age = MinInterval
    BY <1>2, <2>2 DEF updateRateStamp, StagingInv, Locked, LockOk
  <2>3. ASSUME Tick \/ Redeclare \/ \E t \in Targets : HandWrite(t)
        PROVE  ~(age' < age)
    BY <2>1, <2>3 DEF Tick, Redeclare, HandWrite, env
  <2>4. age' = age => ~(age' < age)
    BY <2>1
  <2> QED
    BY <1>2, <2>2, <2>3, <2>4, OnlyStampsReset DEF StagingNext, RequestsSpaced
<1>3. StagingInv /\ [StagingNext]_stagingVars
        => [NothingDropped /\ OnePerTarget /\ RequestsSpaced]_stagingVars
  BY <1>1, <1>2
<1> QED
  BY <1>3, Invariance, PTL DEF StagingSpec, QueueSteps
=============================================================================
