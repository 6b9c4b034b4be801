--------------------------- MODULE TemplatesProofs ---------------------------
(***************************************************************************)
(* Trust in a template tap: the publisher, its readers and the project     *)
(* that installs from it, for any packages, key ids, refreshers and bounds *)
(* on builds, deaths and commands.                                         *)
(***************************************************************************)
EXTENDS TapClient, FiniteSetTheorems, WellFoundedInduction, TLAPS

-----------------------------------------------------------------------------
(* The invariant of the publisher. *)

\* The keys a chain of rotations from the first publisher key passes through.
KeysOf(rots) == {FirstPub} \cup {r.to : r \in rots}

\* What index i does not know yet of a chain.
Ahead(i, rots) == {r \in rots : r.to \notin KeysOf(i.rots)}

\* The chain rots, which ends at key, is the one of index i or continues it.
Behind(i, rots, key) ==
    /\ KeysOf(i.rots) \subseteq KeysOf(rots)
    /\ \/ i.pub = key /\ Ahead(i, rots) = {}
       \/ LeadTo(Ahead(i, rots), i.pub, key)

\* A reader of index i can go on to index j.
Earlier(i, j) ==
    /\ Behind(i, j.rots, j.pub)
    /\ i.revP \subseteq j.revP /\ i.revK \subseteq j.revK

Single(S) == \A k, l \in S : k = l

Intents == ({"rotate-publisher"} \X PubKeys) \cup ({"rotate-tap"} \X TapKeys)
           \cup ({"revoke-package"} \X Digests) \cup ({"revoke-publisher-key"} \X PubKeys)

Workspaces ==
    [tapKey : TapKeys, pubKey : PubKeys, seq : 0..MaxSeq, pkgs : SUBSET Envelopes,
     rots : SUBSET Rotations, taprots : SUBSET Rotations, revP : SUBSET Digests,
     revK : SUBSET PubKeys, pending : SUBSET Intents, coords : SUBSET Packages,
     files : SUBSET Keys, last : Trees \cup {NoTree}, reserved : Trees \cup {NoTree}]

\* The rotations of a workspace form one chain, which ends at its key.
ChainOk(w) ==
    /\ \A r, q \in w.rots : r.from = q.from \/ r.to = q.to => r = q
    /\ \A r \in w.rots : r.from # w.pubKey /\ r.to # FirstPub /\ r.eff <= w.seq
    /\ KeysOf(w.rots) = {w.pubKey} \cup {r.from : r \in w.rots}
    /\ KeysOf(w.rots) \subseteq PubKeys

\* At most one rotation of each kind is staged, to a key not used before; the active
\* key is revoked only beside a rotation.
StagedOk(w) ==
    /\ Single(PendingOf(w, "rotate-publisher")) /\ Single(PendingOf(w, "rotate-tap"))
    /\ PendingOf(w, "rotate-publisher") \cap KeysOf(w.rots) = {}
    /\ w.tapKey \notin PendingOf(w, "rotate-tap")
    /\ w.pubKey \in PendingOf(w, "revoke-publisher-key")
           => PendingOf(w, "rotate-publisher") # {}
    /\ w.pubKey \notin w.revK

\* A coordinate has one payload, and every envelope is signed with the active key.
PackagesOk(w) ==
    /\ \A p, q \in w.coords : p.c = q.c => p = q
    /\ \A e \in w.pkgs : [c |-> e.c, d |-> e.d] \in w.coords /\ e.k = w.pubKey

WsOk(w) == w \in Workspaces /\ ChainOk(w) /\ StagedOk(w) /\ PackagesOk(w)

\* The greatest sequence handed out.
High(w) ==
    IF w.reserved # NoTree /\ w.reserved.idx.seq > w.seq THEN w.reserved.idx.seq ELSE w.seq

\* What the workspace builds next.
Built(w) == [idx |-> buildSignedIndex(w), envs |-> emittedPackages(w)]

\* An index is a chain from the first key to the one it announces, which it does not
\* revoke.
IndexOk(i) ==
    /\ \A r, q \in i.rots : r.from = q.from => r = q
    /\ \A r \in i.rots : r.eff <= i.seq
    /\ i.pub \in KeysOf(i.rots) /\ KeysOf(i.rots) \subseteq PubKeys
    /\ i.pub \notin i.revK

\* The index i went out of workspace w: its chain is behind the workspace's, or ahead
\* of it by the rotation that is still staged.
OutOf(w, i) ==
    /\ i.seq <= High(w)
    /\ i.pkgs \subseteq w.coords
    /\ i.revP \subseteq w.revP \cup PendingOf(w, "revoke-package")
    /\ i.revK \subseteq w.revK \cup PendingOf(w, "revoke-publisher-key")
    /\ \/ Behind(i, w.rots, w.pubKey)
       \/ /\ i.pub \in PendingOf(w, "rotate-publisher")
          /\ KeysOf(i.rots) = KeysOf(w.rots) \cup {i.pub}

ServedOk ==
    /\ served \subseteq Trees
    /\ \A t \in served : IndexOk(t.idx) /\ OutOf(ws, t.idx)
    /\ SequencesUnique
    /\ \A s, t \in served : s.idx.seq < t.idx.seq => Earlier(s.idx, t.idx)

\* A build in progress is of the workspace as it was, and nothing served is as new.
BuildOk ==
    /\ bld.at \in {"idle", "reserved", "moved", "published"}
    /\ bld.at # "idle" =>
          /\ bld = [at |-> bld.at, tree |-> bld.tree, base |-> bld.base, old |-> bld.old]
          /\ WsOk(bld.base) /\ nextSequence(bld.base) <= MaxSeq
          /\ bld.tree = Built(bld.base)
          /\ ws = [bld.base EXCEPT !.reserved = bld.tree]
          /\ verifyBuiltDistribution(bld.base, bld.tree)
          /\ bld.old \in served \cup {NoTree}
    /\ bld.at \in {"reserved", "moved"} =>
          \A t \in served : t.idx.seq < bld.tree.idx.seq
    /\ bld.at = "published" => bld.tree \in served

OutputOk ==
    /\ dist \in served \cup {NoTree}
    /\ verifier.at # "idle" =>
          /\ verifier = [at |-> verifier.at, root |-> verifier.root, idx |-> verifier.idx]
          /\ verifier.root \in served

PubInv == WsOk(ws) /\ ServedOk /\ BuildOk /\ OutputOk

-----------------------------------------------------------------------------
(* The invariant of the readers. *)

Pins == [seq : 0..MaxSeq, pub : PubKeys \cup {NoKey}, hist : SUBSET PubKeys,
         coords : SUBSET Packages, revP : SUBSET Digests, revK : SUBSET PubKeys]

TapStates == [on : BOOLEAN, key : TapKeys, retired : SUBSET TapKeys,
              acc : Indexes \cup {NoIndex}, pins : Pins]

\* The state pins the evidence of index i and nothing beyond it, with packages only of
\* the coordinates C.
PinsTo(s, i, C) ==
    /\ s.acc = i /\ s.pins.seq = i.seq /\ s.key = i.signer /\ s.pins.pub = i.pub
    /\ s.pins.hist \subseteq KeysOf(i.rots)
    /\ i.pkgs \subseteq s.pins.coords /\ s.pins.coords \subseteq C
    /\ s.pins.revP \subseteq i.revP /\ s.pins.revK \subseteq i.revK

\* A state a reader comes to over the trees of S.
SourceIn(s, S, C) ==
    /\ s \in TapStates
    /\ s.key \notin s.retired
    /\ s.pins = EmptyPins \/ \E t \in S : PinsTo(s, t.idx, C)

SourceOk(s) == SourceIn(s, served, ws.coords)

\* Trust in state n is trust in state s, and more.
Forward(s, n) ==
    /\ n.pins.seq >= s.pins.seq
    /\ s.pins.revP \subseteq n.pins.revP /\ s.pins.revK \subseteq n.pins.revK
    /\ s.retired \subseteq n.retired /\ s.pins.coords \subseteq n.pins.coords

RefresherOk(r) ==
    /\ refresh[r].at \in {"idle", "read", "fetched", "cached"}
    /\ refresh[r].at # "idle" => SourceOk(refresh[r].from)
    /\ refresh[r].at \in {"fetched", "cached"} =>
          /\ refresh[r] = [at |-> refresh[r].at, from |-> refresh[r].from,
                           idx |-> refresh[r].idx, next |-> refresh[r].next]
          /\ SourceOk(refresh[r].next)
          /\ Forward(refresh[r].from, refresh[r].next)
    /\ refresh[r].at = "cached" => tapLock = r /\ tap = refresh[r].from

ReadersOk ==
    /\ tap # NoTap => SourceOk(tap)
    /\ refresh = [r \in Refreshers |-> refresh[r]]
    /\ \A r \in Refreshers : RefresherOk(r)
    /\ tapLock \in Refreshers \cup {NoTap}
    /\ tapLock # NoTap => refresh[tapLock].at = "cached"
    /\ \A i, j \in indexCache : i.seq = j.seq => i = j

\* An update under way is one from the locked release to a newer one.
ProjectOk ==
    /\ project = [prof |-> project.prof, lock |-> project.lock, corpus |-> project.corpus]
    /\ job.at \in {"resolving", "reviewed"} /\ job.kind = "update" =>
          /\ project.lock \notin {NoLock, Builtin}
          /\ project.lock.c \in DOMAIN job.found
          /\ \E c \in DOMAIN job.found : c > project.lock.c

TrustInv == PubInv /\ ReadersOk /\ ProjectOk

-----------------------------------------------------------------------------
(* Chains of rotations. *)

\* A set of naturals that is not empty has a least element: the intervals 1..n are
\* well ordered by inclusion.
LEMMA LeastNatural ==
    ASSUME NEW S \in SUBSET Nat, S # {}
    PROVE  \E n \in S : \A m \in S : n <= m
<1> DEFINE T == {1..n : n \in S}
           R == StrictSubsetOrdering(Nat)
           F == FiniteSubsetsOf(Nat)
<1>1. IsWellFoundedOn(R, F)
  BY FS_StrictSubsetOrderingWellFounded
<1>2. T \subseteq F /\ T # {}
  <2>1. \A n \in S : 1..n \in SUBSET Nat /\ IsFiniteSet(1..n)
    BY FS_Interval
  <2> QED
    BY <2>1 DEF FiniteSubsetsOf
<1> HIDE DEF T, R, F
<1>3. PICK x \in T : \A y \in T : <<y, x>> \notin R
  BY <1>1, <1>2, WFMin
<1>4. PICK n \in S : x = 1..n
  BY <1>3 DEF T
<1>5. ASSUME NEW m \in S, m < n PROVE FALSE
  <2>1. 1..m \subseteq 1..n /\ n \in 1..n /\ n \notin 1..m
    BY <1>5
  <2>2. 1..m \in SUBSET Nat /\ 1..n \in SUBSET Nat
    OBVIOUS
  <2>3. <<1..m, 1..n>> \in R
    BY <2>1, <2>2 DEF R, StrictSubsetOrdering
  <2> QED
    BY <1>3, <1>4, <2>3 DEF T
<1> QED
  BY <1>5

\* Where one rotation at most leaves a key, two walks between the same keys are one.
LEMMA OneWalk ==
    ASSUME NEW rots, \A r \in rots : r.eff \in Nat,
           \A r, q \in rots : r.from = q.from => r = q,
           NEW p, NEW a, NEW W \in SUBSET rots, NEW V \in SUBSET rots,
           LeadTo(W, p, a), LeadTo(V, p, a)
    PROVE  V \subseteq W
<1> SUFFICES ASSUME V \ W # {} PROVE FALSE
  OBVIOUS
<1> DEFINE E == {r.eff : r \in V \ W}
<1>1. E \in SUBSET Nat /\ E # {}
  OBVIOUS
<1> HIDE DEF E
<1>2. PICK n \in E : \A m \in E : n <= m
  BY <1>1, LeastNatural
<1>3. PICK r \in V \ W : r.eff = n
  BY DEF E
<1>4. r.from # p
  BY <1>3 DEF LeadTo
<1>5. PICK q \in V : q.to = r.from /\ q.eff < r.eff
  BY <1>3, <1>4 DEF LeadTo
<1>6. q \in W
  <2>1. q.eff \in Nat /\ r.eff \in Nat /\ ~ (n <= q.eff)
    BY <1>3, <1>5
  <2> QED
    BY <1>2, <2>1 DEF E
<1>7. q.to # a
  BY <1>3, <1>5 DEF LeadTo
<1>8. PICK o \in W : o.from = q.to
  BY <1>6, <1>7 DEF LeadTo
<1> QED
  BY <1>3, <1>5, <1>8

\* So it is the walk a reader follows.
LEMMA WalkFollowed ==
    ASSUME NEW rots, \A r \in rots : r.eff \in Nat,
           \A r, q \in rots : r.from = q.from => r = q,
           NEW p, NEW a, NEW W \in SUBSET rots, LeadTo(W, p, a)
    PROVE  followRotationChain(rots, p, a) = W
<1>1. \A V \in SUBSET rots : LeadTo(V, p, a) => V \subseteq W
  BY OneWalk
<1> QED
  BY <1>1 DEF followRotationChain

\* A walk to the last key goes on with the rotation that leaves it.
LEMMA WalkExtends ==
    ASSUME NEW rots, NEW new, NEW W \in SUBSET rots, NEW p,
           \A r, q \in rots : r.from = q.from \/ r.to = q.to => r = q,
           \A r \in rots : r.eff \in Nat /\ r.eff < new.eff,
           \A r \in rots : r.to # new.to /\ r.from # new.from /\ r.from # new.to,
           new.to # p, new.from # new.to, LeadTo(W, p, new.from)
    PROVE  LeadTo(W \cup {new}, p, new.to)
<1> DEFINE V == W \cup {new}
<1>1. (\E r \in V : r.from = p) /\ (\E r \in V : r.to = new.to)
  BY DEF LeadTo
<1>2. \A r, q \in V : r.from = q.from \/ r.to = q.to => r = q
  BY DEF LeadTo
<1>3. \A r \in V : r.to # p /\ r.from # new.to
  BY DEF LeadTo
<1>4. \A r \in V : r.from = p \/ \E q \in V : q.to = r.from /\ q.eff < r.eff
  BY DEF LeadTo
<1>5. \A r \in V : r.to = new.to \/ \E q \in V : q.from = r.to
  BY DEF LeadTo
<1> QED
  BY <1>1, <1>2, <1>3, <1>4, <1>5 DEF LeadTo

-----------------------------------------------------------------------------
(* What a workspace builds. *)

LEMMA PendingTypes ==
    ASSUME NEW w \in Workspaces
    PROVE  /\ PendingOf(w, "rotate-publisher") \subseteq PubKeys
           /\ PendingOf(w, "rotate-tap") \subseteq TapKeys
           /\ PendingOf(w, "revoke-package") \subseteq Digests
           /\ PendingOf(w, "revoke-publisher-key") \subseteq PubKeys
<1>1. \A j \in w.pending : j \in Intents
  BY DEF Workspaces
<1> QED
  BY <1>1 DEF PendingOf, Intents

LEMMA NextKeys ==
    ASSUME NEW w \in Workspaces
    PROVE  /\ NextKey(w, "rotate-publisher", w.pubKey) \in PubKeys
           /\ NextKey(w, "rotate-tap", w.tapKey) \in TapKeys
           /\ PendingOf(w, "rotate-publisher") # {} =>
                  NextKey(w, "rotate-publisher", w.pubKey) \in PendingOf(w, "rotate-publisher")
           /\ PendingOf(w, "rotate-tap") # {} =>
                  NextKey(w, "rotate-tap", w.tapKey) \in PendingOf(w, "rotate-tap")
           /\ PendingOf(w, "rotate-publisher") = {} =>
                  NextKey(w, "rotate-publisher", w.pubKey) = w.pubKey
           /\ PendingOf(w, "rotate-tap") = {} =>
                  NextKey(w, "rotate-tap", w.tapKey) = w.tapKey
  BY PendingTypes DEF NextKey, Workspaces

\* The workspace a committed build leaves, field by field.
LEMMA SignedFields ==
    ASSUME NEW w \in Workspaces
    PROVE  signPendingIntents(w) =
             [tapKey |-> NextKey(w, "rotate-tap", w.tapKey),
              pubKey |-> NextKey(w, "rotate-publisher", w.pubKey),
              seq |-> nextSequence(w),
              pkgs |-> resignPackages(w),
              rots |-> w.rots \cup signPublisherRotation(w, nextSequence(w)),
              taprots |-> w.taprots \cup signTapRotation(w, nextSequence(w)),
              revP |-> w.revP \cup PendingOf(w, "revoke-package"),
              revK |-> w.revK \cup PendingOf(w, "revoke-publisher-key"),
              pending |-> {}, coords |-> w.coords, files |-> w.files,
              last |-> w.last, reserved |-> w.reserved]
<1> DEFINE seq == nextSequence(w)
           tapKey == NextKey(w, "rotate-tap", w.tapKey)
           pubKey == NextKey(w, "rotate-publisher", w.pubKey)
           pkgs == resignPackages(w)
           rots == w.rots \cup signPublisherRotation(w, seq)
           taprots == w.taprots \cup signTapRotation(w, seq)
           revP == w.revP \cup PendingOf(w, "revoke-package")
           revK == w.revK \cup PendingOf(w, "revoke-publisher-key")
<1>1. signPendingIntents(w) =
        [w EXCEPT !.seq = seq, !.tapKey = tapKey, !.pubKey = pubKey, !.pkgs = pkgs,
                  !.rots = rots, !.taprots = taprots, !.revP = revP, !.revK = revK,
                  !.pending = {}]
  BY DEF signPendingIntents
<1>2. w = [tapKey |-> w.tapKey, pubKey |-> w.pubKey, seq |-> w.seq, pkgs |-> w.pkgs,
           rots |-> w.rots, taprots |-> w.taprots, revP |-> w.revP, revK |-> w.revK,
           pending |-> w.pending, coords |-> w.coords, files |-> w.files,
           last |-> w.last, reserved |-> w.reserved]
  BY DEF Workspaces
<1> HIDE DEF seq, tapKey, pubKey, pkgs, rots, taprots, revP, revK
<1>3. signPendingIntents(w) =
        [tapKey |-> tapKey, pubKey |-> pubKey, seq |-> seq, pkgs |-> pkgs, rots |-> rots,
         taprots |-> taprots, revP |-> revP, revK |-> revK, pending |-> {},
         coords |-> w.coords, files |-> w.files, last |-> w.last,
         reserved |-> w.reserved]
  BY <1>1, <1>2, ZenonT(60)
<1> QED
  BY <1>3 DEF seq, tapKey, pubKey, pkgs, rots, taprots, revP, revK

LEMMA Sequences ==
    ASSUME PublisherAssumption, NEW w \in Workspaces
    PROVE  /\ High(w) \in Nat /\ w.seq \in Nat /\ w.seq <= High(w)
           /\ nextSequence(w) = 1 + High(w)
<1>1. w.seq \in Nat
  BY DEF Workspaces, PublisherAssumption
<1>2. w.reserved # NoTree => w.reserved.idx.seq \in Nat
  BY DEF Workspaces, Trees, Indexes, PublisherAssumption
<1> QED
  BY <1>1, <1>2 DEF High, nextSequence

\* The envelopes of a build carry the announced key.
LEMMA BuiltPackages ==
    ASSUME PublisherAssumption, NEW w, WsOk(w)
    PROVE  /\ resignPackages(w) \subseteq Envelopes
           /\ \A e \in resignPackages(w) :
                 /\ e.k = NextKey(w, "rotate-publisher", w.pubKey)
                 /\ [c |-> e.c, d |-> e.d] \in w.coords
<1>1. ASSUME NEW p \in w.pkgs
      PROVE  /\ p \in Envelopes /\ p.k = w.pubKey /\ [c |-> p.c, d |-> p.d] \in w.coords
             /\ NextKey(w, "rotate-publisher", p.k) \in PubKeys
  BY <1>1, NextKeys DEF WsOk, PackagesOk, Workspaces
<1>2. ASSUME NEW p \in w.pkgs, NEW k \in PubKeys
      PROVE  [p EXCEPT !.k = k] = [c |-> p.c, d |-> p.d, k |-> k]
  <2>1. p = [c |-> p.c, d |-> p.d, k |-> p.k]
    BY <1>1, <1>2 DEF Envelopes
  <2> QED
    BY <2>1
<1>3. ASSUME NEW e \in resignPackages(w)
      PROVE  /\ e \in Envelopes /\ e.k = NextKey(w, "rotate-publisher", w.pubKey)
             /\ [c |-> e.c, d |-> e.d] \in w.coords
  <2>1. PICK p \in w.pkgs : e = [p EXCEPT !.k = NextKey(w, "rotate-publisher", p.k)]
    BY <1>3 DEF resignPackages
  <2>2. e = [c |-> p.c, d |-> p.d, k |-> NextKey(w, "rotate-publisher", w.pubKey)]
    BY <2>1, <1>1, <1>2
  <2>3. NextKey(w, "rotate-publisher", w.pubKey) \in PubKeys
    BY <1>1
  <2> QED
    BY <2>2, <2>3, <1>1 DEF Envelopes
<1> QED
  BY <1>3

\* The index of a build, field by field.
LEMMA BuiltFields ==
    ASSUME PublisherAssumption, NEW w, WsOk(w)
    PROVE  LET i == buildSignedIndex(w) IN
           /\ i.seq = nextSequence(w)
           /\ i.signer = NextKey(w, "rotate-tap", w.tapKey)
           /\ i.pub = NextKey(w, "rotate-publisher", w.pubKey)
           /\ i.pkgs = {[c |-> p.c, d |-> p.d] : p \in emittedPackages(w)}
           /\ i.rots = w.rots \cup signPublisherRotation(w, nextSequence(w))
           /\ i.revP = w.revP \cup PendingOf(w, "revoke-package")
           /\ i.revK = w.revK \cup PendingOf(w, "revoke-publisher-key")
           /\ i.taprot = IF signTapRotation(w, nextSequence(w)) = {} THEN NoRotation
                         ELSE CHOOSE r \in signTapRotation(w, nextSequence(w)) : TRUE
           /\ emittedPackages(w) = {p \in resignPackages(w) : p.d \notin i.revP}
<1> DEFINE s == signPendingIntents(w)
<1>1. w \in Workspaces
  BY DEF WsOk
<1>2. /\ s.seq = nextSequence(w) /\ s.tapKey = NextKey(w, "rotate-tap", w.tapKey)
      /\ s.pubKey = NextKey(w, "rotate-publisher", w.pubKey) /\ s.pkgs = resignPackages(w)
      /\ s.rots = w.rots \cup signPublisherRotation(w, nextSequence(w))
      /\ s.revP = w.revP \cup PendingOf(w, "revoke-package")
      /\ s.revK = w.revK \cup PendingOf(w, "revoke-publisher-key")
  BY <1>1, SignedFields
<1>3. /\ emittedPackages(w) = {p \in s.pkgs : p.d \notin s.revP}
      /\ emittedRotations(w) = s.rots
  BY DEF emittedPackages, emittedRotations
<1> HIDE DEF s
<1>4. buildSignedIndex(w) =
        [seq |-> s.seq, signer |-> s.tapKey, pub |-> s.pubKey,
         pkgs |-> {[c |-> p.c, d |-> p.d] : p \in emittedPackages(w)},
         rots |-> emittedRotations(w),
         taprot |-> IF signTapRotation(w, s.seq) = {} THEN NoRotation
                    ELSE CHOOSE r \in signTapRotation(w, s.seq) : TRUE,
         revP |-> s.revP, revK |-> s.revK]
  BY DEF buildSignedIndex, s
<1> QED
  BY <1>2, <1>3, <1>4

\* The chain of a build is the workspace's, one longer when a rotation is staged.
LEMMA BuiltChain ==
    ASSUME PublisherAssumption, NEW w, WsOk(w)
    PROVE  LET i == buildSignedIndex(w) IN
           \/ /\ PendingOf(w, "rotate-publisher") = {}
              /\ i.rots = w.rots /\ i.pub = w.pubKey
           \/ /\ PendingOf(w, "rotate-publisher") = {i.pub}
              /\ i.pub \in PubKeys /\ i.pub \notin KeysOf(w.rots)
              /\ i.rots = w.rots \cup {[from |-> w.pubKey, to |-> i.pub,
                                        eff |-> nextSequence(w)]}
<1> DEFINE i == buildSignedIndex(w)
           P == PendingOf(w, "rotate-publisher")
<1>1. i.rots = w.rots \cup signPublisherRotation(w, nextSequence(w))
      /\ i.pub = NextKey(w, "rotate-publisher", w.pubKey)
  BY BuiltFields
<1>2. signPublisherRotation(w, nextSequence(w)) =
        {[from |-> w.pubKey, to |-> k, eff |-> nextSequence(w)] : k \in P}
  BY DEF signPublisherRotation
<1>3. CASE P = {}
  <2>1. i.pub = w.pubKey
    BY <1>1, <1>3, NextKeys DEF WsOk
  <2> QED
    BY <1>1, <1>2, <1>3, <2>1
<1>4. CASE P # {}
  <2>1. i.pub \in P /\ i.pub \in PubKeys
    BY <1>1, <1>4, NextKeys DEF WsOk
  <2>2. P = {i.pub}
    BY <2>1 DEF WsOk, StagedOk, Single
  <2>3. i.pub \notin KeysOf(w.rots)
    BY <2>1 DEF WsOk, StagedOk
  <2> QED
    BY <1>1, <1>2, <2>1, <2>2, <2>3
<1> QED
  BY <1>3, <1>4

LEMMA BuiltType ==
    ASSUME PublisherAssumption, NEW w, WsOk(w), nextSequence(w) <= MaxSeq
    PROVE  Built(w) \in Trees
<1> DEFINE i == buildSignedIndex(w)
<1>0. w \in Workspaces /\ MaxSeq \in Nat
  BY DEF WsOk, PublisherAssumption
<1>1. nextSequence(w) \in 1..MaxSeq
  BY <1>0, Sequences
<1>2. i.seq \in 1..MaxSeq /\ i.signer \in TapKeys /\ i.pub \in PubKeys
  BY <1>0, <1>1, BuiltFields, NextKeys
<1>3. emittedPackages(w) \subseteq Envelopes /\ i.pkgs \subseteq Packages
  <2>1. emittedPackages(w) \subseteq resignPackages(w)
    BY BuiltFields
  <2>2. w.coords \subseteq Packages
    BY <1>0 DEF Workspaces
  <2>3. \A e \in emittedPackages(w) : e \in Envelopes /\ [c |-> e.c, d |-> e.d] \in Packages
    BY <2>1, <2>2, BuiltPackages
  <2>4. i.pkgs = {[c |-> p.c, d |-> p.d] : p \in emittedPackages(w)}
    BY BuiltFields
  <2> QED
    BY <2>3, <2>4
<1>4. i.rots \subseteq Rotations
  <2>1. w.rots \subseteq Rotations /\ w.pubKey \in Keys
    BY <1>0 DEF Workspaces, Keys
  <2>2. i.pub \in Keys
    BY <1>2 DEF Keys
  <2>3. [from |-> w.pubKey, to |-> i.pub, eff |-> nextSequence(w)] \in Rotations
    BY <1>1, <2>1, <2>2 DEF Rotations
  <2> QED
    BY <2>1, <2>3, BuiltChain
<1>5. i.revP \subseteq Digests /\ i.revK \subseteq PubKeys
  BY <1>0, BuiltFields, PendingTypes DEF Workspaces
<1>6. i.taprot \in Rotations \cup {NoRotation}
  <2>1. signTapRotation(w, nextSequence(w)) \subseteq Rotations
    <3>1. PendingOf(w, "rotate-tap") \subseteq Keys /\ w.tapKey \in Keys
      BY <1>0, PendingTypes DEF Workspaces, Keys
    <3> QED
      BY <1>1, <3>1 DEF signTapRotation, Rotations
  <2>2. i.taprot = IF signTapRotation(w, nextSequence(w)) = {} THEN NoRotation
                   ELSE CHOOSE r \in signTapRotation(w, nextSequence(w)) : TRUE
    BY BuiltFields
  <2> QED
    BY <2>1, <2>2
<1>7. i = [seq |-> i.seq, signer |-> i.signer, pub |-> i.pub, pkgs |-> i.pkgs,
           rots |-> i.rots, taprot |-> i.taprot, revP |-> i.revP, revK |-> i.revK]
  BY DEF buildSignedIndex
<1> HIDE DEF i
<1>8. i \in Indexes
  BY <1>2, <1>3, <1>4, <1>5, <1>6, <1>7 DEF Indexes
<1> QED
  BY <1>3, <1>8 DEF Built, Trees, i

LEMMA KeysGrow ==
    ASSUME NEW rots, NEW r PROVE KeysOf(rots \cup {r}) = KeysOf(rots) \cup {r.to}
  BY DEF KeysOf

\* The chain of a build is a proper one.
LEMMA BuiltRots ==
    ASSUME PublisherAssumption, NEW w, WsOk(w)
    PROVE  LET i == buildSignedIndex(w) IN
           /\ \A r \in i.rots : r.eff \in Nat /\ r.eff <= i.seq
           /\ \A r, q \in i.rots : r.from = q.from => r = q
           /\ i.pub \in KeysOf(i.rots) /\ KeysOf(i.rots) \subseteq PubKeys
           /\ KeysOf(i.rots) = KeysOf(w.rots) \cup {i.pub}
           /\ i.seq \in Nat /\ i.seq = 1 + High(w) /\ i.seq > w.seq
<1> DEFINE i == buildSignedIndex(w)
           new == [from |-> w.pubKey, to |-> i.pub, eff |-> nextSequence(w)]
<1>1. /\ i.seq \in Nat /\ w.seq \in Nat /\ w.seq < i.seq /\ i.seq = nextSequence(w)
      /\ i.seq = 1 + High(w)
  BY Sequences, BuiltFields DEF WsOk
<1>2. \A r \in w.rots : /\ r.eff \in Nat /\ r.eff <= w.seq
                        /\ r.from # w.pubKey /\ r.from \in KeysOf(w.rots)
  BY DEF WsOk, ChainOk, Workspaces, Rotations
<1>3. /\ w.pubKey \in KeysOf(w.rots) /\ KeysOf(w.rots) \subseteq PubKeys
      /\ \A r, q \in w.rots : r.from = q.from => r = q
  BY DEF WsOk, ChainOk
<1>4. CASE i.rots = w.rots /\ i.pub = w.pubKey
  BY <1>1, <1>2, <1>3, <1>4
<1>5. CASE i.rots = w.rots \cup {new} /\ i.pub \in PubKeys
  <2>1. \A r \in i.rots : r = new \/ r \in w.rots
    BY <1>5
  <2>2. KeysOf(i.rots) = KeysOf(w.rots) \cup {i.pub}
    <3>1. KeysOf(w.rots \cup {new}) = KeysOf(w.rots) \cup {new.to}
      BY KeysGrow
    <3>2. new.to = i.pub
      OBVIOUS
    <3> HIDE DEF i, new
    <3> QED
      BY <1>5, <3>1, <3>2
  <2>3. \A r, q \in i.rots : r.from = q.from => r = q
    BY <1>2, <1>3, <2>1
  <2>4. \A r \in i.rots : r.eff \in Nat /\ r.eff <= i.seq
    BY <1>1, <1>2, <2>1
  <2> QED
    BY <1>1, <1>3, <1>5, <2>2, <2>3, <2>4
<1> QED
  BY <1>4, <1>5, BuiltChain

\* Whatever went out of a workspace, its next build continues.
LEMMA BuiltBehind ==
    ASSUME PublisherAssumption, NEW w, WsOk(w), NEW j, j.pub \in KeysOf(j.rots),
           \/ Behind(j, w.rots, w.pubKey)
           \/ /\ j.pub \in PendingOf(w, "rotate-publisher")
              /\ KeysOf(j.rots) = KeysOf(w.rots) \cup {j.pub}
    PROVE  Behind(j, buildSignedIndex(w).rots, buildSignedIndex(w).pub)
<1> DEFINE i == buildSignedIndex(w)
           new == [from |-> w.pubKey, to |-> i.pub, eff |-> nextSequence(w)]
<1>1. CASE PendingOf(w, "rotate-publisher") = {} /\ i.rots = w.rots /\ i.pub = w.pubKey
  BY <1>1
<1>2. CASE /\ PendingOf(w, "rotate-publisher") = {i.pub}
           /\ i.pub \notin KeysOf(w.rots) /\ i.rots = w.rots \cup {new}
  <2>1. KeysOf(i.rots) = KeysOf(w.rots) \cup {i.pub}
    BY BuiltRots
  <2>2. CASE j.pub = i.pub /\ KeysOf(j.rots) = KeysOf(w.rots) \cup {i.pub}
    <3>1. \A r \in i.rots : r.to \in KeysOf(i.rots)
      BY DEF KeysOf
    <3>2. Ahead(j, i.rots) = {}
      BY <2>1, <2>2, <3>1 DEF Ahead
    <3> QED
      BY <2>1, <2>2, <3>2 DEF Behind
  <2>3. CASE Behind(j, w.rots, w.pubKey)
    <3>1. KeysOf(j.rots) \subseteq KeysOf(w.rots)
      BY <2>3 DEF Behind
    <3>2. Ahead(j, i.rots) = Ahead(j, w.rots) \cup {new}
      BY <1>2, <3>1 DEF Ahead
    <3>3. w.pubKey \in KeysOf(w.rots) /\ i.pub # w.pubKey
      BY <1>2 DEF WsOk, ChainOk
    <3>4. LeadTo(Ahead(j, i.rots), j.pub, i.pub)
      <4>1. CASE j.pub = w.pubKey /\ Ahead(j, w.rots) = {}
        <5>1. LeadTo({new}, w.pubKey, i.pub)
          BY <3>3 DEF LeadTo
        <5> QED
          BY <4>1, <5>1, <3>2
      <4>2. CASE LeadTo(Ahead(j, w.rots), j.pub, w.pubKey)
        <5>1. Ahead(j, w.rots) \in SUBSET w.rots
          BY DEF Ahead
        <5>2. \A r, q \in w.rots : r.from = q.from \/ r.to = q.to => r = q
          BY DEF WsOk, ChainOk
        <5>3. \A r \in w.rots : r.eff \in Nat /\ r.eff < nextSequence(w)
          <6>1. \A r \in w.rots : r.eff \in Nat /\ r.eff <= w.seq
            BY DEF WsOk, ChainOk, Workspaces, Rotations
          <6> QED
            BY <6>1, Sequences DEF WsOk
        <5>4. \A r \in w.rots : r.to # i.pub /\ r.from # w.pubKey /\ r.from # i.pub
          BY <1>2 DEF WsOk, ChainOk, KeysOf
        <5>5. j.pub # i.pub
          BY <1>2, <3>1
        <5>6. /\ new.from = w.pubKey /\ new.to = i.pub /\ new.eff = nextSequence(w)
          OBVIOUS
        <5> HIDE DEF new, i
        <5>7. /\ \A r \in w.rots : r.eff \in Nat /\ r.eff < new.eff
              /\ \A r \in w.rots : r.to # new.to /\ r.from # new.from /\ r.from # new.to
              /\ new.to # j.pub /\ new.from # new.to
              /\ LeadTo(Ahead(j, w.rots), j.pub, new.from)
          BY <3>3, <4>2, <5>3, <5>4, <5>5, <5>6
        <5>8. LeadTo(Ahead(j, w.rots) \cup {new}, j.pub, new.to)
          BY <5>1, <5>2, <5>7, WalkExtends
        <5> QED
          BY <3>2, <5>6, <5>8
      <4> QED
        BY <2>3, <4>1, <4>2 DEF Behind
    <3> QED
      BY <2>1, <3>1, <3>4 DEF Behind
  <2> QED
    BY <1>2, <2>2, <2>3
<1> QED
  BY <1>1, <1>2, BuiltChain

\* The index of a build that could be made went out of the workspace.
LEMMA BuiltOut ==
    ASSUME PublisherAssumption, NEW w, WsOk(w), NEW v,
           /\ v.rots = w.rots /\ v.pubKey = w.pubKey /\ v.coords = w.coords
           /\ v.revP = w.revP /\ v.revK = w.revK /\ v.pending = w.pending,
           buildSignedIndex(w).seq <= High(v)
    PROVE  OutOf(v, buildSignedIndex(w))
<1> DEFINE i == buildSignedIndex(w)
<1>1. i.pkgs \subseteq v.coords
  <2>1. i.pkgs = {[c |-> p.c, d |-> p.d] : p \in emittedPackages(w)}
        /\ emittedPackages(w) \subseteq resignPackages(w)
    BY BuiltFields
  <2> QED
    BY <2>1, BuiltPackages
<1>2. \A k : PendingOf(v, k) = PendingOf(w, k)
  BY DEF PendingOf
<1>3. /\ i.revP = v.revP \cup PendingOf(v, "revoke-package")
      /\ i.revK = v.revK \cup PendingOf(v, "revoke-publisher-key")
  <2>1. /\ i.revP = w.revP \cup PendingOf(w, "revoke-package")
        /\ i.revK = w.revK \cup PendingOf(w, "revoke-publisher-key")
    BY BuiltFields
  <2> HIDE DEF i
  <2> QED
    BY <1>2, <2>1
<1>4. \/ Behind(i, v.rots, v.pubKey)
      \/ /\ i.pub \in PendingOf(v, "rotate-publisher")
         /\ KeysOf(i.rots) = KeysOf(v.rots) \cup {i.pub}
  <2>1. CASE i.rots = w.rots /\ i.pub = w.pubKey
    <3>1. Ahead(i, w.rots) = {}
      BY <2>1 DEF Ahead, KeysOf
    <3> QED
      BY <2>1, <3>1 DEF Behind
  <2>2. CASE PendingOf(w, "rotate-publisher") = {i.pub}
    BY <1>2, <2>2, BuiltRots
  <2> QED
    BY <2>1, <2>2, BuiltChain
<1> QED
  BY <1>1, <1>3, <1>4 DEF OutOf

\* A staged tap key is accepted beside the one it follows.
LEMMA TapKeyAccepted ==
    ASSUME PublisherAssumption, NEW w, WsOk(w)
    PROVE  AcceptsTapKey(buildSignedIndex(w), w.tapKey, {})
<1> DEFINE i == buildSignedIndex(w)
           P == PendingOf(w, "rotate-tap")
           rot(k) == [from |-> w.tapKey, to |-> k, eff |-> nextSequence(w)]
<1>1. w \in Workspaces
  BY DEF WsOk
<1>2. CASE P = {}
  <2>1. i.signer = w.tapKey
    BY <1>1, <1>2, BuiltFields, NextKeys
  <2> QED
    BY <2>1 DEF AcceptsTapKey
<1>3. CASE P # {}
  <2>1. i.signer \in P /\ i.seq = nextSequence(w) /\ nextSequence(w) \in Nat
    <3>1. i.signer \in P
      BY <1>1, <1>3, BuiltFields, NextKeys
    <3>2. i.seq = nextSequence(w)
      BY BuiltFields
    <3>3. nextSequence(w) \in Nat
      BY <1>1, Sequences
    <3> QED
      BY <3>1, <3>2, <3>3
  <2>2. P = {i.signer} /\ i.signer # w.tapKey
    BY <2>1 DEF WsOk, StagedOk, Single
  <2>3. signTapRotation(w, nextSequence(w)) = {rot(i.signer)}
    <3>1. signTapRotation(w, nextSequence(w)) = {rot(k) : k \in P}
      BY DEF signTapRotation
    <3> QED
      BY <2>2, <3>1
  <2>4. i.taprot = rot(i.signer)
    BY <2>3, BuiltFields
  <2>5. i.taprot # NoRotation
    <3>1. w.tapKey \in Keys /\ i.signer \in Keys
      BY <1>1, <2>1, PendingTypes DEF Workspaces, Keys
    <3>2. rot(i.signer) \in [from : Keys, to : Keys, eff : Nat]
      BY <2>1, <3>1
    <3> QED
      BY <2>4, <3>2 DEF PublisherAssumption
  <2>6. i.taprot.from = w.tapKey /\ i.taprot.to = i.signer /\ i.taprot.eff = i.seq
    BY <2>1, <2>4
  <2> QED
    BY <2>2, <2>5, <2>6 DEF AcceptsTapKey, verifyTapKeyRotation
<1> QED
  BY <1>2, <1>3

\* The reader that followed every committed build accepts the next.
LEMMA NextBuildAdvances ==
    ASSUME PublisherAssumption, NEW w, WsOk(w),
           buildSignedIndex(w).pub \notin buildSignedIndex(w).revK
    PROVE  Advances(buildSignedIndex(w), workspacePinState(w))
<1> DEFINE i == buildSignedIndex(w)
           pins == workspacePinState(w)
           new == [from |-> w.pubKey, to |-> i.pub, eff |-> nextSequence(w)]
<1>0. w \in Workspaces
  BY DEF WsOk
<1>1. CASE w.seq = 0
  <2>1. pins = EmptyPins
    BY <1>1 DEF workspacePinState
  <2>2. /\ pins.seq = 0 /\ pins.pub = NoKey /\ pins.hist = {} /\ pins.coords = {}
        /\ pins.revK = {}
    BY <2>1 DEF EmptyPins
  <2>3. acceptedRotations(i, pins.pub) = {}
    BY <2>2 DEF acceptedRotations
  <2>4. i.seq > 0
    BY <1>1, BuiltRots
  <2> QED
    BY <2>2, <2>3, <2>4 DEF Advances, assertCoordinateContinuity, ChainHolds, registerKey,
       assertNoRevokedActiveKeys
<1>2. CASE w.seq # 0
  <2>1. /\ pins.seq = w.seq /\ pins.pub = w.pubKey /\ pins.coords = w.coords
        /\ pins.hist = {r.to : r \in w.rots} \cup {w.pubKey} /\ pins.revK = w.revK
    BY <1>2 DEF workspacePinState
  <2>2. i.seq > pins.seq
    BY <2>1, BuiltRots
  <2>3. assertCoordinateContinuity(i, pins)
    <3>1. \A p \in i.pkgs : p \in w.coords
      <4>1. i.pkgs = {[c |-> p.c, d |-> p.d] : p \in emittedPackages(w)}
            /\ emittedPackages(w) \subseteq resignPackages(w)
        BY BuiltFields
      <4> QED
        BY <4>1, BuiltPackages
    <3>2. \A p, q \in w.coords : p.c = q.c => p = q
      BY DEF WsOk, PackagesOk
    <3> QED
      BY <2>1, <3>1, <3>2 DEF assertCoordinateContinuity
  <2>4. pins.hist \subseteq KeysOf(w.rots)
    BY <2>1 DEF WsOk, ChainOk, KeysOf
  <2>5. ChainHolds(i, pins.pub) /\ registerKey(pins.hist, acceptedRotations(i, pins.pub))
    <3>1. CASE i.pub = w.pubKey
      BY <2>1, <3>1 DEF ChainHolds, acceptedRotations, registerKey
    <3>2. CASE /\ i.pub \notin KeysOf(w.rots) /\ i.rots = w.rots \cup {new}
      <4>1. i.pub # w.pubKey /\ w.pubKey # NoKey
        BY <1>0, <3>2 DEF WsOk, ChainOk, Workspaces, PublisherAssumption
      <4>2. rotationMap(i) = i.rots
        BY BuiltRots DEF rotationMap
      <4>3. LeadTo({new}, w.pubKey, i.pub)
        BY <4>1 DEF LeadTo
      <4>4. followRotationChain(i.rots, w.pubKey, i.pub) = {new}
        <5>1. {new} \in SUBSET i.rots
          BY <3>2
        <5>2. /\ \A r \in i.rots : r.eff \in Nat
              /\ \A r, q \in i.rots : r.from = q.from => r = q
          BY BuiltRots
        <5> HIDE DEF new, i
        <5> QED
          BY <4>3, <5>1, <5>2, WalkFollowed
      <4>5. acceptedRotations(i, pins.pub) = {new}
        BY <2>1, <4>1, <4>2, <4>4 DEF acceptedRotations
      <4>6. Unambiguous(rotationMap(i))
        BY <4>2, BuiltRots DEF Unambiguous
      <4>7. new.to \notin pins.hist
        BY <2>4, <3>2
      <4> QED
        BY <4>5, <4>6, <4>7 DEF ChainHolds, registerKey
    <3> QED
      BY <3>1, <3>2, BuiltChain
  <2>6. assertNoRevokedActiveKeys(i, pins)
    BY <2>1, BuiltFields DEF assertNoRevokedActiveKeys
  <2> QED
    BY <2>2, <2>3, <2>5, <2>6 DEF Advances
<1> QED
  BY <1>1, <1>2

\* Every staged build can be made, unless it rotates to a revoked key.
LEMMA BuildsMade ==
    ASSUME PublisherAssumption, NEW w, WsOk(w),
           PendingOf(w, "rotate-publisher") \cap signPendingIntents(w).revK = {}
    PROVE  verifyBuiltDistribution(w, Built(w))
<1> DEFINE i == buildSignedIndex(w)
           pins == workspacePinState(w)
           after == advancePublisherPins(i, pins)
<1>0. w \in Workspaces
  BY DEF WsOk
<1>1. i.pub \notin i.revK
  <2>1. /\ i.revK = w.revK \cup PendingOf(w, "revoke-publisher-key")
        /\ signPendingIntents(w).revK = w.revK \cup PendingOf(w, "revoke-publisher-key")
    BY <1>0, BuiltFields, SignedFields
  <2>2. CASE PendingOf(w, "rotate-publisher") = {} /\ i.pub = w.pubKey
    BY <2>1, <2>2 DEF WsOk, StagedOk
  <2>3. CASE PendingOf(w, "rotate-publisher") = {i.pub}
    BY <2>1, <2>3
  <2> QED
    BY <2>2, <2>3, BuiltChain
<1>2. Advances(i, pins)
  BY <1>1, NextBuildAdvances
<1>3. /\ after.seq = i.seq /\ after.revP = pins.revP \cup i.revP
      /\ after.revK = pins.revK \cup i.revK
  BY DEF advancePublisherPins
<1>4. pins.revP \subseteq i.revP /\ pins.revK \subseteq i.revK
  BY BuiltFields DEF workspacePinState, EmptyPins
<1>5. /\ i.pkgs = {[c |-> p.c, d |-> p.d] : p \in emittedPackages(w)}
      /\ emittedPackages(w) = {p \in resignPackages(w) : p.d \notin i.revP}
      /\ i.pub = NextKey(w, "rotate-publisher", w.pubKey)
      /\ i.seq \in Nat
  BY BuiltFields, BuiltRots
<1> HIDE DEF i, pins, after
<1>6. ASSUME NEW e \in emittedPackages(w)
      PROVE  verifySignedPackage(e, i, after)
  BY <1>1, <1>3, <1>4, <1>5, <1>6, BuiltPackages DEF verifySignedPackage
<1> QED
  BY <1>2, <1>6, TapKeyAccepted DEF verifyBuiltDistribution, Built, i, pins, after

-----------------------------------------------------------------------------
(* The publisher's operations. *)

\* Workspace v differs from w in packages added, intents staged and key files made.
Widens(w, v) ==
    /\ v.tapKey = w.tapKey /\ v.pubKey = w.pubKey /\ v.seq = w.seq /\ v.rots = w.rots
    /\ v.revP = w.revP /\ v.revK = w.revK /\ v.reserved = w.reserved
    /\ w.coords \subseteq v.coords /\ w.pending \subseteq v.pending

LEMMA PendingGrows ==
    ASSUME NEW w, NEW v, w.pending \subseteq v.pending, NEW k
    PROVE  PendingOf(w, k) \subseteq PendingOf(v, k)
  BY DEF PendingOf

\* What an operation between two builds keeps.
LEMMA OperationKeeps ==
    ASSUME PubInv, Locked, Widens(ws, ws'), WsOk(ws'),
           UNCHANGED <<bld, dist, served, verifier>>
    PROVE  PubInv'
<1>1. ASSUME NEW i, OutOf(ws, i) PROVE OutOf(ws', i)
  <2>1. \A k : PendingOf(ws, k) \subseteq PendingOf(ws', k)
    BY PendingGrows DEF Widens
  <2>2. High(ws') = High(ws)
    BY DEF Widens, High
  <2> QED
    BY <1>1, <2>1, <2>2 DEF OutOf, Widens
<1>2. ServedOk'
  <2>1. \A t \in served : IndexOk(t.idx) /\ OutOf(ws', t.idx)
    BY <1>1 DEF PubInv, ServedOk
  <2> QED
    BY <2>1 DEF PubInv, ServedOk, SequencesUnique
<1>3. BuildOk'
  BY DEF Locked, BuildOk
<1>4. OutputOk'
  BY DEF PubInv, OutputOk
<1> QED
  BY <1>2, <1>3, <1>4 DEF PubInv

\* A workspace is sound after an intent was staged or a key file left behind.
LEMMA StagingOk ==
    ASSUME NEW w, WsOk(w), NEW v, v \in Workspaces, Widens(w, v),
           v.pkgs = w.pkgs, v.coords = w.coords,
           NEW kind, NEW value,
           v.pending \in {w.pending, w.pending \cup {<<kind, value>>}},
           kind = "rotate-publisher" =>
               PendingOf(w, kind) = {} /\ value \notin KeysOf(w.rots),
           kind = "rotate-tap" => PendingOf(w, kind) = {} /\ value # w.tapKey,
           kind = "revoke-publisher-key" /\ value = w.pubKey =>
               PendingOf(w, "rotate-publisher") # {}
    PROVE  WsOk(v)
<1>1. ASSUME NEW k
      PROVE  \/ PendingOf(v, k) = PendingOf(w, k)
             \/ kind = k /\ PendingOf(v, k) = PendingOf(w, k) \cup {value}
  <2>1. CASE v.pending = w.pending
    BY <2>1 DEF PendingOf
  <2>2. CASE v.pending = w.pending \cup {<<kind, value>>}
    <3>1. {j \in v.pending : j[1] = k} =
            {j \in w.pending : j[1] = k} \cup {j \in {<<kind, value>>} : j[1] = k}
      BY <2>2
    <3>2. CASE kind = k
      <4>1. {j \in {<<kind, value>>} : j[1] = k} = {<<kind, value>>}
        BY <3>2
      <4> QED
        BY <3>1, <3>2, <4>1 DEF PendingOf
    <3>3. CASE kind # k
      <4>1. {j \in {<<kind, value>>} : j[1] = k} = {}
        BY <3>3
      <4> QED
        BY <3>1, <4>1 DEF PendingOf
    <3> QED
      BY <3>2, <3>3
  <2> QED
    BY <2>1, <2>2
<1>2. PendingOf(w, "rotate-publisher") \subseteq PendingOf(v, "rotate-publisher")
  BY PendingGrows DEF Widens
<1>3. ChainOk(v)
  BY DEF WsOk, ChainOk, Widens
<1>4. PackagesOk(v)
  BY DEF WsOk, PackagesOk, Widens
<1>5. StagedOk(v)
  <2>1. Single(PendingOf(v, "rotate-publisher")) /\ Single(PendingOf(v, "rotate-tap"))
    BY <1>1 DEF WsOk, StagedOk, Single
  <2>2. PendingOf(v, "rotate-publisher") \cap KeysOf(v.rots) = {}
    <3>1. v.rots = w.rots
      BY DEF Widens
    <3> QED
      BY <1>1, <3>1 DEF WsOk, StagedOk
  <2>3. v.tapKey \notin PendingOf(v, "rotate-tap")
    <3>1. v.tapKey = w.tapKey
      BY DEF Widens
    <3> QED
      BY <1>1, <3>1 DEF WsOk, StagedOk
  <2>4. /\ v.pubKey \in PendingOf(v, "revoke-publisher-key") =>
             PendingOf(v, "rotate-publisher") # {}
        /\ v.pubKey \notin v.revK
    <3>1. v.pubKey = w.pubKey /\ v.revK = w.revK
      BY DEF Widens
    <3> QED
      BY <1>1, <1>2, <3>1 DEF WsOk, StagedOk
  <2> QED
    BY <2>1, <2>2, <2>3, <2>4 DEF StagedOk
<1> QED
  BY <1>3, <1>4, <1>5 DEF WsOk

LEMMA WorkspaceFields ==
    ASSUME NEW w \in Workspaces
    PROVE  w = [tapKey |-> w.tapKey, pubKey |-> w.pubKey, seq |-> w.seq, pkgs |-> w.pkgs,
                rots |-> w.rots, taprots |-> w.taprots, revP |-> w.revP, revK |-> w.revK,
                pending |-> w.pending, coords |-> w.coords, files |-> w.files,
                last |-> w.last, reserved |-> w.reserved]
  BY DEF Workspaces

\* The workspace with intents P and key files F.
With(w, P, F) == [[w EXCEPT !.pending = P] EXCEPT !.files = F]

LEMMA WorkspaceStaged ==
    ASSUME NEW w \in Workspaces, NEW P \in SUBSET Intents, NEW F \in SUBSET Keys,
           w.pending \subseteq P
    PROVE  /\ With(w, P, F) \in Workspaces /\ With(w, P, F).pending = P
           /\ Widens(w, With(w, P, F))
           /\ With(w, P, F).pkgs = w.pkgs /\ With(w, P, F).coords = w.coords
<1> DEFINE v == With(w, P, F)
           u == [w EXCEPT !.pending = P]
<1>1. u = [tapKey |-> w.tapKey, pubKey |-> w.pubKey, seq |-> w.seq, pkgs |-> w.pkgs,
           rots |-> w.rots, taprots |-> w.taprots, revP |-> w.revP, revK |-> w.revK,
           pending |-> P, coords |-> w.coords, files |-> w.files,
           last |-> w.last, reserved |-> w.reserved]
  BY WorkspaceFields
<1>2. v = [u EXCEPT !.files = F]
  BY DEF With
<1> HIDE DEF u, v
<1>3. v = [tapKey |-> w.tapKey, pubKey |-> w.pubKey, seq |-> w.seq, pkgs |-> w.pkgs,
           rots |-> w.rots, taprots |-> w.taprots, revP |-> w.revP, revK |-> w.revK,
           pending |-> P, coords |-> w.coords, files |-> F,
           last |-> w.last, reserved |-> w.reserved]
  BY <1>1, <1>2
<1>4. v \in Workspaces /\ v.pending = P /\ Widens(w, v)
      /\ v.pkgs = w.pkgs /\ v.coords = w.coords
  BY <1>3 DEF Workspaces, Widens
<1> QED
  BY <1>4 DEF v

LEMMA WorkspaceAdded ==
    ASSUME NEW w \in Workspaces, NEW pkgs, NEW coords
    PROVE  [w EXCEPT !.pkgs = pkgs, !.coords = coords] =
             [tapKey |-> w.tapKey, pubKey |-> w.pubKey, seq |-> w.seq, pkgs |-> pkgs,
              rots |-> w.rots, taprots |-> w.taprots, revP |-> w.revP, revK |-> w.revK,
              pending |-> w.pending, coords |-> coords, files |-> w.files,
              last |-> w.last, reserved |-> w.reserved]
<1> DEFINE u == [w EXCEPT !.pkgs = pkgs]
<1>1. u = [tapKey |-> w.tapKey, pubKey |-> w.pubKey, seq |-> w.seq, pkgs |-> pkgs,
           rots |-> w.rots, taprots |-> w.taprots, revP |-> w.revP, revK |-> w.revK,
           pending |-> w.pending, coords |-> w.coords, files |-> w.files,
           last |-> w.last, reserved |-> w.reserved]
  BY WorkspaceFields
<1>2. [w EXCEPT !.pkgs = pkgs, !.coords = coords] = [u EXCEPT !.coords = coords]
  OBVIOUS
<1> HIDE DEF u
<1> QED
  BY <1>1, <1>2

LEMMA AddPackageKeeps ==
    ASSUME PublisherAssumption, PubInv, NEW p \in Packages, addPackage(p)
    PROVE  PubInv'
<1> DEFINE e == [c |-> p.c, d |-> p.d, k |-> ws.pubKey]
<1>1. ws \in Workspaces /\ p = [c |-> p.c, d |-> p.d]
  BY DEF PubInv, WsOk, PublisherAssumption
<1>2. ws' = [tapKey |-> ws.tapKey, pubKey |-> ws.pubKey, seq |-> ws.seq,
             pkgs |-> ws.pkgs \cup {e},
             rots |-> ws.rots, taprots |-> ws.taprots, revP |-> ws.revP, revK |-> ws.revK,
             pending |-> ws.pending, coords |-> ws.coords \cup {p}, files |-> ws.files,
             last |-> ws.last, reserved |-> ws.reserved]
  BY <1>1, WorkspaceAdded DEF addPackage
<1>3. e \in Envelopes /\ e.c = p.c /\ e.d = p.d /\ e.k = ws.pubKey
  BY <1>1 DEF Envelopes, Digests, Workspaces
<1> HIDE DEF e
<1>4. ws' \in Workspaces /\ Widens(ws, ws')
  BY <1>1, <1>2, <1>3 DEF Workspaces, Widens
<1>5. ChainOk(ws')
  BY <1>2 DEF PubInv, WsOk, ChainOk
<1>6. PackagesOk(ws')
  <2>1. ws'.coords = ws.coords \cup {p} /\ ws'.pkgs = ws.pkgs \cup {e}
        /\ ws'.pubKey = ws.pubKey
    BY <1>2
  <2>2. \A q \in ws.coords : q.c # p.c
    BY DEF addPackage
  <2>3. \A q, r \in ws'.coords : q.c = r.c => q = r
    BY <2>1, <2>2 DEF PubInv, WsOk, PackagesOk
  <2>4. \A f \in ws'.pkgs : [c |-> f.c, d |-> f.d] \in ws'.coords /\ f.k = ws'.pubKey
    BY <1>1, <1>3, <2>1 DEF PubInv, WsOk, PackagesOk
  <2> QED
    BY <2>3, <2>4 DEF PackagesOk
<1>7. StagedOk(ws')
  <2>1. \A k : PendingOf(ws', k) = PendingOf(ws, k)
    BY <1>2 DEF PendingOf
  <2> QED
    BY <1>2, <2>1 DEF PubInv, WsOk, StagedOk
<1>8. WsOk(ws')
  BY <1>4, <1>5, <1>6, <1>7 DEF WsOk
<1> QED
  BY <1>4, <1>8, OperationKeeps DEF addPackage

\* Staging an intent, with or without its key file.
LEMMA StageKeeps ==
    ASSUME PubInv, Locked, NEW kind, NEW value, <<kind, value>> \in Intents,
           NEW P \in {ws.pending, ws.pending \cup {<<kind, value>>}},
           NEW F \in SUBSET Keys, ws' = With(ws, P, F),
           kind = "rotate-publisher" =>
               PendingOf(ws, kind) = {} /\ value \notin KeysOf(ws.rots),
           kind = "rotate-tap" => PendingOf(ws, kind) = {} /\ value # ws.tapKey,
           kind = "revoke-publisher-key" /\ value = ws.pubKey =>
               PendingOf(ws, "rotate-publisher") # {},
           UNCHANGED <<bld, dist, served, verifier>>
    PROVE  PubInv'
<1>1. ws \in Workspaces /\ WsOk(ws)
  BY DEF PubInv, WsOk
<1>2. P \in SUBSET Intents /\ ws.pending \subseteq P
  BY <1>1 DEF Workspaces
<1> DEFINE v == With(ws, P, F)
<1>3. v \in Workspaces /\ v.pending = P /\ Widens(ws, v)
      /\ v.pkgs = ws.pkgs /\ v.coords = ws.coords
  BY <1>1, <1>2, WorkspaceStaged
<1>4. v.pending \in {ws.pending, ws.pending \cup {<<kind, value>>}}
  BY <1>3
<1> HIDE DEF v
<1>5. WsOk(v)
  BY <1>1, <1>3, <1>4, StagingOk
<1>6. ws' = v
  BY DEF v
<1> QED
  BY <1>3, <1>5, <1>6, OperationKeeps

\* A key file may be left without the intent.
LEMMA KeypairKeeps ==
    ASSUME PubInv, Locked, NEW kind, NEW key, <<kind, key>> \in Intents, key \in Keys,
           createKeypairFile(key, Staged(kind, key)),
           kind = "rotate-publisher" =>
               PendingOf(ws, kind) = {} /\ key \notin KeysOf(ws.rots),
           kind = "rotate-tap" => PendingOf(ws, kind) = {} /\ key # ws.tapKey,
           kind # "revoke-publisher-key",
           UNCHANGED <<bld, dist, served, verifier>>
    PROVE  PubInv'
<1> DEFINE F == ws.files \cup {key}
           P == ws.pending \cup {<<kind, key>>}
           Q == ws.pending
<1>1. ws \in Workspaces
  BY DEF PubInv, WsOk
<1>2. F \in SUBSET Keys
  BY <1>1 DEF Workspaces
<1>3. [ws EXCEPT !.pending = P].files = ws.files
  BY <1>1 DEF Workspaces
<1>4. \/ ws' = [[ws EXCEPT !.pending = P] EXCEPT !.files = F]
      \/ ws' = [ws EXCEPT !.files = F]
  BY <1>3 DEF createKeypairFile, Staged
<1>5. ws = [ws EXCEPT !.pending = Q]
  BY <1>1, WorkspaceFields
<1>6. ws' = With(ws, P, F) \/ ws' = With(ws, Q, F)
  BY <1>4, <1>5 DEF With
<1>7. P \in {ws.pending, ws.pending \cup {<<kind, key>>}}
      /\ Q \in {ws.pending, ws.pending \cup {<<kind, key>>}}
  OBVIOUS
<1> HIDE DEF F, P, Q
<1>8. kind = "revoke-publisher-key" /\ key = ws.pubKey => PendingOf(ws, "rotate-publisher") # {}
  OBVIOUS
<1>9. CASE ws' = With(ws, P, F)
  BY <1>2, <1>7, <1>8, <1>9, StageKeeps
<1>10. CASE ws' = With(ws, Q, F)
  BY <1>2, <1>7, <1>8, <1>10, StageKeeps
<1> QED
  BY <1>6, <1>9, <1>10

\* A key that was never used is new to the chain.
LEMMA RotateKeeps ==
    ASSUME PubInv, NEW k,
           \/ k \in PubKeys /\ stageRotatePublisherKey(k)
           \/ k \in TapKeys /\ stageRotateTapKey(k)
    PROVE  PubInv'
<1>1. k \in Keys
  BY DEF Keys
<1>2. k \notin UsedKeys(ws)
  BY DEF stageRotatePublisherKey, stageRotateTapKey
<1>3. k \notin KeysOf(ws.rots) /\ k # ws.tapKey
  <2>1. KeysOf(ws.rots) = {ws.pubKey} \cup {r.from : r \in ws.rots}
    BY DEF PubInv, WsOk, ChainOk
  <2>2. KeysOf(ws.rots) \subseteq UsedKeys(ws)
    <3>1. \A r \in ws.rots : r.from \in UsedKeys(ws)
      <4>1. \A r \in ws.rots : {r.from, r.to} \in {{q.from, q.to} : q \in ws.rots \cup ws.taprots}
        OBVIOUS
      <4> QED
        BY <4>1 DEF UsedKeys
    <3>2. ws.pubKey \in UsedKeys(ws)
      BY DEF UsedKeys
    <3> QED
      BY <2>1, <3>1, <3>2
  <2>3. ws.tapKey \in UsedKeys(ws)
    BY DEF UsedKeys
  <2> QED
    BY <1>2, <2>2, <2>3
<1>4. CASE k \in PubKeys /\ stageRotatePublisherKey(k)
  <2>1. <<"rotate-publisher", k>> \in Intents
    BY <1>4 DEF Intents
  <2>2. /\ Locked /\ PendingOf(ws, "rotate-publisher") = {}
        /\ createKeypairFile(k, Staged("rotate-publisher", k))
        /\ UNCHANGED <<bld, dist, served, verifier>>
    BY <1>4 DEF stageRotatePublisherKey
  <2> QED
    BY <1>1, <1>3, <2>1, <2>2, KeypairKeeps
<1>5. CASE k \in TapKeys /\ stageRotateTapKey(k)
  <2>1. <<"rotate-tap", k>> \in Intents
    BY <1>5 DEF Intents
  <2>2. /\ Locked /\ PendingOf(ws, "rotate-tap") = {}
        /\ createKeypairFile(k, Staged("rotate-tap", k))
        /\ UNCHANGED <<bld, dist, served, verifier>>
    BY <1>5 DEF stageRotateTapKey
  <2> QED
    BY <1>1, <1>3, <2>1, <2>2, KeypairKeeps
<1> QED
  BY <1>4, <1>5

LEMMA RevokeKeeps ==
    ASSUME PubInv,
           \/ \E p \in Packages : stageRevokePackage(p)
           \/ \E k \in PubKeys : stageRevokePublisherKey(k)
    PROVE  PubInv'
<1> DEFINE F == ws.files
<1>1. ws \in Workspaces
  BY DEF PubInv, WsOk
<1>2. PICK kind, value :
        /\ <<kind, value>> \in Intents
        /\ Locked /\ ws' = Staged(kind, value)
        /\ kind \in {"revoke-package", "revoke-publisher-key"}
        /\ kind = "revoke-publisher-key" /\ value = ws.pubKey =>
               PendingOf(ws, "rotate-publisher") # {}
        /\ UNCHANGED <<bld, dist, served, verifier>>
  <2>1. CASE \E p \in Packages : stageRevokePackage(p)
    <3>1. PICK p \in Packages : stageRevokePackage(p)
      BY <2>1
    <3>2. <<"revoke-package", p.d>> \in Intents
      BY DEF Intents, Digests
    <3> QED
      BY <3>1, <3>2 DEF stageRevokePackage
  <2>2. CASE \E k \in PubKeys : stageRevokePublisherKey(k)
    <3>1. PICK k \in PubKeys : stageRevokePublisherKey(k)
      BY <2>2
    <3>2. <<"revoke-publisher-key", k>> \in Intents
      BY DEF Intents
    <3> QED
      BY <3>1, <3>2 DEF stageRevokePublisherKey
  <2> QED
    BY <2>1, <2>2
<1> DEFINE P == ws.pending \cup {<<kind, value>>}
<1>3. F \in SUBSET Keys
  BY <1>1 DEF Workspaces
<1>4. ws' = With(ws, P, F)
  <2>1. [ws EXCEPT !.pending = P] = [[ws EXCEPT !.pending = P] EXCEPT !.files = F]
    BY <1>1, WorkspaceFields
  <2> QED
    BY <1>2, <2>1 DEF Staged, With
<1>5. P \in {ws.pending, ws.pending \cup {<<kind, value>>}}
  OBVIOUS
<1> HIDE DEF F, P
<1>6. kind # "rotate-publisher" /\ kind # "rotate-tap"
  BY <1>2
<1> QED
  BY <1>2, <1>3, <1>4, <1>5, <1>6, StageKeeps

-----------------------------------------------------------------------------
(* The publisher's builds. *)

\* The workspace that reserved a build.
Reserved(w, t) == [w EXCEPT !.reserved = t]

LEMMA ReservedFields ==
    ASSUME NEW w \in Workspaces, NEW t
    PROVE  Reserved(w, t) =
             [tapKey |-> w.tapKey, pubKey |-> w.pubKey, seq |-> w.seq, pkgs |-> w.pkgs,
              rots |-> w.rots, taprots |-> w.taprots, revP |-> w.revP, revK |-> w.revK,
              pending |-> w.pending, coords |-> w.coords, files |-> w.files,
              last |-> w.last, reserved |-> t]
  BY WorkspaceFields DEF Reserved

LEMMA ReservedOk ==
    ASSUME PublisherAssumption, NEW w, WsOk(w), NEW t \in Trees,
           t.idx.seq = 1 + High(w)
    PROVE  /\ WsOk(Reserved(w, t)) /\ High(Reserved(w, t)) = t.idx.seq
           /\ \A k : PendingOf(Reserved(w, t), k) = PendingOf(w, k)
<1> DEFINE v == Reserved(w, t)
<1>1. v = [tapKey |-> w.tapKey, pubKey |-> w.pubKey, seq |-> w.seq, pkgs |-> w.pkgs,
           rots |-> w.rots, taprots |-> w.taprots, revP |-> w.revP, revK |-> w.revK,
           pending |-> w.pending, coords |-> w.coords, files |-> w.files,
           last |-> w.last, reserved |-> t]
  BY ReservedFields DEF WsOk
<1> HIDE DEF v
<1>2. \A k : PendingOf(v, k) = PendingOf(w, k)
  BY <1>1 DEF PendingOf
<1>3. v \in Workspaces
  BY <1>1 DEF WsOk, Workspaces
<1>4. ChainOk(v) /\ PackagesOk(v)
  BY <1>1 DEF WsOk, ChainOk, PackagesOk
<1>5. StagedOk(v)
  BY <1>1, <1>2 DEF WsOk, StagedOk
<1>6. High(v) = t.idx.seq
  <2>1. t # NoTree
    BY DEF PublisherAssumption
  <2>2. High(w) \in Nat /\ w.seq \in Nat /\ w.seq <= High(w)
    BY Sequences DEF WsOk
  <2>3. t.idx.seq > w.seq
    BY <2>2
  <2> QED
    BY <1>1, <2>1, <2>3 DEF High
<1> QED
  BY <1>2, <1>3, <1>4, <1>5, <1>6 DEF WsOk, v

LEMMA ReserveKeeps ==
    ASSUME PublisherAssumption, PubInv, NEW bypass, Reserve(bypass)
    PROVE  PubInv'
<1> DEFINE tree == Built(ws)
           v == Reserved(ws, tree)
<1>1. /\ Locked /\ nextSequence(ws) <= MaxSeq
      /\ verifyBuiltDistribution(ws, tree)
      /\ ws' = v
      /\ bld' = [at |-> "reserved", tree |-> tree, base |-> ws, old |-> NoTree]
      /\ UNCHANGED <<dist, served, verifier>>
  BY DEF Reserve, Built, Reserved
<1>2. WsOk(ws) /\ ws \in Workspaces
  BY DEF PubInv, WsOk
<1>3. tree \in Trees
  BY <1>1, <1>2, BuiltType
<1>4. tree.idx.seq = 1 + High(ws) /\ High(ws) \in Nat
  BY <1>2, BuiltRots, Sequences DEF Built
<1>5. /\ v.rots = ws.rots /\ v.pubKey = ws.pubKey /\ v.coords = ws.coords
      /\ v.revP = ws.revP /\ v.revK = ws.revK
  BY <1>2, ReservedFields
<1>6. v = [ws EXCEPT !.reserved = tree]
  BY DEF Reserved
<1> HIDE DEF tree, v
<1>7. /\ WsOk(v) /\ High(v) = tree.idx.seq
      /\ \A k : PendingOf(v, k) = PendingOf(ws, k)
  BY <1>2, <1>3, <1>4, ReservedOk DEF v
<1>8. ASSUME NEW t \in served
      PROVE  IndexOk(t.idx) /\ OutOf(v, t.idx) /\ t.idx.seq < tree.idx.seq
  <2>1. IndexOk(t.idx) /\ OutOf(ws, t.idx) /\ t \in Trees
    BY <1>8 DEF PubInv, ServedOk
  <2>2. t.idx.seq \in Nat
    BY <2>1 DEF Trees, Indexes, PublisherAssumption
  <2>3. t.idx.seq <= High(ws)
    BY <2>1 DEF OutOf
  <2>4. t.idx.seq < tree.idx.seq /\ t.idx.seq <= High(v)
    BY <1>4, <1>7, <2>2, <2>3
  <2> QED
    BY <1>5, <1>7, <2>1, <2>4 DEF OutOf
<1>9. ServedOk'
  <2>1. served' = served /\ ws' = v
    BY <1>1
  <2> QED
    BY <1>8, <2>1 DEF PubInv, ServedOk, SequencesUnique
<1>10. BuildOk'
  <2>1. /\ bld'.at = "reserved" /\ bld'.tree = tree /\ bld'.base = ws /\ bld'.old = NoTree
        /\ bld' = [at |-> bld'.at, tree |-> bld'.tree, base |-> bld'.base, old |-> bld'.old]
    BY <1>1
  <2>2. tree = Built(ws) /\ ws' = v /\ served' = served
    BY <1>1 DEF tree
  <2>3. ws' = [bld'.base EXCEPT !.reserved = bld'.tree]
    BY <1>6, <2>1, <2>2
  <2> QED
    BY <1>1, <1>2, <1>8, <2>1, <2>2, <2>3 DEF BuildOk
<1>11. OutputOk'
  BY <1>1 DEF PubInv, OutputOk
<1> QED
  BY <1>1, <1>7, <1>9, <1>10, <1>11 DEF PubInv

\* What is known of a build in progress.
LEMMA BuildFacts ==
    ASSUME PublisherAssumption, PubInv, bld.at # "idle"
    PROVE  /\ WsOk(bld.base) /\ bld.tree = Built(bld.base) /\ bld.tree \in Trees
           /\ bld.tree.idx = buildSignedIndex(bld.base)
           /\ ws = Reserved(bld.base, bld.tree)
           /\ ws.rots = bld.base.rots /\ ws.pubKey = bld.base.pubKey
           /\ ws.coords = bld.base.coords /\ ws.pending = bld.base.pending
           /\ ws.revP = bld.base.revP /\ ws.revK = bld.base.revK
           /\ High(ws) = bld.tree.idx.seq /\ High(ws) = 1 + High(bld.base)
           /\ bld.tree.idx.pub \notin bld.tree.idx.revK
           /\ nextSequence(bld.base) <= MaxSeq
<1>1. /\ WsOk(bld.base) /\ nextSequence(bld.base) <= MaxSeq /\ bld.tree = Built(bld.base)
      /\ ws = [bld.base EXCEPT !.reserved = bld.tree]
      /\ verifyBuiltDistribution(bld.base, bld.tree)
  BY DEF PubInv, BuildOk
<1>2. bld.tree \in Trees /\ bld.tree.idx = buildSignedIndex(bld.base)
  BY <1>1, BuiltType DEF Built
<1>3. ws = Reserved(bld.base, bld.tree)
  BY <1>1 DEF Reserved
<1>4. bld.tree.idx.seq = 1 + High(bld.base)
  BY <1>1, <1>2, BuiltRots
<1>5. High(ws) = bld.tree.idx.seq
  BY <1>1, <1>2, <1>3, <1>4, ReservedOk
<1>6. /\ ws.rots = bld.base.rots /\ ws.pubKey = bld.base.pubKey
      /\ ws.coords = bld.base.coords /\ ws.pending = bld.base.pending
      /\ ws.revP = bld.base.revP /\ ws.revK = bld.base.revK
  <2>1. bld.base \in Workspaces
    BY <1>1 DEF WsOk
  <2> HIDE DEF Reserved
  <2> QED
    BY <1>3, <2>1, ReservedFields
<1>7. bld.tree.idx.pub \notin bld.tree.idx.revK
  BY <1>1 DEF verifyBuiltDistribution, Advances, assertNoRevokedActiveKeys
<1> QED
  BY <1>1, <1>2, <1>3, <1>4, <1>5, <1>6, <1>7

\* An index that went out of the workspace, before its build or as that build.
LEMMA ServedBehindBuild ==
    ASSUME PublisherAssumption, PubInv, bld.at # "idle", NEW t \in served
    PROVE  Earlier(t.idx, bld.tree.idx)
<1> DEFINE b == bld.base
           i == bld.tree.idx
           j == t.idx
<1>1. /\ WsOk(b) /\ i = buildSignedIndex(b)
      /\ ws.rots = b.rots /\ ws.pubKey = b.pubKey /\ ws.pending = b.pending
      /\ ws.revP = b.revP /\ ws.revK = b.revK
  BY BuildFacts
<1>2. \A k : PendingOf(ws, k) = PendingOf(b, k)
  BY <1>1 DEF PendingOf
<1>3. OutOf(ws, j) /\ IndexOk(j)
  BY DEF PubInv, ServedOk
<1> HIDE DEF b, i, j
<1>4. /\ j.pub \in KeysOf(j.rots)
      /\ \/ Behind(j, b.rots, b.pubKey)
         \/ /\ j.pub \in PendingOf(b, "rotate-publisher")
            /\ KeysOf(j.rots) = KeysOf(b.rots) \cup {j.pub}
  BY <1>1, <1>2, <1>3 DEF OutOf, IndexOk
<1>5. Behind(j, i.rots, i.pub)
  BY <1>1, <1>4, BuiltBehind
<1>6. j.revP \subseteq i.revP /\ j.revK \subseteq i.revK
  <2>1. /\ i.revP = b.revP \cup PendingOf(b, "revoke-package")
        /\ i.revK = b.revK \cup PendingOf(b, "revoke-publisher-key")
    BY <1>1, BuiltFields
  <2> QED
    BY <1>1, <1>2, <1>3, <2>1 DEF OutOf
<1> QED
  BY <1>5, <1>6 DEF Earlier, i, j

LEMMA MoveInKeeps ==
    ASSUME PublisherAssumption, PubInv, MoveIn
    PROVE  PubInv'
<1> DEFINE b == bld.base
           t == bld.tree
           new == [bld EXCEPT !.at = "published"]
<1>1. /\ bld.at = "moved" /\ dist' = t /\ served' = served \cup {t}
      /\ bld' = new /\ UNCHANGED <<ws, verifier>>
  BY DEF MoveIn
<1>2. /\ WsOk(b) /\ t = Built(b) /\ t \in Trees /\ t.idx = buildSignedIndex(b)
      /\ ws.rots = b.rots /\ ws.pubKey = b.pubKey
      /\ ws.coords = b.coords /\ ws.pending = b.pending
      /\ ws.revP = b.revP /\ ws.revK = b.revK
      /\ High(ws) = t.idx.seq /\ t.idx.pub \notin t.idx.revK
  BY <1>1, BuildFacts
<1>3. /\ \A s \in served : s.idx.seq < t.idx.seq
      /\ \A s \in served : s.idx.seq \in Nat
      /\ t.idx.seq \in Nat
  BY <1>1, <1>2 DEF PubInv, BuildOk, ServedOk, Trees, Indexes, PublisherAssumption
<1>4. \A s \in served : Earlier(s.idx, t.idx)
  BY <1>1, ServedBehindBuild
<1>5. new = [at |-> "published", tree |-> t, base |-> b, old |-> bld.old]
  <2>1. bld = [at |-> bld.at, tree |-> bld.tree, base |-> bld.base, old |-> bld.old]
    BY <1>1 DEF PubInv, BuildOk
  <2> QED
    BY <2>1
<1> HIDE DEF b, t, new
<1>6. IndexOk(t.idx)
  BY <1>2, BuiltRots DEF IndexOk
<1>7. OutOf(ws, t.idx)
  <2> DEFINE v == ws
  <2>1. /\ v.rots = b.rots /\ v.pubKey = b.pubKey /\ v.coords = b.coords
        /\ v.revP = b.revP /\ v.revK = b.revK /\ v.pending = b.pending
        /\ buildSignedIndex(b).seq <= High(v)
    BY <1>2, <1>3
  <2> HIDE DEF v
  <2>2. OutOf(v, buildSignedIndex(b))
    BY <1>2, <2>1, BuiltOut
  <2> QED
    BY <1>2, <2>2 DEF v
<1>8. ServedOk'
  <2>1. \A s \in served' : IndexOk(s.idx) /\ OutOf(ws, s.idx) /\ s \in Trees
    BY <1>1, <1>2, <1>6, <1>7 DEF PubInv, ServedOk
  <2>2. \A r, s \in served' : r.idx.seq = s.idx.seq => r = s
    BY <1>1, <1>3 DEF PubInv, ServedOk, SequencesUnique
  <2>3. \A r, s \in served' : r.idx.seq < s.idx.seq => Earlier(r.idx, s.idx)
    BY <1>1, <1>3, <1>4 DEF PubInv, ServedOk
  <2> QED
    BY <1>1, <2>1, <2>2, <2>3 DEF ServedOk, SequencesUnique
<1>9. BuildOk'
  <2>1. /\ new.at = "published" /\ new.tree = t /\ new.base = b /\ new.old = bld.old
        /\ new = [at |-> new.at, tree |-> new.tree, base |-> new.base, old |-> new.old]
    BY <1>5
  <2>2. /\ nextSequence(b) <= MaxSeq /\ ws = [b EXCEPT !.reserved = t]
        /\ verifyBuiltDistribution(b, t) /\ bld.old \in served \cup {NoTree}
    BY <1>1 DEF PubInv, BuildOk, b, t
  <2>3. bld' = new /\ ws' = ws /\ served' = served \cup {t}
    BY <1>1
  <2> QED
    BY <1>2, <2>1, <2>2, <2>3 DEF BuildOk
<1>10. OutputOk'
  BY <1>1 DEF PubInv, OutputOk
<1> QED
  BY <1>1, <1>8, <1>9, <1>10 DEF PubInv

LEMMA CommitKeeps ==
    ASSUME PublisherAssumption, PubInv, commitBuild
    PROVE  PubInv'
<1> DEFINE b == bld.base
           t == bld.tree
           i == bld.tree.idx
           s == signPendingIntents(b)
           v == [s EXCEPT !.last = t, !.reserved = NoTree]
<1>1. /\ bld.at = "published" /\ ws' = v
      /\ bld'.at = "idle" /\ UNCHANGED <<dist, served, verifier>>
  BY DEF commitBuild, NoBuild
<1>2. /\ WsOk(b) /\ t = Built(b) /\ t \in Trees /\ i = buildSignedIndex(b)
      /\ ws.coords = b.coords /\ ws.pending = b.pending
      /\ ws.revP = b.revP /\ ws.revK = b.revK
      /\ High(ws) = i.seq /\ High(ws) = 1 + High(b) /\ i.pub \notin i.revK
      /\ nextSequence(b) <= MaxSeq
  BY <1>1, BuildFacts
<1>3. b \in Workspaces
  BY <1>2 DEF WsOk
<1>4. /\ i.seq = nextSequence(b)
      /\ i.signer = NextKey(b, "rotate-tap", b.tapKey)
      /\ i.pub = NextKey(b, "rotate-publisher", b.pubKey)
      /\ i.rots = b.rots \cup signPublisherRotation(b, nextSequence(b))
      /\ i.revP = b.revP \cup PendingOf(b, "revoke-package")
      /\ i.revK = b.revK \cup PendingOf(b, "revoke-publisher-key")
  BY <1>2, BuiltFields
<1> DEFINE taprots == b.taprots \cup signTapRotation(b, nextSequence(b))
           pkgs == resignPackages(b)
<1>5. s = [tapKey |-> i.signer, pubKey |-> i.pub, seq |-> i.seq, pkgs |-> pkgs,
           rots |-> i.rots, taprots |-> taprots, revP |-> i.revP, revK |-> i.revK,
           pending |-> {}, coords |-> b.coords, files |-> b.files,
           last |-> b.last, reserved |-> b.reserved]
  BY <1>3, <1>4, SignedFields
<1>6. t \in Trees /\ i = t.idx
  BY <1>2
<1>7. v = [[s EXCEPT !.last = t] EXCEPT !.reserved = NoTree]
  OBVIOUS
<1> HIDE DEF b, t, i, s, v, taprots, pkgs
<1>8. v = [tapKey |-> i.signer, pubKey |-> i.pub, seq |-> i.seq, pkgs |-> pkgs,
           rots |-> i.rots, taprots |-> taprots, revP |-> i.revP, revK |-> i.revK,
           pending |-> {}, coords |-> b.coords, files |-> b.files,
           last |-> t, reserved |-> NoTree]
  <2> DEFINE u == [s EXCEPT !.last = t]
  <2>1. u = [tapKey |-> i.signer, pubKey |-> i.pub, seq |-> i.seq, pkgs |-> pkgs,
             rots |-> i.rots, taprots |-> taprots, revP |-> i.revP, revK |-> i.revK,
             pending |-> {}, coords |-> b.coords, files |-> b.files,
             last |-> t, reserved |-> b.reserved]
    BY <1>5
  <2>2. v = [u EXCEPT !.reserved = NoTree]
    BY <1>7
  <2> HIDE DEF u
  <2> QED
    BY <2>1, <2>2
<1>9. v \in Workspaces
  <2>1. i \in Indexes
    BY <1>6 DEF Trees
  <2>2. pkgs \subseteq Envelopes
    BY <1>2, BuiltPackages DEF pkgs
  <2>3. taprots \subseteq Rotations
    <3>1. PendingOf(b, "rotate-tap") \subseteq Keys /\ b.tapKey \in Keys
      BY <1>3, PendingTypes DEF Workspaces, Keys
    <3>2. nextSequence(b) \in 1..MaxSeq
      BY <1>4, <2>1 DEF Indexes
    <3>3. signTapRotation(b, nextSequence(b)) \subseteq Rotations
      BY <3>1, <3>2 DEF signTapRotation, Rotations
    <3> QED
      BY <1>3, <3>3 DEF taprots, Workspaces
  <2>4. i.seq \in 0..MaxSeq
    BY <2>1 DEF Indexes, PublisherAssumption
  <2> QED
    BY <1>3, <1>6, <1>8, <2>1, <2>2, <2>3, <2>4 DEF Workspaces, Indexes
<1>10. ChainOk(v)
  <2> DEFINE new == [from |-> b.pubKey, to |-> i.pub, eff |-> nextSequence(b)]
  <2>1. v.rots = i.rots /\ v.pubKey = i.pub /\ v.seq = i.seq
    BY <1>8
  <2>2. /\ \A r \in i.rots : r.eff <= i.seq
        /\ \A r, q \in i.rots : r.from = q.from => r = q
        /\ KeysOf(i.rots) \subseteq PubKeys
        /\ KeysOf(i.rots) = KeysOf(b.rots) \cup {i.pub}
    BY <1>2, BuiltRots
  <2>3. /\ \A r, q \in b.rots : r.to = q.to => r = q
        /\ \A r \in b.rots : r.from # b.pubKey /\ r.to # FirstPub
        /\ KeysOf(b.rots) = {b.pubKey} \cup {r.from : r \in b.rots}
        /\ FirstPub \in KeysOf(b.rots)
    BY <1>2 DEF WsOk, ChainOk, KeysOf
  <2>4. CASE i.rots = b.rots /\ i.pub = b.pubKey
    BY <2>1, <2>2, <2>3, <2>4 DEF ChainOk
  <2>5. CASE i.pub \notin KeysOf(b.rots) /\ i.rots = b.rots \cup {new}
    <3>1. \A r \in b.rots : r.to \in KeysOf(b.rots) /\ r.from \in KeysOf(b.rots)
      BY <2>3 DEF KeysOf
    <3>2. \A r \in i.rots : r \in b.rots \/ r = new
      BY <2>5
    <3>3. \A r, q \in i.rots : r.to = q.to => r = q
      BY <2>3, <2>5, <3>1, <3>2
    <3>4. \A r \in i.rots : r.from # i.pub /\ r.to # FirstPub
      BY <2>3, <2>5, <3>1, <3>2
    <3>5. {r.from : r \in i.rots} = {b.pubKey} \cup {r.from : r \in b.rots}
      <4>1. new.from = b.pubKey
        OBVIOUS
      <4> HIDE DEF new
      <4> QED
        BY <2>5, <4>1
    <3> QED
      BY <2>1, <2>2, <2>3, <3>3, <3>4, <3>5 DEF ChainOk
  <2>6. \/ i.rots = b.rots /\ i.pub = b.pubKey
        \/ i.pub \notin KeysOf(b.rots) /\ i.rots = b.rots \cup {new}
    BY <1>2, BuiltChain
  <2> QED
    BY <2>4, <2>5, <2>6
<1>11. \A k : PendingOf(v, k) = {}
  BY <1>8 DEF PendingOf
<1>12. StagedOk(v)
  <2>1. v.pubKey = i.pub /\ v.revK = i.revK /\ i.pub \notin i.revK
    BY <1>2, <1>8
  <2> QED
    BY <1>11, <2>1 DEF StagedOk, Single
<1>13. PackagesOk(v)
  <2>1. v.coords = b.coords /\ v.pkgs = pkgs /\ v.pubKey = i.pub
    BY <1>8
  <2>2. \A e \in pkgs : [c |-> e.c, d |-> e.d] \in b.coords /\ e.k = i.pub
    BY <1>2, <1>4, BuiltPackages DEF pkgs
  <2>3. \A p, q \in b.coords : p.c = q.c => p = q
    BY <1>2 DEF WsOk, PackagesOk
  <2> QED
    BY <2>1, <2>2, <2>3 DEF PackagesOk
<1>14. WsOk(v)
  BY <1>9, <1>10, <1>12, <1>13 DEF WsOk
<1>15. ASSUME NEW u \in served PROVE OutOf(v, u.idx)
  <2>1. OutOf(ws, u.idx)
    BY DEF PubInv, ServedOk
  <2>2. Earlier(u.idx, i)
    BY <1>1, <1>15, ServedBehindBuild DEF i
  <2>3. High(v) = High(ws)
    BY <1>2, <1>8 DEF High
  <2>4. v.coords = ws.coords /\ v.revP = i.revP /\ v.revK = i.revK
        /\ v.rots = i.rots /\ v.pubKey = i.pub
    BY <1>2, <1>8
  <2> QED
    BY <2>1, <2>2, <2>3, <2>4 DEF OutOf, Earlier
<1>16. ServedOk'
  BY <1>1, <1>15 DEF PubInv, ServedOk, SequencesUnique
<1>17. BuildOk' /\ OutputOk'
  BY <1>1 DEF PubInv, BuildOk, OutputOk
<1> QED
  BY <1>1, <1>14, <1>16, <1>17 DEF PubInv

LEMMA SwapKeeps ==
    ASSUME PublisherAssumption, PubInv, MoveAside \/ MoveInFails \/ BuildDies
    PROVE  PubInv'
<1>1. /\ UNCHANGED <<ws, served, verifier>> /\ bld.at # "idle"
      /\ dist' \in {dist, bld.old, NoTree}
  BY DEF MoveAside, MoveInFails, BuildDies
<1>2. ServedOk'
  BY <1>1 DEF PubInv, ServedOk, SequencesUnique
<1>3. OutputOk'
  BY <1>1 DEF PubInv, OutputOk, BuildOk
<1>4. CASE MoveAside
  <2> DEFINE new == [bld EXCEPT !.at = "moved", !.old = dist]
  <2>1. bld = [at |-> bld.at, tree |-> bld.tree, base |-> bld.base, old |-> bld.old]
    BY <1>1 DEF PubInv, BuildOk
  <2>2. new = [at |-> "moved", tree |-> bld.tree, base |-> bld.base, old |-> dist]
    <3> DEFINE mid == [bld EXCEPT !.at = "moved"]
    <3>1. mid = [at |-> "moved", tree |-> bld.tree, base |-> bld.base, old |-> bld.old]
      BY <2>1
    <3>2. new = [mid EXCEPT !.old = dist]
      OBVIOUS
    <3> HIDE DEF mid, new
    <3> QED
      BY <3>1, <3>2
  <2>3. bld' = new /\ bld.at = "reserved"
    BY <1>4 DEF MoveAside
  <2> HIDE DEF new
  <2>4. /\ new.at = "moved" /\ new.tree = bld.tree /\ new.base = bld.base
        /\ new.old = dist
        /\ new = [at |-> new.at, tree |-> new.tree, base |-> new.base, old |-> new.old]
    BY <2>2
  <2>5. /\ WsOk(bld.base) /\ nextSequence(bld.base) <= MaxSeq
        /\ bld.tree = Built(bld.base) /\ ws = [bld.base EXCEPT !.reserved = bld.tree]
        /\ verifyBuiltDistribution(bld.base, bld.tree)
        /\ \A t \in served : t.idx.seq < bld.tree.idx.seq
        /\ dist \in served \cup {NoTree}
    BY <2>3 DEF PubInv, BuildOk, OutputOk
  <2>6. BuildOk'
    BY <1>1, <2>3, <2>4, <2>5 DEF BuildOk
  <2> QED
    BY <1>1, <1>2, <1>3, <2>6 DEF PubInv
<1>5. CASE MoveInFails \/ BuildDies
  <2>1. bld'.at = "idle"
    BY <1>5 DEF MoveInFails, BuildDies, NoBuild
  <2>2. BuildOk'
    BY <2>1 DEF BuildOk
  <2> QED
    BY <1>1, <1>2, <1>3, <2>2 DEF PubInv
<1> QED
  BY <1>4, <1>5

LEMMA VerifyKeeps ==
    ASSUME PubInv, VerifyIndex \/ VerifyPackages \/ VerifyVerdict \/ VerifyDone
    PROVE  PubInv'
<1>1. UNCHANGED <<ws, bld, dist, served>>
  BY DEF VerifyIndex, VerifyPackages, VerifyVerdict, VerifyDone
<1>2. ServedOk' /\ BuildOk' /\ WsOk(ws')
  BY <1>1 DEF PubInv, ServedOk, SequencesUnique, BuildOk
<1>3. \/ verifier'.at = "idle"
      \/ /\ verifier'.root \in served
         /\ verifier' = [at |-> verifier'.at, root |-> verifier'.root, idx |-> verifier'.idx]
  <2>1. CASE VerifyIndex
    <3>1. dist \in served
      BY <2>1 DEF VerifyIndex, PubInv, OutputOk
    <3>2. verifier' = [at |-> "index", root |-> dist, idx |-> dist.idx]
      BY <2>1 DEF VerifyIndex
    <3> QED
      BY <3>1, <3>2
  <2>2. CASE verifier.at # "idle" /\ \E at : verifier' = [verifier EXCEPT !.at = at]
    <3>1. PICK at : verifier' = [verifier EXCEPT !.at = at]
      BY <2>2
    <3>2. /\ verifier = [at |-> verifier.at, root |-> verifier.root, idx |-> verifier.idx]
          /\ verifier.root \in served
      BY <2>2 DEF PubInv, OutputOk
    <3>3. verifier' = [at |-> at, root |-> verifier.root, idx |-> verifier.idx]
      BY <3>1, <3>2
    <3> QED
      BY <3>2, <3>3
  <2>3. CASE verifier' = NoVerify
    BY <2>3 DEF NoVerify
  <2>4. VerifyPackages \/ VerifyVerdict \/ VerifyDone
          => \/ verifier' = NoVerify
             \/ verifier.at # "idle" /\ \E at : verifier' = [verifier EXCEPT !.at = at]
    BY DEF VerifyPackages, VerifyVerdict, VerifyDone
  <2> QED
    BY <2>1, <2>2, <2>3, <2>4
<1>4. OutputOk'
  BY <1>1, <1>3 DEF PubInv, OutputOk
<1> QED
  BY <1>1, <1>2, <1>4 DEF PubInv

LEMMA PublisherKeeps ==
    ASSUME PublisherAssumption, PubInv, [PublisherNext]_pubvars
    PROVE  PubInv'
<1>1. CASE UNCHANGED pubvars
  BY <1>1 DEF pubvars, PubInv, ServedOk, SequencesUnique, BuildOk, OutputOk
<1>2. CASE PublisherNext
  BY <1>2, AddPackageKeeps, RotateKeeps, RevokeKeeps, ReserveKeeps, MoveInKeeps, CommitKeeps,
     SwapKeeps, VerifyKeeps DEF PublisherNext
<1> QED
  BY <1>1, <1>2

LEMMA PublisherStarts ==
    ASSUME PublisherAssumption, PublisherInit
    PROVE  PubInv
<1>1. ws = freshWorkspace /\ served = {} /\ bld.at = "idle" /\ dist = NoTree
      /\ verifier.at = "idle"
  BY DEF PublisherInit, NoBuild, NoVerify
<1>2. ws \in Workspaces
  BY <1>1 DEF freshWorkspace, Workspaces, Keys, PublisherAssumption
<1>3. KeysOf({}) = {FirstPub} /\ \A k : PendingOf(ws, k) = {}
  BY <1>1 DEF KeysOf, PendingOf, freshWorkspace
<1>4. ChainOk(ws) /\ StagedOk(ws) /\ PackagesOk(ws)
  BY <1>1, <1>3 DEF freshWorkspace, ChainOk, StagedOk, PackagesOk, Single, PublisherAssumption
<1>5. ServedOk /\ BuildOk /\ OutputOk
  BY <1>1 DEF ServedOk, SequencesUnique, BuildOk, OutputOk
<1> QED
  BY <1>2, <1>4, <1>5 DEF PubInv, WsOk

\* The publisher of a tap is sound in every state of the invariant.
LEMMA SoundPublisher ==
    ASSUME PublisherAssumption, PubInv
    PROVE  PublisherSound
  BY BuildsMade DEF PubInv, PublisherSound, ServedOk, BuildsOnceStaged, Built

-----------------------------------------------------------------------------
(* What a reader accepts. *)

\* The tap key of an accepted index is none that was retired.
LEMMA NextKeyFresh ==
    ASSUME NEW i, NEW key, NEW retired, AcceptsTapKey(i, key, retired), key \notin retired
    PROVE  i.signer \notin (IF i.signer = key THEN retired ELSE retired \cup {key})
  BY DEF AcceptsTapKey, verifyTapKeyRotation

\* The state after index i, field by field.
LEMMA NextFields ==
    ASSUME NEW s \in TapStates, NEW i
    PROVE  /\ nextSource(s, i) =
                [on |-> s.on, key |-> i.signer,
                 retired |-> IF i.signer = s.key THEN s.retired ELSE s.retired \cup {s.key},
                 acc |-> i, pins |-> advancePublisherPins(i, s.pins)]
<1> DEFINE retired == IF i.signer = s.key THEN s.retired ELSE s.retired \cup {s.key}
           pins == advancePublisherPins(i, s.pins)
           key == i.signer
<1>1. nextSource(s, i) =
        [s EXCEPT !.key = key, !.retired = retired, !.acc = i, !.pins = pins]
  BY DEF nextSource
<1>2. s = [on |-> s.on, key |-> s.key, retired |-> s.retired, acc |-> s.acc, pins |-> s.pins]
  BY DEF TapStates
<1> HIDE DEF retired, pins, key
<1>3. nextSource(s, i) =
        [on |-> s.on, key |-> key, retired |-> retired, acc |-> i, pins |-> pins]
  BY <1>1, <1>2
<1> QED
  BY <1>3 DEF retired, pins, key

\* A state that pins an index is behind every later index of the tap.
LEMMA SourceEarlier ==
    ASSUME PublisherAssumption, PubInv, NEW s, SourceOk(s),
           NEW t \in served, t.idx.seq > s.pins.seq
    PROVE  \/ s.pins = EmptyPins
           \/ \E u \in served : PinsTo(s, u.idx, ws.coords) /\ Earlier(u.idx, t.idx)
<1>1. ASSUME NEW u \in served, PinsTo(s, u.idx, ws.coords)
      PROVE  Earlier(u.idx, t.idx)
  <2>1. u.idx.seq = s.pins.seq /\ u.idx.seq \in Nat /\ t.idx.seq \in Nat
    BY <1>1 DEF PinsTo, PubInv, ServedOk, Trees, Indexes, PublisherAssumption
  <2>2. u.idx.seq < t.idx.seq
    BY <2>1
  <2> QED
    BY <2>2 DEF PubInv, ServedOk
<1> QED
  BY <1>1 DEF SourceOk, SourceIn

\* What every served index is.
LEMMA ServedIndex ==
    ASSUME PublisherAssumption, PubInv, NEW t \in served
    PROVE  /\ t.idx \in Indexes /\ IndexOk(t.idx) /\ t.idx.pkgs \subseteq ws.coords
           /\ \A r \in t.idx.rots : r.eff \in Nat
           /\ t.idx.seq \in Nat /\ t.idx.seq # 0 /\ t.idx.seq <= MaxSeq
           /\ rotationMap(t.idx) = t.idx.rots
<1>1. t \in Trees /\ IndexOk(t.idx) /\ OutOf(ws, t.idx)
  BY DEF PubInv, ServedOk
<1>2. t.idx \in Indexes
  BY <1>1 DEF Trees
<1>3. /\ t.idx.rots \subseteq Rotations /\ t.idx.seq \in 1..MaxSeq
  BY <1>2 DEF Indexes
<1>4. \A r \in t.idx.rots : r.eff \in Nat
  BY <1>3 DEF Rotations, PublisherAssumption
<1>5. rotationMap(t.idx) = t.idx.rots
  BY <1>1 DEF IndexOk, rotationMap
<1> QED
  BY <1>1, <1>2, <1>3, <1>4, <1>5 DEF OutOf, PublisherAssumption

\* A reader moves on to a later index it accepts, and only forward.
LEMMA NextSourceOk ==
    ASSUME PublisherAssumption, PubInv, NEW s, SourceOk(s), NEW t \in served,
           AcceptsTapKey(t.idx, s.key, s.retired), t.idx.seq > s.pins.seq
    PROVE  SourceOk(nextSource(s, t.idx)) /\ Forward(s, nextSource(s, t.idx))
<1> DEFINE i == t.idx
           n == nextSource(s, i)
           p == advancePublisherPins(i, s.pins)
           retired == IF i.signer = s.key THEN s.retired ELSE s.retired \cup {s.key}
<1>1. s \in TapStates /\ s.key \notin s.retired /\ s.pins \in Pins /\ s.key \in TapKeys
      /\ s.retired \subseteq TapKeys
  BY DEF SourceOk, SourceIn, TapStates
<1>2. n = [on |-> s.on, key |-> i.signer, retired |-> retired, acc |-> i, pins |-> p]
  BY <1>1, NextFields
<1>3. /\ p.seq = i.seq /\ p.pub = i.pub
      /\ p.hist = s.pins.hist \cup acceptedPublisherKeys(i, s.pins.pub)
      /\ p.coords = s.pins.coords \cup i.pkgs
      /\ p.revP = s.pins.revP \cup i.revP /\ p.revK = s.pins.revK \cup i.revK
      /\ p = [seq |-> p.seq, pub |-> p.pub, hist |-> p.hist, coords |-> p.coords,
              revP |-> p.revP, revK |-> p.revK]
  BY DEF advancePublisherPins
<1>4. /\ i \in Indexes /\ IndexOk(i) /\ i.pkgs \subseteq ws.coords
      /\ i.seq \in Nat /\ i.seq # 0 /\ i.seq <= MaxSeq /\ rotationMap(i) = i.rots
  BY ServedIndex
<1>5. i.signer \notin retired
  BY <1>1, NextKeyFresh
<1>6. acceptedPublisherKeys(i, s.pins.pub) \subseteq KeysOf(i.rots)
  <2>1. acceptedRotations(i, s.pins.pub) \subseteq i.rots
    BY <1>4 DEF acceptedRotations, followRotationChain
  <2> QED
    BY <1>4, <2>1 DEF acceptedPublisherKeys, KeysOf, IndexOk
<1>7. /\ s.pins.hist \subseteq KeysOf(i.rots) /\ s.pins.coords \subseteq ws.coords
      /\ s.pins.revP \subseteq i.revP /\ s.pins.revK \subseteq i.revK
  <2>1. CASE s.pins = EmptyPins
    BY <2>1 DEF EmptyPins
  <2>2. ASSUME NEW u \in served, PinsTo(s, u.idx, ws.coords), Earlier(u.idx, i)
        PROVE  /\ s.pins.hist \subseteq KeysOf(i.rots) /\ s.pins.coords \subseteq ws.coords
               /\ s.pins.revP \subseteq i.revP /\ s.pins.revK \subseteq i.revK
    BY <2>2 DEF PinsTo, Earlier, Behind
  <2> QED
    BY <2>1, <2>2, SourceEarlier
<1> HIDE DEF i, n, p, retired
<1>8. p.hist \subseteq KeysOf(i.rots) /\ p.coords \subseteq ws.coords
      /\ p.revP \subseteq i.revP /\ p.revK \subseteq i.revK
  BY <1>3, <1>4, <1>6, <1>7
<1>9. PinsTo(n, i, ws.coords)
  BY <1>2, <1>3, <1>8 DEF PinsTo
<1>10. p \in Pins
  <2>1. KeysOf(i.rots) \subseteq PubKeys /\ ws.coords \subseteq Packages
    BY <1>4 DEF IndexOk, PubInv, WsOk, Workspaces
  <2>2. i.seq \in 0..MaxSeq
    BY <1>4 DEF PublisherAssumption
  <2> QED
    BY <1>3, <1>4, <1>8, <2>1, <2>2 DEF Pins, Indexes
<1>11. n \in TapStates
  <2>1. retired \subseteq TapKeys /\ i.signer \in TapKeys
    BY <1>1, <1>4 DEF retired, Indexes
  <2> QED
    BY <1>1, <1>2, <1>4, <1>10, <2>1 DEF TapStates
<1>12. SourceOk(n)
  <2>1. n.key \notin n.retired
    BY <1>2, <1>5
  <2> QED
    BY <1>9, <1>11, <2>1 DEF SourceOk, SourceIn, i
<1>13. Forward(s, n)
  <2>1. s.pins.seq \in Nat
    BY <1>1 DEF Pins, PublisherAssumption
  <2>2. p.seq >= s.pins.seq
    BY <1>3, <1>4, <2>1 DEF i
  <2>3. s.retired \subseteq retired
    BY DEF retired
  <2> QED
    BY <1>2, <1>3, <2>2, <2>3 DEF Forward
<1> QED
  BY <1>12, <1>13 DEF n, i

\* Whatever a reader pinned, it can follow every later index.
LEMMA LaterAdvances ==
    ASSUME PublisherAssumption, PubInv, NEW s, SourceOk(s), NEW t \in served,
           t.idx.seq > s.pins.seq
    PROVE  Advances(t.idx, s.pins)
<1> DEFINE i == t.idx
           pins == s.pins
<1>1. /\ i \in Indexes /\ IndexOk(i) /\ i.pkgs \subseteq ws.coords
      /\ \A r \in i.rots : r.eff \in Nat
      /\ rotationMap(i) = i.rots
  BY ServedIndex
<1>2. i.pub \notin i.revK /\ i.seq > pins.seq
  BY <1>1 DEF IndexOk
<1>3. CASE pins = EmptyPins
  <2>1. pins.pub = NoKey /\ pins.hist = {} /\ pins.coords = {} /\ pins.revK = {}
    BY <1>3 DEF EmptyPins
  <2>2. acceptedRotations(i, pins.pub) = {}
    BY <2>1 DEF acceptedRotations
  <2> QED
    BY <1>2, <2>1, <2>2 DEF Advances, assertCoordinateContinuity, ChainHolds, registerKey,
       assertNoRevokedActiveKeys
<1>4. ASSUME NEW u \in served, PinsTo(s, u.idx, ws.coords), Earlier(u.idx, i)
      PROVE  Advances(i, pins)
  <2>1. /\ pins.pub = u.idx.pub /\ pins.hist \subseteq KeysOf(u.idx.rots)
        /\ pins.coords \subseteq ws.coords /\ pins.revK \subseteq i.revK
        /\ Behind(u.idx, i.rots, i.pub)
    BY <1>4 DEF PinsTo, Earlier
  <2>2. assertCoordinateContinuity(i, pins)
    <3>1. \A p, q \in ws.coords : p.c = q.c => p = q
      BY DEF PubInv, WsOk, PackagesOk
    <3> QED
      BY <1>1, <2>1, <3>1 DEF assertCoordinateContinuity
  <2>3. assertNoRevokedActiveKeys(i, pins)
    BY <1>2, <2>1 DEF assertNoRevokedActiveKeys
  <2>4. ChainHolds(i, pins.pub) /\ registerKey(pins.hist, acceptedRotations(i, pins.pub))
    <3>1. CASE pins.pub = i.pub
      BY <3>1 DEF ChainHolds, acceptedRotations, registerKey
    <3>2. CASE pins.pub # i.pub
      <4> DEFINE W == Ahead(u.idx, i.rots)
                 rots == i.rots
                 a == i.pub
                 b == pins.pub
      <4>1. LeadTo(W, b, a)
        BY <2>1, <3>2 DEF Behind
      <4>2. W \in SUBSET rots /\ \A r \in W : r.to \notin pins.hist
        BY <2>1 DEF Ahead
      <4>3. /\ \A r \in rots : r.eff \in Nat
            /\ \A r, q \in rots : r.from = q.from => r = q
        BY <1>1 DEF IndexOk
      <4>4. b # NoKey
        <5>1. u.idx \in Indexes
          BY ServedIndex
        <5> QED
          BY <2>1, <5>1 DEF Indexes, PublisherAssumption
      <4>5. W # {}
        BY <4>1 DEF LeadTo
      <4> HIDE DEF W, rots, a, b
      <4>6. followRotationChain(rots, b, a) = W
        BY <4>1, <4>2, <4>3, WalkFollowed
      <4>7. acceptedRotations(i, b) = W
        BY <1>1, <3>2, <4>4, <4>6 DEF acceptedRotations, rots, a, b
      <4>8. Unambiguous(rotationMap(i))
        BY <1>1, <4>3 DEF Unambiguous, rots
      <4> QED
        BY <4>2, <4>5, <4>7, <4>8 DEF ChainHolds, registerKey, b
    <3> QED
      BY <3>1, <3>2
  <2> QED
    BY <1>2, <2>2, <2>3, <2>4 DEF Advances
<1> QED
  BY <1>3, <1>4, SourceEarlier

-----------------------------------------------------------------------------
(* The steps of readers and of the project. *)

\* The publisher takes back no tree and no package.
LEMMA PublisherGrows ==
    ASSUME PublisherAssumption, PubInv, [PublisherNext]_pubvars
    PROVE  served \subseteq served' /\ ws.coords \subseteq ws'.coords
<1>1. CASE \E p \in Packages : addPackage(p)
  <2>1. PICK p \in Packages : addPackage(p)
    BY <1>1
  <2>2. ws \in Workspaces
    BY DEF PubInv, WsOk
  <2>3. ws'.coords = ws.coords \cup {p}
    <3> DEFINE pkgs == ws.pkgs \cup {[c |-> p.c, d |-> p.d, k |-> ws.pubKey]}
               coords == ws.coords \cup {p}
    <3>1. ws' = [ws EXCEPT !.pkgs = pkgs, !.coords = coords]
      BY <2>1 DEF addPackage
    <3> HIDE DEF pkgs, coords
    <3>2. ws'.coords = coords
      BY <2>2, <3>1, WorkspaceAdded
    <3> QED
      BY <3>2 DEF coords
  <2> QED
    BY <2>1, <2>3 DEF addPackage
<1>2. CASE commitBuild
  <2> DEFINE b == bld.base
  <2>1. ws.coords = b.coords /\ b \in Workspaces
    BY <1>2, BuildFacts DEF commitBuild, WsOk
  <2>2. ws' = [signPendingIntents(b) EXCEPT !.last = bld.tree, !.reserved = NoTree]
        /\ served' = served
    BY <1>2 DEF commitBuild
  <2>3. ws'.coords = signPendingIntents(b).coords
    <3> DEFINE s == signPendingIntents(b)
               t == bld.tree
    <3>1. ws' = [s EXCEPT !.last = t, !.reserved = NoTree]
      BY <2>2
    <3> HIDE DEF s, t
    <3> QED
      BY <3>1 DEF s
  <2>4. signPendingIntents(b).coords = b.coords
    BY <2>1, SignedFields
  <2> QED
    BY <2>1, <2>2, <2>3, <2>4
<1>3. CASE \/ UNCHANGED <<ws, served>>
           \/ MoveIn
  BY <1>3 DEF MoveIn
<1>4. CASE \/ \E k \in PubKeys : stageRotatePublisherKey(k) \/ stageRevokePublisherKey(k)
           \/ \E k \in TapKeys : stageRotateTapKey(k)
           \/ \E p \in Packages : stageRevokePackage(p)
           \/ \E bypass \in BOOLEAN : Reserve(bypass)
  <2>1. \/ \E kind, value : ws' = Staged(kind, value)
        \/ \E kind, key : createKeypairFile(key, Staged(kind, key))
        \/ \E tree : ws' = [ws EXCEPT !.reserved = tree]
    BY <1>4 DEF stageRotatePublisherKey, stageRotateTapKey, stageRevokePackage,
       stageRevokePublisherKey, Reserve
  <2>2. served' = served
    BY <1>4 DEF stageRotatePublisherKey, stageRotateTapKey, stageRevokePackage,
       stageRevokePublisherKey, Reserve
  <2>3. ws'.coords = ws.coords
    <3>1. CASE \E kind, value : ws' = Staged(kind, value)
      BY <3>1 DEF Staged
    <3>2. CASE \E kind, key : createKeypairFile(key, Staged(kind, key))
      <4>1. PICK kind, key :
              \/ ws' = [Staged(kind, key) EXCEPT !.files = Staged(kind, key).files \cup {key}]
              \/ ws' = [ws EXCEPT !.files = ws.files \cup {key}]
        BY <3>2 DEF createKeypairFile
      <4> DEFINE P == ws.pending \cup {<<kind, key>>}
                 s == [ws EXCEPT !.pending = P]
                 F == s.files \cup {key}
                 G == ws.files \cup {key}
      <4>2. ws' = [s EXCEPT !.files = F] \/ ws' = [ws EXCEPT !.files = G]
        BY <4>1 DEF Staged
      <4> HIDE DEF F, G, P
      <4>3. CASE ws' = [s EXCEPT !.files = F]
        <5>1. s.coords = ws.coords /\ "coords" \in DOMAIN s /\ "coords" \in DOMAIN ws
          <6>1. ws \in Workspaces
            BY DEF PubInv, WsOk
          <6> QED
            BY <6>1 DEF Workspaces
        <5> HIDE DEF s
        <5> QED
          BY <4>3, <5>1
      <4>4. CASE ws' = [ws EXCEPT !.files = G]
        BY <4>4
      <4> QED
        BY <4>2, <4>3, <4>4
    <3>3. CASE \E tree : ws' = [ws EXCEPT !.reserved = tree]
      BY <3>3
    <3> QED
      BY <2>1, <3>1, <3>2, <3>3
  <2> QED
    BY <2>2, <2>3
<1>5. MoveAside \/ MoveInFails \/ BuildDies \/ VerifyIndex \/ VerifyPackages \/ VerifyVerdict
        \/ VerifyDone \/ UNCHANGED pubvars => UNCHANGED <<ws, served>>
  BY DEF MoveAside, MoveInFails, BuildDies, VerifyIndex, VerifyPackages, VerifyVerdict,
     VerifyDone, pubvars
<1> QED
  BY <1>1, <1>2, <1>3, <1>4, <1>5 DEF PublisherNext

\* So what a reader pinned stays what it can follow.
LEMMA SourceStays ==
    ASSUME NEW s, NEW S, NEW T, NEW C, NEW D, S \subseteq T, C \subseteq D, SourceIn(s, S, C)
    PROVE  SourceIn(s, T, D)
  BY DEF SourceIn, PinsTo

\* A refresher's record, for any tap state and tree set.
RefresherIn(j, r, S, C, held, now) ==
    /\ j.at \in {"idle", "read", "fetched", "cached"}
    /\ j.at # "idle" => SourceIn(j.from, S, C)
    /\ j.at \in {"fetched", "cached"} =>
          /\ j = [at |-> j.at, from |-> j.from, idx |-> j.idx, next |-> j.next]
          /\ SourceIn(j.next, S, C)
          /\ Forward(j.from, j.next)
    /\ j.at = "cached" => held = r /\ now = j.from

LEMMA RefresherForm ==
    ASSUME NEW r \in Refreshers
    PROVE  RefresherOk(r) <=> RefresherIn(refresh[r], r, served, ws.coords, tapLock, tap)
  BY DEF RefresherOk, RefresherIn, SourceOk

LEMMA RefresherStays ==
    ASSUME NEW j, NEW r, NEW S, NEW T, NEW C, NEW D, NEW held, NEW now,
           S \subseteq T, C \subseteq D, RefresherIn(j, r, S, C, held, now)
    PROVE  RefresherIn(j, r, T, D, held, now)
<1>1. \A s : SourceIn(s, S, C) => SourceIn(s, T, D)
  BY SourceStays
<1> QED
  BY <1>1 DEF RefresherIn

LEMMA IdleRefresher ==
    ASSUME NEW r, NEW S, NEW C, NEW held, NEW now
    PROVE  RefresherIn(NoJob, r, S, C, held, now)
  BY DEF RefresherIn, NoJob

\* The readers while the publisher moves on.
LEMMA ReadersStay ==
    ASSUME ReadersOk, UNCHANGED <<tap, refresh, tapLock>>,
           served \subseteq served', ws.coords \subseteq ws'.coords,
           \A i, j \in indexCache' : i.seq = j.seq => i = j
    PROVE  ReadersOk'
<1>1. ASSUME NEW r \in Refreshers PROVE RefresherOk(r)'
  <2>1. RefresherIn(refresh[r], r, served, ws.coords, tapLock, tap)
    BY RefresherForm DEF ReadersOk
  <2>2. RefresherIn(refresh[r], r, served', ws'.coords, tapLock, tap)
    BY <2>1, RefresherStays
  <2>3. refresh' = refresh /\ tapLock' = tapLock /\ tap' = tap
    OBVIOUS
  <2> QED
    BY <2>2, <2>3 DEF RefresherOk, RefresherIn, SourceOk
<1>2. tap' # NoTap => SourceOk(tap)'
  <2>1. tap # NoTap => SourceIn(tap, served, ws.coords)
    BY DEF ReadersOk, SourceOk
  <2>2. tap # NoTap => SourceIn(tap, served', ws'.coords)
    BY <2>1, SourceStays
  <2> QED
    BY <2>2 DEF SourceOk
<1> QED
  BY <1>1, <1>2 DEF ReadersOk

\* A step of one refresher.
LEMMA RefresherSteps ==
    ASSUME ReadersOk, UNCHANGED <<served, ws>>, NEW r \in Refreshers, NEW j,
           refresh' = [refresh EXCEPT ![r] = j],
           RefresherIn(j, r, served, ws.coords, tapLock', tap'),
           \A q \in Refreshers \ {r} : refresh[q].at = "cached" =>
               tapLock' = tapLock /\ tap' = tap,
           tapLock' \in Refreshers \cup {NoTap},
           tapLock' # NoTap =>
               \/ tapLock' = r /\ j.at = "cached"
               \/ tapLock' = tapLock /\ tapLock # r,
           tap' # NoTap => SourceIn(tap', served, ws.coords),
           \A i, k \in indexCache' : i.seq = k.seq => i = k
    PROVE  ReadersOk'
<1>1. refresh'[r] = j /\ \A q \in Refreshers \ {r} : refresh'[q] = refresh[q]
  BY DEF ReadersOk
<1>2. refresh' = [q \in Refreshers |-> refresh'[q]]
  BY DEF ReadersOk
<1>3. ASSUME NEW q \in Refreshers PROVE RefresherOk(q)'
  <2>1. RefresherIn(refresh'[q], q, served, ws.coords, tapLock', tap')
    <3>1. CASE q = r
      BY <1>1, <3>1
    <3>2. CASE q # r
      <4>1. RefresherIn(refresh[q], q, served, ws.coords, tapLock, tap)
        BY RefresherForm DEF ReadersOk
      <4>2. refresh[q].at = "cached" => tapLock' = tapLock /\ tap' = tap
        BY <3>2
      <4>3. RefresherIn(refresh[q], q, served, ws.coords, tapLock', tap')
        BY <4>1, <4>2 DEF RefresherIn
      <4> QED
        BY <1>1, <3>2, <4>3
    <3> QED
      BY <3>1, <3>2
  <2> QED
    BY <2>1 DEF RefresherOk, RefresherIn, SourceOk
<1>4. tapLock' # NoTap => refresh'[tapLock'].at = "cached"
  <2>1. CASE tapLock' = r /\ j.at = "cached"
    BY <1>1, <2>1
  <2>2. CASE tapLock' = tapLock /\ tapLock # r /\ tapLock' # NoTap
    BY <1>1, <2>2 DEF ReadersOk
  <2> QED
    BY <2>1, <2>2
<1>5. tap' # NoTap => SourceOk(tap)'
  BY DEF SourceOk
<1> QED
  BY <1>2, <1>3, <1>4, <1>5 DEF ReadersOk

\* While the lock is free no refresher is committing.
LEMMA NobodyInside ==
    ASSUME ClientAssumption, ReadersOk, Unlocked, NEW q \in Refreshers
    PROVE  refresh[q].at # "cached"
  BY DEF ReadersOk, RefresherOk, Unlocked, ClientAssumption

\* Managing the tap.
LEMMA ManageKeeps ==
    ASSUME PublisherAssumption, ClientAssumption, PubInv, ReadersOk,
           addTap \/ removeTap \/ forgetTap
    PROVE  ReadersOk'
<1>1. /\ Unlocked /\ UNCHANGED <<ws, served, refresh, tapLock, indexCache>>
  BY DEF addTap, removeTap, forgetTap, pubvars
<1>2. \/ tap' = NoTap
      \/ tap' = newTapSource(ws.tapKey)
      \/ tap # NoTap /\ \E b \in BOOLEAN : tap' = [tap EXCEPT !.on = b]
  BY DEF addTap, removeTap, forgetTap
<1>3. tap' # NoTap => SourceIn(tap', served, ws.coords)
  <2>1. CASE tap' = newTapSource(ws.tapKey)
    <3>1. EmptyPins \in Pins
      BY DEF EmptyPins, Pins, PublisherAssumption
    <3>2. ws.tapKey \in TapKeys
      BY DEF PubInv, WsOk, Workspaces
    <3>3. /\ tap' = [on |-> TRUE, key |-> ws.tapKey, retired |-> {}, acc |-> NoIndex,
                     pins |-> EmptyPins]
      BY <2>1 DEF newTapSource
    <3>4. tap' \in TapStates /\ tap'.pins = EmptyPins /\ tap'.retired = {}
      BY <3>1, <3>2, <3>3 DEF TapStates
    <3> QED
      BY <3>4 DEF SourceIn
  <2>2. CASE tap # NoTap /\ \E b \in BOOLEAN : tap' = [tap EXCEPT !.on = b]
    <3>1. PICK b \in BOOLEAN : tap' = [tap EXCEPT !.on = b]
      BY <2>2
    <3>2. SourceIn(tap, served, ws.coords) /\ tap \in TapStates
      BY <2>2 DEF ReadersOk, SourceOk, SourceIn
    <3>3. tap' = [on |-> b, key |-> tap.key, retired |-> tap.retired, acc |-> tap.acc,
                  pins |-> tap.pins]
      BY <3>1, <3>2 DEF TapStates
    <3>4. tap' \in TapStates
      BY <3>2, <3>3 DEF TapStates
    <3> QED
      BY <3>2, <3>3, <3>4 DEF SourceIn, PinsTo
  <2> QED
    BY <1>2, <2>1, <2>2
<1>4. ASSUME NEW q \in Refreshers PROVE RefresherOk(q)'
  <2>1. refresh[q].at # "cached"
    BY <1>1, NobodyInside
  <2>2. RefresherIn(refresh[q], q, served, ws.coords, tapLock, tap)
    BY RefresherForm DEF ReadersOk
  <2>3. RefresherIn(refresh[q], q, served, ws.coords, tapLock', tap')
    BY <2>1, <2>2 DEF RefresherIn
  <2> QED
    BY <1>1, <2>3 DEF RefresherOk, RefresherIn, SourceOk
<1> QED
  BY <1>1, <1>3, <1>4 DEF ReadersOk, SourceOk

\* Reading the state and fetching an index.
LEMMA FetchKeeps ==
    ASSUME PublisherAssumption, ClientAssumption, PubInv, ReadersOk, NEW r \in Refreshers,
           RefreshRead(r) \/ RefreshFetch(r)
    PROVE  ReadersOk'
<1>1. UNCHANGED <<ws, served, tap, tapLock, indexCache>> /\ refresh[r].at # "cached"
  BY DEF RefreshRead, RefreshFetch, pubvars
<1>2. PICK j : /\ refresh' = [refresh EXCEPT ![r] = j]
               /\ RefresherIn(j, r, served, ws.coords, tapLock, tap)
  <2>1. CASE RefreshRead(r)
    <3> DEFINE j == [at |-> "read", from |-> tap]
    <3>1. refresh' = [refresh EXCEPT ![r] = j] /\ tap # NoTap
      BY <2>1 DEF RefreshRead
    <3>2. SourceIn(tap, served, ws.coords)
      BY <3>1 DEF ReadersOk, SourceOk
    <3>3. RefresherIn(j, r, served, ws.coords, tapLock, tap)
      BY <3>2 DEF RefresherIn
    <3> QED
      BY <3>1, <3>3
  <2>2. CASE RefreshFetch(r)
    <3> DEFINE s == refresh[r].from
    <3>1. PICK t \in served :
            refresh' = [refresh EXCEPT ![r] =
                IF Repairs(s, t.idx) \/ Succeeds(s, t.idx)
                THEN [at |-> "fetched", from |-> s, idx |-> t.idx,
                      next |-> IF t.idx.seq = s.pins.seq THEN s ELSE nextSource(s, t.idx)]
                ELSE NoJob]
      BY <2>2 DEF RefreshFetch
    <3>2. SourceOk(s) /\ refresh[r].at = "read"
      BY <2>2 DEF RefreshFetch, ReadersOk, RefresherOk
    <3> DEFINE n == IF t.idx.seq = s.pins.seq THEN s ELSE nextSource(s, t.idx)
               j == [at |-> "fetched", from |-> s, idx |-> t.idx, next |-> n]
    <3>3. CASE ~(Repairs(s, t.idx) \/ Succeeds(s, t.idx))
      BY <3>1, <3>3, IdleRefresher
    <3>4. CASE Repairs(s, t.idx) \/ Succeeds(s, t.idx)
      <4>1. SourceOk(n) /\ Forward(s, n)
        <5>1. CASE t.idx.seq = s.pins.seq
          <6>1. s.pins.seq \in Nat
            BY <3>2 DEF SourceOk, SourceIn, TapStates, Pins, PublisherAssumption
          <6> QED
            BY <3>2, <5>1, <6>1 DEF Forward
        <5>2. CASE t.idx.seq # s.pins.seq
          <6>1. AcceptsTapKey(t.idx, s.key, s.retired) /\ t.idx.seq > s.pins.seq
            BY <3>4, <5>2 DEF Repairs, Succeeds, Advances
          <6> HIDE DEF s
          <6> QED
            BY <3>2, <5>2, <6>1, NextSourceOk
        <5> QED
          BY <5>1, <5>2
      <4>2. refresh' = [refresh EXCEPT ![r] = j]
        BY <3>1, <3>4
      <4>3. j.at = "fetched" /\ j.from = s /\ j.next = n
            /\ j = [at |-> j.at, from |-> j.from, idx |-> j.idx, next |-> j.next]
        OBVIOUS
      <4> HIDE DEF j, n, s
      <4>4. RefresherIn(j, r, served, ws.coords, tapLock, tap)
        BY <3>2, <4>1, <4>3 DEF RefresherIn, SourceOk
      <4> QED
        BY <4>2, <4>4
    <3> QED
      BY <3>3, <3>4
  <2> QED
    BY <2>1, <2>2
<1>3. tapLock' # NoTap => tapLock' = tapLock /\ tapLock # r
  BY <1>1 DEF ReadersOk
<1>4. /\ tapLock' \in Refreshers \cup {NoTap}
      /\ tap' # NoTap => SourceIn(tap', served, ws.coords)
      /\ \A i, k \in indexCache' : i.seq = k.seq => i = k
  BY <1>1 DEF ReadersOk, SourceOk
<1>5. RefresherIn(j, r, served, ws.coords, tapLock', tap')
  BY <1>1, <1>2
<1>6. \A q \in Refreshers \ {r} : refresh[q].at = "cached" => tapLock' = tapLock /\ tap' = tap
  BY <1>1
<1>7. UNCHANGED <<served, ws>>
  BY <1>1
<1> QED
  BY <1>2, <1>3, <1>4, <1>5, <1>6, <1>7, RefresherSteps

\* Writing the cache, under the lock.
LEMMA CacheKeeps ==
    ASSUME PublisherAssumption, ClientAssumption, PubInv, ReadersOk, NEW r \in Refreshers,
           CommitCache(r)
    PROVE  ReadersOk'
<1>1. UNCHANGED <<ws, served, tap>> /\ refresh[r].at = "fetched" /\ Unlocked
  BY DEF CommitCache, pubvars
<1>2. \A q \in Refreshers : refresh[q].at # "cached"
  BY <1>1, NobodyInside
<1>3. RefresherIn(refresh[r], r, served, ws.coords, tapLock, tap)
  BY RefresherForm DEF ReadersOk
<1>4. CASE SourceUnchanged(refresh[r].from)
  <2> DEFINE j == [refresh[r] EXCEPT !.at = "cached"]
  <2>1. refresh' = [refresh EXCEPT ![r] = j] /\ tapLock' = r
        /\ indexCache' = {i \in indexCache : i.seq # refresh[r].idx.seq} \cup {refresh[r].idx}
        /\ tap = refresh[r].from
    BY <1>4 DEF CommitCache, SourceUnchanged
  <2>2. j = [at |-> "cached", from |-> refresh[r].from, idx |-> refresh[r].idx,
             next |-> refresh[r].next]
    BY <1>1, <1>3 DEF RefresherIn
  <2> HIDE DEF j
  <2>3. j.at = "cached" /\ j.from = refresh[r].from /\ j.next = refresh[r].next
        /\ j = [at |-> j.at, from |-> j.from, idx |-> j.idx, next |-> j.next]
    BY <2>2
  <2>4. RefresherIn(j, r, served, ws.coords, tapLock', tap')
    BY <1>1, <1>3, <2>1, <2>3 DEF RefresherIn
  <2>5. \A i, k \in indexCache' : i.seq = k.seq => i = k
    BY <2>1 DEF ReadersOk
  <2>6. tap' # NoTap => SourceIn(tap', served, ws.coords)
    BY <1>1 DEF ReadersOk, SourceOk
  <2>7. tapLock' \in Refreshers \cup {NoTap} /\ UNCHANGED <<served, ws>>
    BY <1>1, <2>1
  <2> QED
    BY <1>2, <2>1, <2>3, <2>4, <2>5, <2>6, <2>7, RefresherSteps
<1>5. CASE ~SourceUnchanged(refresh[r].from)
  <2>1. refresh' = [refresh EXCEPT ![r] = NoJob] /\ UNCHANGED <<tapLock, indexCache>>
    BY <1>5 DEF CommitCache
  <2>2. RefresherIn(NoJob, r, served, ws.coords, tapLock', tap')
    BY IdleRefresher
  <2>3. /\ tapLock' \in Refreshers \cup {NoTap} /\ UNCHANGED <<served, ws>> /\ tapLock' = NoTap
        /\ tap' # NoTap => SourceIn(tap', served, ws.coords)
        /\ \A i, k \in indexCache' : i.seq = k.seq => i = k
    BY <1>1, <2>1 DEF ReadersOk, SourceOk, Unlocked
  <2> QED
    BY <1>2, <2>1, <2>2, <2>3, RefresherSteps
<1> QED
  BY <1>4, <1>5

\* Writing the state, and leaving the lock or dying in it.
LEMMA CommitStateKeeps ==
    ASSUME PublisherAssumption, ClientAssumption, PubInv, ReadersOk, NEW r \in Refreshers,
           CommitState(r) \/ RefreshDies(r)
    PROVE  ReadersOk'
<1>1. UNCHANGED <<ws, served>> /\ refresh' = [refresh EXCEPT ![r] = NoJob]
  BY DEF CommitState, RefreshDies, pubvars
<1>2. RefresherIn(NoJob, r, served, ws.coords, tapLock', tap')
  BY IdleRefresher
<1>3. RefresherIn(refresh[r], r, served, ws.coords, tapLock, tap)
  BY RefresherForm DEF ReadersOk
<1>4. CASE CommitState(r)
  <2>1. tapLock = r /\ refresh[r].at = "cached" /\ SourceIn(refresh[r].next, served, ws.coords)
    BY <1>3, <1>4 DEF CommitState, RefresherIn
  <2>2. \A q \in Refreshers \ {r} : refresh[q].at # "cached"
    BY <2>1 DEF ReadersOk, RefresherOk
  <2>3. tapLock' = NoTap /\ indexCache' \subseteq indexCache
        /\ (tap' = refresh[r].next \/ tap' = tap)
    BY <1>4 DEF CommitState
  <2>4. tap' # NoTap => SourceIn(tap', served, ws.coords)
    BY <2>1, <2>3 DEF ReadersOk, SourceOk
  <2>5. \A i, k \in indexCache' : i.seq = k.seq => i = k
    BY <2>3 DEF ReadersOk
  <2> QED
    BY <1>1, <1>2, <2>2, <2>3, <2>4, <2>5, RefresherSteps
<1>5. CASE RefreshDies(r)
  <2>1. /\ UNCHANGED <<tap, indexCache>>
        /\ tapLock' = IF tapLock = r THEN NoTap ELSE tapLock
    BY <1>5 DEF RefreshDies
  <2>2. \A q \in Refreshers \ {r} : refresh[q].at = "cached" => tapLock' = tapLock /\ tap' = tap
    BY <2>1 DEF ReadersOk, RefresherOk
  <2>3. /\ tapLock' \in Refreshers \cup {NoTap}
        /\ tapLock' # NoTap => tapLock' = tapLock /\ tapLock # r
        /\ tap' # NoTap => SourceIn(tap', served, ws.coords)
        /\ \A i, k \in indexCache' : i.seq = k.seq => i = k
    BY <2>1 DEF ReadersOk, SourceOk
  <2> QED
    BY <1>1, <1>2, <2>2, <2>3, RefresherSteps
<1> QED
  BY <1>4, <1>5

-----------------------------------------------------------------------------
(* The invariant holds. *)

\* The steps that leave tap, refreshers and lock alone.
LEMMA CommandKeeps ==
    ASSUME ReadersOk,
           \/ CacheLost \/ Expire \/ ResolveEnds \/ JobEnds \/ tryWriteLock
           \/ applyRemoteTemplateUpdate \/ EditProfile \/ Work
           \/ \E kind, cs : Resolve(kind, cs)
           \/ \E force \in BOOLEAN : InstallRemote(force) \/ installLocalTemplate(force)
    PROVE  ReadersOk' /\ UNCHANGED <<tap, pubvars>>
<1>1. /\ UNCHANGED <<tap, refresh, tapLock>> /\ UNCHANGED pubvars
      /\ indexCache' \in {indexCache, {}}
  BY DEF CacheLost, Expire, ResolveEnds, JobEnds, tryWriteLock, applyRemoteTemplateUpdate,
     EditProfile, Work, Resolve, InstallRemote, installLocalTemplate
<1>2. UNCHANGED <<ws, served>>
  BY <1>1 DEF pubvars
<1>3. \A i, j \in indexCache' : i.seq = j.seq => i = j
  BY <1>1 DEF ReadersOk
<1> QED
  BY <1>1, <1>2, <1>3, ReadersStay

LEMMA ReadersKeep ==
    ASSUME PublisherAssumption, ClientAssumption, PubInv, ReadersOk, [Next]_allvars
    PROVE  ReadersOk' /\ [PublisherNext]_pubvars
<1>1. CASE [PublisherNext]_pubvars /\ UNCHANGED clientvars
  <2>1. served \subseteq served' /\ ws.coords \subseteq ws'.coords
    BY <1>1, PublisherGrows
  <2>2. UNCHANGED <<tap, refresh, tapLock, indexCache>>
    BY <1>1 DEF clientvars
  <2> QED
    BY <1>1, <2>1, <2>2, ReadersStay DEF ReadersOk
<1>2. CASE addTap \/ removeTap \/ forgetTap
  <2>1. UNCHANGED pubvars
    BY <1>2 DEF addTap, removeTap, forgetTap
  <2> QED
    BY <1>2, <2>1, ManageKeeps
<1>3. CASE \E r \in Refreshers :
             RefreshRead(r) \/ RefreshFetch(r) \/ CommitCache(r) \/ CommitState(r) \/ RefreshDies(r)
  <2>1. UNCHANGED pubvars
    BY <1>3 DEF RefreshRead, RefreshFetch, CommitCache, CommitState, RefreshDies
  <2> QED
    BY <1>3, <2>1, FetchKeeps, CacheKeeps, CommitStateKeeps
<1>4. CASE \/ CacheLost \/ Expire \/ ResolveEnds \/ JobEnds \/ tryWriteLock
           \/ applyRemoteTemplateUpdate \/ EditProfile \/ Work
           \/ \E p \in Packages : ResolveInstall(p.c) \/ ResolveUpdate(p.c)
           \/ \E force \in BOOLEAN : InstallRemote(force) \/ installLocalTemplate(force)
  <2>1. (\E p \in Packages : ResolveInstall(p.c) \/ ResolveUpdate(p.c))
            => \E kind, cs : Resolve(kind, cs)
    BY DEF ResolveInstall, ResolveUpdate
  <2> QED
    BY <1>4, <2>1, CommandKeeps
<1>5. [Next]_allvars => \/ [PublisherNext]_pubvars /\ UNCHANGED clientvars
                        \/ ClientNext
  BY DEF Next, allvars
<1> QED
  BY <1>1, <1>2, <1>3, <1>4, <1>5 DEF ClientNext

\* The fields of the project a step writes.
LEMMA ProjectKeeps ==
    ASSUME ProjectOk, [Next]_allvars
    PROVE  ProjectOk'
<1>1. ASSUME UNCHANGED job, project'.lock = project.lock,
             project' = [prof |-> project'.prof, lock |-> project'.lock,
                         corpus |-> project'.corpus]
      PROVE  ProjectOk'
  BY <1>1 DEF ProjectOk
<1>2. ASSUME project' = [prof |-> project'.prof, lock |-> project'.lock,
                         corpus |-> project'.corpus],
             job'.at \notin {"resolving", "reviewed"}
      PROVE  ProjectOk'
  BY <1>2 DEF ProjectOk
<1>3. ASSUME UNCHANGED project, job'.at \notin {"resolving", "reviewed"}
      PROVE  ProjectOk'
  BY <1>3 DEF ProjectOk
<1>4. ASSUME UNCHANGED <<project, job>> PROVE ProjectOk'
  BY <1>4 DEF ProjectOk
<1>5. ASSUME (PublisherNext /\ UNCHANGED clientvars) \/ UNCHANGED allvars PROVE ProjectOk'
  BY <1>4, <1>5 DEF clientvars, allvars
<1>6. ASSUME addTap \/ removeTap \/ forgetTap \/ CacheLost \/ Expire PROVE ProjectOk'
  BY <1>4, <1>6 DEF addTap, removeTap, forgetTap, CacheLost, Expire
<1>7. ASSUME NEW r \in Refreshers,
             RefreshRead(r) \/ RefreshFetch(r) \/ CommitCache(r) \/ CommitState(r) \/ RefreshDies(r)
      PROVE  ProjectOk'
  BY <1>4, <1>7 DEF RefreshRead, RefreshFetch, CommitCache, CommitState, RefreshDies
<1>8. ASSUME NEW c, ResolveInstall(c) PROVE ProjectOk'
  <2>1. UNCHANGED project /\ job'.kind = "install"
    BY <1>8 DEF ResolveInstall, Resolve
  <2> QED
    BY <2>1 DEF ProjectOk
<1>9. ASSUME NEW c, ResolveUpdate(c) PROVE ProjectOk'
  <2>1. PICK found \in [{project.lock.c, c} -> UNION {Entries(tap, x) : x \in {project.lock.c, c}}] :
          job' = [at |-> "resolving", kind |-> "update", from |-> tap, found |-> found]
    BY <1>9 DEF ResolveUpdate, Resolve
  <2>2. DOMAIN job'.found = {project.lock.c, c} /\ UNCHANGED project
        /\ project.lock \notin {NoLock, Builtin} /\ c > project.lock.c
    BY <1>9, <2>1 DEF ResolveUpdate, Resolve
  <2> QED
    BY <2>2 DEF ProjectOk
<1>10. ASSUME ResolveEnds PROVE ProjectOk'
  <2>1. CASE job'.at = "idle"
    BY <1>3, <1>10, <2>1 DEF ResolveEnds
  <2>2. CASE job' = [at |-> "reviewed", kind |-> job.kind, found |-> job.found]
    <3>1. job.at = "resolving" /\ job'.kind = job.kind /\ job'.found = job.found
          /\ UNCHANGED project
      BY <1>10, <2>2 DEF ResolveEnds
    <3> QED
      BY <3>1 DEF ProjectOk
  <2> QED
    BY <1>10, <2>1, <2>2 DEF ResolveEnds, NoJob
<1>11. ASSUME JobEnds PROVE ProjectOk'
  BY <1>3, <1>11 DEF JobEnds, NoJob
<1>12. ASSUME NEW force, InstallRemote(force) PROVE ProjectOk'
  <2>1. PICK c \in DOMAIN job.found : /\ project' = [project EXCEPT !.prof = job.found[c].d]
                                      /\ job' = [at |-> "installed", lock |-> job.found[c]]
    BY <1>12 DEF InstallRemote
  <2>2. project' = [prof |-> job.found[c].d, lock |-> project.lock, corpus |-> project.corpus]
    BY <2>1 DEF ProjectOk
  <2> QED
    BY <1>2, <2>1, <2>2
<1>13. ASSUME NEW force, installLocalTemplate(force) PROVE ProjectOk'
  <2>1. project' = [prof |-> Builtin, lock |-> project.lock, corpus |-> project.corpus]
    BY <1>13 DEF installLocalTemplate, ProjectOk
  <2> QED
    BY <1>2, <1>13, <2>1 DEF installLocalTemplate
<1>14. ASSUME tryWriteLock PROVE ProjectOk'
  <2>1. \/ project' = project
        \/ project' = [prof |-> project.prof, lock |-> job.lock, corpus |-> project.corpus]
    BY <1>14 DEF tryWriteLock, ProjectOk
  <2>2. job'.at = "idle"
    BY <1>14 DEF tryWriteLock, NoJob
  <2> QED
    BY <1>2, <1>3, <2>1, <2>2
<1>15. ASSUME applyRemoteTemplateUpdate PROVE ProjectOk'
  <2>1. PICK target : project' = [project EXCEPT !.prof = target.d, !.lock = target]
    BY <1>15 DEF applyRemoteTemplateUpdate
  <2>2. project' = [prof |-> target.d, lock |-> target, corpus |-> project.corpus]
    BY <2>1 DEF ProjectOk
  <2>3. job'.at = "idle"
    BY <1>15 DEF applyRemoteTemplateUpdate, NoJob
  <2> QED
    BY <1>2, <2>2, <2>3
<1>16. ASSUME EditProfile \/ Work PROVE ProjectOk'
  <2>1. /\ UNCHANGED job
        /\ \/ project' = [project EXCEPT !.prof = Edited]
           \/ \E k : project' = [project EXCEPT !.corpus = k]
    BY <1>16 DEF EditProfile, Work
  <2>2. \/ project' = [prof |-> Edited, lock |-> project.lock, corpus |-> project.corpus]
        \/ \E k : project' = [prof |-> project.prof, lock |-> project.lock, corpus |-> k]
    BY <2>1 DEF ProjectOk
  <2> QED
    BY <1>1, <2>1, <2>2
<1> QED
  BY <1>5, <1>6, <1>7, <1>8, <1>9, <1>10, <1>11, <1>12, <1>13, <1>14, <1>15, <1>16
     DEF Next, ClientNext

LEMMA TrustStarts ==
    ASSUME PublisherAssumption, Init PROVE TrustInv
<1>1. PubInv
  BY PublisherStarts DEF Init
<1>2. ReadersOk
  BY DEF Init, ClientInit, ReadersOk, RefresherOk, NoJob
<1>3. ProjectOk
  BY DEF Init, ClientInit, ProjectOk, NoJob
<1> QED
  BY <1>1, <1>2, <1>3 DEF TrustInv

\* The trust invariant of publisher, readers and project (publish/build.ts,
\* signing/continuity.ts, taps/refresh.ts, update-apply.ts).
THEOREM TrustInvariant == Spec => []TrustInv
<1>1. PublisherAssumption /\ ClientAssumption
  BY PublisherAssumption, ClientAssumption
<1>2. Init => TrustInv
  BY <1>1, TrustStarts
<1>3. TrustInv /\ [Next]_allvars => TrustInv'
  BY <1>1, ReadersKeep, ProjectKeeps, PublisherKeeps DEF TrustInv
<1> QED
  BY <1>2, <1>3, PTL DEF Spec

\* A publisher that may die in any build hands out no sequence twice, and every build it
\* lets the operator stage can be made (publish/build.ts, publish/lifecycle.ts).
THEOREM PublisherStaysSound == Spec => []PublisherSound
<1>1. TrustInv => PublisherSound
  BY PublisherAssumption, SoundPublisher DEF TrustInv
<1> QED
  BY <1>1, TrustInvariant, PTL

-----------------------------------------------------------------------------
(* What the invariant says of readers. *)

LEMMA FollowableHolds ==
    ASSUME PublisherAssumption, TrustInv PROVE Followable
<1>1. ASSUME tap # NoTap, NEW t \in served, t.idx.seq > tap.pins.seq
      PROVE  Advances(t.idx, tap.pins)
  <2> DEFINE s == tap
  <2>1. PubInv /\ SourceOk(s) /\ t.idx.seq > s.pins.seq
    BY <1>1 DEF TrustInv, ReadersOk
  <2> HIDE DEF s
  <2>2. Advances(t.idx, s.pins)
    BY <2>1, LaterAdvances
  <2> QED
    BY <2>2 DEF s
<1> QED
  BY <1>1 DEF Followable

LEMMA AcceptedHolds ==
    ASSUME PublisherAssumption, ClientAssumption, TrustInv PROVE AcceptedVerifies
<1> SUFFICES ASSUME tap # NoTap, ~Unrefreshed(tap.pins)
             PROVE  /\ tap.acc # NoIndex /\ tap.acc.seq = tap.pins.seq
                    /\ tap.acc.signer = tap.key
                    /\ assertContinuityMatchesIndex(tap.acc, tap)
                    /\ tap.acc \in {t.idx : t \in served}
  BY DEF AcceptedVerifies
<1>1. tap.pins # EmptyPins
  BY DEF Unrefreshed, EmptyPins
<1>2. PICK t \in served : PinsTo(tap, t.idx, ws.coords)
  BY <1>1 DEF TrustInv, ReadersOk, SourceOk, SourceIn
<1>3. t.idx \in Indexes
  BY ServedIndex DEF TrustInv
<1> QED
  BY <1>2, <1>3 DEF PinsTo, assertContinuityMatchesIndex, ClientAssumption

LEMMA ReaderTypes ==
    ASSUME PublisherAssumption, TrustInv PROVE TypeOK
<1>1. ws.tapKey \in Keys /\ ws.pubKey \in Keys /\ ws.seq \in 0..MaxSeq
      /\ ws.rots \cup ws.taprots \subseteq Rotations
  BY DEF TrustInv, PubInv, WsOk, Workspaces, Keys
<1>2. bld.at \in {"idle", "reserved", "moved", "published"}
  BY DEF TrustInv, PubInv, BuildOk
<1>3. tap # NoTap => /\ tap.key \in TapKeys /\ tap.retired \subseteq TapKeys \ {tap.key}
                     /\ tap.pins.coords \subseteq Packages /\ tap.pins.hist \subseteq PubKeys
  <2>1. tap # NoTap => tap \in TapStates /\ tap.key \notin tap.retired
    BY DEF TrustInv, ReadersOk, SourceOk, SourceIn
  <2>2. tap # NoTap => tap.pins \in Pins /\ tap.key \in TapKeys /\ tap.retired \subseteq TapKeys
    BY <2>1 DEF TapStates
  <2> QED
    BY <2>1, <2>2 DEF Pins
<1>4. /\ \A i, j \in indexCache : i.seq = j.seq => i = j
      /\ tapLock \in Refreshers \cup {NoTap}
      /\ tapLock # NoTap => refresh[tapLock].at = "cached"
  BY DEF TrustInv, ReadersOk
<1> QED
  BY <1>1, <1>2, <1>3, <1>4 DEF TypeOK

\* What an offered entry is.
LEMMA EntryFacts ==
    ASSUME NEW c, NEW e \in resolveOffline(c)
    PROVE  /\ tap # NoTap /\ tap.on /\ Cached(e) # {}
           /\ e.seq = tap.pins.seq /\ e.k = tap.pins.pub
           /\ e.d \notin tap.pins.revP /\ tap.pins.pub \notin tap.pins.revK
<1>1. Available(tap) /\ e \in Entries(tap, c) /\ Cached(e) # {}
  BY DEF resolveOffline
<1>2. PICK i \in loadAcceptedIndex(tap) :
        e \in {[c |-> c, d |-> p.d, k |-> i.pub, seq |-> i.seq] :
                   p \in {q \in i.pkgs : q.c = c /\ assertEntryActive(tap, i, q)}}
  BY <1>1 DEF Entries
<1>3. PICK p \in i.pkgs : /\ assertEntryActive(tap, i, p)
                          /\ e = [c |-> c, d |-> p.d, k |-> i.pub, seq |-> i.seq]
  BY <1>2
<1>4. i.seq = tap.pins.seq /\ i.pub = tap.pins.pub
  BY DEF loadAcceptedIndex, assertContinuityMatchesIndex
<1> QED
  BY <1>1, <1>3, <1>4 DEF Available, assertEntryActive

LEMMA CleanHolds == CleanIsVerified
<1> SUFFICES ASSUME collectTemplateStatus \in {"installed-clean", "installed-stale"},
                    project.lock # Builtin
             PROVE  /\ project.prof = project.lock.d
                    /\ project.lock.d \notin tap.pins.revP
                    /\ tap.pins.pub \notin tap.pins.revK
  BY DEF CleanIsVerified
<1> DEFINE lock == project.lock
<1>1. lock # NoLock /\ tap # NoTap
  BY DEF collectTemplateStatus
<1>2. ~isRevoked(lock)
  BY <1>1 DEF collectTemplateStatus
<1>3. {e \in resolveOffline(lock.c) : assertLockMatchesResolved(lock, e)} # {}
  BY <1>1, <1>2 DEF collectTemplateStatus
<1>4. comparedRemoteStatus(lock) \in {"installed-clean", "installed-stale"}
  BY <1>1, <1>2, <1>3 DEF collectTemplateStatus
<1>5. project.prof = lock.d
  BY <1>4 DEF comparedRemoteStatus
<1>6. lock.d \notin tap.pins.revP
  BY <1>2 DEF isRevoked
<1>7. PICK e \in resolveOffline(lock.c) : TRUE
  BY <1>3
<1>8. tap.pins.pub \notin tap.pins.revK
  BY <1>7, EntryFacts
<1> QED
  BY <1>5, <1>6, <1>8

\* A reader can follow every later index, load again what it accepted, and calls clean
\* only what it verified (signing/continuity.ts, taps/refresh.ts, status.ts).
THEOREM ReaderStaysSound == Spec => []ReaderSound
<1>1. TrustInv => ReaderSound
  BY PublisherAssumption, ClientAssumption, ReaderTypes, FollowableHolds, AcceptedHolds,
     CleanHolds DEF ReaderSound
<1> QED
  BY <1>1, TrustInvariant, PTL

-----------------------------------------------------------------------------
(* What a step never does. *)

LEMMA NoRollbackHolds ==
    ASSUME PublisherAssumption, TrustInv, [Next]_allvars PROVE NoRollback
<1>1. ASSUME tap # NoTap, \/ tap' = tap
                          \/ \E b \in BOOLEAN : tap' = [tap EXCEPT !.on = b]
      PROVE  NoRollback
  <2>1. tap \in TapStates
    BY <1>1 DEF TrustInv, ReadersOk, SourceOk, SourceIn
  <2>2. tap.pins \in Pins
    BY <2>1 DEF TapStates
  <2>3. tap.pins.seq \in Nat
    BY <2>2 DEF Pins, PublisherAssumption
  <2>4. tap'.pins = tap.pins /\ tap'.retired = tap.retired
    BY <1>1, <2>1 DEF TapStates
  <2> QED
    BY <2>3, <2>4 DEF NoRollback
<1>2. ASSUME tap = NoTap \/ tap' = NoTap PROVE NoRollback
  BY <1>2 DEF NoRollback
<1>3. ASSUME tap # NoTap, NEW r \in Refreshers, CommitState(r) PROVE NoRollback
  <2>1. RefresherOk(r) /\ refresh[r].at = "cached"
    BY <1>3 DEF TrustInv, ReadersOk, CommitState
  <2>2. tap = refresh[r].from /\ Forward(refresh[r].from, refresh[r].next)
    BY <2>1 DEF RefresherOk
  <2>3. tap' = refresh[r].next \/ tap' = tap
    BY <1>3 DEF CommitState
  <2> QED
    BY <1>1, <1>3, <2>2, <2>3 DEF NoRollback, Forward
<1>4. CASE tap = NoTap
  BY <1>2, <1>4
<1>5. CASE tap # NoTap
  <2>1. CASE addTap \/ removeTap \/ forgetTap
    BY <1>1, <1>2, <1>5, <2>1 DEF addTap, removeTap, forgetTap
  <2>2. CASE \E r \in Refreshers :
                RefreshRead(r) \/ RefreshFetch(r) \/ CommitCache(r) \/ CommitState(r) \/ RefreshDies(r)
    BY <1>1, <1>3, <1>5, <2>2 DEF RefreshRead, RefreshFetch, CommitCache, RefreshDies
  <2>3. CASE \/ CacheLost \/ Expire \/ ResolveEnds \/ JobEnds \/ tryWriteLock
             \/ applyRemoteTemplateUpdate \/ EditProfile \/ Work
             \/ \E kind, cs : Resolve(kind, cs)
             \/ \E force \in BOOLEAN : InstallRemote(force) \/ installLocalTemplate(force)
    BY <1>1, <1>5, <2>3, CommandKeeps DEF TrustInv
  <2>4. CASE (PublisherNext /\ UNCHANGED clientvars) \/ UNCHANGED allvars
    BY <1>1, <1>5, <2>4 DEF clientvars, allvars
  <2>5. (\E p \in Packages : ResolveInstall(p.c) \/ ResolveUpdate(p.c))
            => \E kind, cs : Resolve(kind, cs)
    BY DEF ResolveInstall, ResolveUpdate
  <2> QED
    BY <2>1, <2>2, <2>3, <2>4, <2>5 DEF Next, ClientNext
<1> QED
  BY <1>4, <1>5

\* The steps that may write the profile.
LEMMA ProfileWriters ==
    ASSUME ProjectOk, [Next]_allvars, project'.prof # project.prof
    PROVE  \/ \E force \in BOOLEAN : InstallRemote(force) \/ installLocalTemplate(force)
           \/ applyRemoteTemplateUpdate \/ EditProfile
<1>1. project = [prof |-> project.prof, lock |-> project.lock, corpus |-> project.corpus]
  BY DEF ProjectOk
<1>2. ~Work /\ ~tryWriteLock
  <2>1. ASSUME NEW k PROVE [project EXCEPT !.corpus = k].prof = project.prof
    BY <1>1
  <2>2. [project EXCEPT !.lock = job.lock].prof = project.prof
    BY <1>1
  <2> QED
    BY <2>1, <2>2 DEF Work, tryWriteLock
<1>3. project' # project
  OBVIOUS
<1>4. ~(PublisherNext /\ UNCHANGED clientvars) /\ ~UNCHANGED allvars
  BY <1>3 DEF clientvars, allvars
<1>5. ~(addTap \/ removeTap \/ forgetTap \/ CacheLost \/ Expire \/ ResolveEnds \/ JobEnds)
  BY <1>3 DEF addTap, removeTap, forgetTap, CacheLost, Expire, ResolveEnds, JobEnds
<1>6. \A r \in Refreshers : ~(RefreshRead(r) \/ RefreshFetch(r) \/ CommitCache(r)
                                \/ CommitState(r) \/ RefreshDies(r))
  BY <1>3 DEF RefreshRead, RefreshFetch, CommitCache, CommitState, RefreshDies
<1>7. \A c : ~(ResolveInstall(c) \/ ResolveUpdate(c))
  BY <1>3 DEF ResolveInstall, ResolveUpdate, Resolve
<1> QED
  BY <1>2, <1>4, <1>5, <1>6, <1>7 DEF Next, ClientNext

LEMMA InstallsHold ==
    ASSUME ProjectOk, [Next]_allvars PROVE InstallsTrusted
<1> SUFFICES ASSUME project'.prof # project.prof, project'.prof \notin {Builtin, Edited}
             PROVE  /\ tap # NoTap /\ tap.on
                    /\ project'.prof \notin tap.pins.revP
                    /\ \E env \in pkgCache : /\ env.d = project'.prof /\ env.k = tap.pins.pub
                                             /\ env.k \notin tap.pins.revK
                    /\ \A c \in DOMAIN job.found : job.found[c].seq = tap.pins.seq
  BY DEF InstallsTrusted
<1>1. project = [prof |-> project.prof, lock |-> project.lock, corpus |-> project.corpus]
  BY DEF ProjectOk
<1>2. PICK c \in DOMAIN job.found : SameResolution /\ project'.prof = job.found[c].d
  <2>1. CASE \E force \in BOOLEAN : InstallRemote(force)
    <3>1. PICK c \in DOMAIN job.found :
            SameResolution /\ project' = [project EXCEPT !.prof = job.found[c].d]
      BY <2>1 DEF InstallRemote
    <3> DEFINE d == job.found[c].d
    <3>2. project' = [project EXCEPT !.prof = d]
      BY <3>1
    <3> HIDE DEF d
    <3>3. project'.prof = d
      BY <1>1, <3>2
    <3> QED
      BY <3>1, <3>3 DEF d
  <2>2. CASE \E force \in BOOLEAN : installLocalTemplate(force)
    <3>1. project' = [project EXCEPT !.prof = Builtin]
      BY <2>2 DEF installLocalTemplate
    <3>2. project'.prof = Builtin
      BY <1>1, <3>1
    <3> QED
      BY <3>2
  <2>3. CASE EditProfile
    <3>1. project' = [project EXCEPT !.prof = Edited]
      BY <2>3 DEF EditProfile
    <3>2. project'.prof = Edited
      BY <1>1, <3>1
    <3> QED
      BY <3>2
  <2>4. CASE applyRemoteTemplateUpdate
    <3> DEFINE c == CHOOSE x \in DOMAIN job.found : x > project.lock.c
               target == job.found[c]
               d == target.d
    <3>1. c \in DOMAIN job.found
      <4>1. job.at = "reviewed" /\ job.kind = "update"
        BY <2>4 DEF applyRemoteTemplateUpdate
      <4>2. \E x \in DOMAIN job.found : x > project.lock.c
        BY <4>1 DEF ProjectOk
      <4> QED
        BY <4>2
    <3>2. SameResolution /\ project' = [project EXCEPT !.prof = d, !.lock = target]
      BY <2>4 DEF applyRemoteTemplateUpdate
    <3> HIDE DEF d, target
    <3>3. project'.prof = d
      BY <1>1, <3>2
    <3> HIDE DEF c
    <3> QED
      BY <3>1, <3>2, <3>3 DEF d, target
  <2> QED
    BY <2>1, <2>2, <2>3, <2>4, ProfileWriters
<1>3. \A x \in DOMAIN job.found : job.found[x] \in resolveOffline(x)
  BY <1>2 DEF SameResolution
<1>4. \A x \in DOMAIN job.found : job.found[x].seq = tap.pins.seq
  BY <1>3, EntryFacts
<1> DEFINE e == job.found[c]
<1>5. e \in resolveOffline(c) /\ project'.prof = e.d
  BY <1>2, <1>3
<1> HIDE DEF e
<1>6. /\ tap # NoTap /\ tap.on /\ Cached(e) # {}
      /\ e.k = tap.pins.pub
      /\ e.d \notin tap.pins.revP /\ tap.pins.pub \notin tap.pins.revK
  BY <1>5, EntryFacts
<1>7. PICK env \in pkgCache : env.d = e.d /\ env.k = e.k
  BY <1>6 DEF Cached, Verifies
<1> QED
  BY <1>4, <1>5, <1>6, <1>7

LEMMA EditsHold ==
    ASSUME ProjectOk, [Next]_allvars PROVE EditsKept
<1> SUFFICES ASSUME project'.prof # project.prof
             PROVE  \/ project.corpus = "empty" /\ job'.at = "installed"
                    \/ /\ project.corpus # "blocked" /\ project.lock \notin {NoLock, Builtin}
                       /\ project.prof = project.lock.d
                    \/ project'.prof = Edited \/ project.prof = NoProfile
  BY DEF EditsKept
<1>1. project = [prof |-> project.prof, lock |-> project.lock, corpus |-> project.corpus]
  BY DEF ProjectOk
<1>2. CASE \E force \in BOOLEAN : InstallRemote(force) \/ installLocalTemplate(force)
  BY <1>2 DEF InstallRemote, installLocalTemplate, MayReplace, isTypedCorpusEmpty
<1>3. CASE EditProfile
  <2>1. project' = [project EXCEPT !.prof = Edited]
    BY <1>3 DEF EditProfile
  <2>2. project'.prof = Edited
    BY <1>1, <2>1
  <2> QED
    BY <2>2
<1>4. CASE applyRemoteTemplateUpdate
  BY <1>4 DEF applyRemoteTemplateUpdate, UpdateCompatible, assertLockMatchesResolved
<1> QED
  BY <1>2, <1>3, <1>4, ProfileWriters

LEMMA VerdictHolds ==
    ASSUME PubInv, [Next]_allvars PROVE VerdictOneBuild
<1> SUFFICES ASSUME verifier'.at = "verified", verifier.at # "verified"
             PROVE  dist = verifier.root /\ dist \in served
  BY DEF VerdictOneBuild
<1>1. verifier' # verifier
  OBVIOUS
<1>2. ~UNCHANGED pubvars
  BY <1>1 DEF pubvars
<1>3. ~ClientNext
  BY <1>2 DEF ClientNext, addTap, removeTap, forgetTap, RefreshRead, RefreshFetch, CommitCache,
     CommitState, RefreshDies, CacheLost, Expire, ResolveInstall, ResolveUpdate, Resolve,
     ResolveEnds, JobEnds, InstallRemote, installLocalTemplate, tryWriteLock,
     applyRemoteTemplateUpdate, EditProfile, Work
<1>4. PublisherNext
  BY <1>1, <1>3 DEF Next, allvars, pubvars
<1>5. VerifyIndex \/ VerifyPackages \/ VerifyVerdict \/ VerifyDone
  BY <1>1, <1>4 DEF PublisherNext, addPackage, stageRevokePackage, stageRotatePublisherKey,
     stageRevokePublisherKey, stageRotateTapKey, Reserve, MoveAside, MoveIn, MoveInFails,
     commitBuild, BuildDies
<1>6. VerifyVerdict
  <2>1. ~VerifyIndex /\ ~VerifyDone
    BY DEF VerifyIndex, VerifyDone, NoVerify
  <2>2. ASSUME VerifyPackages PROVE FALSE
    <3>1. verifier' # NoVerify
      BY DEF NoVerify
    <3>2. verifier.at = "index" /\ verifier' = [verifier EXCEPT !.at = "packages"]
      BY <2>2, <3>1 DEF VerifyPackages
    <3>3. verifier = [at |-> verifier.at, root |-> verifier.root, idx |-> verifier.idx]
      BY <3>2 DEF PubInv, OutputOk
    <3>4. verifier'.at = "packages"
      BY <3>2, <3>3
    <3> QED
      BY <3>4
  <2> QED
    BY <1>5, <2>1, <2>2
<1>7. RemainSelected /\ verifier.at = "packages"
  BY <1>6 DEF VerifyVerdict, NoVerify
<1> QED
  BY <1>7 DEF RemainSelected, assertRootBound, PubInv, OutputOk

\* No step takes trust back, installs what is no longer trusted, replaces an edit, or
\* mixes two builds in one verdict (taps/refresh.ts, install.ts, update-apply.ts,
\* publish/verify.ts).
THEOREM TrustOnlyMovesOn == Spec => TrustSteps
<1>1. TrustInv /\ [Next]_allvars
        => [NoRollback /\ InstallsTrusted /\ EditsKept /\ VerdictOneBuild]_allvars
  BY PublisherAssumption, NoRollbackHolds, InstallsHold, EditsHold, VerdictHolds DEF TrustInv
<1> QED
  BY <1>1, TrustInvariant, PTL DEF Spec, TrustSteps
============================================================================
