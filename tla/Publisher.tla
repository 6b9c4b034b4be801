----------------------------- MODULE Publisher -----------------------------
(***************************************************************************)
(* The publisher's side of a template tap                                   *)
(* (src/profile/templates/publish): a workspace on disk, operations on it   *)
(* that each hold the workspace's exclusive lock, and a build that signs an *)
(* index, stages a tree, reserves its identity in the workspace, swaps the  *)
(* tree into the output directory and then commits the workspace.  The      *)
(* process may die after any of these steps.  A separate verify command     *)
(* reads the output directory piece by piece while a build may replace it.  *)
(*                                                                         *)
(* Left out: the byte format of keys, indexes and packages, the placement   *)
(* of the output directory outside the workspace, confinement of paths.     *)
(***************************************************************************)
EXTENDS Signing

CONSTANTS
    Packages,     \* the package files there are to add: [c, d]
    PubKeys,      \* publisher key ids the operator may pick
    TapKeys,      \* tap key ids the operator may pick
    FirstPub, FirstTap,
    NoTree,       \* nothing at the output path
    MaxSeq,       \* bound: sequences a workspace hands out
    MaxPublishes, \* bound: adds and staged intents
    MaxDeaths     \* bound: publisher processes that die or fail

Keys      == PubKeys \cup TapKeys
Digests   == {p.d : p \in Packages}
Rotations == [from : Keys, to : Keys, eff : 1..MaxSeq]
Indexes   == [seq : 1..MaxSeq, signer : TapKeys, pub : PubKeys, pkgs : SUBSET Packages,
              rots : SUBSET Rotations, taprot : Rotations \cup {NoRotation},
              revP : SUBSET Digests, revK : SUBSET PubKeys]
Envelopes == [c : {p.c : p \in Packages}, d : Digests, k : PubKeys]
Trees     == [idx : Indexes, envs : SUBSET Envelopes]

ASSUME PublisherAssumption ==
    /\ \A p \in Packages : p = [c |-> p.c, d |-> p.d]
    /\ FirstPub \in PubKeys /\ FirstTap \in TapKeys
    /\ MaxSeq \in Nat
    /\ NoKey \notin PubKeys /\ NoTree \notin Trees
    /\ NoRotation \notin [from : Keys, to : Keys, eff : Nat]

VARIABLES
    ws,       \* the workspace file and its key files
    bld,      \* the build in progress: where it stands and what it signed
    dist,     \* the tree at the output path
    served,   \* every tree that was at the output path
    verifier, \* a verify command: what it has read so far
    pubops, deaths

pubvars == <<ws, bld, dist, served, verifier, pubops, deaths>>

NoBuild == [at |-> "idle"]
NoVerify == [at |-> "idle"]

freshWorkspace ==
    [tapKey |-> FirstTap, pubKey |-> FirstPub, seq |-> 0, pkgs |-> {}, rots |-> {}, taprots |-> {},
     revP |-> {}, revK |-> {}, pending |-> {}, coords |-> {}, files |-> {FirstTap, FirstPub},
     last |-> NoTree, reserved |-> NoTree]

PublisherInit ==
    /\ ws = freshWorkspace
    /\ bld = NoBuild
    /\ dist = NoTree
    /\ served = {}
    /\ verifier = NoVerify
    /\ pubops = 0
    /\ deaths = 0

(* Every operation runs under the exclusive lock, which a build holds until  *)
(* it ends; the lock of a dead build is reclaimed.                           *)
Locked == bld.at = "idle"

Publishes == pubops < MaxPublishes /\ pubops' = pubops + 1

(***************************************************************************)
(* Adding packages and staging intents                                      *)
(***************************************************************************)
(* A coordinate is bound to its first payload for ever; adding the same      *)
(* bytes again changes nothing.                                              *)
addPackage(p) ==
    /\ Locked /\ Publishes
    /\ \A q \in ws.coords : q.c # p.c
    /\ ws' = [ws EXCEPT !.pkgs = @ \cup {[c |-> p.c, d |-> p.d, k |-> ws.pubKey]},
                        !.coords = @ \cup {p}]
    /\ UNCHANGED <<bld, dist, served, verifier, deaths>>

UsedKeys(w) ==
    {w.tapKey, w.pubKey}
        \cup UNION {{r.from, r.to} : r \in w.rots \cup w.taprots}
        \cup {i[2] : i \in {j \in w.pending : j[1] \in {"rotate-publisher", "rotate-tap"}}}

PendingOf(w, kind) == {i[2] : i \in {j \in w.pending : j[1] = kind}}

Staged(kind, value) == [ws EXCEPT !.pending = @ \cup {<<kind, value>>}]

(* A key file is created first and is never overwritten; a process that dies *)
(* before the workspace is written leaves the file behind.                   *)
createKeypairFile(key, w) ==
    /\ key \notin ws.files
    /\ \/ ws' = [w EXCEPT !.files = @ \cup {key}] /\ UNCHANGED deaths
       \/ /\ deaths < MaxDeaths /\ deaths' = deaths + 1
          /\ ws' = [ws EXCEPT !.files = @ \cup {key}]

stageRotatePublisherKey(key) ==
    /\ Locked /\ Publishes
    /\ key \notin UsedKeys(ws)
    /\ PendingOf(ws, "rotate-publisher") = {}
    /\ createKeypairFile(key, Staged("rotate-publisher", key))
    /\ UNCHANGED <<bld, dist, served, verifier>>

stageRotateTapKey(key) ==
    /\ Locked /\ Publishes
    /\ key \notin UsedKeys(ws)
    /\ PendingOf(ws, "rotate-tap") = {}
    /\ createKeypairFile(key, Staged("rotate-tap", key))
    /\ UNCHANGED <<bld, dist, served, verifier>>

stageRevokePackage(p) ==
    /\ Locked /\ Publishes
    /\ \E q \in ws.pkgs : q.d = p.d
    /\ ws' = Staged("revoke-package", p.d)
    /\ UNCHANGED <<bld, dist, served, verifier, deaths>>

(* The active key may be revoked only beside a rotation to a successor, and   *)
(* the successor of a staged rotation not at all.                            *)
stageRevokePublisherKey(key) ==
    /\ Locked /\ Publishes
    /\ key = ws.pubKey => PendingOf(ws, "rotate-publisher") # {}
    /\ key \notin PendingOf(ws, "rotate-publisher")
    /\ ws' = Staged("revoke-publisher-key", key)
    /\ UNCHANGED <<bld, dist, served, verifier, deaths>>

(***************************************************************************)
(* Building                                                                 *)
(***************************************************************************)
NextKey(w, kind, current) ==
    IF PendingOf(w, kind) = {} THEN current ELSE CHOOSE k \in PendingOf(w, kind) : TRUE

FaultSequence(w) == 1 + w.seq

(* A build's sequence skips the one a build that never committed reserved:   *)
(* that index may be live.                                                   *)
nextSequence(w) ==
    1 + (IF w.reserved # NoTree /\ w.reserved.idx.seq > w.seq THEN w.reserved.idx.seq ELSE w.seq)

signPublisherRotation(w, seq) ==
    {[from |-> w.pubKey, to |-> k, eff |-> seq] : k \in PendingOf(w, "rotate-publisher")}

signTapRotation(w, seq) ==
    {[from |-> w.tapKey, to |-> k, eff |-> seq] : k \in PendingOf(w, "rotate-tap")}

(* A rotation re-signs every package with the successor key. *)
resignPackages(w) == {[p EXCEPT !.k = NextKey(w, "rotate-publisher", p.k)] : p \in w.pkgs}

(* applyIntent over every pending intent: the workspace a committed build    *)
(* leaves, its identity still to be filled in.                               *)
signPendingIntents(w) ==
    LET seq == nextSequence(w)
    IN  [w EXCEPT !.seq = seq,
                  !.tapKey = NextKey(w, "rotate-tap", @),
                  !.pubKey = NextKey(w, "rotate-publisher", @),
                  !.pkgs = resignPackages(w),
                  !.rots = @ \cup signPublisherRotation(w, seq),
                  !.taprots = @ \cup signTapRotation(w, seq),
                  !.revP = @ \cup PendingOf(w, "revoke-package"),
                  !.revK = @ \cup PendingOf(w, "revoke-publisher-key"),
                  !.pending = {}]

emittedPackages(w) == {p \in signPendingIntents(w).pkgs : p.d \notin signPendingIntents(w).revP}

FaultRotations(w) == signPublisherRotation(w, nextSequence(w))

(* The index re-emits all publisher rotations, but a tap rotation only in    *)
(* the index that makes it.                                                  *)
emittedRotations(w) == signPendingIntents(w).rots

buildSignedIndex(w) ==
    LET s == signPendingIntents(w)
        tap == signTapRotation(w, s.seq)
    IN  [seq |-> s.seq, signer |-> s.tapKey, pub |-> s.pubKey,
         pkgs |-> {[c |-> p.c, d |-> p.d] : p \in emittedPackages(w)},
         rots |-> emittedRotations(w),
         taprot |-> IF tap = {} THEN NoRotation ELSE CHOOSE r \in tap : TRUE,
         revP |-> s.revP, revK |-> s.revK]

(* What a rebuild must differ in to be worth a sequence. *)
contentDigestOf(idx) == <<{p.d : p \in idx.pkgs}, idx.revP, idx.revK, idx.pub, idx.signer>>

assertHasSomethingToBuild(w, bypass) ==
    ~bypass /\ w.last # NoTree /\ w.pending = {} =>
        contentDigestOf(buildSignedIndex(w)) # contentDigestOf(w.last.idx)

(* The reader a build checks its own tree against: one that accepted every   *)
(* committed build.                                                          *)
workspacePinState(w) ==
    IF w.seq = 0 THEN EmptyPins
    ELSE [seq |-> w.seq, pub |-> w.pubKey, hist |-> {r.to : r \in w.rots} \cup {w.pubKey},
          coords |-> w.coords, revP |-> w.revP, revK |-> w.revK]

verifyBuiltDistribution(w, tree) ==
    /\ AcceptsTapKey(tree.idx, w.tapKey, {})
    /\ Advances(tree.idx, workspacePinState(w))
    /\ \A e \in tree.envs :
           verifySignedPackage(e, tree.idx, advancePublisherPins(tree.idx, workspacePinState(w)))

(* The output may be replaced when nothing is there, or a tree this           *)
(* workspace knows to be its own.                                            *)
assertReplaceableOutput(w) ==
    dist # NoTree => \E t \in {w.last, w.reserved} \ {NoTree} : t.idx = dist.idx

(* buildDistribution up to the reservation: signed, staged beside the output, *)
(* verified, and its identity written.                                       *)
Reserve(bypass) ==
    /\ Locked /\ nextSequence(ws) <= MaxSeq
    /\ assertReplaceableOutput(ws)
    /\ assertHasSomethingToBuild(ws, bypass)
    /\ LET tree == [idx |-> buildSignedIndex(ws), envs |-> emittedPackages(ws)]
       IN  /\ verifyBuiltDistribution(ws, tree)
           /\ ws' = [ws EXCEPT !.reserved = tree]
           /\ bld' = [at |-> "reserved", tree |-> tree, base |-> ws, old |-> NoTree]
    /\ UNCHANGED <<dist, served, verifier, pubops, deaths>>

(* swapIntoPlace: the old tree is moved aside, the staged one moved in. *)
MoveAside ==
    /\ bld.at = "reserved"
    /\ bld' = [bld EXCEPT !.at = "moved", !.old = dist]
    /\ dist' = NoTree
    /\ UNCHANGED <<ws, served, verifier, pubops, deaths>>

MoveIn ==
    /\ bld.at = "moved"
    /\ dist' = bld.tree
    /\ served' = served \cup {bld.tree}
    /\ bld' = [bld EXCEPT !.at = "published"]
    /\ UNCHANGED <<ws, verifier, pubops, deaths>>

(* The move in fails: the old tree is put back, if that works. *)
MoveInFails ==
    /\ bld.at = "moved"
    /\ deaths < MaxDeaths /\ deaths' = deaths + 1
    /\ dist' \in {bld.old, NoTree}
    /\ bld' = NoBuild
    /\ UNCHANGED <<ws, served, verifier, pubops>>

(* The commit is computed from the workspace the build read at its start. *)
commitBuild ==
    /\ bld.at = "published"
    /\ ws' = [signPendingIntents(bld.base) EXCEPT !.last = bld.tree, !.reserved = NoTree]
    /\ bld' = NoBuild
    /\ UNCHANGED <<dist, served, verifier, pubops, deaths>>

BuildDies ==
    /\ bld.at # "idle"
    /\ deaths < MaxDeaths /\ deaths' = deaths + 1
    /\ bld' = NoBuild
    /\ UNCHANGED <<ws, dist, served, verifier, pubops>>

(***************************************************************************)
(* template publish verify: no lock, one file after the other               *)
(***************************************************************************)
(* The root directory is opened once; every later read first makes sure that *)
(* the path still names that directory.                                      *)
assertRootBound == dist = verifier.root

(* One snapshot cannot be checked against rotations that took effect in it. *)
assertSnapshotContinuityScope(idx) ==
    idx.taprot = NoRotation /\ \A r \in idx.rots : r.eff < idx.seq

VerifyIndex ==
    /\ verifier.at = "idle" /\ dist # NoTree
    /\ assertSnapshotContinuityScope(dist.idx)
    /\ Advances(dist.idx, EmptyPins)
    /\ verifier' = [at |-> "index", root |-> dist, idx |-> dist.idx]
    /\ UNCHANGED <<ws, bld, dist, served, pubops, deaths>>

(* The tree must hold exactly the packages of the index read before. *)
assertExactDistributionTree(idx, tree) == {[c |-> e.c, d |-> e.d] : e \in tree.envs} = idx.pkgs

VerifyPackages ==
    /\ verifier.at = "index"
    /\ IF /\ assertRootBound
          /\ assertExactDistributionTree(verifier.idx, dist)
          /\ \A e \in dist.envs :
                 verifySignedPackage(e, verifier.idx, advancePublisherPins(verifier.idx, EmptyPins))
       THEN verifier' = [verifier EXCEPT !.at = "packages"]
       ELSE verifier' = NoVerify
    /\ UNCHANGED <<ws, bld, dist, served, pubops, deaths>>

(* assertVerifiedBytesRemainSelected: everything is read once more. *)
RemainSelected == assertRootBound /\ dist.idx = verifier.idx

VerifyVerdict ==
    /\ verifier.at = "packages"
    /\ verifier' = IF RemainSelected THEN [verifier EXCEPT !.at = "verified"] ELSE NoVerify
    /\ UNCHANGED <<ws, bld, dist, served, pubops, deaths>>

VerifyDone ==
    /\ verifier.at = "verified"
    /\ verifier' = NoVerify
    /\ UNCHANGED <<ws, bld, dist, served, pubops, deaths>>

PublisherNext ==
    \/ \E p \in Packages : addPackage(p) \/ stageRevokePackage(p)
    \/ \E k \in PubKeys : stageRotatePublisherKey(k) \/ stageRevokePublisherKey(k)
    \/ \E k \in TapKeys : stageRotateTapKey(k)
    \/ \E bypass \in BOOLEAN : Reserve(bypass)
    \/ MoveAside \/ MoveIn \/ MoveInFails \/ commitBuild \/ BuildDies
    \/ VerifyIndex \/ VerifyPackages \/ VerifyVerdict \/ VerifyDone

(***************************************************************************)
(* Properties                                                               *)
(***************************************************************************)
(* No two different indexes a reader may ever have fetched carry the same    *)
(* sequence, however builds die between the swap and the commit: a reader    *)
(* refuses the second as a replay.                                           *)
SequencesUnique == \A s, t \in served : s.idx.seq = t.idx.seq => s = t

(* Every build the workspace lets the operator stage can be made: signed,     *)
(* re-signed and verified against the reader that followed every committed    *)
(* build, through any number of rotations, revocations and builds that died.  *)
(* The one exception is a rotation to a key id revoked before.                *)
BuildsOnceStaged ==
    Locked /\ PendingOf(ws, "rotate-publisher") \cap signPendingIntents(ws).revK = {} =>
        verifyBuiltDistribution(ws, [idx |-> buildSignedIndex(ws), envs |-> emittedPackages(ws)])

(* A verdict is about one build: the tree at the output path at the moment   *)
(* of the verdict is the one whose index and packages were read, although a  *)
(* build swaps the directory between the reads.                              *)
VerdictOneBuild ==
    verifier'.at = "verified" /\ verifier.at # "verified" =>
        /\ dist = verifier.root
        /\ dist \in served

(* A publisher that may die in any build keeps a usable tap: no sequence is  *)
(* used twice, and every staged build can be made (build.ts, lifecycle.ts).  *)
PublisherSound == SequencesUnique /\ BuildsOnceStaged
============================================================================
