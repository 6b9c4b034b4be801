------------------------------ MODULE Signing ------------------------------
(***************************************************************************)
(* Trust in signed template indexes (src/profile/templates/signing): what   *)
(* an index announces, when a reader that has pinned earlier evidence       *)
(* accepts it, and what it pins afterwards.                                 *)
(*                                                                         *)
(* A key is its id; a signature is the id of the key that made it.  An      *)
(* index is                                                                *)
(*   [seq, signer, pub, pkgs, rots, taprot, revP, revK]                     *)
(* : its sequence, the tap key that signed it, the publisher key it         *)
(* announces, its packages [c, d] (coordinate, payload digest), the         *)
(* publisher rotations [from, to, eff] it carries, the one tap-key rotation *)
(* it may carry, and the revoked digests and keys.  The canonical digest of *)
(* an index is the index itself.                                            *)
(***************************************************************************)
EXTENDS Naturals, FiniteSets

CONSTANTS NoKey, NoRotation

EmptyPins == [seq |-> 0, pub |-> NoKey, hist |-> {}, coords |-> {}, revP |-> {}, revK |-> {}]

(* A tap that was never refreshed has highestSequence -1; workspaces number  *)
(* their builds from 1, so 0 plays that part here.                           *)
Unrefreshed(pins) == pins.seq = 0

rotationMap(idx) == {r \in idx.rots : r.eff <= idx.seq}

(* Two rotations leaving one key make the chain ambiguous. *)
Unambiguous(rots) == \A r, q \in rots : r.from = q.from => r = q

(* A walk from key p to key a: it starts and ends there, no two of its        *)
(* rotations leave or reach one key, none returns to p or goes on from a, and *)
(* each takes effect after the one it continues.                             *)
LeadTo(W, p, a) ==
    /\ \E r \in W : r.from = p
    /\ \E r \in W : r.to = a
    /\ \A r, q \in W : r.from = q.from \/ r.to = q.to => r = q
    /\ \A r \in W :
           /\ r.to # p /\ r.from # a
           /\ r.from = p \/ \E q \in W : q.to = r.from /\ q.eff < r.eff
           /\ r.to = a \/ \E q \in W : q.from = r.to

(* The rotations a reader follows from its pinned key to the announced one.   *)
(* Where no two rotations leave one key there is one walk at most.            *)
followRotationChain(rots, pinned, announced) ==
    UNION {W \in SUBSET rots : LeadTo(W, pinned, announced)}

acceptedRotations(idx, pinned) ==
    IF pinned \in {NoKey, idx.pub} THEN {}
    ELSE followRotationChain(rotationMap(idx), pinned, idx.pub)

(* The keys a reader passes through. *)
acceptedPublisherKeys(idx, pinned) ==
    {idx.pub} \cup {r.to : r \in acceptedRotations(idx, pinned)}

(* The announced key is the pinned one, or the rotations lead to it.          *)
ChainHolds(idx, pinned) ==
    \/ pinned \in {NoKey, idx.pub}
    \/ Unambiguous(rotationMap(idx)) /\ acceptedRotations(idx, pinned) # {}

(* No key a reader is led to may be one already in its history. *)
registerKey(hist, rots) == \A r \in rots : r.to \notin hist

assertCoordinateContinuity(idx, pins) ==
    \A p \in idx.pkgs, q \in pins.coords : p.c = q.c => p.d = q.d

assertNoRevokedActiveKeys(idx, pins) == idx.pub \notin pins.revK \cup idx.revK

(* advancePublisherPins: what is accepted, and what is then pinned. *)
Advances(idx, pins) ==
    /\ idx.seq > pins.seq
    /\ assertCoordinateContinuity(idx, pins)
    /\ ChainHolds(idx, pins.pub)
    /\ registerKey(pins.hist, acceptedRotations(idx, pins.pub))
    /\ assertNoRevokedActiveKeys(idx, pins)

advancePublisherPins(idx, pins) ==
    [seq |-> idx.seq, pub |-> idx.pub,
     hist |-> pins.hist \cup acceptedPublisherKeys(idx, pins.pub),
     coords |-> pins.coords \cup idx.pkgs,
     revP |-> pins.revP \cup idx.revP,
     revK |-> pins.revK \cup idx.revK]

(* A rotation is believed when both keys signed it, it starts at the key      *)
(* trusted now, and it leads to another one.                                 *)
verifyTapKeyRotation(rotation, current) ==
    /\ rotation # NoRotation
    /\ rotation.from = current
    /\ rotation.to # current

(* The tap key that may have signed an index: the trusted one, or the one    *)
(* this very index rotates it to, unless that key was retired before.        *)
AcceptsTapKey(idx, current, retired) ==
    \/ idx.signer = current
    \/ /\ verifyTapKeyRotation(idx.taprot, current)
       /\ idx.taprot.eff = idx.seq
       /\ idx.taprot.to \notin retired
       /\ idx.signer = idx.taprot.to

(* An envelope [c, d, k] is the package of an accepted index when its        *)
(* payload is the one the index names and the announced key signed it.       *)
verifySignedPackage(env, idx, pins) ==
    /\ pins.seq >= idx.seq
    /\ [c |-> env.c, d |-> env.d] \in idx.pkgs
    /\ env.d \notin pins.revP
    /\ idx.pub \notin pins.revK
    /\ env.k = idx.pub
============================================================================
