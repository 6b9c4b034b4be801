----------------------------- MODULE Mutations -----------------------------
(***************************************************************************)
(* The audited writers: a durable change first, its event after it.        *)
(* src/relations/store.ts and store-read.ts (create, update, compact),     *)
(* src/trust/lifecycle-apply.ts, src/trust/gated-state-entry.ts,           *)
(* src/artifacts/apply.ts and resolve.ts, over the log of EventStore.      *)
(*                                                                         *)
(* One session at a time holds the project lock.  A page or artifact batch *)
(* is one step: module Journal shows that recovery makes it so.  A relation*)
(* is appended to wiki/graph/relations.jsonl without a journal, so a dying *)
(* session may leave part of its line.                                     *)
(***************************************************************************)
EXTENDS EventStore, SequencesExt

CONSTANTS
    Endpoints,      \* the entity pages a relation may point to
    Attributes,     \* attribute values of a relation
    RelationIds,    \* ULIDs of relations
    States, Initial, Transitions,   \* the page's lifecycle
    GatedState,     \* the state with a relation and an artifact requirement
    OtherStates,    \* the states the relation's endpoint must be in
    MinCount,       \* how many distinct endpoints it takes
    Digests,        \* artifact contents
    None,           \* no file, no value
    Garbled,        \* a line that does not parse
    MaxLines,       \* the relation store's byte cap, in lines
    MaxMishaps      \* bound: failing sessions and mishaps by others

Contents == [to : Endpoints, attr : Attributes]
RelationRef == [id : RelationIds, content : Contents]

ASSUME MutationAssumption ==
    /\ Transitions \subseteq States \X States
    /\ Initial \in States /\ GatedState \in States /\ OtherStates \subseteq States
    /\ MinCount \in Nat /\ MaxLines \in Nat /\ MaxMishaps \in Nat

VARIABLES
    rheader, rlines, rtail,     \* relations.jsonl: header, lines, torn last line
    valid,      \* attribute values the active profile accepts
    other,      \* other[e]: the endpoint page's state, or a fault
    page,       \* the page's lifecycle field
    ref,        \* the artifact digest its evidence field pins
    art,        \* the artifact's body and manifest
    pc,         \* what the session does next
    mishaps,
    \* History, read by no action:
    orphaned,   \* changes in force whose session ended before the event
    rtorn       \* a session died inside an append to the relation store

rvars == <<rheader, rlines, rtail>>
wiki  == <<valid, other, page, ref, art>>
hist  == <<orphaned, rtorn>>
auditVars  == <<esvars, rvars, wiki, pc, mishaps, hist>>

\* Payloads: the event's type and what it names.
CreateOf(c)    == <<"relation-create", c>>
UpdateOf(r)    == <<"relation-update", r>>
Compaction     == <<"relation-compact", None>>
TransitionOf(s, d) == <<"lifecycle-transition", <<s, d>>>>
ArtifactOf(d)  == <<"artifact-write", d>>

AllPayloads ==
    {CreateOf(c) : c \in Contents} \cup {UpdateOf(r) : r \in RelationRef}
    \cup {Compaction} \cup {ArtifactOf(d) : d \in Digests}
    \cup {TransitionOf(s, d) : s \in States, d \in Digests \cup {None}}

\* The log takes every event these writers append; a line that does not parse is
\* no record.
ASSUME LineAssumption == AllPayloads \subseteq Payloads /\ Garbled \notin RelationRef

-----------------------------------------------------------------------------
(* Reading the relation store. *)

Lines == IF rtail THEN Append(rlines, Garbled) ELSE rlines

\* parseRecords: only the last line may be bad.
RelationsReadable ==
    /\ rheader # "torn"
    /\ \A i \in 1..(Len(Lines) - 1) : Lines[i] # Garbled

\* checkRelationStore, as far as it is about the file.
checkRelationStore ==
    IF ~RelationsReadable THEN {"relation-store-corrupt"}
    ELSE IF Lines # <<>> /\ Lines[Len(Lines)] = Garbled THEN {"relation-store-torn"}
    ELSE {}

\* The newest record of each id among the lines that parse.
latestPerId(l) ==
    LET Rec == {i \in 1..Len(l) : l[i] # Garbled}
    IN  {l[i] : i \in {j \in Rec : \A k \in Rec : k > j => l[k].id # l[j].id}}

readRelations == latestPerId(Lines)

validateRelationAgainstProfile(r) == r.content.attr \in valid

LiveValid == {r \in readRelations : validateRelationAgainstProfile(r)}

UsedIds == {Lines[i].id : i \in {j \in 1..Len(Lines) : Lines[j] # Garbled}}

-----------------------------------------------------------------------------
(* Entering a gated state. *)

\* tallyCandidates: distinct endpoints whose page exists, is valid and is in one
\* of the required states.
Qualifying == {e \in Endpoints : /\ \E r \in LiveValid : r.content.to = e
                                 /\ other[e] \in OtherStates}

\* enforceRelationPreconditions; an unreadable store or endpoint page cannot be
\* verified.
RelationVerdict ==
    IF ~RelationsReadable
       \/ \E r \in LiveValid : other[r.content.to] = "unreadable"
    THEN "unverifiable"
    ELSE IF Cardinality(Qualifying) < MinCount THEN "unmet" ELSE "met"

\* resolveArtifactRef for a pinned digest.
ArtifactHealth(d) ==
    IF art.manifest = None \/ art.body = None THEN "artifact-dangling"
    ELSE IF art.body = "unreadable" THEN "artifact-unreadable"
    ELSE IF art.manifest = "malformed" THEN "genuine-fault"
    ELSE IF art.body # art.manifest THEN "artifact-bytes-tampered"
    ELSE IF art.body # d THEN "artifact-hash-mismatch"
    ELSE "ok"

\* enforceArtifactPreconditions with classifyArtifactHealth.
ArtifactVerdict(d) ==
    IF d = None THEN "unmet"
    ELSE IF ArtifactHealth(d) = "ok" THEN "met"
    ELSE IF ArtifactHealth(d) \in {"artifact-unreadable", "genuine-fault"}
         THEN "unverifiable" ELSE "unmet"

\* enforceGatedStateEntry throws unless both requirements are met.
enforceGatedStateEntry(s, d) ==
    s = GatedState => RelationVerdict = "met" /\ ArtifactVerdict(d) = "met"

\* validateLifecycleTransition: an undeclared state or an edge that is not
\* declared blocks; staying is legal.
validateLifecycleTransition(s) ==
    s \in States /\ (page = None \/ page = s \/ <<page, s>> \in Transitions)

-----------------------------------------------------------------------------

AuditInit ==
    /\ EvInit
    /\ rheader = "absent" /\ rlines = <<>> /\ rtail = FALSE
    /\ valid = Attributes
    /\ other \in [Endpoints -> {Initial} \cup OtherStates]
    /\ page = Initial /\ ref = None
    /\ art = [body |-> None, manifest |-> None]
    /\ pc = "idle" /\ mishaps = 0
    /\ orphaned = {} /\ rtorn = FALSE

\* Fault: the event is appended before the change is written.
FaultPreflight(p) ==
    /\ pc = "idle"
    /\ preflightEventAppend(p)
    /\ pc' = IF step' = "ready" THEN "audit" ELSE pc
    /\ UNCHANGED <<rvars, wiki, mishaps, hist>>

\* Every writer preflights its event before it writes anything.
Preflight(p) ==
    /\ pc = "idle"
    /\ preflightEventAppend(p)
    /\ pc' = IF step' = "ready" THEN "land" ELSE pc
    /\ UNCHANGED <<rvars, wiki, mishaps, hist>>

\* The input is checked, then the store is read; a relation with the same content
\* is returned as it is, without an event (DuplicateRelation).
\* buildRelationRef throws on an input the profile does not accept.
appendRelationLocked(c) ==
    /\ c.attr \in valid /\ RelationsReadable
    /\ \A r \in readRelations : r.content # c
    /\ UsedIds # RelationIds
    /\ Preflight(CreateOf(c))

\* composeTrustDecision over the relation checks: one block denies the write.
planRelationMutation(c) == IF c.attr \in valid THEN "allow" ELSE "deny"

\* applyRelationLocked, behind createRelation: plan, then append.
applyRelationLocked(c) == planRelationMutation(c) = "allow" /\ appendRelationLocked(c)

\* A trusted import appends each entry on its own, under one lock.
applyTrustedRelations(c) == appendRelationLocked(c)

DuplicateRelation(c) ==
    /\ pc = "idle" /\ step = "idle" /\ c.attr \in valid
    /\ Preparable /\ Repair
    /\ RelationsReadable /\ \E r \in readRelations : r.content = c
    /\ UNCHANGED <<head, step, event, lastId, sealed, tampered, rvars, wiki, pc,
                   mishaps, hist>>

\* updateRelation: a superseding line under the same id.
updateRelation(r) ==
    /\ RelationsReadable /\ r.content.attr \in valid
    /\ \E old \in readRelations : old.id = r.id /\ old.content.to = r.content.to
    /\ Preflight(UpdateOf(r))

compactRelations == RelationsReadable /\ Preflight(Compaction)

\* applyLifecycleLocked: the edge, the requirements, then the preflight.  A
\* transition accepts the evidence its target state declares.
Evidence(s, d) == IF s = GatedState /\ d # None THEN d ELSE ref

applyLifecycleLocked(s, d) ==
    /\ validateLifecycleTransition(s)
    /\ enforceGatedStateEntry(s, Evidence(s, d))
    /\ Preflight(TransitionOf(s, Evidence(s, d)))

isAlreadyApplied(d) == art.manifest = d /\ art.body = d

\* applyArtifactLocked: bytes that are already there are not written again, and
\* no event is appended for them.
applyArtifactLocked(d) == ~isAlreadyApplied(d) /\ Preflight(ArtifactOf(d))

-----------------------------------------------------------------------------
(* The durable write. *)

\* Fault: the writer returns without its event.
FaultLand == pc' = "idle" /\ Abort /\ UNCHANGED <<mishaps, hist>>

Land == pc' = "audit" /\ UNCHANGED <<esvars, mishaps, hist>>

NewLine(i) == IF event[1] = "relation-update" THEN event[2]
              ELSE [id |-> i, content |-> event[2]]

\* appendLine: the header of an empty file, then the record.  A torn last line
\* is not repaired: the record joins it.
appendLine(i) ==
    /\ rheader' = IF rheader = "absent" THEN "ok" ELSE rheader
    /\ rlines' = Append(rlines, IF rtail THEN Garbled ELSE NewLine(i))
    /\ rtail' = FALSE

Appending ==
    pc = "land" /\ event[1] \in {"relation-create", "relation-update"}

WriteRelation(i) ==
    /\ Appending /\ Len(Lines) < MaxLines
    /\ event[1] = "relation-create" => i \notin UsedIds
    /\ appendLine(i)
    /\ Land /\ UNCHANGED wiki

\* RelationStoreFullError: nothing was written.
RelationStoreFull ==
    /\ Appending /\ Len(Lines) >= MaxLines
    /\ pc' = "idle" /\ Abort
    /\ UNCHANGED <<rvars, wiki, mishaps, hist>>

\* writeCompactedAtomically: the surviving records replace the file.
WriteCompacted ==
    /\ pc = "land" /\ event[1] = "relation-compact"
    /\ rheader' = "ok" /\ rtail' = FALSE
    /\ rlines' = SetToSeq(LiveValid)
    /\ Land /\ UNCHANGED wiki

\* The page batch: the state and the evidence it requires.
WritePage ==
    /\ pc = "land" /\ event[1] = "lifecycle-transition"
    /\ page' = event[2][1] /\ ref' = event[2][2]
    /\ Land /\ UNCHANGED <<rvars, valid, other, art>>

\* The artifact batch: bytes and manifest.
WriteArtifact ==
    /\ pc = "land" /\ event[1] = "artifact-write"
    /\ art' = [body |-> event[2], manifest |-> event[2]]
    /\ Land /\ UNCHANGED <<rvars, valid, other, page, ref>>

-----------------------------------------------------------------------------
(* The event, and what may go wrong. *)

\* The page and the artifact have one value, which the newest event names.
Supersedes(p, q) ==
    q = p \/ (q[1] = p[1] /\ p[1] \in {"lifecycle-transition", "artifact-write"})

\* emitRelationEvent, or the closing appendEventLocked.
Audit ==
    /\ pc = "audit"
    /\ StartAppend(event) \/ WriteHeader \/ WriteRecord
    /\ UNCHANGED <<rvars, wiki, pc, mishaps, hist>>

AuditSealed ==
    /\ pc = "audit" /\ sealHeadAnchor
    /\ pc' = "idle"
    /\ orphaned' = {q \in orphaned : ~Supersedes(event, q)}
    /\ UNCHANGED <<rvars, wiki, mishaps, rtorn>>

Mishap == mishaps < MaxMishaps /\ mishaps' = mishaps + 1

\* The session dies or throws; what landed stays.
Fail ==
    /\ pc # "idle" /\ pc' = "idle" /\ Mishap
    /\ Abort \/ TornHeader \/ TornRecord
    /\ orphaned' = IF pc = "audit" THEN orphaned \cup {event} ELSE orphaned
    /\ UNCHANGED <<rvars, wiki, rtorn>>

\* It dies inside its append to the relation store.
FailTornRelation ==
    /\ Appending /\ Len(Lines) < MaxLines /\ ~rtail
    /\ IF rheader = "absent"
       THEN rheader' \in {"torn", "ok"} /\ rtail' = (rheader' = "ok")
       ELSE rtail' = TRUE /\ UNCHANGED rheader
    /\ pc' = "idle" /\ Abort /\ Mishap
    /\ rtorn' = TRUE
    /\ UNCHANGED <<rlines, wiki, orphaned>>

\* Between sessions the owner changes the profile, an endpoint page or the
\* artifact's bytes, and somebody may rewrite the event log.
Outside ==
    /\ pc = "idle" /\ Mishap
    /\ UNCHANGED <<rvars, page, ref, pc, hist>>
    /\ \/ valid' \in {Attributes, {}} /\ UNCHANGED <<esvars, other, art>>
       \/ /\ \E e \in Endpoints, s \in States \cup {"absent", "unreadable"} :
                other' = [other EXCEPT ![e] = s]
          /\ UNCHANGED <<esvars, valid, art>>
       \/ /\ \E b \in Digests \cup {None, "unreadable"} : art' = [art EXCEPT !.body = b]
          /\ UNCHANGED <<esvars, valid, other>>
       \/ Tamper /\ UNCHANGED <<valid, other, art>>

AuditNext ==
    \/ \E c \in Contents :
          applyRelationLocked(c) \/ applyTrustedRelations(c) \/ DuplicateRelation(c)
    \/ \E r \in RelationRef : updateRelation(r)
    \/ \E i \in RelationIds : WriteRelation(i)
    \/ compactRelations \/ WriteCompacted \/ RelationStoreFull
    \/ \E s \in States, d \in Digests \cup {None} : applyLifecycleLocked(s, d)
    \/ \E d \in Digests : applyArtifactLocked(d)
    \/ WritePage \/ WriteArtifact \/ Audit \/ AuditSealed
    \/ Fail \/ FailTornRelation \/ Outside

AuditSpec == AuditInit /\ [][AuditNext]_auditVars

-----------------------------------------------------------------------------
(* Properties. *)

\* Every variable keeps its type.
AuditTypeOK ==
    /\ EvTypeOK
    /\ rheader \in {"absent", "ok", "torn"} /\ rtail \in BOOLEAN
    /\ rlines \in Seq(RelationRef \cup {Garbled})
    /\ valid \subseteq Attributes
    /\ other \in [Endpoints -> States \cup {"absent", "unreadable"}]
    /\ page \in States /\ ref \in Digests \cup {None}
    /\ art \in [body : Digests \cup {None, "unreadable"},
                manifest : Digests \cup {None}]
    /\ pc \in {"idle", "land", "audit"}
    /\ orphaned \subseteq Payloads
    /\ rtorn \in BOOLEAN /\ mishaps \in 0..MaxMishaps

\* The change an event names, in the wiki.
Present(p) ==
    CASE p[1] = "relation-create" -> \E r \in readRelations : r.content = p[2]
      [] p[1] = "relation-update" -> p[2] \in readRelations
      [] p[1] = "relation-compact" -> readRelations = LiveValid
      [] p[1] = "lifecycle-transition" -> p[2] = <<page, ref>>
      [] p[1] = "artifact-write" -> isAlreadyApplied(p[2])

\* No phantom audit: when an event is written, the change it names is durable and
\* reads back, so the log never claims what a crash took away.  (Not so once a
\* relation append was torn: the next append joins the torn line.)
NoPhantomAudit ==
    Len(log') > Len(log) /\ ~rtorn => Present(log'[Len(log')].payload)

\* The preflight is enough: no writer finds the event log full, or refused, after
\* its change has landed.
PreflightSuffices == pc = "audit" /\ step = "ready" => Preparable /\ HasRoom(Kept)

Audited(p) == p \in orphaned \/ \E i \in 1..Len(sealed) : sealed[i].payload = p

\* What the newest event of kind k in l names.
LastIn(l, k) ==
    LET E == {i \in 1..Len(l) : l[i].payload[1] = k}
    IN  IF E = {} THEN None
        ELSE l[CHOOSE i \in E : \A j \in E : j <= i].payload[2]

LastOf(k) == LastIn(sealed, k)

Orphan(k) == \E p \in orphaned : p[1] = k

\* The log explains the wiki: the page's state and evidence and the artifact are
\* what the newest event of their kind says, and every relation that reads back
\* has its event, except for a change whose session ended between the write and
\* the event - and that change is named until an audited one replaces it.
LogExplainsState ==
    pc = "idle" =>
        /\ \/ Orphan("lifecycle-transition")
           \/ LastOf("lifecycle-transition") = <<page, ref>>
           \/ LastOf("lifecycle-transition") = None /\ page = Initial /\ ref = None
        /\ Orphan("artifact-write") \/ art.manifest = LastOf("artifact-write")
        /\ RelationsReadable => \A r \in readRelations :
               Audited(CreateOf(r.content)) \/ Audited(UpdateOf(r))

\* No silent loss: while lint has nothing to say about the relation file, every
\* relation whose creation was audited since the last compaction is in it - even
\* after sessions died inside their append.
LossReported ==
    pc = "idle" /\ checkRelationStore = {} =>
        \A i \in 1..Len(sealed) :
            LET p == sealed[i].payload
            IN  \/ p[1] # "relation-create"
                \/ \E j \in i..Len(sealed) : sealed[j].payload = Compaction
                \/ Compaction \in orphaned
                \/ \E r \in readRelations : r.content.to = p[2].to

\* A page enters the gated state only while enough distinct endpoint pages are in
\* a required state and the pinned artifact is intact: missing, tampered,
\* unreadable or unverifiable evidence all refuse.
GatedEntry ==
    page' # page /\ page' = GatedState =>
        /\ RelationsReadable /\ Cardinality(Qualifying) >= MinCount
        /\ art.body = ref' /\ art.manifest = ref'

\* The audit trail can be trusted at every moment, whatever crashed: the log is the
\* sealed one or one line ahead of it, it takes the next event, tampering shows, and
\* relations, page state and artifacts are what its events say, or a loss is reported
\* (events/store.ts, trust/lifecycle-apply.ts, artifacts/apply.ts, relations/store.ts).
AuditSound ==
    /\ AuditTypeOK
    /\ SealedKept /\ AppendRecovers /\ TamperReported
    /\ PreflightSuffices /\ LogExplainsState /\ LossReported

\* No step records what has not happened, seals a line it did not write, or enters a
\* gated state without the evidence the profile asks for.
AuditSteps == [][NoPhantomAudit /\ NoLaundering /\ GatedEntry]_auditVars
=============================================================================
