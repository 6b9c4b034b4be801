------------------------------ MODULE Profile ------------------------------
(***************************************************************************)
(* The profile pack (profile/): what validateProfile accepts, and what the *)
(* accepted pack then means for the pages, relations and artifacts on disk *)
(* - the field contract, the lifecycle gates, the inputs of its workflow   *)
(* actions, the summary that status and the viewer show, the standing      *)
(* check of relation requirements, and `profile diff`.                     *)
(*                                                                         *)
(* A pack is a record; an optional block that is absent is an empty        *)
(* function.  Its JSON shape (schema/*.json) is given by the record types. *)
(* A frontmatter value is <<kind, content>>; kinds are told apart by what  *)
(* the field predicates and the evidence gate tell apart.                  *)
(***************************************************************************)
EXTENDS Naturals, Sequences, FiniteSets, SequencesExt

CONSTANTS
    DiffPacks,      \* the packs an author saves, or compares with `profile diff`
    Dirs,           \* the directories of the wiki
    SafeDirs,       \* directories that validateEntityDirectory accepts
    Stems,          \* file stems; those of SlugStems are slug-safe
    SlugStems,
    Notes,          \* the pages an author may write
    StarterDir,     \* StarterDir[t]: wiki/t, for the types `profile init` may be given
    Links,          \* the relations that may be added
    ProblemCap,     \* PROFILE_PROBLEM_CAP
    MaxEdits,       \* bound: edits in a behaviour
    None            \* no profile, file, value or gate

DefaultDirs == {"wiki/concepts", "wiki/queries"}

ASSUME ProfileAssumption ==
    /\ SlugStems \subseteq Stems /\ IsFiniteSet(Stems) /\ SafeDirs \subseteq Dirs /\ DefaultDirs \subseteq Dirs
    /\ ProblemCap \in Nat /\ ProblemCap >= 2 /\ MaxEdits \in Nat /\ None \notin Notes

VARIABLES
    saved,      \* .llmwiki/profile.json, or None (the built-in default)
    folder,     \* folder[d]: "ok", "missing" or "invalid" (a symlink)
    notes,      \* notes[d, s]: the page d/s.md, [slug, front], or None
    links,      \* the live relations
    health,     \* "ok" or "unavailable" for the relation store; the event log; the artifacts
    verdict,    \* what the last `profile validate` or `profile diff` said
    edits

profileVars == <<saved, folder, notes, links, health, verdict, edits>>

Unscoped == {"*"}
NoEntries == [x \in {} |-> x]
RefTypes == {"artifactRef", "artifactRef[]"}
Cover(f, s) == \A x \in s : x \in DOMAIN f
AtKey(f, k) == IF k \in DOMAIN f THEN f[k] ELSE {}

-----------------------------------------------------------------------------
(* What the JSON schema and the parser leave a pack to be. *)

FieldTypes ==
    {"string", "slug", "integer", "number", "boolean", "date", "enum", "string[]", "artifactRef", "artifactRef[]"}
InputTypes == {"string", "number", "boolean", "entityRef", "string[]"}

WellShaped(p) ==
    /\ p # None /\ IsFiniteSet(DOMAIN p.entities)
    /\ \A t \in DOMAIN p.entities :
           LET d == p.entities[t] IN
           /\ \A f \in DOMAIN d.fields : d.fields[f].type \in FieldTypes
           /\ d.lifecycle # <<>> =>
                  \A s \in DOMAIN d.lifecycle[1].relationReqs : \A req \in d.lifecycle[1].relationReqs[s] :
                      req.role \in {"from", "to"}
    /\ \A n \in DOMAIN p.actions : \A i \in DOMAIN p.actions[n].inputs : p.actions[n].inputs[i].type \in InputTypes

ASSUME PacksAssumption == \A p \in DiffPacks : WellShaped(p)

-----------------------------------------------------------------------------
(* Entity types: fields and lifecycles. *)

\* A bound of a number field that is not finite.
assertFieldDefFinite(f) == f.range # "infinite"

assertArtifactTypesScoped(f, artifacts) ==
    f.scope # Unscoped => f.type \in RefTypes /\ f.scope # {} /\ f.scope \subseteq artifacts

validateRequiredFields(d) == Cover(d.fields, d.required)

validateContentTiers(d) ==
    \A i \in DOMAIN d.tiers :
        /\ d.tiers[i] \in DOMAIN d.fields \cup {"body"}
        /\ ~(d.tiers[i] = "body" /\ "body" \in DOMAIN d.fields)
        /\ \A j \in 1..(i - 1) : d.tiers[j] # d.tiers[i]

\* The validator's state set leaves the initial state out; the runtime's has it.
lifecycleStates(lc) == lc.terminal \cup {e[1] : e \in lc.transitions} \cup {e[2] : e \in lc.transitions}
lifecycleStateSet(lc) == {lc.initial} \cup lifecycleStates(lc)

EvidenceCompatible == {"string", "number", "integer", "slug", "string[]", "enum"}

\* Fault: any declared type may be required as evidence.
FaultEvidence(lc, fields) ==
    \A s \in DOMAIN lc.evidence : \A f \in lc.evidence[s] : f \in DOMAIN fields /\ f \notin {"slug", lc.field}

assertEvidenceFieldsDeclared(lc, fields) ==
    \A s \in DOMAIN lc.evidence : \A f \in lc.evidence[s] :
        /\ f \notin {"slug", lc.field} /\ f \in DOMAIN fields
        /\ fields[f].type \in EvidenceCompatible

\* A warning, not an error: a page may enrol in any state.
unreachableStates(lc) ==
    LET Reached[n \in Nat] ==
            IF n = 0 THEN {lc.initial}
            ELSE Reached[n - 1] \cup {e[2] : e \in {f \in lc.transitions : f[1] \in Reached[n - 1]}} IN
    lifecycleStates(lc) \ Reached[Cardinality(lc.transitions)]

assertLifecycleEnum(lc, fields) ==
    lc.field \in DOMAIN fields =>
        fields[lc.field].type = "enum" /\ fields[lc.field].enum = lifecycleStates(lc)

validateLifecycle(lc, fields) ==
    /\ lc.initial \in lifecycleStates(lc)
    /\ \A t \in lc.terminal : \A e \in lc.transitions : e[1] # t
    /\ DOMAIN lc.evidence \subseteq lifecycleStates(lc)
    /\ assertEvidenceFieldsDeclared(lc, fields)
    /\ assertLifecycleEnum(lc, fields)

validateEntity(d, artifacts) ==
    /\ d.directory \in SafeDirs
    /\ \A f \in DOMAIN d.fields :
           assertFieldDefFinite(d.fields[f]) /\ assertArtifactTypesScoped(d.fields[f], artifacts)
    /\ validateRequiredFields(d) /\ validateContentTiers(d)
    /\ d.lifecycle # <<>> => validateLifecycle(d.lifecycle[1], d.fields)

validateEntities(p) ==
    /\ \A t \in DOMAIN p.entities : validateEntity(p.entities[t], DOMAIN p.artifacts)
    /\ \A t, u \in DOMAIN p.entities : t # u => p.entities[t].directory # p.entities[u].directory

-----------------------------------------------------------------------------
(* Relations, and what a state may require of them and of artifacts. *)

validateRelations(p) ==
    \A r \in DOMAIN p.relations :
        LET rel == p.relations[r] IN
        /\ rel.from # {} /\ rel.to # {} /\ rel.from \cup rel.to \subseteq DOMAIN p.entities
        /\ rel.required \subseteq rel.attributes

OwnSide(rel, role)   == IF role = "from" THEN rel.from ELSE rel.to
OtherSide(rel, role) == IF role = "from" THEN rel.to ELSE rel.from
StatesOfTypes(p, ts) ==
    UNION {lifecycleStates(p.entities[t].lifecycle[1]) : t \in {u \in ts : p.entities[u].lifecycle # <<>>}}

assertRelationCountReq(p, t, req) ==
    /\ req.relation \in DOMAIN p.relations
    /\ LET rel == p.relations[req.relation]
           allowed == IF req.types = Unscoped THEN OtherSide(rel, req.role) ELSE req.types IN
       /\ rel.direction # "symmetric"
       /\ t \in OwnSide(rel, req.role)
       /\ req.types # Unscoped => req.types # {} /\ req.types \subseteq OtherSide(rel, req.role)
       /\ req.states # Unscoped => req.states # {} /\ req.states \subseteq StatesOfTypes(p, allowed)
       /\ req.min >= 1

assertRelationRequirementsDeclared(p) ==
    \A t \in DOMAIN p.entities : p.entities[t].lifecycle # <<>> =>
        LET lc == p.entities[t].lifecycle[1] IN
        \A s \in DOMAIN lc.relationReqs :
            s \in lifecycleStates(lc) /\ \A req \in lc.relationReqs[s] : assertRelationCountReq(p, t, req)

assertArtifactReq(d, req, artifacts) ==
    /\ req.field \in DOMAIN d.fields /\ d.fields[req.field].type = "artifactRef"
    /\ req.artifact \in artifacts
    /\ d.fields[req.field].scope = Unscoped \/ req.artifact \in d.fields[req.field].scope

assertArtifactRequirementsDeclared(p) ==
    \A t \in DOMAIN p.entities : p.entities[t].lifecycle # <<>> =>
        LET lc == p.entities[t].lifecycle[1] IN
        \A s \in DOMAIN lc.artifactReqs :
            /\ s \in lifecycleStates(lc)
            /\ \A req \in lc.artifactReqs[s] : assertArtifactReq(p.entities[t], req, DOMAIN p.artifacts)

validateArtifacts(p) ==
    \A a \in DOMAIN p.artifacts :
        LET d == p.artifacts[a] IN
        d.fileName = d.contentKind /\ d.maxBytes = "within" /\ (d.metadata # <<>> => d.contentKind = "json")
        /\ \A i \in DOMAIN d.metadata : d.metadata[i] \notin RefTypes

validateConnectors(p) ==
    \A c \in DOMAIN p.connectors :
        LET b == p.connectors[c] IN
        /\ b.registered /\ b.entity \in DOMAIN p.entities
        /\ \A f \in DOMAIN b.fields : f \in b.emitted /\ b.fields[f] \in DOMAIN p.entities[b.entity].fields
        /\ b.content # "" => b.content \in b.emitted

-----------------------------------------------------------------------------
(* Workflows and their actions.  A gate is <<kind, id>>, no gate is <<>>. *)

GateKindOf(g) == IF g # <<>> THEN g[1] ELSE "none"
StageIds(wf) == {wf[i].id : i \in DOMAIN wf}

validateStage(p, stage) ==
    /\ stage.reads \cup stage.writes \subseteq DOMAIN p.entities
    /\ stage.artifactWrites \subseteq DOMAIN p.artifacts
    /\ GateKindOf(stage.gate) \in {"none", "human", "agent", "trust"}
    /\ GateKindOf(stage.gate) = "trust" => stage.writes # {} \/ stage.artifactWrites # {}

assertStagePreviousIds(wf) ==
    \A i \in DOMAIN wf :
        /\ wf[i].previous \cap StageIds(wf) = {}
        /\ \A j \in DOMAIN wf \ {i} : wf[i].previous \cap wf[j].previous = {}

validateWorkflows(p) ==
    \A w \in DOMAIN p.workflows :
        LET wf == p.workflows[w] IN
        /\ Cardinality(StageIds(wf)) = Len(wf)
        /\ \A i \in DOMAIN wf : validateStage(p, wf[i])
        /\ assertStagePreviousIds(wf)

\* The warnings of a pack that loads: a stage writes a type whose lifecycle
\* requires an artifact that no earlier stage produces.
requiredArtifactTypes(d) ==
    IF d.lifecycle = <<>> THEN {}
    ELSE UNION {{req.artifact : req \in d.lifecycle[1].artifactReqs[s]} : s \in DOMAIN d.lifecycle[1].artifactReqs}
collectArtifactOrderingWarnings(p) ==
    {x \in UNION {{w} \X (DOMAIN p.workflows[w]) \X DOMAIN p.artifacts : w \in DOMAIN p.workflows} :
        /\ \E t \in p.workflows[x[1]][x[2]].writes : x[3] \in requiredArtifactTypes(p.entities[t])
        /\ \A j \in 1..(x[2] - 1) : x[3] \notin p.workflows[x[1]][j].artifactWrites}

assertActionGates(a) ==
    /\ GateKindOf(a.gate) \in {"none", "human", "agent"}
    /\ GateKindOf(a.trustGate) \in {"none", "trust"}
    /\ a.operation = "gate" => a.gate # <<>>
    /\ a.operation # "status" => a.gate # <<>> \/ a.trustGate # <<>>

\* A declared default: "absent", of the declared type, or of another type.
assertActionInputSchema(p, a) ==
    \A n \in DOMAIN a.inputs :
        LET f == a.inputs[n] IN
        /\ IF f.type = "entityRef" THEN f.types # {} /\ f.types \subseteq DOMAIN p.entities ELSE f.types = {}
        /\ f.default \in {"absent", "good"}

RunIdRequired == {"resume", "advance", "gate", "cancel", "fail", "submit"}

assertRunIdBearingActionDeclaresRunId(a) ==
    a.operation \in RunIdRequired =>
        /\ "runId" \in DOMAIN a.inputs
        /\ a.inputs["runId"].type = "string" /\ a.inputs["runId"].required
        /\ a.inputs["runId"].default = "absent"

SubmitFields(a) ==
    IF "artifactType" \in DOMAIN a.inputs THEN {"artifactType", "slug", "body"} ELSE {"entityType", "slug", "body"}

assertSubmitActionPageOrArtifact(a) ==
    a.operation = "submit" =>
        /\ DOMAIN a.inputs \cap {"input", "toState", "evidence", "kind"} = {}
        /\ ~({"artifactType", "entityType"} \subseteq DOMAIN a.inputs)
        /\ SubmitFields(a) \subseteq DOMAIN a.inputs

validateWorkflowActions(p) ==
    \A n \in DOMAIN p.actions :
        LET a == p.actions[n] IN
        /\ ~a.reserved /\ a.workflow \in DOMAIN p.workflows
        /\ assertActionGates(a) /\ assertActionInputSchema(p, a)
        /\ assertRunIdBearingActionDeclaresRunId(a) /\ assertSubmitActionPageOrArtifact(a)

-----------------------------------------------------------------------------
(* The whole pack. *)

validateProfileShape(p) ==
    /\ ~p.inherits
    /\ validateEntities(p) /\ validateRelations(p) /\ assertRelationRequirementsDeclared(p)
    /\ validateWorkflows(p) /\ validateWorkflowActions(p) /\ validateArtifacts(p)
    /\ validateConnectors(p) /\ assertArtifactRequirementsDeclared(p)

\* The default profile's id, directories and page names are taken.
validateProfile(p) ==
    /\ validateProfileShape(p)
    /\ p.id # "default"
    /\ \A t \in DOMAIN p.entities :
           t \notin {"concepts", "queries"} /\ p.entities[t].directory \notin DefaultDirs

\* loadNonDefaultProfile: every surface fails on a pack that is rejected.
Loaded == saved # None /\ validateProfile(saved)

-----------------------------------------------------------------------------
(* The field contract and the lifecycle gates at run time.  The kinds of a    *)
(* value: a slug-safe string, a blank one, a number, a boolean, a date, a     *)
(* list with or without items, an artifact ref and a list of refs.            *)

TypePredicates ==
    {<<"string", "string">>, <<"string", "blank">>, <<"string", "ref">>, <<"slug", "string">>,
     <<"integer", "number">>, <<"number", "number">>, <<"boolean", "boolean">>, <<"date", "date">>,
     <<"string[]", "list">>, <<"string[]", "emptylist">>, <<"string[]", "refs">>,
     <<"artifactRef", "ref">>, <<"artifactRef[]", "refs">>, <<"artifactRef[]", "emptylist">>}

matchesDeclaredType(f, v) ==
    IF f.type = "enum" THEN v[1] = "string" /\ v[2] \in f.enum ELSE <<f.type, v[1]>> \in TypePredicates

\* No number lies in a range whose min exceeds its max.
InRange(f, v) == v[1] = "number" => f.range # "empty"

requiredFieldNames(d) == d.required \cup {f \in DOMAIN d.fields : d.fields[f].required}

validateEntityFields(d, front) ==
    (requiredFieldNames(d) \ DOMAIN front) \cup
    {f \in DOMAIN d.fields \cap DOMAIN front :
        ~matchesDeclaredType(d.fields[f], front[f]) \/ ~InRange(d.fields[f], front[f])}

\* The writers also hold refs to the declared artifact types and their scope.
entityFieldViolations(p, d, front) ==
    validateEntityFields(d, front) \cup
    {f \in DOMAIN d.fields \cap DOMAIN front :
        /\ d.fields[f].type \in RefTypes /\ front[f][1] \in {"ref", "refs"}
        /\ ~ /\ front[f][2] \in DOMAIN p.artifacts
             /\ d.fields[f].scope = Unscoped \/ front[f][2] \in d.fields[f].scope}

isEvidencePresent(front, f) == f \in DOMAIN front /\ front[f][1] \in {"string", "number", "list", "ref", "refs"}

StateOf(d, front) ==
    IF d.lifecycle # <<>> /\ d.lifecycle[1].field \in DOMAIN front THEN front[d.lifecycle[1].field] ELSE <<>>

\* prev is what the page's file says now; staying and enrolling are legal.
validateLifecycleTransition(d, prev, front) ==
    d.lifecycle # <<>> =>
        LET lc == d.lifecycle[1]
            next == StateOf(d, front) IN
        IF next = <<>> THEN prev = <<>>
        ELSE /\ next[1] = "string" /\ next[2] \in lifecycleStateSet(lc)
             /\ (prev # <<>> /\ prev # next) => <<prev[2], next[2]>> \in lc.transitions
             /\ \A f \in AtKey(lc.evidence, next[2]) : isEvidencePresent(front, f)

-----------------------------------------------------------------------------
(* What is on disk. *)

NoteAt(p, id) ==
    IF id[1] \in DOMAIN p.entities /\ folder[p.entities[id[1]].directory] = "ok"
    THEN notes[<<p.entities[id[1]].directory, id[2]>>] ELSE None

scanEntityDir(d) ==
    IF folder[d] = "ok" THEN {s \in Stems : notes[<<d, s>>] # None /\ notes[<<d, s>>].readable} ELSE {}

AllowedEnds(rel) == IF rel.direction = "symmetric" THEN <<rel.from \cup rel.to, rel.from \cup rel.to>> ELSE <<rel.from, rel.to>>
validateRelationAgainstProfile(p, l) ==
    /\ l.type \in DOMAIN p.relations
    /\ l.from[1] \in AllowedEnds(p.relations[l.type])[1] /\ l.to[1] \in AllowedEnds(p.relations[l.type])[2]

readLiveValidRelations(p) == {l \in links : validateRelationAgainstProfile(p, l)}

\* resolveEndpointFacts: <<>> does not qualify as evidence; only a declared
\* state of the endpoint's own type counts as its state.
EndpointUnreadable(p, id) == NoteAt(p, id) # None /\ ~NoteAt(p, id).readable
resolveEndpointFacts(p, id) ==
    IF NoteAt(p, id) = None THEN <<>>
    ELSE LET d == p.entities[id[1]]
             front == NoteAt(p, id).front IN
         IF validateEntityFields(d, front) # {} THEN <<>>
         ELSE IF StateOf(d, front) # <<>> /\ StateOf(d, front)[2] \in lifecycleStates(d.lifecycle[1])
              THEN <<StateOf(d, front)[2]>> ELSE <<"stateless">>

\* The write path scans the relations; the standing check asks an index.
matchingOtherIds(p, self, req) ==
    {IF req.role = "from" THEN l.to ELSE l.from :
        l \in {k \in readLiveValidRelations(p) :
                  k.type = req.relation /\ self = IF req.role = "from" THEN k.from ELSE k.to}}

buildRelationEndpointIndex(rels) ==
    [k \in {<<l.type, "from", l.from>> : l \in rels} \cup {<<l.type, "to", l.to>> : l \in rels} |->
        {l.to : l \in {m \in rels : <<m.type, "from", m.from>> = k}}
        \cup {l.from : l \in {m \in rels : <<m.type, "to", m.to>> = k}}]

Candidates(req, others) == {o \in others : req.types = Unscoped \/ o[1] \in req.types}
Counted(p, req, others) ==
    {o \in Candidates(req, others) :
        resolveEndpointFacts(p, o) # <<>> /\ (req.states = Unscoped \/ resolveEndpointFacts(p, o)[1] \in req.states)}

\* enforceRelationPreconditions for entering state s.
RelationGate(p, id, s) ==
    LET reqs == AtKey(p.entities[id[1]].lifecycle[1].relationReqs, s) IN
    IF reqs = {} THEN "met"
    ELSE IF health.relations # "ok"
            \/ \E req \in reqs : \E o \in Candidates(req, matchingOtherIds(p, id, req)) : EndpointUnreadable(p, o)
    THEN "unverifiable"
    ELSE IF \E req \in reqs : Cardinality(Counted(p, req, matchingOtherIds(p, id, req))) < req.min
    THEN "unmet" ELSE "met"

\* enforceArtifactPreconditions: the ref is of the required type and resolves.
ArtifactGate(d, front, s) ==
    \A req \in AtKey(d.lifecycle[1].artifactReqs, s) :
        req.field \in DOMAIN front /\ front[req.field] = <<"ref", req.artifact>> /\ req.artifact \in health.artifacts

\* A page that is there and cannot be read is taken for a page with no state.
readPrevLifecycleState(p, id) ==
    IF NoteAt(p, id) = None \/ EndpointUnreadable(p, id) THEN <<>>
    ELSE LET state == StateOf(p.entities[id[1]], NoteAt(p, id).front) IN
         IF state # <<>> /\ state[1] = "string" THEN state ELSE <<>>

\* validateLiveTypedPage: field contract, transition, then the entered state's gates.
validateLiveTypedPage(p, id, front) ==
    LET d == p.entities[id[1]]
        prev == readPrevLifecycleState(p, id)
        next == StateOf(d, front) IN
    /\ entityFieldViolations(p, d, front) = {}
    /\ validateLifecycleTransition(d, prev, front)
    /\ next # <<>> => RelationGate(p, id, next[2]) = "met" /\ ArtifactGate(d, front, next[2])

-----------------------------------------------------------------------------
(* Readers: the summary of `status` and the viewer, and `lint`.  A problem is *)
(* [kind, at], where at is a page <<directory, stem>>, a directory            *)
(* <<directory, "">> or a store <<"graph", name>>.                            *)

Problem(kind, at) == [kind |-> kind, at |-> at]
AllTypes(p) == DOMAIN p.entities
PathOf(p, id) == <<p.entities[id[1]].directory, id[2]>>
FrontOf(p, id) == notes[PathOf(p, id)].front

validateScan(p, t, s) ==
    LET at == PathOf(p, <<t, s>>) IN
    IF s \notin SlugStems THEN {Problem("non-slug-safe-filename", at)}
    ELSE IF notes[at].slug = "other" THEN {Problem("slug-mismatch", at)}
    ELSE IF validateEntityFields(p.entities[t], notes[at].front) # {} THEN {Problem("field-violation", at)}
    ELSE {}

EntityProblems(p) ==
    {Problem("invalid-directory", <<p.entities[t].directory, "">>) :
        t \in {u \in AllTypes(p) : folder[p.entities[u].directory] = "invalid"}}
    \cup UNION {UNION {validateScan(p, t, s) : s \in scanEntityDir(p.entities[t].directory)} : t \in AllTypes(p)}

\* Lint's pages keep a page whose fields violate the contract; the counts do not.
collectEntityPages(p) ==
    {id \in AllTypes(p) \X SlugStems :
        id[2] \in scanEntityDir(p.entities[id[1]].directory) /\ notes[PathOf(p, id)].slug # "other"}

collectEntitySummary(p, t) ==
    {s \in SlugStems : /\ <<t, s>> \in collectEntityPages(p)
                       /\ ~ \E v \in EntityProblems(p) : v.at = PathOf(p, <<t, s>>)}

tallyLifecycleStates(p, t) ==
    LET d == p.entities[t]
        stated == {s \in scanEntityDir(d.directory) : d.lifecycle # <<>> /\ StateOf(d, FrontOf(p, <<t, s>>)) # <<>>} IN
    [v \in {StateOf(d, FrontOf(p, <<t, s>>))[2] : s \in stated} |->
        Cardinality({s \in stated : StateOf(d, FrontOf(p, <<t, s>>))[2] = v})]

summarizeRelations(p) ==
    IF health.relations # "ok" \/ \E l \in links : ~validateRelationAgainstProfile(p, l)
    THEN {Problem("relation-store", <<"graph", "relations">>)} ELSE {}

\* A torn last line is tolerated and not shown.
summarizeEvents == IF health.events # "tampered" THEN {} ELSE {Problem("event-store", <<"graph", "events">>)}

-----------------------------------------------------------------------------
(* Standing requirements of pages already in a gated state. *)

collectGatedPages(p) ==
    {id \in AllTypes(p) \X SlugStems :
        LET d == p.entities[id[1]] IN
        /\ id[2] \in scanEntityDir(d.directory)
        /\ StateOf(d, FrontOf(p, id)) # <<>>
        /\ AtKey(d.lifecycle[1].relationReqs, StateOf(d, FrontOf(p, id))[2]) # {}}

ReqsOf(p, id) ==
    AtKey(p.entities[id[1]].lifecycle[1].relationReqs, StateOf(p.entities[id[1]], FrontOf(p, id))[2])

Others(p, id, req) ==
    LET index == buildRelationEndpointIndex(readLiveValidRelations(p)) IN
    AtKey(index, <<req.relation, req.role, id>>)

collectStandingRelationProblems(p) ==
    LET gated == collectGatedPages(p) IN
    IF gated = {} THEN {}
    ELSE IF \/ health.relations # "ok"
            \/ \E id \in gated : \E req \in ReqsOf(p, id) :
                   \E o \in Candidates(req, Others(p, id, req)) : EndpointUnreadable(p, o)
    THEN {Problem("unverifiable", <<"graph", "relations">>)}
    ELSE {Problem("unmet", PathOf(p, id)) :
            id \in {g \in gated : \E req \in ReqsOf(p, g) : Cardinality(Counted(p, req, Others(p, g, req))) < req.min}}

-----------------------------------------------------------------------------
(* Artifact refs of pages, and what a gated page must carry. *)

checkPageArtifactRefs(p, id) ==
    LET d == p.entities[id[1]]
        front == FrontOf(p, id) IN
    \E f \in DOMAIN d.fields \cap DOMAIN front :
        /\ d.fields[f].type \in RefTypes /\ front[f][1] \in {"ref", "refs"}
        /\ front[f][2] \notin health.artifacts \cap DOMAIN p.artifacts

checkGatedPageRequirements(p, id) ==
    LET d == p.entities[id[1]]
        front == FrontOf(p, id) IN
    /\ StateOf(d, front) # <<>>
    /\ \E req \in AtKey(d.lifecycle[1].artifactReqs, StateOf(d, front)[2]) :
           req.field \notin DOMAIN front \/ front[req.field] # <<"ref", req.artifact>>

checkArtifactRefs(p, ids) ==
    IF DOMAIN p.artifacts = {} THEN {}
    ELSE {Problem("artifact-store", PathOf(p, id)) :
            id \in {i \in ids : checkPageArtifactRefs(p, i) \/ checkGatedPageRequirements(p, i)}}

\* The summary looks at every page file, lint at the pages it collected.
collectArtifactRefPageSources(p) ==
    {id \in AllTypes(p) \X Stems : id[2] \in scanEntityDir(p.entities[id[1]].directory)}

orderProblemViews(entity, store, standing) == store \o standing \o entity

ProblemViews(p) ==
    orderProblemViews(SetToSeq(EntityProblems(p)),
        SetToSeq(summarizeRelations(p)) \o SetToSeq(summarizeEvents)
            \o SetToSeq(checkArtifactRefs(p, collectArtifactRefPageSources(p))),
        SetToSeq(collectStandingRelationProblems(p)))

problemEnvelope(views) == SubSeq(views, 1, IF Len(views) < ProblemCap THEN Len(views) ELSE ProblemCap)

collectProfileSummary(p) ==
    [counts |-> [t \in AllTypes(p) |-> Cardinality(collectEntitySummary(p, t))],
     states |-> [t \in AllTypes(p) |-> tallyLifecycleStates(p, t)],
     problems |-> problemEnvelope(ProblemViews(p)), problemTotal |-> Len(ProblemViews(p))]

checkLifecycleStates(p, id) ==
    LET d == p.entities[id[1]]
        state == StateOf(d, FrontOf(p, id)) IN
    state # <<>> /\ ~(state[1] = "string" /\ state[2] \in lifecycleStateSet(d.lifecycle[1]))

checkRelationStore(p) ==
    IF health.relations # "ok" THEN {Problem("relation-store", <<"graph", "relations">>)}
    ELSE {Problem("relation-profile-invalid", <<"graph", "relations">>) :
             l \in {k \in links : ~validateRelationAgainstProfile(p, k)}}
         \cup {Problem("dangling-relation", <<"graph", "relations">>) :
             l \in {k \in links : ~({k.from, k.to} \subseteq collectEntityPages(p))}}

checkEventChain == IF health.events \in {"empty", "ok"} THEN {} ELSE {Problem(health.events, <<"graph", "events">>)}

lintProfileEntities(p) ==
    EntityProblems(p)
    \cup {Problem("invalid-lifecycle-state", PathOf(p, id)) : id \in {i \in collectEntityPages(p) : checkLifecycleStates(p, i)}}
    \cup checkRelationStore(p) \cup collectStandingRelationProblems(p) \cup checkEventChain
    \cup checkArtifactRefs(p, collectEntityPages(p))

-----------------------------------------------------------------------------
(* profile diff. *)

\* directoryOwners; two types never share a directory in an accepted pack.
TypeAt(p, d) ==
    IF p = None THEN IF d = "wiki/concepts" THEN {"concepts"} ELSE IF d = "wiki/queries" THEN {"queries"} ELSE {}
    ELSE LET owners == {t \in AllTypes(p) : p.entities[t].directory = d} IN
         IF owners = {} THEN {} ELSE {CHOOSE t \in owners : TRUE}

classifyKnownType(t, d, new) ==
    IF \A e \in Dirs : t \notin TypeAt(new, e) THEN "deprecated"
    ELSE IF t \in TypeAt(new, d) THEN "unchanged" ELSE "needs-migration"

classifyPage(s, d, old, new) ==
    IF s \notin SlugStems THEN "blocked"
    ELSE IF TypeAt(old, d) # {} THEN classifyKnownType(CHOOSE t \in TypeAt(old, d) : TRUE, d, new)
    ELSE IF TypeAt(new, d) # {} THEN "newly-supported" ELSE "orphaned-by-config"

unionDirectories(old, new) == {d \in Dirs : TypeAt(old, d) \cup TypeAt(new, d) # {}}

diffProfiles(old, new) ==
    [kind |-> "diff", old |-> old, new |-> new, unchanged |-> old = new,
     pages |-> UNION {{<<d, s, classifyPage(s, d, old, new)>> : s \in scanEntityDir(d)} : d \in unionDirectories(old, new)},
     problems |-> {d \in unionDirectories(old, new) : folder[d] = "invalid"}]

-----------------------------------------------------------------------------
(* The inputs of an action.  A value is <<kind, content>>. *)

TypeGuards == {<<"string", "string">>, <<"string", "long">>, <<"entityRef", "string">>, <<"entityRef", "id">>,
               <<"boolean", "boolean">>, <<"number", "number">>, <<"string[]", "list">>, <<"string", "id">>}

coerceField(f, v) ==
    /\ <<f.type, v[1]>> \in TypeGuards /\ v[1] # "long"
    /\ f.type = "entityRef" => v[1] = "id" /\ v[2] \in f.types

\* A declared default stands in for an absent input, unchecked.
validateActionInputs(a, inputs) ==
    /\ DOMAIN inputs \subseteq DOMAIN a.inputs
    /\ \A n \in DOMAIN a.inputs :
           IF n \in DOMAIN inputs THEN coerceField(a.inputs[n], inputs[n])
           ELSE a.inputs[n].default # "absent" \/ ~a.inputs[n].required

\* requireRunId, and requireString on what buildActionStageOutput needs.
Given(a, inputs, n) ==
    /\ n \in DOMAIN a.inputs /\ a.inputs[n].type \in {"string", "entityRef"}
    /\ n \in DOMAIN inputs \/ a.inputs[n].default = "good"
buildActionStageOutput(a, inputs) == \A n \in SubmitFields(a) : Given(a, inputs, n)
Dispatches(a, inputs) ==
    /\ validateActionInputs(a, inputs)
    /\ a.operation \in RunIdRequired => Given(a, inputs, "runId")
    /\ a.operation = "submit" => buildActionStageOutput(a, inputs)

-----------------------------------------------------------------------------
(* What is done to the project. *)

Edit == edits < MaxEdits /\ edits' = edits + 1 /\ verdict' = [kind |-> "none"]

SaveProfile(p) == Edit /\ saved' = p /\ UNCHANGED <<folder, notes, links, health>>

WriteNote(d, s, n) ==
    Edit /\ folder[d] = "ok" /\ notes' = [notes EXCEPT ![<<d, s>>] = n] /\ UNCHANGED <<saved, folder, links, health>>

\* The directory is made, removed with its pages, or replaced by a symlink.
ChangeFolder(d, to) ==
    /\ Edit /\ folder[d] # to /\ folder' = [folder EXCEPT ![d] = to]
    /\ notes' = [k \in DOMAIN notes |-> IF k[1] = d /\ to # "ok" THEN None ELSE notes[k]]
    /\ UNCHANGED <<saved, links, health>>

Damage(h) == Edit /\ health' = h /\ health # h /\ UNCHANGED <<saved, folder, notes, links>>

AddRelation(l) ==
    /\ Edit /\ Loaded /\ health.relations = "ok" /\ validateRelationAgainstProfile(saved, l)
    /\ links' = links \cup {l} /\ UNCHANGED <<saved, folder, notes, health>>

\* The owner deletes a line of the relation file; no command does.
DeleteRelationLine(l) ==
    Edit /\ Loaded /\ health.relations = "ok" /\ l \in links /\ links' = links \ {l}
    /\ UNCHANGED <<saved, folder, notes, health>>

\* A typed write: the body's own slug is not compared with the page's.
SubmitPage(t, s, n) ==
    /\ Edit /\ Loaded /\ n.readable /\ t \in AllTypes(saved) /\ folder[saved.entities[t].directory] # "invalid"
    /\ validateLiveTypedPage(saved, <<t, s>>, n.front)
    /\ folder' = [folder EXCEPT ![saved.entities[t].directory] = "ok"]
    /\ notes' = [notes EXCEPT ![<<saved.entities[t].directory, s>>] = n]
    /\ UNCHANGED <<saved, links, health>>

-----------------------------------------------------------------------------
(* profile init: a starter pack with one type, for a project without one. *)

buildStarterProfile(t) ==
    [inherits |-> FALSE, id |-> "starter",
     entities |-> [u \in {t} |-> [directory |-> StarterDir[t], required |-> {"title"}, tiers |-> <<>>, lifecycle |-> <<>>,
        fields |-> [f \in {"title"} |-> [type |-> "string", required |-> FALSE, enum |-> {}, range |-> "none", scope |-> Unscoped]]]],
     relations |-> NoEntries, artifacts |-> NoEntries, workflows |-> NoEntries, actions |-> NoEntries, connectors |-> NoEntries]

HasPages(d) == \E s \in Stems : notes[<<d, s>>] # None

isTypedCorpusEmpty(p) ==
    /\ \A d \in DefaultDirs \cup {p.entities[t].directory : t \in AllTypes(p)} : folder[d] # "invalid" /\ ~HasPages(d)
    /\ links = {} /\ health.relations = "ok" /\ health.artifacts = {} /\ health.events = "empty"

\* The write lands, or fails; after a failure the file is read back, and only
\* when it is certainly not there is a directory that was made here removed,
\* unless something was put into it meanwhile.
installStarterProfile(t) ==
    LET p == buildStarterProfile(t)
        d == StarterDir[t] IN
    /\ edits < MaxEdits /\ edits' = edits + 1
    /\ saved = None /\ validateProfile(p) /\ isTypedCorpusEmpty(p)
    /\ \E outcome \in {"installed", "not-installed", "unknown"}, cleaned \in BOOLEAN :
           /\ saved' \in CASE outcome = "installed" -> {p} [] outcome = "unknown" -> {p, None} [] OTHER -> {None}
           /\ folder' = [folder EXCEPT ![d] =
                  IF outcome = "not-installed" /\ cleaned /\ folder[d] = "missing" THEN "missing" ELSE "ok"]
           /\ verdict' = [kind |-> "init", outcome |-> outcome]
    /\ UNCHANGED <<notes, links, health>>

Say(v) == verdict' = v /\ UNCHANGED <<saved, folder, notes, links, health, edits>>

profileValidate ==
    /\ saved # None
    /\ Say(IF validateProfile(saved)
           THEN [kind |-> "valid",
                 warned |-> \/ collectArtifactOrderingWarnings(saved) # {}
                            \/ \E t \in AllTypes(saved) : /\ saved.entities[t].lifecycle # <<>>
                                                          /\ unreachableStates(saved.entities[t].lifecycle[1]) # {}]
           ELSE [kind |-> "invalid"])

\* The saved pack, or the default one, is compared with another file.
profileDiff(p) ==
    /\ saved # None => validateProfile(saved)
    /\ validateProfile(p)
    /\ Say(diffProfiles(saved, p))

Healths == [relations : {"ok", "unavailable"}, events : {"empty", "ok", "torn", "tampered"}, artifacts : SUBSET {"report"}]

\* A project as its author may have left it.
ProfileFound ==
    /\ verdict = [kind |-> "none"] /\ edits \in 0..MaxEdits
    /\ saved # None => WellShaped(saved)
    /\ folder \in [Dirs -> {"ok", "missing", "invalid"}]
    /\ notes \in [Dirs \X Stems -> Notes \cup {None}]
    /\ \A k \in Dirs \X Stems : notes[k] # None => folder[k[1]] = "ok"
    /\ links \subseteq Links /\ health \in Healths

ProfileNext ==
    \/ \E p \in DiffPacks : SaveProfile(p) \/ profileDiff(p)
    \/ \E d \in SafeDirs, s \in Stems, n \in Notes \cup {None} : WriteNote(d, s, n)
    \/ \E d \in SafeDirs, to \in {"ok", "missing", "invalid"} : ChangeFolder(d, to)
    \/ \E h \in Healths : Damage(h)
    \/ \E l \in Links : AddRelation(l) \/ DeleteRelationLine(l)
    \/ saved # None /\ \E t \in DOMAIN saved.entities, s \in SlugStems, n \in Notes : SubmitPage(t, s, n)
    \/ profileValidate
    \/ \E t \in DOMAIN StarterDir : installStarterProfile(t)

ProfileSpec == ProfileFound /\ [][ProfileNext]_profileVars

-----------------------------------------------------------------------------
(* Properties. *)

(* Disk and pack are as the author can leave them, and the problems that       *)
(* status shows never exceed the cap (block.ts problemEnvelope).               *)
ProfileTypeOK ==
    /\ folder \in [Dirs -> {"ok", "missing", "invalid"}]
    /\ notes \in [Dirs \X Stems -> Notes \cup {None}]
    /\ \A k \in Dirs \X Stems : notes[k] # None => folder[k[1]] = "ok"
    /\ links \subseteq Links /\ health \in Healths /\ edits \in 0..MaxEdits
    /\ verdict.kind \in {"none", "valid", "invalid", "diff", "init"}
    /\ Loaded => Len(collectProfileSummary(saved).problems) <= ProblemCap

\* Sample values of every kind, and the frontmatter that tries to enter state s.
Samples(p) ==
    {<<"number", "n">>, <<"boolean", "b">>, <<"date", "d">>, <<"list", "l">>, <<"emptylist", "">>}
    \cup {<<"ref", a>> : a \in DOMAIN p.artifacts} \cup {<<"refs", a>> : a \in DOMAIN p.artifacts}
    \cup {<<"string", x>> : x \in {"s"} \cup UNION {d.enum : d \in UNION {{p.entities[t].fields[f] : f \in DOMAIN p.entities[t].fields} : t \in AllTypes(p)}}}

Admissible(p, d, s, f, v) ==
    /\ f \in DOMAIN d.fields => matchesDeclaredType(d.fields[f], v) /\ InRange(d.fields[f], v)
    /\ f \in AtKey(d.lifecycle[1].evidence, s) => isEvidencePresent([g \in {f} |-> v], f)
    /\ \A req \in AtKey(d.lifecycle[1].artifactReqs, s) : req.field = f => v = <<"ref", req.artifact>>
    /\ f \in DOMAIN d.fields => d.fields[f].scope \in {Unscoped, {}} \/ v[2] \in d.fields[f].scope

Needed(d, s) ==
    requiredFieldNames(d) \cup AtKey(d.lifecycle[1].evidence, s)
    \cup {req.field : req \in AtKey(d.lifecycle[1].artifactReqs, s)}

Enterable(p, t, s) ==
    LET d == p.entities[t]
        lc == d.lifecycle[1]
        front == [f \in Needed(d, s) \cup {lc.field} |->
                     IF f = lc.field THEN <<"string", s>>
                     ELSE IF \E v \in Samples(p) : Admissible(p, d, s, f, v)
                     THEN CHOOSE v \in Samples(p) : Admissible(p, d, s, f, v) ELSE <<"none", "">>] IN
    /\ entityFieldViolations(p, d, front) = {}
    /\ validateLifecycleTransition(d, <<>>, front)
    /\ \A req \in AtKey(lc.artifactReqs, s) : front[req.field] = <<"ref", req.artifact>>
    /\ \A req \in AtKey(lc.relationReqs, s) :
           \E u \in AllTypes(p) :
               LET l == [type |-> req.relation, from |-> IF req.role = "from" THEN <<t, "x">> ELSE <<u, "y">>,
                         to |-> IF req.role = "from" THEN <<u, "y">> ELSE <<t, "x">>] IN
               /\ validateRelationAgainstProfile(p, l)
               /\ req.types = Unscoped \/ u \in req.types
               /\ req.states = Unscoped \/ req.states \cap StatesOfTypes(p, {u}) # {}

\* What validateProfile does not look for: a needed field that no value fits (a
\* number range with no number in it, an enum with no values, an artifact ref in a
\* pack without artifact types), and one field of which a state requires two kinds
\* of artifact.
Overlooked(p, d, s) ==
    \/ \E f \in Needed(d, s) \cap DOMAIN d.fields :
           \/ d.fields[f].range = "empty"
           \/ d.fields[f].type = "enum" /\ d.fields[f].enum = {}
           \/ d.fields[f].type = "artifactRef" /\ DOMAIN p.artifacts = {}
    \/ \E q, r \in AtKey(d.lifecycle[1].artifactReqs, s) : q.field = r.field /\ q.artifact # r.artifact

(* In a pack that `profile validate` accepts every lifecycle state can be       *)
(* entered by some page: its evidence, relation and artifact requirements are   *)
(* satisfiable together with the field contract (validateLifecycle,             *)
(* assertRelationCountReq, assertArtifactReq).                                  *)
StatesEnterable ==
    verdict.kind = "valid" =>
        \A t \in AllTypes(saved) : saved.entities[t].lifecycle # <<>> =>
            \A s \in lifecycleStateSet(saved.entities[t].lifecycle[1]) :
                Overlooked(saved, saved.entities[t], s) \/ Enterable(saved, t, s)

InputsFor(p, a) ==
    UNION {[S -> {<<"string", "s">>, <<"number", "n">>, <<"boolean", "b">>, <<"list", "l">>} \cup {<<"id", t>> : t \in AllTypes(p)}] :
              S \in SUBSET DOMAIN a.inputs}

(* Every action of an accepted pack can be invoked: some inputs pass its        *)
(* schema and give the dispatcher the run id and the submitted page or          *)
(* artifact it needs (validateWorkflowActions against run-action.ts).  A submit *)
(* action whose page fields are not strings is accepted and always refused.     *)
ActionsInvokable ==
    verdict.kind = "valid" =>
        \A n \in DOMAIN saved.actions :
            LET a == saved.actions[n] IN
            \/ a.operation = "submit" /\ \E f \in SubmitFields(a) : a.inputs[f].type \notin {"string", "entityRef"}
            \/ \E inputs \in InputsFor(saved, a) : Dispatches(a, inputs)

(* Every readable page file of a declared type is either counted by status or   *)
(* named in a problem, never both and never neither (summarizeOneEntity).       *)
PagesAccounted ==
    Loaded => \A t \in AllTypes(saved) : \A s \in scanEntityDir(saved.entities[t].directory) :
        (s \in collectEntitySummary(saved, t))
            # (\E v \in EntityProblems(saved) : v.at = PathOf(saved, <<t, s>>))

(* Whatever page or store the summary reports a problem for, lint reports too.  *)
LintCoversSummary ==
    Loaded => \A i \in DOMAIN ProblemViews(saved) :
        \E v \in lintProfileEntities(saved) : v.at = ProblemViews(saved)[i].at

(* The standing check, which asks an index, agrees with the check a write into  *)
(* the same state would make now, which scans the store.                        *)
StandingAgrees ==
    Loaded =>
        LET gated == collectGatedPages(saved)
            now(id) == RelationGate(saved, id, StateOf(saved.entities[id[1]], FrontOf(saved, id))[2])
            standing == collectStandingRelationProblems(saved) IN
        IF \E id \in gated : now(id) = "unverifiable"
        THEN standing = {Problem("unverifiable", <<"graph", "relations">>)}
        ELSE standing = {Problem("unmet", PathOf(saved, id)) : id \in {g \in gated : now(g) = "unmet"}}

(* A fault of the relation store or the event log is among the problems shown,  *)
(* however many pages have problems of their own (orderProblemViews).           *)
StoreFaultShown ==
    Loaded => \A v \in summarizeRelations(saved) \cup summarizeEvents :
        \E i \in DOMAIN collectProfileSummary(saved).problems : collectProfileSummary(saved).problems[i] = v

DirOf(p, t) == IF p = None THEN IF t = "concepts" THEN "wiki/concepts" ELSE "wiki/queries" ELSE p.entities[t].directory
TypesOf(p) == IF p = None THEN {"concepts", "queries"} ELSE AllTypes(p)

(* `profile diff` places every page of every type: unchanged exactly when the   *)
(* new pack keeps the type in that directory, deprecated exactly when it drops  *)
(* the type; a directory it cannot read is a problem, not an empty one.         *)
DiffExact ==
    verdict.kind = "diff" =>
        \A t \in TypesOf(verdict.old) :
            LET d == DirOf(verdict.old, t)
                kept == t \in TypesOf(verdict.new)
                place(s) == {e \in verdict.pages : e[1] = d /\ e[2] = s} IN
            /\ folder[d] = "invalid" <=> d \in verdict.problems
            /\ \A s \in scanEntityDir(d) \cap SlugStems :
                   place(s) = {<<d, s, IF ~kept THEN "deprecated"
                                       ELSE IF DirOf(verdict.new, t) = d THEN "unchanged" ELSE "needs-migration">>}

(* A starter pack is only installed over an empty corpus: no page, relation,    *)
(* event or artifact that was there before becomes part of it (corpus.ts).      *)
StarterIsEmpty ==
    verdict.kind = "init" /\ saved # None =>
        /\ \A t \in AllTypes(saved) : collectEntitySummary(saved, t) = {}
        /\ ProblemViews(saved) = <<>>

(* A pack that was accepted can be worked with, and every report about the      *)
(* typed pages - summary, lint, standing check, diff, the problem list at its   *)
(* cap - agrees with the files and with the others (validate.ts, collect.ts,    *)
(* lint.ts, relation-standing.ts, diff.ts, block.ts, scaffold.ts).              *)
ProfileSound ==
    /\ ProfileTypeOK /\ StatesEnterable /\ ActionsInvokable
    /\ PagesAccounted /\ LintCoversSummary /\ StandingAgrees /\ StoreFaultShown
    /\ DiffExact /\ StarterIsEmpty
=============================================================================
