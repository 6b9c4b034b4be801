------------------------------ MODULE Compile ------------------------------
(***************************************************************************)
(* The incremental compiler: src/compiler/index.ts (runCompilePipeline),   *)
(* hasher.ts, deps.ts, orphan.ts, extraction-phase.ts, extraction-merge.ts,*)
(* review-pipeline.ts, source-state.ts and compile-state-draft.ts; the     *)
(* pending review candidates (compiler/candidates.ts) and the review       *)
(* commands that consume them (commands/review-approve.ts, review-reject). *)
(*                                                                         *)
(* Compile, refresh, approve and reject run under the project lock, one    *)
(* session at a time (module ProjectLock); the author edits sources/       *)
(* without any lock.  A page batch is one step: module Journal shows that  *)
(* a batch is applied whole or not at all.                                 *)
(*                                                                         *)
(* A source's content is its version number, which is also its hash        *)
(* (SHA-256 is taken to be injective).  A page body is the set of source   *)
(* contents in the prompt that generated it, which is also what its        *)
(* frontmatter lists; the prompt shows the old body too, but the code does *)
(* not count on the LLM to keep it.  Link resolution, seed pages, the      *)
(* index and the embeddings do not change that set and are left out.       *)
(***************************************************************************)
EXTENDS Naturals, FiniteSets

CONSTANTS
    Sources,            \* file names in sources/
    Slugs,              \* concept slugs
    MaxVersion,         \* bound: contents a source may take are 1..MaxVersion
    Extracts,           \* Extracts[f][v]: concept sets the LLM may return for
                        \* content v of f; {} if f never has that content
    NoEntry,            \* no entry in state.json
    NoPage,             \* no file wiki/concepts/<slug>.md
    NoCand,             \* no pending candidate for the slug
    PolicyOn,           \* the review policy may hold a page
    ReviewRuns,         \* compile --review is used
    Failures,           \* a session may die or throw between two steps
    Settled             \* the author changes sources/ as MayChange says; else at
                        \* any moment

NoFile    == 0
BlankHash == 0
Versions  == 1..MaxVersion
Entry     == [hash : Versions \cup {BlankHash}, concepts : SUBSET Slugs]
Page      == [from : SUBSET (Sources \X Versions), orphaned : BOOLEAN]
Candidate == [from : SUBSET (Sources \X Versions),
              states : SUBSET (Sources \X Versions)]

ASSUME CompileAssumption ==
    /\ MaxVersion \in Nat \ {0}
    /\ Extracts \in [Sources -> [Versions -> SUBSET SUBSET Slugs]]
    /\ NoEntry \notin Entry /\ NoPage \notin Page /\ NoCand \notin Candidate
    /\ {PolicyOn, ReviewRuns, Failures, Settled} \subseteq BOOLEAN

VARIABLES
    src,        \* src[f]: the content of sources/f, or NoFile
    st,         \* st[f]: the entry of f in .llmwiki/state.json
    frozen,     \* frozenSlugs in .llmwiki/state.json
    page,       \* page[x]: wiki/concepts/x.md
    cand,       \* cand[x]: the pending candidate for concepts/x
    \* One session (a compile, or an approval):
    pc, review,
    draft,      \* CompileStateDraft: [sources, frozen]
    change,     \* change[f]: the SourceChange status, "none" if not in the list
    ext,        \* ext[f]: [read, concepts]; read = NoFile if f is not extracted
    frz,        \* frozenSlugs, the Set the pipeline passes around
    left,       \* files the current loop has still to visit
    todo,       \* slugs still to be generated
    live,       \* slugs with a live write (after Commit: the written pages)
    snap,       \* the source states each candidate of this run carries
    \* History:
    unfinished, \* a session was abandoned since the last change of sources/
    direct,     \* the sources this run itself found new or changed
    by,         \* by[f]: whether a compile or an approval last wrote st[f]
    dropped     \* <<f, x>>: x was regenerated without its owner f, beyond the
                \* reach of findAffectedSources and findLateAffectedSources

disk    == <<src, st, frozen, page, cand>>
session == <<pc, review, draft, change, ext, frz, left, todo, live, snap, direct>>
vars    == <<src, st, frozen, page, cand, pc, review, draft, change, ext,
             frz, left, todo, live, snap, unfinished, direct, by,
             dropped>>

history == <<by, dropped, unfinished>>

NotExtracted == [read |-> NoFile, concepts |-> {}]

Idle ==
    /\ pc' = "idle" /\ review' = FALSE
    /\ draft' = [sources |-> [f \in Sources |-> NoEntry], frozen |-> {}]
    /\ change' = [f \in Sources |-> "none"]
    /\ ext' = [f \in Sources |-> NotExtracted]
    /\ frz' = {} /\ left' = {} /\ todo' = {} /\ live' = {} /\ snap' = {}
    /\ direct' = {}

\* A fresh project: some sources ingested, nothing compiled.
Init ==
    /\ src \in [Sources -> {NoFile, 1}]
    /\ st = [f \in Sources |-> NoEntry] /\ frozen = {}
    /\ page = [x \in Slugs |-> NoPage] /\ cand = [x \in Slugs |-> NoCand]
    /\ pc = "idle" /\ review = FALSE
    /\ draft = [sources |-> [f \in Sources |-> NoEntry], frozen |-> {}]
    /\ change = [f \in Sources |-> "none"]
    /\ ext = [f \in Sources |-> NotExtracted]
    /\ frz = {} /\ left = {} /\ todo = {} /\ live = {} /\ snap = {}
    /\ by = [f \in Sources |-> "none"] /\ direct = {} /\ dropped = {}
    /\ unfinished = FALSE

-----------------------------------------------------------------------------
(* Change detection and dependency tracking: hasher.ts, deps.ts. *)

\* The sources that claim slug x in the state s (buildConceptToSourcesMap).
Owners(s, x) == {f \in Sources : s[f] # NoEntry /\ x \in s[f].concepts}

Concepts(s, f) == IF s[f] = NoEntry THEN {} ELSE s[f].concepts

FilesByStatus(c, S) == {f \in Sources : c[f] \in S}
Compiling(c) == FilesByStatus(c, {"new", "changed"})

classifyFile(f) ==
    IF st[f] = NoEntry THEN "new"
    ELSE IF st[f].hash # src[f] THEN "changed" ELSE "unchanged"

detectChanges ==
    [f \in Sources |->
        IF src[f] # NoFile THEN classifyFile(f)
        ELSE IF st[f] # NoEntry THEN "deleted" ELSE "none"]

\* refresh --stale keeps the changed and deleted owners of existing pages.
StaleOwners ==
    {f \in FilesByStatus(detectChanges, {"changed", "deleted"}) :
        \E x \in Concepts(st, f) : page[x] # NoPage}

\* Hashes that pending candidates carry for f.
PendingHashes(f) ==
    {h \in Versions : \E x \in Slugs : /\ cand[x] # NoCand
                                       /\ <<f, h>> \in cand[x].states}

\* The sources markUnchangedPendingSources may relabel.  When several
\* candidates carry f, the last generated one decides; their order is not
\* modelled, so either may.
PendingUnchanged(c) ==
    {S \in SUBSET Compiling(c) :
        \A f \in Compiling(c) :
            /\ f \in S => src[f] \in PendingHashes(f)
            /\ f \notin S => PendingHashes(f) # {src[f]}}

\* Fault: sources sharing a concept are not pulled in.
FaultNoAffected(s, c) == {}

findAffectedSources(s, c) ==
    {g \in Sources : /\ c[g] \notin {"new", "changed", "deleted"}
                     /\ \E f \in Compiling(c) :
                            Concepts(s, f) \cap Concepts(s, g) # {}}

findFrozenSlugs(s, frz0, c) ==
    frz0 \cup {x \in Slugs : /\ Cardinality(Owners(s, x)) > 1
                             /\ \E f \in Owners(s, x) : c[f] = "deleted"}

\* Slugs extracted now that the state did not list before (collectFreshSlugs).
FreshSlugs(s, e) ==
    UNION {e[f].concepts \ Concepts(s, f) : f \in Sources}

\* Fault: only the sources known before extraction are compiled.
FaultNoLateAffected(s, e, c) == {}

findLateAffectedSources(s, e, c) ==
    {g \in Sources : /\ Concepts(s, g) \cap FreshSlugs(s, e) # {}
                     /\ c[g] \notin {"new", "changed", "deleted"}}

-----------------------------------------------------------------------------
(* runCompilePipeline, step by step. *)

\* Load the draft, detect, filter, relabel, augment.  With nothing to do the
\* run ends here and leaves no trace (the "all sources up to date" return).
Start(r, filter) ==
    LET detected == detectChanges
        kept     == [f \in Sources |->
                        IF f \in filter THEN detected[f] ELSE "none"]
    IN  /\ pc = "idle" /\ (r => ReviewRuns)
        /\ \E S \in PendingUnchanged(kept) :
             LET c == [f \in Sources |-> IF f \in S THEN "unchanged" ELSE kept[f]]
                 A == findAffectedSources(st, c)
             IN  /\ change' = [f \in Sources |-> IF f \in A THEN "changed" ELSE c[f]]
                 /\ direct' = Compiling(c)
        /\ \E f \in Sources : change'[f] \in {"new", "changed", "deleted"}
        /\ draft' = [sources |-> st, frozen |-> frozen]
        /\ review' = r
        /\ pc' = "delete"
        /\ left' = IF r THEN {} ELSE FilesByStatus(change', {"deleted"})
        /\ UNCHANGED <<disk, ext, frz, todo, live, snap, history>>

Compile == Start(FALSE, Sources)
CompileReview == Start(TRUE, Sources)
Refresh == StaleOwners # {} /\ Start(FALSE, StaleOwners)

\* The pages of the slugs in S, marked orphaned where there is a page.
Orphan(S) ==
    [x \in Slugs |-> IF x \in S /\ page[x] # NoPage
                     THEN [page[x] EXCEPT !.orphaned = TRUE] ELSE page[x]]

\* The slugs whose only owner in the draft is f (findSharedConcepts keeps the
\* others).
SoleConcepts(s, f) == {x \in Concepts(s, f) : Owners(s, x) = {f}}

\* One batch per deleted source; the planner's floor may refuse some pages.
markOrphaned(f) ==
    /\ pc = "delete" /\ f \in left
    /\ \E S \in SUBSET SoleConcepts(draft.sources, f) : page' = Orphan(S)
    /\ draft' = [draft EXCEPT !.sources[f] = NoEntry]
    /\ left' = left \ {f}
    /\ UNCHANGED <<src, st, frozen, cand, pc, review, change, ext, frz,
                   todo, live, snap, direct, history>>

\* What the LLM returns for each file of F, read now.
Extracted(F) ==
    {[f \in Sources |-> IF f \in F THEN [read |-> src[f], concepts |-> c[f]]
                       ELSE ext[f]] :
        c \in {d \in [F -> SUBSET Slugs] : \A f \in F : d[f] \in Extracts[f][src[f]]}}

\* findFrozenSlugs reads `state`, the live draft, after the deletions above
\* have removed their entries from it.
ExtractDirect ==
    /\ pc = "delete" /\ left = {}
    /\ \A f \in Compiling(change) : src[f] # NoFile
    /\ frz' = findFrozenSlugs(draft.sources, draft.frozen, change)
    /\ ext' \in Extracted(Compiling(change))
    /\ pc' = "late"
    /\ left' = findLateAffectedSources(draft.sources, ext', change)
    /\ UNCHANGED <<disk, review, draft, change, todo, live, snap, direct, history>>

ExtractLate ==
    /\ pc = "late"
    /\ \A f \in left : src[f] # NoFile
    /\ ext' \in Extracted(left)
    /\ pc' = "freeze" /\ left' = {}
    /\ UNCHANGED <<disk, review, draft, change, frz, todo, live, snap, direct, history>>

Failed    == {f \in Sources : ext[f].read # NoFile /\ ext[f].concepts = {}}
Succeeded == {f \in Sources : ext[f].concepts # {}}

\* The merged concept of slug x (mergeExtractions): its contributing sources.
Contributors(x) == {f \in Sources : x \in ext[f].concepts}
Merged(x) == {<<f, ext[f].read>> : f \in Contributors(x)}

\* The concepts of the sources whose extraction came back empty.
FrozenByFailure(s) == UNION {Concepts(s, f) : f \in Failed}

\* freezeFailedExtractions, then the merge and the source-state snapshot at
\* the head of generatePagesPhase.
freezeFailedExtractions ==
    /\ pc = "freeze"
    /\ \A f \in Succeeded : src[f] # NoFile
    /\ frz' = IF review THEN frz ELSE frz \cup FrozenByFailure(draft.sources)
    /\ draft' = IF review THEN draft
                ELSE [draft EXCEPT !.sources =
                        [f \in Sources |->
                            IF f \in Failed
                            THEN [hash |-> BlankHash,
                                  concepts |-> Concepts(draft.sources, f)]
                            ELSE draft.sources[f]]]
    /\ snap' = IF review \/ PolicyOn
               THEN {<<f, src[f]>> : f \in Succeeded} ELSE {}
    /\ todo' = {x \in Slugs : Contributors(x) # {}} \ frz'
    /\ pc' = "generate"
    /\ UNCHANGED <<disk, review, change, ext, left, live, direct, history>>

\* The owners of x that this run did not read although x is rebuilt: no source it
\* found changed has x (x comes from a source pulled in for another concept), or
\* the owner is deleted and a review run leaves that for the next plain compile.
BeyondReach(x) ==
    {f \in Owners(st, x) :
        /\ ext[f].read = NoFile
        /\ IF change[f] = "deleted" THEN review
           ELSE ~ \E g \in direct : x \in Concepts(st, g) \cup ext[g].concepts}

\* persistReviewCandidate: one candidate per slug, the newer replaces it.
HoldPage(x) ==
    /\ pc = "generate" /\ x \in todo
    /\ review \/ PolicyOn
    /\ cand' = [cand EXCEPT ![x] =
                  [from |-> Merged(x),
                   states |-> {s \in snap : s[1] \in Contributors(x)}]]
    /\ todo' = todo \ {x}
    /\ dropped' = dropped \cup (BeyondReach(x) \X {x})
    /\ UNCHANGED <<src, st, frozen, page, pc, review, draft, change, ext,
                   frz, left, live, snap, direct, by, unfinished>>

\* validateWikiPage refuses the body.
SkipInvalidPage(x) ==
    /\ pc = "generate" /\ x \in todo /\ ~review
    /\ todo' = todo \ {x}
    /\ UNCHANGED <<disk, pc, review, draft, change, ext, frz, left, live, snap,
                   direct, history>>

\* A live write is deferred to the batch; the pending candidate goes now.
DeferLiveWrite(x) ==
    /\ pc = "generate" /\ x \in todo /\ ~review
    /\ cand' = [cand EXCEPT ![x] = NoCand]
    /\ live' = live \cup {x}
    /\ todo' = todo \ {x}
    /\ UNCHANGED <<src, st, frozen, page, pc, review, draft, change, ext,
                   frz, left, snap, direct, history>>

\* commitLivePageWrites: one batch of the pages the floor lets through.
commitLivePageWrites ==
    /\ pc = "generate" /\ todo = {} /\ ~review
    /\ live' \in SUBSET live
    /\ page' = [x \in Slugs |-> IF x \in live'
                                THEN [from |-> Merged(x), orphaned |-> FALSE]
                                ELSE page[x]]
    /\ pc' = "persist"
    /\ dropped' = {d \in dropped : d[2] \notin live'}
                  \cup UNION {BeyondReach(x) \X {x} : x \in live'}
    /\ UNCHANGED <<src, st, frozen, cand, review, draft, change, ext, frz,
                   left, todo, snap, direct, by, unfinished>>

\* A review run ends with its candidates written.
FinishReview ==
    /\ pc = "generate" /\ todo = {} /\ review
    /\ Idle /\ UNCHANGED <<disk, history>>

\* Fault: held and skipped concepts are recorded as compiled too.
FaultUnfilteredEntry(f) == [hash |-> src[f], concepts |-> ext[f].concepts]

\* The entry persistSourceStateFiltered buffers: the hash of the file as it is
\* NOW, and the concepts that were written live.
CompiledEntry(f) == [hash |-> src[f], concepts |-> ext[f].concepts \cap live]

\* Fault: a source none of whose concepts went live is not recorded.
FaultRecordLiveOnly == {f \in Succeeded : ext[f].concepts \cap live # {}}

\* The extractions that are recorded: every one that produced concepts.
Recorded == Succeeded

persistExtractionStates ==
    /\ pc = "persist"
    /\ \A f \in Succeeded : src[f] # NoFile
    /\ draft' = [draft EXCEPT !.sources =
                   [f \in Sources |-> IF f \in Recorded THEN CompiledEntry(f)
                                      ELSE draft.sources[f]]]
    /\ pc' = "cleanup"
    /\ UNCHANGED <<disk, review, change, ext, frz, left, todo, live, snap, direct, history>>

\* Frozen slugs that no source of the draft claims.
UnownedFrozen == {x \in frz : Owners(draft.sources, x) = {}}

\* persistFrozenSlugs keeps a slug frozen unless all its owners were compiled
\* in this run and one of them extracted it.
StillFrozen ==
    {x \in frz : ~ /\ Owners(draft.sources, x) # {}
                   /\ Owners(draft.sources, x) \subseteq Succeeded
                   /\ Contributors(x) # {}}

\* The frozen-orphan batch, then the pure update of the draft.
orphanUnownedFrozenPages ==
    /\ pc = "cleanup"
    /\ \E S \in SUBSET UnownedFrozen : page' = Orphan(S)
    /\ draft' = [draft EXCEPT !.frozen = StillFrozen]
    /\ pc' = "flush"
    /\ UNCHANGED <<src, st, frozen, cand, review, change, ext, frz, left,
                   todo, live, snap, direct, history>>

\* finalizeWiki: the single durable write of state.json.
Flush ==
    /\ pc = "flush"
    /\ st' = draft.sources /\ frozen' = draft.frozen
    /\ by' = [f \in Sources |->
                IF draft.sources[f] = NoEntry THEN "none"
                ELSE IF ext[f].read # NoFile THEN "compile" ELSE by[f]]
    /\ Idle
    /\ UNCHANGED <<src, page, cand, dropped, unfinished>>

-----------------------------------------------------------------------------
(* The review commands. *)

\* The approved page is written through the executor.
ApprovePage(x) ==
    /\ pc = "idle" /\ cand[x] # NoCand
    /\ page' = [page EXCEPT ![x] = [from |-> cand[x].from, orphaned |-> FALSE]]
    /\ pc' = "approve" /\ live' = {x}
    /\ left' = {s[1] : s \in cand[x].states}
    /\ UNCHANGED <<src, st, frozen, cand, review, draft, change, ext, frz,
                   todo, snap, direct, history>>

\* One read and one write of state.json per contributing source.
addApprovedSlugToSourceState(f) ==
    /\ pc = "approve" /\ f \in left
    /\ \E x \in live : \E s \in cand[x].states :
          /\ s[1] = f
          /\ st' = [st EXCEPT ![f] = [hash |-> s[2],
                                      concepts |-> Concepts(st, f) \cup {x}]]
    /\ by' = [by EXCEPT ![f] = "approve"]
    /\ left' = left \ {f}
    /\ UNCHANGED <<src, frozen, page, cand, pc, review, draft, change, ext,
                   frz, todo, live, snap, direct, dropped, unfinished>>

deleteApprovedCandidate ==
    /\ pc = "approve" /\ left = {}
    /\ cand' = [x \in Slugs |-> IF x \in live THEN NoCand ELSE cand[x]]
    /\ Idle
    /\ UNCHANGED <<src, st, frozen, page, history>>

\* review reject archives the candidate and changes nothing else.
Reject(x) ==
    /\ pc = "idle" /\ cand[x] # NoCand
    /\ cand' = [cand EXCEPT ![x] = NoCand]
    /\ UNCHANGED <<src, st, frozen, page, session, history>>

-----------------------------------------------------------------------------
(* What the program does not control. *)

\* The draft and the locals are gone, what was written stays.
Abandon ==
    /\ Idle /\ unfinished' = TRUE
    /\ UNCHANGED <<disk, by, dropped>>

\* readFile or hashFile throws on a source that is gone.
SourceVanished ==
    /\ \/ pc = "delete" /\ left = {}
          /\ \E f \in Compiling(change) : src[f] = NoFile
       \/ pc = "late" /\ \E f \in left : src[f] = NoFile
       \/ pc \in {"freeze", "persist"} /\ \E f \in Succeeded : src[f] = NoFile
    /\ Abandon

\* The LLM call, a write or the process fails between two steps.
Fail == Failures /\ pc # "idle" /\ Abandon

Current(f) == src[f] # NoFile /\ st[f] # NoEntry /\ st[f].hash = src[f]

\* detectChanges finds nothing to do.
AllCurrent == \A f \in Sources : Current(f) \/ (src[f] = NoFile /\ st[f] = NoEntry)

\* A settled author changes nothing while a session runs, compiles again after an
\* abandoned one before changing more, and does not undo an unrecorded change.
MayChange(f, v) ==
    Settled => /\ pc = "idle"
               /\ unfinished => AllCurrent
               /\ v # NoFile /\ st[f] # NoEntry => v # st[f].hash

\* The author writes a content, new or earlier, or deletes the file.
Change(f, v) ==
    /\ v # src[f] /\ MayChange(f, v)
    /\ src' = [src EXCEPT ![f] = v]
    /\ unfinished' = FALSE
    /\ UNCHANGED <<st, frozen, page, cand, session, by, dropped>>

EditSource(f) == \E v \in Versions : Extracts[f][v] # {} /\ Change(f, v)
DeleteSource(f) == Change(f, NoFile)

Author == \E f \in Sources : EditSource(f) \/ DeleteSource(f)

Step ==
    \/ \E f \in Sources : markOrphaned(f) \/ addApprovedSlugToSourceState(f)
    \/ ExtractDirect \/ ExtractLate \/ freezeFailedExtractions
    \/ \E x \in Slugs : HoldPage(x) \/ SkipInvalidPage(x) \/ DeferLiveWrite(x)
    \/ commitLivePageWrites \/ FinishReview
    \/ persistExtractionStates \/ orphanUnownedFrozenPages \/ Flush
    \/ deleteApprovedCandidate
    \/ SourceVanished

Next ==
    \/ Step
    \/ Compile \/ CompileReview \/ Refresh
    \/ \E x \in Slugs : ApprovePage(x) \/ Reject(x)
    \/ Fail
    \/ Author

Spec == Init /\ [][Next]_vars

\* A started session goes on; someone runs a plain compile again and again; and
\* the LLM does not return an empty extraction for ever.
FairSpec ==
    /\ Spec
    /\ WF_vars(Step) /\ SF_vars(Compile)
    /\ SF_vars(ExtractDirect /\ \A f \in Compiling(change) : ext'[f].concepts # {})
    /\ SF_vars(ExtractLate /\ \A f \in left : ext'[f].concepts # {})

-----------------------------------------------------------------------------
(* Properties. *)

\* Every file and every local of the pipeline holds a value of its declared type.
TypeOK ==
    /\ src \in [Sources -> Versions \cup {NoFile}]
    /\ st \in [Sources -> Entry \cup {NoEntry}]
    /\ frozen \subseteq Slugs
    /\ page \in [Slugs -> Page \cup {NoPage}]
    /\ cand \in [Slugs -> Candidate \cup {NoCand}]
    /\ pc \in {"idle", "delete", "late", "freeze", "generate", "persist",
               "cleanup", "flush", "approve"}
    /\ review \in BOOLEAN
    /\ draft \in [sources : [Sources -> Entry \cup {NoEntry}],
                  frozen : SUBSET Slugs]
    /\ change \in [Sources -> {"new", "changed", "unchanged", "deleted", "none"}]
    /\ ext \in [Sources -> [read : Versions \cup {NoFile},
                            concepts : SUBSET Slugs]]
    /\ frz \subseteq Slugs /\ left \subseteq Sources
    /\ todo \subseteq Slugs /\ live \subseteq Slugs
    /\ snap \subseteq Sources \X Versions
    /\ unfinished \in BOOLEAN
    /\ direct \subseteq Sources /\ dropped \subseteq Sources \X Slugs
    /\ by \in [Sources -> {"none", "compile", "approve"}]

\* When compile would answer "Nothing to compile - all sources up to date", every
\* concept a compiled source is recorded to own has a page that is not
\* orphaned and was generated from that source's present content.  Entries last
\* written by an approval are not asked this: approving one concept of a source
\* leaves its other pages to their own candidates.  Nor is a page that a run
\* rebuilt beyond the reach of its dependency search: a source read only because it
\* shares a concept with a changed one has its other concepts rebuilt too, without
\* their other contributors.
UpToDate ==
    pc = "idle" /\ AllCurrent =>
        \A f \in Sources : by[f] = "compile" =>
            \A x \in Concepts(st, f) : <<f, x>> \notin dropped =>
                /\ page[x] # NoPage /\ ~page[x].orphaned
                /\ <<f, src[f]>> \in page[x].from

\* Every source that state.json says contributes to x is in the merge, or was read
\* in this run and no longer yields x, or is being deleted.
MergedFromAll(x) ==
    \A f \in Owners(st, x) :
        f \in Contributors(x) \/ f \in Succeeded \/ change[f] = "deleted"

\* A concept of a source that changed is rebuilt from ALL its contributors, also
\* when the source has only now come to yield it.
ChangedConceptsWhole ==
    pc = "generate" /\ ~review =>
        \A x \in live :
            (\E g \in direct : x \in Concepts(st, g) \cup ext[g].concepts)
                => MergedFromAll(x)

\* Once the author stops, repeated compiles bring every source up to date: empty
\* extractions are retried, and nothing is recompiled for ever.
Settles == <>[][~Author]_vars => <>[]AllCurrent

\* The pipeline's invariant: types, pages that match the sources state.json calls
\* current, and merges of all contributors.
CompileSound == TypeOK /\ UpToDate /\ ChangedConceptsWhole
=============================================================================
