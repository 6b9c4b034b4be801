------------------------------ MODULE Project ------------------------------
(***************************************************************************)
(* The life of one project as its author sees it: ingesting into sources/  *)
(* (utils/source-writer.ts, commands/ingest.ts, ingest-session.ts), the    *)
(* state file (utils/state.ts), compiling, refreshing and resetting it     *)
(* (compiler/, commands/refresh.ts, state-reset.ts), and the surfaces that *)
(* tell the author what to do: freshness, status, lint, next, quickstart.  *)
(*                                                                         *)
(* A compile is one step in which every extraction succeeds and every page *)
(* is valid: module Compile has its steps, its failures and its review     *)
(* policy.  Ingest takes no lock, so its scan of sources/ and its write    *)
(* are two steps.  A document is its source, its title and its version;    *)
(* its hash is the document itself.  The two directory times that `next`   *)
(* compares with the lint cache are kept as two flags.                     *)
(***************************************************************************)
EXTENDS Naturals, FiniteSets

CONSTANTS
    Titles, Origins,    \* subsets of Nat \ {0}: title slugs, source identities
    Versions,           \* versions of what a source serves
    Served,             \* <<source, title, version>>: the documents ever ingested
    Topics,             \* concept slugs
    Extract,            \* Extract[o, v]: the concepts of version v of source o
    Ingesters,          \* ingest and quickstart processes
    MaxMoves,           \* bound: commands and edits in a behaviour
    Absent              \* no file, entry, page, candidate or cache

ASSUME ProjectAssumption ==
    /\ Titles \subseteq Nat \ {0} /\ Origins \subseteq Nat \ {0}
    /\ Extract \in [Origins \X Versions -> (SUBSET Topics) \ {{}}]
    /\ Served \subseteq Origins \X Titles \X Versions /\ MaxMoves \in Nat
    /\ IsFiniteSet(Topics)

\* <slug>.md is <<slug, 0>>; <slug>-<hash of the source>.md is <<slug, source>>.
Names     == Titles \X ({0} \cup Origins)
Document  == [source : Origins, title : Titles, version : Versions]
Entry     == [hash : Document, concepts : SUBSET Topics]
Page      == [orphaned : BOOLEAN, from : SUBSET (Names \X Document)]
Candidate == SUBSET (Names \X Document)
LintCache == [kind : {"none", "torn", "entry"}, stale : Nat, orphaned : Nat, errors : BOOLEAN,
              wikiNewer : BOOLEAN, sourcesNewer : BOOLEAN]

ASSUME AbsentAssumption == Absent \notin Names \cup Document \cup Entry \cup Page

NoLint == [kind |-> "none", stale |-> 0, orphaned |-> 0, errors |-> FALSE,
           wikiNewer |-> FALSE, sourcesNewer |-> FALSE]

VARIABLES
    files,      \* files[n]: the document in sources/n
    db,         \* .llmwiki/state.json: [status, sources, frozen]
    bak,        \* the status of the file behind state.json.bak
    pages,      \* pages[x]: wiki/concepts/x.md
    pending,    \* pending[x]: the review candidate for x
    lintCache,  \* .llmwiki/last-lint.json, which may be torn
    ing,        \* ing[p]: an ingest under way
    says,       \* what the last quickstart told its user to do next
    overlapped, \* history: sources with two ingests under way together
    pulled,     \* history: names deleted while an ingest was about to update them
    moves

projectVars == <<files, db, bak, pages, pending, lintCache, ing, says, overlapped, pulled, moves>>

NoState == [status |-> "missing", sources |-> [n \in Names |-> Absent], frozen |-> {}]

ProjectInit ==
    /\ files = [n \in Names |-> Absent]
    /\ db = NoState /\ bak = "missing"
    /\ pages = [x \in Topics |-> Absent] /\ pending = [x \in Topics |-> Absent]
    /\ lintCache = NoLint /\ ing = [p \in Ingesters |-> Absent]
    /\ says = "nothing" /\ overlapped = {} /\ pulled = {} /\ moves = 0

Move == moves < MaxMoves /\ moves' = moves + 1
OnDisk == {n \in Names : files[n] # Absent}
Live == {x \in Topics : pages[x] # Absent}
HasPending == \E x \in Topics : pending[x] # Absent

\* Creating or deleting an entry moves a directory's time past the lint cache.
Touch(cache, flag) ==
    IF cache.kind = "entry" THEN [cache EXCEPT ![flag] = TRUE] ELSE cache

-----------------------------------------------------------------------------
(* saveSource: utils/source-writer.ts. *)

\* The order of the sorted directory listing: "a-<hash>.md" before "a.md".
ListedBefore(m, n) ==
    \/ m[1] < n[1]
    \/ m[1] = n[1] /\ IF m[2] = 0 THEN n[2] = 0 ELSE n[2] = 0 \/ m[2] <= n[2]

\* Fault: the source is looked up under the new title only.
FaultIdentity(o, t) ==
    IF files[<<t, 0>>] # Absent /\ files[<<t, 0>>].source = o THEN <<t, 0>> ELSE Absent

\* The first listed file whose frontmatter names the source.
findFileBySourceIdentity(o, t) ==
    LET same == {n \in OnDisk : files[n].source = o}
    IN  IF same = {} THEN Absent
        ELSE CHOOSE n \in same : \A m \in same : ListedBefore(n, m)

resolveCollisionFreeFilename(t, o) == IF files[<<t, 0>>] = Absent THEN <<t, 0>> ELSE <<t, o>>

\* ingestSource up to the choice of the file name.  `then` is what follows in
\* the same command: nothing, or a quickstart's compile.
IngestScan(p, t, o, v, then) ==
    LET found == findFileBySourceIdentity(o, t)
    IN  /\ Move /\ ing[p] = Absent
        /\ ing' = [ing EXCEPT ![p] =
                     [stage |-> "write", then |-> then, known |-> found # Absent,
                      name |-> IF found # Absent THEN found ELSE resolveCollisionFreeFilename(t, o),
                      doc |-> [source |-> o, title |-> t, version |-> v]]]
        /\ overlapped' = IF \E q \in Ingesters : ing[q] # Absent /\ ing[q].doc.source = o
                         THEN overlapped \cup {o} ELSE overlapped
        /\ UNCHANGED <<files, db, bak, pages, pending, lintCache, says, pulled>>

\* A new name is created exclusively; a known one must still be there (lstat).
MayWrite(i) == IF i.known THEN files[i.name] # Absent ELSE files[i.name] = Absent

\* What a quickstart shows when its ingest failed.
finalizeFailure == "ingest"

\* The rest of saveSource: create, leave unchanged or overwrite in place, or
\* fail.  A quickstart whose ingest failed ends telling the user to rerun it.
saveSource(p) ==
    LET i == ing[p]
    IN  /\ i # Absent /\ i.stage = "write"
        /\ IF MayWrite(i)
           THEN /\ files' = [files EXCEPT ![i.name] = i.doc]
                /\ lintCache' = IF i.known THEN lintCache ELSE Touch(lintCache, "sourcesNewer")
                /\ ing' = [ing EXCEPT ![p] = IF i.then = "nothing" THEN Absent
                                             ELSE [i EXCEPT !.stage = "compile"]]
                /\ UNCHANGED says
           ELSE /\ ing' = [ing EXCEPT ![p] = Absent]
                /\ says' = IF i.then = "nothing" THEN says ELSE finalizeFailure
                /\ UNCHANGED <<files, lintCache>>
        /\ UNCHANGED <<db, bak, pages, pending, overlapped, pulled, moves>>

-----------------------------------------------------------------------------
(* The state file: utils/state.ts. *)

\* readStateClassified: only a readable state of a known version has content.
readStateClassified == IF db.status \in {"ok", "too-new"} THEN db ELSE [NoState EXCEPT !.status = db.status]

\* readState throws on a newer version, and copies a corrupt file aside.
ReadStateThrows == db.status = "too-new"
BackUpCorrupt == bak' = IF db.status = "corrupt" THEN "corrupt" ELSE bak

\* state reset --yes: the file, whatever it holds, becomes state.json.bak.
StateReset ==
    /\ Move /\ db.status # "missing"
    /\ bak' = db.status
    /\ db' = NoState
    /\ UNCHANGED <<files, pages, pending, lintCache, ing, says, overlapped, pulled>>

\* Another version of the program, a bad merge or a disk error wrote state.json.
StateDamaged(status) ==
    /\ Move /\ db' = [db EXCEPT !.status = status] /\ db.status = "ok"
    /\ UNCHANGED <<files, bak, pages, pending, lintCache, ing, says, overlapped, pulled>>

HandDelete(n) ==
    /\ Move /\ files[n] # Absent
    /\ files' = [files EXCEPT ![n] = Absent]
    /\ lintCache' = Touch(lintCache, "sourcesNewer")
    /\ pulled' = pulled \cup {m \in {n} : \E p \in Ingesters : ing[p] # Absent /\ ing[p].name = n}
    /\ UNCHANGED <<db, bak, pages, pending, ing, says, overlapped>>

-----------------------------------------------------------------------------
(* Change detection and a whole compile. *)

Recorded(s) == {n \in Names : s.sources[n] # Absent}
OwnersOf(s, x) == {n \in Recorded(s) : x \in s.sources[n].concepts}
Concepts(s, n) == IF s.sources[n] = Absent THEN {} ELSE s.sources[n].concepts
ExtractOf(d) == Extract[<<d.source, d.version>>]

New(s) == OnDisk \ Recorded(s)
Changed(s) == {n \in OnDisk \cap Recorded(s) : s.sources[n].hash # files[n]}
Deleted(s) == Recorded(s) \ OnDisk

\* The documents of n that pending candidates carry.
PendingHashes(n) ==
    {d \in Document : \E x \in Topics : pending[x] # Absent /\ <<n, d>> \in pending[x]}

\* What markUnchangedPendingSources may take to be up to date: where several
\* candidates carry a source, the last one listed decides, whichever that is.
PendingUnchanged ==
    {U \in SUBSET OnDisk :
        \A n \in OnDisk : /\ n \in U => files[n] \in PendingHashes(n)
                          /\ n \notin U => PendingHashes(n) # {files[n]}}

\* Sources that share a concept, known or just extracted, with a compiled one.
Affected(s, F) ==
    LET shared == UNION {Concepts(s, n) : n \in F}
        early == {m \in (Recorded(s) \cap OnDisk) \ F : Concepts(s, m) \cap shared # {}}
        fresh == UNION {ExtractOf(files[n]) \ Concepts(s, n) : n \in F \cup early}
    IN  early \cup {m \in (Recorded(s) \cap OnDisk) \ F : Concepts(s, m) \cap fresh # {}}

Contributors(F, x) == {n \in F : x \in ExtractOf(files[n])}

\* The compile of the sources that `filter` keeps, as [db, pages, pending].
CompileResult(filter, review, U) ==
    LET s == readStateClassified
        direct == ((New(s) \cup Changed(s)) \ U) \cap filter
        gone == IF review THEN {} ELSE Deleted(s) \cap filter
        kept == [n \in Names |-> IF n \in gone THEN Absent ELSE s.sources[n]]
        draft == [s EXCEPT !.sources = kept]
        orphans == {x \in Topics : OwnersOf(s, x) # {} /\ OwnersOf(s, x) \subseteq gone}
        F == direct \cup Affected(draft, direct)
        frozen == s.frozen \cup
                  {x \in Topics : Cardinality(OwnersOf(draft, x)) > 1 /\ OwnersOf(draft, x) \cap (Deleted(s) \cap filter) # {}}
        made == {x \in Topics : Contributors(F, x) # {}} \ frozen
        after == [n \in Names |-> IF n \in F THEN [hash |-> files[n], concepts |-> ExtractOf(files[n]) \cap made]
                                  ELSE kept[n]]
        unowned == {x \in frozen : OwnersOf([s EXCEPT !.sources = after], x) = {}}
        from == [x \in Topics |-> {<<n, files[n]>> : n \in Contributors(F, x)}]
    IN  IF review
        THEN [db |-> db, pages |-> pages,
              pending |-> [x \in Topics |-> IF x \in made THEN from[x] ELSE pending[x]]]
        ELSE [db |-> [status |-> "ok", sources |-> after,
                      frozen |-> {x \in frozen : ~ /\ x \notin unowned
                                                   /\ OwnersOf([s EXCEPT !.sources = after], x) \subseteq F
                                                   /\ Contributors(F, x) # {}}],
              pages |-> [x \in Topics |->
                           IF x \in made THEN [orphaned |-> FALSE, from |-> from[x]]
                           ELSE IF pages[x] # Absent /\ x \in orphans \cup unowned
                           THEN [pages[x] EXCEPT !.orphaned = TRUE] ELSE pages[x]],
              pending |-> [x \in Topics |-> IF x \in made THEN Absent ELSE pending[x]]]

HasChanges(filter, U) ==
    LET s == readStateClassified
    IN  (((New(s) \cup Changed(s)) \ U) \cup Deleted(s)) \cap filter # {}

\* compile: throws on a newer state; with nothing to do it leaves no trace.
RunCompile(filter, review) ==
    /\ ~ReadStateThrows
    /\ BackUpCorrupt
    /\ \E U \in PendingUnchanged :
         IF HasChanges(filter, U)
         THEN LET r == CompileResult(filter, review, U)
              IN  /\ db' = r.db /\ pages' = r.pages /\ pending' = r.pending
                  /\ lintCache' = IF Live # {x \in Topics : r.pages[x] # Absent}
                                  THEN Touch(lintCache, "wikiNewer") ELSE lintCache
         ELSE UNCHANGED <<db, pages, pending, lintCache>>

Compile(review) ==
    /\ Move /\ RunCompile(Names, review)
    /\ UNCHANGED <<files, ing, says, overlapped, pulled>>

ApprovedPage(x) == [orphaned |-> FALSE, from |-> pending[x]]

\* review approve: the page, then one state entry per source it came from; the
\* update reads the state, so a newer one stops it with the page published.
ReviewApprove(x) ==
    /\ Move /\ pending[x] # Absent
    /\ pages' = [pages EXCEPT ![x] = ApprovedPage(x)]
    /\ lintCache' = IF pages[x] = Absent THEN Touch(lintCache, "wikiNewer") ELSE lintCache
    /\ IF ReadStateThrows THEN UNCHANGED <<db, bak, pending>>
       ELSE /\ BackUpCorrupt
            /\ pending' = [pending EXCEPT ![x] = Absent]
            /\ LET s == readStateClassified IN
               db' = [s EXCEPT !.status = "ok", !.sources =
                        [n \in Names |->
                            LET carried == {c \in pending[x] : c[1] = n}
                            IN  IF carried = {} THEN s.sources[n]
                                ELSE [hash |-> (CHOOSE c \in carried : TRUE)[2],
                                      concepts |-> Concepts(s, n) \cup {x}]]]
    /\ UNCHANGED <<files, ing, says, overlapped, pulled>>

-----------------------------------------------------------------------------
(* Freshness and the refresh plan. *)

\* classify: the freshness of a concept page.
classify(x) ==
    LET owners == OwnersOf(db, x)
        live == owners \cap OnDisk
    IN  IF db.status # "ok" THEN "unverified"
        ELSE IF pages[x].orphaned THEN "orphaned"
        ELSE IF owners = {} THEN "unverified"
        ELSE IF live = {} THEN "orphaned"
        ELSE IF live # owners \/ live \cap Changed(db) # {} THEN "stale" ELSE "fresh"

\* classifyOnePage: the buckets of the refresh plan.
recompiledPages == {x \in Live : OwnersOf(db, x) \cap Changed(db) # {}}
computedOrphanedPages == {x \in Live : OwnersOf(db, x) # {} /\ OwnersOf(db, x) \cap OnDisk = {}}
sharedKeptPages ==
    {x \in Live : /\ OwnersOf(db, x) \cap OnDisk # {} /\ OwnersOf(db, x) \cap Deleted(db) # {}}
        \ recompiledPages
hasWork == recompiledPages \cup computedOrphanedPages \cup sharedKeptPages # {}

\* Fault: the sources that were deleted are not compiled away.
FaultFilter == {n \in Changed(db) : \E x \in Live : n \in OwnersOf(db, x)}

\* makeChangeFilter: the changed and deleted owners of the pages in the plan.
makeChangeFilter ==
    {n \in Changed(db) \cup Deleted(db) : \E x \in Live : n \in OwnersOf(db, x)}

\* refresh --stale.  On an unreadable state, or without work, it changes
\* nothing.
RefreshStale ==
    /\ Move /\ db.status = "ok" /\ hasWork
    /\ RunCompile(makeChangeFilter, FALSE)
    /\ UNCHANGED <<files, ing, says, overlapped, pulled>>

-----------------------------------------------------------------------------
(* The surfaces: status, lint, next, quickstart. *)

\* classifyConceptPages and pendingChangesFromSnapshot of status.
StatusStale == {x \in Live : classify(x) = "stale"}
StatusOrphaned == {x \in Live : classify(x) = "orphaned"}

\* lint: marked pages by one rule, computed ones by another; writeLintCache.
\* Whether the other rules find errors is left open.
Lint(errors) ==
    /\ Move
    /\ lintCache' = [kind |-> "entry", stale |-> Cardinality(StatusStale),
                     orphaned |-> Cardinality({x \in Live : pages[x].orphaned} \cup StatusOrphaned),
                     errors |-> errors, wikiNewer |-> FALSE, sourcesNewer |-> FALSE]
    /\ UNCHANGED <<files, db, bak, pages, pending, ing, says, overlapped, pulled>>

LintTorn ==
    /\ Move /\ lintCache.kind # "none" /\ lintCache' = [NoLint EXCEPT !.kind = "torn"]
    /\ UNCHANGED <<files, db, bak, pages, pending, ing, says, overlapped, pulled>>

CacheRead == lintCache.kind = "entry"

\* classifyState and PRIMARY_ACTIONS: what `next` recommends.  wiki/ exists
\* once a page was written.
recommendNextAction ==
    IF OnDisk # {} /\ Live = {} THEN "compile"
    ELSE IF HasPending THEN "review list"
    ELSE IF CacheRead /\ lintCache.errors THEN "lint"
    ELSE IF Live # {} THEN "view" ELSE "quickstart"

\* The action quickstart shows last; when it opens the viewer by itself, a
\* recommendation to view the wiki is not repeated.
deriveNextAction(review, ok) ==
    IF ~ok THEN "compile" ELSE IF review THEN "review list"
    ELSE IF recommendNextAction = "view" THEN "viewer opened" ELSE recommendNextAction

\* The compile step of quickstart, which needs a provider.
QuickstartCompile(p, provider) ==
    /\ ing[p] # Absent /\ ing[p].stage = "compile"
    /\ UNCHANGED <<files, overlapped, pulled, moves>>
    /\ \E review \in {ing[p].then = "review"} :
         IF provider /\ ~ReadStateThrows
         THEN /\ RunCompile(Names, review)
              /\ says' = deriveNextAction(review, TRUE)'
         ELSE /\ says' = deriveNextAction(review, FALSE)
              /\ UNCHANGED <<db, bak, pages, pending, lintCache>>
    /\ ing' = [ing EXCEPT ![p] = Absent]

ProjectNext ==
    \/ \E p \in Ingesters :
         \/ \E d \in Served, then \in {"nothing", "compile", "review"} :
                IngestScan(p, d[2], d[1], d[3], then)
         \/ saveSource(p)
         \/ \E provider \in BOOLEAN : QuickstartCompile(p, provider)
    \/ \E n \in Names : HandDelete(n)
    \/ \E review \in BOOLEAN : Compile(review)
    \/ \E x \in Topics : ReviewApprove(x)
    \/ RefreshStale
    \/ StateReset
    \/ \E status \in {"corrupt", "too-new"} : StateDamaged(status)
    \/ \E errors \in BOOLEAN : Lint(errors)
    \/ LintTorn

ProjectSpec == ProjectInit /\ [][ProjectNext]_projectVars

-----------------------------------------------------------------------------
(* Properties. *)

ProjectTypeOK ==
    /\ files \in [Names -> {Absent} \cup Document]
    /\ db.status \in {"missing", "corrupt", "too-new", "ok"}
    /\ db.sources \in [Names -> {Absent} \cup Entry] /\ db.frozen \in SUBSET Topics
    /\ bak \in {"missing", "corrupt", "too-new", "ok"}
    /\ \A x \in Topics : /\ pages[x] # Absent => pages[x] \in Page /\ pages[x].from # {}
                         /\ pending[x] # Absent => pending[x] \in Candidate \ {{}}
    /\ lintCache \in LintCache /\ moves \in 0..MaxMoves
    /\ overlapped \in SUBSET Origins /\ pulled \in SUBSET Names
    /\ says \in {"nothing", "ingest", "compile", "review list", "viewer opened", "lint", "quickstart"}

\* The refresh plan and the freshness that lint and status show are computed by
\* two different pieces of code; on a readable state there is work for refresh
\* exactly when they show a page stale, or orphaned and not yet marked.
RefreshAgrees ==
    db.status = "ok" =>
        (hasWork <=> StatusStale \cup {x \in StatusOrphaned : ~pages[x].orphaned} # {})

\* A page marked `orphaned: true` is owned by no source, however often its
\* sources went, came back, were approved or recompiled: a marked page with an
\* owner would be shown as orphaned and rebuilt as stale.
OrphanUnowned ==
    db.status = "ok" => \A x \in Live : pages[x].orphaned => OwnersOf(db, x) = {}

\* The owners of a page whose recorded content is not what is on disk.
Behind(x) == {n \in OwnersOf(db, x) : files[n] = Absent \/ db.sources[n].hash # files[n]}

\* One run of refresh --stale repairs everything it was offered: afterwards no
\* page has lost its sources without being marked, and what a page still stale is
\* behind of was, when the run began, waiting for the review of a candidate made
\* from that very content.  (The run may have deleted that candidate since: it
\* rebuilt the candidate's page from another source, review-pipeline.ts:96.)
RepairComplete ==
    RefreshStale =>
      \A x \in Live' :
         /\ classify(x)' = "orphaned" => pages'[x].orphaned
         /\ classify(x)' = "stale" => \A n \in Behind(x)' : files[n] \in PendingHashes(n)

\* A source is ingested into one file: re-ingesting it under any title updates
\* that file.  Only ingests of one source that overlapped can have forked it.
OneFilePerSource ==
    \A m, n \in OnDisk : m # n /\ files[m].source = files[n].source => files[m].source \in overlapped

\* No ingest replaces the document of another source, whatever the two titles,
\* unless the author deleted the file the ingest was about to update.
IngestKeepsOthers ==
    \A n \in Names : files[n] # Absent /\ files'[n] # Absent /\ n \notin pulled
         => files'[n].source = files[n].source

\* A state file this build cannot read is never overwritten without a backup.
UnreadableKept ==
    db.status \in {"corrupt", "too-new"} /\ db' # db => bak' = db.status

\* Files, state and reports agree: refresh works on what status calls stale, an
\* orphaned page has no owner, a source has one file (refresh-plan.ts, orphan.ts,
\* source-writer.ts).
ProjectSound == ProjectTypeOK /\ RefreshAgrees /\ OrphanUnowned /\ OneFilePerSource

\* No upkeep command leaves a repair half done, overwrites the file of another source,
\* or replaces a state file it could not read without keeping a copy.
UpkeepSteps == [][RepairComplete /\ IngestKeepsOthers /\ UnreadableKept]_projectVars
=============================================================================
