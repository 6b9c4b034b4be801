----------------------------- MODULE Embeddings -----------------------------
(***************************************************************************)
(* The embedding store, its write-ahead retry marker and semantic search.  *)
(*                                                                         *)
(* A command that holds the project lock writes pages, flushes the state   *)
(* and then refreshes the store: it records the changed page ids in the    *)
(* marker, migrates or rebuilds the store against the live pages, asks the *)
(* provider for the vectors (all or nothing), writes the store and settles *)
(* the marker.  It may die between any two of these.  Pages may also be    *)
(* edited by hand at any time, and a search takes no lock at all.          *)
(*                                                                         *)
(* A vector is an item [id, i, h, m]: i = 0 is the page-level vector and   *)
(* i > 0 that of chunk i; h is the hash of the text it stands for and m    *)
(* the model that made it.  In a version 2 store id is a bare slug.        *)
(***************************************************************************)
EXTENDS Naturals, Sequences, FiniteSets, SequencesExt

CONSTANTS Pages,        \* qualified page ids
          SlugOf,       \* page id -> bare slug
          Contents,     \* page contents: [h, cs, ok, poison]: the hash of the
                        \* page-level text and those of the chunks, whether
                        \* the page is eligible (not orphaned, titled, valid),
                        \* whether the provider refuses its text for good
          FirstContent, \* what the pages there at the start hold
          Gone,         \* the page does not exist
          Models,       \* embedding models
          NoModel,      \* of a store that does not exist
          Dim,          \* model -> dimension of its vectors
          MaxPending,   \* MAX_PENDING_EMBEDDING_IDS
          MaxAttempts,  \* MAX_PENDING_EMBEDDING_ATTEMPTS
          TopK,         \* hits asked of a search
          MaxOps, MaxMishaps    \* bounds of the model

(* Hashes and attempts are counted from 1, so that 0 is the hash of no     *)
(* text; a search is asked for at least one hit.                           *)
ASSUME EmbeddingsAssumption ==
  /\ IsFiniteSet(Pages)
  /\ \A c \in Contents : /\ c.h \in Nat \ {0} /\ c.ok \in BOOLEAN
                         /\ c.cs \in Seq(Nat \ {0}) /\ c.poison \in BOOLEAN
  /\ FirstContent \in Contents /\ Gone \notin Contents
  /\ \A m \in Models : Dim[m] \in Nat
  /\ MaxPending \in Nat \ {0} /\ MaxAttempts \in Nat \ {0} /\ TopK \in Nat \ {0}

VARIABLES live,     \* page id -> content or Gone
          store,    \* the store file
          model,    \* the model the environment configures
          marker,   \* the marker file: sequence of [p, n]
          pc, job,  \* the command that holds the lock, and its locals
          search,   \* the one search under way, and its locals
          excused,  \* ghost: pages the marker does not answer for
          seen,     \* ghost: page -> contents it had since the search began
          ops, mishaps

vars == <<live, store, model, marker, pc, job, search, excused, seen, ops, mishaps>>

Slugs == {SlugOf[p] : p \in Pages}

Exists(pages) == {p \in Pages : pages[p] # Gone}

(* isScanEligible                                                          *)
Eligible(pages) == {p \in Exists(pages) : pages[p].ok}

(* The hash of text i of a page: the page-level text is number 0.          *)
TextHash(c, i) == IF i = 0 THEN c.h ELSE IF i <= Len(c.cs) THEN c.cs[i] ELSE 0

PageItems(p, c, m) == {[id |-> p, i |-> i, h |-> TextHash(c, i), m |-> m] : i \in 0..Len(c.cs)}

ItemsOf(pages, ids, m) == UNION {PageItems(p, pages[p], m) : p \in ids}

NoStore == [ver |-> 0, valid |-> TRUE, model |-> NoModel, dim |-> 0,
            items |-> {}]

NoJob == [by |-> "none", changed |-> {}, merged |-> <<>>, collected |-> [p \in Pages |-> Gone],
          migrated |-> NoStore, reembed |-> {}]

NoSearch == [pc |-> "idle", kind |-> 0, items |-> {}, ranked |-> <<>>, hits |-> <<>>,
             stale |-> {}, gone |-> {}]

(* An older release left a store keyed by slug, of version 1 or 2.         *)
LegacyStore(ver, m, pages) ==
  [ver |-> ver, valid |-> TRUE, model |-> m, dim |-> Dim[m],
   items |-> {[x EXCEPT !.id = SlugOf[x.id]] : x \in ItemsOf(pages, Eligible(pages), m)}]

FreshStore(m, pages) ==
  [ver |-> 3, valid |-> TRUE, model |-> m, dim |-> Dim[m],
   items |-> ItemsOf(pages, Eligible(pages), m)]

Init ==
  /\ live \in [Pages -> {FirstContent, Gone}]
  /\ model \in Models
  /\ \/ store = NoStore /\ excused = Pages
     \/ store \in {LegacyStore(ver, model, live) : ver \in 1..2} /\ excused = Pages
     \/ store = FreshStore(model, live) /\ excused = {}
  /\ marker = <<>> /\ pc = "idle" /\ job = NoJob /\ search = NoSearch
  /\ seen = [p \in Pages |-> {}]
  /\ ops = 0 /\ mishaps = 0

Texts(pages, p) == IF pages[p] = Gone THEN {} ELSE {pages[p]}

(* The ghosts of a search follow every change of the pages.                *)
PagesBecome(new) ==
  /\ live' = new
  /\ seen' = [p \in Pages |-> seen[p] \cup Texts(new, p)]
  /\ search' = [search EXCEPT !.gone = @ \ Eligible(new)]

-----------------------------------------------------------------------------
(* The retry marker.                                                       *)

Ids(entries) == {entries[k].p : k \in DOMAIN entries}

(* The entries at the indices in kept, in their order.                     *)
Kept(entries, kept) ==
  LET rank(k) == Cardinality({i \in kept : i <= k})
  IN [n \in 1..Cardinality(kept) |-> entries[CHOOSE k \in kept : rank(k) = n]]

(* normalizeMarker: what does not fit is cut from the tail.                *)
normalizeMarker(entries) == SubSeq(entries, 1, IF Len(entries) < MaxPending THEN Len(entries)
                                                                           ELSE MaxPending)

(* The fresh ids first, with the attempts they had, then the backlog.      *)
mergeFreshAttempts(prior, fresh) ==
  LET was(p)  == IF p \in Ids(prior) THEN prior[CHOOSE k \in DOMAIN prior : prior[k].p = p].n
                                     ELSE 0
      first   == SetToSeq(fresh)
  IN [k \in DOMAIN first |-> [p |-> first[k], n |-> was(first[k])]]
       \o Kept(prior, {k \in DOMAIN prior : prior[k].p \notin fresh})

Bumped(entries) == [k \in DOMAIN entries |-> [entries[k] EXCEPT !.n = @ + 1]]

Survives(e) == e.n < MaxAttempts

settleAfterFailure(merged) ==
  LET aged == Bumped(merged) IN Kept(aged, {k \in DOMAIN aged : Survives(aged[k])})

(* Embedded: cleared.  Eligible but not embedded: kept.  The others age.   *)
settleAfterSuccess(merged, embedded, eligible) ==
  LET aged == [k \in DOMAIN merged |-> IF merged[k].p \in eligible THEN merged[k]
                                       ELSE [merged[k] EXCEPT !.n = @ + 1]]
  IN Kept(aged, {k \in DOMAIN aged : /\ aged[k].p \notin embedded
                                     /\ aged[k].p \in eligible \/ Survives(aged[k])})

(* writePendingEmbeddings swallows an I/O failure: the old marker stays.   *)
writePendingEmbeddings(entries, fails) ==
  /\ marker' = IF fails THEN marker ELSE normalizeMarker(entries)
  /\ fails => mishaps < MaxMishaps
  /\ mishaps' = IF fails THEN mishaps + 1 ELSE mishaps

(* What the marker answers for after a write: ids it no longer holds are   *)
(* excused, because they were cut, quarantined or could not be written.    *)
Excuse(ids) == excused' = excused \cup {p \in ids : p \notin Ids(marker')}

-----------------------------------------------------------------------------
(* Migration of the store against the live pages.                          *)

(* assertEmbeddingStoreValid: every vector has the store's dimension.      *)
assertEmbeddingStoreValid(st) ==
  /\ st.valid
  /\ \A x \in st.items : Dim[x.m] = st.dim

shouldRebuild(st, m) ==
  st.ver \notin 2..3 \/ st.model # m \/ ~assertEmbeddingStoreValid(st)

(* A version 2 item belongs to the only eligible page with its slug.       *)
soleEligiblePageId(st, id, pages) ==
  {p \in Eligible(pages) : SlugOf[p] = id
                           /\ \A q \in Eligible(pages) : SlugOf[q] = id => q = p}

LivePageOf(st, x, pages) ==
  IF st.ver = 3 THEN {x.id} \cap Eligible(pages)
                ELSE soleEligiblePageId(st, x.id, pages)

(* migrateEntries, migrateChunks, reconcileV3Entries, reconcileV3Chunks.   *)
Preserved(st, pages) ==
  {[y[1] EXCEPT !.id = y[2]] : y \in
     {z \in st.items \X Pages : /\ z[2] \in LivePageOf(st, z[1], pages)
                                /\ TextHash(pages[z[2]], z[1].i) = z[1].h}}

Changed(st, pages) ==
  {p \in Pages : \E x \in st.items : /\ p \in LivePageOf(st, x, pages)
                                     /\ TextHash(pages[p], x.i) # x.h}

FaultAddNew(items, pages) == {}

addNewEligiblePages(items, pages) ==
  {p \in Eligible(pages) : \A x \in items : ~(x.id = p /\ x.i = 0)}

(* rebuild keeps the dimension of the old store.                           *)
migrateEmbeddingStore(st, pages, m) ==
  LET keep == IF shouldRebuild(st, m) THEN {} ELSE Preserved(st, pages)
  IN [store   |-> [ver |-> 3, valid |-> TRUE, model |-> m, dim |-> st.dim, items |-> keep],
      reembed |-> IF shouldRebuild(st, m)
                    THEN Eligible(pages)
                    ELSE Changed(st, pages) \cup addNewEligiblePages(keep, pages)]

PageLevel(items) == {x \in items : x.i = 0}

migratedShrankStore(st, migrated) ==
  \/ Cardinality(PageLevel(migrated.items)) < Cardinality(PageLevel(st.items))
  \/ Cardinality(migrated.items \ PageLevel(migrated.items))
       < Cardinality(st.items \ PageLevel(st.items))

shouldPersist(st, migrated, reembed) ==
  \/ reembed # {}
  \/ st.ver \in 1..2
  \/ st.ver # 0 /\ migratedShrankStore(st, migrated)

(* mergeReembedded: old vectors of the pages just embedded are replaced.   *)
mergeReembedded(migrated, pages, reembed) ==
  LET items == {x \in migrated.items : x.id \notin reembed}
                 \cup ItemsOf(pages, reembed, migrated.model)
  IN [migrated EXCEPT !.items = items,
                      !.dim = IF items = {} THEN @ ELSE Dim[(CHOOSE x \in items : TRUE).m]]

-----------------------------------------------------------------------------
(* The provider.  An answer is "ok" or an error class; embedSubBatch       *)
(* retries once, falls back to one request per text, or gives up.          *)

Answers == {"ok", "integrity", "auth", "tooLarge", "transient", "other"}

embedOneSequential(one, again) == one = "ok" \/ (one = "transient" /\ again = "ok")

retryThenFallback(retry, one, again) ==
  \/ retry = "ok"
  \/ retry \in {"transient", "tooLarge"} /\ embedOneSequential(one, again)

embedSubBatch(first, retry, one, again) ==
  \/ first = "ok"
  \/ first = "tooLarge" /\ embedOneSequential(one, again)
  \/ first = "transient" /\ retryThenFallback(retry, one, again)

EmbedResults == {embedSubBatch(first, retry, one, again) :
                   first \in Answers, retry \in Answers, one \in Answers, again \in Answers}

(* Every vector must have the store's dimension, when it has one.          *)
DimensionFits(migrated, m) == migrated.dim = 0 \/ migrated.dim = Dim[m]

(* Text the provider refuses for good fails the whole batch.               *)
Embeddable(pages, ids) == \A p \in ids : ~pages[p].poison

-----------------------------------------------------------------------------
(* The command that holds the lock: compile, review approve, OKF import    *)
(* and query --save.  The pages and the state are written first.           *)

WritePages(by, new) ==
  /\ pc = "idle" /\ ops < MaxOps
  /\ PagesBecome(new)
  /\ ops' = ops + 1
  /\ pc' = IF by = "save" THEN "core" ELSE "flushed"
  /\ LET changed == {p \in Pages : new[p] # live[p]}
     IN /\ job' = [NoJob EXCEPT !.by = by, !.changed = changed]
        /\ excused' = IF by = "save" THEN excused \cup changed ELSE excused \ changed
  /\ UNCHANGED <<store, model, marker, mishaps>>

FaultRecord(fails) ==
  /\ pc = "flushed"
  /\ LET merged == mergeFreshAttempts(marker, job.changed)
     IN /\ job' = [job EXCEPT !.merged = merged]
        /\ pc' = IF merged = <<>> THEN "idle" ELSE "core"
        /\ UNCHANGED <<marker, mishaps, excused>>
  /\ UNCHANGED <<live, store, model, search, seen, ops>>

(* refreshEmbeddingsDrainingPending, up to the write-ahead marker.         *)
RecordPending(fails) ==
  /\ pc = "flushed"
  /\ LET merged == mergeFreshAttempts(marker, job.changed)
     IN IF merged = <<>>
          THEN pc' = "idle" /\ job' = NoJob /\ UNCHANGED <<marker, mishaps, excused>>
          ELSE /\ pc' = "core"
               /\ job' = [job EXCEPT !.merged = merged]
               /\ writePendingEmbeddings(merged, fails)
               /\ Excuse(Ids(merged))
  /\ UNCHANGED <<live, store, model, search, seen, ops>>

(* updateEmbeddingsLockedCore: collect the pages, read and migrate.        *)
Collect ==
  /\ pc = "core"
  /\ LET r  == migrateEmbeddingStore(store, live, model)
         re == r.reembed \cup ((Ids(job.merged) \cup job.changed) \cap Eligible(live))
     IN /\ job' = [job EXCEPT !.collected = live, !.migrated = r.store, !.reembed = re]
        /\ pc' = IF shouldPersist(store, r.store, re) THEN "embed" ELSE "embedded"
  /\ UNCHANGED <<live, store, model, marker, search, excused, seen, ops, mishaps>>

(* embedAndPersist succeeds: the store is replaced in one rename.          *)
Persist(ok) ==
  /\ pc = "embed"
  /\ job.reembed # {} => /\ ok
                         /\ DimensionFits(job.migrated, job.migrated.model)
                         /\ Embeddable(job.collected, job.reembed)
  /\ store' = mergeReembedded(job.migrated, job.collected, job.reembed)
  /\ pc' = "embedded"
  /\ UNCHANGED <<live, model, marker, job, search, excused, seen, ops, mishaps>>

(* ... or throws: the store is untouched.  A provider that fails though    *)
(* nothing is wrong with the request is one of the counted mishaps.        *)
EmbedFails(ok) ==
  /\ pc = "embed" /\ job.reembed # {}
  /\ \/ /\ DimensionFits(job.migrated, job.migrated.model)
        /\ Embeddable(job.collected, job.reembed)
        /\ ~ok
        /\ mishaps < MaxMishaps /\ mishaps' = mishaps + 1
     \/ /\ ~DimensionFits(job.migrated, job.migrated.model)
           \/ ~Embeddable(job.collected, job.reembed)
        /\ UNCHANGED mishaps
  /\ pc' = "failed"
  /\ UNCHANGED <<live, store, model, marker, job, search, excused, seen, ops>>

Done == pc' = "idle" /\ job' = NoJob

(* query --save has no marker: its failure is only a warning.              *)
Settle(fails) ==
  /\ pc \in {"embedded", "failed"}
  /\ Done
  /\ IF job.by = "save"
       THEN UNCHANGED <<marker, mishaps, excused>>
       ELSE /\ writePendingEmbeddings(
                 IF pc = "failed" THEN settleAfterFailure(job.merged)
                 ELSE settleAfterSuccess(job.merged, job.reembed, Eligible(job.collected)), fails)
            /\ IF pc = "failed" THEN Excuse(Ids(job.merged)) ELSE UNCHANGED excused
  /\ UNCHANGED <<live, store, model, search, seen, ops>>

(* The process dies; the lock is stale and the next command takes it.      *)
(* Between the state flush and the marker nobody remembers the change.     *)
Crash ==
  /\ pc # "idle" /\ mishaps < MaxMishaps
  /\ mishaps' = mishaps + 1
  /\ Done
  /\ excused' = IF pc = "flushed" THEN excused \cup job.changed ELSE excused
  /\ UNCHANGED <<live, store, model, marker, search, seen, ops>>

-----------------------------------------------------------------------------
(* Outside the program.                                                    *)

HandEdit(p, c) ==
  /\ ops < MaxOps /\ c # live[p]
  /\ ops' = ops + 1
  /\ PagesBecome([live EXCEPT ![p] = c])
  /\ excused' = excused \cup {p}
  /\ UNCHANGED <<store, model, marker, pc, job, mishaps>>

SwitchModel(m) ==
  /\ pc = "idle" /\ search.pc = "idle" /\ m # model /\ ops < MaxOps
  /\ ops' = ops + 1
  /\ model' = m
  /\ UNCHANGED <<live, store, marker, pc, job, search, excused, seen, mishaps>>

(* The store file is damaged on disk, or restored from elsewhere.          *)
Damage ==
  /\ pc = "idle" /\ store.ver # 0 /\ store.valid /\ mishaps < MaxMishaps
  /\ mishaps' = mishaps + 1
  /\ store' = [store EXCEPT !.valid = FALSE]
  /\ UNCHANGED <<live, model, marker, pc, job, search, excused, seen, ops>>

-----------------------------------------------------------------------------
(* A search: chunk vectors first, page vectors when no chunk is a hit, and *)
(* a model's choice over the live pages when the store offers nothing.     *)

gateActiveStore == /\ store.ver = 3
                   /\ assertEmbeddingStoreValid(store)
                   /\ store.model = model

OfKind(items, kind) == {x \in items : (x.i = 0) = (kind = 0)}

(* pickSearchRefs: without a usable store the search goes straight to the  *)
(* fallback.                                                               *)
LoadStore ==
  /\ search.pc = "idle" /\ ops < MaxOps
  /\ ops' = ops + 1
  /\ search' = [NoSearch EXCEPT !.pc = IF gateActiveStore THEN "filter" ELSE "fallback",
                                !.kind = 1, !.items = IF gateActiveStore THEN store.items ELSE {},
                                !.gone = Pages \ Eligible(live)]
  /\ seen' = [p \in Pages |-> Texts(live, p)]
  /\ UNCHANGED <<live, store, model, marker, pc, job, excused, mishaps>>

passesPrefilter(x) == x.id \in Eligible(live)

(* The ranking depends on the vectors: any order.                          *)
Rankings(items) == SetToSeqs(items)

(* The live id set, the query's vector and the ranking.                    *)
Rank ==
  /\ search.pc = "filter"
  /\ \E r \in Rankings({x \in OfKind(search.items, search.kind) : passesPrefilter(x)}) :
       search' = [search EXCEPT !.pc = "walk", !.ranked = r]
  /\ UNCHANGED <<live, store, model, marker, pc, job, excused, seen, ops, mishaps>>

FaultFresh(x) == x.id \in Exists(live)

(* buildLiveRegistryEntry and the comparison of hashes; eligibility was    *)
(* the prefilter's business.                                               *)
IsFresh(x) == /\ x.id \in Exists(live)
              /\ TextHash(live[x.id], x.i) = x.h

Walking == Len(search.hits) < TopK /\ search.ranked # <<>>

(* One turn of walkRankedFresh: a candidate is a hit or stale.             *)
walkRankedFresh ==
  /\ search.pc = "walk" /\ Walking
  /\ LET x == Head(search.ranked)
     IN search' = [search EXCEPT !.ranked = Tail(@),
                     !.hits  = IF IsFresh(x) THEN Append(@, x) ELSE @,
                     !.stale = IF IsFresh(x) THEN @ ELSE @ \cup {x.id}]
  /\ UNCHANGED <<live, store, model, marker, pc, job, excused, seen, ops, mishaps>>

(* The walk is over; chunks without a hit hand over to the pages, and      *)
(* pages without a hit to the fallback.                                    *)
SearchEnds ==
  /\ search.pc = "walk" /\ ~Walking
  /\ search' = IF search.hits # <<>> THEN [search EXCEPT !.pc = "done"]
               ELSE IF search.kind = 1
                 THEN [search EXCEPT !.pc = "filter", !.kind = 0, !.ranked = <<>>, !.stale = {}]
                 ELSE [search EXCEPT !.pc = "fallback"]
  /\ UNCHANGED <<live, store, model, marker, pc, job, excused, seen, ops, mishaps>>

(* The model is shown the eligible live pages and names some of them; a    *)
(* name that is not one of theirs is dropped.                              *)
selectFallbackRefs ==
  /\ search.pc = "fallback"
  /\ \E named \in SUBSET Pages :
       search' = [search EXCEPT !.pc = "done",
                    !.hits = SetToSeq({[id |-> p, i |-> 0, h |-> live[p].h, m |-> model] :
                                         p \in named \cap Eligible(live)})]
  /\ UNCHANGED <<live, store, model, marker, pc, job, excused, seen, ops, mishaps>>

SearchReturns ==
  /\ search.pc = "done"
  /\ search' = NoSearch
  /\ seen' = [p \in Pages |-> {}]
  /\ UNCHANGED <<live, store, model, marker, pc, job, excused, ops, mishaps>>

-----------------------------------------------------------------------------
Rewrites(by) ==
  IF by = "save"   \* one query page
    THEN {[live EXCEPT ![p] = c] : p \in Pages, c \in Contents}
    ELSE {[live EXCEPT ![p] = c] : p \in Pages, c \in Contents \cup {Gone}} \cup {live}

Command ==
  \/ \E by \in {"compile", "save"} : \E new \in Rewrites(by) : WritePages(by, new)
  \/ \E fails \in BOOLEAN : RecordPending(fails) \/ Settle(fails)
  \/ Collect
  \/ \E ok \in EmbedResults : Persist(ok) \/ EmbedFails(ok)

Searching == LoadStore \/ Rank \/ walkRankedFresh \/ SearchEnds
             \/ selectFallbackRefs \/ SearchReturns

Outside == \/ \E p \in Pages, c \in Contents \cup {Gone} : HandEdit(p, c)
           \/ \E m \in Models : SwitchModel(m)
           \/ Damage
           \/ Crash

Next == Command \/ Searching \/ Outside

Spec == Init /\ [][Next]_vars

-----------------------------------------------------------------------------
Items == [id : Pages \cup Slugs, i : Nat, h : Nat \ {0}, m : Models]

StoreType == [ver : 0..3, valid : BOOLEAN, model : Models \cup {NoModel}, dim : Nat,
              items : SUBSET Items]

Entry == [p : Pages, n : 0..MaxAttempts - 1]

(* Every variable has its type; in particular the marker never exceeds its *)
(* cap and never keeps an entry whose attempts are used up.                *)
TypeOK ==
  /\ live \in [Pages -> Contents \cup {Gone}]
  /\ store \in StoreType
  /\ model \in Models
  /\ Len(marker) <= MaxPending /\ marker \in Seq(Entry)
  /\ pc \in {"idle", "flushed", "core", "embed", "embedded", "failed"}
  /\ search.pc \in {"idle", "filter", "walk", "fallback", "done"}
  /\ excused \subseteq Pages

PageVector(p) == {x \in store.items : x.id = p /\ x.i = 0}

Stale(p) == /\ p \in Eligible(live)
            /\ \A x \in PageVector(p) : x.h # live[p].h

(* A page that a compile, an approval or an import changed is either       *)
(* embedded as it is now or in the marker, whenever no command is running: *)
(* the state flush cannot make the program forget it.  Excused are a page  *)
(* edited by hand since, one saved by query (which has no marker), one     *)
(* whose writer died before the marker was written, and one whose marker   *)
(* entry was quarantined, cut by the cap or could not be written.          *)
StaleIsPending ==
  pc = "idle" => \A p \in Pages \ excused : Stale(p) => p \in Ids(marker)

(* A store that a search accepts never holds vectors of two models, or of  *)
(* a model other than the one it names.                                    *)
OneModel ==
  store.ver = 3 /\ store.valid => \A x \in store.items : x.m = store.model

(* What a refresh persists is exactly the pages it collected: one current  *)
(* page vector for each eligible page, no vector at all of a page that is  *)
(* deleted or not eligible, and no chunk vector of a text that is gone.    *)
PersistReconciles ==
  [][ store' # store /\ store'.valid =>
        LET new == ItemsOf(job.collected, Eligible(job.collected), store'.model)
        IN /\ PageLevel(store'.items) = PageLevel(new)
           /\ store'.items \subseteq new ]_vars

(* A search never returns a page that was deleted or not eligible when the *)
(* search began and has stayed so, though the store may still hold its     *)
(* vectors.                                                                *)
NoGoneHit == \A k \in DOMAIN search.hits : search.hits[k].id \notin search.gone

(* A hit stands for a text that its page really had at some moment since   *)
(* the search began, never for the text of an older version.               *)
HitsAreCurrent ==
  \A k \in DOMAIN search.hits :
    LET x == search.hits[k]
    IN \E c \in seen[x.id] : TextHash(c, x.i) = x.h

(* Stale candidates do not crowd out fresh ones: a search returns fewer    *)
(* hits than it was asked for only after it tried every candidate.         *)
NoCrowding ==
  search.pc \in {"fallback", "done"} => Len(search.hits) = TopK \/ search.ranked = <<>>

(* The store and its retry marker at rest: types and caps, no changed page *)
(* forgotten, vectors of one model (embeddings-refresh.ts,                 *)
(* pending-embeddings.ts, embeddings-migrate.ts).                          *)
StoreSound == TypeOK /\ StaleIsPending /\ OneModel

(* What a search without a lock returns: no page that was gone, no text    *)
(* older than the search, and no fewer hits than there are fresh ones      *)
(* (embeddings-load.ts).                                                   *)
HitsHonest == NoGoneHit /\ HitsAreCurrent /\ NoCrowding
=============================================================================
