------------------------------ MODULE Context ------------------------------
(***************************************************************************)
(* The context pack (src/context): the pages of the wiki that bear on a    *)
(* prompt, ranked, widened by the link graph, filled with chunks, tiers    *)
(* and source windows, and trimmed to a token budget.  Building a pack is  *)
(* sequential: one action per stage of buildContextPack, and one step per  *)
(* item that the trimmer pops.                                             *)
(*                                                                         *)
(* Nodes are numbers, so that localeCompare on ids (and on titles, which   *)
(* sort like their ids here) is <.  Text is its length in characters;      *)
(* weights are in hundredths.                                              *)
(***************************************************************************)
EXTENDS Integers, FiniteSets, Sequences, SequencesExt, FiniteSetsExt

CONSTANTS
    ConceptPages,     \* ids of pages under wiki/concepts and wiki/queries
    EntityPages,      \* ids of valid typed pages of the profile
    Ghosts,           \* ids that a link or a relation names and no page has
    MaxNeighbors,     \* MAX_GRAPH_NEIGHBORS
    MaxWindows,       \* MAX_SOURCE_WINDOWS
    MaxResults,       \* MAX_RESULTS of searchPages
    MaxBudget,        \* the largest budget of tokens that is considered
    ItemChars         \* JSON length of one item of each section

Nodes == ConceptPages \cup EntityPages \cup Ghosts
Sections == {"neighbors", "sourceWindows", "chunks", "contentTiers", "primary"}

ASSUME ContextAssumption ==
    /\ Nodes \subseteq Nat /\ IsFiniteSet(Nodes)
    /\ ConceptPages \cap EntityPages = {}
    /\ (ConceptPages \cup EntityPages) \cap Ghosts = {}
    /\ MaxNeighbors \in Nat \ {0} /\ MaxWindows \in Nat /\ MaxResults \in Nat

(* From 100000 tokens on, the digits of a pack's own estimate can change   *)
(* its size once more than the estimate follows.                           *)
ASSUME BudgetAssumption == MaxBudget \in Nat /\ MaxBudget <= 99999

ASSUME ItemCharsAssumption ==
    ItemChars \in [Sections \cup {"envelope", "reason", "note"} -> Nat]

VARIABLES
    asked,    \* the project as read by buildViewerSnapshot, and the options
    pack,     \* the ContextPack under construction
    trimmed,  \* the sections the trimmer has popped from
    stage     \* the stage buildContextPack has reached

contextVars == <<asked, pack, trimmed, stage>>

(* A project as it is read, and the options after their clamps: for each   *)
(* page how it matches the prompt, its semantic hits, its kind, the state  *)
(* of its citations and of its tiers; the links and the relations.         *)
Requests ==
    LET Pages == ConceptPages \cup EntityPages
    IN  [match : [Pages -> {"none", "title", "body"}], exact : [Pages -> SUBSET {"slug", "title"}],
         hits : [Pages -> Nat], semantic : STRING, kind : [Pages -> STRING],
         links : SUBSET (Nodes \X Nodes), relations : SUBSET (Nodes \X Nodes),
         included : SUBSET EntityPages,
         citations : [Pages -> Seq({"whole-file", "readable", "unreadable"})],
         tiers : [Pages -> Seq(STRING)], notices : SUBSET STRING, problems : SUBSET STRING,
         recommended : Seq(STRING), budget : 0..MaxBudget, depth : Nat, topPages : Nat,
         neighbors : BOOLEAN, sources : BOOLEAN]

(* The elements of a finite set in the order of a strict total order.      *)
Sorted(S, before) ==
    [i \in 1..Cardinality(S) |->
        CHOOSE x \in S : Cardinality({y \in S : <<y, x>> \in before}) = i - 1]

(* The items that counts gives to each index, and how many there are.      *)
Items(counts) == UNION {{i} \X (1..counts[i]) : i \in DOMAIN counts}
Total(counts) == Cardinality(Items(counts))

-----------------------------------------------------------------------------
(* Pages and ranking (viewer/search.ts, context/ranking.ts).               *)

(* A typed page joins the snapshot unless its entity type opts out.        *)
Visible(a) == ConceptPages \cup (a.included \cap EntityPages)

(* Title matches come first, then body matches, each by title; the list is *)
(* cut at MaxResults.                                                      *)
searchPages(a) ==
    LET found == {p \in Visible(a) : a.match[p] # "none"}
        before == {e \in found \X found :
                      \/ a.match[e[1]] = "title" /\ a.match[e[2]] = "body"
                      \/ a.match[e[1]] = a.match[e[2]] /\ e[1] < e[2]}
        all == Sorted(found, before)
    IN  ToSet(SubSeq(all, 1, Min({Len(all), MaxResults})))

(* The semantic hits and the warning of retrieveSemanticChunks: a store    *)
(* that yields no hit is reported like a missing one.                      *)
Hits(a, p) == IF a.semantic = "ok" THEN a.hits[p] ELSE 0
retrievalWarning(a) ==
    IF a.semantic # "ok" THEN {a.semantic}
    ELSE IF \E p \in Visible(a) : a.hits[p] > 0 THEN {}
    ELSE {"embedding-store-missing"}

buildTopLevelWarnings(a) == a.notices \cup retrievalWarning(a)

Weight(a, p) ==
    LET lexical == IF p \notin searchPages(a) THEN 0
                   ELSE IF a.match[p] = "title" THEN 50 ELSE 30
        exact == (IF "slug" \in a.exact[p] THEN 40 ELSE 0)
                 + (IF "title" \in a.exact[p] THEN 50 ELSE 0)
        n == Hits(a, p)
        semantic == IF n = 0 THEN 0 ELSE 50 + 5 * Min({n - 1, 3})
    IN  lexical + exact + semantic

Row(a, p) == p \in searchPages(a) \/ a.exact[p] # {} \/ Hits(a, p) > 0

Primary(a, p) == [id |-> p, score |-> Min({Weight(a, p), 100}), linked |-> FALSE,
                  chunks |-> Hits(a, p), windows |-> 0, tiers |-> 0]

rankPages(a) ==
    LET w == [p \in Visible(a) |-> Weight(a, p)]
        better == {e \in Visible(a) \X Visible(a) :
                      w[e[1]] > w[e[2]] \/ (w[e[1]] = w[e[2]] /\ e[1] < e[2])}
        rows == Sorted({p \in Visible(a) : Row(a, p)}, better)
        top == SubSeq(rows, 1, Min({Len(rows), a.topPages}))
    IN  [i \in DOMAIN top |-> Primary(a, top[i])]

PrimaryIds(k) == {k.primary[i].id : i \in DOMAIN k.primary}

-----------------------------------------------------------------------------
(* The graph (viewer/graph.ts) and its expansion (context/graph.ts).       *)

(* The typed graph is built from the profile whether or not an entity type *)
(* is kept out of the snapshot's pages; a store that cannot be read gives  *)
(* no relation.                                                            *)
Relations(a) == IF "relation-store-unavailable" \in a.problems THEN {} ELSE a.relations
Edges(a) == a.links \cup Relations(a)

Out(a, n) == {m \in Nodes : <<n, m>> \in Edges(a)}
In(a, n) == {m \in Nodes : <<m, n>> \in Edges(a)}
Adjacent(a, n) == Out(a, n) \cup In(a, n)

SameKind(a, n, m) == {n, m} \subseteq Visible(a) /\ a.kind[n] = a.kind[m]
Scored(a, base, n, m) == base + (IF SameKind(a, n, m) THEN 3 ELSE 0)

Reason(a, n, m) == IF {<<n, m>>, <<m, n>>} \cap a.links # {} THEN "wikilink" ELSE "relation"

Neighbor(a, from, to, distance, score) ==
    [from |-> from, to |-> to, distance |-> distance, score |-> score,
     direction |-> IF to \in Out(a, from) THEN "outgoing" ELSE "incoming",
     reason |-> Reason(a, from, to)]

(* Every incident edge of a primary counts, both directions of a pair too. *)
Connections(a, prim, n) ==
    Cardinality({p \in prim : n \in Out(a, p)}) + Cardinality({p \in prim : n \in In(a, p)})

Steps(a, from, past) ==
    {e \in from \X (Nodes \ (Ghosts \cup past)) : e[2] \in Adjacent(a, e[1])}

OneScore(a, prim, p, n) ==
    Min({100, Scored(a, 50, p, n) + 5 * Min({Max({0, Connections(a, prim, n) - 1}), 3})})

expandDepthOne(a, prim) ==
    {Neighbor(a, e[1], e[2], 1, OneScore(a, prim, e[1], e[2])) : e \in Steps(a, prim, prim)}

expandDepthTwo(a, prim, bridges) ==
    {Neighbor(a, e[1], e[2], 2, Scored(a, 25, e[1], e[2])) :
        e \in Steps(a, bridges, prim \cup bridges)}

(* compareNeighbors: score, then target; equal pairs keep the order in     *)
(* which the walk met their origins.                                       *)
Nearest(found, met) ==
    LET first(n) == Min({i \in DOMAIN met : met[i] = n})
        before == {e \in found \X found :
            \/ e[1].score > e[2].score
            \/ e[1].score = e[2].score /\ e[1].to < e[2].to
            \/ e[1].score = e[2].score /\ e[1].to = e[2].to /\ first(e[1].from) < first(e[2].from)}
    IN  Sorted(found, before)

Capped(s) == SubSeq(s, 1, Min({Len(s), MaxNeighbors}))

Targets(s) == [i \in DOMAIN s |-> s[i].to]

(* Depth one is cut to the cap before it is expanded, and the union is cut *)
(* again.                                                                  *)
expandGraphNeighborhood(a, primary) ==
    LET met == [i \in DOMAIN primary |-> primary[i].id]
        one == Capped(Nearest(expandDepthOne(a, ToSet(met)), met))
        two == IF a.depth < 2 THEN {}
               ELSE expandDepthTwo(a, ToSet(met), ToSet(Targets(one)))
    IN  Capped(Nearest(ToSet(one) \cup two, met \o Targets(one)))

(* One gap for each dangling link of a primary page and each relation of a *)
(* primary page to a missing one.                                          *)
emitGraphGaps(a, prim) ==
    {e \in Edges(a) : \/ e[1] \in prim /\ e[2] \in Ghosts
                      \/ e \in Relations(a) /\ e[2] \in prim /\ e[1] \in Ghosts}

GraphOn(a) == a.neighbors /\ a.depth >= 1

annotateGraphNeighbors(a, primary) ==
    LET ids == {primary[i].id : i \in DOMAIN primary}
        joined == {n \in ids : Adjacent(a, n) \cap ids # {}}
    IN  [i \in DOMAIN primary |->
            [primary[i] EXCEPT !.linked = GraphOn(a) /\ Len(primary) >= 2
                                          /\ primary[i].id \in joined]]

-----------------------------------------------------------------------------
(* Size and trimming (context/budget.ts).                                  *)

CharsPerToken == 4

estimateTokens(n) == (n + CharsPerToken - 1) \div CharsPerToken

Digits(n) ==
    IF n < 10 THEN 1 ELSE IF n < 100 THEN 2 ELSE IF n < 1000 THEN 3
    ELSE IF n < 10000 THEN 4 ELSE IF n < 100000 THEN 5 ELSE 6

Of(primary, field) == [i \in DOMAIN primary |-> primary[i][field]]

BodyChars(k) ==
    ItemChars["envelope"] + ItemChars["neighbors"] * Len(k.neighbors)
    + ItemChars["primary"] * Len(k.primary)
    + ItemChars["chunks"] * Total(Of(k.primary, "chunks"))
    + ItemChars["sourceWindows"] * Total(Of(k.primary, "windows"))
    + ItemChars["contentTiers"] * Total(Of(k.primary, "tiers"))
    + ItemChars["reason"] * Cardinality({i \in DOMAIN k.primary : k.primary[i].linked})
    + ItemChars["note"] * (Cardinality(k.warnings) + Cardinality(k.gaps) + Len(k.actions))

PackChars(k) ==
    BodyChars(k) + ItemChars["note"] * Cardinality(k.budget.trimmed)
    + Digits(k.budget.estimated) + (IF k.budget.truncated THEN 4 ELSE 5)

estimatePackTokens(k) == estimateTokens(PackChars(k))

(* The section the trimmer pops from next: sections in order, and within a *)
(* section of the pages, the lowest-ranked page that still has some.       *)
Holding(k, field) == {i \in DOMAIN k.primary : k.primary[i][field] > 0}

NextSection(k) ==
    IF k.neighbors # <<>> THEN "neighbors"
    ELSE IF Holding(k, "windows") # {} THEN "sourceWindows"
    ELSE IF Holding(k, "chunks") # {} THEN "chunks"
    ELSE IF Holding(k, "tiers") # {} THEN "contentTiers"
    ELSE IF k.primary # <<>> THEN "primary" ELSE "none"

(* One item less of the lowest-ranked page that holds some.                *)
Taken(k, field) == [k EXCEPT !.primary[Max(Holding(k, field))][field] = @ - 1]

Popped(k, section) ==
    CASE section = "neighbors" -> [k EXCEPT !.neighbors = Front(@)]
      [] section = "primary"   -> [k EXCEPT !.primary = Front(@)]
      [] section = "sourceWindows" -> Taken(k, "windows")
      [] section = "chunks" -> Taken(k, "chunks")
      [] section = "contentTiers" -> Taken(k, "tiers")

trimToBudget(a, k) == NextSection(k) # "none" /\ estimatePackTokens(k) > a.budget

-----------------------------------------------------------------------------
(* Source windows (context/provenance.ts) and content tiers.               *)

(* The tiers a typed page's entity declares, without the empty ones.       *)
applyContentTiers(a, p) == Cardinality({i \in DOMAIN a.tiers[p] : a.tiers[p][i] # "empty"})

(* A line-range citation yields a window when its file can be read inside  *)
(* sources/ and the range meets the file; the budget of windows is shared  *)
(* by the pages of the pack, best page first.                              *)
Readable(a, p) == Cardinality({i \in DOMAIN a.citations[p] : a.citations[p][i] = "readable"})
LineRanges(a, p) == Cardinality({i \in DOMAIN a.citations[p] : a.citations[p][i] # "whole-file"})

materializeSourceWindows(a, primary) ==
    [i \in DOMAIN primary |->
        LET used == Total([j \in 1..(i - 1) |-> Readable(a, primary[j].id)])
        IN  Min({Max({0, MaxWindows - used}), Readable(a, primary[i].id)})]

hasUnmaterializedSpans(a, k) ==
    \E i \in DOMAIN k.primary : LineRanges(a, k.primary[i].id) > k.primary[i].windows

appendProjectWarnings(a, k) ==
    k.warnings \cup a.problems
    \cup (IF a.sources /\ hasUnmaterializedSpans(a, k) THEN {"source-window-unavailable"} ELSE {})

-----------------------------------------------------------------------------
(* The stages of buildContextPack.                                         *)

(* Recommended actions come first; the pack adds its own unless an equal   *)
(* command is already there.                                               *)
collectSuggestedActions(a) ==
    LET unless(c) == IF c \in ToSet(a.recommended) THEN <<>> ELSE <<c>>
        compile == IF "embedding-store-missing" \in retrievalWarning(a)
                   THEN unless("compile") ELSE <<>>
    IN  IF Visible(a) = {} THEN a.recommended
        ELSE a.recommended \o compile \o unless("view") \o unless("query")

assembleDraft ==
    /\ stage = "snapshot"
    /\ LET ranked == rankPages(asked)
           prim == {ranked[i].id : i \in DOMAIN ranked}
       IN  pack' = [primary |-> annotateGraphNeighbors(asked, ranked),
                    neighbors |-> IF GraphOn(asked) /\ prim # {}
                                  THEN expandGraphNeighborhood(asked, ranked) ELSE <<>>,
                    gaps |-> IF GraphOn(asked) THEN emitGraphGaps(asked, prim) ELSE {},
                    warnings |-> buildTopLevelWarnings(asked),
                    actions |-> collectSuggestedActions(asked),
                    budget |-> [estimated |-> 0, truncated |-> FALSE, trimmed |-> {}]]
    /\ stage' = "drafted"
    /\ UNCHANGED <<asked, trimmed>>

(* Content tiers, then source windows when asked for, then the warnings    *)
(* about the whole project.                                                *)
attachSources ==
    /\ stage = "drafted"
    /\ LET windows == materializeSourceWindows(asked, pack.primary)
           filled == [pack EXCEPT !.primary =
                        [i \in DOMAIN windows |->
                            [pack.primary[i] EXCEPT
                                !.tiers = applyContentTiers(asked, pack.primary[i].id),
                                !.windows = IF asked.sources THEN windows[i] ELSE 0]]]
       IN  pack' = [filled EXCEPT !.warnings = appendProjectWarnings(asked, filled)]
    /\ stage' = "trimming"
    /\ UNCHANGED <<asked, trimmed>>

(* One pop of the trimmer.  It is measured with the draft's budget field:  *)
(* the names of the trimmed sections are added only in the end.            *)
TrimStep ==
    /\ stage = "trimming"
    /\ trimToBudget(asked, pack)
    /\ pack' = Popped(pack, NextSection(pack))
    /\ trimmed' = trimmed \cup {NextSection(pack)}
    /\ UNCHANGED <<asked, stage>>

FaultReconcile(a, k) == k

reconcileGraphNeighborReasons(a, k) ==
    [k EXCEPT !.primary = annotateGraphNeighbors(a, @)]

(* The estimate is taken twice, the second time with the first one written *)
(* into the pack.                                                          *)
Budgeted(k, cut, estimated, truncated) ==
    [k EXCEPT !.budget = [estimated |-> estimated, truncated |-> truncated, trimmed |-> cut]]

Estimate(k, cut) ==
    LET e1 == estimatePackTokens(Budgeted(k, cut, 0, cut # {}))
    IN  estimatePackTokens(Budgeted(k, cut, e1, cut # {}))

finalizeBudget ==
    /\ stage = "trimming"
    /\ ~trimToBudget(asked, pack)
    /\ LET k == reconcileGraphNeighborReasons(asked, pack)
           e == Estimate(k, trimmed)
       IN  pack' = Budgeted(k, trimmed, e, trimmed # {} \/ e > asked.budget)
    /\ stage' = "done"
    /\ UNCHANGED <<asked, trimmed>>

ContextNext == assembleDraft \/ attachSources \/ TrimStep \/ finalizeBudget

(* A pack is built from any project and any options.                       *)
BuildSpec ==
    /\ asked \in Requests /\ IsFiniteSet(asked.notices \cup asked.problems)
    /\ stage = "snapshot" /\ pack = <<>> /\ trimmed = {}
    /\ [][ContextNext]_contextVars

-----------------------------------------------------------------------------
(* Type invariant: requests, stages, sections and the shape of the pack.   *)
ContextTypeOK ==
    /\ asked \in Requests
    /\ stage \in {"idle", "snapshot", "drafted", "trimming", "done"}
    /\ stage \notin {"idle", "snapshot"} =>
        /\ Len(pack.neighbors) <= MaxNeighbors
        /\ Len(pack.primary) <= asked.topPages
        /\ \A i \in DOMAIN pack.primary :
              /\ pack.primary[i].id \in Visible(asked)
              /\ {pack.primary[i].windows, pack.primary[i].chunks, pack.primary[i].tiers}
                    \subseteq Nat
        /\ Total(Of(pack.primary, "windows")) <= MaxWindows
        /\ pack.budget.trimmed \subseteq Sections

(* graph.ts:167-183, :479.  A neighbor's distance is its distance in the   *)
(* graph: a page the cap cut from the first ring never comes back as a     *)
(* second hop, whatever the cap is.                                        *)
Ring(a, prim) == (UNION {Adjacent(a, p) : p \in prim}) \ (prim \cup Ghosts)
DistancesReal ==
    stage = "done" =>
        \A i \in DOMAIN pack.neighbors :
            LET n == pack.neighbors[i]
                prim == PrimaryIds(pack)
            IN  /\ n.to \notin prim \cup Ghosts
                /\ n.to \in Adjacent(asked, n.from)
                /\ n.distance = 1 <=> n.to \in Ring(asked, prim)
                /\ n.from \in (IF n.distance = 1 THEN prim ELSE Ring(asked, prim))

(* budget.ts:93-105.  What the trimmer gives up, it gives up in order of   *)
(* value: a page is missing only from a pack with nothing else left to     *)
(* give, a chunk only after every window, a window of a page only after    *)
(* those of the pages ranked below it, and the pages kept are the best.    *)
TrimmedInOrder ==
    stage = "done" =>
        LET full == rankPages(asked)
            kept == pack.primary
            none(field) == Holding(pack, field) = {}
            lost == pack.budget.trimmed
        IN  /\ \A i \in DOMAIN kept : kept[i].id = full[i].id
            /\ Len(kept) < Len(full) => /\ pack.neighbors = <<>>
                                        /\ none("windows") /\ none("chunks") /\ none("tiers")
            /\ "contentTiers" \in lost => none("windows") /\ none("chunks")
            /\ "chunks" \in lost => pack.neighbors = <<>> /\ none("windows")
            /\ "sourceWindows" \in lost => pack.neighbors = <<>>
            /\ \A i, j \in DOMAIN kept :
                  i < j /\ kept[i].chunks < full[i].chunks => kept[j].chunks = 0

(* build.ts:573-585.  The budget block tells the truth about the pack it   *)
(* is part of: the estimate is within one token of the pack's real size,   *)
(* and a pack not marked truncated fits and has every section whole.       *)
HonestBudget ==
    stage = "done" =>
        LET real == estimatePackTokens(pack)
            b == pack.budget
        IN  /\ real - b.estimated \in {-1, 0, 1}
            /\ ~b.truncated => real <= asked.budget /\ b.trimmed = {}

(* build.ts:383-390.  After trimming, a page says it is joined to another  *)
(* page of the pack exactly when such an edge leads to a page still there. *)
ReasonsCurrent ==
    stage = "done" =>
        \A i \in DOMAIN pack.primary :
            pack.primary[i].linked <=>
                /\ GraphOn(asked) /\ Len(pack.primary) >= 2
                /\ \E j \in DOMAIN pack.primary :
                      pack.primary[j].id \in Adjacent(asked, pack.primary[i].id)

(* pack-warnings.ts:70, provenance.ts:122-138.  A cited line range without *)
(* its source window is never silent: the pack warns, or lists the windows *)
(* among the trimmed sections.                                             *)
NoSilentWindowLoss ==
    stage = "done" /\ asked.sources =>
        \/ "source-window-unavailable" \in pack.warnings
        \/ "sourceWindows" \in pack.budget.trimmed
        \/ \A i \in DOMAIN pack.primary :
              pack.primary[i].windows = LineRanges(asked, pack.primary[i].id)

(* A finished pack is what it says it is: its distances, its order of      *)
(* trimming, its budget, its reasons and what it lacks (build.ts).         *)
PackHonest ==
    /\ ContextTypeOK
    /\ DistancesReal /\ TrimmedInOrder /\ HonestBudget /\ ReasonsCurrent /\ NoSilentWindowLoss
=============================================================================
