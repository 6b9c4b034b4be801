-------------------------------- MODULE Links --------------------------------
(***************************************************************************)
(* Interlinks: src/compiler/resolver.ts.  After a run wrote its concept    *)
(* pages, the mentions of page titles in them are wrapped in wikilinks: in *)
(* the changed pages for every title, in all pages for the new titles.     *)
(* Both passes read the pages as they are on disk; their rewrites are      *)
(* applied as one batch, and only then is state.json written, so a run     *)
(* that dies in between is run again.                                      *)
(***************************************************************************)
EXTENDS Integers, Sequences, FiniteSets

CONSTANTS
    LinkSlugs,      \* slugs of wiki/concepts
    Listing,        \* the order in which the directory lists them
    Phrases,        \* what the text of a page may mention
    Matches,        \* Matches[ph]: the pages whose title occurs in ph
    Unwritten,      \* no file
    Unlinked,       \* a mention that is not linked
    MaxRuns         \* bound: runs in a behaviour

ASSUME LinksAssumption ==
    /\ Matches \in [Phrases -> SUBSET LinkSlugs]
    /\ Len(Listing) = Cardinality(LinkSlugs) /\ MaxRuns \in Nat
    /\ Listing \in Seq(LinkSlugs) /\ {Listing[i] : i \in DOMAIN Listing} = LinkSlugs
    /\ Unlinked \notin LinkSlugs

VARIABLES
    wiki,       \* wiki[x]: [text, orphaned], where text[ph] is Unlinked or the page linked
    batch,      \* the run under way: the pages it wrote and those it calls new
    due,        \* pages whose source is not yet recorded as compiled
    runs

linksVars == <<wiki, batch, due, runs>>

NoBatch == [changed |-> {}, new |-> {}]

Said(x) == DOMAIN wiki[x].text

\* buildTitleIndex: the pages that are not marked orphaned.
buildTitleIndex == {x \in LinkSlugs : wiki[x] # Unwritten /\ ~wiki[x].orphaned}

FirstListed(S) == CHOOSE x \in S : \A y \in S :
    \E i, j \in DOMAIN Listing : Listing[i] = x /\ Listing[j] = y /\ i <= j

\* isLinkablePosition: not inside a wikilink.  Mentions in citations or inside a word
\* are not phrases.
isLinkablePosition(text, ph) == text[ph] = Unlinked

\* addWikilinks: titles take the mentions they match in the order of the index.
addWikilinks(x, titles) ==
    LET text == wiki[x].text
    IN  [ph \in DOMAIN text |->
            LET T == (titles \cap Matches[ph]) \ {x}
            IN  IF isLinkablePosition(text, ph) /\ T # {} THEN FirstListed(T) ELSE text[ph]]

\* The pages whose text a pass changes, rewritePage.
Rewritten(P, titles) == {x \in P : addWikilinks(x, titles) # wiki[x].text}

\* Fault: only the pages of this run are scanned for the new titles.
FaultInbound(changed, new) == (buildTitleIndex \cap changed) \ new

\* resolveInboundLinks looks at every page that is not itself new.
Inbound(changed, new) == buildTitleIndex \ new

\* resolveLinks: where both passes rewrite a page, the inbound one is kept, which
\* started from the same text.
resolveLinks(changed, new) ==
    LET titles == buildTitleIndex
        inbound == IF titles \cap new = {} THEN {}
                   ELSE Rewritten(Inbound(changed, new), titles \cap new)
        outbound == Rewritten(titles \cap changed, titles)
    IN  [x \in inbound \cup outbound |->
            addWikilinks(x, IF x \in inbound THEN titles \cap new ELSE titles)]

LinksInit ==
    /\ wiki = [x \in LinkSlugs |-> Unwritten]
    /\ batch = NoBatch /\ due = {} /\ runs = 0

\* The page batch of a run; whether a concept is new is the model's answer, and a
\* regenerated page has no links.  An approval or an import calls all its pages new.
WriteBatch(W, N, said) ==
    /\ batch = NoBatch /\ runs < MaxRuns /\ due \subseteq W
    /\ wiki' = [x \in LinkSlugs |-> IF x \in W
                   THEN [text |-> [ph \in said[x] |-> Unlinked], orphaned |-> FALSE] ELSE wiki[x]]
    /\ batch' = [changed |-> W, new |-> N]
    /\ due' = W /\ runs' = runs + 1

\* resolveAndApplyLinks, and the flush that follows it.
resolveAndApplyLinks ==
    /\ batch # NoBatch
    /\ LET writes == resolveLinks(batch.changed, batch.new)
       IN  wiki' = [x \in LinkSlugs |->
                       IF x \in DOMAIN writes THEN [wiki[x] EXCEPT !.text = writes[x]] ELSE wiki[x]]
    /\ batch' = NoBatch /\ due' = {}
    /\ UNCHANGED runs

\* The run dies before the links are applied.
LinksDie ==
    /\ batch # NoBatch
    /\ batch' = NoBatch
    /\ UNCHANGED <<wiki, due, runs>>

\* A page loses its sources and is marked.
MarkOrphan(x) ==
    /\ batch = NoBatch /\ x \in buildTitleIndex \ due
    /\ wiki' = [wiki EXCEPT ![x].orphaned = TRUE]
    /\ UNCHANGED <<batch, due, runs>>

LinksNext ==
    \/ \E W \in (SUBSET LinkSlugs) \ {{}} : \E N \in SUBSET W, said \in [W -> SUBSET Phrases] :
          WriteBatch(W, N, said)
    \/ resolveAndApplyLinks
    \/ LinksDie
    \/ \E x \in LinkSlugs : MarkOrphan(x)

LinksSpec == LinksInit /\ [][LinksNext]_linksVars

-----------------------------------------------------------------------------
(* Properties. *)

\* A link leads to a page whose title is mentioned, never to the page it is on.
LinkTargets ==
    \A x \in LinkSlugs : wiki'[x] # Unwritten =>
       \A ph \in DOMAIN wiki'[x].text :
          wiki'[x].text[ph] \in {Unlinked} \cup (Matches[ph] \ {x})

\* Linked for the titles T: no mention in text, that of x, of one of their pages is plain.
LinkedFor(x, text, T) ==
    \A ph \in DOMAIN text : (T \cap Matches[ph]) \ {x} # {} => text[ph] # Unlinked

Mentions(x, T) == \E ph \in Said(x) : (T \cap Matches[ph]) \ {x} # {}

\* When a run is over, every page links the new titles it mentions, and every page it
\* wrote links all the titles it mentions - unless that page is not new and mentions
\* a new title: then the inbound rewrite replaced the outbound one.
MentionsLinked ==
    resolveAndApplyLinks =>
       LET titles == buildTitleIndex
       IN  \A x \in titles :
              /\ LinkedFor(x, wiki'[x].text, titles \cap batch.new)
              /\ x \in batch.changed /\ (x \in batch.new \/ ~Mentions(x, titles \cap batch.new))
                    => LinkedFor(x, wiki'[x].text, titles)

\* Resolving never takes back a link or points it elsewhere: only regenerating a page
\* drops its links.
LinksKept ==
    \A x \in LinkSlugs : wiki[x] # Unwritten /\ batch # NoBatch =>
       \A ph \in Said(x) : wiki[x].text[ph] # Unlinked => wiki'[x].text[ph] = wiki[x].text[ph]

\* What a run may do to the links of the pages, after any number of runs that died
\* before theirs (resolver.ts).
LinkSteps == [][LinkTargets /\ MentionsLinked /\ LinksKept]_linksVars

\* resolver.ts: "Outbound: changed pages get [[wikilinks]] for any title they mention."
OutboundLinked ==
    [][resolveAndApplyLinks =>
          LET titles == buildTitleIndex
          IN  \A x \in titles \cap batch.changed : LinkedFor(x, wiki'[x].text, titles)]_linksVars
=============================================================================
