---------------------------- MODULE SurfacesProofs ----------------------------
(***************************************************************************)
(* What a user asks of a project: the interlinks of its pages, the actions *)
(* that drive its workflow runs, its upkeep, the packs of context that are *)
(* built from it, and its profile with the reports on it; for any pages,   *)
(* profiles, sources, callers, options and bounds.                         *)
(***************************************************************************)
EXTENDS Links, Actions, Project, Context, Profile, FiniteSetTheorems, WellFoundedInduction, TLAPS

(* Least and greatest elements, and sequences. *)

\* A set of naturals that is not empty has a least element: the intervals 1..n are
\* well ordered by inclusion.
LEMMA LeastNatural ==
    ASSUME NEW S \in SUBSET Nat, S # {}
    PROVE  \E n \in S : \A m \in S : n <= m
<1> DEFINE T == {1..n : n \in S}
           R == StrictSubsetOrdering(Nat)
           F == FiniteSubsetsOf(Nat)
<1>1. IsWellFoundedOn(R, F)
  BY FS_StrictSubsetOrderingWellFounded
<1>2. T \subseteq F /\ T # {}
  <2>1. \A n \in S : 1..n \in SUBSET Nat /\ IsFiniteSet(1..n)
    BY FS_Interval
  <2> QED
    BY <2>1 DEF FiniteSubsetsOf
<1> HIDE DEF T, R, F
<1>3. PICK x \in T : \A y \in T : <<y, x>> \notin R
  BY <1>1, <1>2, WFMin
<1>4. PICK n \in S : x = 1..n
  BY <1>3 DEF T
<1>5. ASSUME NEW m \in S, m < n PROVE FALSE
  <2>1. 1..m \subseteq 1..n /\ n \in 1..n /\ n \notin 1..m
    BY <1>5
  <2>2. 1..m \in SUBSET Nat /\ 1..n \in SUBSET Nat
    OBVIOUS
  <2>3. <<1..m, 1..n>> \in R
    BY <2>1, <2>2 DEF R, StrictSubsetOrdering
  <2> QED
    BY <1>3, <1>4, <2>3 DEF T
<1> QED
  BY <1>5

-----------------------------------------------------------------------------
(* Interlinks.                                                             *)

\* The directory lists every page, so some title of a set comes first.
LEMMA FirstListedMember ==
    ASSUME NEW T \in SUBSET LinkSlugs, T # {}
    PROVE  FirstListed(T) \in T
<1> DEFINE S == {i \in DOMAIN Listing : Listing[i] \in T}
<1>1. S \in SUBSET Nat /\ S # {}
  BY LinksAssumption
<1>2. PICK i \in S : \A j \in S : i <= j
  BY <1>1, LeastNatural
<1>3. \A y \in T : \E j \in S : Listing[j] = y
  BY LinksAssumption
<1>4. \A y \in T : \E k, j \in DOMAIN Listing : Listing[k] = Listing[i] /\ Listing[j] = y /\ k <= j
  BY <1>2, <1>3
<1> QED
  BY <1>2, <1>4 DEF FirstListed

\* What a page may hold.
LinkText == UNION {[P -> LinkSlugs \cup {Unlinked}] : P \in SUBSET Phrases}
LinkPage == [text : LinkText, orphaned : BOOLEAN]

\* Pages and the batch are what a run writes, and every link is to a page whose title
\* is mentioned.
LinksInv ==
    /\ wiki \in [LinkSlugs -> {Unwritten} \cup LinkPage]
    /\ batch.changed \in SUBSET LinkSlugs /\ batch.new \in SUBSET batch.changed
    /\ \A x \in LinkSlugs : wiki[x] # Unwritten =>
          \A ph \in DOMAIN wiki[x].text :
             wiki[x].text[ph] \in {Unlinked} \cup (Matches[ph] \ {x})

\* addWikilinks leaves a text with the same mentions, links every plain mention of the
\* titles, and nothing else; without a mention it changes nothing.
LEMMA AddWikilinksLinks ==
    ASSUME NEW x \in LinkSlugs, wiki[x] \in LinkPage, NEW T \in SUBSET LinkSlugs
    PROVE  LET text == wiki[x].text
               add == addWikilinks(x, T)
           IN  /\ text \in LinkText /\ add \in LinkText
               /\ DOMAIN add = DOMAIN text
               /\ \A ph \in DOMAIN text :
                     /\ add[ph] \in {text[ph]} \cup ((T \cap Matches[ph]) \ {x})
                     /\ text[ph] # Unlinked => add[ph] = text[ph]
               /\ LinkedFor(x, add, T)
               /\ ~Mentions(x, T) => add = text
<1> DEFINE text == wiki[x].text
           add == addWikilinks(x, T)
           Own(ph) == (T \cap Matches[ph]) \ {x}
<1>1. PICK P \in SUBSET Phrases : text \in [P -> LinkSlugs \cup {Unlinked}]
  BY DEF LinkPage, LinkText
<1>2. add = [ph \in P |-> IF text[ph] = Unlinked /\ Own(ph) # {} THEN FirstListed(Own(ph)) ELSE text[ph]]
  BY <1>1 DEF addWikilinks, isLinkablePosition
<1>3. \A ph \in P : Own(ph) \in SUBSET LinkSlugs
  OBVIOUS
<1>4. \A ph \in P : Own(ph) # {} => FirstListed(Own(ph)) \in Own(ph)
  BY <1>3, FirstListedMember
<1> HIDE DEF add, Own
<1>5. \A ph \in P : add[ph] = IF text[ph] = Unlinked /\ Own(ph) # {} THEN FirstListed(Own(ph)) ELSE text[ph]
  BY <1>2
<1>6. add \in [P -> LinkSlugs \cup {Unlinked}]
  BY <1>1, <1>2, <1>3, <1>4
<1>7. add \in LinkText /\ text \in LinkText
  BY <1>1, <1>6 DEF LinkText
<1>8. DOMAIN add = P /\ DOMAIN text = P
  BY <1>1, <1>6
<1>9. \A ph \in P : /\ add[ph] \in {text[ph]} \cup Own(ph)
                    /\ text[ph] # Unlinked => add[ph] = text[ph]
                    /\ Own(ph) # {} => add[ph] # Unlinked
  BY <1>3, <1>4, <1>5, LinksAssumption
<1>10. LinkedFor(x, add, T)
  BY <1>8, <1>9 DEF LinkedFor, Own
<1>11. ASSUME ~Mentions(x, T) PROVE add = text
  <2>1. \A ph \in P : Own(ph) = {}
    BY <1>8, <1>11 DEF Mentions, Said, Own
  <2>2. \A ph \in P : add[ph] = text[ph]
    BY <1>5, <2>1
  <2> QED
    BY <1>1, <1>6, <2>2
<1> QED
  BY <1>7, <1>8, <1>9, <1>10, <1>11 DEF add, Own

\* The titles are written pages.
LEMMA TitlesAreWritten ==
    ASSUME LinksInv
    PROVE  /\ buildTitleIndex \in SUBSET LinkSlugs
           /\ \A x \in buildTitleIndex : wiki[x] # Unwritten /\ wiki[x] \in LinkPage
BY DEF LinksInv, buildTitleIndex

\* What resolving does to a page: nothing, or it adds the links of the new titles, or
\* of all; where it does nothing there was nothing to add.
LEMMA ResolvedText ==
    ASSUME LinksInv, resolveAndApplyLinks, NEW x \in LinkSlugs
    PROVE  LET titles == buildTitleIndex
               fresh == titles \cap batch.new
           IN  \/ /\ x \in titles \ batch.new /\ fresh # {} /\ addWikilinks(x, fresh) # wiki[x].text
                  /\ wiki'[x] = [wiki[x] EXCEPT !.text = addWikilinks(x, fresh)]
               \/ /\ x \in titles \cap batch.changed
                  /\ x \notin batch.new => fresh = {} \/ addWikilinks(x, fresh) = wiki[x].text
                  /\ wiki'[x] = [wiki[x] EXCEPT !.text = addWikilinks(x, titles)]
               \/ /\ wiki'[x] = wiki[x]
                  /\ x \in titles \ batch.new => fresh = {} \/ addWikilinks(x, fresh) = wiki[x].text
                  /\ x \in titles \cap batch.changed => addWikilinks(x, titles) = wiki[x].text
<1> DEFINE titles == buildTitleIndex
           fresh == titles \cap batch.new
           inbound == IF fresh = {} THEN {} ELSE Rewritten(Inbound(batch.changed, batch.new), fresh)
           outbound == Rewritten(titles \cap batch.changed, titles)
           writes == resolveLinks(batch.changed, batch.new)
<1>1. wiki' = [y \in LinkSlugs |-> IF y \in DOMAIN writes THEN [wiki[y] EXCEPT !.text = writes[y]] ELSE wiki[y]]
  BY DEF resolveAndApplyLinks
<1>2. writes = [y \in inbound \cup outbound |-> addWikilinks(y, IF y \in inbound THEN fresh ELSE titles)]
  BY DEF resolveLinks
<1>3. \A y : y \in inbound <=> fresh # {} /\ y \in titles \ batch.new /\ addWikilinks(y, fresh) # wiki[y].text
  BY DEF Rewritten, Inbound
<1>4. \A y : y \in outbound <=> y \in titles \cap batch.changed /\ addWikilinks(y, titles) # wiki[y].text
  BY DEF Rewritten
<1> HIDE DEF inbound, outbound, writes, titles
<1>5. CASE x \in inbound
  <2>1. wiki'[x] = [wiki[x] EXCEPT !.text = addWikilinks(x, fresh)]
    BY <1>1, <1>2, <1>5
  <2> QED
    BY <1>3, <1>5, <2>1 DEF titles
<1>6. CASE x \in outbound \ inbound
  <2>1. wiki'[x] = [wiki[x] EXCEPT !.text = addWikilinks(x, titles)]
    BY <1>1, <1>2, <1>6
  <2> QED
    BY <1>3, <1>4, <1>6, <2>1 DEF titles
<1>7. CASE x \notin inbound \cup outbound
  <2>1. wiki'[x] = wiki[x]
    BY <1>1, <1>2, <1>7
  <2> QED
    BY <1>3, <1>4, <1>7, <2>1 DEF titles
<1> QED
  BY <1>5, <1>6, <1>7

\* The text of a page after resolving: the same mentions, each as it was or linked to a
\* page whose title it has.
LEMMA ResolvedPage ==
    ASSUME LinksInv, resolveAndApplyLinks, NEW x \in LinkSlugs, wiki[x] # Unwritten
    PROVE  /\ wiki'[x] \in LinkPage
           /\ DOMAIN wiki'[x].text = DOMAIN wiki[x].text
           /\ \A ph \in DOMAIN wiki[x].text :
                 /\ wiki'[x].text[ph] \in {wiki[x].text[ph]} \cup (Matches[ph] \ {x})
                 /\ wiki[x].text[ph] # Unlinked => wiki'[x].text[ph] = wiki[x].text[ph]
<1> DEFINE titles == buildTitleIndex
           fresh == titles \cap batch.new
<1>1. wiki[x] \in LinkPage
  BY DEF LinksInv
<1>2. titles \in SUBSET LinkSlugs /\ fresh \in SUBSET LinkSlugs
  BY TitlesAreWritten
<1> HIDE DEF titles, fresh
<1>3. ASSUME NEW T \in SUBSET LinkSlugs, wiki'[x] = [wiki[x] EXCEPT !.text = addWikilinks(x, T)]
      PROVE  /\ wiki'[x] \in LinkPage
             /\ wiki'[x].text = addWikilinks(x, T)
  BY <1>1, <1>3, AddWikilinksLinks DEF LinkPage
<1>4. CASE wiki'[x] = [wiki[x] EXCEPT !.text = addWikilinks(x, fresh)]
  BY <1>1, <1>2, <1>3, <1>4, AddWikilinksLinks
<1>5. CASE wiki'[x] = [wiki[x] EXCEPT !.text = addWikilinks(x, titles)]
  BY <1>1, <1>2, <1>3, <1>5, AddWikilinksLinks
<1>6. CASE wiki'[x] = wiki[x]
  BY <1>1, <1>6
<1> QED
  BY <1>4, <1>5, <1>6, ResolvedText DEF titles, fresh

LEMMA LinksInvStep ==
    ASSUME LinksInv, [LinksNext]_linksVars
    PROVE  LinksInv'
<1>1. ASSUME NEW W \in SUBSET LinkSlugs, NEW N \in SUBSET W, NEW said \in [W -> SUBSET Phrases],
             WriteBatch(W, N, said)
      PROVE  LinksInv'
  <2> DEFINE new == [x \in W |-> [text |-> [ph \in said[x] |-> Unlinked], orphaned |-> FALSE]]
  <2>1. /\ wiki' = [x \in LinkSlugs |-> IF x \in W
                       THEN [text |-> [ph \in said[x] |-> Unlinked], orphaned |-> FALSE] ELSE wiki[x]]
        /\ batch' = [changed |-> W, new |-> N]
    BY <1>1 DEF WriteBatch
  <2>2. ASSUME NEW x \in W
        PROVE  /\ wiki'[x] \in LinkPage
               /\ \A ph \in DOMAIN wiki'[x].text : wiki'[x].text[ph] = Unlinked
    <3> DEFINE t == [ph \in said[x] |-> Unlinked]
    <3>1. t \in [said[x] -> LinkSlugs \cup {Unlinked}] /\ said[x] \in SUBSET Phrases
      OBVIOUS
    <3>2. t \in LinkText
      BY <3>1 DEF LinkText
    <3>3. wiki'[x] = [text |-> t, orphaned |-> FALSE]
      BY <2>1
    <3> QED
      BY <3>2, <3>3 DEF LinkPage
  <2>3. \A x \in LinkSlugs \ W : wiki'[x] = wiki[x]
    BY <2>1
  <2>4. wiki' \in [LinkSlugs -> {Unwritten} \cup LinkPage]
    BY <2>1, <2>2, <2>3 DEF LinksInv
  <2> QED
    BY <2>1, <2>2, <2>3, <2>4 DEF LinksInv
<1>2. CASE resolveAndApplyLinks
  <2>1. ASSUME NEW x \in LinkSlugs, wiki[x] = Unwritten PROVE wiki'[x] = wiki[x]
    <3>1. x \notin buildTitleIndex
      BY <2>1 DEF buildTitleIndex
    <3> QED
      BY <1>2, <3>1, ResolvedText
  <2>2. \A x \in LinkSlugs : wiki'[x] \in {Unwritten} \cup LinkPage
    BY <1>2, <2>1, ResolvedPage
  <2>3. DOMAIN wiki' = LinkSlugs /\ wiki' = [x \in LinkSlugs |-> wiki'[x]]
    BY <1>2 DEF resolveAndApplyLinks
  <2>4. wiki' \in [LinkSlugs -> {Unwritten} \cup LinkPage]
    BY <2>2, <2>3
  <2>5. batch' = NoBatch
    BY <1>2 DEF resolveAndApplyLinks
  <2>6. ASSUME NEW x \in LinkSlugs, wiki'[x] # Unwritten, NEW ph \in DOMAIN wiki'[x].text
        PROVE  wiki'[x].text[ph] \in {Unlinked} \cup (Matches[ph] \ {x})
    <3>1. wiki[x] # Unwritten
      BY <2>1, <2>6
    <3>2. /\ ph \in DOMAIN wiki[x].text
          /\ wiki'[x].text[ph] \in {wiki[x].text[ph]} \cup (Matches[ph] \ {x})
      BY <1>2, <2>6, <3>1, ResolvedPage
    <3> QED
      BY <3>1, <3>2 DEF LinksInv
  <2> QED
    BY <2>4, <2>5, <2>6 DEF LinksInv, NoBatch
<1>3. CASE LinksDie
  BY <1>3 DEF LinksDie, LinksInv, NoBatch
<1>4. ASSUME NEW z \in LinkSlugs, MarkOrphan(z) PROVE LinksInv'
  <2>1. wiki' = [wiki EXCEPT ![z].orphaned = TRUE] /\ batch' = batch /\ wiki[z] # Unwritten
    BY <1>4 DEF MarkOrphan, buildTitleIndex
  <2>2. wiki[z] \in LinkPage
    BY <2>1 DEF LinksInv
  <2>3. wiki'[z] = [wiki[z] EXCEPT !.orphaned = TRUE] /\ \A x \in LinkSlugs \ {z} : wiki'[x] = wiki[x]
    BY <2>1 DEF LinksInv
  <2>4. wiki'[z] \in LinkPage /\ wiki'[z].text = wiki[z].text
    BY <2>2, <2>3 DEF LinkPage
  <2>5. wiki' \in [LinkSlugs -> {Unwritten} \cup LinkPage]
    BY <2>1, <2>3, <2>4 DEF LinksInv
  <2> QED
    BY <2>1, <2>3, <2>4, <2>5 DEF LinksInv
<1>5. CASE UNCHANGED linksVars
  BY <1>5 DEF linksVars, LinksInv
<1> QED
  BY <1>1, <1>2, <1>3, <1>4, <1>5 DEF LinksNext

\* What resolving owes to the pages and to the new titles.
LEMMA ResolvingLinksMentions ==
    ASSUME LinksInv
    PROVE  MentionsLinked
<1> SUFFICES ASSUME resolveAndApplyLinks, NEW x \in buildTitleIndex
             PROVE  /\ LinkedFor(x, wiki'[x].text, buildTitleIndex \cap batch.new)
                    /\ x \in batch.changed /\ (x \in batch.new \/ ~Mentions(x, buildTitleIndex \cap batch.new))
                          => LinkedFor(x, wiki'[x].text, buildTitleIndex)
  BY DEF MentionsLinked
<1> DEFINE titles == buildTitleIndex
           fresh == titles \cap batch.new
<1>1. /\ titles \in SUBSET LinkSlugs /\ fresh \in SUBSET titles
      /\ x \in LinkSlugs /\ wiki[x] \in LinkPage
  BY TitlesAreWritten
<1>2. batch.new \in SUBSET batch.changed
  BY DEF LinksInv
<1>3. /\ x \in titles \ batch.new /\ fresh # {} /\ addWikilinks(x, fresh) # wiki[x].text
         /\ wiki'[x] = [wiki[x] EXCEPT !.text = addWikilinks(x, fresh)]
      \/ /\ x \in titles \cap batch.changed
         /\ x \notin batch.new => fresh = {} \/ addWikilinks(x, fresh) = wiki[x].text
         /\ wiki'[x] = [wiki[x] EXCEPT !.text = addWikilinks(x, titles)]
      \/ /\ wiki'[x] = wiki[x]
         /\ x \in titles \ batch.new => fresh = {} \/ addWikilinks(x, fresh) = wiki[x].text
         /\ x \in titles \cap batch.changed => addWikilinks(x, titles) = wiki[x].text
  BY <1>1, ResolvedText
<1>x. x \in titles
  OBVIOUS
<1> HIDE DEF titles, fresh
<1>4. \A T \in SUBSET LinkSlugs : [wiki[x] EXCEPT !.text = addWikilinks(x, T)].text = addWikilinks(x, T)
  BY <1>1 DEF LinkPage
<1>5. \A T \in SUBSET LinkSlugs : LinkedFor(x, addWikilinks(x, T), T)
  BY <1>1, AddWikilinksLinks
<1>6. ~Mentions(x, fresh) => addWikilinks(x, fresh) = wiki[x].text
  BY <1>1, AddWikilinksLinks
<1>7. \A text, S, T : S \subseteq T /\ LinkedFor(x, text, T) => LinkedFor(x, text, S)
  BY DEF LinkedFor
<1>8. \A text : LinkedFor(x, text, {})
  BY DEF LinkedFor
<1>9. fresh \in SUBSET LinkSlugs
  BY <1>1
<1>10. CASE wiki'[x].text = addWikilinks(x, fresh) /\ x \notin batch.new /\ addWikilinks(x, fresh) # wiki[x].text
  BY <1>5, <1>6, <1>9, <1>10 DEF titles, fresh
<1>11. CASE wiki'[x].text = addWikilinks(x, titles)
  BY <1>1, <1>5, <1>7, <1>11 DEF titles, fresh
<1>12. CASE /\ wiki'[x] = wiki[x]
            /\ x \notin batch.new => fresh = {} \/ addWikilinks(x, fresh) = wiki[x].text
            /\ x \in batch.changed => addWikilinks(x, titles) = wiki[x].text
  <2>1. x \in batch.changed => LinkedFor(x, wiki'[x].text, titles)
    BY <1>1, <1>5, <1>12
  <2>2. LinkedFor(x, wiki'[x].text, fresh)
    BY <1>1, <1>2, <1>5, <1>7, <1>8, <1>9, <1>12, <2>1
  <2> QED
    BY <2>1, <2>2 DEF titles, fresh
<1> QED
  BY <1>1, <1>3, <1>4, <1>9, <1>x, <1>10, <1>11, <1>12

\* After any number of runs that died before their links were applied, resolving links
\* what it owes, takes back no link, and a link leads to a page whose title is
\* mentioned, never to the page it is on (resolver.ts), for any pages, listing order,
\* phrases and runs.
THEOREM LinksAreMade == LinksSpec => LinkSteps
<1>1. LinksInit => LinksInv
  <2> SUFFICES ASSUME LinksInit PROVE LinksInv
    OBVIOUS
  <2> QED
    BY DEF LinksInit, LinksInv, NoBatch
<1>2. ASSUME LinksInv, [LinksNext]_linksVars
      PROVE  LinksInv' /\ [LinkTargets /\ MentionsLinked /\ LinksKept]_linksVars
  <2>1. LinksInv'
    BY <1>2, LinksInvStep
  <2>2. LinkTargets
    BY <2>1 DEF LinkTargets, LinksInv
  <2>3. MentionsLinked
    BY <1>2, ResolvingLinksMentions
  <2>4. ASSUME NEW x \in LinkSlugs, wiki[x] # Unwritten, batch # NoBatch,
               NEW ph \in Said(x), wiki[x].text[ph] # Unlinked
        PROVE  wiki'[x].text[ph] = wiki[x].text[ph]
    <3>1. CASE resolveAndApplyLinks
      BY <1>2, <2>4, <3>1, ResolvedPage DEF Said
    <3>2. CASE LinksDie
      BY <3>2 DEF LinksDie
    <3>3. CASE UNCHANGED linksVars
      BY <3>3 DEF linksVars
    <3>4. \A W, N, said : ~WriteBatch(W, N, said)
      BY <2>4 DEF WriteBatch
    <3>5. \A z : ~MarkOrphan(z)
      BY <2>4 DEF MarkOrphan
    <3> QED
      BY <1>2, <3>1, <3>2, <3>3, <3>4, <3>5 DEF LinksNext
  <2>5. LinksKept
    BY <2>4 DEF LinksKept
  <2> QED
    BY <2>1, <2>2, <2>3, <2>5
<1> QED
  BY <1>1, <1>2, PTL DEF LinksSpec, LinkSteps

-----------------------------------------------------------------------------
(* The actions that drive workflow runs: the composed authority.           *)

\* rankOf orders the capabilities, and gives 0 to anything else.
LEMMA RankOrder ==
    /\ \A cap : rankOf(cap) \in 0..4
    /\ \A cap : rankOf(cap) >= 3 <=> cap \in {"staged-write", "trusted-write"}
    /\ rankOf("disabled") = 1 /\ rankOf("read-only") = 2 /\ rankOf("staged-write") = 3
<1>1. /\ DOMAIN Capabilities = 1..4
      /\ Capabilities[1] = "disabled" /\ Capabilities[2] = "read-only"
      /\ Capabilities[3] = "staged-write" /\ Capabilities[4] = "trusted-write"
  BY DEF Capabilities
<1>2. /\ \A i, j \in 1..4 : Capabilities[i] = Capabilities[j] => i = j
      /\ \A i \in 1..4 : i \in {1, 2, 3, 4}
  BY <1>1
<1>3. ASSUME NEW i \in 1..4 PROVE rankOf(Capabilities[i]) = i
  BY <1>1, <1>2 DEF rankOf
<1>4. ASSUME NEW cap, \A i \in 1..4 : Capabilities[i] # cap PROVE rankOf(cap) = 0
  BY <1>1, <1>4 DEF rankOf
<1>5. \A cap : rankOf(cap) = 0 \/ \E i \in 1..4 : cap = Capabilities[i] /\ rankOf(cap) = i
  BY <1>3, <1>4
<1> QED
  BY <1>1, <1>2, <1>3, <1>5

\* The least of three capabilities allows writing only if each of them does.
LEMMA LeastCapability ==
    ASSUME NEW a, NEW b, NEW d, rankOf(minCapability({a, b, d})) >= 3
    PROVE  rankOf(a) >= 3 /\ rankOf(b) >= 3 /\ rankOf(d) >= 3
<1> DEFINE S == {a, b, d}
           Least(c) == \A e \in S : rankOf(c) <= rankOf(e)
<1>1. minCapability(S) = CHOOSE c \in S : Least(c)
  BY RankOrder DEF minCapability
<1>2. \E c \in S : Least(c)
  <2>1. /\ rankOf(a) \in Nat /\ rankOf(b) \in Nat /\ rankOf(d) \in Nat
    BY RankOrder
  <2> QED
    BY <2>1
<1> HIDE DEF Least
<1>3. Least(minCapability(S))
  BY <1>1, <1>2
<1>4. /\ rankOf(a) \in Nat /\ rankOf(b) \in Nat /\ rankOf(d) \in Nat
      /\ rankOf(minCapability(S)) \in Nat
  BY RankOrder
<1> QED
  BY <1>3, <1>4 DEF Least

WriteCapabilities == {"staged-write", "trusted-write"}

\* Profile and grant let a surface write: what an action needs to change a run.
Allowed(def, s, cfg) ==
    /\ def.permissions[s] \in WriteCapabilities
    /\ cfg.status # "unavailable"
    /\ cfg.status = "ok" => cfg.grants[s] \in WriteCapabilities \cup {Unset}

\* enforceAuthority passes a writing operation only if profile and grant let it.
LEMMA AuthorityAllows ==
    ASSUME NEW def, NEW s, NEW env, def.operation # "status",
           enforceAuthority(def, effectivePermission(def.permissions[s], s), s, env)
    PROVE  Allowed(def, s, config)
<1> DEFINE effective == effectivePermission(def.permissions[s], s)
<1>1. rankOf(effective) >= 3
  <2>1. CASE def.operation = "gate"
    BY <2>1, RankOrder DEF enforceAuthority, enforceGateAuthority, canSatisfyHumanGate
  <2>2. CASE def.operation # "gate"
    BY <2>2, RankOrder DEF enforceAuthority, REQUIRED_CAPABILITY
  <2> QED
    BY <2>1, <2>2
<1>2. rankOf(def.permissions[s]) >= 3 /\ rankOf(loadLocalGrant(s)) >= 3
  BY <1>1, LeastCapability DEF effectivePermission
<1>3. def.permissions[s] \in WriteCapabilities
  BY <1>2, RankOrder DEF WriteCapabilities
<1>4. loadLocalGrant(s) \in WriteCapabilities /\ "read-only" \notin WriteCapabilities
  BY <1>2, RankOrder DEF WriteCapabilities
<1> QED
  BY <1>3, <1>4 DEF Allowed, loadLocalGrant

-----------------------------------------------------------------------------
(* The record of a run.                                                    *)

\* A run that is over in either way is at no stage, any other is at one.
StageFits(x) == x.status \in {"completed", "cancelled"} <=> x.stage = Unset

LEMMA StagesAreDefined ==
    ASSUME activePack \in Packs, NEW w \in WorkflowIds
    PROVE  /\ StagesNow(w) \in Seq(StageDef)
           /\ \A i, j \in DOMAIN StagesNow(w) : StagesNow(w)[i].id = StagesNow(w)[j].id => i = j
           /\ \A i \in DOMAIN StagesNow(w) :
                 StagesNow(w)[i].gate \in GateValues /\ StagesNow(w)[i].gate[1] = "trust"
                    => StagesNow(w)[i].writes
BY StagesAssumption DEF StagesNow

\* The current stage, where the profile has it.
LEMMA CurrentStage ==
    ASSUME activePack \in Packs, NEW x \in RunRecord, hasStage(x)
    PROVE  /\ indexOf(x) \in DOMAIN StagesNow(x.workflow)
           /\ stageOf(x) \in StageDef /\ stageOf(x).id = x.stage
           /\ x.stage \in StageNames /\ x.stage # Unset
           /\ stageOf(x).gate \in GateValues /\ stageOf(x).gate[1] = "trust" => stageOf(x).writes
           /\ indexOf(x) # Len(StagesNow(x.workflow)) =>
                 StagesNow(x.workflow)[indexOf(x) + 1].id \in StageNames
<1> DEFINE T == StagesNow(x.workflow)
<1>1. x.workflow \in WorkflowIds
  BY DEF RunRecord
<1>2. /\ T \in Seq(StageDef)
      /\ \A i \in DOMAIN T : T[i].gate \in GateValues /\ T[i].gate[1] = "trust" => T[i].writes
  BY <1>1, StagesAreDefined
<1> HIDE DEF T
<1>3. indexOf(x) \in DOMAIN T /\ T[indexOf(x)].id = x.stage
  BY DEF indexOf, hasStage, T
<1>4. stageOf(x) = T[indexOf(x)]
  BY DEF stageOf, T
<1>5. \A i \in DOMAIN T : T[i] \in StageDef /\ T[i].id \in StageNames
  <2>1. \A i \in DOMAIN T : T[i] \in StageDef
    BY <1>2
  <2> QED
    BY <2>1 DEF StageDef
<1>6. x.stage \in StageNames /\ x.stage # Unset
  BY <1>3, <1>5, UnsetAssumption
<1>7. indexOf(x) # Len(T) => indexOf(x) + 1 \in DOMAIN T
  BY <1>2, <1>3
<1> QED
  BY <1>2, <1>3, <1>4, <1>5, <1>6, <1>7 DEF T

\* What is done to a run that there is.
RunOperations == {"cancel", "fail", "resume", "advance", "gate", "submit"}

\* Every operation leaves a record of the same workflow, at a stage exactly while it is
\* not over, with a human gate more only where one of that id was approved as a human.
LEMMA ResultsAreRecords ==
    ASSUME activePack \in Packs, NEW x \in RunRecord, StageFits(x),
           NEW i, i.operation \in RunOperations, NEW y \in Results(i, x)
    PROVE  /\ y \in RunRecord /\ StageFits(y) /\ y.workflow = x.workflow
           /\ \A g \in y.gates \ x.gates :
                 g[1] = "human" => i.operation = "gate" /\ i.kind = "human" /\ g[2] = i.gate
<1> USE DEF RunRecord
<1>1. CASE i.operation = "cancel"
  <2>1. y = [x EXCEPT !.status = "cancelled", !.stage = Unset]
    BY <1>1 DEF Results
  <2> QED
    BY <2>1 DEF StageFits
<1>2. CASE i.operation = "fail"
  <2>1. y = [x EXCEPT !.status = "failed", !.parked = FALSE] /\ active(x)
    BY <1>2 DEF Results
  <2> QED
    BY <2>1 DEF StageFits, active
<1>3. CASE i.operation = "resume"
  <2>1. y = resumeRecord(x) /\ x.status = "failed"
    BY <1>3 DEF Results
  <2> QED
    BY <2>1 DEF StageFits, resumeRecord
<1>4. CASE i.operation = "advance"
  <2>1. y = advanceRecord(x) /\ active(x) /\ hasStage(x)
    BY <1>4 DEF Results
  <2>2. x.stage # Unset
    BY <2>1, CurrentStage
  <2>3. CASE ~(gateSatisfied(x) /\ outputRecorded(x))
    <3>1. y = [x EXCEPT !.parked = TRUE, !.status = "running"]
      BY <2>1, <2>3 DEF advanceRecord
    <3> QED
      BY <2>2, <3>1 DEF StageFits
  <2>4. CASE gateSatisfied(x) /\ outputRecorded(x) /\ indexOf(x) = Len(StagesNow(x.workflow))
    <3>1. y = [x EXCEPT !.stage = Unset, !.status = "completed", !.parked = FALSE]
      BY <2>1, <2>4 DEF advanceRecord
    <3> QED
      BY <3>1 DEF StageFits
  <2>5. CASE gateSatisfied(x) /\ outputRecorded(x) /\ indexOf(x) # Len(StagesNow(x.workflow))
    <3> DEFINE s == StagesNow(x.workflow)[indexOf(x) + 1].id
    <3>1. y = [x EXCEPT !.stage = s, !.status = "running", !.parked = FALSE]
      BY <2>1, <2>5 DEF advanceRecord
    <3>2. s \in StageNames /\ s # Unset
      BY <2>1, <2>5, CurrentStage, UnsetAssumption
    <3> HIDE DEF s
    <3> QED
      BY <3>1, <3>2 DEF StageFits
  <2> QED
    BY <2>3, <2>4, <2>5
<1>5. CASE i.operation = "gate"
  <2>1. /\ active(x) /\ hasStage(x) /\ vouches(stageOf(x).gate, i.gate, i.kind)
        /\ y = IF stageOf(x).gate \in x.gates THEN x ELSE approveRecord(x)
    BY <1>5 DEF Results
  <2>2. stageOf(x).gate \in GateValues
    BY <2>1, CurrentStage DEF vouches, StageDef
  <2>3. approveRecord(x) = [x EXCEPT !.gates = x.gates \cup {stageOf(x).gate}, !.parked = FALSE]
    BY DEF approveRecord
  <2>4. CASE y = x
    BY <2>4
  <2>5. CASE y = approveRecord(x)
    <3> DEFINE g == stageOf(x).gate
    <3>1. y = [x EXCEPT !.gates = x.gates \cup {g}, !.parked = FALSE] /\ g \in GateValues
      BY <2>2, <2>3, <2>5
    <3>2. g[1] = "human" => i.kind = "human" /\ g[2] = i.gate
      BY <2>1 DEF vouches
    <3> HIDE DEF g
    <3>3. y \in RunRecord /\ StageFits(y) /\ y.workflow = x.workflow /\ y.gates = x.gates \cup {g}
      BY <3>1 DEF StageFits
    <3> QED
      BY <1>5, <3>2, <3>3
  <2> QED
    BY <2>1, <2>4, <2>5
<1>6. CASE i.operation = "submit"
  <2>1. /\ active(x) /\ hasStage(x)
        /\ y \in {recordOutput(x), x, [x EXCEPT !.status = "failed", !.parked = FALSE]}
    BY <1>6 DEF Results
  <2>2. CASE y = recordOutput(x)
    <3> DEFINE G == {g \in {stageOf(x).gate} \ {Unset} : g[1] = "trust"}
    <3>1. y = [x EXCEPT !.outputs = x.outputs \cup {x.stage}, !.gates = x.gates \cup G]
      BY <2>2 DEF recordOutput
    <3>2. G \in SUBSET GateValues /\ x.stage \in StageNames /\ \A g \in G : g[1] = "trust"
      <4>1. stageOf(x).gate \in {Unset} \cup GateValues
        BY <2>1, CurrentStage DEF StageDef
      <4> QED
        BY <2>1, <4>1, CurrentStage
    <3> HIDE DEF G
    <3>3. y \in RunRecord /\ StageFits(y) /\ y.workflow = x.workflow /\ y.gates = x.gates \cup G
      BY <3>1, <3>2 DEF StageFits
    <3> QED
      BY <3>2, <3>3
  <2>3. CASE y = x
    BY <2>3
  <2>4. CASE y = [x EXCEPT !.status = "failed", !.parked = FALSE]
    BY <2>1, <2>4 DEF StageFits, active
  <2> QED
    BY <2>1, <2>2, <2>3, <2>4
<1> QED
  BY <1>1, <1>2, <1>3, <1>4, <1>5, <1>6 DEF RunOperations

\* Under the lock, an operation changes only the run it names, which reads back and is
\* the caller's.
LEMMA LockedChanges ==
    ASSUME NEW i, Locked(i), NEW r \in RecordIds, record'[r] # record[r],
           record \in [RecordIds -> RunRecord \cup {Unset}]
    PROVE  /\ r = i.run /\ record[r] # Unset /\ owns(i.who, record[r])
           /\ record'[r] \in Results(i, record[r])
<1>1. /\ readable(i.run) /\ owns(i.who, record[i.run])
      /\ \E y \in Results(i, record[i.run]) : record' = [record EXCEPT ![i.run] = y]
  BY DEF Locked
<1>2. PICK y \in Results(i, record[i.run]) : record' = [record EXCEPT ![i.run] = y]
  BY <1>1
<1>3. r = i.run /\ record'[r] = y
  BY <1>2
<1> QED
  BY <1>1, <1>2, <1>3 DEF readable

LEMMA LockedDomain ==
    ASSUME NEW i, Locked(i), record \in [RecordIds -> RunRecord \cup {Unset}]
    PROVE  DOMAIN record' = RecordIds /\ record' = [r \in RecordIds |-> record'[r]]
<1>1. CASE UNCHANGED record
  BY <1>1
<1>2. CASE \E y \in Results(i, record[i.run]) : record' = [record EXCEPT ![i.run] = y]
  BY <1>2
<1> QED
  BY <1>1, <1>2 DEF Locked

\* A start takes an id that no file has.
LEMMA StartedChanges ==
    ASSUME NEW i, Started(i), i.workflow \in WorkflowIds, i.who \in Identities, activePack \in Packs,
           record \in [RecordIds -> RunRecord \cup {Unset}]
    PROVE  /\ record' \in [RecordIds -> RunRecord \cup {Unset}]
           /\ \A r \in RecordIds : record'[r] # record[r] =>
                 record[r] = Unset /\ StageFits(record'[r]) /\ record'[r].gates = {}
<1>1. CASE UNCHANGED record
  BY <1>1
<1>2. CASE StagesNow(i.workflow) # <<>> /\ \E r \in RecordIds :
              record[r] = Unset /\ record' = [record EXCEPT ![r] = startRecord(i.workflow, i.who)]
  <2> DEFINE T == StagesNow(i.workflow)
             x == startRecord(i.workflow, i.who)
  <2>1. T \in Seq(StageDef) /\ T # <<>>
    BY <1>2, StagesAreDefined
  <2>2. T[1] \in StageDef
    BY <2>1
  <2>3. T[1].id \in StageNames /\ T[1].id # Unset
    BY <2>2, UnsetAssumption DEF StageDef
  <2>4. x = [workflow |-> i.workflow, owner |-> i.who, status |-> "pending", stage |-> T[1].id,
             gates |-> {}, outputs |-> {}, parked |-> FALSE, def |-> T, readable |-> TRUE]
    BY DEF startRecord
  <2> HIDE DEF T, x
  <2>5. x \in RunRecord /\ StageFits(x) /\ x.gates = {}
    BY <2>1, <2>3, <2>4 DEF RunRecord, StageFits
  <2> QED
    BY <1>2, <2>5 DEF x
<1> QED
  BY <1>1, <1>2 DEF Started

-----------------------------------------------------------------------------
(* The invariant of the invocations.                                       *)

Definitions == UNION {{Declared[p][a] : a \in DOMAIN Declared[p]} : p \in Packs}
CallSteps == {"authorize", "scope", "confirm", "perform"}

\* An invocation of a declared action, as its definition was read at the start.
ActionCall ==
    [step : CallSteps, via : {"action"}, surface : Surfaces, who : Identities, def : Definitions,
     operation : Operations, workflow : WorkflowIds, run : RecordIds \cup {Unset},
     gate : {Unset} \cup {d.gate[2] : d \in Definitions}, kind : {"agent", "human"},
     saw : LocalConfigs \cup {Unset}]

\* An approval by `gate approve'.
ApproveCall ==
    [step : {"confirm", "perform"}, via : {"direct"}, surface : {"cli"}, who : Identities,
     operation : {"gate"}, workflow : {Unset}, run : RecordIds, gate : GateNames,
     kind : {"agent", "system", "human"}, saw : {Unset}]

RecordsOK ==
    /\ record \in [RecordIds -> RunRecord \cup {Unset}]
    /\ \A r \in RecordIds : record[r] # Unset => StageFits(record[r])

\* What a call carries: the grant it read let it write, its run was there and of its
\* workflow, and a human's approval was confirmed.
CallSound(i, rec, prv) ==
    \/ i = NoCall
    \/ /\ i \in ActionCall \cup ApproveCall
       /\ i.kind = "human" => <<i.run, i.gate>> \in prv
       /\ i.via = "action" =>
             /\ i.operation = i.def.operation
             /\ i.step # "authorize" => i.operation # "status" /\ Allowed(i.def, i.surface, i.saw)
             /\ i.operation = "start" => i.step \in {"authorize", "perform"}
             /\ i.operation = "start" \/ i.operation = "status" \/ i.run \in RecordIds
             /\ i.operation # "start" /\ i.step \in {"confirm", "perform"} =>
                   rec[i.run] # Unset /\ rec[i.run].workflow = i.workflow

ActionsInv ==
    /\ activePack \in Packs /\ config \in LocalConfigs
    /\ RecordsOK
    /\ DOMAIN call = Callers /\ \A c \in Callers : CallSound(call[c], record, proven)
    /\ HumanProof

\* Runs that were there stay, of their workflow.
RunsStay == \A r \in RecordIds : record[r] # Unset =>
               record'[r] # Unset /\ record'[r].workflow = record[r].workflow

LEMMA CallStaysSound ==
    ASSUME NEW i, CallSound(i, record, proven), proven \subseteq proven', RunsStay
    PROVE  CallSound(i, record', proven')
<1>1. CASE i = NoCall
  BY <1>1 DEF CallSound
<1>2. CASE i # NoCall /\ i.via = "action" /\ i.operation # "start" /\ i.step \in {"confirm", "perform"}
  <2>1. i.operation # "status" /\ i.run \in RecordIds
    BY <1>2 DEF CallSound, CallSteps
  <2> QED
    BY <1>2, <2>1 DEF CallSound, RunsStay
<1>3. CASE i # NoCall /\ ~(i.via = "action" /\ i.operation # "start" /\ i.step \in {"confirm", "perform"})
  BY <1>3 DEF CallSound
<1> QED
  BY <1>1, <1>2, <1>3

LEMMA LockedKeeps ==
    ASSUME ActionsInv, NEW i, Locked(i), i.operation \in RunOperations, proven \subseteq proven',
           i.operation = "gate" /\ i.kind = "human" => <<i.run, i.gate>> \in proven
    PROVE  RecordsOK' /\ HumanProof' /\ RunsStay
<1>1. /\ activePack \in Packs /\ record \in [RecordIds -> RunRecord \cup {Unset}]
      /\ \A r \in RecordIds : record[r] # Unset => record[r] \in RunRecord /\ StageFits(record[r])
  BY DEF ActionsInv, RecordsOK
<1>2. ASSUME NEW r \in RecordIds, record'[r] # record[r]
      PROVE  /\ r = i.run /\ record[r] # Unset
             /\ record'[r] \in RunRecord /\ StageFits(record'[r]) /\ record'[r].workflow = record[r].workflow
             /\ \A g \in record'[r].gates \ record[r].gates : g[1] = "human" => <<r, g[2]>> \in proven
  <2>1. r = i.run /\ record[r] # Unset /\ record'[r] \in Results(i, record[r])
    BY <1>1, <1>2, LockedChanges
  <2> DEFINE y == record'[r]
  <2>2. y \in Results(i, record[r])
    BY <2>1
  <2> HIDE DEF y
  <2>3. /\ y \in RunRecord /\ StageFits(y) /\ y.workflow = record[r].workflow
        /\ \A g \in y.gates \ record[r].gates :
              g[1] = "human" => i.operation = "gate" /\ i.kind = "human" /\ g[2] = i.gate
    BY <1>1, <2>1, <2>2, ResultsAreRecords
  <2> QED
    BY <2>1, <2>3 DEF y
<1>3. record' = [r \in RecordIds |-> record'[r]]
  BY <1>1, LockedDomain
<1>4. \A r \in RecordIds : record'[r] # Unset => record'[r] \in RunRecord /\ StageFits(record'[r])
  BY <1>1, <1>2
<1>5. record' \in [RecordIds -> RunRecord \cup {Unset}]
  BY <1>3, <1>4
<1>6. RecordsOK'
  BY <1>4, <1>5 DEF RecordsOK
<1>7. ASSUME NEW r \in RecordIds, record'[r] # Unset, NEW g \in record'[r].gates, g[1] = "human"
      PROVE  <<r, g[2]>> \in proven'
  <2>1. CASE record'[r] = record[r]
    BY <1>7, <2>1 DEF ActionsInv, HumanProof
  <2>2. CASE record'[r] # record[r]
    BY <1>2, <1>7, <2>2 DEF ActionsInv, HumanProof
  <2> QED
    BY <2>1, <2>2
<1>8. HumanProof'
  BY <1>7 DEF HumanProof
<1>9. RunsStay
  BY <1>2, UnsetAssumption DEF RunsStay
<1> QED
  BY <1>6, <1>8, <1>9

LEMMA StartedKeeps ==
    ASSUME ActionsInv, NEW i, Started(i), i.workflow \in WorkflowIds, i.who \in Identities,
           proven \subseteq proven'
    PROVE  RecordsOK' /\ HumanProof' /\ RunsStay
<1>1. /\ record' \in [RecordIds -> RunRecord \cup {Unset}]
      /\ \A r \in RecordIds : record'[r] # record[r] =>
            record[r] = Unset /\ StageFits(record'[r]) /\ record'[r].gates = {}
  BY StartedChanges DEF ActionsInv, RecordsOK
<1>2. RecordsOK'
  BY <1>1 DEF ActionsInv, RecordsOK
<1>3. HumanProof'
  BY <1>1 DEF ActionsInv, HumanProof
<1>4. RunsStay
  BY <1>1 DEF RunsStay
<1> QED
  BY <1>2, <1>3, <1>4

LEMMA RecordsRest ==
    ASSUME ActionsInv, UNCHANGED record, proven \subseteq proven'
    PROVE  RecordsOK' /\ HumanProof' /\ RunsStay
BY DEF ActionsInv, RecordsOK, HumanProof, RunsStay

\* One call moves, the others stay as they are.
LEMMA OneCallMoves ==
    ASSUME ActionsInv, NEW c \in Callers, NEW i, Goto(c, i), CallSound(i, record', proven'),
           proven \subseteq proven', RunsStay
    PROVE  DOMAIN call' = Callers /\ \A d \in Callers : CallSound(call'[d], record', proven')
<1>1. call' = [call EXCEPT ![c] = i] /\ DOMAIN call = Callers
  BY DEF Goto, ActionsInv
<1>2. ASSUME NEW d \in Callers PROVE CallSound(call'[d], record', proven')
  <2>1. CASE d = c
    BY <1>1, <2>1
  <2>2. CASE d # c
    <3>1. call'[d] = call[d]
      BY <1>1, <2>2
    <3>2. CallSound(call[d], record, proven)
      BY DEF ActionsInv
    <3> DEFINE j == call[d]
    <3>3. CallSound(j, record, proven)
      BY <3>2
    <3> HIDE DEF j
    <3>4. CallSound(j, record', proven')
      BY <3>3, CallStaysSound
    <3> QED
      BY <3>1, <3>4 DEF j
  <2> QED
    BY <2>1, <2>2
<1> QED
  BY <1>1, <1>2

LEMMA CallsRest ==
    ASSUME ActionsInv, UNCHANGED call, proven \subseteq proven', RunsStay
    PROVE  DOMAIN call' = Callers /\ \A d \in Callers : CallSound(call'[d], record', proven')
<1>1. ASSUME NEW d \in Callers PROVE CallSound(call'[d], record', proven')
  <2> DEFINE j == call[d]
  <2>1. CallSound(j, record, proven) /\ call'[d] = j
    BY DEF ActionsInv
  <2> HIDE DEF j
  <2>2. CallSound(j, record', proven')
    BY <2>1, CallStaysSound
  <2> QED
    BY <2>1, <2>2
<1> QED
  BY <1>1 DEF ActionsInv

LEMMA InvokeKeeps ==
    ASSUME ActionsInv, NEW c \in Callers, NEW s \in Surfaces, NEW who \in Identities,
           NEW a \in DOMAIN Declared[activePack], NEW r \in RecordIds \cup {Unset}, Invoke(c, s, who, a, r)
    PROVE  ActionsInv'
<1> DEFINE def == Declared[activePack][a]
           i == [step |-> "authorize", via |-> "action", surface |-> s, who |-> who,
                 def |-> def, operation |-> def.operation, workflow |-> def.workflow,
                 run |-> r, gate |-> IF def.gate = Unset THEN Unset ELSE def.gate[2],
                 kind |-> "agent", saw |-> Unset]
<1>1. /\ inputsFit(def.operation, r) /\ Goto(c, i)
      /\ UNCHANGED <<activePack, config, record, ownerEdits, proven>>
  BY DEF Invoke
<1>2. activePack \in Packs
  BY DEF ActionsInv
<1>3. def \in Definitions /\ def.operation \in Operations /\ def.workflow \in WorkflowIds
  BY <1>2, ActionsAssumption DEF Definitions
<1>4. def.operation # "start" /\ def.operation # "status" => r \in RecordIds
  BY <1>1 DEF inputsFit
<1> HIDE DEF def
<1>5. i \in ActionCall
  BY <1>3 DEF ActionCall, CallSteps
<1>6. CallSound(i, record', proven')
  BY <1>4, <1>5 DEF CallSound
<1> HIDE DEF i
<1>7. RecordsOK' /\ HumanProof' /\ RunsStay /\ proven \subseteq proven'
  BY <1>1, RecordsRest
<1>8. DOMAIN call' = Callers /\ \A d \in Callers : CallSound(call'[d], record', proven')
  BY <1>1, <1>6, <1>7, OneCallMoves
<1> QED
  BY <1>1, <1>7, <1>8 DEF ActionsInv

LEMMA AuthorizeKeeps ==
    ASSUME ActionsInv, NEW c \in Callers, NEW env, Authorize(c, env)
    PROVE  ActionsInv'
<1> DEFINE i == call[c]
           j == [i EXCEPT !.step = IF i.operation = "start" THEN "perform" ELSE "scope", !.saw = config]
           effective == effectivePermission(i.def.permissions[i.surface], i.surface)
<1>1. /\ i.step = "authorize"
      /\ \/ Goto(c, NoCall)
         \/ /\ enforceAuthority(i.def, effective, i.surface, env) /\ i.operation # "status"
            /\ Goto(c, j)
      /\ UNCHANGED <<activePack, config, record, ownerEdits, proven>>
  BY DEF Authorize, End
<1>2. CallSound(i, record, proven) /\ config \in LocalConfigs
  BY DEF ActionsInv
<1>3. RecordsOK' /\ HumanProof' /\ RunsStay /\ proven \subseteq proven'
  BY <1>1, RecordsRest
<1>4. CASE Goto(c, NoCall)
  <2>1. CallSound(NoCall, record', proven')
    BY DEF CallSound
  <2>2. DOMAIN call' = Callers /\ \A d \in Callers : CallSound(call'[d], record', proven')
    BY <1>3, <1>4, <2>1, OneCallMoves
  <2> QED
    BY <1>1, <1>3, <2>2 DEF ActionsInv
<1>5. CASE /\ enforceAuthority(i.def, effective, i.surface, env) /\ i.operation # "status"
           /\ Goto(c, j)
  <2>1. /\ i \in ActionCall /\ i.operation = i.def.operation
        /\ i.kind = "human" => <<i.run, i.gate>> \in proven
        /\ i.operation = "start" \/ i.run \in RecordIds
    BY <1>1, <1>2, <1>5 DEF CallSound, NoCall, ApproveCall, ActionCall
  <2>2. Allowed(i.def, i.surface, config)
    BY <1>5, <2>1, AuthorityAllows
  <2> HIDE DEF i
  <2>3. /\ j \in ActionCall /\ j.def = i.def /\ j.surface = i.surface /\ j.saw = config
        /\ j.operation = i.operation /\ j.run = i.run /\ j.gate = i.gate /\ j.kind = i.kind
        /\ j.step = (IF i.operation = "start" THEN "perform" ELSE "scope")
    BY <1>2, <2>1 DEF ActionCall, CallSteps
  <2> HIDE DEF j
  <2>4. CallSound(j, record', proven')
    BY <1>1, <1>5, <2>1, <2>2, <2>3 DEF CallSound
  <2>5. DOMAIN call' = Callers /\ \A d \in Callers : CallSound(call'[d], record', proven')
    BY <1>3, <1>5, <2>4, OneCallMoves
  <2> QED
    BY <1>1, <1>3, <2>5 DEF ActionsInv
<1> QED
  BY <1>1, <1>4, <1>5

LEMMA ScopeKeeps ==
    ASSUME ActionsInv, NEW c \in Callers, Scope(c)
    PROVE  ActionsInv'
<1> DEFINE i == call[c]
           j == IF i.operation = "gate" THEN dispatchGate(i) ELSE [i EXCEPT !.step = "perform"]
<1>1. /\ i.step = "scope"
      /\ Goto(c, NoCall) \/ (scopedRunId(i) /\ Goto(c, j))
      /\ UNCHANGED <<activePack, config, record, ownerEdits, proven>>
  BY DEF Scope, End
<1>2. CallSound(i, record, proven)
  BY DEF ActionsInv
<1>3. RecordsOK' /\ HumanProof' /\ RunsStay /\ proven \subseteq proven'
  BY <1>1, RecordsRest
<1>4. CASE Goto(c, NoCall)
  <2>1. CallSound(NoCall, record', proven')
    BY DEF CallSound
  <2>2. DOMAIN call' = Callers /\ \A d \in Callers : CallSound(call'[d], record', proven')
    BY <1>3, <1>4, <2>1, OneCallMoves
  <2> QED
    BY <1>1, <1>3, <2>2 DEF ActionsInv
<1>5. CASE scopedRunId(i) /\ Goto(c, j)
  <2>1. /\ i \in ActionCall /\ i.operation = i.def.operation /\ i.operation \notin {"start", "status"}
        /\ i.kind = "human" => <<i.run, i.gate>> \in proven
        /\ i.run \in RecordIds /\ Allowed(i.def, i.surface, i.saw)
    BY <1>1, <1>2 DEF CallSound, NoCall, ApproveCall, ActionCall
  <2>2. record[i.run] # Unset /\ record[i.run].workflow = i.workflow
    BY <1>5 DEF scopedRunId, readable
  <2>3. j \in {[i EXCEPT !.step = "confirm"], [i EXCEPT !.step = "perform", !.kind = "agent"],
               [i EXCEPT !.step = "perform"]}
    BY DEF dispatchGate
  <2> HIDE DEF i, j
  <2>4. /\ j \in ActionCall /\ j.def = i.def /\ j.surface = i.surface /\ j.saw = i.saw
        /\ j.operation = i.operation /\ j.run = i.run /\ j.gate = i.gate /\ j.workflow = i.workflow
        /\ j.kind = i.kind \/ j.kind = "agent"
    BY <2>1, <2>3 DEF ActionCall, CallSteps
  <2>5. CallSound(j, record', proven')
    BY <1>1, <2>1, <2>2, <2>4 DEF CallSound
  <2>6. DOMAIN call' = Callers /\ \A d \in Callers : CallSound(call'[d], record', proven')
    BY <1>3, <1>5, <2>5, OneCallMoves
  <2> QED
    BY <1>1, <1>3, <2>6 DEF ActionsInv
<1> QED
  BY <1>1, <1>4, <1>5

LEMMA ConfirmKeeps ==
    ASSUME ActionsInv, NEW c \in Callers, NEW tty \in BOOLEAN, NEW answer, Confirm(c, tty, answer)
    PROVE  ActionsInv'
<1> DEFINE i == call[c]
           j == [i EXCEPT !.step = "perform", !.kind = "human"]
<1>1. /\ i.step = "confirm"
      /\ Goto(c, NoCall) \/ (<<i.run, i.gate>> \in proven' /\ Goto(c, j))
      /\ proven \subseteq proven'
      /\ UNCHANGED <<activePack, config, record, ownerEdits>>
  BY DEF Confirm, confirmed, End
<1>2. CallSound(i, record, proven)
  BY DEF ActionsInv
<1>3. RecordsOK' /\ HumanProof' /\ RunsStay
  BY <1>1, RecordsRest
<1>4. CASE Goto(c, NoCall)
  <2>1. CallSound(NoCall, record', proven')
    BY DEF CallSound
  <2>2. DOMAIN call' = Callers /\ \A d \in Callers : CallSound(call'[d], record', proven')
    BY <1>1, <1>3, <1>4, <2>1, OneCallMoves
  <2> QED
    BY <1>1, <1>3, <2>2 DEF ActionsInv
<1>5. CASE <<i.run, i.gate>> \in proven' /\ Goto(c, j)
  <2>1. i # NoCall /\ i \in ActionCall \cup ApproveCall
    BY <1>1, <1>2 DEF CallSound, NoCall
  <2>2. \/ i \in ApproveCall /\ j \in ApproveCall
        \/ i \in ActionCall /\ j \in ActionCall
    BY <2>1 DEF ActionCall, ApproveCall, CallSteps
  <2>3. /\ j.step = "perform" /\ j.kind = "human" /\ j.via = i.via
        /\ j.operation = i.operation /\ j.run = i.run /\ j.gate = i.gate /\ j.workflow = i.workflow
    BY <2>1 DEF ActionCall, ApproveCall
  <2>4. i \in ActionCall => j.def = i.def /\ j.surface = i.surface /\ j.saw = i.saw
    BY DEF ActionCall
  <2>5. i.via = "action" => i \in ActionCall
    BY <2>1 DEF ApproveCall
  <2> HIDE DEF i, j
  <2>6. CallSound(j, record', proven')
    BY <1>1, <1>2, <1>5, <2>1, <2>2, <2>3, <2>4, <2>5 DEF CallSound
  <2>7. DOMAIN call' = Callers /\ \A d \in Callers : CallSound(call'[d], record', proven')
    BY <1>1, <1>3, <1>5, <2>6, OneCallMoves
  <2> QED
    BY <1>1, <1>3, <2>7 DEF ActionsInv
<1> QED
  BY <1>1, <1>4, <1>5

\* What a call that performs may carry.
LEMMA Performing ==
    ASSUME ActionsInv, NEW c \in Callers, call[c].step = "perform"
    PROVE  /\ call[c].who \in Identities
           /\ call[c].operation = "start" => call[c].workflow \in WorkflowIds
           /\ call[c].operation # "start" => call[c].operation \in RunOperations
           /\ call[c].kind = "human" => <<call[c].run, call[c].gate>> \in proven
<1> PICK i : i = call[c]
  OBVIOUS
<1>1. CallSound(i, record, proven) /\ i # NoCall /\ i.step = "perform"
  BY DEF ActionsInv, NoCall
<1>2. CASE i \in ActionCall
  BY <1>1, <1>2 DEF CallSound, ActionCall, Operations, RunOperations
<1>3. CASE i \in ApproveCall
  BY <1>1, <1>3 DEF CallSound, ApproveCall, RunOperations
<1> QED
  BY <1>1, <1>2, <1>3 DEF CallSound

LEMMA PerformKeeps ==
    ASSUME ActionsInv, NEW c \in Callers, Perform(c)
    PROVE  ActionsInv'
<1> DEFINE i == call[c]
<1>1. /\ i.step = "perform"
      /\ IF i.operation = "start" THEN Started(i) ELSE Locked(i)
      /\ Goto(c, NoCall)
      /\ UNCHANGED <<activePack, config, ownerEdits, proven>>
  BY DEF Perform, End
<1>2. proven \subseteq proven'
  BY <1>1
<1>3. /\ i.who \in Identities
      /\ i.operation = "start" => i.workflow \in WorkflowIds
      /\ i.operation # "start" => i.operation \in RunOperations
      /\ i.kind = "human" => <<i.run, i.gate>> \in proven
  BY <1>1, Performing
<1> HIDE DEF i
<1>4. RecordsOK' /\ HumanProof' /\ RunsStay
  <2>1. CASE i.operation = "start"
    BY <1>1, <1>2, <1>3, <2>1, StartedKeeps
  <2>2. CASE i.operation # "start"
    BY <1>1, <1>2, <1>3, <2>2, LockedKeeps
  <2> QED
    BY <2>1, <2>2
<1>5. CallSound(NoCall, record', proven')
  BY DEF CallSound
<1>6. DOMAIN call' = Callers /\ \A d \in Callers : CallSound(call'[d], record', proven')
  BY <1>1, <1>2, <1>4, <1>5, OneCallMoves
<1> QED
  BY <1>1, <1>4, <1>6 DEF ActionsInv

\* The direct commands.
LEMMA DirectlyKeeps ==
    ASSUME ActionsInv, NEW who \in Identities, Directly(who)
    PROVE  ActionsInv' /\ UNCHANGED call
<1>1. ASSUME NEW i, Started(i), i.workflow \in WorkflowIds, i.who \in Identities,
             UNCHANGED <<activePack, config, call, ownerEdits, proven>>
      PROVE  ActionsInv'
  <2>1. proven \subseteq proven'
    BY <1>1
  <2>2. RecordsOK' /\ HumanProof' /\ RunsStay
    BY <1>1, <2>1, StartedKeeps
  <2>3. DOMAIN call' = Callers /\ \A d \in Callers : CallSound(call'[d], record', proven')
    BY <1>1, <2>1, <2>2, CallsRest
  <2> QED
    BY <1>1, <2>2, <2>3 DEF ActionsInv
<1>2. ASSUME NEW i, Locked(i), i.operation \in RunOperations, i.operation # "gate" \/ i.kind # "human",
             UNCHANGED <<activePack, config, call, ownerEdits, proven>>
      PROVE  ActionsInv'
  <2>1. proven \subseteq proven'
    BY <1>2
  <2>2. RecordsOK' /\ HumanProof' /\ RunsStay
    BY <1>2, <2>1, LockedKeeps
  <2>3. DOMAIN call' = Callers /\ \A d \in Callers : CallSound(call'[d], record', proven')
    BY <1>2, <2>1, <2>2, CallsRest
  <2> QED
    BY <1>2, <2>2, <2>3 DEF ActionsInv
<1>3. ASSUME NEW w \in WorkflowIds, StartCommand(who, w)
      PROVE  ActionsInv' /\ UNCHANGED call
  <2> DEFINE i == Direct(who, "start", w, Unset)
  <2>1. /\ Started(i) /\ UNCHANGED <<activePack, config, call, ownerEdits, proven>>
    BY <1>3 DEF StartCommand
  <2>2. i.workflow = w /\ i.who = who
    BY DEF Direct
  <2> HIDE DEF i
  <2> QED
    BY <1>1, <2>1, <2>2
<1>4. ASSUME NEW op \in Operations \ {"status", "start", "gate"}, NEW r \in RecordIds, Command(who, op, r)
      PROVE  ActionsInv' /\ UNCHANGED call
  <2> DEFINE i == Direct(who, op, Unset, r)
  <2>1. /\ Locked(i) /\ UNCHANGED <<activePack, config, call, ownerEdits, proven>>
    BY <1>4 DEF Command
  <2>2. i.operation \in RunOperations /\ i.operation # "gate"
    BY DEF Direct, Operations, RunOperations
  <2> HIDE DEF i
  <2> QED
    BY <1>2, <2>1, <2>2
<1>5. ASSUME NEW r \in RecordIds, NEW id \in GateNames, NEW kind \in {"agent", "system"},
             SdkApprove(who, r, id, kind)
      PROVE  ActionsInv' /\ UNCHANGED call
  <2> DEFINE i == [Direct(who, "gate", Unset, r) EXCEPT !.gate = id, !.kind = kind]
  <2>1. /\ Locked(i) /\ UNCHANGED <<activePack, config, call, ownerEdits, proven>>
    BY <1>5 DEF SdkApprove
  <2>2. i.operation = "gate" /\ i.kind # "human"
    BY DEF Direct
  <2> HIDE DEF i
  <2> QED
    BY <1>2, <2>1, <2>2 DEF RunOperations
<1> QED
  BY <1>3, <1>4, <1>5 DEF Directly

LEMMA ApproveCommandKeeps ==
    ASSUME ActionsInv, NEW c \in Callers, NEW who \in Identities, NEW r \in RecordIds,
           NEW id \in GateNames, NEW kind \in {"agent", "system"}, ApproveCommand(c, who, r, id, kind)
    PROVE  ActionsInv'
<1> DEFINE i == [Direct(who, "gate", Unset, r) EXCEPT !.gate = id, !.kind = kind]
           j == IF resolvesTo(r, id) = "human" THEN [i EXCEPT !.step = "confirm"] ELSE i
<1>1. Goto(c, j) /\ UNCHANGED <<activePack, config, record, ownerEdits, proven>>
  BY DEF ApproveCommand
<1>2. i = [step |-> "perform", via |-> "direct", surface |-> "cli", who |-> who, operation |-> "gate",
           workflow |-> Unset, run |-> r, gate |-> id, kind |-> kind, saw |-> Unset]
  <2>1. Direct(who, "gate", Unset, r) =
            [step |-> "perform", via |-> "direct", surface |-> "cli", who |-> who, operation |-> "gate",
             workflow |-> Unset, run |-> r, gate |-> Unset, kind |-> "agent", saw |-> Unset]
    BY DEF Direct
  <2> DEFINE k == [Direct(who, "gate", Unset, r) EXCEPT !.gate = id]
  <2>2. k = [step |-> "perform", via |-> "direct", surface |-> "cli", who |-> who, operation |-> "gate",
             workflow |-> Unset, run |-> r, gate |-> id, kind |-> "agent", saw |-> Unset]
    BY <2>1
  <2>3. i = [k EXCEPT !.kind = kind]
    BY <2>1
  <2> HIDE DEF k, i
  <2> QED
    BY <2>2, <2>3
<1> HIDE DEF i
<1>3. /\ i \in ApproveCall /\ [i EXCEPT !.step = "confirm"] \in ApproveCall
      /\ i.kind # "human" /\ [i EXCEPT !.step = "confirm"].kind # "human"
  BY <1>2 DEF ApproveCall
<1>4. j \in ApproveCall /\ j.kind # "human"
  BY <1>3
<1> HIDE DEF j
<1>5. CallSound(j, record', proven')
  BY <1>4 DEF CallSound, ApproveCall
<1>6. RecordsOK' /\ HumanProof' /\ RunsStay /\ proven \subseteq proven'
  BY <1>1, RecordsRest
<1>7. DOMAIN call' = Callers /\ \A d \in Callers : CallSound(call'[d], record', proven')
  BY <1>1, <1>5, <1>6, OneCallMoves
<1> QED
  BY <1>1, <1>6, <1>7 DEF ActionsInv

\* The owner edits the profile or the grant, or a record is damaged.
LEMMA OwnerKeeps ==
    ASSUME ActionsInv, EditPack \/ EditConfig \/ \E r \in RecordIds : DamageRecord(r)
    PROVE  ActionsInv' /\ UNCHANGED call
<1>1. CASE EditPack \/ EditConfig
  <2>1. activePack' \in Packs /\ config' \in LocalConfigs /\ UNCHANGED <<record, call, proven>>
    BY <1>1 DEF EditPack, EditConfig, ActionsInv
  <2>2. RecordsOK' /\ HumanProof' /\ RunsStay /\ proven \subseteq proven'
    BY <2>1, RecordsRest
  <2>3. DOMAIN call' = Callers /\ \A d \in Callers : CallSound(call'[d], record', proven')
    BY <2>1, <2>2, CallsRest
  <2> QED
    BY <2>1, <2>2, <2>3 DEF ActionsInv
<1>2. ASSUME NEW r \in RecordIds, DamageRecord(r)
      PROVE  ActionsInv' /\ UNCHANGED call
  <2>1. /\ record[r] # Unset /\ record' = [record EXCEPT ![r].readable = FALSE]
        /\ UNCHANGED <<activePack, config, call, proven>>
    BY <1>2 DEF DamageRecord, readable
  <2>2. record \in [RecordIds -> RunRecord \cup {Unset}] /\ record[r] \in RunRecord /\ StageFits(record[r])
    BY <2>1 DEF ActionsInv, RecordsOK
  <2>3. /\ record' = [record EXCEPT ![r] = [record[r] EXCEPT !.readable = FALSE]]
    BY <2>1
  <2>4. /\ record'[r] \in RunRecord /\ StageFits(record'[r]) /\ record'[r].gates = record[r].gates
        /\ record'[r].workflow = record[r].workflow
    <3> DEFINE x == record[r]
    <3>1. record'[r] = [x EXCEPT !.readable = FALSE] /\ x \in RunRecord /\ StageFits(x)
      BY <2>2, <2>3
    <3> HIDE DEF x
    <3>2. [x EXCEPT !.readable = FALSE] \in RunRecord
      BY <3>1 DEF RunRecord
    <3> QED
      BY <3>1, <3>2 DEF RunRecord, StageFits, x
  <2>5. record' \in [RecordIds -> RunRecord \cup {Unset}] /\ \A q \in RecordIds \ {r} : record'[q] = record[q]
    BY <2>2, <2>3, <2>4
  <2>6. RecordsOK'
    BY <2>4, <2>5 DEF ActionsInv, RecordsOK
  <2>7. HumanProof'
    BY <2>1, <2>4, <2>5 DEF ActionsInv, HumanProof
  <2>8. RunsStay /\ proven \subseteq proven'
    BY <2>1, <2>4, <2>5, UnsetAssumption DEF RunsStay
  <2>9. DOMAIN call' = Callers /\ \A d \in Callers : CallSound(call'[d], record', proven')
    BY <2>1, <2>8, CallsRest
  <2> QED
    BY <2>1, <2>6, <2>7, <2>9 DEF ActionsInv
<1> QED
  BY <1>1, <1>2 DEF EditPack, EditConfig

LEMMA ActionsInvStep ==
    ASSUME ActionsInv, [ActionsNext]_actionsVars
    PROVE  ActionsInv'
<1>1. ASSUME NEW c \in Callers, NEW who \in Identities, Invoking(c, who) PROVE ActionsInv'
  BY <1>1, InvokeKeeps, ApproveCommandKeeps DEF Invoking
<1>2. ASSUME NEW c \in Callers, NEW env \in SUBSET HumanGates, Authorize(c, env) PROVE ActionsInv'
  BY <1>2, AuthorizeKeeps
<1>3. ASSUME NEW c \in Callers, Scope(c) \/ Perform(c) PROVE ActionsInv'
  BY <1>3, ScopeKeeps, PerformKeeps
<1>4. ASSUME NEW c \in Callers, NEW tty \in BOOLEAN, NEW answer \in {"token", "other"}, Confirm(c, tty, answer)
      PROVE  ActionsInv'
  BY <1>4, ConfirmKeeps
<1>5. ASSUME NEW who \in Identities, Directly(who) PROVE ActionsInv'
  BY <1>5, DirectlyKeeps
<1>6. CASE EditPack \/ EditConfig \/ \E r \in RecordIds : DamageRecord(r)
  BY <1>6, OwnerKeeps
<1>7. CASE UNCHANGED actionsVars
  <2>1. UNCHANGED <<activePack, config, record, call, proven>>
    BY <1>7 DEF actionsVars
  <2>2. RecordsOK' /\ HumanProof' /\ RunsStay /\ proven \subseteq proven'
    BY <2>1, RecordsRest
  <2>3. DOMAIN call' = Callers /\ \A d \in Callers : CallSound(call'[d], record', proven')
    BY <2>1, <2>2, CallsRest
  <2> QED
    BY <2>1, <2>2, <2>3 DEF ActionsInv
<1> QED
  BY <1>1, <1>2, <1>3, <1>4, <1>5, <1>6, <1>7 DEF ActionsNext

LEMMA ActionsInvInit == ActionsInit => ActionsInv
<1> SUFFICES ASSUME ActionsInit PROVE ActionsInv
  OBVIOUS
<1>1. /\ activePack \in Packs /\ config \in LocalConfigs
      /\ record = [r \in RecordIds |-> Unset] /\ call = [c \in Callers |-> NoCall]
  BY DEF ActionsInit
<1> QED
  BY <1>1 DEF ActionsInv, RecordsOK, HumanProof, CallSound

-----------------------------------------------------------------------------
(* What status says.                                                       *)

LEMMA StatusIsScoped ==
    ASSUME RecordsOK
    PROVE  StatusScoped
<1> SUFFICES ASSUME NEW w \in WorkflowIds
             PROVE  /\ {row.id : row \in workflowStatusForWorkflow(w)} \ {Unset} =
                          {r \in RecordIds : readable(r) /\ record[r].workflow = w}
                    /\ (\E r \in RecordIds : record[r] # Unset /\ ~readable(r)) =>
                          \E row \in workflowStatusForWorkflow(w) : row.problem
  BY DEF StatusScoped
<1> DEFINE rows == workflowStatusForWorkflow(w)
           unread == {row \in {redactedUnreadableRow} : \E q \in workflowStatus : ~q.store /\ q.workflow = Unset}
<1>1. rows = {row \in workflowStatus : row.store \/ row.workflow = w} \cup unread
  BY DEF workflowStatusForWorkflow
<1>2. \A r \in RecordIds :
         /\ statusForRun(r).id = r /\ statusForRun(r).store = FALSE
         /\ readable(r) => statusForRun(r).workflow = record[r].workflow
         /\ ~readable(r) => statusForRun(r).workflow = Unset
  BY DEF statusForRun
<1>3. \A row : row \in workflowStatus <=> \E r \in RecordIds : record[r] # Unset /\ row = statusForRun(r)
  BY DEF workflowStatus, listRuns
<1>4. \A r \in RecordIds : readable(r) => record[r] # Unset
  BY DEF readable
<1>5. Unset # w /\ Unset \notin RecordIds
  BY UnsetAssumption
<1>6. \A row \in unread : row.id = Unset /\ row.problem
  BY DEF redactedUnreadableRow
<1> HIDE DEF rows, unread
<1>7. ASSUME NEW row \in rows, row.id # Unset
      PROVE  row.id \in RecordIds /\ readable(row.id) /\ record[row.id].workflow = w
  BY <1>1, <1>2, <1>3, <1>5, <1>6, <1>7
<1>8. ASSUME NEW r \in RecordIds, readable(r), record[r].workflow = w
      PROVE  statusForRun(r) \in rows /\ statusForRun(r).id = r /\ r # Unset
  BY <1>1, <1>2, <1>3, <1>4, <1>5, <1>8
<1>9. {row.id : row \in rows} \ {Unset} = {r \in RecordIds : readable(r) /\ record[r].workflow = w}
  BY <1>7, <1>8
<1>10. ASSUME NEW r \in RecordIds, record[r] # Unset, ~readable(r)
       PROVE  redactedUnreadableRow \in rows
  BY <1>1, <1>2, <1>3, <1>10 DEF unread
<1>11. redactedUnreadableRow.problem
  BY DEF redactedUnreadableRow
<1> QED
  BY <1>9, <1>10, <1>11 DEF rows

\* A current run that is parked: the printed command names what its stage still lacks.
LEMMA HintsMove ==
    ASSUME activePack \in Packs, RecordsOK
    PROVE  HintMoves
<1> SUFFICES ASSUME NEW r \in listRuns, readable(r), classified(record[r]) = "current", record[r].parked,
                    ~(gateSatisfied(record[r]) /\ outputRecorded(record[r])),
                    stageOf(record[r]).gate \notin record[r].gates,
                    ~(/\ stageOf(record[r]).gate \in GateValues /\ stageOf(record[r]).gate[1] = "trust"
                      /\ record[r].stage \in record[r].outputs)
             PROVE  LET hint == nextHintOf(statusForRun(r)) IN
                    /\ hint # "none"
                    /\ \E y \in Results([operation |-> IF hint = "approve" THEN "gate" ELSE "submit",
                                         gate |-> IF hint = "approve" THEN stageOf(record[r]).gate[2] ELSE Unset,
                                         kind |-> "human"], record[r]) : y # record[r]
  BY DEF HintMoves
<1> PICK x : x = record[r]
  OBVIOUS
<1>1. x \in RunRecord /\ r \in RecordIds
  BY DEF RecordsOK, listRuns
<1>2. active(x) /\ hasStage(x)
  BY DEF classified
<1> PICK g : g = stageOf(x).gate
  OBVIOUS
<1>3. /\ g \in {Unset} \cup GateValues
      /\ g \in GateValues /\ g[1] = "trust" => stageOf(x).writes
  BY <1>1, <1>2, CurrentStage DEF StageDef
<1>4. statusForRun(r).hints = [gate |-> g, output |-> x.parked /\ stageOf(x).writes /\ x.stage \notin x.outputs]
  BY DEF statusForRun, parkHints
<1> DEFINE row == statusForRun(r)
<1>5. /\ row.hints.gate = g
      /\ stageOf(x).writes /\ x.stage \notin x.outputs => row.hints.output
  <2>1. row.hints.output = (x.parked /\ stageOf(x).writes /\ x.stage \notin x.outputs)
    BY <1>4
  <2>2. x.parked
    OBVIOUS
  <2>3. row.hints.gate = g
    BY <1>4
  <2> HIDE DEF row
  <2>4. ASSUME stageOf(x).writes, x.stage \notin x.outputs PROVE row.hints.output
    BY <2>1, <2>2, <2>4
  <2> QED
    BY <2>3, <2>4
<1> HIDE DEF row
<1>6. CASE g \in GateValues /\ g[1] # "trust"
  <2>1. g # Unset
    BY <1>6, UnsetAssumption
  <2>2. nextHintOf(row) = "approve"
    BY <1>5, <1>6, <2>1 DEF nextHintOf
  <2> DEFINE i == [operation |-> "gate", gate |-> g[2], kind |-> "human"]
  <2>3. vouches(g, i.gate, i.kind)
    BY <1>6, <2>1 DEF vouches
  <2>4. approveRecord(x) \in Results(i, x)
    BY <1>2, <2>3 DEF Results
  <2>5. approveRecord(x) # x
    <3>1. approveRecord(x).gates = x.gates \cup {g}
      BY <1>1 DEF approveRecord, RunRecord
    <3> QED
      BY <3>1
  <2> QED
    BY <2>2, <2>4, <2>5 DEF row
<1>7. CASE ~(g \in GateValues /\ g[1] # "trust")
  <2>1. stageOf(x).writes /\ x.stage \notin x.outputs
    BY <1>3, <1>7 DEF gateSatisfied, outputRecorded
  <2>2. nextHintOf(row) = "submit"
    BY <1>3, <1>5, <1>7, <2>1 DEF nextHintOf
  <2> DEFINE i == [operation |-> "submit", gate |-> Unset, kind |-> "human"]
  <2>3. recordOutput(x) \in Results(i, x)
    BY <1>2, <2>1 DEF Results
  <2>4. recordOutput(x) # x
    <3>1. recordOutput(x).outputs = x.outputs \cup {x.stage}
      BY <1>1 DEF recordOutput, RunRecord
    <3> QED
      BY <2>1, <3>1
  <2> QED
    BY <2>2, <2>3, <2>4 DEF row
<1> QED
  BY <1>6, <1>7

LEMMA ActionsTyped == ActionsInv => ActionsTypeOK
<1> SUFFICES ASSUME ActionsInv PROVE ActionsTypeOK
  OBVIOUS
<1>1. ASSUME NEW c \in Callers
      PROVE  call[c].step \in {"idle", "authorize", "scope", "confirm", "perform"}
  <2> PICK i : i = call[c]
    OBVIOUS
  <2>1. i = NoCall \/ i \in ActionCall \/ i \in ApproveCall
    BY DEF ActionsInv, CallSound
  <2>2. i.step \in {"idle", "authorize", "scope", "confirm", "perform"}
    BY <2>1 DEF NoCall, ActionCall, ApproveCall, CallSteps
  <2> QED
    BY <2>2
<1> QED
  BY <1>1 DEF ActionsInv, RecordsOK, StageFits, ActionsTypeOK

\* Whatever callers, owner and disk do between a caller's reads and its write, a human
\* gate is satisfied only by a confirmation at a terminal for that run, status names
\* exactly the runs of the workflow it was asked for, and the command it prints for a
\* parked run can move it (run-action.ts, gate.ts, status.ts, workflow-shared.ts), for
\* any profiles, grants, callers and runs.
THEOREM ActionsAreSound == ActionsSpec => []ActionsSound
<1>1. ActionsInit => ActionsInv
  BY ActionsInvInit
<1>2. ActionsInv /\ [ActionsNext]_actionsVars => ActionsInv'
  BY ActionsInvStep
<1>3. ActionsInv => ActionsSound
  <2> SUFFICES ASSUME ActionsInv PROVE ActionsSound
    OBVIOUS
  <2>1. HumanProof /\ RecordsOK /\ activePack \in Packs
    BY DEF ActionsInv
  <2> QED
    BY <2>1, ActionsTyped, StatusIsScoped, HintsMove DEF ActionsSound
<1> QED
  BY <1>1, <1>2, <1>3, PTL DEF ActionsSpec

\* A declared action changes a run only where profile, grant and surface each let it,
\* only a run of its own workflow and of its owner, though all of that was read before
\* the lock (run-action.ts, with-lock.ts), for any profiles, grants, callers and runs.
THEOREM CallsKeepToTheirAuthority == ActionsSpec => CallsAuthorized
<1>1. ActionsInit => ActionsInv
  BY ActionsInvInit
<1>2. ASSUME ActionsInv, [ActionsNext]_actionsVars
      PROVE  ActionsInv' /\ [Authorized /\ InScope]_actionsVars
  <2>1. Authorized
    <3> SUFFICES ASSUME NEW c \in Callers, call[c].step = "perform", call[c].via = "action"
                 PROVE  /\ call[c].def.permissions[call[c].surface] \in WriteCapabilities
                        /\ call[c].saw.status # "unavailable"
                        /\ call[c].saw.status = "ok" =>
                              call[c].saw.grants[call[c].surface] \in WriteCapabilities \cup {Unset}
      BY DEF Authorized, WriteCapabilities
    <3>1. CallSound(call[c], record, proven) /\ call[c] # NoCall
      BY <1>2 DEF ActionsInv, NoCall
    <3>2. Allowed(call[c].def, call[c].surface, call[c].saw)
      BY <3>1 DEF CallSound
    <3> QED
      BY <3>2 DEF Allowed
  <2>2. ASSUME NEW c \in Callers, NEW r \in RecordIds, call[c].step = "perform", call'[c] = NoCall,
               record[r] # Unset, record'[r] # record[r]
        PROVE  /\ call[c].via = "action" => record[r].workflow = call[c].workflow
               /\ record[r].owner \in {Unset, call[c].who}
    <3> PICK i : i = call[c]
      OBVIOUS
    <3>1. CallSound(i, record, proven) /\ i # NoCall /\ i.step = "perform"
      BY <1>2, <2>2 DEF ActionsInv, NoCall
    <3>2. record \in [RecordIds -> RunRecord \cup {Unset}]
      BY <1>2 DEF ActionsInv, RecordsOK
    <3>3. ASSUME NEW d \in Callers, d # c PROVE ~Perform(d)
      <4>1. ASSUME Perform(d) PROVE call'[c] = call[c]
        BY <1>2, <3>3, <4>1 DEF Perform, End, Goto, ActionsInv
      <4> QED
        BY <2>2, <3>1, <4>1
    <3>4. Perform(c)
      <4>1. \A who \in Identities : ~Directly(who)
        BY <1>2, <2>2, <3>1, DirectlyKeeps
      <4>2. ~(EditPack \/ EditConfig \/ \E q \in RecordIds : DamageRecord(q))
        BY <1>2, <2>2, <3>1, OwnerKeeps
      <4>3. \A d, who : ~Invoking(d, who)
        BY <2>2 DEF Invoking, Invoke, ApproveCommand
      <4>4. \A d, env, tty, answer : ~Authorize(d, env) /\ ~Scope(d) /\ ~Confirm(d, tty, answer)
        BY <2>2 DEF Authorize, Scope, Confirm
      <4>5. ~UNCHANGED actionsVars
        BY <2>2 DEF actionsVars
      <4> QED
        BY <1>2, <3>3, <4>1, <4>2, <4>3, <4>4, <4>5 DEF ActionsNext
    <3>5. CASE i.operation = "start"
      <4>1. i.who \in Identities /\ i.workflow \in WorkflowIds /\ activePack \in Packs
        BY <1>2, <2>2, <3>5, Performing DEF ActionsInv
      <4>2. Started(i)
        BY <3>4, <3>5 DEF Perform
      <4> QED
        BY <2>2, <3>2, <4>1, <4>2, StartedChanges
    <3>6. CASE i.operation # "start"
      <4>1. Locked(i)
        BY <3>4, <3>6 DEF Perform
      <4>2. r = i.run /\ owns(i.who, record[r])
        BY <2>2, <3>2, <4>1, LockedChanges
      <4>3. i.via = "action" => record[r].workflow = i.workflow
        BY <3>1, <3>6, <4>2 DEF CallSound
      <4> QED
        BY <4>2, <4>3 DEF owns
    <3> QED
      BY <3>5, <3>6
  <2>3. InScope
    BY <2>2 DEF InScope
  <2> QED
    BY <1>2, <2>1, <2>3, ActionsInvStep
<1> QED
  BY <1>1, <1>2, PTL DEF ActionsSpec, CallsAuthorized

-----------------------------------------------------------------------------
(* The upkeep of a project: types.                                         *)

Statuses == {"missing", "corrupt", "too-new", "ok"}
StateFile == [status : Statuses, sources : [Names -> {Absent} \cup Entry], frozen : SUBSET Topics]
Ingest == [stage : {"write", "compile"}, then : {"nothing", "compile", "review"}, known : BOOLEAN,
           name : Names, doc : Document]

\* What the wiki, its state and its candidates hold.
WikiTyped ==
    /\ db \in StateFile
    /\ pages \in [Topics -> {Absent} \cup Page]
    /\ \A x \in Topics : pages[x] # Absent => pages[x].from # {}
    /\ pending \in [Topics -> {Absent} \cup Candidate]
    /\ \A x \in Topics : pending[x] # Absent => pending[x] # {}

SourcesTyped ==
    /\ files \in [Names -> {Absent} \cup Document]
    /\ ing \in [Ingesters -> {Absent} \cup Ingest]
    /\ overlapped \in SUBSET Origins /\ pulled \in SUBSET Names

Sayings == {"nothing", "ingest", "compile", "review list", "viewer opened", "lint", "quickstart"}

ReportsTyped ==
    /\ bak \in Statuses /\ lintCache \in LintCache /\ moves \in 0..MaxMoves
    /\ says \in Sayings

\* Only topics with a page have owners.
OwnedLive == \A x \in Topics : OwnersOf(db, x) # {} => pages[x] # Absent

WikiInv == WikiTyped /\ OrphanUnowned /\ OwnedLive

-----------------------------------------------------------------------------
(* Lemmas on the operators of a compile.                                   *)

\* The owners of a concept depend on the recorded sources only.
LEMMA OwnersBySources ==
    ASSUME NEW s, NEW t, s.sources = t.sources, NEW x
    PROVE  OwnersOf(s, x) = OwnersOf(t, x)
BY DEF OwnersOf, Recorded

LEMMA DocumentExtracts ==
    ASSUME NEW d \in Document
    PROVE  ExtractOf(d) \in SUBSET Topics
<1>1. <<d.source, d.version>> \in Origins \X Versions
  BY DEF Document
<1>2. Extract[<<d.source, d.version>>] \in (SUBSET Topics) \ {{}}
  BY <1>1, ProjectAssumption
<1> QED
  BY <1>2 DEF ExtractOf

\* The state a compile starts from.
LEMMA StateRead ==
    ASSUME db \in StateFile
    PROVE  /\ readStateClassified \in StateFile
           /\ db.status \in {"ok", "too-new"} => readStateClassified = db
           /\ db.status \notin {"ok", "too-new"} => \A n \in Names : readStateClassified.sources[n] = Absent
<1>1. NoState \in [status : {"missing"}, sources : [Names -> {Absent}], frozen : {{}}]
  BY DEF NoState
<1>2. CASE db.status \in {"ok", "too-new"}
  BY <1>2 DEF readStateClassified
<1>3. CASE db.status \notin {"ok", "too-new"}
  <2>1. readStateClassified = [NoState EXCEPT !.status = db.status] /\ db.status \in Statuses
    BY <1>3 DEF readStateClassified, StateFile
  <2>2. /\ readStateClassified \in [status : Statuses, sources : [Names -> {Absent}], frozen : {{}}]
    BY <1>1, <2>1
  <2> QED
    BY <1>3, <2>2 DEF StateFile
<1> QED
  BY <1>2, <1>3

\* The state after a compile of the sources F that made the pages `made', where `gone'
\* are the deleted sources it took out.
Compiled(s, F, gone, made) ==
    [n \in Names |-> IF n \in F THEN [hash |-> files[n], concepts |-> ExtractOf(files[n]) \cap made]
                     ELSE IF n \in gone THEN Absent ELSE s.sources[n]]

Made(F, x) == [orphaned |-> FALSE, from |-> {<<n, files[n]>> : n \in Contributors(F, x)}]

\* What a compile of the sources in `filter' that ends as r applied.
Applied(filter, U, r) ==
    LET s == readStateClassified
        gone == Deleted(s) \cap filter
    IN  \E F \in SUBSET OnDisk, made \in SUBSET Topics, marked \in SUBSET Topics, frozen \in SUBSET Topics :
           /\ (Changed(s) \ U) \cap filter \subseteq F
           /\ \A x \in made : Contributors(F, x) # {}
           /\ r.db = [status |-> "ok", sources |-> Compiled(s, F, gone, made), frozen |-> frozen]
           /\ \A x \in marked \ made : OwnersOf(r.db, x) = {}
           /\ r.pages = [x \in Topics |->
                            IF x \in made THEN Made(F, x)
                            ELSE IF pages[x] # Absent /\ x \in marked
                                 THEN [pages[x] EXCEPT !.orphaned = TRUE] ELSE pages[x]]
           /\ r.pending = [x \in Topics |-> IF x \in made THEN Absent ELSE pending[x]]

\* A compile that is applied at once records the sources it compiled with the pages it
\* made, marks pages without an owner, and takes the candidates of the pages it made.
LEMMA CompileApplies ==
    ASSUME db \in StateFile, NEW filter \in SUBSET Names, NEW U
    PROVE  Applied(filter, U, CompileResult(filter, FALSE, U))
<1> DEFINE s == readStateClassified
           direct == ((New(s) \cup Changed(s)) \ U) \cap filter
           gone == Deleted(s) \cap filter
           kept == [n \in Names |-> IF n \in gone THEN Absent ELSE s.sources[n]]
           draft == [s EXCEPT !.sources = kept]
           orphans == {x \in Topics : OwnersOf(s, x) # {} /\ OwnersOf(s, x) \subseteq gone}
           F == direct \cup Affected(draft, direct)
           frozen == s.frozen \cup
                  {x \in Topics : Cardinality(OwnersOf(draft, x)) > 1 /\ OwnersOf(draft, x) \cap (Deleted(s) \cap filter) # {}}
           made == {x \in Topics : Contributors(F, x) # {}} \ frozen
           after == [n \in Names |-> IF n \in F THEN [hash |-> files[n], concepts |-> ExtractOf(files[n]) \cap made]
                                  ELSE kept[n]]
           unowned == {x \in frozen : OwnersOf([s EXCEPT !.sources = after], x) = {}}
           thawed == {x \in frozen : ~ /\ x \notin unowned
                                       /\ OwnersOf([s EXCEPT !.sources = after], x) \subseteq F
                                       /\ Contributors(F, x) # {}}
           r == CompileResult(filter, FALSE, U)
<1>1. /\ r.db = [status |-> "ok", sources |-> after, frozen |-> thawed]
      /\ r.pages = [x \in Topics |->
                           IF x \in made THEN Made(F, x)
                           ELSE IF pages[x] # Absent /\ x \in orphans \cup unowned
                           THEN [pages[x] EXCEPT !.orphaned = TRUE] ELSE pages[x]]
      /\ r.pending = [x \in Topics |-> IF x \in made THEN Absent ELSE pending[x]]
  BY DEF CompileResult, Made
<1>2. direct \in SUBSET OnDisk /\ (Changed(s) \ U) \cap filter \subseteq direct
  BY DEF New, Changed
<1>3. Affected(draft, direct) \in SUBSET OnDisk
  BY DEF Affected
<1>4. s \in StateFile
  BY StateRead
<1>s. [s EXCEPT !.sources = after].sources = after
  BY <1>4 DEF StateFile
<1> HIDE DEF r, s
<1>5. F \in SUBSET OnDisk /\ (Changed(s) \ U) \cap filter \subseteq F
  BY <1>2, <1>3
<1> HIDE DEF direct, draft, F
<1>6. frozen \in SUBSET Topics
  BY <1>4 DEF StateFile
<1> HIDE DEF frozen
<1>7. made \in SUBSET Topics /\ \A x \in made : Contributors(F, x) # {}
  OBVIOUS
<1> HIDE DEF made
<1>8. after = Compiled(s, F, gone, made)
  BY DEF Compiled
<1>9. ASSUME NEW x \in orphans \ made PROVE OwnersOf(r.db, x) = {}
  <2>1. r.db.sources = after
    BY <1>1
  <2>2. ASSUME NEW n \in Names, after[n] # Absent, x \in after[n].concepts PROVE FALSE
    <3>1. CASE n \in F
      BY <1>9, <2>2, <3>1
    <3>2. CASE n \notin F
      <4>1. n \notin gone /\ after[n] = s.sources[n]
        BY <2>2, <3>2
      <4>2. n \in OwnersOf(s, x)
        BY <2>2, <4>1 DEF OwnersOf, Recorded
      <4> QED
        BY <1>9, <4>1, <4>2
    <3> QED
      BY <3>1, <3>2
  <2> HIDE DEF after
  <2> QED
    BY <2>1, <2>2 DEF OwnersOf, Recorded
<1> HIDE DEF after, gone
<1>10. ASSUME NEW x \in unowned PROVE OwnersOf(r.db, x) = {}
  <2>1. r.db.sources = [s EXCEPT !.sources = after].sources
    BY <1>1, <1>s
  <2>2. OwnersOf([s EXCEPT !.sources = after], x) = {}
    BY <1>10
  <2> QED
    BY <2>1, <2>2, OwnersBySources
<1>11. orphans \cup unowned \in SUBSET Topics /\ thawed \in SUBSET Topics
  BY <1>6
<1>12. \A x \in (orphans \cup unowned) \ made : OwnersOf(r.db, x) = {}
  BY <1>9, <1>10
<1> HIDE DEF orphans, unowned, thawed
<1>m. PICK marked : marked = orphans \cup unowned
  OBVIOUS
<1>13. /\ F \in SUBSET OnDisk /\ made \in SUBSET Topics /\ marked \in SUBSET Topics /\ thawed \in SUBSET Topics
       /\ (Changed(s) \ U) \cap filter \subseteq F
       /\ \A x \in made : Contributors(F, x) # {}
       /\ r.db = [status |-> "ok", sources |-> Compiled(s, F, gone, made), frozen |-> thawed]
       /\ \A x \in marked \ made : OwnersOf(r.db, x) = {}
       /\ r.pages = [x \in Topics |->
                        IF x \in made THEN Made(F, x)
                        ELSE IF pages[x] # Absent /\ x \in marked
                             THEN [pages[x] EXCEPT !.orphaned = TRUE] ELSE pages[x]]
       /\ r.pending = [x \in Topics |-> IF x \in made THEN Absent ELSE pending[x]]
  BY <1>1, <1>5, <1>7, <1>8, <1>11, <1>12, <1>m
<1>14. \E G \in SUBSET OnDisk, m \in SUBSET Topics, k \in SUBSET Topics, z \in SUBSET Topics :
       /\ (Changed(s) \ U) \cap filter \subseteq G
       /\ \A x \in m : Contributors(G, x) # {}
       /\ r.db = [status |-> "ok", sources |-> Compiled(s, G, gone, m), frozen |-> z]
       /\ \A x \in k \ m : OwnersOf(r.db, x) = {}
       /\ r.pages = [x \in Topics |->
                        IF x \in m THEN Made(G, x)
                        ELSE IF pages[x] # Absent /\ x \in k
                             THEN [pages[x] EXCEPT !.orphaned = TRUE] ELSE pages[x]]
       /\ r.pending = [x \in Topics |-> IF x \in m THEN Absent ELSE pending[x]]
  BY <1>13
<1> QED
  BY <1>14 DEF r, s, gone, Applied

Drafted(r) ==
    /\ r.db = db /\ r.pages = pages
    /\ \E F \in SUBSET OnDisk, made \in SUBSET Topics :
          /\ \A x \in made : Contributors(F, x) # {}
          /\ r.pending = [x \in Topics |-> IF x \in made THEN Made(F, x).from ELSE pending[x]]

\* A compile for review only leaves candidates of the pages it would make.
LEMMA CompileDrafts ==
    ASSUME NEW filter \in SUBSET Names, NEW U
    PROVE  Drafted(CompileResult(filter, TRUE, U))
<1> DEFINE s == readStateClassified
           direct == ((New(s) \cup Changed(s)) \ U) \cap filter
           gone == {}
           kept == [n \in Names |-> IF n \in gone THEN Absent ELSE s.sources[n]]
           draft == [s EXCEPT !.sources = kept]
           F == direct \cup Affected(draft, direct)
           frozen == s.frozen \cup
                  {x \in Topics : Cardinality(OwnersOf(draft, x)) > 1 /\ OwnersOf(draft, x) \cap (Deleted(s) \cap filter) # {}}
           made == {x \in Topics : Contributors(F, x) # {}} \ frozen
           r == CompileResult(filter, TRUE, U)
<1>1. /\ r.db = db /\ r.pages = pages
      /\ r.pending = [x \in Topics |-> IF x \in made THEN {<<n, files[n]>> : n \in Contributors(F, x)}
                                       ELSE pending[x]]
  BY DEF CompileResult
<1>2. direct \in SUBSET OnDisk
  BY DEF New, Changed
<1>3. Affected(draft, direct) \in SUBSET OnDisk
  BY DEF Affected
<1> HIDE DEF r, s
<1>4. F \in SUBSET OnDisk
  BY <1>2, <1>3
<1> HIDE DEF direct, draft, F, frozen
<1>5. made \in SUBSET Topics /\ \A x \in made : Contributors(F, x) # {}
  OBVIOUS
<1> HIDE DEF made
<1>6. r.pending = [x \in Topics |-> IF x \in made THEN Made(F, x).from ELSE pending[x]]
  BY <1>1 DEF Made
<1>7. \E G \in SUBSET OnDisk, m \in SUBSET Topics :
         /\ \A x \in m : Contributors(G, x) # {}
         /\ r.pending = [x \in Topics |-> IF x \in m THEN Made(G, x).from ELSE pending[x]]
  BY <1>4, <1>5, <1>6
<1> QED
  BY <1>1, <1>7 DEF r, Drafted

\* The documents of a page that was made.
LEMMA MadePage ==
    ASSUME SourcesTyped, NEW F \in SUBSET OnDisk, NEW x, Contributors(F, x) # {}
    PROVE  /\ Made(F, x) \in Page /\ Made(F, x) # Absent /\ ~Made(F, x).orphaned
           /\ Made(F, x).from \in Candidate \ {{}}
<1> DEFINE C == Contributors(F, x)
           from == {<<n, files[n]>> : n \in C}
<1>1. C # {} /\ \A n \in C : n \in Names /\ files[n] \in Document
  BY DEF Contributors, OnDisk, SourcesTyped
<1> HIDE DEF C
<1>2. from \in SUBSET (Names \X Document) /\ from # {}
  <2>1. \A n \in C : <<n, files[n]>> \in Names \X Document /\ <<n, files[n]>> \in from
    BY <1>1
  <2>2. \A e \in from : \E n \in C : e = <<n, files[n]>>
    OBVIOUS
  <2> HIDE DEF from
  <2> QED
    BY <1>1, <2>1, <2>2
<1>3. Made(F, x) = [orphaned |-> FALSE, from |-> from]
  BY DEF Made, C
<1> HIDE DEF from
<1>4. Made(F, x) \in Page
  BY <1>2, <1>3 DEF Page
<1>5. Made(F, x) # Absent
  BY <1>4, AbsentAssumption
<1> QED
  BY <1>2, <1>3, <1>4, <1>5 DEF Candidate

\* What a compile that is applied leaves behind is sound again.
LEMMA AppliedKeeps ==
    ASSUME WikiInv, SourcesTyped, db.status # "too-new", NEW filter \in SUBSET Names, NEW U,
           NEW r, Applied(filter, U, r), db' = r.db, pages' = r.pages, pending' = r.pending
    PROVE  WikiInv'
<1> DEFINE s == readStateClassified
           gone == Deleted(s) \cap filter
<1>1. db \in StateFile /\ s \in StateFile
  BY StateRead DEF WikiInv, WikiTyped
<1>2. PICK F \in SUBSET OnDisk, made \in SUBSET Topics, marked \in SUBSET Topics, frozen \in SUBSET Topics :
                  /\ (Changed(s) \ U) \cap filter \subseteq F
                  /\ \A x \in made : Contributors(F, x) # {}
                  /\ r.db = [status |-> "ok", sources |-> Compiled(s, F, gone, made), frozen |-> frozen]
                  /\ \A x \in marked \ made : OwnersOf(r.db, x) = {}
                  /\ r.pages = [x \in Topics |->
                                   IF x \in made THEN Made(F, x)
                                   ELSE IF pages[x] # Absent /\ x \in marked
                                        THEN [pages[x] EXCEPT !.orphaned = TRUE] ELSE pages[x]]
                  /\ r.pending = [x \in Topics |-> IF x \in made THEN Absent ELSE pending[x]]
  BY DEF Applied
<1>3. db' = r.db /\ pages' = r.pages /\ pending' = r.pending
  OBVIOUS
<1> HIDE DEF s, gone
<1>4. \A x \in made : Made(F, x) \in Page /\ Made(F, x) # Absent /\ ~Made(F, x).orphaned /\ Made(F, x).from # {}
  BY <1>2, MadePage
<1>5. ASSUME NEW x \in Topics, pages[x] # Absent
      PROVE  /\ pages[x] \in Page /\ pages[x].from # {}
             /\ [pages[x] EXCEPT !.orphaned = TRUE] \in Page
             /\ [pages[x] EXCEPT !.orphaned = TRUE] # Absent
             /\ [pages[x] EXCEPT !.orphaned = TRUE].from = pages[x].from
  <2>1. pages[x] \in Page /\ pages[x].from # {}
    BY <1>5 DEF WikiInv, WikiTyped
  <2>2. /\ [pages[x] EXCEPT !.orphaned = TRUE] \in Page
        /\ [pages[x] EXCEPT !.orphaned = TRUE].from = pages[x].from
    BY <2>1 DEF Page
  <2> QED
    BY <2>1, <2>2, AbsentAssumption
<1>6. Compiled(s, F, gone, made) \in [Names -> {Absent} \cup Entry]
  <2>1. ASSUME NEW n \in F PROVE [hash |-> files[n], concepts |-> ExtractOf(files[n]) \cap made] \in Entry
    <3>1. files[n] \in Document
      BY DEF SourcesTyped, OnDisk
    <3> QED
      BY <3>1 DEF Entry
  <2>2. s.sources \in [Names -> {Absent} \cup Entry]
    BY <1>1 DEF StateFile
  <2> QED
    BY <2>1, <2>2 DEF Compiled
<1>7. db' \in StateFile /\ db'.sources = Compiled(s, F, gone, made)
  <2>1. db' = [status |-> "ok", sources |-> Compiled(s, F, gone, made), frozen |-> frozen]
    BY <1>2, <1>3
  <2> PICK c : c = Compiled(s, F, gone, made)
    OBVIOUS
  <2>2. c \in [Names -> {Absent} \cup Entry] /\ "ok" \in Statuses /\ frozen \in SUBSET Topics
    BY <1>2, <1>6 DEF Statuses
  <2>3. db' = [status |-> "ok", sources |-> c, frozen |-> frozen]
    BY <2>1
  <2>4. db' \in StateFile
    BY <2>2, <2>3 DEF StateFile
  <2> QED
    BY <2>3, <2>4
<1>8. \A x \in Topics :
         /\ x \in made => pages'[x] = Made(F, x)
         /\ x \notin made => pages'[x] = IF pages[x] # Absent /\ x \in marked
                                         THEN [pages[x] EXCEPT !.orphaned = TRUE] ELSE pages[x]
  BY <1>2, <1>3
<1>9. WikiTyped'
  <2>1. pages' \in [Topics -> {Absent} \cup Page]
    <3>1. DOMAIN pages' = Topics /\ pages' = [x \in Topics |-> pages'[x]]
      BY <1>2, <1>3
    <3>2. \A x \in Topics : pages'[x] \in {Absent} \cup Page
      BY <1>4, <1>5, <1>8
    <3> QED
      BY <3>1, <3>2
  <2>2. \A x \in Topics : pages'[x] # Absent => pages'[x].from # {}
    BY <1>4, <1>5, <1>8
  <2>3. pending' = [x \in Topics |-> IF x \in made THEN Absent ELSE pending[x]]
    BY <1>2, <1>3
  <2>4. pending' \in [Topics -> {Absent} \cup Candidate] /\ \A x \in Topics : pending'[x] # Absent => pending'[x] # {}
    BY <2>3 DEF WikiInv, WikiTyped
  <2> QED
    BY <1>7, <2>1, <2>2, <2>4 DEF WikiTyped
\* An owner afterwards that was not compiled owned the concept before.
<1>10. ASSUME NEW x \in Topics, NEW n \in OwnersOf(db', x)
       PROVE  /\ n \in F => x \in made
              /\ n \notin F => db.status = "ok" /\ n \in OwnersOf(db, x)
  <2>1. n \in Names /\ db'.sources[n] # Absent /\ x \in db'.sources[n].concepts
    BY DEF OwnersOf, Recorded
  <2>c. db'.sources[n] = IF n \in F THEN [hash |-> files[n], concepts |-> ExtractOf(files[n]) \cap made]
                         ELSE IF n \in gone THEN Absent ELSE s.sources[n]
    BY <1>7, <2>1 DEF Compiled
  <2>2. n \in F => x \in made
    <3> SUFFICES ASSUME n \in F PROVE x \in made
      OBVIOUS
    <3>1. db'.sources[n] = [hash |-> files[n], concepts |-> ExtractOf(files[n]) \cap made]
      BY <2>c
    <3>2. db'.sources[n].concepts = ExtractOf(files[n]) \cap made
      BY <3>1
    <3> QED
      BY <2>1, <3>2
  <2>3. ASSUME n \notin F PROVE db.status = "ok" /\ n \in OwnersOf(db, x)
    <3>1. s.sources[n] # Absent /\ x \in s.sources[n].concepts
      BY <2>1, <2>3, <2>c
    <3>2. db.status \in {"ok", "too-new"} /\ s = db
      BY <1>1, <2>1, <3>1, StateRead DEF s
    <3> QED
      BY <2>1, <3>1, <3>2 DEF OwnersOf, Recorded
  <2> QED
    BY <2>2, <2>3
<1>11. OwnedLive'
  <2>1. ASSUME NEW x \in Topics, OwnersOf(db', x) # {}, x \notin made PROVE pages'[x] # Absent
    <3>1. OwnersOf(db, x) # {}
      BY <1>10, <2>1
    <3>2. pages[x] # Absent
      BY <3>1 DEF WikiInv, OwnedLive
    <3> QED
      BY <1>5, <1>8, <2>1, <3>2
  <2>2. \A x \in made : pages'[x] # Absent
    BY <1>4, <1>8
  <2> QED
    BY <2>1, <2>2 DEF OwnedLive
<1>12. OrphanUnowned'
  <2>1. ASSUME NEW x \in Topics, pages'[x] # Absent, pages'[x].orphaned PROVE OwnersOf(db', x) = {}
    <3>1. x \notin made
      BY <1>4, <1>8, <2>1
    <3>2. CASE x \in marked
      BY <1>2, <1>3, <3>1, <3>2
    <3>3. CASE x \notin marked
      <4>1. pages[x] # Absent /\ pages[x].orphaned
        BY <1>8, <2>1, <3>1, <3>3
      <4>2. db.status = "ok" => OwnersOf(db, x) = {}
        BY <4>1 DEF WikiInv, OrphanUnowned, Live
      <4> QED
        BY <1>10, <3>1, <4>2
    <3> QED
      BY <3>2, <3>3
  <2> QED
    BY <2>1 DEF OrphanUnowned, Live
<1> QED
  BY <1>9, <1>11, <1>12 DEF WikiInv

-----------------------------------------------------------------------------
(* Every command keeps the wiki.                                           *)

LEMMA WikiRest ==
    ASSUME WikiInv, UNCHANGED <<db, pages, pending>>
    PROVE  WikiInv'
BY DEF WikiInv, WikiTyped, OrphanUnowned, OwnedLive, OwnersOf, Recorded, Live

LEMMA TouchTyped ==
    ASSUME lintCache \in LintCache, NEW flag \in {"wikiNewer", "sourcesNewer"}
    PROVE  Touch(lintCache, flag) \in LintCache
<1>1. CASE lintCache.kind = "entry" /\ flag = "wikiNewer"
  BY <1>1 DEF Touch, LintCache
<1>2. CASE lintCache.kind = "entry" /\ flag = "sourcesNewer"
  BY <1>2 DEF Touch, LintCache
<1>3. CASE lintCache.kind # "entry"
  BY <1>3 DEF Touch
<1> QED
  BY <1>1, <1>2, <1>3

LEMMA DraftedKeeps ==
    ASSUME WikiInv, SourcesTyped, NEW r, Drafted(r), db' = r.db, pages' = r.pages, pending' = r.pending
    PROVE  WikiInv'
<1>1. db' = db /\ pages' = pages
  BY DEF Drafted
<1>2. PICK F \in SUBSET OnDisk, made \in SUBSET Topics :
         /\ \A x \in made : Contributors(F, x) # {}
         /\ r.pending = [x \in Topics |-> IF x \in made THEN Made(F, x).from ELSE pending[x]]
  BY DEF Drafted
<1>3. pending' = [x \in Topics |-> IF x \in made THEN Made(F, x).from ELSE pending[x]]
  BY <1>2
<1>4. \A x \in made : Made(F, x).from \in Candidate \ {{}}
  BY <1>2, MadePage
<1>5. \A x \in Topics : /\ pending'[x] \in {Absent} \cup Candidate
                        /\ pending'[x] # Absent => pending'[x] # {}
  BY <1>3, <1>4 DEF WikiInv, WikiTyped
<1>6. pending' \in [Topics -> {Absent} \cup Candidate]
  BY <1>3, <1>5
<1> QED
  BY <1>1, <1>5, <1>6 DEF WikiInv, WikiTyped, OrphanUnowned, OwnedLive, OwnersOf, Recorded, Live

LEMMA CompileKeeps ==
    ASSUME WikiInv, SourcesTyped, ReportsTyped, NEW filter \in SUBSET Names, NEW review \in BOOLEAN,
           RunCompile(filter, review)
    PROVE  WikiInv' /\ bak' \in Statuses /\ lintCache' \in LintCache
<1>1. bak' \in Statuses
  BY DEF RunCompile, BackUpCorrupt, ReportsTyped, Statuses
<1>2. PICK U \in PendingUnchanged :
         IF HasChanges(filter, U)
         THEN LET r == CompileResult(filter, review, U)
              IN  /\ db' = r.db /\ pages' = r.pages /\ pending' = r.pending
                  /\ lintCache' = IF Live # {x \in Topics : r.pages[x] # Absent}
                                  THEN Touch(lintCache, "wikiNewer") ELSE lintCache
         ELSE UNCHANGED <<db, pages, pending, lintCache>>
  BY DEF RunCompile
<1>3. CASE ~HasChanges(filter, U)
  BY <1>1, <1>2, <1>3, WikiRest DEF ReportsTyped
<1>4. CASE HasChanges(filter, U)
  <2> PICK r : r = CompileResult(filter, review, U)
    OBVIOUS
  <2>1. db' = r.db /\ pages' = r.pages /\ pending' = r.pending
    BY <1>2, <1>4
  <2>2. lintCache' \in {lintCache, Touch(lintCache, "wikiNewer")}
    BY <1>2, <1>4
  <2>3. lintCache' \in LintCache
    BY <2>2, TouchTyped DEF ReportsTyped
  <2>4. CASE review
    BY <1>1, <2>1, <2>3, <2>4, CompileDrafts, DraftedKeeps
  <2>5. CASE ~review
    <3>1. db \in StateFile
      BY DEF WikiInv, WikiTyped
    <3>2. Applied(filter, U, r)
      BY <2>5, <3>1, CompileApplies
    <3>3. db.status # "too-new"
      BY DEF RunCompile, ReadStateThrows
    <3> QED
      BY <1>1, <2>1, <2>3, <3>2, <3>3, AppliedKeeps
  <2> QED
    BY <2>4, <2>5
<1> QED
  BY <1>3, <1>4

LEMMA ApproveKeeps ==
    ASSUME WikiInv, ReportsTyped, NEW x \in Topics, ReviewApprove(x)
    PROVE  WikiInv' /\ bak' \in Statuses /\ lintCache' \in LintCache
<1>1. lintCache' \in LintCache
  BY TouchTyped DEF ReviewApprove, ReportsTyped
<1>2. bak' \in Statuses
  BY DEF ReviewApprove, BackUpCorrupt, ReportsTyped, Statuses
<1> PICK new : new = ApprovedPage(x)
  OBVIOUS
<1> PICK c : c = pending[x]
  OBVIOUS
<1>3. c \in SUBSET (Names \X Document) /\ c # {}
  BY DEF ReviewApprove, WikiInv, WikiTyped, Candidate
<1>4. new \in Page /\ new # Absent /\ ~new.orphaned /\ new.from # {}
  <2>1. new = [orphaned |-> FALSE, from |-> c]
    BY DEF ApprovedPage
  <2>2. new \in Page
    BY <1>3, <2>1 DEF Page
  <2>3. ~new.orphaned /\ new.from # {}
    BY <1>3, <2>1
  <2>4. new # Absent
    BY <2>2, AbsentAssumption
  <2> QED
    BY <2>2, <2>3, <2>4
<1>5. pages' = [pages EXCEPT ![x] = new] /\ pages \in [Topics -> {Absent} \cup Page]
  BY DEF ReviewApprove, WikiInv, WikiTyped
<1>6. /\ pages' \in [Topics -> {Absent} \cup Page]
      /\ \A y \in Topics : pages'[y] # Absent => pages'[y].from # {}
  BY <1>4, <1>5 DEF WikiInv, WikiTyped
<1>7. CASE ReadStateThrows
  <2>1. UNCHANGED <<db, pending>> /\ db.status # "ok"
    BY <1>7 DEF ReviewApprove, ReadStateThrows
  <2>2. OwnedLive'
    BY <1>4, <1>5, <2>1 DEF WikiInv, OwnedLive, OwnersOf, Recorded
  <2>3. WikiTyped' /\ OrphanUnowned'
    BY <1>6, <2>1 DEF WikiInv, WikiTyped, OrphanUnowned
  <2> QED
    BY <1>1, <1>2, <2>2, <2>3 DEF WikiInv
<1>8. CASE ~ReadStateThrows
  <2> PICK s : s = readStateClassified
    OBVIOUS
  <2>1. s \in StateFile /\ db \in StateFile
    BY StateRead DEF WikiInv, WikiTyped
  <2> DEFINE carried(n) == {d \in c : d[1] = n}
             made(n) == [hash |-> (CHOOSE d \in carried(n) : TRUE)[2], concepts |-> Concepts(s, n) \cup {x}]
             after == [n \in Names |-> IF carried(n) = {} THEN s.sources[n] ELSE made(n)]
  <2>2. db' = [s EXCEPT !.status = "ok", !.sources = after] /\ pending' = [pending EXCEPT ![x] = Absent]
    BY <1>8 DEF ReviewApprove
  <2>3. ASSUME NEW n \in Names, carried(n) # {}
        PROVE  made(n) \in Entry /\ made(n).concepts = Concepts(s, n) \cup {x}
    <3>1. (CHOOSE d \in carried(n) : TRUE) \in c
      BY <2>3
    <3>2. (CHOOSE d \in carried(n) : TRUE)[2] \in Document
      BY <1>3, <3>1
    <3>3. Concepts(s, n) \in SUBSET Topics
      BY <2>1 DEF Concepts, StateFile, Entry
    <3> HIDE DEF carried
    <3> QED
      BY <3>2, <3>3 DEF Entry
  <2> HIDE DEF carried, made
  <2>4. after \in [Names -> {Absent} \cup Entry]
    BY <2>1, <2>3 DEF StateFile
  <2>5. \A n \in Names : carried(n) = {} => after[n] = s.sources[n]
    OBVIOUS
  <2>6. \A n \in Names : carried(n) # {} => after[n] = made(n)
    OBVIOUS
  <2> HIDE DEF after
  <2>7. db' \in StateFile /\ db'.status = "ok" /\ db'.sources = after
    BY <2>1, <2>2, <2>4 DEF StateFile, Statuses
  <2>8. ASSUME NEW y \in Topics \ {x}, NEW n \in OwnersOf(db', y)
        PROVE  db.status = "ok" /\ n \in OwnersOf(db, y)
    <3>1. n \in Names /\ after[n] # Absent /\ y \in after[n].concepts
      BY <2>7 DEF OwnersOf, Recorded
    <3>2. s.sources[n] # Absent /\ y \in s.sources[n].concepts
      <4>1. CASE carried(n) = {}
        BY <2>5, <3>1, <4>1
      <4>2. CASE carried(n) # {}
        <5>1. y \in Concepts(s, n)
          BY <2>3, <2>6, <3>1, <4>2
        <5> QED
          BY <5>1 DEF Concepts
      <4> QED
        BY <4>1, <4>2
    <3>3. db.status = "ok" /\ s = db
      BY <1>8, <2>1, <3>1, <3>2, StateRead DEF ReadStateThrows
    <3> QED
      BY <3>1, <3>2, <3>3 DEF OwnersOf, Recorded
  <2>9. OwnedLive' /\ OrphanUnowned'
    <3>1. \A y \in Topics \ {x} : pages'[y] = pages[y]
      BY <1>5
    <3>2. pages'[x] = new
      BY <1>5
    <3>3. \A y \in Topics \ {x} : OwnersOf(db', y) # {} => pages'[y] # Absent
      BY <2>8, <3>1 DEF WikiInv, OwnedLive
    <3>4. \A y \in Topics \ {x} : pages'[y] # Absent /\ pages'[y].orphaned => OwnersOf(db', y) = {}
      BY <2>8, <3>1 DEF WikiInv, OrphanUnowned, Live
    <3>5. OwnedLive'
      BY <1>4, <3>2, <3>3 DEF OwnedLive
    <3>6. OrphanUnowned'
      BY <1>4, <3>2, <3>4 DEF OrphanUnowned, Live
    <3> QED
      BY <3>5, <3>6
  <2>10. /\ pending' \in [Topics -> {Absent} \cup Candidate]
         /\ \A y \in Topics : pending'[y] # Absent => pending'[y] # {}
    BY <2>2 DEF WikiInv, WikiTyped
  <2> QED
    BY <1>1, <1>2, <1>6, <2>7, <2>9, <2>10 DEF WikiInv, WikiTyped
<1> QED
  BY <1>7, <1>8

LEMMA StateFileKeeps ==
    ASSUME WikiInv, NEW status \in {"corrupt", "too-new"}, StateReset \/ StateDamaged(status)
    PROVE  WikiInv'
<1>0. db \in StateFile
  BY DEF WikiInv, WikiTyped
<1>1. CASE StateReset
  <2>1. db' = NoState /\ UNCHANGED <<pages, pending>>
    BY <1>1 DEF StateReset
  <2>2. NoState \in StateFile /\ NoState.status # "ok" /\ \A n \in Names : NoState.sources[n] = Absent
    BY DEF NoState, StateFile, Statuses
  <2>3. \A x : OwnersOf(NoState, x) = {}
    BY <2>2 DEF OwnersOf, Recorded
  <2> QED
    BY <2>1, <2>2, <2>3 DEF WikiInv, WikiTyped, OrphanUnowned, OwnedLive
<1>2. CASE StateDamaged(status)
  <2>1. db' = [db EXCEPT !.status = status] /\ UNCHANGED <<pages, pending>>
    BY <1>2 DEF StateDamaged
  <2>2. db' \in StateFile /\ db'.status # "ok" /\ db'.sources = db.sources
    BY <1>0, <2>1 DEF StateFile, Statuses
  <2>3. \A x : OwnersOf(db', x) = OwnersOf(db, x)
    BY <2>2, OwnersBySources
  <2> QED
    BY <2>1, <2>2, <2>3 DEF WikiInv, WikiTyped, OrphanUnowned, OwnedLive
<1> QED
  BY <1>1, <1>2

-----------------------------------------------------------------------------
(* The files of the sources.                                               *)

LEMMA FirstListedFile ==
    ASSUME NEW S \in SUBSET Names, S # {}
    PROVE  \E n \in S : \A m \in S : ListedBefore(n, m)
<1>1. \A n \in S : n[1] \in Nat /\ n[2] \in Nat /\ n = <<n[1], n[2]>>
  <2>1. Titles \subseteq Nat /\ {0} \cup Origins \subseteq Nat
    BY ProjectAssumption
  <2>2. \A n \in Names : n[1] \in Titles /\ n[2] \in {0} \cup Origins /\ n = <<n[1], n[2]>>
    BY DEF Names
  <2> QED
    BY <2>1, <2>2
<1> DEFINE A == {n[1] : n \in S}
<1>2. A \in SUBSET Nat /\ A # {}
  BY <1>1
<1>3. PICK a \in A : \A b \in A : a <= b
  BY <1>2, LeastNatural
<1> DEFINE B == {n[2] : n \in {m \in S : m[1] = a /\ m[2] # 0}}
<1>4. B \in SUBSET Nat /\ \A n \in S : n[1] = a => n[2] \in B \cup {0}
  BY <1>1
<1>5. \A n \in S : a <= n[1] /\ a \in Nat
  BY <1>1, <1>3
<1>6. CASE B # {}
  <2>1. PICK b \in B : \A c \in B : b <= c
    BY <1>4, <1>6, LeastNatural
  <2>2. PICK n \in S : n[1] = a /\ n[2] = b /\ b # 0
    BY <2>1
  <2>3. ASSUME NEW m \in S PROVE ListedBefore(n, m)
    <3>1. m[1] = a => m[2] = 0 \/ b <= m[2]
      BY <1>4, <2>1
    <3>2. m[1] # a => a < m[1]
      BY <1>1, <1>5
    <3> QED
      BY <2>2, <3>1, <3>2 DEF ListedBefore
  <2> QED
    BY <2>3
<1>7. CASE B = {}
  <2>1. PICK n \in S : n[1] = a
    BY <1>3
  <2>2. n[2] = 0
    BY <1>4, <1>7, <2>1
  <2>3. ASSUME NEW m \in S PROVE ListedBefore(n, m)
    <3>1. m[1] = a => m[2] = 0
      BY <1>4, <1>7
    <3>2. m[1] # a => a < m[1]
      BY <1>1, <1>5
    <3> QED
      BY <2>1, <2>2, <3>1, <3>2 DEF ListedBefore
  <2> QED
    BY <2>3
<1> QED
  BY <1>6, <1>7

\* The scan finds a file of the source if there is one.
LEMMA FoundIsTheSource ==
    ASSUME NEW o, NEW t
    PROVE  LET found == findFileBySourceIdentity(o, t) IN
           /\ found # Absent => found \in OnDisk /\ files[found].source = o
           /\ found = Absent => \A n \in OnDisk : files[n].source # o
<1> DEFINE same == {n \in OnDisk : files[n].source = o}
<1>1. CASE same = {}
  BY <1>1 DEF findFileBySourceIdentity
<1>2. CASE same # {}
  <2>1. same \in SUBSET Names
    BY DEF OnDisk
  <2>2. findFileBySourceIdentity(o, t) = CHOOSE n \in same : \A m \in same : ListedBefore(n, m)
    BY <1>2 DEF findFileBySourceIdentity
  <2> HIDE DEF same
  <2>3. findFileBySourceIdentity(o, t) \in same
    BY <1>2, <2>1, <2>2, FirstListedFile
  <2> QED
    BY <2>1, <2>3, AbsentAssumption DEF same
<1> QED
  BY <1>1, <1>2

Writing(p) == ing[p] # Absent /\ ing[p].stage = "write"

\* Ingests of one source that are under way together are remembered.
OneAtATime ==
    \A p, q \in Ingesters :
        p # q /\ ing[p] # Absent /\ ing[q] # Absent /\ ing[p].doc.source = ing[q].doc.source
            => ing[p].doc.source \in overlapped

\* What an ingest found on disk when it chose its file still holds as it writes.
ScansHold ==
    \A p \in Ingesters : Writing(p) =>
        /\ ing[p].doc.source \notin overlapped =>
              \A n \in OnDisk : files[n].source = ing[p].doc.source => ing[p].known /\ n = ing[p].name
        /\ ing[p].known /\ ing[p].name \notin pulled =>
              files[ing[p].name] # Absent /\ files[ing[p].name].source = ing[p].doc.source

SourcesInv == SourcesTyped /\ OneFilePerSource /\ OneAtATime /\ ScansHold

LEMMA ScanKeeps ==
    ASSUME SourcesInv, NEW p \in Ingesters, NEW d \in Served,
           NEW then \in {"nothing", "compile", "review"}, IngestScan(p, d[2], d[1], d[3], then)
    PROVE  SourcesInv'
<1> PICK o : o = d[1]
  OBVIOUS
<1> PICK t : t = d[2]
  OBVIOUS
<1> PICK found : found = findFileBySourceIdentity(o, t)
  OBVIOUS
<1> PICK i : i = [stage |-> "write", then |-> then, known |-> found # Absent,
                  name |-> IF found # Absent THEN found ELSE resolveCollisionFreeFilename(t, o),
                  doc |-> [source |-> o, title |-> t, version |-> d[3]]]
  OBVIOUS
<1>1. /\ ing[p] = Absent /\ ing' = [ing EXCEPT ![p] = i]
      /\ overlapped' = IF \E q \in Ingesters : ing[q] # Absent /\ ing[q].doc.source = o
                       THEN overlapped \cup {o} ELSE overlapped
      /\ UNCHANGED <<files, pulled>>
  BY DEF IngestScan
<1>2. o \in Origins /\ t \in Titles /\ d[3] \in Versions
  BY ProjectAssumption
<1>3. /\ found # Absent => found \in OnDisk /\ files[found].source = o
      /\ found = Absent => \A n \in OnDisk : files[n].source # o
  BY FoundIsTheSource
<1>4. <<t, 0>> \in Names /\ <<t, o>> \in Names
  BY <1>2 DEF Names
<1>5. /\ i.stage = "write" /\ i.doc.source = o /\ i.known = (found # Absent)
      /\ found # Absent => i.name = found
      /\ i \in Ingest
  <2>1. (IF found # Absent THEN found ELSE resolveCollisionFreeFilename(t, o)) \in Names
    BY <1>3, <1>4 DEF resolveCollisionFreeFilename, OnDisk
  <2>2. [source |-> o, title |-> t, version |-> d[3]] \in Document
    BY <1>2 DEF Document
  <2> PICK name : name = IF found # Absent THEN found ELSE resolveCollisionFreeFilename(t, o)
    OBVIOUS
  <2> PICK doc : doc = [source |-> o, title |-> t, version |-> d[3]]
    OBVIOUS
  <2>3. i = [stage |-> "write", then |-> then, known |-> found # Absent, name |-> name, doc |-> doc]
    OBVIOUS
  <2>4. i \in Ingest
    BY <2>1, <2>2, <2>3 DEF Ingest
  <2> QED
    BY <2>3, <2>4
<1>6. \A q \in Ingesters : ing'[q] = IF q = p THEN i ELSE ing[q]
  BY <1>1 DEF SourcesInv, SourcesTyped
<1>7. SourcesTyped'
  <2>1. ing' \in [Ingesters -> {Absent} \cup Ingest]
    BY <1>1, <1>5 DEF SourcesInv, SourcesTyped
  <2>2. overlapped' \in SUBSET Origins
    BY <1>1, <1>2 DEF SourcesInv, SourcesTyped
  <2> QED
    BY <1>1, <2>1, <2>2 DEF SourcesInv, SourcesTyped
<1>8. overlapped \subseteq overlapped' /\ OnDisk' = OnDisk
  BY <1>1 DEF OnDisk
<1>9. OneFilePerSource'
  BY <1>1, <1>8 DEF SourcesInv, OneFilePerSource
<1>10. OneAtATime'
  <2> SUFFICES ASSUME NEW a \in Ingesters, NEW b \in Ingesters, a # b, ing'[a] # Absent, ing'[b] # Absent,
                      ing'[a].doc.source = ing'[b].doc.source
               PROVE  ing'[a].doc.source \in overlapped'
    BY DEF OneAtATime
  <2>1. CASE a = p
    BY <1>1, <1>5, <1>6, <2>1
  <2>2. CASE b = p
    BY <1>1, <1>5, <1>6, <2>2
  <2>3. CASE a # p /\ b # p
    BY <1>6, <1>8, <2>3 DEF SourcesInv, OneAtATime
  <2> QED
    BY <2>1, <2>2, <2>3
<1>11. ScansHold'
  <2> SUFFICES ASSUME NEW q \in Ingesters, Writing(q)'
               PROVE  /\ ing'[q].doc.source \notin overlapped' =>
                            \A n \in OnDisk : files[n].source = ing'[q].doc.source
                                                 => ing'[q].known /\ n = ing'[q].name
                      /\ ing'[q].known /\ ing'[q].name \notin pulled =>
                            files[ing'[q].name] # Absent /\ files[ing'[q].name].source = ing'[q].doc.source
    BY <1>1, <1>8 DEF ScansHold
  <2>1. CASE q = p
    <3>1. ing'[q] = i
      BY <1>6, <2>1
    <3>2. ASSUME o \notin overlapped, NEW n \in OnDisk, files[n].source = o PROVE i.known /\ n = i.name
      <4>1. found # Absent
        BY <1>3, <3>2
      <4>2. found \in OnDisk /\ files[found].source = o
        BY <1>3, <4>1
      <4> QED
        BY <1>5, <3>2, <4>1, <4>2 DEF SourcesInv, OneFilePerSource
    <3> QED
      BY <1>3, <1>5, <1>8, <3>1, <3>2 DEF OnDisk
  <2>2. CASE q # p
    <3>1. ing'[q] = ing[q] /\ Writing(q)
      BY <1>6, <2>2 DEF Writing
    <3> QED
      BY <1>8, <3>1 DEF SourcesInv, ScansHold
  <2> QED
    BY <2>1, <2>2
<1> QED
  BY <1>7, <1>9, <1>10, <1>11 DEF SourcesInv

\* A write: no other source loses a file, unless the author pulled the file away.
LEMMA SaveKeeps ==
    ASSUME SourcesInv, NEW p \in Ingesters, saveSource(p)
    PROVE  SourcesInv' /\ IngestKeepsOthers
<1> PICK i : i = ing[p]
  OBVIOUS
<1>1. /\ i # Absent /\ i.stage = "write" /\ i \in Ingest /\ Writing(p)
      /\ ing \in [Ingesters -> {Absent} \cup Ingest] /\ files \in [Names -> {Absent} \cup Document]
      /\ UNCHANGED <<overlapped, pulled>>
  BY DEF saveSource, Writing, SourcesInv, SourcesTyped
<1>2. i.name \in Names /\ i.doc \in Document
  BY <1>1 DEF Ingest
<1> PICK k : k = IF i.then = "nothing" THEN Absent ELSE [i EXCEPT !.stage = "compile"]
  OBVIOUS
<1>3. k = Absent \/ (k \in Ingest /\ k.stage = "compile" /\ k.doc = i.doc)
  BY <1>1 DEF Ingest
<1>4. \/ /\ MayWrite(i) /\ files' = [files EXCEPT ![i.name] = i.doc] /\ ing' = [ing EXCEPT ![p] = k]
      \/ /\ files' = files /\ ing' = [ing EXCEPT ![p] = Absent]
  BY DEF saveSource
<1>5. PICK j \in {Absent, k} : ing' = [ing EXCEPT ![p] = j]
  BY <1>4
<1>6. /\ \A q \in Ingesters : ing'[q] = IF q = p THEN j ELSE ing[q]
      /\ j = Absent \/ (j \in Ingest /\ j.stage = "compile" /\ j.doc = i.doc)
  BY <1>1, <1>3, <1>5
<1>7. SourcesTyped'
  BY <1>1, <1>2, <1>4, <1>5, <1>6 DEF SourcesInv, SourcesTyped
<1>8. OneAtATime'
  <2> SUFFICES ASSUME NEW a \in Ingesters, NEW b \in Ingesters, a # b, ing'[a] # Absent, ing'[b] # Absent,
                      ing'[a].doc.source = ing'[b].doc.source
               PROVE  ing'[a].doc.source \in overlapped
    BY <1>1 DEF OneAtATime
  <2>1. /\ ing[a] # Absent /\ ing'[a].doc = ing[a].doc
        /\ ing[b] # Absent /\ ing'[b].doc = ing[b].doc
    BY <1>1, <1>6
  <2> QED
    BY <2>1 DEF SourcesInv, OneAtATime
<1>9. CASE files' = files
  <2>1. OnDisk' = OnDisk
    BY <1>9 DEF OnDisk
  <2>2. OneFilePerSource'
    BY <1>1, <1>9, <2>1 DEF SourcesInv, OneFilePerSource
  <2>3. ScansHold'
    <3> SUFFICES ASSUME NEW q \in Ingesters, Writing(q)' PROVE Writing(q) /\ ing'[q] = ing[q]
      BY <1>1, <1>9, <2>1 DEF SourcesInv, ScansHold
    <3> QED
      BY <1>6 DEF Writing
  <2>4. IngestKeepsOthers
    BY <1>9 DEF IngestKeepsOthers
  <2> QED
    BY <1>7, <1>8, <2>2, <2>3, <2>4 DEF SourcesInv
<1>10. CASE MayWrite(i) /\ files' = [files EXCEPT ![i.name] = i.doc]
  <2>1. \A n \in Names : files'[n] = IF n = i.name THEN i.doc ELSE files[n]
    BY <1>1, <1>10
  <2>2. i.doc # Absent
    BY <1>2, AbsentAssumption
  <2>3. \A n \in Names : n \in OnDisk' <=> n \in OnDisk \/ n = i.name
    BY <2>1, <2>2 DEF OnDisk
  <2>4. /\ i.doc.source \notin overlapped =>
              \A n \in OnDisk : files[n].source = i.doc.source => i.known /\ n = i.name
        /\ i.known /\ i.name \notin pulled =>
              files[i.name] # Absent /\ files[i.name].source = i.doc.source
    BY <1>1 DEF SourcesInv, ScansHold
  <2>5. OneFilePerSource'
    <3> SUFFICES ASSUME NEW m \in OnDisk', NEW n \in OnDisk', m # n, files'[m].source = files'[n].source
                 PROVE  files'[m].source \in overlapped
      BY <1>1 DEF OneFilePerSource
    <3>1. m \in Names /\ n \in Names
      BY DEF OnDisk
    <3>2. CASE m = i.name
      BY <2>1, <2>3, <2>4, <3>1, <3>2
    <3>3. CASE n = i.name
      BY <2>1, <2>3, <2>4, <3>1, <3>3
    <3>4. CASE m # i.name /\ n # i.name
      BY <2>1, <2>3, <3>1, <3>4 DEF SourcesInv, OneFilePerSource
    <3> QED
      BY <3>2, <3>3, <3>4
  <2>6. IngestKeepsOthers
    <3> SUFFICES ASSUME NEW n \in Names, files[n] # Absent, n \notin pulled, n = i.name
                 PROVE  files'[n].source = files[n].source
      BY <2>1 DEF IngestKeepsOthers
    <3>1. i.known
      BY <1>10 DEF MayWrite
    <3> QED
      BY <2>1, <2>4, <3>1
  <2>7. ScansHold'
    <3> SUFFICES ASSUME NEW q \in Ingesters, Writing(q)'
                 PROVE  /\ ing'[q].doc.source \notin overlapped =>
                              \A n \in OnDisk' : files'[n].source = ing'[q].doc.source
                                                    => ing'[q].known /\ n = ing'[q].name
                        /\ ing'[q].known /\ ing'[q].name \notin pulled =>
                              files'[ing'[q].name] # Absent /\ files'[ing'[q].name].source = ing'[q].doc.source
      BY <1>1 DEF ScansHold
    <3>1. q # p /\ ing'[q] = ing[q] /\ Writing(q)
      BY <1>6 DEF Writing
    <3> PICK h : h = ing[q]
      OBVIOUS
    <3>2. h \in Ingest /\ h # Absent
      BY <1>1, <3>1 DEF Writing
    <3>3. h.name \in Names
      BY <3>2 DEF Ingest
    <3>4. /\ h.doc.source \notin overlapped =>
                \A n \in OnDisk : files[n].source = h.doc.source => h.known /\ n = h.name
          /\ h.known /\ h.name \notin pulled =>
                files[h.name] # Absent /\ files[h.name].source = h.doc.source
      BY <3>1 DEF SourcesInv, ScansHold
    <3>5. i.doc.source = h.doc.source => h.doc.source \in overlapped
      BY <1>1, <3>1, <3>2 DEF SourcesInv, OneAtATime
    <3>6. ASSUME h.doc.source \notin overlapped, NEW n \in OnDisk', files'[n].source = h.doc.source
          PROVE  h.known /\ n = h.name
      <4>1. n \in Names
        BY DEF OnDisk
      <4>2. n # i.name
        BY <2>1, <3>5, <3>6, <4>1
      <4> QED
        BY <2>1, <2>3, <3>4, <3>6, <4>1, <4>2
    <3>7. ASSUME h.known, h.name \notin pulled
          PROVE  files'[h.name] # Absent /\ files'[h.name].source = h.doc.source
      <4>1. CASE h.name = i.name
        <5>1. files[i.name] # Absent
          BY <3>4, <3>7, <4>1
        <5>2. i.known
          BY <1>10, <5>1 DEF MayWrite
        <5> QED
          BY <2>1, <2>2, <2>4, <3>3, <3>4, <3>7, <4>1, <5>2
      <4>2. CASE h.name # i.name
        BY <2>1, <3>3, <3>4, <3>7, <4>2
      <4> QED
        BY <4>1, <4>2
    <3> QED
      BY <3>1, <3>6, <3>7
  <2> QED
    BY <1>7, <1>8, <2>5, <2>6, <2>7 DEF SourcesInv
<1> QED
  BY <1>4, <1>9, <1>10

LEMMA HandDeleteKeeps ==
    ASSUME SourcesInv, NEW n \in Names, HandDelete(n)
    PROVE  SourcesInv' /\ IngestKeepsOthers
<1>1. /\ files' = [files EXCEPT ![n] = Absent] /\ UNCHANGED <<ing, overlapped>>
      /\ pulled' = pulled \cup {m \in {n} : \E p \in Ingesters : ing[p] # Absent /\ ing[p].name = n}
  BY DEF HandDelete
<1>2. /\ files \in [Names -> {Absent} \cup Document] /\ ing \in [Ingesters -> {Absent} \cup Ingest]
  BY DEF SourcesInv, SourcesTyped
<1>3. \A m \in Names : files'[m] = IF m = n THEN Absent ELSE files[m]
  BY <1>1, <1>2
<1>4. SourcesTyped'
  BY <1>1 DEF SourcesInv, SourcesTyped
<1>5. OnDisk' = OnDisk \ {n}
  BY <1>3 DEF OnDisk
<1>6. OneFilePerSource'
  BY <1>1, <1>3, <1>5 DEF SourcesInv, OneFilePerSource, OnDisk
<1>7. OneAtATime'
  BY <1>1 DEF SourcesInv, OneAtATime
<1>8. ScansHold'
  <2> SUFFICES ASSUME NEW q \in Ingesters, Writing(q)
               PROVE  /\ ing[q].doc.source \notin overlapped =>
                            \A m \in OnDisk' : files'[m].source = ing[q].doc.source
                                                  => ing[q].known /\ m = ing[q].name
                      /\ ing[q].known /\ ing[q].name \notin pulled' =>
                            files'[ing[q].name] # Absent /\ files'[ing[q].name].source = ing[q].doc.source
    BY <1>1 DEF ScansHold, Writing
  <2> PICK h : h = ing[q]
    OBVIOUS
  <2>1. h \in Ingest /\ h # Absent
    BY <1>2 DEF Writing
  <2>2. h.name \in Names
    BY <2>1 DEF Ingest
  <2>3. /\ h.doc.source \notin overlapped =>
              \A m \in OnDisk : files[m].source = h.doc.source => h.known /\ m = h.name
        /\ h.known /\ h.name \notin pulled =>
              files[h.name] # Absent /\ files[h.name].source = h.doc.source
    BY DEF SourcesInv, ScansHold
  <2>4. \A m \in OnDisk' : m \in OnDisk /\ files'[m] = files[m]
    BY <1>3, <1>5 DEF OnDisk
  <2>5. h.name = n => h.name \in pulled'
    BY <1>1, <2>1
  <2>6. h.name \notin pulled' => h.name # n /\ h.name \notin pulled
    BY <1>1, <2>5
  <2> QED
    BY <1>3, <2>2, <2>3, <2>4, <2>6
<1>9. IngestKeepsOthers
  BY <1>3 DEF IngestKeepsOthers
<1> QED
  BY <1>4, <1>6, <1>7, <1>8, <1>9 DEF SourcesInv

LEMMA SourcesRest ==
    ASSUME SourcesInv, UNCHANGED <<files, ing, overlapped, pulled>>
    PROVE  SourcesInv' /\ IngestKeepsOthers
<1>1. OnDisk' = OnDisk
  BY DEF OnDisk
<1>2. OneFilePerSource' /\ SourcesTyped' /\ OneAtATime'
  BY <1>1 DEF SourcesInv, OneFilePerSource, SourcesTyped, OneAtATime
<1>3. ScansHold'
  BY <1>1 DEF SourcesInv, ScansHold, Writing
<1>4. IngestKeepsOthers
  BY DEF IngestKeepsOthers
<1> QED
  BY <1>2, <1>3, <1>4 DEF SourcesInv

\* The compile step of a quickstart ends its ingest.
LEMMA QuickstartKeepsSources ==
    ASSUME SourcesInv, NEW p \in Ingesters, NEW provider \in BOOLEAN, QuickstartCompile(p, provider)
    PROVE  SourcesInv' /\ IngestKeepsOthers
<1>1. UNCHANGED <<files, overlapped, pulled>> /\ ing' = [ing EXCEPT ![p] = Absent]
  BY DEF QuickstartCompile
<1>2. ing \in [Ingesters -> {Absent} \cup Ingest]
  BY DEF SourcesInv, SourcesTyped
<1>3. \A q \in Ingesters : ing'[q] # Absent => ing'[q] = ing[q]
  BY <1>1, <1>2
<1>4. OnDisk' = OnDisk
  BY <1>1 DEF OnDisk
<1>5. SourcesTyped' /\ OneFilePerSource'
  BY <1>1, <1>4 DEF SourcesInv, SourcesTyped, OneFilePerSource
<1>6. OneAtATime'
  BY <1>1, <1>3 DEF SourcesInv, OneAtATime
<1>7. ScansHold'
  <2> SUFFICES ASSUME NEW q \in Ingesters, Writing(q)' PROVE Writing(q) /\ ing'[q] = ing[q]
    BY <1>1, <1>4 DEF SourcesInv, ScansHold
  <2> QED
    BY <1>3 DEF Writing
<1>8. IngestKeepsOthers
  BY <1>1 DEF IngestKeepsOthers
<1> QED
  BY <1>5, <1>6, <1>7, <1>8 DEF SourcesInv

-----------------------------------------------------------------------------
(* Freshness and the refresh plan.                                         *)

\* Two pieces of code, one answer: on a page that is not marked, the refresh plan has
\* work exactly where its freshness is stale or orphaned; a marked page has no owner.
LEMMA PlanIsFreshness ==
    ASSUME OrphanUnowned
    PROVE  RefreshAgrees
<1> SUFFICES ASSUME db.status = "ok"
             PROVE  hasWork <=> StatusStale \cup {x \in StatusOrphaned : ~pages[x].orphaned} # {}
  BY DEF RefreshAgrees
<1>1. ASSUME NEW x \in Live
      PROVE  x \in recompiledPages \cup computedOrphanedPages \cup sharedKeptPages
                <=> classify(x) = "stale" \/ (classify(x) = "orphaned" /\ ~pages[x].orphaned)
  <2> DEFINE owners == OwnersOf(db, x)
             live == owners \cap OnDisk
  <2>1. owners \subseteq Recorded(db)
    BY DEF OwnersOf
  <2>2. owners \cap Deleted(db) = owners \ OnDisk /\ Changed(db) \subseteq OnDisk
    BY <2>1 DEF Deleted, Changed
  <2>3. pages[x].orphaned => owners = {}
    BY DEF OrphanUnowned
  <2>4. classify(x) = IF pages[x].orphaned THEN "orphaned"
                      ELSE IF owners = {} THEN "unverified"
                      ELSE IF live = {} THEN "orphaned"
                      ELSE IF live # owners \/ live \cap Changed(db) # {} THEN "stale" ELSE "fresh"
    BY DEF classify
  <2>5. /\ x \in recompiledPages <=> owners \cap Changed(db) # {}
        /\ x \in computedOrphanedPages <=> owners # {} /\ live = {}
        /\ x \in sharedKeptPages <=> live # {} /\ owners \cap Deleted(db) # {} /\ x \notin recompiledPages
    BY DEF recompiledPages, computedOrphanedPages, sharedKeptPages
  <2> HIDE DEF owners
  <2>6. live \cap Changed(db) = owners \cap Changed(db) /\ (live # owners <=> owners \cap Deleted(db) # {})
    BY <2>2
  <2> HIDE DEF live
  <2>7. CASE pages[x].orphaned
    BY <2>2, <2>3, <2>4, <2>5, <2>6, <2>7 DEF live
  <2>8. CASE ~pages[x].orphaned
    BY <2>4, <2>5, <2>6, <2>8 DEF live
  <2> QED
    BY <2>7, <2>8
<1>2. recompiledPages \cup computedOrphanedPages \cup sharedKeptPages \subseteq Live
  BY DEF recompiledPages, computedOrphanedPages, sharedKeptPages
<1>3. \A x : x \in StatusStale <=> x \in Live /\ classify(x) = "stale"
  BY DEF StatusStale
<1>4. \A x : x \in StatusOrphaned <=> x \in Live /\ classify(x) = "orphaned"
  BY DEF StatusOrphaned
<1> QED
  BY <1>1, <1>2, <1>3, <1>4 DEF hasWork

\* Whatever a page is still behind of after a refresh was waiting for its review.
LEMMA RefreshRepairs ==
    ASSUME WikiInv
    PROVE  RepairComplete
<1> SUFFICES ASSUME RefreshStale PROVE RepairComplete
  BY DEF RepairComplete
<1> PICK filter : filter = makeChangeFilter
  OBVIOUS
<1>0. /\ db.status = "ok" /\ RunCompile(filter, FALSE) /\ files' = files /\ db \in StateFile
      /\ filter \in SUBSET Names
  BY DEF RefreshStale, WikiInv, WikiTyped, makeChangeFilter, Changed, Deleted, OnDisk, Recorded
<1>1. readStateClassified = db
  BY <1>0, StateRead
<1>2. PICK U \in PendingUnchanged :
         IF HasChanges(filter, U)
         THEN LET r == CompileResult(filter, FALSE, U)
              IN  /\ db' = r.db /\ pages' = r.pages /\ pending' = r.pending
                  /\ lintCache' = IF Live # {x \in Topics : r.pages[x] # Absent}
                                  THEN Touch(lintCache, "wikiNewer") ELSE lintCache
         ELSE UNCHANGED <<db, pages, pending, lintCache>>
  BY <1>0 DEF RunCompile
<1>3. \A n \in U : n \in OnDisk /\ files[n] \in PendingHashes(n)
  BY DEF PendingUnchanged
<1>4. \A x \in Live : \A n \in OwnersOf(db, x) : n \in Changed(db) \cup Deleted(db) => n \in filter
  BY DEF makeChangeFilter
<1>5. \A x \in Topics : \A n \in OwnersOf(db, x) : x \in Live
  BY DEF WikiInv, OwnedLive, Live
<1>6. \A x : \A n \in OwnersOf(db, x) :
         /\ n \in Names
         /\ files[n] = Absent => n \in Deleted(db)
         /\ files[n] # Absent /\ db.sources[n].hash # files[n] => n \in Changed(db)
  BY DEF OwnersOf, Recorded, Deleted, Changed, OnDisk
\* It is enough that an owner afterwards which is behind was an owner already, was not
\* deleted, and had its new content in a candidate.
<1>7. ASSUME NEW x \in Topics, NEW n \in OwnersOf(db', x), files[n] = Absent \/ db'.sources[n].hash # files[n]
      PROVE  files[n] # Absent /\ files[n] \in PendingHashes(n)
  <2>1. CASE ~HasChanges(filter, U)
    <3>1. db' = db
      BY <1>2, <2>1
    <3>2. n \in OwnersOf(db, x) /\ x \in Live /\ n \in Names
      BY <1>5, <1>6, <1>7, <3>1
    <3>3. ((New(db) \cup Changed(db)) \ U) \cap filter = {} /\ Deleted(db) \cap filter = {}
      BY <1>1, <2>1 DEF HasChanges
    <3> QED
      BY <1>3, <1>4, <1>6, <1>7, <3>1, <3>2, <3>3
  <2>2. CASE HasChanges(filter, U)
    <3> PICK r : r = CompileResult(filter, FALSE, U)
      OBVIOUS
    <3>1. db' = r.db
      BY <1>2, <2>2
    <3> DEFINE s == readStateClassified
               gone == Deleted(s) \cap filter
    <3>2. Applied(filter, U, r)
      BY <1>0, CompileApplies
    <3>3. PICK F \in SUBSET OnDisk, made \in SUBSET Topics, marked \in SUBSET Topics, frozen \in SUBSET Topics :
             /\ (Changed(s) \ U) \cap filter \subseteq F
             /\ \A y \in made : Contributors(F, y) # {}
             /\ r.db = [status |-> "ok", sources |-> Compiled(s, F, gone, made), frozen |-> frozen]
             /\ \A y \in marked \ made : OwnersOf(r.db, y) = {}
             /\ r.pages = [y \in Topics |->
                              IF y \in made THEN Made(F, y)
                              ELSE IF pages[y] # Absent /\ y \in marked
                                   THEN [pages[y] EXCEPT !.orphaned = TRUE] ELSE pages[y]]
             /\ r.pending = [y \in Topics |-> IF y \in made THEN Absent ELSE pending[y]]
      BY <3>2 DEF Applied
    <3>s. s = db
      BY <1>1
    <3> HIDE DEF s
    <3>4. db'.sources = Compiled(db, F, gone, made)
      <4>1. db' = [status |-> "ok", sources |-> Compiled(s, F, gone, made), frozen |-> frozen]
        BY <3>1, <3>3
      <4>2. db'.sources = Compiled(s, F, gone, made)
        BY <4>1
      <4> QED
        BY <3>s, <4>2
    <3>5. n \in Names /\ db'.sources[n] # Absent /\ x \in db'.sources[n].concepts
      BY <1>7 DEF OwnersOf, Recorded
    <3>6. db'.sources[n] = IF n \in F THEN [hash |-> files[n], concepts |-> ExtractOf(files[n]) \cap made]
                           ELSE IF n \in gone THEN Absent ELSE db.sources[n]
      BY <3>4, <3>5 DEF Compiled
    <3>7. n \notin F
      <4> SUFFICES ASSUME n \in F PROVE FALSE
        OBVIOUS
      <4>1. db'.sources[n] = [hash |-> files[n], concepts |-> ExtractOf(files[n]) \cap made]
        BY <3>6
      <4>2. db'.sources[n].hash = files[n]
        BY <4>1
      <4> QED
        BY <1>7, <4>2 DEF OnDisk
    <3>8. n \notin gone /\ db'.sources[n] = db.sources[n]
      BY <3>5, <3>6, <3>7
    <3>9. n \in OwnersOf(db, x)
      BY <3>5, <3>8 DEF OwnersOf, Recorded
    <3>10. x \in Live
      BY <1>5, <3>9
    <3>11. files[n] # Absent
      BY <1>4, <1>6, <3>s, <3>8, <3>9, <3>10
    <3>12. n \in Changed(db) /\ n \in filter
      BY <1>4, <1>6, <1>7, <3>8, <3>9, <3>10, <3>11
    <3> QED
      BY <1>3, <3>3, <3>s, <3>7, <3>11, <3>12
  <2> QED
    BY <2>1, <2>2
<1> SUFFICES ASSUME NEW x \in Live'
             PROVE  /\ classify(x)' = "orphaned" => pages'[x].orphaned
                    /\ classify(x)' = "stale" => \A n \in Behind(x)' : files[n] \in PendingHashes(n)
  BY DEF RepairComplete
<1>8. x \in Topics
  BY DEF Live
<1>9. OnDisk' = OnDisk
  BY <1>0 DEF OnDisk
<1>10. \A n \in OwnersOf(db', x) : n \in OnDisk'
  BY <1>0, <1>7, <1>8, <1>9 DEF OnDisk, OwnersOf, Recorded
<1>11. ASSUME classify(x)' = "orphaned" PROVE pages'[x].orphaned
  BY <1>10, <1>11 DEF classify
<1>12. \A n \in Behind(x)' : files[n] \in PendingHashes(n)
  BY <1>0, <1>7, <1>8 DEF Behind
<1> QED
  BY <1>11, <1>12

-----------------------------------------------------------------------------
(* Every command.                                                          *)

ProjectInv == WikiInv /\ SourcesInv /\ ReportsTyped

LEMMA ProjectInvInit == ProjectInit => ProjectInv
<1> SUFFICES ASSUME ProjectInit PROVE ProjectInv
  OBVIOUS
<1>1. /\ files = [n \in Names |-> Absent] /\ db = NoState /\ bak = "missing"
      /\ pages = [x \in Topics |-> Absent] /\ pending = [x \in Topics |-> Absent]
      /\ lintCache = NoLint /\ ing = [p \in Ingesters |-> Absent]
      /\ says = "nothing" /\ overlapped = {} /\ pulled = {} /\ moves = 0
  BY DEF ProjectInit
<1>2. NoState \in StateFile /\ NoState.status # "ok" /\ \A n \in Names : NoState.sources[n] = Absent
  BY DEF NoState, StateFile, Statuses
<1>3. \A x : OwnersOf(db, x) = {}
  BY <1>1, <1>2 DEF OwnersOf, Recorded
<1>4. WikiInv
  BY <1>1, <1>2, <1>3 DEF WikiInv, WikiTyped, OrphanUnowned, OwnedLive
<1>5. SourcesInv
  <2>1. OnDisk = {}
    BY <1>1 DEF OnDisk
  <2> QED
    BY <1>1, <2>1 DEF SourcesInv, SourcesTyped, OneFilePerSource, OneAtATime, ScansHold, Writing
<1>6. ReportsTyped
  <2>1. NoLint \in LintCache
    BY DEF NoLint, LintCache
  <2> QED
    BY <1>1, <2>1, ProjectAssumption DEF ReportsTyped, Statuses, Sayings
<1> QED
  BY <1>4, <1>5, <1>6 DEF ProjectInv

LEMMA Moved ==
    ASSUME ReportsTyped, Move
    PROVE  moves' \in 0..MaxMoves
BY ProjectAssumption DEF ReportsTyped, Move

\* What the invariant and the action properties ask of one step.
StepSound == ProjectInv' /\ RepairComplete /\ IngestKeepsOthers /\ UnreadableKept

LEMMA IngestSteps ==
    ASSUME ProjectInv, NEW p \in Ingesters,
           \/ \E d \in Served, then \in {"nothing", "compile", "review"} : IngestScan(p, d[2], d[1], d[3], then)
           \/ saveSource(p)
    PROVE  StepSound
<1>0. WikiInv /\ SourcesInv /\ ReportsTyped
  BY DEF ProjectInv
<1>1. UNCHANGED <<db, pages, pending, bak>>
  BY DEF IngestScan, saveSource
<1>2. WikiInv' /\ UnreadableKept
  BY <1>0, <1>1, WikiRest DEF UnreadableKept
<1>3. SourcesInv' /\ IngestKeepsOthers
  <2>1. ASSUME NEW d \in Served, NEW then \in {"nothing", "compile", "review"},
               IngestScan(p, d[2], d[1], d[3], then)
        PROVE  SourcesInv' /\ IngestKeepsOthers
    BY <1>0, <2>1, ScanKeeps DEF IngestScan, IngestKeepsOthers
  <2>2. CASE saveSource(p)
    BY <1>0, <2>2, SaveKeeps
  <2> QED
    BY <2>1, <2>2
<1>4. ReportsTyped'
  <2>1. ASSUME NEW d \in Served, NEW then \in {"nothing", "compile", "review"},
               IngestScan(p, d[2], d[1], d[3], then)
        PROVE  ReportsTyped'
    BY <1>0, <2>1, Moved DEF IngestScan, ReportsTyped
  <2>2. CASE saveSource(p)
    <3>1. lintCache' \in {lintCache, Touch(lintCache, "sourcesNewer")} /\ says' \in {says, "ingest"}
      BY <2>2 DEF saveSource, finalizeFailure
    <3>2. lintCache' \in LintCache
      BY <1>0, <3>1, TouchTyped DEF ReportsTyped
    <3>3. moves' = moves
      BY <2>2 DEF saveSource
    <3> QED
      BY <1>0, <1>1, <3>1, <3>2, <3>3 DEF ReportsTyped, Sayings
  <2> QED
    BY <2>1, <2>2
<1> QED
  BY <1>0, <1>2, <1>3, <1>4, RefreshRepairs DEF StepSound, ProjectInv

LEMMA DeleteSteps ==
    ASSUME ProjectInv, NEW n \in Names, HandDelete(n)
    PROVE  StepSound
<1>0. WikiInv /\ SourcesInv /\ ReportsTyped
  BY DEF ProjectInv
<1>1. UNCHANGED <<db, pages, pending, bak, says>> /\ Move /\ lintCache' = Touch(lintCache, "sourcesNewer")
  BY DEF HandDelete
<1>2. WikiInv' /\ UnreadableKept
  BY <1>0, <1>1, WikiRest DEF UnreadableKept
<1>3. SourcesInv' /\ IngestKeepsOthers
  BY <1>0, HandDeleteKeeps
<1>4. lintCache' \in LintCache /\ moves' \in 0..MaxMoves
  BY <1>0, <1>1, Moved, TouchTyped DEF ReportsTyped
<1>5. ReportsTyped'
  BY <1>0, <1>1, <1>4 DEF ReportsTyped
<1> QED
  BY <1>0, <1>2, <1>3, <1>5, RefreshRepairs DEF StepSound, ProjectInv

LEMMA CompileSteps ==
    ASSUME ProjectInv, NEW review \in BOOLEAN, Compile(review) \/ RefreshStale
    PROVE  StepSound
<1>0. WikiInv /\ SourcesInv /\ ReportsTyped
  BY DEF ProjectInv
<1>1. PICK filter \in SUBSET Names, drafts \in BOOLEAN : RunCompile(filter, drafts)
  <2>1. makeChangeFilter \in SUBSET Names /\ Names \in SUBSET Names
    BY DEF makeChangeFilter, Changed, Deleted, OnDisk, Recorded
  <2> QED
    BY <2>1 DEF Compile, RefreshStale
<1>2. UNCHANGED <<files, ing, says, overlapped, pulled>> /\ Move
  BY DEF Compile, RefreshStale
<1>3. WikiInv' /\ bak' \in Statuses /\ lintCache' \in LintCache
  BY <1>0, <1>1, CompileKeeps DEF SourcesInv
<1>4. UnreadableKept
  BY <1>1 DEF RunCompile, ReadStateThrows, BackUpCorrupt, UnreadableKept
<1>5. ReportsTyped'
  BY <1>0, <1>2, <1>3, Moved DEF ReportsTyped
<1> QED
  BY <1>0, <1>2, <1>3, <1>4, <1>5, SourcesRest, RefreshRepairs DEF StepSound, ProjectInv

LEMMA ApproveSteps ==
    ASSUME ProjectInv, NEW x \in Topics, ReviewApprove(x)
    PROVE  StepSound
<1>0. WikiInv /\ SourcesInv /\ ReportsTyped
  BY DEF ProjectInv
<1>2. UNCHANGED <<files, ing, says, overlapped, pulled>> /\ Move
  BY DEF ReviewApprove
<1>3. WikiInv' /\ bak' \in Statuses /\ lintCache' \in LintCache
  BY <1>0, ApproveKeeps
<1>4. UnreadableKept
  <2>1. db.status = "too-new" => db' = db
    BY DEF ReviewApprove, ReadStateThrows
  <2>2. db.status = "corrupt" => bak' = "corrupt"
    BY DEF ReviewApprove, ReadStateThrows, BackUpCorrupt
  <2> QED
    BY <2>1, <2>2 DEF UnreadableKept
<1>5. ReportsTyped'
  BY <1>0, <1>2, <1>3, Moved DEF ReportsTyped
<1> QED
  BY <1>0, <1>2, <1>3, <1>4, <1>5, SourcesRest, RefreshRepairs DEF StepSound, ProjectInv

LEMMA StateFileSteps ==
    ASSUME ProjectInv, NEW status \in {"corrupt", "too-new"}, StateReset \/ StateDamaged(status)
    PROVE  StepSound
<1>0. WikiInv /\ SourcesInv /\ ReportsTyped /\ db \in StateFile
  BY DEF ProjectInv, WikiInv, WikiTyped
<1>2. UNCHANGED <<files, ing, says, overlapped, pulled, lintCache>> /\ Move
  BY DEF StateReset, StateDamaged
<1>3. WikiInv'
  BY <1>0, StateFileKeeps
<1>4. UnreadableKept
  BY DEF UnreadableKept, StateReset, StateDamaged
<1>5. bak' \in Statuses
  BY <1>0 DEF StateReset, StateDamaged, StateFile, ReportsTyped
<1>6. ReportsTyped'
  BY <1>0, <1>2, <1>5, Moved DEF ReportsTyped
<1> QED
  BY <1>0, <1>2, <1>3, <1>4, <1>6, SourcesRest, RefreshRepairs DEF StepSound, ProjectInv

LEMMA LintSteps ==
    ASSUME ProjectInv, NEW errors \in BOOLEAN, Lint(errors) \/ LintTorn
    PROVE  StepSound
<1>0. WikiInv /\ SourcesInv /\ ReportsTyped
  BY DEF ProjectInv
<1>2. UNCHANGED <<files, db, bak, pages, pending, ing, says, overlapped, pulled>> /\ Move
  BY DEF Lint, LintTorn
<1>3. lintCache' \in LintCache
  <2>1. CASE LintTorn
    BY <2>1 DEF LintTorn, NoLint, LintCache
  <2>2. CASE Lint(errors)
    <3> DEFINE A == StatusStale
               B == {x \in Live : pages[x].orphaned} \cup StatusOrphaned
    <3>1. A \subseteq Topics /\ B \subseteq Topics
      BY DEF StatusStale, StatusOrphaned, Live
    <3>2. lintCache' = [kind |-> "entry", stale |-> Cardinality(A), orphaned |-> Cardinality(B),
                        errors |-> errors, wikiNewer |-> FALSE, sourcesNewer |-> FALSE]
      BY <2>2 DEF Lint
    <3> HIDE DEF A, B
    <3>3. Cardinality(A) \in Nat /\ Cardinality(B) \in Nat
      BY <3>1, ProjectAssumption, FS_Subset, FS_CardinalityType
    <3> QED
      BY <3>2, <3>3 DEF LintCache
  <2> QED
    BY <2>1, <2>2
<1>4. WikiInv' /\ UnreadableKept
  BY <1>0, <1>2, WikiRest DEF UnreadableKept
<1>5. ReportsTyped'
  BY <1>0, <1>2, <1>3, Moved DEF ReportsTyped
<1> QED
  BY <1>0, <1>2, <1>4, <1>5, SourcesRest, RefreshRepairs DEF StepSound, ProjectInv

LEMMA QuickstartSteps ==
    ASSUME ProjectInv, NEW p \in Ingesters, NEW provider \in BOOLEAN, QuickstartCompile(p, provider)
    PROVE  StepSound
<1>0. WikiInv /\ SourcesInv /\ ReportsTyped
  BY DEF ProjectInv
<1>1. SourcesInv' /\ IngestKeepsOthers
  BY <1>0, QuickstartKeepsSources
<1> PICK review \in BOOLEAN : review = (ing[p].then = "review")
  OBVIOUS
<1>2. moves' = moves /\ says' \in Sayings
  <2>1. recommendNextAction' \in Sayings \cup {"view"}
    BY DEF recommendNextAction, Sayings
  <2>2. says' \in {deriveNextAction(review, TRUE)', deriveNextAction(review, FALSE)}
    BY DEF QuickstartCompile
  <2>3. deriveNextAction(review, TRUE)' \in Sayings /\ deriveNextAction(review, FALSE) \in Sayings
    BY <2>1 DEF deriveNextAction, Sayings
  <2> QED
    BY <2>2, <2>3 DEF QuickstartCompile
<1>3. RunCompile(Names, review) \/ UNCHANGED <<db, bak, pages, pending, lintCache>>
  BY DEF QuickstartCompile
<1>4. CASE RunCompile(Names, review)
  <2>1. WikiInv' /\ bak' \in Statuses /\ lintCache' \in LintCache
    BY <1>0, <1>4, CompileKeeps DEF SourcesInv
  <2>2. UnreadableKept
    BY <1>4 DEF RunCompile, ReadStateThrows, BackUpCorrupt, UnreadableKept
  <2>3. ReportsTyped'
    BY <1>0, <1>2, <2>1 DEF ReportsTyped
  <2> QED
    BY <1>0, <1>1, <2>1, <2>2, <2>3, RefreshRepairs DEF StepSound, ProjectInv
<1>5. CASE UNCHANGED <<db, bak, pages, pending, lintCache>>
  <2>1. WikiInv' /\ UnreadableKept
    BY <1>0, <1>5, WikiRest DEF UnreadableKept
  <2>2. ReportsTyped'
    BY <1>0, <1>2, <1>5 DEF ReportsTyped
  <2> QED
    BY <1>0, <1>1, <2>1, <2>2, RefreshRepairs DEF StepSound, ProjectInv
<1> QED
  BY <1>3, <1>4, <1>5

LEMMA ProjectSteps ==
    ASSUME ProjectInv, [ProjectNext]_projectVars
    PROVE  ProjectInv' /\ [RepairComplete /\ IngestKeepsOthers /\ UnreadableKept]_projectVars
<1>1. CASE ProjectNext
  <2>1. ASSUME NEW p \in Ingesters,
               \/ \E d \in Served, then \in {"nothing", "compile", "review"} :
                      IngestScan(p, d[2], d[1], d[3], then)
               \/ saveSource(p)
        PROVE  StepSound
    BY <2>1, IngestSteps
  <2>2. ASSUME NEW p \in Ingesters, NEW provider \in BOOLEAN, QuickstartCompile(p, provider) PROVE StepSound
    BY <2>2, QuickstartSteps
  <2>3. ASSUME NEW n \in Names, HandDelete(n) PROVE StepSound
    BY <2>3, DeleteSteps
  <2>4. ASSUME NEW review \in BOOLEAN, Compile(review) \/ RefreshStale PROVE StepSound
    BY <2>4, CompileSteps
  <2>5. ASSUME NEW x \in Topics, ReviewApprove(x) PROVE StepSound
    BY <2>5, ApproveSteps
  <2>6. ASSUME NEW status \in {"corrupt", "too-new"}, StateReset \/ StateDamaged(status) PROVE StepSound
    BY <2>6, StateFileSteps
  <2>7. ASSUME NEW errors \in BOOLEAN, Lint(errors) \/ LintTorn PROVE StepSound
    BY <2>7, LintSteps
  <2>8. StepSound
    BY <1>1, <2>1, <2>2, <2>3, <2>4, <2>5, <2>6, <2>7 DEF ProjectNext
  <2> QED
    BY <2>8 DEF StepSound
<1>2. CASE UNCHANGED projectVars
  <2>1. UNCHANGED <<files, db, bak, pages, pending, lintCache, ing, says, overlapped, pulled, moves>>
    BY <1>2 DEF projectVars
  <2>2. WikiInv' /\ SourcesInv'
    BY <2>1, WikiRest, SourcesRest DEF ProjectInv
  <2>3. ReportsTyped'
    BY <2>1 DEF ProjectInv, ReportsTyped
  <2> QED
    BY <1>2, <2>2, <2>3 DEF ProjectInv
<1> QED
  BY <1>1, <1>2

LEMMA ProjectTyped == ProjectInv => ProjectTypeOK
<1> SUFFICES ASSUME ProjectInv PROVE ProjectTypeOK
  OBVIOUS
<1>1. WikiTyped /\ SourcesTyped /\ ReportsTyped
  BY DEF ProjectInv, WikiInv, SourcesInv
<1>2. /\ db.status \in Statuses /\ db.sources \in [Names -> {Absent} \cup Entry]
      /\ db.frozen \in SUBSET Topics
  BY <1>1 DEF WikiTyped, StateFile
<1> QED
  BY <1>1, <1>2 DEF ProjectTypeOK, WikiTyped, SourcesTyped, ReportsTyped, Statuses, Sayings

\* Whatever ingests, compiles, reviews, refreshes, resets and edits follow each other:
\* the refresh plan and the reported freshness agree, a page marked orphaned has no
\* owner, and a source has one file unless ingests of it overlapped (refresh-plan.ts,
\* freshness.ts, orphan.ts, source-writer.ts), for any sources, concepts and bounds.
THEOREM ProjectStaysSound == ProjectSpec => []ProjectSound
<1>1. ProjectInit => ProjectInv
  BY ProjectInvInit
<1>2. ProjectInv /\ [ProjectNext]_projectVars => ProjectInv'
  BY ProjectSteps
<1>3. ProjectInv => ProjectSound
  BY ProjectTyped, PlanIsFreshness DEF ProjectInv, WikiInv, SourcesInv, ProjectSound
<1> QED
  BY <1>1, <1>2, <1>3, PTL DEF ProjectSpec

\* A refresh leaves nothing it was offered unrepaired but what awaited a review, no
\* ingest overwrites the file of another source that the author left in place, and an
\* unreadable state file is copied before it is replaced (commands/refresh.ts,
\* source-writer.ts, state.ts), for any sources, concepts and bounds.
THEOREM UpkeepIsSafe == ProjectSpec => UpkeepSteps
<1>1. ProjectInit => ProjectInv
  BY ProjectInvInit
<1>2. ProjectInv /\ [ProjectNext]_projectVars =>
         ProjectInv' /\ [RepairComplete /\ IngestKeepsOthers /\ UnreadableKept]_projectVars
  BY ProjectSteps
<1> QED
  BY <1>1, <1>2, PTL DEF ProjectSpec, UpkeepSteps

-----------------------------------------------------------------------------
(* Context packs: least, greatest and first.                               *)

LEMMA MinOfTwo == \A a, b \in Int : Min({a, b}) = IF a <= b THEN a ELSE b
BY DEF Min

LEMMA MaxOfTwo == \A a, b \in Int : Max({a, b}) = IF a <= b THEN b ELSE a
BY DEF Max

\* The greatest of some of the first n numbers.
LEMMA MaxOfMany ==
    ASSUME NEW n \in Nat, NEW S \in SUBSET (1..n), S # {}
    PROVE  Max(S) \in S /\ \A i \in S : i <= Max(S)
<1> DEFINE T == {n - i : i \in S}
<1>1. T \in SUBSET Nat /\ T # {}
  <2>1. \A i \in S : n - i \in Nat
    OBVIOUS
  <2> QED
    BY <2>1
<1>2. PICK t \in T : \A u \in T : t <= u
  BY <1>1, LeastNatural
<1>3. PICK m \in S : t = n - m
  OBVIOUS
<1>4. \A i \in S : n - i \in T /\ i \in Int
  OBVIOUS
<1>5. \A i \in S : m >= i
  BY <1>2, <1>3, <1>4
<1>6. \A x \in S : (\A y \in S : x >= y) => \A i \in S : i <= x
  OBVIOUS
<1> QED
  BY <1>3, <1>5, <1>6 DEF Max

LEMMA MinOfMany ==
    ASSUME NEW S \in SUBSET Nat, S # {}
    PROVE  Min(S) \in S /\ \A i \in S : Min(S) <= i
BY LeastNatural DEF Min

\* The first elements of a sequence.
LEMMA FirstOnes ==
    ASSUME NEW S, NEW s \in Seq(S), NEW n \in 0..Len(s)
    PROVE  /\ SubSeq(s, 1, n) \in Seq(S) /\ Len(SubSeq(s, 1, n)) = n
           /\ \A i \in 1..n : SubSeq(s, 1, n)[i] = s[i]
OBVIOUS

LEMMA AllButLast ==
    ASSUME NEW S, NEW s \in Seq(S), s # <<>>
    PROVE  /\ Front(s) \in Seq(S) /\ Len(s) >= 1 /\ Len(Front(s)) = Len(s) - 1
           /\ \A i \in 1..(Len(s) - 1) : Front(s)[i] = s[i]
<1>1. Len(s) \in Nat /\ Len(s) >= 1
  OBVIOUS
<1>2. Front(s) = SubSeq(s, 1, Len(s) - 1) /\ Len(s) - 1 \in 0..Len(s)
  BY <1>1 DEF Front
<1> DEFINE n == Len(s) - 1
<1> HIDE DEF n
<1>3. n \in 0..Len(s) /\ Front(s) = SubSeq(s, 1, n)
  BY <1>2 DEF n
<1>4. Front(s) \in Seq(S) /\ Len(Front(s)) = n /\ \A i \in 1..n : Front(s)[i] = s[i]
  BY <1>3, FirstOnes
<1> QED
  BY <1>1, <1>4 DEF n

StrictOrder(S, R) ==
    /\ \A x \in S : <<x, x>> \notin R
    /\ \A x, y \in S : x = y \/ <<x, y>> \in R \/ <<y, x>> \in R
    /\ \A x, y, z \in S : <<x, y>> \in R /\ <<y, z>> \in R => <<x, z>> \in R

\* Every element of a set in a strict total order has a rank of its own, and every rank
\* below its size is taken: Sorted lists the set, each element once, those before it first.
LEMMA SortedLists ==
    ASSUME NEW S, IsFiniteSet(S), NEW R, StrictOrder(S, R), NEW s, s = Sorted(S, R)
    PROVE  LET n == Cardinality(S)
           IN  /\ n \in Nat /\ s \in Seq(S) /\ Len(s) = n
               /\ \A i \in 1..n : Cardinality({y \in S : <<y, s[i]>> \in R}) = i - 1
               /\ \A x \in S : \E i \in 1..n : s[i] = x
               /\ \A i, j \in 1..n : s[i] = s[j] => i = j
<1> DEFINE n == Cardinality(S)
           Before(x) == {y \in S : <<y, x>> \in R}
           rank == [x \in S |-> Cardinality(Before(x))]
           Ranks == 0..(n - 1)
<1> HIDE DEF Before, n, rank, Ranks
<1>1. n \in Nat
  BY FS_CardinalityType DEF n
<1>2. \A x \in S : Before(x) \in SUBSET S /\ x \notin Before(x) /\ Before(x) # S
  BY DEF StrictOrder, Before
<1>3. \A x \in S : IsFiniteSet(Before(x)) /\ Cardinality(Before(x)) \in Nat /\ Cardinality(Before(x)) < n
  <2> TAKE x \in S
  <2>1. /\ IsFiniteSet(Before(x)) /\ Cardinality(Before(x)) <= n
        /\ n = Cardinality(Before(x)) => S = Before(x)
    BY <1>2, FS_Subset DEF n
  <2>2. Cardinality(Before(x)) \in Nat
    BY <2>1, FS_CardinalityType
  <2> QED
    BY <1>1, <1>2, <2>1, <2>2
<1>4. ASSUME NEW x \in S, NEW y \in S, <<x, y>> \in R
      PROVE  Cardinality(Before(x)) < Cardinality(Before(y))
  <2>1. Before(x) \in SUBSET Before(y) /\ x \in Before(y) /\ x \notin Before(x)
    BY <1>4 DEF StrictOrder, Before
  <2>2. /\ Cardinality(Before(x)) <= Cardinality(Before(y))
        /\ Cardinality(Before(y)) = Cardinality(Before(x)) => Before(y) = Before(x)
    BY <1>3, <2>1, FS_Subset
  <2> QED
    BY <1>3, <2>1, <2>2
<1>5. rank \in Injection(S, Ranks)
  <2>1. rank \in [S -> Ranks]
    <3>1. \A x \in S : Cardinality(Before(x)) \in Ranks
      BY <1>1, <1>3 DEF Ranks
    <3> QED
      BY <3>1 DEF rank
  <2>2. \A x, y \in S : rank[x] = rank[y] => x = y
    <3>1. ASSUME NEW x \in S, NEW y \in S, rank[x] = rank[y], x # y PROVE FALSE
      <4>1. <<x, y>> \in R \/ <<y, x>> \in R
        BY <3>1 DEF StrictOrder
      <4>2. rank[x] = Cardinality(Before(x)) /\ rank[y] = Cardinality(Before(y))
        BY DEF rank
      <4>3. Cardinality(Before(x)) \in Nat /\ Cardinality(Before(x)) = Cardinality(Before(y))
        BY <1>3, <3>1, <4>2
      <4>4. Cardinality(Before(x)) < Cardinality(Before(y))
            \/ Cardinality(Before(y)) < Cardinality(Before(x))
        BY <1>4, <4>1
      <4> QED
        BY <4>3, <4>4
    <3> QED
      BY <3>1
  <2> QED
    BY <2>1, <2>2 DEF Injection, IsInjective
<1>6. IsFiniteSet(Ranks) /\ Cardinality(Ranks) = n
  BY <1>1, FS_Interval DEF Ranks
<1>7. rank \in Surjection(S, Ranks)
  BY <1>5, <1>6, FS_Injection DEF n
<1>8. \A i \in 1..n : \E x \in S : Cardinality(Before(x)) = i - 1
  <2> TAKE i \in 1..n
  <2>1. i - 1 \in Ranks
    BY <1>1 DEF Ranks
  <2> QED
    BY <1>7, <2>1 DEF Surjection, rank
<1>9. s = [i \in 1..n |-> CHOOSE x \in S : Cardinality(Before(x)) = i - 1]
  BY DEF Sorted, n, Before
<1>10. \A i \in 1..n : s[i] \in S /\ Cardinality(Before(s[i])) = i - 1
  BY <1>8, <1>9
<1>11. s \in Seq(S) /\ Len(s) = n
  <2>1. s \in [1..n -> S]
    BY <1>9, <1>10
  <2> QED
    BY <1>1, <2>1
<1>12. \A x \in S : \E i \in 1..n : s[i] = x
  <2> TAKE x \in S
  <2>1. rank[x] \in Ranks
    BY <1>5 DEF Injection
  <2>2. rank[x] + 1 \in 1..n /\ rank[x] = (rank[x] + 1) - 1
    BY <1>1, <2>1 DEF Ranks
  <2>3. s[rank[x] + 1] \in S /\ rank[s[rank[x] + 1]] = rank[x]
    BY <1>10, <2>2 DEF rank
  <2> QED
    BY <1>5, <2>2, <2>3 DEF Injection, IsInjective
<1>13. \A i, j \in 1..n : s[i] = s[j] => i = j
  BY <1>1, <1>10
<1> QED
  BY <1>1, <1>10, <1>11, <1>12, <1>13 DEF n, Before

\* What a function takes on a finite set is a finite set.
LEMMA FiniteValues ==
    ASSUME NEW S, IsFiniteSet(S), NEW f, DOMAIN f = S, f = [x \in S |-> f[x]]
    PROVE  /\ IsFiniteSet({f[x] : x \in S})
           /\ Cardinality({f[x] : x \in S}) <= Cardinality(S)
<1>1. f \in Surjection(S, {f[x] : x \in S})
  BY DEF Surjection
<1> QED
  BY <1>1, FS_Surjection

\* The number of items is a natural, and grows with the counts.
LEMMA ItemsAreFinite ==
    ASSUME NEW n \in Nat, NEW c \in [1..n -> Nat]
    PROVE  IsFiniteSet(Items(c)) /\ Total(c) \in Nat
<1> DEFINE f == [i \in 1..n |-> {i} \X (1..c[i])]
           T == {f[i] : i \in 1..n}
<1>1. \A i \in 1..n : IsFiniteSet(f[i])
  <2> TAKE i \in 1..n
  <2>1. IsFiniteSet({i})
    BY FS_Singleton
  <2>2. 1 \in Int /\ c[i] \in Int
    OBVIOUS
  <2>3. IsFiniteSet(1..c[i])
    BY ONLY <2>2, FS_Interval
  <2> QED
    BY <2>1, <2>3, FS_Product
<1>2. IsFiniteSet(1..n)
  BY FS_Interval
<1>3. Items(c) = UNION T
  BY DEF Items
<1>4. DOMAIN f = 1..n /\ f = [i \in 1..n |-> f[i]]
  OBVIOUS
<1> HIDE DEF f
<1>5. IsFiniteSet(T)
  BY <1>2, <1>4, FiniteValues
<1>6. \A t \in T : IsFiniteSet(t)
  BY <1>1
<1> QED
  BY <1>3, <1>5, <1>6, FS_UNION, FS_CardinalityType DEF Total

\* With fewer places and less in each of them there are fewer items.
LEMMA FewerItems ==
    ASSUME NEW n \in Nat, NEW c \in [1..n -> Nat], NEW m \in 0..n, NEW d \in [1..m -> Nat],
           \A i \in 1..m : d[i] <= c[i]
    PROVE  Total(d) <= Total(c)
<1>1. Items(d) \in SUBSET Items(c)
  BY DEF Items
<1> QED
  BY <1>1, ItemsAreFinite, FS_Subset DEF Total
-----------------------------------------------------------------------------
(* Context packs: ranking.                                                 *)

Ranked == [id : Nodes, score : Int, linked : BOOLEAN, chunks : Nat, windows : Nat, tiers : Nat]

LEMMA VisiblePages ==
    ASSUME NEW a \in Requests
    PROVE  /\ Visible(a) \in SUBSET (ConceptPages \cup EntityPages)
           /\ Visible(a) \in SUBSET Nodes /\ Visible(a) \cap Ghosts = {} /\ Visible(a) \in SUBSET Nat
           /\ IsFiniteSet(Visible(a))
<1>1. Visible(a) \in SUBSET (ConceptPages \cup EntityPages)
  BY DEF Visible
<1>2. Visible(a) \in SUBSET Nodes /\ Visible(a) \cap Ghosts = {} /\ Visible(a) \in SUBSET Nat
  <2>1. Nodes \in SUBSET Nat /\ (ConceptPages \cup EntityPages) \cap Ghosts = {}
    BY ContextAssumption
  <2>2. ConceptPages \cup EntityPages \in SUBSET Nodes
    BY DEF Nodes
  <2> QED
    BY <1>1, <2>1, <2>2
<1>3. IsFiniteSet(Nodes)
  BY ContextAssumption
<1>4. IsFiniteSet(Visible(a))
  BY <1>2, <1>3, FS_Subset
<1> QED
  BY <1>1, <1>2, <1>4

LEMMA WeightIsNumber ==
    ASSUME NEW a \in Requests, NEW p \in Visible(a)
    PROVE  Weight(a, p) \in Int /\ Hits(a, p) \in Nat
<1>1. a.hits[p] \in Nat
  BY VisiblePages DEF Requests
<1>2. Hits(a, p) \in Nat
  BY <1>1 DEF Hits
<1>3. Min({Hits(a, p) - 1, 3}) \in Int
  BY <1>2, MinOfTwo
<1> DEFINE lexical == IF p \notin searchPages(a) THEN 0 ELSE IF a.match[p] = "title" THEN 50 ELSE 30
           exact == (IF "slug" \in a.exact[p] THEN 40 ELSE 0) + (IF "title" \in a.exact[p] THEN 50 ELSE 0)
           semantic == IF Hits(a, p) = 0 THEN 0 ELSE 50 + 5 * Min({Hits(a, p) - 1, 3})
<1>4. lexical \in Int /\ exact \in Int
  OBVIOUS
<1>5. semantic \in Int
  BY <1>3
<1>6. Weight(a, p) = lexical + exact + semantic
  BY DEF Weight
<1> HIDE DEF lexical, exact, semantic
<1> QED
  BY <1>2, <1>4, <1>5, <1>6

\* A sequence that is cut at a bound.
LEMMA Cut ==
    ASSUME NEW S, NEW s \in Seq(S), NEW m \in Nat
    PROVE  LET c == SubSeq(s, 1, Min({Len(s), m}))
           IN  /\ c \in Seq(S) /\ Len(c) <= m /\ Len(c) <= Len(s)
               /\ \A i \in 1..Len(c) : c[i] = s[i]
               /\ Len(c) < m => Len(c) = Len(s)
<1> DEFINE n == Min({Len(s), m})
           c == SubSeq(s, 1, n)
<1>1. n = (IF Len(s) <= m THEN Len(s) ELSE m) /\ Len(s) \in Nat
  BY MinOfTwo
<1>2. n \in 0..Len(s)
  BY <1>1
<1> HIDE DEF n
<1>3. c \in Seq(S) /\ Len(c) = n /\ \A i \in 1..n : c[i] = s[i]
  BY <1>2, FirstOnes
<1> HIDE DEF c
<1>4. c \in Seq(S) /\ Len(c) <= m /\ Len(c) <= Len(s) /\ (\A i \in 1..Len(c) : c[i] = s[i])
      /\ (Len(c) < m => Len(c) = Len(s))
  BY <1>1, <1>3
<1> QED
  BY <1>4 DEF c, n

\* The ranking lists visible pages, no more than were asked for, with nothing attached.
LEMMA RankedPages ==
    ASSUME NEW a \in Requests
    PROVE  LET full == rankPages(a)
           IN  /\ full \in Seq(Ranked) /\ Len(full) \in Nat /\ Len(full) <= a.topPages
               /\ \A i \in 1..Len(full) :
                     /\ full[i].id \in Visible(a) /\ full[i].linked = FALSE
                     /\ full[i].windows = 0 /\ full[i].tiers = 0
<1> DEFINE V == Visible(a)
           w == [p \in V |-> Weight(a, p)]
           better == {e \in V \X V : w[e[1]] > w[e[2]] \/ (w[e[1]] = w[e[2]] /\ e[1] < e[2])}
           found == {p \in V : Row(a, p)}
           rows == Sorted(found, better)
           top == SubSeq(rows, 1, Min({Len(rows), a.topPages}))
<1>1. w \in [V -> Int] /\ V \in SUBSET Nat
  BY WeightIsNumber, VisiblePages
<1>2. found \in SUBSET V /\ IsFiniteSet(found)
  BY VisiblePages, FS_Subset
<1> HIDE DEF V, w, found
<1>3. StrictOrder(found, better)
  <2>1. \A x, y \in found : <<x, y>> \in better <=> w[x] > w[y] \/ (w[x] = w[y] /\ x < y)
    BY <1>2
  <2>2. \A x \in found : w[x] \in Int /\ x \in Nat
    BY <1>1, <1>2
  <2> HIDE DEF better
  <2>3. \A x, y, z \in found : <<x, y>> \in better /\ <<y, z>> \in better => <<x, z>> \in better
    BY <2>1, <2>2
  <2>4. ASSUME NEW x \in found, NEW y \in found PROVE x = y \/ <<x, y>> \in better \/ <<y, x>> \in better
    <3>1. w[x] > w[y] \/ w[y] > w[x] \/ (w[x] = w[y] /\ (x = y \/ x < y \/ y < x))
      BY <2>2
    <3> QED
      BY <2>1, <3>1
  <2>5. \A x \in found : <<x, x>> \notin better
    BY <2>1, <2>2
  <2> QED
    BY <2>3, <2>4, <2>5 DEF StrictOrder
<1> HIDE DEF better
<1>4. rows \in Seq(found)
  BY <1>2, <1>3, SortedLists
<1>5. a.topPages \in Nat
  BY DEF Requests
<1> HIDE DEF rows
<1>6. top \in Seq(found) /\ Len(top) <= a.topPages /\ Len(top) \in Nat
  <2>1. top \in Seq(found) /\ Len(top) <= a.topPages
    BY ONLY <1>4, <1>5, Cut
  <2> HIDE DEF top
  <2> QED
    BY <2>1
<1> HIDE DEF top
<1>7. rankPages(a) = [i \in DOMAIN top |-> Primary(a, top[i])]
  BY DEF rankPages, top, rows, better, found, w, V
<1>8. DOMAIN top = 1..Len(top) /\ \A i \in 1..Len(top) : top[i] \in found
  BY <1>6
<1>9. ASSUME NEW p \in V
      PROVE  /\ Primary(a, p) \in Ranked /\ Primary(a, p).id = p /\ Primary(a, p).linked = FALSE
             /\ Primary(a, p).windows = 0 /\ Primary(a, p).tiers = 0
  <2>1. Weight(a, p) \in Int /\ Hits(a, p) \in Nat
    BY <1>9, WeightIsNumber DEF V
  <2>2. Min({Weight(a, p), 100}) \in Int
    BY <2>1, MinOfTwo
  <2>3. p \in Nodes
    BY <1>9, VisiblePages DEF V
  <2> QED
    BY <2>1, <2>2, <2>3 DEF Primary, Ranked
<1>10. \A i \in 1..Len(top) : top[i] \in V
  BY <1>2, <1>8
<1> DEFINE n == Len(top)
           full == rankPages(a)
<1>11. n \in Nat /\ n <= a.topPages
  BY <1>6
<1>12. full = [i \in 1..n |-> Primary(a, top[i])]
  BY <1>7, <1>8
<1> HIDE DEF n, full
<1>13. \A i \in 1..n : full[i] \in Ranked
  BY <1>9, <1>10, <1>12 DEF n
<1>14. full \in Seq(Ranked) /\ Len(full) = n
  BY <1>11, <1>12, <1>13
<1>15. \A i \in 1..n : /\ full[i].id \in V /\ full[i].linked = FALSE
                       /\ full[i].windows = 0 /\ full[i].tiers = 0
  BY <1>9, <1>10, <1>12 DEF n
<1> QED
  BY <1>11, <1>14, <1>15 DEF full, V

-----------------------------------------------------------------------------
(* Context packs: the neighborhood.                                        *)

Neighbors ==
    [from : Nodes, to : Nodes, distance : {1, 2}, score : Int,
     direction : {"outgoing", "incoming"}, reason : {"wikilink", "relation"}]

NeighborsReal(a, s, prim) ==
    \A i \in DOMAIN s :
        /\ s[i].to \notin prim \cup Ghosts
        /\ s[i].to \in Adjacent(a, s[i].from)
        /\ s[i].distance = 1 <=> s[i].to \in Ring(a, prim)
        /\ s[i].from \in (IF s[i].distance = 1 THEN prim ELSE Ring(a, prim))

\* The order in which neighbors are listed is strict and total as long as an origin, a
\* target and a score make one neighbor, and whatever is scored higher comes before.
LEMMA NearestLists ==
    ASSUME NEW found, IsFiniteSet(found), NEW met \in Seq(Nodes),
           \A x \in found : x.score \in Int /\ x.to \in Nat /\ x.from \in ToSet(met),
           \A x, y \in found :
              x.from = y.from /\ x.to = y.to /\ x.score = y.score => x = y
    PROVE  LET s == Nearest(found, met)
           IN  /\ s \in Seq(found)
               /\ \A x \in found : \E i \in 1..Len(s) : s[i] = x
               /\ \A i, j \in 1..Len(s) : s[i] = s[j] => i = j
               /\ \A i \in 1..Len(s), T \in SUBSET found :
                     (\A y \in T : y.score > s[i].score) => Cardinality(T) < i
<1> DEFINE first(n) == Min({i \in DOMAIN met : met[i] = n})
           before == {e \in found \X found :
              \/ e[1].score > e[2].score
              \/ e[1].score = e[2].score /\ e[1].to < e[2].to
              \/ e[1].score = e[2].score /\ e[1].to = e[2].to /\ first(e[1].from) < first(e[2].from)}
           s == Nearest(found, met)
<1>1. \A n \in ToSet(met) : first(n) \in Nat /\ met[first(n)] = n
  <2> TAKE n \in ToSet(met)
  <2>1. {i \in DOMAIN met : met[i] = n} \in SUBSET Nat /\ {i \in DOMAIN met : met[i] = n} # {}
    BY DEF ToSet
  <2> QED
    BY <2>1, MinOfMany
<1> HIDE DEF first
<1>2. \A x, y \in found : <<x, y>> \in before <=>
              \/ x.score > y.score
              \/ x.score = y.score /\ x.to < y.to
              \/ x.score = y.score /\ x.to = y.to /\ first(x.from) < first(y.from)
  OBVIOUS
<1>3. s = Sorted(found, before)
  BY DEF Nearest, first
<1> HIDE DEF before, s
<1>4. \A x \in found : x.score \in Int /\ x.to \in Nat /\ first(x.from) \in Nat
  BY <1>1
<1>5. StrictOrder(found, before)
  <2>1. ASSUME NEW x \in found PROVE <<x, x>> \notin before
    BY <1>2, <1>4
  <2>2. ASSUME NEW x \in found, NEW y \in found PROVE x = y \/ <<x, y>> \in before \/ <<y, x>> \in before
    <3>1. CASE x.score # y.score \/ x.to # y.to \/ first(x.from) # first(y.from)
      BY <1>2, <1>4, <3>1
    <3>2. CASE x.score = y.score /\ x.to = y.to /\ first(x.from) = first(y.from)
      BY <1>1, <3>2
    <3> QED
      BY <3>1, <3>2
  <2>3. ASSUME NEW x \in found, NEW y \in found, NEW z \in found, <<x, y>> \in before, <<y, z>> \in before
        PROVE  <<x, z>> \in before
    <3>1. /\ x.score \in Int /\ x.to \in Nat /\ first(x.from) \in Nat
          /\ y.score \in Int /\ y.to \in Nat /\ first(y.from) \in Nat
          /\ z.score \in Int /\ z.to \in Nat /\ first(z.from) \in Nat
      BY <1>4
    <3>2. \/ x.score > y.score
          \/ x.score = y.score /\ x.to < y.to
          \/ x.score = y.score /\ x.to = y.to /\ first(x.from) < first(y.from)
      BY <1>2, <2>3
    <3>3. \/ y.score > z.score
          \/ y.score = z.score /\ y.to < z.to
          \/ y.score = z.score /\ y.to = z.to /\ first(y.from) < first(z.from)
      BY <1>2, <2>3
    <3>4. \/ x.score > z.score
          \/ x.score = z.score /\ x.to < z.to
          \/ x.score = z.score /\ x.to = z.to /\ first(x.from) < first(z.from)
      BY ONLY <3>1, <3>2, <3>3
    <3> QED
      BY <1>2, <3>4
  <2> QED
    BY <2>1, <2>2, <2>3 DEF StrictOrder
<1> DEFINE n == Cardinality(found)
<1>6. /\ n \in Nat /\ s \in Seq(found) /\ Len(s) = n
      /\ \A i \in 1..n : Cardinality({y \in found : <<y, s[i]>> \in before}) = i - 1
      /\ \A x \in found : \E i \in 1..n : s[i] = x
      /\ \A i, j \in 1..n : s[i] = s[j] => i = j
  BY ONLY IsFiniteSet(found), <1>3, <1>5, SortedLists
<1>7. ASSUME NEW i \in 1..Len(s), NEW T \in SUBSET found, \A y \in T : y.score > s[i].score
      PROVE  Cardinality(T) < i
  <2> DEFINE B == {y \in found : <<y, s[i]>> \in before}
  <2>1. s[i] \in found
    BY <1>6
  <2>2. T \in SUBSET B /\ B \in SUBSET found
    BY <1>2, <1>7, <2>1
  <2>3. Cardinality(B) = i - 1
    BY <1>6
  <2> HIDE DEF B
  <2>4. IsFiniteSet(B) /\ IsFiniteSet(T)
    BY <2>2, FS_Subset
  <2>5. Cardinality(T) <= Cardinality(B) /\ Cardinality(T) \in Nat
    BY <2>2, <2>4, FS_Subset, FS_CardinalityType
  <2> QED
    BY <2>3, <2>5
<1> QED
  BY <1>6, <1>7 DEF s

LEMMA AdjacentNodes ==
    ASSUME NEW a, NEW n
    PROVE  Adjacent(a, n) \in SUBSET Nodes
BY DEF Adjacent, Out, In

LEMMA ScoredBetween ==
    ASSUME NEW a, NEW n, NEW m, NEW base \in Int
    PROVE  Scored(a, base, n, m) \in base..(base + 3)
BY DEF Scored

LEMMA OneScoreBetween ==
    ASSUME NEW a, NEW prim, IsFiniteSet(prim), NEW p, NEW n
    PROVE  OneScore(a, prim, p, n) \in 50..100
<1> DEFINE c == Connections(a, prim, n)
           d == Max({0, c - 1})
           e == Min({d, 3})
           f == Scored(a, 50, p, n)
<1>1. c \in Nat
  <2> DEFINE A == {q \in prim : n \in Out(a, q)}
             B == {q \in prim : n \in In(a, q)}
  <2>1. A \in SUBSET prim /\ B \in SUBSET prim
    OBVIOUS
  <2>2. c = Cardinality(A) + Cardinality(B)
    BY DEF Connections
  <2> HIDE DEF A, B, c
  <2>3. IsFiniteSet(A) /\ IsFiniteSet(B)
    BY <2>1, FS_Subset
  <2>4. Cardinality(A) \in Nat /\ Cardinality(B) \in Nat
    BY <2>3, FS_CardinalityType
  <2> QED
    BY <2>2, <2>4
<1> HIDE DEF c
<1>2. d \in Nat
  BY <1>1, MaxOfTwo
<1> HIDE DEF d
<1>3. e \in 0..3
  BY <1>2, MinOfTwo
<1>4. f \in 50..53
  BY ScoredBetween
<1>5. OneScore(a, prim, p, n) = Min({100, f + 5 * e})
  BY DEF OneScore, c, d
<1> HIDE DEF e, f
<1>6. f + 5 * e \in Int /\ f + 5 * e >= 50
  BY <1>3, <1>4
<1> QED
  BY <1>5, <1>6, MinOfTwo

\* The nodes that a link or a relation joins to a set of origins, one neighbor for each
\* pair, are finitely many.
LEMMA StepsAreFinite ==
    ASSUME NEW a, NEW from \in SUBSET Nodes, NEW past
    PROVE  /\ IsFiniteSet(Steps(a, from, past))
           /\ \A e \in Steps(a, from, past) :
                 /\ e = <<e[1], e[2]>> /\ e[1] \in from
                 /\ e[2] \in Nodes /\ e[2] \notin Ghosts \cup past /\ e[2] \in Adjacent(a, e[1])
           /\ \A p \in from, n \in Nodes :
                 n \notin Ghosts \cup past /\ n \in Adjacent(a, p) => <<p, n>> \in Steps(a, from, past)
<1>1. IsFiniteSet(Nodes)
  BY ContextAssumption
<1>2. IsFiniteSet(Nodes \X Nodes)
  BY <1>1, FS_Product
<1>3. Steps(a, from, past) \in SUBSET (Nodes \X Nodes)
  BY DEF Steps
<1>4. IsFiniteSet(Steps(a, from, past))
  BY <1>2, <1>3, FS_Subset
<1> QED
  BY <1>4 DEF Steps

\* A neighbor is what its edge makes of it.
LEMMA NeighborIs ==
    ASSUME NEW a, NEW p \in Nodes, NEW n \in Nodes, NEW d \in {1, 2}, NEW score \in Int
    PROVE  LET x == Neighbor(a, p, n, d, score)
           IN  /\ x \in Neighbors
               /\ x.from = p /\ x.to = n /\ x.distance = d /\ x.score = score
BY DEF Neighbor, Neighbors, Reason

\* The first ring of the walk is the set of pages next to a primary one.
LEMMA FirstRing ==
    ASSUME NEW a \in Requests, NEW prim \in SUBSET Nodes
    PROVE  LET D == expandDepthOne(a, prim)
           IN  /\ IsFiniteSet(D) /\ D \in SUBSET Neighbors
               /\ \A x \in D : /\ x.from \in prim /\ x.to \in Ring(a, prim) /\ x.distance = 1
                               /\ x.to \in Adjacent(a, x.from) /\ x.score >= 50
               /\ \A x, y \in D : x.from = y.from /\ x.to = y.to => x = y
               /\ \A n \in Ring(a, prim) : \E x \in D : x.to = n
<1> DEFINE S == Steps(a, prim, prim)
           f == [e \in S |-> Neighbor(a, e[1], e[2], 1, OneScore(a, prim, e[1], e[2]))]
           D == expandDepthOne(a, prim)
<1>1. IsFiniteSet(prim)
  BY FS_Subset, ContextAssumption
<1>2. /\ IsFiniteSet(S)
      /\ \A e \in S : /\ e = <<e[1], e[2]>> /\ e[1] \in prim
                      /\ e[2] \in Nodes /\ e[2] \notin Ghosts \cup prim /\ e[2] \in Adjacent(a, e[1])
      /\ \A p \in prim, n \in Nodes :
            n \notin Ghosts \cup prim /\ n \in Adjacent(a, p) => <<p, n>> \in S
  BY StepsAreFinite
<1> HIDE DEF S
<1>3. D = {f[e] : e \in S}
  BY DEF expandDepthOne, S
<1> HIDE DEF D
<1>4. DOMAIN f = S /\ f = [e \in S |-> f[e]]
  OBVIOUS
<1>5. ASSUME NEW e \in S
      PROVE  /\ f[e] \in Neighbors /\ f[e].from = e[1] /\ f[e].to = e[2] /\ f[e].distance = 1
             /\ f[e].score >= 50
  <2>1. OneScore(a, prim, e[1], e[2]) \in 50..100
    BY <1>1, OneScoreBetween
  <2> DEFINE score == OneScore(a, prim, e[1], e[2])
  <2>2. score \in Int /\ score >= 50 /\ e[1] \in Nodes /\ e[2] \in Nodes
    BY <1>2, <2>1
  <2>3. f[e] = Neighbor(a, e[1], e[2], 1, score)
    OBVIOUS
  <2> HIDE DEF score, f
  <2>4. ASSUME NEW p \in Nodes, NEW n \in Nodes, NEW v \in Int
        PROVE  LET x == Neighbor(a, p, n, 1, v)
               IN  /\ x \in Neighbors /\ x.from = p /\ x.to = n
                   /\ x.distance = 1 /\ x.score = v
    BY DEF Neighbor, Neighbors, Reason
  <2> DEFINE x == Neighbor(a, e[1], e[2], 1, score)
  <2>5. x \in Neighbors /\ x.from = e[1] /\ x.to = e[2] /\ x.distance = 1 /\ x.score = score
    BY <2>2, <2>4
  <2> HIDE DEF x
  <2> QED
    BY <2>2, <2>3, <2>5 DEF x
<1> HIDE DEF f
<1>6. IsFiniteSet(D)
  BY <1>2, <1>3, <1>4, FiniteValues
<1>7. ASSUME NEW x \in D
      PROVE  /\ x \in Neighbors /\ x.from \in prim /\ x.to \in Ring(a, prim) /\ x.distance = 1
             /\ x.to \in Adjacent(a, x.from) /\ x.score >= 50
             /\ \E e \in S : e = <<x.from, x.to>> /\ x = f[e]
  <2>1. PICK e \in S : x = f[e]
    BY <1>3, <1>7
  <2>2. x.from = e[1] /\ x.to = e[2] /\ e = <<e[1], e[2]>>
    BY <1>2, <1>5, <2>1
  <2>3. x.to \in Ring(a, prim)
    BY <1>2, <2>2 DEF Ring
  <2> QED
    BY <1>2, <1>5, <2>1, <2>2, <2>3
<1>8. \A x, y \in D : x.from = y.from /\ x.to = y.to => x = y
  BY <1>7
<1>9. ASSUME NEW n \in Ring(a, prim) PROVE \E x \in D : x.to = n
  <2>1. PICK p \in prim : n \in Adjacent(a, p)
    BY DEF Ring
  <2>2. n \in Nodes /\ n \notin Ghosts \cup prim
    BY <2>1, AdjacentNodes DEF Ring
  <2>3. <<p, n>> \in S
    BY <1>2, <2>1, <2>2
  <2> QED
    BY <1>3, <1>5, <2>3
<1> QED
  BY <1>6, <1>7, <1>8, <1>9 DEF D

\* The second ring holds pages that neither ring nor pack has.
LEMMA SecondRing ==
    ASSUME NEW a \in Requests, NEW prim \in SUBSET Nodes, NEW bridges \in SUBSET Nodes
    PROVE  LET D == expandDepthTwo(a, prim, bridges)
           IN  /\ IsFiniteSet(D) /\ D \in SUBSET Neighbors
               /\ \A x \in D : /\ x.from \in bridges /\ x.to \notin Ghosts \cup prim \cup bridges
                               /\ x.distance = 2 /\ x.to \in Adjacent(a, x.from) /\ x.score < 50
               /\ \A x, y \in D : x.from = y.from /\ x.to = y.to => x = y
<1> DEFINE past == prim \cup bridges
           S == Steps(a, bridges, past)
           f == [e \in S |-> Neighbor(a, e[1], e[2], 2, Scored(a, 25, e[1], e[2]))]
           D == expandDepthTwo(a, prim, bridges)
<1> HIDE DEF past
<1>1. /\ IsFiniteSet(S)
      /\ \A e \in S : /\ e = <<e[1], e[2]>> /\ e[1] \in bridges /\ e[2] \in Nodes
                      /\ e[2] \notin Ghosts \cup past /\ e[2] \in Adjacent(a, e[1])
      /\ \A p \in bridges, n \in Nodes :
            n \notin Ghosts \cup past /\ n \in Adjacent(a, p) => <<p, n>> \in S
  BY StepsAreFinite
<1> HIDE DEF S
<1>2. D = {f[e] : e \in S}
  BY DEF expandDepthTwo, S, past
<1> HIDE DEF D
<1>3. DOMAIN f = S /\ f = [e \in S |-> f[e]]
  OBVIOUS
<1>4. ASSUME NEW e \in S
      PROVE  /\ f[e] \in Neighbors /\ f[e].from = e[1] /\ f[e].to = e[2] /\ f[e].distance = 2
             /\ f[e].score < 50
  <2> DEFINE score == Scored(a, 25, e[1], e[2])
  <2>1. score \in 25..28
    BY ScoredBetween
  <2>2. score \in Int /\ score < 50 /\ e[1] \in Nodes /\ e[2] \in Nodes /\ 2 \in {1, 2}
    BY <1>1, <2>1
  <2>3. f[e] = Neighbor(a, e[1], e[2], 2, score)
    OBVIOUS
  <2> HIDE DEF score, f
  <2> DEFINE p == e[1]
             n == e[2]
  <2>4. p \in Nodes /\ n \in Nodes /\ f[e] = Neighbor(a, p, n, 2, score)
    BY <2>2, <2>3
  <2> HIDE DEF p, n
  <2>5. /\ f[e] \in Neighbors /\ f[e].from = p /\ f[e].to = n /\ f[e].distance = 2
        /\ f[e].score = score
    BY ONLY <2>2, <2>4, NeighborIs
  <2> QED
    BY <2>2, <2>5 DEF p, n
<1> HIDE DEF f
<1>5. IsFiniteSet(D)
  BY <1>1, <1>2, <1>3, FiniteValues
<1>6. ASSUME NEW x \in D
      PROVE  /\ x \in Neighbors /\ x.from \in bridges /\ x.to \notin Ghosts \cup prim \cup bridges
             /\ x.distance = 2 /\ x.to \in Adjacent(a, x.from) /\ x.score < 50
             /\ \E e \in S : e = <<x.from, x.to>> /\ x = f[e]
  <2>1. PICK e \in S : x = f[e]
    BY <1>2, <1>6
  <2>2. x.from = e[1] /\ x.to = e[2] /\ e = <<e[1], e[2]>>
    BY <1>1, <1>4, <2>1
  <2> QED
    BY <1>1, <1>4, <2>1, <2>2 DEF past
<1>7. \A x, y \in D : x.from = y.from /\ x.to = y.to => x = y
  BY <1>6
<1> QED
  BY <1>5, <1>6, <1>7 DEF D

LEMMA ListedTargets ==
    ASSUME NEW s \in Seq(Neighbors)
    PROVE  /\ Targets(s) \in Seq(Nodes) /\ Len(Targets(s)) = Len(s)
           /\ ToSet(Targets(s)) = {s[i].to : i \in 1..Len(s)}
           /\ ToSet(s) = {s[i] : i \in 1..Len(s)}
<1>1. DOMAIN s = 1..Len(s) /\ Len(s) \in Nat
  OBVIOUS
<1>2. Targets(s) = [i \in 1..Len(s) |-> s[i].to]
  BY <1>1 DEF Targets
<1>3. \A i \in 1..Len(s) : s[i] \in Neighbors
  OBVIOUS
<1>4. \A i \in 1..Len(s) : s[i].to \in Nodes
  BY <1>3 DEF Neighbors
<1>5. Targets(s) \in Seq(Nodes) /\ Len(Targets(s)) = Len(s)
  BY <1>1, <1>2, <1>4
<1>6. \A i \in 1..Len(s) : Targets(s)[i] = s[i].to
  BY <1>2
<1>7. ToSet(Targets(s)) = {s[i].to : i \in 1..Len(s)}
  BY <1>1, <1>2 DEF ToSet
<1>8. ToSet(s) = {s[i] : i \in 1..Len(s)}
  BY <1>1 DEF ToSet
<1> QED
  BY <1>5, <1>7, <1>8

\* A list without repetition has as many elements as places.
LEMMA ListedOnce ==
    ASSUME NEW S, NEW s \in Seq(S), \A i, j \in 1..Len(s) : s[i] = s[j] => i = j
    PROVE  /\ IsFiniteSet(ToSet(s)) /\ Cardinality(ToSet(s)) \in Nat
           /\ Len(s) <= Cardinality(ToSet(s))
<1> DEFINE D == 1..Len(s)
           T == ToSet(s)
<1>1. DOMAIN s = D /\ Len(s) \in Nat /\ s \in [D -> S]
  OBVIOUS
<1>2. s = [i \in D |-> s[i]] /\ T = {s[i] : i \in D}
  BY <1>1 DEF ToSet
<1>3. IsFiniteSet(D) /\ Cardinality(D) = Len(s)
  BY <1>1, FS_Interval
<1> HIDE DEF D, T
<1>4. IsFiniteSet(T)
  BY <1>1, <1>2, <1>3, FiniteValues
<1>5. s \in Injection(D, T)
  <2>1. s \in [D -> T]
    BY <1>2
  <2>2. \A i, j \in D : s[i] = s[j] => i = j
    BY DEF D
  <2> QED
    BY <2>1, <2>2 DEF Injection, IsInjective
<1>6. Cardinality(D) <= Cardinality(T)
  BY <1>4, <1>5, FS_Injection
<1> QED
  BY <1>3, <1>4, <1>6, FS_CardinalityType DEF T

\* The neighborhood holds real distances.  A page of the first ring that the cap cut off
\* cannot return as a second hop: the cap is then full of neighbors with a higher score.
LEMMA ExpandedNeighborhood ==
    ASSUME NEW a \in Requests, NEW primary \in Seq(Ranked)
    PROVE  LET s == expandGraphNeighborhood(a, primary)
               prim == {primary[i].id : i \in DOMAIN primary}
           IN  s \in Seq(Neighbors) /\ Len(s) <= MaxNeighbors /\ NeighborsReal(a, s, prim)
<1> DEFINE met == [i \in DOMAIN primary |-> primary[i].id]
           prim == {primary[i].id : i \in DOMAIN primary}
           near == expandDepthOne(a, prim)
           nearest == Nearest(near, met)
           one == Capped(nearest)
           bridges == ToSet(Targets(one))
           two == IF a.depth < 2 THEN {} ELSE expandDepthTwo(a, prim, bridges)
           all == ToSet(one) \cup two
           walked == met \o Targets(one)
           listed == Nearest(all, walked)
           s == expandGraphNeighborhood(a, primary)
<1>1. DOMAIN primary = 1..Len(primary) /\ Len(primary) \in Nat /\ \A i \in 1..Len(primary) : primary[i] \in Ranked
  OBVIOUS
<1>2. met \in Seq(Nodes) /\ ToSet(met) = prim /\ prim \in SUBSET Nodes
  BY <1>1 DEF Ranked, ToSet
<1>3. s = Capped(listed)
  BY <1>2 DEF expandGraphNeighborhood
<1> HIDE DEF met, prim, s
<1>4. /\ IsFiniteSet(near) /\ near \in SUBSET Neighbors
      /\ \A x \in near : /\ x.from \in prim /\ x.to \in Ring(a, prim) /\ x.distance = 1
                         /\ x.to \in Adjacent(a, x.from) /\ x.score >= 50
      /\ \A x, y \in near : x.from = y.from /\ x.to = y.to => x = y
      /\ \A n \in Ring(a, prim) : \E x \in near : x.to = n
  BY <1>2, FirstRing
<1> HIDE DEF near
<1>5. Nodes \in SUBSET Nat /\ MaxNeighbors \in Nat
  BY ContextAssumption
<1>6. \A x \in Neighbors : x.score \in Int /\ x.to \in Nat /\ x.to \in Nodes /\ x.from \in Nodes
  BY <1>5 DEF Neighbors
<1>7. /\ nearest \in Seq(near)
      /\ \A x \in near : \E i \in 1..Len(nearest) : nearest[i] = x
      /\ \A i, j \in 1..Len(nearest) : nearest[i] = nearest[j] => i = j
  <2>1. \A x \in near : x.score \in Int /\ x.to \in Nat /\ x.from \in ToSet(met)
    BY <1>2, <1>4, <1>6
  <2> QED
    BY <1>2, <1>4, <2>1, NearestLists
<1> HIDE DEF nearest
<1>8. /\ one \in Seq(near) /\ Len(one) <= MaxNeighbors /\ Len(one) <= Len(nearest)
      /\ \A i \in 1..Len(one) : one[i] = nearest[i]
      /\ Len(one) < MaxNeighbors => Len(one) = Len(nearest)
  BY <1>5, <1>7, Cut DEF Capped
<1> HIDE DEF one
<1>9. \A i, j \in 1..Len(one) : one[i] = one[j] => i = j
  <2>1. Len(one) \in Nat /\ Len(nearest) \in Nat
    BY <1>7, <1>8
  <2>2. \A i \in 1..Len(one) : i \in 1..Len(nearest)
    BY <1>8, <2>1
  <2>3. \A i, j \in 1..Len(one) : one[i] = one[j] => nearest[i] = nearest[j]
    BY <1>8
  <2> QED
    BY <1>7, <2>2, <2>3
<1>10. one \in Seq(Neighbors)
  BY <1>4, <1>8
<1>11. /\ Targets(one) \in Seq(Nodes)
       /\ bridges = {one[i].to : i \in 1..Len(one)} /\ ToSet(one) = {one[i] : i \in 1..Len(one)}
  BY <1>10, ListedTargets
<1> HIDE DEF bridges
<1>12. ToSet(one) \in SUBSET near /\ \A x \in ToSet(one) : x.to \in bridges
  BY <1>8, <1>11
<1>13. bridges \in SUBSET Ring(a, prim) /\ bridges \in SUBSET Nodes
  <2>1. \A i \in 1..Len(one) : one[i] \in near
    BY <1>8
  <2>2. \A i \in 1..Len(one) : one[i].to \in Ring(a, prim) /\ one[i].to \in Nodes
    BY <1>4, <1>6, <2>1
  <2> QED
    BY <1>11, <2>2
<1>14. /\ IsFiniteSet(two) /\ two \in SUBSET Neighbors
       /\ \A x \in two : /\ x.from \in bridges /\ x.to \notin Ghosts \cup prim \cup bridges
                         /\ x.distance = 2 /\ x.to \in Adjacent(a, x.from) /\ x.score < 50
       /\ \A x, y \in two : x.from = y.from /\ x.to = y.to => x = y
  <2>1. CASE a.depth < 2
    BY <2>1, FS_EmptySet
  <2>2. CASE ~(a.depth < 2)
    <3>1. two = expandDepthTwo(a, prim, bridges)
      BY <2>2
    <3> HIDE DEF two
    <3> QED
      BY <1>2, <1>13, <3>1, SecondRing
  <2> QED
    BY <2>1, <2>2
<1> HIDE DEF two
<1>15. /\ IsFiniteSet(ToSet(one)) /\ Cardinality(ToSet(one)) \in Nat
       /\ Len(one) <= Cardinality(ToSet(one))
  BY <1>8, <1>9, ListedOnce
<1>16. IsFiniteSet(all)
  BY <1>14, <1>15, FS_Union
<1>17. all \in SUBSET Neighbors
  BY <1>4, <1>12, <1>14
<1>18. walked \in Seq(Nodes) /\ ToSet(walked) = prim \cup bridges
  <2>1. met \in Seq(Nodes) /\ Targets(one) \in Seq(Nodes)
    BY <1>2, <1>11
  <2>2. walked \in Seq(Nodes) /\ Len(walked) = Len(met) + Len(Targets(one))
        /\ Len(met) \in Nat /\ Len(Targets(one)) \in Nat
    BY <2>1
  <2>3. \A i \in 1..Len(met) : walked[i] = met[i]
    BY <2>1
  <2>4. \A i \in 1..Len(Targets(one)) : walked[Len(met) + i] = Targets(one)[i]
    BY <2>1
  <2>5. \A i \in 1..Len(walked) :
           (i \in 1..Len(met) /\ walked[i] = met[i])
           \/ \E j \in 1..Len(Targets(one)) : walked[i] = Targets(one)[j]
    <3> TAKE i \in 1..Len(walked)
    <3>1. CASE i <= Len(met)
      BY <2>2, <2>3, <3>1
    <3>2. CASE i > Len(met)
      <4>1. i - Len(met) \in 1..Len(Targets(one)) /\ Len(met) + (i - Len(met)) = i
        BY <2>2, <3>2
      <4> QED
        BY <2>4, <4>1
    <3> QED
      BY <2>2, <3>1, <3>2
  <2>6. ToSet(walked) = {walked[i] : i \in 1..Len(walked)}
    BY <2>2 DEF ToSet
  <2>9. prim = {met[i] : i \in 1..Len(met)}
    BY <1>2, <2>1 DEF ToSet
  <2>10. bridges = {Targets(one)[i] : i \in 1..Len(Targets(one))}
    BY <2>1 DEF ToSet, bridges
  <2>7. \A i \in 1..Len(met) : i \in 1..Len(walked)
    BY <2>2
  <2>8. \A i \in 1..Len(Targets(one)) : Len(met) + i \in 1..Len(walked)
    BY <2>2
  <2> HIDE DEF walked
  <2>11. \A x \in ToSet(walked) : x \in prim \cup bridges
    BY <2>5, <2>6, <2>9, <2>10
  <2>12. \A x \in prim : x \in ToSet(walked)
    BY <2>3, <2>6, <2>7, <2>9
  <2>13. \A x \in bridges : x \in ToSet(walked)
    BY <2>4, <2>6, <2>8, <2>10
  <2> QED
    BY <2>2, <2>11, <2>12, <2>13
<1> HIDE DEF all, walked
<1>19. /\ listed \in Seq(all)
       /\ \A i \in 1..Len(listed), T \in SUBSET all :
             (\A y \in T : y.score > listed[i].score) => Cardinality(T) < i
  <2>1. \A x \in all : x.score \in Int /\ x.to \in Nat /\ x.from \in ToSet(walked)
    <3>1. \A x \in all : x.from \in prim \cup bridges
      BY <1>4, <1>12, <1>14 DEF all
    <3> QED
      BY <1>6, <1>17, <1>18, <3>1
  <2>2. \A x, y \in all : x.from = y.from /\ x.to = y.to /\ x.score = y.score => x = y
    <3>1. \A x \in ToSet(one), y \in two : x.to # y.to
      BY <1>12, <1>14
    <3> QED
      BY <1>4, <1>12, <1>14, <3>1 DEF all
  <2> QED
    BY <1>16, <1>18, <2>1, <2>2, NearestLists
<1> HIDE DEF listed
<1>20. /\ s \in Seq(all) /\ Len(s) <= MaxNeighbors /\ Len(s) <= Len(listed)
       /\ \A i \in 1..Len(s) : s[i] = listed[i]
  BY <1>3, <1>5, <1>19, Cut DEF Capped
<1>21. s \in Seq(Neighbors) /\ DOMAIN s = 1..Len(s) /\ Len(s) \in Nat /\ Len(listed) \in Nat
  BY <1>17, <1>19, <1>20
<1>22. ASSUME NEW i \in 1..Len(s)
       PROVE  /\ s[i].to \notin prim \cup Ghosts
              /\ s[i].to \in Adjacent(a, s[i].from)
              /\ s[i].distance = 1 <=> s[i].to \in Ring(a, prim)
              /\ s[i].from \in (IF s[i].distance = 1 THEN prim ELSE Ring(a, prim))
  <2> DEFINE x == s[i]
  <2>1. x \in all
    BY <1>20, <1>21
  <2> HIDE DEF x
  <2>2. CASE x \in ToSet(one)
    <3>1. x.from \in prim /\ x.to \in Ring(a, prim) /\ x.distance = 1 /\ x.to \in Adjacent(a, x.from)
      BY <1>4, <1>12, <2>2
    <3>2. x.to \notin prim \cup Ghosts
      BY <3>1 DEF Ring
    <3> QED
      BY <3>1, <3>2 DEF x
  <2>3. CASE x \in two
    <3>1. /\ x.from \in Ring(a, prim) /\ x.to \notin Ghosts \cup prim \cup bridges
          /\ x.distance = 2 /\ x.to \in Adjacent(a, x.from) /\ x.score < 50
      BY <1>13, <1>14, <2>3
    <3>2. ASSUME x.to \in Ring(a, prim) PROVE FALSE
      <4>1. PICK y \in near : y.to = x.to
        BY <1>4, <3>2
      <4>2. PICK j \in 1..Len(nearest) : nearest[j] = y
        BY <1>7
      <4>3. ~(j \in 1..Len(one))
        BY <1>8, <1>11, <3>1, <4>1, <4>2
      <4>4. Len(one) \in Nat /\ Len(nearest) \in Nat
        BY <1>7, <1>8
      <4>5. Len(one) = MaxNeighbors
        BY <1>5, <1>8, <4>3, <4>4
      <4>6. i \in 1..Len(listed) /\ x = listed[i]
        BY <1>20, <1>21 DEF x
      <4>7. ToSet(one) \in SUBSET all
        BY DEF all
      <4>8. \A z \in ToSet(one) : z.score > listed[i].score
        <5>1. \A z \in ToSet(one) : z.score >= 50 /\ z.score \in Int
          BY <1>4, <1>6, <1>12
        <5>2. listed[i].score < 50 /\ listed[i].score \in Int
          BY <1>6, <1>17, <2>1, <3>1, <4>6
        <5> QED
          BY <5>1, <5>2
      <4>9. Cardinality(ToSet(one)) < i
        BY <1>19, <4>6, <4>7, <4>8
      <4>10. i <= MaxNeighbors
        BY <1>5, <1>20, <1>21
      <4> QED
        BY <1>5, <1>15, <4>5, <4>9, <4>10
    <3> QED
      BY <3>1, <3>2 DEF x
  <2> QED
    BY <2>1, <2>2, <2>3 DEF all
<1>23. NeighborsReal(a, s, prim)
  BY <1>21, <1>22 DEF NeighborsReal
<1> QED
  BY <1>20, <1>21, <1>23 DEF s, prim

-----------------------------------------------------------------------------
(* Context packs: source windows, size and trimming.                       *)

LEMMA UpTo == \A q \in Nat : IsFiniteSet(1..q) /\ Cardinality(1..q) = q
BY FS_Interval

\* A budget that indexed takers share, the first ones first, is never exceeded.
LEMMA SharedBudget ==
    ASSUME NEW n \in Nat, NEW r \in [1..n -> Nat], NEW m \in Nat, NEW w \in [1..n -> Nat],
           \A i \in 1..n : /\ w[i] <= r[i]
                           /\ w[i] > 0 => w[i] + Total([j \in 1..(i - 1) |-> r[j]]) <= m
    PROVE  Total(w) <= m
<1> DEFINE before(i) == [j \in 1..(i - 1) |-> r[j]]
           U(i) == Items(before(i))
           used(i) == Total(before(i))
<1>1. ASSUME NEW i \in 1..n PROVE IsFiniteSet(U(i)) /\ used(i) \in Nat /\ used(i) = Cardinality(U(i))
  <2>1. i - 1 \in Nat /\ before(i) \in [1..(i - 1) -> Nat]
    OBVIOUS
  <2> DEFINE l == i - 1
             b == before(i)
  <2> HIDE DEF l, b, before
  <2>2. l \in Nat /\ b \in [1..l -> Nat]
    BY <2>1 DEF l, b
  <2>3. IsFiniteSet(Items(b)) /\ Total(b) \in Nat
    BY <2>2, ItemsAreFinite
  <2> QED
    BY <2>3 DEF b, Total
<1>2. ASSUME NEW i \in 1..n, NEW k \in 1..n, i < k PROVE used(i) + r[i] <= used(k)
  <2> DEFINE R == {i} \X (1..r[i])
  <2>1. IsFiniteSet({i}) /\ Cardinality({i}) = 1
    BY FS_Singleton
  <2>2. r[i] \in Nat /\ 1 \in Int /\ r[i] \in Int
    OBVIOUS
  <2>3. IsFiniteSet(1..r[i]) /\ Cardinality(1..r[i]) = r[i]
    BY <2>2, UpTo
  <2>4. IsFiniteSet(R) /\ Cardinality(R) = 1 * r[i]
    BY <2>1, <2>3, FS_Product
  <2>5. U(i) \cup R \in SUBSET U(k) /\ U(i) \cap R = {}
    <3>1. \A e \in U(i) : \E j \in 1..(i - 1) : e \in {j} \X (1..r[j])
      BY DEF Items
    <3>2. \A e \in R : e \in {i} \X (1..r[i])
      OBVIOUS
    <3>3. \A e : \A j \in 1..(k - 1) : e \in {j} \X (1..r[j]) => e \in U(k)
      BY DEF Items
    <3>4. i \in 1..(k - 1) /\ \A j \in 1..(i - 1) : j \in 1..(k - 1) /\ j # i
      BY <1>2
    <3> HIDE DEF U, R
    <3>5. \A e \in U(i) : e \in U(k) /\ e \notin R
      <4> TAKE e \in U(i)
      <4>1. PICK j \in 1..(i - 1) : e \in {j} \X (1..r[j])
        BY <3>1
      <4>2. e[1] = j /\ j # i
        BY <3>4, <4>1
      <4>3. e \notin R
        BY <4>2 DEF R
      <4> QED
        BY <3>3, <3>4, <4>1, <4>3
    <3>6. \A e \in R : e \in U(k)
      BY <3>2, <3>3, <3>4
    <3> QED
      BY <3>5, <3>6
  <2> HIDE DEF R, U, used
  <2>6. IsFiniteSet(U(i) \cup R) /\ Cardinality(U(i) \cup R) = Cardinality(U(i)) + Cardinality(R) - Cardinality(U(i) \cap R)
    BY <1>1, <2>4, FS_Union
  <2>7. Cardinality(U(i) \cap R) = 0
    BY <2>5, FS_EmptySet
  <2>8. Cardinality(U(i) \cup R) <= Cardinality(U(k))
    BY <1>1, <2>5, FS_Subset
  <2>9. used(i) = Cardinality(U(i)) /\ used(k) = Cardinality(U(k)) /\ used(i) \in Nat /\ used(k) \in Nat
    BY <1>1
  <2> QED
    BY <2>2, <2>4, <2>6, <2>7, <2>8, <2>9
<1>3. \A i \in 1..n : w[i] > 0 => w[i] + used(i) <= m
  OBVIOUS
<1> HIDE DEF U, used, before
<1> DEFINE W == Items(w)
           g == [e \in W |-> used(e[1]) + e[2]]
<1>4. \A e \in W : e = <<e[1], e[2]>> /\ e[1] \in 1..n /\ e[2] \in 1..w[e[1]]
  BY DEF Items
<1> HIDE DEF W
<1>5. \A e \in W : g[e] \in 1..m
  <2> TAKE e \in W
  <2>1. e[1] \in 1..n /\ e[2] \in Int /\ e[2] >= 1 /\ e[2] <= w[e[1]] /\ w[e[1]] \in Nat
    BY <1>4
  <2> DEFINE i == e[1]
             j == e[2]
             u == used(i)
             v == w[i]
  <2>2. i \in 1..n /\ j \in Int /\ j >= 1 /\ j <= v /\ v \in Nat
    BY <2>1
  <2> HIDE DEF i, j
  <2>3. u \in Nat /\ (v > 0 => v + u <= m)
    BY <1>1, <1>3, <2>2
  <2>4. g[e] = u + j
    BY DEF i, j
  <2> HIDE DEF u, v, g
  <2> QED
    BY <2>2, <2>3, <2>4
<1>6. ASSUME NEW e \in W, NEW f \in W, e[1] < f[1] PROVE g[e] < g[f]
  <2>1. e[1] \in 1..n /\ e[2] \in 1..w[e[1]] /\ f[1] \in 1..n /\ f[2] \in 1..w[f[1]]
    BY <1>4
  <2> DEFINE i == e[1]
             k == f[1]
             u == used(i)
             v == used(k)
             p == r[i]
             q == w[i]
  <2>2. i \in 1..n /\ k \in 1..n /\ i < k /\ e[2] \in 1..q /\ f[2] \in 1..w[k]
    BY <1>6, <2>1
  <2>3. g[e] = u + e[2] /\ g[f] = v + f[2]
    OBVIOUS
  <2> HIDE DEF i, k
  <2>4. q \in Nat /\ p \in Nat /\ q <= p /\ w[k] \in Nat
    BY <2>2
  <2>6. e[2] \in Int /\ e[2] <= q /\ f[2] \in Int /\ f[2] >= 1
    BY <2>2, <2>4
  <2>5. u \in Nat /\ v \in Nat /\ u + p <= v
    BY <1>1, <1>2, <2>2
  <2> HIDE DEF u, v, p, q, g
  <2> QED
    BY <2>2, <2>3, <2>4, <2>5, <2>6
<1>7. \A e, f \in W : g[e] = g[f] => e = f
  <2>1. SUFFICES ASSUME NEW e \in W, NEW f \in W, g[e] = g[f] PROVE e = f
    OBVIOUS
  <2>2. g[e] \in Int /\ g[f] \in Int /\ e[1] \in Int /\ f[1] \in Int
    BY <1>4, <1>5
  <2>3. e[1] = f[1]
    BY <1>6, <2>1, <2>2
  <2>4. used(e[1]) + e[2] = used(e[1]) + f[2] /\ e[2] \in Int /\ f[2] \in Int /\ used(e[1]) \in Nat
    BY <1>1, <1>4, <2>1, <2>3
  <2>5. e[2] = f[2]
    BY <2>4
  <2> QED
    BY <1>4, <2>3, <2>5
<1>8. g \in Injection(W, 1..m)
  BY <1>5, <1>7 DEF Injection, IsInjective
<1>9. IsFiniteSet(1..m) /\ Cardinality(1..m) = m
  BY FS_Interval
<1>10. Cardinality(W) <= Cardinality(1..m)
  BY <1>8, <1>9, FS_Injection
<1> QED
  BY <1>9, <1>10 DEF W, Total

LEMMA DigitsGrow ==
    /\ \A x \in Nat : Digits(x) \in 1..6
    /\ \A x, y \in Nat : x <= y /\ y <= x + 2 => Digits(y) \in {Digits(x), Digits(x) + 1}
    /\ \A x, y \in Nat : x <= y /\ y <= x + 2 /\ Digits(y) # Digits(x) /\ y <= 99999 =>
          \E b \in {10, 100, 1000, 10000} :
             /\ x < b /\ b <= y
             /\ Digits(x) <= 4
             /\ Digits(y) = Digits(x) + 1
BY SMT DEF Digits

\* The estimate that is written into a pack is taken with the one before it: it is within
\* a token of the size of the pack that carries it, and no smaller where the pack says
\* that it fits.
Estimates(c, flag, shown, e1, e, real) ==
    /\ c \in Nat /\ flag \in {4, 5} /\ shown \in {4, 5} /\ shown <= flag
    /\ e1 = estimateTokens(c + 1 + flag)
    /\ e = estimateTokens(c + Digits(e1) + flag)
    /\ real = estimateTokens(c + Digits(e) + shown)

LEMMA EstimateIsClose ==
    ASSUME NEW c, NEW flag, NEW shown, NEW e1, NEW e, NEW real,
           Estimates(c, flag, shown, e1, e, real)
    PROVE  /\ e \in Nat /\ real \in Nat /\ real <= e + 1 /\ e <= real + 1
           /\ shown = flag /\ e <= MaxBudget => real <= e
<1>0. /\ c \in Nat /\ flag \in {4, 5} /\ shown \in {4, 5} /\ shown <= flag
      /\ e1 = estimateTokens(c + 1 + flag)
      /\ e = estimateTokens(c + Digits(e1) + flag)
      /\ real = estimateTokens(c + Digits(e) + shown)
  BY DEF Estimates
<1>1. e1 \in Nat /\ 4 * e1 >= c + 1 + flag /\ 4 * e1 < c + 1 + flag + 4
  BY <1>0, <1>0, SMT DEF estimateTokens, CharsPerToken
<1> DEFINE d == Digits(e1)
           f == Digits(e)
<1>2. d \in 1..6
  BY <1>0, <1>1, DigitsGrow
<1> HIDE DEF d
<1>3. e = estimateTokens(c + d + flag)
  BY <1>0, <1>0 DEF d
<1>4. e \in Nat /\ 4 * e >= c + d + flag /\ 4 * e < c + d + flag + 4
  BY <1>0, <1>2, <1>3, SMT DEF estimateTokens, CharsPerToken
<1>5. e1 <= e /\ e <= e1 + 2
  BY <1>0, <1>1, <1>2, <1>4
<1>6. f \in {d, d + 1}
  BY <1>0, <1>1, <1>4, <1>5, DigitsGrow DEF d
<1> HIDE DEF f
<1>7. real = estimateTokens(c + f + shown)
  BY <1>0, <1>0 DEF f
<1>8. real \in Nat /\ 4 * real >= c + f + shown /\ 4 * real < c + f + shown + 4
  BY <1>0, <1>2, <1>6, <1>7, SMT DEF estimateTokens, CharsPerToken
<1>9. real <= e + 1 /\ e <= real + 1
  BY <1>0, <1>2, <1>4, <1>6, <1>8
<1>10. ASSUME shown = flag, e <= MaxBudget PROVE real <= e
  <2>0. e <= 99999
    BY <1>0, <1>4, <1>10, BudgetAssumption
  <2>1. CASE f = d
    BY <1>0, <1>2, <1>4, <1>8, <1>10, <2>1
  <2>2. CASE f # d
    <3>1. PICK b \in {10, 100, 1000, 10000} : e1 < b /\ b <= e /\ d <= 4 /\ f = d + 1
      BY <1>0, <1>1, <1>4, <1>5, <2>0, <2>2, DigitsGrow DEF d, f
    <3>2. b \in Int
      BY <3>1
    <3>3. e1 + 1 <= b /\ e1 + 1 <= e
      BY <1>0, <1>1, <1>4, <3>1, <3>2
    <3>4. 4 * real < 4 * e1 + d + 4
      BY <1>0, <1>1, <1>2, <1>8, <1>10, <3>1
    <3>5. 4 * real < 4 * e + 4
      BY <1>0, <1>1, <1>2, <1>4, <1>8, <3>1, <3>3, <3>4
    <3> QED
      BY <1>0, <1>4, <1>8, <3>5
  <2> QED
    BY <2>1, <2>2
<1> QED
  BY <1>0, <1>4, <1>8, <1>9, <1>10

-----------------------------------------------------------------------------
(* Context packs: the shape of a pack, and what each stage does to it.     *)

\* The provers do not know that a literal is a string.
Texts == STRING \cup {"embedding-store-missing", "source-window-unavailable",
                      "compile", "view", "query"}

BuiltPacks ==
    [primary : Seq(Ranked), neighbors : Seq(Neighbors), gaps : SUBSET (Nodes \X Nodes),
     warnings : SUBSET Texts, actions : Seq(Texts),
     budget : [estimated : Nat, truncated : BOOLEAN, trimmed : SUBSET Sections]]

Fields == {"windows", "chunks", "tiers"}

LEMMA RankedFields ==
    ASSUME NEW s \in Seq(Ranked), NEW field \in Fields
    PROVE  /\ DOMAIN s = 1..Len(s) /\ Len(s) \in Nat
           /\ \A i \in 1..Len(s) : s[i] \in Ranked /\ s[i][field] \in Nat
           /\ Of(s, field) \in [1..Len(s) -> Nat]
           /\ \A i \in 1..Len(s) : Of(s, field)[i] = s[i][field]
<1>1. DOMAIN s = 1..Len(s) /\ Len(s) \in Nat /\ \A i \in 1..Len(s) : s[i] \in Ranked
  OBVIOUS
<1>2. \A x \in Ranked : x[field] \in Nat
  BY DEF Ranked, Fields
<1>3. Of(s, field) = [i \in 1..Len(s) |-> s[i][field]]
  BY <1>1 DEF Of
<1> QED
  BY <1>1, <1>2, <1>3

\* The size of a pack is that of its body and of its budget block.
LEMMA BodyIsNumber ==
    ASSUME NEW k \in BuiltPacks, IsFiniteSet(k.warnings)
    PROVE  BodyChars(k) \in Nat
<1>1. \A x, y \in Nat : x * y \in Nat /\ x + y \in Nat
  OBVIOUS
<1>2. \A s \in Sections \cup {"envelope", "reason", "note"} : ItemChars[s] \in Nat
  BY ItemCharsAssumption
<1>3. /\ ItemChars["envelope"] \in Nat /\ ItemChars["neighbors"] \in Nat
      /\ ItemChars["primary"] \in Nat /\ ItemChars["chunks"] \in Nat
      /\ ItemChars["sourceWindows"] \in Nat /\ ItemChars["contentTiers"] \in Nat
      /\ ItemChars["reason"] \in Nat /\ ItemChars["note"] \in Nat
  BY <1>2 DEF Sections
<1>4. k.primary \in Seq(Ranked) /\ k.neighbors \in Seq(Neighbors) /\ k.actions \in Seq(Texts)
      /\ k.gaps \in SUBSET (Nodes \X Nodes)
  BY DEF BuiltPacks
<1>5. Len(k.primary) \in Nat /\ Len(k.neighbors) \in Nat /\ Len(k.actions) \in Nat
  BY <1>4
<1>6. ASSUME NEW field \in Fields PROVE Total(Of(k.primary, field)) \in Nat
  BY <1>4, <1>5, RankedFields, ItemsAreFinite
<1>7. /\ Total(Of(k.primary, "chunks")) \in Nat /\ Total(Of(k.primary, "windows")) \in Nat
      /\ Total(Of(k.primary, "tiers")) \in Nat
  BY <1>6 DEF Fields
<1>8. Cardinality({i \in DOMAIN k.primary : k.primary[i].linked}) \in Nat
  <2> DEFINE L == {i \in DOMAIN k.primary : k.primary[i].linked}
  <2>1. L \in SUBSET (1..Len(k.primary)) /\ IsFiniteSet(1..Len(k.primary))
    BY <1>4, <1>5, UpTo
  <2> HIDE DEF L
  <2>2. IsFiniteSet(L)
    BY <2>1, FS_Subset
  <2> QED
    BY <2>2, FS_CardinalityType DEF L
<1>9. Cardinality(k.warnings) \in Nat
  BY FS_CardinalityType
<1>10. Cardinality(k.gaps) \in Nat
  <2>1. IsFiniteSet(Nodes)
    BY ContextAssumption
  <2>2. IsFiniteSet(Nodes \X Nodes)
    BY <2>1, FS_Product
  <2>3. IsFiniteSet(k.gaps)
    BY <1>4, <2>2, FS_Subset
  <2> QED
    BY <2>3, FS_CardinalityType
<1> DEFINE e == ItemChars["envelope"]
           a == ItemChars["neighbors"] * Len(k.neighbors)
           b == ItemChars["primary"] * Len(k.primary)
           c == ItemChars["chunks"] * Total(Of(k.primary, "chunks"))
           d == ItemChars["sourceWindows"] * Total(Of(k.primary, "windows"))
           f == ItemChars["contentTiers"] * Total(Of(k.primary, "tiers"))
           g == ItemChars["reason"] * Cardinality({i \in DOMAIN k.primary : k.primary[i].linked})
           n == Cardinality(k.warnings) + Cardinality(k.gaps) + Len(k.actions)
           h == ItemChars["note"] * n
<1>11. e \in Nat /\ a \in Nat /\ b \in Nat
  BY <1>1, <1>3, <1>5
<1>12. c \in Nat /\ d \in Nat /\ f \in Nat
  BY <1>1, <1>3, <1>7
<1>13. g \in Nat
  BY <1>1, <1>3, <1>8
<1>14. n \in Nat
  BY <1>5, <1>9, <1>10
<1>15. h \in Nat
  BY <1>1, <1>3, <1>14
<1>16. BodyChars(k) = e + a + b + c + d + f + g + h
  BY DEF BodyChars
<1> HIDE DEF e, a, b, c, d, f, g, h
<1> QED
  BY <1>11, <1>12, <1>13, <1>15, <1>16

\* The items a section holds.
LEMMA HoldingPlaces ==
    ASSUME NEW k \in BuiltPacks, NEW field \in Fields
    PROVE  /\ Holding(k, field) \in SUBSET (1..Len(k.primary))
           /\ \A i \in 1..Len(k.primary) : i \in Holding(k, field) <=> k.primary[i][field] > 0
           /\ Holding(k, field) # {} =>
                 /\ Max(Holding(k, field)) \in Holding(k, field)
                 /\ \A i \in Holding(k, field) : i <= Max(Holding(k, field))
<1>1. k.primary \in Seq(Ranked)
  BY DEF BuiltPacks
<1>2. DOMAIN k.primary = 1..Len(k.primary) /\ Len(k.primary) \in Nat
  BY <1>1
<1>3. Holding(k, field) \in SUBSET (1..Len(k.primary))
  BY <1>2 DEF Holding
<1>4. \A i \in 1..Len(k.primary) : i \in Holding(k, field) <=> k.primary[i][field] > 0
  BY <1>2 DEF Holding
<1> QED
  BY <1>2, <1>3, <1>4, MaxOfMany

\* Taking an item away changes one count of one page.
LEMMA TakenChanges ==
    ASSUME NEW k \in BuiltPacks, NEW field \in Fields, Holding(k, field) # {}
    PROVE  LET t == Taken(k, field)
               m == Max(Holding(k, field))
           IN  /\ t \in BuiltPacks /\ Len(t.primary) = Len(k.primary)
               /\ t.neighbors = k.neighbors /\ t.warnings = k.warnings /\ t.gaps = k.gaps
               /\ t.actions = k.actions /\ t.budget = k.budget
               /\ \A i \in 1..Len(k.primary) :
                     /\ t.primary[i].id = k.primary[i].id
                     /\ \A g \in Fields : t.primary[i][g] =
                           IF i = m /\ g = field THEN k.primary[i][g] - 1 ELSE k.primary[i][g]
<1> DEFINE p == k.primary
           m == Max(Holding(k, field))
           t == Taken(k, field)
           x == [p[m] EXCEPT ![field] = @ - 1]
           q == [p EXCEPT ![m] = x]
<1>1. p \in Seq(Ranked) /\ Len(p) \in Nat /\ DOMAIN p = 1..Len(p)
  BY DEF BuiltPacks
<1>2. m \in 1..Len(p) /\ p[m][field] > 0
  BY HoldingPlaces
<1>3. t = [k EXCEPT !.primary = q]
  BY DEF Taken
<1> HIDE DEF p, m, t
<1>4. p[m] \in Ranked
  BY <1>1, <1>2
<1>5. /\ x \in Ranked /\ x.id = p[m].id
      /\ \A g \in Fields : x[g] = IF g = field THEN p[m][g] - 1 ELSE p[m][g]
  BY <1>2, <1>4 DEF Ranked, Fields
<1> HIDE DEF x
<1>6. q \in Seq(Ranked) /\ Len(q) = Len(p) /\ \A i \in 1..Len(p) : q[i] = IF i = m THEN x ELSE p[i]
  <2>1. q \in [1..Len(p) -> Ranked]
    BY <1>1, <1>2, <1>5
  <2> QED
    BY <1>1, <1>2, <2>1
<1> HIDE DEF q
<1>7. /\ t \in BuiltPacks /\ t.primary = q
      /\ t.neighbors = k.neighbors /\ t.warnings = k.warnings /\ t.gaps = k.gaps
      /\ t.actions = k.actions /\ t.budget = k.budget
  BY <1>3, <1>6 DEF BuiltPacks
<1>8. \A i \in 1..Len(p) :
         /\ q[i].id = p[i].id
         /\ \A g \in Fields : q[i][g] = IF i = m /\ g = field THEN p[i][g] - 1 ELSE p[i][g]
  BY <1>2, <1>5, <1>6
<1> QED
  BY <1>6, <1>7, <1>8 DEF p, m, t

Without(k, field) == \A i \in 1..Len(k.primary) : k.primary[i][field] = 0

LEMMA HoldingNothing ==
    ASSUME NEW k \in BuiltPacks, NEW field \in Fields
    PROVE  Holding(k, field) = {} <=> Without(k, field)
<1>1. \A i \in 1..Len(k.primary) : k.primary[i][field] \in Nat
  BY RankedFields DEF BuiltPacks
<1>2. \A i \in 1..Len(k.primary) : k.primary[i][field] > 0 <=> k.primary[i][field] # 0
  BY <1>1
<1> QED
  BY <1>2, HoldingPlaces DEF Without

\* What the trimmer has left, against the ranking: a page goes last, a chunk only after
\* every window, the items of a page only after those of the pages ranked below it.
Kept(a, k, lost) ==
    LET full == rankPages(a)
        n == Len(k.primary)
    IN  /\ n <= Len(full)
        /\ \A i \in 1..n : k.primary[i].id = full[i].id
        /\ n < Len(full) => /\ k.neighbors = <<>>
                            /\ Without(k, "windows") /\ Without(k, "chunks") /\ Without(k, "tiers")
        /\ "contentTiers" \in lost => Without(k, "windows") /\ Without(k, "chunks")
        /\ "chunks" \in lost => k.neighbors = <<>> /\ Without(k, "windows")
        /\ "sourceWindows" \in lost => k.neighbors = <<>>
        /\ \A i, j \in 1..n :
              i < j /\ k.primary[i].chunks < full[i].chunks => k.primary[j].chunks = 0

GoodPack(a, k, lost) ==
    /\ k \in BuiltPacks /\ IsFiniteSet(k.warnings)
    /\ Len(k.neighbors) <= MaxNeighbors
    /\ NeighborsReal(a, k.neighbors, PrimaryIds(k))
    /\ Total(Of(k.primary, "windows")) <= MaxWindows
    /\ Kept(a, k, lost)

\* Every cited line range has its window, or the pack says what it lacks.
Windowed(a, k, lost) ==
    \/ "source-window-unavailable" \in k.warnings
    \/ "sourceWindows" \in lost
    \/ \A i \in 1..Len(k.primary) : k.primary[i].windows = LineRanges(a, k.primary[i].id)

\* Each pop of the trimmer, section by section.
LEMMA PopNeighbor ==
    ASSUME NEW a, NEW k, NEW lost, GoodPack(a, k, lost), k.neighbors # <<>>
    PROVE  LET t == [k EXCEPT !.neighbors = Front(@)]
               cut == lost \cup {"neighbors"}
           IN  /\ GoodPack(a, t, cut) /\ t.budget = k.budget
               /\ Windowed(a, k, lost) => Windowed(a, t, cut)
<1> DEFINE s == Front(k.neighbors)
           t == [k EXCEPT !.neighbors = s]
           cut == lost \cup {"neighbors"}
<1>1. k.neighbors \in Seq(Neighbors) /\ Len(k.neighbors) \in Nat
  BY DEF GoodPack, BuiltPacks
<1>2. /\ s \in Seq(Neighbors) /\ Len(s) = Len(k.neighbors) - 1
      /\ \A i \in 1..(Len(k.neighbors) - 1) : s[i] = k.neighbors[i]
  BY <1>1, AllButLast
<1> HIDE DEF s
<1>3. /\ t \in BuiltPacks /\ t.neighbors = s /\ t.primary = k.primary /\ t.warnings = k.warnings
      /\ t.budget = k.budget
  BY <1>2 DEF GoodPack, BuiltPacks
<1> HIDE DEF t
<1>4. Len(t.neighbors) <= MaxNeighbors
  <2>1. MaxNeighbors \in Nat
    BY ContextAssumption
  <2> QED
    BY <1>1, <1>2, <1>3, <2>1 DEF GoodPack
<1>5. NeighborsReal(a, t.neighbors, PrimaryIds(t))
  <2>1. PrimaryIds(t) = PrimaryIds(k)
    BY <1>3 DEF PrimaryIds
  <2>2. DOMAIN s = 1..Len(s) /\ DOMAIN k.neighbors = 1..Len(k.neighbors)
    BY <1>1, <1>2
  <2>3. \A i \in DOMAIN s : i \in DOMAIN k.neighbors /\ s[i] = k.neighbors[i]
    BY <1>1, <1>2, <2>2
  <2> QED
    BY <1>3, <2>1, <2>3 DEF GoodPack, NeighborsReal
<1>6. Kept(a, t, cut)
  BY <1>3 DEF GoodPack, Kept, Without
<1>7. Windowed(a, k, lost) => Windowed(a, t, cut)
  BY <1>3 DEF Windowed
<1> QED
  BY <1>3, <1>4, <1>5, <1>6, <1>7 DEF GoodPack, s, t

\* What taking an item of a page away keeps, whichever section it is of.
LEMMA TakenKeeps ==
    ASSUME NEW a \in Requests, NEW k, NEW lost, GoodPack(a, k, lost), NEW field \in Fields,
           Holding(k, field) # {}, k.neighbors = <<>>
    PROVE  LET t == Taken(k, field)
           IN  /\ t \in BuiltPacks /\ IsFiniteSet(t.warnings) /\ Len(t.neighbors) <= MaxNeighbors
               /\ NeighborsReal(a, t.neighbors, PrimaryIds(t))
               /\ Total(Of(t.primary, "windows")) <= MaxWindows
               /\ t.neighbors = <<>> /\ t.budget = k.budget /\ t.warnings = k.warnings
               /\ Len(t.primary) = Len(k.primary)
               /\ \A i \in 1..Len(k.primary) : t.primary[i].id = k.primary[i].id
               /\ \A i \in 1..Len(k.primary), g \in Fields :
                     g # field => t.primary[i][g] = k.primary[i][g]
               /\ \A g \in Fields : Without(k, g) => Without(t, g)
               /\ Len(k.primary) = Len(rankPages(a))
<1> DEFINE t == Taken(k, field)
           m == Max(Holding(k, field))
           n == Len(k.primary)
<1>1. k \in BuiltPacks
  BY DEF GoodPack
<1>2. /\ t \in BuiltPacks /\ Len(t.primary) = n
      /\ t.neighbors = k.neighbors /\ t.warnings = k.warnings /\ t.gaps = k.gaps
      /\ t.actions = k.actions /\ t.budget = k.budget
      /\ \A i \in 1..n :
            /\ t.primary[i].id = k.primary[i].id
            /\ \A g \in Fields : t.primary[i][g] =
                  IF i = m /\ g = field THEN k.primary[i][g] - 1 ELSE k.primary[i][g]
  BY <1>1, TakenChanges
<1>3. m \in 1..n /\ k.primary[m][field] > 0
  BY <1>1, HoldingPlaces
<1> HIDE DEF t, m
<1>4. k.primary \in Seq(Ranked) /\ t.primary \in Seq(Ranked) /\ n \in Nat
  BY <1>1, <1>2 DEF BuiltPacks
<1>5. \A i \in 1..n, g \in Fields : k.primary[i][g] \in Nat /\ t.primary[i][g] \in Nat
  BY <1>2, <1>4, RankedFields
<1>6. \A i \in 1..n, g \in Fields : t.primary[i][g] <= k.primary[i][g]
  BY <1>2, <1>5
<1>7. Total(Of(t.primary, "windows")) <= MaxWindows
  <2> DEFINE c == Of(k.primary, "windows")
             d == Of(t.primary, "windows")
  <2>1. "windows" \in Fields
    BY DEF Fields
  <2>2. c \in [1..n -> Nat] /\ \A i \in 1..n : c[i] = k.primary[i]["windows"]
    BY <1>4, <2>1, RankedFields
  <2>3. d \in [1..n -> Nat] /\ \A i \in 1..n : d[i] = t.primary[i]["windows"]
    BY <1>2, <1>4, <2>1, RankedFields
  <2>4. Total(c) <= MaxWindows
    BY DEF GoodPack
  <2> HIDE DEF c, d
  <2>5. \A i \in 1..n : d[i] <= c[i]
    BY <1>6, <2>1, <2>2, <2>3
  <2>6. n \in 0..n
    BY <1>4
  <2>7. Total(d) <= Total(c) /\ Total(d) \in Nat /\ Total(c) \in Nat
    BY <1>4, <2>2, <2>3, <2>5, <2>6, FewerItems, ItemsAreFinite
  <2>8. MaxWindows \in Nat
    BY ContextAssumption
  <2> QED
    BY <2>4, <2>7, <2>8 DEF d
<1>8. /\ NeighborsReal(a, t.neighbors, PrimaryIds(t))
      /\ Len(t.neighbors) <= MaxNeighbors /\ IsFiniteSet(t.warnings)
  <2>1. DOMAIN t.neighbors = {}
    BY <1>2
  <2> QED
    BY <1>2, <2>1 DEF GoodPack, NeighborsReal
<1>9. \A g \in Fields : Without(k, g) => Without(t, g)
  BY <1>2, <1>5, <1>6 DEF Without
<1>10. n = Len(rankPages(a))
  <2>1. ~Without(k, field)
    BY <1>1, HoldingNothing
  <2>2. n < Len(rankPages(a)) => Without(k, "windows") /\ Without(k, "chunks") /\ Without(k, "tiers")
    BY DEF GoodPack, Kept
  <2>3. n <= Len(rankPages(a))
    BY DEF GoodPack, Kept
  <2>4. ~(n < Len(rankPages(a)))
    BY <2>1, <2>2 DEF Fields
  <2>5. Len(rankPages(a)) \in Int
    BY RankedPages
  <2> QED
    BY <1>4, <2>3, <2>4, <2>5
<1> QED
  BY <1>2, <1>7, <1>8, <1>9, <1>10 DEF t

LEMMA PopWindow ==
    ASSUME NEW a \in Requests, NEW k, NEW lost, GoodPack(a, k, lost),
           k.neighbors = <<>>, ~Without(k, "windows")
    PROVE  LET t == Taken(k, "windows")
           IN  GoodPack(a, t, lost \cup {"sourceWindows"}) /\ t.budget = k.budget
<1> DEFINE t == Taken(k, "windows")
           n == Len(k.primary)
<1>1. k \in BuiltPacks /\ "windows" \in Fields /\ "chunks" \in Fields /\ "windows" # "chunks"
  BY DEF GoodPack, Fields
<1>2. Holding(k, "windows") # {}
  BY <1>1, HoldingNothing
<1>3. /\ t \in BuiltPacks /\ IsFiniteSet(t.warnings) /\ Len(t.neighbors) <= MaxNeighbors
      /\ NeighborsReal(a, t.neighbors, PrimaryIds(t))
      /\ Total(Of(t.primary, "windows")) <= MaxWindows
      /\ t.neighbors = <<>> /\ t.budget = k.budget /\ Len(t.primary) = n
      /\ \A i \in 1..n : t.primary[i].id = k.primary[i].id
      /\ \A i \in 1..n, g \in Fields : g # "windows" => t.primary[i][g] = k.primary[i][g]
      /\ n = Len(rankPages(a))
  BY <1>1, <1>2, TakenKeeps
<1> HIDE DEF t
<1>4. \A i \in 1..n : t.primary[i].chunks = k.primary[i].chunks
  BY <1>1, <1>3
<1>5. Len(rankPages(a)) \in Nat
  BY RankedPages
<1>6. Kept(a, t, lost \cup {"sourceWindows"})
  BY <1>3, <1>4, <1>5 DEF GoodPack, Kept
<1> QED
  BY <1>3, <1>6 DEF GoodPack, t

LEMMA PopChunk ==
    ASSUME NEW a \in Requests, NEW k, NEW lost, GoodPack(a, k, lost),
           k.neighbors = <<>>, Without(k, "windows"), ~Without(k, "chunks")
    PROVE  LET t == Taken(k, "chunks")
           IN  /\ GoodPack(a, t, lost \cup {"chunks"}) /\ t.budget = k.budget
               /\ Windowed(a, k, lost) => Windowed(a, t, lost \cup {"chunks"})
<1> DEFINE t == Taken(k, "chunks")
           m == Max(Holding(k, "chunks"))
           full == rankPages(a)
           n == Len(k.primary)
<1>1. k \in BuiltPacks /\ "windows" \in Fields /\ "chunks" \in Fields /\ "windows" # "chunks"
  BY DEF GoodPack, Fields
<1>2. Holding(k, "chunks") # {}
  BY <1>1, HoldingNothing
<1>3. /\ t \in BuiltPacks /\ IsFiniteSet(t.warnings) /\ Len(t.neighbors) <= MaxNeighbors
      /\ NeighborsReal(a, t.neighbors, PrimaryIds(t))
      /\ Total(Of(t.primary, "windows")) <= MaxWindows
      /\ t.neighbors = <<>> /\ t.budget = k.budget /\ Len(t.primary) = n
      /\ t.warnings = k.warnings
      /\ \A i \in 1..n : t.primary[i].id = k.primary[i].id
      /\ \A i \in 1..n, g \in Fields : g # "chunks" => t.primary[i][g] = k.primary[i][g]
      /\ \A g \in Fields : Without(k, g) => Without(t, g)
      /\ n = Len(full)
  BY <1>1, <1>2, TakenKeeps
<1>4. \A i \in 1..n : t.primary[i]["chunks"] =
         IF i = m THEN k.primary[i]["chunks"] - 1 ELSE k.primary[i]["chunks"]
  BY <1>1, <1>2, TakenChanges
<1>5. /\ m \in 1..n /\ k.primary[m]["chunks"] > 0
      /\ \A i \in 1..n : k.primary[i]["chunks"] > 0 => i <= m
  BY <1>1, <1>2, HoldingPlaces
<1>6. k.primary \in Seq(Ranked) /\ n \in Nat
  BY <1>1 DEF BuiltPacks
<1>7. \A i \in 1..n : k.primary[i]["chunks"] \in Nat
  BY <1>1, <1>6, RankedFields
<1> HIDE DEF t, m, full
<1>8. \A i \in 1..n : t.primary[i].windows = k.primary[i].windows
  BY <1>1, <1>3
<1>9. ASSUME NEW i \in 1..n, NEW j \in 1..n, i < j, t.primary[i].chunks < full[i].chunks
      PROVE  t.primary[j].chunks = 0
  <2>1. k.primary[j].chunks = 0
    <3>1. CASE i = m
      BY <1>5, <1>7, <1>9, <3>1
    <3>2. CASE i # m
      <4>1. k.primary[i].chunks < full[i].chunks
        BY <1>4, <1>9, <3>2
      <4> QED
        BY <1>9, <4>1 DEF GoodPack, Kept, full
    <3> QED
      BY <3>1, <3>2
  <2>2. j # m
    BY <1>5, <2>1
  <2> QED
    BY <1>4, <2>1, <2>2
<1>10. Len(full) \in Nat
  BY RankedPages DEF full
<1>11. \A i \in 1..n : t.primary[i].id = full[i].id
  BY <1>3 DEF GoodPack, Kept, full
<1>12. "contentTiers" \notin lost /\ Without(t, "windows")
  BY <1>1, <1>3 DEF GoodPack, Kept
<1>13. Kept(a, t, lost \cup {"chunks"})
  BY <1>3, <1>9, <1>10, <1>11, <1>12 DEF Kept, full
<1>14. Windowed(a, k, lost) => Windowed(a, t, lost \cup {"chunks"})
  BY <1>3, <1>8 DEF Windowed
<1> QED
  BY <1>3, <1>13, <1>14 DEF GoodPack, t

LEMMA PopTier ==
    ASSUME NEW a \in Requests, NEW k, NEW lost, GoodPack(a, k, lost),
           k.neighbors = <<>>, Without(k, "windows"), Without(k, "chunks"), ~Without(k, "tiers")
    PROVE  LET t == Taken(k, "tiers")
           IN  /\ GoodPack(a, t, lost \cup {"contentTiers"}) /\ t.budget = k.budget
               /\ Windowed(a, k, lost) => Windowed(a, t, lost \cup {"contentTiers"})
<1> DEFINE t == Taken(k, "tiers")
           n == Len(k.primary)
<1>1. /\ k \in BuiltPacks /\ "windows" \in Fields /\ "chunks" \in Fields /\ "tiers" \in Fields
      /\ "windows" # "tiers" /\ "chunks" # "tiers"
  BY DEF GoodPack, Fields
<1>2. Holding(k, "tiers") # {}
  BY <1>1, HoldingNothing
<1>3. /\ t \in BuiltPacks /\ IsFiniteSet(t.warnings) /\ Len(t.neighbors) <= MaxNeighbors
      /\ NeighborsReal(a, t.neighbors, PrimaryIds(t))
      /\ Total(Of(t.primary, "windows")) <= MaxWindows
      /\ t.neighbors = <<>> /\ t.budget = k.budget /\ Len(t.primary) = n
      /\ t.warnings = k.warnings
      /\ \A i \in 1..n : t.primary[i].id = k.primary[i].id
      /\ \A i \in 1..n, g \in Fields : g # "tiers" => t.primary[i][g] = k.primary[i][g]
      /\ \A g \in Fields : Without(k, g) => Without(t, g)
      /\ n = Len(rankPages(a))
  BY <1>1, <1>2, TakenKeeps
<1> HIDE DEF t
<1>4. \A i \in 1..n : /\ t.primary[i].chunks = k.primary[i].chunks
                      /\ t.primary[i].windows = k.primary[i].windows
  BY <1>1, <1>3
<1>5. Len(rankPages(a)) \in Nat
  BY RankedPages
<1>6. Without(t, "windows") /\ Without(t, "chunks")
  BY <1>1, <1>3
<1>7. Kept(a, t, lost \cup {"contentTiers"})
  BY <1>3, <1>4, <1>5, <1>6 DEF GoodPack, Kept
<1>8. Windowed(a, k, lost) => Windowed(a, t, lost \cup {"contentTiers"})
  BY <1>3, <1>4 DEF Windowed
<1> QED
  BY <1>3, <1>7, <1>8 DEF GoodPack, t

LEMMA PopPage ==
    ASSUME NEW a \in Requests, NEW k, NEW lost, GoodPack(a, k, lost),
           k.neighbors = <<>>, Without(k, "windows"), Without(k, "chunks"), Without(k, "tiers"),
           k.primary # <<>>
    PROVE  LET t == [k EXCEPT !.primary = Front(@)]
           IN  /\ GoodPack(a, t, lost \cup {"primary"}) /\ t.budget = k.budget
               /\ Windowed(a, k, lost) => Windowed(a, t, lost \cup {"primary"})
<1> DEFINE s == Front(k.primary)
           t == [k EXCEPT !.primary = s]
           n == Len(k.primary)
           l == n - 1
<1>1. k.primary \in Seq(Ranked) /\ n \in Nat /\ k \in BuiltPacks
  BY DEF GoodPack, BuiltPacks
<1>2. s \in Seq(Ranked) /\ n >= 1 /\ Len(s) = l /\ \A i \in 1..l : s[i] = k.primary[i]
  BY <1>1, AllButLast
<1> HIDE DEF s
<1>3. /\ t \in BuiltPacks /\ t.neighbors = k.neighbors /\ t.primary = s /\ t.warnings = k.warnings
      /\ t.budget = k.budget
  BY <1>2 DEF GoodPack, BuiltPacks
<1> HIDE DEF t
<1>4. l \in 0..n /\ \A i \in 1..l : i \in 1..n
  BY <1>1, <1>2
<1>5. \A g \in Fields : Without(k, g) => Without(t, g)
  BY <1>2, <1>3, <1>4 DEF Without
<1>6. "windows" \in Fields /\ "chunks" \in Fields /\ "tiers" \in Fields
  BY DEF Fields
<1>7. Total(Of(t.primary, "windows")) <= MaxWindows
  <2> DEFINE c == Of(k.primary, "windows")
             d == Of(t.primary, "windows")
  <2>1. c \in [1..n -> Nat] /\ \A i \in 1..n : c[i] = k.primary[i]["windows"]
    BY <1>1, <1>6, RankedFields
  <2>2. d \in [1..l -> Nat] /\ \A i \in 1..l : d[i] = s[i]["windows"]
    BY <1>2, <1>3, <1>6, RankedFields
  <2>3. Total(c) <= MaxWindows
    BY DEF GoodPack
  <2> HIDE DEF c, d
  <2>4. \A i \in 1..l : d[i] <= c[i]
    <3>1. \A i \in 1..l : d[i] = c[i] /\ c[i] \in Nat
      BY <1>2, <1>4, <2>1, <2>2
    <3> QED
      BY <3>1
  <2>5. l \in Nat
    BY <1>4
  <2> HIDE DEF l
  <2>6. Total(d) <= Total(c) /\ Total(d) \in Nat /\ Total(c) \in Nat
    BY <1>1, <1>4, <2>1, <2>2, <2>4, <2>5, FewerItems, ItemsAreFinite
  <2>7. MaxWindows \in Nat
    BY ContextAssumption
  <2> QED
    BY <2>3, <2>6, <2>7 DEF d
<1>8. /\ NeighborsReal(a, t.neighbors, PrimaryIds(t))
      /\ Len(t.neighbors) <= MaxNeighbors /\ IsFiniteSet(t.warnings)
  <2>1. DOMAIN t.neighbors = {}
    BY <1>3
  <2> QED
    BY <1>3, <2>1 DEF GoodPack, NeighborsReal
<1>9. \A i \in 1..l : t.primary[i] = k.primary[i]
  BY <1>2, <1>3
<1>10. Without(t, "windows") /\ Without(t, "chunks") /\ Without(t, "tiers") /\ t.neighbors = <<>>
  BY <1>3, <1>5, <1>6
<1>11. Len(rankPages(a)) \in Nat /\ Len(t.primary) = l /\ l <= Len(rankPages(a))
  <2>1. n <= Len(rankPages(a))
    BY DEF GoodPack, Kept
  <2>2. Len(rankPages(a)) \in Nat
    BY RankedPages
  <2> QED
    BY <1>1, <1>2, <1>3, <2>1, <2>2
<1>12. Kept(a, t, lost \cup {"primary"})
  <2>1. \A i \in 1..l : t.primary[i].id = rankPages(a)[i].id
    BY <1>4, <1>9 DEF GoodPack, Kept
  <2>2. \A i \in 1..l : t.primary[i].chunks = 0
    BY <1>10, <1>11 DEF Without
  <2> QED
    BY <1>10, <1>11, <2>1, <2>2 DEF Kept
<1>13. Windowed(a, k, lost) => Windowed(a, t, lost \cup {"primary"})
  BY <1>3, <1>4, <1>9, <1>11 DEF Windowed
<1> QED
  BY <1>3, <1>7, <1>8, <1>12, <1>13 DEF GoodPack, s, t

\* What the trimmer pops, it pops in order.
LEMMA PoppedKeeps ==
    ASSUME NEW a \in Requests, NEW k, NEW lost, GoodPack(a, k, lost), NextSection(k) # "none"
    PROVE  LET section == NextSection(k)
               t == Popped(k, section)
           IN  /\ section \in Sections
               /\ GoodPack(a, t, lost \cup {section}) /\ t.budget = k.budget
               /\ Windowed(a, k, lost) => Windowed(a, t, lost \cup {section})
<1>1. \A field \in Fields : Holding(k, field) = {} <=> Without(k, field)
  BY HoldingNothing DEF GoodPack
<1>2. /\ Holding(k, "windows") = {} <=> Without(k, "windows")
      /\ Holding(k, "chunks") = {} <=> Without(k, "chunks")
      /\ Holding(k, "tiers") = {} <=> Without(k, "tiers")
  BY <1>1 DEF Fields
<1>3. CASE k.neighbors # <<>>
  <2>1. NextSection(k) = "neighbors"
    BY <1>3 DEF NextSection
  <2>2. Popped(k, "neighbors") = [k EXCEPT !.neighbors = Front(@)]
    BY DEF Popped
  <2> QED
    <3>1. LET t == [k EXCEPT !.neighbors = Front(@)]
              cut == lost \cup {"neighbors"}
          IN  /\ GoodPack(a, t, cut) /\ t.budget = k.budget
              /\ Windowed(a, k, lost) => Windowed(a, t, cut)
      BY <1>3, PopNeighbor
    <3> QED
      BY <2>1, <2>2, <3>1 DEF Sections
<1>4. CASE k.neighbors = <<>> /\ ~Without(k, "windows")
  <2>1. NextSection(k) = "sourceWindows"
    BY <1>2, <1>4 DEF NextSection
  <2>2. Popped(k, "sourceWindows") = Taken(k, "windows")
    BY DEF Popped
  <2>3. Windowed(a, Taken(k, "windows"), lost \cup {"sourceWindows"})
    BY DEF Windowed
  <2> QED
    BY <1>4, <2>1, <2>2, <2>3, PopWindow DEF Sections
<1>5. CASE k.neighbors = <<>> /\ Without(k, "windows") /\ ~Without(k, "chunks")
  <2>1. NextSection(k) = "chunks"
    BY <1>2, <1>5 DEF NextSection
  <2>2. Popped(k, "chunks") = Taken(k, "chunks")
    BY DEF Popped
  <2> QED
    BY <1>5, <2>1, <2>2, PopChunk DEF Sections
<1>6. CASE k.neighbors = <<>> /\ Without(k, "windows") /\ Without(k, "chunks") /\ ~Without(k, "tiers")
  <2>1. NextSection(k) = "contentTiers"
    BY <1>2, <1>6 DEF NextSection
  <2>2. Popped(k, "contentTiers") = Taken(k, "tiers")
    BY DEF Popped
  <2> QED
    BY <1>6, <2>1, <2>2, PopTier DEF Sections
<1>7. CASE k.neighbors = <<>> /\ Without(k, "windows") /\ Without(k, "chunks") /\ Without(k, "tiers")
  <2>1. NextSection(k) = "primary" /\ k.primary # <<>>
    BY <1>2, <1>7 DEF NextSection
  <2>2. Popped(k, "primary") = [k EXCEPT !.primary = Front(@)]
    BY DEF Popped
  <2> QED
    BY <1>7, <2>1, <2>2, PopPage DEF Sections
<1> QED
  BY <1>3, <1>4, <1>5, <1>6, <1>7

LEMMA Annotated ==
    ASSUME NEW a \in Requests, NEW primary \in Seq(Ranked)
    PROVE  LET t == annotateGraphNeighbors(a, primary)
               n == Len(primary)
           IN  /\ t \in Seq(Ranked) /\ Len(t) = n /\ n \in Nat
               /\ \A i \in 1..n : /\ t[i].id = primary[i].id /\ t[i].chunks = primary[i].chunks
                                  /\ t[i].windows = primary[i].windows /\ t[i].tiers = primary[i].tiers
                                  /\ t[i].linked <=> /\ GraphOn(a) /\ n >= 2
                                                     /\ \E j \in 1..n : primary[j].id \in Adjacent(a, primary[i].id)
<1> DEFINE t == annotateGraphNeighbors(a, primary)
           n == Len(primary)
           ids == {primary[i].id : i \in 1..n}
           joined == {m \in ids : Adjacent(a, m) \cap ids # {}}
           link(i) == GraphOn(a) /\ n >= 2 /\ primary[i].id \in joined
<1>1. DOMAIN primary = 1..n /\ n \in Nat /\ \A i \in 1..n : primary[i] \in Ranked
  OBVIOUS
<1>2. t = [i \in 1..n |-> [primary[i] EXCEPT !.linked = link(i)]]
  BY <1>1 DEF annotateGraphNeighbors
<1>3. \A i \in 1..n : link(i) \in BOOLEAN
  BY DEF GraphOn, Requests
<1>4. \A i \in 1..n : primary[i].id \in joined <=>
                         \E j \in 1..n : primary[j].id \in Adjacent(a, primary[i].id)
  OBVIOUS
<1> DEFINE linked == [i \in 1..n |-> link(i)]
<1>5. \A i \in 1..n : /\ linked[i] \in BOOLEAN
                      /\ linked[i] <=> /\ GraphOn(a) /\ n >= 2
                                       /\ \E j \in 1..n : primary[j].id \in Adjacent(a, primary[i].id)
  BY <1>3, <1>4
<1>6. t = [i \in 1..n |-> [primary[i] EXCEPT !.linked = linked[i]]]
  BY <1>2
<1> HIDE DEF t, linked, n
<1>7. \A i \in 1..n : /\ t[i] \in Ranked
                      /\ t[i].id = primary[i].id /\ t[i].chunks = primary[i].chunks
                      /\ t[i].windows = primary[i].windows /\ t[i].tiers = primary[i].tiers
                      /\ t[i].linked = linked[i]
  BY <1>1, <1>5, <1>6 DEF Ranked
<1>8. t \in Seq(Ranked) /\ Len(t) = n
  <2>1. t \in [1..n -> Ranked]
    BY <1>6, <1>7
  <2> QED
    BY <1>1, <2>1
<1> QED
  BY <1>1, <1>5, <1>7, <1>8 DEF t, n

LEMMA NoItems ==
    ASSUME NEW n \in Nat, NEW c \in [1..n -> Nat], \A i \in 1..n : c[i] = 0
    PROVE  Total(c) = 0
<1>1. Items(c) = {}
  BY DEF Items
<1> QED
  BY <1>1, FS_EmptySet DEF Total

\* A page has no more readable citations than line ranges.
LEMMA CitationsCounted ==
    ASSUME NEW a \in Requests, NEW p \in Visible(a)
    PROVE  /\ Readable(a, p) \in Nat /\ LineRanges(a, p) \in Nat
           /\ Readable(a, p) <= LineRanges(a, p) /\ applyContentTiers(a, p) \in Nat
<1> DEFINE c == a.citations[p]
           t == a.tiers[p]
           R == {i \in DOMAIN c : c[i] = "readable"}
           L == {i \in DOMAIN c : c[i] # "whole-file"}
           T == {i \in DOMAIN t : t[i] # "empty"}
<1>1. p \in ConceptPages \cup EntityPages
  BY VisiblePages
<1>2. c \in Seq({"whole-file", "readable", "unreadable"}) /\ t \in Seq(STRING)
  BY <1>1 DEF Requests
<1> HIDE DEF c, t
<1>3. /\ DOMAIN c = 1..Len(c) /\ Len(c) \in Nat /\ DOMAIN t = 1..Len(t) /\ Len(t) \in Nat
  BY <1>2
<1>4. IsFiniteSet(DOMAIN c) /\ IsFiniteSet(DOMAIN t)
  BY <1>3, UpTo
<1>5. R \in SUBSET L /\ L \in SUBSET DOMAIN c /\ T \in SUBSET DOMAIN t
  OBVIOUS
<1>6. Readable(a, p) = Cardinality(R) /\ LineRanges(a, p) = Cardinality(L)
      /\ applyContentTiers(a, p) = Cardinality(T)
  BY DEF Readable, LineRanges, applyContentTiers, c, t
<1> HIDE DEF R, L, T
<1>7. IsFiniteSet(L) /\ IsFiniteSet(T)
  BY <1>4, <1>5, FS_Subset
<1>8. IsFiniteSet(R) /\ Cardinality(R) <= Cardinality(L)
  BY <1>5, <1>7, FS_Subset
<1> QED
  BY <1>6, <1>7, <1>8, FS_CardinalityType

\* The windows of the pages share one budget, best page first.
LEMMA MaterializedWindows ==
    ASSUME NEW a \in Requests, NEW primary \in Seq(Ranked),
           \A i \in 1..Len(primary) : primary[i].id \in Visible(a)
    PROVE  LET w == materializeSourceWindows(a, primary)
               n == Len(primary)
           IN  /\ n \in Nat /\ w \in [1..n -> Nat]
               /\ \A i \in 1..n : w[i] <= Readable(a, primary[i].id)
               /\ Total(w) <= MaxWindows
<1> DEFINE w == materializeSourceWindows(a, primary)
           n == Len(primary)
           r == [i \in 1..n |-> Readable(a, primary[i].id)]
           used(i) == Total([j \in 1..(i - 1) |-> r[j]])
<1>1. DOMAIN primary = 1..n /\ n \in Nat
  OBVIOUS
<1>2. r \in [1..n -> Nat]
  BY CitationsCounted
<1>3. MaxWindows \in Nat
  BY ContextAssumption
<1>4. \A i \in 1..n : used(i) \in Nat
  <2> TAKE i \in 1..n
  <2> DEFINE l == i - 1
             b == [j \in 1..l |-> r[j]]
  <2> HIDE DEF r
  <2>1. l \in Nat /\ l <= n
    BY <1>1
  <2> HIDE DEF l
  <2>2. b \in [1..l -> Nat]
    BY <1>1, <1>2, <2>1
  <2> HIDE DEF b
  <2>3. Total(b) \in Nat
    BY <2>1, <2>2, ItemsAreFinite
  <2> QED
    BY <2>3 DEF b, l
<1>5. \A i \in 1..n : used(i) = Total([j \in 1..(i - 1) |-> Readable(a, primary[j].id)])
  <2> TAKE i \in 1..n
  <2>1. \A j \in 1..(i - 1) : j \in 1..n
    BY <1>1
  <2>2. [j \in 1..(i - 1) |-> r[j]] = [j \in 1..(i - 1) |-> Readable(a, primary[j].id)]
    BY <2>1
  <2> QED
    BY <2>2
<1>6. w = [i \in 1..n |-> Min({Max({0, MaxWindows - used(i)}), r[i]})]
  <2> DEFINE old(i) == Total([j \in 1..(i - 1) |-> Readable(a, primary[j].id)])
  <2>1. w = [i \in 1..n |-> Min({Max({0, MaxWindows - old(i)}), Readable(a, primary[i].id)})]
    BY <1>1 DEF materializeSourceWindows
  <2>2. \A i \in 1..n : used(i) = old(i) /\ r[i] = Readable(a, primary[i].id)
    BY <1>5
  <2> HIDE DEF used, old, r
  <2> QED
    BY <2>1, <2>2
<1>7. \A i \in 1..n : r[i] = Readable(a, primary[i].id)
  OBVIOUS
<1> HIDE DEF w, r, used, n
<1>8. ASSUME NEW i \in 1..n
      PROVE  /\ w[i] \in Nat /\ w[i] <= r[i]
             /\ w[i] > 0 => w[i] + used(i) <= MaxWindows
  <2> DEFINE d == Max({0, MaxWindows - used(i)})
  <2>1. d \in Nat /\ (d > 0 => d = MaxWindows - used(i))
    BY <1>3, <1>4, MaxOfTwo
  <2>2. w[i] = Min({d, r[i]}) /\ r[i] \in Nat
    BY <1>2, <1>6
  <2> HIDE DEF d
  <2>3. w[i] = IF d <= r[i] THEN d ELSE r[i]
    BY <2>1, <2>2, MinOfTwo
  <2> QED
    BY <1>3, <1>4, <2>1, <2>2, <2>3
<1>9. w \in [1..n -> Nat]
  BY <1>6, <1>8
<1>10. n \in Nat
  BY <1>1
<1>11. Total(w) <= MaxWindows
  BY <1>2, <1>3, <1>8, <1>9, <1>10, SharedBudget DEF used
<1> QED
  BY <1>7, <1>8, <1>9, <1>10, <1>11 DEF w, n

\* Only finitely many warnings are raised.
LEMMA WarningsRaised ==
    ASSUME NEW a \in Requests
    PROVE  /\ a.notices \in SUBSET Texts /\ a.problems \in SUBSET Texts
           /\ retrievalWarning(a) \in SUBSET Texts /\ IsFiniteSet(retrievalWarning(a))
<1>1. a.notices \in SUBSET Texts /\ a.problems \in SUBSET Texts /\ a.semantic \in Texts
  BY DEF Requests, Texts
<1>2. \/ retrievalWarning(a) = {}
      \/ retrievalWarning(a) = {a.semantic}
      \/ retrievalWarning(a) = {"embedding-store-missing"}
  BY DEF retrievalWarning
<1>3. "embedding-store-missing" \in Texts
  BY DEF Texts
<1>4. retrievalWarning(a) \in SUBSET Texts
  BY <1>1, <1>2, <1>3
<1>5. IsFiniteSet(retrievalWarning(a))
  BY <1>2, FS_EmptySet, FS_Singleton
<1> QED
  BY <1>1, <1>4, <1>5

LEMMA SuggestedActions ==
    ASSUME NEW a \in Requests
    PROVE  collectSuggestedActions(a) \in Seq(Texts)
<1>1. a.recommended \in Seq(STRING)
  BY DEF Requests
<1>2. a.recommended \in Seq(Texts)
  BY <1>1 DEF Texts
<1> DEFINE unless(c) == IF c \in ToSet(a.recommended) THEN <<>> ELSE <<c>>
           compile == IF "embedding-store-missing" \in retrievalWarning(a)
                      THEN unless("compile") ELSE <<>>
<1>3. "compile" \in Texts /\ "view" \in Texts /\ "query" \in Texts
  BY DEF Texts
<1>4. \A c \in Texts : unless(c) \in Seq(Texts)
  <2>1. <<>> \in Seq(Texts) /\ \A c \in Texts : <<c>> \in Seq(Texts)
    OBVIOUS
  <2> QED
    BY <2>1
<1> HIDE DEF unless
<1>5. <<>> \in Seq(Texts)
  OBVIOUS
<1>6. compile \in Seq(Texts) /\ unless("view") \in Seq(Texts) /\ unless("query") \in Seq(Texts)
  BY <1>3, <1>4, <1>5
<1>7. collectSuggestedActions(a) =
        IF Visible(a) = {} THEN a.recommended
        ELSE a.recommended \o compile \o unless("view") \o unless("query")
  BY DEF collectSuggestedActions, unless
<1> HIDE DEF compile
<1>8. a.recommended \o compile \o unless("view") \o unless("query") \in Seq(Texts)
  BY <1>2, <1>6
<1> QED
  BY <1>2, <1>7, <1>8

LEMMA GapsAreEdges ==
    ASSUME NEW a \in Requests, NEW prim
    PROVE  emitGraphGaps(a, prim) \in SUBSET (Nodes \X Nodes)
<1>1. a.links \in SUBSET (Nodes \X Nodes) /\ a.relations \in SUBSET (Nodes \X Nodes)
  BY DEF Requests
<1>2. Edges(a) \in SUBSET (Nodes \X Nodes)
  BY <1>1 DEF Edges, Relations
<1> QED
  BY <1>2 DEF emitGraphGaps

\* The draft: the ranked pages, whole, and their neighborhood.
LEMMA DraftKeeps ==
    ASSUME NEW a \in Requests, IsFiniteSet(a.notices \cup a.problems),
           NEW ranked, ranked = rankPages(a)
    PROVE  LET prim == {ranked[i].id : i \in DOMAIN ranked}
               k == [primary |-> annotateGraphNeighbors(a, ranked),
                     neighbors |-> IF GraphOn(a) /\ prim # {}
                                   THEN expandGraphNeighborhood(a, ranked) ELSE <<>>,
                     gaps |-> IF GraphOn(a) THEN emitGraphGaps(a, prim) ELSE {},
                     warnings |-> buildTopLevelWarnings(a),
                     actions |-> collectSuggestedActions(a),
                     budget |-> [estimated |-> 0, truncated |-> FALSE, trimmed |-> {}]]
           IN  /\ GoodPack(a, k, {}) /\ Len(k.primary) = Len(rankPages(a))
               /\ k.budget.trimmed = {}
<1> DEFINE prim == {ranked[i].id : i \in DOMAIN ranked}
           s == annotateGraphNeighbors(a, ranked)
           n == Len(ranked)
           gaps == IF GraphOn(a) THEN emitGraphGaps(a, prim) ELSE {}
           near == IF GraphOn(a) /\ prim # {} THEN expandGraphNeighborhood(a, ranked) ELSE <<>>
           budget == [estimated |-> 0, truncated |-> FALSE, trimmed |-> {}]
           k == [primary |-> s, neighbors |-> near, gaps |-> gaps,
                 warnings |-> buildTopLevelWarnings(a), actions |-> collectSuggestedActions(a),
                 budget |-> budget]
<1> HIDE DEF k
<1>1. /\ ranked \in Seq(Ranked) /\ n \in Nat
      /\ \A i \in 1..n : /\ ranked[i].id \in Visible(a)
                         /\ ranked[i].windows = 0 /\ ranked[i].tiers = 0
  BY RankedPages
<1>2. /\ s \in Seq(Ranked) /\ Len(s) = n
      /\ \A i \in 1..n : /\ s[i].id = ranked[i].id /\ s[i].chunks = ranked[i].chunks
                         /\ s[i].windows = ranked[i].windows /\ s[i].tiers = ranked[i].tiers
  BY <1>1, Annotated
<1>3. MaxNeighbors \in Nat /\ MaxWindows \in Nat
  BY ContextAssumption
<1>4. near \in Seq(Neighbors) /\ Len(near) <= MaxNeighbors /\ NeighborsReal(a, near, prim)
  <2>1. CASE GraphOn(a) /\ prim # {}
    BY <1>1, <2>1, ExpandedNeighborhood
  <2>2. CASE ~(GraphOn(a) /\ prim # {})
    <3>1. near = <<>>
      BY <2>2
    <3> HIDE DEF near
    <3>2. near \in Seq(Neighbors) /\ DOMAIN near = {} /\ Len(near) = 0
      BY <3>1
    <3>3. NeighborsReal(a, near, prim)
      BY <3>2 DEF NeighborsReal
    <3> QED
      BY <1>3, <3>2, <3>3
  <2> QED
    BY <2>1, <2>2
<1>5. buildTopLevelWarnings(a) \in SUBSET Texts /\ IsFiniteSet(buildTopLevelWarnings(a))
  <2>1. a.notices \in SUBSET (a.notices \cup a.problems)
    OBVIOUS
  <2>2. IsFiniteSet(a.notices)
    BY <2>1, FS_Subset
  <2>3. IsFiniteSet(a.notices \cup retrievalWarning(a))
    BY <2>2, WarningsRaised, FS_Union
  <2> QED
    BY <2>3, WarningsRaised DEF buildTopLevelWarnings
<1>6. gaps \in SUBSET (Nodes \X Nodes)
  BY GapsAreEdges
<1>7. collectSuggestedActions(a) \in Seq(Texts)
  BY SuggestedActions
<1> HIDE DEF s, near, gaps, prim
<1>8. /\ k \in BuiltPacks /\ k.primary = s /\ k.neighbors = near /\ k.budget.trimmed = {}
      /\ k.warnings = buildTopLevelWarnings(a)
  BY <1>2, <1>4, <1>5, <1>6, <1>7 DEF BuiltPacks, k
<1>9. PrimaryIds(k) = prim
  <2>1. DOMAIN s = 1..n /\ DOMAIN ranked = 1..n
    BY <1>1, <1>2
  <2> QED
    BY <1>2, <1>8, <2>1 DEF PrimaryIds, prim
<1>10. Total(Of(k.primary, "windows")) <= MaxWindows
  <2>1. "windows" \in Fields
    BY DEF Fields
  <2>2. /\ Of(s, "windows") \in [1..n -> Nat]
        /\ \A i \in 1..n : Of(s, "windows")[i] = s[i]["windows"]
    BY <1>2, <2>1, RankedFields
  <2>3. \A i \in 1..n : Of(s, "windows")[i] = 0
    BY <1>1, <1>2, <2>2
  <2>4. Total(Of(s, "windows")) = 0
    BY <1>1, <2>2, <2>3, NoItems
  <2> QED
    BY <1>3, <1>8, <2>4
<1>11. Kept(a, k, {})
  <2>1. \A i \in 1..n : ranked[i].chunks \in Nat
    <3>1. \A i \in 1..n : ranked[i] \in Ranked
      BY <1>1
    <3> QED
      BY <3>1 DEF Ranked
  <2> QED
    BY <1>1, <1>2, <1>8, <2>1 DEF Kept
<1> QED
  BY <1>2, <1>4, <1>5, <1>8, <1>9, <1>10, <1>11 DEF GoodPack, k, s, near, gaps, prim

\* Tiers and windows are attached to the pages as they are.
LEMMA AttachKeeps ==
    ASSUME NEW a \in Requests, IsFiniteSet(a.notices \cup a.problems),
           NEW k, GoodPack(a, k, {}), Len(k.primary) = Len(rankPages(a))
    PROVE  LET windows == materializeSourceWindows(a, k.primary)
               filled == [k EXCEPT !.primary =
                            [i \in DOMAIN windows |->
                                [k.primary[i] EXCEPT
                                    !.tiers = applyContentTiers(a, k.primary[i].id),
                                    !.windows = IF a.sources THEN windows[i] ELSE 0]]]
               t == [filled EXCEPT !.warnings = appendProjectWarnings(a, filled)]
           IN  /\ GoodPack(a, t, {}) /\ t.budget = k.budget
               /\ a.sources => Windowed(a, t, {})
<1> DEFINE p == k.primary
           n == Len(p)
           windows == materializeSourceWindows(a, p)
           q == [i \in DOMAIN windows |->
                    [p[i] EXCEPT !.tiers = applyContentTiers(a, p[i].id),
                                 !.windows = IF a.sources THEN windows[i] ELSE 0]]
           filled == [k EXCEPT !.primary = q]
           t == [filled EXCEPT !.warnings = appendProjectWarnings(a, filled)]
<1> HIDE DEF windows, q, filled, t
<1>1. p \in Seq(Ranked) /\ n \in Nat /\ DOMAIN p = 1..n /\ k \in BuiltPacks
  BY DEF GoodPack, BuiltPacks
<1>2. \A i \in 1..n : p[i].id \in Visible(a) /\ p[i].id = rankPages(a)[i].id
  BY RankedPages DEF GoodPack, Kept
<1>3. /\ windows \in [1..n -> Nat] /\ Total(windows) <= MaxWindows
      /\ \A i \in 1..n : windows[i] <= Readable(a, p[i].id)
  BY <1>1, <1>2, MaterializedWindows DEF windows
<1>4. \A i \in 1..n : applyContentTiers(a, p[i].id) \in Nat
  BY <1>2, CitationsCounted
<1>6. q \in Seq(Ranked) /\ Len(q) = n
  <2>1. \A i \in 1..n : p[i] \in Ranked
    BY <1>1
  <2>2. \A i \in 1..n : q[i] \in Ranked
    BY <1>3, <1>4, <2>1 DEF Ranked, q
  <2>3. q \in [1..n -> Ranked]
    BY <1>3, <2>2 DEF q
  <2> QED
    BY <1>1, <2>3
<1>7. \A i \in 1..n : /\ q[i].id = p[i].id /\ q[i].chunks = p[i].chunks
                      /\ q[i].windows = IF a.sources THEN windows[i] ELSE 0
  <2>1. \A i \in 1..n : p[i] \in Ranked
    BY <1>1
  <2> QED
    BY <1>3, <2>1 DEF Ranked, q
<1> HIDE DEF p
<1>8. filled \in BuiltPacks /\ filled.primary = q /\ filled.warnings = k.warnings
      /\ filled.neighbors = k.neighbors /\ filled.budget = k.budget
  BY <1>1, <1>6 DEF BuiltPacks, filled
<1>9. appendProjectWarnings(a, filled) \in SUBSET Texts
      /\ IsFiniteSet(appendProjectWarnings(a, filled))
  <2> DEFINE w == IF a.sources /\ hasUnmaterializedSpans(a, filled)
                  THEN {"source-window-unavailable"} ELSE {}
  <2>1. w \in SUBSET Texts /\ IsFiniteSet(w)
    <3>1. w = {} \/ w = {"source-window-unavailable"}
      OBVIOUS
    <3>2. "source-window-unavailable" \in Texts
      BY DEF Texts
    <3> HIDE DEF w
    <3>3. w \in SUBSET Texts
      BY <3>1, <3>2
    <3>4. IsFiniteSet(w)
      BY <3>1, FS_EmptySet, FS_Singleton
    <3> QED
      BY <3>3, <3>4
  <2>2. appendProjectWarnings(a, filled) = (k.warnings \cup a.problems) \cup w
    BY <1>8 DEF appendProjectWarnings
  <2>3. a.problems \in SUBSET (a.notices \cup a.problems)
    OBVIOUS
  <2>4. IsFiniteSet(a.problems) /\ IsFiniteSet(k.warnings)
    BY <2>3, FS_Subset DEF GoodPack
  <2>5. k.warnings \in SUBSET Texts
    BY <1>1 DEF BuiltPacks
  <2> HIDE DEF w
  <2>6. IsFiniteSet(k.warnings \cup a.problems)
    BY <2>4, FS_Union
  <2>7. IsFiniteSet((k.warnings \cup a.problems) \cup w)
    BY <2>1, <2>6, FS_Union
  <2> QED
    BY <2>1, <2>2, <2>5, <2>7, WarningsRaised
<1>10. /\ t \in BuiltPacks /\ t.primary = q /\ t.warnings = appendProjectWarnings(a, filled)
       /\ t.neighbors = k.neighbors /\ t.budget = k.budget
  BY <1>8, <1>9 DEF BuiltPacks, t
<1>11. PrimaryIds(t) = PrimaryIds(k)
  <2>1. DOMAIN q = 1..n
    BY <1>1, <1>6
  <2> QED
    BY <1>1, <1>7, <1>10, <2>1 DEF PrimaryIds, p
<1>12. NeighborsReal(a, t.neighbors, PrimaryIds(t)) /\ Len(t.neighbors) <= MaxNeighbors
  BY <1>10, <1>11 DEF GoodPack
<1>13. Total(Of(t.primary, "windows")) <= MaxWindows
  <2> DEFINE d == Of(q, "windows")
  <2>1. "windows" \in Fields
    BY DEF Fields
  <2>2. d \in [1..n -> Nat] /\ \A i \in 1..n : d[i] = q[i]["windows"]
    BY <1>6, <2>1, RankedFields
  <2> HIDE DEF d
  <2>3. \A i \in 1..n : d[i] <= windows[i]
    BY <1>3, <1>7, <2>2
  <2>4. n \in 0..n
    BY <1>1
  <2>5. Total(d) <= Total(windows) /\ Total(d) \in Nat /\ Total(windows) \in Nat
    BY <1>1, <1>3, <2>2, <2>3, <2>4, FewerItems, ItemsAreFinite
  <2>6. MaxWindows \in Nat
    BY ContextAssumption
  <2> QED
    BY <1>3, <1>10, <2>5, <2>6 DEF d
<1>14. Kept(a, t, {})
  <2>1. \A i \in 1..n : p[i].chunks \in Nat
    <3>1. \A i \in 1..n : p[i] \in Ranked
      BY <1>1
    <3> QED
      BY <3>1 DEF Ranked
  <2>2. n = Len(rankPages(a)) /\ \A i \in 1..n : q[i].id = rankPages(a)[i].id
    BY <1>2, <1>7 DEF p
  <2>3. \A i, j \in 1..n : i < j /\ q[i].chunks < rankPages(a)[i].chunks => q[j].chunks = 0
    BY <1>7 DEF GoodPack, Kept, p
  <2> QED
    BY <1>1, <1>6, <1>10, <2>2, <2>3 DEF Kept
<1>15. a.sources => Windowed(a, t, {})
  <2>1. SUFFICES ASSUME a.sources, ~("source-window-unavailable" \in t.warnings)
                 PROVE  \A i \in 1..n : q[i].windows = LineRanges(a, q[i].id)
    BY <1>6, <1>10 DEF Windowed
  <2>2. ~hasUnmaterializedSpans(a, filled)
    BY <1>10, <2>1 DEF appendProjectWarnings
  <2>3. DOMAIN q = 1..n
    BY <1>1, <1>6
  <2>4. \A i \in 1..n : ~(LineRanges(a, q[i].id) > q[i].windows)
    BY <1>8, <2>2, <2>3 DEF hasUnmaterializedSpans
  <2>5. ASSUME NEW i \in 1..n PROVE q[i].windows = LineRanges(a, q[i].id)
    <3>1. q[i].windows = windows[i] /\ q[i].id = p[i].id /\ p[i].id \in Visible(a)
      BY <1>2, <1>7, <2>1
    <3>2. windows[i] \in Nat /\ windows[i] <= Readable(a, p[i].id)
      BY <1>3
    <3>3. /\ Readable(a, p[i].id) \in Nat /\ LineRanges(a, p[i].id) \in Nat
          /\ Readable(a, p[i].id) <= LineRanges(a, p[i].id)
      BY <3>1, CitationsCounted
    <3> QED
      BY <2>4, <3>1, <3>2, <3>3
  <2> QED
    BY <2>5
<1> QED
  BY <1>9, <1>10, <1>12, <1>13, <1>14, <1>15 DEF GoodPack, t, filled, q, windows, p

\* A page says it is joined exactly when an edge leads to another page of the pack.
Linked(a, k) ==
    \A i \in 1..Len(k.primary) :
        k.primary[i].linked <=>
            /\ GraphOn(a) /\ Len(k.primary) >= 2
            /\ \E j \in 1..Len(k.primary) : k.primary[j].id \in Adjacent(a, k.primary[i].id)

\* The second annotation speaks of the pages that are left.
LEMMA ReconcileKeeps ==
    ASSUME NEW a \in Requests, NEW k, NEW lost, GoodPack(a, k, lost)
    PROVE  LET r == reconcileGraphNeighborReasons(a, k)
           IN  /\ GoodPack(a, r, lost) /\ Linked(a, r)
               /\ Windowed(a, k, lost) => Windowed(a, r, lost)
<1> DEFINE p == k.primary
           n == Len(p)
           q == annotateGraphNeighbors(a, p)
           r == reconcileGraphNeighborReasons(a, k)
<1>1. p \in Seq(Ranked) /\ k \in BuiltPacks
  BY DEF GoodPack, BuiltPacks
<1>2. /\ q \in Seq(Ranked) /\ Len(q) = n /\ n \in Nat
      /\ \A i \in 1..n : /\ q[i].id = p[i].id /\ q[i].chunks = p[i].chunks
                         /\ q[i].windows = p[i].windows /\ q[i].tiers = p[i].tiers
                         /\ q[i].linked <=> /\ GraphOn(a) /\ n >= 2
                                            /\ \E j \in 1..n : p[j].id \in Adjacent(a, p[i].id)
  BY <1>1, Annotated
<1>3. r = [k EXCEPT !.primary = q]
  BY DEF reconcileGraphNeighborReasons
<1> HIDE DEF p, q, r
<1>4. /\ r \in BuiltPacks /\ r.primary = q /\ r.neighbors = k.neighbors
      /\ r.warnings = k.warnings /\ r.budget = k.budget
  BY <1>1, <1>2, <1>3 DEF BuiltPacks
<1>5. PrimaryIds(r) = PrimaryIds(k)
  <2>1. DOMAIN q = 1..n /\ DOMAIN p = 1..n
    BY <1>1, <1>2
  <2> QED
    BY <1>2, <1>4, <2>1 DEF PrimaryIds, p
<1>6. NeighborsReal(a, r.neighbors, PrimaryIds(r)) /\ Len(r.neighbors) <= MaxNeighbors
  BY <1>4, <1>5 DEF GoodPack
<1>7. Total(Of(r.primary, "windows")) <= MaxWindows
  <2>1. "windows" \in Fields
    BY DEF Fields
  <2>2. /\ Of(q, "windows") \in [1..n -> Nat]
        /\ \A i \in 1..n : Of(q, "windows")[i] = q[i]["windows"]
    BY <1>2, <2>1, RankedFields
  <2>3. /\ Of(p, "windows") \in [1..n -> Nat]
        /\ \A i \in 1..n : Of(p, "windows")[i] = p[i]["windows"]
    BY <1>1, <1>2, <2>1, RankedFields
  <2>4. \A i \in 1..n : Of(q, "windows")[i] = Of(p, "windows")[i]
    BY <1>2, <2>2, <2>3
  <2>5. Of(q, "windows") = Of(p, "windows")
    BY <2>2, <2>3, <2>4
  <2> QED
    BY <1>4, <2>5 DEF GoodPack, p
<1>8. Kept(a, r, lost)
  BY <1>2, <1>4 DEF GoodPack, Kept, Without, p
<1>9. Windowed(a, k, lost) => Windowed(a, r, lost)
  BY <1>2, <1>4 DEF Windowed, p
<1>10. Linked(a, r)
  BY <1>2, <1>4 DEF Linked
<1> QED
  BY <1>4, <1>6, <1>7, <1>8, <1>9, <1>10 DEF GoodPack, r

\* The budget block adds its own characters and changes nothing else.
LEMMA BudgetWritten ==
    ASSUME NEW k \in BuiltPacks, NEW cut, NEW estimated, NEW truncated \in BOOLEAN
    PROVE  LET t == Budgeted(k, cut, estimated, truncated)
           IN  /\ t.primary = k.primary /\ t.neighbors = k.neighbors /\ t.gaps = k.gaps
               /\ t.warnings = k.warnings /\ t.actions = k.actions
               /\ t.budget = [estimated |-> estimated, truncated |-> truncated, trimmed |-> cut]
               /\ PackChars(t) = BodyChars(k) + ItemChars["note"] * Cardinality(cut)
                                 + Digits(estimated) + (IF truncated THEN 4 ELSE 5)
<1> DEFINE t == Budgeted(k, cut, estimated, truncated)
<1>1. /\ t.primary = k.primary /\ t.neighbors = k.neighbors /\ t.gaps = k.gaps
      /\ t.warnings = k.warnings /\ t.actions = k.actions
      /\ t.budget = [estimated |-> estimated, truncated |-> truncated, trimmed |-> cut]
  BY DEF BuiltPacks, Budgeted
<1> HIDE DEF t
<1>2. BodyChars(t) = BodyChars(k)
  BY <1>1 DEF BodyChars
<1>3. /\ t.budget.estimated = estimated /\ t.budget.truncated = truncated
      /\ t.budget.trimmed = cut
  BY <1>1
<1>4. PackChars(t) = BodyChars(k) + ItemChars["note"] * Cardinality(cut)
                     + Digits(estimated) + (IF truncated THEN 4 ELSE 5)
  BY <1>2, <1>3 DEF PackChars
<1> QED
  BY <1>1, <1>4 DEF t

\* The budget tells the truth about the finished pack.
Honest(a, t) ==
    /\ estimatePackTokens(t) - t.budget.estimated \in {-1, 0, 1}
    /\ ~t.budget.truncated => estimatePackTokens(t) <= a.budget /\ t.budget.trimmed = {}

\* The written estimate is within a token of the size, and a pack said to fit does.
LEMMA BudgetIsHonest ==
    ASSUME NEW a \in Requests, NEW r \in BuiltPacks, IsFiniteSet(r.warnings),
           NEW lost \in SUBSET Sections
    PROVE  LET e == Estimate(r, lost)
               t == Budgeted(r, lost, e, lost # {} \/ e > a.budget)
           IN  e \in Nat /\ Honest(a, t)
<1> DEFINE cut == lost # {}
           e1 == estimatePackTokens(Budgeted(r, lost, 0, cut))
           e == estimatePackTokens(Budgeted(r, lost, e1, cut))
           over == cut \/ e > a.budget
           t == Budgeted(r, lost, e, over)
           c == BodyChars(r) + ItemChars["note"] * Cardinality(lost)
           flag == IF cut THEN 4 ELSE 5
           shown == IF over THEN 4 ELSE 5
<1>1. Estimate(r, lost) = e
  BY DEF Estimate
<1>2. c \in Nat
  <2>1. IsFiniteSet(Sections)
    <3>1. Sections = {"neighbors"} \cup {"sourceWindows"} \cup {"chunks"}
                     \cup {"contentTiers"} \cup {"primary"}
      BY DEF Sections
    <3> QED
      BY <3>1, FS_Singleton, FS_Union
  <2>2. Cardinality(lost) \in Nat
    BY <2>1, FS_Subset, FS_CardinalityType
  <2>3. ItemChars["note"] \in Nat
    BY ItemCharsAssumption
  <2>4. BodyChars(r) \in Nat
    BY BodyIsNumber
  <2> DEFINE x == ItemChars["note"]
             y == Cardinality(lost)
             z == BodyChars(r)
  <2> HIDE DEF x, y, z
  <2>5. z + x * y \in Nat
    BY <2>2, <2>3, <2>4 DEF x, y, z
  <2> QED
    BY <2>5 DEF x, y, z
<1>3. cut \in BOOLEAN /\ over \in BOOLEAN
  OBVIOUS
<1>4. /\ PackChars(Budgeted(r, lost, 0, cut)) = c + Digits(0) + flag
      /\ PackChars(Budgeted(r, lost, e1, cut)) = c + Digits(e1) + flag
      /\ PackChars(t) = c + Digits(e) + shown
      /\ t.budget.estimated = e /\ t.budget.truncated = over /\ t.budget.trimmed = lost
  <2>1. ASSUME NEW x, NEW b \in BOOLEAN
        PROVE  /\ PackChars(Budgeted(r, lost, x, b)) = c + Digits(x) + (IF b THEN 4 ELSE 5)
               /\ Budgeted(r, lost, x, b).budget = [estimated |-> x, truncated |-> b, trimmed |-> lost]
    BY BudgetWritten
  <2> HIDE DEF c, e, e1, cut, over
  <2> QED
    <3>1. 0 \in Nat
      OBVIOUS
    <3>2. /\ PackChars(Budgeted(r, lost, 0, cut)) = c + Digits(0) + (IF cut THEN 4 ELSE 5)
          /\ PackChars(Budgeted(r, lost, e1, cut)) = c + Digits(e1) + (IF cut THEN 4 ELSE 5)
          /\ PackChars(Budgeted(r, lost, e, over)) = c + Digits(e) + (IF over THEN 4 ELSE 5)
      BY <1>3, <2>1
    <3>3. Budgeted(r, lost, e, over).budget
             = [estimated |-> e, truncated |-> over, trimmed |-> lost]
      BY <1>3, <2>1
    <3>4. /\ t.budget.estimated = e /\ t.budget.truncated = over /\ t.budget.trimmed = lost
      BY <3>3
    <3> QED
      BY <3>2, <3>4
<1>5. Digits(0) = 1
  BY DEF Digits
<1>6. flag \in {4, 5} /\ shown \in {4, 5} /\ shown <= flag
  OBVIOUS
<1> DEFINE real == estimatePackTokens(t)
<1>7. /\ e1 = estimateTokens(c + 1 + flag) /\ e = estimateTokens(c + Digits(e1) + flag)
      /\ real = estimateTokens(c + Digits(e) + shown)
  BY <1>4, <1>5 DEF estimatePackTokens
<1>8. e \in Nat /\ a.budget \in Nat /\ a.budget <= MaxBudget
  <2>1. MaxBudget \in Nat
    BY BudgetAssumption
  <2>2. a.budget \in 0..MaxBudget
    BY DEF Requests
  <2> HIDE DEF c, e, e1, real, flag, shown
  <2>3. e \in Nat
    <3>1. Estimates(c, flag, shown, e1, e, real)
      BY <1>2, <1>6, <1>7 DEF Estimates
    <3> QED
      BY <3>1, EstimateIsClose
  <2> QED
    BY <2>1, <2>2, <2>3
<1>9. ~over => shown = flag /\ e <= a.budget /\ lost = {}
  BY <1>8
<1> HIDE DEF c, e, e1, real, flag, shown, t
<1>10. /\ real \in Nat /\ real - e \in {-1, 0, 1}
       /\ shown = flag /\ e <= MaxBudget => real <= e
  <2>1. /\ e \in Nat /\ real \in Nat /\ real <= e + 1 /\ e <= real + 1
        /\ shown = flag /\ e <= MaxBudget => real <= e
    <3>1. Estimates(c, flag, shown, e1, e, real)
      BY <1>2, <1>6, <1>7 DEF Estimates
    <3> QED
      BY <3>1, EstimateIsClose
  <2> QED
    BY <2>1
<1>11. ASSUME ~over PROVE real <= a.budget /\ lost = {}
  <2>1. shown = flag /\ e <= a.budget /\ lost = {}
    BY <1>9, <1>11
  <2>2. e <= MaxBudget
    BY <1>8, <2>1, BudgetAssumption
  <2>3. real <= e
    BY <1>10, <2>1, <2>2
  <2> QED
    BY <1>8, <1>10, <2>1, <2>3
<1> HIDE DEF over
<1>12. Honest(a, t)
  BY <1>4, <1>10, <1>11 DEF Honest, real
<1> QED
  BY <1>1, <1>8, <1>12 DEF t, over

LEMMA FinalizeKeeps ==
    ASSUME NEW a \in Requests, NEW k, NEW lost \in SUBSET Sections, GoodPack(a, k, lost)
    PROVE  LET r == reconcileGraphNeighborReasons(a, k)
               e == Estimate(r, lost)
               t == Budgeted(r, lost, e, lost # {} \/ e > a.budget)
           IN  /\ GoodPack(a, t, lost) /\ t.budget.trimmed = lost
               /\ Windowed(a, k, lost) => Windowed(a, t, lost)
               /\ Honest(a, t) /\ Linked(a, t)
<1> DEFINE r == reconcileGraphNeighborReasons(a, k)
           e == Estimate(r, lost)
           over == lost # {} \/ e > a.budget
           t == Budgeted(r, lost, e, over)
<1>1. /\ GoodPack(a, r, lost) /\ Linked(a, r)
      /\ Windowed(a, k, lost) => Windowed(a, r, lost)
  BY ReconcileKeeps
<1> HIDE DEF r
<1>2. r \in BuiltPacks /\ IsFiniteSet(r.warnings)
  BY <1>1 DEF GoodPack
<1>3. e \in Nat /\ Honest(a, t)
  BY <1>2, BudgetIsHonest
<1> HIDE DEF e
<1>4. over \in BOOLEAN
  OBVIOUS
<1>5. /\ t.primary = r.primary /\ t.neighbors = r.neighbors /\ t.gaps = r.gaps
      /\ t.warnings = r.warnings /\ t.actions = r.actions
      /\ t.budget = [estimated |-> e, truncated |-> over, trimmed |-> lost]
  <2> HIDE DEF over
  <2> QED
    BY <1>2, <1>4, BudgetWritten
<1>6. t \in BuiltPacks
  <2> HIDE DEF over
  <2> QED
    BY <1>2, <1>3, <1>4 DEF BuiltPacks, Budgeted
<1> HIDE DEF t, over
<1>7. GoodPack(a, t, lost)
  <2>1. PrimaryIds(t) = PrimaryIds(r)
    BY <1>5 DEF PrimaryIds
  <2>2. Kept(a, t, lost)
    BY <1>1, <1>5 DEF GoodPack, Kept, Without
  <2> QED
    BY <1>1, <1>5, <1>6, <2>1, <2>2 DEF GoodPack
<1>8. Linked(a, t)
  BY <1>1, <1>5 DEF Linked
<1>9. Windowed(a, k, lost) => Windowed(a, t, lost)
  BY <1>1, <1>5 DEF Windowed
<1>10. t.budget.trimmed = lost
  BY <1>5
<1> QED
  BY <1>3, <1>7, <1>8, <1>9, <1>10 DEF t, over, e, r

-----------------------------------------------------------------------------
(* The pack that is built.                                                 *)

\* At every stage the pack is good for what it has lost; what a finished pack says of
\* itself is what was trimmed, what it measures and what it joins.
BuildInv ==
    /\ asked \in Requests /\ IsFiniteSet(asked.notices \cup asked.problems)
    /\ stage \in {"snapshot", "drafted", "trimming", "done"}
    /\ trimmed \in SUBSET Sections
    /\ stage \in {"snapshot", "drafted"} => trimmed = {}
    /\ stage # "snapshot" => GoodPack(asked, pack, trimmed)
    /\ stage = "drafted" => Len(pack.primary) = Len(rankPages(asked))
    /\ stage \in {"trimming", "done"} /\ asked.sources => Windowed(asked, pack, trimmed)
    /\ stage = "done" => /\ pack.budget.trimmed = trimmed
                         /\ Honest(asked, pack) /\ Linked(asked, pack)

\* Every stage keeps the invariant, by the lemma of its own.
LEMMA BuildStep == BuildInv /\ [ContextNext]_contextVars => BuildInv'
<1> SUFFICES ASSUME BuildInv, [ContextNext]_contextVars PROVE BuildInv'
  OBVIOUS
<1>1. asked \in Requests /\ IsFiniteSet(asked.notices \cup asked.problems)
      /\ trimmed \in SUBSET Sections
  BY DEF BuildInv
<1>2. CASE assembleDraft
  <2> DEFINE ranked == rankPages(asked)
             prim == {ranked[i].id : i \in DOMAIN ranked}
             k == [primary |-> annotateGraphNeighbors(asked, ranked),
                   neighbors |-> IF GraphOn(asked) /\ prim # {}
                                 THEN expandGraphNeighborhood(asked, ranked) ELSE <<>>,
                   gaps |-> IF GraphOn(asked) THEN emitGraphGaps(asked, prim) ELSE {},
                   warnings |-> buildTopLevelWarnings(asked),
                   actions |-> collectSuggestedActions(asked),
                   budget |-> [estimated |-> 0, truncated |-> FALSE, trimmed |-> {}]]
  <2>1. pack' = k /\ stage = "snapshot" /\ stage' = "drafted" /\ asked' = asked /\ trimmed' = trimmed
    BY <1>2 DEF assembleDraft
  <2>2. GoodPack(asked, k, {}) /\ Len(k.primary) = Len(rankPages(asked))
    BY <1>1, DraftKeeps
  <2>3. trimmed = {}
    BY <2>1 DEF BuildInv
  <2> HIDE DEF k
  <2> QED
    BY <1>1, <2>1, <2>2, <2>3 DEF BuildInv
<1>3. CASE attachSources
  <2> DEFINE windows == materializeSourceWindows(asked, pack.primary)
             filled == [pack EXCEPT !.primary =
                          [i \in DOMAIN windows |->
                              [pack.primary[i] EXCEPT
                                  !.tiers = applyContentTiers(asked, pack.primary[i].id),
                                  !.windows = IF asked.sources THEN windows[i] ELSE 0]]]
             t == [filled EXCEPT !.warnings = appendProjectWarnings(asked, filled)]
  <2>1. pack' = t /\ stage = "drafted" /\ stage' = "trimming" /\ asked' = asked /\ trimmed' = trimmed
    BY <1>3 DEF attachSources
  <2>2. trimmed = {} /\ GoodPack(asked, pack, {}) /\ Len(pack.primary) = Len(rankPages(asked))
    BY <2>1 DEF BuildInv
  <2>3. GoodPack(asked, t, {}) /\ (asked.sources => Windowed(asked, t, {}))
    BY <1>1, <2>2, AttachKeeps
  <2> HIDE DEF t
  <2> QED
    BY <1>1, <2>1, <2>2, <2>3 DEF BuildInv
<1>4. CASE TrimStep
  <2> DEFINE section == NextSection(pack)
             t == Popped(pack, section)
  <2>1. /\ pack' = t /\ trimmed' = trimmed \cup {section}
        /\ stage = "trimming" /\ stage' = "trimming" /\ asked' = asked /\ section # "none"
    BY <1>4 DEF TrimStep, trimToBudget
  <2>2. GoodPack(asked, pack, trimmed) /\ (asked.sources => Windowed(asked, pack, trimmed))
    BY <2>1 DEF BuildInv
  <2>3. /\ section \in Sections /\ GoodPack(asked, t, trimmed \cup {section})
        /\ Windowed(asked, pack, trimmed) => Windowed(asked, t, trimmed \cup {section})
    BY <1>1, <2>1, <2>2, PoppedKeeps
  <2> HIDE DEF section, t
  <2> QED
    BY <1>1, <2>1, <2>2, <2>3 DEF BuildInv
<1>5. CASE finalizeBudget
  <2> DEFINE k == reconcileGraphNeighborReasons(asked, pack)
             e == Estimate(k, trimmed)
             t == Budgeted(k, trimmed, e, trimmed # {} \/ e > asked.budget)
  <2>1. /\ pack' = t /\ stage = "trimming" /\ stage' = "done"
        /\ asked' = asked /\ trimmed' = trimmed
    BY <1>5 DEF finalizeBudget
  <2>2. GoodPack(asked, pack, trimmed) /\ (asked.sources => Windowed(asked, pack, trimmed))
    BY <2>1 DEF BuildInv
  <2>3. /\ GoodPack(asked, t, trimmed) /\ t.budget.trimmed = trimmed
        /\ Windowed(asked, pack, trimmed) => Windowed(asked, t, trimmed)
        /\ Honest(asked, t) /\ Linked(asked, t)
    BY <1>1, <2>2, FinalizeKeeps
  <2> HIDE DEF t
  <2> QED
    BY <1>1, <2>1, <2>2, <2>3 DEF BuildInv
<1>6. CASE UNCHANGED contextVars
  BY <1>6 DEF BuildInv, contextVars
<1> QED
  BY <1>2, <1>3, <1>4, <1>5, <1>6 DEF ContextNext

LEMMA HonestWhenBuilt == BuildInv => PackHonest
<1> SUFFICES ASSUME BuildInv PROVE PackHonest
  OBVIOUS
<1>1. asked \in Requests /\ stage \in {"snapshot", "drafted", "trimming", "done"}
  BY DEF BuildInv
<1> DEFINE n == Len(pack.primary)
           full == rankPages(asked)
<1>2. ASSUME stage # "snapshot"
      PROVE  /\ GoodPack(asked, pack, trimmed)
             /\ pack \in BuiltPacks /\ pack.primary \in Seq(Ranked) /\ n \in Nat
             /\ DOMAIN pack.primary = 1..n
             /\ full \in Seq(Ranked) /\ Len(full) \in Nat /\ Len(full) <= asked.topPages
             /\ n <= Len(full) /\ \A i \in 1..n : pack.primary[i].id = full[i].id
             /\ \A i \in 1..Len(full) : full[i].id \in Visible(asked)
  <2>1. GoodPack(asked, pack, trimmed)
    BY <1>2 DEF BuildInv
  <2>2. pack \in BuiltPacks /\ n <= Len(full) /\ \A i \in 1..n : pack.primary[i].id = full[i].id
    BY <2>1 DEF GoodPack, Kept
  <2>3. pack.primary \in Seq(Ranked) /\ n \in Nat /\ DOMAIN pack.primary = 1..n
    BY <2>2 DEF BuiltPacks
  <2> QED
    BY <1>1, <2>1, <2>2, <2>3, RankedPages
<1>3. ContextTypeOK
  <2>1. ASSUME stage # "snapshot"
        PROVE  /\ Len(pack.neighbors) <= MaxNeighbors /\ n <= asked.topPages
               /\ \A i \in DOMAIN pack.primary :
                     /\ pack.primary[i].id \in Visible(asked)
                     /\ {pack.primary[i].windows, pack.primary[i].chunks, pack.primary[i].tiers}
                           \subseteq Nat
               /\ Total(Of(pack.primary, "windows")) <= MaxWindows
               /\ pack.budget.trimmed \subseteq Sections
    <3>1. asked.topPages \in Nat
      BY <1>1 DEF Requests
    <3>2. n <= asked.topPages
      BY <1>2, <2>1, <3>1
    <3>3. \A i \in 1..n : i \in 1..Len(full)
      BY <1>2, <2>1
    <3>4. \A i \in 1..n : pack.primary[i].id \in Visible(asked)
      BY <1>2, <2>1, <3>3
    <3>5. \A i \in 1..n : pack.primary[i] \in Ranked
      BY <1>2, <2>1
    <3>6. \A i \in 1..n : {pack.primary[i].windows, pack.primary[i].chunks,
                           pack.primary[i].tiers} \subseteq Nat
      BY <3>5 DEF Ranked
    <3>7. pack.budget.trimmed \subseteq Sections
      BY <1>2, <2>1 DEF BuiltPacks
    <3> QED
      BY <1>2, <2>1, <3>2, <3>4, <3>6, <3>7 DEF GoodPack
  <2> QED
    BY <1>1, <2>1 DEF ContextTypeOK
<1>4. DistancesReal
  BY <1>2 DEF DistancesReal, GoodPack, NeighborsReal
<1>5. TrimmedInOrder
  <2> SUFFICES ASSUME stage = "done" PROVE TrimmedInOrder
    BY DEF TrimmedInOrder
  <2>1. \A field \in Fields : Holding(pack, field) = {} <=> Without(pack, field)
    BY <1>2, HoldingNothing
  <2>2. /\ Holding(pack, "windows") = {} <=> Without(pack, "windows")
        /\ Holding(pack, "chunks") = {} <=> Without(pack, "chunks")
        /\ Holding(pack, "tiers") = {} <=> Without(pack, "tiers")
    BY <2>1 DEF Fields
  <2>3. Kept(asked, pack, trimmed) /\ pack.budget.trimmed = trimmed
    BY <1>2 DEF BuildInv, GoodPack
  <2> QED
    BY <1>2, <2>2, <2>3 DEF TrimmedInOrder, Kept
<1>6. HonestBudget
  BY DEF HonestBudget, BuildInv, Honest
<1>7. ReasonsCurrent
  BY <1>2 DEF ReasonsCurrent, BuildInv, Linked
<1>8. NoSilentWindowLoss
  BY <1>2 DEF NoSilentWindowLoss, BuildInv, Windowed
<1> QED
  BY <1>3, <1>4, <1>5, <1>6, <1>7, <1>8 DEF PackHonest

\* Whatever the project and the options, a finished pack is honest: its distances are those
\* of the graph, the trimmer gave up the least valuable first, the budget block tells the
\* pack's size within a token and never calls an oversized or trimmed pack whole, the
\* reasons are about the pages still there, and no source window is lost in silence
\* (build.ts, graph.ts, budget.ts, provenance.ts).
THEOREM PacksAreHonest == BuildSpec => []PackHonest
<1> DEFINE Begun == /\ asked \in Requests /\ IsFiniteSet(asked.notices \cup asked.problems)
                    /\ stage = "snapshot" /\ pack = <<>> /\ trimmed = {}
<1>1. Begun => BuildInv
  BY DEF BuildInv
<1>2. BuildInv /\ [ContextNext]_contextVars => BuildInv'
  BY BuildStep
<1>3. BuildInv => PackHonest
  BY HonestWhenBuilt
<1> QED
  BY <1>1, <1>2, <1>3, PTL DEF BuildSpec

-----------------------------------------------------------------------------
(* Profile packs.                                                          *)

\* The elements of a finite set can be listed.
LEMMA AllListed ==
    ASSUME NEW S, IsFiniteSet(S)
    PROVE  /\ SetToSeq(S) \in Seq(S)
           /\ \A x \in S : \E i \in DOMAIN SetToSeq(S) : SetToSeq(S)[i] = x
           /\ Len(SetToSeq(S)) = Cardinality(S)
<1> DEFINE n == Cardinality(S)
           l == SetToSeq(S)
<1>1. n \in Nat /\ IsFiniteSet(1..n) /\ Cardinality(1..n) = n
  BY FS_CardinalityType, FS_Interval
<1>2. \E f \in [1..n -> S] : IsInjective(f)
  BY FS_CardinalityType DEF ExistsBijection, Bijection, Injection
<1>3. l \in [1..n -> S] /\ IsInjective(l)
  BY <1>2 DEF SetToSeq
<1> HIDE DEF l, n
<1>4. l \in Injection(1..n, S)
  BY <1>3 DEF Injection
<1>5. l \in Surjection(1..n, S)
  BY <1>1, <1>4, FS_Injection DEF n
<1>6. \A x \in S : \E i \in 1..n : l[i] = x
  BY <1>5 DEF Surjection
<1> QED
  BY <1>1, <1>3, <1>6 DEF l, n

\* The disk is as it can be left, and the last verdict still describes it.
DiskSane ==
    /\ folder \in [Dirs -> {"ok", "missing", "invalid"}]
    /\ notes \in [Dirs \X Stems -> Notes \cup {None}]
    /\ \A k \in Dirs \X Stems : notes[k] # None => folder[k[1]] = "ok"
    /\ links \subseteq Links /\ health \in Healths /\ edits \in 0..MaxEdits

VerdictCurrent ==
    /\ verdict.kind \in {"none", "valid", "invalid", "diff", "init"}
    /\ verdict.kind = "valid" => saved # None /\ validateProfile(saved)
    /\ verdict.kind = "diff" =>
           /\ verdict = diffProfiles(verdict.old, verdict.new)
           /\ verdict.new # None /\ validateProfile(verdict.new)
           /\ verdict.old # None => validateProfile(verdict.old)
    /\ verdict.kind = "init" /\ saved # None =>
           \E t \in DOMAIN StarterDir :
               /\ saved = buildStarterProfile(t) /\ validateProfile(saved)
               /\ folder[StarterDir[t]] # "invalid" /\ ~HasPages(StarterDir[t])
               /\ links = {} /\ health.relations = "ok" /\ health.events = "empty"

ProfileInv == DiskSane /\ (saved # None => WellShaped(saved)) /\ VerdictCurrent

-----------------------------------------------------------------------------
(* What validateProfile establishes. *)

LEMMA AcceptedTypes ==
    ASSUME NEW p, validateProfile(p)
    PROVE  /\ \A t \in AllTypes(p) :
                  /\ p.entities[t].directory \in SafeDirs /\ p.entities[t].directory \in Dirs
                  /\ p.entities[t].directory \notin DefaultDirs
                  /\ validateEntity(p.entities[t], DOMAIN p.artifacts)
           /\ \A t, u \in AllTypes(p) : p.entities[t].directory = p.entities[u].directory => t = u
  BY ProfileAssumption DEF validateProfile, validateProfileShape, validateEntities, validateEntity, AllTypes

\* Two names of files in the entity directories are the same only for the same page.
LEMMA PathsApart ==
    ASSUME NEW p, validateProfile(p), NEW id, NEW oth,
           id[1] \in AllTypes(p), oth[1] \in AllTypes(p), PathOf(p, id) = PathOf(p, oth)
    PROVE  id[1] = oth[1] /\ id[2] = oth[2]
  BY AcceptedTypes DEF PathOf

\* The problem of a scanned file names that file.
LEMMA ScanNames ==
    ASSUME NEW p, NEW t, NEW s, NEW v \in validateScan(p, t, s)
    PROVE  v.at = PathOf(p, <<t, s>>)
  BY DEF validateScan, Problem

LEMMA EntityProblemIs ==
    ASSUME NEW p, NEW v \in EntityProblems(p)
    PROVE  \/ \E u \in AllTypes(p) : folder[p.entities[u].directory] = "invalid"
                                      /\ v = Problem("invalid-directory", <<p.entities[u].directory, "">>)
           \/ \E u \in AllTypes(p) : \E q \in scanEntityDir(p.entities[u].directory) : v \in validateScan(p, u, q)
<1> DEFINE A == {Problem("invalid-directory", <<p.entities[t].directory, "">>) :
                     t \in {u \in AllTypes(p) : folder[p.entities[u].directory] = "invalid"}}
           B == UNION {UNION {validateScan(p, t, s) : s \in scanEntityDir(p.entities[t].directory)} : t \in AllTypes(p)}
<1>1. v \in A \/ v \in B
  BY DEF EntityProblems
<1>2. CASE v \in A
  BY <1>2
<1> DEFINE C(t) == UNION {validateScan(p, t, s) : s \in scanEntityDir(p.entities[t].directory)}
<1>3. CASE v \in B
  <2>1. B = UNION {C(t) : t \in AllTypes(p)}
    OBVIOUS
  <2>2. PICK u \in AllTypes(p) : v \in C(u)
    <3> HIDE DEF C, B
    <3> QED
      BY <1>3, <2>1
  <2>3. \E q \in scanEntityDir(p.entities[u].directory) : v \in validateScan(p, u, q)
    BY <2>2
  <2> QED
    BY <2>3
<1> QED
  BY <1>1, <1>2, <1>3

\* A file is named by an entity problem exactly when its own scan has one.
LEMMA ProblemOfFile ==
    ASSUME NEW p, validateProfile(p), NEW t \in AllTypes(p), NEW s \in scanEntityDir(p.entities[t].directory)
    PROVE  (\E v \in EntityProblems(p) : v.at = PathOf(p, <<t, s>>)) <=> validateScan(p, t, s) # {}
<1> DEFINE d == p.entities[t].directory
<1>1. folder[d] = "ok"
  BY DEF scanEntityDir
<1>2. ASSUME NEW v \in EntityProblems(p), v.at = PathOf(p, <<t, s>>) PROVE validateScan(p, t, s) # {}
  <2>1. \/ \E u \in AllTypes(p) : folder[p.entities[u].directory] = "invalid"
                                   /\ v = Problem("invalid-directory", <<p.entities[u].directory, "">>)
        \/ \E u \in AllTypes(p) : \E q \in scanEntityDir(p.entities[u].directory) : v \in validateScan(p, u, q)
    BY <1>2, EntityProblemIs
  <2>2. CASE \E u \in AllTypes(p) : folder[p.entities[u].directory] = "invalid"
                                    /\ v = Problem("invalid-directory", <<p.entities[u].directory, "">>)
    <3>1. PICK u \in AllTypes(p) : folder[p.entities[u].directory] = "invalid"
                                   /\ v = Problem("invalid-directory", <<p.entities[u].directory, "">>)
      BY <2>2
    <3>2. <<d, s>> = <<p.entities[u].directory, "">>
      BY <1>2, <3>1 DEF Problem, PathOf
    <3> QED
      BY <1>1, <3>1, <3>2
  <2>3. CASE \E u \in AllTypes(p) : \E q \in scanEntityDir(p.entities[u].directory) : v \in validateScan(p, u, q)
    <3>1. PICK u \in AllTypes(p) : \E q \in scanEntityDir(p.entities[u].directory) : v \in validateScan(p, u, q)
      BY <2>3
    <3>2. PICK q \in scanEntityDir(p.entities[u].directory) : v \in validateScan(p, u, q)
      BY <3>1
    <3>3. v.at = PathOf(p, <<u, q>>)
      BY <3>2, ScanNames
    <3>4. <<u, q>>[1] = u /\ <<u, q>>[2] = q /\ <<t, s>>[1] = t /\ <<t, s>>[2] = s
      OBVIOUS
    <3>5. u = t /\ q = s
      BY <1>2, <3>3, <3>4, PathsApart
    <3> QED
      BY <3>2, <3>5
  <2> QED
    BY <2>1, <2>2, <2>3
<1>3. ASSUME validateScan(p, t, s) # {} PROVE \E v \in EntityProblems(p) : v.at = PathOf(p, <<t, s>>)
  <2>1. PICK v : v \in validateScan(p, t, s)
    BY <1>3
  <2>2. v \in EntityProblems(p)
    <3> DEFINE C(u) == UNION {validateScan(p, u, q) : q \in scanEntityDir(p.entities[u].directory)}
    <3>1. v \in C(t)
      BY <2>1
    <3>2. v \in UNION {C(u) : u \in AllTypes(p)}
      <4> HIDE DEF C
      <4> QED
        BY <3>1
    <3>3. UNION {C(u) : u \in AllTypes(p)} \subseteq EntityProblems(p)
      BY DEF EntityProblems
    <3> QED
      BY <3>2, <3>3
  <2> QED
    BY <2>1, <2>2, ScanNames
<1> QED
  BY <1>2, <1>3

LEMMA CountedOrNamed ==
    ASSUME ProfileInv PROVE PagesAccounted
<1> SUFFICES ASSUME Loaded, NEW t \in AllTypes(saved), NEW s \in scanEntityDir(saved.entities[t].directory)
             PROVE  (s \in collectEntitySummary(saved, t))
                        # (\E v \in EntityProblems(saved) : v.at = PathOf(saved, <<t, s>>))
  BY DEF PagesAccounted
<1> DEFINE named == \E v \in EntityProblems(saved) : v.at = PathOf(saved, <<t, s>>)
<1>1. validateProfile(saved)
  BY DEF Loaded
<1>2. named <=> validateScan(saved, t, s) # {}
  BY <1>1, ProblemOfFile
<1>3. ASSUME ~named PROVE s \in collectEntitySummary(saved, t)
  <2>1. s \in SlugStems /\ notes[PathOf(saved, <<t, s>>)].slug # "other"
    BY <1>2, <1>3 DEF validateScan
  <2>2. <<t, s>> \in AllTypes(saved) \X SlugStems /\ <<t, s>>[1] = t /\ <<t, s>>[2] = s
    BY <2>1
  <2>3. <<t, s>> \in collectEntityPages(saved)
    BY <2>1, <2>2 DEF collectEntityPages
  <2> QED
    BY <1>3, <2>1, <2>3 DEF collectEntitySummary
<1>4. ASSUME named PROVE s \notin collectEntitySummary(saved, t)
  BY <1>4 DEF collectEntitySummary
<1> QED
  BY <1>3, <1>4

-----------------------------------------------------------------------------
(* The list of problems. *)

LEMMA Pairs ==
    ASSUME NEW A, NEW B, NEW id \in A \X B
    PROVE  id = <<id[1], id[2]>> /\ id[1] \in A /\ id[2] \in B
  OBVIOUS

\* Problems are about the files of the pack's types and their directories.
LEMMA ProblemsFinite ==
    ASSUME NEW p, WellShaped(p)
    PROVE  /\ IsFiniteSet(EntityProblems(p)) /\ IsFiniteSet(summarizeRelations(p)) /\ IsFiniteSet(summarizeEvents)
           /\ IsFiniteSet(checkArtifactRefs(p, collectArtifactRefPageSources(p)))
           /\ IsFiniteSet(collectStandingRelationProblems(p))
<1> DEFINE Kinds == {"invalid-directory", "non-slug-safe-filename", "slug-mismatch", "field-violation",
                     "artifact-store", "unmet"}
           Files == AllTypes(p) \X (Stems \cup {""})
           S == Kinds \X Files
           f == [x \in S |-> Problem(x[1], PathOf(p, x[2]))]
           T == {f[x] : x \in S}
           U == T \cup {Problem("unverifiable", <<"graph", "relations">>)}
<1>1. IsFiniteSet(AllTypes(p)) /\ IsFiniteSet(Stems)
  BY ProfileAssumption DEF WellShaped, AllTypes
<1>2. IsFiniteSet(Stems \cup {""})
  BY <1>1, FS_AddElement
<1>3. IsFiniteSet(Kinds)
  <2>1. IsFiniteSet({"invalid-directory"})
    BY FS_Singleton
  <2>2. IsFiniteSet({"invalid-directory"} \cup {"non-slug-safe-filename"})
    BY <2>1, FS_AddElement
  <2>3. IsFiniteSet({"invalid-directory"} \cup {"non-slug-safe-filename"} \cup {"slug-mismatch"})
    BY <2>2, FS_AddElement
  <2>4. IsFiniteSet({"invalid-directory"} \cup {"non-slug-safe-filename"} \cup {"slug-mismatch"} \cup {"field-violation"})
    BY <2>3, FS_AddElement
  <2>5. IsFiniteSet({"artifact-store"} \cup {"unmet"})
    BY FS_Singleton, FS_AddElement
  <2>6. IsFiniteSet({"invalid-directory"} \cup {"non-slug-safe-filename"} \cup {"slug-mismatch"} \cup {"field-violation"}
                    \cup ({"artifact-store"} \cup {"unmet"}))
    BY <2>4, <2>5, FS_Union
  <2>7. Kinds = {"invalid-directory"} \cup {"non-slug-safe-filename"} \cup {"slug-mismatch"} \cup {"field-violation"}
                    \cup ({"artifact-store"} \cup {"unmet"})
    OBVIOUS
  <2> QED
    BY <2>6, <2>7
<1>4. IsFiniteSet(S)
  <2> HIDE DEF Kinds
  <2>1. IsFiniteSet(Files)
    BY <1>1, <1>2, FS_Product
  <2> HIDE DEF Files
  <2> QED
    BY <1>3, <2>1, FS_Product
<1>5. IsFiniteSet(U)
  <2> HIDE DEF S
  <2>1. f \in Surjection(S, T)
    BY DEF Surjection
  <2> HIDE DEF f, T
  <2>2. IsFiniteSet(T)
    BY <1>4, <2>1, FS_Surjection
  <2> QED
    BY <2>2, FS_AddElement
<1>6. ASSUME NEW k \in Kinds, NEW t \in AllTypes(p), NEW s \in Stems \cup {""}
      PROVE  Problem(k, PathOf(p, <<t, s>>)) \in U
  <2>1. <<k, <<t, s>>>> \in S /\ <<k, <<t, s>>>>[1] = k /\ <<k, <<t, s>>>>[2] = <<t, s>>
    BY <1>6
  <2>2. f[<<k, <<t, s>>>>] = Problem(k, PathOf(p, <<t, s>>))
    <3> HIDE DEF S
    <3> QED
      BY <2>1
  <2> HIDE DEF f, S
  <2> QED
    BY <2>1, <2>2
<1>7. \A k \in Kinds : \A id \in AllTypes(p) \X Stems : Problem(k, PathOf(p, id)) \in U
  <2> SUFFICES ASSUME NEW k \in Kinds, NEW id \in AllTypes(p) \X Stems PROVE Problem(k, PathOf(p, id)) \in U
    OBVIOUS
  <2>1. id = <<id[1], id[2]>> /\ id[1] \in AllTypes(p) /\ id[2] \in Stems \cup {""}
    BY Pairs
  <2> HIDE DEF U, Kinds
  <2> QED
    BY <1>6, <2>1
<1> HIDE DEF U
<1>8. EntityProblems(p) \subseteq U
  <2> SUFFICES ASSUME NEW v \in EntityProblems(p) PROVE v \in U
    OBVIOUS
  <2>1. CASE \E u \in AllTypes(p) : v = Problem("invalid-directory", <<p.entities[u].directory, "">>)
    <3>1. PICK u \in AllTypes(p) : v = Problem("invalid-directory", <<p.entities[u].directory, "">>)
      BY <2>1
    <3>2. v = Problem("invalid-directory", PathOf(p, <<u, "">>))
      BY <3>1 DEF PathOf
    <3> QED
      BY <1>6, <3>2
  <2>2. CASE \E u \in AllTypes(p) : \E q \in scanEntityDir(p.entities[u].directory) : v \in validateScan(p, u, q)
    <3>1. PICK u \in AllTypes(p) : \E q \in scanEntityDir(p.entities[u].directory) : v \in validateScan(p, u, q)
      BY <2>2
    <3>2. PICK q \in scanEntityDir(p.entities[u].directory) : v \in validateScan(p, u, q)
      BY <3>1
    <3>3. q \in Stems \cup {""}
      BY <3>2 DEF scanEntityDir
    <3>4. \E k \in Kinds : v = Problem(k, PathOf(p, <<u, q>>))
      BY <3>2 DEF validateScan
    <3> QED
      BY <1>6, <3>3, <3>4
  <2> QED
    BY <2>1, <2>2, EntityProblemIs
<1>9. checkArtifactRefs(p, collectArtifactRefPageSources(p)) \subseteq U
  BY <1>7 DEF checkArtifactRefs, collectArtifactRefPageSources
<1>10. collectStandingRelationProblems(p) \subseteq U
  <2>1. collectGatedPages(p) \subseteq AllTypes(p) \X Stems
    BY ProfileAssumption DEF collectGatedPages
  <2>2. Problem("unverifiable", <<"graph", "relations">>) \in U
    BY DEF U
  <2> QED
    BY <1>7, <2>1, <2>2 DEF collectStandingRelationProblems
<1>11. IsFiniteSet(summarizeRelations(p)) /\ IsFiniteSet(summarizeEvents)
  BY FS_EmptySet, FS_Singleton DEF summarizeRelations, summarizeEvents
<1> QED
  BY <1>5, <1>8, <1>9, <1>10, <1>11, FS_Subset

\* What two lists of at most one element hold comes first, whatever follows them.
LEMMA FirstTwo ==
    ASSUME NEW T, NEW r \in Seq(T), NEW e \in Seq(T), NEW a \in Seq(T), NEW g \in Seq(T), NEW n \in Seq(T),
           Len(r) \in {0, 1}, Len(e) \in {0, 1}
    PROVE  LET l == ((r \o e) \o a) \o g \o n IN
           /\ l \in Seq(T)
           /\ \A i \in DOMAIN r : \E j \in 1..2 : j <= Len(l) /\ l[j] = r[i]
           /\ \A i \in DOMAIN e : \E j \in 1..2 : j <= Len(l) /\ l[j] = e[i]
<1>1. PICK front : front = r \o e
  OBVIOUS
<1>2. PICK back : back = g \o n
  OBVIOUS
<1>3. PICK l : l = (front \o a) \o g \o n
  OBVIOUS
<1>4. front \in Seq(T) /\ Len(front) = Len(r) + Len(e)
  BY <1>1
<1>5. front \o a \in Seq(T) /\ Len(front \o a) = Len(front) + Len(a) /\ Len(a) \in Nat
      /\ \A j \in 1..Len(front) : (front \o a)[j] = front[j]
  BY <1>4
<1>6. PICK m : m = front \o a
  OBVIOUS
<1>7. (m \o g) \in Seq(T) /\ Len(m \o g) = Len(m) + Len(g) /\ Len(g) \in Nat
      /\ \A j \in 1..Len(m) : (m \o g)[j] = m[j]
  BY <1>5, <1>6
<1>8. PICK k : k = m \o g
  OBVIOUS
<1>9. (k \o n) \in Seq(T) /\ Len(k \o n) = Len(k) + Len(n) /\ Len(n) \in Nat
      /\ \A j \in 1..Len(k) : (k \o n)[j] = k[j]
  BY <1>7, <1>8
<1>10. l = k \o n
  BY <1>3, <1>6, <1>8
<1>11. l \in Seq(T) /\ Len(l) >= Len(front) /\ \A j \in 1..Len(front) : l[j] = front[j]
  BY <1>4, <1>5, <1>6, <1>7, <1>8, <1>9, <1>10
<1>12. ASSUME NEW i \in DOMAIN r PROVE \E j \in 1..2 : j <= Len(l) /\ l[j] = r[i]
  <2>1. i = 1 /\ Len(r) = 1 /\ front[1] = r[1]
    BY <1>1
  <2> QED
    BY <1>4, <1>11, <2>1
<1>13. ASSUME NEW i \in DOMAIN e PROVE \E j \in 1..2 : j <= Len(l) /\ l[j] = e[i]
  <2>0. /\ Len(r \o e) = Len(r) + Len(e)
        /\ \A j \in 1..(Len(r) + Len(e)) : (r \o e)[j] = IF j <= Len(r) THEN r[j] ELSE e[j - Len(r)]
    OBVIOUS
  <2>1. i = 1 /\ Len(e) = 1
    OBVIOUS
  <2>2. CASE Len(r) = 0
    <3>0. 1 \in 1..(Len(r) + Len(e)) /\ ~(1 <= Len(r)) /\ 1 - Len(r) = 1 /\ Len(r) + Len(e) = 1
      BY <2>1, <2>2
    <3>1. (r \o e)[1] = e[1] /\ Len(front) = 1
      BY <1>1, <2>0, <3>0
    <3>2. l[1] = e[i] /\ 1 <= Len(l)
      BY <1>1, <1>11, <2>1, <3>1
    <3> QED
      BY <3>2
  <2>3. CASE Len(r) = 1
    <3>1. (r \o e)[2] = e[1] /\ Len(front) = 2
      BY <1>1, <2>0, <2>1, <2>3
    <3>2. l[2] = e[i] /\ 2 <= Len(l)
      BY <1>1, <1>11, <2>1, <3>1
    <3> QED
      BY <3>2
  <2> QED
    BY <2>2, <2>3
<1> QED
  BY <1>1, <1>3, <1>11, <1>12, <1>13

\* The views are the problems of each kind, the store's first.
LEMMA ViewsListed ==
    ASSUME NEW p, WellShaped(p)
    PROVE  LET shown == summarizeRelations(p) \cup summarizeEvents
               artifacts == checkArtifactRefs(p, collectArtifactRefPageSources(p))
               all == shown \cup artifacts \cup collectStandingRelationProblems(p) \cup EntityProblems(p) IN
           /\ ProblemViews(p) \in Seq(all)
           /\ \A v \in shown : \E i \in 1..2 : i <= Len(ProblemViews(p)) /\ ProblemViews(p)[i] = v
<1> DEFINE R == summarizeRelations(p)
           E == summarizeEvents
           A == checkArtifactRefs(p, collectArtifactRefPageSources(p))
           G == collectStandingRelationProblems(p)
           N == EntityProblems(p)
           all == R \cup E \cup A \cup G \cup N
           r == SetToSeq(R)
           e == SetToSeq(E)
           a == SetToSeq(A)
           g == SetToSeq(G)
           n == SetToSeq(N)
<1>1. r \in Seq(R) /\ e \in Seq(E) /\ a \in Seq(A) /\ g \in Seq(G) /\ n \in Seq(N)
  BY ProblemsFinite, AllListed
<1>2. /\ Len(r) = Cardinality(R) /\ Len(e) = Cardinality(E)
      /\ \A v \in R : \E i \in DOMAIN r : r[i] = v
      /\ \A v \in E : \E i \in DOMAIN e : e[i] = v
  BY ProblemsFinite, AllListed
<1>3. Len(r) \in {0, 1} /\ Len(e) \in {0, 1}
  <2>1. Cardinality(R) \in {0, 1}
    BY FS_EmptySet, FS_Singleton DEF summarizeRelations
  <2>2. Cardinality(E) \in {0, 1}
    BY FS_EmptySet, FS_Singleton DEF summarizeEvents
  <2> QED
    BY <1>2, <2>1, <2>2
<1>4. ProblemViews(p) = ((r \o e) \o a) \o g \o n
  <2>1. ProblemViews(p) = ((r \o e) \o a) \o g \o n
    BY DEF ProblemViews, orderProblemViews
  <2> QED
    BY <2>1
<1>5. r \in Seq(all) /\ e \in Seq(all) /\ a \in Seq(all) /\ g \in Seq(all) /\ n \in Seq(all)
  <2> HIDE DEF r, e, a, g, n, R, E, A, G, N
  <2> QED
    BY <1>1
<1> HIDE DEF r, e, a, g, n, R, E, A, G, N, all
<1>6. /\ ProblemViews(p) \in Seq(all)
      /\ \A i \in DOMAIN r : \E j \in 1..2 : j <= Len(ProblemViews(p)) /\ ProblemViews(p)[j] = r[i]
      /\ \A i \in DOMAIN e : \E j \in 1..2 : j <= Len(ProblemViews(p)) /\ ProblemViews(p)[j] = e[i]
  <2> DEFINE l == ((r \o e) \o a) \o g \o n
  <2>1. /\ l \in Seq(all)
        /\ \A i \in DOMAIN r : \E j \in 1..2 : j <= Len(l) /\ l[j] = r[i]
        /\ \A i \in DOMAIN e : \E j \in 1..2 : j <= Len(l) /\ l[j] = e[i]
    BY <1>3, <1>5, FirstTwo
  <2>2. ProblemViews(p) = l
    BY <1>4
  <2> HIDE DEF l
  <2> QED
    BY <2>1, <2>2
<1>7. \A v \in R \cup E : \E i \in 1..2 : i <= Len(ProblemViews(p)) /\ ProblemViews(p)[i] = v
  BY <1>2, <1>6
<1> QED
  BY <1>6, <1>7 DEF R, E, A, G, N, all

\* What is shown is the list as far as the cap.
LEMMA EnvelopeIs ==
    ASSUME NEW p, WellShaped(p)
    PROVE  LET shown == collectProfileSummary(p).problems
               views == ProblemViews(p) IN
           /\ Len(shown) \in Nat /\ Len(shown) <= ProblemCap /\ Len(views) \in Nat
           /\ DOMAIN shown = 1..Len(shown)
           /\ \A i \in 1..2 : i <= Len(views) => i \in DOMAIN shown /\ shown[i] = views[i]
<1> DEFINE shown == collectProfileSummary(p).problems
           views == ProblemViews(p)
           n == IF Len(views) < ProblemCap THEN Len(views) ELSE ProblemCap
<1>1. shown = SubSeq(views, 1, n)
  BY DEF collectProfileSummary, problemEnvelope
<1>2. Len(views) \in Nat
  BY ViewsListed
<1>3. PICK T : views \in Seq(T)
  BY ViewsListed
<1> HIDE DEF shown, views
<1>4. ProblemCap \in Nat /\ ProblemCap >= 2
  BY ProfileAssumption
<1>5. n \in Nat /\ n <= ProblemCap /\ n <= Len(views)
  BY <1>2, <1>4
<1>6. \A i \in 1..2 : i <= Len(views) => i <= n
  BY <1>2, <1>4
<1> HIDE DEF n
<1>7. Len(shown) = n /\ DOMAIN shown = 1..n /\ \A i \in 1..n : shown[i] = views[i]
  BY <1>1, <1>2, <1>3, <1>5
<1>8. \A i \in 1..2 : i <= Len(views) => i \in 1..n
  BY <1>5, <1>6
<1> QED
  BY <1>2, <1>5, <1>7, <1>8 DEF shown, views

LEMMA TypesKept == ASSUME ProfileInv PROVE ProfileTypeOK
<1>1. Loaded => WellShaped(saved)
  BY DEF Loaded, ProfileInv
<1> QED
  BY <1>1, EnvelopeIs DEF ProfileTypeOK, ProfileInv, DiskSane, VerdictCurrent

LEMMA FaultsFirst == ASSUME ProfileInv PROVE StoreFaultShown
<1> SUFFICES ASSUME Loaded, NEW v \in summarizeRelations(saved) \cup summarizeEvents
             PROVE  \E i \in DOMAIN collectProfileSummary(saved).problems : collectProfileSummary(saved).problems[i] = v
  BY DEF StoreFaultShown
<1>1. WellShaped(saved)
  BY DEF Loaded, ProfileInv
<1>2. PICK i \in 1..2 : i <= Len(ProblemViews(saved)) /\ ProblemViews(saved)[i] = v
  BY <1>1, ViewsListed
<1> QED
  BY <1>1, <1>2, EnvelopeIs

LEMMA LintCovers == ASSUME ProfileInv PROVE LintCoversSummary
<1> SUFFICES ASSUME Loaded, NEW i \in DOMAIN ProblemViews(saved)
             PROVE  \E v \in lintProfileEntities(saved) : v.at = ProblemViews(saved)[i].at
  BY DEF LintCoversSummary
<1> DEFINE x == ProblemViews(saved)[i]
<1>1. WellShaped(saved) /\ validateProfile(saved)
  BY DEF Loaded, ProfileInv
<1>2. x \in summarizeRelations(saved) \cup summarizeEvents
            \cup checkArtifactRefs(saved, collectArtifactRefPageSources(saved))
            \cup collectStandingRelationProblems(saved) \cup EntityProblems(saved)
  <2>1. PICK T : ProblemViews(saved) \in Seq(T) /\ T = summarizeRelations(saved) \cup summarizeEvents
            \cup checkArtifactRefs(saved, collectArtifactRefPageSources(saved))
            \cup collectStandingRelationProblems(saved) \cup EntityProblems(saved)
    BY <1>1, ViewsListed
  <2>2. ProblemViews(saved)[i] \in T
    BY <2>1
  <2> QED
    BY <2>1, <2>2
<1> HIDE DEF x
<1>3. CASE x \in EntityProblems(saved) \cup collectStandingRelationProblems(saved)
  BY <1>3 DEF lintProfileEntities, x
<1>4. CASE x \in summarizeRelations(saved)
  <2>1. x.at = <<"graph", "relations">>
        /\ (health.relations # "ok" \/ \E l \in links : ~validateRelationAgainstProfile(saved, l))
    BY <1>4 DEF summarizeRelations, Problem
  <2>2. \E v \in checkRelationStore(saved) : v.at = <<"graph", "relations">>
    <3>1. CASE health.relations # "ok"
      BY <3>1 DEF checkRelationStore, Problem
    <3>2. CASE health.relations = "ok"
      <4>1. PICK l \in links : ~validateRelationAgainstProfile(saved, l)
        BY <2>1, <3>2
      <4>2. Problem("relation-profile-invalid", <<"graph", "relations">>) \in checkRelationStore(saved)
        BY <3>2, <4>1 DEF checkRelationStore
      <4> QED
        BY <4>2 DEF Problem
    <3> QED
      BY <3>1, <3>2
  <2> QED
    BY <2>1, <2>2 DEF lintProfileEntities, x
<1>5. CASE x \in summarizeEvents
  <2>1. x.at = <<"graph", "events">> /\ health.events = "tampered"
    BY <1>5 DEF summarizeEvents, Problem
  <2>2. Problem(health.events, <<"graph", "events">>) \in checkEventChain
    BY <2>1 DEF checkEventChain
  <2>3. Problem(health.events, <<"graph", "events">>).at = <<"graph", "events">>
    BY DEF Problem
  <2> QED
    BY <2>1, <2>2, <2>3 DEF lintProfileEntities, x
<1>6. CASE x \in checkArtifactRefs(saved, collectArtifactRefPageSources(saved))
  <2>1. PICK id \in collectArtifactRefPageSources(saved) :
            /\ checkPageArtifactRefs(saved, id) \/ checkGatedPageRequirements(saved, id)
            /\ x = Problem("artifact-store", PathOf(saved, id))
    BY <1>6 DEF checkArtifactRefs
  <2>2. DOMAIN saved.artifacts # {}
    BY <1>6 DEF checkArtifactRefs
  <2>3. /\ id = <<id[1], id[2]>> /\ id[1] \in AllTypes(saved) /\ id[2] \in Stems
        /\ id[2] \in scanEntityDir(saved.entities[id[1]].directory)
    <3>1. id \in AllTypes(saved) \X Stems /\ id[2] \in scanEntityDir(saved.entities[id[1]].directory)
      BY DEF collectArtifactRefPageSources
    <3> QED
      BY <3>1, Pairs
  <2>4. x.at = PathOf(saved, id)
    BY <2>1 DEF Problem
  <2>5. CASE id \in collectEntityPages(saved)
    <3>1. x \in checkArtifactRefs(saved, collectEntityPages(saved))
      BY <2>1, <2>2, <2>5 DEF checkArtifactRefs
    <3> QED
      BY <3>1 DEF lintProfileEntities, x
  <2>6. CASE id \notin collectEntityPages(saved)
    <3>1. id[2] \notin SlugStems \/ notes[PathOf(saved, id)].slug = "other"
      <4>1. ASSUME id[2] \in SlugStems, notes[PathOf(saved, id)].slug # "other" PROVE FALSE
        <5>1. id \in AllTypes(saved) \X SlugStems
          BY <2>3, <4>1
        <5> QED
          BY <2>3, <2>6, <4>1, <5>1 DEF collectEntityPages
      <4> QED
        BY <4>1
    <3>2. validateScan(saved, id[1], id[2]) # {}
      BY <2>3, <3>1 DEF validateScan
    <3>3. \E v \in EntityProblems(saved) : v.at = PathOf(saved, <<id[1], id[2]>>)
      BY <1>1, <2>3, <3>2, ProblemOfFile
    <3> QED
      BY <2>3, <2>4, <3>3 DEF lintProfileEntities, x
  <2> QED
    BY <2>5, <2>6
<1> QED
  BY <1>2, <1>3, <1>4, <1>5, <1>6

-----------------------------------------------------------------------------
(* Standing requirements, starter packs and diffs. *)

\* The index gives the other ends that a scan of the relations gives.
LEMMA IndexIsScan ==
    ASSUME NEW p, NEW id, NEW req, req.role \in {"from", "to"}
    PROVE  Others(p, id, req) = matchingOtherIds(p, id, req)
<1> DEFINE rels == readLiveValidRelations(p)
           K == {<<l.type, "from", l.from>> : l \in rels} \cup {<<l.type, "to", l.to>> : l \in rels}
           I(k) == {l.to : l \in {m \in rels : <<m.type, "from", m.from>> = k}}
                       \cup {l.from : l \in {m \in rels : <<m.type, "to", m.to>> = k}}
           key == <<req.relation, req.role, id>>
           M == matchingOtherIds(p, id, req)
<1>1. Others(p, id, req) = IF key \in K THEN I(key) ELSE {}
  BY DEF Others, buildRelationEndpointIndex, AtKey
<1>2. M = {IF req.role = "from" THEN l.to ELSE l.from :
              l \in {k \in rels : k.type = req.relation /\ id = IF req.role = "from" THEN k.from ELSE k.to}}
  BY DEF matchingOtherIds
<1> HIDE DEF rels, M
<1>3. CASE req.role = "from"
  <2>1. M = {l.to : l \in {k \in rels : k.type = req.relation /\ id = k.from}}
    BY <1>2, <1>3
  <2>2. \A m \in rels : /\ <<m.type, "from", m.from>> = key <=> m.type = req.relation /\ id = m.from
                        /\ <<m.type, "to", m.to>> # key
    BY <1>3
  <2>3. I(key) = M
    BY <2>1, <2>2
  <2>4. M # {} => key \in K
    BY <2>1, <2>2
  <2> HIDE DEF key, K, I
  <2> QED
    BY <1>1, <2>3, <2>4 DEF M
<1>4. CASE req.role = "to"
  <2>1. M = {l.from : l \in {k \in rels : k.type = req.relation /\ id = k.to}}
    BY <1>2, <1>4
  <2>2. \A m \in rels : /\ <<m.type, "to", m.to>> = key <=> m.type = req.relation /\ id = m.to
                        /\ <<m.type, "from", m.from>> # key
    BY <1>4
  <2>3. I(key) = M
    BY <2>1, <2>2
  <2>4. M # {} => key \in K
    BY <2>1, <2>2
  <2> HIDE DEF key, K, I
  <2> QED
    BY <1>1, <2>3, <2>4 DEF M
<1> QED
  BY <1>3, <1>4 DEF M

LEMMA StandingIsNow == ASSUME ProfileInv PROVE StandingAgrees
<1> SUFFICES ASSUME Loaded PROVE StandingAgrees
  BY DEF StandingAgrees
<1> DEFINE p == saved
           gated == collectGatedPages(p)
           now(id) == RelationGate(p, id, StateOf(p.entities[id[1]], FrontOf(p, id))[2])
           standing == collectStandingRelationProblems(p)
           blind(id) == \E req \in ReqsOf(p, id) :
                            \E o \in Candidates(req, Others(p, id, req)) : EndpointUnreadable(p, o)
           short(id) == \E req \in ReqsOf(p, id) : Cardinality(Counted(p, req, Others(p, id, req))) < req.min
<1>1. WellShaped(p)
  BY DEF Loaded, ProfileInv
<1>2. ASSUME NEW id \in gated
      PROVE  /\ ReqsOf(p, id) # {}
             /\ \A req \in ReqsOf(p, id) : Others(p, id, req) = matchingOtherIds(p, id, req)
  <2> DEFINE d == p.entities[id[1]]
             s == StateOf(d, FrontOf(p, id))[2]
  <2>1. /\ id[1] \in DOMAIN p.entities /\ StateOf(d, FrontOf(p, id)) # <<>>
        /\ AtKey(d.lifecycle[1].relationReqs, s) # {}
    BY DEF collectGatedPages, AllTypes
  <2>2. d.lifecycle # <<>>
    BY <2>1 DEF StateOf
  <2>3. \A req \in AtKey(d.lifecycle[1].relationReqs, s) : req.role \in {"from", "to"}
    BY <1>1, <2>1, <2>2 DEF WellShaped, AtKey
  <2> QED
    BY <2>1, <2>3, IndexIsScan DEF ReqsOf
<1>3. ASSUME NEW id \in gated
      PROVE  /\ now(id) = "unverifiable" <=> health.relations # "ok" \/ blind(id)
             /\ now(id) = "unmet" <=> ~(health.relations # "ok" \/ blind(id)) /\ short(id)
  <2>1. ReqsOf(p, id) = AtKey(p.entities[id[1]].lifecycle[1].relationReqs, StateOf(p.entities[id[1]], FrontOf(p, id))[2])
    BY DEF ReqsOf
  <2>2. now(id) = IF health.relations # "ok" \/ blind(id) THEN "unverifiable"
                  ELSE IF short(id) THEN "unmet" ELSE "met"
    BY <1>2, <2>1 DEF RelationGate
  <2> QED
    BY <2>2
<1>4. standing = IF gated = {} THEN {}
                 ELSE IF health.relations # "ok" \/ \E id \in gated : blind(id)
                 THEN {Problem("unverifiable", <<"graph", "relations">>)}
                 ELSE {Problem("unmet", PathOf(p, id)) : id \in {g \in gated : short(g)}}
  BY DEF collectStandingRelationProblems
<1> HIDE DEF now, blind, short, gated
<1>5. CASE \E id \in gated : now(id) = "unverifiable"
  BY <1>3, <1>4, <1>5 DEF StandingAgrees, now, gated
<1>6. CASE ~ \E id \in gated : now(id) = "unverifiable"
  <2>1. gated # {} => ~(health.relations # "ok" \/ \E id \in gated : blind(id))
    BY <1>3, <1>6
  <2>2. {g \in gated : short(g)} = {g \in gated : now(g) = "unmet"}
    BY <1>3, <2>1
  <2>3. standing = {Problem("unmet", PathOf(p, id)) : id \in {g \in gated : now(g) = "unmet"}}
    BY <1>4, <2>1, <2>2
  <2> QED
    BY <1>6, <2>3 DEF StandingAgrees, now, gated
<1> QED
  BY <1>5, <1>6

LEMMA StartersEmpty == ASSUME ProfileInv PROVE StarterIsEmpty
<1> SUFFICES ASSUME verdict.kind = "init", saved # None
             PROVE  /\ \A t \in AllTypes(saved) : collectEntitySummary(saved, t) = {}
                    /\ ProblemViews(saved) = <<>>
  BY DEF StarterIsEmpty
<1>1. PICK t \in DOMAIN StarterDir :
           /\ saved = buildStarterProfile(t) /\ validateProfile(saved)
           /\ folder[StarterDir[t]] # "invalid" /\ ~HasPages(StarterDir[t])
           /\ links = {} /\ health.relations = "ok" /\ health.events = "empty"
  BY DEF ProfileInv, VerdictCurrent
<1>2. /\ AllTypes(saved) = {t} /\ saved.entities[t].directory = StarterDir[t]
      /\ DOMAIN saved.artifacts = {}
  BY <1>1 DEF buildStarterProfile, AllTypes, NoEntries
<1>3. scanEntityDir(StarterDir[t]) = {}
  BY <1>1 DEF scanEntityDir, HasPages
<1>4. collectEntityPages(saved) = {} /\ collectGatedPages(saved) = {}
  <2>1. \A id \in AllTypes(saved) \X SlugStems : id[1] = t
    BY <1>2
  <2> QED
    BY <1>2, <1>3, <2>1 DEF collectEntityPages, collectGatedPages
<1>5. \A u \in AllTypes(saved) : collectEntitySummary(saved, u) = {}
  BY <1>4 DEF collectEntitySummary
<1>6. EntityProblems(saved) = {}
  <2> SUFFICES ASSUME NEW v \in EntityProblems(saved) PROVE FALSE
    OBVIOUS
  <2> QED
    BY <1>1, <1>2, <1>3, EntityProblemIs
<1>7. /\ summarizeRelations(saved) = {} /\ summarizeEvents = {}
      /\ checkArtifactRefs(saved, collectArtifactRefPageSources(saved)) = {}
      /\ collectStandingRelationProblems(saved) = {}
  BY <1>1, <1>2, <1>4 DEF summarizeRelations, summarizeEvents, checkArtifactRefs, collectStandingRelationProblems
<1>8. WellShaped(saved)
  BY DEF ProfileInv
<1>9. ProblemViews(saved) \in Seq({})
  BY <1>6, <1>7, <1>8, ViewsListed
<1> QED
  BY <1>5, <1>9

\* Two types never share a directory, so a directory tells its type.
LEMMA OwnerIs ==
    ASSUME NEW p, p # None => validateProfile(p), NEW d, NEW t
    PROVE  /\ t \in TypeAt(p, d) <=> t \in TypesOf(p) /\ DirOf(p, t) = d
           /\ t \in TypeAt(p, d) => TypeAt(p, d) = {t}
           /\ t \in TypesOf(p) => DirOf(p, t) \in Dirs
<1>1. CASE p = None
  <2>1. "wiki/concepts" # "wiki/queries" /\ {"wiki/concepts", "wiki/queries"} \subseteq Dirs
    BY ProfileAssumption DEF DefaultDirs
  <2> QED
    BY <1>1, <2>1 DEF TypeAt, TypesOf, DirOf
<1>2. CASE p # None
  <2> DEFINE owners == {u \in AllTypes(p) : p.entities[u].directory = d}
  <2>1. TypeAt(p, d) = IF owners = {} THEN {} ELSE {CHOOSE u \in owners : TRUE}
    BY <1>2 DEF TypeAt
  <2>2. \A u, v \in owners : u = v
    BY <1>2, AcceptedTypes
  <2>3. TypeAt(p, d) = owners
    <3> HIDE DEF owners
    <3> QED
      BY <2>1, <2>2
  <2>4. \A u \in AllTypes(p) : p.entities[u].directory \in Dirs
    BY <1>2, AcceptedTypes
  <2> QED
    BY <1>2, <2>2, <2>3, <2>4 DEF TypesOf, DirOf
<1> QED
  BY <1>1, <1>2

LEMMA DiffPlaces ==
    ASSUME NEW old, NEW new, NEW d, NEW s,
           d \in unionDirectories(old, new), s \in scanEntityDir(d)
    PROVE  {e \in diffProfiles(old, new).pages : e[1] = d /\ e[2] = s} = {<<d, s, classifyPage(s, d, old, new)>>}
<1> DEFINE W(c) == {<<c, q, classifyPage(q, c, old, new)>> : q \in scanEntityDir(c)}
           placed == diffProfiles(old, new).pages
           x == <<d, s, classifyPage(s, d, old, new)>>
<1>1. placed = UNION {W(c) : c \in unionDirectories(old, new)}
  BY DEF diffProfiles
<1>2. x \in W(d)
  OBVIOUS
<1>3. x \in placed
  <2> HIDE DEF W, placed, x
  <2> QED
    BY <1>1, <1>2
<1>4. ASSUME NEW e \in placed, e[1] = d, e[2] = s PROVE e = x
  <2>1. PICK c \in unionDirectories(old, new) : e \in W(c)
    <3> HIDE DEF W, placed
    <3> QED
      BY <1>1, <1>4
  <2>2. PICK q \in scanEntityDir(c) : e = <<c, q, classifyPage(q, c, old, new)>>
    BY <2>1
  <2>3. c = d /\ q = s
    BY <1>4, <2>2
  <2> QED
    BY <2>2, <2>3
<1>5. x[1] = d /\ x[2] = s
  OBVIOUS
<1> HIDE DEF x, placed
<1>6. {e \in placed : e[1] = d /\ e[2] = s} = {x}
  BY <1>3, <1>4, <1>5
<1> QED
  BY <1>6 DEF x, placed

LEMMA DiffsExact == ASSUME ProfileInv PROVE DiffExact
<1> SUFFICES ASSUME verdict.kind = "diff", NEW t \in TypesOf(verdict.old)
             PROVE  LET d == DirOf(verdict.old, t)
                        kept == t \in TypesOf(verdict.new)
                        place(s) == {e \in verdict.pages : e[1] = d /\ e[2] = s} IN
                    /\ folder[d] = "invalid" <=> d \in verdict.problems
                    /\ \A s \in scanEntityDir(d) \cap SlugStems :
                           place(s) = {<<d, s, IF ~kept THEN "deprecated"
                                               ELSE IF DirOf(verdict.new, t) = d THEN "unchanged" ELSE "needs-migration">>}
  BY DEF DiffExact
<1>1. PICK old, new : old = verdict.old /\ new = verdict.new
  OBVIOUS
<1>2. /\ verdict = diffProfiles(old, new)
      /\ new # None => validateProfile(new)
      /\ old # None => validateProfile(old)
  BY <1>1 DEF ProfileInv, VerdictCurrent
<1> DEFINE d == DirOf(old, t)
<1>3. d \in Dirs /\ t \in TypeAt(old, d) /\ TypeAt(old, d) = {t}
  BY <1>1, <1>2, OwnerIs
<1>4. d \in unionDirectories(old, new)
  BY <1>3 DEF unionDirectories
<1>5. folder[d] = "invalid" <=> d \in verdict.problems
  BY <1>2, <1>4 DEF diffProfiles
<1> HIDE DEF d
<1>6. ASSUME NEW s \in scanEntityDir(d) \cap SlugStems
      PROVE  classifyPage(s, d, old, new) = IF t \notin TypesOf(new) THEN "deprecated"
                                            ELSE IF DirOf(new, t) = d THEN "unchanged" ELSE "needs-migration"
  <2>1. (CHOOSE u \in TypeAt(old, d) : TRUE) = t
    BY <1>3
  <2>2. classifyPage(s, d, old, new) = classifyKnownType(t, d, new)
    BY <1>3, <2>1 DEF classifyPage
  <2>3. (\A e \in Dirs : t \notin TypeAt(new, e)) <=> t \notin TypesOf(new)
    BY <1>2, OwnerIs
  <2>4. t \in TypeAt(new, d) <=> t \in TypesOf(new) /\ DirOf(new, t) = d
    BY <1>2, OwnerIs
  <2> QED
    BY <2>2, <2>3, <2>4 DEF classifyKnownType
<1>7. \A s \in scanEntityDir(d) \cap SlugStems :
          {e \in verdict.pages : e[1] = d /\ e[2] = s} = {<<d, s, classifyPage(s, d, old, new)>>}
  BY <1>2, <1>4, DiffPlaces
<1> QED
  BY <1>1, <1>5, <1>6, <1>7 DEF d

-----------------------------------------------------------------------------
(* An accepted pack can be worked with. *)

\* An input that passes the declaration f.
GoodInput(f) ==
    CASE f.type = "string"    -> <<"string", "s">>
      [] f.type = "number"    -> <<"number", "n">>
      [] f.type = "boolean"   -> <<"boolean", "b">>
      [] f.type = "string[]"  -> <<"list", "l">>
      [] f.type = "entityRef" -> <<"id", CHOOSE t \in f.types : TRUE>>

LEMMA GoodInputPasses ==
    ASSUME NEW p, NEW f, f.type \in InputTypes, f.type = "entityRef" => f.types # {} /\ f.types \subseteq AllTypes(p)
    PROVE  /\ coerceField(f, GoodInput(f))
           /\ GoodInput(f) \in {<<"string", "s">>, <<"number", "n">>, <<"boolean", "b">>, <<"list", "l">>}
                                  \cup {<<"id", t>> : t \in AllTypes(p)}
<1>1. CASE f.type = "string"
  BY <1>1 DEF GoodInput, coerceField, TypeGuards
<1>2. CASE f.type = "number"
  BY <1>2 DEF GoodInput, coerceField, TypeGuards
<1>3. CASE f.type = "boolean"
  BY <1>3 DEF GoodInput, coerceField, TypeGuards
<1>4. CASE f.type = "string[]"
  BY <1>4 DEF GoodInput, coerceField, TypeGuards
<1>5. CASE f.type = "entityRef"
  <2>1. PICK t : t = (CHOOSE u \in f.types : TRUE)
    OBVIOUS
  <2>2. t \in f.types /\ GoodInput(f) = <<"id", t>>
    BY <1>5, <2>1 DEF GoodInput
  <2> QED
    BY <1>5, <2>2 DEF coerceField, TypeGuards
<1> QED
  BY <1>1, <1>2, <1>3, <1>4, <1>5 DEF InputTypes

LEMMA AcceptedInvokable == ASSUME ProfileInv PROVE ActionsInvokable
<1> SUFFICES ASSUME verdict.kind = "valid", NEW n \in DOMAIN saved.actions,
                    saved.actions[n].operation = "submit" =>
                        \A f \in SubmitFields(saved.actions[n]) :
                            saved.actions[n].inputs[f].type \in {"string", "entityRef"}
             PROVE  \E inputs \in InputsFor(saved, saved.actions[n]) : Dispatches(saved.actions[n], inputs)
  BY DEF ActionsInvokable
<1> DEFINE a == saved.actions[n]
           V == {<<"string", "s">>, <<"number", "n">>, <<"boolean", "b">>, <<"list", "l">>}
                    \cup {<<"id", t>> : t \in AllTypes(saved)}
           inputs == [i \in DOMAIN a.inputs |-> GoodInput(a.inputs[i])]
<1>1. saved # None /\ validateProfile(saved) /\ WellShaped(saved)
  BY DEF ProfileInv, VerdictCurrent
<1>2. /\ assertActionInputSchema(saved, a) /\ assertRunIdBearingActionDeclaresRunId(a)
      /\ assertSubmitActionPageOrArtifact(a)
  BY <1>1 DEF validateProfile, validateProfileShape, validateWorkflowActions
<1>3. ASSUME NEW i \in DOMAIN a.inputs
      PROVE  coerceField(a.inputs[i], GoodInput(a.inputs[i])) /\ GoodInput(a.inputs[i]) \in V
  <2>1. a.inputs[i].type \in InputTypes
    BY <1>1 DEF WellShaped
  <2>2. a.inputs[i].type = "entityRef" => a.inputs[i].types # {} /\ a.inputs[i].types \subseteq AllTypes(saved)
    BY <1>2 DEF assertActionInputSchema, AllTypes
  <2> QED
    BY <2>1, <2>2, GoodInputPasses
<1> HIDE DEF a, V
<1>4. inputs \in [DOMAIN a.inputs -> V]
  BY <1>3
<1>5. inputs \in InputsFor(saved, a)
  BY <1>4 DEF InputsFor, V
<1>6. DOMAIN inputs = DOMAIN a.inputs /\ \A i \in DOMAIN a.inputs : inputs[i] = GoodInput(a.inputs[i])
  OBVIOUS
<1> HIDE DEF inputs
<1>7. validateActionInputs(a, inputs)
  BY <1>3, <1>6 DEF validateActionInputs
<1>8. a.operation \in RunIdRequired => Given(a, inputs, "runId")
  BY <1>2, <1>6 DEF assertRunIdBearingActionDeclaresRunId, Given
<1>9. a.operation = "submit" => buildActionStageOutput(a, inputs)
  BY <1>2, <1>6 DEF assertSubmitActionPageOrArtifact, buildActionStageOutput, Given, a
<1>10. Dispatches(a, inputs)
  BY <1>7, <1>8, <1>9 DEF Dispatches
<1> QED
  BY <1>5, <1>10 DEF a

LEMMA SampleKinds ==
    ASSUME NEW p
    PROVE  /\ {<<"number", "n">>, <<"boolean", "b">>, <<"date", "d">>, <<"list", "l">>, <<"emptylist", "">>,
                <<"string", "s">>} \subseteq Samples(p)
           /\ \A a \in DOMAIN p.artifacts : <<"ref", a>> \in Samples(p) /\ <<"refs", a>> \in Samples(p)
           /\ \A t \in AllTypes(p) : \A f \in DOMAIN p.entities[t].fields : \A x \in p.entities[t].fields[f].enum :
                  <<"string", x>> \in Samples(p)
           /\ \A v \in Samples(p) : v[1] \in {"ref", "refs"} => v[2] \in DOMAIN p.artifacts
<1> DEFINE F(t) == {p.entities[t].fields[f] : f \in DOMAIN p.entities[t].fields}
           D == UNION {F(t) : t \in AllTypes(p)}
           X == UNION {d.enum : d \in D}
           S == {<<"string", x>> : x \in {"s"} \cup X}
           R == {<<"ref", a>> : a \in DOMAIN p.artifacts}
           L == {<<"refs", a>> : a \in DOMAIN p.artifacts}
           K == {<<"number", "n">>, <<"boolean", "b">>, <<"date", "d">>, <<"list", "l">>, <<"emptylist", "">>}
<1>1. Samples(p) = K \cup R \cup L \cup S
  BY DEF Samples
<1>2. ASSUME NEW t \in AllTypes(p), NEW f \in DOMAIN p.entities[t].fields, NEW x \in p.entities[t].fields[f].enum
      PROVE  x \in X
  <2>1. p.entities[t].fields[f] \in F(t)
    OBVIOUS
  <2>2. p.entities[t].fields[f] \in D
    <3> HIDE DEF F
    <3> QED
      BY <2>1
  <2> HIDE DEF D
  <2> QED
    BY <1>2, <2>2
<1> HIDE DEF X
<1>3. <<"string", "s">> \in S /\ \A x \in X : <<"string", x>> \in S
  OBVIOUS
<1>4. \A a \in DOMAIN p.artifacts : <<"ref", a>> \in R /\ <<"refs", a>> \in L
  OBVIOUS
<1>5. \A v \in K : v[1] \notin {"ref", "refs"}
  <2>1. \A v \in K : \/ v = <<"number", "n">> \/ v = <<"boolean", "b">> \/ v = <<"date", "d">>
                     \/ v = <<"list", "l">> \/ v = <<"emptylist", "">>
    BY Zenon DEF K
  <2> HIDE DEF K
  <2> SUFFICES ASSUME NEW v \in K PROVE v[1] \notin {"ref", "refs"}
    OBVIOUS
  <2>2. v[1] = "number" \/ v[1] = "boolean" \/ v[1] = "date" \/ v[1] = "list" \/ v[1] = "emptylist"
    <3>1. \A x, y : <<x, y>>[1] = x
      OBVIOUS
    <3> QED
      BY <2>1, <3>1, Zenon
  <2> QED
    BY <2>2
<1>6. \A v \in S : v[1] = "string"
  OBVIOUS
<1>7. \A v \in R \cup L : v[2] \in DOMAIN p.artifacts
  OBVIOUS
<1>8. {<<"number", "n">>, <<"boolean", "b">>, <<"date", "d">>, <<"list", "l">>, <<"emptylist", "">>} = K
  BY Zenon DEF K
<1> HIDE DEF K, R, L, S
<1>9. \A t \in AllTypes(p) : \A f \in DOMAIN p.entities[t].fields : \A x \in p.entities[t].fields[f].enum :
          <<"string", x>> \in Samples(p)
  BY <1>1, <1>2, <1>3
<1>10. \A v \in Samples(p) : v[1] \in {"ref", "refs"} => v[2] \in DOMAIN p.artifacts
  BY <1>1, <1>5, <1>6, <1>7
<1> QED
  BY <1>1, <1>3, <1>4, <1>8, <1>9, <1>10

\* What a page needs in state s can be given, unless the validator overlooked something.
LEMMA NeedsCanBeMet ==
    ASSUME NEW p, validateProfile(p), WellShaped(p), NEW t \in AllTypes(p),
           p.entities[t].lifecycle # <<>>, NEW s, ~Overlooked(p, p.entities[t], s),
           NEW f \in Needed(p.entities[t], s)
    PROVE  /\ f \in DOMAIN p.entities[t].fields
           /\ \E v \in Samples(p) : Admissible(p, p.entities[t], s, f, v)
<1> DEFINE d == p.entities[t]
           lc == d.lifecycle[1]
           reqs == AtKey(lc.artifactReqs, s)
           def == d.fields[f]
<1>1. /\ validateLifecycle(lc, d.fields) /\ validateRequiredFields(d)
      /\ \A g \in DOMAIN d.fields : assertArtifactTypesScoped(d.fields[g], DOMAIN p.artifacts)
  BY AcceptedTypes DEF validateEntity
<1>2. \A req \in reqs : assertArtifactReq(d, req, DOMAIN p.artifacts)
  BY DEF validateProfile, validateProfileShape, assertArtifactRequirementsDeclared, AllTypes, AtKey
<1>3. \A g \in AtKey(lc.evidence, s) : g \in DOMAIN d.fields /\ d.fields[g].type \in EvidenceCompatible
  BY <1>1 DEF validateLifecycle, assertEvidenceFieldsDeclared, AtKey
<1>4. f \in DOMAIN d.fields
  BY <1>1, <1>2, <1>3 DEF Needed, requiredFieldNames, validateRequiredFields, Cover, assertArtifactReq
<1>5. /\ def.range # "empty" /\ ~(def.type = "enum" /\ def.enum = {})
      /\ ~(def.type = "artifactRef" /\ DOMAIN p.artifacts = {})
      /\ \A q, r \in reqs : q.field = r.field => q.artifact = r.artifact
  BY <1>4 DEF Overlooked
<1>6. def.type \in FieldTypes
  BY <1>4 DEF WellShaped, AllTypes
<1>7. def.scope # Unscoped => def.type \in RefTypes /\ def.scope # {} /\ def.scope \subseteq DOMAIN p.artifacts
  BY <1>1, <1>4 DEF assertArtifactTypesScoped
<1>8. f \in AtKey(lc.evidence, s) => def.type \in EvidenceCompatible
  BY <1>3
<1>9. ASSUME NEW v \in Samples(p), matchesDeclaredType(def, v),
             def.type \in EvidenceCompatible => v[1] \in {"string", "number", "list"},
             \A req \in reqs : req.field = f => v = <<"ref", req.artifact>>,
             def.scope \in {Unscoped, {}} \/ v[2] \in def.scope
      PROVE  \E w \in Samples(p) : Admissible(p, d, s, f, w)
  <2>1. InRange(def, v)
    BY <1>5 DEF InRange
  <2>2. f \in AtKey(lc.evidence, s) => isEvidencePresent([g \in {f} |-> v], f)
    BY <1>8, <1>9 DEF isEvidencePresent
  <2>3. Admissible(p, d, s, f, v)
    BY <1>4, <1>9, <2>1, <2>2 DEF Admissible
  <2> QED
    BY <2>3
<1>10. CASE \E req \in reqs : req.field = f
  <2>1. PICK req \in reqs : req.field = f
    BY <1>10
  <2>2. /\ def.type = "artifactRef" /\ req.artifact \in DOMAIN p.artifacts
        /\ def.scope = Unscoped \/ req.artifact \in def.scope
    BY <1>2, <2>1 DEF assertArtifactReq
  <2>3. <<"ref", req.artifact>> \in Samples(p)
    BY <2>2, SampleKinds
  <2>4. matchesDeclaredType(def, <<"ref", req.artifact>>)
    BY <2>2 DEF matchesDeclaredType, TypePredicates
  <2>5. def.type \notin EvidenceCompatible
    BY <2>2 DEF EvidenceCompatible
  <2>6. \A q \in reqs : q.field = f => <<"ref", req.artifact>> = <<"ref", q.artifact>>
    BY <1>5, <2>1
  <2> QED
    BY <1>4, <1>9, <2>2, <2>3, <2>4, <2>5, <2>6
<1>11. CASE ~ \E req \in reqs : req.field = f
  <2>1. \A v : \A req \in reqs : req.field = f => v = <<"ref", req.artifact>>
    BY <1>11
  <2>2. CASE def.type \notin RefTypes \cup {"enum"}
    <3> DEFINE kind == CASE def.type \in {"string", "slug"} -> <<"string", "s">>
                         [] def.type \in {"integer", "number"} -> <<"number", "n">>
                         [] def.type = "boolean" -> <<"boolean", "b">>
                         [] def.type = "date" -> <<"date", "d">>
                         [] def.type = "string[]" -> <<"list", "l">>
    <3>1. def.type \in {"string", "slug", "integer", "number", "boolean", "date", "string[]"}
      BY <1>6, <2>2 DEF FieldTypes, RefTypes
    <3>2. kind \in Samples(p)
      BY <3>1, SampleKinds
    <3>3. matchesDeclaredType(def, kind)
      BY <3>1 DEF matchesDeclaredType, TypePredicates
    <3>4. def.type \in EvidenceCompatible => kind[1] \in {"string", "number", "list"}
      BY <3>1 DEF EvidenceCompatible
    <3>5. def.scope = Unscoped
      BY <1>7, <2>2
    <3> HIDE DEF kind
    <3> QED
      BY <1>4, <1>9, <2>1, <3>2, <3>3, <3>4, <3>5
  <2>3. CASE def.type = "enum"
    <3>1. PICK x \in def.enum : TRUE
      BY <1>5, <2>3
    <3>2. <<"string", x>> \in Samples(p)
      BY <1>4, SampleKinds
    <3>3. matchesDeclaredType(def, <<"string", x>>)
      BY <2>3 DEF matchesDeclaredType
    <3>4. def.scope = Unscoped
      BY <1>7, <2>3 DEF RefTypes
    <3> QED
      BY <1>4, <1>9, <2>1, <3>2, <3>3, <3>4
  <2>4. CASE def.type = "artifactRef"
    <3>1. PICK a \in DOMAIN p.artifacts : def.scope = Unscoped \/ a \in def.scope
      BY <1>5, <1>7, <2>4
    <3>2. <<"ref", a>> \in Samples(p)
      BY SampleKinds
    <3>3. matchesDeclaredType(def, <<"ref", a>>)
      BY <2>4 DEF matchesDeclaredType, TypePredicates
    <3>4. def.type \notin EvidenceCompatible
      BY <2>4 DEF EvidenceCompatible
    <3> QED
      BY <1>4, <1>9, <2>1, <3>1, <3>2, <3>3, <3>4
  <2>5. CASE def.type = "artifactRef[]"
    <3>1. def.type \notin EvidenceCompatible
      BY <2>5 DEF EvidenceCompatible
    <3>2. CASE def.scope = Unscoped
      <4>1. <<"emptylist", "">> \in Samples(p)
        BY SampleKinds
      <4>2. matchesDeclaredType(def, <<"emptylist", "">>)
        BY <2>5 DEF matchesDeclaredType, TypePredicates
      <4> QED
        BY <1>4, <1>9, <2>1, <3>1, <3>2, <4>1, <4>2
    <3>3. CASE def.scope # Unscoped
      <4>1. PICK a \in DOMAIN p.artifacts : a \in def.scope
        BY <1>7, <3>3
      <4>2. <<"refs", a>> \in Samples(p)
        BY SampleKinds
      <4>3. matchesDeclaredType(def, <<"refs", a>>)
        BY <2>5 DEF matchesDeclaredType, TypePredicates
      <4> QED
        BY <1>4, <1>9, <2>1, <3>1, <4>1, <4>2, <4>3
    <3> QED
      BY <3>2, <3>3
  <2> QED
    BY <2>2, <2>3, <2>4, <2>5 DEF RefTypes
<1> QED
  BY <1>4, <1>10, <1>11

\* A relation that state s requires can be added to a page of its own.
LEMMA LinksCanBeMet ==
    ASSUME NEW p, validateProfile(p), NEW t \in AllTypes(p), p.entities[t].lifecycle # <<>>, NEW s,
           NEW req \in AtKey(p.entities[t].lifecycle[1].relationReqs, s)
    PROVE  \E u \in AllTypes(p) :
               LET l == [type |-> req.relation, from |-> IF req.role = "from" THEN <<t, "x">> ELSE <<u, "y">>,
                         to |-> IF req.role = "from" THEN <<u, "y">> ELSE <<t, "x">>] IN
               /\ validateRelationAgainstProfile(p, l)
               /\ req.types = Unscoped \/ u \in req.types
               /\ req.states = Unscoped \/ req.states \cap StatesOfTypes(p, {u}) # {}
<1> DEFINE rel == p.relations[req.relation]
           allowed == IF req.types = Unscoped THEN OtherSide(rel, req.role) ELSE req.types
<1>1. assertRelationCountReq(p, t, req)
  BY DEF validateProfile, validateProfileShape, assertRelationRequirementsDeclared, AllTypes, AtKey
<1>2. /\ req.relation \in DOMAIN p.relations /\ rel.direction # "symmetric" /\ t \in OwnSide(rel, req.role)
      /\ req.types # Unscoped => req.types # {} /\ req.types \subseteq OtherSide(rel, req.role)
      /\ req.states # Unscoped => req.states # {} /\ req.states \subseteq StatesOfTypes(p, allowed)
  BY <1>1 DEF assertRelationCountReq
<1>3. rel.from # {} /\ rel.to # {} /\ rel.from \cup rel.to \subseteq AllTypes(p)
  BY <1>2 DEF validateProfile, validateProfileShape, validateRelations, AllTypes
<1>4. allowed # {} /\ allowed \subseteq OtherSide(rel, req.role) /\ OtherSide(rel, req.role) \subseteq AllTypes(p)
  BY <1>2, <1>3 DEF OtherSide
<1> HIDE DEF allowed
<1>5. PICK u \in allowed : req.states = Unscoped \/ req.states \cap StatesOfTypes(p, {u}) # {}
  <2>1. CASE req.states = Unscoped
    BY <1>4, <2>1
  <2>2. CASE req.states # Unscoped
    <3> DEFINE St(v) == lifecycleStates(p.entities[v].lifecycle[1])
               Having(ts) == {v \in ts : p.entities[v].lifecycle # <<>>}
    <3>1. \A ts : StatesOfTypes(p, ts) = UNION {St(v) : v \in Having(ts)}
      BY DEF StatesOfTypes
    <3>2. PICK x \in req.states : x \in StatesOfTypes(p, allowed)
      BY <1>2, <2>2
    <3> HIDE DEF St
    <3>3. PICK v \in Having(allowed) : x \in St(v)
      BY <3>1, <3>2
    <3>4. v \in Having({v})
      OBVIOUS
    <3>5. x \in StatesOfTypes(p, {v})
      BY <3>1, <3>3, <3>4
    <3> QED
      BY <3>2, <3>3, <3>5
  <2> QED
    BY <2>1, <2>2
<1> DEFINE l == [type |-> req.relation, from |-> IF req.role = "from" THEN <<t, "x">> ELSE <<u, "y">>,
                 to |-> IF req.role = "from" THEN <<u, "y">> ELSE <<t, "x">>]
<1>6. u \in AllTypes(p) /\ (req.types = Unscoped \/ u \in req.types)
  BY <1>4, <1>5 DEF allowed
<1>7. validateRelationAgainstProfile(p, l)
  <2>1. u \in OtherSide(rel, req.role)
    BY <1>4, <1>5
  <2>2. l.type = req.relation /\ AllowedEnds(rel) = <<rel.from, rel.to>>
    BY <1>2 DEF AllowedEnds
  <2>3. CASE req.role = "from"
    <3>1. l.from[1] = t /\ l.to[1] = u
      BY <2>3
    <3> QED
      BY <1>2, <2>1, <2>2, <2>3, <3>1 DEF validateRelationAgainstProfile, OwnSide, OtherSide
  <2>4. CASE req.role # "from"
    <3>1. l.from[1] = u /\ l.to[1] = t
      BY <2>4
    <3> QED
      BY <1>2, <2>1, <2>2, <2>4, <3>1 DEF validateRelationAgainstProfile, OwnSide, OtherSide
  <2> QED
    BY <2>3, <2>4
<1> HIDE DEF l
<1>8. /\ validateRelationAgainstProfile(p, l)
      /\ req.types = Unscoped \/ u \in req.types
      /\ req.states = Unscoped \/ req.states \cap StatesOfTypes(p, {u}) # {}
  BY <1>5, <1>6, <1>7
<1> QED
  BY <1>6, <1>8 DEF l

LEMMA StateCanBeEntered ==
    ASSUME NEW p, validateProfile(p), WellShaped(p), NEW t \in AllTypes(p), p.entities[t].lifecycle # <<>>,
           NEW s \in lifecycleStateSet(p.entities[t].lifecycle[1]), ~Overlooked(p, p.entities[t], s)
    PROVE  Enterable(p, t, s)
<1> DEFINE d == p.entities[t]
           lc == d.lifecycle[1]
           front == [f \in Needed(d, s) \cup {lc.field} |->
                        IF f = lc.field THEN <<"string", s>>
                        ELSE IF \E v \in Samples(p) : Admissible(p, d, s, f, v)
                        THEN CHOOSE v \in Samples(p) : Admissible(p, d, s, f, v) ELSE <<"none", "">>]
           reqs == AtKey(lc.artifactReqs, s)
<1>1. /\ validateLifecycle(lc, d.fields)
      /\ \A g \in DOMAIN d.fields : assertArtifactTypesScoped(d.fields[g], DOMAIN p.artifacts)
  BY AcceptedTypes DEF validateEntity
<1>2. s \in lifecycleStates(lc)
  BY <1>1 DEF validateLifecycle, lifecycleStateSet
<1>3. lc.field \in DOMAIN d.fields => d.fields[lc.field].type = "enum" /\ s \in d.fields[lc.field].enum
  BY <1>1, <1>2 DEF validateLifecycle, assertLifecycleEnum
<1>4. DOMAIN front = Needed(d, s) \cup {lc.field} /\ front[lc.field] = <<"string", s>>
  OBVIOUS
<1>5. ASSUME NEW f \in Needed(d, s), f # lc.field
      PROVE  f \in DOMAIN d.fields /\ front[f] \in Samples(p) /\ Admissible(p, d, s, f, front[f])
  <2>1. f \in DOMAIN d.fields /\ \E v \in Samples(p) : Admissible(p, d, s, f, v)
    BY NeedsCanBeMet
  <2>2. front[f] = CHOOSE v \in Samples(p) : Admissible(p, d, s, f, v)
    BY <1>5, <2>1
  <2> QED
    BY <2>1, <2>2
<1> HIDE DEF front
<1>6. ASSUME NEW f \in DOMAIN d.fields \cap DOMAIN front
      PROVE  /\ matchesDeclaredType(d.fields[f], front[f]) /\ InRange(d.fields[f], front[f])
             /\ d.fields[f].type \in RefTypes /\ front[f][1] \in {"ref", "refs"} =>
                    /\ front[f][2] \in DOMAIN p.artifacts
                    /\ d.fields[f].scope = Unscoped \/ front[f][2] \in d.fields[f].scope
  <2>1. CASE f = lc.field
    <3>1. d.fields[f].type = "enum" /\ s \in d.fields[f].enum /\ front[f] = <<"string", s>>
      BY <1>3, <1>4, <1>6, <2>1
    <3>2. front[f][1] = "string" /\ front[f][2] = s
      BY <3>1
    <3>3. "enum" \notin RefTypes /\ "string" # "number"
      BY DEF RefTypes
    <3> QED
      BY <3>1, <3>2, <3>3 DEF matchesDeclaredType, InRange
  <2>2. CASE f # lc.field
    <3>1. front[f] \in Samples(p) /\ Admissible(p, d, s, f, front[f])
      BY <1>4, <1>5, <2>2
    <3>2. front[f][1] \in {"ref", "refs"} => front[f][2] \in DOMAIN p.artifacts
      BY <3>1, SampleKinds
    <3>3. d.fields[f].scope # {} \/ d.fields[f].scope = Unscoped
      BY <1>1 DEF assertArtifactTypesScoped
    <3>4. d.fields[f].scope = Unscoped \/ front[f][2] \in d.fields[f].scope
      <4>1. d.fields[f].scope \in {Unscoped, {}} \/ front[f][2] \in d.fields[f].scope
        BY <1>6, <3>1 DEF Admissible
      <4> QED
        BY <3>3, <4>1
    <3> QED
      BY <1>6, <3>1, <3>2, <3>4 DEF Admissible
  <2> QED
    BY <2>1, <2>2
<1>7. entityFieldViolations(p, d, front) = {}
  <2>1. requiredFieldNames(d) \ DOMAIN front = {}
    BY <1>4 DEF Needed
  <2> QED
    BY <1>6, <2>1 DEF entityFieldViolations, validateEntityFields
<1>8. validateLifecycleTransition(d, <<>>, front)
  <2>1. StateOf(d, front) = <<"string", s>>
    BY <1>4 DEF StateOf
  <2>2. ASSUME NEW f \in AtKey(lc.evidence, s) PROVE isEvidencePresent(front, f)
    <3>1. f \in Needed(d, s) /\ f # lc.field
      BY <1>1 DEF Needed, validateLifecycle, assertEvidenceFieldsDeclared, AtKey
    <3>2. isEvidencePresent([g \in {f} |-> front[f]], f)
      BY <1>5, <2>2, <3>1 DEF Admissible
    <3> QED
      BY <1>4, <3>1, <3>2 DEF isEvidencePresent
  <2>3. <<"string", s>> # <<>> /\ <<"string", s>>[1] = "string" /\ <<"string", s>>[2] = s
    OBVIOUS
  <2> QED
    BY <2>1, <2>2, <2>3 DEF validateLifecycleTransition
<1>9. ASSUME NEW req \in reqs PROVE front[req.field] = <<"ref", req.artifact>>
  <2>1. req.field \in DOMAIN d.fields /\ d.fields[req.field].type = "artifactRef"
    BY DEF validateProfile, validateProfileShape, assertArtifactRequirementsDeclared, AllTypes, AtKey, assertArtifactReq
  <2>2. req.field # lc.field /\ req.field \in Needed(d, s)
    BY <1>3, <2>1 DEF Needed
  <2> QED
    BY <1>5, <2>2 DEF Admissible
<1>10. \A req \in AtKey(lc.relationReqs, s) :
           \E u \in AllTypes(p) :
               LET l == [type |-> req.relation, from |-> IF req.role = "from" THEN <<t, "x">> ELSE <<u, "y">>,
                         to |-> IF req.role = "from" THEN <<u, "y">> ELSE <<t, "x">>] IN
               /\ validateRelationAgainstProfile(p, l)
               /\ req.types = Unscoped \/ u \in req.types
               /\ req.states = Unscoped \/ req.states \cap StatesOfTypes(p, {u}) # {}
  BY LinksCanBeMet
<1> QED
  BY <1>7, <1>8, <1>9, <1>10 DEF Enterable, front

LEMMA AcceptedEnterable == ASSUME ProfileInv PROVE StatesEnterable
  BY StateCanBeEntered DEF StatesEnterable, ProfileInv, VerdictCurrent

-----------------------------------------------------------------------------
(* Every step. *)

LEMMA StarterShaped == ASSUME NEW t PROVE buildStarterProfile(t) # None => WellShaped(buildStarterProfile(t))
<1> DEFINE p == buildStarterProfile(t)
<1>1. /\ DOMAIN p.entities = {t} /\ p.entities[t].lifecycle = <<>> /\ p.actions = NoEntries
      /\ \A f \in DOMAIN p.entities[t].fields : p.entities[t].fields[f].type = "string"
  BY DEF buildStarterProfile
<1>2. IsFiniteSet(DOMAIN p.entities)
  BY <1>1, FS_Singleton
<1> HIDE DEF p
<1>3. "string" \in FieldTypes /\ DOMAIN NoEntries = {}
  BY DEF FieldTypes, NoEntries
<1>4. p # None => WellShaped(p)
  BY <1>1, <1>2, <1>3 DEF WellShaped
<1> QED
  BY <1>4 DEF p

\* An edit leaves no verdict behind.
LEMMA EditClears ==
    ASSUME ProfileInv, Edit
    PROVE  edits' \in 0..MaxEdits /\ verdict'.kind = "none" /\ VerdictCurrent'
<1>1. edits' \in 0..MaxEdits
  BY ProfileAssumption DEF Edit, ProfileInv, DiskSane
<1>2. verdict' = [kind |-> "none"]
  BY DEF Edit
<1>3. verdict'.kind = "none"
  BY <1>2
<1> QED
  BY <1>1, <1>3 DEF VerdictCurrent

\* A verdict changes nothing on disk.
LEMMA SayKeeps ==
    ASSUME ProfileInv, NEW v, Say(v) PROVE verdict' = v /\ DiskSane' /\ saved' = saved
  BY DEF ProfileInv, DiskSane, Say

LEMMA SavedPackKept ==
    ASSUME ProfileInv, NEW p \in DiffPacks, SaveProfile(p) PROVE ProfileInv'
<1>1. WellShaped(p)
  BY PacksAssumption
<1> QED
  BY <1>1, EditClears DEF SaveProfile, ProfileInv, DiskSane

LEMMA WrittenNoteKept ==
    ASSUME ProfileInv, NEW d \in SafeDirs, NEW s \in Stems, NEW n \in Notes \cup {None}, WriteNote(d, s, n)
    PROVE  ProfileInv'
<1>1. d \in Dirs /\ <<d, s>> \in Dirs \X Stems
  BY ProfileAssumption
<1>2. notes' = [notes EXCEPT ![<<d, s>>] = n] /\ folder[d] = "ok" /\ UNCHANGED <<saved, folder, links, health>> /\ Edit
  BY DEF WriteNote
<1>3. notes' \in [Dirs \X Stems -> Notes \cup {None}]
  BY <1>1, <1>2 DEF ProfileInv, DiskSane
<1>4. \A k \in Dirs \X Stems : notes'[k] # None => folder[k[1]] = "ok"
  BY <1>1, <1>2 DEF ProfileInv, DiskSane
<1> QED
  BY <1>2, <1>3, <1>4, EditClears DEF ProfileInv, DiskSane

LEMMA ChangedFolderKept ==
    ASSUME ProfileInv, NEW d \in SafeDirs, NEW to \in {"ok", "missing", "invalid"}, ChangeFolder(d, to)
    PROVE  ProfileInv'
<1>1. d \in Dirs
  BY ProfileAssumption
<1>2. /\ folder' = [folder EXCEPT ![d] = to] /\ UNCHANGED <<saved, links, health>> /\ Edit
      /\ notes' = [k \in DOMAIN notes |-> IF k[1] = d /\ to # "ok" THEN None ELSE notes[k]]
  BY DEF ChangeFolder
<1>3. notes' \in [Dirs \X Stems -> Notes \cup {None}] /\ folder' \in [Dirs -> {"ok", "missing", "invalid"}]
  BY <1>1, <1>2 DEF ProfileInv, DiskSane
<1>4. \A k \in Dirs \X Stems : notes'[k] # None => folder'[k[1]] = "ok"
  <2> SUFFICES ASSUME NEW k \in Dirs \X Stems, notes'[k] # None PROVE folder'[k[1]] = "ok"
    OBVIOUS
  <2>1. k[1] \in Dirs /\ k \in DOMAIN notes /\ DOMAIN folder = Dirs
    BY DEF ProfileInv, DiskSane
  <2>2. notes[k] # None /\ ~(k[1] = d /\ to # "ok")
    BY <1>2, <2>1
  <2>3. folder[k[1]] = "ok"
    BY <2>2 DEF ProfileInv, DiskSane
  <2> QED
    BY <1>2, <2>1, <2>2, <2>3
<1> QED
  BY <1>2, <1>3, <1>4, EditClears DEF ProfileInv, DiskSane

LEMMA SubmittedPageKept ==
    ASSUME ProfileInv, saved # None, NEW t \in DOMAIN saved.entities, NEW s \in SlugStems, NEW n \in Notes,
           SubmitPage(t, s, n)
    PROVE  ProfileInv'
<1> DEFINE d == saved.entities[t].directory
<1>1. d \in Dirs
  BY AcceptedTypes DEF SubmitPage, Loaded
<1>2. s \in Stems /\ <<d, s>> \in Dirs \X Stems
  BY <1>1, ProfileAssumption
<1>3. /\ folder' = [folder EXCEPT ![d] = "ok"] /\ notes' = [notes EXCEPT ![<<d, s>>] = n]
      /\ UNCHANGED <<saved, links, health>> /\ Edit
  BY DEF SubmitPage
<1> HIDE DEF d
<1>4. notes' \in [Dirs \X Stems -> Notes \cup {None}] /\ folder' \in [Dirs -> {"ok", "missing", "invalid"}]
  BY <1>1, <1>2, <1>3 DEF ProfileInv, DiskSane
<1>5. \A k \in Dirs \X Stems : notes'[k] # None => folder'[k[1]] = "ok"
  <2> SUFFICES ASSUME NEW k \in Dirs \X Stems, notes'[k] # None PROVE folder'[k[1]] = "ok"
    OBVIOUS
  <2>1. k[1] \in Dirs /\ DOMAIN folder = Dirs /\ DOMAIN notes = Dirs \X Stems
    BY DEF ProfileInv, DiskSane
  <2>2. CASE k = <<d, s>>
    <3>1. k[1] = d
      BY <2>2
    <3> QED
      BY <1>3, <2>1, <3>1
  <2>3. CASE k # <<d, s>>
    <3>1. notes[k] # None
      BY <1>3, <2>1, <2>3
    <3>2. folder[k[1]] = "ok"
      BY <3>1 DEF ProfileInv, DiskSane
    <3> QED
      BY <1>3, <2>1, <3>2
  <2> QED
    BY <2>2, <2>3
<1> QED
  BY <1>3, <1>4, <1>5, EditClears DEF ProfileInv, DiskSane

LEMMA StarterKept ==
    ASSUME ProfileInv, NEW t \in DOMAIN StarterDir, installStarterProfile(t) PROVE ProfileInv'
<1> DEFINE p == buildStarterProfile(t)
           d == StarterDir[t]
<1>1. /\ saved = None /\ validateProfile(p) /\ isTypedCorpusEmpty(p) /\ edits < MaxEdits /\ edits' = edits + 1
      /\ saved' \in {p, None} /\ verdict'.kind = "init"
      /\ \E to \in {"missing", "ok"} :
             /\ folder' = [folder EXCEPT ![d] = to]
             /\ to = "missing" => folder[d] = "missing"
      /\ UNCHANGED <<notes, links, health>>
  <2>1. PICK outcome \in {"installed", "not-installed", "unknown"}, cleaned \in BOOLEAN :
           /\ saved' \in CASE outcome = "installed" -> {p} [] outcome = "unknown" -> {p, None} [] OTHER -> {None}
           /\ folder' = [folder EXCEPT ![d] =
                  IF outcome = "not-installed" /\ cleaned /\ folder[d] = "missing" THEN "missing" ELSE "ok"]
           /\ verdict' = [kind |-> "init", outcome |-> outcome]
    BY DEF installStarterProfile
  <2>2. /\ saved = None /\ validateProfile(p) /\ isTypedCorpusEmpty(p) /\ edits < MaxEdits /\ edits' = edits + 1
        /\ UNCHANGED <<notes, links, health>>
    BY DEF installStarterProfile
  <2> HIDE DEF p, d
  <2>3. saved' \in {p, None} /\ verdict'.kind = "init"
    BY <2>1
  <2>4. \E to \in {"missing", "ok"} :
            /\ folder' = [folder EXCEPT ![d] = to]
            /\ to = "missing" => folder[d] = "missing"
    BY <2>1
  <2> QED
    BY <2>2, <2>3, <2>4
<1>2. AllTypes(p) = {t} /\ p.entities[t].directory = d
  BY DEF buildStarterProfile, AllTypes
<1>3. saved' # None => saved' = p /\ WellShaped(p)
  BY <1>1, StarterShaped
<1> HIDE DEF p, d
<1>4. d \in Dirs /\ folder[d] # "invalid" /\ ~HasPages(d)
      /\ links = {} /\ health.relations = "ok" /\ health.events = "empty"
  <2>1. d \in Dirs
    BY <1>1, <1>2, AcceptedTypes
  <2> QED
    BY <1>1, <1>2, <2>1 DEF isTypedCorpusEmpty
<1>5. PICK to \in {"missing", "ok"} :
          folder' = [folder EXCEPT ![d] = to] /\ (to = "missing" => folder[d] = "missing")
  BY <1>1
<1>6. folder \in [Dirs -> {"ok", "missing", "invalid"}] /\ DOMAIN folder = Dirs
      /\ \A k \in Dirs \X Stems : notes[k] # None => folder[k[1]] = "ok"
  BY DEF ProfileInv, DiskSane
<1>7. folder' \in [Dirs -> {"ok", "missing", "invalid"}] /\ folder'[d] # "invalid"
  BY <1>4, <1>5, <1>6
<1>8. \A k \in Dirs \X Stems : notes[k] # None => folder'[k[1]] = "ok"
  <2> SUFFICES ASSUME NEW k \in Dirs \X Stems, notes[k] # None PROVE folder'[k[1]] = "ok"
    OBVIOUS
  <2>1. k[1] \in Dirs /\ folder[k[1]] = "ok"
    BY <1>6
  <2> QED
    BY <1>5, <1>6, <2>1
<1>9. DiskSane'
  BY <1>1, <1>7, <1>8, ProfileAssumption DEF ProfileInv, DiskSane
<1>10. HasPages(d)' = HasPages(d)
  BY <1>1 DEF HasPages
<1>11. VerdictCurrent'
  <2>1. saved' # None => \E u \in DOMAIN StarterDir :
               /\ saved' = buildStarterProfile(u) /\ validateProfile(saved')
               /\ folder'[StarterDir[u]] # "invalid" /\ ~HasPages(StarterDir[u])'
               /\ links' = {} /\ health'.relations = "ok" /\ health'.events = "empty"
    BY <1>1, <1>3, <1>4, <1>7, <1>10 DEF p, d
  <2> QED
    BY <1>1, <2>1 DEF VerdictCurrent
<1> QED
  BY <1>3, <1>9, <1>11 DEF ProfileInv

LEMMA ValidatedKept == ASSUME ProfileInv, profileValidate PROVE ProfileInv'
<1>1. PICK v : /\ Say(v) /\ v.kind \in {"valid", "invalid"}
               /\ v.kind = "valid" => saved # None /\ validateProfile(saved)
  BY DEF profileValidate
<1>2. verdict' = v /\ DiskSane' /\ saved' = saved
  BY <1>1, SayKeeps
<1>3. VerdictCurrent'
  BY <1>1, <1>2 DEF VerdictCurrent
<1> QED
  BY <1>2, <1>3 DEF ProfileInv

LEMMA ComparedKept == ASSUME ProfileInv, NEW p \in DiffPacks, profileDiff(p) PROVE ProfileInv'
<1>1. /\ saved # None => validateProfile(saved)
      /\ validateProfile(p) /\ p # None /\ Say(diffProfiles(saved, p))
  BY PacksAssumption DEF profileDiff, WellShaped
<1>2. verdict' = diffProfiles(saved, p) /\ DiskSane' /\ saved' = saved
  BY <1>1, SayKeeps
<1>3. UNCHANGED <<folder, notes>>
  BY <1>1 DEF Say
<1>4. diffProfiles(saved, p)' = diffProfiles(saved, p)
  BY <1>2, <1>3 DEF diffProfiles, scanEntityDir
<1>5. verdict'.kind = "diff" /\ verdict'.old = saved /\ verdict'.new = p
  BY <1>2 DEF diffProfiles
<1>6. VerdictCurrent'
  BY <1>1, <1>2, <1>4, <1>5 DEF VerdictCurrent
<1> QED
  BY <1>2, <1>6 DEF ProfileInv

LEMMA ProfileKept == ProfileInv /\ [ProfileNext]_profileVars => ProfileInv'
<1> SUFFICES ASSUME ProfileInv, [ProfileNext]_profileVars PROVE ProfileInv'
  OBVIOUS
<1>1. CASE \E h \in Healths : Damage(h)
  BY <1>1, EditClears DEF Damage, ProfileInv, DiskSane
<1>2. CASE \E l \in Links : AddRelation(l)
  BY <1>2, EditClears DEF AddRelation, ProfileInv, DiskSane
<1>3. CASE \E l \in Links : DeleteRelationLine(l)
  BY <1>3, EditClears DEF DeleteRelationLine, ProfileInv, DiskSane
<1>4. CASE UNCHANGED profileVars
  <2>1. UNCHANGED <<saved, folder, notes, links, health, verdict, edits>>
    BY <1>4 DEF profileVars
  <2>2. DiskSane'
    BY <2>1 DEF ProfileInv, DiskSane
  <2>3. diffProfiles(verdict.old, verdict.new)' = diffProfiles(verdict.old, verdict.new)
    BY <2>1 DEF diffProfiles, scanEntityDir
  <2>4. \A t \in DOMAIN StarterDir : HasPages(StarterDir[t])' = HasPages(StarterDir[t])
    BY <2>1 DEF HasPages
  <2>5. VerdictCurrent'
    BY <2>1, <2>3, <2>4 DEF ProfileInv, VerdictCurrent
  <2> QED
    BY <2>1, <2>2, <2>5 DEF ProfileInv
<1> QED
  BY <1>1, <1>2, <1>3, <1>4, SavedPackKept, ComparedKept, WrittenNoteKept, ChangedFolderKept, SubmittedPageKept,
     ValidatedKept, StarterKept DEF ProfileNext

\* For any packs and projects: a pack that is accepted can be worked with - every state of
\* its lifecycles can be entered, every action invoked, but for what Overlooked lists - and
\* the summary, lint, the standing check, the diff and the capped list of problems agree with
\* the files and with each other (validate.ts, collect.ts, lint.ts, relation-standing.ts,
\* diff.ts, block.ts, scaffold.ts).
THEOREM ProfilesAreSound == ProfileSpec => []ProfileSound
<1>1. ProfileFound => ProfileInv
  BY DEF ProfileFound, ProfileInv, DiskSane, VerdictCurrent
<1>2. ProfileInv => ProfileSound
  BY TypesKept, AcceptedEnterable, AcceptedInvokable, CountedOrNamed, LintCovers, StandingIsNow, FaultsFirst,
     DiffsExact, StartersEmpty DEF ProfileSound
<1> QED
  BY <1>1, <1>2, ProfileKept, PTL DEF ProfileSpec
=============================================================================
