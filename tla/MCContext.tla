----------------------------- MODULE MCContext -----------------------------
EXTENDS Context

ConceptIds == {1, 2, 3, 7}
Typed == {4, 5}
Missing == {6}
Chars == [envelope |-> 40, neighbors |-> 9, primary |-> 14, chunks |-> 10, sourceWindows |-> 11,
          contentTiers |-> 7, reason |-> 6, note |-> 5]

P == ConceptIds \cup Typed

Plain == [match |-> [p \in P |-> IF p \in {1, 2, 4} THEN "title" ELSE "none"],
          exact |-> [p \in P |-> {}], hits |-> [p \in P |-> 0], semantic |-> "ok",
          links |-> {}, relations |-> {}, kind |-> [p \in P |-> "concept"],
          included |-> Typed, citations |-> [p \in P |-> <<>>], tiers |-> [p \in P |-> <<>>], notices |-> {},
          problems |-> {}, recommended |-> <<"view">>,
          budget |-> 500, depth |-> 2, topPages |-> 3, neighbors |-> TRUE, sources |-> FALSE]

(* Every graph over a few possible edges, with one to three primaries. *)
GraphCases ==
    {[Plain EXCEPT !.links = l \cup {<<1, 6>>}, !.relations = r, !.depth = d, !.topPages = t, !.included = i,
                   !.kind = [p \in P |-> IF i = {} /\ p \in {3, 7} THEN "paper" ELSE "concept"]] :
        l \in SUBSET {<<1, 2>>, <<3, 1>>, <<1, 3>>, <<2, 3>>, <<1, 7>>, <<7, 3>>, <<2, 2>>},
        r \in {{}, {<<5, 4>>, <<6, 4>>}},
        d \in 1..2, t \in 1..3, i \in {{}, Typed}}

(* Every evidence for three pages, and every outcome of the retrieval. *)
RankCases ==
    {[Plain EXCEPT !.match = [p \in P |-> IF p \in DOMAIN m THEN m[p] ELSE "none"],
                   !.exact[1] = x, !.exact[2] = y,
                   !.hits[2] = h, !.hits[3] = g, !.semantic = s, !.topPages = t,
                   !.depth = t, !.links = {<<1, 2>>, <<3, 1>>}] :
        m \in [{1, 2, 3} -> {"title", "body", "none"}],
        x \in SUBSET {"slug", "title"}, y \in {{}, {"slug"}},
        h \in {0, 5}, g \in {0, 2},
        s \in {"ok", "query-embedding-unavailable"}, t \in {0, 2}}

(* Every budget for a pack with all of its sections. *)
BudgetCases ==
    {[Plain EXCEPT !.hits[1] = h, !.hits[2] = 1, !.tiers[4] = <<"body", "empty">>, !.notices = {"truncated-prompt"}, !.links = l,
                   !.relations = {<<4, 5>>}, !.citations[1] = c, !.citations[2] = e,
                   !.sources = s, !.problems = {pr}, !.budget = b] :
        h \in {0, 2}, l \in {{<<1, 2>>}, {<<1, 2>>, <<2, 3>>}},
        c \in {<<>>, <<"readable">>, <<"readable", "unreadable">>},
        e \in {<<"readable">>, <<"whole-file", "readable", "readable">>},
        s \in BOOLEAN, b \in {8 + 3 * n : n \in 0..13} \cup {43},
        pr \in {"pending-candidates", "relation-store-unavailable"}}

ContextInit ==
    /\ asked \in GraphCases \/ asked \in RankCases \/ asked \in BudgetCases
    /\ stage = "snapshot" /\ pack = <<>> /\ trimmed = {}
=============================================================================
