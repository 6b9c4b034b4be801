---------------------------- MODULE MCEmbeddings ----------------------------
(* Embeddings with two pages that share a slug.                            *)
EXTENDS Embeddings, TLC

CONSTANTS p1, p2, s, m1, m2

MCPages == {p1, p2}

MCSlugOf == [p \in {p1, p2} |-> s]

Text(h, cs, ok) == [h |-> h, cs |-> cs, ok |-> ok, poison |-> FALSE]

(* A page, the same page orphaned, with a chunk appended, and retitled.    *)
MCContents == {Text(1, <<1>>, TRUE), Text(1, <<1>>, FALSE), Text(1, <<1, 2>>, TRUE),
               Text(2, <<1>>, TRUE)}

MCFirst == Text(1, <<1>>, TRUE)

MCDim == [m \in Models |-> 1]

Sym == Permutations(Models)
=============================================================================
